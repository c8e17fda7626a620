------------------------ MODULE PrivilegedDaemonProofs ------------------------
(***************************************************************************)
(* Theorems about PrivilegedDaemon for every number of connections and     *)
(* kernel processes: no kernel is lost, for the helper and the service,    *)
(* however requests overlap and whenever the daemon is stopped; the service*)
(* leaves none behind; and for a client that awaits its answers a kernel   *)
(* starts only on an empty host.                                           *)
(***************************************************************************)
EXTENDS PrivilegedDaemon, TLAPS

Processes == Kernels \cup {NoKernel}

LEMMA RequestTypes ==
    ASSUME TypeOK, NEW c \in Conns
    PROVE  /\ Idle \in Requests /\ req[c] \in Requests
           /\ \A r \in {"Running", "NotRunning", "Started", "Stopped", "Error"} :
                 Reply(c, r) \in Requests
           /\ \A pc \in {"idle", "queued", "killing", "dirs"}, k \in Processes :
                 [req[c] EXCEPT !.pc = pc, !.victim = k] \in Requests
           /\ \A op \in {"Status", "StartKernel", "StopKernel"} :
                 [Idle EXCEPT !.pc = "queued", !.op = op] \in Requests
  <1>1. req[c] \in Requests
    BY DEF TypeOK
  <1> QED
    BY <1>1 DEF Requests, Idle, Reply, Processes

\* Nothing changes the kind of client after the initial state.
LEMMA ClientIsFixed == [Next]_vars => UNCHANGED client
  <1>1. ASSUME NEW c \in Conns, NEW op, Send(c, op) PROVE UNCHANGED client
    BY <1>1 DEF Send
  <1>2. ASSUME NEW c \in Conns, Handle(c) PROVE UNCHANGED client
    BY <1>2
    DEF Handle, Status, RejectStart, StartKernel, StopKernel, Killed, SpawnChild, SpawnError
  <1>3. ASSUME BeginStop \/ StopKilled PROVE UNCHANGED client
    BY <1>3 DEF BeginStop, StopKilled, Exit
  <1>4. ASSUME NEW k \in Kernels, KernelExit(k) PROVE UNCHANGED client
    BY <1>4 DEF KernelExit
  <1> QED
    BY <1>1, <1>2, <1>3, <1>4 DEF Next, vars

LEMMA NextTypeOK == TypeOK /\ [Next]_vars => TypeOK'
  <1> SUFFICES ASSUME TypeOK, [Next]_vars PROVE TypeOK'
    OBVIOUS
  <1> USE DEF TypeOK, Processes
  <1> client' \in Clients
    BY ClientIsFixed
  <1>1. ASSUME NEW c \in Conns, NEW op \in {"Status", "StartKernel", "StopKernel"},
               Send(c, op)
        PROVE  TypeOK'
    BY <1>1, RequestTypes DEF Send
  <1>2. ASSUME NEW c \in Conns, Status(c) \/ RejectStart(c) \/ SpawnError(c)
        PROVE  TypeOK'
    BY <1>2, RequestTypes DEF Status, RejectStart, SpawnError
  <1>3. ASSUME NEW c \in Conns, StartKernel(c)
        PROVE  TypeOK'
    BY <1>3, RequestTypes DEF StartKernel, TakeAndKill, Held
  <1>4. ASSUME NEW c \in Conns, StopKernel(c)
        PROVE  TypeOK'
    <2>1. req' \in [Conns -> Requests]
      <3>1. CASE Held = {}
        BY <1>4, <3>1, RequestTypes DEF StopKernel
      <3>2. CASE Held # {}
        BY <1>4, <3>2, RequestTypes DEF StopKernel
      <3> QED
        BY <3>1, <3>2
    <2> QED
      BY <1>4, <2>1 DEF StopKernel, TakeAndKill, Held
  <1>5. ASSUME NEW c \in Conns, Killed(c)
        PROVE  TypeOK'
    BY <1>5, RequestTypes DEF Killed
  <1>6. ASSUME NEW c \in Conns, NEW k \in Kernels, SpawnChild(c, k)
        PROVE  TypeOK'
    BY <1>6, RequestTypes DEF SpawnChild, Held
  <1>7. ASSUME Exit PROVE TypeOK'
    <2>1. req' \in [Conns -> Requests]
      BY <1>7, RequestTypes DEF Exit
    <2> QED
      BY <1>7, <2>1 DEF Exit, Held
  <1>8. CASE BeginStop
    BY <1>7, <1>8 DEF BeginStop, TakeAndKill, Held
  <1>9. CASE StopKilled
    BY <1>7, <1>9 DEF StopKilled, TakeAndKill, Held
  <1>10. ASSUME NEW k \in Kernels, KernelExit(k)
         PROVE  TypeOK'
    BY <1>10 DEF KernelExit
  <1>11. CASE UNCHANGED vars
    BY <1>11 DEF vars
  <1> QED
    BY <1>1, <1>2, <1>3, <1>4, <1>5, <1>6, <1>8, <1>9, <1>10, <1>11 DEF Next, Handle

LEMMA InitTypeOK == Init => TypeOK
  BY DEF Init, TypeOK, Idle, Requests

(* helper/src/main.rs and svc/src/main.rs: every variable is in its range.  *)
THEOREM TypeCorrect == Spec => []TypeOK
  BY InitTypeOK, NextTypeOK, PTL DEF Spec

-----------------------------------------------------------------------------
(* start_kernel, kill_kernel: a kernel that runs and was not killed is in   *)
(* the slot, however many handlers are between their awaits.                *)
THEOREM NoKernelLost == Spec => []NoKernelIsLost
  <1>1. Init => NoKernelIsLost
    BY DEF Init, NoKernelIsLost
  <1>2. TypeOK /\ NoKernelIsLost /\ [Next]_vars => NoKernelIsLost'
    <2> SUFFICES ASSUME TypeOK, NoKernelIsLost, [Next]_vars PROVE NoKernelIsLost'
      OBVIOUS
    <2> USE DEF NoKernelIsLost, Held, Up
    <2>1. ASSUME NEW c \in Conns, NEW op \in {"Status", "StartKernel", "StopKernel"},
                 Send(c, op)
          PROVE  NoKernelIsLost'
      BY <2>1 DEF Send
    <2>2. ASSUME NEW c \in Conns, Status(c) \/ RejectStart(c) \/ Killed(c) \/ SpawnError(c)
          PROVE  NoKernelIsLost'
      BY <2>2 DEF Status, RejectStart, Killed, SpawnError
    <2>3. ASSUME NEW c \in Conns, StartKernel(c) \/ StopKernel(c)
          PROVE  NoKernelIsLost'
      BY <2>3 DEF StartKernel, StopKernel, TakeAndKill
    <2>4. ASSUME NEW c \in Conns, NEW k \in Kernels, SpawnChild(c, k)
          PROVE  NoKernelIsLost'
      BY <2>4, DaemonAssumption DEF SpawnChild
    <2>5. CASE BeginStop \/ StopKilled
      BY <2>5 DEF BeginStop, StopKilled, Exit, TakeAndKill
    <2>6. ASSUME NEW k \in Kernels, KernelExit(k)
          PROVE  NoKernelIsLost'
      BY <2>6 DEF KernelExit
    <2>7. CASE UNCHANGED vars
      BY <2>7 DEF vars
    <2> QED
      BY <2>1, <2>2, <2>3, <2>4, <2>5, <2>6, <2>7 DEF Next, Handle
  <1> QED
    BY <1>1, <1>2, TypeCorrect, PTL DEF Spec

-----------------------------------------------------------------------------
\* A daemon that ended serves nobody and kills nothing more.
LEMMA DownIsFinal ==
    ASSUME Next, daemon = "down"
    PROVE  daemon' = "down" /\ \E k \in Kernels : KernelExit(k)
  BY DEF Next, Handle, Up, Send, Status, RejectStart, StartKernel, StopKernel, Killed,
         SpawnChild, SpawnError, BeginStop, StopKilled, KernelExit

(* svc/src/main.rs, kill_kernel after serve_loop and kill_on_drop: however  *)
(* requests overlap with the stop, what the service leaves behind has been  *)
(* killed.  The helper, which ends by process::exit, promises less.         *)
THEOREM NoKernelIsLeft == ASSUME Daemon = "svc" PROVE Spec => []NoKernelOutlivesDaemon
  <1>1. Init => NoKernelOutlivesDaemon
    BY DEF Init, NoKernelOutlivesDaemon
  <1>2. NoKernelIsLost /\ NoKernelOutlivesDaemon /\ [Next]_vars => NoKernelOutlivesDaemon'
    <2> SUFFICES ASSUME NoKernelIsLost, NoKernelOutlivesDaemon, [Next]_vars, daemon' = "down"
                 PROVE  alive' \subseteq dying'
      BY DEF NoKernelOutlivesDaemon
    <2>1. CASE UNCHANGED vars
      BY <2>1 DEF vars, NoKernelOutlivesDaemon
    <2>2. CASE Next /\ daemon = "down"
      BY <2>2, DownIsFinal DEF NoKernelOutlivesDaemon, KernelExit
    <2>3. CASE Next /\ daemon # "down"
      <3>1. Exit
        BY <2>3 DEF Next, Handle, Send, Status, RejectStart, StartKernel, StopKernel, Killed,
                    SpawnChild, SpawnError, BeginStop, StopKilled, KernelExit
      <3> QED
        BY <2>3, <3>1 DEF Exit, NoKernelIsLost, Up
    <2> QED
      BY <2>1, <2>2, <2>3
  <1> QED
    BY <1>1, <1>2, NoKernelLost, PTL DEF Spec

-----------------------------------------------------------------------------
(***************************************************************************)
(* For a client that awaits its answers, the kernel alive is the one in    *)
(* the slot or the one the only request under way is waiting for; a        *)
(* request about to spawn finds the host empty.                            *)
(***************************************************************************)
OneRequest == \A c, d \in Conns : req[c].pc # "idle" /\ req[d].pc # "idle" => c = d

AliveIsAccountedFor ==
    /\ \A c \in Conns :
          /\ req[c].pc = "dirs" => alive = {}
          /\ req[c].pc = "killing" => alive \subseteq {req[c].victim}
    /\ (\A c \in Conns : req[c].pc \in {"idle", "queued"}) => alive \subseteq Held

OneKernel == \A j, k \in alive : j = k

Handover == OneRequest /\ AliveIsAccountedFor /\ OneKernel

PatientInv == TypeOK /\ (client = "patient" /\ daemon = "up" => Handover)

\* Once told to stop, the daemon never serves again.
LEMMA StopIsFinal == Next /\ daemon' = "up" => daemon = "up"
  BY DEF Next, Handle, Send, Status, RejectStart, StartKernel, StopKernel, Killed,
         SpawnChild, SpawnError, BeginStop, StopKilled, Exit, KernelExit

LEMMA PatientStep ==
    ASSUME TypeOK, Handover, Next, client = "patient", daemon' = "up"
    PROVE  Handover'
  <1> USE DEF Handover, OneRequest, AliveIsAccountedFor, OneKernel, Held
  <1>t. \A c \in Conns : req[c] \in Requests
    BY DEF TypeOK
  <1>1. ASSUME NEW c \in Conns, NEW op \in {"Status", "StartKernel", "StopKernel"},
               Send(c, op)
        PROVE  Handover'
    <2>1. \A d \in Conns : req[d].pc = "idle"
      BY <1>1 DEF Send
    <2>2. /\ \A d \in Conns \ {c} : req'[d] = req[d]
          /\ req'[c].pc = "queued" /\ UNCHANGED <<alive, child, daemon>>
      BY <1>1 DEF Send, TypeOK, Idle
    <2> QED
      BY <2>1, <2>2
  <1>2. ASSUME NEW c \in Conns, req[c].pc # "idle", req'[c].pc = "idle",
               \A d \in Conns \ {c} : req'[d] = req[d], daemon' = daemon,
               alive' \subseteq Held'
        PROVE  Handover'
    BY <1>2
  <1>3. ASSUME NEW c \in Conns, Status(c) \/ RejectStart(c)
        PROVE  Handover'
    <2>1. \A d \in Conns \ {c} : req[d].pc = "idle"
      BY <1>3 DEF Status, RejectStart
    <2>2. alive \subseteq Held /\ req[c].pc = "queued"
      BY <1>3, <2>1 DEF Status, RejectStart
    <2>3. /\ \A d \in Conns \ {c} : req'[d] = req[d]
          /\ req'[c].pc = "idle" /\ UNCHANGED <<alive, child, daemon>>
      BY <1>3 DEF Status, RejectStart, TypeOK, Reply
    <2> QED
      BY <1>2, <2>2, <2>3
  <1>4. ASSUME NEW c \in Conns, StartKernel(c) \/ StopKernel(c)
        PROVE  Handover'
    <2>1. req[c].pc = "queued" /\ \A d \in Conns \ {c} : req[d].pc = "idle"
      BY <1>4 DEF StartKernel, StopKernel
    <2>2. alive \subseteq Held
      BY <2>1
    <2>3. /\ \A d \in Conns \ {c} : req'[d] = req[d]
          /\ UNCHANGED <<alive, daemon>> /\ child' = NoKernel
      BY <1>4 DEF StartKernel, StopKernel, TakeAndKill, TypeOK
    <2>4. CASE Held = {}
      <3>1. req'[c].pc \in {"dirs", "idle"}
        BY <1>4, <2>4, <1>t DEF StartKernel, StopKernel, TypeOK, Reply, Requests
      <3> QED
        BY <2>1, <2>2, <2>3, <2>4, <3>1
    <2>5. CASE Held # {}
      <3>1. req'[c].pc = "killing" /\ req'[c].victim = child
        <4>1. CASE StartKernel(c)
          BY <4>1, <2>5, <1>t DEF StartKernel, TypeOK, Requests
        <4>2. CASE StopKernel(c)
          BY <4>2, <2>5, <1>t DEF StopKernel, TypeOK, Requests
        <4> QED
          BY <1>4, <4>1, <4>2
      <3> QED
        BY <2>1, <2>2, <2>3, <2>5, <3>1
    <2> QED
      BY <2>4, <2>5
  <1>5. ASSUME NEW c \in Conns, Killed(c)
        PROVE  Handover'
    <2>1. req[c].pc = "killing" /\ alive = {} /\ \A d \in Conns \ {c} : req[d].pc = "idle"
      BY <1>5 DEF Killed
    <2>2. /\ \A d \in Conns \ {c} : req'[d] = req[d]
          /\ req'[c].pc \in {"idle", "dirs"} /\ UNCHANGED <<alive, daemon>>
      BY <1>5, <1>t DEF Killed, TypeOK, Reply, Requests
    <2> QED
      BY <2>1, <2>2
  <1>6. ASSUME NEW c \in Conns, NEW k \in Kernels, SpawnChild(c, k)
        PROVE  Handover'
    <2>1. /\ req[c].pc = "dirs" /\ req'[c].pc = "idle"
          /\ \A d \in Conns \ {c} : req'[d] = req[d]
          /\ UNCHANGED daemon /\ alive' = {k} /\ child' = k /\ k # NoKernel
      BY <1>6, DaemonAssumption DEF SpawnChild, TypeOK, Reply
    <2> QED
      BY <1>2, <2>1
  <1>7. ASSUME NEW c \in Conns, SpawnError(c)
        PROVE  Handover'
    <2>1. /\ req[c].pc = "dirs" /\ req'[c].pc = "idle"
          /\ \A d \in Conns \ {c} : req'[d] = req[d]
          /\ UNCHANGED <<alive, daemon>>
      BY <1>7 DEF SpawnError, TypeOK, Reply
    <2> QED
      BY <1>2, <2>1
  <1>8. ASSUME NEW k \in Kernels, KernelExit(k)
        PROVE  Handover'
    BY <1>8 DEF KernelExit
  <1>9. ~BeginStop /\ ~StopKilled
    BY DEF BeginStop, StopKilled, Exit
  <1> QED
    BY <1>1, <1>3, <1>4, <1>5, <1>6, <1>7, <1>8, <1>9 DEF Next, Handle

(* start_kernel: for one launcher call at a time, and until the daemon is   *)
(* told to stop, two kernels never run side by side.                        *)
THEOREM CleanHandover == Spec => []HandoverIsClean
  <1>1. Init => PatientInv
    BY InitTypeOK
    DEF Init, PatientInv, Handover, OneRequest, AliveIsAccountedFor, OneKernel, Idle
  <1>2. PatientInv /\ [Next]_vars => PatientInv'
    <2> SUFFICES ASSUME PatientInv, [Next]_vars PROVE PatientInv'
      OBVIOUS
    <2>1. TypeOK'
      BY NextTypeOK DEF PatientInv
    <2>2. CASE UNCHANGED vars
      BY <2>1, <2>2
      DEF vars, PatientInv, Handover, OneRequest, AliveIsAccountedFor, OneKernel, Held
    <2>3. CASE Next
      <3>1. UNCHANGED client
        BY <2>3, ClientIsFixed
      <3>2. daemon' = "up" => daemon = "up"
        BY <2>3, StopIsFinal
      <3> QED
        BY <2>1, <2>3, <3>1, <3>2, PatientStep DEF PatientInv
    <2> QED
      BY <2>2, <2>3
  <1>3. PatientInv => HandoverIsClean
    BY DEF PatientInv, Handover, OneKernel, HandoverIsClean
  <1> QED
    BY <1>1, <1>2, <1>3, PTL DEF Spec
=============================================================================

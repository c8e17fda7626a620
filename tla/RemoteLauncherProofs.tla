-------------------------- MODULE RemoteLauncherProofs --------------------------
(***************************************************************************)
(* Theorems about RemoteLauncher for every number of accounts, connections *)
(* and kernels, on both platforms: no kernel is lost, none is killed for   *)
(* another account, and a stop that succeeds left nothing running.         *)
(***************************************************************************)
EXTENDS RemoteLauncher, TLAPS

Holds == Users \cup {None}
Processes == Kernels \cup {None}
Results == {"none", "Ok", "ServiceMissing", "NeedsConsent", "Failed"}
Replies == {"none", "Pong", "Started", "Stopped", "Error", "Closed"}

-----------------------------------------------------------------------------
(* The parts of the type invariant.                                        *)

HostTyped ==
    /\ platform \in Platforms /\ service \in {"absent", "registered", "running"}
    /\ {grantee, loaded} \subseteq Holds
ProcsTyped ==
    /\ child \in Processes
    /\ dying \subseteq alive /\ orphans \subseteq alive /\ alive \subseteq Kernels
    /\ owner \in [Kernels -> Holds] /\ rootLog \subseteq Users
ConnTyped == conn \in [Conns -> Connections]
OpTyped == op \in [Users -> Operations] /\ handle \in [Users -> Processes]
Counted == ops \in 0..MaxOps /\ events \in 0..MaxEvents
Down == ~Running => child = None /\ \A c \in Conns : conn[c].at \in {"free", "answered"}

LEMMA TypeParts == TypeOK <=> /\ HostTyped /\ ProcsTyped /\ ConnTyped /\ OpTyped
                              /\ Counted /\ Down
  BY DEF TypeOK, HostTyped, ProcsTyped, ConnTyped, OpTyped, Counted, Down, Holds, Processes

-----------------------------------------------------------------------------
(* Records.                                                                *)

LEMMA Dones ==
    ASSUME OpTyped, NEW u \in Users, NEW r \in Results
    PROVE  /\ Done(u, r) \in Operations
           /\ Done(u, r).do = op[u].do /\ Done(u, r).at = "done" /\ Done(u, r).conn = None
           /\ Done(u, r).kernel = op[u].kernel /\ Done(u, r).res = r
  <1>1. op[u] \in Operations
    BY DEF OpTyped
  <1>2. Done(u, r) \in Operations
    BY <1>1 DEF Done, Operations, Results
  <1> QED
    BY <1>1, <1>2 DEF Done, Operations

LEMMA Answers ==
    ASSUME ConnTyped, NEW c \in Conns, NEW r \in Replies, NEW k \in Processes
    PROVE  /\ Answer(c, r, k) \in Connections
           /\ Awaited(c) => /\ Answer(c, r, k).at = "answered" /\ Answer(c, r, k).reply = r
                            /\ Answer(c, r, k).victim = k
           /\ Answer(c, r, k).at \in {"free", "answered"}
  <1>1. conn[c] \in Connections
    BY DEF ConnTyped
  <1>2. [conn[c] EXCEPT !.at = "answered", !.victim = k, !.reply = r] \in Connections
    BY <1>1 DEF Connections, Processes, Replies
  <1>3. Free \in Connections /\ Free.at = "free"
    BY DEF Free, Connections
  <1>4. LET y == [conn[c] EXCEPT !.at = "answered", !.victim = k, !.reply = r]
        IN y.at = "answered" /\ y.reply = r /\ y.victim = k
    BY <1>1 DEF Connections
  <1>5. CASE Awaited(c)
    BY <1>2, <1>4, <1>5 DEF Answer
  <1>6. CASE ~Awaited(c)
    BY <1>3, <1>6 DEF Answer
  <1> QED
    BY <1>5, <1>6

LEMMA Hangups ==
    /\ Hangup \in [Conns -> Connections]
    /\ \A c \in Conns : Hangup[c].at \in {"free", "answered"}
    /\ \A c \in Conns : Awaited(c) => Hangup[c].at = "answered" /\ Hangup[c].reply = "Closed"
  <1> DEFINE y == [Free EXCEPT !.at = "answered", !.reply = "Closed"]
  <1>1. y \in Connections /\ y.at = "answered" /\ y.reply = "Closed"
    BY DEF Free, Connections
  <1>2. Free \in Connections /\ Free.at = "free"
    BY DEF Free, Connections
  <1>3. Hangup = [c \in Conns |-> IF Awaited(c) THEN y ELSE Free]
    BY DEF Hangup
  <1> HIDE DEF y
  <1> QED
    BY <1>1, <1>2, <1>3

-----------------------------------------------------------------------------
(* Type correctness, by the parts an action touches.                       *)

\* A step of a launcher.
LEMMA LauncherTypes ==
    ASSUME TypeOK, NEW u \in Users, UNCHANGED <<host, service, procs, events>>,
           ops' \in 0..MaxOps, OpTyped', ConnTyped',
           \/ UNCHANGED conn \/ Running
           \/ \E c \in Conns : conn' = [conn EXCEPT ![c] = Free]
    PROVE  TypeOK'
  <1>1. HostTyped' /\ ProcsTyped' /\ Counted'
    BY TypeParts DEF HostTyped, ProcsTyped, Counted, host, procs
  <1>2. Down'
    <2>1. Free.at = "free"
      BY DEF Free
    <2> QED
      BY <2>1, TypeParts DEF Down, ConnTyped, procs, Running
  <1> QED
    BY <1>1, <1>2, TypeParts DEF TypeOK, HostTyped, ProcsTyped, ConnTyped, OpTyped, Counted,
       Down, Holds, Processes

\* A step of a handler, which runs only in a daemon that runs.
LEMMA HandlerTypes ==
    ASSUME TypeOK, UNCHANGED <<host, service, clients, events>>, ProcsTyped', ConnTyped',
           NEW c \in Conns, conn[c].at \notin {"free", "answered"}
    PROVE  TypeOK'
  <1>1. HostTyped' /\ OpTyped' /\ Counted'
    BY TypeParts DEF HostTyped, OpTyped, Counted, host, clients
  <1>2. Down'
    BY TypeParts DEF Down, Running
  <1> QED
    BY <1>1, <1>2, TypeParts DEF TypeOK, HostTyped, ProcsTyped, ConnTyped, OpTyped, Counted,
       Down, Holds, Processes

-----------------------------------------------------------------------------
(* What a step of each kind does to the processes: the kernels nobody has  *)
(* killed stay in the slot, and none of them is new but the one spawned.   *)

Live == alive \ (dying \cup orphans)

LEMMA Takes ==
    ASSUME ProcsTyped, LiveKernelIsHeld, TakeAndKill, UNCHANGED <<alive, orphans, owner, rootLog>>
    PROVE  ProcsTyped' /\ Live' = {}
  BY DEF ProcsTyped, LiveKernelIsHeld, TakeAndKill, Live, Held, Processes

LEMMA Spawns ==
    ASSUME ProcsTyped, LiveKernelIsHeld, NEW c \in Conns, NEW k \in Kernels, SpawnChild(c, k),
           conn[c].user \in Users
    PROVE  ProcsTyped' /\ LiveKernelIsHeld' /\ Live' \subseteq Live \cup {k}
  <1>1. None \notin Kernels
    BY RemoteAssumption
  <1>2. k \notin alive /\ k \in Kernels
    BY DEF SpawnChild, Fresh
  <1>3. owner' \in [Kernels -> Holds]
    BY DEF ProcsTyped, SpawnChild, Holds
  <1>4. ProcsTyped'
    BY <1>1, <1>2, <1>3 DEF ProcsTyped, SpawnChild, Processes
  <1>5. LiveKernelIsHeld' /\ Live' \subseteq Live \cup {k}
    BY <1>1 DEF ProcsTyped, LiveKernelIsHeld, SpawnChild, Live, Held
  <1> QED
    BY <1>4, <1>5

LEMMA Exits ==
    ASSUME ProcsTyped, LiveKernelIsHeld, NEW k \in Kernels, KernelExit(k)
    PROVE  ProcsTyped' /\ LiveKernelIsHeld' /\ Live' \subseteq Live
  <1>1. owner' \in [Kernels -> Holds]
    BY DEF ProcsTyped, KernelExit, Holds
  <1>2. ProcsTyped'
    BY <1>1 DEF ProcsTyped, KernelExit, procs
  <1>3. LiveKernelIsHeld' /\ Live' \subseteq Live
    BY DEF LiveKernelIsHeld, KernelExit, Live, Held
  <1> QED
    BY <1>2, <1>3

LEMMA Shutdowns ==
    ASSUME ProcsTyped, LiveKernelIsHeld, Shutdown
    PROVE  ProcsTyped' /\ Live' = {} /\ child' = None
  <1>1. owner' \in [Kernels -> Holds]
    BY DEF ProcsTyped, Shutdown, Holds
  <1>2. ProcsTyped'
    BY <1>1 DEF ProcsTyped, Shutdown, Processes
  <1>3. Live' = {} /\ child' = None
    BY DEF LiveKernelIsHeld, Shutdown, Live
  <1> QED
    BY <1>2, <1>3

\* Whether the daemon ran or not, an installation or removal leaves this.
LEMMA Conditional ==
    ASSUME TypeOK, LiveKernelIsHeld, ShutdownIfRunning
    PROVE  /\ ProcsTyped' /\ LiveKernelIsHeld' /\ ConnTyped' /\ Live' \subseteq Live
           /\ child' = None /\ \A c \in Conns : conn'[c].at \in {"free", "answered"}
           /\ conn' = Hangup \/ conn' = conn
  <1>1. CASE Running
    <2>1. Shutdown /\ conn' = Hangup
      BY <1>1 DEF ShutdownIfRunning, Shutdown
    <2>2. ProcsTyped' /\ Live' = {} /\ child' = None
      BY <2>1, Shutdowns, TypeParts
    <2> QED
      BY <2>1, <2>2, Hangups DEF ConnTyped, LiveKernelIsHeld, Live
  <1>2. CASE ~Running
    <2>1. NoShutdown
      BY <1>2 DEF ShutdownIfRunning
    <2>2. child = None /\ \A c \in Conns : conn[c].at \in {"free", "answered"}
      BY <1>2, TypeParts DEF Down
    <2> QED
      BY <2>1, <2>2, TypeParts DEF NoShutdown, ProcsTyped, ConnTyped, LiveKernelIsHeld, Live, Held
  <1> QED
    BY <1>1, <1>2

LEMMA Crashes ==
    ASSUME ProcsTyped, DaemonCrash
    PROVE  ProcsTyped' /\ Live' = {}
  BY DEF ProcsTyped, DaemonCrash, Live, Processes

LEMMA Reboots ==
    ASSUME ProcsTyped, Reboot
    PROVE  ProcsTyped' /\ Live' = {}
  <1>1. owner' \in [Kernels -> Holds]
    BY DEF Reboot, Holds
  <1> QED
    BY <1>1 DEF ProcsTyped, Reboot, Live, Processes

-----------------------------------------------------------------------------
(* The inductive invariant.                                                *)

\* A request that is being handled is an account's, and only a start makes
\* directories.
Asked == \A c \in Conns :
    /\ conn[c].at \in {"asked", "killing", "dirs"} => conn[c].user \in Users
    /\ conn[c].at = "dirs" => conn[c].req # "StopKernel"

\* Who waits, waits on a connection of its own.
Waits == \A u \in Users : op[u].at = "wait" =>
    /\ op[u].conn \in Conns /\ conn[op[u].conn].at # "free"
    /\ \A v \in Users \ {u} : op[v].at = "wait" => op[v].conn # op[u].conn

\* A request under way is for something.
Meant == \A u \in Users : op[u].at \in {"open", "installing"} => op[u].do # "none"

\* Once the daemon has taken the child for a stop, the kernel it is about no
\* longer runs unharmed, and its identity is not given to another.
Stopped(u) == LET y == conn[op[u].conn] IN
    /\ y.at # "answered" => y.req = "StopKernel"
    /\ y.at = "answered" => y.reply # "Started"
    /\ y.at = "killing" \/ (y.at = "answered" /\ y.reply \in {"Pong", "Stopped"})
       => op[u].kernel \notin Live
Stops == \A u \in Users : op[u].do = "stop" =>
    op[u].at # "controller" /\ (op[u].at = "wait" => Stopped(u))

\* The service holds kernels of its account only, and handles its requests.
Owners == platform = "svc" =>
    /\ child \in alive => owner[child] = loaded
    /\ \A c \in Conns :
        /\ conn[c].at \in {"killing", "dirs"} => conn[c].user = loaded
        /\ conn[c].at = "killing" /\ conn[c].victim \in alive
           => owner[conn[c].victim] = conn[c].user

Links == Asked /\ Waits /\ Meant /\ Stops /\ Owners
IInv == TypeOK /\ LiveKernelIsHeld /\ Links

\* A launcher takes a step of its own, or reads its answer.
LEMMA LauncherLinks ==
    ASSUME IInv, NEW u \in Users, NEW x \in Operations, UNCHANGED <<host, procs>>,
           op' = [op EXCEPT ![u] = x], x.at # "wait", x.do = "stop" => x.at # "controller",
           x.at \in {"open", "installing"} => x.do # "none",
           \/ UNCHANGED conn
           \/ op[u].at = "wait" /\ conn' = [conn EXCEPT ![op[u].conn] = Free]
    PROVE  Links'
  <1> USE DEF IInv, Links
  <1>1. op \in [Users -> Operations] /\ conn \in [Conns -> Connections]
    BY TypeParts DEF OpTyped, ConnTyped
  <1>2. op'[u] = x /\ \A v \in Users \ {u} : op'[v] = op[v]
    BY <1>1
  <1>3. \A c \in Conns : conn'[c] = conn[c] \/ conn'[c] = Free
    BY <1>1
  <1>4. \A v \in Users \ {u} : op[v].at = "wait" => conn'[op[v].conn] = conn[op[v].conn]
    BY <1>1 DEF Waits
  <1>5. Free.at = "free"
    BY DEF Free
  <1>6. Asked'
    BY <1>3, <1>5 DEF Asked
  <1>7. Waits'
    BY <1>2, <1>4 DEF Waits
  <1>8. Live' = Live
    BY DEF Live, procs
  <1>9. Stops'
    BY <1>2, <1>4, <1>8 DEF Stops, Stopped
  <1>10. Owners'
    BY <1>3, <1>5 DEF Owners, host, procs
  <1>11. Meant'
    BY <1>2 DEF Meant
  <1> QED
    BY <1>6, <1>7, <1>9, <1>10, <1>11

LEMMA OpenLinks ==
    ASSUME IInv, NEW u \in Users, NEW c \in Conns, Open(u, c)
    PROVE  Links'
  <1> USE DEF IInv, Links
  <1> DEFINE y == [Free EXCEPT !.at = "asked", !.user = u, !.req = Request[op[u].do]]
             x == [op[u] EXCEPT !.at = "wait", !.conn = c]
  <1>1. op \in [Users -> Operations] /\ conn \in [Conns -> Connections]
    BY TypeParts DEF OpTyped, ConnTyped
  <1>2. op' = [op EXCEPT ![u] = x] /\ conn' = [conn EXCEPT ![c] = y]
    BY DEF Open
  <1>3. x.at = "wait" /\ x.conn = c /\ x.do = op[u].do
    BY <1>1 DEF Operations
  <1>4. y.at = "asked" /\ y.user = u /\ (op[u].do = "stop" => y.req = "StopKernel")
    BY DEF Free, Request
  <1> HIDE DEF x, y
  <1>5. op'[u] = x /\ \A v \in Users \ {u} : op'[v] = op[v]
    BY <1>1, <1>2
  <1>6. conn'[c] = y /\ \A d \in Conns \ {c} : conn'[d] = conn[d]
    BY <1>1, <1>2
  <1>7. conn[c].at = "free"
    BY DEF Open, Free
  <1>8. \A v \in Users \ {u} : op[v].at = "wait" => op[v].conn \in Conns \ {c}
    BY <1>7 DEF Waits
  <1>9. Asked'
    BY <1>4, <1>6 DEF Asked
  <1>10. Waits'
    BY <1>3, <1>4, <1>5, <1>6, <1>8 DEF Waits
  <1>11. Live' = Live
    BY DEF Live, procs, Open
  <1>12. Stops'
    BY <1>3, <1>4, <1>5, <1>6, <1>8, <1>11 DEF Stops, Stopped
  <1>13. Owners'
    BY <1>4, <1>6 DEF Owners, Open, host, procs
  <1>14. Meant'
    BY <1>3, <1>5 DEF Meant
  <1> QED
    BY <1>9, <1>10, <1>12, <1>13, <1>14

\* The handler of c takes a step: what it leaves behind is an answer, to a
\* request that was no stop or after which nothing is live, a start that goes
\* on to its directories, or a kill of the kernel that was in the slot.
LEMMA HandlerLinks ==
    ASSUME IInv, NEW c \in Conns, NEW y \in Connections,
           conn[c].at \in {"asked", "killing", "dirs"},
           UNCHANGED <<host, clients>>, conn' = [conn EXCEPT ![c] = y],
           y.at = "free" => ~Awaited(c), y.at # "asked",
           y.at \in {"killing", "dirs"} => y.user = conn[c].user /\ y.req = conn[c].req,
           y.at = "dirs" => y.req # "StopKernel",
           y.at = "killing" => Live' = {} /\ y.victim = child,
           y.at = "answered" /\ conn[c].req = "StopKernel"
           => y.reply # "Started" /\ (y.reply \in {"Pong", "Stopped"} =>
                 Live' = {} \/ (conn[c].at = "killing" /\ Live' = Live)),
           platform = "svc" /\ y.at \in {"killing", "dirs"} => conn[c].user = loaded,
           conn[c].at = "dirs" => y.at \notin {"killing", "dirs"},
           \/ UNCHANGED procs
           \/ child' = None /\ Live' = {} /\ UNCHANGED <<alive, owner>>
           \/ /\ conn[c].at = "dirs" /\ child' \in Fresh
              /\ alive' = alive \cup {child'} /\ Live' \subseteq Live \cup {child'}
              /\ owner' = [owner EXCEPT ![child'] = conn[c].user]
    PROVE  Links'
  <1> USE DEF IInv, Links
  <1>1. op \in [Users -> Operations] /\ conn \in [Conns -> Connections] /\ ProcsTyped
    BY TypeParts DEF OpTyped, ConnTyped
  <1>2. conn'[c] = y /\ \A d \in Conns \ {c} : conn'[d] = conn[d]
    BY <1>1
  <1>3. op' = op
    BY DEF clients
  <1>4. \A u \in Users : op[u].kernel \in Live' => op[u].kernel \in Live
    BY DEF Live, procs, Fresh
  <1>5. Asked'
    BY <1>2 DEF Asked
  <1>6. Waits'
    BY <1>2, <1>3 DEF Waits, Awaited
  <1>7. Stops'
    <2> SUFFICES ASSUME NEW u \in Users, op[u].do = "stop", op[u].at = "wait"
                 PROVE  Stopped(u)'
      BY <1>3 DEF Stops
    <2>1. op[u].conn \in Conns /\ conn[op[u].conn].at # "free" /\ Stopped(u)
      BY DEF Stops, Waits
    <2>2. CASE op[u].conn # c
      BY <2>1, <2>2, <1>2, <1>3, <1>4 DEF Stopped
    <2>3. CASE op[u].conn = c
      <3>1. Awaited(c) /\ conn[c].req = "StopKernel"
        BY <2>1, <2>3 DEF Awaited, Stopped
      <3>2. y.at # "free" /\ y.at # "asked" /\ y.at # "dirs"
        BY <3>1
      <3>3. y.at # "answered" => y.req = "StopKernel"
        BY <3>1, <3>2 DEF Connections
      <3>4. y.at = "answered" => y.reply # "Started"
        BY <3>1
      <3>5. y.at = "killing" \/ (y.at = "answered" /\ y.reply \in {"Pong", "Stopped"})
            => op[u].kernel \notin Live'
        BY <3>1, <2>1, <2>3 DEF Stopped
      <3> QED
        BY <3>3, <3>4, <3>5, <2>3, <1>2, <1>3 DEF Stopped
    <2> QED
      BY <2>2, <2>3
  <1>8. Owners'
    <2> SUFFICES ASSUME platform = "svc"
                 PROVE  Owners'
      BY DEF Owners, host
    <2>1. None \notin alive
      BY <1>1, RemoteAssumption DEF ProcsTyped
    <2>2. child' \in alive' => owner'[child'] = loaded
      BY <1>1, <2>1 DEF Owners, procs, ProcsTyped, Fresh
    <2>3. \A d \in Conns : conn'[d].at \in {"killing", "dirs"} => conn'[d].user = loaded
      BY <1>2 DEF Owners
    <2>4. ASSUME NEW d \in Conns, conn'[d].at = "killing", conn'[d].victim \in alive'
          PROVE  owner'[conn'[d].victim] = conn'[d].user
      <3>1. CASE d # c
        <4>1. conn'[d] = conn[d] /\ conn[d].victim \notin Fresh
          BY <3>1, <1>2 DEF Fresh
        <4> QED
          BY <4>1, <1>1, <2>4 DEF Owners, procs, ProcsTyped, Fresh
      <3>2. CASE d = c
        <4>1. y.at = "killing" /\ y.victim = child /\ y.user = loaded /\ conn[c].at # "dirs"
          BY <3>2, <1>2, <2>4
        <4>2. UNCHANGED <<alive, owner>>
          BY <4>1 DEF procs
        <4> QED
          BY <4>1, <4>2, <3>2, <1>2, <2>4 DEF Owners
      <3> QED
        BY <3>1, <3>2
    <2> QED
      BY <2>2, <2>3, <2>4 DEF Owners, host
  <1>9. Meant'
    BY <1>3 DEF Meant
  <1> QED
    BY <1>5, <1>6, <1>7, <1>8, <1>9

\* The daemon ends or changes hands: nobody's request is being handled.
LEMMA DaemonLinks ==
    ASSUME IInv, ProcsTyped', child' = None,
           conn' = Hangup \/ (conn' = conn /\ ~Running),
           Live' \subseteq Live,
           \A u \in Users : op'[u].at = "wait" => op'[u] = op[u],
           \A u \in Users : op'[u].do = "stop" => op'[u].at # "controller",
           \A u \in Users : op'[u].at \in {"open", "installing"} => op'[u].do # "none"
    PROVE  Links'
  <1> USE DEF IInv, Links
  <1>1. \A c \in Conns : conn'[c].at \in {"free", "answered"}
    BY Hangups, TypeParts DEF Down
  <1>2. Asked'
    BY <1>1 DEF Asked
  <1>3. \A u \in Users : op[u].at = "wait" =>
            conn'[op[u].conn] = conn[op[u].conn]
            \/ (conn'[op[u].conn].at = "answered" /\ conn'[op[u].conn].reply = "Closed")
    BY Hangups DEF Waits, Awaited
  <1>4. Waits'
    BY <1>3 DEF Waits
  <1>5. Stops'
    BY <1>3 DEF Stops, Stopped
  <1>6. Owners'
    BY <1>1, RemoteAssumption DEF Owners, ProcsTyped
  <1>7. Meant'
    BY DEF Meant
  <1> QED
    BY <1>2, <1>4, <1>5, <1>6, <1>7

-----------------------------------------------------------------------------
(* Every step preserves it.                                                *)

LEMMA LauncherStep ==
    ASSUME IInv, NEW u \in Users,
           \/ \E do \in DOMAIN Request : Begin(u, do)
           \/ Missing(u) \/ CallFails(u) \/ Receive(u) \/ Timeout(u) \/ Ready(u)
           \/ StartTimeout(u) \/ Return(u) \/ \E c \in Conns : Open(u, c)
    PROVE  IInv'
  <1> USE DEF IInv
  <1>1. OpTyped /\ ConnTyped /\ ProcsTyped /\ Counted /\ Links
    BY TypeParts
  <1>2. op \in [Users -> Operations] /\ conn \in [Conns -> Connections]
    BY <1>1 DEF OpTyped, ConnTyped
  <1>3. op[u] \in Operations /\ handle \in [Users -> Processes] /\ handle[u] \in Processes
    BY <1>1 DEF OpTyped
  <1>4. UNCHANGED <<host, service, procs, events>>
    BY DEF Begin, Missing, CallFails, Receive, Timeout, Ready, StartTimeout, Return, Open
  <1>5. LiveKernelIsHeld'
    BY <1>4 DEF LiveKernelIsHeld, Held, procs
  <1>6. ASSUME NEW x \in Operations, op' = [op EXCEPT ![u] = x], x.at # "wait",
               x.do = "stop" => x.at # "controller",
               x.at \in {"open", "installing"} => x.do # "none",
               handle' \in [Users -> Processes], ops' \in 0..MaxOps,
               \/ UNCHANGED conn
               \/ op[u].at = "wait" /\ conn' = [conn EXCEPT ![op[u].conn] = Free]
        PROVE  IInv'
    <2>1. Links'
      BY <1>4, <1>6, LauncherLinks
    <2>2. OpTyped'
      BY <1>2, <1>6 DEF OpTyped
    <2>3. Free \in Connections
      BY DEF Free, Connections
    <2>4. op[u].at = "wait" => op[u].conn \in Conns
      BY <1>1 DEF Links, Waits
    <2>5. ConnTyped'
      BY <1>2, <1>6, <2>3 DEF ConnTyped
    <2>6. TypeOK'
      BY <1>4, <1>6, <2>2, <2>4, <2>5, LauncherTypes
    <2> QED
      BY <2>1, <2>6, <1>5
  <1>7. ops \in 0..MaxOps
    BY <1>1 DEF Counted
  <1>8. ASSUME NEW r \in Results, op' = [op EXCEPT ![u] = Done(u, r)],
               UNCHANGED <<conn, handle, ops>>
        PROVE  IInv'
    <2>1. Done(u, r) \in Operations /\ Done(u, r).at = "done"
      BY <1>1, Dones
    <2> QED
      BY <1>3, <1>6, <1>7, <1>8, <2>1
  <1>9. ASSUME NEW do \in DOMAIN Request, Begin(u, do) PROVE IInv'
    <2> DEFINE k == IF do = "stop" THEN handle[u] ELSE None
               x == [Idle EXCEPT !.do = do, !.at = "open", !.kernel = k]
    <2>1. do \in {"ensure", "spawn", "stop"}
      BY <1>9 DEF Request
    <2>2. k \in Processes
      BY <1>3 DEF Processes
    <2>3. x \in Operations
      BY <2>1, <2>2 DEF Idle, Operations, Processes
    <2>4. x.at = "open" /\ x.do = do
      BY DEF Idle
    <2>5. op' = [op EXCEPT ![u] = x] /\ UNCHANGED conn
      BY <1>9 DEF Begin
    <2>7. ops' \in 0..MaxOps
      <3>1. ops < MaxOps /\ ops' = ops + 1
        BY <1>9 DEF Begin
      <3> QED
        BY <1>7, <3>1, RemoteAssumption
    <2> HIDE DEF x, k
    <2>6. handle' \in [Users -> Processes]
      BY <1>3, <1>9 DEF Begin, Processes
    <2> QED
      BY <2>1, <2>3, <2>4, <2>5, <2>6, <2>7, <1>6
  <1>10. CASE Missing(u)
    <2>1. CASE op[u].do = "ensure" /\ ~op[u].probed
      <3>1. [op[u] EXCEPT !.at = "installing"] \in Operations
        BY <1>3 DEF Operations
      <3>2. /\ [op[u] EXCEPT !.at = "installing"].at = "installing"
            /\ [op[u] EXCEPT !.at = "installing"].do = "ensure"
        BY <1>3, <2>1 DEF Operations
      <3>3. op' = [op EXCEPT ![u] = [op[u] EXCEPT !.at = "installing"]]
        BY <1>10, <2>1 DEF Missing
      <3> QED
        BY <1>3, <1>6, <1>7, <1>10, <3>1, <3>2, <3>3 DEF Missing
    <2>2. CASE ~(op[u].do = "ensure" /\ ~op[u].probed)
      <3>1. \E r \in Results : op' = [op EXCEPT ![u] = Done(u, r)]
        BY <1>10, <2>2 DEF Missing, Results
      <3> QED
        BY <1>8, <1>10, <3>1 DEF Missing
    <2> QED
      BY <2>1, <2>2
  <1>11. CASE CallFails(u) \/ Timeout(u) \/ Ready(u) \/ StartTimeout(u)
    <2>1. \E r \in Results : op' = [op EXCEPT ![u] = Done(u, r)]
      BY <1>11 DEF CallFails, Timeout, Ready, StartTimeout, Results
    <2> QED
      BY <1>8, <1>11, <2>1 DEF CallFails, Timeout, Ready, StartTimeout
  <1>12. CASE Receive(u)
    <2> DEFINE y == conn[op[u].conn]
    <2>1. op[u].at = "wait" /\ op[u].conn \in Conns /\ y \in Connections
      BY <1>1, <1>2, <1>12 DEF Receive, Links, Waits
    <2>2. UNCHANGED <<handle, ops>> /\ conn' = [conn EXCEPT ![op[u].conn] = Free]
      BY <1>12 DEF Receive
    <2>3. CASE y.reply = "Started"
      <3> DEFINE x == [op[u] EXCEPT !.at = "controller", !.conn = None, !.kernel = y.victim]
      <3>1. x \in Operations
        BY <1>3, <2>1 DEF Operations, Connections
      <3>2. x.at = "controller" /\ x.do = op[u].do
        BY <1>3 DEF Operations
      <3>3. op[u].do # "stop"
        BY <1>1, <1>12, <2>1, <2>3 DEF Receive, Links, Stops, Stopped
      <3>4. op' = [op EXCEPT ![u] = x]
        BY <1>12, <2>3 DEF Receive
      <3> HIDE DEF x
      <3> QED
        BY <1>3, <1>6, <1>7, <2>1, <2>2, <3>1, <3>2, <3>3, <3>4
    <2>4. CASE y.reply # "Started"
      <3>1. PICK r \in Results : op' = [op EXCEPT ![u] = Done(u, r)]
        BY <1>12, <2>4 DEF Receive, Results
      <3>2. Done(u, r) \in Operations /\ Done(u, r).at = "done"
        BY <1>1, Dones
      <3> QED
        BY <1>3, <1>6, <1>7, <2>1, <2>2, <3>1, <3>2
    <2> QED
      BY <2>3, <2>4
  <1>13. CASE Return(u)
    <2>1. Idle \in Operations /\ Idle.at = "idle"
      BY DEF Idle, Operations
    <2>2. op[u].kernel \in Processes
      BY <1>3 DEF Operations, Processes
    <2>3. handle' \in [Users -> Processes]
      BY <1>3, <1>13, <2>2 DEF Return
    <2> QED
      BY <1>6, <1>7, <1>13, <2>1, <2>3 DEF Return
  <1>14. ASSUME NEW c \in Conns, Open(u, c) PROVE IInv'
    <2>1. Links'
      BY <1>14, OpenLinks
    <2>2. [op[u] EXCEPT !.at = "wait", !.conn = c] \in Operations
      BY <1>3 DEF Operations
    <2>3. op' = [op EXCEPT ![u] = [op[u] EXCEPT !.at = "wait", !.conn = c]]
      BY <1>14 DEF Open
    <2>4. op' \in [Users -> Operations]
      BY <1>2, <2>2, <2>3
    <2>5. Request[op[u].do] \in {"Ping", "StartKernel", "StopKernel"}
      <3>1. op[u].do \in {"ensure", "spawn", "stop"}
        BY <1>1, <1>3, <1>14 DEF Open, Links, Meant, Operations
      <3> QED
        BY <3>1 DEF Request
    <2>6. [Free EXCEPT !.at = "asked", !.user = u, !.req = Request[op[u].do]] \in Connections
      BY <2>5 DEF Free, Connections
    <2>7. ConnTyped'
      BY <1>2, <1>14, <2>6 DEF Open, ConnTyped
    <2>8. OpTyped' /\ ops' \in 0..MaxOps /\ Running
      BY <1>3, <1>7, <1>14, <2>4 DEF Open, OpTyped
    <2>9. TypeOK'
      BY <1>4, <2>7, <2>8, LauncherTypes
    <2> QED
      BY <1>5, <2>1, <2>9
  <1> QED
    BY <1>9, <1>10, <1>11, <1>12, <1>13, <1>14

LEMMA HandlerStep ==
    ASSUME IInv, NEW c \in Conns, Handler(c)
    PROVE  IInv'
  <1> USE DEF IInv
  <1>1. ConnTyped /\ ProcsTyped /\ Links
    BY TypeParts
  <1>2. conn \in [Conns -> Connections] /\ conn[c] \in Connections
    BY <1>1 DEF ConnTyped
  <1>3. /\ conn[c].at \in {"asked", "killing", "dirs"}
        /\ UNCHANGED <<host, service, clients, events>>
    BY DEF Handler, RefuseCaller, Ping, RejectStart, StartKernel, StopKernel, Killed, SpawnError,
       SpawnChild
  <1>4. conn[c].at # "free" /\ conn[c].at # "answered"
    BY <1>3
  \* What remains to be shown of a step that sets conn[c] to y.
  <1>5. ASSUME NEW y \in Connections, conn' = [conn EXCEPT ![c] = y]
        PROVE  ConnTyped'
    BY <1>2, <1>5 DEF ConnTyped
  <1>6. ASSUME NEW r \in Replies \ {"Started"}, conn' = [conn EXCEPT ![c] = Answer(c, r, None)],
               conn[c].req = "StopKernel" /\ r \in {"Pong", "Stopped"} =>
                  \/ conn[c].at = "killing"
                  \/ child' = None /\ Live' = {} /\ UNCHANGED <<alive, owner>>,
               \/ UNCHANGED procs
               \/ ProcsTyped' /\ child' = None /\ Live' = {} /\ UNCHANGED <<alive, owner>>
        PROVE  IInv'
    <2> DEFINE y == Answer(c, r, None)
    <2>1. /\ y \in Connections /\ y.at \in {"free", "answered"}
          /\ Awaited(c) => y.at = "answered" /\ y.reply = r
      BY <1>1, Answers DEF Processes
    <2>2. y.at = "answered" => y.reply = r
      BY <2>1 DEF Answer, Free
    <2>7. conn' = [conn EXCEPT ![c] = y]
      BY <1>6
    <2> HIDE DEF y
    <2>3. ProcsTyped' /\ LiveKernelIsHeld'
      BY <1>1, <1>6 DEF ProcsTyped, LiveKernelIsHeld, Held, Live, procs
    <2>4. UNCHANGED procs => Live' = Live
      BY DEF procs, Live
    <2>5. TypeOK'
      BY <1>3, <1>4, <1>5, <2>1, <2>3, <2>7, HandlerTypes
    <2>6. Links'
      BY <1>3, <1>6, <2>1, <2>2, <2>4, <2>7, HandlerLinks
    <2> QED
      BY <2>3, <2>5, <2>6
  <1>7. CASE RefuseCaller(c) \/ RejectStart(c) \/ SpawnError(c)
    BY <1>6, <1>7 DEF RefuseCaller, RejectStart, SpawnError, Replies
  <1>8. CASE Ping(c)
    BY <1>6, <1>8 DEF Ping, Replies
  <1>9. CASE Killed(c)
    <2>1. CASE conn[c].req = "StopKernel"
      <3>1. conn' = [conn EXCEPT ![c] = Answer(c, "Stopped", None)]
        BY <1>9, <2>1 DEF Killed
      <3> QED
        BY <1>6, <1>9, <3>1 DEF Killed, Replies
    <2>2. CASE conn[c].req # "StopKernel"
      <3> DEFINE y == [conn[c] EXCEPT !.at = "dirs", !.victim = None]
      <3>1. y \in Connections /\ y.at = "dirs" /\ y.req = conn[c].req /\ y.user = conn[c].user
        BY <1>2 DEF Connections
      <3>2. conn' = [conn EXCEPT ![c] = y]
        BY <1>9, <2>2 DEF Killed
      <3>3. conn[c].at = "killing" /\ UNCHANGED procs
        BY <1>9 DEF Killed
      <3> HIDE DEF y
      <3>4. platform = "svc" => conn[c].user = loaded
        BY <1>1, <3>3 DEF Links, Owners
      <3>5. ProcsTyped' /\ LiveKernelIsHeld'
        BY <1>1, <3>3 DEF ProcsTyped, LiveKernelIsHeld, Held, procs
      <3>6. TypeOK'
        BY <1>3, <1>4, <1>5, <3>1, <3>2, <3>5, HandlerTypes
      <3>7. Links'
        BY <1>3, <2>2, <3>1, <3>2, <3>3, <3>4, HandlerLinks
      <3> QED
        BY <3>5, <3>6, <3>7
    <2> QED
      BY <2>1, <2>2
  <1>10. ASSUME TakeAndKill, UNCHANGED <<alive, orphans, owner, rootLog>>
         PROVE  ProcsTyped' /\ Live' = {} /\ LiveKernelIsHeld' /\ child' = None
    BY <1>1, <1>10, Takes DEF LiveKernelIsHeld, Live, TakeAndKill
  <1>11. ASSUME NEW a \in {"killing", "dirs"}, conn' = [conn EXCEPT ![c].at = a, ![c].victim = child],
                conn[c].at = "asked", Served(c), a = "dirs" => conn[c].req # "StopKernel",
                TakeAndKill, UNCHANGED <<alive, orphans, owner, rootLog>>
         PROVE  IInv'
    <2> DEFINE y == [conn[c] EXCEPT !.at = a, !.victim = child]
    <2>1. y \in Connections
      BY <1>1, <1>2 DEF Connections, ProcsTyped, Processes
    <2>2. y.at = a /\ y.victim = child /\ y.req = conn[c].req /\ y.user = conn[c].user
      BY <1>2 DEF Connections
    <2>3. conn' = [conn EXCEPT ![c] = y]
      BY <1>2, <1>11 DEF Connections
    <2>4. platform = "svc" => conn[c].user = loaded
      BY <1>11 DEF Served
    <2> HIDE DEF y
    <2>5. TypeOK'
      BY <1>3, <1>4, <1>5, <1>10, <1>11, <2>1, <2>3, HandlerTypes
    <2>6. Links'
      BY <1>3, <1>10, <1>11, <2>1, <2>2, <2>3, <2>4, HandlerLinks
    <2> QED
      BY <1>10, <1>11, <2>5, <2>6
  <1>12. CASE StartKernel(c)
    <2>1. \E a \in {"killing", "dirs"} : conn' = [conn EXCEPT ![c].at = a, ![c].victim = child]
      BY <1>12 DEF StartKernel
    <2> QED
      BY <1>11, <1>12, <2>1 DEF StartKernel
  <1>13. CASE StopKernel(c)
    <2>1. CASE Held = {}
      <3>1. conn' = [conn EXCEPT ![c] = Answer(c, "Stopped", None)]
        BY <1>13, <2>1 DEF StopKernel
      <3> QED
        BY <1>6, <1>10, <1>13, <3>1 DEF StopKernel, Replies
    <2>2. CASE Held # {}
      <3>1. conn' = [conn EXCEPT ![c].at = "killing", ![c].victim = child]
        BY <1>13, <2>2 DEF StopKernel
      <3> QED
        BY <1>11, <1>13, <3>1 DEF StopKernel
    <2> QED
      BY <2>1, <2>2
  <1>14. ASSUME NEW k \in Kernels, SpawnChild(c, k)
         PROVE  IInv'
    <2> DEFINE y == Answer(c, "Started", k)
    <2>1. /\ y \in Connections /\ y.at \in {"free", "answered"}
          /\ Awaited(c) => y.at = "answered"
      BY <1>1, Answers DEF Processes, Replies
    <2>2. conn[c].at = "dirs" /\ conn[c].user \in Users /\ conn[c].req # "StopKernel"
      BY <1>1, <1>14 DEF SpawnChild, Links, Asked
    <2>3. conn' = [conn EXCEPT ![c] = y]
      BY <1>14 DEF SpawnChild
    <2> HIDE DEF y
    <2>4. ProcsTyped' /\ LiveKernelIsHeld' /\ Live' \subseteq Live \cup {k}
      BY <1>1, <1>14, <2>2, Spawns
    <2>5. /\ child' \in Fresh /\ child' = k
          /\ alive' = alive \cup {child'} /\ owner' = [owner EXCEPT ![child'] = conn[c].user]
      BY <1>14 DEF SpawnChild
    <2>6. TypeOK'
      BY <1>3, <1>4, <1>5, <2>1, <2>3, <2>4, HandlerTypes
    <2>7. Links'
      BY <1>3, <2>1, <2>2, <2>3, <2>4, <2>5, HandlerLinks
    <2> QED
      BY <2>4, <2>6, <2>7
  <1> QED
    BY <1>7, <1>8, <1>9, <1>12, <1>13, <1>14 DEF Handler

\* A kernel that ends.
LEMMA ExitStep ==
    ASSUME IInv, NEW k \in Kernels, KernelExit(k)
    PROVE  IInv'
  <1> USE DEF IInv
  <1>1. ProcsTyped /\ Links
    BY TypeParts
  <1>2. ProcsTyped' /\ LiveKernelIsHeld' /\ Live' \subseteq Live
    BY <1>1, Exits
  <1>3. UNCHANGED <<host, service, child, rootLog, conn, clients, events>>
    BY DEF KernelExit
  <1>4. TypeOK'
    <2>1. HostTyped' /\ ConnTyped' /\ OpTyped' /\ Counted' /\ Down'
      BY <1>3, TypeParts DEF HostTyped, ConnTyped, OpTyped, Counted, Down, host, clients, Running
    <2> QED
      BY <1>2, <2>1 DEF TypeOK, HostTyped, ProcsTyped, ConnTyped, OpTyped, Counted, Down, Holds,
         Processes
  <1>5. Asked' /\ Waits' /\ Meant'
    BY <1>1, <1>3 DEF Links, Asked, Waits, Meant, clients
  <1>6. Stops'
    BY <1>1, <1>2, <1>3 DEF Links, Stops, Stopped, clients
  <1>7. Owners'
    BY <1>1, <1>3 DEF Links, Owners, KernelExit, ProcsTyped, host
  <1> QED
    BY <1>2, <1>4, <1>5, <1>6, <1>7 DEF Links

LEMMA Typings ==
    ASSUME HostTyped', ProcsTyped', ConnTyped', OpTyped', Counted',
           Running' \/ (child' = None /\ \A c \in Conns : conn'[c].at \in {"free", "answered"})
    PROVE  TypeOK'
  BY DEF TypeOK, HostTyped, ProcsTyped, ConnTyped, OpTyped, Counted, Holds, Processes, Running

\* The installer, for a launcher or for the settings page.
LEMMA Installs ==
    ASSUME IInv, OpTyped', Counted',
           RunInstall \/ InstallBreaks \/ (NoShutdown /\ UNCHANGED <<host, service>>),
           \A u \in Users : op'[u].at = "wait" => op'[u] = op[u],
           \A u \in Users : op'[u].do = "stop" => op'[u].at # "controller",
           \A u \in Users : op'[u].at \in {"open", "installing"} => op'[u].do # "none"
    PROVE  IInv'
  <1> USE DEF IInv
  <1>1. HostTyped /\ ProcsTyped /\ ConnTyped /\ Down /\ Links
    BY TypeParts
  <1>2. CASE ShutdownIfRunning /\ service' \in {"registered", "running"} /\ UNCHANGED host
    <2>1. /\ ProcsTyped' /\ LiveKernelIsHeld' /\ ConnTyped' /\ Live' \subseteq Live
          /\ child' = None /\ \A c \in Conns : conn'[c].at \in {"free", "answered"}
          /\ conn' = Hangup \/ (conn' = conn /\ ~Running)
      BY <1>2, Conditional DEF ShutdownIfRunning, Shutdown
    <2>2. HostTyped'
      BY <1>1, <1>2 DEF HostTyped, host
    <2> QED
      BY <2>1, <2>2, DaemonLinks, Typings
  <1>3. ASSUME NoShutdown, HostTyped', UNCHANGED platform, service' = service \/ ~Running,
               loaded' = loaded
        PROVE  IInv'
    <2>1. ProcsTyped' /\ ConnTyped' /\ LiveKernelIsHeld' /\ Live' = Live
      BY <1>1, <1>3 DEF NoShutdown, ProcsTyped, ConnTyped, LiveKernelIsHeld, Held, Live
    <2>2. TypeOK'
      BY <1>1, <1>3, <2>1, Typings DEF Down, NoShutdown, Running
    <2>3. Asked' /\ Meant'
      BY <1>1, <1>3 DEF Links, Asked, Meant, NoShutdown
    <2>4. Waits'
      BY <1>1, <1>3 DEF Links, Waits, NoShutdown
    <2>5. Stops'
      BY <1>1, <1>3, <2>1 DEF Links, Stops, Stopped, NoShutdown
    <2>6. Owners'
      BY <1>1, <1>3 DEF Links, Owners, NoShutdown
    <2> QED
      BY <2>1, <2>2, <2>3, <2>4, <2>5, <2>6 DEF Links
  <1>4. CASE InstallHelper \/ InstallBreaks
    BY <1>2, <1>4 DEF InstallHelper, InstallBreaks
  <1>5. CASE InstallSvc
    <2>1. HostTyped'
      BY <1>1, <1>5, RemoteAssumption DEF InstallSvc, HostTyped, Holds
    <2>2. service' = service \/ ~Running
      BY <1>5 DEF InstallSvc, Running
    <2> QED
      BY <1>3, <1>5, <2>1, <2>2 DEF InstallSvc
  <1>6. CASE NoShutdown /\ UNCHANGED <<host, service>>
    <2>1. HostTyped'
      BY <1>1, <1>6 DEF HostTyped, host
    <2> QED
      BY <1>3, <1>6, <2>1 DEF host
  <1> QED
    BY <1>4, <1>5, <1>6 DEF RunInstall

LEMMA EventCounts == ASSUME Counted, Event PROVE events' \in 0..MaxEvents
  <1>1. events < MaxEvents /\ events' = events + 1 /\ events \in 0..MaxEvents
    BY DEF Counted, Event
  <1> QED
    BY <1>1, RemoteAssumption

LEMMA InstallStep ==
    ASSUME IInv, (\E u \in Users : Install(u) \/ InstallFails(u)) \/ HelperInstall
    PROVE  IInv'
  <1> USE DEF IInv
  <1>1. OpTyped /\ Counted /\ Links
    BY TypeParts
  <1>2. ASSUME NEW u \in Users, NEW x \in Operations, op' = [op EXCEPT ![u] = x], x.at # "wait",
               x.at # "controller", x.at = "open" => x.do # "none", x.at # "installing",
               UNCHANGED <<handle, ops, events>>,
               RunInstall \/ InstallBreaks \/ (NoShutdown /\ UNCHANGED <<host, service>>)
        PROVE  IInv'
    <2>1. op \in [Users -> Operations]
      BY <1>1 DEF OpTyped
    <2>2. op'[u] = x /\ \A v \in Users \ {u} : op'[v] = op[v]
      BY <1>2, <2>1
    <2>3. OpTyped' /\ Counted'
      BY <1>1, <1>2, <2>1 DEF OpTyped, Counted
    <2>4. \A v \in Users : /\ op[v].do = "stop" => op[v].at # "controller"
                           /\ op[v].at \in {"open", "installing"} => op[v].do # "none"
      BY <1>1 DEF Links, Stops, Meant
    <2> QED
      BY <1>2, <2>2, <2>3, <2>4, Installs
  <1>3. ASSUME NEW u \in Users, Install(u) PROVE IInv'
    <2> DEFINE x == [op[u] EXCEPT !.at = "open", !.probed = TRUE]
    <2>1. op[u] \in Operations /\ op[u].at = "installing"
      BY <1>1, <1>3 DEF OpTyped, Install
    <2>2. op[u].do # "none"
      BY <1>1, <2>1 DEF Links, Meant
    <2>3. x \in Operations
      BY <2>1 DEF Operations
    <2>4. x.at = "open" /\ x.do = op[u].do
      BY <2>1 DEF Operations
    <2>5. op' = [op EXCEPT ![u] = x]
      BY <1>1, <1>3 DEF Install, OpTyped
    <2> HIDE DEF x
    <2> QED
      BY <1>2, <1>3, <2>2, <2>3, <2>4, <2>5 DEF Install
  <1>4. ASSUME NEW u \in Users, InstallFails(u) PROVE IInv'
    <2>1. PICK r \in Results : op' = [op EXCEPT ![u] = Done(u, r)]
      BY <1>4 DEF InstallFails, ElevationErrors, Results
    <2>2. Done(u, r) \in Operations /\ Done(u, r).at = "done"
      BY <1>1, Dones
    <2> QED
      BY <1>2, <1>4, <2>1, <2>2 DEF InstallFails
  <1>5. CASE HelperInstall
    <2>1. OpTyped' /\ Counted'
      BY <1>1, <1>5, EventCounts DEF HelperInstall, OpTyped, Counted, clients
    <2>2. \A v \in Users : /\ op[v].do = "stop" => op[v].at # "controller"
                           /\ op[v].at \in {"open", "installing"} => op[v].do # "none"
      BY <1>1 DEF Links, Stops, Meant
    <2> QED
      BY <1>5, <2>1, <2>2, Installs DEF HelperInstall, clients
  <1> QED
    BY <1>3, <1>4, <1>5

LEMMA DaemonStep ==
    ASSUME IInv, HelperUninstall \/ ServiceStops \/ DaemonCrash \/ LaunchdRestart \/ Reboot
    PROVE  IInv'
  <1> USE DEF IInv
  <1>1. HostTyped /\ ProcsTyped /\ ConnTyped /\ OpTyped /\ Counted /\ Down /\ Links
    BY TypeParts
  <1>2. ASSUME HostTyped', ProcsTyped', Live' \subseteq Live, child' = None, LiveKernelIsHeld',
               conn' = Hangup \/ (conn' = conn /\ ~Running), UNCHANGED clients,
               events' \in 0..MaxEvents
        PROVE  IInv'
    <2>1. OpTyped' /\ Counted'
      BY <1>1, <1>2 DEF OpTyped, Counted, clients
    <2>2. ConnTyped' /\ \A c \in Conns : conn'[c].at \in {"free", "answered"}
      BY <1>1, <1>2, Hangups DEF ConnTyped, Down
    <2>3. TypeOK'
      BY <1>2, <2>1, <2>2, Typings
    <2>4. \A v \in Users : /\ op[v].do = "stop" => op[v].at # "controller"
                           /\ op[v].at \in {"open", "installing"} => op[v].do # "none"
      BY <1>1 DEF Links, Stops, Meant
    <2>5. Links'
      BY <1>2, <2>4, DaemonLinks DEF clients
    <2> QED
      BY <1>2, <2>3, <2>5
  <1>3. CASE HelperUninstall
    <2>1. Event /\ UNCHANGED clients /\ \E d \in {"helper", "svc"} : Uninstall(d)
      BY <1>3 DEF HelperUninstall, UninstallHelper, UninstallSvc
    <2>2. ShutdownIfRunning /\ HostTyped'
      BY <1>1, <2>1 DEF Uninstall, HostTyped, Holds
    <2>3. events' \in 0..MaxEvents
      BY <1>1, <2>1, EventCounts
    <2>4. conn' = Hangup \/ (conn' = conn /\ ~Running)
      BY <2>2 DEF ShutdownIfRunning, Shutdown, NoShutdown
    <2> QED
      BY <1>2, <2>1, <2>2, <2>3, <2>4, Conditional
  <1>4. CASE ServiceStops
    <2>1. Shutdown /\ UNCHANGED clients /\ HostTyped' /\ Event
      BY <1>1, <1>4 DEF ServiceStops, HostTyped, Holds
    <2>2. ProcsTyped' /\ Live' = {} /\ child' = None /\ conn' = Hangup
      BY <1>1, <2>1, Shutdowns DEF Shutdown
    <2>3. LiveKernelIsHeld' /\ events' \in 0..MaxEvents
      BY <1>1, <2>1, <2>2, EventCounts DEF LiveKernelIsHeld, Live
    <2> QED
      BY <1>2, <2>1, <2>2, <2>3
  <1>5. CASE DaemonCrash
    <2>1. UNCHANGED clients /\ HostTyped' /\ Event /\ child' = None /\ conn' = Hangup
      BY <1>1, <1>5 DEF DaemonCrash, HostTyped, Holds
    <2>2. ProcsTyped' /\ Live' = {}
      BY <1>1, <1>5, Crashes
    <2>3. LiveKernelIsHeld' /\ events' \in 0..MaxEvents
      BY <1>1, <2>1, <2>2, EventCounts DEF LiveKernelIsHeld, Live
    <2> QED
      BY <1>2, <2>1, <2>2, <2>3
  <1>6. CASE LaunchdRestart
    <2>1. UNCHANGED <<host, procs, conn, clients, events>> /\ service' = "running"
      BY <1>6 DEF LaunchdRestart
    <2>2. HostTyped' /\ ProcsTyped' /\ ConnTyped' /\ OpTyped' /\ Counted' /\ LiveKernelIsHeld'
      BY <1>1, <2>1 DEF HostTyped, ProcsTyped, ConnTyped, OpTyped, Counted, LiveKernelIsHeld, Held,
         host, procs, clients
    <2>3. TypeOK'
      BY <2>1, <2>2, Typings DEF Running
    <2>4. Asked' /\ Waits' /\ Meant'
      BY <1>1, <2>1 DEF Links, Asked, Waits, Meant, clients
    <2>5. Live' = Live
      BY <2>1 DEF Live, procs
    <2>6. Stops' /\ Owners'
      BY <1>1, <2>1, <2>5 DEF Links, Stops, Stopped, Owners, host, procs, clients
    <2> QED
      BY <2>2, <2>3, <2>4, <2>6 DEF Links
  <1>7. CASE Reboot
    <2>1. ProcsTyped' /\ Live' = {}
      BY <1>1, <1>7, Reboots
    <2>2. HostTyped'
      BY <1>1, <1>7 DEF Reboot, HostTyped
    <2>3. \A c \in Conns : conn'[c] = Free
      BY <1>7 DEF Reboot
    <2>4. \A u \in Users : op'[u] = Idle
      BY <1>7 DEF Reboot
    <2>5. Free \in Connections /\ Free.at = "free" /\ Idle \in Operations /\ Idle.at = "idle"
      BY DEF Free, Connections, Idle, Operations
    <2>6. ConnTyped'
      BY <1>7, <2>5 DEF Reboot, ConnTyped
    <2>7. OpTyped'
      BY <1>7, <2>5 DEF Reboot, OpTyped, Processes
    <2>8. Counted'
      BY <1>1, <1>7, EventCounts DEF Reboot, Counted
    <2>9. TypeOK'
      BY <1>7, <2>1, <2>2, <2>3, <2>5, <2>6, <2>7, <2>8, Typings DEF Reboot
    <2>10. LiveKernelIsHeld'
      BY <2>1 DEF LiveKernelIsHeld, Live
    <2>11. Asked' /\ Waits' /\ Meant' /\ Stops'
      BY <2>3, <2>4, <2>5 DEF Asked, Waits, Meant, Stops
    <2>12. Owners'
      BY <1>7, <2>3, <2>5 DEF Owners, Reboot
    <2> QED
      BY <2>9, <2>10, <2>11, <2>12 DEF Links
  <1> QED
    BY <1>3, <1>4, <1>5, <1>6, <1>7

LEMMA Initially == Init => IInv
  <1> SUFFICES ASSUME Init PROVE IInv
    OBVIOUS
  <1>1. Free \in Connections /\ Free.at = "free" /\ Idle \in Operations /\ Idle.at = "idle"
    BY DEF Free, Connections, Idle, Operations
  <1>2. HostTyped /\ ProcsTyped /\ Counted
    BY RemoteAssumption DEF Init, HostTyped, ProcsTyped, Counted, Holds, Processes
  <1>3. ConnTyped /\ OpTyped /\ Down
    BY <1>1 DEF Init, ConnTyped, OpTyped, Down, Processes
  <1>4. LiveKernelIsHeld
    BY DEF Init, LiveKernelIsHeld
  <1>5. Asked /\ Waits /\ Meant /\ Stops /\ Owners
    BY <1>1 DEF Init, Asked, Waits, Meant, Stops, Owners
  <1> QED
    BY <1>2, <1>3, <1>4, <1>5, TypeParts DEF IInv, Links

LEMMA Inductive == IInv /\ [Next]_vars => IInv'
  <1> SUFFICES ASSUME IInv, [Next]_vars PROVE IInv'
    OBVIOUS
  <1>1. CASE UNCHANGED vars
    BY <1>1 DEF vars, IInv, TypeOK, LiveKernelIsHeld, Links, Asked, Waits, Meant, Stops, Stopped,
       Owners, Held, Running, Live
  <1>2. ASSUME NEW u \in Users, Proceed(u) PROVE IInv'
    BY <1>2, LauncherStep, InstallStep DEF Proceed, TimedStep, UntimedStep
  <1>3. CASE Next
    BY <1>2, <1>3, LauncherStep, HandlerStep, ExitStep, InstallStep, DaemonStep DEF Next
  <1> QED
    BY <1>1, <1>3

\* Every behaviour keeps the inductive invariant.
THEOREM Invariant == Spec => []IInv
  BY Initially, Inductive, PTL DEF Spec

\* Every variable stays in its range, and a daemon that is down handles nothing.
THEOREM TypeCorrect == Spec => []TypeOK
  <1>1. IInv => TypeOK
    BY DEF IInv
  <1> QED
    BY <1>1, Invariant, PTL

\* Across installs, restarts and abandoned requests the daemon never loses
\* hold of a kernel: one nobody killed is in the slot of the running daemon.
THEOREM KernelsAreHeld == Spec => []LiveKernelIsHeld
  <1>1. IInv => LiveKernelIsHeld
    BY DEF IInv
  <1> QED
    BY <1>1, Invariant, PTL

\* The service never kills one account's kernel for another.
THEOREM AccountsAreApart == Spec => []OwnKernelOnly
  <1>1. IInv => OwnKernelOnly
    BY DEF IInv, Links, Owners, OwnKernelOnly
  <1> QED
    BY <1>1, Invariant, PTL

-----------------------------------------------------------------------------
\* The step of account u that ends a stop with success.
LEMMA StopReturns ==
    ASSUME IInv, NEW u \in Users, Proceed(u), op[u].do = "stop", op[u].at # "done",
           op'[u].at = "done", op'[u].res = "Ok"
    PROVE  op[u].kernel \notin Live'
  <1> USE DEF IInv
  <1>1. OpTyped /\ ConnTyped /\ ProcsTyped /\ Down /\ Links
    BY TypeParts
  <1>2. op \in [Users -> Operations] /\ op[u] \in Operations
    BY <1>1 DEF OpTyped
  <1>3. op[u].at # "controller" /\ (op[u].at = "wait" => Stopped(u))
    BY <1>1 DEF Links, Stops
  <1>4. CASE Missing(u)
    <2>1. child = None /\ UNCHANGED procs
      BY <1>1, <1>4 DEF Missing, Down
    <2>2. Live = {} /\ Live' = Live
      BY <2>1 DEF LiveKernelIsHeld, Held, Live, procs
    <2> QED
      BY <2>2
  <1>5. CASE Receive(u)
    <2> DEFINE y == conn[op[u].conn]
    <2>1. op[u].at = "wait" /\ y.at = "answered" /\ UNCHANGED procs
      BY <1>5 DEF Receive
    <2>2. y.reply # "Started" /\ (y.reply \in {"Pong", "Stopped"} => op[u].kernel \notin Live)
      BY <1>3, <2>1 DEF Stopped
    <2>3. op'[u] = Done(u, IF y.reply \in {"Pong", "Stopped"} THEN "Ok" ELSE "Failed")
      BY <1>2, <1>5, <2>2 DEF Receive
    <2>4. Done(u, "Failed").res = "Failed"
      BY <1>1, Dones DEF Results
    <2>5. y.reply \in {"Pong", "Stopped"}
      BY <2>3, <2>4
    <2>6. Live' = Live
      BY <2>1 DEF Live, procs
    <2> QED
      BY <2>2, <2>5, <2>6
  <1>6. CASE CallFails(u) \/ Timeout(u)
    <2>1. op'[u] = Done(u, "Failed")
      BY <1>2, <1>6 DEF CallFails, Timeout
    <2> QED
      BY <1>1, <2>1, Dones DEF Results
  <1>7. CASE Ready(u) \/ StartTimeout(u)
    BY <1>3, <1>7 DEF Ready, StartTimeout
  <1>8. CASE Install(u)
    <2>1. op'[u].at = "open"
      BY <1>2, <1>8 DEF Install, Operations
    <2> QED
      BY <2>1
  <1>9. CASE InstallFails(u)
    <2>1. PICK r \in Results \ {"Ok"} : op' = [op EXCEPT ![u] = Done(u, r)]
      BY <1>9 DEF InstallFails, ElevationErrors, Results
    <2> QED
      BY <1>1, <1>2, <2>1, Dones
  <1>10. CASE Return(u)
    BY <1>10 DEF Return
  <1>11. ASSUME NEW c \in Conns, Open(u, c) PROVE FALSE
    <2>1. op'[u].at = "wait"
      BY <1>2, <1>11 DEF Open, Operations
    <2> QED
      BY <2>1
  <1> QED
    BY <1>4, <1>5, <1>6, <1>7, <1>8, <1>9, <1>10, <1>11
    DEF Proceed, TimedStep, UntimedStep

LEMMA StopStep == IInv /\ [Next]_vars =>
    [\A u \in Users :
          /\ op[u].do = "stop" /\ op[u].at # "done"
          /\ op'[u].at = "done" /\ op'[u].res = "Ok"
          => op[u].kernel \notin alive' \ (dying' \cup orphans')]_vars
  <1> SUFFICES ASSUME IInv, Next, NEW u \in Users, op[u].do = "stop", op[u].at # "done",
                      op'[u].at = "done", op'[u].res = "Ok"
               PROVE  op[u].kernel \notin Live'
    BY DEF Live
  <1>1. op \in [Users -> Operations]
    BY TypeParts DEF IInv, OpTyped
  <1>2. ASSUME NEW v \in Users, Proceed(v) \/ \E do \in DOMAIN Request : Begin(v, do), v # u
        PROVE  op'[u] = op[u]
    BY <1>1, <1>2
    DEF Proceed, TimedStep, UntimedStep, Begin, Missing, CallFails, Receive, Timeout,
        Ready, StartTimeout, Install, InstallFails, Return, Open
  <1>3. ASSUME NEW do \in DOMAIN Request, Begin(u, do) PROVE op'[u].at = "open"
    BY <1>1, <1>3 DEF Begin, Idle
  <1>4. CASE Proceed(u)
    BY <1>4, StopReturns
  <1>5. ASSUME UNCHANGED clients PROVE FALSE
    BY <1>5 DEF clients
  <1>6. \A c \in Conns : ~Handler(c)
    BY <1>5 DEF Handler, RefuseCaller, Ping, RejectStart, StartKernel, StopKernel, Killed,
       SpawnError, SpawnChild
  <1>7. \A k \in Kernels : ~KernelExit(k)
    BY <1>5 DEF KernelExit
  <1>8. ~(HelperInstall \/ HelperUninstall \/ ServiceStops \/ DaemonCrash \/ LaunchdRestart)
    BY <1>5 DEF HelperInstall, HelperUninstall, ServiceStops, DaemonCrash, LaunchdRestart
  <1>9. ~Reboot
    BY DEF Reboot, Idle
  <1> QED
    BY <1>2, <1>3, <1>4, <1>6, <1>7, <1>8, <1>9 DEF Next

\* A stop that succeeds leaves its kernel dead or killed, whether a daemon
\* answered or none was there, unless the kernel outlived its daemon.
THEOREM StopsEndKernels == Spec => StopEndsItsKernel
  BY Invariant, StopStep, PTL DEF Spec, StopEndsItsKernel
=============================================================================

--------------------------- MODULE PrivilegedDaemon ---------------------------
(***************************************************************************)
(* One lifetime of the privileged daemon that runs the kernel for the      *)
(* client: xboard-helper (macOS, helper/src/main.rs) or xboard-svc         *)
(* (Windows, svc/src/main.rs).  Both serve every connection in a task of   *)
(* its own on one thread, around one shared slot, `child`.  A step ends at *)
(* an await: while one handler waits for a kernel to die or for a          *)
(* directory to be made, the others run.                                   *)
(*                                                                         *)
(* Each client request is a connection (HelperSocketLauncher::call opens a *)
(* fresh one): it is sent, handled, and answered unless the daemon stops.  *)
(* A "patient" client awaits each answer before the next request, as one   *)
(* launcher call does; an "impatient" one does not: calls overlap, or one  *)
(* is dropped by a timeout while the daemon still works on it.  Which of   *)
(* them the daemon serves is settled in the initial state.                 *)
(* Path validation is a choice between accepting and rejecting a request.  *)
(***************************************************************************)

CONSTANTS
    Conns,    \* connections, reused once answered
    Kernels,  \* process identities, reused once dead
    NoKernel,
    Daemon,   \* "helper" or "svc"
    Clients,  \* the kinds of client: "patient", "impatient"
    MayStop   \* TRUE: the operating system may stop the daemon

ASSUME DaemonAssumption ==
    /\ NoKernel \notin Kernels
    /\ Daemon \in {"helper", "svc"}
    /\ Clients \subseteq {"patient", "impatient"}
    /\ MayStop \in BOOLEAN

VARIABLES
    child,   \* Mutex<Option<Child>>
    alive,   \* kernel processes that have not exited
    dying,   \* those among them that were sent a kill
    req,     \* the handler of each connection
    daemon,  \* "up"; "killing", "killing2": in kill_kernel of the stop; "down"
    victim,  \* the kernel the stop waits for
    client   \* the kind of client this lifetime serves

vars == <<child, alive, dying, req, daemon, victim, client>>

Idle == [pc |-> "idle", op |-> "none", victim |-> NoKernel, reply |-> "none"]

Init ==
    /\ child = NoKernel /\ alive = {} /\ dying = {}
    /\ req = [c \in Conns |-> Idle]
    /\ daemon = "up" /\ victim = NoKernel
    /\ client \in Clients

Held == {child} \ {NoKernel}
Up == daemon # "down"

\* kill_kernel up to its await: the slot is emptied first, then the kill is
\* sent.
TakeAndKill == child' = NoKernel /\ dying' = dying \cup (Held \cap alive)

\* A process keeps its identity until the Child that stands for it is reaped.
Fresh == Kernels \ (alive \cup {child, victim} \cup {req[c].victim : c \in Conns})

Reply(c, r) == [pc |-> "idle", op |-> req[c].op, victim |-> NoKernel, reply |-> r]

-----------------------------------------------------------------------------
(* Requests.                                                               *)

Send(c, op) ==
    /\ req[c].pc = "idle" /\ daemon = "up"
    /\ client = "patient" => \A d \in Conns : req[d].pc = "idle"
    /\ req' = [req EXCEPT ![c] = [Idle EXCEPT !.pc = "queued", !.op = op]]
    /\ UNCHANGED <<child, alive, dying, daemon, victim, client>>

Status(c) ==
    /\ Up /\ req[c].pc = "queued" /\ req[c].op = "Status"
    /\ req' = [req EXCEPT ![c] =
                  Reply(c, IF child # NoKernel THEN "Running" ELSE "NotRunning")]
    /\ UNCHANGED <<child, alive, dying, daemon, victim, client>>

RejectStart(c) ==
    /\ Up /\ req[c].pc = "queued" /\ req[c].op = "StartKernel"
    /\ req' = [req EXCEPT ![c] = Reply(c, "Error")]
    /\ UNCHANGED <<child, alive, dying, daemon, victim, client>>

BugStartKernel(c) == \* leaves the previous kernel running
    /\ Up /\ req[c].pc = "queued" /\ req[c].op = "StartKernel"
    /\ req' = [req EXCEPT ![c].pc = "dirs"]
    /\ UNCHANGED <<child, alive, dying, daemon, victim, client>>

\* start_kernel: an accepted request first kills the kernel in the slot.
StartKernel(c) ==
    /\ Up /\ req[c].pc = "queued" /\ req[c].op = "StartKernel"
    /\ TakeAndKill
    /\ req' = [req EXCEPT ![c].pc = IF Held = {} THEN "dirs" ELSE "killing",
                          ![c].victim = child]
    /\ UNCHANGED <<alive, daemon, victim, client>>

StopKernel(c) ==
    /\ Up /\ req[c].pc = "queued" /\ req[c].op = "StopKernel"
    /\ TakeAndKill
    /\ req' = [req EXCEPT ![c] = IF Held = {} THEN Reply(c, "Stopped")
                                 ELSE [@ EXCEPT !.pc = "killing", !.victim = child]]
    /\ UNCHANGED <<alive, daemon, victim, client>>

BugKilled(c) == \* a stop that had something to kill forgets to answer
    /\ Up /\ req[c].pc = "killing" /\ req[c].victim \notin alive
    /\ req[c].op = "StartKernel"
    /\ req' = [req EXCEPT ![c].pc = "dirs", ![c].victim = NoKernel]
    /\ UNCHANGED <<child, alive, dying, daemon, victim, client>>

\* The wait of kill_kernel returned.
Killed(c) ==
    /\ Up /\ req[c].pc = "killing" /\ req[c].victim \notin alive
    /\ req' = [req EXCEPT ![c] = IF req[c].op = "StopKernel" THEN Reply(c, "Stopped")
                                 ELSE [@ EXCEPT !.pc = "dirs", !.victim = NoKernel]]
    /\ UNCHANGED <<child, alive, dying, daemon, victim, client>>

BugSpawnChild(c, k) == \* without kill_on_drop
    /\ Up /\ req[c].pc = "dirs" /\ k \in Fresh
    /\ alive' = alive \cup {k}
    /\ child' = k
    /\ req' = [req EXCEPT ![c] = Reply(c, "Started")]
    /\ UNCHANGED <<dying, daemon, victim, client>>

\* The directories exist: open the log, spawn, store.  Storing drops a
\* child another handler stored meanwhile, and kill_on_drop kills it.
SpawnChild(c, k) ==
    /\ Up /\ req[c].pc = "dirs" /\ k \in Fresh
    /\ alive' = alive \cup {k}
    /\ dying' = dying \cup (Held \cap alive)
    /\ child' = k
    /\ req' = [req EXCEPT ![c] = Reply(c, "Started")]
    /\ UNCHANGED <<daemon, victim, client>>

SpawnError(c) ==
    /\ Up /\ req[c].pc = "dirs"
    /\ req' = [req EXCEPT ![c] = Reply(c, "Error")]
    /\ UNCHANGED <<child, alive, dying, daemon, victim, client>>

-----------------------------------------------------------------------------
(* The stop of the daemon: SIGTERM, or a stop by the service manager.      *)

\* Helper: process::exit runs no destructor.  Svc: a second kill_kernel, and
\* then the runtime and the state are dropped, which kills what they hold.
Exit ==
    /\ daemon' = "down"
    /\ child' = NoKernel /\ victim' = NoKernel
    /\ dying' = IF Daemon = "svc" THEN dying \cup (Held \cap alive) ELSE dying
    /\ req' = [c \in Conns |-> Idle]
    /\ UNCHANGED <<alive, client>>

BugBeginStop == \* exits without killing
    /\ MayStop /\ daemon = "up"
    /\ daemon' = "down" /\ child' = NoKernel /\ victim' = NoKernel
    /\ req' = [c \in Conns |-> Idle]
    /\ UNCHANGED <<alive, dying, client>>

BeginStop ==
    /\ MayStop /\ daemon = "up"
    /\ IF Held = {} THEN Exit
       ELSE /\ TakeAndKill
            /\ daemon' = "killing" /\ victim' = child
            /\ UNCHANGED <<alive, req, client>>

StopKilled ==
    /\ daemon \in {"killing", "killing2"} /\ victim \notin alive
    /\ IF Daemon = "svc" /\ daemon = "killing" /\ Held # {}
       THEN /\ TakeAndKill
            /\ daemon' = "killing2" /\ victim' = child
            /\ UNCHANGED <<alive, req, client>>
       ELSE Exit

-----------------------------------------------------------------------------
\* A kernel crashes, or dies of the kill it was sent; the slot does not
\* notice, for nothing polls the Child it holds.
KernelExit(k) ==
    /\ k \in alive
    /\ alive' = alive \ {k} /\ dying' = dying \ {k}
    /\ UNCHANGED <<child, req, daemon, victim, client>>

Handle(c) ==
    \/ Status(c) \/ RejectStart(c) \/ StartKernel(c) \/ StopKernel(c) \/ Killed(c)
    \/ (\E k \in Kernels : SpawnChild(c, k)) \/ SpawnError(c)

Next ==
    \/ \E c \in Conns : \/ \E op \in {"Status", "StartKernel", "StopKernel"} : Send(c, op)
                        \/ Handle(c)
    \/ BeginStop \/ StopKilled
    \/ \E k \in Kernels : KernelExit(k)

Spec == Init /\ [][Next]_vars

\* The runtime polls every handler; a kill takes effect.
Fairness ==
    /\ \A c \in Conns : WF_vars(Handle(c))
    /\ WF_vars(StopKilled)
    /\ \A k \in Kernels : WF_vars(k \in dying /\ KernelExit(k))

FairSpec == Spec /\ Fairness

-----------------------------------------------------------------------------
(* Properties.                                                             *)

Requests == [pc : {"idle", "queued", "killing", "dirs"},
             op : {"none", "Status", "StartKernel", "StopKernel"},
             victim : Kernels \cup {NoKernel},
             reply : {"none", "Running", "NotRunning", "Started", "Stopped", "Error"}]

\* Every variable is in its range, and only a live process is being killed.
TypeOK ==
    /\ child \in Kernels \cup {NoKernel} /\ victim \in Kernels \cup {NoKernel}
    /\ alive \subseteq Kernels /\ dying \subseteq alive
    /\ req \in [Conns -> Requests]
    /\ daemon \in {"up", "killing", "killing2", "down"}
    /\ client \in Clients

\* However requests overlap, a running kernel nobody has killed is the one
\* in the slot, where the next request finds it ("At most one mihomo lives
\* under the helper").
NoKernelIsLost == Up => alive \ dying \subseteq Held

\* For a patient client, and until the daemon is told to stop, a kernel starts
\* only after its predecessor is gone: the two never compete for the ports or
\* the tun device (start_kernel kills and waits before it spawns).
HandoverIsClean == client = "patient" /\ daemon = "up" => \A j, k \in alive : j = k

\* A stop of the daemon takes the kernel with it ("graceful kernel kill";
\* "Ensure the kernel is dead even if serve_loop returned an error").
NoKernelOutlivesDaemon == daemon = "down" => alive \subseteq dying

\* Every request is answered, unless the daemon stops first: no handler
\* waits for another for ever.
EveryRequestEnds == \A c \in Conns : (req[c].pc # "idle") ~> (req[c].pc = "idle")
=============================================================================

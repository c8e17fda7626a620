---------------------------- MODULE RemoteLauncher ----------------------------
(***************************************************************************)
(* The launchers that run the kernel through a privileged daemon: the      *)
(* HelperSocketLauncher with xboard-helper on macOS and the SvcPipeLauncher*)
(* with xboard-svc on Windows (core/src/kernel/launcher.rs, helper, svc,   *)
(* desktop helper_install.rs and svc_install.rs).                          *)
(*                                                                         *)
(* Every account of the host runs its own client, whose launcher carries   *)
(* out one operation at a time: ensure_privileged, spawn or stop.  Each    *)
(* request is a connection of its own; a client that waited 15 seconds     *)
(* leaves, and the daemon's handler goes on without it.  The daemon comes  *)
(* and goes: it is installed, removed, crashes, is restarted by launchd,   *)
(* or started again at a reboot.                                           *)
(*                                                                         *)
(* PrivilegedDaemon has one lifetime of the daemon in more detail: here a  *)
(* stop of the daemon is one step.  Which platform the host has is settled *)
(* in the initial state.                                                   *)
(***************************************************************************)
EXTENDS Naturals, FiniteSets

CONSTANTS
    Users,     \* accounts of the host
    Admins,    \* those that may approve an installation
    Conns,     \* connections to the daemon, reused once over
    Kernels,   \* process identities, reused once dead
    None,
    Platforms, \* subset of {"helper", "svc"}
    MaxOps,    \* bound on launcher operations
    MaxEvents  \* bound on crashes, reboots and visits of the settings

ASSUME RemoteAssumption ==
    /\ Admins \subseteq Users /\ Admins # {}
    /\ None \notin Users \cup Conns \cup Kernels
    /\ Platforms \subseteq {"helper", "svc"}
    /\ MaxOps \in Nat /\ MaxEvents \in Nat

VARIABLES
    platform,
    service,  \* "absent"; "registered": installed, not running; "running"
    grantee,  \* svc: the SID in the service's command line
    loaded,   \* svc: the SID the running process was started with
    child,    \* Mutex<Option<Child>> of the daemon
    alive,    \* kernel processes that have not exited
    dying,    \* those among them that were sent a kill
    orphans,  \* those among them whose daemon died without a destructor
    owner,    \* the account on whose request a kernel was spawned
    rootLog,  \* accounts whose mihomo.log the daemon created
    conn,     \* the daemon's handler of each connection
    op,       \* the operation of each account's launcher
    handle,   \* the kernel of the LaunchHandle each client holds
    ops, events

host == <<platform, grantee, loaded>>
procs == <<child, alive, dying, orphans, owner, rootLog>>
clients == <<op, handle, ops>>
vars == <<platform, service, grantee, loaded, child, alive, dying, orphans, owner,
          rootLog, conn, op, handle, ops, events>>

Free == [at |-> "free", user |-> None, req |-> "none", victim |-> None, reply |-> "none"]
Idle == [do |-> "none", at |-> "idle", conn |-> None, probed |-> FALSE,
         kernel |-> None, res |-> "none"]

Init ==
    /\ platform \in Platforms
    /\ service = "absent" /\ grantee = None /\ loaded = None
    /\ child = None /\ alive = {} /\ dying = {} /\ orphans = {}
    /\ owner = [k \in Kernels |-> None]
    /\ rootLog = {}
    /\ conn = [c \in Conns |-> Free]
    /\ op = [u \in Users |-> Idle]
    /\ handle = [u \in Users |-> None]
    /\ ops = 0 /\ events = 0

Running == service = "running"
Held == {child} \ {None}

\* A process keeps its identity until the Child that stands for it is reaped
\* and the handle that names it is given up.
Fresh == Kernels \ (alive \cup Held \cup {conn[c].victim : c \in Conns}
                          \cup {handle[u] : u \in Users} \cup {op[u].kernel : u \in Users})

\* A handler ends with its answer: the client that waits for it takes it,
\* else it is written to a closed connection.
Awaited(c) == \E u \in Users : op[u].conn = c
Answer(c, r, k) ==
    IF Awaited(c) THEN [conn[c] EXCEPT !.at = "answered", !.victim = k, !.reply = r]
    ELSE Free

\* The daemon is gone: the clients that wait read the end of the stream.
Hangup == [c \in Conns |-> IF Awaited(c) THEN [Free EXCEPT !.at = "answered",
                                                           !.reply = "Closed"]
                           ELSE Free]

-----------------------------------------------------------------------------
(* The launcher.                                                           *)

\* KernelManager gives its handle up to stop, whatever stop returns.
Begin(u, do) ==
    /\ op[u].at = "idle" /\ ops < MaxOps
    /\ do = "spawn" => handle[u] = None
    /\ do = "stop" => handle[u] # None
    /\ op' = [op EXCEPT ![u] = [Idle EXCEPT !.do = do, !.at = "open",
                                 !.kernel = IF do = "stop" THEN handle[u] ELSE None]]
    /\ handle' = [handle EXCEPT ![u] = IF do = "stop" THEN None ELSE @]
    /\ ops' = ops + 1
    /\ UNCHANGED <<host, service, procs, conn, events>>

Done(u, r) == [op[u] EXCEPT !.at = "done", !.conn = None, !.res = r]

Request == [ensure |-> "Ping", spawn |-> "StartKernel", stop |-> "StopKernel"]

\* call: connect and send.  A busy pipe is retried every 50 ms without end (no
\* step), and neither the connect nor the write has a timeout.
Open(u, c) ==
    /\ op[u].at = "open" /\ Running /\ conn[c] = Free
    /\ conn' = [conn EXCEPT ![c] = [Free EXCEPT !.at = "asked", !.user = u,
                                                !.req = Request[op[u].do]]]
    /\ op' = [op EXCEPT ![u].at = "wait", ![u].conn = c]
    /\ UNCHANGED <<host, service, procs, handle, ops, events>>

\* Nothing listens: ServiceMissing.  The first probe asks the installer, a
\* stop takes the kernel for stopped.
Missing(u) ==
    /\ op[u].at = "open" /\ ~Running
    /\ op' = [op EXCEPT ![u] =
                 IF @.do = "ensure" /\ ~@.probed THEN [@ EXCEPT !.at = "installing"]
                 ELSE Done(u, IF @.do = "stop" THEN "Ok" ELSE "ServiceMissing")]
    /\ UNCHANGED <<host, service, procs, conn, handle, ops, events>>

\* The socket denies the caller, or connect or write fails.
CallFails(u) ==
    /\ op[u].at = "open"
    /\ op' = [op EXCEPT ![u] = Done(u, "Failed")]
    /\ UNCHANGED <<host, service, procs, conn, handle, ops, events>>

\* The answer: what the operation expects, or an error of some kind.
Receive(u) ==
    /\ op[u].at = "wait" /\ conn[op[u].conn].at = "answered"
    /\ LET c == conn[op[u].conn]
       IN  op' = [op EXCEPT ![u] =
                     IF c.reply = "Started"
                     THEN [@ EXCEPT !.at = "controller", !.conn = None, !.kernel = c.victim]
                     ELSE Done(u, IF c.reply \in {"Pong", "Stopped"} THEN "Ok" ELSE "Failed")]
    /\ conn' = [conn EXCEPT ![op[u].conn] = Free]
    /\ UNCHANGED <<host, service, procs, handle, ops, events>>

\* 15 seconds without an answer: the connection is dropped.
BugTimeout(u) == FALSE \* no timeout on the read

BugSlowStop(u) == \* a stop that is not answered counts as done
    /\ op[u].at = "wait" /\ conn[op[u].conn].at # "answered"
    /\ op' = [op EXCEPT ![u] = Done(u, IF @.do = "stop" THEN "Ok" ELSE "Failed")]
    /\ UNCHANGED <<host, service, procs, conn, handle, ops, events>>

Timeout(u) ==
    /\ op[u].at = "wait" /\ conn[op[u].conn].at # "answered"
    /\ op' = [op EXCEPT ![u] = Done(u, "Failed")]
    /\ UNCHANGED <<host, service, procs, conn, handle, ops, events>>

\* wait_for_controller: the kernel answers, or 50 tries were not enough; a
\* kernel that was too slow is left running.
Ready(u) ==
    /\ op[u].at = "controller" /\ op[u].kernel \in alive
    /\ op' = [op EXCEPT ![u] = Done(u, "Ok")]
    /\ UNCHANGED <<host, service, procs, conn, handle, ops, events>>

StartTimeout(u) ==
    /\ op[u].at = "controller"
    /\ op' = [op EXCEPT ![u] = Done(u, "Failed")]
    /\ UNCHANGED <<host, service, procs, conn, handle, ops, events>>

\* The caller takes the result: a spawn that succeeded leaves its handle.
Return(u) ==
    /\ op[u].at = "done"
    /\ handle' = [handle EXCEPT ![u] =
                     IF op[u].do = "spawn" /\ op[u].res = "Ok" THEN op[u].kernel ELSE @]
    /\ op' = [op EXCEPT ![u] = Idle]
    /\ UNCHANGED <<host, service, procs, conn, ops, events>>

-----------------------------------------------------------------------------
(* The daemon's handlers.                                                  *)

\* The service serves only the account it was started for; the helper serves
\* whoever the socket admits.
Served(c) == platform = "svc" => conn[c].user = loaded

\* handle_client: an error frame, before the request is read.
RefuseCaller(c) ==
    /\ conn[c].at = "asked" /\ ~Served(c)
    /\ conn' = [conn EXCEPT ![c] = Answer(c, "Error", None)]
    /\ UNCHANGED <<host, service, procs, clients, events>>

Ping(c) ==
    /\ conn[c].at = "asked" /\ Served(c) /\ conn[c].req = "Ping"
    /\ conn' = [conn EXCEPT ![c] = Answer(c, "Pong", None)]
    /\ UNCHANGED <<host, service, procs, clients, events>>

\* validate_data_path, on the paths KernelManager sends: all of them are under
\* the caller's data directory, which is the caller's; the log is the
\* daemon's once the daemon created it.  The service looks at no owner.
AcceptsPaths(u) == platform = "helper" => u \notin rootLog

RejectStart(c) ==
    /\ conn[c].at = "asked" /\ Served(c) /\ conn[c].req = "StartKernel"
    /\ ~AcceptsPaths(conn[c].user)
    /\ conn' = [conn EXCEPT ![c] = Answer(c, "Error", None)]
    /\ UNCHANGED <<host, service, procs, clients, events>>

\* kill_kernel up to its await.
TakeAndKill == child' = None /\ dying' = dying \cup (Held \cap alive)

\* start_kernel: an accepted request first kills the kernel in the slot.
StartKernel(c) ==
    /\ conn[c].at = "asked" /\ Served(c) /\ conn[c].req = "StartKernel"
    /\ AcceptsPaths(conn[c].user)
    /\ TakeAndKill
    /\ conn' = [conn EXCEPT ![c].at = IF Held = {} THEN "dirs" ELSE "killing",
                            ![c].victim = child]
    /\ UNCHANGED <<host, service, alive, orphans, owner, rootLog, clients, events>>

StopKernel(c) ==
    /\ conn[c].at = "asked" /\ Served(c) /\ conn[c].req = "StopKernel"
    /\ TakeAndKill
    /\ conn' = [conn EXCEPT ![c] = IF Held = {} THEN Answer(c, "Stopped", None)
                                   ELSE [@ EXCEPT !.at = "killing", !.victim = child]]
    /\ UNCHANGED <<host, service, alive, orphans, owner, rootLog, clients, events>>

\* The wait of kill_kernel returned.
Killed(c) ==
    /\ conn[c].at = "killing" /\ conn[c].victim \notin alive
    /\ conn' = [conn EXCEPT ![c] = IF @.req = "StopKernel" THEN Answer(c, "Stopped", None)
                                   ELSE [@ EXCEPT !.at = "dirs", !.victim = None]]
    /\ UNCHANGED <<host, service, procs, clients, events>>

BugSpawnChild(c, k) == \* the previous child is dropped without kill_on_drop
    /\ conn[c].at = "dirs" /\ k \in Fresh
    /\ alive' = alive \cup {k} /\ child' = k
    /\ owner' = [owner EXCEPT ![k] = conn[c].user]
    /\ rootLog' = rootLog \cup {conn[c].user}
    /\ conn' = [conn EXCEPT ![c] = Answer(c, "Started", k)]
    /\ UNCHANGED <<host, service, dying, orphans, clients, events>>

\* The directories exist: open the log, spawn, store.
SpawnChild(c, k) ==
    /\ conn[c].at = "dirs" /\ k \in Fresh
    /\ alive' = alive \cup {k} /\ child' = k
    /\ dying' = dying \cup (Held \cap alive)
    /\ owner' = [owner EXCEPT ![k] = conn[c].user]
    /\ rootLog' = rootLog \cup {conn[c].user}
    /\ conn' = [conn EXCEPT ![c] = Answer(c, "Started", k)]
    /\ UNCHANGED <<host, service, orphans, clients, events>>

SpawnError(c) ==
    /\ conn[c].at = "dirs"
    /\ conn' = [conn EXCEPT ![c] = Answer(c, "Error", None)]
    /\ UNCHANGED <<host, service, procs, clients, events>>

\* A kernel crashes, or dies of the kill it was sent.
KernelExit(k) ==
    /\ k \in alive
    /\ alive' = alive \ {k} /\ dying' = dying \ {k} /\ orphans' = orphans \ {k}
    /\ owner' = [owner EXCEPT ![k] = None]
    /\ UNCHANGED <<host, service, child, rootLog, conn, clients, events>>

-----------------------------------------------------------------------------
(* The lifetimes of the daemon.                                            *)

\* An orderly end (SIGTERM, a stop by the service manager, an error in
\* serve_loop): the kernel in the slot is killed and waited for.
Shutdown ==
    /\ child' = None
    /\ alive' = alive \ Held /\ dying' = dying \ Held /\ orphans' = orphans \ Held
    /\ owner' = [k \in Kernels |-> IF k \in Held THEN None ELSE owner[k]]
    /\ conn' = Hangup
    /\ UNCHANGED rootLog

NoShutdown == UNCHANGED <<child, alive, dying, orphans, owner, rootLog, conn>>
ShutdownIfRunning == IF Running THEN Shutdown ELSE NoShutdown

\* launchd boots the old helper out and the new one in, which runs at once.
InstallHelper ==
    /\ platform = "helper"
    /\ ShutdownIfRunning /\ service' = "running"
    /\ UNCHANGED host

BugInstallSvc == \* the running service follows the new SID
    /\ platform = "svc"
    /\ grantee' \in Admins
    /\ loaded' = IF Running THEN grantee' ELSE loaded
    /\ service' = IF service = "absent" THEN "registered" ELSE service
    /\ NoShutdown /\ UNCHANGED platform

\* install_self: create the service or change its command line, for the
\* account the elevated xboard-svc.exe runs as: the administrator who
\* approved it, the caller or another.  It starts nothing: AutoStart is for
\* the next boot.
InstallSvc ==
    /\ platform = "svc"
    /\ grantee' \in Admins
    /\ service' = IF service = "absent" THEN "registered" ELSE service
    /\ NoShutdown /\ UNCHANGED <<platform, loaded>>

\* The script ended between bootout and bootstrap; nothing else that fails
\* changes what is installed.
InstallBreaks ==
    /\ platform = "helper"
    /\ ShutdownIfRunning /\ service' = "registered"
    /\ UNCHANGED host

RunInstall == InstallHelper \/ InstallSvc

\* ensure_privileged: after the installer, one more ping.
Install(u) ==
    /\ op[u].at = "installing" /\ RunInstall
    /\ op' = [op EXCEPT ![u].at = "open", ![u].probed = TRUE]
    /\ UNCHANGED <<handle, ops, events>>

\* run_elevated, run_as_admin: no consent, or what ran elevated failed.
ElevationErrors == {"NeedsConsent", "Failed"}

\* There may be no bundled binary to install either.
InstallFails(u) ==
    /\ op[u].at = "installing"
    /\ \/ InstallBreaks
       \/ NoShutdown /\ UNCHANGED <<host, service>>
    /\ \E r \in {"ServiceMissing"} \cup ElevationErrors : op' = [op EXCEPT ![u] = Done(u, r)]
    /\ UNCHANGED <<handle, ops, events>>

Event == events < MaxEvents /\ events' = events + 1

\* The settings page: helper_install and helper_uninstall.
HelperInstall == Event /\ (RunInstall \/ InstallBreaks) /\ UNCHANGED clients

\* bootout and remove; stop the service, then delete it, whichever works.
Uninstall(daemon) ==
    /\ platform = daemon /\ service # "absent"
    /\ ShutdownIfRunning /\ service' = "absent"
    /\ grantee' = None /\ loaded' = None
    /\ UNCHANGED platform

UninstallHelper == Uninstall("helper")
UninstallSvc == Uninstall("svc")

HelperUninstall == Event /\ (UninstallHelper \/ UninstallSvc) /\ UNCHANGED clients

\* serve_loop fails, or the service manager stops the service.
ServiceStops ==
    /\ Event /\ platform = "svc" /\ Running
    /\ Shutdown /\ service' = "registered" /\ loaded' = None
    /\ UNCHANGED <<platform, grantee, clients>>

\* The daemon is killed: no destructor runs, its kernel goes on.
DaemonCrash ==
    /\ Event /\ Running
    /\ service' = "registered" /\ loaded' = None
    /\ child' = None /\ orphans' = orphans \cup (alive \ dying)
    /\ conn' = Hangup
    /\ UNCHANGED <<platform, grantee, alive, dying, owner, rootLog, clients>>

\* KeepAlive.
LaunchdRestart ==
    /\ platform = "helper" /\ service = "registered"
    /\ service' = "running"
    /\ UNCHANGED <<host, procs, conn, clients, events>>

\* Everything ends; what is registered runs at boot, for the SID in its
\* command line.
Reboot ==
    /\ Event
    /\ service' = IF service = "absent" THEN "absent" ELSE "running"
    /\ loaded' = grantee
    /\ child' = None /\ alive' = {} /\ dying' = {} /\ orphans' = {}
    /\ owner' = [k \in Kernels |-> None]
    /\ conn' = [c \in Conns |-> Free]
    /\ op' = [u \in Users |-> Idle] /\ handle' = [u \in Users |-> None]
    /\ UNCHANGED <<platform, grantee, rootLog, ops>>

\* The steps the code bounds in time, and those it does not: the way to a
\* connection that carries the request, and a dialog that asks for consent.
TimedStep(u) ==
    Missing(u) \/ Receive(u) \/ Timeout(u) \/ Ready(u) \/ StartTimeout(u) \/ Return(u)
UntimedStep(u) ==
    CallFails(u) \/ Install(u) \/ InstallFails(u) \/ \E c \in Conns : Open(u, c)

Proceed(u) == TimedStep(u) \/ UntimedStep(u)

Handler(c) ==
    \/ RefuseCaller(c) \/ Ping(c) \/ RejectStart(c) \/ StartKernel(c) \/ StopKernel(c)
    \/ Killed(c) \/ SpawnError(c)
    \/ \E k \in Kernels : SpawnChild(c, k)

Next ==
    \/ \E u \in Users : \/ \E do \in DOMAIN Request : Begin(u, do)
                        \/ Proceed(u)
    \/ \E c \in Conns : Handler(c)
    \/ \E k \in Kernels : KernelExit(k)
    \/ HelperInstall \/ HelperUninstall \/ ServiceStops \/ DaemonCrash \/ LaunchdRestart \/ Reboot

Spec == Init /\ [][Next]_vars

\* The client's runtime polls the operation under way: nobody there is found
\* out at once, the read and the controller probe time out, the result is
\* taken.  A connection and a consent may be waited for without end.
Fairness == \A u \in Users : WF_vars(TimedStep(u))

FairSpec == Spec /\ Fairness

-----------------------------------------------------------------------------
(* Properties.                                                             *)

Connections ==
    [at : {"free", "asked", "killing", "dirs", "answered"}, user : Users \cup {None},
     req : {"none", "Ping", "StartKernel", "StopKernel"}, victim : Kernels \cup {None},
     reply : {"none", "Pong", "Started", "Stopped", "Error", "Closed"}]
Operations ==
    [do : {"none", "ensure", "spawn", "stop"},
     at : {"idle", "open", "wait", "installing", "controller", "done"},
     conn : Conns \cup {None}, probed : BOOLEAN, kernel : Kernels \cup {None},
     res : {"none", "Ok", "ServiceMissing", "NeedsConsent", "Failed"}]

\* Every variable is in its range, and a daemon that is down handles nothing.
TypeOK ==
    /\ platform \in Platforms /\ service \in {"absent", "registered", "running"}
    /\ {grantee, loaded} \subseteq Users \cup {None}
    /\ child \in Kernels \cup {None}
    /\ dying \subseteq alive /\ orphans \subseteq alive /\ alive \subseteq Kernels
    /\ owner \in [Kernels -> Users \cup {None}] /\ rootLog \subseteq Users
    /\ conn \in [Conns -> Connections] /\ op \in [Users -> Operations]
    /\ handle \in [Users -> Kernels \cup {None}]
    /\ ops \in 0..MaxOps /\ events \in 0..MaxEvents
    /\ ~Running => child = None /\ \A c \in Conns : conn[c].at \in {"free", "answered"}

\* Across installs, restarts and abandoned requests, a kernel nobody has
\* killed is in the slot of the running daemon, where the next request finds
\* it, unless its daemon was killed under it.
LiveKernelIsHeld == alive \ (dying \cup orphans) \subseteq Held

\* The service never ends one account's kernel on behalf of another's
\* ("only the installing user can issue commands"), also when it is
\* reinstalled for another account while it runs.
OwnKernelOnly ==
    platform = "svc" =>
        \A c \in Conns : conn[c].at = "killing" /\ conn[c].victim \in alive
                            => owner[conn[c].victim] = conn[c].user

\* A stop that succeeds leaves its kernel dead or killed, whether a daemon
\* answered or none was there ("treat as already-stopped"), unless the kernel
\* outlived its daemon.
StopEndsItsKernel ==
    [][\A u \in Users :
          /\ op[u].do = "stop" /\ op[u].at # "done"
          /\ op'[u].at = "done" /\ op'[u].res = "Ok"
          => op[u].kernel \notin alive' \ (dying' \cup orphans')]_vars

\* An operation of a launcher that is waiting for an answer, or for the
\* controller of its kernel, ends, whatever becomes of the daemon and of its
\* handler: only a running daemon that never takes the request (launcher.rs
\* 582-585 retries a busy pipe for ever) and a dialog nobody answers hold it.
HeldUp(u) == op[u].at = "installing" \/ (op[u].at = "open" /\ Running)
CallsEnd == \A u \in Users : <>[]HeldUp(u) \/ []<>(op[u].at = "idle")

\* A start is not refused for what an earlier start left behind
\* (validate_data_path: "could be `p` itself, e.g. a pre-existing mihomo.log").
RestartIsServed ==
    [][\A c \in Conns : /\ conn[c].at = "asked" /\ Served(c) /\ Running
                        /\ conn[c].req = "StartKernel" /\ conn[c].user \in rootLog
                        => conn'[c].reply # "Error"]_vars
=============================================================================

---------------------------- MODULE DirectLauncher ----------------------------
(***************************************************************************)
(* core/src/kernel/launcher.rs, DirectLauncher: the launcher that owns the *)
(* kernel process.  A spawn keeps the process in a slot until its          *)
(* controller answers, then hands it to a watcher task of its own; a stop  *)
(* reaches the watcher through the Notify of the last hand-off, and the    *)
(* flag `expecting_stop`, shared by all watchers, keeps it from reporting  *)
(* the exit as a crash.                                                    *)
(*                                                                         *)
(* Spawns are numbered; a number stands for the call, the process it       *)
(* starts (on a port of its own) and the Notify it installs.  A step ends  *)
(* at an await.  A "serial" client is the manager with one connection at a *)
(* time: it spawns when no spawn is under way and every handle it got has  *)
(* been given back to stop.  A "free" one overlaps spawns and stops.       *)
(***************************************************************************)
EXTENDS Naturals, FiniteSets

CONSTANTS
    MaxSpawns, \* bound: number of spawn calls
    Client     \* "serial" or "free"

ASSUME LauncherAssumption ==
    MaxSpawns \in Nat \ {0} /\ Client \in {"serial", "free"}

VARIABLES
    spawned,       \* spawn calls begun so far
    spawn,         \* where each call is
    slot,          \* child: the process before its hand-off, or 0
    process,       \* each kernel process: "none", "alive" or "dead"
    watcher,       \* each watcher: its task and the process it owns
    notified,      \* the Notify of a hand-off holds a permit
    stopSignal,    \* the Notify the next stop would use, or 0
    expectingStop, \* the flag
    handles,       \* handles returned and not yet given to stop
    stopped,       \* history: processes alive when a stop asked for them
    reported       \* history: processes broadcast as Exited

vars == <<spawned, spawn, slot, process, watcher, notified, stopSignal,
          expectingStop, handles, stopped, reported>>
history == <<stopped, reported>>

Spawns == 1..MaxSpawns
NoWatcher == [pc |-> "none", child |-> 0]

Init ==
    /\ spawned = 0 /\ spawn = [n \in Spawns |-> "none"]
    /\ slot = 0 /\ process = [n \in Spawns |-> "none"]
    /\ watcher = [n \in Spawns |-> NoWatcher]
    /\ notified = [n \in Spawns |-> FALSE] /\ stopSignal = 0
    /\ expectingStop = FALSE
    /\ handles = {} /\ stopped = {} /\ reported = {}

Alive == {n \in Spawns : process[n] = "alive"}
Kill(k) == process' = [n \in Spawns |-> IF n = k THEN "dead" ELSE process[n]]
UnderWay == {n \in Spawns : spawn[n] \in {"prepare", "waiting"}}

-----------------------------------------------------------------------------
(* spawn.                                                                  *)

\* The early bail-out looks at the slot only.
BeginSpawn ==
    /\ spawned < MaxSpawns /\ slot = 0
    /\ Client = "serial" => handles = {} /\ UnderWay = {}
    /\ spawned' = spawned + 1
    /\ spawn' = [spawn EXCEPT ![spawned + 1] = "prepare"]
    /\ UNCHANGED <<slot, process, watcher, notified, stopSignal, expectingStop,
                   handles, history>>

BugStartProcess(n) == \* keeps the flag of the previous lifetime
    /\ spawn[n] = "prepare"
    /\ process' = [m \in Spawns |-> CASE m = n -> "alive" [] m = slot -> "dead"
                                      [] OTHER -> process[m]]
    /\ slot' = n
    /\ spawn' = [spawn EXCEPT ![n] = "waiting"]
    /\ UNCHANGED <<spawned, watcher, notified, stopSignal, expectingStop, handles, history>>

\* The directories were made (an await); the process starts.  Storing it
\* drops the child of an overlapping spawn, and kill_on_drop kills that.
StartProcess(n) ==
    /\ spawn[n] = "prepare"
    /\ process' = [m \in Spawns |-> CASE m = n -> "alive" [] m = slot -> "dead"
                                      [] OTHER -> process[m]]
    /\ slot' = n
    /\ expectingStop' = FALSE
    /\ spawn' = [spawn EXCEPT ![n] = "waiting"]
    /\ UNCHANGED <<spawned, watcher, notified, stopSignal, handles, history>>

StartFailed(n) ==
    /\ spawn[n] = "prepare"
    /\ spawn' = [spawn EXCEPT ![n] = "failed"]
    /\ UNCHANGED <<spawned, slot, process, watcher, notified, stopSignal,
                   expectingStop, handles, history>>

BugHandOff(n) == \* never installs the Notify of the new watcher
    /\ spawn[n] = "waiting" /\ n \in Alive
    /\ slot' = 0
    /\ IF slot # 0
       THEN watcher' = [watcher EXCEPT ![n] = [pc |-> "watching", child |-> slot]]
       ELSE UNCHANGED watcher
    /\ handles' = handles \cup {n}
    /\ spawn' = [spawn EXCEPT ![n] = "ok"]
    /\ UNCHANGED <<spawned, process, notified, stopSignal, expectingStop, history>>

\* The controller answers: whatever the slot holds goes to a new watcher.
HandOff(n) ==
    /\ spawn[n] = "waiting" /\ n \in Alive
    /\ slot' = 0
    /\ IF slot # 0
       THEN /\ watcher' = [watcher EXCEPT ![n] = [pc |-> "watching", child |-> slot]]
            /\ stopSignal' = n
       ELSE UNCHANGED <<watcher, stopSignal>>
    /\ handles' = handles \cup {n}
    /\ spawn' = [spawn EXCEPT ![n] = "ok"]
    /\ UNCHANGED <<spawned, process, notified, expectingStop, history>>

BugStartTimeout(n) == \* takes the child and lets it run
    /\ spawn[n] = "waiting"
    /\ slot' = 0
    /\ spawn' = [spawn EXCEPT ![n] = "failed"]
    /\ UNCHANGED <<spawned, process, watcher, notified, stopSignal, expectingStop,
                   handles, history>>

\* StartTimeout: kill whatever the slot holds.
StartTimeout(n) ==
    /\ spawn[n] = "waiting"
    /\ slot' = 0
    /\ Kill(slot)
    /\ spawn' = [spawn EXCEPT ![n] = "failed"]
    /\ UNCHANGED <<spawned, watcher, notified, stopSignal, expectingStop,
                   handles, history>>

-----------------------------------------------------------------------------
(* stop, which ignores its handle.                                         *)

\* The process a stop is meant to end: the one the signalled watcher owns,
\* or the one in the slot.
Target == IF stopSignal # 0 THEN watcher[stopSignal].child ELSE slot

Stop(h) ==
    /\ h \in handles
    /\ handles' = handles \ {h}
    /\ expectingStop' = TRUE
    /\ stopped' = stopped \cup ({Target} \cap Alive)
    /\ IF stopSignal # 0
       THEN /\ notified' = [notified EXCEPT ![stopSignal] = TRUE]
            /\ stopSignal' = 0
            /\ UNCHANGED <<slot, process>>
       ELSE /\ Kill(slot)
            /\ slot' = 0
            /\ UNCHANGED <<notified, stopSignal>>
    /\ UNCHANGED <<spawned, spawn, watcher, reported>>

-----------------------------------------------------------------------------
(* The watcher task of spawn n.  select! takes any branch that is ready.   *)

Finish(n) == watcher' = [watcher EXCEPT ![n].pc = "done"]

ExitSilent(n) ==
    /\ watcher[n].pc = "watching" /\ watcher[n].child \notin Alive
    /\ expectingStop
    /\ expectingStop' = FALSE
    /\ Finish(n)
    /\ UNCHANGED <<spawned, spawn, slot, process, notified, stopSignal, handles, history>>

\* Not expected: read the tail of the log (awaits), then broadcast.
ExitSeen(n) ==
    /\ watcher[n].pc = "watching" /\ watcher[n].child \notin Alive
    /\ ~expectingStop
    /\ watcher' = [watcher EXCEPT ![n].pc = "tailing"]
    /\ UNCHANGED <<spawned, spawn, slot, process, notified, stopSignal,
                   expectingStop, handles, history>>

ExitReported(n) ==
    /\ watcher[n].pc = "tailing"
    /\ reported' = reported \cup {watcher[n].child}
    /\ Finish(n)
    /\ UNCHANGED <<spawned, spawn, slot, process, notified, stopSignal,
                   expectingStop, handles, stopped>>

StopSeen(n) ==
    /\ watcher[n].pc = "watching" /\ notified[n]
    /\ watcher' = [watcher EXCEPT ![n].pc = "killing"]
    /\ UNCHANGED <<spawned, spawn, slot, process, notified, stopSignal,
                   expectingStop, handles, history>>

Killed(n) ==
    /\ watcher[n].pc = "killing"
    /\ Kill(watcher[n].child)
    /\ expectingStop' = FALSE
    /\ Finish(n)
    /\ UNCHANGED <<spawned, spawn, slot, notified, stopSignal, handles, history>>

-----------------------------------------------------------------------------
\* A kernel dies on its own.
ProcessExit(k) ==
    /\ k \in Alive
    /\ Kill(k)
    /\ UNCHANGED <<spawned, spawn, slot, watcher, notified, stopSignal,
                   expectingStop, handles, history>>

SpawnStep(n) == StartProcess(n) \/ StartFailed(n) \/ HandOff(n) \/ StartTimeout(n)
Watch(n) == ExitSilent(n) \/ ExitSeen(n) \/ ExitReported(n) \/ StopSeen(n) \/ Killed(n)

Next ==
    \/ BeginSpawn
    \/ \E n \in Spawns : SpawnStep(n) \/ Stop(n) \/ Watch(n) \/ ProcessExit(n)

Spec == Init /\ [][Next]_vars

\* Spawn calls and watcher tasks are polled until they return.
Fairness == \A n \in Spawns : WF_vars(SpawnStep(n)) /\ WF_vars(Watch(n))
FairSpec == Spec /\ Fairness

-----------------------------------------------------------------------------
(* Properties.                                                             *)

OptSpawn == 0..MaxSpawns
WatcherStages == {"watching", "tailing", "killing", "done"}
Watchers == {NoWatcher} \cup [pc : WatcherStages, child : Spawns]

\* Every variable is in its range.
TypeOK ==
    /\ spawned \in OptSpawn /\ slot \in OptSpawn /\ stopSignal \in OptSpawn
    /\ spawn \in [Spawns -> {"none", "prepare", "waiting", "ok", "failed"}]
    /\ process \in [Spawns -> {"none", "alive", "dead"}]
    /\ watcher \in [Spawns -> Watchers]
    /\ notified \in [Spawns -> BOOLEAN] /\ expectingStop \in BOOLEAN
    /\ handles \subseteq Spawns /\ stopped \subseteq Spawns /\ reported \subseteq Spawns

\* launcher.rs, on `child`: "Always `None` once a spawn has settled" -- even
\* when spawns and stops overlap.
SlotIsTransient == UnderWay = {} => slot = 0

\* Every live process has exactly one owner that can still act on it: the
\* slot, or a watcher that has not finished.
EveryProcessIsOwned ==
    \A k \in Alive :
        Cardinality({n \in Spawns : watcher[n].child = k
                                    /\ watcher[n].pc \in {"watching", "killing"}}
                    \cup (IF slot = k THEN {0} ELSE {})) = 1

\* At most one live kernel has not been asked to stop: the bail-out of spawn
\* is there to refuse a second one ("Bail out early if we still hold a live
\* child").
OneLiveKernel == \A j, k \in Alive \ stopped : j = k

\* No kernel is out of reach, and no two compete for the controller's port.
KernelsAreOwned == EveryProcessIsOwned /\ OneLiveKernel

\* A crash is reported as a crash only if nobody stopped that kernel first
\* ("so we don't fire spurious toasts on every disconnect").
StopIsSilent == reported \cap stopped = {}

\* A hand-off can be undone: giving the handle back to stop ends the kernel
\* ("Stop the previously-spawned kernel").
StopReachesItsKernel ==
    \A n \in Spawns :
        (spawn[n] = "ok" /\ n \notin handles) ~> (n \notin Alive)

\* A kernel that dies while its watcher watches, unasked, is reported: the
\* flag a stop left behind never swallows the crash of a later kernel.
CrashIsReported ==
    \A n \in Spawns :
        (watcher[n].pc = "watching" /\ n \notin Alive /\ ~notified[n])
            ~> (n \in reported \/ notified[n])
=============================================================================

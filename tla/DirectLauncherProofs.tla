------------------------- MODULE DirectLauncherProofs -------------------------
(***************************************************************************)
(* Theorems about DirectLauncher for every number of spawn calls and for   *)
(* both clients.                                                           *)
(***************************************************************************)
EXTENDS DirectLauncher, FiniteSetTheorems, TLAPS

LEMMA SpawnFacts ==
    /\ Spawns \subseteq OptSpawn /\ 0 \in OptSpawn /\ 0 \notin Spawns
    /\ \A n \in OptSpawn : n # 0 => n \in Spawns
    /\ \A n \in OptSpawn : n < MaxSpawns => n + 1 \in Spawns
  BY LauncherAssumption, Z3 DEF Spawns, OptSpawn

(***************************************************************************)
(* A watcher owns a process, and moves on without letting go of it.        *)
(***************************************************************************)
LEMMA WatcherFacts ==
    /\ NoWatcher \in Watchers
    /\ \A k \in Spawns : [pc |-> "watching", child |-> k] \in Watchers
    /\ \A w \in Watchers : w.pc # "none" => w.child \in Spawns
    /\ \A f \in [Spawns -> Watchers], n \in Spawns, pc \in WatcherStages :
         f[n].pc # "none" => [f EXCEPT ![n].pc = pc] \in [Spawns -> Watchers]
  BY DEF Watchers, NoWatcher, WatcherStages

LEMMA InitTypeOK == Init => TypeOK
  <1> SUFFICES ASSUME Init PROVE TypeOK
    OBVIOUS
  <1>1. watcher \in [Spawns -> Watchers]
    BY WatcherFacts DEF Init
  <1> QED
    BY <1>1, SpawnFacts DEF Init, TypeOK

LEMMA SpawnTypeOK ==
    ASSUME TypeOK, NEW n \in Spawns, BeginSpawn \/ SpawnStep(n) \/ Stop(n)
    PROVE  TypeOK'
  <1> USE SpawnFacts DEF TypeOK, history
  <1>1. CASE BeginSpawn
    BY <1>1 DEF BeginSpawn
  <1>2. CASE StartProcess(n)
    <2>1. process' \in [Spawns -> {"none", "alive", "dead"}]
      BY <1>2 DEF StartProcess
    <2> QED
      BY <1>2, <2>1 DEF StartProcess
  <1>3. CASE StartFailed(n)
    BY <1>3 DEF StartFailed
  <1>4. CASE HandOff(n)
    <2>1. watcher' \in [Spawns -> Watchers]
      BY <1>4, WatcherFacts DEF HandOff
    <2> QED
      BY <1>4, <2>1 DEF HandOff
  <1>5. CASE StartTimeout(n)
    BY <1>5 DEF StartTimeout, Kill
  <1>6. CASE Stop(n)
    <2>1. process' \in [Spawns -> {"none", "alive", "dead"}]
      BY <1>6 DEF Stop, Kill
    <2>2. notified' \in [Spawns -> BOOLEAN] /\ stopSignal' \in OptSpawn /\ slot' \in OptSpawn
      BY <1>6 DEF Stop
    <2>3. stopped' \subseteq Spawns
      BY <1>6 DEF Stop, Alive
    <2> QED
      BY <1>6, <2>1, <2>2, <2>3 DEF Stop
  <1> QED
    BY <1>1, <1>2, <1>3, <1>4, <1>5, <1>6 DEF SpawnStep

LEMMA WatchTypeOK ==
    ASSUME TypeOK, NEW n \in Spawns, Watch(n)
    PROVE  TypeOK'
  <1> USE SpawnFacts DEF TypeOK, history
  <1>1. watcher' \in [Spawns -> Watchers]
    <2>1. watcher[n].pc # "none"
      BY DEF Watch, ExitSilent, ExitSeen, ExitReported, StopSeen, Killed
    <2>2. \A pc \in WatcherStages : [watcher EXCEPT ![n].pc = pc] \in [Spawns -> Watchers]
      BY <2>1, WatcherFacts
    <2> QED
      BY <2>2 DEF Watch, ExitSilent, ExitSeen, ExitReported, StopSeen, Killed, Finish,
                  WatcherStages
  <1>2. CASE ExitSilent(n)
    BY <1>1, <1>2 DEF ExitSilent
  <1>3. CASE ExitSeen(n)
    BY <1>1, <1>3 DEF ExitSeen
  <1>4. CASE ExitReported(n)
    <2>1. watcher[n].child \in Spawns
      BY <1>4, WatcherFacts DEF ExitReported
    <2> QED
      BY <1>1, <1>4, <2>1 DEF ExitReported
  <1>5. CASE StopSeen(n)
    BY <1>1, <1>5 DEF StopSeen
  <1>6. CASE Killed(n)
    <2>1. process' \in [Spawns -> {"none", "alive", "dead"}]
      BY <1>6 DEF Killed, Kill
    <2> QED
      BY <1>1, <1>6, <2>1 DEF Killed
  <1> QED
    BY <1>2, <1>3, <1>4, <1>5, <1>6 DEF Watch

(***************************************************************************)
(* The process in the slot is always that of a spawn still waiting for its *)
(* controller; what an overlapping call put there or took is no exception. *)
(***************************************************************************)
SlotIsWaiting == slot # 0 => spawn[slot] = "waiting"

Inv == TypeOK /\ SlotIsWaiting

LEMMA SlotInvariant == Spec => []Inv
  <1>1. Init => Inv
    BY InitTypeOK DEF Init, Inv, SlotIsWaiting
  <1>2. Inv /\ [Next]_vars => Inv'
    <2> SUFFICES ASSUME Inv, [Next]_vars PROVE Inv'
      OBVIOUS
    <2> USE SpawnFacts DEF history, Inv
    <2>1. CASE BeginSpawn
      <3>1. TypeOK'
        BY <2>1, SpawnTypeOK, LauncherAssumption DEF Spawns
      <3> QED
        BY <2>1, <3>1 DEF BeginSpawn, SlotIsWaiting, TypeOK
    <2>2. ASSUME NEW n \in Spawns, SpawnStep(n) \/ Stop(n)
          PROVE  Inv'
      <3>1. TypeOK'
        BY <2>2, SpawnTypeOK
      <3>2. SlotIsWaiting'
        BY <2>2
        DEF SlotIsWaiting, TypeOK, SpawnStep, StartProcess, StartFailed, HandOff,
            StartTimeout, Stop
      <3> QED
        BY <3>1, <3>2
    <2>3. ASSUME NEW n \in Spawns, Watch(n)
          PROVE  Inv'
      BY <2>3, WatchTypeOK
      DEF SlotIsWaiting, Watch, ExitSilent, ExitSeen, ExitReported, StopSeen, Killed
    <2>4. ASSUME NEW n \in Spawns, ProcessExit(n)
          PROVE  Inv'
      BY <2>4 DEF SlotIsWaiting, TypeOK, ProcessExit, Kill
    <2>5. CASE UNCHANGED vars
      BY <2>5 DEF vars, TypeOK, SlotIsWaiting
    <2> QED
      BY <2>1, <2>2, <2>3, <2>4, <2>5 DEF Next
  <1> QED
    BY <1>1, <1>2, PTL DEF Spec

(* Every variable keeps its type, for overlapping spawns and stops too: a    *)
(* process has one watcher at most, in one of its stages.                    *)
THEOREM TypeCorrect == Spec => []TypeOK
  <1>1. Inv => TypeOK
    BY DEF Inv
  <1> QED
    BY <1>1, SlotInvariant, PTL

(* launcher.rs, DirectLauncher::child: "Always `None` once a spawn has      *)
(* settled", for overlapping spawns and stops too.                          *)
THEOREM SlotAlwaysTransient == Spec => []SlotIsTransient
  <1>1. Inv => SlotIsTransient
    BY SpawnFacts DEF Inv, TypeOK, SlotIsWaiting, SlotIsTransient, UnderWay
  <1> QED
    BY <1>1, SlotInvariant, PTL

-----------------------------------------------------------------------------
(***************************************************************************)
(* A client that gives one kernel back before it asks for the next.  At    *)
(* most one spawn is under way or one handle out; the slot is that spawn's *)
(* and the stop signal that handle's, so that each process stays with the  *)
(* spawn that started it.                                                  *)
(***************************************************************************)
OneAtATime ==
    /\ \A m, n \in UnderWay : m = n
    /\ \A h \in handles : UnderWay = {} /\ \A g \in handles : g = h

Watched(k) == watcher[k].pc \in {"watching", "killing"}

Belongs(n) ==
    /\ slot = n <=> spawn[n] = "waiting"
    /\ watcher[n].pc = "none" => watcher[n].child = 0
    /\ watcher[n].pc # "none" => watcher[n].child = n /\ spawn[n] = "ok"
    /\ n \in handles => stopSignal = n /\ watcher[n].pc # "none"
    /\ process[n] = "alive" => spawn[n] = "waiting" \/ Watched(n)
    /\ process[n] = "alive" /\ n \notin stopped => spawn[n] = "waiting" \/ n \in handles
    /\ spawn[n] \in {"none", "prepare"} => process[n] # "alive" /\ watcher[n].pc = "none"
    /\ spawned < n => spawn[n] = "none"

Belongings == \A n \in Spawns : Belongs(n)

SerialInv == TypeOK /\ OneAtATime /\ Belongings

LEMMA SerialSpawn ==
    ASSUME Client = "serial", SerialInv, NEW n \in Spawns, BeginSpawn \/ SpawnStep(n) \/ Stop(n)
    PROVE  OneAtATime' /\ Belongings'
  <1> USE SpawnFacts DEF SerialInv, TypeOK, history
  <1>1. CASE BeginSpawn
    <2>1. PICK m \in Spawns : m = spawned + 1 /\ spawn' = [spawn EXCEPT ![m] = "prepare"]
                              /\ spawn[m] = "none"
      <3>1. spawned + 1 \in Spawns /\ spawned < spawned + 1
        BY <1>1, LauncherAssumption, Z3 DEF BeginSpawn, Spawns, OptSpawn
      <3>2. Belongs(spawned + 1)
        BY <3>1 DEF Belongings
      <3>3. spawn[spawned + 1] = "none"
        BY <3>1, <3>2 DEF Belongs
      <3> QED
        BY <1>1, <3>1, <3>3 DEF BeginSpawn
    <2>2. \A k \in Spawns : spawn'[k] = IF k = m THEN "prepare" ELSE spawn[k]
      BY <2>1
    <2>3. OneAtATime'
      BY <1>1, <2>2 DEF BeginSpawn, OneAtATime, UnderWay
    <2>4. \A k \in Spawns : spawned' < k => spawned < k /\ k # m
      BY <1>1, <2>1, LauncherAssumption, Z3 DEF BeginSpawn, Spawns, OptSpawn
    <2>5. Belongings'
      BY <1>1, <2>1, <2>2, <2>4 DEF BeginSpawn, Belongings, Belongs, Watched
    <2> QED
      BY <2>3, <2>5
  <1>2. CASE StartProcess(n)
    <2>1. \A k \in Spawns : spawn'[k] = IF k = n THEN "waiting" ELSE spawn[k]
      BY <1>2 DEF StartProcess
    <2>2. \A k \in Spawns : k # n => spawn[k] \notin {"prepare", "waiting"}
      BY <1>2 DEF StartProcess, OneAtATime, UnderWay
    <2>3. OneAtATime'
      BY <1>2, <2>1, <2>2 DEF StartProcess, OneAtATime, UnderWay
    <2>4. Belongings'
      BY <1>2, <2>1, <2>2 DEF StartProcess, Belongings, Belongs, Watched
    <2> QED
      BY <2>3, <2>4
  <1>3. CASE StartFailed(n)
    <2>1. \A k \in Spawns : spawn'[k] = IF k = n THEN "failed" ELSE spawn[k]
      BY <1>3 DEF StartFailed
    <2> QED
      BY <1>3, <2>1 DEF StartFailed, OneAtATime, UnderWay, Belongings, Belongs, Watched
  <1>4. CASE HandOff(n)
    <2>1. slot = n
      BY <1>4 DEF HandOff, Belongings, Belongs
    <2>2. /\ watcher' = [watcher EXCEPT ![n] = [pc |-> "watching", child |-> n]]
          /\ stopSignal' = n /\ slot' = 0 /\ handles' = handles \cup {n}
          /\ spawn' = [spawn EXCEPT ![n] = "ok"] /\ UNCHANGED <<spawned, process, history>>
      BY <1>4, <2>1 DEF HandOff
    <2>3. /\ watcher'[n].pc = "watching" /\ watcher'[n].child = n
          /\ \A k \in Spawns \ {n} : watcher'[k] = watcher[k]
          /\ \A k \in Spawns : spawn'[k] = IF k = n THEN "ok" ELSE spawn[k]
      BY <2>2
    <2>4. handles = {} /\ \A k \in Spawns : k # n => spawn[k] \notin {"prepare", "waiting"}
      BY <1>4 DEF HandOff, OneAtATime, UnderWay
    <2>5. OneAtATime'
      BY <2>2, <2>3, <2>4 DEF OneAtATime, UnderWay
    <2>6. ASSUME NEW k \in Spawns PROVE Belongs(k)'
      <3>1. Belongs(k)
        BY DEF Belongings
      <3>2. CASE k = n
        BY <1>4, <2>2, <2>3, <3>1, <3>2 DEF HandOff, Alive, Belongs, Watched
      <3>3. CASE k # n
        BY <2>1, <2>2, <2>3, <2>4, <3>1, <3>3 DEF Belongs, Watched
      <3> QED
        BY <3>2, <3>3
    <2> QED
      BY <2>5, <2>6 DEF Belongings
  <1>5. CASE StartTimeout(n)
    <2>1. /\ slot = n /\ slot' = 0
          /\ UNCHANGED <<spawned, watcher, stopSignal, handles, history>>
          /\ \A k \in Spawns : /\ spawn'[k] = IF k = n THEN "failed" ELSE spawn[k]
                               /\ process'[k] = IF k = n THEN "dead" ELSE process[k]
      BY <1>5 DEF StartTimeout, Kill, Belongings, Belongs
    <2>2. OneAtATime'
      BY <1>5, <2>1 DEF StartTimeout, OneAtATime, UnderWay
    <2>3. \A k \in Spawns : k # n => spawn[k] # "waiting"
      BY <2>1 DEF Belongings, Belongs
    <2>4. Belongings'
      BY <1>5, <2>1, <2>3 DEF StartTimeout, Belongings, Belongs, Watched
    <2> QED
      BY <2>2, <2>4
  <1>6. CASE Stop(n)
    <2>1. stopSignal = n /\ handles = {n} /\ watcher[n].child = n /\ UnderWay = {}
      BY <1>6 DEF Stop, OneAtATime, Belongings, Belongs
    <2>2. /\ handles' = {} /\ stopped' = stopped \cup ({n} \cap Alive) /\ stopSignal' = 0
          /\ UNCHANGED <<spawned, spawn, slot, process, watcher>>
      BY <1>6, <2>1 DEF Stop, Target
    <2> QED
      BY <2>1, <2>2 DEF OneAtATime, UnderWay, Belongings, Belongs, Watched, Alive
  <1> QED
    BY <1>1, <1>2, <1>3, <1>4, <1>5, <1>6 DEF SpawnStep

LEMMA SerialWatch ==
    ASSUME SerialInv, NEW n \in Spawns, Watch(n) \/ ProcessExit(n)
    PROVE  OneAtATime' /\ Belongings'
  <1> USE SpawnFacts DEF SerialInv, TypeOK, history
  <1>1. UNCHANGED <<spawned, spawn, slot, stopSignal, handles, stopped>>
    BY DEF Watch, ExitSilent, ExitSeen, ExitReported, StopSeen, Killed, ProcessExit
  <1>2. OneAtATime'
    BY <1>1 DEF OneAtATime, UnderWay
  <1>3. ASSUME NEW p \in WatcherStages, watcher[n].pc # "none",
               watcher' = [watcher EXCEPT ![n].pc = p],
               \A k \in Spawns : process'[k] = "alive" => process[k] = "alive",
               p = "killing" \/ process'[n] # "alive"
        PROVE  Belongings'
    <2>1. watcher[n] \in [pc : WatcherStages, child : Spawns]
      BY <1>3 DEF Watchers, NoWatcher
    <2>2. /\ watcher'[n].pc = p /\ watcher'[n].child = watcher[n].child /\ p # "none"
          /\ \A k \in Spawns \ {n} : watcher'[k] = watcher[k]
      BY <1>3, <2>1 DEF WatcherStages
    <2> QED
      BY <1>1, <1>3, <2>2 DEF Belongings, Belongs, Watched
  <1>4. CASE ExitSilent(n) \/ ExitSeen(n) \/ ExitReported(n) \/ StopSeen(n)
    <2>1. PICK p \in WatcherStages : watcher' = [watcher EXCEPT ![n].pc = p]
                                     /\ (p = "killing" \/ process'[n] # "alive")
      <3>1. ExitReported(n) => process[n] # "alive"
        BY DEF ExitReported, Belongings, Belongs, Watched
      <3> QED
        BY <1>4, <3>1 DEF ExitSilent, ExitSeen, ExitReported, StopSeen, Finish, Alive,
                          WatcherStages, Belongings, Belongs
    <2>2. /\ watcher[n].pc # "none"
          /\ \A k \in Spawns : process'[k] = "alive" => process[k] = "alive"
      BY <1>4 DEF ExitSilent, ExitSeen, ExitReported, StopSeen, history
    <2> QED
      BY <1>2, <1>3, <2>1, <2>2
  <1>5. CASE Killed(n)
    <2>1. watcher[n].child = n /\ watcher[n].pc # "none"
      BY <1>5 DEF Killed, Belongings, Belongs
    <2>2. \A k \in Spawns : process'[k] = IF k = n THEN "dead" ELSE process[k]
      BY <1>5, <2>1 DEF Killed, Kill
    <2>3. watcher' = [watcher EXCEPT ![n].pc = "done"] /\ "done" \in WatcherStages
      BY <1>5 DEF Killed, Finish, WatcherStages
    <2>4. /\ process'[n] # "alive"
          /\ \A k \in Spawns : process'[k] = "alive" => process[k] = "alive"
      BY <2>2
    <2> QED
      BY <1>2, <1>3, <2>1, <2>3, <2>4
  <1>6. CASE ProcessExit(n)
    <2>1. UNCHANGED watcher
          /\ \A k \in Spawns : process'[k] = IF k = n THEN "dead" ELSE process[k]
      BY <1>6 DEF ProcessExit, Kill
    <2>2. ASSUME NEW k \in Spawns PROVE Belongs(k)'
      <3>1. Belongs(k) /\ (process'[k] = "alive" => process[k] = "alive")
        BY <2>1 DEF Belongings
      <3> QED
        BY <1>1, <2>1, <3>1 DEF Belongs, Watched
    <2> QED
      BY <1>2, <2>2 DEF Belongings
  <1> QED
    BY <1>2, <1>4, <1>5, <1>6 DEF Watch

LEMMA SerialInvariant == ASSUME Client = "serial" PROVE Spec => []SerialInv
  <1>1. Init => SerialInv
    BY InitTypeOK, SpawnFacts
    DEF Init, SerialInv, OneAtATime, Belongings, Belongs, UnderWay, NoWatcher, Watched
  <1>2. SerialInv /\ [Next]_vars => SerialInv'
    <2> SUFFICES ASSUME SerialInv, [Next]_vars PROVE SerialInv'
      OBVIOUS
    <2>1. CASE BeginSpawn
      <3>1. PICK n \in Spawns : TRUE
        BY <2>1, LauncherAssumption DEF Spawns
      <3> QED
        BY <2>1, <3>1, SpawnTypeOK, SerialSpawn DEF SerialInv
    <2>2. ASSUME NEW n \in Spawns, SpawnStep(n) \/ Stop(n) PROVE SerialInv'
      BY <2>2, SpawnTypeOK, SerialSpawn DEF SerialInv
    <2>3. ASSUME NEW n \in Spawns, Watch(n) PROVE SerialInv'
      BY <2>3, WatchTypeOK, SerialWatch DEF SerialInv
    <2>4. ASSUME NEW n \in Spawns, ProcessExit(n) PROVE SerialInv'
      <3>1. TypeOK'
        BY <2>4, SpawnFacts DEF SerialInv, TypeOK, ProcessExit, Kill, history
      <3> QED
        BY <2>4, <3>1, SerialWatch DEF SerialInv
    <2>5. CASE UNCHANGED vars
      BY <2>5 DEF vars, SerialInv, TypeOK, OneAtATime, UnderWay, Belongings, Belongs, Watched
    <2> QED
      BY <2>1, <2>2, <2>3, <2>4, <2>5 DEF Next
  <1> QED
    BY <1>1, <1>2, PTL DEF Spec

\* For a client that gives one kernel back before it asks for the next: every
\* live process has one owner that can act on it, and at most one has not
\* been asked to stop.
THEOREM OneOwnerEach == ASSUME Client = "serial" PROVE Spec => []KernelsAreOwned
  <1>1. SerialInv => KernelsAreOwned
    <2> SUFFICES ASSUME SerialInv PROVE KernelsAreOwned
      OBVIOUS
    <2>1. EveryProcessIsOwned
      <3> SUFFICES ASSUME NEW k \in Alive
                   PROVE  Cardinality({n \in Spawns : watcher[n].child = k
                                                      /\ watcher[n].pc \in {"watching", "killing"}}
                                      \cup (IF slot = k THEN {0} ELSE {})) = 1
        BY DEF EveryProcessIsOwned
      <3> DEFINE S == {n \in Spawns : watcher[n].child = k
                                       /\ watcher[n].pc \in {"watching", "killing"}}
                      \cup (IF slot = k THEN {0} ELSE {})
      <3>1. k \in Spawns /\ process[k] = "alive" /\ k # 0
        BY SpawnFacts DEF Alive
      <3>2. S = IF slot = k THEN {0} ELSE {k}
        BY <3>1 DEF SerialInv, Belongings, Belongs, Watched
      <3>3. Cardinality(S) = 1
        BY <3>2, FS_Singleton
      <3> QED
        BY <3>3
    <2>2. OneLiveKernel
      BY DEF SerialInv, OneAtATime, Belongings, Belongs, OneLiveKernel, Alive, UnderWay
    <2> QED
      BY <2>1, <2>2 DEF KernelsAreOwned
  <1> QED
    BY <1>1, SerialInvariant, PTL

-----------------------------------------------------------------------------
(* What the launcher does for that client is what KernelSlot says: the      *)
(* handle that is out is the slot, and its process what runs.               *)
Slot == INSTANCE KernelSlot WITH
    Kernels <- Spawns, held <- handles, running <- handles \cap Alive

LEMMA SlotStep ==
    ASSUME SerialInv, [Next]_vars
    PROVE  Slot!Next \/ UNCHANGED <<handles, handles \cap Alive>>
  <1> USE SpawnFacts DEF SerialInv, TypeOK, history
  <1>1. CASE BeginSpawn \/ UNCHANGED vars
    BY <1>1 DEF BeginSpawn, vars, Alive
  <1>2. ASSUME NEW n \in Spawns, StartProcess(n) \/ StartFailed(n) \/ StartTimeout(n)
        PROVE  UNCHANGED <<handles, handles \cap Alive>>
    <2>1. n \in UnderWay /\ UNCHANGED handles
      BY <1>2 DEF StartProcess, StartFailed, StartTimeout, UnderWay
    <2>2. handles = {}
      BY <2>1 DEF OneAtATime
    <2> QED
      BY <2>1, <2>2
  <1>3. ASSUME NEW n \in Spawns, HandOff(n) PROVE Slot!Next
    <2>1. n \in UnderWay /\ n \in Alive
      BY <1>3 DEF HandOff, UnderWay
    <2>2. handles = {}
      BY <2>1 DEF OneAtATime
    <2>3. handles' = {n} /\ Alive' = Alive
      BY <1>3, <2>2 DEF HandOff, Alive
    <2>4. Slot!Spawn
      BY <2>1, <2>2, <2>3 DEF Slot!Spawn
    <2> QED
      BY <2>4 DEF Slot!Next
  <1>4. ASSUME NEW n \in Spawns, Stop(n) PROVE Slot!Next
    <2>1. handles' = {}
      BY <1>4 DEF Stop, OneAtATime
    <2> QED
      BY <2>1 DEF Slot!Next, Slot!Stop
  <1>5. ASSUME NEW n \in Spawns, Watch(n) \/ ProcessExit(n)
        PROVE  Slot!Next \/ UNCHANGED <<handles, handles \cap Alive>>
    <2>1. UNCHANGED handles /\ Alive' \subseteq Alive
      BY <1>5 DEF Watch, ExitSilent, ExitSeen, ExitReported, StopSeen, Killed, ProcessExit,
                  Kill, Alive
    <2>2. \A g, h \in handles : g = h
      BY DEF OneAtATime
    <2>3. (handles \cap Alive)' \in {handles \cap Alive, {}}
      BY <2>1, <2>2
    <2> QED
      BY <2>1, <2>3 DEF Slot!Next, Slot!Exit
  <1> QED
    BY <1>1, <1>2, <1>3, <1>4, <1>5 DEF Next, SpawnStep

\* launcher.rs, DirectLauncher: for a client that gives one kernel back before
\* it asks for the next, a spawn that succeeds returns a live kernel into an
\* empty slot, and until it is given back nothing but its exit happens to it.
THEOREM SlotIsKept == ASSUME Client = "serial" PROVE Spec => Slot!Spec
  <1>1. Init => Slot!Init
    BY DEF Init, Slot!Init
  <1>2. SerialInv /\ [Next]_vars => [Slot!Next]_(Slot!vars)
    BY SlotStep DEF Slot!vars
  <1> QED
    BY <1>1, <1>2, SerialInvariant, PTL DEF Spec, Slot!Spec
=============================================================================

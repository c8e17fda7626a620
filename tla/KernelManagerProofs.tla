------------------------- MODULE KernelManagerProofs -------------------------
(***************************************************************************)
(* Theorems about KernelManager for every number of connects, every set of *)
(* calls, every heartbeat threshold and both launchers.                    *)
(***************************************************************************)
EXTENDS KernelManager, FiniteSetTheorems, TLAPS

(***************************************************************************)
(* The little arithmetic the proofs need; everything else treats the       *)
(* numbers of connects as names.                                           *)
(***************************************************************************)
LEMMA GenFacts == /\ Gens \subseteq OptGen
                  /\ 0 \in OptGen /\ 0 \notin Gens
                  /\ \A g \in OptGen : g # 0 => g \in Gens
                  /\ \A g \in OptGen : g < MaxGen => g + 1 \in Gens
  BY ConstantsAssumption, Z3 DEF Gens, OptGen

LEMMA MissFacts == /\ 0 \in 0..TerminalMisses - 1
                   /\ \A n \in 0..TerminalMisses - 1 :
                        n + 1 < TerminalMisses => n + 1 \in 0..TerminalMisses - 1
  BY ConstantsAssumption, Z3

(***************************************************************************)
(* The records the manager builds are of their types.                      *)
(***************************************************************************)
LEMMA StateTypes ==
    /\ Disconnected \in States
    /\ \A m \in OptModes :
          /\ Error(m) \in States
          /\ \A s \in Stages : Connecting(s, m) \in States
          /\ \A g \in OptGen : Connected(m, g) \in States
  BY GenFacts DEF States, Disconnected, Error, Connecting, Connected, OptModes

LEMMA TaskTypes ==
    /\ IdleCall \in CallStates /\ NoSup \in SupStates /\ NoTask \in TaskStates
    /\ \A g \in OptGen : [pc |-> "driver", handle |-> g] \in TaskStates
  BY GenFacts, MissFacts
  DEF IdleCall, NoSup, NoTask, CallStates, SupStates, TaskStates, OptModes, CallPcs

(***************************************************************************)
(* TypeOK is not inductive: that a spawned kernel has a number rests on    *)
(* the connect having one, and on config.yaml having been written.         *)
(***************************************************************************)
ConnectPcs == {"fetch", "elevate", "write", "spawn", "attach", "rollback", "settle"}

ConnectsAreNumbered ==
    \A c \in Calls : /\ call[c].pc \in ConnectPcs => call[c].gen # 0
                     /\ call[c].pc = "spawn" => config # 0

TypeInv == TypeOK /\ ConnectsAreNumbered

LEMMA InitTypeInv == Init => TypeInv
  BY GenFacts, StateTypes, TaskTypes
  DEF Init, TypeInv, TypeOK, Modes, ConnectsAreNumbered, ConnectPcs, IdleCall

LEMMA ClearProxyType ==
    ASSUME TypeOK, NEW m, ClearProxyIf(m)
    PROVE  osProxy' \in OptGen /\ clearFailed' \subseteq Gens
  BY GenFacts DEF TypeOK, ClearProxyIf, ClearProxy, proxyVars

LEMMA StopType ==
    ASSUME TypeOK, StopIgnored \/ AbortSupervisor
    PROVE  running' \subseteq Gens /\ current' \in OptGen
  BY GenFacts DEF TypeOK, StopIgnored, StopOk, StopErr, AbortSupervisor

LEMMA CallUpdates ==
    ASSUME TypeOK, NEW c \in Calls, NEW pc \in CallPcs
    PROVE  /\ Goto(c, pc) => call' \in [Calls -> CallStates]
           /\ Return(c) => call' \in [Calls -> CallStates]
           /\ \A g \in OptGen, m \in OptModes :
                /\ [pc |-> pc, gen |-> g, mode |-> m, handle |-> 0] \in CallStates
                /\ [call EXCEPT ![c].pc = pc, ![c].mode = m] \in [Calls -> CallStates]
                /\ [call EXCEPT ![c].pc = pc, ![c].handle = g] \in [Calls -> CallStates]
           /\ call[c].mode \in OptModes /\ call[c].gen \in OptGen
           /\ call[c].handle \in OptGen
  <1> USE GenFacts, TaskTypes DEF TypeOK
  <1>1. call[c] \in CallStates
    OBVIOUS
  <1>2. \A g \in OptGen, m \in OptModes :
          /\ [pc |-> pc, gen |-> g, mode |-> m, handle |-> 0] \in CallStates
          /\ [call[c] EXCEPT !.pc = pc, !.mode = m] \in CallStates
          /\ [call[c] EXCEPT !.pc = pc, !.handle = g] \in CallStates
    BY <1>1 DEF CallStates
  <1>3. [call[c] EXCEPT !.pc = pc] \in CallStates
    BY <1>1 DEF CallStates
  <1>4. /\ call[c].mode \in OptModes /\ call[c].gen \in OptGen
        /\ call[c].handle \in OptGen
    BY <1>1 DEF CallStates
  <1> QED
    BY <1>2, <1>3, <1>4 DEF Goto, Return

LEMMA FailType ==
    ASSUME TypeOK, NEW c \in Calls, Fail(c)
    PROVE  /\ state' \in States /\ handle' \in OptGen
           /\ call' \in [Calls -> CallStates]
           /\ cleanup' \in [Gens -> TaskStates]
  <1>1. Error(call[c].mode) \in States
    BY StateTypes, CallUpdates DEF CallPcs
  <1>2. [pc |-> "driver", handle |-> handle] \in TaskStates
    BY TaskTypes DEF TypeOK
  <1> QED
    BY <1>1, <1>2, CallUpdates, GenFacts DEF Fail, Publish, TypeOK, CallPcs

LEMMA EstablishType ==
    ASSUME TypeOK, NEW c \in Calls, Establish(c), secret' \in OptGen
    PROVE  /\ state' \in States /\ sup' \in SupStates
           /\ call' \in [Calls -> CallStates]
           /\ running' \subseteq Gens /\ current' \in OptGen
  <1>1. Connected(call[c].mode, call[c].gen) \in States
    BY StateTypes, CallUpdates DEF CallPcs
  <1>2. [NoSup EXCEPT !.pc = "watch", !.mode = call[c].mode,
                      !.addr = gen, !.secret = secret'] \in SupStates
    BY GenFacts, MissFacts, CallUpdates DEF TypeOK, NoSup, SupStates, CallPcs
  <1> QED
    BY <1>1, <1>2, CallUpdates, StopType DEF Establish, Publish, CallPcs

(***************************************************************************)
(* Every step keeps every variable in its range.                           *)
(***************************************************************************)
LEMMA ConnectTypeOK ==
    ASSUME TypeInv, NEW c \in Calls, BeginConnect(c) \/ ConnectStep(c)
    PROVE  TypeOK'
  <1> USE GenFacts DEF TypeInv, resources, proxyVars, guardVars, Publish
  <1>m. call[c].mode \in OptModes /\ call[c].gen \in OptGen
    BY CallUpdates DEF CallPcs, TypeInv
  <1>1. CASE BeginConnect(c)
    <2>1. gen + 1 \in Gens
      BY <1>1 DEF BeginConnect, TypeOK
    <2>2. [pc |-> "fetch", gen |-> gen + 1, mode |-> requestedMode, handle |-> 0]
             \in CallStates
      BY <2>1, CallUpdates DEF CallPcs, OptModes, TypeOK
    <2>3. Connecting("Fetching", requestedMode) \in States
      BY StateTypes DEF Stages, OptModes, TypeOK
    <2> QED
      BY <1>1, <2>1, <2>2, <2>3 DEF BeginConnect, TypeOK
  <1>2. CASE Fetched(c)
    BY <1>2, <1>m, StateTypes, CallUpdates DEF Fetched, TypeOK, CallPcs, Stages
  <1>3. CASE Elevated(c)
    <2>1. PICK m \in {call[c].mode, "SystemProxy"} :
             /\ state' = Connecting("Writing", m)
             /\ call' = [call EXCEPT ![c].pc = "write", ![c].mode = m]
      BY <1>3 DEF Elevated
    <2>2. m \in OptModes
      BY <1>m DEF OptModes, Modes
    <2>3. state' \in States /\ call' \in [Calls -> CallStates]
      BY <2>1, <2>2, <1>m, StateTypes, CallUpdates DEF CallPcs, Stages
    <2> QED
      BY <1>3, <2>3 DEF Elevated, TypeOK
  <1>4. CASE ConfigWritten(c)
    BY <1>4, <1>m, StateTypes, CallUpdates DEF ConfigWritten, TypeOK, CallPcs, Stages
  <1>5. CASE FailEarly(c)
    BY <1>5, FailType DEF FailEarly, TypeOK
  <1>6. CASE Spawned(c)
    <2>1. config \in Gens
      BY <1>6 DEF Spawned, TypeOK, ConnectsAreNumbered
    <2>2. running' \subseteq Gens
      BY <1>6, <2>1 DEF Spawned, TypeOK
    <2> QED
      BY <1>6, <1>m, <2>1, <2>2, CallUpdates DEF Spawned, TypeOK, CallPcs
  <1>7. CASE SpawnFailed(c)
    <2>1. call[c].pc = "spawn" /\ Fail(c)
      BY <1>7 DEF SpawnFailed
    <2>2. config \in Gens
      BY <2>1 DEF TypeOK, ConnectsAreNumbered
    <2>3. running' \subseteq Gens /\ current' \in OptGen
      BY <1>7, <2>2 DEF SpawnFailed, StopOk, TypeOK
    <2> QED
      BY <1>7, <2>1, <2>3, FailType DEF SpawnFailed, TypeOK
  <1>8. CASE AttachedTun(c)
    BY <1>8, <1>m, StateTypes, CallUpdates DEF AttachedTun, TypeOK, CallPcs, Stages, OptModes,
                                               Modes
  <1>9. CASE AttachedProxy(c)
    BY <1>9, <1>m, EstablishType DEF AttachedProxy, TypeOK
  <1>10. CASE RouteSettled(c)
    BY <1>10, EstablishType DEF RouteSettled, TypeOK
  <1>11. CASE BeginRollback(c)
    BY <1>11, <1>m, CallUpdates DEF BeginRollback, TypeOK, CallPcs
  <1>12. CASE Rollback(c)
    BY <1>12, StopType, FailType DEF Rollback, TypeOK
  <1> QED
    BY <1>1, <1>2, <1>3, <1>4, <1>5, <1>6, <1>7, <1>8, <1>9, <1>10, <1>11, <1>12
    DEF ConnectStep

LEMMA DisconnectTypeOK ==
    ASSUME TypeOK, NEW c \in Calls, BeginDisconnect(c) \/ DisconnectStep(c)
    PROVE  TypeOK'
  <1> USE GenFacts DEF resources, proxyVars, guardVars, Publish
  <1>m. call[c].mode \in OptModes /\ call[c].gen \in OptGen
    BY CallUpdates DEF CallPcs
  <1>1. CASE BeginDisconnect(c)
    <2>1. [IdleCall EXCEPT !.pc = "detach", !.mode = state.mode] \in CallStates
      BY TaskTypes DEF IdleCall, CallStates, CallPcs, TypeOK, States
    <2> QED
      BY <1>1, <2>1, ClearProxyType, StopType, TaskTypes DEF BeginDisconnect, TypeOK
  <1>2. CASE Detach(c)
    <2>1. state' \in States /\ call' \in [Calls -> CallStates]
      <3>1. CASE handle # 0
        <4>1. /\ UNCHANGED state
              /\ call' = [call EXCEPT ![c].pc = "stop", ![c].handle = handle]
          BY <1>2, <3>1 DEF Detach
        <4>2. "stop" \in CallPcs /\ call[c].mode \in OptModes /\ handle \in OptGen
          BY <1>m DEF CallPcs, TypeOK
        <4> QED
          BY <4>1, <4>2, CallUpdates DEF TypeOK
      <3>2. CASE handle = 0
        BY <1>2, <3>2, StateTypes, CallUpdates DEF Detach, TypeOK, CallPcs
      <3> QED
        BY <3>1, <3>2
    <2> QED
      BY <1>2, <2>1 DEF Detach, TypeOK
  <1>3. CASE Stopped(c)
    BY <1>3, StateTypes, StopType, CallUpdates DEF Stopped, StopIgnored, TypeOK, CallPcs
  <1>4. CASE StopFailed(c)
    BY <1>4, <1>m, StateTypes, StopType, CallUpdates
    DEF StopFailed, StopIgnored, TypeOK, CallPcs
  <1> QED
    BY <1>1, <1>2, <1>3, <1>4 DEF DisconnectStep

LEMMA BackgroundTypeOK ==
    ASSUME TypeOK, NEW g \in Gens,
           CleanupDriver(g) \/ CleanupStop(g) \/ GuardAssert(g) \/ KernelExit(g)
    PROVE  TypeOK'
  <1> USE GenFacts DEF resources, proxyVars, guardVars
  <1>1. cleanup[g] \in TaskStates
    BY DEF TypeOK
  <1>2. CASE CleanupDriver(g)
    <2>1. [cleanup[g] EXCEPT !.pc = "stop"] \in TaskStates
      BY <1>1 DEF TaskStates
    <2> QED
      BY <1>2, <2>1, TaskTypes DEF CleanupDriver, TypeOK
  <1>3. CASE CleanupStop(g)
    BY <1>3, StopType, TaskTypes DEF CleanupStop, TypeOK
  <1>4. CASE GuardAssert(g)
    BY <1>4 DEF GuardAssert, TypeOK
  <1>5. CASE KernelExit(g)
    <2>1. [sup EXCEPT !.note = TRUE] \in SupStates
      BY DEF TypeOK, SupStates
    <2> QED
      BY <1>5, <2>1 DEF KernelExit, TypeOK
  <1> QED
    BY <1>2, <1>3, <1>4, <1>5

LEMMA SupervisorTypeOK == ASSUME TypeOK, Supervisor PROVE TypeOK'
  <1> USE GenFacts DEF resources, proxyVars, guardVars, Publish
  <1>m. sup.mode \in OptModes /\ sup.misses \in 0..TerminalMisses - 1
    BY DEF TypeOK, SupStates
  <1>1. CASE HeartbeatOk
    <2>1. [sup EXCEPT !.misses = 0] \in SupStates
      BY MissFacts DEF TypeOK, SupStates
    <2> QED
      BY <1>1, <2>1 DEF HeartbeatOk, TypeOK
  <1>2. CASE HeartbeatMiss
    <2>1. sup.misses + 1 \in 0..TerminalMisses - 1
      BY <1>2, <1>m, MissFacts DEF HeartbeatMiss
    <2>2. [sup EXCEPT !.misses = sup.misses + 1] \in SupStates
      BY <2>1 DEF TypeOK, SupStates
    <2> QED
      BY <1>2, <2>2 DEF HeartbeatMiss, TypeOK
  <1>3. CASE Teardown
    <2>1. [sup EXCEPT !.pc = "stopping", !.handle = handle] \in SupStates
      BY DEF TypeOK, SupStates
    <2> QED
      BY <1>3, <1>m, <2>1, ClearProxyType, StateTypes, TaskTypes
      DEF Teardown, StopOk, TypeOK
  <1>4. CASE TeardownStopped
    BY <1>4, <1>m, StopType, StateTypes, TaskTypes DEF TeardownStopped, TypeOK
  <1> QED
    BY <1>1, <1>2, <1>3, <1>4
    DEF Supervisor, Heartbeat, HeartbeatTerminal, FailureReceived

LEMMA NextTypeOK == TypeInv /\ [Next]_vars => TypeOK'
  <1> SUFFICES ASSUME TypeInv, [Next]_vars PROVE TypeOK'
    OBVIOUS
  <1> USE DEF TypeInv
  <1>1. CASE GuardDrift \/ GuardQuit \/ SetRequestedMode \/ SetProxyGuardEnabled
             \/ ProxyDrift
    BY <1>1, GenFacts
    DEF GuardDrift, GuardQuit, SetRequestedMode, SetProxyGuardEnabled, ProxyDrift,
        TypeOK, resources, proxyVars, guardVars
  <1>2. CASE UNCHANGED vars
    BY <1>2 DEF vars, TypeOK
  <1> QED
    BY <1>1, <1>2, ConnectTypeOK, DisconnectTypeOK, BackgroundTypeOK, SupervisorTypeOK
    DEF Next

(***************************************************************************)
(* What a step does to the calls: a call keeps the number it began with,   *)
(* a new connect takes the next one, and all other calls stay as they are. *)
(***************************************************************************)
OtherCallsKept(c) == \A d \in Calls \ {c} : call'[d] = call[d]
EarlyPcs == {"fetch", "elevate", "write", "spawn"}

LEMMA CallSteps ==
    ASSUME TypeInv, Next
    PROVE  \/ UNCHANGED <<call, gen, config>>
           \/ \E c \in Calls :
                /\ OtherCallsKept(c)
                /\ \/ BeginConnect(c)
                   \/ /\ UNCHANGED gen
                      /\ call'[c].pc \in ConnectPcs =>
                            call[c].pc \in ConnectPcs /\ call'[c].gen = call[c].gen
                      /\ call'[c].pc \in EarlyPcs => call[c].pc \in EarlyPcs
                      /\ \/ UNCHANGED config /\ call'[c].pc # "spawn"
                         \/ config' = call[c].gen /\ call[c].pc = "write"
  <1> USE DEF TypeInv, resources, proxyVars, guardVars
  <1>1. ASSUME NEW c \in Calls, BeginConnect(c) \/ ConnectStep(c)
                                \/ BeginDisconnect(c) \/ DisconnectStep(c)
        PROVE  OtherCallsKept(c)
    <2>1. CASE BeginConnect(c) \/ BeginDisconnect(c)
      BY <2>1 DEF TypeOK, OtherCallsKept, BeginConnect, BeginDisconnect
    <2>2. CASE ConnectStep(c)
      BY <2>2
      DEF TypeOK, OtherCallsKept, ConnectStep, Fetched, Elevated, ConfigWritten, FailEarly,
          Spawned,
          SpawnFailed, AttachedTun, AttachedProxy, RouteSettled, BeginRollback,
          Rollback, Fail, Establish, Goto, Return
    <2>3. CASE DisconnectStep(c)
      BY <2>3 DEF TypeOK, OtherCallsKept, DisconnectStep, Detach, Stopped, StopFailed, Goto,
                  Return
    <2> QED
      BY <1>1, <2>1, <2>2, <2>3
  <1>2. ASSUME NEW c \in Calls, ConnectStep(c)
        PROVE  /\ UNCHANGED gen
               /\ call'[c].pc \in ConnectPcs =>
                     call[c].pc \in ConnectPcs /\ call'[c].gen = call[c].gen
               /\ call'[c].pc \in EarlyPcs => call[c].pc \in EarlyPcs
               /\ \/ UNCHANGED config /\ call'[c].pc # "spawn"
                  \/ config' = call[c].gen /\ call[c].pc = "write"
    <2>1. call[c] \in CallStates
      BY DEF TypeOK
    <2>2. CASE Fetched(c) \/ Elevated(c) \/ ConfigWritten(c) \/ Spawned(c)
               \/ AttachedTun(c) \/ BeginRollback(c)
      BY <2>1, <2>2
      DEF TypeOK, Fetched, Elevated, ConfigWritten, Spawned, AttachedTun,
          BeginRollback, Goto, CallStates, ConnectPcs, EarlyPcs
    <2>3. CASE FailEarly(c) \/ SpawnFailed(c) \/ AttachedProxy(c) \/ RouteSettled(c)
               \/ Rollback(c)
      BY <2>3
      DEF TypeOK, FailEarly, SpawnFailed, AttachedProxy, RouteSettled, Rollback,
          Fail, Establish, Return, IdleCall, ConnectPcs, EarlyPcs
    <2> QED
      BY <1>2, <2>2, <2>3 DEF ConnectStep
  <1>3. ASSUME NEW c \in Calls, BeginDisconnect(c) \/ DisconnectStep(c)
        PROVE  UNCHANGED <<gen, config>> /\ call'[c].pc \notin ConnectPcs
    <2>1. call[c] \in CallStates
      BY DEF TypeOK
    <2>2. CASE BeginDisconnect(c)
      BY <2>2 DEF TypeOK, BeginDisconnect, IdleCall, ConnectPcs
    <2>3. CASE Detach(c)
      BY <2>1, <2>3 DEF TypeOK, Detach, Return, IdleCall, CallStates, ConnectPcs
    <2>4. CASE Stopped(c) \/ StopFailed(c)
      BY <2>4 DEF TypeOK, Stopped, StopFailed, Return, IdleCall, ConnectPcs
    <2> QED
      BY <1>3, <2>2, <2>3, <2>4 DEF DisconnectStep
  <1>4. ASSUME NEW g \in Gens,
               CleanupDriver(g) \/ CleanupStop(g) \/ GuardAssert(g) \/ KernelExit(g)
        PROVE  UNCHANGED <<call, gen, config>>
    BY <1>4 DEF CleanupDriver, CleanupStop, GuardAssert, KernelExit
  <1>5. ASSUME Supervisor \/ GuardDrift \/ GuardQuit \/ SetRequestedMode
               \/ SetProxyGuardEnabled \/ ProxyDrift
        PROVE  UNCHANGED <<call, gen, config>>
    BY <1>5
    DEF Supervisor, Heartbeat, HeartbeatOk, HeartbeatMiss, HeartbeatTerminal,
        FailureReceived, Teardown, TeardownStopped, GuardDrift, GuardQuit,
        SetRequestedMode, SetProxyGuardEnabled, ProxyDrift
  <1> QED
    BY <1>1, <1>2, <1>3, <1>4, <1>5 DEF Next, ConnectPcs, EarlyPcs

LEMMA NextTypeInv == TypeInv /\ [Next]_vars => TypeInv'
  <1> SUFFICES ASSUME TypeInv, [Next]_vars PROVE ConnectsAreNumbered'
    BY NextTypeOK DEF TypeInv
  <1>1. CASE UNCHANGED vars
    BY <1>1 DEF vars, TypeInv, ConnectsAreNumbered
  <1>2. CASE Next
    <2>1. CASE UNCHANGED <<call, gen, config>>
      BY <2>1 DEF TypeInv, ConnectsAreNumbered
    <2>2. ASSUME NEW c \in Calls, OtherCallsKept(c), BeginConnect(c)
          PROVE  ConnectsAreNumbered'
      BY <2>2, GenFacts
      DEF TypeInv, TypeOK, ConnectsAreNumbered, OtherCallsKept, BeginConnect, resources
    <2>3. ASSUME NEW c \in Calls, OtherCallsKept(c),
                 call'[c].pc \in ConnectPcs =>
                     call[c].pc \in ConnectPcs /\ call'[c].gen = call[c].gen,
                 \/ UNCHANGED config /\ call'[c].pc # "spawn"
                 \/ config' = call[c].gen /\ call[c].pc = "write"
          PROVE  ConnectsAreNumbered'
      BY <2>3 DEF TypeInv, ConnectsAreNumbered, OtherCallsKept, ConnectPcs
    <2> QED
      BY <1>2, <2>1, <2>2, <2>3, CallSteps
  <1> QED
    BY <1>1, <1>2

THEOREM TypeCorrect == Spec => []TypeOK
  <1>1. Spec => []TypeInv
    BY InitTypeInv, NextTypeInv, PTL DEF Spec
  <1>2. TypeInv => TypeOK
    BY DEF TypeInv
  <1> QED
    BY <1>1, <1>2, PTL

-----------------------------------------------------------------------------
(***************************************************************************)
(* The guard, switched on and off at will, under calls that overlap: while *)
(* it is between its two calls into the OS it holds the read lock of       *)
(* `state`, and nobody publishes; so the state is still the Connected it   *)
(* found when it sets the proxy.                                           *)
(***************************************************************************)
GuardHoldsState == asserting # {} => Guarding

LEMMA GuardHoldsStateStep ==
    ASSUME GuardHoldsState, [Next]_vars
    PROVE  GuardHoldsState'
  <1> USE DEF GuardHoldsState, Guarding, resources, proxyVars, guardVars, Publish
  <1>1. CASE UNCHANGED vars
    BY <1>1 DEF vars
  <1>2. ASSUME NEW c \in Calls, BeginConnect(c) \/ ConnectStep(c)
                                \/ BeginDisconnect(c) \/ DisconnectStep(c)
        PROVE  GuardHoldsState'
    BY <1>2
    DEF BeginConnect, ConnectStep, Fetched, Elevated, ConfigWritten, FailEarly,
        Spawned, SpawnFailed, AttachedTun, AttachedProxy, RouteSettled, Establish,
        BeginRollback, Rollback, Fail, BeginDisconnect, DisconnectStep, Detach,
        Stopped, StopFailed
  <1>3. ASSUME NEW g \in Gens,
               CleanupDriver(g) \/ CleanupStop(g) \/ GuardAssert(g) \/ KernelExit(g)
        PROVE  GuardHoldsState'
    BY <1>3 DEF CleanupDriver, CleanupStop, GuardAssert, KernelExit
  <1>4. ASSUME Supervisor \/ GuardDrift \/ GuardQuit \/ SetRequestedMode
               \/ SetProxyGuardEnabled \/ ProxyDrift
        PROVE  GuardHoldsState'
    BY <1>4
    DEF Supervisor, Heartbeat, HeartbeatOk, HeartbeatMiss, HeartbeatTerminal,
        FailureReceived, Teardown, TeardownStopped, GuardDrift, GuardQuit,
        SetRequestedMode, SetProxyGuardEnabled, ProxyDrift
  <1> QED
    BY <1>1, <1>2, <1>3, <1>4 DEF Next

LEMMA ProxySteps ==
    ASSUME GuardHoldsState, Next
    PROVE  \/ osProxy' \in {0, osProxy}
           \/ \E c \in Calls : AttachedProxy(c)
           \/ Guarding
  <1> USE DEF proxyVars, ClearProxyIf, ClearProxy
  <1>1. ASSUME NEW c \in Calls, BeginConnect(c) \/ ConnectStep(c)
        PROVE  osProxy' = osProxy \/ AttachedProxy(c)
    BY <1>1
    DEF BeginConnect, ConnectStep, Fetched, Elevated, ConfigWritten, FailEarly,
        Spawned, SpawnFailed, AttachedTun, RouteSettled, BeginRollback, Rollback
  <1>2. ASSUME NEW c \in Calls, BeginDisconnect(c) \/ DisconnectStep(c)
        PROVE  osProxy' \in {0, osProxy}
    BY <1>2 DEF BeginDisconnect, DisconnectStep, Detach, Stopped, StopFailed
  <1>3. ASSUME NEW g \in Gens, CleanupDriver(g) \/ CleanupStop(g) \/ KernelExit(g)
        PROVE  osProxy' = osProxy
    BY <1>3 DEF CleanupDriver, CleanupStop, KernelExit
  <1>4. ASSUME NEW g \in Gens, GuardAssert(g)
        PROVE  Guarding
    BY <1>4 DEF GuardAssert, GuardHoldsState
  <1>5. ASSUME Supervisor \/ GuardDrift \/ GuardQuit \/ SetRequestedMode
               \/ SetProxyGuardEnabled \/ ProxyDrift
        PROVE  osProxy' \in {0, osProxy}
    BY <1>5
    DEF Supervisor, Heartbeat, HeartbeatOk, HeartbeatMiss, HeartbeatTerminal,
        FailureReceived, Teardown, TeardownStopped, GuardDrift, GuardQuit,
        SetRequestedMode, SetProxyGuardEnabled, ProxyDrift
  <1> QED
    BY <1>1, <1>2, <1>3, <1>4, <1>5 DEF Next

(* start_sysproxy_guard (manager.rs): whoever overlaps with the guard, and  *)
(* however its switch is moved, outside Connected only a connect that is    *)
(* about to publish Connected points the OS proxy at a port of ours.        *)
THEOREM GuardKeepsToConnected == Spec => GuardStaysInConnected
  <1>1. Init => GuardHoldsState
    BY DEF Init, GuardHoldsState
  <1>2. GuardHoldsState /\ [Next]_vars => GuardHoldsState'
    BY GuardHoldsStateStep
  <1>3. GuardHoldsState /\ [Next]_vars
           => [state.kind # "Connected" /\ state'.kind # "Connected"
                  => osProxy' \in {0, osProxy}]_vars
    <2> SUFFICES ASSUME GuardHoldsState, Next,
                        state.kind # "Connected", state'.kind # "Connected"
                 PROVE  osProxy' \in {0, osProxy}
      BY DEF vars
    <2>1. ASSUME NEW c \in Calls, AttachedProxy(c)
          PROVE  state'.kind = "Connected"
      BY <2>1 DEF AttachedProxy, Establish, Publish, Connected
    <2> QED
      BY <2>1, ProxySteps DEF Guarding
  <1> QED
    BY <1>1, <1>2, <1>3, PTL DEF Spec, GuardStaysInConnected

(***************************************************************************)
(* With the proxy guard switched off, its task never acts.                 *)
(***************************************************************************)
GuardOff == asserting = {} /\ guardEnabled = FALSE

LEMMA GuardOffStep ==
    ASSUME GuardSettings = {FALSE}, TypeOK, GuardOff, [Next]_vars
    PROVE  GuardOff'
  <1> USE DEF GuardOff, resources, proxyVars, guardVars
  <1>1. CASE UNCHANGED vars
    BY <1>1 DEF vars
  <1>2. ASSUME NEW c \in Calls, BeginConnect(c) \/ ConnectStep(c)
                                \/ BeginDisconnect(c) \/ DisconnectStep(c)
        PROVE  GuardOff'
    BY <1>2
    DEF BeginConnect, ConnectStep, Fetched, Elevated, ConfigWritten, FailEarly,
        Spawned, SpawnFailed, AttachedTun, AttachedProxy, RouteSettled,
        BeginRollback, Rollback, BeginDisconnect, DisconnectStep, Detach,
        Stopped, StopFailed
  <1>3. ASSUME NEW g \in Gens,
               CleanupDriver(g) \/ CleanupStop(g) \/ GuardAssert(g) \/ KernelExit(g)
        PROVE  GuardOff'
    BY <1>3 DEF CleanupDriver, CleanupStop, GuardAssert, KernelExit
  <1>4. ASSUME Supervisor \/ GuardDrift \/ GuardQuit \/ SetRequestedMode
               \/ SetProxyGuardEnabled \/ ProxyDrift
        PROVE  GuardOff'
    BY <1>4
    DEF Supervisor, Heartbeat, HeartbeatOk, HeartbeatMiss, HeartbeatTerminal,
        FailureReceived, Teardown, TeardownStopped, GuardDrift, GuardQuit,
        SetRequestedMode, SetProxyGuardEnabled, ProxyDrift
  <1> QED
    BY <1>1, <1>2, <1>3, <1>4 DEF Next

-----------------------------------------------------------------------------
LEMMA NextNumber ==
    \A g, h \in OptGen : h <= g => h # g + 1 /\ h <= g + 1
  BY ConstantsAssumption, Z3 DEF OptGen

LEMMA ZeroIsLeast == \A g \in OptGen : 0 <= g /\ g <= g
  BY ConstantsAssumption, Z3 DEF OptGen

(***************************************************************************)
(* However calls overlap, a handle is in one place.  It is returned by the *)
(* spawn of a connect whose number nothing holds yet, and from then on it  *)
(* is only ever moved out of the slot or dropped.                          *)
(***************************************************************************)
KeptOrDropped(old, new) == new \in {old, 0}

CallsKeep(S) == \A c \in S : KeptOrDropped(call[c].handle, call'[c].handle)
TasksKeep(S) == \A g \in S : KeptOrDropped(cleanup[g].handle, cleanup'[g].handle)
SupKeeps == KeptOrDropped(sup.handle, sup'.handle)

NobodyTakes ==
    KeptOrDropped(handle, handle') /\ CallsKeep(Calls) /\ TasksKeep(Gens) /\ SupKeeps
CallTakes(c) ==
    /\ handle' = 0 /\ call'[c].handle = handle
    /\ CallsKeep(Calls \ {c}) /\ TasksKeep(Gens) /\ SupKeeps
TaskTakes(g) ==
    /\ handle' = 0 /\ cleanup'[g].handle = handle
    /\ CallsKeep(Calls) /\ TasksKeep(Gens \ {g}) /\ SupKeeps
SupTakes ==
    handle' = 0 /\ sup'.handle = handle /\ CallsKeep(Calls) /\ TasksKeep(Gens)
SpawnReturns(c) ==
    /\ call[c].pc = "spawn" /\ call'[c].pc = "attach" /\ handle' = call[c].gen
    /\ CallsKeep(Calls) /\ TasksKeep(Gens) /\ SupKeeps

HandleMoves ==
    \/ NobodyTakes \/ SupTakes
    \/ \E c \in Calls : CallTakes(c) \/ SpawnReturns(c)
    \/ \E g \in Gens : TaskTakes(g)

LEMMA FailMoves ==
    ASSUME TypeInv, NEW c \in Calls, Fail(c), UNCHANGED sup
    PROVE  HandleMoves
  <1>1. CASE call[c].gen \in Gens
    <2>1. TaskTakes(call[c].gen)
      BY <1>1
      DEF Fail, Return, IdleCall, TypeInv, TypeOK, TaskTakes, CallsKeep, TasksKeep,
          SupKeeps, KeptOrDropped
    <2> QED
      BY <1>1, <2>1 DEF HandleMoves
  <1>2. CASE call[c].gen \notin Gens
    BY <1>2
    DEF Fail, Return, IdleCall, TypeInv, TypeOK, HandleMoves, NobodyTakes, CallsKeep,
        TasksKeep, SupKeeps, KeptOrDropped
  <1> QED
    BY <1>1, <1>2

LEMMA HandleSteps == ASSUME TypeInv, [Next]_vars PROVE HandleMoves
  <1> USE DEF resources, proxyVars, guardVars, CallsKeep, TasksKeep, SupKeeps, KeptOrDropped
  <1>t. /\ call \in [Calls -> CallStates] /\ cleanup \in [Gens -> TaskStates]
        /\ sup \in SupStates
    BY DEF TypeInv, TypeOK
  <1>1. ASSUME NEW c \in Calls, BeginConnect(c) \/ ConnectStep(c)
        PROVE  HandleMoves
    <2>t. call[c] \in CallStates
      BY <1>t
    <2>1. CASE BeginConnect(c)
      BY <1>t, <2>1 DEF BeginConnect, HandleMoves, NobodyTakes
    <2>2. CASE Fetched(c) \/ Elevated(c) \/ ConfigWritten(c) \/ AttachedTun(c)
      <3>1. /\ UNCHANGED <<handle, sup, cleanup>>
            /\ \A d \in Calls : call'[d].handle = call[d].handle
        BY <1>t, <2>t, <2>2
        DEF Fetched, Elevated, ConfigWritten, AttachedTun, Goto, CallStates
      <3> QED
        BY <3>1 DEF HandleMoves, NobodyTakes
    <2>3. CASE FailEarly(c) \/ SpawnFailed(c) \/ Rollback(c)
      BY <2>3, FailMoves DEF FailEarly, SpawnFailed, Rollback
    <2>4. CASE Spawned(c)
      <3>1. /\ call[c].pc = "spawn" /\ call'[c].pc = "attach" /\ handle' = call[c].gen
            /\ UNCHANGED <<sup, cleanup>>
            /\ \A d \in Calls : call'[d].handle = call[d].handle
        BY <1>t, <2>t, <2>4 DEF Spawned, Goto, CallStates
      <3> QED
        BY <3>1 DEF HandleMoves, SpawnReturns
    <2>5. CASE AttachedProxy(c) \/ RouteSettled(c)
      <3>1. /\ UNCHANGED <<handle, cleanup>> /\ sup'.handle = 0
            /\ \A d \in Calls : call'[d].handle \in {call[d].handle, 0}
        <4>1. Establish(c) /\ UNCHANGED <<handle, cleanup>>
          BY <2>5 DEF AttachedProxy, RouteSettled
        <4>2. sup'.handle = 0
          BY <4>1 DEF Establish, NoSup
        <4> QED
          BY <1>t, <4>1, <4>2 DEF Establish, Return, IdleCall
      <3> QED
        BY <3>1 DEF HandleMoves, NobodyTakes
    <2>6. CASE BeginRollback(c)
      <3>1. /\ handle' = 0 /\ call'[c].handle = handle /\ UNCHANGED <<sup, cleanup>>
            /\ \A d \in Calls \ {c} : call'[d] = call[d]
        BY <1>t, <2>t, <2>6 DEF BeginRollback, CallStates
      <3> QED
        BY <3>1 DEF HandleMoves, CallTakes
    <2> QED
      BY <1>1, <2>1, <2>2, <2>3, <2>4, <2>5, <2>6 DEF ConnectStep
  <1>2. ASSUME NEW c \in Calls, BeginDisconnect(c) \/ DisconnectStep(c)
        PROVE  HandleMoves
    <2>t. call[c] \in CallStates
      BY <1>t
    <2>1. CASE BeginDisconnect(c)
      <3>1. /\ UNCHANGED <<handle, cleanup>> /\ sup'.handle = 0
            /\ \A d \in Calls : call'[d].handle \in {call[d].handle, 0}
        BY <1>t, <2>1 DEF BeginDisconnect, NoSup, IdleCall
      <3> QED
        BY <3>1 DEF HandleMoves, NobodyTakes
    <2>2. CASE Detach(c)
      <3>1. CASE handle # 0
        <4>1. /\ handle' = 0 /\ call'[c].handle = handle /\ UNCHANGED <<sup, cleanup>>
              /\ \A d \in Calls \ {c} : call'[d] = call[d]
          BY <1>t, <2>t, <2>2, <3>1 DEF Detach, CallStates
        <4> QED
          BY <4>1 DEF HandleMoves, CallTakes
      <3>2. CASE handle = 0
        BY <1>t, <2>2, <3>2 DEF Detach, Return, IdleCall, HandleMoves, NobodyTakes
      <3> QED
        BY <3>1, <3>2
    <2>3. CASE Stopped(c) \/ StopFailed(c)
      BY <1>t, <2>3 DEF Stopped, StopFailed, Return, IdleCall, HandleMoves, NobodyTakes
    <2> QED
      BY <1>2, <2>1, <2>2, <2>3 DEF DisconnectStep
  <1>3. ASSUME NEW g \in Gens,
               CleanupDriver(g) \/ CleanupStop(g) \/ GuardAssert(g) \/ KernelExit(g)
        PROVE  HandleMoves
    <2>1. CASE CleanupDriver(g)
      <3>1. cleanup[g] \in TaskStates
        BY <1>t
      <3>2. /\ \A h \in Gens : cleanup'[h].handle \in {cleanup[h].handle, 0}
            /\ UNCHANGED <<handle, sup, call>>
        BY <1>t, <2>1, <3>1 DEF CleanupDriver, NoTask, TaskStates
      <3> QED
        BY <3>2 DEF HandleMoves, NobodyTakes
    <2>2. CASE CleanupStop(g)
      BY <1>t, <2>2 DEF CleanupStop, NoTask, HandleMoves, NobodyTakes
    <2>3. CASE GuardAssert(g)
      BY <2>3 DEF GuardAssert, HandleMoves, NobodyTakes
    <2>4. CASE KernelExit(g)
      BY <1>t, <2>4 DEF KernelExit, SupStates, HandleMoves, NobodyTakes
    <2> QED
      BY <1>3, <2>1, <2>2, <2>3, <2>4
  <1>4. CASE Supervisor
    <2>1. CASE HeartbeatOk \/ HeartbeatMiss \/ TeardownStopped
      BY <1>t, <2>1
      DEF HeartbeatOk, HeartbeatMiss, TeardownStopped, NoSup, SupStates, HandleMoves,
          NobodyTakes
    <2>2. CASE Teardown
      <3>1. /\ handle' = 0 /\ UNCHANGED <<call, cleanup>>
            /\ sup'.handle = handle \/ sup'.handle = 0
        <4>1. CASE handle # 0 /\ Launcher = "remote"
          BY <1>t, <2>2, <4>1 DEF Teardown, SupStates
        <4>2. CASE ~(handle # 0 /\ Launcher = "remote")
          BY <2>2, <4>2 DEF Teardown, NoSup
        <4> QED
          BY <4>1, <4>2
      <3> QED
        BY <3>1 DEF HandleMoves, SupTakes, NobodyTakes
    <2> QED
      BY <1>4, <2>1, <2>2
      DEF Supervisor, Heartbeat, HeartbeatTerminal, FailureReceived
  <1>5. CASE GuardDrift \/ GuardQuit \/ SetRequestedMode \/ SetProxyGuardEnabled
             \/ ProxyDrift \/ UNCHANGED vars
    BY <1>5
    DEF GuardDrift, GuardQuit, SetRequestedMode, SetProxyGuardEnabled, ProxyDrift, vars,
        HandleMoves, NobodyTakes
  <1> QED
    BY <1>1, <1>2, <1>3, <1>4, <1>5 DEF Next

Held(k) ==
    \/ handle = k \/ sup.handle = k
    \/ \E c \in Calls : call[c].handle = k
    \/ \E g \in Gens : cleanup[g].handle = k

HandlesAreApart ==
    /\ handle # 0 =>
          /\ sup.handle # handle
          /\ \A c \in Calls : call[c].handle # handle
          /\ \A g \in Gens : cleanup[g].handle # handle
    /\ sup.handle # 0 =>
          /\ \A c \in Calls : call[c].handle # sup.handle
          /\ \A g \in Gens : cleanup[g].handle # sup.handle
    /\ \A c \in Calls : call[c].handle # 0 =>
          /\ \A d \in Calls : call[d].handle = call[c].handle => c = d
          /\ \A g \in Gens : cleanup[g].handle # call[c].handle
    /\ \A g, h \in Gens :
          cleanup[g].handle # 0 /\ cleanup[g].handle = cleanup[h].handle => g = h

NumbersAreUnused ==
    /\ \A c \in Calls : call[c].pc \in ConnectPcs => call[c].gen <= gen
    /\ \A c, d \in Calls :
          c # d /\ call[c].pc \in ConnectPcs /\ call[d].pc \in ConnectPcs
          => call[c].gen # call[d].gen
    /\ \A c \in Calls : call[c].pc \in EarlyPcs => ~Held(call[c].gen)
    /\ \A k \in Gens : Held(k) => k <= gen

OnceInv == TypeInv /\ HandlesAreApart /\ NumbersAreUnused

LEMMA HeldBefore ==
    ASSUME HandleMoves, NEW k \in Gens, Held(k)'
    PROVE  \/ Held(k)
           \/ \E c \in Calls : SpawnReturns(c) /\ call[c].gen = k
  BY GenFacts
  DEF HandleMoves, NobodyTakes, SupTakes, CallTakes, SpawnReturns, TaskTakes, CallsKeep,
      TasksKeep, SupKeeps, KeptOrDropped, Held

LEMMA ApartStep ==
    ASSUME OnceInv, HandleMoves
    PROVE  HandlesAreApart'
  <1> USE DEF OnceInv, CallsKeep, TasksKeep, SupKeeps, KeptOrDropped
  <1>1. CASE NobodyTakes
    BY <1>1 DEF NobodyTakes, HandlesAreApart
  <1>2. CASE SupTakes
    BY <1>2 DEF SupTakes, HandlesAreApart
  <1>3. ASSUME NEW c \in Calls, CallTakes(c)
        PROVE  HandlesAreApart'
    BY <1>3 DEF CallTakes, HandlesAreApart
  <1>4. ASSUME NEW g \in Gens, TaskTakes(g)
        PROVE  HandlesAreApart'
    BY <1>4 DEF TaskTakes, HandlesAreApart
  <1>5. ASSUME NEW c \in Calls, SpawnReturns(c)
        PROVE  HandlesAreApart'
    <2>1. ~Held(call[c].gen)
      BY <1>5 DEF SpawnReturns, NumbersAreUnused, EarlyPcs
    <2> QED
      BY <1>5, <2>1 DEF SpawnReturns, Held, HandlesAreApart
  <1> QED
    BY <1>1, <1>2, <1>3, <1>4, <1>5 DEF HandleMoves

LEMMA UnusedStep ==
    ASSUME OnceInv, Next, HandleMoves
    PROVE  NumbersAreUnused'
  <1> USE DEF OnceInv
  <1>t. /\ gen \in OptGen /\ handle \in OptGen /\ sup.handle \in OptGen
        /\ \A c \in Calls : call[c].gen \in OptGen /\ call[c].handle \in OptGen
        /\ \A g \in Gens : cleanup[g].handle \in OptGen
    BY DEF TypeInv, TypeOK, CallStates, SupStates, TaskStates
  <1>1. CASE UNCHANGED <<call, gen, config>>
    <2>1. \A k \in Gens : Held(k)' => Held(k)
      <3>1. \A c \in Calls : ~SpawnReturns(c)
        BY <1>1 DEF SpawnReturns
      <3> QED
        BY <3>1, HeldBefore
    <2>2. \A c \in Calls : call[c].pc \in EarlyPcs => call[c].gen \in Gens
      BY <1>t, GenFacts DEF TypeInv, ConnectsAreNumbered, ConnectPcs, EarlyPcs
    <2> QED
      BY <1>1, <2>1, <2>2 DEF NumbersAreUnused
  <1>2. ASSUME NEW c \in Calls, OtherCallsKept(c), BeginConnect(c)
        PROVE  NumbersAreUnused'
    <2>1. /\ gen' = gen + 1 /\ call'[c].gen = gen' /\ gen' \in Gens
          /\ call'[c].pc = "fetch"
      BY <1>2, <1>t, GenFacts DEF BeginConnect, TypeInv, TypeOK
    <2>2. \A g \in OptGen : g <= gen => g # gen' /\ g <= gen'
      BY <1>t, <2>1, NextNumber
    <2>3. \A k \in Gens : Held(k)' => Held(k)
      <3>1. \A d \in Calls : ~SpawnReturns(d)
        BY <1>2, <2>1 DEF SpawnReturns, OtherCallsKept
      <3> QED
        BY <3>1, HeldBefore
    <2>4. \A k \in Gens : Held(k)' => k <= gen /\ k <= gen' /\ k # gen'
      BY <2>2, <2>3, GenFacts DEF NumbersAreUnused
    <2>5. \A d \in Calls \ {c} : call'[d] = call[d]
      BY <1>2 DEF OtherCallsKept
    <2>6. \A d \in Calls \ {c} : call'[d].pc \in ConnectPcs =>
             call'[d].gen <= gen' /\ call'[d].gen # call'[c].gen
      BY <1>t, <2>1, <2>2, <2>5 DEF NumbersAreUnused
    <2>7. gen' <= gen'
      BY <2>1, ZeroIsLeast, GenFacts
    <2>8. \A d \in Calls : call'[d].pc \in EarlyPcs => ~Held(call[d].gen)'
      <3> SUFFICES ASSUME NEW d \in Calls, call'[d].pc \in EarlyPcs, Held(call[d].gen)'
                   PROVE  FALSE
        OBVIOUS
      <3>1. CASE d = c
        BY <2>1, <2>4, <3>1
      <3>2. CASE d # c
        <4>1. call'[d] = call[d] /\ call[d].gen \in Gens
          BY <1>t, <2>5, <3>2, GenFacts
          DEF TypeInv, ConnectsAreNumbered, ConnectPcs, EarlyPcs
        <4> QED
          BY <2>3, <4>1 DEF NumbersAreUnused
      <3> QED
        BY <3>1, <3>2
    <2>9. \A d, e \in Calls : d # e /\ call'[d].pc \in ConnectPcs /\ call'[e].pc \in ConnectPcs
             => call'[d].gen # call'[e].gen
      BY <2>5, <2>6 DEF NumbersAreUnused
    <2> QED
      BY <2>1, <2>4, <2>6, <2>7, <2>8, <2>9 DEF NumbersAreUnused
  <1>3. ASSUME NEW c \in Calls, OtherCallsKept(c), UNCHANGED gen,
               call'[c].pc \in ConnectPcs =>
                   call[c].pc \in ConnectPcs /\ call'[c].gen = call[c].gen,
               call'[c].pc \in EarlyPcs => call[c].pc \in EarlyPcs
        PROVE  NumbersAreUnused'
    <2>1. \A d \in Calls :
             /\ call'[d].pc \in ConnectPcs =>
                   call[d].pc \in ConnectPcs /\ call'[d].gen = call[d].gen
             /\ call'[d].pc \in EarlyPcs => call[d].pc \in EarlyPcs
      BY <1>3 DEF OtherCallsKept
    <2>2. \A d \in Calls : call[d].pc \in EarlyPcs =>
             call[d].gen \in Gens /\ call[d].pc \in ConnectPcs
      BY <1>t, GenFacts DEF TypeInv, ConnectsAreNumbered, ConnectPcs, EarlyPcs
    <2>3. \A d \in Calls : call'[d].pc \in EarlyPcs => ~Held(call[d].gen)'
      <3> SUFFICES ASSUME NEW d \in Calls, call'[d].pc \in EarlyPcs, Held(call[d].gen)'
                   PROVE  FALSE
        OBVIOUS
      <3>1. /\ call'[d].gen = call[d].gen /\ call[d].pc \in EarlyPcs
            /\ call[d].gen \in Gens /\ call[d].pc \in ConnectPcs
        BY <2>1, <2>2 DEF EarlyPcs, ConnectPcs
      <3>2. PICK e \in Calls : SpawnReturns(e) /\ call[e].gen = call[d].gen
        BY <3>1, HeldBefore DEF NumbersAreUnused
      <3>3. e = d
        BY <3>1, <3>2 DEF NumbersAreUnused, SpawnReturns, ConnectPcs
      <3> QED
        BY <3>2, <3>3 DEF SpawnReturns, EarlyPcs
    <2>4. \A k \in Gens : Held(k)' => k <= gen'
      BY <1>3, HeldBefore DEF NumbersAreUnused, SpawnReturns, ConnectPcs
    <2> QED
      BY <1>3, <2>1, <2>3, <2>4 DEF NumbersAreUnused
  <1> QED
    BY <1>1, <1>2, <1>3, CallSteps

LEMMA AtMostOne ==
    ASSUME NEW S, \A x, y \in S : x = y
    PROVE  Cardinality(S) \in {0, 1} /\ (S = {} => Cardinality(S) = 0)
  <1>1. CASE S = {}
    BY <1>1, FS_EmptySet
  <1>2. ASSUME NEW x \in S
        PROVE  Cardinality(S) = 1
    <2>1. S = {x}
      BY <1>2
    <2> QED
      BY <2>1, FS_Singleton
  <1> QED
    BY <1>1, <1>2

(* manager.rs, `handle.write().take()` everywhere: no kernel is stopped on  *)
(* behalf of two owners, however connects, disconnects, clean-ups and       *)
(* teardowns overlap.                                                       *)
THEOREM HandlesAreMoved == Spec => []HandleHeldOnce
  <1>1. Init => OnceInv
    BY InitTypeInv, GenFacts
    DEF Init, OnceInv, HandlesAreApart, NumbersAreUnused, Held, IdleCall, NoTask, NoSup,
        ConnectPcs, EarlyPcs
  <1>2. OnceInv /\ [Next]_vars => OnceInv'
    <2> SUFFICES ASSUME OnceInv, [Next]_vars PROVE OnceInv'
      OBVIOUS
    <2>1. TypeInv' /\ HandleMoves
      BY NextTypeInv, HandleSteps DEF OnceInv
    <2>2. CASE Next
      BY <2>1, <2>2, ApartStep, UnusedStep DEF OnceInv
    <2>3. CASE UNCHANGED vars
      BY <2>1, <2>3, ApartStep DEF vars, OnceInv, NumbersAreUnused, Held
    <2> QED
      BY <2>2, <2>3
  <1>3. OnceInv => HandleHeldOnce
    <2> SUFFICES ASSUME OnceInv, NEW k \in Gens
                 PROVE  Cardinality({c \in Calls : call[c].handle = k})
                        + Cardinality({g \in Gens : cleanup[g].handle = k})
                        + (IF handle = k THEN 1 ELSE 0) + (IF sup.handle = k THEN 1 ELSE 0) <= 1
      BY DEF HandleHeldOnce
    <2> DEFINE C == {c \in Calls : call[c].handle = k}
               G == {g \in Gens : cleanup[g].handle = k}
    <2>1. k # 0
      BY GenFacts
    <2>2. /\ \A x, y \in C : x = y
          /\ \A x, y \in G : x = y
          /\ C = {} \/ G = {}
          /\ handle = k \/ sup.handle = k => C = {} /\ G = {}
          /\ ~(handle = k /\ sup.handle = k)
      BY <2>1 DEF OnceInv, HandlesAreApart
    <2>3. /\ Cardinality(C) \in {0, 1} /\ (C = {} => Cardinality(C) = 0)
          /\ Cardinality(G) \in {0, 1} /\ (G = {} => Cardinality(G) = 0)
      BY <2>2, AtMostOne
    <2> HIDE DEF C, G
    <2>4. Cardinality(C) + Cardinality(G)
          + (IF handle = k THEN 1 ELSE 0) + (IF sup.handle = k THEN 1 ELSE 0) <= 1
      BY <2>2, <2>3
    <2> QED
      BY <2>4 DEF C, G
  <1> QED
    BY <1>1, <1>2, <1>3, PTL DEF Spec

-----------------------------------------------------------------------------
(***************************************************************************)
(* For a client that makes one call at a time, and with the guard switched *)
(* off, no resting state strands the OS proxy.  ProxyReleased alone is not *)
(* inductive: it says nothing of the states in which a call or a teardown  *)
(* is under way.  SerialInv says who holds the proxy in every state: only  *)
(* a connection whose supervisor still watches it.                         *)
(***************************************************************************)
OneCall == \A c, d \in Calls : call[c].pc # "idle" /\ call[d].pc # "idle" => c = d

CallsMatchState ==
    \A c \in Calls :
        /\ call[c].pc \in ConnectPcs => state.kind = "Connecting" /\ sup.pc = "none"
        /\ call[c].pc \in {"detach", "stop"} => sup.pc = "none"

SupervisorMatchesState ==
    sup.pc # "none" => state.kind = "Connected" /\ state.mode = sup.mode

ProxyIsHeld ==
    \/ osProxy \in {0} \cup clearFailed
    \/ state.kind = "Connected" /\ state.mode = "SystemProxy" /\ sup.pc = "watch"

Aligned == TypeInv /\ OneCall /\ CallsMatchState /\ SupervisorMatchesState

SerialInv == Aligned /\ GuardOff /\ ProxyIsHeld

AlignedStep ==
    /\ OneCall' /\ CallsMatchState' /\ SupervisorMatchesState'
    /\ GuardOff /\ ProxyIsHeld => ProxyIsHeld'

LEMMA SerialConnect ==
    ASSUME Client = "serial", Aligned, NEW c \in Calls, BeginConnect(c) \/ ConnectStep(c)
    PROVE  AlignedStep
  <1> USE DEF Aligned, AlignedStep, OneCall, CallsMatchState, SupervisorMatchesState,
              ProxyIsHeld,
              resources, proxyVars, guardVars, Publish, ConnectPcs,
              Connecting, Connected, Error
  <1>t. call \in [Calls -> CallStates] /\ call[c] \in CallStates
    BY DEF TypeInv, TypeOK
  <1>1. CASE BeginConnect(c)
    <2>1. /\ \A d \in Calls : call[d].pc = "idle"
          /\ state.kind \notin {"Connecting", "Connected"} /\ sup.pc = "none"
      BY <1>1 DEF BeginConnect, MayConnect, MayCall, NoCallInFlight
    <2> QED
      BY <1>1, <1>t, <2>1 DEF BeginConnect
  <1>2. CASE \/ Fetched(c) \/ Elevated(c) \/ ConfigWritten(c) \/ Spawned(c)
             \/ AttachedTun(c) \/ BeginRollback(c)
    <2>1. /\ call[c].pc \in ConnectPcs /\ call'[c].pc \in ConnectPcs
          /\ \A d \in Calls \ {c} : call'[d] = call[d]
      BY <1>2, <1>t
      DEF Fetched, Elevated, ConfigWritten, Spawned, AttachedTun, BeginRollback,
          Goto, CallStates
    <2>2. state' = state \/ state'.kind = "Connecting"
      BY <1>2
      DEF Fetched, Elevated, ConfigWritten, Spawned, AttachedTun, BeginRollback
    <2>3. UNCHANGED <<sup, osProxy, clearFailed>>
      BY <1>2
      DEF Fetched, Elevated, ConfigWritten, Spawned, AttachedTun, BeginRollback
    <2> QED
      BY <2>1, <2>2, <2>3
  <1>3. CASE FailEarly(c) \/ SpawnFailed(c) \/ Rollback(c)
    <2>1. /\ call[c].pc \in ConnectPcs /\ call'[c].pc = "idle"
          /\ \A d \in Calls \ {c} : call'[d] = call[d]
          /\ UNCHANGED <<sup, osProxy, clearFailed>>
      BY <1>3, <1>t DEF FailEarly, SpawnFailed, Rollback, Fail, Return, IdleCall
    <2> QED
      BY <2>1
  <1>4. CASE AttachedProxy(c) \/ RouteSettled(c)
    <2>1. /\ call[c].pc \in ConnectPcs /\ call'[c].pc = "idle"
          /\ \A d \in Calls \ {c} : call'[d] = call[d]
          /\ state' = Connected(call[c].mode, call[c].gen)
          /\ sup'.pc = "watch" /\ sup'.mode = call[c].mode
          /\ UNCHANGED clearFailed
          /\ UNCHANGED osProxy \/ call[c].mode = "SystemProxy"
      <3>1. Establish(c) /\ call[c].pc \in ConnectPcs /\ UNCHANGED clearFailed
        BY <1>4 DEF AttachedProxy, RouteSettled
      <3>2. UNCHANGED osProxy \/ call[c].mode = "SystemProxy"
        BY <1>4 DEF AttachedProxy, RouteSettled
      <3>3. sup'.pc = "watch" /\ sup'.mode = call[c].mode
        BY <3>1 DEF Establish, NoSup
      <3> QED
        BY <1>t, <3>1, <3>2, <3>3 DEF Establish, Return, IdleCall
    <2> QED
      BY <2>1
  <1> QED
    BY <1>1, <1>2, <1>3, <1>4 DEF ConnectStep

LEMMA SerialDisconnect ==
    ASSUME Client = "serial", Aligned, NEW c \in Calls,
           BeginDisconnect(c) \/ DisconnectStep(c)
    PROVE  AlignedStep
  <1> USE DEF Aligned, AlignedStep, OneCall, CallsMatchState, SupervisorMatchesState,
              ProxyIsHeld,
              resources, proxyVars, guardVars, ConnectPcs
  <1>t. call \in [Calls -> CallStates] /\ call[c] \in CallStates
    BY DEF TypeInv, TypeOK
  <1>1. CASE BeginDisconnect(c)
    <2>1. /\ \A d \in Calls : call[d].pc = "idle"
          /\ call'[c].pc = "detach"
          /\ \A d \in Calls \ {c} : call'[d] = call[d]
          /\ sup'.pc = "none"
      BY <1>1, <1>t DEF BeginDisconnect, MayCall, NoCallInFlight, IdleCall, NoSup
    <2>2. ProxyIsHeld => osProxy' \in {0} \cup clearFailed'
      BY <1>1, GenFacts
      DEF BeginDisconnect, ClearProxyIf, ClearProxy, TypeInv, TypeOK
    <2> QED
      BY <2>1, <2>2
  <1>2. CASE DisconnectStep(c)
    <2>1. /\ call[c].pc \in {"detach", "stop"} /\ call'[c].pc \in {"stop", "idle"}
          /\ \A d \in Calls \ {c} : call'[d] = call[d]
      <3>1. CASE Detach(c)
        BY <1>t, <3>1 DEF Detach, Return, IdleCall, CallStates
      <3>2. CASE Stopped(c) \/ StopFailed(c)
        BY <1>t, <3>2 DEF Stopped, StopFailed, Return, IdleCall
      <3> QED
        BY <1>2, <3>1, <3>2 DEF DisconnectStep
    <2>2. sup.pc = "none" /\ UNCHANGED <<sup, osProxy, clearFailed>>
      BY <1>2, <2>1 DEF DisconnectStep, Detach, Stopped, StopFailed
    <2> QED
      BY <2>1, <2>2
  <1> QED
    BY <1>1, <1>2

LEMMA SerialBackground ==
    ASSUME Aligned, NEW g \in Gens,
           CleanupDriver(g) \/ CleanupStop(g) \/ GuardAssert(g) \/ KernelExit(g)
    PROVE  AlignedStep
  <1> USE DEF Aligned, AlignedStep, OneCall, CallsMatchState, SupervisorMatchesState,
              ProxyIsHeld,
              resources, proxyVars, guardVars
  <1>1. CASE CleanupDriver(g) \/ CleanupStop(g)
    BY <1>1 DEF CleanupDriver, CleanupStop
  <1>2. CASE GuardAssert(g)
    BY <1>2 DEF GuardAssert, GuardOff
  <1>3. CASE KernelExit(g)
    <2>1. /\ sup'.pc = sup.pc /\ sup'.mode = sup.mode
          /\ UNCHANGED <<call, state, osProxy, clearFailed>>
      BY <1>3 DEF KernelExit, TypeInv, TypeOK, SupStates
    <2> QED
      BY <2>1
  <1> QED
    BY <1>1, <1>2, <1>3

LEMMA SerialSupervisor ==
    ASSUME Aligned, Supervisor
    PROVE  AlignedStep
  <1> USE DEF Aligned, AlignedStep, OneCall, CallsMatchState, SupervisorMatchesState,
              ProxyIsHeld,
              resources, proxyVars, guardVars, Publish, ConnectPcs, Error
  <1>t. sup \in SupStates
    BY DEF TypeInv, TypeOK
  <1>1. CASE HeartbeatOk \/ HeartbeatMiss
    <2>1. /\ sup'.pc = sup.pc /\ sup'.mode = sup.mode
          /\ UNCHANGED <<call, state, osProxy, clearFailed>>
      BY <1>1, <1>t DEF HeartbeatOk, HeartbeatMiss, SupStates
    <2> QED
      BY <2>1
  <1>2. ASSUME Teardown, sup.pc = "watch"
        PROVE  AlignedStep
    <2>1. ProxyIsHeld => osProxy' \in {0} \cup clearFailed'
      BY <1>2 DEF Teardown, ClearProxyIf, ClearProxy
    <2>2. \/ sup'.pc = "stopping" /\ sup'.mode = sup.mode /\ UNCHANGED state
          \/ sup'.pc = "none"
      <3>1. CASE handle # 0 /\ Launcher = "remote"
        BY <1>2, <1>t, <3>1 DEF Teardown, SupStates
      <3>2. CASE ~(handle # 0 /\ Launcher = "remote")
        BY <1>2, <3>2 DEF Teardown, NoSup
      <3> QED
        BY <3>1, <3>2
    <2>3. UNCHANGED call /\ \A c \in Calls : call[c].pc \notin ConnectPcs \cup {"detach", "stop"}
      BY <1>2 DEF Teardown
    <2> QED
      BY <1>2, <2>1, <2>2, <2>3
  <1>3. CASE TeardownStopped
    <2>1. /\ sup.pc = "stopping" /\ sup'.pc = "none"
          /\ UNCHANGED <<call, osProxy, clearFailed>>
      BY <1>3 DEF TeardownStopped, NoSup
    <2>2. \A c \in Calls : call[c].pc \notin ConnectPcs \cup {"detach", "stop"}
      BY <2>1
    <2> QED
      BY <2>1, <2>2
  <1> QED
    BY <1>1, <1>2, <1>3
    DEF Supervisor, Heartbeat, HeartbeatTerminal, FailureReceived

LEMMA AlignedNext ==
    ASSUME Client = "serial", Aligned, [Next]_vars
    PROVE  AlignedStep
  <1>1. CASE GuardDrift \/ GuardQuit \/ SetRequestedMode \/ SetProxyGuardEnabled
             \/ ProxyDrift \/ UNCHANGED vars
    BY <1>1
    DEF Aligned, AlignedStep, OneCall, CallsMatchState, SupervisorMatchesState, ProxyIsHeld,
        GuardDrift, GuardQuit, SetRequestedMode, SetProxyGuardEnabled, ProxyDrift,
        vars, proxyVars
  <1> QED
    BY <1>1, SerialConnect, SerialDisconnect, SerialBackground, SerialSupervisor DEF Next

LEMMA InitAligned == Init => Aligned
  BY InitTypeInv
  DEF Init, Aligned, OneCall, CallsMatchState, SupervisorMatchesState, ConnectPcs,
      IdleCall, NoSup

(* manager.rs, disconnect and teardown_after_failure: neither a failed      *)
(* connect, nor a disconnect, nor a crash leaves the OS proxy on our port,  *)
(* unless the OS refused to clear it.                                       *)
THEOREM ProxyIsReleased ==
    ASSUME Client = "serial", GuardSettings = {FALSE}
    PROVE  Spec => []ProxyReleased
  <1>1. Init => SerialInv
    BY InitAligned DEF Init, SerialInv, GuardOff, ProxyIsHeld
  <1>2. SerialInv /\ [Next]_vars => SerialInv'
    <2> SUFFICES ASSUME SerialInv, [Next]_vars PROVE SerialInv'
      OBVIOUS
    <2>1. TypeInv' /\ GuardOff'
      BY NextTypeInv, GuardOffStep DEF SerialInv, Aligned, TypeInv
    <2> QED
      BY <2>1, AlignedNext DEF SerialInv, Aligned, AlignedStep
  <1>3. SerialInv => ProxyReleased
    BY DEF SerialInv, Aligned, ProxyIsHeld, CallsMatchState, SupervisorMatchesState,
           ProxyReleased
  <1> QED
    BY <1>1, <1>2, <1>3, PTL DEF Spec

-----------------------------------------------------------------------------
(***************************************************************************)
(* For the same client, over either launcher, and whatever the guard does: *)
(* the handle the manager keeps is the kernel the launcher would stop.     *)
(* What makes that inductive is that no clean-up is ever left with a       *)
(* handle, that a teardown which waits for its stop has taken it, and that *)
(* the number, the port and the secret a supervisor takes are those of the *)
(* connect that starts it.  Over a launcher that owns the process nothing  *)
(* else runs: a kernel alive, or in the launcher's slot (a stop names no   *)
(* kernel, it ends the current one), is the one of that handle or of the   *)
(* call that took it.  A remote launcher does not promise that: a start    *)
(* that timed out leaves a kernel without a handle.                        *)
(***************************************************************************)
HandleIsCurrent ==
    /\ handle # 0 =>
          /\ current = handle
          /\ \/ state.kind = "Connected"
             \/ \E c \in Calls : call[c].pc \in {"attach", "settle", "detach"}
    /\ \A c \in Calls : call[c].pc = "stop" => handle = 0
    /\ \A c \in Calls : call[c].handle # 0 =>
          call[c].handle = current /\ handle = 0 /\ call[c].pc \in {"rollback", "stop"}

NothingElseHolds ==
    /\ \A g \in Gens : cleanup[g].handle = 0 /\ cleanup[g].pc # "stop"
    /\ sup.pc = "stopping" => handle = 0 /\ Launcher = "remote"

NothingElseRuns ==
    Launcher = "direct" =>
        /\ \A k \in running : k = handle \/ \E c \in Calls : call[c].handle = k
        /\ current # 0 => current = handle \/ \E c \in Calls : call[c].handle = current

ConnectIsLatest ==
    \A c \in Calls :
        /\ call[c].pc \in ConnectPcs => call[c].gen = gen
        /\ call[c].pc \in {"attach", "settle"} => handle = call[c].gen
        /\ call[c].pc = "settle" => secret = call[c].gen /\ call[c].mode = "Tun"

ConnectionIsWhole ==
    state.kind = "Connected" /\ NoCallInFlight =>
        /\ sup.pc # "none"
        /\ sup.pc = "watch" => /\ handle # 0 /\ handle = state.port
                               /\ sup.addr = handle /\ sup.secret = handle
        /\ state.mode = "SystemProxy" => guard = state.port

Owning == /\ HandleIsCurrent /\ NothingElseHolds /\ NothingElseRuns
          /\ ConnectIsLatest /\ ConnectionIsWhole

\* A call under way is the only one, and a connect the only actor.
LEMMA OnlyOne ==
    ASSUME Aligned, Owning, NEW c \in Calls, call[c].pc # "idle"
    PROVE  /\ \A d \in Calls \ {c} : call[d].pc = "idle" /\ call[d].handle = 0
           /\ call[c].pc \in ConnectPcs => state.kind = "Connecting" /\ sup.pc = "none"
           /\ call[c].pc \notin {"rollback", "stop"} => call[c].handle = 0
           /\ call[c].pc \in {"fetch", "elevate", "write", "spawn", "rollback"} => handle = 0
  BY DEF Aligned, OneCall, CallsMatchState, Owning, HandleIsCurrent, ConnectPcs

LEMMA OwnConnect ==
    ASSUME Client = "serial", Aligned, Owning, NEW c \in Calls,
           BeginConnect(c) \/ ConnectStep(c)
    PROVE  Owning'
  <1> USE GenFacts DEF resources, proxyVars, guardVars, Publish
  <1>t. /\ call \in [Calls -> CallStates] /\ call[c] \in CallStates
        /\ cleanup \in [Gens -> TaskStates] /\ running \subseteq Gens
    BY DEF Aligned, TypeInv, TypeOK
  <1>1. CASE BeginConnect(c)
    <2>1. /\ \A d \in Calls : call[d].pc = "idle" /\ call[d].handle = 0
          /\ handle = 0 /\ (Launcher = "direct" => running = {})
      BY <1>1, <1>t DEF BeginConnect, MayConnect, MayCall, NoCallInFlight, Owning,
                        HandleIsCurrent,
                        NothingElseRuns
    <2>2. /\ call'[c].pc = "fetch" /\ call'[c].gen = gen' /\ call'[c].handle = 0
          /\ \A d \in Calls \ {c} : call'[d] = call[d]
          /\ state'.kind = "Connecting"
          /\ UNCHANGED <<handle, running, current, cleanup, sup>>
      BY <1>1, <1>t DEF BeginConnect, Connecting
    <2> QED
      BY <2>1, <2>2
      DEF Owning, HandleIsCurrent, NothingElseHolds, NothingElseRuns, ConnectIsLatest,
          ConnectionIsWhole, ConnectPcs
  <1>2. CASE Fetched(c) \/ Elevated(c) \/ ConfigWritten(c)
    <2>1. /\ call[c].pc \in {"fetch", "elevate", "write"}
          /\ call'[c].pc \in {"elevate", "write", "spawn"}
          /\ call'[c].gen = call[c].gen /\ call'[c].handle = call[c].handle
          /\ \A d \in Calls \ {c} : call'[d] = call[d]
          /\ state'.kind = "Connecting"
      BY <1>2, <1>t DEF Fetched, Elevated, ConfigWritten, Goto, Connecting, CallStates
    <2>2. UNCHANGED <<gen, handle, running, current, cleanup, sup>>
      BY <1>2 DEF Fetched, Elevated, ConfigWritten
    <2>3. Launcher = "direct" => running = {}
      BY <2>1, OnlyOne, <1>t DEF Owning, NothingElseRuns
    <2> QED
      BY <2>1, <2>2, <2>3, OnlyOne
      DEF Owning, HandleIsCurrent, NothingElseHolds, NothingElseRuns, ConnectIsLatest,
          ConnectionIsWhole, ConnectPcs
  <1>3. CASE FailEarly(c) \/ SpawnFailed(c)
    <2>1. /\ call[c].pc \in {"fetch", "elevate", "write", "spawn"} /\ Fail(c)
          /\ UNCHANGED <<gen, sup>> /\ (Launcher = "direct" => UNCHANGED <<running, current>>)
      BY <1>3 DEF FailEarly, SpawnFailed
    <2>2. /\ call'[c] = IdleCall /\ \A d \in Calls \ {c} : call'[d] = call[d]
          /\ state'.kind = "Error" /\ handle = 0 /\ handle' = 0
      BY <2>1, <1>t, OnlyOne DEF Fail, Return, Error
    <2>3. \A g \in Gens : cleanup'[g] = cleanup[g] \/ cleanup'[g] = [pc |-> "driver", handle |-> 0]
      BY <2>1, <2>2, <1>t DEF Fail
    <2>4. Launcher = "direct" => running = {}
      BY <2>1, OnlyOne, <1>t DEF Owning, NothingElseRuns
    <2> QED
      BY <2>1, <2>2, <2>3, <2>4, OnlyOne
      DEF Owning, HandleIsCurrent, NothingElseHolds, NothingElseRuns, ConnectIsLatest,
          ConnectionIsWhole, ConnectPcs, IdleCall
  <1>4. CASE Spawned(c)
    <2>1. call[c].pc = "spawn" /\ handle = 0 /\ (Launcher = "direct" => running = {})
      BY <1>4, OnlyOne, <1>t DEF Spawned, Owning, NothingElseRuns
    <2>2. /\ call'[c].pc = "attach" /\ call'[c].gen = call[c].gen /\ call'[c].handle = 0
          /\ \A d \in Calls \ {c} : call'[d] = call[d]
          /\ handle' = call[c].gen /\ current' = call[c].gen
          /\ Launcher = "direct" => running' = {call[c].gen}
          /\ UNCHANGED <<state, gen, cleanup, sup>>
      BY <1>4, <1>t, <2>1, OnlyOne DEF Spawned, Goto, CallStates
    <2> QED
      BY <2>1, <2>2, OnlyOne
      DEF Owning, HandleIsCurrent, NothingElseHolds, NothingElseRuns, ConnectIsLatest,
          ConnectionIsWhole, ConnectPcs
  <1>5. CASE AttachedTun(c)
    <2>1. /\ call[c].pc = "attach" /\ call'[c].pc = "settle"
          /\ call'[c].gen = call[c].gen /\ call'[c].handle = call[c].handle
          /\ call'[c].mode = "Tun" /\ secret' = call[c].gen
          /\ \A d \in Calls \ {c} : call'[d] = call[d]
          /\ state'.kind = "Connecting"
          /\ UNCHANGED <<gen, handle, running, current, cleanup, sup>>
      BY <1>5, <1>t DEF AttachedTun, Goto, Connecting, CallStates
    <2> QED
      BY <2>1, OnlyOne
      DEF Owning, HandleIsCurrent, NothingElseHolds, NothingElseRuns, ConnectIsLatest,
          ConnectionIsWhole, ConnectPcs
  <1>6. CASE AttachedProxy(c) \/ RouteSettled(c)
    <2>1. /\ call[c].pc \in {"attach", "settle"} /\ Establish(c)
          /\ secret' = call[c].gen
          /\ call[c].mode = "SystemProxy" => guard' = call[c].gen
          /\ UNCHANGED <<gen, handle, cleanup>>
      BY <1>6 DEF AttachedProxy, RouteSettled, Owning, ConnectIsLatest
    <2>2. /\ call'[c] = IdleCall /\ \A d \in Calls \ {c} : call'[d] = call[d]
          /\ UNCHANGED <<running, current>>
          /\ state' = Connected(call[c].mode, call[c].gen)
      BY <2>1, <1>t, OnlyOne DEF Establish, Return, AbortSupervisor, ConnectPcs
    <2>3. /\ sup'.pc = "watch" /\ sup'.addr = gen /\ sup'.secret = call[c].gen
          /\ sup'.handle = 0
      BY <2>1 DEF Establish, NoSup
    <2>4. call[c].gen = gen /\ handle = gen /\ gen # 0 /\ call[c].handle = 0
      BY <2>1, OnlyOne
      DEF Owning, ConnectIsLatest, Aligned, TypeInv, ConnectsAreNumbered, ConnectPcs
    <2>5. /\ state'.kind = "Connected" /\ state'.port = gen /\ state'.mode = call[c].mode
      BY <2>2, <2>4 DEF Connected
    <2>6. HandleIsCurrent' /\ NothingElseHolds' /\ NothingElseRuns'
      BY <2>1, <2>2, <2>3, <2>4, <2>5, OnlyOne
      DEF Owning, HandleIsCurrent, NothingElseHolds, NothingElseRuns, IdleCall
    <2>7. ConnectIsLatest' /\ ConnectionIsWhole'
      BY <2>1, <2>2, <2>3, <2>4, <2>5, OnlyOne
      DEF Owning, ConnectIsLatest, ConnectionIsWhole, IdleCall, ConnectPcs
    <2> QED
      BY <2>6, <2>7 DEF Owning
  <1>7. CASE BeginRollback(c)
    <2>1. /\ call[c].pc = "attach" /\ call'[c].pc = "rollback"
          /\ call'[c].gen = call[c].gen /\ call'[c].handle = handle
          /\ \A d \in Calls \ {c} : call'[d] = call[d]
          /\ handle' = 0 /\ UNCHANGED <<state, gen, running, current, cleanup, sup>>
      BY <1>7, <1>t DEF BeginRollback, CallStates
    <2> QED
      BY <2>1, OnlyOne
      DEF Owning, HandleIsCurrent, NothingElseHolds, NothingElseRuns, ConnectIsLatest,
          ConnectionIsWhole, ConnectPcs
  <1>8. CASE Rollback(c)
    <2>1. /\ call[c].pc = "rollback" /\ Fail(c) /\ UNCHANGED <<gen, sup>>
          /\ running' \subseteq running
          /\ Launcher = "direct" =>
                IF call[c].handle # 0 THEN current \notin running' /\ current' = 0
                                      ELSE UNCHANGED current
      BY <1>8 DEF Rollback, StopIgnored, StopErr, StopOk
    <2>2. /\ call'[c] = IdleCall /\ \A d \in Calls \ {c} : call'[d] = call[d]
          /\ state'.kind = "Error" /\ handle = 0 /\ handle' = 0
      BY <2>1, <1>t, OnlyOne DEF Fail, Return, Error
    <2>3. \A g \in Gens : cleanup'[g] = cleanup[g] \/ cleanup'[g] = [pc |-> "driver", handle |-> 0]
      BY <2>1, <2>2, <1>t DEF Fail
    <2>4. Launcher = "direct" => running' = {} /\ current' = 0
      BY <2>1, <2>2, OnlyOne, <1>t DEF Owning, HandleIsCurrent, NothingElseRuns
    <2> QED
      BY <2>1, <2>2, <2>3, <2>4, OnlyOne
      DEF Owning, HandleIsCurrent, NothingElseHolds, NothingElseRuns, ConnectIsLatest,
          ConnectionIsWhole, ConnectPcs, IdleCall
  <1> QED
    BY <1>1, <1>2, <1>3, <1>4, <1>5, <1>6, <1>7, <1>8 DEF ConnectStep

LEMMA OwnDisconnect ==
    ASSUME Client = "serial", Aligned, Owning, NEW c \in Calls,
           BeginDisconnect(c) \/ DisconnectStep(c)
    PROVE  Owning'
  <1> USE GenFacts DEF resources, proxyVars, guardVars, Publish
  <1>t. call \in [Calls -> CallStates] /\ call[c] \in CallStates /\ running \subseteq Gens
    BY DEF Aligned, TypeInv, TypeOK
  <1>1. CASE BeginDisconnect(c)
    <2>1. /\ \A d \in Calls : call[d].pc = "idle" /\ call[d].handle = 0
      BY <1>1, <1>t DEF BeginDisconnect, MayCall, NoCallInFlight, Owning, HandleIsCurrent
    <2>2. /\ call'[c].pc = "detach" /\ call'[c].handle = 0
          /\ \A d \in Calls \ {c} : call'[d] = call[d]
          /\ sup'.pc = "none" /\ UNCHANGED <<state, gen, handle, cleanup>>
      BY <1>1, <1>t DEF BeginDisconnect, IdleCall, NoSup
    <2>3. handle # 0 \/ Launcher = "direct" => UNCHANGED <<running, current>>
      BY <1>1 DEF BeginDisconnect, AbortSupervisor, Owning, NothingElseHolds
    <2> QED
      BY <2>1, <2>2, <2>3
      DEF Owning, HandleIsCurrent, NothingElseHolds, NothingElseRuns, ConnectIsLatest,
          ConnectionIsWhole, NoCallInFlight, ConnectPcs
  <1>2. CASE Detach(c)
    <2>1. call[c].pc = "detach" /\ handle' = 0 /\ UNCHANGED <<gen, running, current, cleanup, sup>>
      BY <1>2 DEF Detach
    <2>2. CASE handle # 0
      <3>1. /\ call'[c].pc = "stop" /\ call'[c].handle = handle
            /\ \A d \in Calls \ {c} : call'[d] = call[d]
        BY <1>2, <1>t, <2>2 DEF Detach, CallStates
      <3> QED
        BY <2>1, <2>2, <3>1, OnlyOne
        DEF Owning, HandleIsCurrent, NothingElseHolds, NothingElseRuns, ConnectIsLatest,
            ConnectionIsWhole,
            NoCallInFlight, ConnectPcs
    <2>3. CASE handle = 0
      <3>1. /\ call'[c] = IdleCall /\ \A d \in Calls \ {c} : call'[d] = call[d]
            /\ state'.kind = "Disconnected"
        BY <1>2, <1>t, <2>3 DEF Detach, Return, Disconnected
      <3> QED
        BY <2>1, <2>3, <3>1, OnlyOne
        DEF Owning, HandleIsCurrent, NothingElseHolds, NothingElseRuns, ConnectIsLatest,
            ConnectionIsWhole,
            IdleCall, ConnectPcs
    <2> QED
      BY <2>2, <2>3
  <1>3. CASE Stopped(c) \/ StopFailed(c)
    <2>1. /\ call[c].pc = "stop" /\ (Launcher = "direct" => StopOk)
          /\ UNCHANGED <<gen, handle, cleanup, sup>>
          /\ state'.kind \in {"Disconnected", "Error"}
          /\ call'[c] = IdleCall /\ \A d \in Calls \ {c} : call'[d] = call[d]
      BY <1>3, <1>t DEF Stopped, StopFailed, StopErr, Return, Disconnected, Error
    <2>2. handle' = 0 /\ (Launcher = "direct" => running' = {} /\ current' = 0)
      BY <2>1, <1>t, OnlyOne DEF StopOk, Owning, HandleIsCurrent, NothingElseRuns
    <2> QED
      BY <2>1, <2>2, OnlyOne
      DEF Owning, HandleIsCurrent, NothingElseHolds, NothingElseRuns, ConnectIsLatest,
          ConnectionIsWhole,
          IdleCall, ConnectPcs
  <1> QED
    BY <1>1, <1>2, <1>3 DEF DisconnectStep

LEMMA OwnBackground ==
    ASSUME Aligned, Owning, NEW g \in Gens,
           CleanupDriver(g) \/ CleanupStop(g) \/ GuardAssert(g) \/ KernelExit(g)
    PROVE  Owning'
  <1> USE GenFacts DEF resources, proxyVars, guardVars
  <1>t. cleanup \in [Gens -> TaskStates] /\ sup \in SupStates
    BY DEF Aligned, TypeInv, TypeOK
  <1>1. CASE CleanupDriver(g)
    <2>1. /\ \A h \in Gens : cleanup'[h] = cleanup[h] \/ cleanup'[h] = NoTask
          /\ UNCHANGED <<state, gen, handle, secret, running, current, guard, sup, call>>
      BY <1>1, <1>t DEF CleanupDriver, Owning, NothingElseHolds
    <2> QED
      BY <2>1
      DEF Owning, HandleIsCurrent, NothingElseHolds, NothingElseRuns, ConnectIsLatest,
          ConnectionIsWhole,
          NoCallInFlight, NoTask
  <1>2. CASE CleanupStop(g)
    BY <1>2 DEF CleanupStop, Owning, NothingElseHolds
  <1>3. CASE GuardAssert(g)
    BY <1>3
    DEF GuardAssert, Owning, HandleIsCurrent, NothingElseHolds, NothingElseRuns,
        ConnectIsLatest,
        ConnectionIsWhole, NoCallInFlight
  <1>4. CASE KernelExit(g)
    <2>1. /\ running' \subseteq running
          /\ sup'.pc = sup.pc /\ sup'.addr = sup.addr /\ sup'.secret = sup.secret
          /\ sup'.handle = sup.handle
          /\ UNCHANGED <<state, gen, handle, secret, current, guard, call, cleanup>>
      BY <1>4, <1>t DEF KernelExit, SupStates
    <2> QED
      BY <2>1
      DEF Owning, HandleIsCurrent, NothingElseHolds, NothingElseRuns, ConnectIsLatest,
          ConnectionIsWhole,
          NoCallInFlight
  <1> QED
    BY <1>1, <1>2, <1>3, <1>4

LEMMA OwnSupervisor ==
    ASSUME Aligned, Owning, Supervisor
    PROVE  Owning'
  <1> USE GenFacts DEF resources, proxyVars, guardVars, Publish
  <1>t. sup \in SupStates
    BY DEF Aligned, TypeInv, TypeOK
  <1>1. CASE HeartbeatOk \/ HeartbeatMiss
    <2>1. /\ sup'.pc = sup.pc /\ sup'.addr = sup.addr /\ sup'.secret = sup.secret
          /\ sup'.handle = sup.handle
          /\ UNCHANGED <<state, gen, handle, secret, running, current, guard, call, cleanup>>
      BY <1>1, <1>t DEF HeartbeatOk, HeartbeatMiss, SupStates
    <2> QED
      BY <2>1
      DEF Owning, HandleIsCurrent, NothingElseHolds, NothingElseRuns, ConnectIsLatest,
          ConnectionIsWhole,
          NoCallInFlight
  <1>2. ASSUME sup.pc # "none"
        PROVE  \A c \in Calls : call[c].pc = "idle" /\ call[c].handle = 0
    BY <1>2, <1>t DEF Aligned, CallsMatchState, Owning, HandleIsCurrent, TypeInv, TypeOK,
                      CallStates, CallPcs, ConnectPcs
  <1>3. ASSUME Teardown, sup.pc = "watch"
        PROVE  Owning'
    <2>1. \A c \in Calls : call[c].pc = "idle" /\ call[c].handle = 0
      BY <1>2, <1>3
    <2>2. CASE handle # 0 /\ Launcher = "remote"
      <3>1. /\ handle' = 0 /\ sup'.pc = "stopping"
            /\ UNCHANGED <<state, gen, guard, call, cleanup>>
        BY <1>3, <1>t, <2>2 DEF Teardown, SupStates
      <3> QED
        BY <2>1, <2>2, <3>1
        DEF Owning, HandleIsCurrent, NothingElseHolds, NothingElseRuns, ConnectIsLatest,
            ConnectionIsWhole, NoCallInFlight, ConnectPcs
    <2>3. CASE ~(handle # 0 /\ Launcher = "remote")
      <3>1. /\ handle' = 0 /\ state'.kind = "Error" /\ sup' = NoSup
            /\ running' \subseteq running
            /\ IF handle # 0 THEN current \notin running' /\ current' = 0 ELSE UNCHANGED current
            /\ UNCHANGED <<gen, call, cleanup>>
        BY <1>3, <2>3 DEF Teardown, StopOk, Error
      <3>2. Launcher = "direct" => running' = {} /\ current' = 0
        BY <2>1, <3>1 DEF Owning, HandleIsCurrent, NothingElseRuns, Aligned, TypeInv, TypeOK
      <3> QED
        BY <2>1, <3>1, <3>2
        DEF Owning, HandleIsCurrent, NothingElseHolds, NothingElseRuns, ConnectIsLatest,
            ConnectionIsWhole, NoSup, ConnectPcs
    <2> QED
      BY <2>2, <2>3
  <1>4. CASE TeardownStopped
    <2>1. /\ Launcher = "remote" /\ handle = 0
          /\ \A c \in Calls : call[c].pc = "idle" /\ call[c].handle = 0
      BY <1>2, <1>4 DEF TeardownStopped, Owning, NothingElseHolds
    <2>2. /\ state'.kind = "Error" /\ sup'.pc = "none" /\ UNCHANGED <<gen, handle, call, cleanup>>
      BY <1>4 DEF TeardownStopped, Error, NoSup
    <2> QED
      BY <2>1, <2>2
      DEF Owning, HandleIsCurrent, NothingElseHolds, NothingElseRuns, ConnectIsLatest,
          ConnectionIsWhole, ConnectPcs
  <1> QED
    BY <1>1, <1>3, <1>4
    DEF Supervisor, Heartbeat, HeartbeatTerminal, FailureReceived

LEMMA OwnNext ==
    ASSUME Client = "serial", Aligned, Owning, [Next]_vars
    PROVE  Owning'
  <1> USE DEF resources, proxyVars, guardVars
  <1>1. CASE GuardDrift \/ SetRequestedMode \/ SetProxyGuardEnabled \/ ProxyDrift
             \/ UNCHANGED vars
    <2>1. UNCHANGED <<state, gen, handle, secret, running, current, guard, sup, call, cleanup>>
      BY <1>1 DEF GuardDrift, SetRequestedMode, SetProxyGuardEnabled, ProxyDrift, vars
    <2> QED
      BY <2>1
      DEF Owning, HandleIsCurrent, NothingElseHolds, NothingElseRuns, ConnectIsLatest,
          ConnectionIsWhole,
          NoCallInFlight
  <1>2. CASE GuardQuit
    <2>1. /\ ~Guarding
          /\ UNCHANGED <<state, gen, handle, secret, running, current, sup, call, cleanup>>
      BY <1>2 DEF GuardQuit
    <2> QED
      BY <2>1
      DEF Guarding, Owning, HandleIsCurrent, NothingElseHolds, NothingElseRuns, ConnectIsLatest,
          ConnectionIsWhole, NoCallInFlight
  <1> QED
    BY <1>1, <1>2, OwnConnect, OwnDisconnect, OwnBackground, OwnSupervisor DEF Next

LEMMA OwningHolds ==
    ASSUME Client = "serial"
    PROVE  Spec => [](Aligned /\ Owning)
  <1>1. Init => Aligned /\ Owning
    BY InitAligned
    DEF Init, Owning, HandleIsCurrent, NothingElseHolds, NothingElseRuns, ConnectIsLatest,
        ConnectionIsWhole, IdleCall, NoTask, NoSup, ConnectPcs, Disconnected
  <1>2. Aligned /\ Owning /\ [Next]_vars => (Aligned /\ Owning)'
    BY AlignedNext, OwnNext, NextTypeInv DEF Aligned, AlignedStep
  <1> QED
    BY <1>1, <1>2, PTL DEF Spec

(* manager.rs: a handle is stored over no other, taken by one, and every    *)
(* way out of a connect or a connection stops the kernel it was returned    *)
(* for.                                                                     *)
THEOREM KernelIsOwned ==
    ASSUME Client = "serial", Launcher = "direct"
    PROVE  Spec => []KernelHasOwner
  <1>1. Owning => KernelHasOwner
    BY DEF Owning, NothingElseRuns, KernelHasOwner
  <1> QED
    BY <1>1, OwningHolds, PTL

(* manager.rs, start_supervisor and start_sysproxy_guard: while the user    *)
(* sees Connected the supervisor probes the kernel the manager would stop,  *)
(* with its secret, and the guard protects its port; a daemon's lost        *)
(* answers make no difference to that.                                      *)
THEOREM ConnectionIsKept ==
    ASSUME Client = "serial"
    PROVE  Spec => []ConnectedIsKept
  <1>1. Aligned /\ Owning => ConnectedIsKept
    BY DEF Aligned, SupervisorMatchesState, Owning, HandleIsCurrent, ConnectionIsWhole,
           ConnectedIsKept, ConnectedIsSupervised, ConnectedIsGuarded
  <1> QED
    BY <1>1, OwningHolds, PTL

(* launcher.rs, stop and spawn: whatever lives is in the slot of the        *)
(* launcher, so the next stop or start ends it, even what a start that      *)
(* timed out left without a handle.  A daemon sees to it by itself; the     *)
(* launcher that owns its process needs a client with one call at a time.   *)
THEOREM NextStopEndsIt ==
    ASSUME Launcher = "remote" \/ Client = "serial"
    PROVE  Spec => [](running \subseteq {current})
  <1>1. CASE Launcher = "remote"
    <2>1. Init => running \subseteq {current}
      BY DEF Init
    <2>2. running \subseteq {current} /\ [Next]_vars => (running \subseteq {current})'
      <3> SUFFICES ASSUME running \subseteq {current}, [Next]_vars
                   PROVE  running' \subseteq {current'}
        OBVIOUS
      <3>1. \/ UNCHANGED <<running, current>> \/ StopOk
            \/ running' \subseteq (running \ {current}) \cup {current'}
            \/ running' \subseteq running /\ UNCHANGED current
        <4> DEFINE Moved == \/ UNCHANGED <<running, current>> \/ StopOk
                            \/ running' \subseteq (running \ {current}) \cup {current'}
                            \/ running' \subseteq running /\ UNCHANGED current
        <4> USE DEF resources, StopIgnored, StopErr
        <4>1. ASSUME NEW c \in Calls, BeginConnect(c) \/ ConnectStep(c) PROVE Moved
          BY <1>1, <4>1
          DEF BeginConnect, ConnectStep, Fetched, Elevated, ConfigWritten, FailEarly, Spawned,
              SpawnFailed, AttachedTun, AttachedProxy, RouteSettled, BeginRollback, Rollback,
              Establish, AbortSupervisor
        <4>2. ASSUME NEW c \in Calls, BeginDisconnect(c) \/ DisconnectStep(c) PROVE Moved
          BY <4>2 DEF BeginDisconnect, AbortSupervisor, DisconnectStep, Detach, Stopped,
                      StopFailed
        <4>3. ASSUME NEW g \in Gens,
                     CleanupDriver(g) \/ CleanupStop(g) \/ GuardAssert(g) \/ KernelExit(g)
              PROVE  Moved
          BY <4>3 DEF CleanupDriver, CleanupStop, GuardAssert, KernelExit
        <4>4. CASE Supervisor
          BY <4>4 DEF Supervisor, Heartbeat, HeartbeatOk, HeartbeatMiss, HeartbeatTerminal,
                      FailureReceived, Teardown, TeardownStopped
        <4>5. CASE GuardDrift \/ GuardQuit \/ SetRequestedMode \/ SetProxyGuardEnabled
                   \/ ProxyDrift \/ UNCHANGED vars
          BY <4>5 DEF GuardDrift, GuardQuit, SetRequestedMode, SetProxyGuardEnabled,
                      ProxyDrift, vars
        <4> QED
          BY <4>1, <4>2, <4>3, <4>4, <4>5 DEF Next
      <3>2. StopOk => running' = {}
        BY DEF StopOk
      <3> QED
        BY <3>1, <3>2
    <2> QED
      BY <2>1, <2>2, PTL DEF Spec
  <1>2. CASE Launcher = "direct" /\ Client = "serial"
    <2>1. Aligned /\ Owning => running \subseteq {current}
      <3> SUFFICES ASSUME Aligned, Owning, NEW k \in running
                   PROVE  k = current
        OBVIOUS
      <3>1. k # 0
        BY GenFacts DEF Aligned, TypeInv, TypeOK
      <3> QED
        BY <1>2, <3>1 DEF Owning, HandleIsCurrent, NothingElseRuns
    <2> QED
      BY <1>2, <2>1, OwningHolds, PTL
  <1> QED
    BY <1>1, <1>2, ConstantsAssumption

-----------------------------------------------------------------------------
(* What the manager asks of a launcher that owns its process: one kernel    *)
(* at a time, given back before the next.                                   *)
Slot == INSTANCE KernelSlot WITH Kernels <- Gens, held <- {current} \ {0}

LEMMA SlotStep ==
    ASSUME Client = "serial", Launcher = "direct", Aligned, Owning, [Next]_vars
    PROVE  Slot!Next \/ UNCHANGED <<current, running>>
  <1> USE DEF resources
  <1>1. running \subseteq {current} \ {0}
    <2> SUFFICES ASSUME NEW k \in running PROVE k = current /\ k # 0
      OBVIOUS
    <2>1. k # 0
      BY GenFacts DEF Aligned, TypeInv, TypeOK
    <2> QED
      BY <2>1 DEF Owning, HandleIsCurrent, NothingElseRuns
  <1>2. CASE StopOk
    BY <1>1, <1>2 DEF StopOk, Slot!Next, Slot!Stop
  <1>3. ASSUME NEW c \in Calls, Spawned(c) PROVE Slot!Next
    <2>1. handle = 0 /\ \A d \in Calls : call[d].handle = 0
      BY <1>3, OnlyOne DEF Spawned, Aligned, OneCall
    <2>2. current = 0 /\ running = {}
      BY <1>1, <2>1 DEF Owning, NothingElseRuns
    <2>3. call[c].gen \in Gens
      BY <1>3, GenFacts
      DEF Spawned, Aligned, TypeInv, TypeOK, ConnectsAreNumbered, ConnectPcs, CallStates, Gens,
          OptGen
    <2>4. running' = {call[c].gen} /\ current' = call[c].gen
      BY <1>3, <2>2 DEF Spawned
    <2>5. Slot!Spawn
      BY <2>2, <2>3, <2>4, GenFacts DEF Slot!Spawn
    <2> QED
      BY <2>5 DEF Slot!Next
  <1>4. ASSUME NEW c \in Calls, BeginConnect(c) \/ ConnectStep(c), ~Spawned(c)
        PROVE  UNCHANGED <<current, running>> \/ StopOk
    BY <1>4
    DEF BeginConnect, ConnectStep, Fetched, Elevated, ConfigWritten, FailEarly, SpawnFailed,
        AttachedTun, AttachedProxy, RouteSettled, BeginRollback, Rollback, Establish,
        AbortSupervisor, StopIgnored, StopErr
  <1>5. ASSUME NEW c \in Calls, BeginDisconnect(c) \/ DisconnectStep(c)
        PROVE  UNCHANGED <<current, running>> \/ StopOk
    BY <1>5
    DEF BeginDisconnect, AbortSupervisor, DisconnectStep, Detach, Stopped, StopFailed, StopErr
  <1>6. ASSUME NEW g \in Gens, CleanupDriver(g) \/ CleanupStop(g) \/ GuardAssert(g)
        PROVE  UNCHANGED <<current, running>> \/ StopOk
    BY <1>6 DEF CleanupDriver, CleanupStop, GuardAssert, StopIgnored, StopErr
  <1>7. ASSUME NEW k \in Gens, KernelExit(k) PROVE Slot!Next
    <2>1. running' = {} /\ UNCHANGED current
      BY <1>1, <1>7 DEF KernelExit
    <2> QED
      BY <2>1 DEF Slot!Next, Slot!Exit
  <1>8. Supervisor => UNCHANGED <<current, running>> \/ StopOk
    BY DEF Supervisor, Heartbeat, HeartbeatOk, HeartbeatMiss, HeartbeatTerminal,
           FailureReceived, Teardown, TeardownStopped, StopIgnored, StopErr
  <1>9. GuardDrift \/ GuardQuit \/ SetRequestedMode \/ SetProxyGuardEnabled
        \/ ProxyDrift \/ UNCHANGED vars => UNCHANGED <<current, running>>
    BY DEF GuardDrift, GuardQuit, SetRequestedMode, SetProxyGuardEnabled, ProxyDrift, vars
  <1> QED
    BY <1>2, <1>3, <1>4, <1>5, <1>6, <1>7, <1>8, <1>9 DEF Next

(* manager.rs, connect, disconnect and teardown_after_failure: whatever     *)
(* happens, the launcher that owns its process is asked for a kernel only   *)
(* when the last one was given back.  DirectLauncherProofs!SlotIsKept is    *)
(* the other half.                                                          *)
THEOREM SlotIsUsed ==
    ASSUME Client = "serial", Launcher = "direct"
    PROVE  Spec => Slot!Spec
  <1>1. Init => Slot!Init
    BY DEF Init, Slot!Init
  <1>2. Aligned /\ Owning /\ [Next]_vars => [Slot!Next]_(Slot!vars)
    BY SlotStep DEF Slot!vars
  <1> QED
    BY <1>1, <1>2, OwningHolds, PTL DEF Spec, Slot!Spec

-----------------------------------------------------------------------------
(***************************************************************************)
(* With the guard off as well, the manager implements the contract: every  *)
(* step is one of ConnectionLifecycle's or leaves what it speaks of alone. *)
(* That holds of the kernels the manager has a handle of, whichever        *)
(* launcher started them; and as a launcher that owns its process holds no *)
(* other, it holds of the launcher's slot as well.                         *)
(***************************************************************************)
Ours == osProxy \in Gens \ clearFailed
Holding == handle # 0 \/ sup.pc = "stopping" \/ \E c \in Calls : call[c].handle # 0
Abstract == <<state.kind, Ours, Holding>>

ByHandle == INSTANCE ConnectionLifecycle WITH
    phase <- state.kind, proxy <- Ours, kernel <- Holding

ContractInv == Aligned /\ Owning /\ GuardOff /\ ProxyIsHeld

LEMMA Booleans == /\ Ours \in BOOLEAN /\ Ours' \in BOOLEAN
                  /\ Holding \in BOOLEAN /\ Holding' \in BOOLEAN
  BY DEF Ours, Holding

LEMMA NotOurs == ASSUME ContractInv, state.kind # "Connected" \/ sup.pc # "watch" PROVE ~Ours
  BY GenFacts DEF ContractInv, ProxyIsHeld, Ours

LEMMA ClearedIsNotOurs == ASSUME NEW m, ClearProxyIf(m)
                          PROVE  IF m = "SystemProxy" THEN ~Ours' ELSE UNCHANGED Ours
  <1>1. CASE m = "SystemProxy"
    <2>1. osProxy' = 0 \/ osProxy' \in clearFailed' \/ osProxy' \notin Gens
      BY <1>1, GenFacts DEF ClearProxyIf, ClearProxy
    <2> QED
      BY <1>1, <2>1, GenFacts DEF Ours
  <1>2. CASE m # "SystemProxy"
    <2>1. UNCHANGED <<osProxy, clearFailed>>
      BY <1>2 DEF ClearProxyIf, proxyVars
    <2> QED
      BY <1>2, <2>1 DEF Ours
  <1> QED
    BY <1>1, <1>2

\* What the call under way tells of what is held.
LEMMA HeldByCall ==
    ASSUME ContractInv, NEW c \in Calls, call[c].pc # "idle"
    PROVE  /\ \A d \in Calls \ {c} : call[d].pc = "idle" /\ call[d].handle = 0
           /\ call[c].pc \in ConnectPcs => state.kind = "Connecting" /\ sup.pc = "none" /\ ~Ours
           /\ call[c].pc \in {"detach", "stop"} => sup.pc = "none" /\ ~Ours
           /\ call[c].pc \notin {"rollback", "stop"} => call[c].handle = 0
           /\ call[c].pc \in {"fetch", "elevate", "write", "spawn", "rollback"} => handle = 0
  BY OnlyOne, NotOurs DEF ContractInv, Aligned, CallsMatchState, ConnectPcs

LEMMA ContractConnect ==
    ASSUME Client = "serial", ContractInv, NEW c \in Calls,
           BeginConnect(c) \/ ConnectStep(c)
    PROVE  ByHandle!Next \/ UNCHANGED Abstract
  <1> USE DEF resources, proxyVars, guardVars, Publish, ByHandle!Next
  <1>t. call \in [Calls -> CallStates] /\ call[c] \in CallStates /\ state \in States
    BY DEF ContractInv, Aligned, TypeInv, TypeOK
  <1>1. CASE BeginConnect(c)
    <2>1. /\ state.kind \in {"Disconnected", "Error"} /\ sup.pc = "none"
          /\ \A d \in Calls : call[d].pc = "idle" /\ call[d].handle = 0
      BY <1>1, <1>t
      DEF BeginConnect, MayConnect, MayCall, NoCallInFlight, ContractInv, Owning,
          HandleIsCurrent, States, Aligned, SupervisorMatchesState
    <2>2. ~Ours /\ ~Holding
      BY <2>1, NotOurs DEF ContractInv, Owning, HandleIsCurrent, Holding
    <2>3. /\ state'.kind = "Connecting" /\ UNCHANGED <<osProxy, clearFailed, handle, sup>>
          /\ \A d \in Calls : call'[d].handle = 0
      BY <1>1, <1>t, <2>1 DEF BeginConnect, Connecting
    <2>4. ~Ours' /\ ~Holding'
      BY <2>1, <2>2, <2>3 DEF Holding, Ours
    <2>5. ByHandle!Start
      BY <2>1, <2>2, <2>3, <2>4, Booleans DEF ByHandle!Start
    <2> QED
      BY <2>5
  <1>2. CASE Fetched(c) \/ Elevated(c) \/ ConfigWritten(c) \/ AttachedTun(c)
    <2>1. /\ call[c].pc \in ConnectPcs /\ call'[c].handle = call[c].handle
          /\ \A d \in Calls \ {c} : call'[d] = call[d]
          /\ state'.kind = "Connecting"
          /\ UNCHANGED <<osProxy, clearFailed, handle, sup>>
      BY <1>2, <1>t
      DEF Fetched, Elevated, ConfigWritten, AttachedTun, Goto, Connecting, ConnectPcs,
          CallStates
    <2>2. state'.kind = state.kind
      BY <2>1, HeldByCall DEF ConnectPcs
    <2>3. UNCHANGED <<Ours, Holding>>
      BY <2>1 DEF Ours, Holding
    <2> QED
      BY <2>2, <2>3 DEF Abstract
  <1>3. CASE BeginRollback(c)
    <2>1. /\ call[c].pc = "attach" /\ call'[c].handle = handle
          /\ UNCHANGED <<state, osProxy, clearFailed, sup>>
      BY <1>3, <1>t DEF BeginRollback, CallStates
    <2>2. handle # 0
      BY <2>1
      DEF ContractInv, Aligned, TypeInv, ConnectsAreNumbered, ConnectPcs, Owning,
          ConnectIsLatest
    <2>3. Holding /\ Holding'
      BY <2>1, <2>2 DEF Holding
    <2> QED
      BY <2>1, <2>3 DEF Abstract, Ours
  <1>4. CASE FailEarly(c) \/ SpawnFailed(c) \/ Rollback(c)
    <2>1. /\ call[c].pc \in ConnectPcs \ {"attach", "settle"} /\ Fail(c)
          /\ UNCHANGED <<osProxy, clearFailed, sup>>
      BY <1>4 DEF FailEarly, SpawnFailed, Rollback, ConnectPcs
    <2>2. /\ call'[c] = IdleCall /\ \A d \in Calls \ {c} : call'[d] = call[d]
          /\ handle' = 0 /\ state'.kind = "Error"
      BY <1>t, <2>1 DEF Fail, Return, Error
    <2>3. ~Holding'
      BY <2>1, <2>2, HeldByCall DEF Holding, IdleCall, ConnectPcs
    <2>4. ~Ours'
      BY <2>1, HeldByCall DEF Ours, ConnectPcs
    <2>5. ByHandle!Settle
      BY <2>2, <2>3, <2>4 DEF ByHandle!Settle
    <2> QED
      BY <2>5
  <1>5. CASE Spawned(c)
    <2>1. /\ call[c].pc \in ConnectPcs /\ call[c].gen # 0 /\ handle' = call[c].gen
          /\ UNCHANGED <<state, osProxy, clearFailed>>
      BY <1>5 DEF Spawned, ConnectPcs, ContractInv, Aligned, TypeInv, ConnectsAreNumbered
    <2>2. Holding'
      BY <2>1 DEF Holding
    <2>3. ByHandle!TakeKernel
      BY <2>1, <2>2, HeldByCall DEF ByHandle!TakeKernel, Ours, ConnectPcs
    <2> QED
      BY <2>3
  <1>6. CASE AttachedProxy(c) \/ RouteSettled(c)
    <2>1. /\ call[c].pc \in {"attach", "settle"} /\ Establish(c) /\ UNCHANGED handle
          /\ UNCHANGED <<osProxy, clearFailed>> \/ ~Ours
      BY <1>6, HeldByCall DEF AttachedProxy, RouteSettled, ConnectPcs
    <2>2. handle # 0 /\ state'.kind = "Connected"
      BY <2>1
      DEF Establish, Connected, ConnectPcs, ContractInv, Owning, ConnectIsLatest,
          Aligned, TypeInv, ConnectsAreNumbered
    <2>3. Holding /\ Holding'
      BY <2>1, <2>2 DEF Holding
    <2>4. Ours' \in {Ours, TRUE}
      <3>1. CASE UNCHANGED <<osProxy, clearFailed>>
        BY <3>1 DEF Ours
      <3>2. CASE ~Ours
        <4>1. Ours \in BOOLEAN /\ Ours' \in BOOLEAN
          BY DEF Ours
        <4> QED
          BY <3>2, <4>1
      <3> QED
        BY <2>1, <3>1, <3>2
    <2>5. ByHandle!Establish
      BY <2>1, <2>2, <2>3, <2>4, HeldByCall DEF ByHandle!Establish, ConnectPcs
    <2> QED
      BY <2>5
  <1> QED
    BY <1>1, <1>2, <1>3, <1>4, <1>5, <1>6 DEF ConnectStep

LEMMA ContractDisconnect ==
    ASSUME Client = "serial", ContractInv, NEW c \in Calls,
           BeginDisconnect(c) \/ DisconnectStep(c)
    PROVE  ByHandle!Next \/ UNCHANGED Abstract
  <1> USE DEF resources, proxyVars, guardVars, Publish, ByHandle!Next
  <1>t. call \in [Calls -> CallStates] /\ call[c] \in CallStates
    BY DEF ContractInv, Aligned, TypeInv, TypeOK
  <1>1. CASE BeginDisconnect(c)
    <2>1. /\ UNCHANGED <<state, handle>> /\ ClearProxyIf(state.mode) /\ sup'.pc = "none"
          /\ \A d \in Calls : call[d].handle = 0 /\ call'[d].handle = 0
      BY <1>1, <1>t
      DEF BeginDisconnect, MayCall, NoCallInFlight, NoSup, IdleCall, ContractInv, Owning,
          HandleIsCurrent
    <2>2. CASE sup.pc = "stopping"
      <3>1. ~Holding' /\ ~Ours
        BY <2>1, <2>2, NotOurs DEF ContractInv, Owning, NothingElseHolds, Holding
      <3>2. CASE ~Ours'
        BY <2>1, <3>1, <3>2, Booleans DEF ByHandle!DropKernel
      <3>3. CASE Ours'
        BY <2>1, <3>1, <3>3, ClearedIsNotOurs
      <3> QED
        BY <3>2, <3>3
    <2>3. CASE sup.pc # "stopping"
      <3>1. UNCHANGED Holding
        BY <2>1, <2>3 DEF Holding
      <3>2. CASE ~Ours'
        BY <2>1, <3>1, <3>2 DEF ByHandle!DropProxy
      <3>3. CASE UNCHANGED Ours
        BY <2>1, <3>1, <3>3 DEF Abstract
      <3> QED
        BY <2>1, <3>2, <3>3, ClearedIsNotOurs
    <2> QED
      BY <2>2, <2>3
  <1>2. CASE DisconnectStep(c)
    <2>1. /\ call[c].pc \in {"detach", "stop"} /\ UNCHANGED <<osProxy, clearFailed, sup>>
      BY <1>2 DEF DisconnectStep, Detach, Stopped, StopFailed
    <2>2. ~Ours /\ ~Ours'
      BY <2>1, HeldByCall DEF Ours
    <2>3. CASE Detach(c) /\ handle # 0
      <3>1. call'[c].handle = handle /\ UNCHANGED state
        BY <1>t, <2>3 DEF Detach, CallStates
      <3>2. Holding /\ Holding'
        BY <2>3, <3>1 DEF Holding
      <3> QED
        BY <2>2, <3>1, <3>2, Booleans DEF Abstract
    <2>4. ASSUME call'[c] = IdleCall, \A d \in Calls \ {c} : call'[d] = call[d],
                 handle' = 0, state'.kind \in {"Disconnected", "Error"}
          PROVE  ByHandle!Settle
      <3>1. ~Holding'
        BY <2>1, <2>4, HeldByCall DEF Holding, IdleCall
      <3> QED
        BY <2>2, <2>4, <3>1 DEF ByHandle!Settle
    <2>5. CASE Detach(c) /\ handle = 0
      BY <1>t, <2>4, <2>5 DEF Detach, Return, Disconnected
    <2>6. CASE Stopped(c) \/ StopFailed(c)
      BY <1>t, <2>4, <2>6
      DEF Stopped, StopFailed, Return, Disconnected, Error, ContractInv, Owning, HandleIsCurrent
    <2> QED
      BY <1>2, <2>3, <2>5, <2>6 DEF DisconnectStep
  <1> QED
    BY <1>1, <1>2

LEMMA ContractSupervisor ==
    ASSUME ContractInv, Supervisor
    PROVE  ByHandle!Next \/ UNCHANGED Abstract
  <1> USE DEF resources, proxyVars, guardVars, Publish, ByHandle!Next
  <1>t. sup \in SupStates
    BY DEF ContractInv, Aligned, TypeInv, TypeOK
  <1>1. CASE HeartbeatOk \/ HeartbeatMiss
    <2>1. sup'.pc = sup.pc /\ UNCHANGED <<state, osProxy, clearFailed, handle, call>>
      BY <1>1, <1>t DEF HeartbeatOk, HeartbeatMiss, SupStates
    <2> QED
      BY <2>1 DEF Abstract, Ours, Holding
  <1>2. ASSUME sup.pc # "none"
        PROVE  \A c \in Calls : call[c].handle = 0
    BY <1>2
    DEF ContractInv, Aligned, CallsMatchState, Owning, HandleIsCurrent, ConnectPcs
  <1>3. ASSUME Teardown, sup.pc = "watch"
        PROVE  ByHandle!Next
    <2>1. ClearProxyIf(sup.mode) /\ handle' = 0 /\ UNCHANGED call
      BY <1>3 DEF Teardown
    <2>2. ~Ours'
      <3>1. sup.mode # "SystemProxy" => ~Ours
        BY <1>3, GenFacts
        DEF ContractInv, Aligned, SupervisorMatchesState, ProxyIsHeld, Ours
      <3> QED
        BY <2>1, <3>1, ClearedIsNotOurs
    <2>3. CASE handle # 0 /\ Launcher = "remote"
      <3>1. sup'.pc = "stopping" /\ UNCHANGED state
        BY <1>3, <1>t, <2>3 DEF Teardown, SupStates
      <3>2. Holding /\ Holding'
        BY <2>3, <3>1 DEF Holding
      <3>3. ByHandle!DropProxy
        BY <2>2, <3>1, <3>2, Booleans DEF ByHandle!DropProxy
      <3> QED
        BY <3>3
    <2>4. CASE ~(handle # 0 /\ Launcher = "remote")
      <3>1. sup'.pc = "none" /\ state'.kind = "Error"
        BY <1>3, <2>4 DEF Teardown, Error, NoSup
      <3>2. ~Holding'
        BY <1>2, <1>3, <2>1, <3>1 DEF Holding
      <3>3. ByHandle!Settle
        BY <2>2, <3>1, <3>2 DEF ByHandle!Settle
      <3> QED
        BY <3>3
    <2> QED
      BY <2>3, <2>4
  <1>4. CASE TeardownStopped
    <2>1. /\ sup.pc = "stopping" /\ sup'.pc = "none" /\ state'.kind = "Error"
          /\ UNCHANGED <<osProxy, clearFailed, handle, call>>
      BY <1>4 DEF TeardownStopped, Error, NoSup
    <2>2. ~Ours' /\ ~Holding'
      BY <1>2, <2>1, NotOurs
      DEF ContractInv, Owning, NothingElseHolds, Ours, Holding
    <2>3. ByHandle!Settle
      BY <2>1, <2>2 DEF ByHandle!Settle
    <2> QED
      BY <2>3
  <1> QED
    BY <1>1, <1>3, <1>4
    DEF Supervisor, Heartbeat, HeartbeatTerminal, FailureReceived

LEMMA ContractNext ==
    ASSUME Client = "serial", ContractInv, [Next]_vars
    PROVE  ByHandle!Next \/ UNCHANGED Abstract
  <1> USE DEF resources, proxyVars, guardVars
  <1>1. ASSUME NEW g \in Gens,
               CleanupDriver(g) \/ CleanupStop(g) \/ GuardAssert(g) \/ KernelExit(g)
        PROVE  UNCHANGED Abstract
    <2>1. sup'.pc = sup.pc /\ UNCHANGED <<state, osProxy, clearFailed, handle, call>>
      BY <1>1
      DEF CleanupDriver, CleanupStop, GuardAssert, KernelExit, ContractInv, GuardOff, Aligned,
          TypeInv, TypeOK, SupStates
    <2> QED
      BY <2>1 DEF Abstract, Ours, Holding
  <1>2. CASE GuardDrift \/ GuardQuit \/ SetRequestedMode \/ SetProxyGuardEnabled
             \/ UNCHANGED vars
    BY <1>2
    DEF GuardDrift, GuardQuit, SetRequestedMode, SetProxyGuardEnabled, vars, Abstract, Ours,
        Holding
  <1>3. CASE ProxyDrift
    <2>1. ~Ours' /\ UNCHANGED <<state, handle, sup, call>>
      BY <1>3, GenFacts DEF ProxyDrift, Ours
    <2>2. UNCHANGED Holding
      BY <2>1 DEF Holding
    <2> QED
      BY <2>1, <2>2 DEF ByHandle!Next, ByHandle!DropProxy
  <1> QED
    BY <1>1, <1>2, <1>3, ContractConnect, ContractDisconnect, ContractSupervisor DEF Next

LEMMA ContractHolds ==
    ASSUME Client = "serial", GuardSettings = {FALSE}
    PROVE  Spec => []ContractInv
  <1>1. Init => GuardOff /\ ProxyIsHeld
    BY DEF Init, GuardOff, ProxyIsHeld
  <1>2. ContractInv /\ [Next]_vars => (GuardOff /\ ProxyIsHeld)'
    BY AlignedNext, GuardOffStep DEF ContractInv, Aligned, AlignedStep, TypeInv
  <1> QED
    BY <1>1, <1>2, OwningHolds, PTL DEF Spec, ContractInv

(* manager.rs: for one call at a time and with the guard switched off, the  *)
(* manager implements ConnectionLifecycle over either launcher, as far as   *)
(* its handles go: it takes the proxy on top of a kernel, gives the kernel  *)
(* back after the proxy, and settles holding neither.  A start that the     *)
(* daemon carries out unanswered is not in it: the manager has no handle of *)
(* that kernel (KernelHasOwner).                                            *)
THEOREM ContractByHandle ==
    ASSUME Client = "serial", GuardSettings = {FALSE}
    PROVE  Spec => ByHandle!Spec
  <1>1. Init => ByHandle!Init
    BY GenFacts DEF Init, Disconnected, NoSup, IdleCall, Ours, Holding, ByHandle!Init
  <1>2. ContractInv /\ [Next]_vars => [ByHandle!Next]_(ByHandle!vars)
    BY ContractNext DEF Abstract, ByHandle!vars
  <1> QED
    BY <1>1, <1>2, ContractHolds, PTL DEF Spec, ByHandle!Spec

(* The same contract, for the launcher that owns its process, of the slot   *)
(* of the launcher: what the manager gave back is gone.                     *)
THEOREM ContractIsKept ==
    ASSUME Client = "serial", Launcher = "direct", GuardSettings = {FALSE}
    PROVE  Spec => ImplementsLifecycle
  <1>1. Init => Lifecycle!Init
    BY GenFacts DEF Init, Disconnected, Lifecycle!Init
  <1>2. ASSUME ContractInv, ContractInv', [Next]_vars
        PROVE  [Lifecycle!Next]_(Lifecycle!vars)
    <2>1. /\ Holding <=> current # 0
          /\ Holding' <=> current' # 0
      BY <1>2
      DEF ContractInv, Owning, HandleIsCurrent, NothingElseHolds, NothingElseRuns, Holding
    <2>2. CASE ByHandle!Next
      BY <2>1, <2>2
      DEF ByHandle!Next, ByHandle!Start, ByHandle!TakeKernel, ByHandle!Establish,
          ByHandle!Reassert, ByHandle!DropProxy, ByHandle!DropKernel, ByHandle!Settle,
          Lifecycle!Next, Lifecycle!Start, Lifecycle!TakeKernel, Lifecycle!Establish,
          Lifecycle!Reassert, Lifecycle!DropProxy, Lifecycle!DropKernel, Lifecycle!Settle, Ours
    <2>3. CASE UNCHANGED Abstract
      BY <2>1, <2>3 DEF Abstract, Ours, Lifecycle!vars
    <2> QED
      BY <1>2, <2>2, <2>3, ContractNext
  <1> QED
    BY <1>1, <1>2, ContractHolds, PTL DEF Spec, ImplementsLifecycle, Lifecycle!Spec
=============================================================================

---------------------------- MODULE KernelManager ----------------------------
(***************************************************************************)
(* core/src/kernel/manager.rs: the connection state machine of the core,   *)
(* with everything that runs concurrently with it -- the foreground calls  *)
(* (connect, reconnect, disconnect), the supervisor and its teardown, the  *)
(* system-proxy guard, and the clean-up task that `fail` spawns.           *)
(*                                                                         *)
(* Every step ends at an await (or at a lock another task may hold): the   *)
(* code between two awaits runs in one step, in the order of the source.   *)
(* The one exception is the guard, whose synchronous body calls into the   *)
(* OS twice while it holds only the read lock of `state`: it is two steps. *)
(*                                                                         *)
(* A connect picks fresh ports and a fresh secret; a connect is therefore  *)
(* identified by its number (`gen`), which stands for its mixed port, its  *)
(* controller address, its secret and the kernel it spawns.  0 is "none".  *)
(* (Not modelled: the OS has no two free ports, and the last ones stay.)   *)
(* The launcher is the trait of launcher.rs as its two families implement  *)
(* it: "direct" (the client owns the process) and "remote" (xboard-helper, *)
(* xboard-svc); `stop` ignores the handle and stops whatever the launcher  *)
(* holds.  Retries of the fetch and of the spawn change nothing the        *)
(* manager keeps, so a retried stage is its final outcome.                 *)
(*                                                                         *)
(* A definition named Bug... is the one after it with a plausible mistake; *)
(* nothing uses it, and the runs tell the two apart.                       *)
(***************************************************************************)
EXTENDS Naturals, FiniteSets

CONSTANTS
    Calls,          \* foreground tasks: each runs one manager call at a time
    MaxGen,         \* bound: number of connects in a behaviour
    TerminalMisses, \* HEARTBEAT_TERMINAL_THRESHOLD
    Launcher,       \* "direct" or "remote"
    GuardSettings,  \* values the user gives the proxy-guard switch
    Client          \* "serial": one call at a time, connect only when not
                    \*   connecting or connected; "free": any call any time

ASSUME ConstantsAssumption ==
    /\ MaxGen \in Nat \ {0}
    /\ TerminalMisses \in Nat \ {0}
    /\ Launcher \in {"direct", "remote"}
    /\ GuardSettings \subseteq BOOLEAN /\ GuardSettings # {}
    /\ Client \in {"serial", "free"}

VARIABLES
    state,         \* ConnectionState, what subscribers see
    requestedMode, \* applies to the next connect
    gen,           \* connects begun so far; controller_addr and mixed_port
                   \*   are those of the last one
    handle,        \* Option<LaunchHandle>
    secret,        \* controller_secret
    config,        \* whose ports config.yaml carries
    driver,        \* the controller the driver is attached to
    running,       \* kernel processes alive on the host
    current,       \* the kernel the launcher would stop
    osProxy,       \* our port the OS proxy points at; 0: off, or not ours
    guard,         \* port of the live system-proxy guard task
    asserting,     \* guards between `matches` and `set`, read lock held
    guardEnabled,  \* proxy_guard_enabled
    sup,           \* the supervisor task
    call,          \* the foreground calls
    cleanup,       \* the tasks spawned by `fail`
    clearFailed    \* history: ports whose clear returned an error

resources == <<handle, secret, config, driver, running, current>>
proxyVars == <<osProxy, clearFailed>>
guardVars == <<guard, asserting, guardEnabled>>
vars == <<state, requestedMode, gen, handle, secret, config, driver, running,
          current, osProxy, guard, asserting, guardEnabled, sup, call, cleanup,
          clearFailed>>

Gens == 1..MaxGen
OptGen == 0..MaxGen
Modes == {"Tun", "SystemProxy"}
Stages == {"Fetching", "Elevating", "Writing", "Spawning", "ApplyingRoute"}

Disconnected  == [kind |-> "Disconnected", mode |-> "none", stage |-> "none", port |-> 0]
Connecting(s, m) == [kind |-> "Connecting", mode |-> m, stage |-> s, port |-> 0]
Connected(m, p)  == [kind |-> "Connected", mode |-> m, stage |-> "none", port |-> p]
Error(m)         == [kind |-> "Error", mode |-> m, stage |-> "none", port |-> 0]

IdleCall == [pc |-> "idle", gen |-> 0, mode |-> "none", handle |-> 0]
NoSup    == [pc |-> "none", mode |-> "none", addr |-> 0, secret |-> 0,
             misses |-> 0, note |-> FALSE, handle |-> 0]
NoTask   == [pc |-> "none", handle |-> 0]

Init ==
    /\ state = Disconnected
    /\ requestedMode = "Tun"
    /\ gen = 0
    /\ handle = 0 /\ secret = 0 /\ config = 0 /\ driver = 0
    /\ running = {} /\ current = 0
    /\ osProxy = 0
    /\ guard = 0 /\ asserting = {} /\ guardEnabled \in GuardSettings
    /\ sup = NoSup
    /\ call = [c \in Calls |-> IdleCall]
    /\ cleanup = [g \in Gens |-> NoTask]
    /\ clearFailed = {}

-----------------------------------------------------------------------------
(* Helpers.                                                                *)

BugPublish(next) == state' = next \* the guard copies the state and drops the lock

\* `publish`: takes the write lock of `state`, so it waits for a guard that
\* is between its two OS calls.
Publish(next) == asserting = {} /\ state' = next

\* SystemProxySetter::clear switches the OS proxy off, whoever's it is; an
\* error is logged and ignored by every caller.
ClearProxy ==
    \/ osProxy' = 0 /\ UNCHANGED clearFailed
    \/ clearFailed' = clearFailed \cup ({osProxy} \ {0}) /\ UNCHANGED osProxy

ClearProxyIf(mode) ==
    IF mode = "SystemProxy" THEN ClearProxy ELSE UNCHANGED proxyVars

\* KernelLauncher::stop that returns Ok, and (remote only) one that fails or
\* is dropped by its timeout: the request was then carried out, or not.
StopOk == running' = running \ {current} /\ current' = 0
StopErr == Launcher = "remote" /\ (StopOk \/ UNCHANGED <<running, current>>)
StopIgnored == StopOk \/ StopErr

\* Aborting the supervisor drops the request a teardown is waiting for,
\* carried out or not.
AbortSupervisor ==
    \/ UNCHANGED <<running, current>>
    \/ sup.pc = "stopping" /\ StopOk

Goto(c, pc) == call' = [call EXCEPT ![c].pc = pc]
Return(c) == call' = [call EXCEPT ![c] = IdleCall]

BugFail(c) == \* copies the handle instead of taking it
    /\ cleanup' = [cleanup EXCEPT ![call[c].gen] = [pc |-> "driver", handle |-> handle]]
    /\ UNCHANGED handle
    /\ Publish(Error(call[c].mode))
    /\ Return(c)

\* `fail`: hand the launch handle to a background task, publish Error.
Fail(c) ==
    /\ cleanup' = [cleanup EXCEPT ![call[c].gen] = [pc |-> "driver", handle |-> handle]]
    /\ handle' = 0
    /\ Publish(Error(call[c].mode))
    /\ Return(c)

-----------------------------------------------------------------------------
(* connect: one action per await and per outcome.                          *)

NoCallInFlight == \A c \in Calls : call[c].pc = "idle"

MayCall == Client = "serial" => NoCallInFlight
MayConnect ==
    /\ MayCall
    /\ Client = "serial" => state.kind \notin {"Connecting", "Connected"}

\* connect, and reconnect, which is connect with the remembered URL.
BeginConnect(c) ==
    /\ call[c].pc = "idle" /\ MayConnect
    /\ gen < MaxGen
    /\ gen' = gen + 1
    /\ Publish(Connecting("Fetching", requestedMode))
    /\ call' = [call EXCEPT ![c] = [pc |-> "fetch", gen |-> gen + 1,
                                    mode |-> requestedMode, handle |-> 0]]
    /\ UNCHANGED <<requestedMode, resources, proxyVars, guardVars, sup, cleanup>>

\* The subscription was fetched and has nodes.
Fetched(c) ==
    /\ call[c].pc = "fetch"
    /\ Publish(Connecting("Elevating", call[c].mode))
    /\ Goto(c, "elevate")
    /\ UNCHANGED <<requestedMode, gen, resources, proxyVars, guardVars, sup, cleanup>>

\* The launcher's probe keeps Tun, or downgrades it to SystemProxy.
Elevated(c) ==
    /\ call[c].pc = "elevate"
    /\ \E m \in {call[c].mode, "SystemProxy"} :
          /\ Publish(Connecting("Writing", m))
          /\ call' = [call EXCEPT ![c].pc = "write", ![c].mode = m]
    /\ UNCHANGED <<requestedMode, gen, resources, proxyVars, guardVars, sup, cleanup>>

ConfigWritten(c) ==
    /\ call[c].pc = "write"
    /\ config' = call[c].gen
    /\ Publish(Connecting("Spawning", call[c].mode))
    /\ Goto(c, "spawn")
    /\ UNCHANGED <<requestedMode, gen, handle, secret, driver, running, current,
                   proxyVars, guardVars, sup, cleanup>>

\* A stage before the spawn fails: fetch, elevate (Tun only) or write.
FailEarly(c) ==
    /\ \/ call[c].pc \in {"fetch", "write"}
       \/ call[c].pc = "elevate" /\ call[c].mode = "Tun"
    /\ Fail(c)
    /\ UNCHANGED <<requestedMode, gen, secret, config, driver, running, current,
                   proxyVars, guardVars, sup>>

\* The kernel reads config.yaml; its controller answers at our address only
\* if the file is still ours.  The daemon kills the kernel it held.
Spawned(c) ==
    /\ call[c].pc = "spawn" /\ config = call[c].gen
    /\ running' = {config} \cup (IF Launcher = "remote" THEN running \ {current}
                                                        ELSE running)
    /\ current' = config
    /\ handle' = call[c].gen
    /\ Goto(c, "attach")
    /\ UNCHANGED <<state, requestedMode, gen, secret, config, driver,
                   proxyVars, guardVars, sup, cleanup>>

\* Every attempt failed.  DirectLauncher kills what it started.  The remote
\* launchers return without StopKernel: the daemon refused, or killed its
\* previous kernel and could not start ours, or runs ours, unanswered.
SpawnFailed(c) ==
    /\ call[c].pc = "spawn"
    /\ \/ UNCHANGED <<running, current>>
       \/ Launcher = "remote" /\ StopOk
       \/ /\ Launcher = "remote"
          /\ running' = (running \ {current}) \cup {config}
          /\ current' = config
    /\ Fail(c)
    /\ UNCHANGED <<requestedMode, gen, secret, config, driver,
                   proxyVars, guardVars, sup>>

BugEstablish(c) == \* the supervisor takes the secret of the previous session
    /\ Publish(Connected(call[c].mode, call[c].gen))
    /\ AbortSupervisor
    /\ sup' = [NoSup EXCEPT !.pc = "watch", !.mode = call[c].mode,
                            !.addr = gen, !.secret = secret]
    /\ Return(c)

\* Publish Connected, then start_supervisor: it aborts the previous
\* supervisor and watches the address and secret the manager holds now.
Establish(c) ==
    /\ Publish(Connected(call[c].mode, call[c].gen))
    /\ AbortSupervisor
    /\ sup' = [NoSup EXCEPT !.pc = "watch", !.mode = call[c].mode,
                            !.addr = gen, !.secret = secret']
    /\ Return(c)

\* The driver reached the controller.  Tun waits 300 ms for the routes;
\* SystemProxy goes on to setter.set and start_sysproxy_guard, which aborts
\* the previous guard, and is Connected without another await.
AttachedTun(c) ==
    /\ call[c].pc = "attach" /\ call[c].mode = "Tun" /\ call[c].gen \in running
    /\ driver' = call[c].gen
    /\ secret' = call[c].gen
    /\ Publish(Connecting("ApplyingRoute", "Tun"))
    /\ Goto(c, "settle")
    /\ UNCHANGED <<requestedMode, gen, handle, config, running, current,
                   proxyVars, guardVars, sup, cleanup>>

AttachedProxy(c) ==
    /\ call[c].pc = "attach" /\ call[c].mode = "SystemProxy" /\ call[c].gen \in running
    /\ driver' = call[c].gen
    /\ secret' = call[c].gen
    /\ osProxy' = call[c].gen
    /\ guard' = call[c].gen
    /\ Establish(c)
    /\ UNCHANGED <<requestedMode, gen, handle, config,
                   clearFailed, asserting, guardEnabled, cleanup>>

RouteSettled(c) ==
    /\ call[c].pc = "settle"
    /\ secret' = secret
    /\ Establish(c)
    /\ UNCHANGED <<requestedMode, gen, handle, config, driver,
                   proxyVars, guardVars, cleanup>>

BugBeginRollback(c) == \* drops the handle
    /\ call[c].pc = "attach"
    /\ UNCHANGED <<driver, secret>>
    /\ Goto(c, "rollback")
    /\ handle' = 0
    /\ UNCHANGED <<state, requestedMode, gen, config, running, current,
                   proxyVars, guardVars, sup, cleanup>>

\* The driver cannot attach; or it can, and the OS proxy cannot be set: take
\* the handle, stop the kernel (an await), then `fail`.
BeginRollback(c) ==
    /\ call[c].pc = "attach"
    /\ \/ UNCHANGED <<driver, secret>>
       \/ /\ call[c].mode = "SystemProxy" /\ call[c].gen \in running
          /\ driver' = 0
          /\ secret' = call[c].gen
    /\ call' = [call EXCEPT ![c].pc = "rollback", ![c].handle = handle]
    /\ handle' = 0
    /\ UNCHANGED <<state, requestedMode, gen, config, running, current,
                   proxyVars, guardVars, sup, cleanup>>

BugRollback(c) == \* returns the error without publishing it
    /\ call[c].pc = "rollback"
    /\ IF call[c].handle # 0 THEN StopIgnored ELSE UNCHANGED <<running, current>>
    /\ Return(c)
    /\ UNCHANGED <<state, requestedMode, gen, handle, secret, config, driver,
                   proxyVars, guardVars, sup, cleanup>>

Rollback(c) ==
    /\ call[c].pc = "rollback"
    /\ IF call[c].handle # 0 THEN StopIgnored ELSE UNCHANGED <<running, current>>
    /\ Fail(c)
    /\ UNCHANGED <<requestedMode, gen, secret, config, driver,
                   proxyVars, guardVars, sup>>

-----------------------------------------------------------------------------
(* The task spawned by `fail`: driver.stop, then launcher.stop.            *)

CleanupDriver(g) ==
    /\ cleanup[g].pc = "driver"
    /\ driver' = 0
    /\ cleanup' = [cleanup EXCEPT ![g] =
                      IF cleanup[g].handle # 0 THEN [@ EXCEPT !.pc = "stop"] ELSE NoTask]
    /\ UNCHANGED <<state, requestedMode, gen, handle, secret, config, running,
                   current, proxyVars, guardVars, sup, call>>

CleanupStop(g) ==
    /\ cleanup[g].pc = "stop"
    /\ StopIgnored
    /\ cleanup' = [cleanup EXCEPT ![g] = NoTask]
    /\ UNCHANGED <<state, requestedMode, gen, handle, secret, config, driver,
                   proxyVars, guardVars, sup, call>>

-----------------------------------------------------------------------------
(* disconnect.                                                             *)

BugBeginDisconnect(c) == \* goes by the mode the user asked for
    /\ call[c].pc = "idle" /\ MayCall
    /\ AbortSupervisor /\ sup' = NoSup
    /\ guard' = 0
    /\ secret' = 0
    /\ ClearProxyIf(requestedMode)
    /\ call' = [call EXCEPT ![c] = [IdleCall EXCEPT !.pc = "detach", !.mode = state.mode]]
    /\ UNCHANGED <<state, requestedMode, gen, handle, config, driver,
                   asserting, guardEnabled, cleanup>>

\* Up to its first await: abort supervisor and guard, forget the secret,
\* read the state, clear the OS proxy if its mode is SystemProxy.
BeginDisconnect(c) ==
    /\ call[c].pc = "idle" /\ MayCall
    /\ AbortSupervisor /\ sup' = NoSup
    /\ guard' = 0
    /\ secret' = 0
    /\ ClearProxyIf(state.mode)
    /\ call' = [call EXCEPT ![c] = [IdleCall EXCEPT !.pc = "detach", !.mode = state.mode]]
    /\ UNCHANGED <<state, requestedMode, gen, handle, config, driver,
                   asserting, guardEnabled, cleanup>>

\* driver.stop, then the handle: without one there is nothing to stop.
Detach(c) ==
    /\ call[c].pc = "detach"
    /\ driver' = 0
    /\ handle' = 0
    /\ IF handle # 0
       THEN /\ call' = [call EXCEPT ![c].pc = "stop", ![c].handle = handle]
            /\ UNCHANGED state
       ELSE Publish(Disconnected) /\ Return(c)
    /\ UNCHANGED <<requestedMode, gen, secret, config, running, current,
                   proxyVars, guardVars, sup, cleanup>>

BugStopped(c) == \* does not wait for the launcher
    /\ call[c].pc = "stop"
    /\ Publish(Disconnected)
    /\ Return(c)
    /\ UNCHANGED <<requestedMode, gen, handle, secret, config, driver, running,
                   current, proxyVars, guardVars, sup, cleanup>>

Stopped(c) ==
    /\ call[c].pc = "stop"
    /\ StopOk
    /\ Publish(Disconnected)
    /\ Return(c)
    /\ UNCHANGED <<requestedMode, gen, handle, secret, config, driver,
                   proxyVars, guardVars, sup, cleanup>>

\* launcher.stop failed or timed out; a call that found the manager already
\* Disconnected ignores that.
StopFailed(c) ==
    /\ call[c].pc = "stop"
    /\ StopErr
    /\ Publish(IF call[c].mode = "none" THEN Disconnected ELSE Error(call[c].mode))
    /\ Return(c)
    /\ UNCHANGED <<requestedMode, gen, handle, secret, config, driver,
                   proxyVars, guardVars, sup, cleanup>>

-----------------------------------------------------------------------------
(* The supervisor.                                                         *)

HeartbeatOk ==
    /\ sup.pc = "watch"
    /\ sup.addr \in running /\ sup.secret = sup.addr
    /\ sup' = [sup EXCEPT !.misses = 0]
    /\ UNCHANGED <<state, requestedMode, gen, resources, proxyVars, guardVars,
                   call, cleanup>>

\* A dead kernel, a wrong secret, or a kernel too slow to answer.
HeartbeatMiss ==
    /\ sup.pc = "watch" /\ sup.misses + 1 < TerminalMisses
    /\ sup' = [sup EXCEPT !.misses = @ + 1]
    /\ UNCHANGED <<state, requestedMode, gen, resources, proxyVars, guardVars,
                   call, cleanup>>

BugTeardown == \* reaps the kernel and leaves the OS proxy
    /\ handle' = 0
    /\ IF handle # 0 THEN StopOk ELSE UNCHANGED <<running, current>>
    /\ Publish(Error(sup.mode))
    /\ sup' = NoSup
    /\ UNCHANGED <<requestedMode, gen, secret, config, driver, proxyVars,
                   guardVars, call, cleanup>>

\* teardown_after_failure.  DirectLauncher::stop reaches no await, so with it
\* the whole teardown is one step; a remote stop is a round trip.
Teardown ==
    /\ ClearProxyIf(sup.mode)
    /\ handle' = 0
    /\ IF handle # 0 /\ Launcher = "remote"
       THEN /\ sup' = [sup EXCEPT !.pc = "stopping", !.handle = handle]
            /\ UNCHANGED <<state, running, current>>
       ELSE /\ IF handle # 0 THEN StopOk ELSE UNCHANGED <<running, current>>
            /\ Publish(Error(sup.mode))
            /\ sup' = NoSup
    /\ UNCHANGED <<requestedMode, gen, secret, config, driver, guardVars,
                   call, cleanup>>

BugHeartbeatTerminal == \* escalates only when a proxy is at stake
    /\ sup.pc = "watch" /\ sup.misses + 1 >= TerminalMisses
    /\ sup.mode = "SystemProxy"
    /\ Teardown

HeartbeatTerminal ==
    /\ sup.pc = "watch" /\ sup.misses + 1 >= TerminalMisses
    /\ Teardown

\* The launcher's failure stream delivered an exit (DirectLauncher only).
FailureReceived ==
    /\ sup.pc = "watch" /\ sup.note
    /\ Teardown

TeardownStopped ==
    /\ sup.pc = "stopping"
    /\ StopIgnored
    /\ Publish(Error(sup.mode))
    /\ sup' = NoSup
    /\ UNCHANGED <<requestedMode, gen, handle, secret, config, driver,
                   proxyVars, guardVars, call, cleanup>>

-----------------------------------------------------------------------------
(* The system-proxy guard.                                                 *)

Guarding == state.kind = "Connected" /\ state.mode = "SystemProxy"

BugGuardDrift == \* ignores the switch
    /\ guard # 0 /\ guard \notin asserting /\ Guarding
    /\ osProxy # guard
    /\ asserting' = asserting \cup {guard}
    /\ UNCHANGED <<state, requestedMode, gen, resources, proxyVars, guard,
                   guardEnabled, sup, call, cleanup>>

\* A tick that finds the OS proxy elsewhere; the read lock stays held.
GuardDrift ==
    /\ guard # 0 /\ guard \notin asserting /\ Guarding
    /\ guardEnabled /\ osProxy # guard
    /\ asserting' = asserting \cup {guard}
    /\ UNCHANGED <<state, requestedMode, gen, resources, proxyVars, guard,
                   guardEnabled, sup, call, cleanup>>

\* set succeeds or fails; an abort in the meantime does not reach this code.
GuardAssert(g) ==
    /\ g \in asserting
    /\ asserting' = asserting \ {g}
    /\ osProxy' \in {osProxy, g}
    /\ UNCHANGED <<state, requestedMode, gen, resources, clearFailed, guard,
                   guardEnabled, sup, call, cleanup>>

GuardQuit ==
    /\ guard # 0 /\ guard \notin asserting /\ ~Guarding
    /\ guard' = 0
    /\ UNCHANGED <<state, requestedMode, gen, resources, proxyVars, asserting,
                   guardEnabled, sup, call, cleanup>>

-----------------------------------------------------------------------------
(* Settings and environment.                                               *)

SetRequestedMode ==
    /\ \E m \in Modes : requestedMode' = m
    /\ UNCHANGED <<state, gen, resources, proxyVars, guardVars, sup, call, cleanup>>

SetProxyGuardEnabled ==
    /\ guardEnabled' \in GuardSettings
    /\ UNCHANGED <<state, requestedMode, gen, resources, proxyVars, guard,
                   asserting, sup, call, cleanup>>

\* A kernel dies.  A subscribed supervisor hears of it from DirectLauncher.
KernelExit(k) ==
    /\ k \in running
    /\ running' = running \ {k}
    /\ sup' = IF Launcher = "direct" /\ sup.pc = "watch"
              THEN [sup EXCEPT !.note = TRUE] ELSE sup
    /\ UNCHANGED <<state, requestedMode, gen, handle, secret, config, driver,
                   current, proxyVars, guardVars, call, cleanup>>

\* Another application, or the user, changes the OS proxy.
ProxyDrift ==
    /\ osProxy # 0
    /\ osProxy' = 0
    /\ UNCHANGED <<state, requestedMode, gen, resources, clearFailed, guardVars,
                   sup, call, cleanup>>

-----------------------------------------------------------------------------
ConnectStep(c) ==
    \/ Fetched(c) \/ Elevated(c) \/ ConfigWritten(c) \/ FailEarly(c)
    \/ Spawned(c) \/ SpawnFailed(c)
    \/ AttachedTun(c) \/ AttachedProxy(c) \/ RouteSettled(c)
    \/ BeginRollback(c) \/ Rollback(c)

DisconnectStep(c) == Detach(c) \/ Stopped(c) \/ StopFailed(c)

Heartbeat == HeartbeatOk \/ HeartbeatMiss \/ HeartbeatTerminal
Supervisor == Heartbeat \/ FailureReceived \/ TeardownStopped

Next ==
    \/ \E c \in Calls : \/ BeginConnect(c) \/ ConnectStep(c)
                        \/ BeginDisconnect(c) \/ DisconnectStep(c)
    \/ \E g \in Gens : CleanupDriver(g) \/ CleanupStop(g)
    \/ Supervisor
    \/ GuardDrift \/ (\E g \in Gens : GuardAssert(g)) \/ GuardQuit
    \/ SetRequestedMode \/ SetProxyGuardEnabled
    \/ (\E k \in Gens : KernelExit(k)) \/ ProxyDrift

Spec == Init /\ [][Next]_vars

\* The runtime polls every task it owns: calls, clean-ups, the supervisor's
\* ticker and the guard progress; users and the environment owe nothing.
Fairness ==
    /\ \A c \in Calls : WF_vars(ConnectStep(c)) /\ WF_vars(DisconnectStep(c))
    /\ \A g \in Gens : WF_vars(CleanupDriver(g) \/ CleanupStop(g)) /\ WF_vars(GuardAssert(g))
    /\ WF_vars(Heartbeat) /\ WF_vars(FailureReceived) /\ WF_vars(TeardownStopped)

FairSpec == Spec /\ Fairness

-----------------------------------------------------------------------------
(* Properties.                                                             *)

CallPcs == {"idle", "fetch", "elevate", "write", "spawn", "attach", "rollback",
            "settle", "detach", "stop"}
OptModes == Modes \cup {"none"}

States == [kind : {"Disconnected", "Connecting", "Connected", "Error"},
           mode : OptModes, stage : Stages \cup {"none"}, port : OptGen]
SupStates == [pc : {"none", "watch", "stopping"}, mode : OptModes,
              addr : OptGen, secret : OptGen, misses : 0..TerminalMisses - 1,
              note : BOOLEAN, handle : OptGen]
CallStates == [pc : CallPcs, gen : OptGen, mode : OptModes, handle : OptGen]
TaskStates == [pc : {"none", "driver", "stop"}, handle : OptGen]

\* Every variable is in its range; the miss streak never reaches the
\* terminal threshold (the heartbeat escalates instead, manager.rs).
TypeOK ==
    /\ state \in States
    /\ requestedMode \in Modes
    /\ gen \in OptGen
    /\ handle \in OptGen /\ secret \in OptGen /\ config \in OptGen
    /\ driver \in OptGen /\ current \in OptGen /\ osProxy \in OptGen
    /\ running \subseteq Gens
    /\ guard \in OptGen /\ asserting \subseteq Gens /\ guardEnabled \in GuardSettings
    /\ sup \in SupStates
    /\ call \in [Calls -> CallStates]
    /\ cleanup \in [Gens -> TaskStates]
    /\ clearFailed \subseteq Gens

\* Once the manager rests in Disconnected or Error, the OS proxy does not
\* point at a port of ours, unless the OS refused to clear it: neither a
\* failed connect, nor a disconnect, nor a crash strands the machine on a
\* dead port (manager.rs, disconnect and teardown_after_failure).
ProxyReleased ==
    /\ NoCallInFlight
    /\ state.kind \in {"Disconnected", "Error"}
    => osProxy \in {0} \cup clearFailed

\* Once anything but Connected is told, nothing but a connect points the OS
\* proxy at a port of ours: the guard's check of the state and its two calls
\* into the OS count as one, whichever connects, disconnects, teardowns and
\* changes of its switch fall between them (start_sysproxy_guard; the abort of
\* its task does not reach code that is running).
GuardStaysInConnected ==
    [][state.kind # "Connected" /\ state'.kind # "Connected"
          => osProxy' \in {0, osProxy}]_vars

\* A failed connect leaves no kernel behind once its clean-up has run:
\* "partial work is rolled back" (the comment on connect).
FailureIsRolledBack ==
    /\ NoCallInFlight /\ state.kind = "Error" /\ sup.pc = "none"
    /\ \A g \in Gens : cleanup[g].pc = "none"
    => running = {}

\* Every kernel process alive has somebody who will stop it: the manager's
\* handle, a call or clean-up that took it, or a teardown in progress.
KernelHasOwner ==
    \A k \in running :
        \/ k = handle
        \/ \E c \in Calls : call[c].handle = k
        \/ \E g \in Gens : cleanup[g].handle = k
        \/ sup.handle = k

\* A launch handle is in one place at a time, so no kernel is stopped on
\* behalf of two owners (`handle.write().take()` everywhere).
HandleHeldOnce ==
    \A k \in Gens :
        Cardinality({c \in Calls : call[c].handle = k})
        + Cardinality({g \in Gens : cleanup[g].handle = k})
        + (IF handle = k THEN 1 ELSE 0) + (IF sup.handle = k THEN 1 ELSE 0) <= 1

\* While the user sees Connected and nobody is taking the connection down,
\* the supervisor watches the very kernel the manager would stop, with the
\* secret that kernel accepts, in the mode the user sees.
ConnectedIsSupervised ==
    state.kind = "Connected" /\ NoCallInFlight =>
        /\ sup.pc # "none" /\ sup.mode = state.mode
        /\ sup.pc = "watch" =>
              handle = state.port /\ current = handle
              /\ sup.addr = handle /\ sup.secret = handle

\* In SystemProxy mode a live guard protects the very port the user is
\* connected through.
ConnectedIsGuarded ==
    state.kind = "Connected" /\ state.mode = "SystemProxy" /\ NoCallInFlight =>
        guard = state.port

\* A connection the user sees is supervised and, where it has to be, guarded.
ConnectedIsKept == ConnectedIsSupervised /\ ConnectedIsGuarded

\* The manager implements the abstract contract: "the proxy is ours" unless
\* the OS refused to give it up, "the kernel is ours" while a launcher slot
\* is.
Lifecycle == INSTANCE ConnectionLifecycle WITH
    phase <- state.kind,
    proxy <- osProxy \in Gens \ clearFailed,
    kernel <- current # 0
ImplementsLifecycle == Lifecycle!Spec

\* A kernel that died under a Connected state is noticed, with or without a
\* failure stream: the user is eventually told otherwise.
CrashIsNoticed ==
    (state.kind = "Connected" /\ state.port \notin running)
        ~> (state.kind # "Connected")

\* The OS proxy does not point for ever at a port nobody listens on.
DeadPortIsReleased ==
    \A g \in Gens :
        (osProxy = g /\ g \notin running) ~> (osProxy # g \/ g \in clearFailed)

\* Connecting is a passing state: every connect ends.
ConnectSettles == (state.kind = "Connecting") ~> (state.kind # "Connecting")
=============================================================================

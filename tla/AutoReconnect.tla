----------------------------- MODULE AutoReconnect -----------------------------
(***************************************************************************)
(* The bounded auto-reconnect of the desktop front end: the Pinia store    *)
(* desktop/src/stores/connection.ts, driven by the Home page, by the tray  *)
(* and by the events the forwarders of src-tauri/src/lib.rs send it.       *)
(*                                                                         *)
(* JavaScript runs one callback at a time, up to its next await; each such *)
(* callback is one step.  Commands of the store run concurrently in the    *)
(* kernel manager (module KernelManager), of which only what starts or     *)
(* stops a supervised kernel appears.  The state shown, the traffic poll   *)
(* and the proxy list are data the loop never reads and are left out; what *)
(* the user does is not restrained by the state shown, since the tray is   *)
(* not either.                                                             *)
(*                                                                         *)
(* The behaviour has names of its own (LoopInit, LoopNext, LoopSpec), so   *)
(* that one module can extend this one and HomeControls, which models the  *)
(* rest of the same store.                                                 *)
(***************************************************************************)
EXTENDS Naturals, FiniteSets

CONSTANTS
    Calls,      \* Tauri commands under way at a time
    Visits,     \* runs of hydrate under way at a time
    MaxOps,     \* bound: deliberate connects, disconnects and mode changes
    MaxCrashes, \* bound: kernel exits
    MaxVisits   \* bound: runs of hydrate

ASSUME ReconnectAssumption == {MaxOps, MaxCrashes, MaxVisits} \subseteq Nat

VARIABLES
    watched,      \* the manager supervises a running kernel
    opened,       \* "connected" states on their way to the front end
    exits,        \* "exited" events on their way to the front end
    calls,        \* the commands under way
    reconnecting, \* the banner
    cancelled,    \* reconnectCancelled
    timer,        \* attempt of the pending timer reconnectTimer refers to
    lost,         \* pending timers, by attempt, whose handle was overwritten
    listeners,    \* callbacks registered for each event
    unlisten,     \* events for which the store holds a handle to unlisten
    hydrating,    \* what each run of hydrate awaits
    mounted,      \* the Home page is shown
    count,        \* bounded counters
    crashSeen,    \* history: an exit was handled since the last cancel
    off           \* history: the user's last action, no other under way, was a disconnect

arriving == <<opened, exits>>
loop == <<reconnecting, cancelled, timer, lost, crashSeen>>
visiting == <<listeners, unlisten, hydrating, mounted>>
loopVars == <<watched, opened, exits, calls, reconnecting, cancelled, timer, lost,
              listeners, unlisten, hydrating, mounted, count, crashSeen, off>>

Attempts == 3 \* RECONNECT_BACKOFFS_MS.length
NoTimer == Attempts + 1
TimerSlots == (0..Attempts - 1) \cup {NoTimer}
Events == {"state", "failure"}
NoCall == [pc |-> "idle", op |-> "connect", attempt |-> NoTimer, andConnect |-> FALSE, ok |-> FALSE]

\* attempt tells who sent a connect: NoTimer stands for a deliberate one.
ByLoop(c) == calls[c].attempt # NoTimer

CallType == [pc : {"idle", "sent", "answered"}, op : {"connect", "disconnect"},
             attempt : TimerSlots, andConnect : BOOLEAN, ok : BOOLEAN]

LoopTypeOK ==
    /\ {watched, reconnecting, cancelled, mounted, crashSeen, off} \subseteq BOOLEAN
    /\ {opened, exits} \subseteq Nat
    /\ calls \in [Calls -> CallType]
    /\ timer \in TimerSlots
    /\ lost \in [0..Attempts - 1 -> Nat]
    /\ listeners \in [Events -> Nat]
    /\ unlisten \subseteq Events
    /\ hydrating \in [Visits -> {"none", "snapshot"} \cup Events]
    /\ count \in [ops : 0..MaxOps, crashes : 0..MaxCrashes, visits : 0..MaxVisits, reconnects : Nat]

LoopInit ==
    /\ watched = FALSE /\ opened = 0 /\ exits = 0
    /\ calls = [c \in Calls |-> NoCall]
    /\ reconnecting = FALSE /\ cancelled = FALSE
    /\ timer = NoTimer /\ lost = [a \in 0..Attempts - 1 |-> 0]
    /\ listeners = [e \in Events |-> 0] /\ unlisten = {}
    /\ hydrating = [h \in Visits |-> "none"] /\ mounted = FALSE
    /\ count = [ops |-> 0, crashes |-> 0, visits |-> 0, reconnects |-> 0]
    /\ crashSeen = FALSE /\ off = FALSE

Count(k) == count' = [count EXCEPT ![k] = @ + 1]

-----------------------------------------------------------------------------
(* The kernel manager, as far as the loop can tell.                        *)

Answer(c, ok) == calls' = [calls EXCEPT ![c].pc = "answered", ![c].ok = ok]

\* connect and reconnect publish Connected, start a supervisor and answer with
\* that state (read again at once: a change in between is left out).
ConnectSucceeds(c) ==
    /\ calls[c].pc = "sent" /\ calls[c].op = "connect"
    /\ watched' = TRUE
    /\ opened' = opened + 1
    /\ Answer(c, TRUE)
    /\ UNCHANGED <<exits, loop, visiting, count, off>>

\* A command refused (not signed in, nothing to restore) touches nothing; a
\* connect that fails later also stops the kernel that was running.
ConnectErrs(c) ==
    /\ calls[c].pc = "sent" /\ calls[c].op = "connect"
    /\ watched' \in {watched, FALSE}
    /\ Answer(c, FALSE)
    /\ UNCHANGED <<arriving, loop, visiting, count, off>>

\* disconnect stops the kernel whatever fails on the way; only its answer
\* tells.
DisconnectEnds(c) ==
    /\ calls[c].pc = "sent" /\ calls[c].op = "disconnect"
    /\ watched' = FALSE
    /\ \E ok \in BOOLEAN : Answer(c, ok)
    /\ UNCHANGED <<arriving, loop, visiting, count, off>>

KernelExits ==
    /\ watched /\ count.crashes < MaxCrashes
    /\ Count("crashes")
    /\ watched' = FALSE
    /\ exits' = exits + 1
    /\ UNCHANGED <<opened, calls, loop, visiting, off>>

-----------------------------------------------------------------------------
(* The auto-reconnect loop.                                                *)

BugCancelReconnect == \* clears the timer, leaves the flag
    /\ UNCHANGED <<cancelled, lost>>
    /\ timer' = NoTimer
    /\ reconnecting' = FALSE
    /\ crashSeen' = FALSE

CancelReconnect ==
    /\ cancelled' = TRUE
    /\ timer' = NoTimer
    /\ UNCHANGED lost
    /\ reconnecting' = FALSE
    /\ crashSeen' = FALSE

\* The handles of n timers are overwritten, one of them the pending one.
Forget(n) ==
    lost' = [a \in 0..Attempts - 1 |->
                lost[a] + (IF a = timer THEN 1 ELSE 0) + (IF a = 0 THEN n ELSE 0)]

BugScheduleReconnect(attempt) == \* gives up with the banner still up
    IF attempt >= Attempts
    THEN UNCHANGED <<reconnecting, cancelled, timer, lost>>
    ELSE cancelled' = FALSE /\ reconnecting' = TRUE /\ timer' = attempt /\ Forget(0)

ScheduleReconnect(attempt) ==
    IF attempt >= Attempts
    THEN reconnecting' = FALSE /\ UNCHANGED <<cancelled, timer, lost>>
    ELSE cancelled' = FALSE /\ reconnecting' = TRUE /\ timer' = attempt /\ Forget(0)

\* A timer fires.  One that was overwritten cannot be cleared, but looks at
\* the flag.
Fire(attempt, c) ==
    /\ calls[c].pc = "idle"
    /\ IF cancelled THEN UNCHANGED <<calls, count>>
       ELSE /\ calls' = [calls EXCEPT ![c] = [NoCall EXCEPT !.pc = "sent", !.attempt = attempt]]
            /\ Count("reconnects")
    /\ UNCHANGED <<watched, arriving, reconnecting, cancelled, crashSeen, visiting, off>>

TimerFires(c) == timer # NoTimer /\ timer' = NoTimer /\ UNCHANGED lost /\ Fire(timer, c)

LostTimerFires(c) ==
    \E a \in 0..Attempts - 1 :
        /\ lost[a] > 0
        /\ lost' = [lost EXCEPT ![a] = @ - 1]
        /\ UNCHANGED timer
        /\ Fire(a, c)

ReconnectAnswered(c) ==
    /\ calls[c].pc = "answered" /\ ByLoop(c)
    /\ calls' = [calls EXCEPT ![c] = NoCall]
    /\ IF calls[c].ok
       THEN reconnecting' = FALSE /\ UNCHANGED <<cancelled, timer, lost>>
       ELSE IF cancelled
            THEN UNCHANGED <<reconnecting, cancelled, timer, lost>>
            ELSE ScheduleReconnect(calls[c].attempt + 1)
    /\ UNCHANGED <<watched, arriving, crashSeen, visiting, count, off>>

-----------------------------------------------------------------------------
(* Deliberate actions: Home's button, the tray, a mode change.             *)

Send(c, op, andConnect) ==
    calls' = [calls EXCEPT ![c] = [NoCall EXCEPT !.pc = "sent", !.op = op, !.andConnect = andConnect]]

Deliberate(c) ==
    /\ calls[c].pc = "idle" /\ count.ops < MaxOps
    /\ Count("ops")
    /\ CancelReconnect
    /\ UNCHANGED <<watched, arriving, visiting>>

OnlyLoop(C) == \A c \in C : calls[c].pc = "idle" \/ ByLoop(c)

Connect(c) == Deliberate(c) /\ Send(c, "connect", FALSE) /\ off' = FALSE
Disconnect(c) == Deliberate(c) /\ Send(c, "disconnect", FALSE) /\ off' = OnlyLoop(Calls \ {c})

\* setMode, once the mode is sent, disconnects and then connects if the view
\* says connected (and otherwise leaves the loop alone).
SetMode(c) == Deliberate(c) /\ Send(c, "disconnect", TRUE) /\ off' = FALSE

ConnectAnswered(c) ==
    /\ calls[c].pc = "answered" /\ calls[c].op = "connect" /\ ~ByLoop(c)
    /\ calls' = [calls EXCEPT ![c] = NoCall]
    /\ UNCHANGED <<watched, arriving, loop, visiting, count, off>>

DisconnectAnswered(c) ==
    /\ calls[c].pc = "answered" /\ calls[c].op = "disconnect"
    /\ IF calls[c].andConnect /\ calls[c].ok
       THEN Send(c, "connect", FALSE) /\ CancelReconnect
       ELSE calls' = [calls EXCEPT ![c] = NoCall] /\ UNCHANGED loop
    /\ UNCHANGED <<watched, arriving, visiting, count, off>>

-----------------------------------------------------------------------------
(* The listeners.  An event nobody listens to is lost.                     *)

ConnectedEvent ==
    /\ opened > 0 /\ opened' = opened - 1
    /\ reconnecting' = (reconnecting /\ listeners["state"] = 0)
    /\ UNCHANGED <<watched, exits, calls, cancelled, timer, lost, crashSeen, visiting, count, off>>

\* Each callback registered schedules a loop of its own.
ExitedEvent ==
    /\ exits > 0 /\ exits' = exits - 1
    /\ IF listeners["failure"] = 0 THEN UNCHANGED loop
       ELSE /\ cancelled' = FALSE /\ reconnecting' = TRUE
            /\ timer' = 0 /\ Forget(listeners["failure"] - 1)
            /\ crashSeen' = TRUE
    /\ UNCHANGED <<watched, opened, calls, visiting, count, off>>

-----------------------------------------------------------------------------
(* The Home page hydrates the store when it is shown and disposes of it    *)
(* when it is left.                                                        *)

Hydrate(h) ==
    /\ ~mounted /\ hydrating[h] = "none" /\ count.visits < MaxVisits
    /\ Count("visits")
    /\ mounted' = TRUE
    /\ hydrating' = [hydrating EXCEPT ![h] = "snapshot"]
    /\ UNCHANGED <<watched, arriving, calls, loop, listeners, unlisten, off>>

\* The store looks for the handle before it awaits the registration.
NextListen(h, which) ==
    hydrating' = [hydrating EXCEPT ![h] =
        IF "state" \in which THEN "state" ELSE IF "failure" \in which THEN "failure" ELSE "none"]

SnapshotRead(h) ==
    /\ hydrating[h] = "snapshot"
    /\ NextListen(h, Events \ unlisten)
    /\ UNCHANGED <<watched, arriving, calls, loop, listeners, unlisten, mounted, count, off>>

Listening(h) ==
    /\ hydrating[h] \in Events
    /\ listeners' = [listeners EXCEPT ![hydrating[h]] = @ + 1]
    /\ unlisten' = unlisten \cup {hydrating[h]}
    /\ NextListen(h, (Events \ {"state"}) \ unlisten')
    /\ UNCHANGED <<watched, arriving, calls, loop, mounted, count, off>>

BugDispose == \* drops the handles without calling them
    /\ mounted /\ mounted' = FALSE
    /\ CancelReconnect
    /\ UNCHANGED listeners
    /\ unlisten' = {}
    /\ UNCHANGED <<watched, arriving, calls, hydrating, count, off>>

Dispose ==
    /\ mounted /\ mounted' = FALSE
    /\ CancelReconnect
    /\ listeners' = [e \in Events |-> listeners[e] - IF e \in unlisten THEN 1 ELSE 0]
    /\ unlisten' = {}
    /\ UNCHANGED <<watched, arriving, calls, hydrating, count, off>>

-----------------------------------------------------------------------------
Manager(c) == ConnectSucceeds(c) \/ ConnectErrs(c) \/ DisconnectEnds(c)
CallAnswered(c) == ReconnectAnswered(c) \/ ConnectAnswered(c) \/ DisconnectAnswered(c)
Timer(c) == TimerFires(c) \/ LostTimerFires(c)

LoopNext ==
    \/ \E c \in Calls : \/ Manager(c) \/ CallAnswered(c) \/ Timer(c)
                        \/ Connect(c) \/ Disconnect(c) \/ SetMode(c)
    \/ KernelExits \/ ConnectedEvent \/ ExitedEvent
    \/ \E h \in Visits : Hydrate(h) \/ SnapshotRead(h) \/ Listening(h)
    \/ Dispose

LoopSpec == LoopInit /\ [][LoopNext]_loopVars

\* Commands return (every await in them has a timeout), their answers are
\* delivered, timers fire.
Fairness ==
    /\ \A c \in Calls : WF_loopVars(Manager(c)) /\ WF_loopVars(CallAnswered(c))
    /\ WF_loopVars(\E c \in Calls : Timer(c))

FairLoop == LoopSpec /\ Fairness

-----------------------------------------------------------------------------
(* Properties.                                                             *)

\* An automatic reconnect starts only on account of an exit handled after the
\* last deliberate connect, disconnect or mode change, and after Home was last
\* left -- a timer the store lost track of included (connection.ts:66-67, "so
\* an in-flight auto-reconnect doesn't fight a deliberate action").
ReconnectNeedsCrash == [][count'.reconnects > count.reconnects => crashSeen]_loopVars

\* "Bounded auto-reconnect": however loops and visits of the page overlap, an
\* exit of the kernel costs at most three attempts.
ReconnectsAreBounded == count.reconnects <= Attempts * count.crashes

\* The reconnecting banner always comes down.
LoopEnds == reconnecting ~> ~reconnecting

\* "A deliberate disconnect cancels any in-flight auto-reconnect": when the
\* user's last action was a disconnect, it has ended, and no exit was handled
\* since, no kernel comes up.
DisconnectCancels == off /\ ~crashSeen /\ OnlyLoop(Calls) => ~watched
=============================================================================

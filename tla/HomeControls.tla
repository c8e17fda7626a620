----------------------------- MODULE HomeControls -----------------------------
(***************************************************************************)
(* The desktop's Home page and what it shows and drives of a running       *)
(* kernel: the heartbeat of the supervisor and the traffic sampler, which  *)
(* share the flag in_unresponsive and report its changes (core manager.rs),*)
(* the forwarders of the state and of the health channel (desktop lib.rs), *)
(* the listeners and the traffic poll of the connection store, and the     *)
(* selection of a node, its restoration after a connect and the geo probe  *)
(* that selects a node too (commands/connection.rs, stores/connection.ts,  *)
(* pages/Home.vue).                                                        *)
(*                                                                         *)
(* connect and disconnect have here the steps the screen can see; what     *)
(* they do is the subject of KernelManager.  The user waits for what it    *)
(* asked for, calls that overlap are in KernelManager and AutoReconnect.   *)
(* A swap of the flag and the send it leads to are two steps: they run on  *)
(* different threads, and nothing orders the sends.                        *)
(***************************************************************************)
EXTENDS Naturals, Sequences

CONSTANTS
    Nodes,          \* of the primary group
    Default,        \* the node a kernel starts with
    None,
    TrafficFails,   \* TRAFFIC_FAIL_THRESHOLD
    HeartbeatFails, \* HEARTBEAT_FAIL_THRESHOLD
    TerminalMisses, \* HEARTBEAT_TERMINAL_THRESHOLD
    MaxEvents       \* bound: what the user does and what befalls the kernel

ASSUME HomeAssumption ==
    /\ Default \in Nodes /\ None \notin Nodes \cup {"Unresponsive", "Healthy", "Exited"}
    /\ TrafficFails \in Nat \ {0} /\ HeartbeatFails \in Nat \ {0}
    /\ TerminalMisses \in Nat /\ HeartbeatFails < TerminalMisses
    /\ MaxEvents \in Nat

VARIABLES
    scene,   \* bound: what the environment does, "stalls" or "choices"
    mstate,  \* KernelManager::state
    kernel,  \* the kernel of the stored handle: "none", "ok", "hung", "gone"
    orphan,  \* the one the supervisor probes, when a later connect replaced it
    sup,     \* the supervisor task
    sampler, \* the event current_traffic has to send
    flag,    \* in_unresponsive
    streak,  \* traffic_err_streak
    states,  \* published states the window has not heard of
    health,  \* health events the window has not heard of
    cmd,     \* connect, reconnect or disconnect under way: its next step
    page,    \* "home", "away", "snapshot": hydrate between read and listen
    shown,   \* connection.state of the store
    cause,   \* lastErrorCause
    polling, \* the traffic poll has its timer
    retry,   \* a reconnect is scheduled
    now,     \* what the selector of the kernel has chosen
    saved,   \* the user's choice in localStorage
    seen,    \* the choice in the store's proxy list; None: an empty list
    list,    \* refreshProxies under way: "idle", "asked", "chained" to a restore
    restore, \* restoreSelections has a choice to put back
    sel,     \* the node the user is selecting
    geo,     \* the geo probe under way
    located, \* nodes the page has a location for
    events,
    mishaps  \* history: what went wrong that nothing repairs

core == <<mstate, kernel, orphan, sup, sampler, flag, streak>>
channels == <<states, health>>
screen == <<page, shown, cause, polling, retry>>
nodes == <<now, saved, seen, list, restore, sel, geo, located>>
bounds == <<events, mishaps>>
vars == <<scene, core, channels, cmd, screen, nodes, bounds>>

NoSup == [pc |-> "off", misses |-> 0, note |-> None, stale |-> FALSE]
NoProbe == [pc |-> "idle", node |-> None, before |-> None]

\* In a scene of stalls nobody selects a node and the page knows the places of
\* all; in one of choices the kernel never stalls.
Init ==
    /\ scene \in {"stalls", "choices"}
    /\ mstate = "Disconnected" /\ kernel = "none" /\ orphan = "none"
    /\ sup = NoSup /\ sampler = None /\ flag = FALSE /\ streak = 0
    /\ states = <<>> /\ health = <<>> /\ cmd = "idle"
    /\ page = "home" /\ shown = "Disconnected" /\ cause = None
    /\ polling = FALSE /\ retry = FALSE
    /\ now = None /\ seen = None
    /\ saved \in IF scene = "choices" THEN Nodes \cup {None} ELSE {None}
    /\ list = "idle" /\ restore = FALSE /\ sel = None /\ geo = NoProbe
    /\ located = IF scene = "choices" THEN {} ELSE Nodes
    /\ events = 0 /\ mishaps = {}

Event == events < MaxEvents /\ events' = events + 1
Publish(s) == mstate' = s /\ states' = Append(states, s)
Report(e) == health' = Append(health, e)
Answers == mstate = "Connected" /\ kernel = "ok"

\* Everything asked for has been answered and heard of.
Heard ==
    /\ states = <<>> /\ health = <<>> /\ cmd = "idle" /\ page # "snapshot"
    /\ sup.note = None /\ sampler = None /\ sup.pc \in {"off", "on"}
Settled == Heard /\ list = "idle" /\ ~restore /\ sel = None /\ geo = NoProbe

-----------------------------------------------------------------------------
(* The supervisor and the traffic sampler: manager.rs.                     *)

Probed == IF sup.stale THEN orphan ELSE kernel

BugHeartbeatOk == \* the misses are forgotten, the flag is not
    /\ sup.pc = "on" /\ sup.note = None /\ Probed = "ok"
    /\ sup' = [sup EXCEPT !.misses = 0]
    /\ UNCHANGED <<scene, mstate, kernel, orphan, sampler, flag, streak, channels, cmd, screen, nodes,
                   bounds>>

HeartbeatOk ==
    /\ sup.pc = "on" /\ sup.note = None /\ Probed = "ok"
    /\ sup' = [sup EXCEPT !.misses = 0, !.note = IF flag THEN "Healthy" ELSE None]
    /\ flag' = FALSE
    /\ UNCHANGED <<scene, mstate, kernel, orphan, sampler, streak, channels, cmd, screen, nodes, bounds>>

BugHeartbeatMiss == \* one miss too many
    /\ sup.pc = "on" /\ sup.note = None /\ Probed # "ok"
    /\ LET n == sup.misses + 1
           stalls == n = HeartbeatFails /\ ~flag
       IN /\ sup' = [sup EXCEPT !.misses = n, !.note = IF stalls THEN "Unresponsive" ELSE None,
                                !.pc = IF n > TerminalMisses THEN "terminal" ELSE "on"]
          /\ flag' = (flag \/ stalls)
    /\ UNCHANGED <<scene, mstate, kernel, orphan, sampler, streak, channels, cmd, screen, nodes, bounds>>

HeartbeatMiss ==
    /\ sup.pc = "on" /\ sup.note = None /\ Probed # "ok"
    /\ LET n == sup.misses + 1
           stalls == n = HeartbeatFails /\ ~flag
       IN /\ sup' = [sup EXCEPT !.misses = n, !.note = IF stalls THEN "Unresponsive" ELSE None,
                                !.pc = IF n >= TerminalMisses THEN "terminal" ELSE "on"]
          /\ flag' = (flag \/ stalls)
    /\ UNCHANGED <<scene, mstate, kernel, orphan, sampler, streak, channels, cmd, screen, nodes, bounds>>

\* The other task has changed the flag again since the swap, or given up.
Late(note) ==
    mishaps' = IF (note = "Unresponsive") = flag /\ sup.pc # "teardown" THEN mishaps
               ELSE mishaps \cup {"late send"}

SendHeartbeat ==
    /\ sup.note # None
    /\ Report(sup.note) /\ Late(sup.note)
    /\ sup' = [sup EXCEPT !.note = None]
    /\ UNCHANGED <<scene, mstate, kernel, orphan, sampler, flag, streak, states, cmd, screen, nodes,
                   events>>

\* Too many misses, or the launcher reports the exit: the stored handle is
\* taken and stopped, whosever it is.
GiveUp ==
    /\ sup.note = None
    /\ sup.pc = "terminal" \/ (sup.pc = "on" /\ ~sup.stale /\ kernel = "gone")
    /\ Report("Exited")
    /\ sup' = [sup EXCEPT !.pc = "teardown"]
    /\ kernel' = "none"
    /\ UNCHANGED <<scene, mstate, orphan, sampler, flag, streak, states, cmd, screen, nodes, bounds>>

TornDown ==
    /\ sup.pc = "teardown"
    /\ Publish("Error") /\ sup' = NoSup
    /\ mishaps' = IF sampler = None THEN mishaps ELSE mishaps \cup {"late event"}
    /\ UNCHANGED <<scene, kernel, orphan, sampler, flag, streak, health, cmd, screen, nodes, events>>

\* current_traffic, called by the poll.
SampleOk ==
    /\ polling /\ sampler = None /\ Answers
    /\ sampler' = IF flag THEN "Healthy" ELSE None
    /\ flag' = FALSE /\ streak' = 0
    /\ UNCHANGED <<scene, mstate, kernel, orphan, sup, channels, cmd, screen, nodes, bounds>>

\* Errors count while the manager is connected, and the one that reaches the
\* threshold reports.
SampleFails ==
    /\ polling /\ sampler = None /\ ~Answers
    /\ LET counts == mstate = "Connected"
           stalls == counts /\ streak + 1 = TrafficFails /\ ~flag
       IN /\ streak' = IF counts /\ streak < TrafficFails THEN streak + 1 ELSE streak
          /\ flag' = (flag \/ stalls)
          /\ sampler' = IF stalls THEN "Unresponsive" ELSE None
    /\ UNCHANGED <<scene, mstate, kernel, orphan, sup, channels, cmd, screen, nodes, bounds>>

SendSample ==
    /\ sampler # None
    /\ Report(sampler) /\ Late(sampler)
    /\ sampler' = None
    /\ UNCHANGED <<scene, mstate, kernel, orphan, sup, flag, streak, states, cmd, screen, nodes, events>>

KernelHangs ==
    /\ scene = "stalls" /\ Event /\ kernel = "ok" /\ kernel' = "hung"
    /\ UNCHANGED <<scene, mstate, orphan, sup, sampler, flag, streak, channels, cmd, screen, nodes, mishaps>>

KernelResumes ==
    /\ scene = "stalls" /\ Event /\ kernel = "hung" /\ kernel' = "ok"
    /\ UNCHANGED <<scene, mstate, orphan, sup, sampler, flag, streak, channels, cmd, screen, nodes, mishaps>>

KernelDies ==
    /\ scene = "stalls" /\ Event /\ kernel \in {"ok", "hung"} /\ kernel' = "gone"
    /\ UNCHANGED <<scene, mstate, orphan, sup, sampler, flag, streak, channels, cmd, screen, nodes, mishaps>>

-----------------------------------------------------------------------------
(* connect, reconnect, disconnect.                                         *)

\* The two channels are not ordered: a health event of before a change of state
\* may be heard after it.
LateEvents(more) ==
    mishaps' = IF more \/ health # <<>> \/ sup.note # None \/ sampler # None
               THEN mishaps \cup {"late event"} ELSE mishaps

\* The button: a deliberate act takes back the scheduled reconnect.  While
\* the screen shows an error the manager may be connected all the same.
TapConnect ==
    /\ Heard /\ page = "home" /\ shown \notin {"Connected", "Connecting"}
    /\ Event
    /\ cmd' = "fetch" /\ retry' = FALSE
    /\ Publish("Connecting")
    /\ UNCHANGED <<scene, kernel, orphan, sup, sampler, flag, streak, health, page, shown, cause, polling,
                   nodes, mishaps>>

Reconnect ==
    /\ retry /\ Heard
    /\ cmd' = "fetch" /\ retry' = FALSE
    /\ Publish("Connecting")
    /\ UNCHANGED <<scene, kernel, orphan, sup, sampler, flag, streak, health, page, shown, cause, polling,
                   nodes, bounds>>

\* The new handle replaces the one of an earlier connect; the supervisor of
\* that connect goes on.
Spawn ==
    /\ cmd = "fetch"
    /\ cmd' = "attach"
    /\ kernel' = "ok" /\ now' = Default
    /\ orphan' \in IF sup.stale THEN {orphan} ELSE {kernel, "none"}
    /\ sup' = [sup EXCEPT !.stale = sup.pc # "off"]
    /\ UNCHANGED <<scene, mstate, sampler, flag, streak, channels, screen, saved, seen, list, restore, sel,
                   geo, located, bounds>>

\* Connected is published, then the supervisor and its counters start anew.
Establish ==
    /\ cmd = "attach"
    /\ cmd' = "connected"
    /\ Publish("Connected")
    /\ sup' = [NoSup EXCEPT !.pc = "on"] /\ orphan' = "none"
    /\ flag' = FALSE /\ streak' = 0
    /\ LateEvents(FALSE)
    /\ UNCHANGED <<scene, kernel, sampler, health, screen, nodes, events>>

\* fail takes the stored handle, of this connect or of an earlier one, whose
\* supervisor goes on and may yet report.
ConnectFails ==
    /\ cmd \in {"fetch", "attach"}
    /\ cmd' = "idle"
    /\ Publish("Error") /\ kernel' = "none" /\ LateEvents(sup.pc # "off")
    /\ UNCHANGED <<scene, orphan, sup, sampler, flag, streak, health, screen, nodes, events>>

\* The answer of connect and reconnect is the state when the call ended; the
\* store takes it over whatever it heard since.
Answered ==
    /\ cmd = "connected"
    /\ cmd' = "idle"
    /\ shown' = "Connected"
    /\ list' = IF list = "idle" THEN "asked" ELSE list
    /\ mishaps' = IF mstate = "Connected" THEN mishaps ELSE mishaps \cup {"late answer"}
    /\ UNCHANGED <<scene, core, channels, page, cause, polling, retry, now, saved, seen, restore, sel,
                   geo, located, events>>

TapDisconnect ==
    /\ Heard /\ page = "home" /\ shown = "Connected"
    /\ Event
    /\ cmd' = "stop" /\ retry' = FALSE
    /\ sup' = NoSup /\ orphan' = "none" /\ flag' = FALSE /\ streak' = 0
    /\ UNCHANGED <<scene, mstate, kernel, sampler, channels, page, shown, cause, polling, nodes, mishaps>>

Stopped ==
    /\ cmd = "stop"
    /\ cmd' = "idle" /\ kernel' = "none"
    /\ Publish("Disconnected") /\ LateEvents(FALSE)
    /\ UNCHANGED <<scene, orphan, sup, sampler, flag, streak, health, screen, nodes, events>>

-----------------------------------------------------------------------------
(* The window: the forwarders of lib.rs and the listeners of the store.    *)

Missed(what) == mishaps' = mishaps \cup what

HearState ==
    /\ states # <<>> /\ states' = Tail(states) /\ page = "home"
    /\ shown' = Head(states)
    /\ polling' = (shown' = "Connected")
    /\ IF shown' = "Connected" THEN cause' = None /\ list' = "chained" /\ UNCHANGED seen
       ELSE seen' = None /\ UNCHANGED <<cause, list>>
    /\ UNCHANGED <<scene, core, health, cmd, page, retry, now, saved, restore, sel, geo, located, bounds>>

\* An exit is followed by a reconnect, a stall by waiting.
HearFailure ==
    /\ health # <<>> /\ health' = Tail(health) /\ page = "home"
    /\ Head(health) \in {"Unresponsive", "Exited"}
    /\ shown' = "Error" /\ cause' = Head(health)
    /\ polling' = FALSE /\ seen' = None
    /\ retry' = (retry \/ Head(health) = "Exited")
    /\ UNCHANGED <<scene, core, states, cmd, page, now, saved, list, restore, sel, geo, located, bounds>>

BugHearHealthy == \* looks at the poll, which the failure has stopped
    /\ health # <<>> /\ health' = Tail(health) /\ page = "home"
    /\ Head(health) = "Healthy"
    /\ IF polling THEN shown' = "Connected" /\ cause' = None ELSE UNCHANGED <<shown, cause>>
    /\ UNCHANGED <<scene, core, states, cmd, page, polling, retry, now, saved, seen, list, restore, sel,
                   geo, located, bounds>>

\* Only a stall is taken back.
HearHealthy ==
    /\ health # <<>> /\ health' = Tail(health) /\ page = "home"
    /\ Head(health) = "Healthy"
    /\ IF shown = "Error" /\ cause = "Unresponsive"
       THEN /\ shown' = "Connected" /\ cause' = None /\ polling' = TRUE
            /\ list' = IF list = "idle" THEN "asked" ELSE list
       ELSE UNCHANGED <<shown, cause, polling, list>>
    /\ UNCHANGED <<scene, core, states, cmd, page, retry, now, saved, seen, restore, sel, geo, located,
                   bounds>>

\* Nobody listens.
NotHeard ==
    /\ page # "home"
    /\ \/ /\ states # <<>> /\ states' = Tail(states) /\ UNCHANGED health
          /\ Missed(IF page = "snapshot" THEN {"missed"}
                    ELSE IF Head(states) = "Connected" THEN {"no restore"} ELSE {})
       \/ /\ health # <<>> /\ health' = Tail(health) /\ UNCHANGED states
          /\ Missed(IF page = "snapshot" THEN {"missed"} ELSE {})
    /\ UNCHANGED <<scene, core, cmd, screen, nodes, events>>

\* dispose, and the end of the page's own state.
Leave ==
    /\ page = "home" /\ Event
    /\ page' = "away" /\ polling' = FALSE /\ retry' = FALSE
    /\ located' = IF scene = "choices" THEN {} ELSE located
    /\ UNCHANGED <<scene, core, channels, cmd, shown, cause, now, saved, seen, list, restore, sel, geo,
                   mishaps>>

\* hydrate reads the state, and then listens.
Snapshot ==
    /\ page = "away"
    /\ page' = "snapshot" /\ shown' = mstate
    /\ UNCHANGED <<scene, core, channels, cmd, cause, polling, retry, nodes, bounds>>

Listen ==
    /\ page = "snapshot"
    /\ page' = "home" /\ polling' = (shown = "Connected")
    /\ list' = IF list = "idle" /\ shown = "Connected" THEN "asked" ELSE list
    /\ UNCHANGED <<scene, core, channels, cmd, shown, cause, retry, now, saved, seen, restore, sel, geo,
                   located, bounds>>

-----------------------------------------------------------------------------
(* The nodes: proxies, select_proxy, node_geo_test.                        *)

\* A choice made, or checked, between the read and the end of a probe.
Crossing == IF geo.pc \in {"put", "lookup"} THEN {"crossed"} ELSE {}

\* refreshProxies; a connect chains restoreSelections to it.  The page probes
\* the node it has no location for when the list changes.
Listed ==
    /\ list # "idle" /\ list' = "idle"
    /\ seen' = IF Answers THEN now ELSE None
    /\ restore' = (restore \/ (list = "chained" /\ seen' # None /\ saved \notin {None, seen'}))
    /\ geo' = IF /\ geo = NoProbe /\ page = "home" /\ shown = "Connected"
                 /\ seen' \notin {None, seen} \cup located
              THEN [NoProbe EXCEPT !.pc = "before", !.node = seen'] ELSE geo
    /\ Missed(IF list = "asked" THEN {} ELSE IF Answers THEN Crossing ELSE {"no restore"})
    /\ UNCHANGED <<scene, core, channels, cmd, screen, now, saved, sel, located, events>>

Refresh == list' = IF list = "idle" THEN "asked" ELSE list

BugRestore == \* the default is put back
    /\ restore /\ restore' = FALSE
    /\ IF Answers THEN now' = Default /\ Refresh /\ Missed(Crossing)
       ELSE Missed({"no restore"}) /\ UNCHANGED <<now, list>>
    /\ UNCHANGED <<scene, core, channels, cmd, screen, saved, seen, sel, geo, located, events>>

Restore ==
    /\ restore /\ restore' = FALSE
    /\ IF Answers THEN now' = saved /\ Refresh /\ Missed(Crossing)
       ELSE Missed({"no restore"}) /\ UNCHANGED <<now, list>>
    /\ UNCHANGED <<scene, core, channels, cmd, screen, saved, seen, sel, geo, located, events>>

Select(n) ==
    /\ Heard /\ page = "home" /\ shown = "Connected" /\ seen # None /\ sel = None
    /\ scene = "choices" /\ Event
    /\ sel' = n
    /\ UNCHANGED <<scene, core, channels, cmd, screen, now, saved, seen, list, restore, geo, located,
                   mishaps>>

\* The kernel first, then the user's preference.
Selected ==
    /\ sel # None /\ sel' = None
    /\ IF Answers THEN now' = sel /\ saved' = sel /\ Refresh /\ Missed(Crossing)
       ELSE UNCHANGED <<now, saved, list, mishaps>>
    /\ UNCHANGED <<scene, core, channels, cmd, screen, seen, restore, geo, located, events>>

\* node_geo_test: reads the choice, selects the node it probes, asks through
\* it, and puts back what it read if that was another.
GeoRead ==
    /\ geo.pc = "before"
    /\ geo' = IF Answers THEN [geo EXCEPT !.pc = "put", !.before = now] ELSE NoProbe
    /\ UNCHANGED <<scene, core, channels, cmd, screen, now, saved, seen, list, restore, sel, located,
                   bounds>>

GeoPut ==
    /\ geo.pc = "put"
    /\ IF Answers
       THEN /\ now' = geo.node /\ geo' = [geo EXCEPT !.pc = "lookup"]
       ELSE geo' = NoProbe /\ UNCHANGED now
    /\ UNCHANGED <<scene, core, channels, cmd, screen, saved, seen, list, restore, sel, located, bounds>>

GeoEnds ==
    /\ geo.pc = "lookup" /\ geo' = NoProbe
    /\ \E found \in BOOLEAN :
          located' = IF found /\ page = "home" THEN located \cup {geo.node} ELSE located
    /\ IF Answers /\ geo.before # geo.node
       THEN now' = geo.before /\ UNCHANGED mishaps
       ELSE /\ UNCHANGED now
            /\ Missed(IF geo.before = geo.node THEN {} ELSE {"no restore"})
    /\ Refresh
    /\ UNCHANGED <<scene, core, channels, cmd, screen, saved, seen, restore, sel, events>>

\* resolve_node_geo_batch locates servers by name and address; one it finds
\* nothing about is left out.
GeoBatch ==
    /\ page = "home" /\ seen # None
    /\ \E found \in SUBSET (Nodes \ located) \ {{}} : located' = located \cup found
    /\ Refresh
    /\ UNCHANGED <<scene, core, channels, cmd, screen, now, saved, seen, restore, sel, geo, bounds>>

-----------------------------------------------------------------------------

Program ==
    \/ HeartbeatOk \/ HeartbeatMiss \/ SendHeartbeat \/ GiveUp \/ TornDown
    \/ SampleOk \/ SampleFails \/ SendSample
    \/ Spawn \/ Establish \/ ConnectFails \/ Answered \/ Stopped
    \/ HearState \/ HearFailure \/ HearHealthy \/ NotHeard \/ Listen
    \/ Listed \/ Restore \/ Selected \/ GeoRead \/ GeoPut \/ GeoEnds

Next ==
    \/ Program \/ GeoBatch
    \/ KernelHangs \/ KernelResumes \/ KernelDies
    \/ TapConnect \/ Reconnect \/ TapDisconnect \/ Leave \/ Snapshot
    \/ \E n \in Nodes : Select(n)

Spec == Init /\ [][Next]_vars
FairSpec == Spec /\ WF_vars(Program)

-----------------------------------------------------------------------------
(* Properties.                                                             *)

States == {"Disconnected", "Connecting", "Connected", "Error"}
Notes == {None, "Unresponsive", "Healthy"}
Choices == Nodes \cup {None}

\* What may leave the screen wrong for good: the core's threads, an answer or a
\* health event that comes after a later state, a change nobody listened to.
Unheard == {"late send", "late answer", "late event", "missed"}

\* Every variable has its type: misses and failures stop at their thresholds,
\* and a send is pending only for a change of the flag.
TypeOK ==
    /\ scene \in {"stalls", "choices"}
    /\ mstate \in States /\ {kernel, orphan} \subseteq {"none", "ok", "hung", "gone"}
    /\ sup \in [pc : {"off", "on", "terminal", "teardown"}, misses : 0..TerminalMisses,
                note : Notes, stale : BOOLEAN]
    /\ sampler \in Notes /\ flag \in BOOLEAN
    /\ streak \in 0..TrafficFails
    /\ states \in Seq(States) /\ health \in Seq({"Unresponsive", "Healthy", "Exited"})
    /\ cmd \in {"idle", "fetch", "attach", "connected", "stop"}
    /\ page \in {"home", "away", "snapshot"} /\ shown \in States
    /\ cause \in {None, "Unresponsive", "Exited"} /\ {polling, retry, restore} \subseteq BOOLEAN
    /\ {now, saved, seen, sel} \subseteq Choices /\ list \in {"idle", "asked", "chained"}
    /\ geo \in [pc : {"idle", "before", "put", "lookup"}, node : Choices, before : Choices]
    /\ located \subseteq Nodes /\ events \in 0..MaxEvents
    /\ mishaps \subseteq Unheard \cup {"no restore", "crossed"}

\* Once everything was heard of, a screen that says connected is right, unless
\* an answer or a change of state reached it out of turn.
ConnectedIsTrue ==
    Heard /\ page = "home" /\ shown = "Connected" /\ mishaps \cap Unheard = {}
    => mstate = "Connected"

\* Once everything was heard of, a connection shown as stalled is one the
\* manager still holds for stalled, so that the next sign of life takes the
\* error back.
StallIsTrue ==
    /\ Heard /\ page = "home" /\ mishaps \cap Unheard = {}
    /\ shown = "Error" /\ mstate = "Connected"
    => flag /\ cause = "Unresponsive"

\* The traffic poll runs only under a screen that says connected.
PollIsSeen == polling => page = "home" /\ shown = "Connected"

\* The screen is true to the manager, and the poll to the screen.
ScreenIsTrue == ConnectedIsTrue /\ StallIsTrue /\ PollIsSeen

\* While no probe crossed a selection and no selection was refused, the kernel
\* is on the node the user chose last, in this connection or an earlier one.
ChoiceHolds ==
    /\ Settled /\ page = "home" /\ shown = "Connected" /\ Answers /\ saved # None
    /\ mishaps = {}
    => now = saved

\* The same with nothing but the probe against it ("Persist the user's
\* per-group node choice so a reconnect / app restart restores it").
ChoiceIsRestored ==
    /\ Settled /\ page = "home" /\ shown = "Connected" /\ Answers /\ saved # None
    /\ mishaps \subseteq {"crossed"}
    => now = saved

\* A connection whose kernel answers is shown as connected in the end: the
\* banner of a stall comes down.
BannerComesDown ==
    <>[](Answers /\ page = "home" /\ mishaps \cap Unheard = {})
    => <>[](shown = "Connected")
=============================================================================

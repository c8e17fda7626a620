-------------------------- MODULE ConnectionStoreProofs --------------------------
(***************************************************************************)
(* Theorems about the desktop's connection store                           *)
(* (desktop/src/stores/connection.ts), in the two halves its modules split *)
(* it into: what it shows of the connection (HomeControls), for every set  *)
(* of nodes, thresholds and number of events, and how it reconnects on its *)
(* own (AutoReconnect), for any number of commands, crashes and visits of  *)
(* the page.                                                               *)
(*                                                                         *)
(* The screen is true because the last report on its way says what the     *)
(* flag in_unresponsive says, the last state on its way is the state, and  *)
(* silence means that nothing is left to report; the node is the chosen    *)
(* one because a restoration is to come until the kernel is on it, or a    *)
(* probe remembers what it has to put back.                                *)
(***************************************************************************)
EXTENDS HomeControls, AutoReconnect, FiniteSetTheorems, SequenceTheorems, TLAPS

-----------------------------------------------------------------------------
(* Queues of events.                                                       *)

Final(q) == q[Len(q)]
Among(q) == {q[i] : i \in DOMAIN q}

LEMMA Queued ==
    ASSUME NEW S, NEW q \in Seq(S), NEW e \in S
    PROVE  /\ Append(q, e) \in Seq(S) /\ Append(q, e) # <<>> /\ Final(Append(q, e)) = e
           /\ Among(Append(q, e)) = Among(q) \cup {e}
  <1>1. /\ Append(q, e) \in Seq(S) /\ Len(Append(q, e)) = Len(q) + 1
        /\ Append(q, e)[Len(q) + 1] = e /\ \A i \in 1..Len(q) : Append(q, e)[i] = q[i]
    BY AppendProperties
  <1>2. DOMAIN Append(q, e) = 1..Len(q) + 1 /\ DOMAIN q = 1..Len(q) /\ Len(q) \in Nat
    BY <1>1
  <1> QED
    BY <1>1, <1>2 DEF Final, Among

LEMMA Heads ==
    ASSUME NEW S, NEW q \in Seq(S), q # <<>>
    PROVE  /\ Head(q) \in S /\ Tail(q) \in Seq(S)
           /\ Among(q) = Among(Tail(q)) \cup {Head(q)}
           /\ Final(q) = IF Tail(q) = <<>> THEN Head(q) ELSE Final(Tail(q))
  <1>1. /\ Head(q) \in S /\ Tail(q) \in Seq(S) /\ Len(Tail(q)) = Len(q) - 1
        /\ Head(q) = q[1] /\ \A i \in 1..Len(Tail(q)) : Tail(q)[i] = q[i + 1]
    BY HeadTailProperties
  <1>2. DOMAIN q = 1..Len(q) /\ DOMAIN Tail(q) = 1..Len(Tail(q)) /\ Len(q) \in Nat /\ Len(q) # 0
    BY <1>1
  <1>3. Tail(q) = <<>> <=> Len(q) = 1
    BY <1>1, <1>2
  <1>4. Final(q) = IF Tail(q) = <<>> THEN Head(q) ELSE Final(Tail(q))
    BY <1>1, <1>2, <1>3 DEF Final
  <1>5. Among(q) = Among(Tail(q)) \cup {Head(q)}
    <2>1. ASSUME NEW i \in DOMAIN q PROVE q[i] \in Among(Tail(q)) \cup {Head(q)}
      <3>1. CASE i = 1
        BY <1>1, <3>1
      <3>2. CASE i # 1
        <4>1. i - 1 \in DOMAIN Tail(q) /\ Tail(q)[i - 1] = q[i]
          BY <1>1, <1>2, <3>2
        <4> QED
          BY <4>1 DEF Among
      <3> QED
        BY <3>1, <3>2
    <2>2. ASSUME NEW i \in DOMAIN Tail(q) PROVE Tail(q)[i] \in Among(q)
      <3>1. i + 1 \in DOMAIN q /\ Tail(q)[i] = q[i + 1]
        BY <1>1, <1>2
      <3> QED
        BY <3>1 DEF Among
    <2>3. Head(q) \in Among(q)
      BY <1>1, <1>2 DEF Among
    <2> QED
      BY <2>1, <2>2, <2>3 DEF Among
  <1> QED
    BY <1>1, <1>4, <1>5

-----------------------------------------------------------------------------
(* Types.                                                                  *)

Supervisors == [pc : {"off", "on", "terminal", "teardown"}, misses : 0..TerminalMisses,
                note : Notes, stale : BOOLEAN]
Kernels == {"none", "ok", "hung", "gone"}
Reports == {"Unresponsive", "Healthy", "Exited"}
Mishaps == Unheard \cup {"no restore", "crossed"}

\* A supervisor that has counted out its misses stops counting.
CoreTyped ==
    /\ mstate \in States /\ kernel \in Kernels /\ orphan \in Kernels
    /\ sup \in Supervisors /\ (sup.pc = "on" => sup.misses < TerminalMisses)
    /\ sampler \in Notes /\ flag \in BOOLEAN /\ streak \in 0..TrafficFails

ChannelsTyped == states \in Seq(States) /\ health \in Seq(Reports)

ScreenTyped ==
    /\ scene \in {"stalls", "choices"}
    /\ cmd \in {"idle", "fetch", "attach", "connected", "stop"}
    /\ page \in {"home", "away", "snapshot"} /\ shown \in States
    /\ cause \in {None, "Unresponsive", "Exited"} /\ polling \in BOOLEAN /\ retry \in BOOLEAN

Probes == [pc : {"idle", "before", "put", "lookup"}, node : Choices, before : Choices]

\* A probe has a node to probe and, once it has read it, a choice to put back.
Ready(g) == /\ g \in Probes
            /\ (g.pc # "idle" => g.node \in Nodes)
            /\ (g.pc \in {"put", "lookup"} => g.before \in Nodes)

\* A restoration has a choice to restore, a kernel one it is on.
NodesTyped ==
    /\ now \in Choices /\ saved \in Choices /\ seen \in Choices /\ sel \in Choices
    /\ restore \in BOOLEAN /\ list \in {"idle", "asked", "chained"}
    /\ Ready(geo) /\ located \subseteq Nodes
    /\ (kernel # "none" => now \in Nodes)
    /\ (restore => saved # None)

BoundsTyped == events \in 0..MaxEvents /\ mishaps \subseteq Mishaps

Typed == CoreTyped /\ ChannelsTyped /\ ScreenTyped /\ NodesTyped /\ BoundsTyped

LEMMA TypedIsTypeOK == Typed => TypeOK
  BY DEF Typed, CoreTyped, ChannelsTyped, ScreenTyped, NodesTyped, BoundsTyped, TypeOK,
         Supervisors, Kernels, Reports, Mishaps, Probes, Ready

LEMMA Thresholds ==
    ASSUME HomeAssumption
    PROVE  /\ 0 \in 0..TrafficFails /\ 0 \in 0..TerminalMisses /\ 0 < TerminalMisses
           /\ \A n \in 0..TrafficFails : n < TrafficFails => n + 1 \in 0..TrafficFails
           /\ \A n \in 0..TerminalMisses : n < TerminalMisses => n + 1 \in 0..TerminalMisses
  BY DEF HomeAssumption

LEMMA SupervisorsAre ==
    ASSUME HomeAssumption
    PROVE  /\ NoSup \in Supervisors /\ NoSup.pc = "off" /\ NoSup.misses = 0 /\ NoSup.note = None
           /\ LET x == [NoSup EXCEPT !.pc = "on"]
              IN x \in Supervisors /\ x.pc = "on" /\ x.misses = 0 /\ x.note = None
  <1>1. 0 \in 0..TerminalMisses /\ None \in Notes
    BY Thresholds DEF Notes
  <1>2. NoSup \in Supervisors /\ NoSup.pc = "off" /\ NoSup.misses = 0 /\ NoSup.note = None
    BY <1>1 DEF NoSup, Supervisors
  <1>3. \A s \in Supervisors :
           LET x == [s EXCEPT !.pc = "on"]
           IN x \in Supervisors /\ x.pc = "on" /\ x.misses = s.misses /\ x.note = s.note
    BY DEF Supervisors
  <1> QED
    BY <1>2, <1>3

LEMMA TypedInitially == ASSUME HomeAssumption, Init PROVE Typed
  <1>1. NoSup \in Supervisors /\ NoSup.pc = "off"
    BY SupervisorsAre
  <1>2. Ready(NoProbe)
    BY DEF NoProbe, Ready, Probes, Choices
  <1>3. <<>> \in Seq(States) /\ <<>> \in Seq(Reports)
    OBVIOUS
  <1>4. CoreTyped
    BY <1>1, Thresholds DEF Init, CoreTyped, States, Kernels, Notes
  <1>5. ChannelsTyped
    BY <1>3 DEF Init, ChannelsTyped
  <1>6. ScreenTyped
    BY DEF Init, ScreenTyped, States
  <1>7. NodesTyped
    BY <1>2 DEF Init, NodesTyped, Choices
  <1>8. BoundsTyped
    BY DEF Init, BoundsTyped, HomeAssumption
  <1> QED
    BY <1>4, <1>5, <1>6, <1>7, <1>8 DEF Typed

LEMMA CoreKept ==
    ASSUME HomeAssumption, CoreTyped, [Next]_vars
    PROVE  CoreTyped'
  <1>0. NoSup \in Supervisors /\ NoSup.pc = "off" /\ {None, "Unresponsive", "Healthy"} \subseteq Notes
    BY SupervisorsAre DEF Notes
  <1>1. CASE UNCHANGED core
    BY <1>1 DEF CoreTyped, core
  <1>2. CASE HeartbeatOk
    <2> DEFINE n == IF flag THEN "Healthy" ELSE None
    <2>1. sup' = [sup EXCEPT !.misses = 0, !.note = n] /\ n \in Notes
      BY <1>0, <1>2 DEF HeartbeatOk
    <2> HIDE DEF n
    <2>2. 0 \in 0..TerminalMisses /\ sup \in Supervisors
      BY Thresholds DEF CoreTyped
    <2>3. sup' \in Supervisors /\ sup'.misses = 0
      BY <2>1, <2>2 DEF Supervisors
    <2> QED
      BY <1>2, <2>3, Thresholds DEF HeartbeatOk, CoreTyped
  <1>3. CASE HeartbeatMiss
    <2> DEFINE m == sup.misses + 1
               stalls == m = HeartbeatFails /\ ~flag
               n == IF stalls THEN "Unresponsive" ELSE None
               p == IF m >= TerminalMisses THEN "terminal" ELSE "on"
    <2>1. sup' = [sup EXCEPT !.misses = m, !.note = n, !.pc = p] /\ flag' \in BOOLEAN
          /\ sup.pc = "on"
      BY <1>3 DEF HeartbeatMiss
    <2>2. sup.misses \in 0..TerminalMisses /\ sup.misses < TerminalMisses
      BY <2>1 DEF CoreTyped, Supervisors
    <2>3. m \in 0..TerminalMisses /\ n \in Notes /\ p \in {"on", "terminal"}
          /\ (p = "on" => m < TerminalMisses)
      BY <1>0, <2>2, Thresholds DEF HomeAssumption
    <2> HIDE DEF m, n, p, stalls
    <2> sup \in Supervisors
      BY DEF CoreTyped
    <2>4. sup' \in Supervisors /\ sup'.misses = m /\ sup'.pc = p
      BY <2>1, <2>3 DEF Supervisors
    <2> QED
      BY <1>3, <2>1, <2>3, <2>4 DEF HeartbeatMiss, CoreTyped
  <1>4. CASE SendHeartbeat \/ GiveUp
    BY <1>4 DEF SendHeartbeat, GiveUp, CoreTyped, Supervisors, Notes, Kernels
  <1>5. CASE TornDown \/ TapConnect \/ Reconnect \/ ConnectFails \/ Stopped
    BY <1>0, <1>5 DEF TornDown, TapConnect, Reconnect, ConnectFails, Stopped, Publish, CoreTyped,
                      States, Kernels
  <1>6. CASE SampleOk \/ SendSample
    <2>1. sampler' \in Notes
      BY <1>0, <1>6 DEF SampleOk, SendSample
    <2> QED
      BY <1>6, <2>1, Thresholds DEF SampleOk, SendSample, CoreTyped
  <1>7. CASE SampleFails
    <2>1. sampler' \in Notes /\ flag' \in BOOLEAN
      BY <1>0, <1>7 DEF SampleFails
    <2>2. streak' \in 0..TrafficFails
      BY <1>7, Thresholds DEF SampleFails, CoreTyped
    <2> QED
      BY <1>7, <2>1, <2>2 DEF SampleFails, CoreTyped
  <1>8. CASE KernelHangs \/ KernelResumes \/ KernelDies
    BY <1>8 DEF KernelHangs, KernelResumes, KernelDies, CoreTyped, Kernels
  <1>9. CASE Spawn
    <2>1. sup' \in Supervisors /\ sup'.pc = sup.pc /\ sup'.misses = sup.misses
      BY <1>9 DEF Spawn, CoreTyped, Supervisors
    <2> QED
      BY <1>9, <2>1 DEF Spawn, CoreTyped, Kernels
  <1>10. CASE Establish \/ TapDisconnect
    <2>1. sup' \in Supervisors /\ sup'.misses = 0
      BY <1>10, SupervisorsAre DEF Establish, TapDisconnect
    <2> QED
      BY <1>10, <2>1, Thresholds
         DEF Establish, TapDisconnect, Publish, CoreTyped, States, Kernels
  <1>11. CASE Answered \/ HearState \/ HearFailure \/ HearHealthy \/ NotHeard \/ Listen \/ Leave
              \/ Snapshot \/ Listed \/ Restore \/ Selected \/ GeoRead \/ GeoPut \/ GeoEnds \/ GeoBatch
              \/ \E n \in Nodes : Select(n)
    BY <1>1, <1>11 DEF Answered, HearState, HearFailure, HearHealthy, NotHeard, Listen, Leave,
              Snapshot, Listed, Restore, Selected, GeoRead, GeoPut, GeoEnds, GeoBatch, Select
  <1>12. UNCHANGED vars => UNCHANGED core
    BY DEF vars
  <1> QED
    BY <1>1, <1>2, <1>3, <1>4, <1>5, <1>6, <1>7, <1>8, <1>9, <1>10, <1>11, <1>12 DEF Next, Program

LEMMA ChannelsKept ==
    ASSUME CoreTyped, ChannelsTyped, [Next]_vars
    PROVE  ChannelsTyped'
  <1>1. CASE UNCHANGED channels
    BY <1>1 DEF ChannelsTyped, channels
  <1>2. ASSUME NEW s \in States, Publish(s), UNCHANGED health PROVE ChannelsTyped'
    BY <1>2, Queued DEF Publish, ChannelsTyped
  <1>3. ASSUME NEW e \in Reports, Report(e), UNCHANGED states PROVE ChannelsTyped'
    BY <1>3, Queued DEF Report, ChannelsTyped
  <1>4. ASSUME states # <<>>, states' = Tail(states), UNCHANGED health PROVE ChannelsTyped'
    BY <1>4, Heads DEF ChannelsTyped
  <1>5. ASSUME health # <<>>, health' = Tail(health), UNCHANGED states PROVE ChannelsTyped'
    BY <1>5, Heads DEF ChannelsTyped
  <1>6. CASE SendHeartbeat \/ GiveUp \/ SendSample
    <2>1. (sup.note # None => sup.note \in Reports) /\ (sampler # None => sampler \in Reports)
      BY DEF CoreTyped, Supervisors, Notes, Reports
    <2> QED
      BY <1>3, <1>6, <2>1 DEF SendHeartbeat, GiveUp, SendSample, Reports
  <1>7. CASE TornDown \/ TapConnect \/ Reconnect \/ ConnectFails \/ Establish \/ Stopped
    BY <1>2, <1>7 DEF TornDown, TapConnect, Reconnect, ConnectFails, Establish, Stopped, States
  <1>8. CASE HearState \/ HearFailure \/ HearHealthy \/ NotHeard
    BY <1>4, <1>5, <1>8 DEF HearState, HearFailure, HearHealthy, NotHeard
  <1>9. CASE HeartbeatOk \/ HeartbeatMiss \/ SampleOk \/ SampleFails \/ KernelHangs \/ KernelResumes
             \/ KernelDies \/ Spawn \/ TapDisconnect \/ Answered \/ Listen \/ Leave \/ Snapshot
             \/ Listed \/ Restore \/ Selected \/ GeoRead \/ GeoPut \/ GeoEnds \/ GeoBatch
             \/ \E n \in Nodes : Select(n)
    BY <1>1, <1>9 DEF HeartbeatOk, HeartbeatMiss, SampleOk, SampleFails, KernelHangs, KernelResumes,
              KernelDies, Spawn, TapDisconnect, Answered, Listen, Leave, Snapshot, Listed, Restore,
              Selected, GeoRead, GeoPut, GeoEnds, GeoBatch, Select
  <1>10. UNCHANGED vars => UNCHANGED channels
    BY DEF vars
  <1> QED
    BY <1>1, <1>6, <1>7, <1>8, <1>9, <1>10 DEF Next, Program

LEMMA ScreenKept ==
    ASSUME CoreTyped, ChannelsTyped, ScreenTyped, [Next]_vars
    PROVE  ScreenTyped'
  <1>1. CASE UNCHANGED <<scene, cmd, screen>>
    BY <1>1 DEF ScreenTyped, screen
  <1>2. CASE HearState
    BY <1>2, Heads DEF HearState, ScreenTyped, ChannelsTyped
  <1>3. CASE HearFailure \/ HearHealthy
    BY <1>3 DEF HearFailure, HearHealthy, ScreenTyped, States
  <1>4. CASE Leave \/ Snapshot \/ Listen \/ Answered
    BY <1>4 DEF Leave, Snapshot, Listen, Answered, ScreenTyped, CoreTyped, States
  <1>5. CASE TapConnect \/ Reconnect \/ TapDisconnect
    BY <1>5 DEF TapConnect, Reconnect, TapDisconnect, ScreenTyped
  <1>6. CASE Spawn \/ Establish \/ ConnectFails \/ Stopped
    BY <1>6 DEF Spawn, Establish, ConnectFails, Stopped, ScreenTyped, screen
  <1>7. CASE HeartbeatOk \/ HeartbeatMiss \/ SendHeartbeat \/ GiveUp \/ TornDown
             \/ SampleOk \/ SampleFails \/ SendSample \/ NotHeard
             \/ KernelHangs \/ KernelResumes \/ KernelDies
             \/ Listed \/ Restore \/ Selected \/ GeoRead \/ GeoPut \/ GeoEnds \/ GeoBatch
             \/ \E n \in Nodes : Select(n)
    BY <1>1, <1>7 DEF HeartbeatOk, HeartbeatMiss, SendHeartbeat, GiveUp, TornDown, SampleOk,
              SampleFails, SendSample, NotHeard, KernelHangs, KernelResumes, KernelDies, Listed,
              Restore, Selected, GeoRead, GeoPut, GeoEnds, GeoBatch, Select
  <1>8. UNCHANGED vars => UNCHANGED <<scene, cmd, screen>>
    BY DEF vars
  <1> QED
    BY <1>1, <1>2, <1>3, <1>4, <1>5, <1>6, <1>7, <1>8 DEF Next, Program

LEMMA NoProbeIsReady == Ready(NoProbe) /\ NoProbe.pc = "idle"
  BY DEF NoProbe, Ready, Probes, Choices

LEMMA ProbesStep ==
    ASSUME NEW g, Ready(g), NEW n \in Nodes
    PROVE  /\ Ready([NoProbe EXCEPT !.pc = "before", !.node = n])
           /\ g.pc # "idle" => Ready([g EXCEPT !.pc = "put", !.before = n])
           /\ g.pc = "put" => Ready([g EXCEPT !.pc = "lookup"])
  <1>1. n \in Choices /\ None \in Choices
    BY DEF Choices
  <1>2. Ready([NoProbe EXCEPT !.pc = "before", !.node = n])
    BY <1>1 DEF NoProbe, Ready, Probes
  <1>3. ASSUME g.pc # "idle" PROVE Ready([g EXCEPT !.pc = "put", !.before = n])
    BY <1>1, <1>3 DEF Ready, Probes
  <1>4. ASSUME g.pc = "put" PROVE Ready([g EXCEPT !.pc = "lookup"])
    BY <1>4 DEF Ready, Probes
  <1> QED
    BY <1>2, <1>3, <1>4

LEMMA NodesKept ==
    ASSUME HomeAssumption, CoreTyped, NodesTyped, [Next]_vars
    PROVE  NodesTyped'
  <1>1. CASE UNCHANGED nodes /\ (kernel = "none" => kernel' = "none")
    BY <1>1 DEF NodesTyped, nodes
  <1>2. ASSUME UNCHANGED <<now, saved, sel, restore, geo, located, kernel>>,
               seen' \in {None, seen}, list' \in {"idle", "asked", "chained"}
        PROVE  NodesTyped'
    BY <1>2 DEF NodesTyped, Choices
  <1>3. CASE Answered \/ HearState \/ HearFailure \/ HearHealthy \/ Listen
    <2>1. UNCHANGED <<now, saved, sel, restore, geo, located, kernel>>
      BY <1>3 DEF Answered, HearState, HearFailure, HearHealthy, Listen, core
    <2>2. seen' \in {None, seen} /\ list' \in {"idle", "asked", "chained"}
      BY <1>3 DEF Answered, HearState, HearFailure, HearHealthy, Listen, NodesTyped
    <2> QED
      BY <1>2, <2>1, <2>2
  <1>4. CASE Spawn
    BY <1>4 DEF Spawn, NodesTyped, Choices, HomeAssumption
  <1>5. CASE Leave
    BY <1>5 DEF Leave, NodesTyped, core
  <1>6. CASE Listed
    <2>1. UNCHANGED <<now, saved, sel, located, kernel>> /\ list' = "idle"
      BY <1>6 DEF Listed, core
    <2>2. seen' \in Choices
      BY <1>6 DEF Listed, NodesTyped, Choices
    <2>3. restore' \in BOOLEAN /\ (restore' => saved # None)
      BY <1>6 DEF Listed, NodesTyped
    <2>4. geo' = geo \/ (geo' = [NoProbe EXCEPT !.pc = "before", !.node = seen'] /\ seen' # None)
      BY <1>6 DEF Listed
    <2>5. Ready(geo')
      BY <2>2, <2>4, ProbesStep DEF NodesTyped, Choices
    <2> QED
      BY <2>1, <2>2, <2>3, <2>5 DEF NodesTyped
  <1>7. CASE Restore \/ Selected
    <2>1. UNCHANGED <<seen, geo, located, kernel>> /\ sel' \in {None, sel}
      BY <1>7 DEF Restore, Selected, core
    <2>5. restore' = FALSE \/ restore' = restore
      BY <1>7 DEF Restore, Selected
    <2>2. saved' \in Choices /\ now' \in Choices /\ (saved # None => saved' # None)
          /\ (kernel # "none" => now' \in Nodes)
      BY <1>7 DEF Restore, Selected, NodesTyped, Choices
    <2>3. list' \in {"idle", "asked", "chained"}
      BY <1>7 DEF Restore, Selected, Refresh, NodesTyped
    <2>6. restore' \in BOOLEAN /\ (restore' => saved' # None)
      <3>1. restore \in BOOLEAN /\ (restore => saved # None)
        BY DEF NodesTyped
      <3>2. CASE restore' = FALSE
        BY <3>2
      <3>3. CASE restore' = restore
        BY <2>2, <3>1, <3>3
      <3> QED
        BY <2>5, <3>2, <3>3
    <2> QED
      BY <2>1, <2>2, <2>3, <2>6 DEF NodesTyped, Choices
  <1>8. CASE \E n \in Nodes : Select(n)
    BY <1>8 DEF Select, NodesTyped, core, Choices
  <1>9. CASE GeoRead
    <2>1. UNCHANGED <<now, saved, seen, list, restore, sel, located, kernel>>
      BY <1>9 DEF GeoRead, core
    <2>2. Ready(geo) /\ geo.pc # "idle" /\ (Answers => now \in Nodes)
      BY <1>9 DEF GeoRead, Answers, NodesTyped
    <2>3. Ready(geo')
      BY <1>9, <2>2, ProbesStep, NoProbeIsReady DEF GeoRead
    <2> QED
      BY <2>1, <2>3 DEF NodesTyped
  <1>10. CASE GeoPut
    <2>1. UNCHANGED <<saved, seen, list, restore, sel, located, kernel>>
      BY <1>10 DEF GeoPut, core
    <2>2. geo.pc = "put" /\ geo.node \in Nodes /\ Ready(geo)
      BY <1>10 DEF GeoPut, NodesTyped, Ready
    <2>3. Ready(geo')
      BY <1>10, <2>2, ProbesStep, NoProbeIsReady DEF GeoPut
    <2> QED
      BY <1>10, <2>1, <2>2, <2>3 DEF GeoPut, NodesTyped, Choices
  <1>11. CASE GeoEnds
    <2>1. UNCHANGED <<saved, seen, restore, sel, kernel>> /\ geo' = NoProbe
      BY <1>11 DEF GeoEnds, core
    <2>2. geo.node \in Nodes /\ geo.before \in Nodes
      BY <1>11 DEF GeoEnds, NodesTyped, Ready
    <2>3. located' \subseteq Nodes /\ list' \in {"idle", "asked", "chained"}
      BY <1>11, <2>2 DEF GeoEnds, NodesTyped, Refresh
    <2>4. now' \in Choices /\ (kernel # "none" => now' \in Nodes)
      BY <1>11, <2>2 DEF GeoEnds, NodesTyped, Choices
    <2> QED
      BY <2>1, <2>3, <2>4, NoProbeIsReady DEF NodesTyped
  <1>12. CASE GeoBatch
    <2>1. located' \subseteq Nodes /\ list' \in {"idle", "asked", "chained"}
      BY <1>12 DEF GeoBatch, NodesTyped, Refresh
    <2> QED
      BY <1>12, <2>1 DEF GeoBatch, NodesTyped, core
  <1>13. CASE \/ HeartbeatOk \/ HeartbeatMiss \/ SendHeartbeat \/ GiveUp \/ TornDown
              \/ SampleOk \/ SampleFails \/ SendSample \/ NotHeard \/ Snapshot
              \/ KernelHangs \/ KernelResumes \/ KernelDies
              \/ TapConnect \/ Reconnect \/ TapDisconnect
              \/ Establish \/ ConnectFails \/ Stopped
    <2>1. UNCHANGED nodes
      BY <1>13 DEF HeartbeatOk, HeartbeatMiss, SendHeartbeat, GiveUp, TornDown, SampleOk,
              SampleFails, SendSample, NotHeard, Snapshot, KernelHangs, KernelResumes, KernelDies,
              TapConnect, Reconnect, TapDisconnect, Establish, ConnectFails, Stopped
    <2>2. kernel = "none" => kernel' = "none"
      BY <1>13 DEF HeartbeatOk, HeartbeatMiss, SendHeartbeat, GiveUp, TornDown, SampleOk,
              SampleFails, SendSample, NotHeard, Snapshot, KernelHangs, KernelResumes, KernelDies,
              TapConnect, Reconnect, TapDisconnect, Establish, ConnectFails, Stopped, core
    <2> QED
      BY <1>1, <2>1, <2>2
  <1>14. CASE UNCHANGED vars
    BY <1>1, <1>14 DEF vars, core
  <1> QED
    BY <1>3, <1>4, <1>5, <1>6, <1>7, <1>8, <1>9, <1>10, <1>11, <1>12, <1>13, <1>14
       DEF Next, Program

\* What went wrong stays on record.
LEMMA BoundsKept ==
    ASSUME HomeAssumption, BoundsTyped, [Next]_vars
    PROVE  BoundsTyped' /\ mishaps \subseteq mishaps'
  <1>1. CASE UNCHANGED bounds
    BY <1>1 DEF BoundsTyped, bounds
  <1>2. ASSUME Event, UNCHANGED mishaps PROVE BoundsTyped' /\ mishaps \subseteq mishaps'
    BY <1>2 DEF Event, BoundsTyped, HomeAssumption
  <1>3. ASSUME UNCHANGED events, NEW w \in SUBSET Mishaps, mishaps' = mishaps \cup w
        PROVE  BoundsTyped' /\ mishaps \subseteq mishaps'
    BY <1>3 DEF BoundsTyped
  <1>4. /\ {} \in SUBSET Mishaps /\ {"late send"} \in SUBSET Mishaps /\ {"late event"} \in SUBSET Mishaps
        /\ {"late answer"} \in SUBSET Mishaps /\ {"missed"} \in SUBSET Mishaps
        /\ {"no restore"} \in SUBSET Mishaps /\ {"crossed"} \in SUBSET Mishaps
    BY DEF Mishaps, Unheard
  <1>5. CASE \/ KernelHangs \/ KernelResumes \/ KernelDies \/ TapConnect \/ TapDisconnect \/ Leave
             \/ \E n \in Nodes : Select(n)
    BY <1>2, <1>5 DEF KernelHangs, KernelResumes, KernelDies, TapConnect, TapDisconnect, Leave, Select
  <1>6. CASE \/ SendHeartbeat \/ SendSample \/ TornDown \/ Establish \/ ConnectFails \/ Stopped
             \/ Answered \/ NotHeard \/ Listed \/ Restore \/ Selected \/ GeoEnds
    <2>1. UNCHANGED events /\ \E w \in SUBSET Mishaps : mishaps' = mishaps \cup w
      BY <1>4, <1>6 DEF SendHeartbeat, SendSample, TornDown, Establish, ConnectFails, Stopped,
              Answered, NotHeard, Listed, Restore, Selected, GeoEnds, Late, LateEvents, Missed,
              Crossing
    <2> QED
      BY <1>3, <2>1
  <1>7. CASE \/ HeartbeatOk \/ HeartbeatMiss \/ GiveUp \/ SampleOk \/ SampleFails \/ Reconnect
             \/ Spawn \/ HearState \/ HearFailure \/ HearHealthy \/ Snapshot \/ Listen
             \/ GeoRead \/ GeoPut \/ GeoBatch \/ UNCHANGED vars
    BY <1>1, <1>7 DEF HeartbeatOk, HeartbeatMiss, GiveUp, SampleOk, SampleFails, Reconnect, Spawn,
              HearState, HearFailure, HearHealthy, Snapshot, Listen, GeoRead, GeoPut, GeoBatch, vars
  <1> QED
    BY <1>5, <1>6, <1>7 DEF Next, Program

LEMMA TypedKept == ASSUME HomeAssumption, Typed, [Next]_vars PROVE Typed'
  BY CoreKept, ChannelsKept, ScreenKept, NodesKept, BoundsKept DEF Typed

-----------------------------------------------------------------------------
(* The screen.                                                             *)

Good == mishaps \cap Unheard = {}

NoneOnTheWay == sup.note = None /\ sampler = None

\* What the window hears last of the state is the state.
Published == states # <<>> => Final(states) = mstate

\* Where the supervisor and a command stand.
Stations ==
    /\ cmd = "stop" => sup.pc = "off" /\ sup.note = None
    /\ sup.pc \in {"off", "teardown"} => sup.note = None
    /\ cmd \in {"fetch", "attach"} => mstate # "Connected"

\* The last report tells what the flag says, or the exit.
LastReport ==
    Good /\ health # <<>> =>
        /\ sup.pc = "teardown" => Final(health) = "Exited"
        /\ NoneOnTheWay => Final(health) = "Exited" \/ (Final(health) = "Unresponsive") = flag

\* While nothing runs and no command is under way, no report is to come but
\* one that ends in the exit.
Silence ==
    Good /\ cmd = "idle" /\ mstate # "Connected" =>
        /\ sup.pc = "off" /\ NoneOnTheWay
        /\ health # <<>> => Final(health) = "Exited"

\* An exit not heard of yet is the one of a connection that is over or ending.
ExitIsNews == Good /\ "Exited" \in Among(health) => sup.pc = "teardown" \/ mstate # "Connected"

\* The window has heard of every state, or is reading the one there is.
Following == Good /\ page # "away" /\ states = <<>>
Running == mstate = "Connected" /\ sup.pc # "teardown"

ConnectedHeld ==
    Following /\ shown = "Connected" => mstate = "Connected" \/ cmd # "idle" \/ health # <<>>
ErrorIsStall ==
    Following /\ Running /\ shown = "Error" =>
        /\ cause = "Unresponsive"
        /\ cmd # "stop" /\ health = <<>> /\ NoneOnTheWay => flag

Screened == /\ Published /\ Stations /\ LastReport /\ Silence /\ ExitIsNews
            /\ ConnectedHeld /\ ErrorIsStall

\* What a step that leaves no mark of a mishap tells.
LEMMA NothingWrong ==
    ASSUME Typed, [Next]_vars, HomeAssumption, Good'
    PROVE  /\ Good
           /\ \A n : Late(n) => ((n = "Unresponsive") = flag) /\ sup.pc # "teardown"
           /\ \A b : LateEvents(b) => ~b /\ health = <<>> /\ NoneOnTheWay
           /\ TornDown => sampler = None
           /\ Answered => mstate = "Connected"
           /\ NotHeard => page = "away"
  <1>1. Good
    BY BoundsKept DEF Good, Typed
  <1>2. /\ "late send" \notin mishaps' /\ "late event" \notin mishaps'
        /\ "late answer" \notin mishaps' /\ "missed" \notin mishaps'
    BY DEF Good, Unheard
  <1>3. page \in {"home", "away", "snapshot"}
    BY DEF Typed, ScreenTyped
  <1>4. \A n : Late(n) => ((n = "Unresponsive") = flag) /\ sup.pc # "teardown"
    BY <1>2 DEF Late
  <1>5. \A b : LateEvents(b) => ~b /\ health = <<>> /\ NoneOnTheWay
    BY <1>2 DEF LateEvents, NoneOnTheWay
  <1>6. TornDown => sampler = None
    BY <1>2 DEF TornDown
  <1>7. Answered => mstate = "Connected"
    BY <1>2 DEF Answered
  <1>8. NotHeard => page = "away"
    BY <1>2, <1>3 DEF NotHeard, Missed
  <1> QED
    BY <1>1, <1>4, <1>5, <1>6, <1>7, <1>8

LEMMA ScreenedInitially == ASSUME HomeAssumption, Init PROVE Screened
  <1>1. /\ states = <<>> /\ health = <<>> /\ mstate = "Disconnected" /\ shown = "Disconnected"
        /\ cmd = "idle" /\ sup.pc = "off" /\ sup.note = None /\ sampler = None
    BY DEF Init, NoSup
  <1>2. Among(health) = {}
    BY <1>1 DEF Among
  <1> QED
    BY <1>1, <1>2 DEF Screened, Published, Stations, LastReport, Silence, ExitIsNews,
              ConnectedHeld, ErrorIsStall, Following, Running, NoneOnTheWay

\* A step out of the screen's and the flag's sight.
LEMMA ScreenedStays ==
    ASSUME Screened, Good' => Good, UNCHANGED <<mstate, states, health, sampler, flag, page, shown, cause>>,
           sup'.pc = sup.pc, sup'.note = sup.note,
           cmd' = cmd \/ (cmd = "fetch" /\ cmd' = "attach")
    PROVE  Screened'
  BY DEF Screened, Published, Stations, LastReport, Silence, ExitIsNews,
         ConnectedHeld, ErrorIsStall, Following, Running, NoneOnTheWay

LEMMA ProbesKeepScreen ==
    ASSUME HomeAssumption, Typed, Screened, [Next]_vars,
           HeartbeatOk \/ HeartbeatMiss \/ SampleOk \/ SampleFails
    PROVE  Screened'
  <1> USE DEF Screened, Published, Stations, LastReport, Silence, ExitIsNews, ConnectedHeld,
              ErrorIsStall, Following, Running, NoneOnTheWay
  <1>0. None \notin {"Unresponsive", "Healthy", "Exited"}
    BY DEF HomeAssumption
  <1>1. Good' => Good
    BY NothingWrong
  <1>2. UNCHANGED <<mstate, states, health, cmd, page, shown, cause>>
    BY DEF HeartbeatOk, HeartbeatMiss, SampleOk, SampleFails, channels, screen
  <1>3. sup \in Supervisors /\ flag \in BOOLEAN
    BY DEF Typed, CoreTyped
  <1>4. CASE HeartbeatOk
    <2>1. /\ sup.pc = "on" /\ sup'.pc = "on" /\ sup.note = None /\ UNCHANGED sampler /\ flag' = FALSE
          /\ sup'.note = IF flag THEN "Healthy" ELSE None
      BY <1>3, <1>4 DEF HeartbeatOk, Supervisors
    <2>2. sup'.note = None => flag' = flag
      BY <1>0, <1>3, <2>1
    <2> QED
      BY <1>1, <1>2, <2>1, <2>2
  <1>5. CASE HeartbeatMiss
    <2>1. /\ sup.pc = "on" /\ sup'.pc \in {"on", "terminal"} /\ sup.note = None /\ UNCHANGED sampler
          /\ sup'.note = None => flag' = flag
      BY <1>0, <1>3, <1>5 DEF HeartbeatMiss, Supervisors
    <2> QED
      BY <1>1, <1>2, <2>1
  <1>6. CASE SampleOk
    <2>1. /\ mstate = "Connected" /\ UNCHANGED sup /\ sampler = None
          /\ sampler' = None => flag' = flag
      BY <1>0, <1>3, <1>6 DEF SampleOk, Answers
    <2> QED
      BY <1>1, <1>2, <2>1
  <1>7. CASE SampleFails
    <2>1. /\ UNCHANGED sup /\ sampler = None
          /\ sampler' = None \/ mstate # "Connected" => flag' = flag /\ sampler' = None
      BY <1>0, <1>3, <1>7 DEF SampleFails
    <2> QED
      BY <1>1, <1>2, <2>1
  <1> QED
    BY <1>4, <1>5, <1>6, <1>7

LEMMA ReportsKeepScreen ==
    ASSUME HomeAssumption, Typed, Screened, [Next]_vars,
           SendHeartbeat \/ SendSample \/ GiveUp \/ TornDown
    PROVE  Screened'
  <1> USE DEF Screened, Published, Stations, LastReport, Silence, ExitIsNews, ConnectedHeld,
              ErrorIsStall, Following, Running, NoneOnTheWay
  <1>1. /\ Good' => Good
        /\ \A n : Good' /\ Late(n) => ((n = "Unresponsive") = flag) /\ sup.pc # "teardown"
        /\ Good' /\ TornDown => sampler = None
    BY NothingWrong
  <1>2. UNCHANGED <<cmd, page, shown, cause>>
    BY DEF SendHeartbeat, SendSample, GiveUp, TornDown, screen
  <1>3. /\ sup \in Supervisors /\ sampler \in Notes /\ flag \in BOOLEAN
        /\ states \in Seq(States) /\ health \in Seq(Reports)
    BY DEF Typed, CoreTyped, ChannelsTyped
  <1>4. \A e \in Reports : Report(e) => /\ health' # <<>> /\ Final(health') = e
                                         /\ Among(health') = Among(health) \cup {e}
    BY <1>3, Queued DEF Report
  <1>5. CASE SendHeartbeat
    <2>1. /\ sup.note \in {"Unresponsive", "Healthy"} /\ Report(sup.note) /\ Late(sup.note)
          /\ sup'.note = None /\ sup'.pc = sup.pc
          /\ UNCHANGED <<mstate, states, sampler, flag>>
      BY <1>3, <1>5 DEF SendHeartbeat, Supervisors, Notes
    <2>2. /\ health' # <<>> /\ Final(health') = sup.note
          /\ Among(health') = Among(health) \cup {sup.note}
      BY <1>4, <2>1 DEF Reports
    <2> QED
      BY <1>1, <1>2, <2>1, <2>2
  <1>6. CASE SendSample
    <2>1. /\ sampler \in {"Unresponsive", "Healthy"} /\ Report(sampler) /\ Late(sampler)
          /\ sampler' = None /\ UNCHANGED <<mstate, states, sup, flag>>
      BY <1>3, <1>6 DEF SendSample, Notes
    <2>2. /\ health' # <<>> /\ Final(health') = sampler
          /\ Among(health') = Among(health) \cup {sampler}
      BY <1>4, <2>1 DEF Reports
    <2> QED
      BY <1>1, <1>2, <2>1, <2>2
  <1>7. CASE GiveUp
    <2>1. /\ sup.pc \in {"on", "terminal"} /\ sup'.pc = "teardown" /\ sup.note = None
          /\ sup'.note = None /\ UNCHANGED <<mstate, states, sampler, flag>> /\ Report("Exited")
      BY <1>3, <1>7 DEF GiveUp, Supervisors
    <2>2. /\ health' # <<>> /\ Final(health') = "Exited"
      BY <1>4, <2>1 DEF Reports
    <2> QED
      BY <1>1, <1>2, <2>1, <2>2
  <1>8. CASE TornDown
    <2>1. /\ sup.pc = "teardown" /\ sup' = NoSup /\ mstate' = "Error" /\ states' = Append(states, "Error")
          /\ UNCHANGED <<health, sampler, flag>>
      BY <1>8 DEF TornDown, Publish
    <2>2. sup'.pc = "off" /\ sup'.note = None
      BY <2>1 DEF NoSup
    <2>3. states' # <<>> /\ Final(states') = "Error"
      BY <1>3, <2>1, Queued DEF States
    <2> QED
      BY <1>1, <1>2, <1>8, <2>1, <2>2, <2>3
  <1> QED
    BY <1>5, <1>6, <1>7, <1>8

LEMMA CommandsKeepScreen ==
    ASSUME HomeAssumption, Typed, Screened, [Next]_vars,
           TapConnect \/ Reconnect \/ Spawn \/ Establish \/ ConnectFails \/ TapDisconnect \/ Stopped
    PROVE  Screened'
  <1> USE DEF Screened, Published, Stations, LastReport, Silence, ExitIsNews, ConnectedHeld,
              ErrorIsStall, Following, Running, NoneOnTheWay
  <1>1. /\ Good' => Good
        /\ \A b : Good' /\ LateEvents(b) => ~b /\ health = <<>> /\ NoneOnTheWay
    BY NothingWrong
  <1>2. UNCHANGED <<page, shown, cause>>
    BY DEF TapConnect, Reconnect, Spawn, Establish, ConnectFails, TapDisconnect, Stopped, screen
  <1>3. sup \in Supervisors /\ states \in Seq(States)
    BY DEF Typed, CoreTyped, ChannelsTyped
  <1>4. \A e \in States : Publish(e) => mstate' = e /\ states' # <<>> /\ Final(states') = e
    BY <1>3, Queued DEF Publish
  <1>5. CASE TapConnect \/ Reconnect
    <2>1. /\ mstate' = "Connecting" /\ states' # <<>> /\ Final(states') = "Connecting"
          /\ cmd = "idle" /\ cmd' = "fetch" /\ UNCHANGED <<sup, sampler, flag, health>>
          /\ states = <<>> /\ health = <<>> /\ sup.pc \in {"off", "on"}
      BY <1>4, <1>5 DEF TapConnect, Reconnect, Heard, States
    <2>2. Among(health') = {}
      BY <2>1 DEF Among
    <2> QED
      BY <1>1, <1>2, <2>1, <2>2
  <1>6. CASE Spawn
    <2>1. UNCHANGED <<mstate, states, health, sampler, flag>> /\ cmd = "fetch" /\ cmd' = "attach"
          /\ sup'.pc = sup.pc /\ sup'.note = sup.note
      BY <1>3, <1>6 DEF Spawn, Supervisors, channels
    <2> QED
      BY <1>1, <1>2, <2>1, ScreenedStays
  <1>7. CASE Establish
    <2>1. /\ mstate' = "Connected" /\ states' # <<>> /\ Final(states') = "Connected"
          /\ cmd' = "connected" /\ flag' = FALSE /\ LateEvents(FALSE) /\ UNCHANGED <<health, sampler>>
      BY <1>4, <1>7 DEF Establish, States
    <2>2. sup'.pc = "on" /\ sup'.note = None
      BY <1>7, SupervisorsAre DEF Establish
    <2>3. health = <<>> => Among(health) = {}
      BY DEF Among
    <2> QED
      BY <1>1, <1>2, <2>1, <2>2, <2>3
  <1>8. CASE ConnectFails
    <2>1. /\ mstate' = "Error" /\ states' # <<>> /\ Final(states') = "Error" /\ cmd' = "idle"
          /\ LateEvents(sup.pc # "off") /\ UNCHANGED <<health, sup, sampler, flag>>
      BY <1>4, <1>8 DEF ConnectFails, States
    <2> QED
      BY <1>1, <1>2, <2>1
  <1>9. CASE TapDisconnect
    <2>1. /\ UNCHANGED <<mstate, states, health, sampler>> /\ cmd' = "stop" /\ flag' = FALSE
          /\ states = <<>> /\ health = <<>>
      BY <1>9 DEF TapDisconnect, Heard, channels
    <2>2. sup'.pc = "off" /\ sup'.note = None /\ Among(health) = {} /\ sampler = None
          /\ shown = "Connected"
      BY <1>9, <2>1 DEF TapDisconnect, Heard, NoSup, Among
    <2> QED
      BY <1>1, <1>2, <2>1, <2>2
  <1>10. CASE Stopped
    <2>1. /\ mstate' = "Disconnected" /\ states' # <<>> /\ Final(states') = "Disconnected"
          /\ cmd = "stop" /\ cmd' = "idle"
          /\ LateEvents(FALSE) /\ UNCHANGED <<health, sup, sampler, flag>>
      BY <1>4, <1>10 DEF Stopped, States
    <2> QED
      BY <1>1, <1>2, <2>1
  <1> QED
    BY <1>5, <1>6, <1>7, <1>8, <1>9, <1>10

LEMMA WindowKeepsScreen ==
    ASSUME HomeAssumption, Typed, Screened, [Next]_vars,
           \/ Answered \/ HearState \/ HearFailure \/ HearHealthy \/ NotHeard
           \/ Leave \/ Snapshot \/ Listen
    PROVE  Screened'
  <1> USE DEF Screened, Published, Stations, LastReport, Silence, ExitIsNews, ConnectedHeld,
              ErrorIsStall, Following, Running, NoneOnTheWay
  <1>1. /\ Good' => Good
        /\ Good' /\ Answered => mstate = "Connected"
        /\ Good' /\ NotHeard => page = "away"
    BY NothingWrong
  <1>2. UNCHANGED <<mstate, sup, sampler, flag>>
    BY DEF Answered, HearState, HearFailure, HearHealthy, NotHeard, Leave, Snapshot, Listen, core
  <1>3. states \in Seq(States) /\ health \in Seq(Reports)
    BY DEF Typed, ChannelsTyped
  <1>4. states # <<>> /\ states' = Tail(states) =>
            Final(states) = IF states' = <<>> THEN Head(states) ELSE Final(states')
    BY <1>3, Heads
  <1>5. health # <<>> /\ health' = Tail(health) =>
            /\ Final(health) = IF health' = <<>> THEN Head(health) ELSE Final(health')
            /\ Among(health) = Among(health') \cup {Head(health)}
    BY <1>3, Heads
  <1>6. CASE Answered
    BY <1>1, <1>2, <1>6 DEF Answered, channels
  <1>7. CASE HearState
    BY <1>1, <1>2, <1>4, <1>7 DEF HearState
  <1>8. CASE HearFailure
    BY <1>1, <1>2, <1>5, <1>8 DEF HearFailure
  <1>9. CASE HearHealthy
    BY <1>1, <1>2, <1>5, <1>9 DEF HearHealthy
  <1>10. CASE NotHeard
    BY <1>1, <1>2, <1>4, <1>5, <1>10 DEF NotHeard, screen
  <1>11. CASE Leave
    BY <1>1, <1>2, <1>11 DEF Leave, channels
  <1>12. CASE Snapshot
    BY <1>1, <1>2, <1>12 DEF Snapshot, channels
  <1>13. CASE Listen
    BY <1>1, <1>2, <1>13 DEF Listen, channels
  <1> QED
    BY <1>6, <1>7, <1>8, <1>9, <1>10, <1>11, <1>12, <1>13

LEMMA ScreenedKept == ASSUME HomeAssumption, Typed, Screened, [Next]_vars PROVE Screened'
  <1>1. Good' => Good
    BY NothingWrong
  <1>2. CASE \/ KernelHangs \/ KernelResumes \/ KernelDies \/ Listed \/ Restore \/ Selected
             \/ GeoRead \/ GeoPut \/ GeoEnds \/ GeoBatch \/ UNCHANGED vars
             \/ \E n \in Nodes : Select(n)
    <2>1. UNCHANGED <<mstate, states, health, sup, sampler, flag, cmd, page, shown, cause>>
      BY <1>2 DEF KernelHangs, KernelResumes, KernelDies, Listed, Restore, Selected, GeoRead,
                  GeoPut, GeoEnds, GeoBatch, Select, vars, core, channels, screen
    <2> QED
      BY <1>1, <2>1, ScreenedStays
  <1> QED
    BY <1>2, ProbesKeepScreen, ReportsKeepScreen, CommandsKeepScreen, WindowKeepsScreen
       DEF Next, Program

\* The poll runs only under a screen that says connected.
LEMMA PollKept ==
    ASSUME PollIsSeen, [Next]_vars
    PROVE  PollIsSeen'
  <1>1. CASE UNCHANGED <<page, shown, polling>>
    BY <1>1 DEF PollIsSeen
  <1>2. CASE HearState \/ HearFailure \/ HearHealthy \/ Leave \/ Snapshot \/ Listen \/ Answered
    BY <1>2 DEF HearState, HearFailure, HearHealthy, Leave, Snapshot, Listen, Answered, PollIsSeen
  <1>3. CASE \/ HeartbeatOk \/ HeartbeatMiss \/ SendHeartbeat \/ GiveUp \/ TornDown
             \/ SampleOk \/ SampleFails \/ SendSample \/ NotHeard
             \/ KernelHangs \/ KernelResumes \/ KernelDies
             \/ TapConnect \/ Reconnect \/ TapDisconnect
             \/ Spawn \/ Establish \/ ConnectFails \/ Stopped
             \/ Listed \/ Restore \/ Selected \/ GeoRead \/ GeoPut \/ GeoEnds \/ GeoBatch
             \/ (\E n \in Nodes : Select(n)) \/ UNCHANGED vars
    BY <1>1, <1>3 DEF HeartbeatOk, HeartbeatMiss, SendHeartbeat, GiveUp, TornDown, SampleOk,
              SampleFails, SendSample, NotHeard, KernelHangs, KernelResumes, KernelDies,
              TapConnect, Reconnect, TapDisconnect, Spawn, Establish, ConnectFails, Stopped,
              Listed, Restore, Selected, GeoRead, GeoPut, GeoEnds, GeoBatch, Select, screen, vars
  <1> QED
    BY <1>2, <1>3 DEF Next, Program

-----------------------------------------------------------------------------
(* The node in use.                                                        *)

\* A restoration is to come: the connect it follows has not been heard of, the
\* list it waits for is being read, or the choice is being put back.
ToRestore == "Connected" \in Among(states) \/ list = "chained" \/ restore

\* The kernel is on the user's choice, or the probe that took it off will put
\* it back.
OnChoice ==
    /\ geo.pc \in {"put", "lookup"} => geo.before = saved
    /\ now = IF geo.pc = "lookup" THEN geo.node ELSE saved

Chosen == mishaps = {} /\ mstate = "Connected" /\ saved # None => ToRestore \/ OnChoice

LEMMA NothingMissed ==
    ASSUME HomeAssumption, Typed, [Next]_vars, mishaps' = {}
    PROVE  mishaps = {} /\ \A w : Missed(w) => w = {}
  BY BoundsKept DEF Typed, Missed

\* A step out of sight of the choice.
LEMMA ChosenStays ==
    ASSUME HomeAssumption, Typed, [Next]_vars, Chosen,
           UNCHANGED <<mstate, saved, now, geo, restore>>,
           list = "chained" => list' = "chained",
           mishaps' = {} /\ "Connected" \in Among(states) =>
               "Connected" \in Among(states') \/ list' = "chained"
    PROVE  Chosen'
  BY NothingMissed DEF Chosen, ToRestore, OnChoice

LEMMA NodesKeepChoice ==
    ASSUME HomeAssumption, Typed, [Next]_vars, Chosen,
           Listed \/ Restore \/ Selected \/ GeoRead \/ GeoPut \/ GeoEnds
    PROVE  Chosen'
  <1>1. UNCHANGED <<mstate, kernel, states>>
    BY DEF Listed, Restore, Selected, GeoRead, GeoPut, GeoEnds, core, channels
  <1> SUFFICES ASSUME mishaps' = {}, mstate = "Connected", saved' # None, ~ToRestore'
               PROVE  OnChoice'
    BY <1>1 DEF Chosen
  <1>2. mishaps = {} /\ \A w : Missed(w) => w = {}
    BY NothingMissed
  <1>3. "Connected" \notin Among(states) /\ list' # "chained" /\ ~restore'
    BY <1>1 DEF ToRestore
  <1>4. Ready(geo) /\ NodesTyped
    BY DEF Typed, NodesTyped
  <1>5. Crossing = {} <=> geo.pc \notin {"put", "lookup"}
    BY DEF Crossing
  <1>6. CASE Listed
    <2>1. UNCHANGED <<now, saved>> /\ (list = "chained" => Answers /\ Crossing = {})
      BY <1>2, <1>6 DEF Listed
    <2>2. geo' = geo \/ (geo'.pc = "before" /\ geo.pc = "idle")
      <3> DEFINE n == seen'
                 x == [NoProbe EXCEPT !.pc = "before", !.node = n]
      <3>1. geo' = geo \/ (geo' = x /\ geo = NoProbe)
        BY <1>6 DEF Listed
      <3> HIDE DEF n
      <3>2. x.pc = "before" /\ NoProbe.pc = "idle"
        BY DEF NoProbe
      <3> HIDE DEF x
      <3>3. CASE geo' = geo
        BY <3>3
      <3>4. CASE geo' = x /\ geo = NoProbe
        BY <3>2, <3>4
      <3> QED
        BY <3>1, <3>3, <3>4
    <2>3. OnChoice
      <3>1. CASE list = "chained"
        <4>1. Answers /\ geo.pc \notin {"put", "lookup"} /\ seen' = now /\ now \in Nodes
          BY <1>4, <1>5, <1>6, <2>1, <3>1 DEF Listed, Answers, NodesTyped
        <4>2. now = saved
          <5>1. ~(seen' # None /\ saved \notin {None, seen'})
            BY <1>3, <1>6, <3>1 DEF Listed
          <5>2. None \notin Nodes
            BY DEF HomeAssumption
          <5> QED
            BY <2>1, <4>1, <5>1, <5>2
        <4> QED
          BY <4>1, <4>2 DEF OnChoice
      <3>2. CASE list # "chained"
        <4>1. ~restore
          BY <1>3, <1>4, <1>6, <3>2 DEF Listed, NodesTyped
        <4> QED
          BY <1>2, <1>3, <2>1, <3>2, <4>1 DEF Chosen, ToRestore
      <3> QED
        BY <3>1, <3>2
    <2> QED
      BY <2>1, <2>2, <2>3 DEF OnChoice
  <1>7. CASE Restore
    <2>1. Answers /\ Crossing = {} /\ now' = saved /\ UNCHANGED <<saved, geo>>
      BY <1>2, <1>7 DEF Restore
    <2> QED
      BY <1>5, <2>1 DEF OnChoice
  <1>8. CASE Selected
    <2>1. CASE Answers
      <3>1. Crossing = {} /\ now' = saved' /\ UNCHANGED geo
        BY <1>2, <1>8, <2>1 DEF Selected
      <3> QED
        BY <1>5, <3>1 DEF OnChoice
    <2>2. CASE ~Answers
      BY <1>2, <1>3, <1>8, <2>2 DEF Selected, Chosen, ToRestore, OnChoice
    <2> QED
      BY <2>1, <2>2
  <1>9. ASSUME GeoRead \/ GeoPut \/ GeoEnds
        PROVE  UNCHANGED <<saved, restore>> /\ OnChoice
    <2>1. UNCHANGED <<saved, restore>> /\ (list = "chained" => list' = "chained")
      BY <1>9 DEF GeoRead, GeoPut, GeoEnds, Refresh
    <2> QED
      BY <1>2, <1>3, <2>1 DEF Chosen, ToRestore
  <1>10. CASE GeoRead
    <2>1. geo.pc = "before" /\ UNCHANGED now /\ now = saved /\ UNCHANGED saved
      BY <1>9, <1>10 DEF GeoRead, OnChoice
    <2>2. geo'.pc = "idle" \/ (geo'.pc = "put" /\ geo'.before = now)
      BY <1>4, <1>10 DEF GeoRead, NoProbe, Ready, Probes
    <2> QED
      BY <2>1, <2>2 DEF OnChoice
  <1>11. CASE GeoPut
    <2>1. geo.pc = "put" /\ now = saved /\ geo.before = saved /\ UNCHANGED saved
      BY <1>9, <1>11 DEF GeoPut, OnChoice
    <2>2. \/ /\ geo'.pc = "lookup" /\ geo'.before = geo.before /\ geo'.node = geo.node
             /\ now' = geo.node
          \/ geo'.pc = "idle" /\ now' = now
      BY <1>4, <1>11 DEF GeoPut, NoProbe, Ready, Probes
    <2> QED
      BY <2>1, <2>2 DEF OnChoice
  <1>12. CASE GeoEnds
    <2>1. geo.pc = "lookup" /\ now = geo.node /\ geo.before = saved /\ UNCHANGED saved
      BY <1>9, <1>12 DEF GeoEnds, OnChoice
    <2>2. geo'.pc = "idle"
      BY <1>12 DEF GeoEnds, NoProbe
    <2>3. now' = geo.before
      BY <1>2, <1>12, <2>1 DEF GeoEnds
    <2> QED
      BY <2>1, <2>2, <2>3 DEF OnChoice
  <1> QED
    BY <1>6, <1>7, <1>8, <1>10, <1>11, <1>12

LEMMA ChosenKept ==
    ASSUME HomeAssumption, Typed, Stations, Chosen, [Next]_vars
    PROVE  Chosen'
  <1>1. states \in Seq(States)
    BY DEF Typed, ChannelsTyped
  <1>2. CASE TornDown \/ TapConnect \/ Reconnect \/ ConnectFails \/ Stopped
    BY <1>2 DEF TornDown, TapConnect, Reconnect, ConnectFails, Stopped, Publish, Chosen
  <1>3. CASE Establish
    <2>1. states' = Append(states, "Connected")
      BY <1>3 DEF Establish, Publish
    <2>2. "Connected" \in Among(states')
      BY <1>1, <2>1, Queued DEF States
    <2> QED
      BY <2>2 DEF Chosen, ToRestore
  <1>4. CASE Spawn
    BY <1>4 DEF Spawn, Stations, Chosen
  <1>5. ASSUME states # <<>>, states' = Tail(states)
        PROVE  Among(states) = Among(states') \cup {Head(states)}
    BY <1>1, <1>5, Heads
  <1>6. CASE HearState
    BY <1>5, <1>6, ChosenStays DEF HearState, core
  <1>7. CASE NotHeard
    <2>1. UNCHANGED <<mstate, saved, now, geo, restore, list>>
      BY <1>7 DEF NotHeard, core, nodes
    <2>2. ASSUME mishaps' = {}, "Connected" \in Among(states)
          PROVE  "Connected" \in Among(states')
      <3>1. \A w : Missed(w) => w = {}
        BY <2>2, NothingMissed
      <3>2. CASE UNCHANGED states
        BY <2>2, <3>2
      <3>3. CASE states # <<>> /\ states' = Tail(states)
                 /\ Missed(IF page = "snapshot" THEN {"missed"}
                           ELSE IF Head(states) = "Connected" THEN {"no restore"} ELSE {})
        BY <1>5, <2>2, <3>1, <3>3
      <3> QED
        BY <1>7, <3>2, <3>3 DEF NotHeard
    <2> QED
      BY <2>1, <2>2, ChosenStays
  <1>8. CASE \/ HeartbeatOk \/ HeartbeatMiss \/ SendHeartbeat \/ GiveUp
             \/ SampleOk \/ SampleFails \/ SendSample
             \/ KernelHangs \/ KernelResumes \/ KernelDies \/ TapDisconnect
             \/ HearFailure \/ Leave \/ Snapshot \/ (\E n \in Nodes : Select(n)) \/ UNCHANGED vars
    <2>1. UNCHANGED <<mstate, saved, now, geo, restore, list, states>>
      BY <1>8 DEF HeartbeatOk, HeartbeatMiss, SendHeartbeat, GiveUp, SampleOk, SampleFails,
              SendSample, KernelHangs, KernelResumes, KernelDies, TapDisconnect,
              HearFailure, Leave, Snapshot, Select, vars, core, channels, nodes
    <2> QED
      BY <2>1, ChosenStays
  <1>9. CASE Answered \/ HearHealthy \/ Listen \/ GeoBatch
    <2>1. UNCHANGED <<mstate, saved, now, geo, restore, states>>
          /\ (list = "chained" => list' = "chained")
      BY <1>9 DEF Answered, HearHealthy, Listen, GeoBatch, Refresh, core, channels
    <2> QED
      BY <2>1, ChosenStays
  <1> QED
    BY <1>2, <1>3, <1>4, <1>6, <1>7, <1>8, <1>9, NodesKeepChoice DEF Next, Program

-----------------------------------------------------------------------------
(* The theorems about the Home page.                                       *)

HInv == Typed /\ Screened /\ PollIsSeen /\ Chosen

LEMMA HomeInvariant == Spec => []HInv
  <1>1. Init => HInv
    BY HomeAssumption, TypedInitially, ScreenedInitially DEF Init, HInv, PollIsSeen, Chosen
  <1>2. HInv /\ [Next]_vars => HInv'
    BY HomeAssumption, TypedKept, ScreenedKept, PollKept, ChosenKept DEF HInv, Screened
  <1> QED
    BY <1>1, <1>2, PTL DEF Spec

\* Every variable stays in its range: misses and traffic failures stop at their
\* thresholds, a probe has a node to put back (manager.rs, geo_probe of
\* commands/connection.rs).
THEOREM HomeTypeCorrect == Spec => []TypeOK
  <1>1. HInv => TypeOK
    BY TypedIsTypeOK DEF HInv
  <1> QED
    BY <1>1, HomeInvariant, PTL

\* Once every event was heard of, a screen that says connected is right, one
\* that says stalled is of a connection the manager holds for stalled, and the
\* traffic poll runs under no other screen (the listeners of the store and the
\* forwarders of lib.rs) -- unless a report, an answer or a change reached the
\* screen late or not at all, which the history Unheard records.
THEOREM ScreenTellsTheTruth == Spec => []ScreenIsTrue
  <1>1. ASSUME HInv PROVE ScreenIsTrue
    <2>1. ConnectedIsTrue
      BY <1>1 DEF HInv, Screened, ConnectedHeld, Following, ConnectedIsTrue, Heard, Good
    <2>2. StallIsTrue
      BY <1>1 DEF HInv, Screened, ErrorIsStall, Following, Running, NoneOnTheWay, StallIsTrue,
                  Heard, Good
    <2>3. PollIsSeen
      BY <1>1 DEF HInv
    <2> QED
      BY <2>1, <2>2, <2>3 DEF ScreenIsTrue
  <1> QED
    BY <1>1, HomeInvariant, PTL

\* While no probe crossed a selection and no selection was refused, the kernel
\* is on the node the user chose last, in this connection or an earlier one
\* (restoreSelections of the store, select_proxy of commands/connection.rs).
THEOREM ChoiceIsKept == Spec => []ChoiceHolds
  <1>1. ASSUME HInv PROVE ChoiceHolds
    <2> SUFFICES ASSUME Settled, mishaps = {}, Answers, saved # None PROVE now = saved
      BY DEF ChoiceHolds
    <2>1. states = <<>> /\ list = "idle" /\ ~restore /\ geo = NoProbe
      BY DEF Settled, Heard
    <2>2. Among(states) = {} /\ geo.pc = "idle"
      BY <2>1 DEF Among, NoProbe
    <2> QED
      BY <1>1, <2>1, <2>2 DEF HInv, Chosen, ToRestore, OnChoice, Answers
  <1> QED
    BY <1>1, HomeInvariant, PTL

-----------------------------------------------------------------------------
(***************************************************************************)
(* The auto-reconnect of the same store.                                   *)
(*                                                                         *)
(* The first invariant: while the loop is not cancelled, whatever is left  *)
(* of it -- the pending timer, the timers whose handle was overwritten,    *)
(* the reconnects under way -- stems from an exit handled since the last   *)
(* cancel.  All three parts are needed: each of them can start the next    *)
(* attempt.                                                                *)
(***************************************************************************)

LoopAlive ==
    \/ timer # NoTimer
    \/ \E a \in 0..Attempts - 1 : lost[a] > 0
    \/ \E c \in Calls : calls[c].pc # "idle" /\ ByLoop(c)

StemsFromCrash == LoopAlive /\ ~cancelled => crashSeen

CallsTyped == calls \in [Calls -> CallType]
LostTyped == DOMAIN lost = 0..Attempts - 1 /\ timer \in TimerSlots

CountTyped == count \in [ops : Nat, crashes : Nat, visits : Nat, reconnects : Nat]

Inv == CallsTyped /\ LostTyped /\ StemsFromCrash

-----------------------------------------------------------------------------
LEMMA NoCallTyped == NoCall \in CallType /\ NoCall.pc = "idle" /\ NoCall.attempt = NoTimer
  BY Z3 DEF NoCall, CallType, NoTimer, TimerSlots, Attempts

\* At the start nothing is left of any loop.
LEMMA InitInv == LoopInit => Inv
<1> SUFFICES ASSUME LoopInit PROVE Inv
  OBVIOUS
<1>1. CallsTyped
  BY NoCallTyped DEF LoopInit, CallsTyped
<1>2. LostTyped
  BY DEF LoopInit, LostTyped, NoTimer, TimerSlots, Attempts
<1>3. ~LoopAlive
  BY NoCallTyped DEF LoopInit, LoopAlive, ByLoop, Attempts
<1> QED
  BY <1>1, <1>2, <1>3 DEF Inv, StemsFromCrash

\* A step that leaves the loop alone, but for calls that it does not own.
LEMMA LoopUntouched ==
    ASSUME Inv, UNCHANGED <<cancelled, timer, lost, crashSeen>>, CallsTyped',
           \A c \in Calls : calls'[c].pc # "idle" /\ calls'[c].attempt # NoTimer
                            => calls[c].pc # "idle" /\ calls[c].attempt # NoTimer
    PROVE  Inv'
  BY DEF Inv, LostTyped, StemsFromCrash, LoopAlive, ByLoop

\* A step after which the loop is cancelled, or an exit has been handled.
LEMMA LoopExcused ==
    ASSUME LostTyped', CallsTyped', cancelled' \/ crashSeen'
    PROVE  Inv'
  BY DEF Inv, StemsFromCrash

LEMMA CancelExcuses ==
    ASSUME Inv, CancelReconnect, CallsTyped'
    PROVE  Inv'
<1>1. LostTyped'
  BY DEF Inv, CancelReconnect, LostTyped, NoTimer, TimerSlots, Attempts
<1> QED
  BY <1>1, LoopExcused DEF CancelReconnect

\* The next attempt is scheduled only by a loop that was alive and not
\* cancelled.
LEMMA ScheduleKeeps ==
    ASSUME NEW attempt \in Nat, Inv, ScheduleReconnect(attempt), UNCHANGED crashSeen,
           LoopAlive, ~cancelled, CallsTyped'
    PROVE  Inv'
<1>1. crashSeen' = crashSeen /\ (crashSeen \/ FALSE)
  BY DEF Inv, StemsFromCrash
<1>2. LostTyped'
  BY DEF Inv, LostTyped, ScheduleReconnect, Forget, NoTimer, TimerSlots, Attempts
<1> QED
  BY <1>1, <1>2 DEF Inv, StemsFromCrash

\* Every new value of a command is again a command.
LEMMA CallUpdates ==
    ASSUME CallsTyped, NEW c \in Calls
    PROVE  /\ \A r \in CallType : [calls EXCEPT ![c] = r] \in [Calls -> CallType]
           /\ \A ok \in BOOLEAN : Answer(c, ok) => CallsTyped'
           /\ \A op \in {"connect", "disconnect"}, b \in BOOLEAN : Send(c, op, b) => CallsTyped'
           /\ calls' = [calls EXCEPT ![c] = NoCall] => CallsTyped'
<1>1. \A r \in CallType : [calls EXCEPT ![c] = r] \in [Calls -> CallType]
  BY DEF CallsTyped
<1>2. calls[c] \in CallType
  BY DEF CallsTyped
<1>3. \A ok \in BOOLEAN : [calls[c] EXCEPT !.pc = "answered", !.ok = ok] \in CallType
  BY <1>2 DEF CallType
<1>4. \A ok \in BOOLEAN : Answer(c, ok) => CallsTyped'
  BY <1>1, <1>3 DEF Answer, CallsTyped
<1>5. \A op \in {"connect", "disconnect"}, b \in BOOLEAN :
         [NoCall EXCEPT !.pc = "sent", !.op = op, !.andConnect = b] \in CallType
  <2>1. \A r \in CallType, op \in {"connect", "disconnect"}, b \in BOOLEAN :
           [r EXCEPT !.pc = "sent", !.op = op, !.andConnect = b] \in CallType
    BY DEF CallType
  <2> QED
    BY <2>1, NoCallTyped
<1>6. \A op \in {"connect", "disconnect"}, b \in BOOLEAN : Send(c, op, b) => CallsTyped'
  BY <1>1, <1>5 DEF Send, CallsTyped
<1>7. calls' = [calls EXCEPT ![c] = NoCall] => CallsTyped'
  BY <1>1, NoCallTyped DEF CallsTyped
<1> QED
  BY <1>1, <1>4, <1>6, <1>7

-----------------------------------------------------------------------------
\* The manager's answers, and the answers to deliberate calls.
LEMMA AnswersKeep ==
    ASSUME Inv, NEW c \in Calls,
           Manager(c) \/ ConnectAnswered(c) \/ DisconnectAnswered(c)
    PROVE  Inv'
<1> USE DEF Inv
<1>1. ASSUME NEW ok \in BOOLEAN, calls[c].pc = "sent", Answer(c, ok), UNCHANGED loop
      PROVE  Inv'
  <2>1. CallsTyped'
    BY <1>1, CallUpdates
  <2>2. \A d \in Calls : calls'[d].attempt = calls[d].attempt
                         /\ (calls[d].pc = "idle" => calls'[d].pc = "idle")
    BY <1>1 DEF Answer, CallsTyped, CallType
  <2> QED
    BY <1>1, <2>1, <2>2, LoopUntouched DEF loop
<1>2. ASSUME calls' = [calls EXCEPT ![c] = NoCall], UNCHANGED loop
      PROVE  Inv'
  <2>1. CallsTyped'
    BY <1>2, CallUpdates
  <2>2. \A d \in Calls : calls'[d].pc # "idle" => calls'[d] = calls[d]
    BY <1>2, NoCallTyped DEF CallsTyped
  <2> QED
    BY <1>2, <2>1, <2>2, LoopUntouched DEF loop
<1>3. CASE ConnectSucceeds(c)
  BY <1>1, <1>3 DEF ConnectSucceeds
<1>4. CASE ConnectErrs(c)
  BY <1>1, <1>4 DEF ConnectErrs
<1>5. CASE DisconnectEnds(c)
  BY <1>1, <1>5 DEF DisconnectEnds
<1>6. CASE ConnectAnswered(c)
  BY <1>2, <1>6 DEF ConnectAnswered
<1>7. CASE DisconnectAnswered(c)
  <2>1. CASE calls[c].andConnect /\ calls[c].ok
    BY <1>7, <2>1, CallUpdates, CancelExcuses DEF DisconnectAnswered
  <2>2. CASE ~(calls[c].andConnect /\ calls[c].ok)
    BY <1>7, <2>2, <1>2 DEF DisconnectAnswered
  <2> QED
    BY <2>1, <2>2
<1> QED
  BY <1>3, <1>4, <1>5, <1>6, <1>7 DEF Manager

\* A timer fires: pending or lost, it was part of the loop.
LEMMA TimerKeeps ==
    ASSUME Inv, NEW c \in Calls, Timer(c)
    PROVE  Inv'
<1>1. PICK a \in 0..Attempts - 1 :
         Fire(a, c) /\ (timer = a \/ lost[a] > 0)
  BY DEF Timer, TimerFires, LostTimerFires, Inv, LostTyped, NoTimer, TimerSlots, Attempts
<1>2. LoopAlive
  BY <1>1 DEF LoopAlive, NoTimer, TimerSlots, Attempts
<1>3. LostTyped'
  BY DEF Timer, TimerFires, LostTimerFires, Inv, LostTyped, NoTimer, TimerSlots, Attempts
<1>4. CASE cancelled
  BY <1>1, <1>3, <1>4, LoopExcused DEF Fire, Inv, CallsTyped
<1>5. CASE ~cancelled
  <2>1. crashSeen /\ UNCHANGED crashSeen
    BY <1>1, <1>2, <1>5 DEF Inv, StemsFromCrash, Fire
  <2>2. \A r \in CallType, b \in TimerSlots : [r EXCEPT !.pc = "sent", !.attempt = b] \in CallType
    BY DEF CallType
  <2> a \in TimerSlots
    BY DEF NoTimer, TimerSlots, Attempts
  <2>3. [NoCall EXCEPT !.pc = "sent", !.attempt = a] \in CallType
    BY <2>2, NoCallTyped
  <2>4. CallsTyped'
    BY <1>1, <1>5, <2>3, CallUpdates DEF Fire, Inv, CallsTyped
  <2> QED
    BY <1>3, <2>1, <2>4, LoopExcused
<1> QED
  BY <1>4, <1>5

LEMMA ReconnectAnsweredKeeps ==
    ASSUME Inv, NEW c \in Calls, ReconnectAnswered(c)
    PROVE  Inv'
<1>1. CallsTyped'
  BY CallUpdates DEF ReconnectAnswered, Inv
<1>2. \A d \in Calls : calls'[d].pc # "idle" => calls'[d] = calls[d]
  BY NoCallTyped DEF ReconnectAnswered, Inv, CallsTyped
<1>3. CASE calls[c].ok \/ cancelled
  BY <1>1, <1>2, <1>3, LoopUntouched DEF ReconnectAnswered
<1>4. CASE ~(calls[c].ok \/ cancelled)
  <2>1. LoopAlive
    BY DEF ReconnectAnswered, LoopAlive
  <2>2. calls[c].attempt + 1 \in Nat
    <3>1. \A r \in CallType : r.attempt \in TimerSlots
      BY DEF CallType
    <3>2. \A a \in TimerSlots : a + 1 \in Nat
      BY DEF TimerSlots, NoTimer, Attempts
    <3> QED
      BY <3>1, <3>2 DEF Inv, CallsTyped
  <2> QED
    BY <1>1, <1>4, <2>1, <2>2, ScheduleKeeps DEF ReconnectAnswered
<1> QED
  BY <1>3, <1>4

LEMMA DeliberateKeeps ==
    ASSUME Inv, NEW c \in Calls, Connect(c) \/ Disconnect(c) \/ SetMode(c)
    PROVE  Inv'
<1>1. CancelReconnect
  BY DEF Connect, Disconnect, SetMode, Deliberate
<1>2. CallsTyped'
  BY CallUpdates DEF Connect, Disconnect, SetMode, Inv
<1> QED
  BY <1>1, <1>2, CancelExcuses

LEMMA EventsKeep ==
    ASSUME Inv, KernelExits \/ ConnectedEvent \/ ExitedEvent
    PROVE  Inv'
<1>1. UNCHANGED calls /\ CallsTyped'
  BY DEF KernelExits, ConnectedEvent, ExitedEvent, Inv, CallsTyped
<1>2. CASE UNCHANGED <<cancelled, timer, lost, crashSeen>>
  BY <1>1, <1>2, LoopUntouched
<1>3. CASE ExitedEvent /\ listeners["failure"] # 0
  <2>1. LostTyped' /\ crashSeen' = TRUE
    BY <1>3 DEF ExitedEvent, Forget, LostTyped, NoTimer, TimerSlots, Attempts
  <2> QED
    BY <1>1, <2>1, LoopExcused
<1> QED
  BY <1>2, <1>3 DEF KernelExits, ConnectedEvent, ExitedEvent, loop

LEMMA PageKeeps ==
    ASSUME Inv, Dispose \/ \E h \in Visits : Hydrate(h) \/ SnapshotRead(h) \/ Listening(h)
    PROVE  Inv'
<1>1. UNCHANGED calls /\ CallsTyped'
  BY DEF Dispose, Hydrate, SnapshotRead, Listening, Inv, CallsTyped
<1>2. CASE Dispose
  BY <1>1, <1>2, CancelExcuses DEF Dispose
<1>3. CASE \E h \in Visits : Hydrate(h) \/ SnapshotRead(h) \/ Listening(h)
  BY <1>1, <1>3, LoopUntouched DEF Hydrate, SnapshotRead, Listening, loop
<1> QED
  BY <1>2, <1>3

LEMMA NextInv == Inv /\ [LoopNext]_loopVars => Inv'
<1> SUFFICES ASSUME Inv, [LoopNext]_loopVars PROVE Inv'
  OBVIOUS
<1>1. CASE UNCHANGED loopVars
  BY <1>1 DEF loopVars, Inv, CallsTyped, LostTyped, StemsFromCrash, LoopAlive, ByLoop
<1>2. ASSUME NEW c \in Calls,
             Manager(c) \/ CallAnswered(c) \/ Timer(c) \/ Connect(c) \/ Disconnect(c) \/ SetMode(c)
      PROVE  Inv'
  BY <1>2, AnswersKeep, ReconnectAnsweredKeeps, TimerKeeps, DeliberateKeeps DEF CallAnswered
<1>3. CASE KernelExits \/ ConnectedEvent \/ ExitedEvent
  BY <1>3, EventsKeep
<1>4. CASE Dispose \/ \E h \in Visits : Hydrate(h) \/ SnapshotRead(h) \/ Listening(h)
  BY <1>4, PageKeeps
<1> QED
  BY <1>1, <1>2, <1>3, <1>4 DEF LoopNext

-----------------------------------------------------------------------------
(* The count of reconnects.                                                *)

LEMMA CountInv == CountTyped /\ [LoopNext]_loopVars => CountTyped'
<1> SUFFICES ASSUME CountTyped, [LoopNext]_loopVars PROVE CountTyped'
  OBVIOUS
<1>1. \A k \in {"ops", "crashes", "visits", "reconnects"} : Count(k) => CountTyped'
  BY DEF Count, CountTyped
<1>2. UNCHANGED count \/ \E k \in {"ops", "crashes", "visits", "reconnects"} : Count(k)
  BY DEF LoopNext, loopVars, Manager, CallAnswered, Timer, ConnectSucceeds, ConnectErrs, DisconnectEnds,
         ReconnectAnswered, ConnectAnswered, DisconnectAnswered, TimerFires, LostTimerFires, Fire,
         Connect, Disconnect, SetMode, Deliberate, KernelExits, ConnectedEvent, ExitedEvent,
         Hydrate, SnapshotRead, Listening, Dispose
<1> QED
  BY <1>1, <1>2 DEF CountTyped

\* Only a timer starts a reconnect, and only when it finds the loop alive.
LEMMA OnlyTimersReconnect ==
    ASSUME Inv, CountTyped, [LoopNext]_loopVars, count'.reconnects > count.reconnects
    PROVE  crashSeen
<1>1. \A k \in {"ops", "crashes", "visits"} : Count(k) => count'.reconnects = count.reconnects
  BY DEF Count, CountTyped
<1>2. count'.reconnects # count.reconnects
  BY DEF CountTyped
<1>3. PICK c \in Calls : Timer(c)
  BY <1>1, <1>2
     DEF LoopNext, loopVars, Manager, CallAnswered, ConnectSucceeds, ConnectErrs, DisconnectEnds,
         ReconnectAnswered, ConnectAnswered, DisconnectAnswered,
         Connect, Disconnect, SetMode, Deliberate, KernelExits, ConnectedEvent, ExitedEvent,
         Hydrate, SnapshotRead, Listening, Dispose
<1>4. LoopAlive
  BY <1>3 DEF Timer, TimerFires, LostTimerFires, LoopAlive
<1>5. ~cancelled
  BY <1>2, <1>3 DEF Timer, TimerFires, LostTimerFires, Fire
<1> QED
  BY <1>4, <1>5 DEF Inv, StemsFromCrash

\* An automatic reconnect starts only on account of an exit handled after the
\* last deliberate action (scheduleReconnect and cancelReconnect of the store),
\* for any number of commands, crashes and overlapping runs of hydrate.
THEOREM ReconnectsStemFromCrash == LoopSpec => ReconnectNeedsCrash
<1>1. LoopInit => Inv /\ CountTyped
  BY InitInv DEF LoopInit, CountTyped
<1>2. Inv /\ CountTyped /\ [LoopNext]_loopVars => Inv' /\ CountTyped'
  BY NextInv, CountInv
<1>3. Inv /\ CountTyped /\ [LoopNext]_loopVars
      => [count'.reconnects > count.reconnects => crashSeen]_loopVars
  BY OnlyTimersReconnect
<1> QED
  BY <1>1, <1>2, <1>3, PTL DEF LoopSpec, ReconnectNeedsCrash

-----------------------------------------------------------------------------
(* Types of the loop.                                                      *)

\* A handle to unlisten stands for a callback that is registered, so leaving
\* the page never takes away more than there are.
ListenersTyped ==
    /\ listeners \in [Events -> Nat] /\ unlisten \subseteq Events
    /\ \A e \in unlisten : listeners[e] # 0
    /\ hydrating \in [Visits -> {"none", "snapshot"} \cup Events]

ChannelTypes == opened \in Nat /\ exits \in Nat /\ lost \in [0..Attempts - 1 -> Nat]

Bounded == count \in [ops : 0..MaxOps, crashes : 0..MaxCrashes, visits : 0..MaxVisits, reconnects : Nat]

FlagsTyped ==
    /\ watched \in BOOLEAN /\ reconnecting \in BOOLEAN /\ cancelled \in BOOLEAN
    /\ mounted \in BOOLEAN /\ crashSeen \in BOOLEAN /\ off \in BOOLEAN

LoopTyped == FlagsTyped /\ ChannelTypes /\ ListenersTyped /\ Bounded

LEMMA LoopTypedInitially == ASSUME ReconnectAssumption, LoopInit PROVE LoopTyped
<1>1. FlagsTyped
  BY DEF LoopInit, FlagsTyped
<1>2. ChannelTypes
  BY DEF LoopInit, ChannelTypes, Attempts
<1>3. ListenersTyped
  BY DEF LoopInit, ListenersTyped, Events
<1>4. Bounded
  BY DEF LoopInit, Bounded, ReconnectAssumption
<1> QED
  BY <1>1, <1>2, <1>3, <1>4 DEF LoopTyped

\* What runs outside of the page leaves the listeners alone.
LEMMA OnlyThePageListens ==
    ASSUME [LoopNext]_loopVars,
           ~ \/ Dispose
             \/ \E h \in Visits : Hydrate(h) \/ SnapshotRead(h) \/ Listening(h)
    PROVE  UNCHANGED <<listeners, unlisten, hydrating, mounted>>
  BY DEF LoopNext, loopVars, Manager, CallAnswered, Timer, ConnectSucceeds, ConnectErrs, DisconnectEnds,
         ReconnectAnswered, ConnectAnswered, DisconnectAnswered, TimerFires, LostTimerFires, Fire,
         Connect, Disconnect, SetMode, Deliberate, KernelExits, ConnectedEvent, ExitedEvent, visiting

LEMMA ListenersKept ==
    ASSUME ListenersTyped, [LoopNext]_loopVars
    PROVE  ListenersTyped'
<1>1. CASE UNCHANGED <<listeners, unlisten, hydrating>>
  BY <1>1 DEF ListenersTyped
<1>2. ASSUME NEW h \in Visits, Hydrate(h) PROVE ListenersTyped'
  BY <1>2 DEF Hydrate, ListenersTyped
<1>3. ASSUME NEW h \in Visits, SnapshotRead(h) PROVE ListenersTyped'
  BY <1>3 DEF SnapshotRead, NextListen, ListenersTyped, Events
<1>4. ASSUME NEW h \in Visits, Listening(h) PROVE ListenersTyped'
  <2>1. hydrating' \in [Visits -> {"none", "snapshot"} \cup Events]
    BY <1>4 DEF Listening, NextListen, ListenersTyped, Events
  <2>2. /\ hydrating[h] \in Events /\ listeners[hydrating[h]] + 1 \in Nat \ {0}
        /\ listeners' = [listeners EXCEPT ![hydrating[h]] = listeners[hydrating[h]] + 1]
        /\ unlisten' = unlisten \cup {hydrating[h]}
    BY <1>4 DEF Listening, ListenersTyped
  <2> QED
    BY <2>1, <2>2 DEF ListenersTyped
<1>5. CASE Dispose
  <2>1. \A e \in Events : listeners[e] - (IF e \in unlisten THEN 1 ELSE 0) \in Nat
    BY DEF ListenersTyped
  <2> QED
    BY <1>5, <2>1 DEF Dispose, ListenersTyped
<1> QED
  BY <1>1, <1>2, <1>3, <1>4, <1>5, OnlyThePageListens

LEMMA ChannelsOfLoopKept ==
    ASSUME Inv, ChannelTypes, ListenersTyped, [LoopNext]_loopVars
    PROVE  ChannelTypes'
<1>1. /\ opened' = opened \/ opened' = opened + 1 \/ (opened > 0 /\ opened' = opened - 1)
      /\ exits' = exits \/ exits' = exits + 1 \/ (exits > 0 /\ exits' = exits - 1)
  BY DEF LoopNext, loopVars, Manager, CallAnswered, Timer, ConnectSucceeds, ConnectErrs, DisconnectEnds,
         ReconnectAnswered, ConnectAnswered, DisconnectAnswered, TimerFires, LostTimerFires, Fire,
         Connect, Disconnect, SetMode, Deliberate, KernelExits, ConnectedEvent, ExitedEvent,
         Hydrate, SnapshotRead, Listening, Dispose, arriving
<1>2. \/ UNCHANGED lost
      \/ \E n \in Nat : Forget(n)
      \/ \E a \in 0..Attempts - 1 : lost[a] > 0 /\ lost' = [lost EXCEPT ![a] = lost[a] - 1]
  <2>1. listeners["failure"] # 0 => listeners["failure"] - 1 \in Nat
    BY DEF ListenersTyped, Events
  <2>2. 0 \in Nat
    OBVIOUS
  <2> QED
    BY <2>1, <2>2
       DEF LoopNext, loopVars, Manager, CallAnswered, Timer, ConnectSucceeds, ConnectErrs,
           DisconnectEnds, ReconnectAnswered, ScheduleReconnect, ConnectAnswered,
           DisconnectAnswered, TimerFires, LostTimerFires, Connect, Disconnect, SetMode, Deliberate,
           CancelReconnect, KernelExits, ConnectedEvent, ExitedEvent, Hydrate, SnapshotRead,
           Listening, Dispose, loop
<1>3. lost' \in [0..Attempts - 1 -> Nat]
  <2>1. ASSUME NEW n \in Nat, Forget(n) PROVE lost' \in [0..Attempts - 1 -> Nat]
    BY <2>1 DEF Forget, ChannelTypes
  <2>2. ASSUME NEW a \in 0..Attempts - 1, lost[a] > 0, lost' = [lost EXCEPT ![a] = lost[a] - 1]
        PROVE  lost' \in [0..Attempts - 1 -> Nat]
    BY <2>2 DEF ChannelTypes
  <2> QED
    BY <1>2, <2>1, <2>2 DEF ChannelTypes
<1> QED
  BY <1>1, <1>3 DEF ChannelTypes

LEMMA BoundedKept ==
    ASSUME Bounded, ReconnectAssumption, [LoopNext]_loopVars
    PROVE  Bounded'
<1>1. \/ UNCHANGED count \/ Count("reconnects")
      \/ Count("ops") /\ count.ops < MaxOps
      \/ Count("crashes") /\ count.crashes < MaxCrashes
      \/ Count("visits") /\ count.visits < MaxVisits
  BY DEF LoopNext, loopVars, Manager, CallAnswered, Timer, ConnectSucceeds, ConnectErrs, DisconnectEnds,
         ReconnectAnswered, ConnectAnswered, DisconnectAnswered, TimerFires, LostTimerFires, Fire,
         Connect, Disconnect, SetMode, Deliberate, KernelExits, ConnectedEvent, ExitedEvent,
         Hydrate, SnapshotRead, Listening, Dispose
<1> QED
  BY <1>1 DEF Bounded, Count, ReconnectAssumption

LEMMA FlagsKept ==
    ASSUME FlagsTyped, [LoopNext]_loopVars
    PROVE  FlagsTyped'
<1>1. watched' \in BOOLEAN
  BY DEF LoopNext, loopVars, Manager, CallAnswered, Timer, ConnectSucceeds, ConnectErrs,
         DisconnectEnds, ReconnectAnswered, ScheduleReconnect, ConnectAnswered,
         DisconnectAnswered, TimerFires, LostTimerFires, Fire, Connect, Disconnect, SetMode,
         Deliberate, CancelReconnect, KernelExits, ConnectedEvent, ExitedEvent, Hydrate,
         SnapshotRead, Listening, Dispose, loop, visiting, FlagsTyped
<1>2. reconnecting' \in BOOLEAN
  BY DEF LoopNext, loopVars, Manager, CallAnswered, Timer, ConnectSucceeds, ConnectErrs,
         DisconnectEnds, ReconnectAnswered, ScheduleReconnect, ConnectAnswered,
         DisconnectAnswered, TimerFires, LostTimerFires, Fire, Connect, Disconnect, SetMode,
         Deliberate, CancelReconnect, KernelExits, ConnectedEvent, ExitedEvent, Hydrate,
         SnapshotRead, Listening, Dispose, loop, visiting, FlagsTyped
<1>3. cancelled' \in BOOLEAN
  BY DEF LoopNext, loopVars, Manager, CallAnswered, Timer, ConnectSucceeds, ConnectErrs,
         DisconnectEnds, ReconnectAnswered, ScheduleReconnect, ConnectAnswered,
         DisconnectAnswered, TimerFires, LostTimerFires, Fire, Connect, Disconnect, SetMode,
         Deliberate, CancelReconnect, KernelExits, ConnectedEvent, ExitedEvent, Hydrate,
         SnapshotRead, Listening, Dispose, loop, visiting, FlagsTyped
<1>4. mounted' \in BOOLEAN
  BY DEF LoopNext, loopVars, Manager, CallAnswered, Timer, ConnectSucceeds, ConnectErrs,
         DisconnectEnds, ReconnectAnswered, ScheduleReconnect, ConnectAnswered,
         DisconnectAnswered, TimerFires, LostTimerFires, Fire, Connect, Disconnect, SetMode,
         Deliberate, CancelReconnect, KernelExits, ConnectedEvent, ExitedEvent, Hydrate,
         SnapshotRead, Listening, Dispose, loop, visiting, FlagsTyped
<1>5. crashSeen' \in BOOLEAN
  BY DEF LoopNext, loopVars, Manager, CallAnswered, Timer, ConnectSucceeds, ConnectErrs,
         DisconnectEnds, ReconnectAnswered, ScheduleReconnect, ConnectAnswered,
         DisconnectAnswered, TimerFires, LostTimerFires, Fire, Connect, Disconnect, SetMode,
         Deliberate, CancelReconnect, KernelExits, ConnectedEvent, ExitedEvent, Hydrate,
         SnapshotRead, Listening, Dispose, loop, visiting, FlagsTyped
<1>6. off' \in BOOLEAN
  BY DEF LoopNext, loopVars, Manager, CallAnswered, Timer, ConnectSucceeds, ConnectErrs,
         DisconnectEnds, ReconnectAnswered, ScheduleReconnect, ConnectAnswered,
         DisconnectAnswered, TimerFires, LostTimerFires, Fire, Connect, Disconnect, SetMode,
         Deliberate, CancelReconnect, KernelExits, ConnectedEvent, ExitedEvent, Hydrate,
         SnapshotRead, Listening, Dispose, loop, visiting, FlagsTyped, OnlyLoop
<1> QED
  BY <1>1, <1>2, <1>3, <1>4, <1>5, <1>6 DEF FlagsTyped

LEMMA LoopTypedKept ==
    ASSUME ReconnectAssumption, Inv, LoopTyped, [LoopNext]_loopVars
    PROVE  LoopTyped'
  BY ListenersKept, ChannelsOfLoopKept, BoundedKept, FlagsKept DEF LoopTyped

\* Every variable of the loop stays in its range: no listener is removed twice,
\* no lost timer fires twice, and each timer holds one of the three attempts
\* (hydrate, dispose and scheduleReconnect of the store).
THEOREM LoopTypeCorrect == LoopSpec => []LoopTypeOK
<1> DEFINE TInv == Inv /\ LoopTyped
<1>1. LoopInit => TInv
  BY InitInv, LoopTypedInitially, ReconnectAssumption
<1>2. TInv /\ [LoopNext]_loopVars => TInv'
  BY NextInv, LoopTypedKept, ReconnectAssumption
<1>3. TInv => LoopTypeOK
  BY DEF LoopTyped, FlagsTyped, ChannelTypes, ListenersTyped, Bounded, Inv, CallsTyped, LostTyped,
         LoopTypeOK
<1> QED
  BY <1>1, <1>2, <1>3, PTL DEF LoopSpec

-----------------------------------------------------------------------------
(* The budget: an exit pays for three attempts, and whatever is left of a  *)
(* loop holds what it may still spend.                                     *)

Under(n) == {c \in Calls : calls[c].pc # "idle" /\ calls[c].attempt = n}
Debt(t, l, e) ==
    (IF t = NoTimer THEN 0 ELSE Attempts - t) + 3 * l[0] + 2 * l[1] + l[2] + 3 * e
Owed == Debt(timer, lost, exits)

Budget ==
    /\ exits \in Nat /\ lost \in [0..Attempts - 1 -> Nat]
    /\ count.reconnects + Owed + 2 * Cardinality(Under(0)) + Cardinality(Under(1))
       <= Attempts * count.crashes

OneVisit == \A g, h \in Visits : g = h

\* One run of hydrate at a time registers each callback once.
Registered ==
    /\ DOMAIN listeners = Events /\ DOMAIN hydrating = Visits
    /\ \A e \in Events : listeners[e] = IF e \in unlisten THEN 1 ELSE 0
    /\ \A h \in Visits : hydrating[h] \in Events => hydrating[h] \notin unlisten

LEMMA RegisteredInitially == ASSUME LoopInit PROVE Registered
  BY DEF LoopInit, Registered, Events

LEMMA RegisteredKept ==
    ASSUME OneVisit, Registered, [LoopNext]_loopVars
    PROVE  Registered'
<1>1. CASE UNCHANGED <<listeners, unlisten, hydrating>>
  BY <1>1 DEF Registered
<1>2. ASSUME NEW h \in Visits, Hydrate(h) PROVE Registered'
  BY <1>2 DEF Hydrate, Registered, OneVisit, Events
<1>3. ASSUME NEW h \in Visits, SnapshotRead(h) PROVE Registered'
  <2>1. hydrating' = [hydrating EXCEPT ![h] = hydrating'[h]]
        /\ (hydrating'[h] \in Events => hydrating'[h] \notin unlisten)
    BY <1>3 DEF SnapshotRead, NextListen, Registered, Events
  <2>2. UNCHANGED <<listeners, unlisten>>
    BY <1>3 DEF SnapshotRead
  <2> QED
    BY <2>1, <2>2 DEF Registered, OneVisit
<1>4. ASSUME NEW h \in Visits, Listening(h) PROVE Registered'
  <2> DEFINE e == hydrating[h]
  <2>1. e \in Events /\ e \notin unlisten /\ listeners[e] = 0
    BY <1>4 DEF Listening, Registered
  <2>2. listeners' = [listeners EXCEPT ![e] = 1] /\ unlisten' = unlisten \cup {e}
    BY <1>4, <2>1 DEF Listening, Registered
  <2>3. DOMAIN hydrating' = Visits /\ (hydrating'[h] \in Events => hydrating'[h] \notin unlisten')
    BY <1>4 DEF Listening, NextListen, Registered, Events
  <2> HIDE DEF e
  <2>4. \A f \in Events : listeners'[f] = IF f \in unlisten' THEN 1 ELSE 0
    BY <2>1, <2>2 DEF Registered
  <2> QED
    BY <2>2, <2>3, <2>4 DEF Registered, OneVisit
<1>5. CASE Dispose
  BY <1>5 DEF Dispose, Registered
<1>6. ASSUME NEW c \in Calls,
             Manager(c) \/ CallAnswered(c) \/ Timer(c) \/ Connect(c) \/ Disconnect(c) \/ SetMode(c)
      PROVE  UNCHANGED <<listeners, unlisten, hydrating>>
  BY <1>6 DEF Manager, CallAnswered, Timer, ConnectSucceeds, ConnectErrs, DisconnectEnds,
         ReconnectAnswered, ConnectAnswered, DisconnectAnswered, TimerFires, LostTimerFires, Fire,
         Connect, Disconnect, SetMode, Deliberate, visiting
<1>7. CASE KernelExits \/ ConnectedEvent \/ ExitedEvent \/ UNCHANGED loopVars
  BY <1>1, <1>7 DEF KernelExits, ConnectedEvent, ExitedEvent, visiting, loopVars
<1> QED
  BY <1>1, <1>2, <1>3, <1>4, <1>5, <1>6, <1>7 DEF LoopNext

\* What is under way at an attempt is a finite number of commands, and a
\* command that changes is one more or one less of them.
LEMMA UnderWay ==
    ASSUME IsFiniteSet(Calls), NEW n
    PROVE  /\ IsFiniteSet(Under(n)) /\ Cardinality(Under(n)) \in Nat
           /\ \A S : S \subseteq Under(n) =>
                 Cardinality(S) \in Nat /\ Cardinality(S) <= Cardinality(Under(n))
           /\ \A c : c \notin Under(n) => Cardinality(Under(n) \cup {c}) = Cardinality(Under(n)) + 1
           /\ \A c \in Under(n) : Cardinality(Under(n) \ {c}) = Cardinality(Under(n)) - 1
<1>1. Under(n) \subseteq Calls
  BY DEF Under
<1>2. IsFiniteSet(Under(n))
  BY <1>1, FS_Subset
<1> QED
  BY <1>2, FS_CardinalityType, FS_Subset, FS_AddElement, FS_RemoveElement

LEMMA DebtIsNat ==
    ASSUME NEW t \in TimerSlots, NEW l \in [0..Attempts - 1 -> Nat], NEW e \in Nat
    PROVE  Debt(t, l, e) \in Nat /\ Debt(t, l, e + 1) = Debt(t, l, e) + 3
<1> DEFINE p == IF t = NoTimer THEN 0 ELSE Attempts - t
           x == l[0]
           y == l[1]
           z == l[2]
<1>1. p \in Nat
  BY DEF NoTimer, TimerSlots, Attempts
<1>2. x \in Nat /\ y \in Nat /\ z \in Nat
  BY DEF Attempts
<1>3. \A f : Debt(t, l, f) = p + 3 * x + 2 * y + z + 3 * f
  BY DEF Debt
<1> HIDE DEF p, x, y, z
<1> QED
  BY <1>1, <1>2, <1>3

\* What a timer that fires, pending or lost, no longer holds.
LEMMA DebtOfTimer ==
    ASSUME NEW t \in TimerSlots, NEW l \in [0..Attempts - 1 -> Nat], NEW e \in Nat,
           NEW a \in 0..Attempts - 1
    PROVE  /\ Debt(NoTimer, l, e) = Debt(a, l, e) - (Attempts - a)
           /\ Debt(t, [l EXCEPT ![a] = l[a] - 1], e) = Debt(t, l, e) - (Attempts - a)
<1> DEFINE p == IF t = NoTimer THEN 0 ELSE Attempts - t
           x == l[0]
           y == l[1]
           z == l[2]
           k == [l EXCEPT ![a] = l[a] - 1]
<1>1. p \in Nat /\ a \in {0, 1, 2} /\ a # NoTimer /\ Attempts = 3
  BY DEF NoTimer, TimerSlots, Attempts
<1>2. x \in Nat /\ y \in Nat /\ z \in Nat
  BY DEF Attempts
<1>3. /\ Debt(t, l, e) = p + 3 * x + 2 * y + z + 3 * e
      /\ Debt(a, l, e) = (3 - a) + 3 * x + 2 * y + z + 3 * e
      /\ Debt(NoTimer, l, e) = 0 + 3 * x + 2 * y + z + 3 * e
      /\ Debt(t, k, e) = p + 3 * k[0] + 2 * k[1] + k[2] + 3 * e
  BY <1>1 DEF Debt
<1>4. /\ k[0] = x - (IF a = 0 THEN 1 ELSE 0)
      /\ k[1] = y - (IF a = 1 THEN 1 ELSE 0)
      /\ k[2] = z - (IF a = 2 THEN 1 ELSE 0)
  BY <1>1, <1>2 DEF Attempts
<1> HIDE DEF p, x, y, z
<1>5. Debt(NoTimer, l, e) = Debt(a, l, e) - (Attempts - a)
  BY <1>1, <1>2, <1>3
<1>6. Debt(t, k, e) = Debt(t, l, e) - (Attempts - a)
  <2> HIDE DEF k
  <2>1. CASE a = 0
    BY <1>1, <1>2, <1>3, <1>4, <2>1
  <2>2. CASE a = 1
    BY <1>1, <1>2, <1>3, <1>4, <2>2
  <2>3. CASE a = 2
    BY <1>1, <1>2, <1>3, <1>4, <2>3
  <2> QED
    BY <1>1, <2>1, <2>2, <2>3
<1> QED
  BY <1>5, <1>6

\* A step that starts nothing the loop has not paid for.
LEMMA BudgetStays ==
    ASSUME IsFiniteSet(Calls), CountTyped, CountTyped', LostTyped, LostTyped', Budget,
           count'.reconnects = count.reconnects, count'.crashes = count.crashes,
           lost' \in [0..Attempts - 1 -> Nat], exits' \in Nat, Owed' <= Owed,
           Under(0)' \subseteq Under(0), Under(1)' \subseteq Under(1)
    PROVE  Budget'
<1>1. /\ Cardinality(Under(0)) \in Nat /\ Cardinality(Under(1)) \in Nat
      /\ Cardinality(Under(0)') \in Nat /\ Cardinality(Under(1)') \in Nat
      /\ Cardinality(Under(0)') <= Cardinality(Under(0))
      /\ Cardinality(Under(1)') <= Cardinality(Under(1))
  BY UnderWay
<1>2. Owed \in Nat /\ Owed' \in Nat
  BY DebtIsNat DEF Owed, Budget, LostTyped
<1> QED
  BY <1>1, <1>2 DEF Budget, CountTyped, Attempts

LEMMA CancelOwesNoMore ==
    ASSUME LostTyped, exits \in Nat, lost \in [0..Attempts - 1 -> Nat],
           UNCHANGED <<lost, exits>>, timer' = timer \/ timer' = NoTimer
    PROVE  Owed' <= Owed
<1>1. Owed \in Nat
  BY DebtIsNat DEF Owed, LostTyped
<1>2. CASE timer' = timer
  BY <1>1, <1>2 DEF Owed
<1>3. CASE timer' = NoTimer /\ timer \in 0..Attempts - 1
  <2>1. Debt(NoTimer, lost, exits) = Debt(timer, lost, exits) - (Attempts - timer)
    BY <1>3, DebtOfTimer DEF LostTyped
  <2>2. Owed' = Owed - (Attempts - timer)
    BY <1>3, <2>1 DEF Owed
  <2>3. Attempts - timer \in Nat
    BY <1>3 DEF Attempts
  <2> QED
    BY <1>1, <2>2, <2>3
<1> QED
  BY <1>2, <1>3 DEF LostTyped, TimerSlots

LEMMA CommandsKeepBudget ==
    ASSUME IsFiniteSet(Calls), CountTyped, CountTyped', Inv, Inv', Budget, NEW c \in Calls,
           Manager(c) \/ ConnectAnswered(c) \/ DisconnectAnswered(c)
           \/ Connect(c) \/ Disconnect(c) \/ SetMode(c)
    PROVE  Budget'
<1>1. UNCHANGED <<lost, exits>> /\ (timer' = timer \/ timer' = NoTimer)
  BY DEF Manager, ConnectSucceeds, ConnectErrs, DisconnectEnds, ConnectAnswered,
         DisconnectAnswered, Connect, Disconnect, SetMode, Deliberate, CancelReconnect, arriving,
         loop
<1>2. Owed' <= Owed
  BY <1>1, CancelOwesNoMore DEF Inv, Budget
<1>3. count'.reconnects = count.reconnects /\ count'.crashes = count.crashes
  BY DEF Manager, ConnectSucceeds, ConnectErrs, DisconnectEnds, ConnectAnswered,
         DisconnectAnswered, Connect, Disconnect, SetMode, Deliberate, Count, CountTyped
<1>4. \A n \in {0, 1} : Under(n)' \subseteq Under(n)
  <2>1. ASSUME NEW ok, Answer(c, ok), calls[c].pc = "sent"
        PROVE  \A n \in {0, 1} : Under(n)' \subseteq Under(n)
    <3>1. \A d \in Calls : calls'[d].attempt = calls[d].attempt
                           /\ (calls[d].pc = "idle" => calls'[d].pc = "idle")
      BY <2>1 DEF Answer, Inv, CallsTyped, CallType
    <3> QED
      BY <3>1 DEF Under
  <2>2. CASE calls' = [calls EXCEPT ![c] = NoCall]
    BY <2>2, NoCallTyped DEF Under, Inv, CallsTyped
  <2>3. ASSUME NEW op, NEW b, Send(c, op, b)
        PROVE  \A n \in {0, 1} : Under(n)' \subseteq Under(n)
    <3> DEFINE r == [NoCall EXCEPT !.pc = "sent", !.op = op, !.andConnect = b]
    <3>1. r.attempt = NoTimer
      BY NoCallTyped DEF NoCall
    <3> HIDE DEF r
    <3>2. calls' = [calls EXCEPT ![c] = r]
      BY <2>3 DEF Send, r
    <3> QED
      BY <3>1, <3>2 DEF Under, Inv, CallsTyped, NoTimer, Attempts
  <2> QED
    BY <2>1, <2>2, <2>3
       DEF Manager, ConnectSucceeds, ConnectErrs, DisconnectEnds, ConnectAnswered,
           DisconnectAnswered, Connect, Disconnect, SetMode
<1> QED
  BY <1>1, <1>2, <1>3, <1>4, BudgetStays DEF Inv, Budget

\* A timer spends one, and its command holds what is left.
LEMMA TimersKeepBudget ==
    ASSUME IsFiniteSet(Calls), CountTyped, CountTyped', Inv, Inv', Budget, NEW c \in Calls, Timer(c)
    PROVE  Budget'
<1>1. PICK a \in 0..Attempts - 1 :
         /\ Fire(a, c)
         /\ \/ timer = a /\ timer' = NoTimer /\ UNCHANGED lost
            \/ lost[a] > 0 /\ lost' = [lost EXCEPT ![a] = lost[a] - 1] /\ UNCHANGED timer
  BY DEF Timer, TimerFires, LostTimerFires, Inv, LostTyped, NoTimer, TimerSlots, Attempts
<1>2. lost' \in [0..Attempts - 1 -> Nat] /\ exits' = exits
  <2>1. lost[a] > 0 => lost[a] - 1 \in Nat
    BY DEF Budget
  <2> QED
    BY <1>1, <2>1 DEF Budget, Fire, arriving
<1>3. Owed' = Owed - (Attempts - a)
  <2>1. /\ Debt(NoTimer, lost, exits) = Debt(a, lost, exits) - (Attempts - a)
        /\ Debt(timer, [lost EXCEPT ![a] = lost[a] - 1], exits)
           = Debt(timer, lost, exits) - (Attempts - a)
    BY DebtOfTimer DEF Inv, LostTyped, Budget
  <2> QED
    BY <1>1, <1>2, <2>1 DEF Owed
<1>4. Owed \in Nat /\ Owed' \in Nat /\ a \in {0, 1, 2}
  BY <1>2, DebtIsNat DEF Owed, Inv, LostTyped, Budget, Attempts
<1>5. CASE cancelled
  <2>1. UNCHANGED <<calls, count>>
    BY <1>1, <1>5 DEF Fire
  <2>2. Owed' <= Owed
    BY <1>3, <1>4 DEF Attempts
  <2> QED
    BY <1>2, <2>1, <2>2, BudgetStays DEF Inv, Under, Budget
<1>6. CASE ~cancelled
  <2> DEFINE r == [NoCall EXCEPT !.pc = "sent", !.attempt = a]
  <2>1. r.pc = "sent" /\ r.attempt = a
    BY DEF NoCall
  <2> HIDE DEF r
  <2>2. /\ calls' = [calls EXCEPT ![c] = r] /\ calls[c].pc = "idle"
        /\ Count("reconnects")
    BY <1>1, <1>6 DEF Fire, r
  <2>3. count'.reconnects = count.reconnects + 1 /\ count'.crashes = count.crashes
    BY <2>2 DEF Count, CountTyped
  <2>4. \A n : c \notin Under(n) /\ Under(n)' = IF n = a THEN Under(n) \cup {c} ELSE Under(n)
    BY <2>1, <2>2 DEF Under, Inv, CallsTyped
  <2>5. \A n \in {0, 1} : Cardinality(Under(n)') = Cardinality(Under(n)) + IF n = a THEN 1 ELSE 0
    <3>1. ASSUME NEW n \in {0, 1}
          PROVE  Cardinality(Under(n)') = Cardinality(Under(n)) + IF n = a THEN 1 ELSE 0
      <4>1. Cardinality(Under(n)) \in Nat
            /\ (c \notin Under(n) => Cardinality(Under(n) \cup {c}) = Cardinality(Under(n)) + 1)
        BY UnderWay
      <4>2. CASE n = a
        BY <2>4, <4>1, <4>2
      <4>3. CASE n # a
        <5>1. Under(n)' = Under(n)
          BY <2>4, <4>3
        <5> QED
          BY <4>1, <4>3, <5>1
      <4> QED
        BY <4>2, <4>3
    <3> QED
      BY <3>1
  <2>6. Cardinality(Under(0)) \in Nat /\ Cardinality(Under(1)) \in Nat
    BY UnderWay
  <2>7. 2 * Cardinality(Under(0)') + Cardinality(Under(1)')
        <= 2 * Cardinality(Under(0)) + Cardinality(Under(1)) + 2 - a
    <3>1. a \in {0, 1, 2}
      BY DEF Attempts
    <3>2. Cardinality(Under(0)') = Cardinality(Under(0)) + IF a = 0 THEN 1 ELSE 0
      BY <2>5
    <3>3. Cardinality(Under(1)') = Cardinality(Under(1)) + IF a = 1 THEN 1 ELSE 0
      BY <2>5
    <3> QED
      BY <2>6, <3>1, <3>2, <3>3
  <2>8. Cardinality(Under(0)') \in Nat /\ Cardinality(Under(1)') \in Nat
    BY <2>5, <2>6
  <2> QED
    BY <1>2, <1>3, <1>4, <2>3, <2>6, <2>7, <2>8 DEF Budget, CountTyped, Attempts
<1> QED
  BY <1>5, <1>6

\* A timer whose handle is overwritten is owed for as before.
Overwrite(t, l) == [b \in 0..Attempts - 1 |-> l[b] + IF b = t THEN 1 ELSE 0]

LEMMA DebtOfOverwritten ==
    ASSUME NEW t \in TimerSlots, NEW l \in [0..Attempts - 1 -> Nat], NEW e \in Nat,
           NEW a \in 0..Attempts - 1
    PROVE  /\ Overwrite(t, l) \in [0..Attempts - 1 -> Nat]
           /\ Debt(a, Overwrite(t, l), e) = Debt(t, l, e) + (Attempts - a)
<1> DEFINE k == Overwrite(t, l)
           x == l[0]
           y == l[1]
           z == l[2]
<1>1. t \in {0, 1, 2, 4} /\ a \in {0, 1, 2} /\ a # NoTimer /\ Attempts = 3 /\ NoTimer = 4
  BY DEF TimerSlots, NoTimer, Attempts
<1>2. x \in Nat /\ y \in Nat /\ z \in Nat
  BY DEF Attempts
<1>3. k \in [0..Attempts - 1 -> Nat]
  BY DEF Attempts, Overwrite
<1>4. /\ k[0] = x + (IF t = 0 THEN 1 ELSE 0)
      /\ k[1] = y + (IF t = 1 THEN 1 ELSE 0)
      /\ k[2] = z + (IF t = 2 THEN 1 ELSE 0)
  BY <1>1, <1>2 DEF Attempts, Overwrite
<1>5. /\ Debt(t, l, e) = (IF t = 4 THEN 0 ELSE 3 - t) + 3 * x + 2 * y + z + 3 * e
      /\ Debt(a, k, e) = (3 - a) + 3 * k[0] + 2 * k[1] + k[2] + 3 * e
  BY <1>1 DEF Debt
<1> HIDE DEF k, x, y, z
<1>6. Debt(a, k, e) = Debt(t, l, e) + (Attempts - a)
  <2>1. CASE t = 0
    BY <1>1, <1>2, <1>4, <1>5, <2>1
  <2>2. CASE t = 1
    BY <1>1, <1>2, <1>4, <1>5, <2>2
  <2>3. CASE t = 2
    BY <1>1, <1>2, <1>4, <1>5, <2>3
  <2>4. CASE t = 4
    BY <1>1, <1>2, <1>4, <1>5, <2>4
  <2> QED
    BY <1>1, <2>1, <2>2, <2>3, <2>4
<1> QED
  BY <1>3, <1>6 DEF k

LEMMA Forgotten ==
    ASSUME lost \in [0..Attempts - 1 -> Nat], Forget(0)
    PROVE  lost' = Overwrite(timer, lost)
<1>1. \A b \in 0..Attempts - 1 :
         lost[b] + (IF b = timer THEN 1 ELSE 0) + (IF b = 0 THEN 0 ELSE 0)
         = lost[b] + IF b = timer THEN 1 ELSE 0
  BY DEF Attempts
<1> QED
  BY <1>1 DEF Forget, Overwrite

\* A reconnect that failed hands what it holds to the next attempt's timer.
LEMMA ReconnectKeepsBudget ==
    ASSUME IsFiniteSet(Calls), CountTyped, CountTyped', Inv, Inv', Budget,
           NEW c \in Calls, ReconnectAnswered(c)
    PROVE  Budget'
<1>1. PICK a \in 0..2 : a = calls[c].attempt /\ c \in Under(a)
  BY DEF ReconnectAnswered, ByLoop, Under, Inv, CallsTyped, CallType, TimerSlots, Attempts
<1>2. \A n : Under(n)' = Under(n) \ {c}
  BY NoCallTyped DEF ReconnectAnswered, Under, Inv, CallsTyped
<1>3. UNCHANGED <<exits, count>>
  BY DEF ReconnectAnswered, arriving
<1>4. CASE UNCHANGED <<timer, lost>>
  <2>1. Owed \in Nat /\ Owed' = Owed
    BY <1>3, <1>4, DebtIsNat DEF Owed, Inv, LostTyped, Budget
  <2>2. lost' \in [0..Attempts - 1 -> Nat] /\ exits' \in Nat
    BY <1>3, <1>4 DEF Budget
  <2>3. Under(0)' \subseteq Under(0) /\ Under(1)' \subseteq Under(1)
    BY <1>2
  <2> QED
    BY <1>3, <2>1, <2>2, <2>3, BudgetStays DEF Inv
<1>5. CASE timer' = a + 1 /\ Forget(0) /\ a < 2
  <2>1. a + 1 \in 0..Attempts - 1
    BY <1>1, <1>5 DEF Attempts
  <2>2. lost' \in [0..Attempts - 1 -> Nat]
        /\ Debt(a + 1, lost', exits) = Debt(timer, lost, exits) + (Attempts - (a + 1))
    BY <1>5, <2>1, Forgotten, DebtOfOverwritten DEF Inv, LostTyped, Budget
  <2>3. Owed' = Owed + (Attempts - (a + 1)) /\ Owed \in Nat
    BY <1>3, <1>5, <2>2, DebtIsNat DEF Owed, Inv, LostTyped, Budget
  <2>4. /\ Cardinality(Under(0)) \in Nat /\ Cardinality(Under(1)) \in Nat
        /\ Cardinality(Under(a)') = Cardinality(Under(a)) - 1
    BY <1>1, <1>2, UnderWay
  <2>5. \A n : n # a => Under(n)' = Under(n)
    <3>1. \A n : c \in Under(n) => n = a
      BY <1>1 DEF Under
    <3> QED
      BY <1>2, <3>1
  <2>6. CASE a = 0
    <3>1. /\ Cardinality(Under(0)') = Cardinality(Under(0)) - 1
          /\ Cardinality(Under(1)') = Cardinality(Under(1))
      BY <1>2, <2>4, <2>5, <2>6
    <3> QED
      BY <1>3, <2>2, <2>3, <2>4, <2>6, <3>1 DEF Budget, CountTyped, Attempts
  <2>7. CASE a = 1
    <3>1. /\ Cardinality(Under(1)') = Cardinality(Under(1)) - 1
          /\ Cardinality(Under(0)') = Cardinality(Under(0))
      BY <1>2, <2>4, <2>5, <2>7
    <3> QED
      BY <1>3, <2>2, <2>3, <2>4, <2>7, <3>1 DEF Budget, CountTyped, Attempts
  <2> QED
    BY <1>1, <1>5, <2>6, <2>7
<1> QED
  BY <1>1, <1>4, <1>5 DEF ReconnectAnswered, ScheduleReconnect, Attempts

\* An exit pays for the loop that the callback, there is one at most, starts.
LEMMA ExitedKeepsBudget ==
    ASSUME IsFiniteSet(Calls), CountTyped, CountTyped', Inv, Inv', Budget, Registered, ExitedEvent
    PROVE  Budget'
<1>1. exits' \in Nat /\ exits = exits' + 1 /\ UNCHANGED <<calls, count>>
  BY DEF ExitedEvent, Budget
<1>2. Owed \in Nat /\ Debt(timer, lost, exits') = Owed - 3 /\ Debt(timer, lost, exits') \in Nat
  BY <1>1, DebtIsNat DEF Owed, Inv, LostTyped, Budget
<1>3. Owed' <= Owed /\ lost' \in [0..Attempts - 1 -> Nat]
  <2>1. CASE UNCHANGED <<timer, lost>>
    BY <1>2, <2>1 DEF Owed, Budget
  <2>2. CASE timer' = 0 /\ Forget(0)
    <3>1. lost' \in [0..Attempts - 1 -> Nat]
          /\ Debt(0, lost', exits') = Debt(timer, lost, exits') + (Attempts - 0)
      <4>1. 0 \in 0..Attempts - 1
        BY DEF Attempts
      <4> QED
        BY <1>1, <2>2, <4>1, Forgotten, DebtOfOverwritten DEF Inv, LostTyped, Budget
    <3> QED
      BY <1>2, <2>2, <3>1 DEF Owed, Attempts
  <2>3. listeners["failure"] = 0 \/ listeners["failure"] - 1 = 0
    BY DEF Registered, Events
  <2> QED
    BY <2>1, <2>2, <2>3 DEF ExitedEvent, loop
<1>4. Under(0)' = Under(0) /\ Under(1)' = Under(1)
  BY <1>1 DEF Under
<1> QED
  BY <1>1, <1>3, <1>4, BudgetStays DEF Inv

LEMMA CrashPays ==
    ASSUME IsFiniteSet(Calls), CountTyped, CountTyped', Inv, Budget, KernelExits
    PROVE  Budget'
<1>1. UNCHANGED <<calls, timer, lost>> /\ exits' = exits + 1
  BY DEF KernelExits, loop
<1>2. Owed \in Nat /\ Owed' = Owed + 3
  BY <1>1, DebtIsNat DEF Owed, Inv, LostTyped, Budget
<1>3. count'.crashes = count.crashes + 1 /\ count'.reconnects = count.reconnects
  BY DEF KernelExits, Count, CountTyped
<1>4. Under(0)' = Under(0) /\ Under(1)' = Under(1)
  BY <1>1 DEF Under
<1>5. Cardinality(Under(0)) \in Nat /\ Cardinality(Under(1)) \in Nat
  BY UnderWay
<1>6. exits' \in Nat /\ lost' \in [0..Attempts - 1 -> Nat]
  BY <1>1 DEF Budget
<1> QED
  BY <1>2, <1>3, <1>4, <1>5, <1>6 DEF Budget, CountTyped, Attempts

\* The page, and the news that the kernel runs, start nothing.
LEMMA PageKeepsBudget ==
    ASSUME IsFiniteSet(Calls), CountTyped, CountTyped', Inv, Inv', Budget,
           \/ ConnectedEvent \/ Dispose \/ UNCHANGED loopVars
           \/ \E h \in Visits : Hydrate(h) \/ SnapshotRead(h) \/ Listening(h)
    PROVE  Budget'
<1>1. UNCHANGED <<calls, lost, exits>> /\ (timer' = timer \/ timer' = NoTimer)
  BY DEF ConnectedEvent, Dispose, CancelReconnect, Hydrate, SnapshotRead, Listening, arriving,
         loop, loopVars
<1>2. count'.reconnects = count.reconnects /\ count'.crashes = count.crashes
  BY DEF ConnectedEvent, Dispose, Hydrate, SnapshotRead, Listening, loopVars, Count, CountTyped
<1>3. Owed' <= Owed
  BY <1>1, CancelOwesNoMore DEF Inv, Budget
<1>4. Under(0)' = Under(0) /\ Under(1)' = Under(1)
  BY <1>1 DEF Under
<1> QED
  BY <1>1, <1>2, <1>3, <1>4, BudgetStays DEF Inv, Budget

LEMMA BudgetKept ==
    ASSUME IsFiniteSet(Calls), CountTyped, CountTyped', Inv, Inv', Budget, Registered, [LoopNext]_loopVars
    PROVE  Budget'
<1>1. ASSUME NEW c \in Calls,
             Manager(c) \/ CallAnswered(c) \/ Timer(c) \/ Connect(c) \/ Disconnect(c) \/ SetMode(c)
      PROVE  Budget'
  BY <1>1, CommandsKeepBudget, ReconnectKeepsBudget, TimersKeepBudget DEF CallAnswered
<1>2. CASE KernelExits
  BY <1>2, CrashPays
<1>3. CASE ExitedEvent
  BY <1>3, ExitedKeepsBudget
<1>4. CASE \/ ConnectedEvent \/ Dispose \/ UNCHANGED loopVars
           \/ \E h \in Visits : Hydrate(h) \/ SnapshotRead(h) \/ Listening(h)
  BY <1>4, PageKeepsBudget
<1> QED
  BY <1>1, <1>2, <1>3, <1>4 DEF LoopNext

LEMMA BudgetInitially ==
    ASSUME LoopInit
    PROVE  Budget
<1>1. Under(0) = {} /\ Under(1) = {}
  BY NoCallTyped DEF LoopInit, Under
<1>2. Cardinality(Under(0)) = 0 /\ Cardinality(Under(1)) = 0
  BY <1>1, FS_EmptySet
<1>3. lost \in [0..Attempts - 1 -> Nat] /\ lost[0] = 0 /\ lost[1] = 0 /\ lost[2] = 0
  BY DEF LoopInit, Attempts
<1>4. Owed = 0
  BY <1>3 DEF LoopInit, Owed, Debt
<1> QED
  BY <1>2, <1>3, <1>4 DEF LoopInit, Budget, Attempts

LEMMA BudgetBounds ==
    ASSUME IsFiniteSet(Calls), CountTyped, Inv, Budget
    PROVE  ReconnectsAreBounded
<1>1. Owed \in Nat /\ Cardinality(Under(0)) \in Nat /\ Cardinality(Under(1)) \in Nat
  BY DebtIsNat, UnderWay DEF Owed, Inv, LostTyped, Budget
<1> QED
  BY <1>1 DEF Budget, CountTyped, Attempts, ReconnectsAreBounded

\* "Bounded auto-reconnect" (RECONNECT_BACKOFFS_MS of the store): an exit of the
\* kernel costs at most three attempts, whichever timers and reconnects overlap,
\* for any finite number of commands under way, any number of exits and any
\* number of visits of the page -- as long as one run of hydrate ends before the
\* next begins, which is what registers each callback once.
THEOREM LoopIsBounded ==
    ASSUME IsFiniteSet(Calls), OneVisit
    PROVE  LoopSpec => []ReconnectsAreBounded
<1> DEFINE BInv == Inv /\ CountTyped /\ Registered /\ Budget
<1>1. LoopInit => BInv
  <2>1. LoopInit => CountTyped
    BY DEF LoopInit, CountTyped
  <2> QED
    BY <2>1, InitInv, RegisteredInitially, BudgetInitially
<1>2. BInv /\ [LoopNext]_loopVars => BInv'
  BY NextInv, CountInv, RegisteredKept, BudgetKept
<1>3. BInv => ReconnectsAreBounded
  BY BudgetBounds
<1> QED
  BY <1>1, <1>2, <1>3, PTL DEF LoopSpec
=============================================================================

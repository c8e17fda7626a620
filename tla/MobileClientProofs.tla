--------------------------- MODULE MobileClientProofs ---------------------------
(***************************************************************************)
(* Theorems about MobileClient for every number of accounts, overlapping   *)
(* calls and launches: types; that the two keys of the secure store are    *)
(* never of two accounts while the store obeys, wherever the process is    *)
(* killed; that the screen ends up in the state of the core unless changes *)
(* cross; and that the tunnel, the service and the kernel of a patient     *)
(* user go together.                                                       *)
(***************************************************************************)
EXTENDS MobileClient, SequenceTheorems, TLAPS

StoreTypes == [bearer : Holders, session : Holders]
Pcs == {"idle", "get_session", "get_bearer", "drop_session", "drop_bearer", "post",
        "put_bearer", "put_session", "delete_bearer", "delete_session"}

AccountTyped ==
    /\ screen \in {"hydrating", "anonymous", "submitting", "home"}
    /\ bearer \in Holders /\ session \in Holders
    /\ store \in StoreTypes /\ cmd \in Commands /\ failed \in BOOLEAN
    /\ cmd = NoCmd /\ screen = "home" => session # None
BoundsTyped == faults \in 0..MaxFaults /\ launches \in 1..MaxLaunches
CallsTyped == calls \in [Calls -> CallStates]
TunnelTyped ==
    /\ mode \in {"Tun", "SystemProxy"}
    /\ tunFd \in Descriptors /\ kernel \in Descriptors
    /\ device \in Descriptors /\ up \in Descriptors
    /\ delegate \in {"none", "attached", "detached"}
    /\ tuns \in 0..MaxTuns /\ taps \in 0..MaxTaps /\ lost \in BOOLEAN
EventsTyped ==
    /\ state \in States /\ shown \in States /\ events \in Seq(States)
    /\ alarms \in Nat /\ crossed \in BOOLEAN

LEMMA TypeParts ==
    TypeOK <=> /\ user \in Users /\ AccountTyped /\ BoundsTyped /\ CallsTyped /\ TunnelTyped
               /\ EventsTyped
  BY DEF TypeOK, AccountTyped, BoundsTyped, CallsTyped, TunnelTyped, EventsTyped, StoreTypes

-----------------------------------------------------------------------------
(* The session.                                                            *)

\* What a command under way relies on.
Progress ==
    /\ cmd.pc = "get_bearer" => store.session # None
    /\ cmd.pc = "post" => cmd.acct \in Accounts
    /\ cmd.pc \in {"put_bearer", "put_session"} =>
         cmd.acct \in Accounts /\ session = cmd.acct /\ bearer = cmd.acct

\* Nothing of an earlier account is left in the store when a login writes to
\* it: the snapshot is gone from the moment the user is signed out.
Written ==
    ~failed =>
        /\ (screen = "anonymous" /\ cmd = NoCmd)
              \/ cmd.pc \in {"post", "put_bearer", "put_session", "drop_bearer"}
           => store.session = None
        /\ cmd.pc = "put_session" => store.bearer = cmd.acct

AInv == AccountTyped /\ BoundsTyped /\ Progress /\ OneAccount /\ Written

LEMMA Commanding ==
    ASSUME cmd \in Commands, NEW p \in Pcs
    PROVE  LET x == [cmd EXCEPT !.pc = p]
           IN x \in Commands /\ x.pc = p /\ x.acct = cmd.acct
  BY DEF Commands, Pcs

LEMMA NoCommand == NoCmd \in Commands /\ NoCmd.pc = "idle"
  BY DEF NoCmd, Commands, Holders

LEMMA Faults == ASSUME BoundsTyped, Fault PROVE BoundsTyped'
  <1>1. faults < MaxFaults /\ faults' = faults + 1 /\ launches' = launches
    BY DEF Fault
  <1> QED
    BY <1>1, MobileAssumption DEF BoundsTyped

LEMMA Accesses ==
    ASSUME BoundsTyped, failed \in BOOLEAN, store \in StoreTypes, NEW s \in StoreTypes, Access(s)
    PROVE  /\ BoundsTyped' /\ store' \in StoreTypes
           /\ store' \in {store, s} /\ failed' \in BOOLEAN
           /\ ~failed' => ~failed /\ store' = s
  BY Faults DEF Access, BoundsTyped, bounds

LEMMA Stores ==
    ASSUME store \in StoreTypes, NEW h \in Holders
    PROVE  /\ LET s == [store EXCEPT !.session = h]
              IN s \in StoreTypes /\ s.session = h /\ s.bearer = store.bearer
           /\ LET s == [store EXCEPT !.bearer = h]
              IN s \in StoreTypes /\ s.bearer = h /\ s.session = store.session
           /\ store.bearer \in Holders /\ store.session \in Holders
  BY DEF StoreTypes

LEMMA SessionSteps ==
    ASSUME AInv, SessionStep
    PROVE  AInv'
  <1> USE DEF AInv
  <1>1. store \in StoreTypes /\ cmd \in Commands /\ failed \in BOOLEAN
    BY DEF AccountTyped
  <1>2. None \notin Accounts /\ None \in Holders
    BY MobileAssumption DEF Holders
  <1>3. NoCmd \in Commands /\ NoCmd.pc = "idle"
    BY NoCommand
  \* What Then(p) leaves.
  <1>4. ASSUME NEW p \in Pcs, Then(p)
        PROVE  cmd' \in Commands /\ cmd'.pc = p /\ cmd'.acct = cmd.acct /\ (p # "idle" => cmd' # NoCmd)
    BY <1>1, <1>3, <1>4, Commanding DEF Then
  <1>5. CASE GetSession
    <2>1. CASE Fault /\ failed' = TRUE /\ Ends("anonymous")
      BY <1>1, <1>2, <1>3, <1>5, <2>1, Faults
         DEF GetSession, Ends, AccountTyped, Progress, OneAccount, Written
    <2>2. CASE UNCHANGED <<failed, bounds>> /\ Ends("anonymous") /\ store.session = None
      BY <1>1, <1>2, <1>3, <1>5, <2>2
         DEF GetSession, Ends, AccountTyped, Progress, OneAccount, Written, BoundsTyped, bounds
    <2>3. CASE UNCHANGED <<failed, bounds, screen>> /\ Then("get_bearer") /\ store.session # None
      BY <1>1, <1>2, <1>4, <1>5, <2>3
         DEF GetSession, AccountTyped, Progress, OneAccount, Written, BoundsTyped, bounds, Pcs
    <2>4. CASE UNCHANGED <<failed, bounds, screen>> /\ Then("drop_session")
      BY <1>1, <1>2, <1>4, <1>5, <2>4
         DEF GetSession, AccountTyped, Progress, OneAccount, Written, BoundsTyped, bounds, Pcs
    <2> QED
      BY <1>5, <2>1, <2>2, <2>3, <2>4 DEF GetSession
  <1>6. CASE DropSession
    <2> DEFINE s == [store EXCEPT !.session = None]
    <2>1. s \in StoreTypes /\ s.session = None /\ s.bearer = store.bearer
      BY <1>1, <1>2, Stores
    <2>2. Access(s) /\ Then("drop_bearer") /\ UNCHANGED <<screen, bearer, session>>
      BY <1>6 DEF DropSession
    <2> HIDE DEF s
    <2>3. cmd' \in Commands /\ cmd'.pc = "drop_bearer" /\ cmd' # NoCmd
      BY <1>4, <2>2 DEF Pcs
    <2>4. /\ BoundsTyped' /\ store' \in StoreTypes
          /\ store' \in {store, s} /\ failed' \in BOOLEAN
          /\ ~failed' => ~failed /\ store' = s
      BY <1>1, <2>1, <2>2, Accesses
    <2> QED
      BY <1>1, <1>2, <2>1, <2>2, <2>3, <2>4 DEF AccountTyped, Progress, OneAccount, Written
  <1>7. CASE DropBearer \/ DeleteBearer
    <2> DEFINE s == [store EXCEPT !.bearer = None]
    <2>1. s \in StoreTypes /\ s.bearer = None /\ s.session = store.session
      BY <1>1, <1>2, Stores
    <2>2. Access(s) /\ UNCHANGED <<bearer, session>>
      BY <1>7 DEF DropBearer, DeleteBearer
    <2> HIDE DEF s
    <2>3. /\ BoundsTyped' /\ store' \in StoreTypes
          /\ store' \in {store, s} /\ failed' \in BOOLEAN
          /\ ~failed' => ~failed /\ store' = s
      BY <1>1, <2>1, <2>2, Accesses
    <2>4. CASE DropBearer
      BY <1>1, <1>2, <1>3, <2>1, <2>2, <2>3, <2>4
         DEF DropBearer, At, Ends, AccountTyped, Progress, OneAccount, Written
    <2>5. CASE DeleteBearer
      <3>1. cmd' \in Commands /\ cmd'.pc = "delete_session" /\ cmd' # NoCmd /\ screen' = screen
        BY <1>4, <2>5 DEF DeleteBearer, Pcs
      <3> QED
        BY <1>1, <1>2, <2>1, <2>2, <2>3, <3>1 DEF AccountTyped, Progress, OneAccount, Written
    <2> QED
      BY <1>7, <2>4, <2>5
  <1>8. CASE GetBearer
    <2> DEFINE s == [store EXCEPT !.session = None]
    <2>1. /\ s \in StoreTypes /\ s.session = None /\ s.bearer = store.bearer
          /\ store.bearer \in Holders /\ store.session \in Holders
      BY <1>1, <1>2, Stores
    <2>2. CASE store.bearer = None /\ Access(s) /\ Ends("anonymous") /\ UNCHANGED <<bearer, session>>
      <3> HIDE DEF s
      <3>1. /\ BoundsTyped' /\ store' \in StoreTypes
            /\ store' \in {store, s} /\ failed' \in BOOLEAN
            /\ ~failed' => ~failed /\ store' = s
        BY <1>1, <2>1, <2>2, Accesses
      <3> QED
        BY <1>1, <1>2, <1>3, <2>1, <2>2, <3>1
           DEF Ends, AccountTyped, Progress, OneAccount, Written
    <2>3. CASE /\ store.bearer # None /\ bearer' = store.bearer /\ session' = store.session
               /\ Ends("home") /\ UNCHANGED <<store, failed, bounds>>
      <3>1. store.session # None
        BY <1>8 DEF GetBearer, At, Progress
      <3> QED
        BY <1>1, <1>2, <1>3, <2>1, <2>3, <3>1
           DEF Ends, AccountTyped, Progress, OneAccount, Written, BoundsTyped, bounds
    <2>4. CASE Fault /\ failed' = TRUE /\ Ends("anonymous") /\ UNCHANGED <<bearer, session, store>>
      BY <1>1, <1>2, <1>3, <2>4, Faults DEF Ends, AccountTyped, Progress, OneAccount, Written
    <2> QED
      BY <1>8, <2>2, <2>3, <2>4 DEF GetBearer
  <1>9. CASE LoginAnswer
    <2>1. CASE Ends("anonymous") /\ UNCHANGED <<bearer, session>>
      BY <1>1, <1>2, <1>3, <1>9, <2>1
         DEF LoginAnswer, At, Ends, AccountTyped, Progress, OneAccount, Written, BoundsTyped, bounds
    <2>2. CASE bearer' = cmd.acct /\ session' = cmd.acct /\ Then("put_bearer") /\ UNCHANGED screen
      BY <1>1, <1>2, <1>4, <1>9, <2>2
         DEF LoginAnswer, At, AccountTyped, Progress, OneAccount, Written, BoundsTyped, bounds,
             Pcs, Holders
    <2> QED
      BY <1>9, <2>1, <2>2 DEF LoginAnswer
  <1>10. CASE PutBearer
    <2> DEFINE s == [store EXCEPT !.bearer = cmd.acct]
    <2>1. cmd.acct \in Accounts /\ cmd.acct \in Holders /\ session = cmd.acct /\ bearer = cmd.acct
      BY <1>10 DEF PutBearer, At, Progress, Holders
    <2>2. s \in StoreTypes /\ s.bearer = cmd.acct /\ s.session = store.session
      BY <1>1, <2>1, Stores
    <2>3. Access(s) /\ UNCHANGED <<screen, bearer, session>> /\ cmd.pc = "put_bearer"
      BY <1>10 DEF PutBearer, At
    <2> HIDE DEF s
    <2>4. cmd' \in Commands /\ cmd'.pc = "put_session" /\ cmd' # NoCmd /\ cmd'.acct = cmd.acct
      BY <1>4, <1>10 DEF PutBearer, Pcs
    <2>5. /\ BoundsTyped' /\ store' \in StoreTypes
          /\ store' \in {store, s} /\ failed' \in BOOLEAN
          /\ ~failed' => ~failed /\ store' = s
      BY <1>1, <2>2, <2>3, Accesses
    <2> QED
      BY <1>1, <1>2, <2>1, <2>2, <2>3, <2>4, <2>5 DEF AccountTyped, Progress, OneAccount, Written
  <1>11. CASE PutSession
    <2> DEFINE s == [store EXCEPT !.session = cmd.acct]
    <2>1. cmd.acct \in Accounts /\ cmd.acct \in Holders /\ session = cmd.acct /\ bearer = cmd.acct
      BY <1>11 DEF PutSession, At, Progress, Holders
    <2>2. s \in StoreTypes /\ s.session = cmd.acct /\ s.bearer = store.bearer
      BY <1>1, <2>1, Stores
    <2>3. Access(s) /\ UNCHANGED <<bearer, session>> /\ cmd.pc = "put_session" /\ Ends("home")
      BY <1>11 DEF PutSession, At
    <2> HIDE DEF s
    <2>4. /\ BoundsTyped' /\ store' \in StoreTypes
          /\ store' \in {store, s} /\ failed' \in BOOLEAN
          /\ ~failed' => ~failed /\ store' = s
      BY <1>1, <2>2, <2>3, Accesses
    <2> QED
      BY <1>1, <1>2, <1>3, <2>1, <2>2, <2>3, <2>4
         DEF Ends, AccountTyped, Progress, OneAccount, Written
  <1>12. CASE DeleteSession
    <2> DEFINE s == [store EXCEPT !.session = None]
    <2>1. s \in StoreTypes /\ s.session = None /\ s.bearer = store.bearer
      BY <1>1, <1>2, Stores
    <2>2. Access(s) /\ Ends("anonymous") /\ UNCHANGED <<bearer, session>>
      BY <1>12 DEF DeleteSession
    <2> HIDE DEF s
    <2>3. /\ BoundsTyped' /\ store' \in StoreTypes
          /\ store' \in {store, s} /\ failed' \in BOOLEAN
          /\ ~failed' => ~failed /\ store' = s
      BY <1>1, <2>1, <2>2, Accesses
    <2> QED
      BY <1>1, <1>2, <1>3, <2>1, <2>2, <2>3 DEF Ends, AccountTyped, Progress, OneAccount, Written
  <1> QED
    BY <1>5, <1>6, <1>7, <1>8, <1>9, <1>10, <1>11, <1>12 DEF SessionStep

LEMMA LoginStep ==
    ASSUME AInv, NEW a \in Accounts, Login(a)
    PROVE  AInv'
  <1> USE DEF AInv
  <1> DEFINE x == [op |-> "login", pc |-> "post", acct |-> a]
  <1>1. x \in Commands /\ x.pc = "post" /\ x.acct = a /\ x # NoCmd
    BY DEF Commands, Holders, NoCmd
  <1>2. cmd' = x
    BY DEF Login
  <1> HIDE DEF x
  <1>3. screen = "anonymous" /\ cmd = NoCmd /\ screen' = "submitting"
    BY DEF Login
  <1>4. UNCHANGED <<bearer, session, store, failed, bounds>>
    BY DEF Login
  <1> QED
    BY <1>1, <1>2, <1>3, <1>4
       DEF AccountTyped, BoundsTyped, Progress, OneAccount, Written, bounds

LEMMA LogoutStep ==
    ASSUME AInv, NEW c \in Calls, Logout(c)
    PROVE  AInv'
  <1> USE DEF AInv
  <1> DEFINE x == [NoCmd EXCEPT !.op = "logout", !.pc = "delete_bearer"]
  <1>1. x \in Commands /\ x.pc = "delete_bearer" /\ x # NoCmd
    BY DEF Commands, Holders, NoCmd
  <1>2. cmd' = x /\ bearer' = None /\ session' = None /\ UNCHANGED <<screen, store, failed, bounds>>
    BY DEF Logout
  <1> HIDE DEF x
  <1> QED
    BY <1>1, <1>2
       DEF AccountTyped, BoundsTyped, Progress, OneAccount, Written, bounds, Holders

LEMMA RelaunchStep ==
    ASSUME AInv, Relaunch
    PROVE  AInv'
  <1> USE DEF AInv
  <1> DEFINE x == [NoCmd EXCEPT !.op = "hydrate", !.pc = "get_session"]
  <1>1. x \in Commands /\ x.pc = "get_session" /\ x # NoCmd
    BY DEF Commands, Holders, NoCmd
  <1>2. /\ cmd' = x /\ bearer' = None /\ session' = None /\ screen' = "hydrating"
        /\ UNCHANGED <<store, failed, faults>>
    BY DEF Relaunch, Fresh
  <1>3. launches < MaxLaunches /\ launches' = launches + 1
    BY DEF Relaunch
  <1> HIDE DEF x
  <1>4. BoundsTyped'
    BY <1>2, <1>3, MobileAssumption DEF BoundsTyped
  <1> QED
    BY <1>1, <1>2, <1>4 DEF AccountTyped, Progress, OneAccount, Written, Holders

\* Steps of the tunnel leave the session alone.
LEMMA OtherSteps ==
    ASSUME AInv, UNCHANGED account, UNCHANGED bounds \/ Fault
    PROVE  AInv'
  <1>1. BoundsTyped'
    BY Faults DEF AInv, BoundsTyped, bounds
  <1> QED
    BY <1>1 DEF AInv, AccountTyped, Progress, OneAccount, Written, account

LEMMA TunnelLeavesAccount ==
    ASSUME \/ \E c \in Calls : TapConnect(c) \/ TapDisconnect(c) \/ TunnelStep(c)
           \/ \E m \in {"Tun", "SystemProxy"} : SetMode(m)
           \/ Observe \/ KernelDies \/ SendAlarm \/ Revoke \/ Rotate
    PROVE  UNCHANGED account /\ (UNCHANGED bounds \/ Fault)
  <1>1. ASSUME NEW c \in Calls, TapConnect(c) \/ TapDisconnect(c) \/ TunnelStep(c)
        PROVE  UNCHANGED account /\ UNCHANGED bounds
    BY <1>1 DEF TapConnect, TapDisconnect, TunnelStep, Subscribe, Establish, EstablishFails,
       BinderGone, WithoutTun, ReadTunFd, Connected, ConnectFails, Disconnected, DisconnectFails,
       CloseTun, Send
  <1>2. ASSUME NEW m \in {"Tun", "SystemProxy"}, SetMode(m)
        PROVE  UNCHANGED account /\ UNCHANGED bounds
    BY <1>2 DEF SetMode
  <1> QED
    BY <1>1, <1>2 DEF Observe, KernelDies, SendAlarm, Revoke, Rotate

LEMMA AccountInitially == Init => AInv
  <1> SUFFICES ASSUME Init PROVE AInv
    OBVIOUS
  <1> DEFINE x == [NoCmd EXCEPT !.op = "hydrate", !.pc = "get_session"]
  <1>1. x \in Commands /\ x.pc = "get_session" /\ x # NoCmd
    BY DEF Commands, Holders, NoCmd
  <1>2. cmd = x
    BY DEF Init
  <1> HIDE DEF x
  <1>3. store \in StoreTypes /\ store.session = None /\ store.bearer = None
    BY DEF Init, StoreTypes, Holders
  <1>4. BoundsTyped
    BY MobileAssumption DEF Init, BoundsTyped
  <1> QED
    BY <1>1, <1>2, <1>3, <1>4 DEF Init, AInv, AccountTyped, Progress, OneAccount, Written, Holders

LEMMA AccountInductive == AInv /\ [Next]_vars => AInv'
  <1> SUFFICES ASSUME AInv, [Next]_vars PROVE AInv'
    OBVIOUS
  <1>1. CASE UNCHANGED vars
    BY <1>1, OtherSteps DEF vars, account, bounds
  <1>2. CASE Next
    <2>1. ASSUME \/ \E c \in Calls : TapConnect(c) \/ TapDisconnect(c) \/ TunnelStep(c)
                 \/ \E m \in {"Tun", "SystemProxy"} : SetMode(m)
                 \/ Observe \/ KernelDies \/ SendAlarm \/ Revoke \/ Rotate
          PROVE  AInv'
      BY <2>1, TunnelLeavesAccount, OtherSteps
    <2> QED
      BY <1>2, <2>1, SessionSteps, LoginStep, LogoutStep, RelaunchStep DEF Next
  <1> QED
    BY <1>1, <1>2

LEMMA AccountInvariant == Spec => []AInv
  BY AccountInitially, AccountInductive, PTL DEF Spec

\* As long as no access to the secure store has failed, its two keys are of one
\* account, and so is what the client sends and shows, and who is signed out
\* stays so, wherever the process is killed.
THEOREM AccountsAlwaysAgree == Spec => []AccountsAgree
  <1>1. AInv => AccountsAgree
    BY DEF AInv, OneAccount, Written, SignedOutIsForgotten, AccountsAgree
  <1> QED
    BY <1>1, AccountInvariant, PTL

-----------------------------------------------------------------------------
(* The tunnel.                                                             *)

\* Nothing happened before the first connect.  A call writes a state before it
\* goes on to one of three steps; as long as no two writes crossed, what is
\* still to be sent is the state, and what was sent last is, otherwise.
Latest == IF events = <<>> THEN shown ELSE events[Len(events)]
Untold ==
    delegate = "none" => /\ events = <<>> /\ kernel = None /\ state = "Disconnected"
                         /\ alarms = 0 /\ ~crossed /\ \A c \in Calls : calls[c] = NoCall
Writers == \A c \in Calls : calls[c].says # "nothing" => calls[c].pc \in {"fetch", "close", "return"}
Told ==
    ~crossed => /\ \A c \in Calls : calls[c].says \in {state, "nothing"}
                /\ alarms > 0 => state = "Error"
                /\ AllSent => Latest = state

TInv == CallsTyped /\ TunnelTyped /\ EventsTyped /\ Untold /\ Writers /\ Told

LEMMA NoCalls ==
    NoCall \in CallStates /\ NoCall.pc = "idle" /\ NoCall.says = "nothing" /\ ~NoCall.tun
  BY DEF NoCall, CallStates, Descriptors

\* What a step of call c, which becomes x, does to what the observer is told:
\* nothing, or it writes, or it sends.
Silent(c, x) ==
    calls[c].says = "nothing" /\ x.says = "nothing" /\ UNCHANGED <<state, alarms, crossed, events>>
Writes(c, x) ==
    /\ calls[c].says = "nothing" /\ x.says \in States /\ x.pc \in {"fetch", "close", "return"}
    /\ Write(x.says) /\ UNCHANGED <<alarms, events>>
Sends(c, x) ==
    /\ calls[c].says # "nothing" /\ x.says = "nothing"
    /\ events' = Append(events, calls[c].says) /\ UNCHANGED <<state, alarms, crossed>>

LEMMA Becomes ==
    ASSUME CallsTyped, NEW c \in Calls, NEW x \in CallStates, calls' = [calls EXCEPT ![c] = x]
    PROVE  CallsTyped' /\ calls'[c] = x /\ \A d \in Calls \ {c} : calls'[d] = calls[d]
  BY DEF CallsTyped

LEMMA Appends ==
    ASSUME EventsTyped, NEW s \in States, events' = Append(events, s), shown' = shown
    PROVE  events' \in Seq(States) /\ Latest' = s
  <1>1. events \in Seq(States)
    BY DEF EventsTyped
  <1>2. events' \in Seq(States) /\ events' # <<>> /\ events'[Len(events')] = s
    BY <1>1
  <1> QED
    BY <1>2 DEF Latest

\* A write that crosses no other is made when nothing is to be sent.
LEMMA Uncrossed ==
    ASSUME EventsTyped, NEW s, Write(s)
    PROVE  ~crossed' => ~crossed /\ alarms = 0 /\ \A d \in Calls : calls[d].says = "nothing"
  <1>1. ~crossed' => ~crossed /\ ~(alarms > 0) /\ \A d \in Calls : calls[d].says = "nothing"
    BY Zenon DEF Write
  <1>2. ~(alarms > 0) => alarms = 0
    BY DEF EventsTyped
  <1> QED
    BY <1>1, <1>2

\* A write with nothing to be sent crosses no other.
LEMMA Alone ==
    ASSUME NEW s, Write(s), ~crossed, alarms = 0, \A d \in Calls : calls[d].says = "nothing"
    PROVE  ~crossed'
  <1>1. ~(alarms > 0)
    OBVIOUS
  <1> QED
    BY <1>1, Zenon DEF Write

LEMMA Telling ==
    ASSUME TInv, NEW c \in Calls, NEW x \in CallStates, calls' = [calls EXCEPT ![c] = x],
           Silent(c, x) \/ Writes(c, x) \/ Sends(c, x), UNCHANGED shown
    PROVE  CallsTyped' /\ EventsTyped' /\ Writers' /\ Told'
  <1>1. CallsTyped' /\ calls'[c] = x /\ \A d \in Calls \ {c} : calls'[d] = calls[d]
    BY Becomes DEF TInv
  <1>2. \A d \in Calls : calls[d].says \in States \cup {"nothing"}
    BY DEF TInv, CallsTyped, CallStates
  <1>3. EventsTyped /\ Writers /\ Told
    BY DEF TInv
  <1>4. Writers'
    BY <1>1, <1>3 DEF Writers, Silent, Writes, Sends
  <1>5. CASE Silent(c, x)
    <2>1. EventsTyped' /\ Latest' = Latest
      BY <1>3, <1>5 DEF Silent, EventsTyped, Latest
    <2> QED
      BY <1>1, <1>3, <1>4, <1>5, <2>1 DEF Silent, Told, AllSent
  <1>6. CASE Writes(c, x)
    <2>1. EventsTyped'
      BY <1>3, <1>6 DEF Writes, Write, EventsTyped
    <2>2. ~crossed' => alarms' = 0 /\ \A d \in Calls : calls[d].says = "nothing"
      BY <1>3, <1>6, Uncrossed DEF Writes
    <2>3. ~AllSent' /\ state' = x.says
      BY <1>1, <1>6 DEF Writes, Write, AllSent, States
    <2> QED
      BY <1>1, <1>4, <2>1, <2>2, <2>3 DEF Told
  <1>7. CASE Sends(c, x)
    <2>1. events' \in Seq(States) /\ Latest' = calls[c].says
      BY <1>2, <1>3, <1>7, Appends DEF Sends
    <2>2. EventsTyped'
      BY <1>3, <1>7, <2>1 DEF Sends, EventsTyped
    <2>3. ~crossed => calls[c].says = state
      BY <1>3, <1>7 DEF Sends, Told
    <2> QED
      BY <1>1, <1>3, <1>4, <1>7, <2>1, <2>2, <2>3 DEF Sends, Told
  <1> QED
    BY <1>5, <1>6, <1>7

LEMMA Observes ==
    ASSUME EventsTyped, Observe
    PROVE  EventsTyped' /\ Latest' = Latest
  <1>1. events \in Seq(States) /\ events # <<>>
    BY DEF EventsTyped, Observe
  <1>2. shown' = Head(events) /\ events' = Tail(events) /\ UNCHANGED written
    BY DEF Observe
  <1>3. Head(events) = events[1] /\ events[1] \in States /\ Tail(events) \in Seq(States)
        /\ Len(Tail(events)) = Len(events) - 1 /\ Len(events) \in Nat \ {0}
    BY <1>1
  <1>4. EventsTyped'
    BY <1>2, <1>3 DEF EventsTyped, written
  <1>5. CASE Len(events) = 1
    BY <1>1, <1>2, <1>3, <1>4, <1>5 DEF Latest
  <1>6. CASE Len(events) > 1
    <2>1. Tail(events)[Len(events) - 1] = events[Len(events)]
      BY <1>1, <1>3, <1>6
    <2>2. Tail(events) # <<>>
      <3>1. Len(Tail(events)) # 0 /\ Len(<<>>) = 0
        BY <1>3, <1>6
      <3> QED
        BY <3>1
    <2> QED
      BY <1>1, <1>2, <1>3, <1>4, <2>1, <2>2 DEF Latest
  <1> QED
    BY <1>3, <1>5, <1>6

LEMMA Counting ==
    ASSUME NEW n, NEW m, m \in Nat, n \in 0..m, n < m
    PROVE  n + 1 \in 0..m /\ n + 1 \in 1..m
  OBVIOUS

\* A step of a call under way is one of the three.
LEMMA CallMoves ==
    ASSUME TInv, NEW c \in Calls, TunnelStep(c)
    PROVE  \E x \in CallStates :
             calls' = [calls EXCEPT ![c] = x] /\ (Silent(c, x) \/ Writes(c, x) \/ Sends(c, x))
  <1>1. calls \in [Calls -> CallStates] /\ calls[c] \in CallStates
    BY DEF TInv, CallsTyped
  <1>2. tunFd \in Descriptors
    BY DEF TInv, TunnelTyped
  \* The steps that say nothing, and those that write.
  <1>3. ASSUME NEW x \in CallStates, calls' = [calls EXCEPT ![c] = x], calls[c].says = "nothing",
               x.says = "nothing", UNCHANGED <<written, events>>
        PROVE  Silent(c, x)
    BY <1>3 DEF Silent, written
  <1>4. ASSUME NEW s \in States, NEW p \in {"fetch", "close", "return"}, Publish(c, s, p),
               calls[c].says = "nothing"
        PROVE  \E x \in CallStates : calls' = [calls EXCEPT ![c] = x] /\ Writes(c, x)
    <2> DEFINE x == [calls[c] EXCEPT !.says = s, !.pc = p]
    <2>1. x \in CallStates /\ x.says = s /\ x.pc = p
      BY <1>1 DEF CallStates
    <2>2. calls' = [calls EXCEPT ![c] = x]
      BY <1>1, <1>4 DEF Publish
    <2> HIDE DEF x
    <2>3. Writes(c, x)
      BY <1>4, <2>1 DEF Publish, Writes
    <2> QED
      BY <2>1, <2>2, <2>3
  <1>5. CASE Over(c) /\ calls[c].says = "nothing" /\ UNCHANGED <<written, events>>
    BY <1>3, <1>5, NoCalls DEF Over
  <1>6. CASE Subscribe(c)
    <2>1. CASE Call(c, "establish")
      <3> DEFINE x == [calls[c] EXCEPT !.pc = "establish"]
      <3>1. x \in CallStates /\ x.says = calls[c].says /\ calls' = [calls EXCEPT ![c] = x]
        BY <1>1, <2>1 DEF CallStates, Call
      <3> QED
        BY <1>3, <1>6, <3>1 DEF Subscribe, Is
    <2> QED
      BY <1>5, <1>6, <2>1 DEF Subscribe, Is
  <1>7. CASE EstablishFails(c) \/ BinderGone(c) \/ CloseTun(c)
    BY <1>5, <1>7 DEF EstablishFails, BinderGone, CloseTun, Is
  <1>8. CASE Establish(c)
    <2> DEFINE x == [calls[c] EXCEPT !.says = "Connecting", !.pc = "fetch", !.tun = TRUE]
    <2>1. x \in CallStates /\ x.says = "Connecting" /\ x.pc = "fetch"
      BY <1>1 DEF CallStates, States
    <2>2. calls' = [calls EXCEPT ![c] = x]
      BY <1>1, <1>8 DEF Establish
    <2> HIDE DEF x
    <2>3. Writes(c, x)
      BY <1>8, <2>1 DEF Establish, Is, Writes, States
    <2> QED
      BY <2>1, <2>2, <2>3
  <1>9. CASE ReadTunFd(c)
    <2> DEFINE x == [calls[c] EXCEPT !.pc = "spawn", !.fd = tunFd]
    <2>1. x \in CallStates /\ x.says = calls[c].says
      BY <1>1, <1>2 DEF CallStates
    <2>2. calls' = [calls EXCEPT ![c] = x]
      BY <1>1, <1>9 DEF ReadTunFd
    <2> QED
      BY <1>3, <1>9, <2>1, <2>2 DEF ReadTunFd, Is
  <1>10. CASE WithoutTun(c) \/ Connected(c) \/ ConnectFails(c) \/ Disconnected(c) \/ DisconnectFails(c)
    <2>1. calls[c].says = "nothing"
      BY <1>10 DEF WithoutTun, Connected, ConnectFails, Disconnected, DisconnectFails, Is
    <2>2. \E s \in States, p \in {"fetch", "close", "return"} : Publish(c, s, p)
      BY <1>10 DEF WithoutTun, Connected, ConnectFails, Disconnected, DisconnectFails, States
    <2> QED
      BY <1>4, <2>1, <2>2
  <1>11. CASE Send(c)
    <2> DEFINE x == IF calls[c].pc = "return" THEN NoCall ELSE [calls[c] EXCEPT !.says = "nothing"]
    <2>1. x \in CallStates /\ x.says = "nothing"
      BY <1>1, NoCalls DEF CallStates
    <2>2. calls' = [calls EXCEPT ![c] = x]
      BY <1>1, <1>11 DEF Send
    <2> HIDE DEF x
    <2>3. Sends(c, x)
      BY <1>11, <2>1 DEF Send, Sends, written
    <2> QED
      BY <2>1, <2>2, <2>3
  <1> QED
    BY <1>6, <1>7, <1>8, <1>9, <1>10, <1>11 DEF TunnelStep

\* A call under way has a delegate, and leaves these alone.
LEMMA CallFrame ==
    ASSUME TInv, NEW c \in Calls, TunnelStep(c)
    PROVE  /\ calls[c].pc # "idle" /\ delegate # "none"
           /\ UNCHANGED <<screen, cmd, mode, delegate, shown, taps>>
  <1>1. calls[c].pc # "idle"
    BY DEF TunnelStep, Subscribe, Establish, EstablishFails, BinderGone, WithoutTun, ReadTunFd,
       Connected, ConnectFails, Disconnected, DisconnectFails, CloseTun, Send, Is, TInv, Writers
  <1>2. delegate # "none"
    BY <1>1, NoCalls DEF TInv, Untold
  <1>3. UNCHANGED <<screen, cmd, mode, delegate, shown, taps>>
    BY DEF TunnelStep, Subscribe, Establish, EstablishFails, BinderGone, WithoutTun, ReadTunFd,
       Connected, ConnectFails, Disconnected, DisconnectFails, CloseTun, Send, account
  <1> QED
    BY <1>1, <1>2, <1>3

LEMMA CallSteps ==
    ASSUME TInv, NEW c \in Calls, TunnelStep(c)
    PROVE  TInv'
  <1>1. CallsTyped' /\ EventsTyped' /\ Writers' /\ Told'
    BY CallMoves, CallFrame, Telling
  <1>2. Untold'
    BY CallFrame DEF Untold
  <1>3. UNCHANGED <<mode, delegate, taps>>
    BY CallFrame
  <1>4. None \in Descriptors /\ TunnelTyped /\ calls[c].fd \in Descriptors
    BY DEF Descriptors, TInv, CallsTyped, CallStates
  <1>5. CASE Establish(c)
    <2>1. tuns < MaxTuns /\ tuns' = tuns + 1 /\ device' = tuns' /\ up' = tuns' /\ tunFd' = tuns'
          /\ UNCHANGED <<kernel, lost>>
      BY <1>5 DEF Establish
    <2>2. tuns' \in 0..MaxTuns /\ tuns' \in Descriptors
      BY <1>4, <2>1, Counting, MobileAssumption DEF TunnelTyped, Descriptors
    <2>3. TunnelTyped'
      BY <1>3, <1>4, <2>1, <2>2 DEF TunnelTyped
    <2> QED
      BY <1>1, <1>2, <2>3 DEF TInv
  <1>6. CASE ~Establish(c)
    <2>1. /\ tunFd' \in {tunFd, None} /\ kernel' \in {kernel, calls[c].fd, None}
          /\ device' \in {device, None} /\ up' = up /\ tuns' = tuns /\ lost' \in {lost, TRUE}
      BY <1>6 DEF TunnelStep, Subscribe, EstablishFails, BinderGone, WithoutTun, ReadTunFd,
         Connected, ConnectFails, Disconnected, DisconnectFails, CloseTun, Send, host
    <2>2. TunnelTyped'
      BY <1>3, <1>4, <2>1 DEF TunnelTyped
    <2> QED
      BY <1>1, <1>2, <2>2 DEF TInv
  <1> QED
    BY <1>5, <1>6

\* What the user does.
LEMMA UserSteps ==
    ASSUME TInv,
           \/ \E c \in Calls : TapConnect(c) \/ TapDisconnect(c) \/ Logout(c)
           \/ \E m \in {"Tun", "SystemProxy"} : SetMode(m)
    PROVE  TInv'
  <1> USE DEF TInv
  <1>1. /\ UNCHANGED <<state, alarms, crossed, kernel, events, shown, tunFd, device, up, tuns, lost>>
        /\ taps < MaxTaps /\ taps' = taps + 1
    BY DEF TapConnect, TapDisconnect, Logout, SetMode, host, written
  <1>2. taps' \in 0..MaxTaps
    BY <1>1, Counting, MobileAssumption DEF TunnelTyped
  <1>3. EventsTyped'
    BY <1>1 DEF EventsTyped
  <1>4. ASSUME NEW c \in Calls, NEW x \in CallStates, calls' = [calls EXCEPT ![c] = x],
               calls[c] = NoCall, x.says = "nothing",
               UNCHANGED mode, delegate' # "none", delegate' \in {"attached", "detached"}
        PROVE  TInv'
    <2>1. CallsTyped' /\ Writers' /\ Told'
      BY <1>1, <1>4, Telling, NoCalls DEF Silent
    <2>2. TunnelTyped' /\ Untold'
      BY <1>1, <1>2, <1>4 DEF TunnelTyped, Untold
    <2> QED
      BY <1>3, <2>1, <2>2
  <1>5. /\ [NoCall EXCEPT !.op = "connect", !.pc = "subscribe"] \in CallStates
        /\ [NoCall EXCEPT !.op = "connect", !.pc = "subscribe"].says = "nothing"
        /\ [NoCall EXCEPT !.op = "disconnect", !.pc = "stop"] \in CallStates
        /\ [NoCall EXCEPT !.op = "disconnect", !.pc = "stop"].says = "nothing"
    BY DEF NoCall, CallStates, Descriptors
  <1>6. ASSUME UNCHANGED calls, UNCHANGED delegate, mode' \in {"Tun", "SystemProxy"} PROVE TInv'
    BY <1>1, <1>2, <1>3, <1>6 DEF CallsTyped, TunnelTyped, Untold, Writers, Told, AllSent, Latest
  <1>7. ASSUME NEW c \in Calls, TapConnect(c) PROVE TInv'
    BY <1>4, <1>5, <1>7 DEF TapConnect, TunnelTyped
  <1>8. ASSUME NEW c \in Calls, TapDisconnect(c) PROVE TInv'
    <2>1. delegate # "none"
      BY <1>8, NoCalls DEF TapDisconnect, Untold, Told, AllSent, Latest
    <2> QED
      BY <1>4, <1>5, <1>8, <2>1 DEF TapDisconnect, TunnelTyped
  <1>9. ASSUME NEW c \in Calls, Logout(c) PROVE TInv'
    <2>1. CASE delegate = "none"
      BY <1>6, <1>9, <2>1 DEF Logout, TunnelTyped
    <2>2. CASE delegate # "none"
      BY <1>4, <1>5, <1>9, <2>2 DEF Logout, TunnelTyped
    <2> QED
      BY <2>1, <2>2
  <1>10. ASSUME NEW m \in {"Tun", "SystemProxy"}, SetMode(m) PROVE TInv'
    BY <1>6, <1>10 DEF SetMode
  <1> QED
    BY <1>7, <1>8, <1>9, <1>10

LEMMA WorldSteps ==
    ASSUME TInv, Observe \/ KernelDies \/ SendAlarm \/ Revoke \/ Rotate
    PROVE  TInv'
  <1> USE DEF TInv
  <1>1. None \in Descriptors
    BY DEF Descriptors
  <1>2. CASE Observe
    <2>1. EventsTyped' /\ Latest' = Latest /\ events # <<>>
      BY <1>2, Observes DEF Observe
    <2>2. UNCHANGED <<mode, tunFd, kernel, device, up, tuns, delegate, calls, state, alarms, crossed,
                      taps, lost>>
      BY <1>2 DEF Observe, host, written
    <2> QED
      BY <2>1, <2>2 DEF CallsTyped, TunnelTyped, Untold, Writers, Told, AllSent
  <1>3. CASE KernelDies
    <2>1. delegate # "none" /\ UNCHANGED <<calls, delegate, events, shown>>
      BY <1>3 DEF KernelDies, Untold
    <2>2. state' = "Error" /\ alarms' = alarms + 1 /\ alarms \in Nat
      BY <1>3 DEF KernelDies, Write, EventsTyped
    <2>3. ~crossed' => ~crossed /\ \A c \in Calls : calls[c].says = "nothing"
      BY <1>3 DEF KernelDies, Write
    <2>4. crossed' \in BOOLEAN
      BY <1>3 DEF KernelDies, Write, EventsTyped
    <2>5. EventsTyped'
      BY <2>1, <2>2, <2>4 DEF EventsTyped, States
    <2>6. Told'
      BY <2>1, <2>2, <2>3 DEF Told, AllSent
    <2>7. TunnelTyped'
      BY <1>1, <1>3 DEF KernelDies, TunnelTyped, host
    <2> QED
      BY <2>1, <2>5, <2>6, <2>7 DEF CallsTyped, Untold, Writers
  <1>4. CASE SendAlarm
    <2>1. /\ alarms > 0 /\ alarms' = alarms - 1 /\ alarms \in Nat
          /\ events' = Append(events, "Error")
          /\ UNCHANGED <<calls, delegate, state, crossed, shown>>
      BY <1>4 DEF SendAlarm, EventsTyped
    <2>2. events' \in Seq(States) /\ Latest' = "Error"
      BY <2>1, Appends DEF States
    <2>3. EventsTyped'
      BY <2>1, <2>2 DEF EventsTyped
    <2>4. Told'
      BY <2>1, <2>2 DEF Told, AllSent
    <2>5. TunnelTyped'
      BY <1>4 DEF SendAlarm, TunnelTyped, host
    <2> QED
      BY <2>1, <2>3, <2>4, <2>5 DEF CallsTyped, Untold, Writers
  <1>5. CASE Revoke \/ Rotate
    <2>1. /\ device' \in {device, None} /\ up' \in {up, None}
          /\ delegate' \in {delegate, "detached"} /\ (delegate' = "none" => delegate = "none")
          /\ UNCHANGED <<mode, tunFd, kernel, tuns, calls, state, alarms, crossed, events, shown,
                         taps, lost>>
      BY <1>5 DEF Revoke, Rotate, written
    <2> QED
      BY <1>1, <2>1
         DEF CallsTyped, TunnelTyped, EventsTyped, Untold, Writers, Told, AllSent, Latest
  <1> QED
    BY <1>2, <1>3, <1>4, <1>5

LEMMA FreshTunnel ==
    ASSUME TInv, Relaunch
    PROVE  TInv'
  <1>1. None \in Descriptors /\ NoCall \in CallStates
    BY NoCalls DEF Descriptors
  <1>2. /\ events' = <<>> /\ shown' = "Disconnected" /\ state' = "Disconnected" /\ kernel' = None
        /\ alarms' = 0 /\ crossed' = FALSE /\ calls' = [c \in Calls |-> NoCall]
    BY DEF Relaunch, Fresh
  <1>3. EventsTyped' /\ Latest' = state'
    <2>1. "Disconnected" \in States /\ <<>> \in Seq(States) /\ 0 \in Nat
      BY DEF States
    <2> QED
      BY <1>2, <2>1 DEF EventsTyped, Latest
  <1>4. Untold' /\ Writers' /\ Told'
    BY <1>2, <1>3, NoCalls DEF Untold, Writers, Told
  <1>5. CallsTyped' /\ TunnelTyped'
    BY <1>1 DEF Relaunch, Fresh, TInv, CallsTyped, TunnelTyped
  <1> QED
    BY <1>3, <1>4, <1>5 DEF TInv

LEMMA TunnelInitially == Init => TInv
  <1> SUFFICES ASSUME Init PROVE TInv
    OBVIOUS
  <1>1. None \in Descriptors /\ NoCall \in CallStates
    BY NoCalls DEF Descriptors
  <1>2. EventsTyped /\ Latest = state
    <2>1. "Disconnected" \in States /\ <<>> \in Seq(States) /\ 0 \in Nat
      BY DEF States
    <2> QED
      BY <2>1 DEF Init, EventsTyped, Latest
  <1>3. Untold /\ Writers /\ Told
    BY <1>2, NoCalls DEF Init, Untold, Writers, Told
  <1>4. CallsTyped
    BY <1>1 DEF Init, CallsTyped
  <1>5. 0 \in 0..MaxTuns /\ 0 \in 0..MaxTaps
    BY MobileAssumption
  <1>6. TunnelTyped
    BY <1>1, <1>5 DEF Init, TunnelTyped
  <1> QED
    BY <1>2, <1>3, <1>4, <1>6 DEF TInv

\* The session's steps leave the tunnel alone.
LEMMA SessionLeavesTunnel ==
    ASSUME SessionStep \/ \E a \in Accounts : Login(a)
    PROVE  UNCHANGED tunnel
  BY DEF SessionStep, GetSession, GetBearer, DropSession, DropBearer, LoginAnswer, PutBearer,
     PutSession, DeleteBearer, DeleteSession, Login

LEMMA TunnelInductive == TInv /\ [Next]_vars => TInv'
  <1> SUFFICES ASSUME TInv, [Next]_vars PROVE TInv'
    OBVIOUS
  <1>1. ASSUME UNCHANGED tunnel PROVE TInv'
    BY <1>1 DEF TInv, CallsTyped, TunnelTyped, EventsTyped, Untold, Writers, Told, AllSent, Latest,
       tunnel, host, written
  <1>2. CASE UNCHANGED vars
    BY <1>1, <1>2 DEF vars, tunnel, host, written
  <1>3. CASE Next
    <2>1. CASE SessionStep \/ \E a \in Accounts : Login(a)
      BY <1>1, <2>1, SessionLeavesTunnel
    <2> QED
      BY <1>3, <2>1, CallSteps, UserSteps, WorldSteps, FreshTunnel DEF Next
  <1> QED
    BY <1>2, <1>3

LEMMA TunnelInvariant == Spec => []TInv
  BY TunnelInitially, TunnelInductive, PTL DEF Spec

\* However calls overlap, a screen that was told of every change shows the
\* state the core is in, unless two changes crossed in publish.
THEOREM ScreenIsTold == Spec => []ScreenCatchesUp
  <1>1. TInv => ScreenCatchesUp
    BY DEF TInv, Told, Latest, ScreenCatchesUp
  <1> QED
    BY <1>1, TunnelInvariant, PTL

-----------------------------------------------------------------------------
(* The patient user.                                                       *)

\* A connect under way, and one whose tunnel was given; and a call that is
\* about to close the tunnel.
Dials(c) == calls[c].pc \in {"subscribe", "establish", "fetch", "spawn"}
HoldsTunnel(c) == calls[c].pc \in {"fetch", "spawn"} /\ calls[c].tun
Closes(c) == calls[c].pc = "close"

\* One call at a time; a connect is made at home, with no command under way,
\* has its tunnel from establish on, and is not connected meanwhile.
OneCall == \A c, d \in Calls : calls[c].pc # "idle" /\ calls[d].pc # "idle" => c = d
Dialling ==
    \A c \in Calls :
        /\ Dials(c) => screen = "home" /\ cmd.pc = "idle"
        /\ calls[c].pc \in {"subscribe", "establish"} => ~calls[c].tun
        /\ calls[c].pc \in {"fetch", "spawn", "close"} => state # "Connected"
TunnelIsHeld ==
    \A c \in Calls : HoldsTunnel(c) =>
        /\ tunFd # None /\ up \in {tunFd, None}
        /\ calls[c].pc = "spawn" => calls[c].fd = tunFd

\* A kernel that is connected has the tunnel of the host, whatever went wrong
\* before.
Serving == state = "Connected" => kernel # None /\ kernel = tunFd /\ up \in {kernel, None}

\* As long as no kernel was lost, the writes do not cross, and what is up is on
\* its way up or down, or connected.
NothingStranded ==
    ~lost =>
        /\ alarms = 0 /\ ~crossed
        /\ \A c \in Calls : Dials(c) => kernel = None
        /\ kernel # None => state = "Connected"
        /\ tunFd # None => kernel # None \/ \E c \in Calls : HoldsTunnel(c) \/ Closes(c)
        /\ delegate # "detached" /\ device # None => tunFd # None
        /\ delegate = "none" => tunFd = None

\* Away from home nothing runs but what a stop under way will end.
Leaving ==
    ~lost /\ (screen # "home" \/ cmd.pc # "idle") =>
        kernel = None \/ \E c \in Calls : calls[c].pc = "stop"

Patience == OneCall /\ Dialling /\ TunnelIsHeld /\ Serving /\ NothingStranded /\ Leaving
PInv == user = "patient" => Patience

\* What holds when the patient user acts.
LEMMA UserActs ==
    ASSUME AInv, TInv, Patience, UserMay, user = "patient"
    PROVE  /\ \A c \in Calls : calls[c] = NoCall /\ calls[c].pc = "idle"
           /\ cmd.pc = "idle" /\ cmd = NoCmd
           /\ ~lost => shown = state
  <1>1. /\ \A c \in Calls : calls[c] = NoCall /\ calls[c].pc = "idle" /\ calls[c].says = "nothing"
        /\ cmd.pc = "idle" /\ cmd = NoCmd /\ AllSent /\ events = <<>>
    BY NoCommand, NoCalls DEF UserMay, AtRest, AllSent
  <1> QED
    BY <1>1 DEF Patience, NothingStranded, TInv, Told, Latest

\* A step of the session goes from away from home to anywhere.
LEMMA SessionIsPatient ==
    ASSUME AInv, TInv, Patience, SessionStep \/ \E a \in Accounts : UserMay /\ Login(a)
    PROVE  Patience'
  <1>1. UNCHANGED <<calls, tunFd, kernel, device, up, delegate, state, alarms, crossed, lost>>
    BY SessionLeavesTunnel DEF tunnel, host, written
  <1>2. CASE SessionStep
    <2>1. cmd.pc # "idle"
      BY <1>2 DEF SessionStep, At, GetSession, GetBearer, DropSession, DropBearer, LoginAnswer,
         PutBearer, PutSession, DeleteBearer, DeleteSession
    <2> QED
      BY <1>1, <2>1 DEF Patience, OneCall, Dialling, Dials, TunnelIsHeld, HoldsTunnel, Closes,
         Serving, NothingStranded, Leaving
  <1>3. CASE \E a \in Accounts : UserMay /\ Login(a)
    <2>1. screen = "anonymous"
      BY <1>3 DEF Login
    <2> QED
      BY <1>1, <2>1 DEF Patience, OneCall, Dialling, Dials, TunnelIsHeld, HoldsTunnel, Closes,
         Serving, NothingStranded, Leaving
  <1> QED
    BY <1>2, <1>3

\* What a call that writes leaves: nobody else was to send anything.
LEMMA WritesAlone ==
    ASSUME TInv, Patience, NEW c \in Calls, NEW s \in States, NEW p \in {"fetch", "close", "return"},
           Publish(c, s, p), calls[c].says = "nothing", calls[c].pc # "idle"
    PROVE  /\ state' = s /\ calls'[c].pc = p
           /\ calls'[c].tun = calls[c].tun /\ calls'[c].fd = calls[c].fd
           /\ ~lost => alarms' = 0 /\ ~crossed'
  <1>1. calls \in [Calls -> CallStates] /\ calls[c] \in CallStates
    BY DEF TInv, CallsTyped
  <1>2. \A d \in Calls : calls[d].says = "nothing"
    BY DEF TInv, Writers, Patience, OneCall
  <1>3. state' = s /\ calls'[c].pc = p /\ calls'[c].tun = calls[c].tun /\ calls'[c].fd = calls[c].fd
    BY <1>1 DEF Publish, Write, CallStates
  <1>4. ~lost => alarms' = 0 /\ ~crossed'
    BY <1>2, Alone DEF Publish, Patience, NothingStranded
  <1> QED
    BY <1>3, <1>4

\* A step of the one call under way.
LEMMA CallIsPatient ==
    ASSUME AInv, TInv, Patience, NEW c \in Calls, TunnelStep(c)
    PROVE  Patience'
  <1> USE DEF Patience
  <1>1. calls \in [Calls -> CallStates] /\ calls[c] \in CallStates
    BY DEF TInv, CallsTyped
  <1>2. calls[c].pc # "idle" /\ delegate # "none" /\ UNCHANGED <<screen, cmd, delegate>>
    BY CallFrame
  <1>3. \A d \in Calls \ {c} : calls[d].pc = "idle" /\ calls'[d] = calls[d]
    <2>1. \A d \in Calls \ {c} : calls[d].pc = "idle"
      BY <1>2 DEF OneCall
    <2>2. \A d \in Calls \ {c} : calls'[d] = calls[d]
      BY CallMoves, Becomes DEF TInv
    <2> QED
      BY <2>1, <2>2
  <1>4. OneCall'
    BY <1>3 DEF OneCall
  <1>5. /\ Over(c) => calls'[c].pc = "idle"
        /\ \A p \in {"idle", "subscribe", "establish"} :
              Call(c, p) => calls'[c].pc = p /\ calls'[c].tun = calls[c].tun
    BY <1>1, NoCalls DEF Over, Call, CallStates
  <1>6. CASE Subscribe(c)
    <2>1. /\ calls[c].pc = "subscribe" /\ calls'[c].pc \in {"idle", "establish"}
          /\ calls'[c].pc = "establish" => calls'[c].tun = calls[c].tun
          /\ UNCHANGED <<tunFd, kernel, device, up, state, alarms, crossed, lost>>
      BY <1>5, <1>6 DEF Subscribe, Is, host, written
    <2> QED
      BY <1>2, <1>3, <1>4, <2>1
         DEF Dialling, Dials, TunnelIsHeld, HoldsTunnel, Closes, Serving, NothingStranded, Leaving
  <1>7. CASE Establish(c)
    <2>1. calls'[c].pc = "fetch" /\ calls'[c].tun /\ calls[c].pc = "establish"
      BY <1>1, <1>7 DEF Establish, Is, CallStates
    <2>2. /\ device' = tunFd' /\ up' = tunFd' /\ tunFd' # None /\ state' = "Connecting"
          /\ UNCHANGED <<kernel, lost>>
      <3>1. tuns + 1 \in Nat
        BY MobileAssumption DEF TInv, TunnelTyped
      <3> QED
        BY <1>7, <3>1, MobileAssumption DEF Establish, Write
    <2>3. ~lost => alarms' = 0 /\ ~crossed'
      <3>1. \A d \in Calls : calls[d].says = "nothing"
        BY <1>3, <1>7 DEF Establish, Is, TInv, Writers
      <3> QED
        BY <1>7, <3>1, Alone DEF Establish, NothingStranded
    <2>4. screen = "home" /\ cmd.pc = "idle" /\ (~lost => kernel = None)
      BY <1>7, <2>1 DEF Dialling, Dials, NothingStranded
    <2> QED
      BY <1>2, <1>3, <1>4, <2>1, <2>2, <2>3, <2>4
         DEF Dialling, Dials, TunnelIsHeld, HoldsTunnel, Closes, Serving, NothingStranded, Leaving
  <1>8. CASE EstablishFails(c) \/ BinderGone(c)
    <2>1. calls'[c].pc = "idle" /\ calls[c].pc = "establish" /\ device' \in {device, None}
      BY <1>5, <1>8 DEF EstablishFails, BinderGone, Is, host
    <2>2. UNCHANGED <<tunFd, state, kernel, up, alarms, crossed, lost>>
      BY <1>8 DEF EstablishFails, BinderGone, host, written
    <2> QED
      BY <1>2, <1>3, <1>4, <2>1, <2>2
         DEF Dialling, Dials, TunnelIsHeld, HoldsTunnel, Closes, Serving, NothingStranded, Leaving
  <1>9. CASE WithoutTun(c)
    <2>1. /\ calls'[c].pc = "fetch" /\ calls[c].pc = "establish" /\ state' = "Connecting"
          /\ calls'[c].tun = calls[c].tun /\ (~lost => alarms' = 0 /\ ~crossed')
      BY <1>2, <1>9, WritesAlone DEF WithoutTun, Is, States
    <2>2. UNCHANGED <<tunFd, kernel, device, up, lost>>
      BY <1>9 DEF WithoutTun, host
    <2>3. ~calls[c].tun /\ screen = "home" /\ cmd.pc = "idle" /\ (~lost => kernel = None)
      BY <2>1 DEF Dialling, Dials, NothingStranded
    <2> QED
      BY <1>2, <1>3, <1>4, <2>1, <2>2, <2>3
         DEF Dialling, Dials, TunnelIsHeld, HoldsTunnel, Closes, Serving, NothingStranded, Leaving
  <1>10. CASE ReadTunFd(c)
    <2>1. calls'[c].pc = "spawn" /\ calls'[c].fd = tunFd /\ calls'[c].tun = calls[c].tun
      BY <1>1, <1>10 DEF ReadTunFd, CallStates
    <2>2. calls[c].pc = "fetch"
          /\ UNCHANGED <<tunFd, state, kernel, device, up, alarms, crossed, lost>>
      BY <1>10 DEF ReadTunFd, Is, host, written
    <2> QED
      BY <1>2, <1>3, <1>4, <2>1, <2>2
         DEF Dialling, Dials, TunnelIsHeld, HoldsTunnel, Closes, Serving, NothingStranded, Leaving
  <1>11. CASE Connected(c)
    <2>1. calls[c].pc = "spawn" /\ HoldsTunnel(c) /\ Dials(c)
      BY <1>11 DEF Connected, Is, HoldsTunnel, Dials
    <2>2. /\ calls'[c].pc = "return" /\ state' = "Connected"
          /\ ~lost => alarms' = 0 /\ ~crossed'
      BY <1>2, <1>11, WritesAlone DEF Connected, Is, States
    <2>3. kernel' = calls[c].fd /\ UNCHANGED <<tunFd, device, up, lost>>
      BY <1>11 DEF Connected, host
    <2>4. kernel' = tunFd /\ tunFd # None /\ up \in {tunFd, None}
      BY <2>1, <2>3 DEF TunnelIsHeld
    <2>5. screen = "home" /\ cmd.pc = "idle"
      BY <2>1 DEF Dialling
    <2> QED
      BY <1>2, <1>3, <1>4, <2>2, <2>3, <2>4, <2>5
         DEF Dialling, Dials, TunnelIsHeld, HoldsTunnel, Closes, Serving, NothingStranded, Leaving
  <1>12. CASE ConnectFails(c) \/ Disconnected(c)
    <2>1. /\ calls'[c].pc = "close" /\ state' # "Connected"
          /\ ~lost => alarms' = 0 /\ ~crossed'
      BY <1>2, <1>12, WritesAlone DEF ConnectFails, Disconnected, Is, States
    <2>2. kernel' = None /\ UNCHANGED <<tunFd, device, up, lost>>
      BY <1>12 DEF ConnectFails, Disconnected, host
    <2> QED
      BY <1>2, <1>3, <1>4, <2>1, <2>2
         DEF Dialling, Dials, TunnelIsHeld, HoldsTunnel, Closes, Serving, NothingStranded, Leaving
  <1>13. CASE DisconnectFails(c)
    <2>1. calls'[c].pc = "return" /\ state' = "Error" /\ lost'
      BY <1>2, <1>13, WritesAlone DEF DisconnectFails, Is, States
    <2> QED
      BY <1>2, <1>3, <1>4, <2>1
         DEF Dialling, Dials, TunnelIsHeld, HoldsTunnel, Closes, Serving, NothingStranded, Leaving
  <1>14. CASE CloseTun(c)
    <2>1. /\ calls[c].pc = "close" /\ calls'[c].pc = "idle"
          /\ tunFd' = None /\ (delegate # "detached" => device' = None)
          /\ UNCHANGED <<state, kernel, up, alarms, crossed, lost>>
      BY <1>2, <1>5, <1>14 DEF CloseTun, Is, TInv, TunnelTyped, written
    <2>2. state # "Connected"
      BY <2>1 DEF Dialling
    <2> QED
      BY <1>2, <1>3, <1>4, <2>1, <2>2
         DEF Dialling, Dials, TunnelIsHeld, HoldsTunnel, Closes, Serving, NothingStranded, Leaving
  <1>15. CASE Send(c)
    <2>1. calls[c].pc \in {"fetch", "close", "return"}
      BY <1>15 DEF Send, TInv, Writers
    <2>2. /\ calls[c].pc = "return" => calls'[c].pc = "idle"
          /\ calls[c].pc # "return" =>
               calls'[c].pc = calls[c].pc /\ calls'[c].tun = calls[c].tun /\ calls'[c].fd = calls[c].fd
      BY <1>1, <1>15, NoCalls DEF Send, CallStates
    <2>3. UNCHANGED <<tunFd, kernel, device, up, state, alarms, crossed, lost>>
      BY <1>15 DEF Send, host, written
    <2> QED
      BY <1>2, <1>3, <1>4, <2>1, <2>2, <2>3
         DEF Dialling, Dials, TunnelIsHeld, HoldsTunnel, Closes, Serving, NothingStranded, Leaving
  <1> QED
    BY <1>6, <1>7, <1>8, <1>9, <1>10, <1>11, <1>12, <1>13, <1>14, <1>15 DEF TunnelStep

\* The patient user acts when nothing is under way.
LEMMA UserIsPatient ==
    ASSUME AInv, TInv, Patience, user = "patient",
           \/ \E c \in Calls : TapConnect(c) \/ TapDisconnect(c) \/ Logout(c)
           \/ \E m \in {"Tun", "SystemProxy"} : SetMode(m)
    PROVE  Patience'
  <1> USE DEF Patience
  <1>1. calls \in [Calls -> CallStates]
    BY DEF TInv, CallsTyped
  <1>2. /\ UserMay /\ screen = "home"
        /\ UNCHANGED <<screen, tunFd, state, kernel, device, up, alarms, crossed, lost>>
    BY DEF TapConnect, TapDisconnect, Logout, SetMode, account, host, written
  <1>3. /\ \A d \in Calls : calls[d] = NoCall /\ calls[d].pc = "idle"
        /\ cmd.pc = "idle" /\ (~lost => shown = state)
    BY <1>2, UserActs
  \* Nobody holds a tunnel, so what is up is connected.
  <1>4. ~lost => /\ alarms = 0 /\ ~crossed
                 /\ kernel # None => state = "Connected"
                 /\ tunFd # None => kernel # None
                 /\ delegate # "detached" /\ device # None => tunFd # None
                 /\ delegate = "none" => tunFd = None
    BY <1>3 DEF NothingStranded, HoldsTunnel, Closes
  <1>5. ASSUME NEW c \in Calls, TapConnect(c) PROVE Patience'
    <2>1. /\ calls'[c].pc = "subscribe" /\ ~calls'[c].tun
          /\ \A d \in Calls \ {c} : calls'[d].pc = "idle"
      BY <1>1, <1>3, <1>5 DEF TapConnect, NoCall
    <2>2. UNCHANGED cmd /\ delegate' # "none" /\ (delegate' = "detached" <=> delegate = "detached")
      BY <1>5 DEF TapConnect, account
    <2>3. ~lost => kernel = None /\ tunFd = None /\ (delegate # "detached" => device = None)
      BY <1>3, <1>4, <1>5 DEF TapConnect
    <2> QED
      BY <1>2, <1>3, <1>4, <2>1, <2>2, <2>3
         DEF OneCall, Dialling, Dials, TunnelIsHeld, HoldsTunnel, Closes, Serving,
             NothingStranded, Leaving
  <1>6. ASSUME NEW c \in Calls, TapDisconnect(c) PROVE Patience'
    <2>1. calls'[c].pc = "stop" /\ \A d \in Calls \ {c} : calls'[d].pc = "idle"
      BY <1>1, <1>3, <1>6 DEF TapDisconnect, NoCall
    <2>2. UNCHANGED <<cmd, delegate>>
      BY <1>6 DEF TapDisconnect, account
    <2> QED
      BY <1>2, <1>3, <1>4, <2>1, <2>2
         DEF OneCall, Dialling, Dials, TunnelIsHeld, HoldsTunnel, Closes, Serving,
             NothingStranded, Leaving
  <1>7. ASSUME NEW c \in Calls, Logout(c) PROVE Patience'
    <2>1. CASE delegate = "none"
      <3>1. kernel = None /\ UNCHANGED <<calls, delegate>>
        BY <1>7, <2>1 DEF Logout, TInv, Untold
      <3> QED
        BY <1>2, <1>3, <1>4, <3>1
           DEF OneCall, Dialling, Dials, TunnelIsHeld, HoldsTunnel, Closes, Serving,
               NothingStranded, Leaving
    <2>2. CASE delegate # "none"
      <3>1. calls'[c].pc = "stop" /\ \A d \in Calls \ {c} : calls'[d].pc = "idle"
        BY <1>1, <1>3, <1>7, <2>2 DEF Logout, NoCall
      <3>2. UNCHANGED delegate
        BY <1>7 DEF Logout
      <3> QED
        BY <1>2, <1>3, <1>4, <3>1, <3>2
           DEF OneCall, Dialling, Dials, TunnelIsHeld, HoldsTunnel, Closes, Serving,
               NothingStranded, Leaving
    <2> QED
      BY <2>1, <2>2
  <1>8. ASSUME NEW m \in {"Tun", "SystemProxy"}, SetMode(m) PROVE Patience'
    <2>1. UNCHANGED <<calls, cmd, delegate>>
      BY <1>8 DEF SetMode, account
    <2> QED
      BY <1>2, <2>1
         DEF OneCall, Dialling, Dials, TunnelIsHeld, HoldsTunnel, Closes, Serving,
             NothingStranded, Leaving
  <1> QED
    BY <1>5, <1>6, <1>7, <1>8

\* What befalls the kernel, the tunnel and the process.
LEMMA WorldIsPatient ==
    ASSUME AInv, TInv, Patience,
           Observe \/ KernelDies \/ SendAlarm \/ Revoke \/ Rotate \/ Relaunch
    PROVE  Patience'
  <1> USE DEF Patience
  <1>1. CASE Observe
    <2>1. UNCHANGED <<screen, cmd, tunFd, state, kernel, device, up, delegate, calls, alarms,
                      crossed, lost>>
      BY <1>1 DEF Observe, account, host, written
    <2> QED
      BY <2>1 DEF OneCall, Dialling, Dials, TunnelIsHeld, HoldsTunnel, Closes, Serving,
         NothingStranded, Leaving
  <1>2. CASE KernelDies
    <2>1. kernel' = None /\ state' = "Error" /\ lost'
          /\ UNCHANGED <<screen, cmd, tunFd, device, up, delegate, calls>>
      BY <1>2 DEF KernelDies, Write, account, host
    <2> QED
      BY <2>1 DEF OneCall, Dialling, Dials, TunnelIsHeld, HoldsTunnel, Closes, Serving,
         NothingStranded, Leaving
  <1>3. CASE SendAlarm
    <2>1. lost
      BY <1>3 DEF SendAlarm, NothingStranded, TInv, EventsTyped
    <2>2. UNCHANGED <<screen, cmd, tunFd, state, kernel, device, up, delegate, calls, lost>>
      BY <1>3 DEF SendAlarm, account, host
    <2> QED
      BY <2>1, <2>2 DEF OneCall, Dialling, Dials, TunnelIsHeld, HoldsTunnel, Closes, Serving,
         NothingStranded, Leaving
  <1>4. CASE Revoke \/ Rotate
    <2>1. device' \in {device, None} /\ up' \in {up, None} /\ delegate' \in {delegate, "detached"}
          /\ UNCHANGED <<screen, cmd, tunFd, state, kernel, calls, alarms, crossed, lost>>
      BY <1>4 DEF Revoke, Rotate, account, written
    <2> QED
      BY <2>1 DEF OneCall, Dialling, Dials, TunnelIsHeld, HoldsTunnel, Closes, Serving,
         NothingStranded, Leaving
  <1>5. CASE Relaunch
    <2>1. \A c \in Calls : calls'[c].pc = "idle"
      BY <1>5 DEF Relaunch, Fresh, NoCall
    <2>2. /\ state' = "Disconnected" /\ kernel' = None /\ tunFd' = None /\ device' = None
          /\ alarms' = 0 /\ crossed' = FALSE
      BY <1>5 DEF Relaunch, Fresh
    <2> QED
      BY <2>1, <2>2 DEF OneCall, Dialling, Dials, TunnelIsHeld, HoldsTunnel, Closes, Serving,
         NothingStranded, Leaving
  <1> QED
    BY <1>1, <1>2, <1>3, <1>4, <1>5

LEMMA UserIsFixed == [Next]_vars => UNCHANGED user
  BY DEF vars, Next, SessionStep, GetSession, GetBearer, DropSession, DropBearer, LoginAnswer,
     PutBearer, PutSession, DeleteBearer, DeleteSession, Login, TapConnect, TapDisconnect,
     Logout, TunnelStep, Subscribe, Establish, EstablishFails, BinderGone, WithoutTun,
     ReadTunFd, Connected, ConnectFails, Disconnected, DisconnectFails, CloseTun, Send, SetMode,
     Observe, KernelDies, SendAlarm, Revoke, Rotate, Relaunch

LEMMA PatientInitially == Init => PInv
  <1> SUFFICES ASSUME Init PROVE Patience
    BY DEF PInv
  <1>1. \A c \in Calls : calls[c].pc = "idle"
    BY DEF Init, NoCall
  <1> QED
    BY <1>1 DEF Init, Patience, OneCall, Dialling, Dials, TunnelIsHeld, HoldsTunnel, Closes,
       Serving, NothingStranded, Leaving

LEMMA PatientInductive == AInv /\ TInv /\ PInv /\ [Next]_vars => PInv'
  <1> SUFFICES ASSUME AInv, TInv, [Next]_vars, user = "patient", Patience PROVE Patience'
    BY UserIsFixed DEF PInv
  <1>1. CASE UNCHANGED vars
    BY <1>1 DEF vars, Patience, OneCall, Dialling, Dials, TunnelIsHeld, HoldsTunnel, Closes,
       Serving, NothingStranded, Leaving
  <1>2. CASE Next
    <2>1. ASSUME NEW a \in Accounts, Login(a) PROVE Patience'
      BY <2>1, SessionIsPatient DEF Login
    <2> QED
      BY <1>2, <2>1, SessionIsPatient, CallIsPatient, UserIsPatient, WorldIsPatient DEF Next
  <1> QED
    BY <1>1, <1>2

LEMMA PatientInvariant == Spec => []PInv
  BY PatientInitially, PatientInductive, AccountInvariant, TunnelInvariant, PTL DEF Spec

\* Once a patient user is signed out, no kernel runs, the manager holds no
\* descriptor and the service no notification, although the sign-out does not
\* wait for the disconnect it starts (AppViewModel.logout).  That the tunnel is
\* down is not said: close_tun does not take it down.
THEOREM SignedOutMeansOffline == Spec => []SignedOutIsOffline
  <1>1. TInv /\ PInv => SignedOutIsOffline
    BY NoCalls DEF PInv, Patience, NothingStranded, Leaving, HoldsTunnel, Closes,
       SignedOutIsOffline, AtRest
  <1> QED
    BY <1>1, TunnelInvariant, PatientInvariant, PTL

\* The service is in the foreground for a kernel only, and the kernel of a
\* connection reads the tunnel the host has up (ffi/manager.rs).
THEOREM TunnelsAreServed == Spec => []TunnelIsServed
  <1>1. PInv => TunnelIsServed
    BY NoCalls DEF PInv, Patience, NothingStranded, HoldsTunnel, Closes, Serving, TunnelIsServed,
       NotificationIsServed, KernelHasTheTunnel, AtRest
  <1> QED
    BY <1>1, PatientInvariant, PTL

-----------------------------------------------------------------------------
\* Every variable stays in its range, and nobody is at home without a session.
THEOREM TypeCorrect == Spec => []TypeOK
  <1>1. Init => user \in Users
    BY DEF Init
  <1>2. user \in Users /\ [Next]_vars => (user \in Users)'
    BY UserIsFixed
  <1>3. Spec => [](user \in Users)
    BY <1>1, <1>2, PTL DEF Spec
  <1>4. user \in Users /\ AInv /\ TInv => TypeOK
    BY TypeParts DEF AInv, TInv
  <1> QED
    BY <1>3, <1>4, AccountInvariant, TunnelInvariant, PTL
=============================================================================

----------------------------- MODULE MobileClient -----------------------------
(***************************************************************************)
(* The mobile client: the session and the tunnel behind the UniFFI surface *)
(* (core/src/ffi/client.rs, manager.rs, observer.rs), driven by the        *)
(* Android shell (AppViewModel, VpnBinder, AndroidTunDelegate,             *)
(* XboardVpnService), which is modelled as the environment of the surface. *)
(*                                                                         *)
(* The secure store keeps two keys, written one after the other; the       *)
(* process may be killed between any two steps, and a write may fail.  A   *)
(* connect asks the host for a TUN descriptor before it starts the kernel; *)
(* calls of a hasty user overlap, those of a patient one do not.  A change *)
(* of state is written first and sent to the observer in a later step, so  *)
(* that the changes of two tasks may be sent in the other order.           *)
(* KernelManager has the connect and disconnect of the core in detail:     *)
(* here each is cut at the points where the surface's own state matters,   *)
(* and a kernel that is stopped is gone at once.                           *)
(***************************************************************************)
EXTENDS Naturals, Sequences, FiniteSets

CONSTANTS
    Accounts,
    Calls,       \* connects and disconnects under way at a time
    None,
    Users,       \* the kinds of user: "patient", "hasty"
    MaxTuns,     \* bound: descriptors the host hands out, 1..MaxTuns
    MaxTaps,     \* bound: connects, disconnects, changes of mode, sign-outs
    MaxFaults,   \* bound: kernel crashes, revocations, rotations, failed writes
    MaxLaunches  \* bound: launches of the process

ASSUME MobileAssumption ==
    /\ None \notin Accounts \cup Nat
    /\ Users \subseteq {"patient", "hasty"}
    /\ MaxTuns \in Nat /\ MaxTaps \in Nat /\ MaxFaults \in Nat /\ MaxLaunches \in Nat \ {0}

VARIABLES
    user,     \* how the user behaves
    screen,   \* AuthState: "hydrating", "anonymous", "submitting", "home"
    bearer,   \* whose bearer the HTTP client sends
    session,  \* Client::session
    store,    \* the two keys of the secure store: whose value each holds
    cmd,      \* the session command under way: its name, its next step, its account
    mode,     \* KernelManager::requested_mode
    tunFd,    \* KernelManager::tun_fd
    state,    \* KernelManager::state
    kernel,   \* the descriptor in the running kernel's config, None without one
    device,   \* XboardVpnService.tunFd: what the service and its notification take to be up
    up,       \* the tunnel the host has up, by its descriptor
    delegate, \* the manager's delegate: "none" before the first connect, "attached", "detached"
    calls,    \* connects and disconnects, each with the state it has written and not sent
    alarms,   \* the errors the supervisors have written and not sent
    events,   \* state changes on their way to the observer
    shown,    \* the state the screen shows
    tuns,     \* descriptors handed out so far
    taps, faults, launches,
    failed,   \* history: the store refused an access
    lost,     \* history, of this launch: a kernel died, or its stop failed
    crossed   \* history, of this launch: a state was written before the last one was sent

account == <<screen, bearer, session, store, cmd, failed>>
host == <<device, up, tuns>>
written == <<state, alarms, crossed>>
tunnel == <<mode, tunFd, kernel, host, delegate, calls, written, events, shown, taps, lost>>
bounds == <<faults, launches>>
vars == <<user, screen, bearer, session, store, cmd, mode, tunFd, state, kernel, device, up,
          delegate, calls, alarms, events, shown, tuns, taps, faults, launches, failed, lost,
          crossed>>

NoCmd == [op |-> "none", pc |-> "idle", acct |-> None]
NoCall == [op |-> "none", pc |-> "idle", fd |-> None, tun |-> FALSE, says |-> "nothing"]

AtRest == cmd = NoCmd /\ alarms = 0 /\ \A c \in Calls : calls[c] = NoCall
UserMay == user = "patient" => AtRest /\ events = <<>>

Fresh ==
    /\ screen' = "hydrating" /\ bearer' = None /\ session' = None
    /\ cmd' = [NoCmd EXCEPT !.op = "hydrate", !.pc = "get_session"]
    /\ mode' = "Tun" /\ tunFd' = None /\ state' = "Disconnected" /\ kernel' = None
    /\ device' = None /\ up' = None /\ delegate' = "none"
    /\ calls' = [c \in Calls |-> NoCall] /\ alarms' = 0
    /\ events' = <<>> /\ shown' = "Disconnected"
    /\ lost' = FALSE /\ crossed' = FALSE

Init ==
    /\ user \in Users
    /\ screen = "hydrating" /\ bearer = None /\ session = None
    /\ store = [bearer |-> None, session |-> None]
    /\ cmd = [NoCmd EXCEPT !.op = "hydrate", !.pc = "get_session"]
    /\ mode = "Tun" /\ tunFd = None /\ state = "Disconnected" /\ kernel = None
    /\ device = None /\ up = None /\ delegate = "none"
    /\ calls = [c \in Calls |-> NoCall] /\ alarms = 0
    /\ events = <<>> /\ shown = "Disconnected"
    /\ tuns = 0 /\ taps = 0 /\ faults = 0 /\ launches = 1
    /\ failed = FALSE /\ lost = FALSE /\ crossed = FALSE

Fault == faults < MaxFaults /\ faults' = faults + 1 /\ UNCHANGED launches

-----------------------------------------------------------------------------
(* The session: ffi/client.rs.                                             *)

At(pc) == cmd.pc = pc
Then(pc) == cmd' = [cmd EXCEPT !.pc = pc]

\* An access to the store succeeds with this effect, or fails with none.
Access(effect) ==
    \/ store' = effect /\ UNCHANGED <<failed, bounds>>
    \/ Fault /\ failed' = TRUE /\ UNCHANGED store

Ends(to) == cmd' = NoCmd /\ screen' = to

\* hydrate_session: no snapshot, a corrupt one, or one of another backend
\* ends it; a read that fails is an error, and the screen is that of login.
GetSession ==
    /\ At("get_session")
    /\ \/ /\ IF store.session = None THEN Ends("anonymous")
             ELSE Then("get_bearer") /\ UNCHANGED screen
          /\ UNCHANGED <<failed, bounds>>
       \/ /\ store.session # None
          /\ Then("drop_session") /\ UNCHANGED <<screen, failed, bounds>>
       \/ Fault /\ failed' = TRUE /\ Ends("anonymous")
    /\ UNCHANGED <<user, bearer, session, store, tunnel>>

\* A snapshot that cannot be used takes the bearer with it.
DropSession ==
    /\ At("drop_session")
    /\ Access([store EXCEPT !.session = None])
    /\ Then("drop_bearer")
    /\ UNCHANGED <<user, screen, bearer, session, tunnel>>

DropBearer ==
    /\ At("drop_bearer")
    /\ Access([store EXCEPT !.bearer = None])
    /\ Ends("anonymous")
    /\ UNCHANGED <<user, bearer, session, tunnel>>

BugGetBearer == \* a snapshot without a bearer is left behind
    /\ At("get_bearer")
    /\ IF store.bearer = None THEN Ends("anonymous") /\ UNCHANGED <<bearer, session>>
       ELSE bearer' = store.bearer /\ session' = store.session /\ Ends("home")
    /\ UNCHANGED <<user, store, failed, bounds, tunnel>>

GetBearer ==
    /\ At("get_bearer")
    /\ \/ /\ store.bearer = None
          /\ Access([store EXCEPT !.session = None])
          /\ Ends("anonymous") /\ UNCHANGED <<bearer, session>>
       \/ /\ store.bearer # None
          /\ bearer' = store.bearer /\ session' = store.session
          /\ Ends("home") /\ UNCHANGED <<store, failed, bounds>>
       \/ /\ Fault /\ failed' = TRUE
          /\ Ends("anonymous") /\ UNCHANGED <<bearer, session, store>>
    /\ UNCHANGED <<user, tunnel>>

Login(a) ==
    /\ UserMay /\ screen = "anonymous" /\ cmd = NoCmd
    /\ screen' = "submitting"
    /\ cmd' = [op |-> "login", pc |-> "post", acct |-> a]
    /\ UNCHANGED <<user, bearer, session, store, failed, bounds, tunnel>>

\* The server refuses, or persist_session begins: memory first.
LoginAnswer ==
    /\ At("post")
    /\ \/ Ends("anonymous") /\ UNCHANGED <<bearer, session>>
       \/ /\ bearer' = cmd.acct /\ session' = cmd.acct
          /\ Then("put_bearer") /\ UNCHANGED screen
    /\ UNCHANGED <<user, store, failed, bounds, tunnel>>

\* A write that fails is logged.
PutBearer ==
    /\ At("put_bearer")
    /\ Access([store EXCEPT !.bearer = cmd.acct])
    /\ Then("put_session")
    /\ UNCHANGED <<user, screen, bearer, session, tunnel>>

PutSession ==
    /\ At("put_session")
    /\ Access([store EXCEPT !.session = cmd.acct])
    /\ Ends("home")
    /\ UNCHANGED <<user, bearer, session, tunnel>>

\* logout, after memory was cleared: best-effort deletes.
DeleteBearer ==
    /\ At("delete_bearer")
    /\ Access([store EXCEPT !.bearer = None])
    /\ Then("delete_session")
    /\ UNCHANGED <<user, screen, bearer, session, tunnel>>

DeleteSession ==
    /\ At("delete_session")
    /\ Access([store EXCEPT !.session = None])
    /\ Ends("anonymous")
    /\ UNCHANGED <<user, bearer, session, tunnel>>

-----------------------------------------------------------------------------
(* The tunnel: ffi/manager.rs.                                             *)

Call(c, pc) == calls' = [calls EXCEPT ![c].pc = pc]
Over(c) == calls' = [calls EXCEPT ![c] = NoCall]

\* A call is at a step once it has sent what it wrote before.
Is(c, pc) == calls[c].pc = pc /\ calls[c].says = "nothing"

\* publish, its first half: the state, under its lock.
Write(s) ==
    /\ state' = s
    /\ crossed' = (crossed \/ alarms > 0 \/ \E c \in Calls : calls[c].says # "nothing")

\* A call writes a state, and goes on once it has sent it.
Publish(c, s, pc) ==
    /\ Write(s) /\ calls' = [calls EXCEPT ![c].says = s, ![c].pc = pc]
    /\ UNCHANGED <<alarms, events>>

\* Its second half, without the lock: the channel of the listeners.
Send(c) ==
    /\ calls[c].says # "nothing"
    /\ events' = Append(events, calls[c].says)
    /\ calls' = [calls EXCEPT ![c] =
                   IF @.pc = "return" THEN NoCall ELSE [@ EXCEPT !.says = "nothing"]]
    /\ UNCHANGED <<user, account, bounds, mode, tunFd, kernel, host, delegate, written, shown,
                   taps, lost>>

\* The button: connect unless the screen shows Connected, nothing while it
\* shows Connecting.  The first connect makes the manager, with its observer,
\* on the delegate of that moment; later ones keep it.
TapConnect(c) ==
    /\ UserMay /\ screen = "home" /\ calls[c] = NoCall /\ taps < MaxTaps
    /\ shown \notin {"Connecting", "Connected"}
    /\ delegate' = IF delegate = "none" THEN "attached" ELSE delegate
    /\ calls' = [calls EXCEPT ![c] = [NoCall EXCEPT !.op = "connect", !.pc = "subscribe"]]
    /\ taps' = taps + 1
    /\ UNCHANGED <<user, account, bounds, mode, tunFd, kernel, host, written, events, shown, lost>>

\* user_subscribe: an error ends the call; without a bearer it always does.
Subscribe(c) ==
    /\ Is(c, "subscribe")
    /\ Over(c) \/ (bearer # None /\ Call(c, "establish"))
    /\ UNCHANGED <<user, account, bounds, mode, tunFd, kernel, host, delegate, written, events,
                   shown, taps, lost>>

\* establish_tun and set_tun_fd, then the core's connect begins.  The service
\* drops a descriptor it already has, and the new tunnel takes the place of
\* the one that was up.
Establish(c) ==
    /\ Is(c, "establish") /\ mode = "Tun"
    /\ delegate = "attached" /\ tuns < MaxTuns
    /\ tuns' = tuns + 1 /\ device' = tuns' /\ up' = tuns' /\ tunFd' = tuns'
    /\ Write("Connecting")
    /\ calls' = [calls EXCEPT ![c].says = "Connecting", ![c].pc = "fetch", ![c].tun = TRUE]
    /\ UNCHANGED <<user, account, bounds, mode, kernel, delegate, alarms, events, shown, taps, lost>>

\* The host gives none: the service has dropped the descriptor it had before
\* it asks for another.
EstablishFails(c) ==
    /\ Is(c, "establish") /\ mode = "Tun" /\ delegate = "attached"
    /\ Over(c) /\ device' = None
    /\ UNCHANGED <<user, account, bounds, mode, tunFd, kernel, up, tuns, delegate, written,
                   events, shown, taps, lost>>

\* A detached delegate reaches no service.
BinderGone(c) ==
    /\ Is(c, "establish") /\ mode = "Tun" /\ delegate = "detached"
    /\ Over(c)
    /\ UNCHANGED <<user, account, bounds, mode, tunFd, kernel, host, delegate, written, events,
                   shown, taps, lost>>

WithoutTun(c) ==
    /\ Is(c, "establish") /\ mode # "Tun"
    /\ Publish(c, "Connecting", "fetch")
    /\ UNCHANGED <<user, account, bounds, mode, tunFd, kernel, host, delegate, shown, taps, lost>>

\* KernelManager::connect reads the descriptor once the profile is there.
ReadTunFd(c) ==
    /\ Is(c, "fetch")
    /\ calls' = [calls EXCEPT ![c].pc = "spawn", ![c].fd = tunFd]
    /\ UNCHANGED <<user, account, bounds, mode, tunFd, kernel, host, delegate, written, events,
                   shown, taps, lost>>

\* The kernel runs.  In SystemProxy mode, for which mobile has no setter, and
\* without a descriptor, for the sandbox has no device, it does not.
Connected(c) ==
    /\ Is(c, "spawn") /\ calls[c].tun /\ calls[c].fd # None
    /\ kernel' = calls[c].fd
    /\ Publish(c, "Connected", "return")
    /\ UNCHANGED <<user, account, bounds, mode, tunFd, host, delegate, shown, taps, lost>>

BugConnectFails(c) == \* no rollback
    /\ Is(c, "fetch") \/ Is(c, "spawn")
    /\ kernel' = None
    /\ Publish(c, "Error", "return")
    /\ UNCHANGED <<user, account, bounds, mode, tunFd, host, delegate, shown, taps, lost>>

\* Any error of the core's connect takes the kernel of its handle with it, and
\* is to be rolled back.
ConnectFails(c) ==
    /\ Is(c, "fetch") \/ Is(c, "spawn")
    /\ kernel' = None
    /\ Publish(c, "Error", "close")
    /\ UNCHANGED <<user, account, bounds, mode, tunFd, host, delegate, shown, taps, lost>>

TapDisconnect(c) ==
    /\ UserMay /\ screen = "home" /\ calls[c] = NoCall /\ shown = "Connected"
    /\ taps < MaxTaps /\ taps' = taps + 1
    /\ calls' = [calls EXCEPT ![c] = [NoCall EXCEPT !.op = "disconnect", !.pc = "stop"]]
    /\ UNCHANGED <<user, account, bounds, mode, tunFd, kernel, host, delegate, written, events,
                   shown, lost>>

\* The core's disconnect, after which the tunnel is to be closed.
Disconnected(c) ==
    /\ Is(c, "stop")
    /\ kernel' = None
    /\ Publish(c, "Disconnected", "close")
    /\ UNCHANGED <<user, account, bounds, mode, tunFd, host, delegate, shown, taps, lost>>

\* A stop that fails leaves the tunnel as it is.
DisconnectFails(c) ==
    /\ Is(c, "stop") /\ kernel # None
    /\ Publish(c, "Error", "return") /\ lost' = TRUE
    /\ UNCHANGED <<user, account, bounds, mode, tunFd, kernel, host, delegate, shown, taps>>

\* close_tun and set_tun_fd(None).  Only an attached delegate reaches the
\* service, which forgets its descriptor and gives up the foreground: its close
\* does nothing, for establish_tun had detached the descriptor, and the manager
\* only forgets the number.  The tunnel stays up.
CloseTun(c) ==
    /\ Is(c, "close")
    /\ device' = IF delegate = "attached" THEN None ELSE device
    /\ tunFd' = None /\ Over(c)
    /\ UNCHANGED <<user, account, bounds, mode, kernel, up, tuns, delegate, written, events,
                   shown, taps, lost>>

BugLogout(c) == \* the tunnel stays
    /\ UserMay /\ screen = "home" /\ cmd = NoCmd /\ taps < MaxTaps
    /\ bearer' = None /\ session' = None
    /\ cmd' = [NoCmd EXCEPT !.op = "logout", !.pc = "delete_bearer"]
    /\ taps' = taps + 1
    /\ UNCHANGED <<user, screen, store, failed, bounds, mode, tunFd, kernel, host, delegate,
                   calls, written, events, shown, lost>>

\* AppViewModel.logout: a disconnect is under way, and not awaited, when the
\* client forgets its session.
Logout(c) ==
    /\ UserMay /\ screen = "home" /\ cmd = NoCmd /\ taps < MaxTaps
    /\ bearer' = None /\ session' = None
    /\ cmd' = [NoCmd EXCEPT !.op = "logout", !.pc = "delete_bearer"]
    /\ taps' = taps + 1
    /\ IF delegate = "none" THEN UNCHANGED calls
       ELSE /\ calls[c] = NoCall
            /\ calls' = [calls EXCEPT ![c] = [NoCall EXCEPT !.op = "disconnect", !.pc = "stop"]]
    /\ UNCHANGED <<user, screen, store, failed, bounds, mode, tunFd, kernel, host, delegate,
                   written, events, shown, lost>>

SetMode(m) ==
    /\ UserMay /\ screen = "home" /\ delegate # "none" /\ m # mode
    /\ taps < MaxTaps /\ taps' = taps + 1
    /\ mode' = m
    /\ UNCHANGED <<user, account, bounds, tunFd, kernel, host, delegate, calls, written, events,
                   shown, lost>>

BugObserve == \* only the first of the pending changes is shown
    /\ events # <<>>
    /\ shown' = Head(events) /\ events' = <<>>
    /\ UNCHANGED <<user, account, bounds, mode, tunFd, kernel, host, delegate, calls, written,
                   taps, lost>>

\* The fanout task hands the next change to the observer.
Observe ==
    /\ events # <<>>
    /\ shown' = Head(events) /\ events' = Tail(events)
    /\ UNCHANGED <<user, account, bounds, mode, tunFd, kernel, host, delegate, calls, written,
                   taps, lost>>

\* The supervisor notices that the kernel died; nothing tells the host.
KernelDies ==
    /\ Fault /\ kernel # None
    /\ kernel' = None /\ lost' = TRUE
    /\ Write("Error") /\ alarms' = alarms + 1
    /\ UNCHANGED <<user, account, mode, tunFd, host, delegate, calls, events, shown, taps>>

\* A supervisor sends what it wrote.
SendAlarm ==
    /\ alarms > 0 /\ alarms' = alarms - 1
    /\ events' = Append(events, "Error")
    /\ UNCHANGED <<user, account, bounds, mode, tunFd, kernel, host, delegate, calls, state,
                   crossed, shown, taps, lost>>

\* The user or another VPN takes the permission away, and the tunnel with it.
Revoke ==
    /\ Fault /\ up # None
    /\ up' = None /\ device' = None
    /\ UNCHANGED <<user, account, mode, tunFd, kernel, tuns, delegate, calls, written, events,
                   shown, taps, lost>>

\* The activity is made anew: its binder detaches the delegate, which the
\* manager keeps; the service may end, and the host may take its tunnel down.
Rotate ==
    /\ Fault /\ delegate = "attached"
    /\ delegate' = "detached"
    /\ \/ UNCHANGED <<device, up>>
       \/ device' = None /\ up' \in {up, None}
    /\ UNCHANGED <<user, account, mode, tunFd, kernel, tuns, calls, written, events, shown,
                   taps, lost>>

\* The process is killed, and its descriptors with it; the user opens the app
\* again.
Relaunch ==
    /\ launches < MaxLaunches /\ launches' = launches + 1
    /\ Fresh
    /\ UNCHANGED <<user, store, failed, faults, tuns, taps>>

SessionStep ==
    \/ GetSession \/ GetBearer \/ DropSession \/ DropBearer \/ LoginAnswer
    \/ PutBearer \/ PutSession \/ DeleteBearer \/ DeleteSession

TunnelStep(c) ==
    \/ Subscribe(c) \/ Establish(c) \/ EstablishFails(c) \/ BinderGone(c) \/ WithoutTun(c)
    \/ ReadTunFd(c) \/ Connected(c) \/ ConnectFails(c) \/ Disconnected(c) \/ DisconnectFails(c)
    \/ CloseTun(c) \/ Send(c)

Next ==
    \/ SessionStep
    \/ \E a \in Accounts : Login(a)
    \/ \E c \in Calls : TapConnect(c) \/ TapDisconnect(c) \/ Logout(c) \/ TunnelStep(c)
    \/ \E m \in {"Tun", "SystemProxy"} : SetMode(m)
    \/ Observe \/ KernelDies \/ SendAlarm \/ Revoke \/ Rotate \/ Relaunch

Spec == Init /\ [][Next]_vars

-----------------------------------------------------------------------------
(* Properties.                                                             *)

Holders == Accounts \cup {None}
Descriptors == 1..MaxTuns \cup {None}
States == {"Disconnected", "Connecting", "Connected", "Error"}
Commands ==
    [op : {"none", "hydrate", "login", "logout"}, acct : Holders,
     pc : {"idle", "get_session", "get_bearer", "drop_session", "drop_bearer", "post",
           "put_bearer", "put_session", "delete_bearer", "delete_session"}]
CallStates ==
    [op : {"none", "connect", "disconnect"}, fd : Descriptors, tun : BOOLEAN,
     pc : {"idle", "subscribe", "establish", "fetch", "spawn", "stop", "close", "return"},
     says : States \cup {"nothing"}]

\* Every variable is in its range, and nobody is at home without a session.
TypeOK ==
    /\ user \in Users
    /\ screen \in {"hydrating", "anonymous", "submitting", "home"}
    /\ bearer \in Holders /\ session \in Holders
    /\ store \in [bearer : Holders, session : Holders]
    /\ cmd \in Commands /\ calls \in [Calls -> CallStates]
    /\ mode \in {"Tun", "SystemProxy"}
    /\ {tunFd, kernel, device, up} \subseteq Descriptors
    /\ delegate \in {"none", "attached", "detached"}
    /\ state \in States /\ shown \in States /\ events \in Seq(States)
    /\ alarms \in Nat /\ crossed \in BOOLEAN
    /\ tuns \in 0..MaxTuns /\ taps \in 0..MaxTaps /\ faults \in 0..MaxFaults
    /\ launches \in 1..MaxLaunches /\ failed \in BOOLEAN /\ lost \in BOOLEAN
    /\ cmd = NoCmd /\ screen = "home" => session # None

\* As long as no access to the secure store has failed, the snapshot and the
\* bearer it holds are of one account, and so are those in memory: whenever the
\* process is killed, no launch shows one account and sends the other's bearer
\* ("written atomically on login / register").
OneAccount ==
    ~failed =>
        /\ session # None => bearer = session
        /\ None \notin {store.bearer, store.session} => store.bearer = store.session

\* Likewise, who is signed out stays signed out: the next launch finds no
\* session it would restore.
SignedOutIsForgotten ==
    ~failed /\ screen = "anonymous" /\ cmd = NoCmd => None \in {store.bearer, store.session}

\* One account is signed in, here and after the next launch, or none is.  After
\* a failed access nothing is said: a delete that failed and the bearer of the
\* next login do mix two accounts.
AccountsAgree == OneAccount /\ SignedOutIsForgotten

\* Once a patient user is signed out, no kernel runs, the manager holds no
\* descriptor and the service no notification, unless a kernel could not be
\* stopped.  The tunnel itself is not said to be down: see NoStrandedTunnel.
SignedOutIsOffline ==
    /\ user = "patient" /\ AtRest /\ ~lost /\ screen = "anonymous"
    => kernel = None /\ tunFd = None /\ (delegate = "attached" => device = None)

\* The service stays in the foreground for a kernel only: whatever a connect
\* or a disconnect came to, its "we have a tunnel" flag is down without one.
NotificationIsServed ==
    /\ user = "patient" /\ AtRest /\ ~lost /\ delegate = "attached" /\ device # None
    => kernel # None

\* While the core says Connected, the kernel reads the tunnel the host has up,
\* not one of an earlier connect.
KernelHasTheTunnel ==
    user = "patient" /\ AtRest /\ state = "Connected" /\ up # None => kernel = up

\* The tunnel, the service and the kernel go together.
TunnelIsServed == NotificationIsServed /\ KernelHasTheTunnel

\* What the roll-back and close_tun are for: no tunnel is up without a kernel
\* behind it ("so we don't strand an established VpnService").
NoStrandedTunnel ==
    /\ user = "patient" /\ AtRest /\ ~lost /\ delegate = "attached" /\ up # None
    => kernel # None

\* Nobody has written a state that is still to be sent.
AllSent == alarms = 0 /\ \A c \in Calls : calls[c].says = "nothing"

\* Once the observer was told of every change, the screen shows the state the
\* core is in, however calls overlap, as long as no two changes of this launch
\* crossed between the write and the send of publish.
ScreenCatchesUp ==
    delegate # "none" /\ ~crossed /\ AllSent /\ events = <<>> => shown = state
=============================================================================

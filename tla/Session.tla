-------------------------------- MODULE Session --------------------------------
(***************************************************************************)
(* Who is signed in: the session of the desktop client in its five places  *)
(* -- the front end's auth store (stores/auth.ts), the bearer of the HTTP  *)
(* client, AppState::auth, the keychain and the preferences -- and the     *)
(* commands that move it (commands/session.rs, commands/auth.rs), driven   *)
(* by the router's guard and by the login, register, forgotten-password    *)
(* and home pages.                                                         *)
(*                                                                         *)
(* A command runs on a thread of its own: each access to shared state is a *)
(* step.  A callback of the front end is one step.  The process may be     *)
(* killed between any two steps; writes to the keychain and to the file    *)
(* may fail.  An account stands for an email, a token for a bearer; whose  *)
(* it is, is all that is told of it.                                       *)
(***************************************************************************)
EXTENDS Naturals, FiniteSets

CONSTANTS
    Accounts,
    Cmds,       \* commands under way at a time
    None,
    Users,      \* the kinds of user: "careful", "hasty"
    MaxSignins, \* bound: bearers the server issues
    MaxLaunches \* bound: launches of the process

ASSUME SessionAssumption ==
    /\ None \notin Accounts \cup Cmds \cup [acct : Accounts, recent : BOOLEAN]
                      \cup [acct : Accounts, id : 1..MaxSignins]
    /\ Users \subseteq {"careful", "hasty"}
    /\ IsFiniteSet(Cmds) /\ Cmds # {}
    /\ MaxSignins \in Nat /\ MaxLaunches \in Nat \ {0}

VARIABLES
    session,  \* stores/auth.ts: the account shown as signed in
    bearer,   \* HttpClient: the token sent with a request
    auth,     \* AppState::auth
    keychain, \* the bearer kept for each account
    prefs,    \* the snapshot in the preferences store
    disk,     \* and in its file
    issued,   \* number of bearers the server has issued
    valid,    \* those it still honours
    page,     \* the page shown; "boot" until the first one is
    going,    \* the check that the guard of a navigation to /login awaits
    form,     \* the request the page's button waits for
    cmds,     \* the commands under way
    expired,  \* session-expired events on their way to the front end
    launches, \* launches so far
    user,     \* how the user behaves
    failed,   \* history: a store refused a write
    out       \* history: accounts whose stored session was dropped, and not put since

memory == <<session, bearer, auth>>
stores == <<keychain, prefs, disk, failed, out>>
server == <<issued, valid>>
front == <<page, going, form>>
fixed == <<launches, user>>
vars == <<session, bearer, auth, keychain, prefs, disk, issued, valid, page, going,
          form, cmds, expired, launches, user, failed, out>>

Tokens == [acct : Accounts, id : 1..MaxSignins]
Pages == {"boot", "login", "register", "forget", "home"}

\* last_check_login_at counts only by being less than 24 hours old.
Snapshot(a, recent) == [acct |-> a, recent |-> recent]

NoCmd == [op |-> "none", pc |-> "idle", acct |-> None, token |-> None, ok |-> FALSE]
Cmd(op, pc) == [NoCmd EXCEPT !.op = op, !.pc = pc]

\* A request carries the bearer of the moment it is sent.
Request(op) == [Cmd(op, "sent") EXCEPT !.token = bearer]

At(c, op, pc) == cmds[c].op = op /\ cmds[c].pc = pc
Advance(c, pc) == cmds' = [cmds EXCEPT ![c].pc = pc]
Answer(c, ok) == cmds' = [cmds EXCEPT ![c].pc = "answered", ![c].ok = ok]
End(c) == cmds' = [cmds EXCEPT ![c] = NoCmd]

Calm == (\A c \in Cmds : cmds[c].pc = "idle") /\ expired = 0

Init ==
    /\ session = None /\ bearer = None /\ auth = None
    /\ keychain = [a \in Accounts |-> None] /\ prefs = None /\ disk = None
    /\ issued = 0 /\ valid = {}
    /\ page = "boot" /\ going = None /\ form = None
    /\ cmds = [c \in Cmds |-> NoCmd]
    /\ expired = 0 /\ launches = 1 /\ user \in Users
    /\ failed = FALSE /\ out = {}

-----------------------------------------------------------------------------
(* The preferences store: a write always reaches the memory; saving the    *)
(* file may fail.                                                          *)

Write(snap, ok) ==
    /\ prefs' = snap
    /\ disk' = IF ok THEN snap ELSE disk

-----------------------------------------------------------------------------
(* Navigation.  The guard waits for the bootstrap; a page that needs a     *)
(* session leads to /login, one that must not have one leads home; and     *)
(* before /login is shown, check_login runs to its end.                    *)

GoTo(to, c, who) ==
    IF who # None
    THEN /\ page' = "home" /\ going' = None /\ form' = None
         /\ cmds' = [cmds EXCEPT ![c] = Request("refresh")]
    ELSE IF to \in {"register", "forget"}
    THEN page' = to /\ going' = None /\ form' = None /\ End(c)
    ELSE /\ going' = c /\ cmds' = [cmds EXCEPT ![c] = Request("check")]
         /\ UNCHANGED <<page, form>>

\* A careful user waits for what is under way.
UserMay(c) == cmds[c].pc = "idle" /\ (user = "careful" => Calm)

Links == {<<"login", "register">>, <<"login", "forget">>, <<"register", "login">>, <<"forget", "login">>}

Navigate(c, to) ==
    /\ UserMay(c) /\ <<page, to>> \in Links
    /\ GoTo(to, c, session)
    /\ UNCHANGED <<memory, stores, server, expired, fixed>>

-----------------------------------------------------------------------------
(* Bootstrap.  Nothing else runs before it ends: the guard waits for it.   *)

BugHydrate(c) == \* does not look into the keychain
    /\ page = "boot" /\ cmds[c].pc = "idle" /\ Calm
    /\ IF prefs # None
       THEN /\ bearer' = keychain[prefs.acct]
            /\ auth' = prefs.acct /\ session' = prefs.acct
            /\ cmds' = [cmds EXCEPT ![c] = [Request("check") EXCEPT !.token = bearer']]
            /\ UNCHANGED <<stores, front>>
       ELSE GoTo("home", c, None) /\ UNCHANGED <<memory, stores>>
    /\ UNCHANGED <<server, expired, fixed>>

\* hydrate_session: seats the session in the preferences if the keychain
\* has its bearer, and otherwise discards it.
Hydrate(c) ==
    /\ page = "boot" /\ Calm
    /\ \/ /\ prefs # None /\ keychain[prefs.acct] # None
          /\ bearer' = keychain[prefs.acct]
          /\ auth' = prefs.acct /\ session' = prefs.acct
          /\ cmds' = [cmds EXCEPT ![c] = [Request("check") EXCEPT !.token = bearer']]
          /\ UNCHANGED <<stores, front>>
       \/ /\ prefs # None \* no entry, or the keychain is locked
          /\ \E ok \in BOOLEAN : Write(None, ok) /\ failed' = (failed \/ ~ok)
          /\ GoTo("home", c, None)
          /\ UNCHANGED <<memory, keychain, out>>
       \/ prefs = None /\ GoTo("home", c, None) /\ UNCHANGED <<memory, stores>>
    /\ UNCHANGED <<server, expired, fixed>>

-----------------------------------------------------------------------------
(* login and register.                                                     *)

Submit(c, a) ==
    /\ UserMay(c) /\ page \in {"login", "register"} /\ form = None
    /\ cmds' = [cmds EXCEPT ![c] = [Cmd("signin", "sent") EXCEPT !.acct = a]]
    /\ form' = c
    /\ UNCHANGED <<memory, stores, server, page, going, expired, fixed>>

SigninGranted(c) ==
    /\ At(c, "signin", "sent") /\ issued < MaxSignins
    /\ issued' = issued + 1
    /\ LET t == [acct |-> cmds[c].acct, id |-> issued']
       IN  valid' = valid \cup {t} /\ cmds' = [cmds EXCEPT ![c].pc = "bearer", ![c].token = t]
    /\ UNCHANGED <<memory, stores, front, expired, fixed>>

SigninRefused(c) ==
    /\ At(c, "signin", "sent") /\ Answer(c, FALSE)
    /\ UNCHANGED <<memory, stores, server, front, expired, fixed>>

SetBearer(c) ==
    /\ At(c, "signin", "bearer") /\ Advance(c, "auth")
    /\ bearer' = cmds[c].token
    /\ UNCHANGED <<session, auth, stores, server, front, expired, fixed>>

BugSetAuth(c) == \* seats the bearer alone
    /\ At(c, "signin", "auth") /\ Advance(c, "put")
    /\ UNCHANGED <<memory, stores, server, front, expired, fixed>>

SetAuth(c) ==
    /\ At(c, "signin", "auth") /\ Advance(c, "put")
    /\ auth' = cmds[c].acct
    /\ UNCHANGED <<session, bearer, stores, server, front, expired, fixed>>

\* store_session_after_auth: a keychain that fails is tolerated,
PutBearer(c) ==
    /\ At(c, "signin", "put") /\ Advance(c, "save")
    /\ \/ keychain' = [keychain EXCEPT ![cmds[c].acct] = cmds[c].token] /\ UNCHANGED failed
       \/ failed' = TRUE /\ UNCHANGED keychain
    /\ out' = out \ {cmds[c].acct}
    /\ UNCHANGED <<memory, prefs, disk, server, front, expired, fixed>>

\* and a file that cannot be saved fails the command, with all else done.
SaveSession(c) ==
    /\ At(c, "signin", "save")
    /\ \E ok \in BOOLEAN : /\ Write(Snapshot(cmds[c].acct, TRUE), ok)
                           /\ Answer(c, ok) /\ failed' = (failed \/ ~ok)
    /\ UNCHANGED <<memory, keychain, out, server, front, expired, fixed>>

SigninAnswered(c) ==
    /\ At(c, "signin", "answered")
    /\ IF cmds[c].ok
       THEN session' = cmds[c].acct /\ GoTo("home", c, session')
       ELSE /\ End(c) /\ form' = IF form = c THEN None ELSE form
            /\ UNCHANGED <<session, page, going>>
    /\ UNCHANGED <<bearer, auth, stores, server, expired, fixed>>

-----------------------------------------------------------------------------
(* check_login.                                                            *)

CheckConfirmed(c) ==
    /\ At(c, "check", "sent") /\ cmds[c].token \in valid
    /\ cmds' = [cmds EXCEPT ![c].pc = IF prefs = None THEN "answered" ELSE "touch",
                            ![c].acct = IF prefs = None THEN None ELSE prefs.acct,
                            ![c].ok = TRUE]
    /\ UNCHANGED <<memory, stores, server, front, expired, fixed>>

\* The snapshot read before is written back with the time of the check.
Touch(c) ==
    /\ At(c, "check", "touch") /\ Advance(c, "answered")
    /\ \E ok \in BOOLEAN : Write(Snapshot(cmds[c].acct, TRUE), ok) /\ failed' = (failed \/ ~ok)
    /\ UNCHANGED <<memory, keychain, out, server, front, expired, fixed>>

CheckRefused(c) ==
    /\ At(c, "check", "sent") /\ cmds[c].token \notin valid
    /\ Advance(c, "clear")
    /\ UNCHANGED <<memory, stores, server, front, expired, fixed>>

\* The server cannot be reached: a recent confirmation stands.
CheckUnanswered(c) ==
    /\ At(c, "check", "sent")
    /\ IF prefs # None /\ prefs.recent THEN Answer(c, TRUE) ELSE Advance(c, "clear")
    /\ UNCHANGED <<memory, stores, server, front, expired, fixed>>

BugCheckAnswered(c) == \* a guard whose check fails never resumes
    /\ At(c, "check", "answered")
    /\ IF going # c /\ page = "boot"
       THEN /\ session' = IF cmds[c].ok THEN session ELSE None
            /\ GoTo("home", c, session')
       ELSE /\ UNCHANGED session /\ End(c)
            /\ IF going = c /\ cmds[c].ok THEN page' = "login" /\ going' = None /\ form' = None
               ELSE UNCHANGED front
    /\ UNCHANGED <<bearer, auth, stores, server, expired, fixed>>

\* By the bootstrap, or by the guard of a navigation not given up since.
CheckAnswered(c) ==
    /\ At(c, "check", "answered")
    /\ IF going # c /\ page = "boot"
       THEN /\ session' = IF cmds[c].ok THEN session ELSE None
            /\ GoTo("home", c, session')
       ELSE /\ UNCHANGED session /\ End(c)
            /\ IF going = c THEN page' = "login" /\ going' = None /\ form' = None
               ELSE UNCHANGED front
    /\ UNCHANGED <<bearer, auth, stores, server, expired, fixed>>

-----------------------------------------------------------------------------
(* clear_session: of a check that failed and of logout.                    *)

ClearBearer(c) ==
    /\ cmds[c].pc = "clear"
    /\ bearer' = None
    /\ cmds' = [cmds EXCEPT ![c].pc = "delete", ![c].acct = auth]
    /\ UNCHANGED <<session, auth, stores, server, front, expired, fixed>>

\* The entry is that of the account that was signed in, if any.
DeleteBearer(c) ==
    /\ cmds[c].pc = "delete" /\ Advance(c, "forget")
    /\ IF cmds[c].acct = None THEN UNCHANGED <<keychain, failed, out>>
       ELSE \/ /\ keychain' = [keychain EXCEPT ![cmds[c].acct] = None]
               /\ out' = out \cup {cmds[c].acct} /\ UNCHANGED failed
            \/ failed' = TRUE /\ UNCHANGED <<keychain, out>>
    /\ UNCHANGED <<memory, prefs, disk, server, front, expired, fixed>>

ForgetAuth(c) ==
    /\ cmds[c].pc = "forget" /\ Advance(c, "wipe")
    /\ auth' = None
    /\ UNCHANGED <<session, bearer, stores, server, front, expired, fixed>>

BugClearSnapshot(c) == \* leaves the snapshot in place
    /\ cmds[c].pc = "wipe" /\ expired < Cardinality(Cmds)
    /\ expired' = expired + 1
    /\ Answer(c, FALSE)
    /\ UNCHANGED <<memory, stores, server, front, fixed>>

ClearSnapshot(c) ==
    /\ cmds[c].pc = "wipe" /\ expired < Cardinality(Cmds)
    /\ \E ok \in BOOLEAN : /\ Write(None, ok)
                           /\ failed' = (failed \/ ~ok)
                           /\ out' = IF ok THEN Accounts ELSE out
    /\ expired' = expired + 1
    /\ Answer(c, FALSE)
    /\ UNCHANGED <<memory, keychain, server, front, fixed>>

\* The listener of stores/auth.ts.
SessionExpired ==
    /\ expired > 0 /\ expired' = expired - 1
    /\ session' = None
    /\ UNCHANGED <<bearer, auth, stores, server, front, cmds, fixed>>

Logout(c) ==
    /\ UserMay(c) /\ page = "home"
    /\ cmds' = [cmds EXCEPT ![c] = Cmd("logout", "clear")]
    /\ UNCHANGED <<memory, stores, server, front, expired, fixed>>

LogoutAnswered(c) ==
    /\ At(c, "logout", "answered")
    /\ session' = None /\ GoTo("login", c, None)
    /\ UNCHANGED <<bearer, auth, stores, server, expired, fixed>>

\* A forgotten password: the request, then a logout.
SubmitForget(c) ==
    /\ UserMay(c) /\ page = "forget" /\ form = None
    /\ cmds' = [cmds EXCEPT ![c] = Cmd("forget", "sent")] /\ form' = c
    /\ UNCHANGED <<memory, stores, server, page, going, expired, fixed>>

ForgetAnswered(c) ==
    /\ At(c, "forget", "sent")
    /\ \/ cmds' = [cmds EXCEPT ![c] = Cmd("logout", "clear")] /\ UNCHANGED form
       \/ End(c) /\ form' = IF form = c THEN None ELSE form
    /\ UNCHANGED <<memory, stores, server, page, going, expired, fixed>>

\* Home's refresh logs out only when the server refused the bearer.
Refresh(c) ==
    /\ UserMay(c) /\ page = "home"
    /\ cmds' = [cmds EXCEPT ![c] = Request("refresh")]
    /\ UNCHANGED <<memory, stores, server, front, expired, fixed>>

RefreshAnswered(c) ==
    /\ At(c, "refresh", "sent")
    /\ \/ End(c)
       \/ /\ cmds[c].token \notin valid
          /\ cmds' = [cmds EXCEPT ![c] = Cmd("logout", "clear")]
    /\ UNCHANGED <<memory, stores, server, front, expired, fixed>>

-----------------------------------------------------------------------------
(* The environment.                                                        *)

Revoke(t) ==
    /\ t \in valid /\ valid' = valid \ {t}
    /\ UNCHANGED <<memory, stores, issued, front, cmds, expired, fixed>>

Aged(snap) == IF snap = None THEN None ELSE [snap EXCEPT !.recent = FALSE]

\* A day passes without a confirmation.
Age ==
    /\ prefs' = Aged(prefs) /\ disk' = Aged(disk)
    /\ UNCHANGED <<memory, keychain, failed, out, server, front, cmds, expired, fixed>>

\* The process is killed, at any moment, and launched again.
Relaunch ==
    /\ launches < MaxLaunches /\ launches' = launches + 1
    /\ session' = None /\ bearer' = None /\ auth' = None
    /\ prefs' = disk
    /\ page' = "boot" /\ going' = None /\ form' = None
    /\ cmds' = [c \in Cmds |-> NoCmd] /\ expired' = 0
    /\ UNCHANGED <<keychain, disk, failed, out, server, user>>

Backend(c) ==
    \/ SigninGranted(c) \/ SigninRefused(c) \/ SetBearer(c) \/ SetAuth(c)
    \/ PutBearer(c) \/ SaveSession(c)
    \/ CheckConfirmed(c) \/ Touch(c) \/ CheckRefused(c) \/ CheckUnanswered(c)
    \/ ClearBearer(c) \/ DeleteBearer(c) \/ ForgetAuth(c) \/ ClearSnapshot(c)
    \/ ForgetAnswered(c) \/ RefreshAnswered(c)

FrontEnd(c) == SigninAnswered(c) \/ CheckAnswered(c) \/ LogoutAnswered(c)

Next ==
    \/ \E c \in Cmds :
          \/ Backend(c) \/ FrontEnd(c) \/ Hydrate(c)
          \/ Logout(c) \/ SubmitForget(c) \/ Refresh(c)
          \/ \E a \in Accounts : Submit(c, a)
          \/ \E to \in Pages : Navigate(c, to)
    \/ SessionExpired \/ Relaunch \/ Age
    \/ \E t \in Tokens : Revoke(t)

Spec == Init /\ [][Next]_vars

\* Requests time out after 20 seconds; threads run; callbacks are delivered.
Fairness ==
    /\ \A c \in Cmds : WF_vars(Backend(c)) /\ WF_vars(FrontEnd(c))
    /\ WF_vars(\E c \in Cmds : Hydrate(c))
    /\ WF_vars(SessionExpired)

FairSpec == Spec /\ Fairness

-----------------------------------------------------------------------------
(* Properties.                                                             *)

CmdTypes == [op : {"none", "signin", "check", "logout", "forget", "refresh"},
             pc : {"idle", "sent", "bearer", "auth", "put", "save", "touch", "clear",
                   "delete", "forget", "wipe", "answered"},
             acct : Accounts \cup {None}, token : Tokens \cup {None}, ok : BOOLEAN]

\* Every variable is in its range; only accounts are ever dropped or shown.
TypeOK ==
    /\ {session, auth} \subseteq Accounts \cup {None}
    /\ bearer \in Tokens \cup {None}
    /\ keychain \in [Accounts -> Tokens \cup {None}]
    /\ {prefs, disk} \subseteq [acct : Accounts, recent : BOOLEAN] \cup {None}
    /\ issued \in 0..MaxSignins /\ valid \subseteq Tokens
    /\ page \in Pages /\ {going, form} \subseteq Cmds \cup {None}
    /\ cmds \in [Cmds -> CmdTypes]
    /\ expired \in 0..Cardinality(Cmds)
    /\ launches \in 1..MaxLaunches /\ user \in Users
    /\ failed \in BOOLEAN /\ out \subseteq Accounts

\* Once all is quiet, an account shown as signed in is the one the backend
\* holds, and the bearer sent is its own -- whatever was killed, refused or
\* lost on the way ("The backend wipes its own state before emitting; we just
\* mirror that on the frontend").
SessionIsBacked ==
    Calm /\ session # None => auth = session /\ bearer # None /\ bearer.acct = session

\* As long as no store refuses a write, what the next launch will restore is
\* what is shown now: the same account with the same bearer, or nobody.
LaunchRestoresSession ==
    user = "careful" /\ Calm /\ page # "boot" /\ ~failed =>
        IF session = None THEN disk = None /\ bearer = None /\ auth = None
        ELSE disk # None /\ disk.acct = session /\ keychain[session] = bearer

\* A session dropped from one of the two stores is not restored, even if the
\* other one could not be written or the process was killed in between.
DroppedStaysDropped ==
    [][user = "careful" /\ page = "boot" /\ session = None => session' \notin out]_vars

\* The first page always comes: the guard never waits for a check for ever.
BootEnds == page = "boot" ~> page # "boot"
=============================================================================

----------------------------- MODULE SessionProofs -----------------------------
(***************************************************************************)
(* Theorems about Session for every number of accounts, commands, bearers  *)
(* and launches: types, for any user; and, for a user who awaits what is   *)
(* under way, that a session dropped from one of its two stores is never   *)
(* restored, whichever writes fail and whenever the process is killed, and *)
(* that the places which know of a session agree on whose it is.           *)
(***************************************************************************)
EXTENDS Session, FiniteSetTheorems, TLAPS

Pcs == {"idle", "sent", "bearer", "auth", "put", "save", "touch", "clear",
        "delete", "forget", "wipe", "answered"}
Ops == {"none", "signin", "check", "logout", "forget", "refresh"}

\* A sign-in, and a check about to write the snapshot back, know their
\* account; a sign-in never clears the session.
Known(r) == /\ r.op = "signin" => r.acct \in Accounts /\ r.pc # "clear"
            /\ r.pc = "touch" => r.acct \in Accounts

CmdsTyped == cmds \in [Cmds -> CmdTypes] /\ \A d \in Cmds : Known(cmds[d])

Typed == TypeOK /\ CmdsTyped

\* What a step of command c may not touch.
Alone(c) == \A d \in Cmds \ {c} : cmds'[d] = cmds[d]

-----------------------------------------------------------------------------
(* The ways in which a step changes a command.                             *)

LEMMA Advances ==
    ASSUME CmdsTyped, NEW c \in Cmds, NEW p \in Pcs \ {"touch"}, Advance(c, p),
           p = "clear" => cmds[c].op # "signin"
    PROVE  /\ CmdsTyped' /\ Alone(c)
           /\ cmds'[c].op = cmds[c].op /\ cmds'[c].pc = p /\ cmds'[c].acct = cmds[c].acct
  <1>1. cmds' \in [Cmds -> CmdTypes]
    BY DEF Advance, CmdsTyped, CmdTypes, Pcs
  <1>2. /\ Alone(c)
        /\ cmds'[c].op = cmds[c].op /\ cmds'[c].pc = p /\ cmds'[c].acct = cmds[c].acct
    BY DEF Advance, CmdsTyped, CmdTypes, Alone
  <1> QED
    BY <1>1, <1>2 DEF CmdsTyped, Known, Alone

\* Updates of several fields.
LEMMA Fields ==
    ASSUME NEW r \in CmdTypes, NEW p \in Pcs
    PROVE  /\ \A ok \in BOOLEAN : [r EXCEPT !.pc = p, !.ok = ok] \in CmdTypes
           /\ \A a \in Accounts \cup {None} : [r EXCEPT !.pc = p, !.acct = a] \in CmdTypes
           /\ \A a \in Accounts \cup {None} : [r EXCEPT !.pc = p, !.acct = a, !.ok = TRUE] \in CmdTypes
           /\ \A t \in Tokens : [r EXCEPT !.pc = p, !.token = t] \in CmdTypes
  <1>1. ASSUME NEW ok \in BOOLEAN PROVE [r EXCEPT !.pc = p, !.ok = ok] \in CmdTypes
    BY DEF CmdTypes, Pcs
  <1>2. ASSUME NEW a \in Accounts \cup {None} PROVE [r EXCEPT !.pc = p, !.acct = a] \in CmdTypes
    BY DEF CmdTypes, Pcs
  <1>3. ASSUME NEW a \in Accounts \cup {None} PROVE [r EXCEPT !.pc = p, !.acct = a, !.ok = TRUE] \in CmdTypes
    BY DEF CmdTypes, Pcs
  <1>4. ASSUME NEW t \in Tokens PROVE [r EXCEPT !.pc = p, !.token = t] \in CmdTypes
    BY DEF CmdTypes, Pcs
  <1> QED
    BY <1>1, <1>2, <1>3, <1>4

LEMMA Answers ==
    ASSUME CmdsTyped, NEW c \in Cmds, NEW ok \in BOOLEAN, Answer(c, ok)
    PROVE  /\ CmdsTyped' /\ Alone(c)
           /\ cmds'[c].op = cmds[c].op /\ cmds'[c].pc = "answered"
  <1>0. cmds \in [Cmds -> CmdTypes]
    BY DEF CmdsTyped
  <1>1. cmds' \in [Cmds -> CmdTypes]
    <2>1. cmds' = [cmds EXCEPT ![c] = [cmds[c] EXCEPT !.pc = "answered", !.ok = ok]]
      BY DEF Answer
    <2>2. [cmds[c] EXCEPT !.pc = "answered", !.ok = ok] \in CmdTypes
      BY <1>0, Fields DEF Pcs
    <2> QED
      BY <1>0, <2>1, <2>2
  <1>2. /\ Alone(c) /\ cmds'[c].acct = cmds[c].acct
        /\ cmds'[c].op = cmds[c].op /\ cmds'[c].pc = "answered"
    BY DEF Answer, CmdsTyped, CmdTypes, Alone
  <1> QED
    BY <1>1, <1>2 DEF CmdsTyped, Known, Alone

\* A command that ends, or starts anew.
LEMMA Restarts ==
    ASSUME CmdsTyped, NEW c \in Cmds, NEW r \in CmdTypes, Known(r),
           cmds' = [cmds EXCEPT ![c] = r]
    PROVE  CmdsTyped' /\ Alone(c) /\ cmds'[c] = r
  BY DEF CmdsTyped, Alone

LEMMA Starts ==
    ASSUME bearer \in Tokens \cup {None}, NEW o \in Ops \ {"signin"}, NEW p \in Pcs \ {"touch"}
    PROVE  /\ Cmd(o, p) \in CmdTypes /\ Known(Cmd(o, p))
           /\ Cmd(o, p).op = o /\ Cmd(o, p).pc = p
           /\ Request(o) \in CmdTypes /\ Known(Request(o))
           /\ Request(o).op = o /\ Request(o).pc = "sent"
           /\ NoCmd \in CmdTypes /\ Known(NoCmd) /\ NoCmd.op = "none" /\ NoCmd.pc = "idle"
  <1>1. Cmd(o, p) \in CmdTypes
    BY DEF Cmd, NoCmd, CmdTypes, Ops, Pcs
  <1>2. Cmd(o, p).op = o /\ Cmd(o, p).pc = p
    BY DEF Cmd, NoCmd
  <1>3. Request(o) \in CmdTypes
    BY DEF Request, Cmd, NoCmd, CmdTypes, Ops
  <1>4. Request(o).op = o /\ Request(o).pc = "sent"
    BY DEF Request, Cmd, NoCmd
  <1>5. NoCmd \in CmdTypes /\ NoCmd.op = "none" /\ NoCmd.pc = "idle"
    BY DEF NoCmd, CmdTypes
  <1> QED
    BY <1>1, <1>2, <1>3, <1>4, <1>5 DEF Known, Ops, Pcs

LEMMA Submits ==
    ASSUME CmdsTyped, NEW c \in Cmds, NEW a \in Accounts, Submit(c, a)
    PROVE  CmdsTyped' /\ Alone(c) /\ cmds'[c].op = "signin" /\ cmds'[c].pc = "sent"
  <1> DEFINE r == [Cmd("signin", "sent") EXCEPT !.acct = a]
  <1>1. r \in CmdTypes
    BY DEF Cmd, NoCmd, CmdTypes
  <1>2. r.op = "signin" /\ r.pc = "sent" /\ r.acct = a
    BY DEF Cmd, NoCmd
  <1>3. cmds' = [cmds EXCEPT ![c] = r]
    BY DEF Submit
  <1> HIDE DEF r
  <1> QED
    BY <1>1, <1>2, <1>3, Restarts DEF Known

LEMMA Grants ==
    ASSUME Typed, NEW c \in Cmds, SigninGranted(c)
    PROVE  /\ CmdsTyped' /\ Alone(c) /\ cmds'[c].op = "signin" /\ cmds'[c].pc = "bearer"
           /\ valid' \subseteq Tokens
  <1> DEFINE t == [acct |-> cmds[c].acct, id |-> issued']
  <1>0. cmds \in [Cmds -> CmdTypes]
    BY DEF Typed, CmdsTyped
  <1>1. issued' \in 1..MaxSignins
    BY SessionAssumption DEF SigninGranted, Typed, TypeOK
  <1>2. cmds[c].acct \in Accounts /\ cmds[c].op = "signin"
    BY DEF SigninGranted, At, Typed, CmdsTyped, Known
  <1>3. t \in Tokens
    BY <1>1, <1>2 DEF Tokens
  <1>4. cmds' = [cmds EXCEPT ![c].pc = "bearer", ![c].token = t] /\ valid' = valid \cup {t}
    BY DEF SigninGranted
  <1> HIDE DEF t
  <1>5. cmds' \in [Cmds -> CmdTypes]
    <2>1. cmds' = [cmds EXCEPT ![c] = [cmds[c] EXCEPT !.pc = "bearer", !.token = t]]
      BY <1>4
    <2>2. [cmds[c] EXCEPT !.pc = "bearer", !.token = t] \in CmdTypes
      BY <1>0, <1>3, Fields DEF Pcs
    <2> QED
      BY <1>0, <2>1, <2>2
  <1>6. /\ Alone(c) /\ cmds'[c].op = cmds[c].op /\ cmds'[c].pc = "bearer"
        /\ cmds'[c].acct = cmds[c].acct
    BY <1>4 DEF Typed, CmdsTyped, CmdTypes, Alone
  <1> QED
    BY <1>2, <1>3, <1>4, <1>5, <1>6 DEF Typed, TypeOK, CmdsTyped, Known, Alone

\* A confirmed check that is to write back knows whose snapshot it read.
LEMMA Confirms ==
    ASSUME Typed, NEW c \in Cmds, CheckConfirmed(c)
    PROVE  /\ CmdsTyped' /\ Alone(c) /\ cmds'[c].op = "check"
           /\ cmds'[c].pc = IF prefs = None THEN "answered" ELSE "touch"
           /\ prefs # None => cmds'[c].acct = prefs.acct
  <1> DEFINE a == IF prefs = None THEN None ELSE prefs.acct
             p == IF prefs = None THEN "answered" ELSE "touch"
  <1>0. cmds \in [Cmds -> CmdTypes]
    BY DEF Typed, CmdsTyped
  <1>1. a \in Accounts \cup {None} /\ (prefs # None => a \in Accounts)
    BY DEF Typed, TypeOK
  <1>2. cmds' = [cmds EXCEPT ![c].pc = p, ![c].acct = a, ![c].ok = TRUE] /\ cmds[c].op = "check"
    BY DEF CheckConfirmed, At
  <1>3. p \in {"answered", "touch"} /\ (p = "touch" => prefs # None)
    OBVIOUS
  <1>4. prefs # None => a = prefs.acct
    OBVIOUS
  <1>5. p = IF prefs = None THEN "answered" ELSE "touch"
    OBVIOUS
  <1> HIDE DEF a, p
  <1>6. cmds' \in [Cmds -> CmdTypes]
    <2>1. cmds' = [cmds EXCEPT ![c] = [cmds[c] EXCEPT !.pc = p, !.acct = a, !.ok = TRUE]]
      BY <1>2
    <2>2. [cmds[c] EXCEPT !.pc = p, !.acct = a, !.ok = TRUE] \in CmdTypes
      BY <1>0, <1>1, <1>3, Fields DEF Pcs
    <2> QED
      BY <1>0, <2>1, <2>2
  <1>7. Alone(c) /\ cmds'[c].op = cmds[c].op /\ cmds'[c].pc = p /\ cmds'[c].acct = a
    BY <1>2 DEF Typed, CmdsTyped, CmdTypes, Alone
  <1>8. CmdsTyped'
    BY <1>1, <1>2, <1>3, <1>6, <1>7 DEF Typed, CmdsTyped, Known, Alone
  <1> QED
    BY <1>2, <1>4, <1>5, <1>7, <1>8

LEMMA Clears ==
    ASSUME Typed, NEW c \in Cmds, ClearBearer(c)
    PROVE  CmdsTyped' /\ Alone(c) /\ cmds'[c].op = cmds[c].op /\ cmds'[c].pc = "delete"
  <1>0. cmds \in [Cmds -> CmdTypes]
    BY DEF Typed, CmdsTyped
  <1>1. cmds' = [cmds EXCEPT ![c].pc = "delete", ![c].acct = auth] /\ cmds[c].pc = "clear"
        /\ auth \in Accounts \cup {None} /\ cmds[c].op # "signin"
    BY DEF ClearBearer, Typed, CmdsTyped, TypeOK, Known
  <1>2. cmds' \in [Cmds -> CmdTypes]
    <2>1. cmds' = [cmds EXCEPT ![c] = [cmds[c] EXCEPT !.pc = "delete", !.acct = auth]]
      BY <1>1
    <2>2. [cmds[c] EXCEPT !.pc = "delete", !.acct = auth] \in CmdTypes
      BY <1>0, <1>1, Fields DEF Pcs
    <2> QED
      BY <1>0, <2>1, <2>2
  <1>3. Alone(c) /\ cmds'[c].op = cmds[c].op /\ cmds'[c].pc = "delete"
    BY <1>1 DEF Typed, CmdsTyped, CmdTypes, Alone
  <1> QED
    BY <1>1, <1>2, <1>3 DEF Typed, CmdsTyped, Known, Alone

LEMMA Goes ==
    ASSUME Typed, NEW to \in Pages \ {"boot"}, NEW c \in Cmds, NEW who, GoTo(to, c, who)
    PROVE  /\ page' \in Pages /\ {going', form'} \subseteq Cmds \cup {None}
           /\ page' = "boot" => page = "boot"
           /\ CmdsTyped' /\ Alone(c) /\ cmds'[c].op # "signin" /\ cmds'[c].pc \in {"sent", "idle"}
  <1>1. bearer \in Tokens \cup {None}
    BY DEF Typed, TypeOK
  <1>2. \E r \in {NoCmd, Request("refresh"), Request("check")} : cmds' = [cmds EXCEPT ![c] = r]
    BY DEF GoTo, End
  <1>3. \A r \in {NoCmd, Request("refresh"), Request("check")} :
           /\ r \in CmdTypes /\ Known(r) /\ r.op # "signin" /\ r.pc \in {"sent", "idle"}
    BY <1>1, Starts DEF Ops, Pcs
  <1>4. CmdsTyped' /\ Alone(c) /\ cmds'[c].op # "signin" /\ cmds'[c].pc \in {"sent", "idle"}
    BY <1>2, <1>3, Restarts DEF Typed
  <1>5. /\ page' \in Pages /\ {going', form'} \subseteq Cmds \cup {None}
        /\ page' = "boot" => page = "boot"
    BY DEF GoTo, Typed, TypeOK, Pages
  <1> QED
    BY <1>4, <1>5

-----------------------------------------------------------------------------
(* The commands, action by action.                                         *)

Command(c) ==
    \/ Backend(c) \/ FrontEnd(c) \/ Hydrate(c)
    \/ Logout(c) \/ SubmitForget(c) \/ Refresh(c)
    \/ \E a \in Accounts : Submit(c, a)
    \/ \E to \in Pages : Navigate(c, to)

\* What a step of command c does to the commands: no sign-in starts before
\* the first page, none starts at all while a careful user waits, and only
\* PutBearer and CheckConfirmed lead to a write of an account's snapshot.
Moves(c) ==
    /\ CmdsTyped' /\ Alone(c)
    /\ cmds'[c].op = "signin" => cmds[c].op = "signin" \/ page # "boot"
    /\ cmds[c].pc # "idle" \/ (user = "careful" => Calm)
    /\ cmds'[c].pc = "save" => PutBearer(c)
    /\ cmds'[c].pc = "touch" => CheckConfirmed(c)

LEMMA CommandMoves == ASSUME Typed, NEW c \in Cmds, Command(c) PROVE Moves(c)
  <1>0. bearer \in Tokens \cup {None}
    BY DEF Typed, TypeOK
  <1>1. NoCmd \in CmdTypes /\ Known(NoCmd) /\ NoCmd.op = "none" /\ NoCmd.pc = "idle"
    BY <1>0, Starts DEF Ops, Pcs
  <1>2. \A r \in {Cmd("logout", "clear"), Cmd("forget", "sent"), Request("refresh")} :
           r \in CmdTypes /\ Known(r) /\ r.op # "signin" /\ r.pc \in {"clear", "sent"}
    BY <1>0, Starts DEF Ops, Pcs
  <1>3. CASE SigninGranted(c)
    BY <1>3, Grants DEF SigninGranted, Moves, At
  <1>4. CASE SigninRefused(c)
    <2>1. \E ok \in BOOLEAN : Answer(c, ok)
      BY <1>4 DEF SigninRefused
    <2> QED
      BY <1>4, <2>1, Answers DEF SigninRefused, Typed, Moves, At
  <1>5. CASE SetBearer(c)
    <2>1. Advance(c, "auth")
      BY <1>5 DEF SetBearer
    <2> QED
      BY <1>5, <2>1, Advances DEF SetBearer, Typed, Pcs, Moves, At
  <1>6. CASE SetAuth(c)
    <2>1. Advance(c, "put")
      BY <1>6 DEF SetAuth
    <2> QED
      BY <1>6, <2>1, Advances DEF SetAuth, Typed, Pcs, Moves, At
  <1>7. CASE PutBearer(c)
    <2>1. Advance(c, "save")
      BY <1>7 DEF PutBearer
    <2> QED
      BY <1>7, <2>1, Advances DEF PutBearer, Typed, Pcs, Moves, At
  <1>8. CASE SaveSession(c)
    <2>1. \E ok \in BOOLEAN : Answer(c, ok)
      BY <1>8 DEF SaveSession
    <2> QED
      BY <1>8, <2>1, Answers DEF SaveSession, Typed, Moves, At
  <1>9. CASE CheckConfirmed(c)
    <2>1. cmds[c].pc = "sent"
      BY <1>9 DEF CheckConfirmed, At
    <2> QED
      BY <1>9, <2>1, Confirms DEF Moves
  <1>10. CASE Touch(c)
    <2>1. Advance(c, "answered")
      BY <1>10 DEF Touch
    <2> QED
      BY <1>10, <2>1, Advances DEF Touch, Typed, Pcs, Moves, At
  <1>11. CASE CheckRefused(c)
    <2>1. Advance(c, "clear") /\ cmds[c].op # "signin"
      BY <1>11 DEF CheckRefused, At
    <2> QED
      BY <1>11, <2>1, Advances DEF CheckRefused, Typed, Pcs, Moves, At
  <1>12. CASE CheckUnanswered(c)
    <2>1. /\ Answer(c, TRUE) \/ Advance(c, "clear")
         /\ cmds[c].op = "check" /\ cmds[c].pc = "sent"
      BY <1>12 DEF CheckUnanswered, At
    <2>2. CASE Answer(c, TRUE)
      BY <2>1, <2>2, Answers DEF Typed, Moves
    <2>3. CASE Advance(c, "clear")
      BY <2>1, <2>3, Advances DEF Typed, Pcs, Moves
    <2> QED
      BY <2>1, <2>2, <2>3
  <1>13. CASE ClearBearer(c)
    BY <1>13, Clears DEF ClearBearer, Moves
  <1>14. CASE DeleteBearer(c)
    <2>1. Advance(c, "forget")
      BY <1>14 DEF DeleteBearer
    <2> QED
      BY <1>14, <2>1, Advances DEF DeleteBearer, Typed, Pcs, Moves, At
  <1>15. CASE ForgetAuth(c)
    <2>1. Advance(c, "wipe")
      BY <1>15 DEF ForgetAuth
    <2> QED
      BY <1>15, <2>1, Advances DEF ForgetAuth, Typed, Pcs, Moves, At
  <1>16. CASE ClearSnapshot(c)
    <2>1. \E ok \in BOOLEAN : Answer(c, ok)
      BY <1>16 DEF ClearSnapshot
    <2> QED
      BY <1>16, <2>1, Answers DEF ClearSnapshot, Typed, Moves, At
  <1>17. CASE ForgetAnswered(c)
    <2>1. \E r \in {NoCmd, Cmd("logout", "clear")} : cmds' = [cmds EXCEPT ![c] = r]
      BY <1>17 DEF ForgetAnswered, End
    <2> QED
      BY <1>17, <1>1, <1>2, <2>1, Restarts DEF ForgetAnswered, Typed, Moves, At
  <1>18. CASE RefreshAnswered(c)
    <2>1. \E r \in {NoCmd, Cmd("logout", "clear")} : cmds' = [cmds EXCEPT ![c] = r]
      BY <1>18 DEF RefreshAnswered, End
    <2> QED
      BY <1>18, <1>1, <1>2, <2>1, Restarts DEF RefreshAnswered, Typed, Moves, At
  <1>19. CASE SigninAnswered(c)
    <2>1. GoTo("home", c, session') \/ cmds' = [cmds EXCEPT ![c] = NoCmd]
      BY <1>19 DEF SigninAnswered, End
    <2> QED
      BY <1>19, <1>1, <2>1, Goes, Restarts DEF SigninAnswered, Typed, Moves, At, Pages
  <1>20. CASE CheckAnswered(c)
    <2>1. GoTo("home", c, session') \/ cmds' = [cmds EXCEPT ![c] = NoCmd]
      BY <1>20 DEF CheckAnswered, End
    <2> QED
      BY <1>20, <1>1, <2>1, Goes, Restarts DEF CheckAnswered, Typed, Moves, At, Pages
  <1>21. CASE LogoutAnswered(c)
    BY <1>21, Goes DEF LogoutAnswered, Moves, At, Pages
  <1>22. CASE Logout(c)
    BY <1>22, <1>2, Restarts DEF Logout, Typed, Moves, UserMay
  <1>23. CASE SubmitForget(c)
    BY <1>23, <1>2, Restarts DEF SubmitForget, Typed, Moves, UserMay
  <1>24. CASE Refresh(c)
    BY <1>24, <1>2, Restarts DEF Refresh, Typed, Moves, UserMay
  <1>25. CASE Hydrate(c)
    <2>1. CASE GoTo("home", c, None)
      BY <1>25, <2>1, Goes DEF Hydrate, Moves, Pages
    <2>2. CASE cmds' = [cmds EXCEPT ![c] = [Request("check") EXCEPT !.token = bearer']]
               /\ bearer' \in Tokens
      <3> DEFINE r == [Request("check") EXCEPT !.token = bearer']
      <3>1. r \in CmdTypes
        BY <2>2, <1>0 DEF Request, Cmd, NoCmd, CmdTypes
      <3>2. r.op = "check" /\ r.pc = "sent"
        BY DEF Request, Cmd, NoCmd
      <3>3. cmds' = [cmds EXCEPT ![c] = r]
        BY <2>2
      <3> HIDE DEF r
      <3> QED
        BY <1>25, <3>1, <3>2, <3>3, Restarts DEF Known, Hydrate, Moves, Typed
    <2>3. prefs # None => prefs.acct \in Accounts
      BY DEF Typed, TypeOK
    <2> QED
      BY <1>25, <2>1, <2>2, <2>3 DEF Hydrate, Typed, TypeOK
  <1>26. ASSUME NEW a \in Accounts, Submit(c, a) PROVE Moves(c)
    BY <1>26, Submits DEF Submit, UserMay, Typed, Moves
  <1>27. ASSUME NEW to \in Pages, Navigate(c, to) PROVE Moves(c)
    BY <1>27, Goes DEF Navigate, UserMay, Links, Moves
  <1> QED
    BY <1>3, <1>4, <1>5, <1>6, <1>7, <1>8, <1>9, <1>10, <1>11, <1>12, <1>13, <1>14, <1>15, <1>16,
       <1>17, <1>18, <1>19, <1>20, <1>21, <1>22, <1>23, <1>24, <1>25, <1>26, <1>27 DEF Command,
       Backend, FrontEnd

LEMMA CommandTyped == ASSUME Typed, NEW c \in Cmds, Command(c) PROVE Typed'
  <1> USE DEF memory, stores, server, front, fixed
  <1>1. CmdsTyped' /\ cmds' \in [Cmds -> CmdTypes]
    BY CommandMoves DEF Moves, CmdsTyped
  <1>2. SUFFICES TypeOK'
    BY <1>1 DEF Typed
  <1>3. CASE SigninGranted(c)
    <2>1. valid' \subseteq Tokens
      BY <1>3, Grants
    <2>2. issued' \in 0..MaxSignins
      BY <1>3, SessionAssumption DEF SigninGranted, Typed, TypeOK
    <2> QED
      BY <1>3, <1>1, <2>1, <2>2 DEF SigninGranted, Typed, TypeOK
  <1>4. CASE SigninRefused(c)
    BY <1>4, <1>1 DEF SigninRefused, Typed, TypeOK
  <1>5. CASE SetBearer(c)
    <2>1. cmds[c].token \in Tokens \cup {None}
      BY DEF Typed, CmdsTyped, CmdTypes
    <2> QED
      BY <1>5, <1>1, <2>1 DEF SetBearer, Typed, TypeOK
  <1>6. CASE SetAuth(c)
    <2>1. cmds[c].acct \in Accounts \cup {None}
      BY DEF Typed, CmdsTyped, CmdTypes
    <2> QED
      BY <1>6, <1>1, <2>1 DEF SetAuth, Typed, TypeOK
  <1>7. CASE PutBearer(c)
    <2>1. cmds[c].token \in Tokens \cup {None}
      BY DEF Typed, CmdsTyped, CmdTypes
    <2> QED
      BY <1>7, <1>1, <2>1 DEF PutBearer, Typed, TypeOK
  <1>8. CASE SaveSession(c)
    <2>1. cmds[c].acct \in Accounts
      BY <1>8 DEF SaveSession, At, Typed, CmdsTyped, Known
    <2> QED
      BY <1>8, <1>1, <2>1 DEF SaveSession, Typed, TypeOK, Write, Snapshot
  <1>9. CASE CheckConfirmed(c)
    BY <1>9, <1>1 DEF CheckConfirmed, Typed, TypeOK
  <1>10. CASE Touch(c)
    <2>1. cmds[c].acct \in Accounts
      BY <1>10 DEF Touch, At, Typed, CmdsTyped, Known
    <2> QED
      BY <1>10, <1>1, <2>1 DEF Touch, Typed, TypeOK, Write, Snapshot
  <1>11. CASE CheckRefused(c)
    BY <1>11, <1>1 DEF CheckRefused, Typed, TypeOK
  <1>12. CASE CheckUnanswered(c)
    BY <1>12, <1>1 DEF CheckUnanswered, Typed, TypeOK
  <1>13. CASE ClearBearer(c)
    BY <1>13, <1>1 DEF ClearBearer, Typed, TypeOK
  <1>14. CASE DeleteBearer(c)
    <2>1. cmds[c].acct \in Accounts \cup {None}
      BY DEF Typed, CmdsTyped, CmdTypes
    <2> QED
      BY <1>14, <1>1, <2>1 DEF DeleteBearer, Typed, TypeOK
  <1>15. CASE ForgetAuth(c)
    BY <1>15, <1>1 DEF ForgetAuth, Typed, TypeOK
  <1>16. CASE ClearSnapshot(c)
    <2>1. expired' \in 0..Cardinality(Cmds)
      BY <1>16, FS_CardinalityType, SessionAssumption DEF ClearSnapshot, Typed, TypeOK
    <2> QED
      BY <1>16, <1>1, <2>1 DEF ClearSnapshot, Typed, TypeOK, Write, Snapshot
  <1>17. CASE ForgetAnswered(c)
    BY <1>17, <1>1 DEF ForgetAnswered, Typed, TypeOK
  <1>18. CASE RefreshAnswered(c)
    BY <1>18, <1>1 DEF RefreshAnswered, Typed, TypeOK
  <1>19. CASE SigninAnswered(c)
    <2>1. /\ session' \in Accounts \cup {None}
         /\ page' \in Pages /\ {going', form'} \subseteq Cmds \cup {None}
      BY <1>19, Goes DEF SigninAnswered, Typed, TypeOK, CmdsTyped, CmdTypes, Pages
    <2> QED
      BY <1>19, <1>1, <2>1 DEF SigninAnswered, Typed, TypeOK
  <1>20. CASE CheckAnswered(c)
    <2>1. /\ session' \in Accounts \cup {None}
         /\ page' \in Pages /\ {going', form'} \subseteq Cmds \cup {None}
      BY <1>20, Goes DEF CheckAnswered, Typed, TypeOK, Pages
    <2> QED
      BY <1>20, <1>1, <2>1 DEF CheckAnswered, Typed, TypeOK
  <1>21. CASE LogoutAnswered(c)
    <2>1. page' \in Pages /\ {going', form'} \subseteq Cmds \cup {None}
      BY <1>21, Goes DEF LogoutAnswered, Pages
    <2> QED
      BY <1>21, <1>1, <2>1 DEF LogoutAnswered, Typed, TypeOK
  <1>22. CASE Logout(c)
    BY <1>22, <1>1 DEF Logout, Typed, TypeOK
  <1>23. CASE SubmitForget(c)
    BY <1>23, <1>1 DEF SubmitForget, Typed, TypeOK
  <1>24. CASE Refresh(c)
    BY <1>24, <1>1 DEF Refresh, Typed, TypeOK
  <1>25. CASE Hydrate(c)
    <2>1. CASE GoTo("home", c, None) /\ UNCHANGED memory
      <3>1. page' \in Pages /\ {going', form'} \subseteq Cmds \cup {None}
        BY <2>1, Goes DEF Pages
      <3>2. UNCHANGED <<memory, server, keychain, out>> /\ failed' \in BOOLEAN
            /\ {prefs', disk'} \subseteq {None, prefs, disk}
        BY <1>25, <2>1 DEF Hydrate, Write, Typed, TypeOK
      <3> QED
        BY <1>25, <1>1, <3>1, <3>2 DEF Hydrate, Typed, TypeOK
    <2>2. CASE UNCHANGED <<stores, front>>
      <3>1. {auth', session'} \subseteq Accounts \cup {None} /\ bearer' \in Tokens \cup {None}
        BY <1>25 DEF Hydrate, Typed, TypeOK
      <3> QED
        BY <1>25, <1>1, <2>2, <3>1 DEF Hydrate, Typed, TypeOK
    <2> QED
      BY <1>25, <2>1, <2>2 DEF Hydrate
  <1>26. ASSUME NEW a \in Accounts, Submit(c, a) PROVE TypeOK'
    BY <1>26, <1>1 DEF Submit, Typed, TypeOK
  <1>27. ASSUME NEW to \in Pages, Navigate(c, to) PROVE TypeOK'
    <2>1. page' \in Pages /\ {going', form'} \subseteq Cmds \cup {None}
      BY <1>27, Goes DEF Navigate, Links, Pages
    <2> QED
      BY <1>27, <1>1, <2>1 DEF Navigate, Typed, TypeOK
  <1> QED
    BY <1>3, <1>4, <1>5, <1>6, <1>7, <1>8, <1>9, <1>10, <1>11, <1>12, <1>13, <1>14, <1>15, <1>16,
       <1>17, <1>18, <1>19, <1>20, <1>21, <1>22, <1>23, <1>24, <1>25, <1>26, <1>27 DEF Command,
       Backend, FrontEnd

LEMMA InitTyped == ASSUME Init PROVE Typed
  <1>1. NoCmd \in CmdTypes /\ Known(NoCmd)
    BY DEF NoCmd, CmdTypes, Known
  <1>2. 0 \in 0..Cardinality(Cmds)
    BY FS_CardinalityType, SessionAssumption
  <1>3. 1 \in 1..MaxLaunches
    BY SessionAssumption
  <1>4. CmdsTyped /\ cmds \in [Cmds -> CmdTypes]
    BY <1>1 DEF Init, CmdsTyped
  <1>5. keychain \in [Accounts -> Tokens \cup {None}]
    BY DEF Init
  <1>6. issued \in 0..MaxSignins
    BY SessionAssumption DEF Init
  <1> QED
    BY <1>2, <1>3, <1>4, <1>5, <1>6 DEF Init, Typed, TypeOK, Pages

LEMMA StepTyped == ASSUME Typed, [Next]_vars PROVE Typed'
  <1> USE DEF memory, stores, server, front, fixed
  <1>1. CASE UNCHANGED vars
    BY <1>1 DEF vars, Typed, TypeOK, CmdsTyped
  <1>2. CASE SessionExpired
    BY <1>2, FS_CardinalityType, SessionAssumption DEF SessionExpired, Typed, TypeOK, CmdsTyped
  <1>3. CASE Relaunch
    <2>1. NoCmd \in CmdTypes /\ Known(NoCmd)
      BY DEF NoCmd, CmdTypes, Known
    <2>2. 0 \in 0..Cardinality(Cmds)
      BY FS_CardinalityType, SessionAssumption
    <2>3. launches' \in 1..MaxLaunches
      BY <1>3, SessionAssumption DEF Relaunch, Typed, TypeOK
    <2>4. CmdsTyped' /\ cmds' \in [Cmds -> CmdTypes]
      BY <1>3, <2>1 DEF Relaunch, CmdsTyped
    <2> QED
      BY <1>3, <2>2, <2>3, <2>4 DEF Relaunch, Typed, TypeOK, Pages
  <1>4. CASE Age
    <2>1. \A s \in [acct : Accounts, recent : BOOLEAN] :
             [s EXCEPT !.recent = FALSE] \in [acct : Accounts, recent : BOOLEAN]
      OBVIOUS
    <2>2. {prefs', disk'} \subseteq [acct : Accounts, recent : BOOLEAN] \cup {None}
      BY <1>4, <2>1 DEF Age, Aged, Typed, TypeOK
    <2> QED
      BY <1>4, <2>2 DEF Age, Typed, TypeOK, CmdsTyped
  <1>5. ASSUME NEW t \in Tokens, Revoke(t) PROVE Typed'
    BY <1>5 DEF Revoke, Typed, TypeOK, CmdsTyped
  <1> QED
    BY <1>1, <1>2, <1>3, <1>4, <1>5, CommandTyped DEF Next, Command

(* Every variable stays in its range, whatever the user does.              *)
THEOREM TypeCorrect == Spec => []TypeOK
  <1>1. Init => Typed
    BY InitTyped
  <1>2. Typed /\ [Next]_vars => Typed'
    BY StepTyped
  <1>3. Typed => TypeOK
    BY DEF Typed
  <1> QED
    BY <1>1, <1>2, <1>3, PTL DEF Spec

-----------------------------------------------------------------------------
(* What was dropped stays dropped.                                         *)

\* One of the two stores does not know of a session of a, and will not learn.
Of(snap, a) == snap # None /\ snap.acct = a
Dropped(a) == keychain[a] = None \/ (~ Of(prefs, a) /\ ~ Of(disk, a))
OutDropped == \A a \in out : Dropped(a)

\* A careful user leaves one command at most under way; what it is about to
\* write is not dropped, or repeats the snapshot that is there; and a sign-in
\* waits for the first page.
OneAtATime == \A c, d \in Cmds : c = d \/ cmds[c].pc = "idle" \/ cmds[d].pc = "idle"
Writes(c) == /\ cmds[c].pc = "save" => cmds[c].acct \notin out
             /\ cmds[c].pc = "touch" => Of(prefs, cmds[c].acct)
BootWaits == page = "boot" => \A c \in Cmds : cmds[c].op # "signin"

Guarded == OneAtATime /\ OutDropped /\ (\A c \in Cmds : Writes(c)) /\ BootWaits

DropInv == user = "careful" => Guarded

LEMMA BootIsLeft ==
    ASSUME Typed, NEW c \in Cmds, Command(c)
    PROVE  page' = "boot" => page = "boot"
  <1>1. ASSUME NEW to \in Pages \ {"boot"}, NEW who, GoTo(to, c, who)
        PROVE  page' = "boot" => page = "boot"
    BY <1>1, Goes
  <1>2. CASE FrontEnd(c)
    BY <1>1, <1>2 DEF FrontEnd, SigninAnswered, CheckAnswered, LogoutAnswered, front, Pages
  <1>3. CASE Backend(c)
    BY <1>3 DEF Backend, SigninGranted, SigninRefused, SetBearer, SetAuth, PutBearer, SaveSession,
                CheckConfirmed, Touch, CheckRefused, CheckUnanswered, ClearBearer, DeleteBearer,
                ForgetAuth, ClearSnapshot, ForgetAnswered, RefreshAnswered, front
  <1>4. CASE Hydrate(c)
    BY <1>1, <1>4 DEF Hydrate, front, Pages
  <1>5. CASE Logout(c) \/ SubmitForget(c) \/ Refresh(c) \/ \E a \in Accounts : Submit(c, a)
    BY <1>5 DEF Logout, SubmitForget, Refresh, Submit, front
  <1>6. ASSUME NEW to \in Pages, Navigate(c, to) PROVE page' = "boot" => page = "boot"
    BY <1>1, <1>6 DEF Navigate, Links, Pages
  <1> QED
    BY <1>2, <1>3, <1>4, <1>5, <1>6 DEF Command

\* A write of c does not bring back what was dropped.
LEMMA StoresStayDropped ==
    ASSUME Typed, Guarded, NEW c \in Cmds, Command(c)
    PROVE  \A a \in out' : Dropped(a)'
  <1> USE DEF stores
  <1>0. keychain \in [Accounts -> Tokens \cup {None}] /\ out \subseteq Accounts
    BY DEF Typed, TypeOK
  <1>1. CASE UNCHANGED <<keychain, prefs, disk, out>>
    BY <1>1 DEF Guarded, OutDropped, Dropped, Of
  <1>2. CASE PutBearer(c)
    <2>1. out' = out \ {cmds[c].acct} /\ UNCHANGED <<prefs, disk>>
      BY <1>2 DEF PutBearer
    <2>2. \A a \in out' : keychain'[a] = keychain[a]
      BY <1>0, <1>2, <2>1 DEF PutBearer
    <2> QED
      BY <2>1, <2>2 DEF Guarded, OutDropped, Dropped, Of
  <1>3. CASE SaveSession(c)
    <2>1. cmds[c].acct \notin out /\ cmds[c].acct # None
      <3>1. cmds[c].op = "signin" /\ cmds[c].pc = "save"
        BY <1>3 DEF SaveSession, At
      <3>2. cmds[c].acct \notin out
        BY <3>1 DEF Guarded, Writes
      <3>3. cmds[c].acct \in Accounts
        BY <3>1 DEF Typed, CmdsTyped, Known
      <3> QED
        BY <3>2, <3>3, SessionAssumption
    <2>2. /\ {prefs', disk'} \subseteq {disk, Snapshot(cmds[c].acct, TRUE)}
          /\ UNCHANGED <<keychain, out>>
      BY <1>3 DEF SaveSession, Write
    <2>3. Snapshot(cmds[c].acct, TRUE).acct = cmds[c].acct
      BY DEF Snapshot
    <2> QED
      BY <2>1, <2>2, <2>3 DEF Guarded, OutDropped, Dropped, Of
  <1>4. CASE Touch(c)
    <2>1. Of(prefs, cmds[c].acct)
      BY <1>4 DEF Touch, At, Guarded, Writes
    <2>2. /\ {prefs', disk'} \subseteq {disk, Snapshot(cmds[c].acct, TRUE)}
          /\ UNCHANGED <<keychain, out>>
      BY <1>4 DEF Touch, Write
    <2>3. Snapshot(cmds[c].acct, TRUE).acct = cmds[c].acct
      BY DEF Snapshot
    <2>4. ASSUME NEW a \in out' PROVE Dropped(a)'
      <3>1. CASE a = cmds[c].acct
        <4>1. Dropped(a)
          BY <2>2, <2>4 DEF Guarded, OutDropped
        <4>2. keychain'[a] = None
          BY <2>1, <2>2, <3>1, <4>1 DEF Dropped
        <4> QED
          BY <4>2 DEF Dropped, Of
      <3>2. CASE a # cmds[c].acct
        BY <2>2, <2>3, <3>2 DEF Guarded, OutDropped, Dropped, Of
      <3> QED
        BY <3>1, <3>2
    <2> QED
      BY <2>4
  <1>5. CASE DeleteBearer(c)
    <2>1. UNCHANGED <<prefs, disk>>
      BY <1>5 DEF DeleteBearer
    <2>2. CASE UNCHANGED <<keychain, out>>
      BY <1>1, <2>1, <2>2
    <2>3. CASE keychain' = [keychain EXCEPT ![cmds[c].acct] = None] /\ out' = out \cup {cmds[c].acct}
      <3>1. out' \subseteq Accounts
        BY <2>3, <1>5, <1>0, SessionAssumption DEF Typed, CmdsTyped, CmdTypes, DeleteBearer
      <3>2. \A a \in Accounts : keychain'[a] = IF a = cmds[c].acct THEN None ELSE keychain[a]
        BY <1>0, <2>3
      <3>3. ASSUME NEW a \in out' PROVE Dropped(a)'
        <4>1. CASE a = cmds[c].acct
          BY <3>1, <3>2, <3>3, <4>1 DEF Dropped, Of
        <4>2. CASE a # cmds[c].acct
          <5>1. Dropped(a) /\ keychain'[a] = keychain[a]
            BY <2>3, <3>1, <3>2, <3>3, <4>2 DEF Guarded, OutDropped
          <5> QED
            BY <2>1, <5>1 DEF Dropped, Of
        <4> QED
          BY <4>1, <4>2
      <3> QED
        BY <3>3
    <2> QED
      BY <1>5, <2>2, <2>3 DEF DeleteBearer
  <1>6. CASE ClearSnapshot(c)
    <2>1. \/ prefs' = None /\ disk' = None
          \/ prefs' = None /\ disk' = disk /\ out' = out
      BY <1>6 DEF ClearSnapshot, Write
    <2>2. UNCHANGED keychain
      BY <1>6 DEF ClearSnapshot
    <2> QED
      BY <2>1, <2>2 DEF Guarded, OutDropped, Dropped, Of
  <1>7. CASE Hydrate(c)
    <2>1. prefs' \in {None, prefs} /\ disk' \in {None, disk} /\ UNCHANGED <<keychain, out>>
      BY <1>7 DEF Hydrate, Write
    <2>2. \A a : (Of(prefs, a)' => Of(prefs, a)) /\ (Of(disk, a)' => Of(disk, a))
      BY <2>1 DEF Of
    <2> QED
      BY <2>1, <2>2 DEF Guarded, OutDropped, Dropped
  <1>8. CASE FrontEnd(c)
    BY <1>1, <1>8 DEF FrontEnd, SigninAnswered, CheckAnswered, LogoutAnswered
  <1>9. CASE Logout(c) \/ SubmitForget(c) \/ Refresh(c)
    BY <1>1, <1>9 DEF Logout, SubmitForget, Refresh
  <1>10. CASE (\E a \in Accounts : Submit(c, a)) \/ (\E to \in Pages : Navigate(c, to))
    BY <1>1, <1>10 DEF Submit, Navigate
  <1>11. CASE \/ SigninGranted(c) \/ SigninRefused(c) \/ SetBearer(c) \/ SetAuth(c)
              \/ CheckConfirmed(c) \/ CheckRefused(c) \/ CheckUnanswered(c)
              \/ ClearBearer(c) \/ ForgetAuth(c) \/ ForgetAnswered(c) \/ RefreshAnswered(c)
    BY <1>1, <1>11 DEF SigninGranted, SigninRefused, SetBearer, SetAuth, CheckConfirmed, CheckRefused,
                       CheckUnanswered, ClearBearer, ForgetAuth, ForgetAnswered, RefreshAnswered
  <1> QED
    BY <1>2, <1>3, <1>4, <1>5, <1>6, <1>7, <1>8, <1>9, <1>10, <1>11 DEF Command, Backend

LEMMA CommandGuarded ==
    ASSUME Typed, Guarded, user = "careful", NEW c \in Cmds, Command(c)
    PROVE  Guarded'
  <1>1. Moves(c)
    BY CommandMoves
  <1>2. \A d \in Cmds \ {c} : cmds[d].pc = "idle" /\ cmds'[d] = cmds[d]
    BY <1>1 DEF Moves, Alone, Guarded, OneAtATime, Calm
  <1>3. cmds'[c].pc = "save" => cmds'[c].acct \notin out'
    <2>1. SUFFICES ASSUME PutBearer(c) PROVE cmds'[c].acct \notin out'
      BY <1>1 DEF Moves
    <2>2. Advance(c, "save") /\ out' = out \ {cmds[c].acct}
      BY <2>1 DEF PutBearer
    <2> QED
      BY <2>2, Advances DEF Typed, Pcs
  <1>4. cmds'[c].pc = "touch" => Of(prefs, cmds[c].acct)'
    <2>1. SUFFICES ASSUME CheckConfirmed(c), cmds'[c].pc = "touch"
                   PROVE  Of(prefs, cmds[c].acct)'
      BY <1>1 DEF Moves
    <2>2. prefs' = prefs
      BY <2>1 DEF CheckConfirmed, stores
    <2> QED
      BY <2>1, <2>2, Confirms DEF Of
  <1>5. BootWaits'
    BY <1>1, <1>2, BootIsLeft DEF Moves, Guarded, BootWaits
  <1>6. OneAtATime'
    BY <1>2 DEF OneAtATime
  <1>7. OutDropped'
    BY StoresStayDropped DEF OutDropped
  <1>8. ASSUME NEW d \in Cmds PROVE Writes(d)'
    <2>1. CASE d = c
      BY <1>3, <1>4, <2>1 DEF Writes
    <2>2. CASE d # c
      BY <1>2, <2>2 DEF Writes
    <2> QED
      BY <2>1, <2>2
  <1> QED
    BY <1>5, <1>6, <1>7, <1>8 DEF Guarded

\* Other steps touch no command, or end them all.
LEMMA Others ==
    ASSUME Guarded, UNCHANGED <<keychain, out>>,
           page' = "boot" => page = "boot" \/ \A c \in Cmds : cmds'[c] = NoCmd,
           UNCHANGED cmds \/ \A c \in Cmds : cmds'[c] = NoCmd,
           \A a : Of(prefs', a) => Of(prefs, a) \/ Of(disk, a),
           \A a : Of(disk', a) => Of(disk, a),
           (\A c \in Cmds : cmds'[c] = NoCmd) \/ \A a : Of(prefs, a) => Of(prefs', a)
    PROVE  Guarded'
  <1>1. OneAtATime'
    BY DEF Guarded, OneAtATime, NoCmd
  <1>2. OutDropped'
    BY DEF Guarded, OutDropped, Dropped
  <1>3. \A c \in Cmds : Writes(c)'
    BY DEF Guarded, Writes, NoCmd
  <1>4. BootWaits'
    BY DEF Guarded, BootWaits, NoCmd
  <1> QED
    BY <1>1, <1>2, <1>3, <1>4 DEF Guarded

LEMMA StepGuarded == ASSUME Typed, DropInv, [Next]_vars PROVE DropInv'
  <1> USE DEF stores, front, fixed
  <1>1. user' = user
    BY DEF Next, vars, Backend, FrontEnd, SigninGranted, SigninRefused, SetBearer, SetAuth, PutBearer,
           SaveSession, CheckConfirmed, Touch, CheckRefused, CheckUnanswered, ClearBearer, DeleteBearer,
           ForgetAuth, ClearSnapshot, ForgetAnswered, RefreshAnswered, SigninAnswered, CheckAnswered,
           LogoutAnswered, Hydrate, Logout, SubmitForget, Refresh, Submit, Navigate, SessionExpired,
           Relaunch, Age, Revoke
  <1>2. SUFFICES ASSUME user = "careful", Guarded PROVE Guarded'
    BY <1>1 DEF DropInv
  <1>3. CASE UNCHANGED vars
    BY <1>2, <1>3, Others DEF vars
  <1>4. CASE SessionExpired
    BY <1>2, <1>4, Others DEF SessionExpired
  <1>5. CASE Relaunch
    BY <1>2, <1>5, Others DEF Relaunch
  <1>6. CASE Age
    <2>1. ASSUME NEW s \in {prefs, disk}, NEW a PROVE Of(Aged(s), a) <=> Of(s, a)
      <3>1. CASE s = None
        BY <3>1 DEF Of, Aged
      <3>2. CASE s \in [acct : Accounts, recent : BOOLEAN]
        <4>1. [s EXCEPT !.recent = FALSE].acct = s.acct
          BY <3>2
        <4>2. [s EXCEPT !.recent = FALSE] \in [acct : Accounts, recent : BOOLEAN]
          BY <3>2
        <4> QED
          BY <3>2, <4>1, <4>2, SessionAssumption DEF Of, Aged
      <3> QED
        BY <3>1, <3>2 DEF Typed, TypeOK
    <2> QED
      BY <1>2, <1>6, <2>1, Others DEF Age
  <1>7. ASSUME NEW t \in Tokens, Revoke(t) PROVE Guarded'
    BY <1>2, <1>7, Others DEF Revoke
  <1> QED
    BY <1>2, <1>3, <1>4, <1>5, <1>6, <1>7, CommandGuarded DEF Next, Command

(* A careful user's session that was dropped from the keychain or from the *)
(* preferences is never shown again by a bootstrap (hydrate_session), even *)
(* if the other store refused the write of clear_session or the process    *)
(* was killed between the two.                                             *)
THEOREM DroppedIsNeverRestored == Spec => DroppedStaysDropped
  <1> DEFINE Safe == user = "careful" /\ page = "boot" /\ session = None => session' \notin out
  <1>1. Init => Typed /\ DropInv
    <2>1. ASSUME Init PROVE Guarded
      <3>1. \A c \in Cmds : cmds[c].pc = "idle" /\ cmds[c].op = "none"
        BY <2>1 DEF Init, NoCmd
      <3>2. out = {}
        BY <2>1 DEF Init
      <3> QED
        BY <3>1, <3>2 DEF Guarded, OneAtATime, OutDropped, Writes, BootWaits
    <2> QED
      BY <2>1, InitTyped DEF DropInv
  <1>2. Typed /\ DropInv /\ [Next]_vars => (Typed /\ DropInv)'
    BY StepTyped, StepGuarded
  <1>3. ASSUME Typed, DropInv, [Next]_vars PROVE [Safe]_vars
    <2>1. SUFFICES ASSUME Next, user = "careful", page = "boot", session' \in out, session' # session
                   PROVE  FALSE
      BY <1>3, SessionAssumption DEF Typed, TypeOK
    <2>2. Guarded /\ out \subseteq Accounts /\ None \notin out
      BY <1>3, <2>1, SessionAssumption DEF DropInv, Typed, TypeOK
    <2>3. PICK c \in Cmds : Hydrate(c) \/ SigninAnswered(c)
      BY <2>1, <2>2 DEF Next, Backend, FrontEnd, memory, SigninGranted, SigninRefused, SetBearer, SetAuth,
           PutBearer, SaveSession, CheckConfirmed, Touch, CheckRefused, CheckUnanswered, ClearBearer,
           DeleteBearer, ForgetAuth, ClearSnapshot, ForgetAnswered, RefreshAnswered, CheckAnswered,
           LogoutAnswered, Logout, SubmitForget, Refresh, Submit, Navigate, SessionExpired, Relaunch, Age,
           Revoke
    <2>4. CASE SigninAnswered(c)
      BY <2>1, <2>2, <2>4 DEF SigninAnswered, At, Guarded, BootWaits
    <2>5. CASE Hydrate(c)
      <3>1. prefs # None /\ keychain[prefs.acct] # None /\ session' = prefs.acct
        BY <2>1, <2>5 DEF Hydrate, memory
      <3> QED
        BY <2>1, <2>2, <3>1 DEF Guarded, OutDropped, Dropped, Of
    <2> QED
      BY <2>3, <2>4, <2>5
  <1>4. Safe <=> (user = "careful" /\ page = "boot" /\ session = None => session' \notin out)
    OBVIOUS
  <1> QED
    BY <1>1, <1>2, <1>3, PTL DEF Spec, DroppedStaysDropped
-----------------------------------------------------------------------------
(***************************************************************************)
(* What is shown, held and kept is one session.  With one command under    *)
(* way at most, c, the places agree but for what c is in the middle of.    *)
(***************************************************************************)
Clearing == {"delete", "forget", "wipe"}
Active(c) == cmds[c].pc # "idle"
Signing(c) == cmds[c].op = "signin" /\ Active(c)
Stored(c) == cmds[c].pc = "answered" /\ cmds[c].ok

KeychainIsOwn == \A a \in Accounts : keychain[a] # None => keychain[a].acct = a

\* Nobody is signed in while a form is shown, and the guard sends nobody
\* who is to /login.
FormsAreAnonymous == page \in {"login", "register", "forget"} \/ going # None => session = None

\* Before the first page, only checks run, on a session the bootstrap seated.
OnlyChecks(c) ==
    /\ going # None => going = c /\ Active(c) /\ cmds[c].op = "check"
    /\ page = "boot" => IF Active(c) THEN cmds[c].op = "check"
                        ELSE session = None /\ auth = None /\ bearer = None

\* A sign-in seats its account one place after the other,
Seats(c) ==
    Signing(c) =>
        /\ session = None /\ expired = 0 /\ cmds[c].pc \notin Clearing
        /\ cmds[c].pc \in {"bearer", "auth", "put", "save"} \/ Stored(c)
              => cmds[c].token \in Tokens /\ cmds[c].token.acct = cmds[c].acct
        /\ cmds[c].pc \in {"auth", "put", "save"} \/ Stored(c) => bearer = cmds[c].token
        /\ cmds[c].pc \in {"put", "save"} \/ Stored(c) => auth = cmds[c].acct

\* and, unless a store fails, on empty places.
SeatsOnEmpty(c) ==
    ~failed /\ Signing(c) =>
        /\ cmds[c].pc = "save" \/ Stored(c) => keychain[cmds[c].acct] = cmds[c].token
        /\ IF Stored(c) THEN disk # None /\ disk.acct = cmds[c].acct ELSE disk = None
        /\ cmds[c].pc \notin {"auth", "put", "save"} /\ ~Stored(c) => bearer = None
        /\ cmds[c].pc \notin {"put", "save"} /\ ~Stored(c) => auth = None

\* A command that clears has cleared what precedes its step, and who answers
\* that nobody is signed in has cleared AppState::auth.
Unseats(c) ==
    /\ cmds[c].pc \in Clearing => bearer = None
    /\ cmds[c].pc = "wipe" => auth = None
    /\ cmds[c].pc = "answered" /\ (cmds[c].op = "logout" \/ (cmds[c].op = "check" /\ ~cmds[c].ok))
         => auth = None
    /\ cmds[c].pc = "touch" => cmds[c].ok

Backed(c) ==
    session # None /\ expired = 0 /\ cmds[c].pc \notin Clearing =>
        auth = session /\ bearer # None /\ bearer.acct = session

Held == IF auth = None THEN disk = None /\ bearer = None
        ELSE disk # None /\ disk.acct = auth /\ keychain[auth] = bearer

Synced(c) ==
    ~failed =>
        /\ prefs = disk
        /\ (page # "boot" \/ Active(c)) /\ ~Signing(c) /\ cmds[c].pc \notin Clearing =>
              Held /\ (expired = 0 => session = auth)

Agreed(c) ==
    /\ KeychainIsOwn /\ FormsAreAnonymous
    /\ OnlyChecks(c) /\ Seats(c) /\ SeatsOnEmpty(c) /\ Unseats(c)
    /\ Backed(c) /\ (expired > 0 => auth = None) /\ Synced(c)

OthersIdle(c) == \A d \in Cmds \ {c} : cmds[d].pc = "idle"

AgreeInv == \A c \in Cmds : OthersIdle(c) => Agreed(c)

-----------------------------------------------------------------------------
(* What a step tells of its command.                                       *)

LEMMA AdvanceKeeps ==
    ASSUME CmdsTyped, NEW c \in Cmds, NEW p, Advance(c, p)
    PROVE  /\ cmds'[c].pc = p /\ cmds'[c].op = cmds[c].op /\ cmds'[c].acct = cmds[c].acct
           /\ cmds'[c].token = cmds[c].token /\ cmds'[c].ok = cmds[c].ok
  BY DEF Advance, CmdsTyped, CmdTypes

LEMMA AnswerKeeps ==
    ASSUME CmdsTyped, NEW c \in Cmds, NEW ok, Answer(c, ok)
    PROVE  /\ cmds'[c].pc = "answered" /\ cmds'[c].op = cmds[c].op
           /\ cmds'[c].acct = cmds[c].acct /\ cmds'[c].token = cmds[c].token /\ cmds'[c].ok = ok
  BY DEF Answer, CmdsTyped, CmdTypes

LEMMA StartsAs ==
    ASSUME CmdsTyped, NEW c \in Cmds, NEW r, cmds' = [cmds EXCEPT ![c] = r]
    PROVE  cmds'[c] = r
  BY DEF CmdsTyped

LEMMA Fresh ==
    /\ NoCmd.op = "none" /\ NoCmd.pc = "idle"
    /\ \A o, p : Cmd(o, p).op = o /\ Cmd(o, p).pc = p
    /\ \A o : Request(o).op = o /\ Request(o).pc = "sent"
  BY DEF NoCmd, Cmd, Request

\* A step of c that leaves every place alone, outside a sign-in and a
\* clearing.
LEMMA Passive ==
    ASSUME NEW c, Agreed(c), UNCHANGED <<session, bearer, auth, keychain, prefs, disk, failed,
                                        page, going, expired>>,
           ~Signing(c), ~Signing(c)', cmds[c].pc \notin Clearing, cmds'[c].pc \notin Clearing,
           cmds'[c].pc = "answered" => cmds'[c].op = "check" /\ cmds'[c].ok,
           cmds'[c].pc = "touch" => cmds'[c].ok,
           page # "boot" \/ (Active(c) /\ Active(c)'),
           going # None \/ page = "boot" => cmds'[c].op = "check" /\ Active(c)'
    PROVE  Agreed(c)'
  BY DEF Agreed, KeychainIsOwn, FormsAreAnonymous, OnlyChecks, Seats, SeatsOnEmpty, Unseats, Backed,
         Synced, Held, Clearing

\* The end of a navigation, on places that agree.
LEMMA Arrives ==
    ASSUME CmdsTyped, NEW c \in Cmds, NEW to \in Pages \ {"boot"}, GoTo(to, c, session'),
           KeychainIsOwn', UNCHANGED expired, expired > 0 => auth' = None,
           session' # None /\ expired = 0 => auth' = session' /\ bearer' # None /\ bearer'.acct = session',
           ~failed' => prefs' = disk' /\ Held' /\ (expired = 0 => session' = auth')
    PROVE  Agreed(c)'
  <1>1. CASE session' # None
    <2>1. cmds'[c] = Request("refresh") /\ page' = "home" /\ going' = None
      BY <1>1, StartsAs DEF GoTo
    <2>2. cmds'[c].op = "refresh" /\ cmds'[c].pc = "sent"
      BY <2>1, Fresh
    <2> QED
      BY <1>1, <2>1, <2>2
      DEF Agreed, FormsAreAnonymous, OnlyChecks, Seats, SeatsOnEmpty, Unseats, Backed, Synced,
          Signing, Active, Stored, Clearing
  <1>2. CASE session' = None /\ to \in {"register", "forget"}
    <2>1. cmds'[c] = NoCmd /\ page' = to /\ going' = None
      BY <1>2, StartsAs DEF GoTo, End
    <2>2. cmds'[c].op = "none" /\ cmds'[c].pc = "idle"
      BY <2>1, Fresh
    <2> QED
      BY <1>2, <2>1, <2>2
      DEF Agreed, FormsAreAnonymous, OnlyChecks, Seats, SeatsOnEmpty, Unseats, Backed, Synced,
          Signing, Active, Stored, Clearing
  <1>3. CASE session' = None /\ to \notin {"register", "forget"}
    <2>1. cmds'[c] = Request("check") /\ going' = c
      BY <1>3, StartsAs DEF GoTo
    <2>2. cmds'[c].op = "check" /\ cmds'[c].pc = "sent"
      BY <2>1, Fresh
    <2> QED
      BY <1>3, <2>1, <2>2
      DEF Agreed, FormsAreAnonymous, OnlyChecks, Seats, SeatsOnEmpty, Unseats, Backed, Synced,
          Signing, Active, Stored, Clearing
  <1> QED
    BY <1>1, <1>2, <1>3

-----------------------------------------------------------------------------
(* The parts of a sign-in.                                                 *)

LEMMA SigninAgrees ==
    ASSUME Typed, NEW c \in Cmds, Agreed(c), cmds[c].op = "signin",
           \/ SigninGranted(c) \/ SigninRefused(c) \/ SetBearer(c) \/ SetAuth(c)
           \/ PutBearer(c) \/ SaveSession(c) \/ SigninAnswered(c)
    PROVE  Agreed(c)'
  <1> USE DEF memory, stores, server, front, fixed
  <1>0. /\ cmds \in [Cmds -> CmdTypes] /\ CmdsTyped /\ keychain \in [Accounts -> Tokens \cup {None}]
        /\ cmds[c].acct \in Accounts /\ cmds[c].acct # None
    BY SessionAssumption DEF Typed, TypeOK, CmdsTyped, Known
  <1>1. Active(c)
    BY DEF SigninGranted, SigninRefused, SetBearer, SetAuth, PutBearer, SaveSession, SigninAnswered,
           At, Active
  <1>2. Signing(c) /\ page # "boot" /\ going = None /\ session = None /\ expired = 0
    BY <1>1 DEF Agreed, OnlyChecks, Seats, Signing
  <1>3. CASE SigninGranted(c)
    <2> DEFINE t == [acct |-> cmds[c].acct, id |-> issued']
    <2>1. issued' \in 1..MaxSignins
      BY <1>3, SessionAssumption DEF SigninGranted, Typed, TypeOK
    <2>2. t \in Tokens /\ t.acct = cmds[c].acct
      BY <1>0, <2>1 DEF Tokens
    <2>3. cmds' = [cmds EXCEPT ![c].pc = "bearer", ![c].token = t]
      BY <1>3 DEF SigninGranted
    <2> HIDE DEF t
    <2>4. /\ cmds'[c].pc = "bearer" /\ cmds'[c].token = t /\ cmds'[c].op = cmds[c].op
          /\ cmds'[c].acct = cmds[c].acct
      BY <1>0, <2>3 DEF CmdTypes
    <2> QED
      BY <1>2, <1>3, <2>2, <2>4
      DEF SigninGranted, At, Agreed, KeychainIsOwn, FormsAreAnonymous, OnlyChecks, Seats, SeatsOnEmpty,
          Unseats, Backed, Synced, Signing, Active, Stored, Clearing
  <1>4. CASE SigninRefused(c)
    <2>1. /\ cmds'[c].pc = "answered" /\ cmds'[c].op = cmds[c].op /\ cmds'[c].ok = FALSE
          /\ cmds'[c].acct = cmds[c].acct
      BY <1>0, <1>4, AnswerKeeps DEF SigninRefused
    <2> QED
      BY <1>2, <1>4, <2>1
      DEF SigninRefused, At, Agreed, KeychainIsOwn, FormsAreAnonymous, OnlyChecks, Seats, SeatsOnEmpty,
          Unseats, Backed, Synced, Signing, Active, Stored, Clearing
  <1>5. CASE SetBearer(c)
    <2>1. /\ cmds'[c].pc = "auth" /\ cmds'[c].op = cmds[c].op /\ cmds'[c].acct = cmds[c].acct
          /\ cmds'[c].token = cmds[c].token
      BY <1>0, <1>5, AdvanceKeeps DEF SetBearer
    <2> QED
      BY <1>2, <1>5, <2>1
      DEF SetBearer, At, Agreed, KeychainIsOwn, FormsAreAnonymous, OnlyChecks, Seats, SeatsOnEmpty,
          Unseats, Backed, Synced, Signing, Active, Stored, Clearing
  <1>6. CASE SetAuth(c)
    <2>1. /\ cmds'[c].pc = "put" /\ cmds'[c].op = cmds[c].op /\ cmds'[c].acct = cmds[c].acct
          /\ cmds'[c].token = cmds[c].token
      BY <1>0, <1>6, AdvanceKeeps DEF SetAuth
    <2> QED
      BY <1>2, <1>6, <2>1
      DEF SetAuth, At, Agreed, KeychainIsOwn, FormsAreAnonymous, OnlyChecks, Seats, SeatsOnEmpty,
          Unseats, Backed, Synced, Signing, Active, Stored, Clearing
  <1>7. CASE PutBearer(c)
    <2>1. /\ cmds'[c].pc = "save" /\ cmds'[c].op = cmds[c].op /\ cmds'[c].acct = cmds[c].acct
          /\ cmds'[c].token = cmds[c].token
      BY <1>0, <1>7, AdvanceKeeps DEF PutBearer
    <2>2. cmds[c].token \in Tokens /\ cmds[c].token.acct = cmds[c].acct
      BY <1>2, <1>7 DEF PutBearer, At, Agreed, Seats
    <2>3. KeychainIsOwn'
      BY <1>0, <1>7, <2>2 DEF PutBearer, Agreed, KeychainIsOwn
    <2>4. ~failed' => ~failed /\ keychain'[cmds[c].acct] = cmds[c].token
      BY <1>0, <1>7 DEF PutBearer
    <2> QED
      BY <1>2, <1>7, <2>1, <2>3, <2>4
      DEF PutBearer, At, Agreed, FormsAreAnonymous, OnlyChecks, Seats, SeatsOnEmpty,
          Unseats, Backed, Synced, Signing, Active, Stored, Clearing
  <1>8. CASE SaveSession(c)
    <2>1. PICK ok \in BOOLEAN : /\ Write(Snapshot(cmds[c].acct, TRUE), ok)
                                /\ Answer(c, ok) /\ failed' = (failed \/ ~ok)
      BY <1>8 DEF SaveSession
    <2>2. /\ cmds'[c].pc = "answered" /\ cmds'[c].op = cmds[c].op /\ cmds'[c].acct = cmds[c].acct
          /\ cmds'[c].token = cmds[c].token /\ cmds'[c].ok = ok
      BY <1>0, <2>1, AnswerKeeps
    <2>3. ~failed' => /\ ~failed /\ ok /\ prefs' = disk'
                      /\ disk' # None /\ disk'.acct = cmds[c].acct
      <3>1. Snapshot(cmds[c].acct, TRUE) \in [acct : Accounts, recent : BOOLEAN]
        BY <1>0 DEF Snapshot
      <3>2. Snapshot(cmds[c].acct, TRUE).acct = cmds[c].acct
        BY DEF Snapshot
      <3> QED
        BY <2>1, <3>1, <3>2, SessionAssumption DEF Write
    <2> QED
      BY <1>2, <1>8, <2>2, <2>3
      DEF SaveSession, At, Agreed, KeychainIsOwn, FormsAreAnonymous, OnlyChecks, Seats, SeatsOnEmpty,
          Unseats, Backed, Synced, Signing, Active, Stored, Clearing
  <1>9. CASE SigninAnswered(c)
    <2>1. CASE cmds[c].ok
      <3>1. /\ session' = cmds[c].acct /\ GoTo("home", c, session')
            /\ UNCHANGED <<bearer, auth, keychain, prefs, disk, failed, expired>>
        BY <1>9, <2>1 DEF SigninAnswered
      <3>2. /\ auth = cmds[c].acct /\ bearer = cmds[c].token
            /\ cmds[c].token \in Tokens /\ cmds[c].token.acct = cmds[c].acct
            /\ ~failed => keychain[cmds[c].acct] = cmds[c].token
                          /\ disk # None /\ disk.acct = cmds[c].acct
        BY <1>2, <1>9, <2>1 DEF SigninAnswered, At, Agreed, Seats, SeatsOnEmpty, Stored
      <3>3. cmds[c].token # None
        BY <3>2, SessionAssumption DEF Tokens
      <3>4. KeychainIsOwn' /\ (~failed' => prefs' = disk' /\ Held')
        BY <1>0, <3>1, <3>2 DEF Agreed, KeychainIsOwn, Synced, Held
      <3> QED
        BY <1>0, <1>2, <3>1, <3>2, <3>3, <3>4, Arrives DEF Pages
    <2>2. CASE ~cmds[c].ok
      <3>1. /\ cmds' = [cmds EXCEPT ![c] = NoCmd]
            /\ UNCHANGED <<session, bearer, auth, keychain, prefs, disk, failed, page, going, expired>>
        BY <1>9, <2>2 DEF SigninAnswered, End
      <3>2. cmds'[c].op = "none" /\ cmds'[c].pc = "idle"
        BY <1>0, <3>1, StartsAs, Fresh
      <3> QED
        BY <1>2, <1>9, <2>2, <3>1, <3>2
        DEF SigninAnswered, At, Agreed, KeychainIsOwn, FormsAreAnonymous, OnlyChecks, Seats,
            SeatsOnEmpty, Unseats, Backed, Synced, Held, Signing, Active, Stored, Clearing
    <2> QED
      BY <2>1, <2>2
  <1> QED
    BY <1>3, <1>4, <1>5, <1>6, <1>7, <1>8, <1>9

-----------------------------------------------------------------------------
(* Checks, and what clears.                                                *)

LEMMA CheckAgrees ==
    ASSUME Typed, NEW c \in Cmds, Agreed(c), Writes(c),
           CheckConfirmed(c) \/ Touch(c) \/ CheckRefused(c) \/ CheckUnanswered(c) \/ CheckAnswered(c)
    PROVE  Agreed(c)'
  <1> USE DEF memory, stores, server, front, fixed
  <1>0. CmdsTyped /\ cmds \in [Cmds -> CmdTypes]
    BY DEF Typed, CmdsTyped
  <1>1. /\ cmds[c].op = "check" /\ cmds[c].pc \in {"sent", "touch", "answered"}
        /\ Active(c) /\ ~Signing(c) /\ cmds[c].pc \notin Clearing
    BY DEF CheckConfirmed, Touch, CheckRefused, CheckUnanswered, CheckAnswered, At, Active, Signing,
           Clearing
  <1>2. CASE CheckConfirmed(c)
    <2>1. /\ cmds'[c].op = "check" /\ cmds'[c].pc \in {"touch", "answered"} /\ cmds'[c].ok
      BY <1>0, <1>1, <1>2 DEF CheckConfirmed, CmdTypes
    <2> QED
      BY <1>1, <1>2, <2>1, Passive DEF CheckConfirmed, Signing, Active, Clearing
  <1>3. CASE Touch(c)
    <2>1. PICK ok \in BOOLEAN : Write(Snapshot(cmds[c].acct, TRUE), ok) /\ failed' = (failed \/ ~ok)
      BY <1>3 DEF Touch
    <2>2. cmds'[c].op = "check" /\ cmds'[c].pc = "answered" /\ cmds'[c].ok
      BY <1>0, <1>1, <1>3, AdvanceKeeps DEF Touch, At, Agreed, Unseats
    <2>3. prefs # None /\ prefs.acct = cmds[c].acct /\ cmds[c].acct \in Accounts
      BY <1>3 DEF Touch, At, Writes, Of, Typed, CmdsTyped, Known
    <2>4. ~failed' => /\ ~failed /\ prefs' = disk' /\ disk' # None /\ disk # None
                      /\ disk'.acct = disk.acct
      <3>1. Snapshot(cmds[c].acct, TRUE) \in [acct : Accounts, recent : BOOLEAN]
        BY <2>3 DEF Snapshot
      <3>2. Snapshot(cmds[c].acct, TRUE).acct = cmds[c].acct
        BY DEF Snapshot
      <3>3. ~failed => prefs = disk
        BY DEF Agreed, Synced
      <3> QED
        BY <2>1, <2>3, <3>1, <3>2, <3>3, SessionAssumption DEF Write
    <2>5. Synced(c)'
      <3>1. ~failed' => Held /\ (expired = 0 => session = auth)
        BY <1>1, <2>4 DEF Agreed, Synced
      <3>2. UNCHANGED <<session, bearer, auth, keychain, expired>>
        BY <1>3 DEF Touch
      <3> QED
        BY <2>4, <3>1, <3>2 DEF Synced, Held
    <2> QED
      BY <1>1, <1>3, <2>2, <2>5
      DEF Touch, Agreed, KeychainIsOwn, FormsAreAnonymous, OnlyChecks, Seats, SeatsOnEmpty, Unseats,
          Backed, Signing, Active, Clearing
  <1>4. CASE CheckRefused(c)
    <2>1. cmds'[c].op = "check" /\ cmds'[c].pc = "clear"
      BY <1>0, <1>1, <1>4, AdvanceKeeps DEF CheckRefused
    <2> QED
      BY <1>1, <1>4, <2>1, Passive DEF CheckRefused, Signing, Active, Clearing
  <1>5. CASE CheckUnanswered(c)
    <2>1. /\ cmds'[c].op = "check" /\ cmds'[c].pc \in {"clear", "answered"}
          /\ cmds'[c].pc = "answered" => cmds'[c].ok
      <3>1. Answer(c, TRUE) \/ Advance(c, "clear")
        BY <1>5 DEF CheckUnanswered
      <3>2. CASE Answer(c, TRUE)
        BY <1>0, <1>1, <3>2, AnswerKeeps
      <3>3. CASE Advance(c, "clear")
        BY <1>0, <1>1, <3>3, AdvanceKeeps
      <3> QED
        BY <3>1, <3>2, <3>3
    <2> QED
      BY <1>1, <1>5, <2>1, Passive DEF CheckUnanswered, Signing, Active, Clearing
  <1>6. CASE CheckAnswered(c)
    <2>1. CASE going # c /\ page = "boot"
      <3>1. /\ session' = (IF cmds[c].ok THEN session ELSE None) /\ GoTo("home", c, session')
            /\ UNCHANGED <<bearer, auth, keychain, prefs, disk, failed, expired>>
        BY <1>6, <2>1 DEF CheckAnswered
      <3>2. ~cmds[c].ok => auth = None
        BY <1>1, <1>6 DEF CheckAnswered, At, Agreed, Unseats
      <3>3. ~failed' => prefs' = disk' /\ Held' /\ (expired = 0 => session' = auth')
        BY <1>1, <3>1, <3>2 DEF Agreed, Synced, Held
      <3>4. session' # None /\ expired = 0 =>
                auth' = session' /\ bearer' # None /\ bearer'.acct = session'
        BY <1>1, <3>1 DEF Agreed, Backed
      <3>5. KeychainIsOwn' /\ (expired > 0 => auth' = None)
        BY <3>1 DEF Agreed, KeychainIsOwn
      <3> QED
        BY <1>0, <3>1, <3>3, <3>4, <3>5, Arrives DEF Pages
    <2>2. CASE going = c \/ page # "boot"
      <3>1. /\ cmds' = [cmds EXCEPT ![c] = NoCmd] /\ UNCHANGED session
            /\ going = c => page' = "login" /\ going' = None
            /\ going # c => UNCHANGED <<page, going>>
            /\ UNCHANGED <<bearer, auth, keychain, prefs, disk, failed, expired>>
        BY <1>6, <2>2 DEF CheckAnswered, End
      <3>2. cmds'[c].op = "none" /\ cmds'[c].pc = "idle"
        BY <1>0, <3>1, StartsAs, Fresh
      <3>3. going # None => going = c /\ session = None
        BY DEF Agreed, OnlyChecks, FormsAreAnonymous
      <3>4. going = None => page # "boot" /\ UNCHANGED <<page, going>>
        BY <2>2, <3>1, SessionAssumption
      <3>5. page' # "boot" /\ going' = None /\ FormsAreAnonymous'
        BY <3>1, <3>3, <3>4 DEF Agreed, FormsAreAnonymous
      <3> QED
        BY <1>1, <3>1, <3>2, <3>5
        DEF Agreed, KeychainIsOwn, OnlyChecks, Seats, SeatsOnEmpty, Unseats, Backed, Synced, Held,
            Signing, Active, Clearing
    <2> QED
      BY <2>1, <2>2
  <1> QED
    BY <1>2, <1>3, <1>4, <1>5, <1>6

LEMMA ClearAgrees ==
    ASSUME Typed, NEW c \in Cmds, Agreed(c),
           ClearBearer(c) \/ DeleteBearer(c) \/ ForgetAuth(c) \/ ClearSnapshot(c) \/ LogoutAnswered(c)
    PROVE  Agreed(c)'
  <1> USE DEF memory, stores, server, front, fixed
  <1>0. /\ CmdsTyped /\ cmds \in [Cmds -> CmdTypes] /\ keychain \in [Accounts -> Tokens \cup {None}]
        /\ expired \in Nat
    BY FS_CardinalityType, SessionAssumption DEF Typed, TypeOK, CmdsTyped
  <1>1. Active(c) /\ ~Signing(c) /\ cmds[c].op # "signin"
    BY DEF ClearBearer, DeleteBearer, ForgetAuth, ClearSnapshot, LogoutAnswered, At, Active, Signing,
           Typed, CmdsTyped, Known, Agreed, Seats, Clearing
  <1>2. CASE ClearBearer(c)
    <2>1. cmds'[c].op = cmds[c].op /\ cmds'[c].pc = "delete"
      BY <1>2, Clears
    <2> QED
      BY <1>1, <1>2, <2>1
      DEF ClearBearer, Agreed, KeychainIsOwn, FormsAreAnonymous, OnlyChecks, Seats, SeatsOnEmpty,
          Unseats, Backed, Synced, Signing, Active, Clearing
  <1>3. CASE DeleteBearer(c)
    <2>1. cmds'[c].op = cmds[c].op /\ cmds'[c].pc = "forget"
      BY <1>0, <1>3, AdvanceKeeps DEF DeleteBearer
    <2>2. KeychainIsOwn' /\ (~failed' => ~failed)
      BY <1>0, <1>3 DEF DeleteBearer, Agreed, KeychainIsOwn
    <2> QED
      BY <1>1, <1>3, <2>1, <2>2
      DEF DeleteBearer, Agreed, FormsAreAnonymous, OnlyChecks, Seats, SeatsOnEmpty,
          Unseats, Backed, Synced, Signing, Active, Clearing
  <1>4. CASE ForgetAuth(c)
    <2>1. cmds'[c].op = cmds[c].op /\ cmds'[c].pc = "wipe"
      BY <1>0, <1>4, AdvanceKeeps DEF ForgetAuth
    <2> QED
      BY <1>1, <1>4, <2>1
      DEF ForgetAuth, Agreed, KeychainIsOwn, FormsAreAnonymous, OnlyChecks, Seats, SeatsOnEmpty,
          Unseats, Backed, Synced, Signing, Active, Clearing
  <1>5. CASE ClearSnapshot(c)
    <2>1. PICK ok \in BOOLEAN : Write(None, ok) /\ failed' = (failed \/ ~ok)
      BY <1>5 DEF ClearSnapshot
    <2>2. cmds'[c].op = cmds[c].op /\ cmds'[c].pc = "answered"
      BY <1>0, <1>5, AnswerKeeps DEF ClearSnapshot
    <2>3. auth = None /\ bearer = None /\ expired' > 0 /\ expired' # 0
      BY <1>0, <1>5 DEF ClearSnapshot, Agreed, Unseats, Clearing
    <2>4. ~failed' => prefs' = None /\ disk' = None
      BY <2>1 DEF Write
    <2> QED
      BY <1>1, <1>5, <2>2, <2>3, <2>4
      DEF ClearSnapshot, Agreed, KeychainIsOwn, FormsAreAnonymous, OnlyChecks, Seats, SeatsOnEmpty,
          Unseats, Backed, Synced, Held, Signing, Active, Clearing
  <1>6. CASE LogoutAnswered(c)
    <2>1. auth = None /\ cmds[c].pc = "answered"
      BY <1>6 DEF LogoutAnswered, At, Agreed, Unseats
    <2>2. /\ session' = None /\ GoTo("login", c, session')
          /\ UNCHANGED <<bearer, auth, keychain, prefs, disk, failed, expired>>
      BY <1>6 DEF LogoutAnswered
    <2>3. ~failed' => prefs' = disk' /\ Held'
      BY <1>1, <2>1, <2>2 DEF Agreed, Synced, Held, Clearing
    <2>4. KeychainIsOwn'
      BY <2>2 DEF Agreed, KeychainIsOwn
    <2> QED
      BY <1>0, <2>1, <2>2, <2>3, <2>4, Arrives DEF Pages
  <1> QED
    BY <1>2, <1>3, <1>4, <1>5, <1>6

\* The steps that are neither of a sign-in, nor of a check, nor of a clearing.
LEMMA OtherAgrees ==
    ASSUME Typed, NEW c \in Cmds, Agreed(c), Active(c) \/ Calm,
           \/ ForgetAnswered(c) \/ RefreshAnswered(c) \/ Hydrate(c)
           \/ Logout(c) \/ SubmitForget(c) \/ Refresh(c)
           \/ \E a \in Accounts : Submit(c, a)
           \/ \E to \in Pages : Navigate(c, to)
    PROVE  Agreed(c)'
  <1> USE DEF memory, stores, server, front, fixed
  <1>0. CmdsTyped /\ cmds \in [Cmds -> CmdTypes] /\ NoCmd.op = "none" /\ NoCmd.pc = "idle"
    BY Fresh DEF Typed, CmdsTyped
  <1>1. ASSUME page # "boot", going = None, ~Signing(c), cmds[c].pc \notin Clearing,
               UNCHANGED <<session, bearer, auth, keychain, prefs, disk, failed, page, going, expired>>,
               cmds'[c].op # "signin", cmds'[c].pc \in {"idle", "sent", "clear"}
        PROVE  Agreed(c)'
    BY <1>1, Passive DEF Signing, Clearing
  <1>2. CASE ForgetAnswered(c) \/ RefreshAnswered(c)
    <2>1. cmds' = [cmds EXCEPT ![c] = NoCmd] \/ cmds' = [cmds EXCEPT ![c] = Cmd("logout", "clear")]
      BY <1>2 DEF ForgetAnswered, RefreshAnswered, End
    <2>2. cmds'[c].op # "signin" /\ cmds'[c].pc \in {"idle", "clear"}
      BY <1>0, <2>1, StartsAs, Fresh
    <2>3. /\ cmds[c].op \in {"forget", "refresh"} /\ cmds[c].pc = "sent"
          /\ UNCHANGED <<session, bearer, auth, keychain, prefs, disk, failed, page, going, expired>>
      BY <1>2 DEF ForgetAnswered, RefreshAnswered, At
    <2>4. page # "boot" /\ going = None
      BY <2>3 DEF Agreed, OnlyChecks, Active
    <2> QED
      BY <1>1, <2>2, <2>3, <2>4 DEF Signing, Clearing
  <1>3. ASSUME cmds[c].pc = "idle" PROVE ~Active(c) /\ ~Signing(c) /\ going = None /\ Calm
    BY <1>3 DEF Agreed, OnlyChecks, Active, Signing
  <1>4. CASE Logout(c) \/ SubmitForget(c) \/ Refresh(c)
    <2>1. /\ cmds[c].pc = "idle" /\ page \in {"home", "forget"}
          /\ UNCHANGED <<session, bearer, auth, keychain, prefs, disk, failed, page, going, expired>>
      BY <1>4 DEF Logout, SubmitForget, Refresh, UserMay
    <2>2. \E r \in {Cmd("logout", "clear"), Cmd("forget", "sent"), Request("refresh")} :
             cmds' = [cmds EXCEPT ![c] = r]
      BY <1>4 DEF Logout, SubmitForget, Refresh
    <2>3. cmds'[c].op # "signin" /\ cmds'[c].pc \in {"sent", "clear"}
      BY <1>0, <2>2, StartsAs, Fresh
    <2> QED
      BY <1>1, <1>3, <2>1, <2>3 DEF Clearing
  <1>5. ASSUME NEW a \in Accounts, Submit(c, a) PROVE Agreed(c)'
    <2>1. /\ cmds[c].pc = "idle" /\ page \in {"login", "register"}
          /\ UNCHANGED <<session, bearer, auth, keychain, prefs, disk, failed, page, going, expired>>
      BY <1>5 DEF Submit, UserMay
    <2>2. cmds'[c].op = "signin" /\ cmds'[c].pc = "sent"
      BY <1>0, <1>5, Submits
    <2>3. session = None /\ expired = 0
      BY <1>3, <2>1 DEF Agreed, FormsAreAnonymous, Calm
    <2>4. ~failed => prefs = disk /\ disk = None /\ bearer = None /\ auth = None
      BY <1>3, <2>1, <2>3 DEF Agreed, Synced, Held, Clearing
    <2> QED
      BY <1>3, <2>1, <2>2, <2>3, <2>4
      DEF Agreed, KeychainIsOwn, FormsAreAnonymous, OnlyChecks, Seats, SeatsOnEmpty, Unseats, Backed,
          Synced, Signing, Active, Stored, Clearing
  <1>6. ASSUME NEW to \in Pages, Navigate(c, to) PROVE Agreed(c)'
    <2>1. /\ cmds[c].pc = "idle" /\ page # "boot" /\ to \in Pages \ {"boot"}
          /\ GoTo(to, c, session')
          /\ UNCHANGED <<session, bearer, auth, keychain, prefs, disk, failed, expired>>
      BY <1>6 DEF Navigate, UserMay, Links, Pages
    <2>2. ~failed' => prefs' = disk' /\ Held' /\ (expired = 0 => session' = auth')
      BY <1>3, <2>1 DEF Agreed, Synced, Held, Clearing
    <2>3. session' # None /\ expired = 0 =>
              auth' = session' /\ bearer' # None /\ bearer'.acct = session'
      BY <2>1 DEF Agreed, Backed, Clearing
    <2>4. KeychainIsOwn' /\ (expired > 0 => auth' = None)
      BY <2>1 DEF Agreed, KeychainIsOwn
    <2> QED
      BY <1>0, <2>1, <2>2, <2>3, <2>4, Arrives
  <1>7. CASE Hydrate(c)
    <2>1. /\ page = "boot" /\ Calm /\ cmds[c].pc = "idle" /\ expired = 0 /\ UNCHANGED expired
      BY <1>7 DEF Hydrate, Calm
    <2>2. session = None /\ auth = None /\ bearer = None /\ going = None
      BY <2>1 DEF Agreed, OnlyChecks, Active
    <2>3. ~failed => prefs = disk
      BY DEF Agreed, Synced
    <2>4. ASSUME GoTo("home", c, None), UNCHANGED <<session, bearer, auth, keychain>>,
                 ~failed' => prefs' = None /\ disk' = None
          PROVE  Agreed(c)'
      <3>1. KeychainIsOwn' /\ session' = None
        BY <2>2, <2>4 DEF Agreed, KeychainIsOwn
      <3> QED
        BY <1>0, <2>1, <2>2, <2>4, <3>1, Arrives DEF Pages, Held
    <2>5. CASE /\ prefs # None /\ keychain[prefs.acct] # None
               /\ bearer' = keychain[prefs.acct] /\ auth' = prefs.acct /\ session' = prefs.acct
               /\ cmds' = [cmds EXCEPT ![c] = [Request("check") EXCEPT !.token = bearer']]
               /\ UNCHANGED <<stores, front>>
      <3>1. prefs.acct \in Accounts /\ prefs.acct # None
        BY <2>5, SessionAssumption DEF Typed, TypeOK
      <3>2. cmds'[c].op = "check" /\ cmds'[c].pc = "sent"
        <4>1. cmds'[c] = [Request("check") EXCEPT !.token = bearer']
          BY <1>0, <2>5, StartsAs
        <4> QED
          BY <4>1 DEF Request, Cmd, NoCmd
      <3>3. bearer' # None /\ bearer'.acct = session'
        BY <2>5, <3>1 DEF Agreed, KeychainIsOwn
      <3> QED
        BY <2>1, <2>2, <2>3, <2>5, <3>1, <3>2, <3>3
        DEF Agreed, KeychainIsOwn, FormsAreAnonymous, OnlyChecks, Seats, SeatsOnEmpty, Unseats, Backed,
            Synced, Held, Signing, Active, Clearing
    <2>6. CASE /\ \E ok \in BOOLEAN : Write(None, ok) /\ failed' = (failed \/ ~ok)
               /\ GoTo("home", c, None) /\ UNCHANGED <<memory, keychain, out>>
      BY <2>4, <2>6 DEF Write
    <2>7. CASE prefs = None /\ GoTo("home", c, None) /\ UNCHANGED <<memory, stores>>
      BY <2>3, <2>4, <2>7
    <2> QED
      BY <1>7, <2>5, <2>6, <2>7 DEF Hydrate
  <1> QED
    BY <1>2, <1>4, <1>5, <1>6, <1>7

-----------------------------------------------------------------------------
LEMMA CommandAgrees ==
    ASSUME Typed, Guarded, user = "careful", NEW c \in Cmds, Command(c), AgreeInv
    PROVE  AgreeInv'
  <1>1. Moves(c)
    BY CommandMoves
  <1>2. \A d \in Cmds \ {c} : cmds[d].pc = "idle" /\ cmds'[d].pc = "idle"
    BY <1>1 DEF Moves, Alone, Guarded, OneAtATime, Calm
  <1>3. Agreed(c) /\ Writes(c)
    BY <1>2 DEF AgreeInv, OthersIdle, Guarded
  <1>4. Active(c) \/ Calm
    BY <1>1 DEF Moves, Active
  <1>5. Agreed(c)'
    <2>1. CASE \/ SigninGranted(c) \/ SigninRefused(c) \/ SetBearer(c) \/ SetAuth(c)
               \/ PutBearer(c) \/ SaveSession(c) \/ SigninAnswered(c)
      <3>1. cmds[c].op = "signin"
        BY <2>1 DEF SigninGranted, SigninRefused, SetBearer, SetAuth, PutBearer, SaveSession,
                    SigninAnswered, At
      <3> QED
        BY <1>3, <2>1, <3>1, SigninAgrees
    <2>2. CASE CheckConfirmed(c) \/ Touch(c) \/ CheckRefused(c) \/ CheckUnanswered(c) \/ CheckAnswered(c)
      BY <1>3, <2>2, CheckAgrees
    <2>3. CASE ClearBearer(c) \/ DeleteBearer(c) \/ ForgetAuth(c) \/ ClearSnapshot(c) \/ LogoutAnswered(c)
      BY <1>3, <2>3, ClearAgrees
    <2>4. CASE \/ ForgetAnswered(c) \/ RefreshAnswered(c) \/ Hydrate(c)
               \/ Logout(c) \/ SubmitForget(c) \/ Refresh(c)
               \/ \E a \in Accounts : Submit(c, a)
               \/ \E to \in Pages : Navigate(c, to)
      BY <1>3, <1>4, <2>4, OtherAgrees
    <2> QED
      BY <2>1, <2>2, <2>3, <2>4 DEF Command, Backend, FrontEnd
  <1>6. ASSUME NEW d \in Cmds, OthersIdle(d)' PROVE Agreed(d)'
    <2>1. CASE d = c
      BY <1>5, <2>1
    <2>2. CASE d # c
      <3>1. ~Active(c)' /\ ~Active(d)'
        BY <1>2, <1>6, <2>2 DEF OthersIdle, Active
      <3>2. Agreed(c)' /\ ~Active(d)' /\ ~Active(c)' => Agreed(d)'
        BY DEF Agreed, Active, OnlyChecks, Seats, SeatsOnEmpty, Signing, Stored, Unseats, Backed,
               Synced, Clearing
      <3> QED
        BY <1>5, <3>1, <3>2
    <2> QED
      BY <2>1, <2>2
  <1> QED
    BY <1>6 DEF AgreeInv

LEMMA StepAgrees ==
    ASSUME Typed, Guarded, user = "careful", [Next]_vars, AgreeInv
    PROVE  AgreeInv'
  <1> USE DEF memory, stores, server, front, fixed
  <1>0. expired \in Nat
    BY FS_CardinalityType, SessionAssumption DEF Typed, TypeOK
  <1>1. CASE UNCHANGED vars
    BY <1>1 DEF vars, AgreeInv, OthersIdle, Agreed, KeychainIsOwn, FormsAreAnonymous, OnlyChecks, Seats,
                SeatsOnEmpty, Unseats, Backed, Synced, Held, Signing, Active, Stored
  <1>2. CASE SessionExpired
    <2> SUFFICES ASSUME NEW c \in Cmds, OthersIdle(c), Agreed(c) PROVE Agreed(c)'
      BY <1>2 DEF SessionExpired, AgreeInv, OthersIdle
    <2>1. /\ expired > 0 /\ expired # 0 /\ auth = None /\ session' = None /\ expired' = expired - 1
          /\ UNCHANGED <<bearer, auth, keychain, prefs, disk, failed, page, going, cmds>>
      BY <1>2 DEF SessionExpired, Agreed
    <2> QED
      BY <1>0, <2>1
      DEF Agreed, KeychainIsOwn, FormsAreAnonymous, OnlyChecks, Seats, SeatsOnEmpty, Unseats, Backed,
          Synced, Held, Signing, Active, Stored
  <1>3. CASE Relaunch
    <2>1. PICK d \in Cmds : OthersIdle(d)
      BY SessionAssumption DEF Guarded, OneAtATime, OthersIdle
    <2>2. KeychainIsOwn
      BY <2>1 DEF AgreeInv, Agreed
    <2> SUFFICES ASSUME NEW c \in Cmds PROVE Agreed(c)'
      BY DEF AgreeInv
    <2>3. cmds'[c].op = "none" /\ cmds'[c].pc = "idle"
      BY <1>3, Fresh DEF Relaunch
    <2> QED
      BY <1>3, <2>2, <2>3
      DEF Relaunch, Agreed, KeychainIsOwn, FormsAreAnonymous, OnlyChecks, Seats, SeatsOnEmpty, Unseats,
          Backed, Synced, Signing, Active, Clearing
  <1>4. CASE Age
    <2> SUFFICES ASSUME NEW c \in Cmds, OthersIdle(c), Agreed(c) PROVE Agreed(c)'
      BY <1>4 DEF Age, AgreeInv, OthersIdle
    <2>1. /\ disk' = None <=> disk = None
          /\ disk # None => disk'.acct = disk.acct
      <3>1. CASE disk = None
        BY <1>4, <3>1 DEF Age, Aged
      <3>2. CASE disk \in [acct : Accounts, recent : BOOLEAN]
        <4>1. [disk EXCEPT !.recent = FALSE].acct = disk.acct
          BY <3>2
        <4>2. [disk EXCEPT !.recent = FALSE] \in [acct : Accounts, recent : BOOLEAN]
          BY <3>2
        <4> QED
          BY <1>4, <3>2, <4>1, <4>2, SessionAssumption DEF Age, Aged
      <3> QED
        BY <3>1, <3>2 DEF Typed, TypeOK
    <2>2. prefs = disk => prefs' = disk'
      BY <1>4 DEF Age
    <2>3. UNCHANGED <<session, bearer, auth, keychain, failed, page, going, cmds, expired>>
      BY <1>4 DEF Age
    <2> QED
      BY <2>1, <2>2, <2>3
      DEF Agreed, KeychainIsOwn, FormsAreAnonymous, OnlyChecks, Seats, SeatsOnEmpty, Unseats, Backed,
          Synced, Held, Signing, Active, Stored
  <1>5. ASSUME NEW t \in Tokens, Revoke(t) PROVE AgreeInv'
    BY <1>5 DEF Revoke, AgreeInv, OthersIdle, Agreed, KeychainIsOwn, FormsAreAnonymous, OnlyChecks, Seats,
                SeatsOnEmpty, Unseats, Backed, Synced, Held, Signing, Active, Stored
  <1> QED
    BY <1>1, <1>2, <1>3, <1>4, <1>5, CommandAgrees DEF Next, Command

\* Only careful users are looked at.
LEMMA Agreement ==
    ASSUME Users = {"careful"}
    PROVE  Spec => [](user = "careful" /\ Guarded /\ AgreeInv)
  <1> DEFINE Inv == Typed /\ user = "careful" /\ DropInv /\ AgreeInv
  <1>1. Init => Inv
    <2> SUFFICES ASSUME Init PROVE Inv
      OBVIOUS
    <2>1. \A c \in Cmds : cmds[c].pc = "idle" /\ cmds[c].op = "none"
      BY DEF Init, NoCmd
    <2>2. AgreeInv
      BY <2>1
      DEF Init, AgreeInv, Agreed, KeychainIsOwn, FormsAreAnonymous, OnlyChecks, Seats, SeatsOnEmpty,
          Unseats, Backed, Synced, Signing, Active, Clearing
    <2>3. Guarded
      BY <2>1 DEF Init, Guarded, OneAtATime, OutDropped, Writes, BootWaits
    <2> QED
      BY <2>2, <2>3, InitTyped DEF Init, DropInv
  <1>2. Inv /\ [Next]_vars => Inv'
    <2> SUFFICES ASSUME Inv, [Next]_vars PROVE Inv'
      OBVIOUS
    <2>1. Typed' /\ DropInv'
      BY StepTyped, StepGuarded
    <2>2. user' = "careful"
      BY <2>1 DEF Typed, TypeOK
    <2> QED
      BY <2>1, <2>2, StepAgrees DEF DropInv
  <1>3. Inv => user = "careful" /\ Guarded /\ AgreeInv
    BY DEF DropInv
  <1> QED
    BY <1>1, <1>2, <1>3, PTL DEF Spec

(* stores/auth.ts and AppState: once all is quiet, whom a careful user sees *)
(* signed in is whom the backend holds, with that account's own bearer,     *)
(* whichever writes failed and wherever the process was killed.             *)
THEOREM ShownIsBacked == ASSUME Users = {"careful"} PROVE Spec => []SessionIsBacked
  <1>1. user = "careful" /\ Guarded /\ AgreeInv => SessionIsBacked
    BY SessionAssumption
    DEF AgreeInv, OthersIdle, Agreed, Backed, SessionIsBacked, Calm, Clearing
  <1> QED
    BY <1>1, Agreement, PTL

(* hydrate_session finds what was left: as long as no store refused a       *)
(* write, the next launch restores the session that is shown, or nobody's.  *)
THEOREM LaunchRestores == ASSUME Users = {"careful"} PROVE Spec => []LaunchRestoresSession
  <1>1. user = "careful" /\ Guarded /\ AgreeInv => LaunchRestoresSession
    <2> SUFFICES ASSUME user = "careful", Guarded, AgreeInv, Calm, page # "boot", ~failed
                 PROVE  /\ session = None => disk = None /\ bearer = None /\ auth = None
                        /\ session # None => disk # None /\ disk.acct = session
                                             /\ keychain[session] = bearer
      BY DEF LaunchRestoresSession
    <2>1. PICK c \in Cmds : TRUE
      BY SessionAssumption
    <2>2. Synced(c) /\ expired = 0 /\ ~Signing(c) /\ cmds[c].pc \notin Clearing
      BY DEF AgreeInv, OthersIdle, Agreed, Calm, Signing, Active, Clearing
    <2> QED
      BY <2>2 DEF Synced, Held
  <1> QED
    BY <1>1, Agreement, PTL
=============================================================================

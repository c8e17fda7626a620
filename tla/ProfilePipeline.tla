---------------------------- MODULE ProfilePipeline ----------------------------
(***************************************************************************)
(* From the panel's subscription to the configuration a kernel runs on:    *)
(* the profile fetcher with its on-disk cache (core/src/profile/fetcher.rs)*)
(* inside the first half of KernelManager::connect, and the iOS app, which *)
(* fetches and renders on its own.                                         *)
(*                                                                         *)
(* The cache is one file, named by the kernel and not by the account; the  *)
(* configuration is one file too.  Connects may overlap, for nothing in    *)
(* the core serialises them, and the process may be killed at any step.    *)
(* A scenario fixes what each account's subscription is, the platform, and *)
(* how many connects may overlap.                                          *)
(***************************************************************************)
EXTENDS SingboxInject

CONSTANTS
    Calls,      \* connects in flight at once
    Accounts,
    MaxRetries, \* retries of a failed fetch (3 in the code)
    Scenarios   \* [sub: [Accounts -> documents], platform, fd, callers: SUBSET Calls,
                \*  modes: those asked for, expires: the accounts that may run out]

ASSUME PipelineAssumption ==
    /\ MaxRetries \in Nat /\ NoName \notin Calls
    /\ \A s \in Scenarios :
        /\ DOMAIN s = {"sub", "platform", "fd", "callers", "modes", "expires"}
        /\ DOMAIN s.sub = Accounts /\ s.callers \subseteq Calls
        /\ \A acc \in Accounts : IsDocument(s.sub[acc])

VARIABLES
    world,   \* the scenario; its subscriptions may be replaced by a skeleton
    cache,   \* mihomo.profile: [is, owner, doc]
    call,    \* each connect
    config,  \* what is in config.yaml (on iOS, in the App Group)
    primary, \* KernelManager.primary_group
    torn     \* the last write of the cache was cut short

vars == <<world, cache, call, config, primary, torn>>

NoCache == [is |-> "none", owner |-> NoName, doc |-> EmptyDoc]
NoCall == [pc |-> "idle", acc |-> NoName, tries |-> 0, mode |-> "Tun", via |-> "none",
           text |-> EmptyDoc, owner |-> NoName, alone |-> FALSE, told |-> FALSE]
NoConfig == [by |-> NoName, mode |-> "none", doc |-> EmptyDoc]

\* What a panel serves to an account that may not use its nodes.
Skeleton == [EmptyDoc EXCEPT !.rulesAre = "list",
                !.rules = <<[Rule("MATCH", "", "DIRECT") EXCEPT !.parts = 2]>>]

Init ==
    /\ world \in Scenarios
    /\ cache = NoCache /\ config = NoConfig
    /\ call = [c \in Calls |-> NoCall]
    /\ primary = NoName /\ torn = FALSE

AtRest(c) == call[c].pc \in {"idle", "up", "failed", "refused"}
Ios == world.platform = "ios"

\* A connect that ended keeps nothing but how it ended.
Ended(pc) == [NoCall EXCEPT !.pc = pc]

\* A document that lost its tail in a write cut short; the proxies come first.
Cut(doc) == [doc EXCEPT !.rulesAre = "absent", !.rules = <<>>, !.groups = <<>>]

\* Metadata says a file with something in it; what it holds is not looked at.
CacheIsUsable == cache.is \in {"torn", "whole"}

-----------------------------------------------------------------------------
\* A tap on Connect, or a reconnect, with the account and mode of the moment.
Connect(c, acc, mode) ==
    /\ ~Ios /\ c \in world.callers /\ AtRest(c) /\ mode \in world.modes
    /\ call' = [d \in Calls |->
                  IF d = c THEN [NoCall EXCEPT !.pc = "fetch", !.acc = acc, !.mode = mode,
                                    !.alone = \A e \in Calls \ {c} : AtRest(e)]
                  ELSE [call[d] EXCEPT !.alone = @ /\ AtRest(d)]]
    /\ UNCHANGED <<world, cache, config, primary, torn>>

\* cache_fallback: the file there is, whosever it is; or the error.
FromCacheOr(c, pc) ==
    IF CacheIsUsable THEN [call[c] EXCEPT !.pc = "read", !.via = "cache"] ELSE Ended(pc)

\* Another try of a request or a write that failed.
Again(c) == [call[c] EXCEPT !.pc = "fetch", !.tries = call[c].tries + 1]

\* A status of 400 or more is SubscriptionUnavailable: no cache, no retry.
Refused(c) ==
    /\ call[c].pc = "fetch"
    /\ call' = [call EXCEPT ![c] = [Ended("refused") EXCEPT !.told = TRUE]]
    /\ UNCHANGED <<world, cache, config, primary, torn>>

\* The request failed on the way: the cache, or another try, or the error.
Unreachable(c) ==
    /\ call[c].pc = "fetch"
    /\ call' = [call EXCEPT ![c] =
                  IF CacheIsUsable \/ call[c].tries = MaxRetries THEN FromCacheOr(c, "failed")
                  ELSE Again(c)]
    /\ UNCHANGED <<world, cache, config, primary, torn>>

BugEmptyAnswer(c) == \* writes the empty body
    /\ call[c].pc = "fetch"
    /\ cache' = [is |-> "empty", owner |-> call[c].acc, doc |-> EmptyDoc]
    /\ call' = [call EXCEPT ![c].pc = "read", ![c].via = "server"]
    /\ UNCHANGED <<world, config, primary, torn>>

\* 304, or a success without a body.
EmptyAnswer(c) ==
    /\ call[c].pc = "fetch"
    /\ call' = [call EXCEPT ![c] = FromCacheOr(c, "refused")]
    /\ UNCHANGED <<world, cache, config, primary, torn>>

BugAnswer(c) == \* keeps a file that is there
    /\ call[c].pc = "fetch"
    /\ cache' = IF CacheIsUsable THEN cache
                ELSE [is |-> "empty", owner |-> call[c].acc, doc |-> EmptyDoc]
    /\ call' = [call EXCEPT ![c].pc = IF CacheIsUsable THEN "read" ELSE "write",
                            ![c].via = "server", ![c].text = world.sub[call[c].acc]]
    /\ torn' = (torn \/ ~CacheIsUsable)
    /\ UNCHANGED <<world, config, primary>>

\* A body: tokio::fs::write empties the file and then fills it.
Answer(c) ==
    /\ call[c].pc = "fetch"
    /\ cache' = [is |-> "empty", owner |-> call[c].acc, doc |-> EmptyDoc]
    /\ call' = [call EXCEPT ![c].pc = "write", ![c].via = "server",
                            ![c].text = world.sub[call[c].acc]]
    /\ torn' = TRUE
    /\ UNCHANGED <<world, config, primary>>

Write(c) ==
    /\ call[c].pc = "write"
    /\ cache' = [is |-> "whole", owner |-> call[c].acc, doc |-> call[c].text]
    /\ call' = [call EXCEPT ![c].pc = "read"]
    /\ torn' = FALSE
    /\ UNCHANGED <<world, config, primary>>

\* The write fails half way: an I/O error, which is retried.
WriteFails(c) ==
    /\ call[c].pc = "write"
    /\ cache' = [is |-> "torn", owner |-> call[c].acc, doc |-> Cut(call[c].text)]
    /\ call' = [call EXCEPT ![c] = IF call[c].tries = MaxRetries THEN Ended("failed")
                                   ELSE Again(c)]
    /\ torn' = TRUE
    /\ UNCHANGED <<world, config, primary>>

\* The text is read back from the file, whoever filled it last; one without
\* a node ends the connect.
Read(c) ==
    /\ call[c].pc = "read"
    /\ IF SubscriptionHasNodes(cache.doc)
       THEN /\ call' = [call EXCEPT ![c].pc = "patch", ![c].text = cache.doc,
                                    ![c].owner = cache.owner]
            /\ primary' = PickPrimaryProxyGroup(cache.doc.groups)
       ELSE /\ call' = [call EXCEPT ![c] = Ended("failed")]
            /\ UNCHANGED primary
    /\ UNCHANGED <<world, cache, config, torn>>

\* Address, port and secret are drawn afresh by each connect: they stand for
\* the connect that drew them.
Cfg(c, mode) == [controller |-> c, secret |-> c, port |-> c, mode |-> mode,
                 platform |-> world.platform, fd |-> world.fd]

\* ensure_privileged grants the tunnel, downgrades it or fails the connect;
\* then the configuration is written.
Patch(c, mode) ==
    /\ call[c].pc = "patch"
    /\ mode \in {call[c].mode, "SystemProxy"}
    /\ config' = [by |-> c, mode |-> mode, doc |-> PatchMihomo(call[c].text, Cfg(c, mode))]
    /\ call' = [call EXCEPT ![c].pc = "spawn", ![c].mode = mode]
    /\ UNCHANGED <<world, cache, primary, torn>>

PatchFails(c) ==
    /\ call[c].pc = "patch"
    /\ call' = [call EXCEPT ![c] = Ended("failed")]
    /\ UNCHANGED <<world, cache, config, primary, torn>>

BugSpawn(c) == \* takes any controller that answers for its own
    /\ call[c].pc = "spawn"
    /\ call' = [call EXCEPT ![c].pc = "up"]
    /\ UNCHANGED <<world, cache, config, primary, torn>>

\* The kernel reads the file as it is by then; the connect waits for a
\* controller at its own address and attaches with its own secret.
Spawn(c) ==
    /\ call[c].pc = "spawn"
    /\ call' = [call EXCEPT ![c] = IF config.doc.top["secret"] = c
                                   THEN [@ EXCEPT !.pc = "up"] ELSE Ended("failed")]
    /\ UNCHANGED <<world, cache, config, primary, torn>>

SpawnFails(c) ==
    /\ call[c].pc = "spawn"
    /\ call' = [call EXCEPT ![c] = Ended("failed")]
    /\ UNCHANGED <<world, cache, config, primary, torn>>

\* iOS fetches without a cache, renders and stores the rendered text.
IosConnect(c, acc, mode) ==
    /\ Ios /\ c \in world.callers /\ mode \in world.modes
    /\ call' = [call EXCEPT ![c] = [NoCall EXCEPT !.pc = "up", !.acc = acc, !.mode = mode,
                                       !.text = world.sub[acc], !.owner = acc]]
    /\ config' = [by |-> c, mode |-> mode, doc |-> PatchSingbox(world.sub[acc], Cfg(c, mode))]
    /\ UNCHANGED <<world, cache, primary, torn>>

-----------------------------------------------------------------------------
\* The account runs out: its subscription becomes a document without nodes.
Expire(acc) ==
    /\ acc \in world.expires /\ world.sub[acc] # Skeleton
    /\ world' = [world EXCEPT !.sub[acc] = Skeleton]
    /\ UNCHANGED <<cache, call, config, primary, torn>>

\* The process is killed: the files stay as they are.
Kill ==
    /\ \E c \in Calls : ~AtRest(c)
    /\ call' = [c \in Calls |-> NoCall]
    /\ primary' = NoName
    /\ UNCHANGED <<world, cache, config, torn>>

Next ==
    \/ \E c \in Calls :
        \/ \E acc \in Accounts, mode \in {"Tun", "SystemProxy"} :
              Connect(c, acc, mode) \/ IosConnect(c, acc, mode)
        \/ Refused(c) \/ Unreachable(c) \/ EmptyAnswer(c) \/ Answer(c)
        \/ Write(c) \/ WriteFails(c) \/ Read(c)
        \/ (\E mode \in {"Tun", "SystemProxy"} : Patch(c, mode)) \/ PatchFails(c)
        \/ Spawn(c) \/ SpawnFails(c)
    \/ \E acc \in Accounts : Expire(acc)
    \/ Kill

Spec == Init /\ [][Next]_vars

-----------------------------------------------------------------------------
(* Properties.                                                             *)

TypeOK ==
    /\ cache.is \in {"none", "empty", "torn", "whole"}
    /\ cache.owner \in Accounts \cup {NoName}
    /\ \A c \in Calls :
        /\ call[c].pc \in {"idle", "fetch", "write", "read", "patch", "spawn", "up",
                           "failed", "refused"}
        /\ call[c].acc \in Accounts \cup {NoName} /\ call[c].owner \in Accounts \cup {NoName}
        /\ call[c].tries \in 0..MaxRetries
        /\ call[c].via \in {"none", "server", "cache"}
    /\ config.by \in Calls \cup {NoName} /\ torn \in BOOLEAN

\* A connect the panel refused never goes on to a kernel, neither on a later
\* try nor from the cache ("Never paper over it with a stale cache").
RefusalIsFinal == \A c \in Calls : call[c].told => call[c].pc = "refused"

\* A usable cache is only ever lost to a write that was cut short: an answer
\* without a body leaves it ("refuse to clobber a previously-good cache").
CacheIsNotEmptied == cache.is \in {"empty", "torn"} => torn

\* A connect that ran alone and whose own fetch was answered runs on the
\* profile of its own account; another's comes only from the one cache file.
OwnProfile ==
    \A c \in Calls :
        /\ call[c].pc \in {"patch", "spawn", "up"} /\ call[c].alone
        /\ call[c].via = "server"
        => call[c].owner = call[c].acc

\* What a connect runs on was granted to it.
ProfileIsGranted == RefusalIsFinal /\ OwnProfile

\* However connects overlap on the one configuration file, one that succeeds
\* started a kernel on the text it had read, in the mode it settled on.
UpOnOwnConfig ==
    \A c \in Calls :
        call[c].pc = "spawn" /\ call'[c].pc = "up" =>
            /\ config.mode = call[c].mode
            /\ config.doc = PatchMihomo(call[c].text, Cfg(c, call[c].mode))
RunsOwnConfig == [][UpOnOwnConfig]_vars

\* Where the client's rules catch what the others leave, they send it to the
\* group the Home page shows and switches nodes in, or to GLOBAL when there
\* is none: two functions of two files agree on it.
RoutesAgree ==
    \A c \in Calls :
        call[c].pc = "spawn" /\ config.by = c /\ call[c].alone /\ NeedsDefaultRules(call[c].text)
        => config.doc.rules[8].target = (IF primary = NoName THEN "GLOBAL" ELSE primary)

\* Rules that route anything, and every resolver setting of the provider,
\* reach the kernel as the panel wrote them.
PolicyIsKept ==
    \A c \in Calls :
        LET text == call[c].text
        IN call[c].pc = "spawn" /\ config.by = c =>
            /\ ~NeedsDefaultRules(text) => config.doc.rules = text.rules
            /\ \A k \in DOMAIN text.dns : config.doc.dns[k] = text.dns[k]
            /\ config.doc.groups = text.groups /\ config.doc.proxies = text.proxies

\* A tunnel that was not granted is off, whatever the subscription says of
\* it, and one the host made is adopted and not routed a second time.
TunnelAsGranted ==
    ~Ios /\ config.by # NoName =>
        /\ (config.doc.tun["enable"] = "true") = (config.mode = "Tun")
        /\ config.mode = "Tun" /\ world.fd # "none" =>
             /\ config.doc.tun["file-descriptor"] = world.fd
             /\ config.doc.tun["auto-route"] = "false"

\* The configuration mihomo starts on is the subscription's where the client
\* has nothing to say, and the client's where it has.
MihomoConfigIsRight == RoutesAgree /\ PolicyIsKept /\ TunnelAsGranted

\* The configuration rendered on iOS is one sing-box accepts, one that sends
\* nothing out directly but by a rule of the subscription that says so (if any
\* could be translated), and one whose nodes still speak TLS.
SingboxResolves == Ios /\ config.by # NoName => ReferencesResolve(config.doc)
SingboxDoesNotLeak ==
    \A c \in Calls : Ios /\ config.by = c => NothingLeaks(Root(call[c].text), config.doc)
SingboxKeepsTls ==
    \A c \in Calls : Ios /\ config.by = c => TlsSurvives(Root(call[c].text), config.doc)
SingboxConfigIsRight == SingboxResolves /\ SingboxDoesNotLeak /\ SingboxKeepsTls

\* Not checked: a group with a device in a tunnel the host made.  inject.rs
\* says of it "Deliberately omit `device`", yet the subscription's survives.
FdModeOmitsDevice ==
    ~Ios /\ config.by # NoName /\ config.mode = "Tun" /\ world.fd # "none"
    => "device" \notin DOMAIN config.doc.tun
=============================================================================

----------------------------- MODULE ProfileProofs -----------------------------
(***************************************************************************)
(* Theorems about ProfilePipeline for every set of subscriptions: the two  *)
(* readers of proxy-groups agree; what is rendered for sing-box names only *)
(* what it defines, keeps the TLS of the nodes and lets nothing out that   *)
(* the subscription keeps in; and, however connects overlap and whenever   *)
(* the process is killed, a connect that succeeds runs on its own          *)
(* configuration, which is the one it was granted.                         *)
(***************************************************************************)
EXTENDS ProfilePipeline, WellFoundedInduction, TLAPS

-----------------------------------------------------------------------------
(* Lists and their positions.                                              *)

LEMMA EarliestIsLeast ==
    ASSUME NEW S, S \subseteq Nat, S # {}
    PROVE  Earliest(S) \in S /\ \A j \in S : Earliest(S) <= j
  <1>1. PICK i \in S : \A j \in S : ~(<<j, i>> \in OpToRel(<, Nat))
    BY NatLessThanWellFounded, WFMin
  <1>2. \A j \in S : i <= j
    <2> SUFFICES ASSUME NEW j \in S, ~(i <= j) PROVE FALSE
      OBVIOUS
    <2>1. <<j, i>> \in {ss \in Nat \X Nat : ss[1] < ss[2]}
      <3>1. j \in Nat /\ i \in Nat /\ j < i
        OBVIOUS
      <3> QED
        BY <3>1
    <2> QED
      BY <1>1, <2>1 DEF OpToRel
  <1> QED
    BY <1>2 DEF Earliest

Types == <<"select", "url-test", "fallback", "load-balance">>

LEMMA Preferences ==
    ASSUME NEW t
    PROVE  /\ Preference(t) \in 1..5
           /\ \A n \in 1..4 : (Preference(t) = n) <=> (t = Types[n])
  BY DEF Preference, Types

\* The groups the code prefers n-th.
OfClass(groups, n) == {i \in Named(groups) : Preference(groups[i].type) = n}

LEMMA FirstOfClass ==
    ASSUME NEW groups, DOMAIN groups \subseteq Nat, NEW n \in 1..4
    PROVE  /\ OfClass(groups, n) # {} => FirstOfType(groups, Types[n])
                                         = groups[Earliest(OfClass(groups, n))].name
           /\ (FirstOfType(groups, Types[n]) # NoName) <=> (OfClass(groups, n) # {})
  <1>1. OfClass(groups, n) = {i \in Named(groups) : groups[i].type = Types[n]}
    BY Preferences DEF OfClass
  <1>2. OfClass(groups, n) # {} => groups[Earliest(OfClass(groups, n))].name # NoName
    <2>1. OfClass(groups, n) \subseteq Nat
      BY DEF OfClass, Named
    <2> QED
      BY <2>1, EarliestIsLeast DEF OfClass, Named
  <1> QED
    BY <1>1, <1>2 DEF FirstOfType

\* Two functions of two files, written independently, agree on every list of
\* groups: the target of the default rules is the group the Home page shows.
THEOREM ReadersAgree ==
    ASSUME NEW groups, DOMAIN groups \subseteq Nat
    PROVE  PickDefaultProxyTarget(groups) = PickPrimaryProxyGroup(groups)
  <1> DEFINE tried == [n \in 1..4 |-> FirstOfType(groups, Types[n])]
             found == {n \in 1..4 : tried[n] # NoName}
             best == {i \in Named(groups) : \A j \in Named(groups) :
                        Preference(groups[i].type) <= Preference(groups[j].type)}
  <1>1. found = {n \in 1..4 : OfClass(groups, n) # {}}
    BY FirstOfClass
  <1>2. PickDefaultProxyTarget(groups)
        = IF found # {} THEN tried[Earliest(found)]
          ELSE IF Named(groups) # {} THEN groups[Earliest(Named(groups))].name ELSE NoName
    BY DEF PickDefaultProxyTarget, Types
  <1>3. PickPrimaryProxyGroup(groups)
        = IF Named(groups) = {} THEN NoName ELSE groups[Earliest(best)].name
    BY DEF PickPrimaryProxyGroup
  <1>4. CASE found # {}
    <2>1. found \subseteq Nat
      OBVIOUS
    <2>2. PICK n \in 1..4 : n = Earliest(found) /\ n \in found /\ \A m \in found : n <= m
      BY <1>4, <2>1, EarliestIsLeast
    <2>3. OfClass(groups, n) # {} /\ \A m \in 1..4 : OfClass(groups, m) # {} => n <= m
      BY <1>1, <2>2
    <2>4. \A j \in Named(groups) : n <= Preference(groups[j].type)
      BY <2>3, Preferences DEF OfClass
    <2>5. best = OfClass(groups, n)
      BY <2>3, <2>4, Preferences DEF OfClass
    <2>6. tried[n] = groups[Earliest(OfClass(groups, n))].name /\ Named(groups) # {}
      BY <2>3, FirstOfClass DEF OfClass
    <2> HIDE DEF found, best, tried
    <2> QED
      BY <1>2, <1>3, <1>4, <2>2, <2>5, <2>6
  <1>5. CASE found = {}
    <2>1. \A j \in Named(groups) : Preference(groups[j].type) = 5
      <3> SUFFICES ASSUME NEW j \in Named(groups), Preference(groups[j].type) # 5 PROVE FALSE
        OBVIOUS
      <3>1. PICK n \in 1..4 : Preference(groups[j].type) = n
        BY Preferences
      <3>2. j \in OfClass(groups, n)
        BY <3>1 DEF OfClass
      <3> QED
        BY <1>1, <1>5, <3>2
    <2>2. best = Named(groups)
      BY <2>1
    <2> HIDE DEF found, best, tried
    <2> QED
      BY <1>2, <1>3, <1>5, <2>2
  <1> QED
    BY <1>4, <1>5

-----------------------------------------------------------------------------
(* The configuration for sing-box.                                         *)

LEMMA Roots ==
    ASSUME NEW text, IsDocument(text)
    PROVE  IsDocument(Root(text)) /\ IsDocument(EmptyDoc) /\ IsDocument(Skeleton)
           /\ IsDocument(Cut(text))
  <1>1. /\ DOMAIN EmptyDoc.groups = {} /\ DOMAIN EmptyDoc.proxies = {}
        /\ DOMAIN EmptyDoc.rules = {}
    BY DEF EmptyDoc
  <1>2. IsDocument(EmptyDoc)
    BY <1>1 DEF IsDocument
  <1>3. IsDocument(Skeleton)
    <2>1. DOMAIN Skeleton = DOMAIN EmptyDoc
      BY DEF Skeleton
    <2>2. Skeleton.groups = EmptyDoc.groups /\ Skeleton.proxies = EmptyDoc.proxies
      BY DEF Skeleton, EmptyDoc
    <2>3. \A rule : DOMAIN (<<rule>>) \subseteq Nat
      OBVIOUS
    <2>4. DOMAIN Skeleton.rules \subseteq Nat
      BY <2>3 DEF Skeleton, EmptyDoc
    <2> QED
      BY <1>1, <2>1, <2>2, <2>4 DEF IsDocument
  <1>4. IsDocument(Cut(text))
    <2>1. DOMAIN Cut(text) = DOMAIN EmptyDoc
      BY DEF Cut, IsDocument
    <2>2. /\ Cut(text).groups = <<>> /\ Cut(text).proxies = text.proxies
          /\ Cut(text).rules = <<>>
      BY DEF Cut, IsDocument, EmptyDoc
    <2>3. DOMAIN (<<>>) = {}
      OBVIOUS
    <2> QED
      BY <2>1, <2>2, <2>3 DEF IsDocument
  <1> QED
    BY <1>2, <1>3, <1>4 DEF Root

\* A reference to an outbound is to a node, to a group, or to one of the two
\* that are always there.
LEMMA SingboxRefers ==
    ASSUME NEW text, NEW cfg, IsDocument(text)
    PROVE  ReferencesResolve(PatchSingbox(text, cfg))
  <1> DEFINE doc == Root(text)
             sb == PatchSingbox(text, cfg)
             nodes == [i \in Nodes(doc) |-> TranslateProxy(doc.proxies[i])]
             groups == [i \in TranslatedGroups(doc) |-> TranslateGroup(doc.groups[i], doc)]
             rules == IF TranslatedRules(doc) = {} THEN DefaultRouteRules
                      ELSE [i \in TranslatedRules(doc) |-> TranslateRule(doc.rules[i], doc)]
             sets == BuildRuleSets(CollectRuleSetTags(rules, DefaultDns), DefaultOutbound(doc))
  <1>1. /\ sb.nodes = nodes /\ sb.groups = groups /\ sb.rules = rules /\ sb.dns = DefaultDns
        /\ sb.final = DefaultOutbound(doc) /\ sb.rule_set = sets
    BY DEF PatchSingbox
  <1>2. IsDocument(doc)
    BY Roots
  <1> HIDE DEF doc, sb
  <1>3. \A i \in Nodes(doc) : nodes[i].tag = doc.proxies[i]["name"]
    BY DEF TranslateProxy
  <1>4. \A i \in TranslatedGroups(doc) :
            /\ groups[i].tag = doc.groups[i].name
            /\ groups[i].outbounds = {doc.groups[i].members[m] : m \in Members(doc.groups[i], doc)}
            /\ groups[i].default = doc.groups[i].members[Earliest(Members(doc.groups[i], doc))]
    BY DEF TranslateGroup
  <1>5. Tags(sb) = {"direct", "block"} \cup {nodes[i].tag : i \in Nodes(doc)}
                   \cup {groups[i].tag : i \in TranslatedGroups(doc)}
    BY <1>1 DEF Tags
  <1>6. Accepted(doc) \subseteq Tags(sb)
    BY <1>3, <1>5 DEF Accepted
  <1>7. DefaultOutbound(doc) \in Tags(sb)
    <2>1. CASE TranslatedGroups(doc) # {}
      <3>1. TranslatedGroups(doc) \subseteq Nat
        BY <1>2 DEF TranslatedGroups, Named, IsDocument
      <3>2. Earliest(TranslatedGroups(doc)) \in TranslatedGroups(doc)
        BY <2>1, <3>1, EarliestIsLeast
      <3> HIDE DEF groups, nodes
      <3> QED
        BY <1>4, <1>5, <2>1, <3>2 DEF DefaultOutbound
    <2>2. CASE TranslatedGroups(doc) = {} /\ Nodes(doc) # {}
      <3>1. Nodes(doc) \subseteq Nat
        BY <1>2 DEF Nodes, IsDocument
      <3>2. Earliest(Nodes(doc)) \in Nodes(doc)
        BY <2>2, <3>1, EarliestIsLeast
      <3> HIDE DEF groups, nodes
      <3> QED
        BY <1>3, <1>5, <2>2, <3>2 DEF DefaultOutbound
    <2>3. CASE TranslatedGroups(doc) = {} /\ Nodes(doc) = {}
      BY <1>5, <2>3 DEF DefaultOutbound
    <2> QED
      BY <2>1, <2>2, <2>3
  <1>8. ASSUME NEW i \in DOMAIN sb.groups
        PROVE  /\ sb.groups[i].outbounds \subseteq Tags(sb)
               /\ sb.groups[i].default \in sb.groups[i].outbounds
    <2> DEFINE M == Members(doc.groups[i], doc)
    <2>1. i \in TranslatedGroups(doc) /\ sb.groups[i] = groups[i]
      BY <1>1, <1>8
    <2>2. i \in DOMAIN doc.groups /\ M # {}
      BY <2>1 DEF TranslatedGroups, Named
    <2>3. M \subseteq Nat
      BY <1>2, <2>2 DEF Members, IsDocument
    <2>4. Earliest(M) \in M
      BY <2>2, <2>3, EarliestIsLeast
    <2>5. \A m \in M : doc.groups[i].members[m] \in Accepted(doc)
      BY DEF Members
    <2> HIDE DEF groups, M
    <2>6. groups[i].outbounds = {doc.groups[i].members[m] : m \in M}
          /\ groups[i].default = doc.groups[i].members[Earliest(M)]
      BY <1>4, <2>1 DEF M
    <2> QED
      BY <1>6, <2>1, <2>4, <2>5, <2>6
  <1>9. ASSUME NEW i \in DOMAIN rules
        PROVE  /\ rules[i].outbound \in Tags(sb)
               /\ \A t \in rules[i].rule_set : t[1] \in {"geosite", "geoip"}
    <2>1. CASE TranslatedRules(doc) = {}
      <3>1. rules = DefaultRouteRules /\ i \in 1..4
        BY <1>9, <2>1 DEF DefaultRouteRules
      <3>2. DefaultRouteRules[i].outbound \in {"block", "direct"}
        BY <3>1 DEF DefaultRouteRules, Route
      <3>3. \A t \in DefaultRouteRules[i].rule_set : t[1] \in {"geosite", "geoip"}
        BY <3>1 DEF DefaultRouteRules, Route
      <3> HIDE DEF rules
      <3> QED
        BY <1>5, <3>1, <3>2, <3>3
    <2>2. CASE TranslatedRules(doc) # {}
      <3>1. rules[i] = TranslateRule(doc.rules[i], doc)
        BY <1>9, <2>2
      <3>2. ResolveTarget(doc.rules[i].target, doc) \in Tags(sb)
        BY <1>5, <1>6, <1>7 DEF ResolveTarget
      <3> HIDE DEF rules
      <3>3. rules[i].outbound = ResolveTarget(doc.rules[i].target, doc)
        BY <3>1 DEF TranslateRule
      <3>4. \A t \in rules[i].rule_set : t[1] \in {"geosite", "geoip"}
        BY <3>1 DEF TranslateRule
      <3> QED
        BY <3>2, <3>3, <3>4
    <2> QED
      BY <2>1, <2>2
  <1>10. sets = {[tag |-> t, detour |-> DefaultOutbound(doc)] :
                    t \in {t \in CollectRuleSetTags(rules, DefaultDns) : t[1] \in {"geosite", "geoip"}}}
    BY DEF BuildRuleSets
  <1>11. DefinedRuleSets(sb) = {t \in CollectRuleSetTags(rules, DefaultDns) : t[1] \in {"geosite", "geoip"}}
    <2> DEFINE T == {t \in CollectRuleSetTags(rules, DefaultDns) : t[1] \in {"geosite", "geoip"}}
               d == DefaultOutbound(doc)
    <2> HIDE DEF rules, sets, T, d
    <2>1. sets = {[tag |-> t, detour |-> d] : t \in T}
      BY <1>10 DEF T, d
    <2>2. {set.tag : set \in sets} = {[tag |-> t, detour |-> d].tag : t \in T}
      BY <2>1
    <2>3. {set.tag : set \in sets} = T
      BY <2>2
    <2> QED
      BY <1>1, <2>3 DEF DefinedRuleSets, T
  <1>12. \A set \in sb.rule_set : set.detour = DefaultOutbound(doc)
    <2> HIDE DEF rules
    <2> QED
      BY <1>1, <1>10
  <1>13. \A i \in DOMAIN sb.rules : /\ sb.rules[i].outbound \in Tags(sb)
                                    /\ sb.rules[i].rule_set \subseteq DefinedRuleSets(sb)
    <2> HIDE DEF rules
    <2> QED
      BY <1>1, <1>9, <1>11 DEF CollectRuleSetTags
  <1>14. sb.dns.detours \subseteq Tags(sb) /\ sb.dns.rule_set \subseteq DefinedRuleSets(sb)
    <2>1. DefaultDns.detours = {"direct"} /\ DefaultDns.rule_set = {<<"geosite", "cn">>}
      BY DEF DefaultDns
    <2> HIDE DEF rules
    <2> QED
      BY <1>1, <1>5, <1>11, <2>1 DEF CollectRuleSetTags
  <1> HIDE DEF nodes, groups, rules, sets
  <1>15. ReferencesResolve(sb)
    BY <1>1, <1>7, <1>8, <1>12, <1>13, <1>14 DEF ReferencesResolve
  <1> QED
    BY <1>15 DEF sb

-----------------------------------------------------------------------------
(* The configuration for mihomo.                                           *)

\* The settings of the tunnel the client insists on.
LEMMA TunSettings ==
    ASSUME NEW cfg, cfg.mode \in {"Tun", "SystemProxy"}
    PROVE  /\ "enable" \in DOMAIN TunKeys(cfg)
           /\ TunKeys(cfg)["enable"] = IF cfg.mode = "Tun" THEN "true" ELSE "false"
           /\ cfg.mode = "Tun" /\ cfg.fd # "none" =>
                /\ {"file-descriptor", "auto-route"} \subseteq DOMAIN TunKeys(cfg)
                /\ TunKeys(cfg)["file-descriptor"] = cfg.fd
                /\ TunKeys(cfg)["auto-route"] = "false"
  <1>1. CASE cfg.mode = "SystemProxy"
    BY <1>1 DEF TunKeys, :>
  <1>2. CASE cfg.mode = "Tun" /\ cfg.fd # "none"
    <2> DEFINE h == HostTun(cfg.fd)
    <2>1. TunKeys(cfg) = h
      BY <1>2 DEF TunKeys
    <2>2. /\ "enable" \in DOMAIN h /\ h["enable"] = "true"
          /\ "file-descriptor" \in DOMAIN h /\ h["file-descriptor"] = cfg.fd
          /\ "auto-route" \in DOMAIN h /\ h["auto-route"] = "false"
      BY DEF HostTun, Hijack, :>, @@
    <2> QED
      BY <1>2, <2>1, <2>2
  <1>3. CASE cfg.mode = "Tun" /\ cfg.fd = "none"
    <2>1. TunKeys(cfg) = OwnTun(cfg.platform)
      BY <1>3 DEF TunKeys
    <2>2. "enable" \in DOMAIN OwnTun(cfg.platform) /\ OwnTun(cfg.platform)["enable"] = "true"
      BY DEF OwnTun, Hijack, :>, @@
    <2> QED
      BY <1>3, <2>1, <2>2
  <1> QED
    BY <1>1, <1>2, <1>3

\* What patching leaves of a subscription, and what it sets.
LEMMA Patched ==
    ASSUME NEW text, IsDocument(text), text.root = "mapping", NEW cfg
    PROVE  LET p == PatchMihomo(text, cfg) IN
           /\ p.top["secret"] = cfg.secret
           /\ p.rules = IF NeedsDefaultRules(text) THEN DefaultRules(DefaultTarget(text.groups))
                        ELSE text.rules
           /\ \A k \in DOMAIN text.dns : p.dns[k] = text.dns[k]
           /\ p.groups = text.groups /\ p.proxies = text.proxies
           /\ p.tun = Insert(text.tun, TunKeys(cfg))
  <1> DEFINE top == Insert(text.top, ClientKeys(cfg))
             geo == ("mode" :> "rule") @@ ("geo-auto-update" :> "true")
                    @@ ("geo-update-interval" :> "24")
             dns == PatchDns(top, text.dns)
             tun == Insert(text.tun, TunKeys(cfg))
             ours == [text EXCEPT !.top = top, !.tun = tun, !.dns = dns]
             p == PatchMihomo(text, cfg)
  <1>1. DOMAIN text = {"root", "top", "tun", "dns", "rulesAre", "rules", "groups", "proxies"}
    BY DEF IsDocument, EmptyDoc
  <1>2. p = IF ~NeedsDefaultRules(text) THEN ours
            ELSE [ours EXCEPT !.top = Insert(top, geo), !.rulesAre = "list",
                              !.rules = DefaultRules(DefaultTarget(text.groups))]
    BY DEF PatchMihomo, Root
  <1>3. "secret" \in DOMAIN ClientKeys(cfg) /\ ClientKeys(cfg)["secret"] = cfg.secret
    BY DEF ClientKeys, :>, @@
  <1>4. "secret" \in DOMAIN top /\ top["secret"] = cfg.secret
    BY <1>3 DEF Insert, @@
  <1>5. "secret" \notin DOMAIN geo
    BY DEF :>, @@
  <1>6. Insert(top, geo)["secret"] = cfg.secret
    <2> HIDE DEF top, geo
    <2> QED
      BY <1>4, <1>5 DEF Insert, @@
  <1>7. \A k \in DOMAIN text.dns : dns[k] = text.dns[k]
    <2> HIDE DEF top
    <2> QED
      BY DEF PatchDns, InsertIfMissing, @@
  <1> HIDE DEF top, geo, dns, tun
  <1>8. /\ DOMAIN ours = DOMAIN text /\ ours.top = top /\ ours.tun = tun /\ ours.dns = dns
        /\ ours.groups = text.groups /\ ours.proxies = text.proxies /\ ours.rules = text.rules
    BY <1>1
  <1> HIDE DEF ours, p
  <1>9. CASE ~NeedsDefaultRules(text)
    BY <1>2, <1>4, <1>7, <1>8, <1>9 DEF p, tun
  <1>10. CASE NeedsDefaultRules(text)
    <2> DEFINE R == DefaultRules(DefaultTarget(text.groups))
    <2> HIDE DEF R
    <2>1. p = [ours EXCEPT !.top = Insert(top, geo), !.rulesAre = "list", !.rules = R]
      BY <1>2, <1>10 DEF R
    <2>2. /\ p.top = Insert(top, geo) /\ p.rules = R /\ p.tun = tun /\ p.dns = dns
          /\ p.groups = text.groups /\ p.proxies = text.proxies
      BY <1>1, <1>8, <2>1
    <2> QED
      BY <1>6, <1>7, <1>10, <2>2 DEF p, tun, R
  <1> QED
    BY <1>9, <1>10

LEMMA LastRule == ASSUME NEW t PROVE DefaultRules(t)[8].target = t
  BY DEF DefaultRules, Rule

-----------------------------------------------------------------------------
(* The inductive invariant.                                                *)

WorldKept ==
    /\ DOMAIN world = {"sub", "platform", "fd", "callers", "modes", "expires"}
    /\ DOMAIN world.sub = Accounts /\ \A acc \in Accounts : IsDocument(world.sub[acc])
    /\ IsDocument(cache.doc) /\ DOMAIN call = Calls

Modes == {"Tun", "SystemProxy"}
RestPcs == {"idle", "up", "failed", "refused"}

\* The connect k has the parts of one, and holds a document.
Shaped(k) == DOMAIN k = DOMAIN NoCall /\ IsDocument(k.text) /\ k.mode \in Modes

\* It is where its platform and the panel allow it to be.
Placed(k) ==
    /\ Ios => k.pc \in {"idle", "up"}
    /\ k.pc \in {"patch", "spawn"} => k.text.root = "mapping"
    /\ k.told => k.pc = "refused"
    /\ k.pc \notin RestPcs => k.acc \in Accounts

\* The configuration there is names the connect that wrote it by its secret,
\* and is what that connect made of its text.
Configured(c, k) == k.pc = "spawn" =>
    /\ config.doc.top["secret"] = config.by
    /\ config.by = c => /\ config.mode = k.mode
                        /\ config.doc = PatchMihomo(k.text, Cfg(c, k.mode))

\* What it holds is its own as long as it runs alone.
Private(c, k) == k.alone =>
    /\ k.pc \notin RestPcs => \A e \in Calls \ {c} : AtRest(e)
    /\ k.via = "server" => /\ k.pc = "read" => cache.owner = k.acc
                           /\ k.pc \in {"patch", "spawn", "up"} => k.owner = k.acc
    /\ k.pc \in {"patch", "spawn"} => primary = PickPrimaryProxyGroup(k.text.groups)

Fine(c) == /\ Shaped(call[c]) /\ Placed(call[c])
           /\ Configured(c, call[c]) /\ Private(c, call[c])

\* The configuration by itself: what TunnelAsGranted and SingboxResolves ask.
ConfigKept == TunnelAsGranted /\ SingboxResolves /\ (~Ios => config.mode \in Modes \cup {"none"})

IInv == WorldKept /\ ConfigKept /\ CacheIsNotEmptied /\ \A c \in Calls : Fine(c)

LEMMA NoCallIs ==
    /\ Shaped(NoCall) /\ NoCall.pc = "idle" /\ NoCall.told = FALSE /\ NoCall.alone = FALSE
    /\ \A p : /\ Shaped(Ended(p)) /\ Ended(p).pc = p /\ Ended(p).told = FALSE
              /\ Ended(p).alone = FALSE
  <1>1. IsDocument(EmptyDoc)
    <2>1. /\ DOMAIN EmptyDoc.groups = {} /\ DOMAIN EmptyDoc.proxies = {}
          /\ DOMAIN EmptyDoc.rules = {}
      BY DEF EmptyDoc
    <2> QED
      BY <2>1 DEF IsDocument
  <1>2. NoCall.text = EmptyDoc /\ NoCall.mode = "Tun"
    BY DEF NoCall
  <1>3. Shaped(NoCall) /\ NoCall.pc = "idle" /\ NoCall.told = FALSE /\ NoCall.alone = FALSE
    BY <1>1, <1>2 DEF Shaped, Modes, NoCall
  <1>4. ASSUME NEW p
        PROVE  Shaped(Ended(p)) /\ Ended(p).pc = p /\ Ended(p).told = FALSE /\ Ended(p).alone = FALSE
    <2>1. /\ DOMAIN Ended(p) = DOMAIN NoCall /\ Ended(p).text = EmptyDoc /\ Ended(p).mode = "Tun"
          /\ Ended(p).pc = p /\ Ended(p).told = FALSE /\ Ended(p).alone = FALSE
      BY DEF Ended, NoCall
    <2> QED
      BY <1>1, <2>1 DEF Shaped, Modes
  <1> QED
    BY <1>3, <1>4

\* A step of connect c, not at rest, leaves the others as they were.
LEMMA OthersAreFine ==
    ASSUME WorldKept, \A d \in Calls : Fine(d), NEW c \in Calls, ~AtRest(c), NEW x,
           call' = [call EXCEPT ![c] = x], world' = world,
           UNCHANGED config \/ (config'.by = c /\ config'.doc.top["secret"] = c)
    PROVE  /\ DOMAIN call' = Calls /\ call'[c] = x
           /\ \A d \in Calls \ {c} : call'[d] = call[d] /\ Fine(d)'
           /\ (\A d \in Calls : ~AtRest(d) /\ call[d].alone => d = c)
  <1>1. DOMAIN call' = Calls /\ call'[c] = x /\ \A d \in Calls \ {c} : call'[d] = call[d]
    BY DEF WorldKept
  <1>2. ASSUME NEW d \in Calls, d # c, ~AtRest(d) PROVE ~call[d].alone
    BY <1>2 DEF Fine, Private, AtRest, RestPcs
  <1>3. ASSUME NEW d \in Calls, d # c PROVE Fine(d)'
    <2>1. call'[d] = call[d]
      BY <1>1, <1>3
    <2>2. Shaped(call[d])' /\ Placed(call[d])'
      BY <2>1 DEF Fine, Shaped, Placed, Ios
    <2>3. Configured(d, call[d])'
      BY <1>3, <2>1 DEF Fine, Configured, Cfg
    <2>4. Private(d, call[d])'
      BY <1>2, <1>3, <2>1 DEF Fine, Private, AtRest, RestPcs
    <2> QED
      BY <2>2, <2>3, <2>4 DEF Fine
  <1> QED
    BY <1>1, <1>2, <1>3

\* With them it is enough to look at the connect that steps.
LEMMA StepOf ==
    ASSUME IInv, NEW c \in Calls, ~AtRest(c), NEW x, call' = [call EXCEPT ![c] = x],
           world' = world, UNCHANGED config \/ (config'.by = c /\ config'.doc.top["secret"] = c),
           IsDocument(cache'.doc), CacheIsNotEmptied', ConfigKept', Fine(c)'
    PROVE  IInv'
  <1>1. DOMAIN call' = Calls /\ \A d \in Calls \ {c} : Fine(d)'
    BY OthersAreFine DEF IInv
  <1> QED
    BY <1>1 DEF IInv, WorldKept

LEMMA ConfigStays == ASSUME ConfigKept, UNCHANGED <<world, config>> PROVE ConfigKept'
  BY DEF ConfigKept, TunnelAsGranted, SingboxResolves, Ios

\* A connect that ends, well or not, or stays where it was but for its tries.
LEMMA Rests ==
    ASSUME IInv, NEW c \in Calls, ~AtRest(c), NEW x, call' = [call EXCEPT ![c] = x],
           UNCHANGED <<world, config>>, IsDocument(cache'.doc), CacheIsNotEmptied',
           Shaped(x), ~x.alone, ~x.told \/ x.pc = "refused", x.pc \in RestPcs,
           Ios => x.pc = "idle"
    PROVE  IInv'
  <1>1. call'[c] = x
    BY DEF IInv, WorldKept
  <1>2. Fine(c)'
    BY <1>1 DEF Fine, Shaped, Placed, Configured, Private, RestPcs, Ios
  <1> QED
    BY <1>2, StepOf, ConfigStays DEF IInv

\* What the updates of a connect leave alone.
LEMMA Shapes ==
    ASSUME NEW k, Shaped(k), NEW p, NEW v, NEW t, NEW m \in Modes, NEW o, NEW d, IsDocument(d)
    PROVE  /\ LET x == [k EXCEPT !.pc = p]
              IN /\ Shaped(x) /\ x.pc = p /\ x.via = k.via /\ x.text = k.text /\ x.told = k.told
                 /\ x.alone = k.alone /\ x.acc = k.acc /\ x.owner = k.owner /\ x.mode = k.mode
           /\ LET x == [k EXCEPT !.pc = p, !.via = v]
              IN /\ Shaped(x) /\ x.pc = p /\ x.via = v /\ x.text = k.text /\ x.told = k.told
                 /\ x.alone = k.alone /\ x.acc = k.acc
           /\ LET x == [k EXCEPT !.pc = p, !.tries = t]
              IN /\ Shaped(x) /\ x.pc = p /\ x.text = k.text /\ x.told = k.told
                 /\ x.alone = k.alone /\ x.acc = k.acc
           /\ LET x == [k EXCEPT !.pc = p, !.via = v, !.text = d]
              IN /\ Shaped(x) /\ x.pc = p /\ x.via = v /\ x.text = d /\ x.told = k.told
                 /\ x.alone = k.alone /\ x.acc = k.acc
           /\ LET x == [k EXCEPT !.pc = p, !.text = d, !.owner = o]
              IN /\ Shaped(x) /\ x.pc = p /\ x.via = k.via /\ x.text = d /\ x.told = k.told
                 /\ x.alone = k.alone /\ x.acc = k.acc /\ x.owner = o
           /\ LET x == [k EXCEPT !.pc = p, !.mode = m]
              IN /\ Shaped(x) /\ x.pc = p /\ x.via = k.via /\ x.text = k.text /\ x.told = k.told
                 /\ x.alone = k.alone /\ x.acc = k.acc /\ x.owner = k.owner /\ x.mode = m
  <1>0. DOMAIN k = {"pc", "acc", "tries", "mode", "via", "text", "owner", "alone", "told"}
    BY DEF Shaped, NoCall
  <1>1. IsDocument(k.text) /\ k.mode \in Modes /\ DOMAIN k = DOMAIN NoCall
    BY DEF Shaped
  <1>2. LET x == [k EXCEPT !.pc = p]
        IN /\ Shaped(x) /\ x.pc = p /\ x.via = k.via /\ x.text = k.text /\ x.told = k.told
           /\ x.alone = k.alone /\ x.acc = k.acc /\ x.owner = k.owner /\ x.mode = k.mode
    BY <1>0, <1>1 DEF Shaped
  <1>3. LET x == [k EXCEPT !.pc = p, !.via = v]
        IN /\ Shaped(x) /\ x.pc = p /\ x.via = v /\ x.text = k.text /\ x.told = k.told
           /\ x.alone = k.alone /\ x.acc = k.acc
    BY <1>0, <1>1 DEF Shaped
  <1>5. LET x == [k EXCEPT !.pc = p, !.tries = t]
        IN /\ Shaped(x) /\ x.pc = p /\ x.text = k.text /\ x.told = k.told
           /\ x.alone = k.alone /\ x.acc = k.acc
    BY <1>0, <1>1 DEF Shaped
  <1>6. LET x == [k EXCEPT !.pc = p, !.via = v, !.text = d]
        IN /\ Shaped(x) /\ x.pc = p /\ x.via = v /\ x.text = d /\ x.told = k.told
           /\ x.alone = k.alone /\ x.acc = k.acc
    BY <1>0, <1>1 DEF Shaped
  <1>7. LET x == [k EXCEPT !.pc = p, !.text = d, !.owner = o]
        IN /\ Shaped(x) /\ x.pc = p /\ x.via = k.via /\ x.text = d /\ x.told = k.told
           /\ x.alone = k.alone /\ x.acc = k.acc /\ x.owner = o
    BY <1>0, <1>1 DEF Shaped
  <1>8. LET x == [k EXCEPT !.pc = p, !.mode = m]
        IN /\ Shaped(x) /\ x.pc = p /\ x.via = k.via /\ x.text = k.text /\ x.told = k.told
           /\ x.alone = k.alone /\ x.acc = k.acc /\ x.owner = k.owner /\ x.mode = m
    BY <1>0, <1>1 DEF Shaped
  <1> QED
    BY <1>2, <1>3, <1>5, <1>6, <1>7, <1>8

LEMMA Tried ==
    ASSUME NEW c, Shaped(call[c])
    PROVE  /\ Shaped(Again(c)) /\ Again(c).pc = "fetch" /\ Again(c).told = call[c].told
           /\ Again(c).alone = call[c].alone /\ Again(c).acc = call[c].acc
  <1>1. IsDocument(call[c].text)
    BY DEF Shaped
  <1> DEFINE k == call[c]
             t == k.tries + 1
  <1>2. Again(c) = [k EXCEPT !.pc = "fetch", !.tries = t]
    BY DEF Again
  <1> HIDE DEF k, t
  <1>3. Shaped(k)
    BY DEF k
  <1>4. LET x == [k EXCEPT !.pc = "fetch", !.tries = t]
        IN /\ Shaped(x) /\ x.pc = "fetch" /\ x.told = k.told
           /\ x.alone = k.alone /\ x.acc = k.acc
    BY <1>3, Shapes DEF Shaped, Modes
  <1> QED
    BY <1>2, <1>4 DEF k

\* The connect goes on, short of the configuration.
LEMMA Moves ==
    ASSUME IInv, NEW c \in Calls, ~AtRest(c), NEW x, call' = [call EXCEPT ![c] = x],
           UNCHANGED <<world, config>>, IsDocument(cache'.doc), CacheIsNotEmptied',
           Shaped(x), x.alone = call[c].alone, x.told = call[c].told, x.acc = call[c].acc,
           x.pc \in {"fetch", "write", "read"},
           x.via = "server" /\ x.pc = "read" => cache'.owner = x.acc
    PROVE  IInv'
  <1>1. call'[c] = x /\ \A d \in Calls \ {c} : call'[d] = call[d]
    BY OthersAreFine DEF IInv
  <1>2. Fine(c) /\ call[c].pc \notin RestPcs
    BY DEF IInv, AtRest, RestPcs
  <1>3. ~Ios /\ ~call[c].told /\ call[c].acc \in Accounts
    BY <1>2 DEF Fine, Placed, RestPcs
  <1>4. Placed(call[c])' /\ Shaped(call[c])' /\ Configured(c, call[c])'
    BY <1>1, <1>3 DEF Placed, Shaped, Configured, Ios, RestPcs
  <1>5. x.alone => \A e \in Calls \ {c} : AtRest(e)'
    BY <1>1, <1>2 DEF Fine, Private, AtRest
  <1>6. Private(c, call[c])'
    BY <1>1, <1>5 DEF Private, RestPcs
  <1> QED
    BY <1>4, <1>6, StepOf, ConfigStays DEF IInv, Fine

LEMMA FetchSteps ==
    ASSUME IInv, NEW c \in Calls,
           Refused(c) \/ Unreachable(c) \/ EmptyAnswer(c) \/ Answer(c)
    PROVE  IInv'
  <1>1. call[c].pc = "fetch" /\ ~AtRest(c) /\ UNCHANGED <<world, config>>
    BY DEF Refused, Unreachable, EmptyAnswer, Answer, AtRest
  <1>2. Shaped(call[c]) /\ IsDocument(cache.doc) /\ DOMAIN call = Calls /\ CacheIsNotEmptied
    BY DEF IInv, Fine, WorldKept
  <1>3. ~Ios
    BY <1>1 DEF IInv, Fine, Placed
  \* What leaves the cache alone.
  <1>4. ASSUME UNCHANGED <<cache, torn>> PROVE IsDocument(cache'.doc) /\ CacheIsNotEmptied'
    BY <1>2, <1>4 DEF CacheIsNotEmptied
  <1>5. ASSUME NEW p \in {"failed", "refused"}, UNCHANGED <<cache, torn>>,
               call' = [call EXCEPT ![c] = FromCacheOr(c, p)]
        PROVE  IInv'
    <2>1. CASE CacheIsUsable
      <3> DEFINE x == [call[c] EXCEPT !.pc = "read", !.via = "cache"]
      <3>1. /\ Shaped(x) /\ x.pc = "read" /\ x.via = "cache" /\ x.told = call[c].told
            /\ x.alone = call[c].alone /\ x.acc = call[c].acc
        BY <1>2, Shapes DEF Shaped
      <3>2. call' = [call EXCEPT ![c] = x]
        BY <1>5, <2>1 DEF FromCacheOr
      <3> HIDE DEF x
      <3> QED
        BY <1>1, <1>4, <1>5, <3>1, <3>2, Moves
    <2>2. CASE ~CacheIsUsable
      <3>1. call' = [call EXCEPT ![c] = Ended(p)]
        BY <1>5, <2>2 DEF FromCacheOr
      <3>2. Shaped(Ended(p)) /\ Ended(p).pc = p /\ Ended(p).told = FALSE /\ Ended(p).alone = FALSE
        BY NoCallIs
      <3> QED
        BY <1>1, <1>3, <1>4, <1>5, <3>1, <3>2, Rests DEF RestPcs
    <2> QED
      BY <2>1, <2>2
  <1>6. CASE Refused(c)
    <2> DEFINE x == [Ended("refused") EXCEPT !.told = TRUE]
    <2>1. Ended("refused").text = EmptyDoc /\ Ended("refused").mode = "Tun"
          /\ x.pc = "refused" /\ x.text = EmptyDoc /\ x.mode = "Tun" /\ x.alone = FALSE
          /\ DOMAIN x = DOMAIN NoCall
      BY DEF Ended, NoCall
    <2>2. Shaped(x)
      BY <2>1, NoCallIs DEF Shaped
    <2>3. call' = [call EXCEPT ![c] = x] /\ UNCHANGED <<cache, torn>>
      BY <1>6 DEF Refused
    <2> HIDE DEF x
    <2> QED
      BY <1>1, <1>3, <1>4, <2>1, <2>2, <2>3, Rests DEF RestPcs
  <1>7. CASE Unreachable(c)
    <2>1. UNCHANGED <<cache, torn>>
      BY <1>7 DEF Unreachable
    <2>2. CASE CacheIsUsable \/ call[c].tries = MaxRetries
      <3>1. call' = [call EXCEPT ![c] = FromCacheOr(c, "failed")]
        BY <1>7, <2>2 DEF Unreachable
      <3> QED
        BY <1>5, <2>1, <3>1
    <2>3. CASE ~(CacheIsUsable \/ call[c].tries = MaxRetries)
      <3> DEFINE x == Again(c)
      <3>1. /\ Shaped(x) /\ x.pc = "fetch" /\ x.told = call[c].told
            /\ x.alone = call[c].alone /\ x.acc = call[c].acc
        BY <1>2, Tried
      <3>2. call' = [call EXCEPT ![c] = x]
        BY <1>7, <2>3 DEF Unreachable
      <3> HIDE DEF x
      <3> QED
        BY <1>1, <1>4, <2>1, <3>1, <3>2, Moves
    <2> QED
      BY <2>2, <2>3
  <1>8. CASE EmptyAnswer(c)
    BY <1>5, <1>8 DEF EmptyAnswer
  <1>9. CASE Answer(c)
    <2> DEFINE d == world.sub[call[c].acc]
               x == [call[c] EXCEPT !.pc = "write", !.via = "server", !.text = d]
    <2>0. IsDocument(d)
      <3>1. call[c].acc \in Accounts
        BY <1>1 DEF IInv, Fine, Placed, RestPcs
      <3> QED
        BY <3>1 DEF IInv, WorldKept
    <2>1. /\ Shaped(x) /\ x.pc = "write" /\ x.told = call[c].told
          /\ x.alone = call[c].alone /\ x.acc = call[c].acc
      <3> HIDE DEF d
      <3> QED
        BY <1>2, <2>0, Shapes DEF Shaped
    <2>2. call' = [call EXCEPT ![c] = x]
      BY <1>2, <1>9 DEF Answer
    <2>3. IsDocument(cache'.doc) /\ CacheIsNotEmptied'
      BY <1>9, NoCallIs DEF Answer, CacheIsNotEmptied, Shaped, NoCall
    <2> HIDE DEF x
    <2> QED
      BY <1>1, <2>1, <2>2, <2>3, Moves
  <1> QED
    BY <1>6, <1>7, <1>8, <1>9

LEMMA FileSteps ==
    ASSUME IInv, NEW c \in Calls, Write(c) \/ WriteFails(c) \/ Read(c)
    PROVE  IInv'
  <1>1. ~AtRest(c) /\ UNCHANGED <<world, config>>
    BY DEF Write, WriteFails, Read, AtRest
  <1>2. Shaped(call[c]) /\ IsDocument(cache.doc) /\ DOMAIN call = Calls /\ CacheIsNotEmptied
    BY DEF IInv, Fine, WorldKept
  <1>3. ~Ios /\ call[c].acc \in Accounts /\ ~call[c].told
    BY <1>1 DEF IInv, Fine, Placed, AtRest, RestPcs
  <1>4. IsDocument(call[c].text) /\ IsDocument(Cut(call[c].text))
    BY <1>2, Roots DEF Shaped
  <1>5. CASE Write(c)
    <2> DEFINE x == [call[c] EXCEPT !.pc = "read"]
    <2>1. /\ Shaped(x) /\ x.pc = "read" /\ x.told = call[c].told
          /\ x.alone = call[c].alone /\ x.acc = call[c].acc
      BY <1>2, Shapes DEF Shaped
    <2>2. call' = [call EXCEPT ![c] = x] /\ cache'.owner = call[c].acc
      BY <1>2, <1>5 DEF Write
    <2>3. IsDocument(cache'.doc) /\ CacheIsNotEmptied'
      BY <1>4, <1>5 DEF Write, CacheIsNotEmptied
    <2> HIDE DEF x
    <2> QED
      BY <1>1, <2>1, <2>2, <2>3, Moves
  <1>6. CASE WriteFails(c)
    <2>1. IsDocument(cache'.doc) /\ CacheIsNotEmptied'
      BY <1>4, <1>6 DEF WriteFails, CacheIsNotEmptied
    <2>2. CASE call[c].tries = MaxRetries
      <3>1. call' = [call EXCEPT ![c] = Ended("failed")]
        BY <1>2, <1>6, <2>2 DEF WriteFails
      <3>2. Shaped(Ended("failed")) /\ Ended("failed").pc = "failed"
            /\ Ended("failed").told = FALSE /\ Ended("failed").alone = FALSE
        BY NoCallIs
      <3> QED
        BY <1>1, <1>3, <2>1, <3>1, <3>2, Rests DEF RestPcs
    <2>3. CASE call[c].tries # MaxRetries
      <3> DEFINE x == Again(c)
      <3>1. /\ Shaped(x) /\ x.pc = "fetch" /\ x.told = call[c].told
            /\ x.alone = call[c].alone /\ x.acc = call[c].acc
        BY <1>2, Tried
      <3>2. call' = [call EXCEPT ![c] = x]
        BY <1>6, <2>3 DEF WriteFails
      <3> HIDE DEF x
      <3> QED
        BY <1>1, <2>1, <3>1, <3>2, Moves
    <2> QED
      BY <2>2, <2>3
  <1>7. CASE Read(c)
    <2>1. IsDocument(cache'.doc) /\ CacheIsNotEmptied'
      BY <1>2, <1>7 DEF Read, CacheIsNotEmptied
    <2>2. CASE ~SubscriptionHasNodes(cache.doc)
      <3>1. call' = [call EXCEPT ![c] = Ended("failed")]
        BY <1>7, <2>2 DEF Read
      <3>2. Shaped(Ended("failed")) /\ Ended("failed").pc = "failed"
            /\ Ended("failed").told = FALSE /\ Ended("failed").alone = FALSE
        BY NoCallIs
      <3> QED
        BY <1>1, <1>3, <2>1, <3>1, <3>2, Rests DEF RestPcs
    <2>3. CASE SubscriptionHasNodes(cache.doc)
      <3> DEFINE x == [call[c] EXCEPT !.pc = "patch", !.text = cache.doc, !.owner = cache.owner]
      <3>1. /\ Shaped(x) /\ x.pc = "patch" /\ x.via = call[c].via /\ x.text = cache.doc
            /\ x.told = call[c].told /\ x.alone = call[c].alone /\ x.acc = call[c].acc
            /\ x.owner = cache.owner
        BY <1>2, Shapes DEF Shaped
      <3>2. call' = [call EXCEPT ![c] = x]
        BY <1>2, <1>7, <2>3 DEF Read
      <3>3. primary' = PickPrimaryProxyGroup(cache.doc.groups) /\ call[c].pc = "read"
        BY <1>7, <2>3 DEF Read
      <3> HIDE DEF x
      <3>4. call'[c] = x /\ \A d \in Calls \ {c} : call'[d] = call[d]
        BY <1>1, <3>2, OthersAreFine DEF IInv
      <3>5. cache.doc.root = "mapping"
        BY <2>3 DEF SubscriptionHasNodes
      <3>6. Shaped(call[c])' /\ Placed(call[c])' /\ Configured(c, call[c])'
        <4>1. Shaped(call[c])'
          BY <3>1, <3>4 DEF Shaped
        <4>2. Placed(call[c])'
          BY <1>1, <1>3, <3>1, <3>4, <3>5 DEF Placed, Ios
        <4>3. Configured(c, call[c])'
          BY <3>1, <3>4 DEF Configured
        <4> QED
          BY <4>1, <4>2, <4>3
      <3>7. Private(c, call[c])
        BY DEF IInv, Fine
      <3>8. x.alone => \A e \in Calls \ {c} : AtRest(e)'
        BY <3>1, <3>3, <3>4, <3>7 DEF Private, AtRest, RestPcs
      <3>9. Private(c, call[c])'
        BY <3>1, <3>3, <3>4, <3>7, <3>8 DEF Private
      <3>10. Fine(c)'
        BY <3>6, <3>9 DEF Fine
      <3> QED
        BY <1>1, <2>1, <3>2, <3>10, StepOf, ConfigStays DEF IInv
    <2> QED
      BY <2>2, <2>3
  <1> QED
    BY <1>5, <1>6, <1>7

LEMMA SpawnSteps ==
    ASSUME IInv, NEW c \in Calls,
           PatchFails(c) \/ Spawn(c) \/ SpawnFails(c) \/ \E m \in Modes : Patch(c, m)
    PROVE  IInv'
  <1>1. ~AtRest(c) /\ UNCHANGED <<world, cache, primary, torn>>
    BY DEF Patch, PatchFails, Spawn, SpawnFails, AtRest
  <1>2. /\ Shaped(call[c]) /\ IsDocument(cache'.doc) /\ DOMAIN call = Calls /\ CacheIsNotEmptied'
        /\ Placed(call[c]) /\ Configured(c, call[c]) /\ Private(c, call[c])
    BY <1>1 DEF IInv, Fine, WorldKept, CacheIsNotEmptied
  <1>3. ~Ios /\ call[c].acc \in Accounts /\ ~call[c].told
    BY <1>1, <1>2 DEF Placed, AtRest, RestPcs
  <1>4. ASSUME call' = [call EXCEPT ![c] = Ended("failed")], UNCHANGED config
        PROVE  IInv'
    <2>1. Shaped(Ended("failed")) /\ Ended("failed").pc = "failed"
          /\ Ended("failed").told = FALSE /\ Ended("failed").alone = FALSE
      BY NoCallIs
    <2> QED
      BY <1>1, <1>2, <1>3, <1>4, <2>1, Rests DEF RestPcs
  <1>5. CASE PatchFails(c) \/ SpawnFails(c)
    BY <1>4, <1>5 DEF PatchFails, SpawnFails
  <1>6. CASE Spawn(c)
    <2>1. CASE config.doc.top["secret"] # c
      <3>1. call' = [call EXCEPT ![c] = Ended("failed")]
        BY <1>2, <1>6, <2>1 DEF Spawn
      <3> QED
        BY <1>4, <1>6, <3>1 DEF Spawn
    <2>2. CASE config.doc.top["secret"] = c
      <3> DEFINE x == [call[c] EXCEPT !.pc = "up"]
      <3>1. /\ Shaped(x) /\ x.pc = "up" /\ x.via = call[c].via /\ x.text = call[c].text
            /\ x.told = call[c].told /\ x.alone = call[c].alone /\ x.acc = call[c].acc
            /\ x.owner = call[c].owner
        BY <1>2, Shapes DEF Shaped
      <3>2. call' = [call EXCEPT ![c] = x] /\ UNCHANGED config /\ call[c].pc = "spawn"
        BY <1>2, <1>6, <2>2 DEF Spawn
      <3> HIDE DEF x
      <3>3. call'[c] = x
        BY <1>2, <3>2
      <3>4. Fine(c)'
        BY <1>1, <1>2, <1>3, <3>1, <3>2, <3>3
           DEF Fine, Shaped, Placed, Configured, Private, RestPcs, Ios
      <3> QED
        BY <1>1, <1>2, <3>2, <3>4, StepOf, ConfigStays DEF IInv
    <2> QED
      BY <2>1, <2>2
  <1>7. ASSUME NEW m \in Modes, Patch(c, m) PROVE IInv'
    <2> DEFINE x == [call[c] EXCEPT !.pc = "spawn", !.mode = m]
               text == call[c].text
               doc == PatchMihomo(text, Cfg(c, m))
    <2>1. /\ Shaped(x) /\ x.pc = "spawn" /\ x.via = call[c].via /\ x.text = text
          /\ x.told = call[c].told /\ x.alone = call[c].alone /\ x.acc = call[c].acc
          /\ x.owner = call[c].owner /\ x.mode = m
      BY <1>2, Shapes DEF Shaped
    <2>2. /\ call' = [call EXCEPT ![c] = x] /\ call[c].pc = "patch"
          /\ config' = [by |-> c, mode |-> m, doc |-> doc]
      BY <1>2, <1>7 DEF Patch
    <2>3. text.root = "mapping" /\ IsDocument(text)
      BY <1>2, <2>2 DEF Placed, Shaped
    <2>4. /\ doc.top["secret"] = c /\ doc.tun = Insert(text.tun, TunKeys(Cfg(c, m)))
      BY <2>3, Patched DEF Cfg
    <2>5. config'.by = c /\ config'.mode = m /\ config'.doc = doc
      BY <2>2
    <2>6. Cfg(c, m).mode = m /\ Cfg(c, m).fd = world.fd /\ Cfg(c, m)' = Cfg(c, m)
      BY <1>1 DEF Cfg
    <2> HIDE DEF x, doc, text
    <2>7. call'[c] = x /\ \A d \in Calls \ {c} : call'[d] = call[d]
      BY <1>2, <2>2
    <2>8. ConfigKept'
      <3>1. /\ "enable" \in DOMAIN TunKeys(Cfg(c, m))
            /\ TunKeys(Cfg(c, m))["enable"] = IF m = "Tun" THEN "true" ELSE "false"
            /\ m = "Tun" /\ world.fd # "none" =>
                 /\ {"file-descriptor", "auto-route"} \subseteq DOMAIN TunKeys(Cfg(c, m))
                 /\ TunKeys(Cfg(c, m))["file-descriptor"] = world.fd
                 /\ TunKeys(Cfg(c, m))["auto-route"] = "false"
        BY <2>6, TunSettings DEF Modes
      <3>2. /\ doc.tun["enable"] = IF m = "Tun" THEN "true" ELSE "false"
            /\ m = "Tun" /\ world.fd # "none" =>
                 doc.tun["file-descriptor"] = world.fd /\ doc.tun["auto-route"] = "false"
        BY <2>4, <3>1 DEF Insert, @@
      <3>3. TunnelAsGranted'
        BY <1>1, <2>5, <3>2 DEF TunnelAsGranted, Ios
      <3>4. SingboxResolves'
        BY <1>1, <1>3 DEF SingboxResolves, Ios
      <3> QED
        BY <2>5, <3>3, <3>4 DEF ConfigKept
    <2>9. Shaped(call[c])' /\ Placed(call[c])'
      BY <1>1, <1>3, <2>1, <2>3, <2>7 DEF Shaped, Placed, Ios
    <2>10. Configured(c, call[c])'
      BY <2>1, <2>4, <2>5, <2>6, <2>7 DEF Configured, doc
    <2>11. x.alone => \A e \in Calls \ {c} : AtRest(e)'
      BY <1>2, <2>1, <2>2, <2>7 DEF Private, AtRest, RestPcs
    <2>12. Private(c, call[c])'
      BY <1>1, <1>2, <2>1, <2>2, <2>7, <2>11 DEF Private, text
    <2>13. Fine(c)'
      BY <2>9, <2>10, <2>12 DEF Fine
    <2> QED
      BY <1>1, <1>2, <2>2, <2>4, <2>5, <2>8, <2>13, StepOf
  <1> QED
    BY <1>5, <1>6, <1>7

\* Where no connect has a configuration to spawn on yet, there is nothing to ask.
LEMMA ConnectStep ==
    ASSUME IInv, NEW c \in Calls, NEW acc \in Accounts, NEW m \in Modes, Connect(c, acc, m)
    PROVE  IInv'
  <1> DEFINE alone == \A e \in Calls \ {c} : AtRest(e)
             x == [NoCall EXCEPT !.pc = "fetch", !.acc = acc, !.mode = m, !.alone = alone]
             y(d) == LET a == call[d].alone /\ AtRest(d) IN [call[d] EXCEPT !.alone = a]
  <1>1. ~Ios /\ UNCHANGED <<world, cache, config, primary, torn>>
        /\ call' = [d \in Calls |-> IF d = c THEN x ELSE y(d)]
    BY DEF Connect
  <1>2. x.pc = "fetch" /\ x.acc = acc /\ x.mode = m /\ x.alone = alone /\ x.told = FALSE
        /\ x.via = "none" /\ x.text = NoCall.text /\ DOMAIN x = DOMAIN NoCall
    <2> HIDE DEF alone
    <2> QED
      BY DEF NoCall
  <1>3. Shaped(x)
    BY <1>2, NoCallIs DEF Shaped
  <1>4. ASSUME NEW d \in Calls \ {c}
        PROVE  /\ Shaped(y(d)) /\ y(d).pc = call[d].pc /\ y(d).acc = call[d].acc
               /\ y(d).mode = call[d].mode /\ y(d).alone = (call[d].alone /\ AtRest(d))
               /\ y(d).told = call[d].told /\ y(d).via = call[d].via
               /\ y(d).text = call[d].text /\ y(d).owner = call[d].owner
    <2> DEFINE k == call[d]
               a == k.alone /\ AtRest(d)
    <2>1. Shaped(k)
      BY DEF IInv, Fine
    <2>2. DOMAIN k = {"pc", "acc", "tries", "mode", "via", "text", "owner", "alone", "told"}
          /\ IsDocument(k.text) /\ k.mode \in Modes
      BY <2>1 DEF Shaped, NoCall
    <2>3. y(d) = [k EXCEPT !.alone = a]
      OBVIOUS
    <2> HIDE DEF k, a, y
    <2>4. LET z == [k EXCEPT !.alone = a]
          IN /\ Shaped(z) /\ z.pc = k.pc /\ z.acc = k.acc /\ z.mode = k.mode /\ z.alone = a
             /\ z.told = k.told /\ z.via = k.via /\ z.text = k.text /\ z.owner = k.owner
      BY <2>1, <2>2 DEF Shaped
    <2> QED
      BY <2>3, <2>4 DEF k, a
  <1> HIDE DEF x, y
  <1>5. DOMAIN call' = Calls /\ call'[c] = x /\ \A d \in Calls \ {c} : call'[d] = y(d)
    BY <1>1
  <1>6. Fine(c)'
    <2>1. Shaped(call[c])' /\ Placed(call[c])' /\ Configured(c, call[c])'
      BY <1>1, <1>2, <1>3, <1>5 DEF Shaped, Placed, Configured, Ios
    <2>2. alone => \A e \in Calls \ {c} : AtRest(e)'
      BY <1>4, <1>5 DEF AtRest
    <2>3. Private(c, call[c])'
      BY <1>2, <1>5, <2>2 DEF Private
    <2> QED
      BY <2>1, <2>3 DEF Fine
  <1>7. ASSUME NEW d \in Calls \ {c} PROVE Fine(d)'
    <2>1. Fine(d)
      BY DEF IInv
    <2>2. Shaped(call[d])'
      BY <1>4, <1>5 DEF Shaped
    <2>3. Placed(call[d])'
      BY <1>1, <1>4, <1>5, <2>1 DEF Fine, Placed, Ios
    <2>4. Configured(d, call[d])'
      BY <1>1, <1>4, <1>5, <2>1 DEF Fine, Configured, Cfg
    <2>5. Private(d, call[d])'
      BY <1>1, <1>4, <1>5, <2>1 DEF Fine, Private, AtRest, RestPcs
    <2> QED
      BY <2>2, <2>3, <2>4, <2>5 DEF Fine
  <1> QED
    BY <1>1, <1>5, <1>6, <1>7, ConfigStays DEF IInv, WorldKept, CacheIsNotEmptied

LEMMA IosConnectStep ==
    ASSUME IInv, NEW c \in Calls, NEW acc \in Accounts, NEW m \in Modes, IosConnect(c, acc, m)
    PROVE  IInv'
  <1> DEFINE text == world.sub[acc]
             x == [NoCall EXCEPT !.pc = "up", !.acc = acc, !.mode = m, !.text = text,
                                 !.owner = acc]
  <1>1. /\ Ios /\ UNCHANGED <<world, cache, primary, torn>> /\ call' = [call EXCEPT ![c] = x]
        /\ config' = [by |-> c, mode |-> m, doc |-> PatchSingbox(text, Cfg(c, m))]
    BY DEF IosConnect
  <1>2. IsDocument(text)
    BY DEF IInv, WorldKept
  <1>3. x.pc = "up" /\ x.mode = m /\ x.text = text /\ x.alone = FALSE /\ x.told = FALSE
        /\ DOMAIN x = DOMAIN NoCall
    <2> HIDE DEF text
    <2> QED
      BY DEF NoCall
  <1>4. Shaped(x)
    BY <1>2, <1>3 DEF Shaped
  <1>5. config'.doc = PatchSingbox(text, Cfg(c, m))
    BY <1>1
  <1>6. ReferencesResolve(config'.doc)
    BY <1>2, <1>5, SingboxRefers
  <1> HIDE DEF x
  <1>7. DOMAIN call' = Calls /\ call'[c] = x /\ \A d \in Calls \ {c} : call'[d] = call[d]
    BY <1>1 DEF IInv, WorldKept
  <1>8. ASSUME NEW d \in Calls PROVE Fine(d)'
    <2>1. Fine(d) /\ call[d].pc \in {"idle", "up"}
      BY <1>1 DEF IInv, Fine, Placed
    <2>2. CASE d = c
      BY <1>1, <1>3, <1>4, <1>7, <2>2
         DEF Fine, Shaped, Placed, Configured, Private, RestPcs, Ios
    <2>3. CASE d # c
      <3>1. call'[d] = call[d]
        BY <1>7, <2>3
      <3> QED
        BY <1>1, <2>1, <3>1 DEF Fine, Shaped, Placed, Configured, Private, RestPcs, Ios
    <2> QED
      BY <2>2, <2>3
  <1>9. ConfigKept'
    BY <1>1, <1>6 DEF ConfigKept, TunnelAsGranted, SingboxResolves, Ios
  <1> QED
    BY <1>1, <1>7, <1>8, <1>9 DEF IInv, WorldKept, CacheIsNotEmptied

LEMMA OtherSteps ==
    ASSUME IInv, (\E acc \in Accounts : Expire(acc)) \/ Kill \/ UNCHANGED vars
    PROVE  IInv'
  <1>1. ASSUME NEW acc \in Accounts, Expire(acc) PROVE IInv'
    <2>1. UNCHANGED <<cache, call, config, primary, torn>>
          /\ world' = [world EXCEPT !.sub = [@ EXCEPT ![acc] = Skeleton]]
      BY <1>1 DEF Expire
    <2> DEFINE sub == [world.sub EXCEPT ![acc] = Skeleton]
    <2>2. world' = [world EXCEPT !.sub = sub]
      BY <2>1
    <2>3. DOMAIN sub = Accounts /\ \A a \in Accounts : IsDocument(sub[a])
      BY NoCallIs, Roots DEF IInv, WorldKept, Shaped
    <2> HIDE DEF sub
    <2>4. /\ DOMAIN world' = DOMAIN world /\ world'.sub = sub /\ world'.fd = world.fd
          /\ world'.platform = world.platform
      BY <2>2 DEF IInv, WorldKept
    <2>5. WorldKept' /\ CacheIsNotEmptied'
      BY <2>1, <2>3, <2>4 DEF IInv, WorldKept, CacheIsNotEmptied
    <2>6. ConfigKept'
      BY <2>1, <2>4 DEF IInv, ConfigKept, TunnelAsGranted, SingboxResolves, Ios
    <2>7. ASSUME NEW c \in Calls PROVE Fine(c)'
      <3>1. Shaped(call[c])' /\ Placed(call[c])' /\ Private(c, call[c])'
        BY <2>1, <2>4 DEF IInv, Fine, Shaped, Placed, Private, Ios, AtRest, RestPcs
      <3>2. \A mm : Cfg(c, mm)' = Cfg(c, mm)
        BY <2>4 DEF Cfg
      <3>3. Configured(c, call[c])'
        BY <2>1, <3>2 DEF IInv, Fine, Configured
      <3> QED
        BY <3>1, <3>3 DEF Fine
    <2> QED
      BY <2>5, <2>6, <2>7 DEF IInv
  <1>2. CASE Kill
    <2>1. UNCHANGED <<world, cache, config, torn>> /\ call' = [c \in Calls |-> NoCall]
      BY <1>2 DEF Kill
    <2>2. \A c \in Calls : call'[c] = NoCall
      BY <2>1
    <2>3. \A c \in Calls : Fine(c)'
      BY <2>1, <2>2, NoCallIs DEF Fine, Shaped, Placed, Configured, Private, RestPcs
    <2> QED
      BY <2>1, <2>3, ConfigStays DEF IInv, WorldKept, CacheIsNotEmptied
  <1>3. CASE UNCHANGED vars
    <2>1. UNCHANGED <<world, cache, call, config, primary, torn>>
      BY <1>3 DEF vars
    <2>2. \A c \in Calls : Fine(c)'
      BY <2>1 DEF IInv, Fine, Shaped, Placed, Configured, Private, Ios, AtRest, RestPcs, Cfg
    <2> QED
      BY <2>1, <2>2, ConfigStays DEF IInv, WorldKept, CacheIsNotEmptied
  <1> QED
    BY <1>1, <1>2, <1>3

LEMMA Starts == ASSUME PipelineAssumption, Init PROVE IInv
  <1>1. WorldKept
    BY NoCallIs DEF PipelineAssumption, Init, WorldKept, NoCache, Shaped, NoCall
  <1>2. \A c \in Calls : Fine(c)
    BY NoCallIs DEF Init, Fine, Placed, Configured, Private, RestPcs
  <1>3. ConfigKept /\ CacheIsNotEmptied
    BY DEF Init, NoConfig, NoCache, ConfigKept, TunnelAsGranted, SingboxResolves,
           CacheIsNotEmptied
  <1> QED
    BY <1>1, <1>2, <1>3 DEF IInv

LEMMA Step == ASSUME IInv, [Next]_vars PROVE IInv'
  <1>1. CASE UNCHANGED vars \/ Kill \/ \E acc \in Accounts : Expire(acc)
    BY <1>1, OtherSteps
  <1>2. ASSUME NEW c \in Calls, NEW acc \in Accounts, NEW m \in Modes,
               Connect(c, acc, m) \/ IosConnect(c, acc, m)
        PROVE  IInv'
    BY <1>2, ConnectStep, IosConnectStep
  <1>3. ASSUME NEW c \in Calls,
               Refused(c) \/ Unreachable(c) \/ EmptyAnswer(c) \/ Answer(c)
        PROVE  IInv'
    BY <1>3, FetchSteps
  <1>4. ASSUME NEW c \in Calls, Write(c) \/ WriteFails(c) \/ Read(c) PROVE IInv'
    BY <1>4, FileSteps
  <1>5. ASSUME NEW c \in Calls,
               PatchFails(c) \/ Spawn(c) \/ SpawnFails(c) \/ \E m \in Modes : Patch(c, m)
        PROVE  IInv'
    BY <1>5, SpawnSteps
  <1> QED
    BY <1>1, <1>2, <1>3, <1>4, <1>5 DEF Next, Modes

\* The invariant the theorems below rest on: every connect holds what it fetched
\* and was granted, and what is stored is what some connect wrote (fetch.rs).
THEOREM Invariant == Spec => []IInv
  <1>1. Init => IInv
    BY PipelineAssumption, Starts
  <1>2. IInv /\ [Next]_vars => IInv'
    BY Step
  <1> QED
    BY <1>1, <1>2, PTL DEF Spec

-----------------------------------------------------------------------------
(* Types.                                                                  *)

Owners == Accounts \cup {NoName}

CallTyped(k) ==
    /\ k.pc \in {"idle", "fetch", "write", "read", "patch", "spawn", "up", "failed", "refused"}
    /\ k.acc \in Owners /\ k.owner \in Owners
    /\ k.tries \in 0..MaxRetries /\ k.via \in {"none", "server", "cache"}

\* What a step may make of a connect of the right type.
LEMMA CallsStayTyped ==
    ASSUME NEW k, DOMAIN k = DOMAIN NoCall, CallTyped(k)
    PROVE  /\ \A p \in {"write", "read", "patch", "spawn", "up"} : CallTyped([k EXCEPT !.pc = p])
           /\ \A t : CallTyped([k EXCEPT !.pc = "write", !.via = "server", !.text = t])
           /\ CallTyped([k EXCEPT !.pc = "read", !.via = "cache"])
           /\ \A t : \A o \in Owners : CallTyped([k EXCEPT !.pc = "patch", !.text = t, !.owner = o])
           /\ \A m : CallTyped([k EXCEPT !.pc = "spawn", !.mode = m])
           /\ k.tries # MaxRetries => CallTyped([k EXCEPT !.pc = "fetch", !.tries = k.tries + 1])
           /\ \A b : CallTyped([k EXCEPT !.alone = b])
  <1>1. {"pc", "acc", "tries", "mode", "via", "text", "owner", "alone", "told"} \subseteq DOMAIN k
    BY DEF NoCall
  <1>2. k.tries # MaxRetries => k.tries + 1 \in 0..MaxRetries
    BY PipelineAssumption DEF CallTyped
  <1> QED
    BY <1>1, <1>2 DEF CallTyped

LEMMA NewCalls ==
    /\ CallTyped(NoCall) /\ \A p \in {"failed", "refused"} : CallTyped(Ended(p))
    /\ CallTyped([Ended("refused") EXCEPT !.told = TRUE])
    /\ \A acc \in Accounts : \A m, b :
          CallTyped([NoCall EXCEPT !.pc = "fetch", !.acc = acc, !.mode = m, !.alone = b])
    /\ \A acc \in Accounts : \A m, t :
          CallTyped([NoCall EXCEPT !.pc = "up", !.acc = acc, !.mode = m, !.text = t, !.owner = acc])
  BY PipelineAssumption DEF NoCall, Ended, CallTyped, Owners

FilesTyped ==
    /\ cache.is \in {"none", "empty", "torn", "whole"} /\ cache.owner \in Owners
    /\ config.by \in Calls \cup {NoName} /\ torn \in BOOLEAN

LEMMA FilesKept ==
    ASSUME IInv, FilesTyped, \A c \in Calls : CallTyped(call[c]), [Next]_vars
    PROVE  FilesTyped'
  <1>1. cache'.is \in {"none", "empty", "torn", "whole"} /\ cache'.owner \in Owners
    <2>1. ASSUME NEW c \in Calls, Answer(c) \/ Write(c) \/ WriteFails(c)
          PROVE  cache'.is \in {"empty", "torn", "whole"} /\ cache'.owner = call[c].acc
      BY <2>1 DEF Answer, Write, WriteFails
    <2>2. UNCHANGED cache \/ \E c \in Calls : Answer(c) \/ Write(c) \/ WriteFails(c)
      BY DEF Next, vars, Connect, IosConnect, Refused, Unreachable, EmptyAnswer,
             Read, Patch, PatchFails, Spawn, SpawnFails, Expire, Kill
    <2> QED
      BY <2>1, <2>2 DEF FilesTyped, CallTyped
  <1>2. config'.by \in Calls \cup {NoName}
    <2>1. ASSUME NEW c \in Calls, NEW acc, NEW m, Patch(c, m) \/ IosConnect(c, acc, m)
          PROVE  config'.by = c
      BY <2>1 DEF Patch, IosConnect
    <2>2. \/ UNCHANGED config
          \/ \E c \in Calls : \E acc, m : Patch(c, m) \/ IosConnect(c, acc, m)
      BY DEF Next, vars, Connect, Refused, Unreachable, EmptyAnswer, Answer, Write, WriteFails,
             Read, PatchFails, Spawn, SpawnFails, Expire, Kill
    <2> QED
      BY <2>1, <2>2 DEF FilesTyped
  <1>3. torn' = torn \/ torn' = TRUE \/ torn' = FALSE
    BY DEF Next, vars, Connect, IosConnect, Refused, Unreachable, EmptyAnswer, Answer,
           Write, WriteFails, Read, Patch, PatchFails, Spawn, SpawnFails, Expire, Kill
  <1> QED
    BY <1>1, <1>2, <1>3 DEF FilesTyped

LEMMA CallsKept ==
    ASSUME IInv, FilesTyped, \A c \in Calls : CallTyped(call[c]), [Next]_vars
    PROVE  \A c \in Calls : CallTyped(call'[c])
  <1>1. DOMAIN call = Calls /\ \A c \in Calls : DOMAIN call[c] = DOMAIN NoCall
    BY DEF IInv, WorldKept, Fine, Shaped
  <1>2. ASSUME NEW c \in Calls, NEW r, CallTyped(r), call' = [call EXCEPT ![c] = r]
        PROVE  \A d \in Calls : CallTyped(call'[d])
    BY <1>1, <1>2
  <1>3. ASSUME NEW c \in Calls, NEW acc \in Accounts, NEW m, Connect(c, acc, m) \/ IosConnect(c, acc, m)
        PROVE  \A d \in Calls : CallTyped(call'[d])
    <2>1. CASE Connect(c, acc, m)
      <3>1. ASSUME NEW d \in Calls \ {c} PROVE CallTyped(call'[d])
        <4>1. call'[d] = [call[d] EXCEPT !.alone = call[d].alone /\ AtRest(d)]
          BY <2>1 DEF Connect
        <4>2. \A b : CallTyped([call[d] EXCEPT !.alone = b])
          BY <1>1, CallsStayTyped
        <4> QED
          BY <4>1, <4>2
      <3>2. CallTyped(call'[c])
        <4> DEFINE b == \A e \in Calls \ {c} : AtRest(e)
        <4>1. call'[c] = [NoCall EXCEPT !.pc = "fetch", !.acc = acc, !.mode = m, !.alone = b]
          BY <2>1 DEF Connect
        <4>2. \A x : CallTyped([NoCall EXCEPT !.pc = "fetch", !.acc = acc, !.mode = m, !.alone = x])
          BY NewCalls
        <4> HIDE DEF b
        <4> QED
          BY <4>1, <4>2
      <3> QED
        BY <3>1, <3>2
    <2>2. CASE IosConnect(c, acc, m)
      BY <1>2, <2>2, NewCalls DEF IosConnect
    <2> QED
      BY <1>3, <2>1, <2>2
  <1>4. ASSUME NEW c \in Calls, Refused(c) \/ PatchFails(c) \/ SpawnFails(c)
        PROVE  \A d \in Calls : CallTyped(call'[d])
    BY <1>2, <1>4, NewCalls DEF Refused, PatchFails, SpawnFails
  <1>5. ASSUME NEW c \in Calls, Unreachable(c) \/ EmptyAnswer(c) \/ WriteFails(c)
        PROVE  \A d \in Calls : CallTyped(call'[d])
    <2>1. /\ CallTyped(FromCacheOr(c, "failed")) /\ CallTyped(FromCacheOr(c, "refused"))
          /\ CallTyped(Ended("failed"))
          /\ call[c].tries # MaxRetries => CallTyped(Again(c))
      BY <1>1, NewCalls, CallsStayTyped DEF FromCacheOr, Again
    <2> QED
      BY <1>2, <1>5, <2>1 DEF Unreachable, EmptyAnswer, WriteFails
  <1>6. ASSUME NEW c \in Calls, Answer(c) \/ Write(c)
        PROVE  \A d \in Calls : CallTyped(call'[d])
    <2>1. /\ \A t : CallTyped([call[c] EXCEPT !.pc = "write", !.via = "server", !.text = t])
          /\ CallTyped([call[c] EXCEPT !.pc = "read"])
      BY <1>1, CallsStayTyped
    <2>2. CASE Answer(c)
      <3> DEFINE t == world.sub[call[c].acc]
      <3>1. call' = [call EXCEPT ![c] = [call[c] EXCEPT !.pc = "write", !.via = "server", !.text = t]]
        BY <2>2 DEF Answer
      <3> HIDE DEF t
      <3> QED
        BY <1>2, <2>1, <3>1
    <2>3. CASE Write(c)
      BY <1>2, <2>1, <2>3 DEF Write
    <2> QED
      BY <1>6, <2>2, <2>3
  <1>7. ASSUME NEW c \in Calls, Read(c) PROVE \A d \in Calls : CallTyped(call'[d])
    <2>1. CallTyped([call[c] EXCEPT !.pc = "patch", !.text = cache.doc, !.owner = cache.owner])
      BY <1>1, CallsStayTyped DEF FilesTyped
    <2> QED
      BY <1>1, <1>2, <1>7, <2>1, NewCalls DEF Read
  <1>8. ASSUME NEW c \in Calls, NEW m, Patch(c, m) PROVE \A d \in Calls : CallTyped(call'[d])
    <2>1. CallTyped([call[c] EXCEPT !.pc = "spawn", !.mode = m])
      BY <1>1, CallsStayTyped
    <2> QED
      BY <1>1, <1>2, <1>8, <2>1 DEF Patch
  <1>9. ASSUME NEW c \in Calls, Spawn(c) PROVE \A d \in Calls : CallTyped(call'[d])
    <2>1. CallTyped([call[c] EXCEPT !.pc = "up"])
      BY <1>1, CallsStayTyped
    <2> QED
      BY <1>2, <1>9, <2>1, NewCalls DEF Spawn
  <1>10. CASE UNCHANGED vars \/ Kill \/ \E acc \in Accounts : Expire(acc)
    BY <1>10, NewCalls DEF vars, Kill, Expire
  <1> QED
    BY <1>3, <1>4, <1>5, <1>6, <1>7, <1>8, <1>9, <1>10 DEF Next

\* Every variable keeps its type, for every set of subscriptions: a connect
\* tries its request no oftener than fetch.rs allows, and the cache and
\* config.yaml belong to an account and a connect there are.
THEOREM TypeCorrect == Spec => []TypeOK
  <1> DEFINE TInv == FilesTyped /\ \A c \in Calls : CallTyped(call[c])
  <1>1. Init => TInv
    <2> SUFFICES ASSUME Init PROVE TInv
      OBVIOUS
    <2>1. FilesTyped
      BY DEF Init, FilesTyped, NoCache, NoConfig, Owners
    <2> QED
      BY <2>1, NewCalls DEF Init
  <1>2. IInv /\ TInv /\ [Next]_vars => TInv'
    BY FilesKept, CallsKept
  <1>3. TInv => TypeOK
    BY DEF FilesTyped, CallTyped, Owners, TypeOK
  <1> QED
    BY <1>1, <1>2, <1>3, Invariant, PTL DEF Spec

-----------------------------------------------------------------------------
(* The theorems.                                                           *)

\* Whatever the subscriptions hold, a connect the panel refused never goes
\* on to a kernel, and one that ran alone and was answered runs on the
\* profile of its own account.
THEOREM Granted == Spec => []ProfileIsGranted
  <1>1. IInv => ProfileIsGranted
    BY DEF IInv, Fine, Placed, Private, ProfileIsGranted, RefusalIsFinal, OwnProfile
  <1> QED
    BY <1>1, Invariant, PTL

\* A usable cache is only ever lost to a write that was cut short.
THEOREM CacheSurvives == Spec => []CacheIsNotEmptied
  <1>1. IInv => CacheIsNotEmptied
    BY DEF IInv
  <1> QED
    BY <1>1, Invariant, PTL

\* The configuration mihomo starts on routes to the group the Home page
\* shows, keeps the panel's rules and resolvers, and has the tunnel that was
\* granted.
THEOREM ConfigIsRight == Spec => []MihomoConfigIsRight
  <1>1. ASSUME IInv PROVE RoutesAgree
    <2> SUFFICES ASSUME NEW c \in Calls, call[c].pc = "spawn", config.by = c, call[c].alone,
                        NeedsDefaultRules(call[c].text)
                 PROVE  config.doc.rules[8].target = (IF primary = NoName THEN "GLOBAL"
                                                      ELSE primary)
      BY DEF RoutesAgree
    <2> DEFINE text == call[c].text
               cfg == Cfg(c, call[c].mode)
    <2>1. /\ Shaped(call[c]) /\ text.root = "mapping" /\ config.doc = PatchMihomo(text, cfg)
          /\ primary = PickPrimaryProxyGroup(text.groups)
      BY <1>1 DEF IInv, Fine, Placed, Configured, Private
    <2>2. IsDocument(text) /\ DOMAIN text.groups \subseteq Nat
      BY <2>1 DEF Shaped, IsDocument
    <2>3. config.doc.rules = DefaultRules(DefaultTarget(text.groups))
      BY <2>1, <2>2, Patched
    <2>4. primary = PickDefaultProxyTarget(text.groups)
      BY <2>1, <2>2, ReadersAgree
    <2> QED
      BY <2>3, <2>4, LastRule DEF DefaultTarget
  <1>2. ASSUME IInv PROVE PolicyIsKept
    <2> SUFFICES ASSUME NEW c \in Calls, call[c].pc = "spawn", config.by = c
                 PROVE  LET text == call[c].text IN
                        /\ ~NeedsDefaultRules(text) => config.doc.rules = text.rules
                        /\ \A k \in DOMAIN text.dns : config.doc.dns[k] = text.dns[k]
                        /\ config.doc.groups = text.groups /\ config.doc.proxies = text.proxies
      BY DEF PolicyIsKept
    <2> DEFINE text == call[c].text
               cfg == Cfg(c, call[c].mode)
    <2>1. Shaped(call[c]) /\ text.root = "mapping" /\ config.doc = PatchMihomo(text, cfg)
      BY <1>2 DEF IInv, Fine, Placed, Configured
    <2>2. IsDocument(text)
      BY <2>1 DEF Shaped
    <2> HIDE DEF cfg
    <2> QED
      BY <2>1, <2>2, Patched
  <1>3. IInv => TunnelAsGranted
    BY DEF IInv, ConfigKept
  <1>4. IInv => MihomoConfigIsRight
    BY <1>1, <1>2, <1>3 DEF MihomoConfigIsRight
  <1> QED
    BY <1>4, Invariant, PTL

\* What is rendered on iOS names only nodes, groups and rule sets it defines.
THEOREM RenderedResolves == Spec => []SingboxResolves
  <1>1. IInv => SingboxResolves
    BY DEF IInv, ConfigKept
  <1> QED
    BY <1>1, Invariant, PTL

\* A connect goes from "spawn" to "up" only where its secret is in the file.
LEMMA OnlySpawnGoesUp ==
    ASSUME IInv, [Next]_vars, NEW c \in Calls, call[c].pc = "spawn", call'[c].pc = "up"
    PROVE  config.doc.top["secret"] = c
  <1>1. ~Ios /\ DOMAIN call = Calls /\ ~AtRest(c)
    BY DEF IInv, WorldKept, Fine, Placed, AtRest
  <1>2. CASE UNCHANGED vars \/ Kill \/ \E acc \in Accounts : Expire(acc)
    BY <1>2, NoCallIs DEF vars, Kill, Expire
  <1>3. ASSUME NEW d \in Calls, NEW acc \in Accounts, NEW m \in Modes,
               Connect(d, acc, m) \/ IosConnect(d, acc, m)
        PROVE  FALSE
    <2>1. Connect(d, acc, m) /\ d # c
      BY <1>1, <1>3 DEF Connect, IosConnect
    <2> DEFINE a == call[c].alone /\ AtRest(c)
    <2>2. call'[c] = [call[c] EXCEPT !.alone = a]
      BY <2>1 DEF Connect
    <2> HIDE DEF a
    <2>3. call'[c].pc = call[c].pc
      BY <2>2
    <2> QED
      BY <2>3
  <1>4. ASSUME NEW d \in Calls,
               \/ Refused(d) \/ Unreachable(d) \/ EmptyAnswer(d) \/ Answer(d)
               \/ Write(d) \/ WriteFails(d) \/ Read(d)
               \/ PatchFails(d) \/ Spawn(d) \/ SpawnFails(d) \/ \E m \in Modes : Patch(d, m)
        PROVE  config.doc.top["secret"] = c
    <2>1. CASE d # c
      <3>1. PICK x : call' = [call EXCEPT ![d] = x]
        BY <1>4 DEF Refused, Unreachable, EmptyAnswer, Answer, Write, WriteFails, Read,
                    PatchFails, Spawn, SpawnFails, Patch
      <3> QED
        BY <1>1, <2>1, <3>1
    <2>2. CASE d = c
      <3>1. Spawn(c) \/ SpawnFails(c)
        BY <1>4, <2>2 DEF Refused, Unreachable, EmptyAnswer, Answer, Write, WriteFails, Read,
                          PatchFails, Patch
      <3>2. CASE config.doc.top["secret"] # c \/ SpawnFails(c)
        <4>1. call' = [call EXCEPT ![c] = Ended("failed")]
          BY <3>1, <3>2 DEF Spawn, SpawnFails
        <4> QED
          BY <1>1, <4>1, NoCallIs
      <3> QED
        BY <3>2
    <2> QED
      BY <2>1, <2>2
  <1> QED
    BY <1>2, <1>3, <1>4 DEF Next, Modes

\* However connects overlap on the one configuration file, one that succeeds
\* started a kernel on its own text and mode.
THEOREM OwnConfig == Spec => RunsOwnConfig
  <1>1. ASSUME IInv, [Next]_vars PROVE UpOnOwnConfig
    <2> SUFFICES ASSUME NEW c \in Calls, call[c].pc = "spawn", call'[c].pc = "up"
                 PROVE  /\ config.mode = call[c].mode
                        /\ config.doc = PatchMihomo(call[c].text, Cfg(c, call[c].mode))
      BY DEF UpOnOwnConfig
    <2>1. config.doc.top["secret"] = c
      BY <1>1, OnlySpawnGoesUp
    <2> QED
      BY <1>1, <2>1 DEF IInv, Fine, Configured
  <1> QED
    BY <1>1, Invariant, PTL DEF Spec, RunsOwnConfig

-----------------------------------------------------------------------------
(* What is rendered for sing-box keeps TLS, and does not leak.             *)

\* A name asked for under either key is the name kept.
LEMMA TlsIsKept ==
    ASSUME NEW p, WantsTls(p)
    PROVE  LET tls == TranslateTls(p)
               named == {key \in {"servername", "sni"} : Has(p, key)}
           IN /\ Has(tls, "enabled")
              /\ named # {} => /\ Has(tls, "server_name")
                               /\ tls["server_name"] \in {p[key] : key \in named}
  <1> DEFINE rest == Take(p, "skip-cert-verify", "insecure") @@ Take(p, "alpn", "alpn") @@ Reality(p)
             tls == TranslateTls(p)
             named == {key \in {"servername", "sni"} : Has(p, key)}
  <1>1. tls = ("enabled" :> "true") @@ Take(p, "servername", "server_name")
              @@ Take(p, "sni", "server_name") @@ Take(p, "skip-cert-verify", "insecure")
              @@ Take(p, "alpn", "alpn") @@ Reality(p)
    BY DEF TranslateTls
  <1>2. "enabled" \in DOMAIN tls
    BY <1>1 DEF :>, @@
  <1>3. CASE Has(p, "servername")
    <2>1. Take(p, "servername", "server_name") = [x \in {"server_name"} |-> p["servername"]]
      BY <1>3 DEF Take, :>
    <2>2. "server_name" \in DOMAIN tls /\ tls["server_name"] = p["servername"]
      BY <1>1, <2>1 DEF :>, @@
    <2> QED
      BY <1>2, <1>3, <2>2 DEF Has
  <1>4. CASE ~Has(p, "servername") /\ Has(p, "sni")
    <2>1. /\ Take(p, "servername", "server_name") = NoKeys
          /\ Take(p, "sni", "server_name") = [x \in {"server_name"} |-> p["sni"]]
      BY <1>4 DEF Take, :>
    <2>2. "server_name" \in DOMAIN tls /\ tls["server_name"] = p["sni"]
      BY <1>1, <2>1 DEF :>, @@, NoKeys
    <2> QED
      BY <1>2, <1>4, <2>2 DEF Has
  <1>5. CASE ~Has(p, "servername") /\ ~Has(p, "sni")
    BY <1>2, <1>5 DEF Has
  <1> QED
    BY <1>3, <1>4, <1>5

\* Whatever the subscription, a translated node that runs over TLS has it.
LEMMA SingboxSpeaksTls ==
    ASSUME NEW text, NEW cfg
    PROVE  TlsSurvives(Root(text), PatchSingbox(text, cfg))
  <1> DEFINE doc == Root(text)
             sb == PatchSingbox(text, cfg)
  <1>1. sb.nodes = [i \in Nodes(doc) |-> TranslateProxy(doc.proxies[i])]
    BY DEF PatchSingbox
  <1> HIDE DEF doc, sb
  <1> SUFFICES ASSUME NEW i \in Nodes(doc), NEW p, p = doc.proxies[i], OverTls(p)
               PROVE  LET named == {key \in {"servername", "sni"} : Has(p, key)}
                          tls == TranslateProxy(p).tls
                      IN /\ Has(tls, "enabled")
                         /\ named # {} /\ (p["type"] = Kind(p) \/ AsksForTls(p)) =>
                              /\ Has(tls, "server_name")
                              /\ tls["server_name"] \in {p[key] : key \in named}
    BY <1>1 DEF TlsSurvives, doc, sb
  <1> DEFINE named == {key \in {"servername", "sni"} : Has(p, key)}
             tls == TranslateProxy(p).tls
             base == TranslateTls(p)
             full == Insert("enabled" :> "true", base)
  <1>2. tls = CASE Kind(p) = "ss" -> NoKeys
                [] Kind(p) \in TlsKinds -> full
                [] OTHER -> base
    BY DEF TranslateProxy
  <1>3. /\ Has(full, "enabled") /\ (Has(base, "server_name") => Has(full, "server_name"))
        /\ Has(base, "server_name") => full["server_name"] = base["server_name"]
    <2> HIDE DEF base
    <2> QED
      BY DEF Insert, Has, :>, @@
  <1>4. WantsTls(p) => /\ Has(base, "enabled")
                       /\ named # {} => /\ Has(base, "server_name")
                                        /\ base["server_name"] \in {p[key] : key \in named}
    BY TlsIsKept
  <1>5. /\ AsksForTls(p) => WantsTls(p)
        /\ p["type"] = Kind(p) /\ Kind(p) \in TlsKinds => WantsTls(p)
        /\ Kind(p) # "ss" /\ (Kind(p) \in TlsKinds \/ AsksForTls(p))
    BY DEF AsksForTls, WantsTls, OverTls
  <1> HIDE DEF full, base, named, tls
  <1>6. Kind(p) \in TlsKinds => tls = full
    BY <1>2, <1>5
  <1>7. Kind(p) \notin TlsKinds => tls = base
    BY <1>2, <1>5
  <1>8. Has(tls, "enabled")
    BY <1>3, <1>4, <1>5, <1>6, <1>7
  <1>9. named # {} /\ (p["type"] = Kind(p) \/ AsksForTls(p)) =>
            Has(tls, "server_name") /\ tls["server_name"] \in {p[key] : key \in named}
    BY <1>3, <1>4, <1>5, <1>6, <1>7
  <1> QED
    BY <1>8, <1>9 DEF named, tls

\* What sing-box calls its own outbound names nothing else in the document.
Unambiguous(doc) ==
    /\ \A i \in DOMAIN doc.proxies : Has(doc.proxies[i], "name") => doc.proxies[i]["name"] # "direct"
    /\ \A i \in DOMAIN doc.groups : doc.groups[i].name # "direct"
    /\ \A i \in DOMAIN doc.rules : doc.rules[i].target # "direct"

LEMMA SingboxKeepsIn ==
    ASSUME NEW text, NEW cfg, IsDocument(text), Unambiguous(text)
    PROVE  NothingLeaks(Root(text), PatchSingbox(text, cfg))
  <1> DEFINE doc == Root(text)
             sb == PatchSingbox(text, cfg)
             rules == [i \in TranslatedRules(doc) |-> TranslateRule(doc.rules[i], doc)]
  <1>1. sb.final = DefaultOutbound(doc) /\ (TranslatedRules(doc) # {} => sb.rules = rules)
    BY DEF PatchSingbox
  <1>2. IsDocument(doc) /\ Unambiguous(doc)
    <2>1. DOMAIN EmptyDoc.proxies = {} /\ DOMAIN EmptyDoc.groups = {} /\ DOMAIN EmptyDoc.rules = {}
      BY DEF EmptyDoc
    <2>2. Unambiguous(EmptyDoc)
      BY <2>1 DEF Unambiguous
    <2> QED
      BY <2>2, Roots DEF Root
  <1> HIDE DEF doc, sb
  <1> SUFFICES ASSUME Nodes(doc) # {}
               PROVE  /\ sb.final # "direct"
                      /\ TranslatedRules(doc) # {} =>
                            \A hits \in SUBSET DOMAIN doc.rules :
                                LET kept == hits \cap TranslatedRules(doc)
                                IN Egress(sb, kept) = "direct" =>
                                      kept # {} /\ doc.rules[Earliest(kept)].target = "DIRECT"
    BY DEF NothingLeaks, doc, sb
  <1>3. \A i \in Nodes(doc) : doc.proxies[i]["name"] # "direct"
    BY <1>2 DEF Nodes, Translates, Unambiguous
  <1>4. DefaultOutbound(doc) # "direct"
    <2>1. CASE TranslatedGroups(doc) # {}
      <3>1. TranslatedGroups(doc) \subseteq DOMAIN doc.groups /\ DOMAIN doc.groups \subseteq Nat
        BY <1>2 DEF TranslatedGroups, Named, IsDocument
      <3>2. Earliest(TranslatedGroups(doc)) \in DOMAIN doc.groups
        BY <2>1, <3>1, EarliestIsLeast
      <3> QED
        BY <1>2, <2>1, <3>2 DEF DefaultOutbound, Unambiguous
    <2>2. CASE TranslatedGroups(doc) = {}
      <3>1. Nodes(doc) \subseteq Nat
        BY <1>2 DEF Nodes, IsDocument
      <3>2. Earliest(Nodes(doc)) \in Nodes(doc)
        BY <3>1, EarliestIsLeast
      <3> QED
        BY <1>3, <2>2, <3>2 DEF DefaultOutbound
    <2> QED
      BY <2>1, <2>2
  <1>5. ASSUME NEW i \in TranslatedRules(doc), doc.rules[i].target # "DIRECT"
        PROVE  sb.rules[i].outbound # "direct"
    <2> DEFINE target == doc.rules[i].target
    <2>1. i \in DOMAIN doc.rules
      BY <1>5 DEF TranslatedRules
    <2>2. target # "direct" /\ target # "DIRECT"
      BY <1>2, <1>5, <2>1 DEF Unambiguous
    <2>3. sb.rules[i].outbound = ResolveTarget(target, doc)
      <3>1. sb.rules[i] = TranslateRule(doc.rules[i], doc)
        BY <1>1, <1>5
      <3> QED
        BY <3>1 DEF TranslateRule
    <2> HIDE DEF target
    <2>4. ResolveTarget(target, doc) \in {"block", target, DefaultOutbound(doc)}
      BY <2>2 DEF ResolveTarget
    <2> QED
      BY <1>4, <2>2, <2>3, <2>4
  <1>6. ASSUME NEW hits \in SUBSET DOMAIN doc.rules,
               NEW kept, kept = hits \cap TranslatedRules(doc), Egress(sb, kept) = "direct"
        PROVE  kept # {} /\ doc.rules[Earliest(kept)].target = "DIRECT"
    <2>1. kept # {}
      BY <1>1, <1>4, <1>6 DEF Egress
    <2>2. DOMAIN doc.rules \subseteq Nat
      BY <1>2 DEF IsDocument
    <2>3. Earliest(kept) \in TranslatedRules(doc)
      BY <1>6, <2>1, <2>2, EarliestIsLeast
    <2> QED
      BY <1>5, <1>6, <2>1, <2>3 DEF Egress
  <1> QED
    BY <1>1, <1>4, <1>6

\* On iOS the configuration there is what its connect's text is rendered to.
Rendered ==
    Ios => \A c \in Calls : config.by = c =>
              config.doc = PatchSingbox(call[c].text, Cfg(c, config.mode))

\* None of the documents has taken sing-box's name for what goes out directly.
Clean ==
    Ios => /\ \A acc \in Accounts : Unambiguous(world.sub[acc])
           /\ \A c \in Calls : Unambiguous(call[c].text)

LEMMA NothingIsUnambiguous == Unambiguous(EmptyDoc) /\ Unambiguous(Skeleton)
  <1>1. DOMAIN EmptyDoc.proxies = {} /\ DOMAIN EmptyDoc.groups = {} /\ DOMAIN EmptyDoc.rules = {}
    BY DEF EmptyDoc
  <1> DEFINE last == [Rule("MATCH", "", "DIRECT") EXCEPT !.parts = 2]
  <1>2. last.target = "DIRECT"
    BY DEF Rule
  <1> HIDE DEF last
  <1>3. /\ Skeleton.proxies = EmptyDoc.proxies /\ Skeleton.groups = EmptyDoc.groups
        /\ Skeleton.rules = <<last>>
    BY DEF Skeleton, EmptyDoc, last
  <1> QED
    BY <1>1, <1>2, <1>3 DEF Unambiguous

\* The platform and the host's tunnel are the scenario's for good.
LEMMA PlatformStays ==
    ASSUME IInv, [Next]_vars
    PROVE  world'.platform = world.platform /\ world'.fd = world.fd
  <1>1. ASSUME NEW acc \in Accounts, Expire(acc)
        PROVE  world'.platform = world.platform /\ world'.fd = world.fd
    <2> DEFINE sub == [world.sub EXCEPT ![acc] = Skeleton]
    <2>1. world' = [world EXCEPT !.sub = sub]
      BY <1>1 DEF Expire
    <2> HIDE DEF sub
    <2> QED
      BY <2>1
  <1>2. ASSUME NEW c \in Calls,
               \/ Refused(c) \/ Unreachable(c) \/ EmptyAnswer(c) \/ Answer(c)
               \/ Write(c) \/ WriteFails(c) \/ Read(c)
               \/ PatchFails(c) \/ Spawn(c) \/ SpawnFails(c) \/ \E m \in Modes : Patch(c, m)
               \/ \E acc \in Accounts, m \in Modes : Connect(c, acc, m) \/ IosConnect(c, acc, m)
        PROVE  world' = world
    BY <1>2 DEF Refused, Unreachable, EmptyAnswer, Answer, Write, WriteFails, Read,
                PatchFails, Spawn, SpawnFails, Patch, Connect, IosConnect
  <1>3. Kill \/ UNCHANGED vars => world' = world
    BY DEF Kill, vars
  <1> QED
    BY <1>1, <1>2, <1>3 DEF Next, Modes

\* On iOS nothing happens but a connect, in one step, and an account's end.
LEMMA OnIos ==
    ASSUME IInv, Ios, [Next]_vars
    PROVE  \/ \E c \in Calls, acc \in Accounts, m \in Modes : IosConnect(c, acc, m)
           \/ \E acc \in Accounts : Expire(acc)
           \/ UNCHANGED vars
  <1>1. \A c \in Calls : call[c].pc \in {"idle", "up"}
    BY DEF IInv, Fine, Placed
  <1>2. ~Kill
    BY <1>1 DEF Kill, AtRest
  <1>3. ASSUME NEW c \in Calls
        PROVE  /\ ~Refused(c) /\ ~Unreachable(c) /\ ~EmptyAnswer(c) /\ ~Answer(c)
               /\ ~Write(c) /\ ~WriteFails(c) /\ ~Read(c) /\ ~PatchFails(c)
               /\ ~Spawn(c) /\ ~SpawnFails(c) /\ \A m \in Modes : ~Patch(c, m)
               /\ \A acc \in Accounts, m \in Modes : ~Connect(c, acc, m)
    BY <1>1 DEF Refused, Unreachable, EmptyAnswer, Answer, Write, WriteFails, Read,
                PatchFails, Spawn, SpawnFails, Patch, Connect
  <1> QED
    BY <1>2, <1>3 DEF Next, Modes

LEMMA RenderedInitially == ASSUME PipelineAssumption, Init PROVE Rendered
  BY DEF PipelineAssumption, Init, NoConfig, Rendered

LEMMA RenderedStep == ASSUME IInv, Rendered, [Next]_vars PROVE Rendered'
  <1> SUFFICES ASSUME Ios', NEW c \in Calls, config'.by = c
               PROVE  (config.doc = PatchSingbox(call[c].text, Cfg(c, config.mode)))'
    BY DEF Rendered
  <1>1. CASE ~Ios
    <2>1. world'.platform = world.platform
      BY PlatformStays
    <2> QED
      BY <1>1, <2>1 DEF Ios
  <1>2. ASSUME Ios, NEW d \in Calls, NEW acc \in Accounts, NEW m \in Modes, IosConnect(d, acc, m)
        PROVE  (config.doc = PatchSingbox(call[c].text, Cfg(c, config.mode)))'
    <2> DEFINE x == [NoCall EXCEPT !.pc = "up", !.acc = acc, !.mode = m, !.text = world.sub[acc],
                                   !.owner = acc]
    <2>1. /\ call' = [call EXCEPT ![d] = x] /\ world' = world
          /\ config' = [by |-> d, mode |-> m, doc |-> PatchSingbox(world.sub[acc], Cfg(d, m))]
      BY <1>2 DEF IosConnect
    <2>2. x.text = world.sub[acc]
      BY DEF NoCall
    <2>3. d = c /\ config'.mode = m /\ config'.doc = PatchSingbox(world.sub[acc], Cfg(d, m))
      BY <2>1
    <2> HIDE DEF x
    <2>4. call'[c].text = world.sub[acc]
      BY <2>1, <2>2, <2>3 DEF IInv, WorldKept
    <2>5. Cfg(c, config.mode)' = Cfg(d, m)
      BY <2>1, <2>3 DEF Cfg
    <2> QED
      BY <2>3, <2>4, <2>5
  <1>3. ASSUME Ios, UNCHANGED vars \/ \E acc \in Accounts : Expire(acc)
        PROVE  (config.doc = PatchSingbox(call[c].text, Cfg(c, config.mode)))'
    <2>1. UNCHANGED <<call, config>>
      BY <1>3 DEF vars, Expire
    <2>2. world'.platform = world.platform /\ world'.fd = world.fd
      BY PlatformStays
    <2>3. Cfg(c, config.mode)' = Cfg(c, config.mode)
      BY <2>1, <2>2 DEF Cfg
    <2> QED
      BY <1>3, <2>1, <2>3 DEF Rendered
  <1> QED
    BY <1>1, <1>2, <1>3, OnIos

LEMMA CleanStep == ASSUME IInv, Clean, [Next]_vars PROVE Clean'
  <1> SUFFICES ASSUME Ios'
               PROVE  /\ \A acc \in Accounts : Unambiguous(world'.sub[acc])
                      /\ \A c \in Calls : Unambiguous(call'[c].text)
    BY DEF Clean
  <1>1. Ios
    BY PlatformStays DEF Ios
  <1>2. ASSUME NEW d \in Calls, NEW acc \in Accounts, NEW m \in Modes, IosConnect(d, acc, m)
        PROVE  Clean'
    <2> DEFINE x == [NoCall EXCEPT !.pc = "up", !.acc = acc, !.mode = m, !.text = world.sub[acc],
                                   !.owner = acc]
    <2>1. call' = [call EXCEPT ![d] = x] /\ world' = world
      BY <1>2 DEF IosConnect
    <2>2. x.text = world.sub[acc]
      BY DEF NoCall
    <2> HIDE DEF x
    <2>3. \A c \in Calls : call'[c].text = world.sub[acc] \/ call'[c].text = call[c].text
      BY <2>1, <2>2 DEF IInv, WorldKept
    <2> QED
      BY <1>1, <2>1, <2>3 DEF Clean
  <1>3. ASSUME NEW acc \in Accounts, Expire(acc)
        PROVE  Clean'
    <2> DEFINE sub == [world.sub EXCEPT ![acc] = Skeleton]
    <2>1. call' = call /\ world' = [world EXCEPT !.sub = sub]
      BY <1>3 DEF Expire
    <2>2. \A a \in Accounts : sub[a] = Skeleton \/ sub[a] = world.sub[a]
      BY DEF IInv, WorldKept
    <2> HIDE DEF sub
    <2>3. world'.sub = sub
      BY <2>1 DEF IInv, WorldKept
    <2> QED
      BY <1>1, <2>1, <2>2, <2>3, NothingIsUnambiguous DEF Clean
  <1>4. CASE UNCHANGED vars
    BY <1>1, <1>4 DEF vars, Clean
  <1> QED
    BY <1>1, <1>2, <1>3, <1>4, OnIos DEF Clean

\* inject_singbox.rs: every node rendered on iOS whose protocol, however it is
\* spelt, runs over TLS has it, as has every node that asks for it; and each
\* keeps the name the subscription gives, unless its protocol is an alias or
\* has a capital and the node does not ask for TLS.
THEOREM RenderedKeepsTls == Spec => []SingboxKeepsTls
  <1>1. Init => Rendered
    BY PipelineAssumption, RenderedInitially
  <1>2. IInv /\ Rendered /\ [Next]_vars => Rendered'
    BY RenderedStep
  <1>3. IInv /\ Rendered => SingboxKeepsTls
    BY SingboxSpeaksTls DEF Rendered, SingboxKeepsTls
  <1> QED
    BY <1>1, <1>2, <1>3, Invariant, PTL DEF Spec

\* The configuration rendered on iOS is one sing-box accepts and whose nodes
\* speak TLS; and, where no document gives sing-box's own name "direct" to
\* anything, what it sends out directly with a node at hand and a rule of the
\* subscription left, the first rule left that matches sends so itself.
THEOREM RenderedIsRight ==
    ASSUME \A s \in Scenarios : s.platform = "ios" =>
              \A acc \in Accounts : Unambiguous(s.sub[acc])
    PROVE  Spec => []SingboxConfigIsRight
  <1>1. Init => Rendered /\ Clean
    <2> SUFFICES ASSUME Init PROVE Rendered /\ Clean
      OBVIOUS
    <2>1. \A c \in Calls : call[c].text = EmptyDoc
      BY DEF Init, NoCall
    <2>2. Clean
      BY <2>1, NothingIsUnambiguous DEF Init, Clean, Ios
    <2> QED
      BY <2>2, PipelineAssumption, RenderedInitially
  <1>2. IInv /\ Rendered /\ Clean /\ [Next]_vars => Rendered' /\ Clean'
    BY RenderedStep, CleanStep
  <1>3. IInv /\ Rendered /\ Clean => SingboxConfigIsRight
    <2> SUFFICES ASSUME IInv, Rendered, Clean PROVE SingboxConfigIsRight
      OBVIOUS
    <2>1. SingboxResolves
      BY DEF IInv, ConfigKept
    <2>2. SingboxKeepsTls
      BY SingboxSpeaksTls DEF Rendered, SingboxKeepsTls
    <2>3. SingboxDoesNotLeak
      BY SingboxKeepsIn DEF Rendered, Clean, IInv, Fine, Shaped, SingboxDoesNotLeak
    <2> QED
      BY <2>1, <2>2, <2>3 DEF SingboxConfigIsRight
  <1> QED
    BY <1>1, <1>2, <1>3, Invariant, PTL DEF Spec
=============================================================================

----------------------------- MODULE ProfileInject -----------------------------
(***************************************************************************)
(* What the client makes of a mihomo subscription before a kernel runs on  *)
(* it: core/src/profile/inject.rs, and the reading of the same document by *)
(* core/src/kernel/manager.rs.                                             *)
(*                                                                         *)
(* A document is a record of the parts the code looks at.  Its mappings    *)
(* (`top`, the scalar keys of the root; `tun`; `dns`) are functions from   *)
(* the keys present to their values, so that a missing key is one outside  *)
(* the domain; a `tun` or `dns` that is not a mapping is read as an empty  *)
(* one.  Values are text.  A rule is the record of its columns; `tight`    *)
(* says that no space follows its commas.  A group without a readable      *)
(* name, or that is not a mapping, has the name NoName.                    *)
(***************************************************************************)
EXTENDS Naturals, Sequences

CONSTANT NoName

\* The operators of module TLC, of which the provers know no definition.
k :> v == [x \in {k} |-> v]
f @@ g == [x \in DOMAIN f \cup DOMAIN g |-> IF x \in DOMAIN f THEN f[x] ELSE g[x]]

NoKeys == [k \in {} |-> ""]

\* Mapping::insert of every key of `keys`; insert_if_missing of the same.
Insert(map, keys) == keys @@ map
InsertIfMissing(map, keys) == map @@ keys

Earliest(S) == CHOOSE i \in S : \A j \in S : i <= j

-----------------------------------------------------------------------------
(* patch_mihomo_inner.                                                     *)

\* The keys the client always takes over; `cfg` is what the connect chose.
ClientKeys(cfg) ==
    ("external-controller" :> cfg.controller) @@ ("secret" :> cfg.secret)
    @@ ("mixed-port" :> cfg.port) @@ ("allow-lan" :> "false")
    @@ ("log-level" :> "info") @@ ("ipv6" :> "true")

Hijack == ("dns-hijack" :> "any:53,tcp://any:53")

DefaultDeviceName(platform) == IF platform = "macos" THEN "utun1989" ELSE "Mihomo"

LinuxTun ==
    ("auto-redirect" :> "true") @@ ("gso" :> "true") @@ ("gso-max-size" :> "65536")
    @@ ("iproute2-table-index" :> "2022") @@ ("iproute2-rule-index" :> "9000")

\* The host made the device, addressed it and routed to it.
HostTun(fd) ==
    ("enable" :> "true") @@ ("stack" :> "gvisor") @@ ("file-descriptor" :> fd)
    @@ ("auto-route" :> "false") @@ ("auto-detect-interface" :> "false")
    @@ ("mtu" :> "1500") @@ Hijack

\* The kernel makes its own device and routes.
OwnTun(platform) ==
    ("enable" :> "true") @@ ("stack" :> "mixed") @@ ("auto-route" :> "true")
    @@ ("auto-detect-interface" :> "true") @@ ("strict-route" :> "true")
    @@ ("mtu" :> "9000") @@ Hijack @@ ("device" :> DefaultDeviceName(platform))
    @@ (IF platform = "linux" THEN LinuxTun ELSE NoKeys)

TunKeys(cfg) ==
    IF cfg.mode = "SystemProxy" THEN ("enable" :> "false")
    ELSE IF cfg.fd # "none" THEN HostTun(cfg.fd) ELSE OwnTun(cfg.platform)

\* patch_dns fills in what the subscription leaves out, in the app's words.
DnsKeys == {"enable", "listen", "enhanced-mode", "fake-ip-range", "fake-ip-filter-mode",
            "prefer-h3", "respect-rules", "fake-ip-filter", "default-nameserver",
            "nameserver", "proxy-server-nameserver", "fallback", "nameserver-policy",
            "direct-nameserver", "direct-nameserver-follow-policy"}

BugPatchDns(top, dns) == \* replaces the provider's resolvers
    Insert(InsertIfMissing(dns, "ipv6" :> top["ipv6"]), [k \in DnsKeys |-> "app"])

PatchDns(top, dns) ==
    InsertIfMissing(InsertIfMissing(dns, [k \in DnsKeys |-> "app"]), "ipv6" :> top["ipv6"])

NeedsDefaultRules(doc) ==
    \/ doc.rulesAre # "list"
    \/ doc.rules = <<>>
    \/ /\ Len(doc.rules) = 1
       /\ doc.rules[1].head \in {"MATCH", "FINAL"}
       /\ doc.rules[1].target = "DIRECT"
       /\ doc.rules[1].parts = 2 /\ doc.rules[1].tight

-----------------------------------------------------------------------------
(* Two readers of `proxy-groups`: inject.rs for the target of the default  *)
(* rules, manager.rs for the group the user's choice of node goes to.      *)

Named(groups) == {i \in DOMAIN groups : groups[i].name # NoName}

\* first_group_of_type
FirstOfType(groups, type) ==
    LET found == {i \in Named(groups) : groups[i].type = type}
    IN IF found = {} THEN NoName ELSE groups[Earliest(found)].name

PickDefaultProxyTarget(groups) ==
    LET tried == [n \in 1..4 |->
                    FirstOfType(groups, <<"select", "url-test", "fallback", "load-balance">>[n])]
        found == {n \in 1..4 : tried[n] # NoName}
    IN IF found # {} THEN tried[Earliest(found)]
       ELSE IF Named(groups) # {} THEN groups[Earliest(Named(groups))].name
       ELSE NoName

\* The order in which manager.rs prefers the types.
Preference(type) == CASE type = "select" -> 1
                      [] type = "url-test" -> 2
                      [] type = "fallback" -> 3
                      [] type = "load-balance" -> 4
                      [] OTHER -> 5

\* pick_primary_proxy_group: the earliest of the named groups nobody is
\* preferred to.
PickPrimaryProxyGroup(groups) ==
    IF Named(groups) = {} THEN NoName
    ELSE LET best == {i \in Named(groups) : \A j \in Named(groups) :
                        Preference(groups[i].type) <= Preference(groups[j].type)}
         IN groups[Earliest(best)].name

SubscriptionHasNodes(doc) == doc.root = "mapping" /\ doc.proxies # <<>>

-----------------------------------------------------------------------------
Rule(head, value, target) ==
    [head |-> head, value |-> value, target |-> target, parts |-> 3, tight |-> TRUE]

DefaultRules(target) ==
    << Rule("GEOSITE", "category-ads-all", "REJECT"), Rule("GEOSITE", "private", "DIRECT"),
       Rule("GEOIP", "private", "DIRECT"), Rule("GEOIP", "lan", "DIRECT"),
       Rule("GEOSITE", "cn", "DIRECT"), Rule("GEOSITE", "geolocation-cn", "DIRECT"),
       Rule("GEOIP", "CN", "DIRECT"), [Rule("MATCH", "", target) EXCEPT !.parts = 2] >>

DefaultTarget(groups) ==
    IF PickDefaultProxyTarget(groups) = NoName THEN "GLOBAL"
    ELSE PickDefaultProxyTarget(groups)

EmptyDoc == [root |-> "mapping", top |-> NoKeys, tun |-> NoKeys, dns |-> NoKeys,
             rulesAre |-> "absent", rules |-> <<>>, groups |-> <<>>, proxies |-> <<>>]

\* What is taken for granted of a document: its parts, and lists that are lists.
IsDocument(doc) ==
    /\ DOMAIN doc = DOMAIN EmptyDoc
    /\ DOMAIN doc.groups \subseteq Nat /\ DOMAIN doc.proxies \subseteq Nat
    /\ DOMAIN doc.rules \subseteq Nat
    /\ \A i \in DOMAIN doc.groups : DOMAIN doc.groups[i].members \subseteq Nat

\* An empty text, and a null document, are an empty mapping.
Root(doc) == IF doc.root = "mapping" THEN doc ELSE EmptyDoc

\* Defined for a text whose root is not "other": that one is a Config error.
PatchMihomo(text, cfg) ==
    LET doc == Root(text)
        top == Insert(doc.top, ClientKeys(cfg))
        ours == [doc EXCEPT !.top = top,
                            !.tun = Insert(doc.tun, TunKeys(cfg)),
                            !.dns = PatchDns(top, doc.dns)]
    IN IF ~NeedsDefaultRules(doc) THEN ours
       ELSE [ours EXCEPT
               !.top = Insert(top, ("mode" :> "rule") @@ ("geo-auto-update" :> "true")
                                   @@ ("geo-update-interval" :> "24")),
               !.rulesAre = "list",
               !.rules = DefaultRules(DefaultTarget(doc.groups))]
=============================================================================

----------------------------- MODULE SingboxInject -----------------------------
(***************************************************************************)
(* core/src/profile/inject_singbox.rs: a mihomo subscription rewritten as  *)
(* a sing-box configuration, for the iOS extension.                        *)
(*                                                                         *)
(* A proxy is a function from its keys to text; a key whose value the code *)
(* cannot read (a number where it asks for text) is outside its domain,    *)
(* nested keys are written with a dot, and the port "bad" is any value     *)
(* that is not a number of 16 bits.  What the code collects in order is    *)
(* kept by its position in the document, so that "the first" is the least  *)
(* index.                                                                  *)
(***************************************************************************)
EXTENDS ProfileInject

Has(map, key) == key \in DOMAIN map
Take(map, key, as) == IF Has(map, key) THEN as :> map[key] ELSE NoKeys
TakeOr(map, key, as, default) == as :> (IF Has(map, key) THEN map[key] ELSE default)

\* to_ascii_lowercase, on the capitals the documents use.
Lower(text) == CASE text = "Trojan" -> "trojan" [] text = "CN" -> "cn" [] OTHER -> text

\* parse_mbps keeps the digits that begin the first word.
ParseMbps(text) == IF text \in {"100", "100mbps", "100 Mbps"} THEN "100" ELSE "0"

-----------------------------------------------------------------------------
(* Proxies.                                                                *)

Kind(p) == CASE Lower(p["type"]) = "shadowsocks" -> "ss"
             [] Lower(p["type"]) = "hy2" -> "hysteria2"
             [] OTHER -> Lower(p["type"])

Kinds == {"ss", "vmess", "vless", "trojan", "hysteria2", "tuic"}
TlsKinds == {"trojan", "hysteria2", "tuic"}

Translates(p) ==
    /\ \A key \in {"name", "server", "port", "type"} : Has(p, key)
    /\ p["port"] # "bad"
    /\ Kind(p) \in Kinds

TranslateTransport(p) ==
    IF ~Has(p, "network") THEN NoKeys
    ELSE CASE p["network"] = "ws" -> ("type" :> "ws") @@ Take(p, "ws-opts.path", "path")
                                     @@ Take(p, "ws-opts.headers", "headers")
           [] p["network"] = "grpc" -> ("type" :> "grpc")
                                       @@ Take(p, "grpc-opts.grpc-service-name", "service_name")
           [] p["network"] \in {"http", "h2"} -> "type" :> "http"
           [] OTHER -> NoKeys

Reality(p) ==
    IF ~Has(p, "reality-opts") THEN NoKeys
    ELSE ("reality" :> p["reality-opts"]) @@ Take(p, "client-fingerprint", "utls")

\* The type is compared as it is written: an alias, or a capital, does not
\* ask for TLS here.
WantsTls(p) == \/ Has(p, "tls") /\ p["tls"] = "true"
               \/ p["type"] \in TlsKinds

TranslateTls(p) ==
    IF ~WantsTls(p) THEN NoKeys
    ELSE ("enabled" :> "true")
         @@ Take(p, "servername", "server_name") @@ Take(p, "sni", "server_name")
         @@ Take(p, "skip-cert-verify", "insecure") @@ Take(p, "alpn", "alpn") @@ Reality(p)

\* The fields each protocol carries over.
Fields(p) ==
    CASE Kind(p) = "ss" -> TakeOr(p, "cipher", "method", "aes-128-gcm")
                           @@ TakeOr(p, "password", "password", "")
      [] Kind(p) = "vmess" -> Take(p, "uuid", "uuid") @@ Take(p, "alterId", "alter_id")
                              @@ TakeOr(p, "cipher", "security", "auto")
      [] Kind(p) = "vless" -> Take(p, "uuid", "uuid")
                              @@ (IF Has(p, "flow") /\ p["flow"] = "" THEN NoKeys
                                  ELSE Take(p, "flow", "flow"))
      [] Kind(p) = "trojan" -> Take(p, "password", "password")
      [] Kind(p) = "tuic" -> Take(p, "uuid", "uuid") @@ Take(p, "password", "password")
                             @@ Take(p, "congestion-controller", "congestion_control")
      [] OTHER -> Take(p, "password", "password")
                  @@ (IF Has(p, "up") THEN "up_mbps" :> ParseMbps(p["up"]) ELSE NoKeys)
                  @@ (IF Has(p, "down") THEN "down_mbps" :> ParseMbps(p["down"]) ELSE NoKeys)
                  @@ (IF Has(p, "obfs")
                      THEN ("obfs" :> p["obfs"]) @@ Take(p, "obfs-password", "obfs.password")
                      ELSE NoKeys)

TranslateProxy(p) ==
    [type |-> IF Kind(p) = "ss" THEN "shadowsocks" ELSE Kind(p),
     tag |-> p["name"], fields |-> Fields(p),
     transport |-> IF Kind(p) \in {"vmess", "vless", "trojan"} THEN TranslateTransport(p)
                   ELSE NoKeys,
     tls |-> CASE Kind(p) = "ss" -> NoKeys
               [] Kind(p) \in TlsKinds -> Insert("enabled" :> "true", TranslateTls(p))
               [] OTHER -> TranslateTls(p)]

Nodes(doc) == {i \in DOMAIN doc.proxies : Translates(doc.proxies[i])}

Accepted(doc) == {"direct", "block"} \cup {doc.proxies[i]["name"] : i \in Nodes(doc)}

-----------------------------------------------------------------------------
(* Groups.  Their members are filtered by Accepted, which knows proxies    *)
(* only: a group inside a group is dropped, and a group left empty too.    *)

Members(group, doc) == {m \in DOMAIN group.members : group.members[m] \in Accepted(doc)}

TranslatedGroups(doc) ==
    {i \in Named(doc.groups) :
        /\ doc.groups[i].type \in {"select", "url-test", "fallback", "load-balance"}
        /\ Members(doc.groups[i], doc) # {}}

TranslateGroup(group, doc) ==
    LET outbounds == {group.members[m] : m \in Members(group, doc)}
    IN [type |-> IF group.type = "select" THEN "selector" ELSE "urltest",
        tag |-> group.name, outbounds |-> outbounds,
        default |-> group.members[Earliest(Members(group, doc))]]

DefaultOutbound(doc) ==
    IF TranslatedGroups(doc) # {} THEN doc.groups[Earliest(TranslatedGroups(doc))].name
    ELSE IF Nodes(doc) # {} THEN doc.proxies[Earliest(Nodes(doc))]["name"]
    ELSE "direct"

-----------------------------------------------------------------------------
(* Rules.                                                                  *)

SbRuleKey(head) ==
    CASE head = "DOMAIN" -> "domain"
      [] head = "DOMAIN-SUFFIX" -> "domain_suffix"
      [] head = "DOMAIN-KEYWORD" -> "domain_keyword"
      [] head \in {"IP-CIDR", "IP-CIDR6"} -> "ip_cidr"
      [] head = "GEOIP" -> "geoip"
      [] head = "GEOSITE" -> "geosite"
      [] head = "PROCESS-NAME" -> "process_name"
      [] head \in {"MATCH", "FINAL"} -> "inbound"
      [] OTHER -> ""

BugResolveTarget(target, doc) == \* an unknown name goes out directly
    CASE target = "DIRECT" -> "direct"
      [] target \in {"REJECT", "BLOCK"} -> "block"
      [] target \in {"PROXY", "GLOBAL"} -> DefaultOutbound(doc)
      [] OTHER -> IF target \in Accepted(doc) THEN target ELSE "direct"

\* The name of a group is not in Accepted: its rules go to the default.
ResolveTarget(target, doc) ==
    CASE target = "DIRECT" -> "direct"
      [] target \in {"REJECT", "BLOCK"} -> "block"
      [] target \in {"PROXY", "GLOBAL"} -> DefaultOutbound(doc)
      [] OTHER -> IF target \in Accepted(doc) THEN target ELSE DefaultOutbound(doc)

TranslatedRules(doc) ==
    IF doc.rulesAre # "list" THEN {}
    ELSE {i \in DOMAIN doc.rules :
            /\ SbRuleKey(doc.rules[i].head) # ""
            /\ doc.rules[i].parts >= (IF doc.rules[i].head \in {"MATCH", "FINAL"}
                                      THEN 2 ELSE 3)}

\* A rule-set is known by its family and its code.
TranslateRule(rule, doc) ==
    LET key == SbRuleKey(rule.head)
    IN [key |-> IF key \in {"geoip", "geosite"} THEN "rule_set" ELSE key,
        rule_set |-> IF key \in {"geoip", "geosite"} THEN {<<key, Lower(rule.value)>>} ELSE {},
        outbound |-> ResolveTarget(rule.target, doc)]

Route(key, sets, outbound) == [key |-> key, rule_set |-> sets, outbound |-> outbound]

DefaultRouteRules ==
    << Route("rule_set", {<<"geosite", "category-ads-all">>}, "block"),
       Route("ip_is_private", {}, "direct"),
       Route("rule_set", {<<"geosite", "private">>, <<"geosite", "cn">>}, "direct"),
       Route("rule_set", {<<"geoip", "cn">>}, "direct") >>

DefaultDns == [rule_set |-> {<<"geosite", "cn">>}, detours |-> {"direct"}]

CollectRuleSetTags(rules, dns) == dns.rule_set \cup UNION {rules[i].rule_set : i \in DOMAIN rules}

BuildRuleSets(tags, detour) ==
    {[tag |-> t, detour |-> detour] : t \in {t \in tags : t[1] \in {"geosite", "geoip"}}}

-----------------------------------------------------------------------------
\* Defined for a text whose root is not "other".
PatchSingbox(text, cfg) ==
    LET doc == Root(text)
        rules == IF TranslatedRules(doc) = {} THEN DefaultRouteRules
                 ELSE [i \in TranslatedRules(doc) |-> TranslateRule(doc.rules[i], doc)]
    IN [nodes |-> [i \in Nodes(doc) |-> TranslateProxy(doc.proxies[i])],
        groups |-> [i \in TranslatedGroups(doc) |-> TranslateGroup(doc.groups[i], doc)],
        inbounds |-> IF cfg.mode = "Tun" THEN {"tun-in", "mixed-in"} ELSE {"mixed-in"},
        port |-> cfg.port, controller |-> cfg.controller, secret |-> cfg.secret,
        dns |-> DefaultDns,
        rules |-> rules, final |-> DefaultOutbound(doc),
        rule_set |-> BuildRuleSets(CollectRuleSetTags(rules, DefaultDns), DefaultOutbound(doc))]

-----------------------------------------------------------------------------
(* What sing-box demands of a configuration, and a user of it.             *)

Tags(sb) == {"direct", "block"} \cup {sb.nodes[i].tag : i \in DOMAIN sb.nodes}
            \cup {sb.groups[i].tag : i \in DOMAIN sb.groups}

DefinedRuleSets(sb) == {set.tag : set \in sb.rule_set}

\* Every outbound and every rule-set the configuration names is defined in
\* it: one that is not makes sing-box refuse the whole configuration.
ReferencesResolve(sb) ==
    /\ sb.final \in Tags(sb)
    /\ \A i \in DOMAIN sb.groups : /\ sb.groups[i].outbounds \subseteq Tags(sb)
                                   /\ sb.groups[i].default \in sb.groups[i].outbounds
    /\ \A i \in DOMAIN sb.rules : /\ sb.rules[i].outbound \in Tags(sb)
                                  /\ sb.rules[i].rule_set \subseteq DefinedRuleSets(sb)
    /\ \A set \in sb.rule_set : set.detour \in Tags(sb)
    /\ sb.dns.detours \subseteq Tags(sb)
    /\ sb.dns.rule_set \subseteq DefinedRuleSets(sb)

\* Where sing-box sends a connection that matches the rules at `hits`: the
\* first of them decides.
Egress(sb, hits) == IF hits = {} THEN sb.final ELSE sb.rules[Earliest(hits)].outbound

\* With a node to go through, and a rule that could be translated: whatever
\* rules a connection matches, it goes out directly only if the first of them
\* that has a counterpart says so, also where the target of a rule is the name
\* of a group, of a node that was not translated, or of nothing.  A rule
\* without a counterpart is dropped, and what it sent through a node falls to
\* a later rule or to `final`; with no rule left the client's default rules
\* send private and Chinese addresses out directly.
NothingLeaks(doc, sb) ==
    Nodes(doc) # {} =>
        /\ sb.final # "direct"
        /\ TranslatedRules(doc) # {} =>
              \A hits \in SUBSET DOMAIN doc.rules :
                  LET kept == hits \cap TranslatedRules(doc)
                  IN Egress(sb, kept) = "direct" =>
                        kept # {} /\ doc.rules[Earliest(kept)].target = "DIRECT"

\* What a node means: its protocol, however it is spelt, runs over TLS, or the
\* node asks for TLS.
AsksForTls(p) == Has(p, "tls") /\ p["tls"] = "true"
OverTls(p) == Kind(p) # "ss" /\ (Kind(p) \in TlsKinds \/ AsksForTls(p))

\* Every node that runs over TLS has it, however its protocol is spelt; and
\* it keeps the name to ask for, unless it neither spells its protocol in full
\* and in small letters nor asks for TLS (`hy2` and `Trojan` lose the name).
TlsSurvives(doc, sb) ==
    \A i \in DOMAIN sb.nodes :
        LET p == doc.proxies[i]
            named == {key \in {"servername", "sni"} : Has(p, key)}
        IN OverTls(p) =>
            /\ Has(sb.nodes[i].tls, "enabled")
            /\ named # {} /\ (p["type"] = Kind(p) \/ AsksForTls(p)) =>
                 /\ Has(sb.nodes[i].tls, "server_name")
                 /\ sb.nodes[i].tls["server_name"] \in {p[key] : key \in named}
=============================================================================

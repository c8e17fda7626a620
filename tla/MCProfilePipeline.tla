--------------------------- MODULE MCProfilePipeline ---------------------------
(***************************************************************************)
(* The documents of the checked instance.                                  *)
(***************************************************************************)
EXTENDS ProfilePipeline, FiniteSets

CONSTANTS c1, c2, a, b

SeqUpTo(S, n) == UNION {[1..m -> S] : m \in 0..n}

Node(name, type) == ("name" :> name) @@ ("server" :> "host") @@ ("port" :> "443") @@ ("type" :> type)

ss == Node("n1", "ss")

\* One proxy of each protocol and of each way to miss one.
Proxies ==
    { ss, Node("n2", "ssr"), Node("n2", "hy2") @@ ("sni" :> "s") @@ ("tls" :> "true") @@ ("up" :> "100 Mbps"),
      Node("n2", "Trojan") @@ ("sni" :> "s") @@ ("password" :> "p"),
      Node("n2", "hy2") @@ ("servername" :> "s") @@ ("down" :> "fast"),
      Node("n2", "trojan") @@ ("sni" :> "s") @@ ("tls" :> "false") @@ ("network" :> "h2"),
      Node("n2", "hysteria2") @@ ("sni" :> "s") @@ ("obfs" :> "o") @@ ("obfs-password" :> "p"),
      Node("n2", "vless") @@ ("tls" :> "true") @@ ("servername" :> "s") @@ ("network" :> "ws")
        @@ ("ws-opts.path" :> "/") @@ ("flow" :> "") @@ ("reality-opts" :> "r"),
      Node("n2", "vmess") @@ ("network" :> "grpc") @@ ("uuid" :> "u") @@ ("sni" :> "s"),
      Node("n2", "tuic") @@ ("uuid" :> "u") @@ ("servername" :> "s"),
      [Node("n2", "trojan") EXCEPT !["port"] = "bad"] }

Group(name, type, members) == [name |-> name, type |-> type, members |-> members]

Groups ==
    { Group("g1", "select", <<"g2", "n1">>), Group("g2", "url-test", <<"n2">>),
      Group("g3", "fallback", <<"n1", "n2">>), Group("g4", "relay", <<"n1">>),
      Group("g5", "load-balance", <<"DIRECT">>), Group(NoName, "select", <<"n1">>) }

Match(target, tight) == [Rule("MATCH", "", target) EXCEPT !.parts = 2, !.tight = tight]

RuleLists ==
    { <<>>, <<Match("DIRECT", TRUE)>>, <<Match("DIRECT", FALSE)>>,
      <<Rule("GEOIP", "CN", "DIRECT"), Match("g1", TRUE)>>,
      <<Rule("GEOSITE", "cn", "g2"), Match("PROXY", TRUE)>>,
      <<Rule("DOMAIN", "d", "n1"), Rule("SRC-PORT", "1", "n1"), Rule("IP-CIDR", "c", "REJECT")>>,
      <<Rule("SRC-PORT", "1", "n1"), Rule("GEOIP", "CN", "DIRECT"), Match("none", TRUE)>>,
      <<[Rule("DOMAIN", "d", "n2") EXCEPT !.parts = 2]>> }

Plain == [EmptyDoc EXCEPT !.proxies = <<ss>>, !.groups = <<Group("g1", "select", <<"n1">>)>>]

Owners == [Plain EXCEPT !.dns = ("nameserver" :> "theirs"),
             !.tun = ("enable" :> "true") @@ ("device" :> "tun9") @@ ("auto-route" :> "true"),
             !.top = ("secret" :> "theirs") @@ ("mode" :> "global")]

Documents ==
    {Plain, Owners, Skeleton, EmptyDoc, [EmptyDoc EXCEPT !.root = "null"]}
    \cup {[Owners EXCEPT !.proxies = p] : p \in SeqUpTo(Proxies, 2)}
    \cup {[Owners EXCEPT !.proxies = <<ss, Node("n2", "vless")>>, !.groups = g,
                         !.rulesAre = "list", !.rules = r]
            : g \in SeqUpTo(Groups, 2), r \in RuleLists}

Scenario(docs, platforms, callers, modes, expires) ==
    {[sub |-> (a :> d) @@ (b :> Plain), platform |-> p,
      fd |-> IF p = "android" THEN "7" ELSE "none", callers |-> callers,
      modes |-> modes, expires |-> expires]
        : d \in docs, p \in platforms}

Modes == {"Tun", "SystemProxy"}

Scenarios1 ==
    Scenario(Documents, {"ios"}, {c1}, {"Tun"}, {a})
    \cup Scenario({Owners, [Owners EXCEPT !.rulesAre = "other"]},
                  {"linux", "macos", "android"}, {c1}, Modes, {a, b})
    \cup Scenario({d \in Documents : Len(d.groups) = 2}, {"linux"}, {c1}, {"Tun"}, {})
    \cup Scenario({Owners}, {"windows"}, {c1, c2}, {"SystemProxy"}, {})
=============================================================================

--------------------------- MODULE SingBoxConfigs ---------------------------
(***************************************************************************)
(* The configuration for sing-box (cores/sing-box): all servers and chain  *)
(* proxies in one document, under their remarks, with a group that takes   *)
(* the best of them for each domain, a selector over everything, DNS       *)
(* servers and rule sets.                                                  *)
(***************************************************************************)
EXTENDS Offers, ClientConfig

Selector == <<"selector">>
Direct   == <<"direct">>
\* Best Ping, of the chain proxies or of the servers, of the custom domain or of the main one.
BestPingGroup(chain, own) == <<"best ping", chain, own>>
WarpGroup(wow)            == <<"warp best ping", wow>>

GroupParts_OfferDirect(groups) ==    \* mutant: going out directly is on offer too
    <<Part(Selector, "group", {Direct} \cup {g.tag : g \in ToSet(groups)} \cup UNION {g.via : g \in ToSet(groups)})>>
        \o groups

\* The selector offers every group and every member of one.
GroupParts(groups) ==
    <<Part(Selector, "group", {g.tag : g \in ToSet(groups)} \cup UNION {g.via : g \in ToSet(groups)})>>
        \o groups

(***************************************************************************)
(* buildDNS.  A server is reached directly, through a group, or with the   *)
(* help of the resolver that finds it.                                     *)
(***************************************************************************)
RemoteDetour(warp, chain) ==
    IF warp THEN WarpGroup(FALSE) ELSE IF chain THEN BestPingGroup(FALSE, FALSE) ELSE Selector

DnsServers(s, warp, chain) ==
    {Part(<<"dns-remote">>, "resolver", {RemoteDetour(warp, chain)}), Part(<<"dns-direct">>, "resolver", {})}
        \cup (IF IsDomain(s.remoteDNS.host) /\ ~warp THEN {Part(<<"hosts">>, "resolver", {})} ELSE {})
        \cup (IF SanctionSites(s) = {} THEN {}
              ELSE {Part(<<"dns-anti-sanction">>, "resolver", IF SanctionDomain(s) THEN {<<"dns-direct">>} ELSE {})})
        \cup (IF s.fakeDNS THEN {Part(<<"dns-fake">>, "resolver", {})} ELSE {})

DnsRules(s, warp) ==
    {<<"dns-direct">>, <<"dns-remote">>}
        \cup (IF IsDomain(s.remoteDNS.host) /\ ~warp THEN {<<"hosts">>} ELSE {})
        \cup (IF SanctionSites(s) = {} THEN {} ELSE {<<"dns-anti-sanction">>})
        \cup (IF s.fakeDNS THEN {<<"dns-fake">>} ELSE {})

DnsRuleSets(s) ==
    {<<"geosite", a.rule>> : a \in BlockedSites(s) \cup LocalPairs(s) \cup LocalSites(s) \cup SanctionSites(s)}
        \cup {<<"geoip", a.rule>> : a \in LocalPairs(s)}

(***************************************************************************)
(* buildRoutingRules: the rule sets the rules name, and those declared.    *)
(***************************************************************************)
RuleSets(s) == UNION {{Part(<<"geosite", a.rule>>, "set", {Direct})} \cup
                      (IF a.geoip THEN {Part(<<"geoip", a.rule>>, "set", {Direct})} ELSE {})
                      : a \in GetGeoAssets(s)}

SbBuildConfig(s, outbounds, groups, warp, chain) ==
    LET inUse == SelectSeq(groups, LAMBDA g : g.via # {})
    IN  Config(outbounds \o GroupParts(inUse) \o <<Part(Direct, "direct", {<<"dns-direct">>})>>
                 \o SetToSeq(DnsServers(s, warp, chain)) \o SetToSeq(RuleSets(s)),
               DnsRules(s, warp) \cup DnsRuleSets(s) \cup AccRoutingRules(s) \cup {Direct},
               Selector, {})

(***************************************************************************)
(* buildChainOutbound.  Only the protocols with an identity take TLS and a *)
(* transport, and what has no counterpart in sing-box is left out.         *)
(***************************************************************************)
SbTLS(params) ==
    IF params.security = "tls" \/ (params.security = "reality" /\ params.keys) THEN params.security ELSE "none"

SbTransport(params) ==
    CASE params.type = "tcp" -> IF params.header = "http" THEN "http" ELSE "tcp"
      [] params.type \in {"ws", "httpupgrade", "grpc"} -> params.type
      [] OTHER -> "tcp"

SbChainDial(link) ==
    LET params == ExtractProxyParams(link)
    IN  IF params.protocol \in {"http", "socks", "ss"} THEN Plain ELSE Dial(SbTLS(params), SbTransport(params))

(***************************************************************************)
(* getSbCustomConfig.  The upstream is offered with fragments too.         *)
(***************************************************************************)
SbServers_LikeXray(s, domain, fragment) ==    \* mutant: no upstream with fragments
    Servers(s, domain, FALSE, ~fragment, Always)

SbServers(s, domain, fragment) == Servers(s, domain, fragment, TRUE, Always)

\* A server given by name is looked up directly; the chain proxy through the servers.
ServerPart(remark, host) ==
    Part(remark, "server", IF IsDomain(host) THEN {<<"dns-direct">>} ELSE {})
ChainPart(s, remark, through) ==
    Part(remark, "chain", {through} \cup IF IsDomain(s.chain.server) THEN {<<"dns-remote">>} ELSE {})

\* Each server of a domain, followed by the chain proxy through it.
Outbounds(s, servers, fragment) ==
    LET remark(i, chain) == GenerateRemark(s, servers[i], fragment, chain)
        pair(i) == <<ServerPart(remark(i, FALSE), servers[i].host)>>
                     \o IF s.chain = None THEN <<>>
                        ELSE <<ChainPart(s, remark(i, TRUE), remark(i, FALSE))>>
    IN  FlattenSeq([i \in DOMAIN servers |-> pair(i)])

\* The members of the four groups: by whose domain it is, not by its place in the loop.
Members(s, servers, fragment, chain, own) ==
    {GenerateRemark(s, v, fragment, chain) : v \in {w \in ToSet(servers) : (w.domain = s.customDomain) = own}}

BestPingGroups(s, servers, fragment) ==
    LET group(chain, own) == Part(BestPingGroup(chain, own), "group",
                                  IF chain /\ s.chain = None THEN {}
                                  ELSE Members(s, servers, fragment, chain, own))
    IN  <<group(FALSE, FALSE), group(TRUE, FALSE), group(FALSE, TRUE), group(TRUE, TRUE)>>

GetSbCustomConfig(s, fragment) ==
    LET servers == FlattenSeq([i \in DOMAIN Domains(s) |-> SbServers(s, Domains(s)[i], fragment)])
    IN  SbBuildConfig(s, Outbounds(s, servers, fragment), BestPingGroups(s, servers, fragment),
                      FALSE, s.chain # None)

(***************************************************************************)
(* getSbWarpConfig: a tunnel for each endpoint, and another through it.    *)
(***************************************************************************)
WarpRemark(i, wow) == <<"warp", wow, i>>

WarpGroups(s) ==
    <<Part(WarpGroup(FALSE), "group", {WarpRemark(i, FALSE) : i \in DOMAIN s.warpEndpoints}),
      Part(WarpGroup(TRUE), "group", {WarpRemark(i, TRUE) : i \in DOMAIN s.warpEndpoints})>>

GetSbWarpConfig(s) ==
    LET tunnels(i) == <<ServerPart(WarpRemark(i, FALSE), s.warpEndpoints[i]),
                        Part(WarpRemark(i, TRUE), "chain", {WarpRemark(i, FALSE)})>>
    IN  SbBuildConfig(s, FlattenSeq([i \in DOMAIN s.warpEndpoints |-> tunnels(i)]), WarpGroups(s), TRUE, FALSE)
=============================================================================

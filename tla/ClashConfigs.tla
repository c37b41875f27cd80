---------------------------- MODULE ClashConfigs ----------------------------
(***************************************************************************)
(* The configuration for Clash (cores/clash): one document as for          *)
(* sing-box, except that a resolver carries the group it is asked through, *)
(* the servers' own names are found with a resolver of theirs, rule        *)
(* providers are keyed by name, and DIRECT and REJECT are built in.        *)
(***************************************************************************)
EXTENDS Offers, ClientConfig

ClSelector == <<"selector">>
ClDirect   == <<"DIRECT">>
ClReject   == <<"REJECT">>
ClBestPing(chain, own)      == <<"best ping", chain, own>>
ClWarpGroup(wow, pro)       == <<"warp best ping", wow, pro>>
ClWarpRemark(i, wow, pro)   == <<"warp", wow, pro, i>>

ClRemote  == <<"nameserver">>
ClLocal   == <<"local">>
ClAnti    == <<"anti-sanction">>

(***************************************************************************)
(* buildChainOutbound: a Trojan chain proxy without TLS has no outbound.   *)
(***************************************************************************)
ChainUsable(s) == s.chain # None /\ ~(s.chain.protocol = "trojan" /\ s.chain.security = "none")

\* Its TLS and transport.
ClTLS(params) ==
    IF params.security = "tls" \/ (params.security = "reality" /\ params.keys) THEN params.security ELSE "none"

ClTransport(params) ==
    CASE params.type = "tcp" -> IF params.header = "http" THEN "http" ELSE "tcp"
      [] params.type \in {"ws", "httpupgrade", "grpc", "xhttp"} -> params.type
      [] OTHER -> "tcp"

ClChainDial(link) ==
    LET params == ExtractProxyParams(link)
    IN  IF params.protocol \in {"http", "socks", "ss"} THEN Plain ELSE Dial(ClTLS(params), ClTransport(params))

\* buildWebsocketOutbound: neither has a Trojan server without TLS.
ClUsable(s, protocol, pair) == protocol = "trojan" => IsTLS(s, pair)

ClServers(s, domain) == Servers(s, domain, FALSE, TRUE, LAMBDA protocol, pair : ClUsable(s, protocol, pair))

(***************************************************************************)
(* buildDNS: nameserver, proxy-server-nameserver and nameserver-policy.    *)
(***************************************************************************)
ClDetour(chain, warp, pro) ==
    IF warp THEN ClWarpGroup(FALSE, pro) ELSE IF chain THEN ClBestPing(FALSE, FALSE) ELSE ClSelector

ClResolvers(s, chain, warp, pro) ==
    {Part(ClRemote, "resolver", {ClDetour(chain, warp, pro)}), Part(ClLocal, "resolver", {ClDirect})}
        \cup (IF SanctionSites(s) = {} THEN {}
              ELSE {Part(ClAnti, "resolver", {ClDirect} \cup (IF SanctionDomain(s) THEN {ClLocal} ELSE {}))})

\* The rule sets of hosts and nameserver-policy.
ClPolicySets(s) ==
    {<<"geosite", a.rule>> : a \in BlockedSites(s) \cup LocalPairs(s) \cup LocalSites(s) \cup SanctionSites(s)}

\* A server's name is asked of the local resolver, the chain proxy's of the remote one.
ClServerPart(remark, host) == Part(remark, "server", IF IsDomain(host) THEN {ClLocal} ELSE {})
ClChainPart(s, remark, through) ==
    Part(remark, "chain", {through} \cup IF IsDomain(s.chain.server) THEN {ClRemote} ELSE {})

(***************************************************************************)
(* buildRuleProviders and buildRoutingRules.                               *)
(***************************************************************************)
RuleProviders(s) == UNION {{Part(<<"geosite", a.rule>>, "set", {})} \cup
                           (IF a.geoip THEN {Part(<<"geoip", a.rule>>, "set", {})} ELSE {})
                           : a \in GetGeoAssets(s)}

ClRules(s, warp) ==
    AccRoutingRules(s) \cup {ClDirect, ClSelector}
        \cup (IF ~warp \/ s.blockUDP443 \/ BlockedSites(s) # {} THEN {ClReject} ELSE {})

ClBuildConfig(s, outbounds, groups, chain, warp, pro) ==
    LET inUse    == SelectSeq(groups, LAMBDA g : g.via # {})
        selector == Part(ClSelector, "group", {g.tag : g \in ToSet(inUse)} \cup UNION {g.via : g \in ToSet(inUse)})
    IN  Config(<<Part(ClDirect, "direct", {}), Part(ClReject, "block", {})>>
                 \o outbounds \o <<selector>> \o inUse
                 \o SetToSeq(ClResolvers(s, chain, warp, pro)) \o SetToSeq(RuleProviders(s)),
               ClRules(s, warp) \cup ClPolicySets(s) \cup {ClRemote, ClLocal}
                 \cup (IF SanctionSites(s) = {} THEN {} ELSE {ClAnti}),
               ClSelector, {})

(***************************************************************************)
(* getClNormalConfig.  There is no fragment subscription for Clash.        *)
(***************************************************************************)
ClOutbounds(s, servers) ==
    LET remark(i, chain) == GenerateRemark(s, servers[i], FALSE, chain)
        pair(i) == <<ClServerPart(remark(i, FALSE), servers[i].host)>>
                     \o IF ChainUsable(s) THEN <<ClChainPart(s, remark(i, TRUE), remark(i, FALSE))>> ELSE <<>>
    IN  FlattenSeq([i \in DOMAIN servers |-> pair(i)])

ClMembers(s, servers, chain, own) ==
    IF chain /\ ~ChainUsable(s) THEN {}
    ELSE {GenerateRemark(s, v, FALSE, chain) : v \in {w \in ToSet(servers) : (w.domain = s.customDomain) = own}}

GetClNormalConfig(s) ==
    LET servers == FlattenSeq([i \in DOMAIN Domains(s) |-> ClServers(s, Domains(s)[i])])
        group(chain, own) == Part(ClBestPing(chain, own), "group", ClMembers(s, servers, chain, own))
    IN  ClBuildConfig(s, ClOutbounds(s, servers),
                      <<group(FALSE, FALSE), group(TRUE, FALSE), group(FALSE, TRUE), group(TRUE, TRUE)>>,
                      ChainUsable(s), FALSE, FALSE)

(***************************************************************************)
(* getClWarpConfig.                                                        *)
(***************************************************************************)
GetClWarpConfig(s, pro) ==
    LET ends == DOMAIN s.warpEndpoints
        tunnels(i) == <<ClServerPart(ClWarpRemark(i, FALSE, pro), s.warpEndpoints[i]),
                        Part(ClWarpRemark(i, TRUE, pro), "chain", {ClWarpRemark(i, FALSE, pro)})>>
        group(wow) == Part(ClWarpGroup(wow, pro), "group", {ClWarpRemark(i, wow, pro) : i \in ends})
    IN  ClBuildConfig(s, FlattenSeq([i \in ends |-> tunnels(i)]), <<group(FALSE), group(TRUE)>>, FALSE, TRUE, pro)
=============================================================================

---------------------------- MODULE XrayConfigs ----------------------------
(***************************************************************************)
(* The configurations for Xray (cores/xray).                               *)
(*                                                                         *)
(* A subscription is a list of configurations: one for each server, with   *)
(* and without the chain proxy, one that takes the best of each domain's   *)
(* servers, and for fragments the ones that try lengths of fragment or do  *)
(* without the worker.  Each is a ClientConfig: parts, the parts the rules *)
(* name, where the rest goes.                                              *)
(***************************************************************************)
EXTENDS Offers, ClientConfig

CONSTANTS FragmentLengths    \* how many lengths the Smart Fragment configuration tries

\* Tags: base-number, 0 where there is no number; a dialer's has "-fragment" appended.
Tag(base, n) == [base |-> base, n |-> n, dialer |-> FALSE]

DirectTag    == Tag("direct", 0)
BlockTag     == Tag("block", 0)
DnsOutTag    == Tag("dns-out", 0)
LocalTag     == Tag("dns", 0)          \* queries of the built-in DNS to the local resolvers
RemoteTag    == Tag("remote-dns", 0)
SanctionTag  == Tag("sanction", 0)

Outbound(tag, role, host, dial, fragment) ==
    [tag |-> tag, role |-> role, host |-> host, dial |-> dial, fragment |-> fragment]

(***************************************************************************)
(* The outbounds (outbounds.ts).  Credentials, TLS and transport are as    *)
(* the settings say; what matters here is where an outbound leads, through *)
(* what it dials and whether it fragments.                                 *)
(***************************************************************************)
BuildWebsocketOutbound(tag, host, fragment) == Outbound(tag, "server", host, None, fragment)

BuildFreedomOutbound(tag, fragment) == Outbound(tag, "freedom", None, None, fragment)

\* How the chain proxy is dialled: whatever the protocol, as the link states.
BuildTransport(params) ==
    CASE params.type \in {"tcp", "raw"} -> IF params.header = "http" THEN "http" ELSE "tcp"
      [] params.type = None -> "tcp"
      [] OTHER -> params.type

ChainDial(link) ==
    LET params == ExtractProxyParams(link)
    IN  Dial(IF params.security = None THEN "none" ELSE params.security, BuildTransport(params))

\* None when there is no chain proxy; every protocol a form accepts has an outbound.
BuildChainOutbound(s) ==
    IF s.chain = None THEN None
    ELSE Outbound(Tag("chain", 0), "chain", s.chain.server, Tag("proxy", 0), FALSE)

\* Warp in Warp has an endpoint of its own and dials through the outer tunnel.
BuildWarpOutbound(endpoint, wow) ==
    IF wow THEN Outbound(Tag("chain", 0), "chain", None, Tag("proxy", 0), FALSE)
           ELSE Outbound(Tag("proxy", 0), "server", endpoint, None, FALSE)

\* A copy under another tag; only an outbound that dials through another has that changed.
ModifyOutbound(o, tag, dial) ==
    [o EXCEPT !.tag = tag, !.dial = IF dial # None THEN dial ELSE @]

(***************************************************************************)
(* applyClientCompat: for the clients that cannot fragment in a server's   *)
(* outbound, a dialer that can is appended for each one that does.         *)
(***************************************************************************)
DialerFor(o) == Outbound([o.tag EXCEPT !.dialer = TRUE], "freedom", None, None, TRUE)

ToUniversalConfig(outbounds) ==
    LET fragments(o) == o.fragment /\ o.role # "freedom"
        rewritten(o) == IF fragments(o)
                        THEN [o EXCEPT !.fragment = FALSE,
                                       !.dial = IF @ = None THEN DialerFor(o).tag ELSE @]
                        ELSE o
        dialers      == SelectSeq(outbounds, fragments)
    IN  [i \in DOMAIN outbounds |-> rewritten(outbounds[i])]
            \o [i \in DOMAIN dialers |-> DialerFor(dialers[i])]

ApplyClientCompat(s, outbounds) ==
    IF s.clientCompat = "latest" THEN outbounds ELSE ToUniversalConfig(outbounds)

(***************************************************************************)
(* buildDNS: the names with an address in the configuration, the names the *)
(* local resolver is asked for; any other is asked of the remote one.      *)
(***************************************************************************)
Serverless(m) == m.kind = "serverless"
IsWarp(m)     == m.kind = "warp"

StaticNames(s, m) ==
    (IF IsDomain(s.remoteDNS.host) /\ m.kind = "worker" THEN {s.remoteDNS.host} ELSE {})
        \cup (IF m.static = None THEN {} ELSE {m.static})

BypassNames(s, m) ==
    {h \in ToSet(m.addrs) : IsDomain(h)}
        \cup (IF SanctionSites(s) # {} /\ SanctionDomain(s) THEN {s.antiSanctionDNS.host} ELSE {})
        \cup {h \in m.dnsHosts : IsDomain(h)}

Resolver(s, m, host) ==
    IF ~IsDomain(host) \/ host \in StaticNames(s, m) THEN {}
    ELSE IF host \in BypassNames(s, m) THEN {LocalTag} ELSE {RemoteTag}

\* The remote resolver is found by a static address, an alias of it, or by asking.
RemoteResolver(s, m) ==
    IF Serverless(m) THEN UNION {Resolver(s, m, h) : h \in m.dnsHosts}
    ELSE IF IsWarp(m) THEN {} ELSE Resolver(s, m, s.remoteDNS.host)

(***************************************************************************)
(* buildRoutingRules: the outbounds the rules name, the one that remote    *)
(* DNS queries and the one that everything else leaves by.                 *)
(***************************************************************************)
FinalTag(m) ==
    IF m.balancer THEN IF m.chain THEN Tag("all-chains", 0) ELSE Tag("all-proxies", 0)
    ELSE IF m.chain THEN Tag("chain", 0) ELSE IF Serverless(m) THEN DirectTag ELSE Tag("proxy", 0)

RemoteDnsProxy(m) == IF m.balancer THEN Tag("all-proxies", 0) ELSE Tag("proxy", 0)

BuildRoutingRules(s, m) ==
    {DnsOutTag, RemoteDnsProxy(m), DirectTag}
        \cup (IF m.kind = "worker" \/ s.blockUDP443 \/ BlockedSites(s) # {} THEN {BlockTag} ELSE {})
        \cup (IF Serverless(m) THEN {Tag("proxy", 0), Tag("http-fragment", 0), Tag("udp-noise", 0)} ELSE {})

(***************************************************************************)
(* A balancer chooses among the outbounds whose tag starts with its        *)
(* selector.                                                               *)
(***************************************************************************)
Selected(outbounds, base) == {o.tag : o \in {x \in ToSet(outbounds) : x.tag.base = base}}

BuildBalancers(outbounds, m) ==
    LET balancer(tag, base) == Part(Tag(tag, 0), "group", Selected(outbounds, base))
    IN  IF ~m.balancer THEN <<>>
        ELSE <<balancer("all-proxies", "proxy")>>
                 \o IF m.chain THEN <<balancer("all-chains", "chain")>> ELSE <<>>

\* What a configuration is made from.
Made(kind, balancer, chain, fallback, addrs, static, dnsHosts) ==
    [kind |-> kind, balancer |-> balancer, chain |-> chain, fallback |-> fallback,
     addrs |-> addrs, static |-> static, dnsHosts |-> dnsHosts]

BuildConfig(s, given, m) ==
    LET outbounds == ApplyClientCompat(s, given)
        part(o)   == Part(o.tag, o.role, (IF o.dial = None THEN {} ELSE {o.dial}) \cup Resolver(s, m, o.host))
    IN  Config([i \in DOMAIN outbounds |-> part(outbounds[i])]
                 \o BuildBalancers(outbounds, m)
                 \o <<Part(DnsOutTag, "dns", {}), Part(DirectTag, "direct", {}), Part(BlockTag, "block", {}),
                      Part(LocalTag, "resolver", {DirectTag}),
                      Part(RemoteTag, "resolver", {RemoteDnsProxy(m)} \cup RemoteResolver(s, m))>>
                 \o (IF SanctionSites(s) = {} THEN <<>>
                     ELSE <<Part(SanctionTag, "resolver",
                                 {DirectTag} \cup Resolver(s, m, s.antiSanctionDNS.host))>>),
               BuildRoutingRules(s, m),
               FinalTag(m),
               IF m.fallback THEN {Tag("proxy", 2)} ELSE {})

(***************************************************************************)
(* getXrCustomConfigs.                                                     *)
(***************************************************************************)
Single(chain, host)   == Made("worker", FALSE, chain, FALSE, <<host>>, None, {})
BestPing(chain, hosts) == Made("worker", TRUE, chain, TRUE, hosts, None, {})

XrayServers(s, domain, fragment) == Servers(s, domain, fragment, ~fragment, Always)

\* A domain's servers are numbered on from those of the domain before.
NumberedFrom(s, domain, fragment) ==
    IF domain = s.mainDomain THEN 0 ELSE Len(XrayServers(s, s.mainDomain, fragment))

Singles(s, domain, fragment) ==
    LET chain == BuildChainOutbound(s)
        proxy(server) == BuildWebsocketOutbound(Tag("proxy", 0), server.host, fragment)
    IN  UNION {{BuildConfig(s, <<proxy(server)>>, Single(FALSE, server.host))} \cup
               (IF chain = None THEN {}
                ELSE {BuildConfig(s, <<chain, proxy(server)>>, Single(TRUE, server.host))})
               : server \in ToSet(XrayServers(s, domain, fragment))}

AddBestPingConfigs(s, domain, fragment) ==
    LET servers == XrayServers(s, domain, fragment)
        first   == NumberedFrom(s, domain, fragment)
        chain   == BuildChainOutbound(s)
        hosts   == HostsFor(s, domain, fragment, ~fragment)
        proxies == [i \in DOMAIN servers |->
                      BuildWebsocketOutbound(Tag("proxy", first + i), servers[i].host, fragment)]
        chains  == [i \in DOMAIN servers |->
                      ModifyOutbound(chain, Tag("chain", first + i), Tag("proxy", first + i))]
    IN  {BuildConfig(s, proxies, BestPing(FALSE, hosts))} \cup
        (IF chain = None \/ servers = <<>> THEN {}
         ELSE {BuildConfig(s, chains \o proxies, BestPing(TRUE, hosts))})

AddBestFragmentConfigs(s) ==
    LET chain   == BuildChainOutbound(s)
        proxies == [i \in 1..FragmentLengths |->
                      BuildWebsocketOutbound(Tag("proxy", i), s.mainDomain, TRUE)]
        chains  == [i \in 1..FragmentLengths |->
                      ModifyOutbound(chain, Tag("chain", i), Tag("proxy", i))]
        made(isChain) == Made("worker", TRUE, isChain, FALSE, <<>>, s.mainDomain, {})
    IN  {BuildConfig(s, proxies, made(FALSE))} \cup
        (IF chain = None THEN {} ELSE {BuildConfig(s, chains \o proxies, made(TRUE))})

\* Without the worker: fragments and noise on the way out, and a public resolver.
AddWorkerlessConfigs(s) ==
    LET outbounds == <<BuildFreedomOutbound(Tag("proxy", 0), TRUE),
                       BuildFreedomOutbound(Tag("http-fragment", 0), TRUE),
                       BuildFreedomOutbound(Tag("udp-noise", 0), FALSE)>>
    IN  {BuildConfig(s, outbounds, Made("serverless", FALSE, FALSE, FALSE, <<>>, None, hosts))
         : hosts \in {{"cloudflare.com"}, {"8.8.8.8"}}}

GetXrCustomConfigs(s, fragment) ==
    UNION {Singles(s, d, fragment) \cup AddBestPingConfigs(s, d, fragment) : d \in ToSet(Domains(s))}
        \cup (IF fragment THEN AddBestFragmentConfigs(s) \cup AddWorkerlessConfigs(s) ELSE {})

(***************************************************************************)
(* getXrWarpConfigs: two configurations for each endpoint, the tunnel and  *)
(* the tunnel in the tunnel, and two that take the best of them.           *)
(***************************************************************************)
GetXrWarpConfigs(s) ==
    LET warp(e)   == BuildWarpOutbound(e, FALSE)
        wow(e)    == BuildWarpOutbound(e, TRUE)
        made(balancer, chain, addrs) == Made("warp", balancer, chain, FALSE, addrs, None, {})
        proxies   == [i \in DOMAIN s.warpEndpoints |->
                        ModifyOutbound(warp(s.warpEndpoints[i]), Tag("proxy", i), None)]
        chains    == [i \in DOMAIN s.warpEndpoints |->
                        ModifyOutbound(wow(s.warpEndpoints[i]), Tag("chain", i), Tag("proxy", i))]
    IN  UNION {{BuildConfig(s, <<warp(e)>>, made(FALSE, FALSE, <<e>>)),
                BuildConfig(s, <<wow(e), warp(e)>>, made(FALSE, TRUE, <<e>>))} : e \in ToSet(s.warpEndpoints)}
        \cup {BuildConfig(s, proxies, made(TRUE, FALSE, s.warpEndpoints)),
              BuildConfig(s, chains \o proxies, made(TRUE, TRUE, s.warpEndpoints))}
=============================================================================

------------------------------- MODULE Offers -------------------------------
(***************************************************************************)
(* The settings a subscription is generated from, as the panel's form      *)
(* gives them (settings/validators.ts), and what all the generators take   *)
(* from them: the addresses and ports on offer, the names they are shown   *)
(* under, the geo assets behind the rules (cores/utils.ts).                *)
(*                                                                         *)
(* A settings record s has the fields the generators branch on.  A host is *)
(* a string of which only its kind matters: a domain, an IP address, or    *)
(* neither.  None stands for an empty field.                               *)
(***************************************************************************)
EXTENDS Naturals, Sequences, SequencesExt

CONSTANTS
    HttpsPorts,    \* the ports of Cloudflare that speak TLS
    WorkersDev,    \* the domains that end with workers.dev
    Names,         \* the hosts that are domains
    Addresses,     \* the hosts that are IP addresses
    Records,       \* domain -> the IP addresses DNS answers: [v4, v6]
    Blocked,       \* the resolvers of Cloudflare, which a worker cannot use
    None

ASSUME OffersAssumption ==
    /\ HttpsPorts \subseteq Nat
    /\ WorkersDev \subseteq Names
    /\ None \notin Names \cup Addresses

IsDomain(host)    == host \in Names
IsHttps(port)     == port \in HttpsPorts
IsValidHost(host) == host \in Names \cup Addresses

(***************************************************************************)
(* validateSettings: what a form must satisfy to be saved.  One definition *)
(* for each validator of a field that the generators read.                 *)
(***************************************************************************)
ValidatePorts(s)         == \E i \in DOMAIN s.ports : IsHttps(s.ports[i])
ValidateRemoteDNS(s)     == s.remoteDNS.scheme \in {"https", "tls", "tcp"} /\ s.remoteDNS.host \notin Blocked
ValidateSanctionDns(s)   == IsValidHost(s.antiSanctionDNS.host)
ValidateLocalDNS(s)      == s.localDNS \in Addresses \cup {"localhost"}
ValidateCleanIPs(s)      == \A i \in DOMAIN s.cleanIPs : IsValidHost(s.cleanIPs[i])
ValidateWarpEndpoints(s) == \A i \in DOMAIN s.warpEndpoints : IsValidHost(s.warpEndpoints[i])
ValidateUpstreamProxy(s) == s.upstream.server # None => IsValidHost(s.upstream.server)
ValidateCustomDomain(s)  == s.customDomain # None => IsDomain(s.customDomain)
ValidateChainProxy(s)    ==
    s.chain # None =>
        /\ s.chain.protocol \in {"http", "socks", "ss", "vless", "vmess", "trojan"}
        /\ s.chain.protocol \in {"vless", "vmess", "trojan"}
             => /\ s.chain.security \in {None, "tls", "none", "reality"}
                /\ s.chain.type \in {"tcp", "raw", "ws", "grpc", "httpupgrade", "xhttp"}
ValidateCustomCdn(s) ==
    /\ (s.customCdnAddrs = <<>>) = (s.customCdnHost = None)
    /\ s.customCdnHost # None =>
         /\ IsDomain(s.customCdnHost)
         /\ \A i \in DOMAIN s.customCdnAddrs : IsValidHost(s.customCdnAddrs[i])

ValidateSettings(s) ==
    /\ ValidatePorts(s) /\ ValidateRemoteDNS(s) /\ ValidateSanctionDns(s) /\ ValidateLocalDNS(s)
    /\ ValidateCleanIPs(s) /\ ValidateWarpEndpoints(s) /\ ValidateUpstreamProxy(s)
    /\ ValidateChainProxy(s) /\ ValidateCustomCdn(s) /\ ValidateCustomDomain(s)

(***************************************************************************)
(* The servers on offer.  mainDomain is the host the request came to.      *)
(***************************************************************************)
Domains(s) == <<s.mainDomain>> \o IF s.customDomain = None THEN <<>> ELSE <<s.customDomain>>

\* The addresses under which a domain's worker answers.
GetConfigAddresses(s, domain, fragment) ==
    <<domain>> \o Records[domain].v4
               \o (IF s.enableIPv6 THEN Records[domain].v6 ELSE <<>>)
               \o s.cleanIPs
               \o (IF fragment THEN <<>> ELSE s.customCdnAddrs)

\* Plain HTTP ports are of use under workers.dev only, and never with fragments.
PortsFor(s, domain, fragment) ==
    SelectSeq(s.ports, LAMBDA port : (~fragment /\ domain \in WorkersDev) \/ IsHttps(port))

WithUpstream(s, wanted) == wanted /\ s.upstream.server # None

HostsFor(s, domain, fragment, upstream) ==
    (IF WithUpstream(s, upstream) THEN <<s.upstream.server>> ELSE <<>>)
        \o GetConfigAddresses(s, domain, fragment)

(***************************************************************************)
(* The nested loops over ports and hosts: the upstream's server goes with  *)
(* the upstream's port, and neither with anything else.                    *)
(***************************************************************************)
Pairs(s, domain, fragment, upstream) ==
    LET ports == (IF WithUpstream(s, upstream) THEN <<s.upstream.port>> ELSE <<>>)
                     \o PortsFor(s, domain, fragment)
        hosts == HostsFor(s, domain, fragment, upstream)
        all   == [i \in DOMAIN ports |-> [j \in DOMAIN hosts |-> [port |-> ports[i], host |-> hosts[j]]]]
    IN  SelectSeq(FlattenSeq(all),
                  LAMBDA p : (p.port = s.upstream.port) = (p.host = s.upstream.server))

IsTLS(s, pair) == IsHttps(pair.port) \/ pair.host = s.upstream.server

\* A server: how to reach the worker, and the number it has under its protocol.
Server(protocol, pair, domain, place) ==
    [protocol |-> protocol, host |-> pair.host, port |-> pair.port, domain |-> domain, place |-> place]

\* Pairs of a domain under each protocol; usable says which a client can dial.
Servers(s, domain, fragment, upstream, usable(_, _)) ==
    LET under(protocol) ==
          LET pairs == SelectSeq(Pairs(s, domain, fragment, upstream), LAMBDA p : usable(protocol, p))
          IN  [i \in DOMAIN pairs |-> Server(protocol, pairs[i], domain, i)]
    IN  FlattenSeq([k \in DOMAIN s.protocols |-> under(s.protocols[k])])

Always(protocol, pair) == TRUE

(***************************************************************************)
(* extractProxyParams: what a chain proxy's link states.  Links of http    *)
(* and socks state nothing about how they are dialled, the others do in    *)
(* their query.  keys tells whether a reality link has a key and a short   *)
(* id, header is that of a tcp transport.                                  *)
(***************************************************************************)
ExtractProxyParams(link) ==
    IF link.protocol \in {"http", "socks"}
    THEN [link EXCEPT !.security = None, !.type = None, !.header = None, !.keys = FALSE]
    ELSE link

\* How an outbound is dialled, as seen on the wire.
Dial(security, transport) == [security |-> security, transport |-> transport]
Plain == Dial("none", "tcp")

(***************************************************************************)
(* generateRemark: the name a server is shown under.  The glyphs are left  *)
(* out; every field that can tell two names apart is kept.                 *)
(***************************************************************************)
GenerateRemark_NoOwn(s, server, fragment, chain) ==    \* mutant: the domain is not told
    <<"remark", [place |-> server.place, chain |-> chain, protocol |-> server.protocol, fragment |-> fragment,
                 host |-> server.host, port |-> server.port]>>

GenerateRemark(s, server, fragment, chain) ==
    <<"remark",
      [place    |-> server.place,
       chain    |-> chain,
       protocol |-> server.protocol,
       fragment |-> fragment,
       own      |-> server.domain = s.customDomain,
       cdn      |-> \E i \in DOMAIN s.customCdnAddrs : s.customCdnAddrs[i] = server.host,
       address  |-> CASE server.host = s.upstream.server -> "upstream"
                      [] \E i \in DOMAIN s.cleanIPs : s.cleanIPs[i] = server.host -> "clean"
                      [] IsDomain(server.host) -> "domain"
                      [] OTHER -> "ip",
       port     |-> IF server.host = s.upstream.server THEN 0 ELSE server.port]>>

(***************************************************************************)
(* The geo assets: lists of sites, some with a list of addresses.  One of  *)
(* each shape stands for the switches that share it; s.rules holds the     *)
(* switches that are on.  Assets are looked up with the local resolver or  *)
(* with the anti-sanction one, given as a URL or as a bare host, which may *)
(* be the same server.                                                     *)
(***************************************************************************)
Bare(host) == [url |-> FALSE, host |-> host]

GetGeoAssets(s) ==
    {a \in {[rule |-> "blockAds",     type |-> "block",  geoip |-> FALSE, dns |-> None],
            [rule |-> "blockMalware", type |-> "block",  geoip |-> TRUE,  dns |-> None],
            [rule |-> "bypassIran",   type |-> "direct", geoip |-> TRUE,  dns |-> Bare(s.localDNS)],
            [rule |-> "bypassOpenAi", type |-> "direct", geoip |-> FALSE, dns |-> s.antiSanctionDNS]}
       : a.rule \in s.rules}

\* The rule sets that the routing rules name.
AccRoutingRules(s) ==
    {<<"geosite", a.rule>> : a \in GetGeoAssets(s)} \cup
    {<<"geoip", a.rule>> : a \in {x \in GetGeoAssets(s) : x.geoip}}

\* The rule sets that the DNS rules name, and who resolves what is in them.
LocalPairs(s)    == {a \in GetGeoAssets(s) : a.type = "direct" /\ a.geoip /\ a.dns = Bare(s.localDNS)}
LocalSites(s)    == {a \in GetGeoAssets(s) : a.type = "direct" /\ ~a.geoip /\ a.dns = Bare(s.localDNS)}
SanctionSites(s) == {a \in GetGeoAssets(s) : a.type = "direct" /\ a.dns = s.antiSanctionDNS}
\* getDomain: a host is found in a URL only, and counts when it is a domain.
SanctionDomain(s) == s.antiSanctionDNS.url /\ IsDomain(s.antiSanctionDNS.host)
BlockedSites(s)  == {a \in GetGeoAssets(s) : a.type = "block"}
=============================================================================

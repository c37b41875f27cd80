----------------------------- MODULE Validation -----------------------------
(***************************************************************************)
(* settings/validators.ts: which settings the server accepts.  A form is a *)
(* function from the names of all settings to their values; a text is a    *)
(* member of Texts, known by the kind of text it is and, when it parses as *)
(* a URL, by the parts of it.  A list is the set of its entries, a pair of *)
(* numeric inputs Min and Max is <<min, max>> under the common name.       *)
(*                                                                         *)
(* Every form here has every setting: the wrapper that reports a validator *)
(* that throws on a missing one is left out.                               *)
(***************************************************************************)
EXTENDS Naturals, FiniteSets

CONSTANTS
    Texts,
    Kind,          \* what kind of text each is: see Kinds
    Url,           \* the texts that parse, with their protocol, host and path
    CloudflareDNS, \* the resolvers of Cloudflare, by host
    HttpsPorts,
    NoText         \* the empty text

Kinds == {"ipv4", "cidr4", "ipv6", "cidr6", "domain", "host:port", "localhost", "uuid",
          "charset", "hex", "base64", "range", "bytes", "noise", "empty", "junk"}

ValidationAssumption ==
    /\ Kind \in [Texts -> Kinds]
    /\ DOMAIN Url \subseteq Texts
    /\ NoText \in Texts /\ Kind[NoText] = "empty" /\ NoText \notin DOMAIN Url

Is(text, kinds) == Kind[text] \in kinds
All(list, kinds) == \A text \in list : Is(text, kinds)
Parses(text) == text \in DOMAIN Url

\* isIPv4 takes a prefix length along, so a range of addresses is a host.
IPv4 == {"ipv4", "cidr4"}
Host == IPv4 \cup {"ipv6", "domain"}
Optional(kinds) == kinds \cup {"empty"}

ValidRemoteDNS(form) ==
    /\ Parses(form.remoteDNS)
    /\ Url[form.remoteDNS].protocol \in {"tcp:", "https:", "tls:"}
    /\ Url[form.remoteDNS].host \notin CloudflareDNS

ValidSanctionDns(form) ==
    Is(IF Parses(form.antiSanctionDNS) THEN Url[form.antiSanctionDNS].host
       ELSE form.antiSanctionDNS, Host)

ValidLocalDNS(form) == Is(form.localDNS, IPv4 \cup {"localhost"})
ValidWarpDNS(form) == Is(form.warpRemoteDNS, IPv4)

ValidCleanIPs(form) == All(form.cleanIPs, Host)
ValidProxyIPs(form) == All(form.proxyIPs, Host \cup {"host:port"})
ValidNAT64Prefixes(form) == All(form.prefixes, {"ipv6"})
ValidWarpEndpoints(form) == All(form.warpEndpoints, {"host:port"})

ValidCustomRules(form) ==
    /\ All(form.customBypassRules \cup form.customBlockRules, IPv4 \cup {"cidr6", "domain"})
    /\ All(form.customBypassSanctionRules, {"domain"})

MinMax == {"fragmentLength", "fragmentDelay", "fragmentMaxSplit", "knockerNoiseCount",
           "knockerNoiseSize", "knockerNoiseDelay", "amneziaNoiseSize"}

ValidMinMax(form) == \A k \in MinMax : form[k][1] <= form[k][2]

ValidUpstreamProxy(form) == Is(form.upstreamProxy, Optional({"host:port"}))

\* A chain link is known by its scheme, whether it names a user, its security and its
\* transport.
ValidChainProxy(form) ==
    \A link \in form.chainProxy :
        \/ link.scheme \in {"socks", "http", "ss"}
        \/ /\ link.scheme \in {"vless", "vmess", "trojan"}
           /\ link.user
           /\ link.security \in {"", "tls", "none", "reality"}
           /\ link.type \in {"tcp", "raw", "ws", "grpc", "httpupgrade", "xhttp"}

ValidCustomCdn(form) ==
    LET given == {form.customCdnHost, form.customCdnSni} \ {NoText} IN
    \/ form.customCdnAddrs = {} /\ given = {}
    \/ /\ form.customCdnAddrs # {} /\ All(form.customCdnAddrs, Host)
       /\ Is(form.customCdnHost, {"domain"}) /\ Is(form.customCdnSni, {"domain"})

ValidKnockerNoise(form) == Is(form.knockerNoiseMode, {"noise", "hex"})

PacketKind == [base64 |-> "base64", rand |-> "range", hex |-> "hex", array |-> "bytes"]

ValidXrayNoises(form) ==
    \A noise \in form.xrayUdpNoises :
        /\ noise.delay[1] <= noise.delay[2]
        /\ noise.type \in DOMAIN PacketKind => Is(noise.packet, {PacketKind[noise.type]})

ValidEchConfig(form) == Is(form.echServerName, Optional({"domain"}))
ValidUUID(form) == Is(form.vlUUID, {"uuid"})
ValidTrPass(form) == ~Is(form.trPass, {"junk"})
ValidFallback(form) == Is(form.fallback, Optional({"domain"}))

ValidDoH(form) ==
    \/ form.dohUrl = NoText
    \/ /\ Parses(form.dohUrl)
       /\ Url[form.dohUrl].protocol = "https:" /\ Url[form.dohUrl].path = "/dns-query"

ValidPath(form) == ~Is(form.securePath, {"junk"})
ValidCustomDomain(form) == Is(form.customDomain, Optional({"domain"}))
ValidExtSubs(form) ==
    \A text \in form.customSubs : Parses(text) /\ Url[text].protocol \in {"http:", "https:"}

ValidRemoteSettings(form) ==
    \/ form.remoteSettings = NoText
    \/ Parses(form.remoteSettings) /\ Url[form.remoteSettings].path = "/sub/share-settings"

ValidPorts(form) == form.ports \cap HttpsPorts # {}

\* The settings a validator reads.
Validated ==
    MinMax \cup
    {"ports", "remoteDNS", "antiSanctionDNS", "localDNS", "warpRemoteDNS", "cleanIPs", "proxyIPs",
     "prefixes", "warpEndpoints", "upstreamProxy", "chainProxy", "customCdnAddrs",
     "customCdnHost", "customCdnSni", "knockerNoiseMode", "xrayUdpNoises", "customBypassRules",
     "customBlockRules", "customBypassSanctionRules", "echServerName", "vlUUID", "trPass",
     "fallback", "dohUrl", "securePath", "customDomain", "customSubs", "remoteSettings"}

\* validateSettings.
Accepts(form) ==
    /\ ValidPorts(form) /\ ValidRemoteDNS(form) /\ ValidSanctionDns(form)
    /\ ValidLocalDNS(form) /\ ValidWarpDNS(form) /\ ValidCleanIPs(form)
    /\ ValidProxyIPs(form) /\ ValidNAT64Prefixes(form) /\ ValidWarpEndpoints(form)
    /\ ValidMinMax(form) /\ ValidUpstreamProxy(form) /\ ValidChainProxy(form)
    /\ ValidCustomCdn(form) /\ ValidKnockerNoise(form) /\ ValidXrayNoises(form)
    /\ ValidCustomRules(form) /\ ValidEchConfig(form) /\ ValidUUID(form)
    /\ ValidTrPass(form) /\ ValidFallback(form) /\ ValidDoH(form) /\ ValidPath(form)
    /\ ValidCustomDomain(form) /\ ValidExtSubs(form) /\ ValidRemoteSettings(form)
=============================================================================

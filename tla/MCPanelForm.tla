---------------------------- MODULE MCPanelForm ----------------------------
(***************************************************************************)
(* Two tabs of one operator, two isolates, one deployment with the default *)
(* settings and one that was edited badly, and what may be around them.    *)
(***************************************************************************)
EXTENDS PanelForm

CONSTANTS t1, t2, i1, i2

MCTexts == {"https://8.8.8.8/dns-query", "https://1.1.1.1/dns-query", "tcp://9.9.9.9",
            "https://doh.example/dns-query", "8.8.8.8", "1.1.1.1", "178.22.122.100",
            "www.speedtest.net", "104.16.0.1", "engage:2408", "uuid-a", "uuid-b", "pass-a",
            "path-a", "quic", "64:ff9b::", ""}
MCKind ==
    [x \in MCTexts |->
        CASE x \in {"8.8.8.8", "1.1.1.1", "178.22.122.100", "104.16.0.1"} -> "ipv4"
          [] x = "www.speedtest.net" -> "domain"
          [] x = "64:ff9b::" -> "ipv6"
          [] x = "engage:2408" -> "host:port"
          [] x \in {"uuid-a", "uuid-b"} -> "uuid"
          [] x \in {"pass-a", "path-a"} -> "charset"
          [] x = "quic" -> "noise"
          [] x = "" -> "empty"
          [] OTHER -> "junk"]
Parts(protocol, host) == [protocol |-> protocol, host |-> host, path |-> "/dns-query"]
MCUrl == "https://8.8.8.8/dns-query" :> Parts("https:", "8.8.8.8")
         @@ "https://1.1.1.1/dns-query" :> Parts("https:", "1.1.1.1")
         @@ "tcp://9.9.9.9" :> Parts("tcp:", "9.9.9.9")
         @@ "https://doh.example/dns-query" :> Parts("https:", "doh.example")

\* kvSettings and a fresh identity.
Default ==
    [remoteDNS |-> "https://8.8.8.8/dns-query", localDNS |-> "8.8.8.8",
     antiSanctionDNS |-> "178.22.122.100", warpRemoteDNS |-> "1.1.1.1",
     fakeDNS |-> FALSE, enableIPv6 |-> FALSE, allowLANConnection |-> FALSE,
     logLevel |-> "warning", customDomain |-> "", protocols |-> {"vless", "trojan"},
     ports |-> {443}, cleanIPs |-> {"www.speedtest.net"}, warpEndpoints |-> {"engage:2408"},
     enableTFO |-> FALSE, enableECH |-> FALSE, echServerName |-> "",
     bestPingInterval |-> 30, blockUDP443 |-> FALSE, blockAds |-> FALSE,
     blockMalware |-> FALSE, blockPhishing |-> FALSE, blockCryptominers |-> FALSE,
     fragmentMode |-> "custom", fragmentPackets |-> "tlshello",
     fragmentLength |-> <<100, 200>>, fragmentDelay |-> <<1, 1>>, fragmentMaxSplit |-> <<0, 0>>,
     knockerNoiseMode |-> "quic", knockerNoiseCount |-> <<10, 15>>,
     knockerNoiseSize |-> <<5, 10>>, knockerNoiseDelay |-> <<1, 1>>,
     amneziaNoiseSize |-> <<50, 100>>, xrayUdpNoises |-> {},
     upstreamProxy |-> "", chainProxy |-> {}, customCdnAddrs |-> {}, customCdnHost |-> "",
     customCdnSni |-> "", customBypassRules |-> {}, customBlockRules |-> {},
     customBypassSanctionRules |-> {}, customSubs |-> {}, remoteSettings |-> "",
     panelVersion |-> <<1, 2, 0>>,
     vlUUID |-> "uuid-a", trPass |-> "pass-a", securePath |-> "path-a",
     proxyIpMode |-> "proxyip", proxyIPs |-> {}, prefixes |-> {}, fallback |-> "",
     dohUrl |-> ""]

Neglected ==
    [Default EXCEPT !.remoteDNS = "tcp://9.9.9.9", !.protocols = {}, !.ports = {443, 80},
                    !.logLevel = "debug", !.allowLANConnection = TRUE, !.cleanIPs = {},
                    !.fragmentLength = <<7, 9>>, !.panelVersion = None]

MCStored == {Default, Neglected}

Run(best, healthy, age) == [best |-> best, healthy |-> healthy, targets |-> 4, age |-> age]
World(password, failures, runs) ==
    [kv |-> TRUE, password |-> password, token |-> FALSE, bot |-> FALSE, warp |-> TRUE,
     attempts |-> 20, failures |-> failures, runs |-> runs]
MCWorlds ==
    {World(TRUE, 0, <<Run(85, 4, 0)>>),
     World(FALSE, 15, <<>>),
     World(TRUE, 12, <<Run(60, 2, 9), Run(80, 3, 10)>>),
     World(TRUE, 0, <<Run(None, 0, 1), Run(80, 4, 2)>>)}

MCEdits == {<<"proxyIPs", {"104.16.0.1"}>>, <<"fragmentMode", "low">>,
            <<"fragmentLength", <<300, 20>>>>, <<"vlUUID", "uuid-b">>}

\* Settings whose mode was set by the route of the modes, which leaves the numbers.
Other == [Neglected EXCEPT !.vlUUID = "uuid-b", !.fragmentMode = "medium",
                           !.fragmentLength = <<100, 200>>, !.proxyIPs = {"104.16.0.1"}]

\* share-settings leaves out the links of one deployment and its identity.
MCShared ==
    {[k \in FormKeys \ {"remoteSettings", "customDomain", "vlUUID", "trPass", "securePath"} |->
        Other[k]]}

\* A backup written by hand, which names the identity, and one of a later version.
MCBackups ==
    {[of |-> Other,
      envelope |-> [product |-> "rayzen", format |-> 1, version |-> version,
                    settings |-> [k \in Keys \ {"xrayUdpNoises"} |-> Other[k]],
                    checksum |-> None]] : version \in {<<1, 1, 0>>, <<2, 0, 0>>}}

MCTried == {"restricted-network", "privacy"}
MCModes == {<<"prefix", "medium">>, <<None, "low">>}

MCPrefixes == {"64:ff9b::"}
MCEncrypted == {"https://8.8.8.8/dns-query", "https://1.1.1.1/dns-query"}
MCVersion == <<1, 2, 0>>
MCPorts == {443, 8443, 2053, 2083, 2087, 2096}
MCTabs == {t1, t2}
MCIsolates == {i1, i2}
Symmetry == {[x \in {t1, t2, i1, i2} |->
                IF x \in {t1, t2} THEN (IF a THEN x ELSE IF x = t1 THEN t2 ELSE t1)
                ELSE (IF b THEN x ELSE IF x = i1 THEN i2 ELSE i1)] : a, b \in BOOLEAN}
=============================================================================

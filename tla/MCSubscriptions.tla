-------------------------- MODULE MCSubscriptions --------------------------
(* Three families of forms: one varies what is on offer, one what the rules  *)
(* and the resolvers refer to, one the link of the chain proxy; and the one  *)
(* form that is enough where requests overlap.                               *)
EXTENDS Subscriptions

MCHttpsPorts == {443, 2053, 8443}
MCWorkersDev == {"panel.workers.dev"}
MCNames      == {"panel.workers.dev", "own.example", "edge.example", "cdn.example", "dns.example",
                 "up.example", "chain.example", "cloudflare.com"}
MCAddresses  == {"v4", "v6", "clean", "up-ip", "chain-ip", "local-ip", "8.8.8.8"}
MCRecords    == [d \in {"panel.workers.dev", "own.example"} |->
                   IF d = "own.example" THEN [v4 |-> <<"v4">>, v6 |-> <<"v6">>] ELSE [v4 |-> <<"v4">>, v6 |-> <<>>]]
MCLengths    == [name |-> 12, content |-> 200, noise |-> 40,
                 host |-> [edge \in MCNames \cup MCAddresses |-> IF edge \in MCNames THEN 12 ELSE 9]]

NoUpstream == [server |-> None, port |-> 0]
ChainLink(protocol, security, server) ==
    [protocol |-> protocol, security |-> security, server |-> server, type |-> "tcp", header |-> "none", keys |-> TRUE]

Base ==
    [ports |-> <<443>>, protocols |-> <<"vless", "trojan">>, mainDomain |-> "panel.workers.dev",
     customDomain |-> None, cleanIPs |-> <<>>, customCdnAddrs |-> <<>>, customCdnHost |-> None,
     upstream |-> NoUpstream, chain |-> None, enableIPv6 |-> FALSE, clientCompat |-> "latest",
     fakeDNS |-> FALSE, blockUDP443 |-> FALSE,
     remoteDNS |-> [scheme |-> "https", host |-> "8.8.8.8"], localDNS |-> "local-ip",
     antiSanctionDNS |-> [url |-> TRUE, host |-> "dns.example"], rules |-> {},
     warpEndpoints |-> <<"edge.example", "v6">>, warpAccounts |-> 2,
     customConfigs |-> <<"own link">>, customSubs |-> <<"text", None>>]

Chains == {None, ChainLink("socks", None, "chain-ip"), ChainLink("vless", "tls", "chain.example"),
           ChainLink("trojan", "none", "chain.example")}

Offering ==
    {[Base EXCEPT !.ports = ports, !.protocols = protocols, !.customDomain = own, !.upstream = up,
                  !.chain = chain, !.enableIPv6 = wide, !.cleanIPs = IF wide THEN <<"clean">> ELSE <<>>,
                  !.customCdnAddrs = IF wide THEN <<"cdn.example">> ELSE <<>>,
                  !.customCdnHost = IF wide THEN "cdn.example" ELSE None,
                  !.clientCompat = IF wide THEN "universal" ELSE "latest"]
       : ports \in {<<443>>, <<443, 2053>>, <<443, 80>>, <<80>>},
         protocols \in {<<"vless">>, <<"vless", "trojan">>},
         own \in {None, "own.example"},
         up \in {NoUpstream, [server |-> "up.example", port |-> 8443], [server |-> "up-ip", port |-> 2053]},
         chain \in Chains, wide \in BOOLEAN}

Resolving ==
    {[Base EXCEPT !.remoteDNS.host = remote, !.antiSanctionDNS = anti, !.rules = rules, !.warpEndpoints = ends,
                  !.chain = chain, !.warpAccounts = IF rules = {} THEN 1 ELSE 2, !.fakeDNS = on, !.blockUDP443 = on,
                  !.customDomain = IF on THEN "own.example" ELSE None]
       : remote \in {"8.8.8.8", "dns.example"},
         anti \in {[url |-> TRUE, host |-> "dns.example"], [url |-> TRUE, host |-> "v4"],
                   [url |-> FALSE, host |-> "local-ip"]},
         rules \in {{}, {"blockAds", "bypassIran"}, {"blockMalware", "bypassOpenAi"}},
         ends \in {<<"edge.example", "v6">>, <<"v4">>},
         chain \in {None, ChainLink("vless", "tls", "chain.example")},
         on \in BOOLEAN}

Links ==
    {[protocol |-> protocol, security |-> security, server |-> "chain-ip", type |-> type,
      header |-> IF type \in {"tcp", "raw"} THEN header ELSE "none",
      keys |-> security = "reality" /\ header = "none"]
       : protocol \in {"http", "ss", "trojan"}, security \in {None, "none", "tls", "reality"},
         type \in {"tcp", "raw", "ws", "xhttp", "kcp"}, header \in {"none", "http"}}

Chaining == {[Base EXCEPT !.chain = link, !.protocols = <<"vless">>] : link \in Links}

MCForms == Offering \cup Resolving \cup Chaining
FewForms == {Base}
=============================================================================

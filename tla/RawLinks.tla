------------------------------ MODULE RawLinks ------------------------------
(***************************************************************************)
(* The raw subscription (cores/common.ts): one link for each server, those *)
(* of one protocol after those of the other, then the chain proxy, then    *)
(* what the operator adds: links of his own and the subscriptions of       *)
(* others, fetched and left out when that fails.                           *)
(***************************************************************************)
EXTENDS Offers

\* The loops nest the other way round than the other generators': a port, an address,
\* a link for each protocol that is on.  The numbers go on from domain to domain.
RawServers(s, domain, protocol) ==
    LET pairs == Pairs(s, domain, FALSE, TRUE)
        first == IF domain = s.mainDomain THEN 0 ELSE Len(Pairs(s, s.mainDomain, FALSE, TRUE))
    IN  IF \E k \in DOMAIN s.protocols : s.protocols[k] = protocol
        THEN [i \in DOMAIN pairs |-> Server(protocol, pairs[i], domain, first + i)]
        ELSE <<>>

RawLinksOf(s, protocol) ==
    FlattenSeq([i \in DOMAIN Domains(s) |-> RawServers(s, Domains(s)[i], protocol)])

(***************************************************************************)
(* The text: a link, and whether a line ends after it.  A link without a   *)
(* line end is run together with the next one.                             *)
(***************************************************************************)
Ended(links)  == [i \in DOMAIN links |-> [link |-> links[i], ended |-> TRUE]]
Joined(links) == [i \in DOMAIN links |-> [link |-> links[i], ended |-> i < Len(links)]]

\* fetchCustomSubs: the texts that came, None for one that did not.
FetchCustomSubs(s) == SelectSeq(s.customSubs, LAMBDA text : text # None)

GetURLConfigs(s) ==
    Ended(RawLinksOf(s, "vless")) \o Ended(RawLinksOf(s, "trojan"))
        \o Joined(IF s.chain = None THEN <<>> ELSE <<s.chain>>)
        \o Joined(s.customConfigs) \o Joined(FetchCustomSubs(s))

\* A link can be read when it is alone on its line.
Alone(text, i) == (i = 1 \/ text[i - 1].ended) /\ (i = Len(text) \/ text[i].ended)
=============================================================================

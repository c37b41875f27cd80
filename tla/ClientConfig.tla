---------------------------- MODULE ClientConfig ----------------------------
(***************************************************************************)
(* What a proxy client makes of a configuration, whichever its dialect.    *)
(*                                                                         *)
(* A configuration is a sequence of named parts: servers, chain proxies,   *)
(* groups that choose one of their members, DNS servers, rule sets.  A     *)
(* part works by way of others: a chain proxy dials through a server, a    *)
(* server given by name is looked up with a DNS server, a DNS server is    *)
(* reached through a group.  The rules name parts too, and traffic that no *)
(* rule claims leaves by the final one.                                    *)
(*                                                                         *)
(* This is the vocabulary the properties are written in; the generators    *)
(* are in XrayConfigs, SingBoxConfigs and ClashConfigs.                    *)
(***************************************************************************)
EXTENDS Naturals, Sequences, FiniteSets, SequencesExt

Part(tag, role, via) == [tag |-> tag, role |-> role, via |-> via]

\* A configuration: its parts, the parts the rules name, where the rest goes, and
\* what a group without a working member falls back to.
Config(parts, uses, final, fallback) ==
    [parts |-> parts, uses |-> uses, final |-> final, fallback |-> fallback]

Parts(c) == ToSet(c.parts)
Tags(c)  == {p.tag : p \in Parts(c)}

\* No two parts have one name.
DistinctTags(c) == Cardinality(Tags(c)) = Len(c.parts)

\* Every name that is used is the name of a part.
Resolves(c) == UNION {p.via : p \in Parts(c)} \cup c.uses \cup {c.final} \subseteq Tags(c)

(***************************************************************************)
(* No part needs itself, however indirectly: taking away, round after      *)
(* round, the parts that need none of those left leaves nothing.           *)
(***************************************************************************)
Terminates(c) ==
    LET round(left, p) == {q \in left : q.via \cap {x.tag : x \in left} # {}}
    IN  FoldLeft(round, Parts(c), c.parts) = {}

\* Where traffic that leaves by part tag may go: a group goes where its members go.
Exits(c, tag) ==
    LET expand(tags, p) == IF p.role = "group" /\ p.tag \in tags
                           THEN (tags \ {p.tag}) \cup p.via
                           ELSE tags
        twice == c.parts \o c.parts     \* groups hold groups, never deeper than that
    IN  FoldLeft(expand, {tag}, twice)

\* Traffic that no rule claims has somewhere to go, and goes through a proxy.
DefaultProxied(c) ==
    LET leaving == Exits(c, c.final)
    IN  leaving # {} /\ leaving \cap {p.tag : p \in {q \in Parts(c) : q.role \notin {"server", "chain"}}} = {}
=============================================================================

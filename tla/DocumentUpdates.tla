--------------------------- MODULE DocumentUpdates ---------------------------
(***************************************************************************)
(* What one RayZen document holds and what its mutators do to it           *)
(* (platform/repositories.ts).  A document is a list of entries, newest    *)
(* first: the history log, and the bounded lists of the others.  An entry  *)
(* is named after the update that adds it, or after the other request that *)
(* did.                                                                    *)
(***************************************************************************)
EXTENDS Naturals, Sequences

CONSTANTS
    Updates,   \* the calls of update() made on one document object
    Mutation,  \* what each does: "append", "clear", or "throw"
    Others,    \* entries other requests add to the same key
    Retain,    \* RETENTION.historyEntries and its like
    Undefined

ASSUME UpdatesAssumption ==
    /\ Mutation \in [Updates -> {"append", "clear", "throw"}]
    /\ Retain \in Nat \ {0}
    /\ Undefined \notin Seq(Updates \cup Others)

Entries   == Updates \cup Others
Documents == {doc \in Seq(Entries) : Len(doc) <= Retain}

\* What createDocument's `empty` returns.
Empty == <<>>

\* [entry, ...current.entries].slice(0, Retain)
Prepend(doc, entry) ==
    SubSeq(<<entry>> \o doc, 1, IF Len(doc) < Retain THEN Len(doc) + 1 ELSE Retain)

Throws(u) == Mutation[u] = "throw"

Mutate(doc, u) == IF Mutation[u] = "clear" THEN Empty ELSE Prepend(doc, u)

=============================================================================

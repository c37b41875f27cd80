-------------------------- MODULE PlatformDocument --------------------------
(***************************************************************************)
(* createDocument (platform/repositories.ts): one JSON document of KV,     *)
(* cached for the life of a request, mutated in memory through a promise   *)
(* chain and written by flush().                                           *)
(*                                                                         *)
(* The calls of update(), read() and flush() on one document object        *)
(* interleave at their awaits.  Between two awaits nothing else runs, so   *)
(* the answer of a KV get, the assignment of `cached` and the mutation     *)
(* that waited for it are one step.  Other requests write the same key.    *)
(***************************************************************************)
EXTENDS DocumentUpdates, FiniteSets

CONSTANTS
    Readers,   \* the calls of read()
    Flushers,  \* the calls of flush()
    Orderly,   \* BOOLEAN: a caller awaits its read before it updates
    KvFaults     \* BOOLEAN: KV may refuse calls

ASSUME CallsAssumption ==
    /\ Updates \cap Readers = {} /\ Updates \cap Flushers = {}
    /\ Readers \cap Flushers = {}
    /\ Orderly \in BOOLEAN /\ KvFaults \in BOOLEAN

VARIABLES
    stored,    \* the KV key
    cached,    \* the document in memory, Undefined while it is undefined
    dirty,
    queue,     \* the links of the promise chain that have not settled
    pc,        \* where each call is
    waiting,   \* the links a flush waits for
    hand,      \* what a flush has serialised
    inHand,    \* history: the applied updates it serialised
    written,   \* history: the applied updates some put has carried to KV
    covered    \* history: the updates called before each flush was

documentVars == <<stored, cached, dirty, queue, pc, waiting, hand, inHand, written, covered>>

Calls == Updates \cup Readers \cup Flushers

InQueue == {queue[i] : i \in 1..Len(queue)}
Applied == {u \in Updates : pc[u] = "applied"}

DInit ==
    /\ stored \in {Empty} \cup {<<o>> : o \in Others}
    /\ cached = Undefined
    /\ dirty = FALSE
    /\ queue = <<>>
    /\ pc = [c \in Calls |-> "idle"]
    /\ waiting = [f \in Flushers |-> {}]
    /\ hand = [f \in Flushers |-> Undefined]
    /\ inHand = [f \in Flushers |-> {}]
    /\ written = {}
    /\ covered = [f \in Flushers |-> {}]

GoTo(c, step) == pc' = [pc EXCEPT ![c] = step]

\* What `read` finds in KV: an unreadable document is an empty one.
Loadable == {stored} \cup (IF KvFaults THEN {Empty} ELSE {})

-----------------------------------------------------------------------------
(***************************************************************************)
(* update(mutate).                                                         *)
(***************************************************************************)
CallUpdate(u) ==
    /\ pc[u] = "idle"
    /\ Orderly => \A r \in Readers : pc[r] # "loading"
    /\ queue' = Append(queue, u)
    /\ GoTo(u, "queued")
    /\ UNCHANGED <<stored, cached, dirty, waiting, hand, inHand, written, covered>>

\* Faulty variant: no chain, every link starts on its own.
IsNext_Unchained(u) == pc[u] \in {"queued", "loading"}

IsNext(u) == queue # <<>> /\ Head(queue) = u

\* The first link to find no cached document asks KV for it.
StartLoad(u) ==
    /\ pc[u] = "queued"
    /\ IsNext(u)
    /\ cached = Undefined
    /\ GoTo(u, "loading")
    /\ UNCHANGED <<stored, cached, dirty, queue, waiting, hand, inHand, written, covered>>

\* Faulty variant: a link that throws leaves the chain rejected for good.
Settle_Rejecting(u, base) ==
    IF Throws(u)
      THEN /\ cached' = base
           /\ GoTo(u, "rejected")
           /\ UNCHANGED <<dirty, queue>>
      ELSE /\ cached' = Mutate(base, u)
           /\ dirty' = TRUE
           /\ GoTo(u, "applied")
           /\ queue' = Tail(queue)

\* The link runs its mutator on the document and settles; a mutator that throws
\* settles it too, or every later link would wait for ever.
Settle(u, base) ==
    /\ queue' = Tail(queue)
    /\ IF Throws(u)
         THEN /\ cached' = base
              /\ GoTo(u, "rejected")
              /\ UNCHANGED dirty
         ELSE /\ cached' = Mutate(base, u)
              /\ dirty' = TRUE
              /\ GoTo(u, "applied")

Apply(u) ==
    /\ pc[u] = "queued"
    /\ IsNext(u)
    /\ cached # Undefined
    /\ Settle(u, cached)
    /\ UNCHANGED <<stored, waiting, hand, inHand, written, covered>>

LoadThenApply(u) ==
    /\ pc[u] = "loading"
    /\ \E base \in Loadable : Settle(u, base)
    /\ UNCHANGED <<stored, waiting, hand, inHand, written, covered>>

-----------------------------------------------------------------------------
(***************************************************************************)
(* read() by a caller, outside the chain.                                  *)
(***************************************************************************)
CallRead(r) ==
    /\ pc[r] = "idle"
    /\ Orderly => cached # Undefined \/ queue = <<>>
    /\ GoTo(r, IF cached = Undefined THEN "loading" ELSE "done")
    /\ UNCHANGED <<stored, cached, dirty, queue, waiting, hand, inHand, written, covered>>

\* The get's answer becomes the document, whatever `cached` holds by now.
LoadThenRead(r) ==
    /\ pc[r] = "loading"
    /\ cached' \in Loadable
    /\ GoTo(r, "done")
    /\ UNCHANGED <<stored, dirty, queue, waiting, hand, inHand, written, covered>>

-----------------------------------------------------------------------------
(***************************************************************************)
(* flush().                                                                *)
(***************************************************************************)

\* Faulty variant: the dirty flag is checked before the chain is awaited.
CallFlush_NoDrain(f) ==
    /\ pc[f] = "idle"
    /\ covered' = [covered EXCEPT ![f] = Applied \cup InQueue]
    /\ GoTo(f, "draining")
    /\ UNCHANGED <<stored, cached, dirty, queue, waiting, hand, inHand, written>>

CallFlush(f) ==
    /\ pc[f] = "idle"
    /\ waiting' = [waiting EXCEPT ![f] = InQueue]
    /\ covered' = [covered EXCEPT ![f] = Applied \cup InQueue]
    /\ GoTo(f, "draining")
    /\ UNCHANGED <<stored, cached, dirty, queue, hand, inHand, written>>

\* The chain as it stood at the call has settled.
CheckDirty(f) ==
    /\ pc[f] = "draining"
    /\ waiting[f] \cap InQueue = {}
    /\ IF ~dirty \/ cached = Undefined
         THEN GoTo(f, "clean") /\ UNCHANGED <<hand, inHand>>
         ELSE /\ hand' = [hand EXCEPT ![f] = cached]
              /\ inHand' = [inHand EXCEPT ![f] = Applied]
              /\ GoTo(f, "putting")
    /\ UNCHANGED <<stored, cached, dirty, queue, waiting, written, covered>>

FlushLands(f) ==
    /\ pc[f] = "putting"
    /\ stored' = hand[f]
    /\ written' = written \cup inHand[f]
    /\ dirty' = FALSE
    /\ GoTo(f, "wrote")
    /\ UNCHANGED <<cached, queue, waiting, hand, inHand, covered>>

FlushFails(f) ==
    /\ KvFaults
    /\ pc[f] = "putting"
    /\ GoTo(f, "failed")
    /\ UNCHANGED <<stored, cached, dirty, queue, waiting, hand, inHand, written, covered>>

-----------------------------------------------------------------------------
\* Another request reads, extends and writes the same key.
OtherWrites(o) ==
    /\ o \notin {stored[i] : i \in 1..Len(stored)}
    /\ stored' = Prepend(stored, o)
    /\ UNCHANGED <<cached, dirty, queue, pc, waiting, hand, inHand, written, covered>>

Step(c) ==
    \/ c \in Updates  /\ (StartLoad(c) \/ Apply(c) \/ LoadThenApply(c))
    \/ c \in Readers  /\ LoadThenRead(c)
    \/ c \in Flushers /\ (CheckDirty(c) \/ FlushLands(c))

DNext ==
    \/ \E u \in Updates  : CallUpdate(u) \/ StartLoad(u) \/ Apply(u) \/ LoadThenApply(u)
    \/ \E r \in Readers  : CallRead(r) \/ LoadThenRead(r)
    \/ \E f \in Flushers : CallFlush(f) \/ CheckDirty(f) \/ FlushLands(f) \/ FlushFails(f)
    \/ \E o \in Others   : OtherWrites(o)

DSpec == DInit /\ [][DNext]_documentVars

\* The runtime resumes every call whose awaited promise has settled.
FairSpec == DSpec /\ \A c \in Calls : WF_documentVars(Step(c))

-----------------------------------------------------------------------------
DTypeOK ==
    /\ stored \in Documents
    /\ cached \in Documents \cup {Undefined}
    /\ dirty \in BOOLEAN
    /\ queue \in Seq(Updates)
    /\ pc \in [Calls -> {"idle", "queued", "loading", "applied", "rejected",
                         "done", "draining", "putting", "clean", "wrote", "failed"}]
    /\ waiting \in [Flushers -> SUBSET Updates]
    /\ hand \in [Flushers -> Documents \cup {Undefined}]
    /\ inHand \in [Flushers -> SUBSET Updates]
    /\ written \subseteq Updates
    /\ covered \in [Flushers -> SUBSET Updates]

\* The chain holds each unsettled update once, only its first link can be waiting
\* for KV, and a put carries a document.
Chain ==
    /\ \A u \in Updates : pc[u] \in {"queued", "loading"} <=> u \in InQueue
    /\ \A i, j \in 1..Len(queue) : queue[i] = queue[j] => i = j
    /\ \A u \in Updates : pc[u] = "loading" => IsNext(u)
    /\ Applied # {} => cached # Undefined
    /\ \A f \in Flushers : pc[f] = "putting" => hand[f] \in Documents

\* With orderly callers, whoever waits for KV has nothing to overwrite.
Loading ==
    /\ \A u \in Updates : pc[u] = "loading" => cached = Undefined
    /\ \A r \in Readers : pc[r] = "loading" => queue = <<>> /\ Applied = {}

Rejected == {u \in Updates : pc[u] = "rejected"}

\* A flush that answers, having written or not, leaves every update called before
\* it in KV, or rejected: "write everything queued so far" (repositories.ts:200).
FlushCoversQueued ==
    \A f \in Flushers : pc[f] \in {"wrote", "clean"} =>
        covered[f] \subseteq written \cup Rejected

\* What makes that inductive while flush is called once: until its put lands
\* nothing clears the dirty flag, and it serialises after everything it waits for.
OneFlush ==
    \A f \in Flushers :
        /\ pc[f] \in {"idle", "draining", "putting"} =>
             written = {} /\ (Applied # {} => dirty)
        /\ pc[f] = "draining" =>
             covered[f] \subseteq Applied \cup Rejected \cup (waiting[f] \cap InQueue)
        /\ pc[f] = "putting" => covered[f] \subseteq inHand[f] \cup Rejected
        /\ pc[f] \in {"wrote", "clean"} => covered[f] \subseteq written \cup Rejected

\* Every update settles, whatever the ones before it did, and every flush answers.
CallsSettle ==
    /\ \A u \in Updates : pc[u] = "queued" ~> pc[u] \in {"applied", "rejected"}
    /\ \A f \in Flushers : pc[f] = "draining" ~> pc[f] \in {"wrote", "clean", "failed"}

\* The document keeps the promises of AtomicDocument.
Atomic == INSTANCE AtomicDocument WITH
    document <- cached,
    calls    <- queue,
    status   <- [u \in Updates |-> IF pc[u] \in {"queued", "loading"} THEN "called" ELSE pc[u]],
    writing  <- [f \in Flushers |-> IF pc[f] = "putting" THEN hand[f] ELSE Undefined]

ImplementsAtomic == Atomic!ASpec

=============================================================================

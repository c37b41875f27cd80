--------------------------- MODULE AtomicDocument ---------------------------
(***************************************************************************)
(* What a document promises its callers: updates are applied one at a      *)
(* time, in the order they were called, each exactly once and on top of    *)
(* all earlier ones; one whose mutator throws is rejected and changes      *)
(* nothing; and a flush writes the document as it was at one instant.      *)
(***************************************************************************)
EXTENDS DocumentUpdates

CONSTANTS
    Flushers,  \* the calls of flush()
    KvFaults     \* BOOLEAN: KV may refuse calls

VARIABLES
    stored,    \* the KV key
    document,  \* the document, Undefined until something has loaded it
    calls,     \* updates called and not settled, in call order
    status,    \* of each update
    writing    \* what each flush is writing, Undefined when it is not

atomicVars == <<stored, document, calls, status, writing>>

AInit ==
    /\ stored \in {Empty} \cup {<<o>> : o \in Others}
    /\ document = Undefined
    /\ calls = <<>>
    /\ status = [u \in Updates |-> "idle"]
    /\ writing = [f \in Flushers |-> Undefined]

\* What loading the document may yield: a failed read is an empty document.
Loadable == {stored} \cup (IF KvFaults THEN {Empty} ELSE {})

\* Until the first update is applied, the document may be loaded, and again.
ALoad ==
    /\ \A u \in Updates : status[u] # "applied"
    /\ document' \in Loadable
    /\ UNCHANGED <<stored, calls, status, writing>>

ACall(u) ==
    /\ status[u] = "idle"
    /\ calls' = Append(calls, u)
    /\ status' = [status EXCEPT ![u] = "called"]
    /\ UNCHANGED <<stored, document, writing>>

ASettle(u) ==
    /\ calls # <<>> /\ u = Head(calls)
    /\ calls' = Tail(calls)
    /\ \E base \in IF document = Undefined THEN Loadable ELSE {document} :
         IF Throws(u)
           THEN document' = base /\ status' = [status EXCEPT ![u] = "rejected"]
           ELSE document' = Mutate(base, u) /\ status' = [status EXCEPT ![u] = "applied"]
    /\ UNCHANGED <<stored, writing>>

ABeginWrite(f) ==
    /\ writing[f] = Undefined
    /\ document # Undefined
    /\ writing' = [writing EXCEPT ![f] = document]
    /\ UNCHANGED <<stored, document, calls, status>>

AEndWrite(f) ==
    /\ writing[f] # Undefined
    /\ stored' = writing[f]
    /\ writing' = [writing EXCEPT ![f] = Undefined]
    /\ UNCHANGED <<document, calls, status>>

AFailWrite(f) ==
    /\ KvFaults
    /\ writing[f] # Undefined
    /\ writing' = [writing EXCEPT ![f] = Undefined]
    /\ UNCHANGED <<stored, document, calls, status>>

AOther(o) ==
    /\ stored' = Prepend(stored, o)
    /\ UNCHANGED <<document, calls, status, writing>>

ANext ==
    \/ ALoad
    \/ \E u \in Updates : ACall(u) \/ ASettle(u)
    \/ \E f \in Flushers : ABeginWrite(f) \/ AEndWrite(f) \/ AFailWrite(f)
    \/ \E o \in Others : AOther(o)

ASpec == AInit /\ [][ANext]_atomicVars

=============================================================================

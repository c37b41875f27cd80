------------------------------ MODULE Metrics -------------------------------
(***************************************************************************)
(* How a request leaves its trace (worker.ts fetch).  Its handler may      *)
(* publish events on a platform of its own (platform/record.ts,            *)
(* context.ts, events.ts), whose listeners update the documents of         *)
(* MetricsDocuments and whose dispose writes them; then measureRequest     *)
(* counts the response in the memory of the isolate and flushTraffic       *)
(* writes that memory now and then (features/analytics/traffic.ts).  Both  *)
(* read and put rz:metrics, each on its own.                               *)
(*                                                                         *)
(* An action is what a request does between two KV calls.  The chain of    *)
(* updates inside a document object is PlatformDocument's; here updates    *)
(* are applied as soon as the document they wait for has been read.        *)
(***************************************************************************)
EXTENDS MetricsDocuments

CONSTANTS
    Requests,       \* numbered as they arrive
    Asks,           \* what each may ask: a page, a handler that records, a reset
    Scripts,        \* the sequences of events a handler may publish
    Isolates,
    Bodies,         \* the bytes a response may have, 0 without a body
    Upload,         \* content-length of a request
    FlushRequests,
    FlushInterval,  \* in ticks of the clock, which are hours
    MaxClock,       \* bound
    MaxInFlight,    \* bound: requests being answered at once
    Faults,         \* BOOLEAN: KV may refuse calls; bound: the first that counts
    None

ASSUME MetricsAssumption ==
    /\ Asks \in [Requests -> SUBSET {"routed", "recording", "resetting"}]
    /\ Scripts \subseteq Seq(STRING)
    /\ Requests \subseteq Nat /\ Bodies \subseteq Nat
    /\ IsFiniteSet(Requests) /\ IsFiniteSet(Isolates)
    /\ {Upload, MaxClock, MaxInFlight} \subseteq Nat
    /\ {FlushRequests, FlushInterval} \subseteq Nat \ {0}
    /\ Faults \in BOOLEAN

VARIABLES
    stored,    \* the two KV keys
    clock,     \* 0 is lastFlushAt's "never"
    memory,    \* each isolate's accumulator
    pc,        \* where each request is
    isolate,   \* the isolate that serves it
    documents, \* its platform's documents: read as, with these updates
    putting,   \* the puts of its dispose that have not answered
    hand,      \* a flush or a reset of the traffic: what it read and what it adds
    stream,    \* the body being sent: its hour and its bytes
    served,    \* history: the traffic counted since the last reset, by hour
    published, \* history: the counters of the events published, by day
    entries,   \* history: how many entries of the log were made
    excused,   \* history: something happened that the code accepts losing counts to
    writes     \* history: of each isolate, the requests it counted, its flushes, its first hour

requestVars == <<pc, isolate, documents, putting, hand, stream>>
historyVars == <<served, published, entries, excused, writes>>
vars == <<stored, clock, memory, requestVars, historyVars>>

NoDocument == [base |-> None, updates |-> <<>>]
NoHand     == [base |-> None, pending |-> NoSeries]
NoMemory   == [hours |-> NoSeries, requests |-> 0, lastFlushAt |-> 0]
NoWrites   == [requests |-> 0, flushes |-> 0, since |-> 0]

Init ==
    /\ stored = Empty
    /\ clock = 1
    /\ memory = [i \in Isolates |-> NoMemory]
    /\ pc = [r \in Requests |-> "new"]
    /\ isolate = [r \in Requests |-> None]
    /\ documents = [r \in Requests |-> [k \in Keys |-> NoDocument]]
    /\ putting = [r \in Requests |-> {}]
    /\ hand = [r \in Requests |-> NoHand]
    /\ stream = [r \in Requests |-> None]
    /\ served = NoSeries
    /\ published = NoSeries
    /\ entries = 0
    /\ excused = FALSE
    /\ writes = [i \in Isolates |-> NoWrites]

GoTo(r, step) == pc' = [pc EXCEPT ![r] = step]

Refusing == Faults /\ ~excused

\* A refused get is an empty document.
Reads(key) == {stored[key]} \cup (IF Refusing THEN {Empty[key]} ELSE {})
Refused(key, answer) == answer # stored[key]

InFlight == Cardinality({r \in Requests : pc[r] \notin {"new", "done"}})

-----------------------------------------------------------------------------
(***************************************************************************)
(* The handler.                                                            *)
(***************************************************************************)
Begin(r) ==
    /\ pc[r] = "new"
    /\ \A q \in Requests : q < r => pc[q] # "new"
    /\ InFlight < MaxInFlight
    /\ \E i \in Isolates : isolate' = [isolate EXCEPT ![r] = i]
    /\ \E ask \in Asks[r] : GoTo(r, ask)
    /\ UNCHANGED <<stored, clock, memory, documents, putting, hand, stream, historyVars>>

Updates(key, r, event) ==
    IF key = "metrics"
      THEN SetToSeq({[day |-> DayOf(clock), metric |-> m] : m \in Counters(event)})
      ELSE IF event \in Logged THEN <<[kind |-> event, by |-> r]>> ELSE <<>>

\* emit calls the listeners, which call their service at once, and the updates queue up.
Emitted(key, r, events) == FlattenSeq([n \in DOMAIN events |-> Updates(key, r, events[n])])

Times(updates, d, m) == Cardinality({n \in DOMAIN updates : updates[n].day = d /\ updates[n].metric = m})

\* The history of what is counted, as one addition of all of it.
Tallied(days, updates) ==
    LET of(d) == (IF d \in DOMAIN days THEN DOMAIN days[d] ELSE {}) \cup {u.metric : u \in Range(updates)}
    IN [d \in DOMAIN days \cup {u.day : u \in Range(updates)} |->
          [m \in of(d) |-> TallyAt(days, d, m) + Times(updates, d, m)]]

\* The closure of withRecorder, and the dispose that follows it.
Publish(r) ==
    /\ pc[r] = "recording"
    /\ \E script \in Scripts :
         LET all(key) == Emitted(key, r, script) IN
         /\ documents' = [documents EXCEPT ![r] = [k \in Keys |-> [base |-> None, updates |-> all(k)]]]
         /\ published' = Tallied(published, all("metrics"))
         /\ entries' = entries + Len(all("history"))
    /\ GoTo(r, "settling")
    /\ UNCHANGED <<stored, clock, memory, isolate, putting, hand, stream, served, excused, writes>>

Awaited(r) == {k \in Keys : documents[r][k].updates # <<>> /\ documents[r][k].base = None}

\* The first update of a document reads it.
Load(r, key) ==
    /\ pc[r] = "settling"
    /\ key \in Awaited(r)
    /\ \E answer \in Reads(key) :
         /\ documents' = [documents EXCEPT ![r][key].base = answer]
         /\ excused' = (excused \/ Refused(key, answer))
    /\ UNCHANGED <<stored, clock, memory, pc, isolate, putting, hand, stream, served, published, entries, writes>>

\* settled: every promise a listener returned has been resolved.
Settled(r) == Awaited(r) = {}

\* The dirty documents are put at the same time.
Flush(r) ==
    /\ pc[r] = "settling"
    /\ Settled(r)
    /\ LET dirty == {k \in Keys : documents[r][k].updates # <<>>} IN
       /\ putting' = [putting EXCEPT ![r] = dirty]
       /\ GoTo(r, IF dirty = {} THEN "routed" ELSE "flushing")
    /\ UNCHANGED <<stored, clock, memory, isolate, documents, hand, stream, historyVars>>

Cached(r, key) ==
    FoldLeft(LAMBDA document, u : Update(key, document, u), documents[r][key].base, documents[r][key].updates)

\* A put that lands over a value other than the one read loses what was written between.
Put(r, key) ==
    /\ key \in putting[r]
    /\ putting' = [putting EXCEPT ![r] = @ \ {key}]
    /\ stored' = [stored EXCEPT ![key] = Cached(r, key)]
    /\ excused' = (excused \/ documents[r][key].base # stored[key])
    /\ documents' = [documents EXCEPT ![r][key] = NoDocument]
    /\ pc' = [pc EXCEPT ![r] = IF @ = "flushing" /\ putting[r] = {key} THEN "routed" ELSE @]
    /\ UNCHANGED <<clock, memory, isolate, hand, stream, served, published, entries, writes>>

\* One refusal rejects dispose; the other put is still under way.
PutRefused(r, key) ==
    /\ Refusing
    /\ key \in putting[r]
    /\ putting' = [putting EXCEPT ![r] = @ \ {key}]
    /\ documents' = [documents EXCEPT ![r][key] = NoDocument]
    /\ excused' = TRUE
    /\ pc' = [pc EXCEPT ![r] = IF @ = "flushing" THEN "routed" ELSE @]
    /\ UNCHANGED <<stored, clock, memory, isolate, hand, stream, served, published, entries, writes>>

-----------------------------------------------------------------------------
(***************************************************************************)
(* The traffic route of the panel, asked to start again.                   *)
(***************************************************************************)
\* clearTraffic: lastFlushAt stays.  Other isolates keep their counts.
ClearMemory(r) ==
    /\ pc[r] = "resetting"
    /\ memory' = [memory EXCEPT ![isolate[r]] = [@ EXCEPT !.hours = NoSeries, !.requests = 0]]
    /\ GoTo(r, "clearing")
    /\ excused' = TRUE
    /\ UNCHANGED <<stored, clock, isolate, documents, putting, hand, stream, served, published, entries, writes>>

ClearRead(r) ==
    /\ pc[r] = "clearing"
    /\ \E answer \in Reads("metrics") : hand' = [hand EXCEPT ![r].base = answer]
    /\ GoTo(r, "cleared")
    /\ UNCHANGED <<stored, clock, memory, isolate, documents, putting, stream, historyVars>>

ClearPut(r) ==
    /\ pc[r] = "cleared"
    /\ \/ stored' = [stored EXCEPT !.metrics = [hand[r].base EXCEPT !.hours = NoSeries]]
       \/ Refusing /\ UNCHANGED stored
    /\ hand' = [hand EXCEPT ![r] = NoHand]
    /\ GoTo(r, "routed")
    /\ UNCHANGED <<clock, memory, isolate, documents, putting, stream, historyVars>>

-----------------------------------------------------------------------------
(***************************************************************************)
(* measureRequest, then flushTraffic as far as its first await.            *)
(***************************************************************************)
Due(m) ==
    /\ m.requests # 0
    /\ \/ m.requests >= FlushRequests
       \/ m.lastFlushAt = 0
       \/ clock - m.lastFlushAt >= FlushInterval

\* mutant: the accumulator is cleared only once the put has answered.
Taken_Late(m) == [m EXCEPT !.requests = 0, !.lastFlushAt = clock]

\* mutant: the time of a flush is not noted.
Taken_Unnoted(m) == [m EXCEPT !.hours = NoSeries, !.requests = 0]

Taken(m) == [hours |-> NoSeries, requests |-> 0, lastFlushAt |-> clock]

Measure(r) ==
    /\ pc[r] = "routed"
    /\ LET i == isolate[r]
           m == [memory[i] EXCEPT !.hours = Count(@, clock, Traffic(1, 0, Upload)),
                                  !.requests = @ + 1] IN
       \E bytes \in Bodies :
         /\ stream' = [stream EXCEPT ![r] = IF bytes = 0 THEN None ELSE [hour |-> clock, bytes |-> bytes]]
         /\ served' = Count(served, clock, Traffic(1, 0, Upload))
         /\ IF Due(m)
              THEN /\ hand' = [hand EXCEPT ![r].pending = m.hours]
                   /\ memory' = [memory EXCEPT ![i] = Taken(m)]
                   /\ GoTo(r, "reading")
              ELSE /\ memory' = [memory EXCEPT ![i] = m]
                   /\ GoTo(r, "done")
                   /\ UNCHANGED hand
         /\ writes' = [writes EXCEPT ![i] =
               [requests |-> @.requests + 1,
                flushes  |-> @.flushes + (IF Due(m) THEN 1 ELSE 0),
                since    |-> IF @.since = 0 THEN clock ELSE @.since]]
    /\ UNCHANGED <<stored, clock, isolate, documents, putting, published, entries, excused>>

FlushRead(r) ==
    /\ pc[r] = "reading"
    /\ \E answer \in Reads("metrics") :
         /\ hand' = [hand EXCEPT ![r].base = answer]
         /\ excused' = (excused \/ Refused("metrics", answer))
    /\ GoTo(r, "writing")
    /\ UNCHANGED <<stored, clock, memory, isolate, documents, putting, stream, served, published, entries, writes>>

FlushPut(r) ==
    /\ pc[r] = "writing"
    /\ LET base == hand[r].base IN
       \/ /\ stored' = [stored EXCEPT !.metrics = [base EXCEPT !.hours = MergeHours(@, hand[r].pending)]]
          /\ excused' = (excused \/ base # stored.metrics)
       \/ Refusing /\ excused' = TRUE /\ UNCHANGED stored
    /\ hand' = [hand EXCEPT ![r] = NoHand]
    /\ GoTo(r, "done")
    /\ UNCHANGED <<clock, memory, isolate, documents, putting, stream, served, published, entries, writes>>

\* flush of the counting transform, once the whole body has been sent; a client that
\* leaves before is a body never sent.
Sent(r) ==
    /\ pc[r] = "done"
    /\ stream[r] # None
    /\ LET t == Traffic(0, stream[r].bytes, 0) IN
       /\ memory' = [memory EXCEPT ![isolate[r]].hours = Count(@, stream[r].hour, t)]
       /\ served' = Count(served, stream[r].hour, t)
    /\ stream' = [stream EXCEPT ![r] = None]
    /\ UNCHANGED <<stored, clock, pc, isolate, documents, putting, hand, published, entries, excused, writes>>

-----------------------------------------------------------------------------
(***************************************************************************)
(* The runtime may drop an idle isolate; time passes.                      *)
(***************************************************************************)
Evict(i) ==
    /\ memory[i] # NoMemory
    /\ \A r \in Requests : isolate[r] = i => pc[r] \in {"new", "done"} /\ putting[r] = {}
    /\ stream' = [r \in Requests |-> IF isolate[r] = i THEN None ELSE stream[r]]
    /\ memory' = [memory EXCEPT ![i] = NoMemory]
    /\ writes' = [writes EXCEPT ![i] = NoWrites]
    /\ excused' = (excused \/ memory[i].hours # NoSeries)
    /\ UNCHANGED <<stored, clock, pc, isolate, documents, putting, hand, served, published, entries>>

Tick ==
    /\ clock < MaxClock
    /\ InFlight < MaxInFlight
    /\ clock' = clock + 1
    /\ UNCHANGED <<stored, memory, requestVars, historyVars>>

Record(r) ==
    \/ Publish(r) \/ Flush(r)
    \/ \E key \in Keys : Load(r, key) \/ Put(r, key) \/ PutRefused(r, key)

Next ==
    \/ \E r \in Requests :
         \/ Begin(r) \/ Record(r)
         \/ ClearMemory(r) \/ ClearRead(r) \/ ClearPut(r)
         \/ Measure(r) \/ FlushRead(r) \/ FlushPut(r) \/ Sent(r)
    \/ \E i \in Isolates : Evict(i)
    \/ Tick

Spec == Init /\ [][Next]_vars

-----------------------------------------------------------------------------
(***************************************************************************)
(* Properties.                                                             *)
(***************************************************************************)
\* Of an hour: what the isolates hold, and what the flushes under way carry.
Held(h) ==
    [f \in DOMAIN NoTraffic |->
        SumFunctionOnSet([i \in Isolates |-> At(memory[i].hours, h)[f]], Isolates)
        + SumFunctionOnSet([r \in Requests |-> At(hand[r].pending, h)[f]], Requests)]

AtMost(a, b) == \A f \in DOMAIN a : a[f] <= b[f]

Hours == 0..MaxClock

\* What the panel is shown by an isolate.
TrafficSnapshot(i) == MergeHours(stored.metrics.hours, memory[i].hours)

\* No traffic is ever counted twice: whatever flushes overlap, fail or race the other
\* writer of the key, what is stored, held and under way never adds up to more than was
\* served, and the panel is never shown more than was.
NothingCountedTwice ==
    \A h \in Hours :
      /\ AtMost(Add(At(stored.metrics.hours, h), Held(h)), At(served, h))
      /\ \A i \in Isolates : AtMost(At(TrafficSnapshot(i), h), At(served, h))

\* The counters of a day that a request has yet to write.
Unwritten(d, m) == SumFunctionOnSet([r \in Requests |-> Times(documents[r].metrics.updates, d, m)], Requests)

\* The entries of the log that a request has yet to write.
Unlogged == SumFunctionOnSet([r \in Requests |-> Len(documents[r].history.updates)], Requests)

Smaller(a, b) == IF a < b THEN a ELSE b

Outdated(series, h, kept) == Cardinality({k \in DOMAIN series : k > h}) >= kept

\* While KV answers, no isolate is dropped with counts in it, nothing is reset and no
\* two writers of a key overlap, every count is where it should be: each hour and each
\* day still retained holds exactly what was counted and is not held elsewhere,
\* whichever of the two writers of rz:metrics was last, and no entry of the log is
\* missing before the log is full.
UncontestedIsExact ==
    ~excused =>
      LET hours == stored.metrics.hours
          days  == stored.metrics.days IN
      /\ \A h \in Hours :
           IF Outdated(hours, h, KeptHours)
             THEN h \notin DOMAIN hours
             ELSE Add(At(hours, h), Held(h)) = At(served, h)
      /\ \A d \in DOMAIN published : \A m \in DOMAIN published[d] :
           ~Outdated(days, d, KeptDays) =>
             TallyAt(days, d, m) + Unwritten(d, m) = published[d][m]
      /\ Len(stored.history) = Smaller(KeptEntries, entries - Unlogged)

\* Counts are never too high, and exact where nothing was lost (both parts above).
CountsAreHonest == NothingCountedTwice /\ UncontestedIsExact

\* The write budget traffic.ts is built for: an isolate starts at most one flush for
\* each FlushRequests requests it counts and one for each FlushInterval, and its first.
WriteBudget ==
    \A i \in Isolates : LET w == writes[i] IN
      w.flushes <= 1 + w.requests \div FlushRequests + (clock - w.since) \div FlushInterval

=============================================================================

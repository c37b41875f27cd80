---------------------------- MODULE MCMeasuring -----------------------------
(***************************************************************************)
(* Finite instances of what a deployment measures: one run of the panel's  *)
(* scanner (Probing), the weeks over which scans are recorded and learned  *)
(* from (ScanLearning), and its own traffic (Metrics).  The first two meet *)
(* only in the row a run leaves in rz:scanner (ScanLearning!PanelScan),    *)
(* and the third meets neither, so each is explored with the other two at  *)
(* rest.                                                                   *)
(*                                                                         *)
(* The run has more candidates than workers, one of them given twice, one  *)
(* that the panel knows to be out of reach, one that only the runtime      *)
(* knows, one that cannot be read.  The weeks have two published prefixes  *)
(* of two blocks and one, a block that is no longer published, and a       *)
(* deployment that starts with nothing or with the scans of earlier weeks; *)
(* the panel scans, on request, what its page asks for too.  The traffic   *)
(* is of three requests of two isolates.                                   *)
(***************************************************************************)
EXTENDS Probing, ScanLearning, Metrics

VARIABLE part  \* which of the three
-----------------------------------------------------------------------------
First   == [id |-> 1, form |-> "v4", network |-> "public", port |-> 443]
Second  == [id |-> 2, form |-> "customer", network |-> "public", port |-> 443]
Edge    == [id |-> 3, form |-> "v4", network |-> "edge", port |-> 443]
Proxied == [id |-> 4, form |-> "customer", network |-> "edge", port |-> 443]
Junk    == [id |-> 5, form |-> "junk", network |-> "none", port |-> 443]

Plain(a)  == [address |-> a, padded |-> FALSE]
Padded(a) == [address |-> a, padded |-> TRUE]

MCLists ==
    {<<>>,
     <<Plain(Blank), Plain(First), Padded(First), Plain(Edge), Plain(Second), Plain(Junk)>>,
     <<Plain(Proxied), Plain(Junk), Plain(First), Plain(Second)>>}
MCAsked == {Null, 0, 9}
MCLatencies == {60, 300}

MCRanges == <<[first |-> 1, blocks |-> 2], [first |-> 4, blocks |-> 1]>>
MCMixes == {[i \in 0..40 |-> i], [i \in 0..40 |-> 3 * i + 1]}
MCMeasures ==
    {[latency |-> 20, jitter |-> 2, success |-> 3, answered |-> 0],
     [latency |-> 100, jitter |-> 90, success |-> 2, answered |-> 0],
     [latency |-> 10, jitter |-> 0, success |-> 3, answered |-> 1]}
MCForeign == {<<9, 1>>}
MCRelays == {<<9, 1>>}

NoRuns == [k \in Kinds |-> <<>>]
Won(a, s, at) == [at |-> at, best |-> [address |-> a, score |-> s, latency |-> Null]]
Observed(b, s, at) == [block |-> b, at |-> at, score |-> s, latency |-> 40, reachable |-> 2, measured |-> 2]
Sparse(b, s, at) == [block |-> b, at |-> at, score |-> s, latency |-> 30, reachable |-> 1, measured |-> 8]

Unscanned == [runs |-> NoRuns, observations |-> <<>>]
Earned ==
    [runs |-> [NoRuns EXCEPT !["proxy-ip"] = <<Won(<<9, 1>>, 90, 63), Won(<<9, 1>>, 90, 63), Won(<<9, 2>>, 80, 56)>>,
                             !["clean-ip"] = <<Won(<<9, 1>>, 60, 63)>>],
     observations |-> <<Observed(1, 60, 63), Observed(9, 95, 56), Sparse(2, 90, 56), Observed(1, 80, 14)>>]
MCStored == {Unscanned, Earned}

MCAsks == <<{"routed"}, {"recording"}, {"routed", "resetting"}>>
MCScripts == {<<"auth.attempt ok", "auth.login">>, <<"scanner.probed ok", "scanner.completed">>}
-----------------------------------------------------------------------------
\* No run, and one that ended with nothing to probe, leave nothing to do.
RunAtRest ==
    /\ targets = <<>> /\ attempts = 1 /\ dry = TRUE
    /\ next = 1 /\ worker = [w \in 1..Concurrency |-> Idle] /\ sockets = {}
    /\ results = <<>> /\ fate = <<>> /\ probed = <<>> /\ summary = Null
    /\ report = [ranked |-> <<>>, dead |-> 0, unmeasurable |-> {}]

MCInit ==
    /\ LInit /\ Init
    /\ \/ part = "run" /\ runs = NoRuns /\ RunInit
       \/ part = "weeks" /\ RunAtRest
       \/ part = "traffic" /\ runs = NoRuns /\ RunAtRest

\* (Symmetry: the isolates are alike, so the first request may well be on this one.)
TrafficStep ==
    /\ Next
    /\ isolate'[1] \in {None, CHOOSE i \in Isolates : TRUE}

MCNext ==
    /\ UNCHANGED part
    /\ \/ part = "run" /\ RunNext /\ UNCHANGED <<learningVars, vars>>
       \/ part = "weeks" /\ LNext /\ UNCHANGED <<probingVars, vars>>
       \/ part = "traffic" /\ TrafficStep /\ UNCHANGED <<probingVars, learningVars>>

MCSpec == MCInit /\ [][MCNext]_<<part, learningVars, probingVars, vars>> /\ RunFairness
-----------------------------------------------------------------------------
\* A run of the panel accounts for every candidate once and as what became of it, leaves
\* no socket open, and calls nothing good that answered half the time
\* (features/scanner/probe.ts, scoring.ts, service.ts; the parts are in Probing).
RunIsSound == part = "run" => ReportTruthful /\ SocketsReturned /\ UnreliableNeverGood

\* A run ends even when nothing it connects to ever answers (probe.ts:111-134).
RunEnds == part = "run" => RunCompletes

\* What earlier weeks taught never steers a scan of a browser to what has gone: not to a
\* block no longer published, and first to blocks that are neither out of reach nor on the
\* way down (candidates.ts, blocks.ts; the parts are in ScanLearning).
OldScansDoNotMislead == part = "weeks" => ProbesOnlyPublished /\ PreferredReached
=============================================================================

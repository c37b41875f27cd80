------------------------------ MODULE Probing -------------------------------
(***************************************************************************)
(* One scan run by the panel (features/scanner/probe.ts, scoring.ts,       *)
(* cloudflare.ts, service.ts): the candidates are trimmed, deduplicated    *)
(* and capped, a pool of workers connects to each of them several times,   *)
(* one attempt after the other, and the results are scored, ranked and     *)
(* summarised.                                                             *)
(*                                                                         *)
(* An attempt races the socket's `opened' against a timer.  The loser is   *)
(* not cancelled: a socket may still open after the timer fired, while it  *)
(* is being closed.  Times are in milliseconds, averages and scores in     *)
(* tenths, as the code rounds them.                                        *)
(***************************************************************************)
EXTENDS ScanCommon, SequencesExt, Functions

CONSTANTS
    Lists,        \* lists of candidates as typed, each [address, padded]
    Asked,        \* the numbers of attempts asked for, Null for none
    Latencies,    \* how long a connection may take to open in time
    MaxTargets,   \* PROBE_LIMITS.maxTargetsPerRun
    MaxAttempts,  \* PROBE_LIMITS.maxAttempts
    DefaultAttempts, \* PROBE_LIMITS.defaultAttempts
    Concurrency,  \* PROBE_LIMITS.concurrency
    Blank         \* a candidate of nothing but spaces

VARIABLES
    targets,   \* the candidates probed, in order
    attempts,  \* how often each is probed
    dry,       \* whether the run is a dry one, which is not recorded
    next,      \* the index the next idle worker takes
    worker,    \* what each worker is at
    sockets,   \* the workers whose socket is not closed
    results,   \* the result of each target, Null without one
    report,    \* what the run answers
    probed,    \* the scanner.probed events, in order
    summary,   \* the summary recorded in rz:scanner
    fate       \* history: what became of each connection made to a target

inputVars == <<targets, attempts, dry>>
poolVars == <<next, worker, sockets, results, fate>>
reportVars == <<report, probed, summary>>
probingVars == <<inputVars, poolVars, reportVars>>

(***************************************************************************)
(* A candidate is an address of some form, in some network.  Names are     *)
(* "owned" when Cloudflare operates them and are customers' otherwise; a   *)
(* "mapped" address is an IPv4 one written as an IPv6 one.                 *)
(***************************************************************************)
Forms    == {"v4", "v6", "mapped", "owned", "customer", "junk"}
Networks == {"public", "edge", "loopback", "private", "link-local", "none"}
Ports    == {25, 443}

Candidates ==
    {a \in [id : Nat, form : Forms, network : Networks, port : Ports] :
       (a.form = "junk") = (a.network = "none")}

\* The number of a candidate stands for how it is written.
ASSUME ProbingAssumption ==
    /\ Lists \subseteq Seq([address : Candidates \cup {Blank}, padded : BOOLEAN])
    /\ Blank \notin Candidates
    /\ \A q \in Lists : \A i, j \in 1..Len(q) :
         LET a == q[i].address
             b == q[j].address
         IN  a # Blank /\ b # Blank /\ a.id = b.id => a = b
    /\ {MaxTargets, MaxAttempts, DefaultAttempts, Concurrency} \subseteq Nat \ {0}
    /\ Asked \subseteq Int \cup {Null}
    /\ Latencies \subseteq Nat

\* toTargets: what is not blank, where it is first met, as much of it as is allowed.
Trim(typed) == typed.address
ToTargets(request) ==
    LET fresh == {i \in 1..Len(request) :
                    /\ Trim(request[i]) # Blank
                    /\ \A j \in 1..(i - 1) : Trim(request[j]) # Trim(request[i])}
    IN  [k \in 1..Min({Cardinality(fresh), MaxTargets}) |-> Trim(request[Places(fresh)[k]])]

AttemptsFor(n) ==
    IF n = Null THEN Min({DefaultAttempts, MaxAttempts})
    ELSE Min({Max({1, n}), MaxAttempts})

\* unmeasurableReason: what the panel knows the runtime refuses, Null for nothing.
Reason(a) ==
    CASE a.port = 25 -> "prohibited-port"
      [] a.network = "loopback" /\ a.form \in {"v4", "v6", "owned"} -> "loopback"
      [] a.network = "edge" /\ a.form \in {"v4", "v6"} -> "cloudflare-range"
      [] a.network = "edge" /\ a.form = "owned" -> "cloudflare-host"
      [] a.network = "private" /\ a.form \in {"v4", "v6"} -> "private-network"
      [] a.network = "link-local" /\ a.form \in {"v4", "v6"} -> "link-local"
      [] OTHER -> Null

\* What it does refuse.
Reachable(a) == a.network = "public" /\ a.port # 25

Indices == 1..Len(targets)
Workers == 1..Min({Concurrency, Max({1, Len(targets)})})

Idle == [at |-> "idle", target |-> 0, records |-> <<>>]
Failed == [ok |-> FALSE, ms |-> 0]

RunInit ==
    /\ \E q \in Lists : targets = ToTargets(q)
    /\ \E n \in Asked : attempts = AttemptsFor(n)
    /\ dry \in BOOLEAN
    /\ next = 1
    /\ worker = [w \in 1..Concurrency |-> Idle]
    /\ sockets = {}
    /\ results = [i \in Indices |-> Null]
    /\ report = Null
    /\ probed = <<>>
    /\ summary = Null
    /\ fate = [i \in Indices |-> <<>>]

(***************************************************************************)
(* The pool: probeAll, probeTarget, attemptOnce.                           *)
(***************************************************************************)
\* Ten times the root of v/n^2, rounded: found to the nearest 32 first.
RoundedRoot(n, bound) ==
    [v \in Int |->
       LET AtLeast(j) == j = 0 \/ (2*j - 1) * n * (2*j - 1) * n <= 400 * v
           last   == bound \div 32
           coarse == CHOOSE c \in 0..last : AtLeast(32 * c) /\ (c < last => ~AtLeast(32 * c + 32))
       IN  CHOOSE j \in (32 * coarse)..(32 * coarse + 31) :
             AtLeast(j) /\ (j < 32 * coarse + 31 => ~AtLeast(j + 1))]

\* aggregate: the mean, and the population standard deviation, in tenths; one sample
\* has no spread.
Result(reason, records) ==
    LET times == {k \in 1..Len(records) : records[k].ok}
        n     == Cardinality(times)
        sum   == SumOf([k \in times |-> records[k].ms])
        v     == n * SumOf([k \in times |-> records[k].ms * records[k].ms]) - sum * sum
        range == {records[k].ms : k \in times}
    IN  [blocked   |-> reason,
         successes |-> n,
         total     |-> Len(records),
         mean      |-> IF n = 0 THEN Null ELSE RoundDiv(10 * sum, n),
         jitter    |-> IF n < 2 THEN Null ELSE RoundedRoot(n, 5 * (Max(range) - Min(range)))[v]]

TakeNext_RefusedIsDead(w) ==    \* mutant: an address out of reach reported as one that failed
    /\ w \in Workers /\ worker[w].at = "idle" /\ targets # <<>>
    /\ next' = next + 1
    /\ IF next > Len(targets)
       THEN /\ worker' = [worker EXCEPT ![w].at = "done"]
            /\ UNCHANGED <<sockets, results, fate>>
       ELSE IF targets[next].form = "junk" \/ Reason(targets[next]) # Null
            THEN /\ results' = [results EXCEPT ![next] =
                                  Result(Null, [k \in 1..attempts |-> Failed])]
                 /\ UNCHANGED <<worker, sockets, fate>>
            ELSE /\ worker' = [worker EXCEPT ![w] =
                      [at |-> "connecting", target |-> next, records |-> <<>>]]
                 /\ UNCHANGED <<sockets, results, fate>>
    /\ UNCHANGED <<inputVars, reportVars>>

\* An idle worker takes the next target: nothing to connect to when the runtime
\* would refuse it or it cannot be read.
TakeNext(w) ==
    /\ w \in Workers /\ worker[w].at = "idle" /\ targets # <<>>
    /\ next' = next + 1
    /\ IF next > Len(targets)
       THEN /\ worker' = [worker EXCEPT ![w].at = "done"]
            /\ UNCHANGED <<sockets, results, fate>>
       ELSE LET a == targets[next] IN
            IF a.form = "junk" \/ Reason(a) # Null
            THEN /\ results' = [results EXCEPT ![next] =
                      IF a.form = "junk"
                      THEN Result(Null, [k \in 1..attempts |-> Failed])
                      ELSE Result(Reason(a), <<>>)]
                 /\ UNCHANGED <<worker, sockets, fate>>
            ELSE /\ worker' = [worker EXCEPT ![w] =
                      [at |-> "connecting", target |-> next, records |-> <<>>]]
                 /\ UNCHANGED <<sockets, results, fate>>
    /\ UNCHANGED <<inputVars, reportVars>>

\* connect: the socket exists from here on, unless the call itself throws.
Connect(w) ==
    /\ worker[w].at = "connecting"
    /\ worker' = [worker EXCEPT ![w].at = "opening"]
    /\ sockets' = sockets \cup {w}
    /\ fate' = [fate EXCEPT ![worker[w].target] = Append(@, "pending")]
    /\ UNCHANGED <<inputVars, next, results, reportVars>>

\* What the attempt came to is settled; the socket is still to be closed.
Settle(w, record) ==
    worker' = [worker EXCEPT ![w] =
                 [at |-> "closing", target |-> @.target, records |-> Append(@.records, record)]]

NoteFate(w, became) ==
    LET i == worker[w].target IN
    fate' = [fate EXCEPT ![i] = [@ EXCEPT ![Len(@)] = became]]

Opens(w, ms) ==
    /\ worker[w].at = "opening" /\ Reachable(targets[worker[w].target])
    /\ Settle(w, [ok |-> TRUE, ms |-> ms])
    /\ NoteFate(w, "opened")
    /\ UNCHANGED <<inputVars, next, sockets, results, reportVars>>

Refuses(w) ==
    /\ worker[w].at = "opening"
    /\ Settle(w, Failed)
    /\ NoteFate(w, "refused")
    /\ UNCHANGED <<inputVars, next, sockets, results, reportVars>>

Throws(w) ==
    /\ worker[w].at = "connecting"
    /\ Settle(w, Failed)
    /\ fate' = [fate EXCEPT ![worker[w].target] = Append(@, "refused")]
    /\ UNCHANGED <<inputVars, next, sockets, results, reportVars>>

TimesOut_WithoutTimer(w) == FALSE /\ UNCHANGED probingVars    \* mutant: `opened' awaited as it is

TimesOut(w) ==
    /\ worker[w].at = "opening"
    /\ Settle(w, Failed)
    /\ UNCHANGED <<inputVars, next, sockets, results, fate, reportVars>>

\* The connection opens after its timer fired: the answer is discarded.
OpensLate(w) ==
    /\ worker[w].at = "closing" /\ w \in sockets /\ Reachable(targets[worker[w].target])
    /\ Last(fate[worker[w].target]) = "pending"
    /\ NoteFate(w, "late")
    /\ UNCHANGED <<inputVars, next, worker, sockets, results, reportVars>>

\* The socket is closed, or refuses to be; the next attempt, or the result.
Close(w) ==
    /\ worker[w].at = "closing"
    /\ sockets' = sockets \ {w}
    /\ IF Len(worker[w].records) < attempts
       THEN /\ worker' = [worker EXCEPT ![w].at = "connecting"]
            /\ UNCHANGED results
       ELSE /\ worker' = [worker EXCEPT ![w] = Idle]
            /\ results' = [results EXCEPT ![worker[w].target] =
                             Result(Null, worker[w].records)]
    /\ UNCHANGED <<inputVars, next, fate, reportVars>>

(***************************************************************************)
(* Scoring.  Components in thousandths of a point, rounded to tenths once. *)
(***************************************************************************)
Excellent == 80
Unusable  == 1200

ReliabilityPart(result) == (60000 * result.successes) \div result.total

LatencyPart(result) ==
    LET mean == result.mean IN
    IF mean <= 10 * Excellent THEN 25000
    ELSE IF mean >= 10 * Unusable THEN 0
    ELSE (25000 * (10 * Unusable - mean)) \div (10 * (Unusable - Excellent))

StabilityPart(result) ==
    LET mean == result.mean IN
    IF mean = 0 THEN 0
    ELSE IF result.jitter = Null THEN 7500
    ELSE (15000 * (mean - Min({result.jitter, mean}))) \div mean

Score(result) ==
    IF result.successes = 0 THEN 0
    ELSE RoundDiv(ReliabilityPart(result) + LatencyPart(result) + StabilityPart(result), 100)

Verdict(result, score) ==
    IF result.blocked # Null THEN "unmeasurable"
    ELSE IF result.successes = 0 THEN "dead"
    ELSE IF score >= 750 THEN "good"
    ELSE IF score >= 500 THEN "usable" ELSE "poor"

Scored(i) ==
    LET score == Score(results[i]) IN
    [target  |-> i, score |-> score, verdict |-> Verdict(results[i], score),
     latency |-> results[i].mean]

\* rank: score, then latency, then address.
Before(a, b) ==
    \/ a.score > b.score
    \/ a.score = b.score /\ a.latency < b.latency
    \/ a.score = b.score /\ a.latency = b.latency /\ targets[a.target].id < targets[b.target].id
Rank(scored) == Ordered(scored, Before)

MedianScore(ranked) ==
    LET n == Len(ranked)
        middle == n \div 2
    IN  IF n = 0 THEN Null
        ELSE IF n % 2 = 1 THEN ranked[n - middle].score
        ELSE RoundDiv(ranked[n - middle].score + ranked[n - middle + 1].score, 2)

(***************************************************************************)
(* execute, once every worker is done; then run records the summary.       *)
(***************************************************************************)
Complete ==
    /\ report = Null
    /\ targets = <<>> \/ \A w \in Workers : worker[w].at = "done"
    /\ LET scored == [i \in Indices |-> Scored(i)]
           Of(verdicts) == {i \in Indices : scored[i].verdict \in verdicts}
           measured == Places(Indices \ Of({"unmeasurable"}))
       IN  /\ report' = [ranked |-> Rank({scored[i] : i \in Of({"good", "usable", "poor"})}),
                         dead |-> Cardinality(Of({"dead"})),
                         unmeasurable |-> Of({"unmeasurable"})]
           /\ probed' = [k \in 1..Len(measured) |->
                [target |-> measured[k], ok |-> results[measured[k]].successes > 0]]
    /\ UNCHANGED <<inputVars, poolVars, summary>>

Summarise ==
    /\ report # Null /\ summary = Null /\ ~dry
    /\ summary' =
         [targets |-> Len(report.ranked) + report.dead + Cardinality(report.unmeasurable),
          healthy |-> Cardinality({k \in 1..Len(report.ranked) :
                                     report.ranked[k].verdict \in {"good", "usable"}}),
          unmeasurable |-> Cardinality(report.unmeasurable),
          best |-> IF report.ranked = <<>> THEN Null ELSE report.ranked[1].target,
          median |-> MedianScore(report.ranked)]
    /\ UNCHANGED <<inputVars, poolVars, report, probed>>

Work(w) ==
    \/ TakeNext(w) \/ Connect(w) \/ Throws(w) \/ TimesOut(w) \/ Close(w)
    \/ Refuses(w) \/ OpensLate(w)
    \/ \E ms \in Latencies : Opens(w, ms)

RunNext == (\E w \in Workers : Work(w)) \/ Complete \/ Summarise

\* The request's own steps are taken, a timer that was set fires and a socket that is
\* being closed gets closed.  Nobody promises that a connection opens or is refused.
RunFairness ==
    /\ \A w \in 1..Concurrency :
         WF_probingVars(w \in Workers /\ (TakeNext(w) \/ Connect(w) \/ Throws(w) \/ TimesOut(w) \/ Close(w)))
    /\ WF_probingVars(Complete) /\ WF_probingVars(Summarise)

RunSpec == RunInit /\ [][RunNext]_probingVars /\ RunFairness

(***************************************************************************)
(* Properties.                                                             *)
(***************************************************************************)
RunTypeOK ==
    /\ attempts \in 1..MaxAttempts /\ Len(targets) <= MaxTargets
    /\ next \in 1..(Len(targets) + Concurrency + 1)
    /\ \A w \in 1..Concurrency :
         /\ worker[w].at \in {"idle", "connecting", "opening", "closing", "done"}
         /\ Len(worker[w].records) <= attempts
    /\ sockets \subseteq Workers

Opened(i) == Cardinality({k \in 1..Len(fate[i]) : fate[i][k] = "opened"})

\* The report accounts for every candidate exactly once, whatever order the workers
\* finished in and however late a connection opened: a target is ranked when some
\* connection opened in time, unmeasurable when no connection was ever tried, and counted
\* as dead when every attempt failed (types/platform.ts:332), which says nothing of why
\* (see OutOfReachNotDead); the events and the summary agree (service.ts:173-208, 117-135;
\* probe.ts:112-118).
ReportTruthful ==
    report # Null =>
      LET ranked == {report.ranked[k].target : k \in 1..Len(report.ranked)}
          measured == Indices \ report.unmeasurable
      IN  /\ ranked = {i \in Indices : Opened(i) > 0}
          /\ Cardinality(ranked) = Len(report.ranked)
          /\ report.unmeasurable = {i \in Indices : targets[i].form # "junk" /\ fate[i] = <<>>}
          /\ report.dead = Cardinality(measured \ ranked)
          /\ \A i \in measured : results[i].successes = Opened(i)
          /\ {e.target : e \in ToSet(probed)} = measured
          /\ \A e \in ToSet(probed) : e.ok = (Opened(e.target) > 0)
          /\ summary # Null => summary.targets = Len(targets)

\* Nothing is left open when the run answers, and the panel never has more sockets
\* open than its own limit: attempts of one target never overlap (probe.ts:85-87,
\* 153-160, 215-217).
SocketsReturned ==
    /\ Cardinality(sockets) <= Concurrency
    /\ report # Null => sockets = {}
    /\ \A v, w \in sockets : v # w => worker[v].target # worker[w].target

\* An endpoint that answered no more than half of its attempts is never called good,
\* however fast the answers were (scoring.ts:28-31).
UnreliableNeverGood ==
    report # Null =>
      \A k \in 1..Len(report.ranked) :
        2 * Opened(report.ranked[k].target) <= attempts => report.ranked[k].verdict # "good"

\* A run ends even when nothing it connects to ever answers (probe.ts:111-134).
RunCompletes == <>(report # Null /\ (dry \/ summary # Null))

\* An address the runtime refuses is reported out of reach, not dead, also where only the
\* refusal can tell, as of a customer's domain that Cloudflare proxies: what
\* cloudflare.ts:97-99 says of probe.ts, whose catch (150-151) keeps no kind of error.
OutOfReachNotDead ==
    report # Null =>
      \A i \in Indices :
        ~Reachable(targets[i]) /\ targets[i].form # "junk" => i \in report.unmeasurable
=============================================================================

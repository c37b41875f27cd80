---------------------------- MODULE ScanLearning ----------------------------
(***************************************************************************)
(* What the panel learns from scans, and what it does with it: the runs    *)
(* and block observations kept in rz:scanner (platform/repositories.ts),   *)
(* the candidates of the next device scan (features/scanner/candidates.ts, *)
(* blocks.ts), the scores of the measurements a browser reports            *)
(* (device.ts, handlers/scan.ts), and the life of an endpoint and the      *)
(* advice to move to another (lifecycle.ts).                               *)
(*                                                                         *)
(* An address is a pair of the /24 block it is in and a host; blocks are   *)
(* numbered.  Time is in days and moves by whole weeks, so that the        *)
(* weights of observations, which halve every week, are powers of two.     *)
(***************************************************************************)
EXTENDS ScanCommon, SequencesExt

CONSTANTS
    Ranges,     \* the published prefixes, largest first: [first, blocks]
    Hosts,        \* addresses of a block that are probed, 254
    Mixes,        \* the pseudo-random sequences a seed may give
    Wanted,       \* SCAN_DEPTHS: candidates of a scan
    Passes,       \* how often buildCandidates goes over the prefixes, 64
    Measures,     \* what the browser may report of an address
    Foreign,      \* addresses outside the published space a report may name
    Relays,       \* addresses the panel may be asked to scan itself
    RelayScores,  \* the scores it may give them
    PanelKinds,   \* the kinds of scan it is asked for
    Stored,       \* the documents a deployment may start with
    RunsKept,     \* RETENTION.scanRunsPerKind
    ObservationsKept, \* RETENTION.blockObservations
    PreferredLimit,
    MaxScans,     \* bound: scans recorded
    Gaps          \* the days that may pass at once, multiples of 7

VARIABLES
    today,        \* the day it is
    runs,         \* rz:scanner, runs of each kind, newest first
    observations, \* rz:scanner, blocks, newest first
    plan,         \* the candidates a browser is measuring, Null without a scan
    scans         \* history: how many scans were recorded

learningVars == <<today, runs, observations, plan, scans>>

Kinds == {"clean-ip", "proxy-ip", "warp-endpoint"}
Block(a) == a[1]

\* Addresses, the rows of the two lists of rz:scanner, and what a browser reports.
Addresses    == Nat \X Nat
Winners      == [address : Addresses, score : Nat, latency : Nat \cup {Null}]
RunRecords   == [at : Nat, best : Winners \cup {Null}]
Observations == [block : Nat, at : Nat, score : Nat, latency : Nat, reachable : Nat, measured : Nat]
Measurements == [latency : Nat \cup {Null}, jitter : Nat, success : Nat, answered : Nat]

\* prefixFor, isCloudflareAddress.
Published(block) ==
    \E i \in 1..Len(Ranges) :
      block \in Ranges[i].first..(Ranges[i].first + Ranges[i].blocks - 1)

FirstDay == 70

ASSUME ScanLearningAssumption ==
    /\ {Hosts, Wanted, Passes, RunsKept, ObservationsKept, PreferredLimit} \subseteq Nat \ {0}
    /\ Ranges \in Seq([first : Nat, blocks : Nat \ {0}])
    /\ \A i \in 1..(Len(Ranges) - 1) : Ranges[i].blocks >= Ranges[i + 1].blocks
    /\ \A d \in Gaps : d \in Nat \ {0} /\ d % 7 = 0
    /\ PanelKinds \subseteq Kinds
    /\ MaxScans \in Nat

\* What is stored was recorded before, of blocks that may have left the published list.
ASSUME StoredAssumption ==
    /\ Measures \subseteq Measurements
    /\ IsFiniteSet(Foreign) /\ Foreign \subseteq Addresses
    /\ Relays \subseteq Addresses /\ RelayScores \subseteq Nat
    /\ \A document \in Stored :
         /\ document.observations \in Seq(Observations)
         /\ \A i \in 1..Len(document.observations) : document.observations[i].at <= FirstDay
         /\ document.runs \in [Kinds -> Seq(RunRecords)]

Take(s, n) == SubSeq(s, 1, Min({n, Len(s)}))

(***************************************************************************)
(* blocks.ts.  Observations of at most sixty days weigh 2^(-weeks), in     *)
(* parts of the 256th that one of eight weeks weighs.                      *)
(***************************************************************************)
Recent == AtPlaces(observations, {i \in 1..Len(observations) : today - observations[i].at <= 60})

Powers == <<1, 2, 4, 8, 16, 32, 64, 128, 256>>
Weeks(o) == (today - o.at) \div 7
Weight(o) == Powers[9 - Weeks(o)]

\* The observations of a block, newest first: they are stored that way.
EntriesOf(block) == AtPlaces(Recent, {i \in 1..Len(Recent) : Recent[i].block = block})

TrendOf(entries) ==
    IF Len(entries) < 2 THEN "unknown"
    ELSE LET delta == entries[1].score - entries[2].score IN
         IF delta >= 8 THEN "improving" ELSE IF delta <= -8 THEN "degrading" ELSE "stable"

\* Scores and latencies in tenths, rates and confidence in hundredths.
Learn(block) ==
    LET entries == EntriesOf(block)
        n       == Len(entries)
        Sum(f)  == SumOf([i \in 1..n |-> Weight(entries[i]) * f[i]])
        weight  == Sum([i \in 1..n |-> 1])
        days    == Cardinality({entries[i].at : i \in 1..n})
    IN  [block      |-> block,
         score      |-> RoundDiv(10 * Sum([i \in 1..n |-> entries[i].score]), weight),
         latency    |-> RoundDiv(10 * Sum([i \in 1..n |-> entries[i].latency]), weight),
         reachRate  |-> RoundDiv(100 * Sum([i \in 1..n |-> entries[i].reachable]),
                                 Sum([i \in 1..n |-> Max({1, entries[i].measured})])),
         days       |-> days,
         confidence |-> RoundDiv(100 * Min({n, 3}) * Min({days, 2}), 6 * Powers[1 + Weeks(entries[1])]),
         trend      |-> TrendOf(entries),
         seen       |-> Min({i \in 1..Len(Recent) : Recent[i].block = block})]

\* learnBlocks: best first; equals in the order they were first met.
Learned == {Learn(b) : b \in {Recent[i].block : i \in 1..Len(Recent)}}
Ahead(a, b) ==
    \/ a.score > b.score
    \/ a.score = b.score /\ a.confidence > b.confidence
    \/ a.score = b.score /\ a.confidence = b.confidence /\ a.seen < b.seen

PreferredBlocks ==
    LET worth == {k \in Learned : k.reachRate >= 25 /\ k.trend # "degrading" /\ k.score > 0}
    IN  Take(Ordered(worth, Ahead), PreferredLimit)

\* What describeLearning and the optimization present as evidence.
Confident == {k \in Learned : k.confidence >= 50}

(***************************************************************************)
(* candidates.ts: preferred blocks first, then spread over the prefixes.   *)
(***************************************************************************)
Host(mix, index) == 1 + (mix[index] % Hosts)

PreferredCandidates_Unchecked(mix) ==    \* mutant: stored blocks taken as they are
    LET known == PreferredBlocks
    IN  [k \in 1..Len(known) |-> <<known[k].block, Host(mix, k - 1)>>]

PreferredCandidates(mix) ==
    LET all   == PreferredBlocks
        known == AtPlaces(all, {k \in 1..Len(all) : Published(all[k].block)})
    IN  [k \in 1..Len(known) |-> <<known[k].block, Host(mix, k - 1)>>]

Space == SumOf([i \in 1..Len(Ranges) |-> Ranges[i].blocks])
PerPass(i) ==
    LET share == Max({1, RoundDiv(Ranges[i].blocks * Wanted, Space)})
    IN  Max({1, (share + 7) \div 8})

\* The slots in the order they are tried: passes, then prefixes, then picks.
Slots == {s \in (0..(Passes - 1)) \X (1..Len(Ranges)) \X (0..(Wanted - 1)) : s[3] < PerPass(s[2])}
Earlier(s, t) ==
    \/ s[1] < t[1]
    \/ s[1] = t[1] /\ s[2] < t[2]
    \/ s[1] = t[1] /\ s[2] = t[2] /\ s[3] < t[3]
SlotsInOrder == Ordered(Slots, Earlier)

\* Where in the sequence a slot looks.
Index(s) == s[1] * PerPass(s[2]) + s[3]

\* The sequences are as long as anybody looks.
ASSUME MixesAssumption ==
    \A mix \in Mixes :
      /\ \A k \in 0..(PreferredLimit - 1) : mix[k] \in Nat
      /\ \A s \in Slots : mix[Index(s)] \in Nat /\ mix[Index(s) + 1] \in Nat

Pick(mix, s) ==
    LET range == Ranges[s[2]]
    IN  <<range.first + (mix[Index(s)] % range.blocks), Host(mix, Index(s) + 1)>>

SpreadCandidates(mix) ==
    LET order == SlotsInOrder IN [k \in 1..Len(order) |-> Pick(mix, order[k])]

\* push: an address already taken is skipped.
Distinct(s) == AtPlaces(s, {k \in 1..Len(s) : \A j \in 1..(k - 1) : s[j] # s[k]})

BuildCandidates(mix) ==
    Take(Distinct(Take(PreferredCandidates(mix), Wanted) \o SpreadCandidates(mix)), Wanted)

(***************************************************************************)
(* device.ts: quality in thousandths times the share of attempts answered, *)
(* of three.  An address that was answered by something on the path scores *)
(* nothing, however fast it looked.                                        *)
(***************************************************************************)
LatencyPoints(m) == IF m.latency <= 25 THEN 1000 ELSE 25000 \div m.latency
StabilityPoints(m) ==
    IF m.latency <= 0 THEN 0
    ELSE LET ratio == (1000 * m.jitter) \div m.latency IN
         IF ratio <= 250 THEN 1000 ELSE IF ratio >= 3000 THEN 0
         ELSE 1000 - ((ratio - 250) * 1000) \div 2750

ScoreMeasurement(m) ==
    IF m.answered > 0 \/ m.latency = Null \/ m.success = 0 THEN 0
    ELSE RoundDiv((85 * LatencyPoints(m) + 15 * StabilityPoints(m)) * m.success, 3000)

\* The median of the values of f.
Median(f) ==
    LET S == DOMAIN f
        n == Cardinality(S)
        At(k) == CHOOSE v \in {f[x] : x \in S} :
                   /\ Cardinality({x \in S : f[x] < v}) < k
                   /\ Cardinality({x \in S : f[x] <= v}) >= k
    IN  IF n % 2 = 1 THEN At((n + 1) \div 2) ELSE RoundDiv(At(n \div 2) + At(n \div 2 + 1), 2)

Rows(report)   == {a \in DOMAIN report : Published(Block(a))}
Alive(report)  == {a \in Rows(report) : ScoreMeasurement(report[a]) > 0}
BlockRow(report, block) ==
    LET alive == {a \in Alive(report) : Block(a) = block} IN
    [block     |-> block, at |-> today,
     score     |-> Median([a \in alive |-> ScoreMeasurement(report[a])]),
     latency   |-> Median([a \in alive |-> report[a].latency]),
     reachable |-> Cardinality(alive),
     measured  |-> Cardinality({a \in Rows(report) : Block(a) = block})]

WorthKeeping(report) ==
    LET blocks == {b \in {Block(a) : a \in Alive(report)} :
                     Cardinality({a \in Rows(report) : Block(a) = b}) >= 2}
        rows   == {BlockRow(report, b) : b \in blocks}
    IN  Take(Ordered(rows, LAMBDA a, b : a.score > b.score \/ (a.score = b.score /\ a.block < b.block)), 12)

Better(report, a, b) ==
    LET x == ScoreMeasurement(report[a])
        y == ScoreMeasurement(report[b])
    IN  \/ x > y
        \/ x = y /\ report[a].latency < report[b].latency
        \/ x = y /\ report[a].latency = report[b].latency
           /\ (a[1] < b[1] \/ (a[1] = b[1] /\ a[2] < b[2]))
Best(report) ==
    IF Alive(report) = {} THEN Null
    ELSE LET best == Ordered(Alive(report), LAMBDA a, b : Better(report, a, b))[1] IN
         [address |-> best, score |-> ScoreMeasurement(report[best]), latency |-> report[best].latency]

(***************************************************************************)
(* The repository.                                                         *)
(***************************************************************************)
LInit ==
    /\ today = FirstDay
    /\ \E document \in Stored :
         /\ runs = document.runs
         /\ observations = document.observations
    /\ plan = Null
    /\ scans = 0

RecordBlocks(rows) == observations' = Take(rows \o observations, ObservationsKept)
RecordRun(kind, best) ==
    runs' = [runs EXCEPT ![kind] = Take(<<[at |-> today, best |-> best]>> \o @, RunsKept)]

\* scan/plan.
Plan ==
    /\ plan = Null /\ scans < MaxScans
    /\ \E mix \in Mixes : plan' = BuildCandidates(mix)
    /\ UNCHANGED <<today, runs, observations, scans>>

\* scan/record: what the browser reports of the addresses it measured, perhaps not all,
\* perhaps with rows nobody asked for.
RecordScan ==
    /\ plan # Null
    /\ \E asked \in SUBSET ToSet(plan), extra \in SUBSET Foreign :
         \E report \in [asked \cup extra -> Measures] :
           /\ Rows(report) # {}
           /\ RecordBlocks(WorthKeeping(report))
           /\ RecordRun("clean-ip", Best(report))
    /\ plan' = Null
    /\ scans' = scans + 1
    /\ UNCHANGED today

Abandon ==
    /\ plan # Null
    /\ plan' = Null
    /\ UNCHANGED <<today, runs, observations, scans>>

\* scanner/run: the panel's own scan of a list it is given (Probing).
PanelScan(kind) ==
    /\ scans < MaxScans
    /\ \/ RecordRun(kind, Null)
       \/ \E a \in Relays, s \in RelayScores :
            RecordRun(kind, [address |-> a, score |-> s, latency |-> Null])
    /\ scans' = scans + 1
    /\ UNCHANGED <<today, observations, plan>>

\* Days pass between scans: bound, not twice without one.
DaysPass ==
    /\ \E k \in Kinds : runs[k] # <<>> /\ runs[k][1].at = today
    /\ \E d \in Gaps : today' = today + d
    /\ UNCHANGED <<runs, observations, plan, scans>>

LNext == Plan \/ RecordScan \/ Abandon \/ (\E k \in PanelKinds : PanelScan(k)) \/ DaysPass

LSpec == LInit /\ [][LNext]_learningVars

(***************************************************************************)
(* lifecycle.ts.                                                           *)
(***************************************************************************)
\* buildLifecycles, oldest run first; scores and deltas in tenths.
Lifecycle(history, a) ==
    LET ordered == Reverse(history)
        seen    == {i \in 1..Len(ordered) : ordered[i].best # Null /\ ordered[i].best.address = a}
        n       == Cardinality(seen)
        delta   == 10 * (ordered[Max(seen)].best.score - ordered[Min(seen)].best.score)
    IN  [address      |-> a,
         observations |-> n,
         first        |-> Min(seen),
         delta        |-> IF n > 1 THEN delta ELSE 0,
         average      |-> RoundDiv(10 * SumOf([i \in seen |-> ordered[i].best.score]), n),
         state        |-> CASE Len(ordered) - Max(seen) >= 3 -> "retired"
                            [] OTHER -> IF n < 2 THEN "new"
                                        ELSE IF delta <= -40 THEN "degrading"
                                        ELSE IF delta >= 40 THEN "improving" ELSE "stable"]

Lifecycles_AsSeen(history) ==    \* mutant: not sorted by average
    LET named == {history[i].best.address : i \in {j \in 1..Len(history) : history[j].best # Null}}
    IN  Ordered({Lifecycle(history, a) : a \in named}, LAMBDA x, y : x.first < y.first)

Lifecycles(history) ==
    LET named == {history[i].best.address : i \in {j \in 1..Len(history) : history[j].best # Null}}
    IN  Ordered({Lifecycle(history, a) : a \in named},
                LAMBDA x, y : x.average > y.average \/ (x.average = y.average /\ x.first < y.first))

\* adviseMigration: the endpoint to move to, Null to stay.
MigrationMargin == 80
AdviseMigration(history, current) ==
    LET all      == Lifecycles(history)
        active   == AtPlaces(all, {i \in 1..Len(all) : all[i].state # "retired"})
        mine     == AtPlaces(active, {i \in 1..Len(active) : active[i].address = current})
        others   == AtPlaces(active, {i \in 1..Len(active) : active[i].address # current})
        margin   == others[1].average - mine[1].average
        required == IF mine[1].state = "degrading" THEN MigrationMargin \div 2 ELSE MigrationMargin
        samples  == Min({8, mine[1].observations + others[1].observations})
        quality  == RoundDiv(1000 * samples + 50 * Min({160, Max({0, margin})}), 160)
    IN  IF active = <<>> THEN Null
        ELSE IF mine = <<>> THEN active[1].address
        ELSE IF others = <<>> THEN Null
        ELSE IF others[1].state # "new" /\ margin >= required /\ quality >= 55
             THEN others[1].address ELSE Null

(***************************************************************************)
(* Properties.                                                             *)
(***************************************************************************)
LTypeOK ==
    /\ DOMAIN runs = Kinds
    /\ \A k \in Kinds : Len(runs[k]) <= RunsKept
    /\ Len(observations) <= ObservationsKept
    /\ \A i \in 1..(Len(observations) - 1) : observations[i].at >= observations[i + 1].at
    /\ plan # Null => Len(plan) <= Wanted

\* Whatever is stored of earlier scans, a device is only ever asked to measure addresses
\* of the published space, each of them once (candidates.ts:142-144, 204-207).
ProbesOnlyPublished ==
    plan # Null => /\ \A i \in 1..Len(plan) : Published(Block(plan[i])) /\ plan[i][2] \in 1..Hosts
                   /\ Cardinality(ToSet(plan)) = Len(plan)

\* Advice that is followed is not taken back: asked again with the same scans, the panel
\* does not send the operator on, whatever endpoint they came from (lifecycle.ts:37-46).
AdviceSettles ==
    \A k \in Kinds :
      LET named == {runs[k][i].best.address : i \in {j \in 1..Len(runs[k]) : runs[k][j].best # Null}} IN
      \A from \in named \cup {Null} :
        LET to == AdviseMigration(runs[k], from) IN
        to # Null => to # from /\ AdviseMigration(runs[k], to) = Null

\* The head of a scan is spent on blocks that a scan of the last sixty days reached, in
\* at least a quarter of the addresses it measured, and whose newest scan was not
\* markedly worse than the one before (blocks.ts:176-187).
PreferredReached ==
    \A i \in 1..Len(PreferredBlocks) :
      LET entries == EntriesOf(PreferredBlocks[i].block) IN
      /\ \E e \in ToSet(entries) : e.reachable >= 1 /\ 100 * e.reachable >= 24 * e.measured
      /\ Len(entries) > 1 => entries[1].score > entries[2].score - 8

\* A block that is presented as evidence was measured on two days (blocks.ts:137-138).
ConfidenceNeedsDays == \A k \in Confident : k.days >= 2
=============================================================================

-------------------------- MODULE MetricsDocuments --------------------------
(***************************************************************************)
(* The data of the metrics: the two series that share the KV key           *)
(* rz:metrics, the log under rz:history, and what the subscribers of       *)
(* analytics and history make of an event.                                 *)
(*                                                                         *)
(* A series is a function from the periods it has an entry for (hours, or  *)
(* days) to the entry.                                                     *)
(***************************************************************************)
EXTENDS Integers, FiniteSets, Sequences, Functions, SequencesExt, FiniteSetsExt

CONSTANTS
    KeptHours,     \* RETENTION.trafficHours
    KeptDays,      \* RETENTION.metricDays
    KeptEntries,   \* RETENTION.historyEntries
    HoursInDay

ASSUME RetentionAssumption == {KeptHours, KeptDays, KeptEntries, HoursInDay} \subseteq Nat \ {0}

DayOf(hour) == hour \div HoursInDay

NoSeries == [h \in {} |-> 0]

\* slice(-n) of a sorted series.
Newest(series, n) ==
    Restrict(series, {h \in DOMAIN series : Cardinality({k \in DOMAIN series : k > h}) < n})

-----------------------------------------------------------------------------
(***************************************************************************)
(* Hours: traffic.                                                         *)
(***************************************************************************)
NoTraffic == [requests |-> 0, down |-> 0, up |-> 0]
Traffic(requests, down, up) == [requests |-> requests, down |-> down, up |-> up]

Add(a, b) == [f \in DOMAIN NoTraffic |-> a[f] + b[f]]

At(series, h) == IF h \in DOMAIN series THEN series[h] ELSE NoTraffic

Merge(a, b) == [h \in DOMAIN a \cup DOMAIN b |-> Add(At(a, h), At(b, h))]

Count(series, h, t) == Merge(series, [k \in {h} |-> t])

MergeHours(stored, pending) == Newest(Merge(stored, pending), KeptHours)

-----------------------------------------------------------------------------
(***************************************************************************)
(* Days: a bag of metrics for each.                                        *)
(***************************************************************************)
TallyAt(days, d, m) ==
    IF d \in DOMAIN days /\ m \in DOMAIN days[d] THEN days[d][m] ELSE 0

Bump(days, d, m) ==
    LET touched == (IF d \in DOMAIN days THEN DOMAIN days[d] ELSE {}) \cup {m}
        tally   == [k \in touched |-> TallyAt(days, d, k) + (IF k = m THEN 1 ELSE 0)]
    IN [k \in DOMAIN days \cup {d} |-> IF k = d THEN tally ELSE days[k]]

-----------------------------------------------------------------------------
(***************************************************************************)
(* Events.  The name says what the payload adds: whether an attempt or a   *)
(* probe went well.                                                        *)
(***************************************************************************)
Counters(event) ==
    CASE event = "auth.attempt ok"       -> {"auth.success"}
      [] event = "auth.attempt failed"   -> {"auth.failure"}
      [] event = "settings.updated"      -> {"settings.saves"}
      [] event = "settings.rejected"     -> {"settings.rejections"}
      [] event = "scanner.probed ok"     -> {"scanner.probes", "scanner.healthy"}
      [] event = "scanner.probed failed" -> {"scanner.probes"}
      [] event = "warp.refreshed"        -> {"warp.refreshes"}
      [] event = "panel.updated"         -> {"panel.updates"}
      [] OTHER                           -> {}

Logged == {"settings.updated", "settings.reset", "panel.updated", "warp.refreshed",
           "scanner.completed", "auth.login", "links.changed"}

-----------------------------------------------------------------------------
(***************************************************************************)
(* The documents and the updates of a repository: the counter of a metric  *)
(* on a day, an entry of the log.                                          *)
(***************************************************************************)
Keys == {"metrics", "history"}

Empty == [metrics |-> [days |-> NoSeries, hours |-> NoSeries], history |-> <<>>]

Increment(document, u) ==
    [document EXCEPT !.days = Newest(Bump(@, u.day, u.metric), KeptDays)]

AppendEntry(entries, u) ==
    SubSeq(<<u>> \o entries, 1, IF Len(entries) < KeptEntries THEN Len(entries) + 1 ELSE KeptEntries)

Update(key, document, u) ==
    IF key = "metrics" THEN Increment(document, u) ELSE AppendEntry(document, u)

=============================================================================

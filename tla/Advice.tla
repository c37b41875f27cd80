------------------------------- MODULE Advice -------------------------------
(***************************************************************************)
(* What the panel advises: the presets and their optimisation profiles     *)
(* (features/presets, features/optimization), one ranked list of the       *)
(* advice of all providers (features/recommendations), and the health      *)
(* centre (features/health) that reduces everything to one status.         *)
(*                                                                         *)
(* The settings s are a function from their names to their values.  The    *)
(* provider for scans is registered on no route that collects advice.      *)
(***************************************************************************)
EXTENDS Diagnosis

CONSTANTS
    Google,       \* https://8.8.8.8/dns-query
    Cloudflare    \* https://1.1.1.1/dns-query

-----------------------------------------------------------------------------
(***************************************************************************)
(* CORE_PRESETS: patches, of the settings each has an opinion about.       *)
(***************************************************************************)
Filters(on) == [blockAds |-> on, blockMalware |-> on, blockPhishing |-> on]

\* mutant: the low-latency preset leaves the log of a debugging session on.
Patches_Verbose ==
    "balanced" :> ([remoteDNS |-> Google, allowLANConnection |-> FALSE] @@ Filters(TRUE))
    @@ "restricted-network" :> [fragmentMode |-> "medium", logLevel |-> "none"]
    @@ "performance" :> [fragmentMode |-> "low", logLevel |-> "error"]
    @@ "privacy" :> [remoteDNS |-> Cloudflare, logLevel |-> "none"]
    @@ "smart-low-latency" :> [fragmentMode |-> "low", logLevel |-> "info"]
    @@ "smart-stability" :> [fragmentMode |-> "medium", logLevel |-> "warning"]
    @@ "smart-streaming" :> [fragmentMode |-> "low", logLevel |-> "error"]
    @@ "smart-gaming" :> [fragmentMode |-> "low", bestPingInterval |-> 30]
    @@ "smart-mobile" :> [enableIPv6 |-> TRUE, bestPingInterval |-> 45]

Patches ==
    "balanced" :> (Filters(TRUE) @@
        [remoteDNS |-> Google, localDNS |-> "8.8.8.8", logLevel |-> "warning",
         allowLANConnection |-> FALSE, fakeDNS |-> FALSE])
    @@ "restricted-network" :>
        [fragmentMode |-> "medium", fragmentPackets |-> "tlshello", enableECH |-> TRUE,
         logLevel |-> "none", allowLANConnection |-> FALSE, remoteDNS |-> Google,
         blockUDP443 |-> TRUE]
    @@ "performance" :>
        [fragmentMode |-> "low", enableTFO |-> TRUE, enableIPv6 |-> TRUE,
         bestPingInterval |-> 30, blockUDP443 |-> FALSE, logLevel |-> "error"]
    @@ "privacy" :> (Filters(TRUE) @@
        [logLevel |-> "none", fakeDNS |-> FALSE, allowLANConnection |-> FALSE,
         remoteDNS |-> Cloudflare, localDNS |-> "1.1.1.1", blockCryptominers |-> TRUE])
    @@ "smart-low-latency" :>
        [fragmentMode |-> "low", enableTFO |-> TRUE, bestPingInterval |-> 30,
         logLevel |-> "error"]
    @@ "smart-stability" :>
        [fragmentMode |-> "medium", blockUDP443 |-> TRUE, bestPingInterval |-> 60,
         logLevel |-> "warning"]
    @@ "smart-streaming" :>
        [fragmentMode |-> "low", enableTFO |-> TRUE, blockUDP443 |-> FALSE,
         logLevel |-> "error"]
    @@ "smart-gaming" :>
        [fragmentMode |-> "low", enableTFO |-> TRUE, bestPingInterval |-> 30,
         blockUDP443 |-> FALSE]
    @@ "smart-mobile" :>
        [enableIPv6 |-> TRUE, enableTFO |-> TRUE, bestPingInterval |-> 45,
         blockUDP443 |-> TRUE]

Presets == DOMAIN Patches

\* registry.apply: what a preset would change, and the settings with it applied.
Changes(id, s) == {k \in DOMAIN Patches[id] : Patches[id][k] # s[k]}
Applied(id, s) == [k \in DOMAIN s |-> IF k \in DOMAIN Patches[id] THEN Patches[id][k] ELSE s[k]]

-----------------------------------------------------------------------------
(***************************************************************************)
(* The optimisation profiles: what each would add to the measured score.   *)
(* evaluate orders them, the compatible and the best first.                *)
(***************************************************************************)
PROFILES == <<"smart-low-latency", "smart-stability", "smart-streaming", "smart-gaming",
              "smart-mobile">>
ObjectiveLift == <<8, 10, 7, 8, 6>>

Compatible(id, s) == ~(id = "smart-streaming" /\ s.ports = {})

ProjectedScore(i, s, scan) ==
    LET baseline == IF scan.best = None THEN 60 ELSE scan.best
        changed  == Cardinality(Changes(PROFILES[i], s))
    IN  AtMost(100, RoundDiv(4 * (baseline + ObjectiveLift[i]) - AtMost(changed, 8), 4))

Certainty(i, s, scan) ==
    LET changed == Cardinality(Changes(PROFILES[i], s))
    IN  RoundDiv(AtMost(9500, 4500 + 45 * scan.confidence + 200 * AtMost(changed, 5)), 100)

Evaluated(s, scan) ==    \* the profiles, by their place in PROFILES
    LET Better(i, j) ==
            LET rank(p) == <<IF Compatible(PROFILES[p], s) THEN 0 ELSE 1,
                             0 - ProjectedScore(p, s, scan), 0 - Certainty(p, s, scan), p>>
            IN  \E k \in 1..4 : /\ rank(i)[k] < rank(j)[k]
                                /\ \A l \in 1..(k - 1) : rank(i)[l] = rank(j)[l]
    IN  Ranked(DOMAIN PROFILES, Better)

Useful(s, scan) ==
    Where(Evaluated(s, scan), LAMBDA i : /\ Compatible(PROFILES[i], s)
                                         /\ Changes(PROFILES[i], s) # {})

-----------------------------------------------------------------------------
(***************************************************************************)
(* The providers.  A recommendation has an id, an impact, the settings it  *)
(* is about, and may be a bundle: a preset.                                *)
(***************************************************************************)
Fields ==    \* REMEDIATION_MAP
    "security.password-set" :> {"password"} @@ "security.log-level" :> {"logLevel"}
    @@ "security.lan-exposure" :> {"allowLANConnection"} @@ "security.dns-leak" :> {"remoteDNS"}
    @@ "config.protocols-enabled" :> {"protocols"} @@ "config.ports-selected" :> {"ports"}
    @@ "config.clean-addresses" :> {"cleanIPs", "customCdnAddrs"}
    @@ "config.warp-endpoints" :> {"warpEndpoints"} @@ "config.ipv6" :> {"enableIPv6"}
    @@ "platform.version-current" :> {"panelVersion"} @@ "platform.update-capability" :> {}
    @@ "platform.kv-bound" :> {} @@ "platform.auth-failures" :> {"securePath"}
    @@ "intelligence.endpoint-degradation" :> {"cleanIPs"}

Impact(weight) ==    \* impactFor: 0 is high, 1 medium, 2 low
    IF weight >= Critical THEN 0 ELSE IF weight >= Important THEN 1 ELSE 2

Advise(id, impact, fields, bundle) ==
    [id |-> id, impact |-> impact, fields |-> fields, bundle |-> bundle]

FromDiagnostics(findings) ==
    {Advise(c, Impact(Weight[c]), Fields[c], FALSE) : c \in Actionable(findings)}

MinChanged == 3

FromPresets(s) ==
    {Advise("preset." \o id, 1, Changes(id, s), TRUE) :
        id \in {p \in Presets : Cardinality(Changes(p, s)) >= MinChanged}}

FromOptimization(s, scan) ==
    LET useful == Useful(s, scan)
        best   == Head(useful)
    IN  IF useful = <<>> THEN {}
        ELSE {Advise("optimization." \o PROFILES[best],
                     IF ProjectedScore(best, s, scan) >= 80 THEN 1 ELSE 2,
                     Changes(PROFILES[best], s), FALSE)}

-----------------------------------------------------------------------------
(***************************************************************************)
(* merge: by impact, then by id; of the bundles, those that add nothing to *)
(* the advice above them are left out.                                     *)
(***************************************************************************)
IdOrder ==
    <<"config.clean-addresses", "config.ipv6", "config.ports-selected",
      "config.protocols-enabled", "config.warp-endpoints", "intelligence.endpoint-degradation",
      "optimization.smart-gaming", "optimization.smart-low-latency",
      "optimization.smart-mobile", "optimization.smart-stability",
      "optimization.smart-streaming", "platform.auth-failures", "platform.kv-bound",
      "platform.update-capability", "platform.version-current", "preset.balanced",
      "preset.performance", "preset.privacy", "preset.restricted-network",
      "preset.smart-gaming", "preset.smart-low-latency", "preset.smart-mobile",
      "preset.smart-stability", "preset.smart-streaming", "security.dns-leak",
      "security.lan-exposure", "security.log-level", "security.password-set">>

Place == [id \in {IdOrder[i] : i \in DOMAIN IdOrder} |-> CHOOSE i \in DOMAIN IdOrder : IdOrder[i] = id]

Above(a, b) ==
    \/ a.impact < b.impact
    \/ a.impact = b.impact /\ Place[a.id] < Place[b.id]

\* mutant: a bundle is left out if any of its settings is covered.
Covered_InPart(r, all) ==
    r.fields \cap UNION {a.fields : a \in {x \in all : Above(x, r) /\ ~x.bundle}} # {}

Covered(r, all) ==
    r.fields \subseteq UNION {a.fields : a \in {x \in all : Above(x, r) /\ ~x.bundle}}

Merged(all) ==
    LET shown == {r \in all : ~(r.bundle /\ Covered(r, all))}
        At(impact) == Where(IdOrder, LAMBDA id : \E r \in shown : r.id = id /\ r.impact = impact)
        Named(id) == CHOOSE r \in shown : r.id = id
        ids == At(0) \o At(1) \o At(2)
    IN  [i \in DOMAIN ids |-> Named(ids[i])]

Recommendations(s, w, version) ==
    Merged(FromDiagnostics(Findings(s, w, version)) \cup FromPresets(s)
             \cup FromOptimization(s, Intelligence(w.runs)))

-----------------------------------------------------------------------------
(***************************************************************************)
(* buildHealthCenter: the sections, each with a status and a score in the  *)
(* hundred, the worst status, and the weighted mean of the scored ones.    *)
(***************************************************************************)
Severity == [good |-> 0, unknown |-> 1, attention |-> 2, critical |-> 3]
FreshDays == 7

Configuration(findings) ==
    LET Found(status) == \E c \in Checks : findings[c] = status IN
    [status |-> IF Found("fail") THEN "critical" ELSE IF Found("warn") THEN "attention" ELSE "good",
     score  |-> Score(findings)]

Endpoints(runs) ==
    LET scan == Intelligence(runs)
        best == IF scan.best = None THEN 0 ELSE scan.best
    IN  [status |-> IF runs = <<>> THEN "unknown"
                    ELSE IF Head(runs).healthy = 0 THEN "critical"
                    ELSE IF Head(runs).age > FreshDays \/ scan.trend = "degrading" \/ best < 50
                      THEN "attention" ELSE "good",
         score  |-> scan.best]

System(features, kv) ==
    LET In(state) == Cardinality({f \in DOMAIN features : features[f] = state})
        total     == Cardinality(DOMAIN features)
    IN  [status |-> IF ~kv THEN "critical"
                    ELSE IF In("unavailable") + In("degraded") > 0 THEN "attention" ELSE "good",
         score  |-> RoundDiv(100 * (2 * (total - In("unavailable")) - In("degraded")), 2 * total)]

Waiting(recommendations) ==
    [status |-> IF recommendations = <<>> THEN "good" ELSE "attention", score |-> None]

Scored(s, w, version) ==
    <<Configuration(Findings(s, w, version)), Endpoints(w.runs), System(Features(s, w), w.kv)>>

Sections(s, w, version) ==
    Scored(s, w, version) \o <<Waiting(Recommendations(s, w, version))>>

SectionWeights == <<45, 35, 20>>

Worst(sections) ==
    CHOOSE st \in {sections[i].status : i \in DOMAIN sections} :
        \A i \in DOMAIN sections : Severity[sections[i].status] <= Severity[st]

HealthScore(sections) ==
    LET scored == {i \in DOMAIN SectionWeights : sections[i].score # None}
    IN  RoundDiv(Total(scored, LAMBDA i : SectionWeights[i] * sections[i].score),
                 Total(scored, LAMBDA i : SectionWeights[i]))

\* The sections the next actions are taken from, the worst first, three at most.
NextActions(sections) ==
    LET Urgent(i, j) ==
            \/ Severity[sections[i].status] > Severity[sections[j].status]
            \/ Severity[sections[i].status] = Severity[sections[j].status] /\ i < j
        bad == {i \in DOMAIN sections : sections[i].status \in {"critical", "attention"}}
    IN  SubSeq(Ranked(bad, Urgent), 1, AtMost(3, Cardinality(bad)))
=============================================================================

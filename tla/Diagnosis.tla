----------------------------- MODULE Diagnosis -----------------------------
(***************************************************************************)
(* What the panel thinks of a deployment (features/diagnostics/service.ts, *)
(* platform/features.ts, features/scanner/intelligence.ts): checks over    *)
(* the settings s and over the world w around them, and a score.           *)
(*                                                                         *)
(* s is a function from setting names to values.  w tells what capability  *)
(* assembly finds: whether KV is bound, a password is set, a token is      *)
(* embedded, a bot, WARP accounts and a custom domain exist; the sign-ins  *)
(* counted; and the clean-IP scans kept, newest first, with their age in   *)
(* days.                                                                   *)
(***************************************************************************)
EXTENDS Integers, Sequences, FiniteSets, FiniteSetsExt, TLC

CONSTANTS
    Encrypted,     \* the resolvers reached over https: or tls:
    NoText,        \* a setting left empty
    None

RoundDiv(n, d) == (2 * n + d) \div (2 * d)
AtMost(a, b) == IF a < b THEN a ELSE b
AtLeast(a, b) == IF a > b THEN a ELSE b
Total(S, F(_)) == FoldSet(LAMBDA x, sum : F(x) + sum, 0, S)

\* The members of S from the first to the last in the strict total order Before.
Ranked(S, Before(_, _)) ==
    [k \in 1..Cardinality(S) |-> CHOOSE a \in S : Cardinality({b \in S : Before(b, a)}) = k - 1]

Where(seq, Test(_)) == SelectSeq(seq, Test)

-----------------------------------------------------------------------------
(***************************************************************************)
(* intelligenceFromHistory: the last run against the median of the four    *)
(* before it.                                                              *)
(***************************************************************************)
Median(scores) ==    \* of a sequence, the upper one of two
    LET Below(i, j) == \/ scores[i] < scores[j]
                       \/ scores[i] = scores[j] /\ i < j
    IN  scores[Ranked(DOMAIN scores, Below)[Len(scores) \div 2 + 1]]

Intelligence(runs) ==
    IF runs = <<>> \/ Head(runs).best = None
      THEN [best |-> None, trend |-> "unknown", confidence |-> 0]
      ELSE
        LET last   == Head(runs)
            prior  == Where(SubSeq(runs, 2, AtMost(5, Len(runs))), LAMBDA run : run.best # None)
            scores == [i \in DOMAIN prior |-> prior[i].best]
            delta  == last.best - Median(scores)
            spread == AtMost(40, Max({0} \cup {scores[i] - scores[j] : i, j \in DOMAIN scores}))
            points == 64 * AtMost(5, Len(runs)) * last.targets + 280 * last.healthy
                        + (2 * last.best - 3 * spread) * last.targets
        IN  [best       |-> last.best,
             trend      |-> CASE scores = <<>> -> "baseline"
                              [] delta <= -10 -> "degrading"
                              [] delta >= 10 -> "improving"
                              [] OTHER -> "stable",
             confidence |-> AtLeast(0, AtMost(100, RoundDiv(points, 8 * last.targets)))]

-----------------------------------------------------------------------------
(***************************************************************************)
(* The checks, with the weight tier of each.                               *)
(***************************************************************************)
Critical == 30
Important == 10
Advisory == 3
Info == 0

Weight ==
    "platform.kv-bound" :> Critical @@ "platform.version-current" :> Important
    @@ "platform.update-capability" :> Advisory @@ "platform.auth-failures" :> Important
    @@ "security.password-set" :> Critical @@ "security.log-level" :> Advisory
    @@ "security.lan-exposure" :> Important @@ "security.dns-leak" :> Important
    @@ "config.protocols-enabled" :> Critical @@ "config.ports-selected" :> Important
    @@ "config.clean-addresses" :> Advisory @@ "config.warp-endpoints" :> Advisory
    @@ "config.ipv6" :> Info @@ "intelligence.endpoint-degradation" :> Important

Checks == DOMAIN Weight

TlsPorts == {443, 8443, 2053, 2083, 2087, 2096}

Passes(holds, otherwise) == IF holds THEN "pass" ELSE otherwise

PLATFORM_CHECKS(s, w, version) ==
    "platform.kv-bound" :> Passes(w.kv, "fail")
    @@ "platform.version-current" :>
         (IF s.panelVersion = None THEN "skip" ELSE Passes(s.panelVersion = version, "warn"))
    @@ "platform.update-capability" :> Passes(w.token, "warn")
    @@ "platform.auth-failures" :>
         (IF w.attempts = 0 THEN "skip"
          ELSE Passes(w.failures < 10 \/ 2 * w.failures <= w.attempts, "warn"))

SECURITY_CHECKS(s, w) ==
    "security.password-set" :> Passes(w.password, "fail")
    @@ "security.log-level" :> Passes(s.logLevel \notin {"debug", "info"}, "warn")
    @@ "security.lan-exposure" :> Passes(~s.allowLANConnection, "warn")
    @@ "security.dns-leak" :> Passes(s.remoteDNS \in Encrypted, "fail")

CONFIG_CHECKS(s, w) ==
    "config.protocols-enabled" :> Passes(s.protocols # {}, "fail")
    @@ "config.ports-selected" :>
         (IF s.ports = {} THEN "fail" ELSE Passes(s.ports \cap TlsPorts # {}, "warn"))
    @@ "config.clean-addresses" :> Passes(s.cleanIPs \cup s.customCdnAddrs # {}, "warn")
    @@ "config.warp-endpoints" :>
         (IF ~w.warp THEN "skip" ELSE Passes(s.warpEndpoints # {}, "warn"))
    @@ "config.ipv6" :> Passes(s.enableIPv6, "warn")

INTELLIGENCE_CHECKS(w) ==
    LET trend == Intelligence(w.runs).trend IN
    "intelligence.endpoint-degradation" :>
        IF trend \in {"unknown", "baseline"} THEN "skip" ELSE Passes(trend # "degrading", "warn")

Findings(s, w, version) ==
    PLATFORM_CHECKS(s, w, version) @@ SECURITY_CHECKS(s, w) @@ CONFIG_CHECKS(s, w)
    @@ INTELLIGENCE_CHECKS(w)

-----------------------------------------------------------------------------
(***************************************************************************)
(* score.  Half credit for a warning; what is skipped and what weighs      *)
(* nothing is left out on both sides.                                      *)
(***************************************************************************)
Credit == [pass |-> 2, warn |-> 1, fail |-> 0]    \* in halves

Score(findings) ==
    LET counted  == {c \in Checks : findings[c] # "skip" /\ Weight[c] > 0}
        possible == Total(counted, LAMBDA c : Weight[c])
        earned   == Total(counted, LAMBDA c : Weight[c] * Credit[findings[c]])
    IN  IF possible = 0 THEN 100 ELSE RoundDiv(100 * earned, 2 * possible)

Actionable(findings) == {c \in Checks : findings[c] \in {"fail", "warn"}}

-----------------------------------------------------------------------------
(***************************************************************************)
(* CORE_FEATURES: what the deployment is able to do.                       *)
(***************************************************************************)
Able(holds, otherwise) == IF holds THEN "available" ELSE otherwise

Features(s, w) ==
    [auth          |-> IF ~w.kv THEN "unavailable" ELSE Able(w.password, "degraded"),
     selfUpdate    |-> Able(w.token, "unavailable"),
     subscriptions |-> Able(s.protocols # {}, "unavailable"),
     warp          |-> Able(w.warp, "degraded"),
     telegram      |-> Able(w.bot, "unavailable"),
     customDomain  |-> IF ~w.token THEN "unavailable" ELSE Able(s.customDomain # NoText, "degraded"),
     analytics     |-> Able(w.kv, "unavailable"),
     history       |-> Able(w.kv, "unavailable"),
     scanner       |-> Able(w.kv, "degraded")]
=============================================================================

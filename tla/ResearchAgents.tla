--------------------------- MODULE ResearchAgents ---------------------------
(***************************************************************************)
(* The three deterministic agents of the research factory (M3B), as        *)
(* functions of what they are given: EvidenceAgentV1 bundles references    *)
(* into items and judges how far they can be trusted, SafetyAuditorAgentV1 *)
(* turns probes into one status, ReportAgentV1 words an economic verdict.  *)
(* Text, identifiers, counts and hashes are left out; what an object says  *)
(* is one of the few things the agents tell apart.                         *)
(***************************************************************************)
EXTENDS Integers, FiniteSets

-----------------------------------------------------------------------------
(* EvidenceAgentV1 *)

Direction == {"SUPPORTING", "CONTRADICTING", "NEUTRAL", "DATA_QUALITY"}
PreOutcome == {"observation", "assessment", "context", "anomaly", "critic", "shadow", "cost"}

\* What a surface can say; a critic may object on data quality besides.
Content == {"healthy", "unhealthy", "unknown", "critical", "objects", "supports", "silent",
            "UPHOLD", "DOWNGRADE", "covered", "uncovered"}

Surface == [given : BOOLEAN, ref : BOOLEAN, fixture : BOOLEAN, leaks : BOOLEAN,
            says : Content, dq : BOOLEAN]
Absent == [given |-> FALSE, ref |-> FALSE, fixture |-> FALSE, leaks |-> FALSE,
           says |-> "silent", dq |-> FALSE]

\* Surfaces, registry entries, whether there are reports, the outcome (available at
\* or before the cutoff, after it, or undated) and whether a cutoff is given.
Subject == [surface : [PreOutcome -> Surface],
            registry : SUBSET [direction : Direction, fixture : BOOLEAN],
            reports : BOOLEAN, outcome : {"none", "early", "late", "undated"}, cutoff : BOOLEAN]

ContextSays(x) ==
    IF x.says = "unhealthy" THEN "DATA_QUALITY"
    ELSE IF x.says = "healthy" THEN "SUPPORTING" ELSE "NEUTRAL"

AnomalySays(x) == IF x.says = "critical" THEN "CONTRADICTING" ELSE "NEUTRAL"

\* An objection hides what supports, not what is said of the data.
CriticSays(x) ==
    {IF x.says = "objects" THEN "CONTRADICTING" ELSE IF x.says = "supports" THEN "SUPPORTING" ELSE "NEUTRAL"}
    \cup IF x.dq THEN {"DATA_QUALITY"} ELSE {}

ShadowSays(x) ==
    IF x.says = "DOWNGRADE" THEN "CONTRADICTING" ELSE IF x.says = "UPHOLD" THEN "SUPPORTING" ELSE "NEUTRAL"

CostSays(x) == IF x.says = "covered" THEN "SUPPORTING" ELSE "DATA_QUALITY"

\* The directions of the items a surface makes; without a reference it makes none,
\* but a cost always has one.
Says(k, x) ==
    IF ~x.given \/ (~x.ref /\ k # "cost") THEN {}
    ELSE CASE k = "context" -> {ContextSays(x)}
           [] k = "anomaly" -> {AnomalySays(x)}
           [] k = "critic" -> CriticSays(x)
           [] k = "shadow" -> {ShadowSays(x)}
           [] k = "cost" -> {CostSays(x)}
           [] OTHER -> {"NEUTRAL"}

\* Mutant: the outcome is evidence.
OutcomeSaysSupports(s) == IF s.outcome = "none" THEN {} ELSE {"SUPPORTING"}

\* Past the gate the outcome is only labelled.
OutcomeSays(s) == IF s.outcome = "none" THEN {} ELSE {"PENDING_OUTCOME"}

\* The directions of all items of the bundle.
Directions(s) ==
    (UNION {Says(k, s.surface[k]) : k \in PreOutcome})
    \cup {e.direction : e \in s.registry}
    \cup (IF s.reports THEN {"NEUTRAL"} ELSE {})
    \cup OutcomeSays(s)

\* EvidenceAgentError: an outcome field in a pre-outcome surface, an outcome without a
\* cutoff, an outcome that was available by the cutoff.
Refused(s) ==
    \/ \E k \in PreOutcome : s.surface[k].given /\ s.surface[k].leaks
    \/ s.outcome # "none" /\ ~s.cutoff
    \/ s.outcome = "early"

AnyFixture(s) ==
    \/ \E k \in {"observation", "assessment", "context"} : s.surface[k].given /\ s.surface[k].fixture
    \/ \E e \in s.registry : e.fixture

AnyReal(s) ==
    \/ \E k \in PreOutcome \ {"cost"} : s.surface[k].given /\ ~s.surface[k].fixture
    \/ \E e \in s.registry : ~e.fixture

OriginLabel(s) ==
    IF AnyFixture(s) THEN IF AnyReal(s) THEN "MIXED" ELSE "FIXTURE"
    ELSE IF AnyReal(s) THEN "REAL" ELSE "UNKNOWN"

\* The first that applies.
TrustStatus(s) ==
    LET d == Directions(s)
        support == "SUPPORTING" \in d
        contra == "CONTRADICTING" \in d
        silent == ~support /\ ~contra IN
    IF d = {} THEN "MISSING_EVIDENCE"
    ELSE IF "DATA_QUALITY" \in d /\ silent THEN "DATA_QUALITY_BLOCKED"
    ELSE IF support /\ contra THEN "CONFLICTED"
    ELSE IF "PENDING_OUTCOME" \in d /\ silent THEN "PENDING_OUTCOME"
    ELSE IF AnyFixture(s) /\ ~AnyReal(s) THEN "FIXTURE_ONLY"
    ELSE IF contra THEN "UNTRUSTED"
    ELSE IF support /\ ~AnyFixture(s) THEN "TRUSTED" ELSE "PARTIAL"

\* What the caller of build_bundle gets.
Bundle(s) == IF Refused(s) THEN "refused" ELSE TrustStatus(s)

-----------------------------------------------------------------------------
(* SafetyAuditorAgentV1 *)

Boundary == {"broker_calls", "tmx_storage_access", "ollama_invoked"}
Temporality == {"oos_rows_read", "future_feature_count", "outcome_leakage_count"}
Automation == {"auto_run", "auto_promotion"}
Foundation == {"manual_approval_required", "milestone_3_complete"}
Economy == {"gross_trusted_separated"}
Runtime == {"execution_enabled", "policy_mutations"}
Freeze == {"policy_frozen", "bundle_frozen"}

Critical == Boundary \cup Temporality \cup Automation \cup Runtime
Probe == Critical \cup Foundation \cup Economy \cup Freeze

\* A probe is absent, or its value counts as false (null, 0, false) or as true.
Scope == [Probe -> {"absent", "false", "true"}]

\* The probes that say something good when true.
GoodWhenTrue == {"manual_approval_required"} \cup Economy \cup Freeze

\* Mutant: a probe that is absent counts as false.
CheckAbsentIsFalse(p, v) ==
    IF (v = "true") = (p \in GoodWhenTrue) THEN "PASS" ELSE IF p \in Critical THEN "FAIL" ELSE "WARN"

Check(p, v) ==
    IF v = "absent" THEN "UNKNOWN"
    ELSE IF (v = "true") = (p \in GoodWhenTrue) THEN "PASS"
    ELSE IF p \in Critical THEN "FAIL" ELSE "WARN"

Checked(scope, status) == {p \in Probe : Check(p, scope[p]) = status}

OverallStatus(scope) ==
    IF Checked(scope, "FAIL") # {} THEN "SAFETY_BLOCKED"
    ELSE IF Checked(scope, "UNKNOWN") # {} THEN "SAFETY_PARTIAL"
    ELSE IF Checked(scope, "WARN") # {} THEN "SAFETY_PASS_WITH_WARNINGS"
    ELSE "SAFETY_PASS"

\* The failure codes of an audit, as the probes they are about.
CriticalFailures(scope) == Checked(scope, "FAIL") \cap Critical

-----------------------------------------------------------------------------
(* ReportAgentV1 *)

NA == -1  \* "N/A"
EconomicVerdict == {"INSUFFICIENT_SAMPLE", "DATA_QUALITY_BLOCKED", "NO_INCREMENTAL_VALUE",
                    "PRELIMINARY_INCREMENTAL_VALUE", "ROBUST_INCREMENTAL_VALUE_NOT_YET_PROVEN"}
Forbidden == {"EDGE_CONFIRMED", "PROFITABLE_SYSTEM", "LIVE_READY"}

\* A report asks for an economic verdict, or none, or makes a claim; counts are given
\* at the top, in sample_counts, or not at all; the incremental value by its sign.
Report == [asks : EconomicVerdict \cup Forbidden \cup {"none"}, claim : Forbidden \cup {"none"},
           blocked : BOOLEAN, trusted : Nat \cup {NA}, sampled : Nat \cup {NA},
           effective : Nat \cup {NA}, gain : {"none", "negative", "positive"}]

\* A count that is missing in both places stays N/A.
TrustedCount(r) == IF r.trusted # NA THEN r.trusted ELSE r.sampled

\* generate refuses a forbidden claim wherever it is made.
ReportRefused(r) == r.asks \in Forbidden \/ r.claim \in Forbidden

\* Mutant: a count that is missing does not matter.
VerdictWithoutCounts(r) ==
    IF r.asks \in EconomicVerdict THEN r.asks
    ELSE IF r.blocked THEN "DATA_QUALITY_BLOCKED"
    ELSE IF r.gain # "positive" THEN "NO_INCREMENTAL_VALUE"
    ELSE IF TrustedCount(r) < 100 THEN "PRELIMINARY_INCREMENTAL_VALUE"
    ELSE "ROBUST_INCREMENTAL_VALUE_NOT_YET_PROVEN"

\* _economic_verdict: what is asked for, if it is a verdict there is.
Verdict(r) ==
    LET n == TrustedCount(r) IN
    IF r.asks \in EconomicVerdict THEN r.asks
    ELSE IF r.blocked THEN "DATA_QUALITY_BLOCKED"
    ELSE IF n = NA \/ n < 30 \/ r.effective = NA THEN "INSUFFICIENT_SAMPLE"
    ELSE IF r.gain # "positive" THEN "NO_INCREMENTAL_VALUE"
    ELSE IF n < 100 THEN "PRELIMINARY_INCREMENTAL_VALUE"
    ELSE "ROBUST_INCREMENTAL_VALUE_NOT_YET_PROVEN"

=============================================================================

---------------------------- MODULE TradingAgents ----------------------------
(***************************************************************************)
(* What the frozen trading policy and the M2 agents decide, as functions   *)
(* of an observation and of the assessment a caller sends with it: the     *)
(* policy's gates in order, the context, the anomaly findings, the critic, *)
(* the shadow adjudicator that runs behind them, and the horizon sidecar.  *)
(* Texts, identifiers, times and the scores nothing depends on are left    *)
(* out; scores that are compared with a threshold are scaled to integers.  *)
(***************************************************************************)
EXTENDS Integers, FiniteSets

Decision == {"TAKE", "SKIP", "UNKNOWN", "DEFER_DATA_QUALITY"}
Level == {"UNKNOWN", "LOW", "NORMAL", "HIGH", "EXTREME"}
Fidelity == {"CERTIFIED", "PARTIAL", "PROXY", "DEPRECATED"}
Quote == {"missing", "future", "stale", "good", "other"}

\* feature: whether a feature was observed, or became available, after the decision cutoff;
\* identity: the economic setup's id and its nominal risk; bucket and price: the spread as a
\* label and as a price; label: the labels given for the other dimensions of the context;
\* oosReplay: a row of the test or forward set in a retrospective run; seen, replayed: an
\* earlier row of the same agent object had this id, or in a retrospective run this setup.
Observation ==
    [schema : BOOLEAN, leaks : BOOLEAN, feature : {"on_time", "observed_late", "available_late"},
     identity : {"ok", "no_id", "not_1R"}, quote : Quote, costed : BOOLEAN, fidelity : Fidelity,
     raw : Decision, native : Decision, bucket : Level \cup {"none"}, price : Level,
     label : SUBSET {"session", "volatility", "trend", "liquidity"}, directed : BOOLEAN,
     timed : BOOLEAN, geometry : {"none", "valid", "invalid", "unparsable"},
     oosReplay : BOOLEAN, seen : BOOLEAN, replayed : BOOLEAN, sourced : BOOLEAN]

\* What a caller says the policy decided; thin: a reason says the evidence is insufficient;
\* rank: whether the rank score reaches the threshold of a TAKE.
Assessment == [decision : Decision, thin : BOOLEAN, rank : BOOLEAN]

-----------------------------------------------------------------------------
(* Gates over an observation *)

\* Mutant: only the time of observation is compared with the cutoff.
LateFeatureObservedOnly(o) == o.feature = "observed_late"

\* pit_feature_violations
LateFeature(o) == o.feature # "on_time"

NoQuote(o) == o.quote \in {"missing", "future"}

-----------------------------------------------------------------------------
(* The policy *)

EvidenceStrength == 25  \* no trusted base rate yet: the same for every observation

RankScore(o) ==
    35 + (IF o.raw = "TAKE" THEN 15 ELSE 0)
       + (IF o.native = "TAKE" THEN 10 ELSE IF o.native = "SKIP" THEN -10 ELSE 0)
       + (IF o.quote = "good" THEN 10 ELSE 0)
       - (IF o.quote = "stale" THEN 8 ELSE 0)
       - (IF o.costed THEN 0 ELSE 5)

\* The gate that stops an observation, the first that applies.
Gate(o) ==
    IF ~o.schema THEN "schema"
    ELSE IF o.leaks THEN "leak"
    ELSE IF o.feature = "available_late" THEN "future"
    ELSE IF o.identity # "ok" THEN "identity"
    ELSE IF NoQuote(o) THEN "quote"
    ELSE IF o.fidelity = "DEPRECATED" THEN "fidelity" ELSE "none"

Policy(o) ==
    LET d == IF Gate(o) = "fidelity" THEN "SKIP"
             ELSE IF Gate(o) # "none" THEN "DEFER_DATA_QUALITY"
             ELSE IF EvidenceStrength < 40 THEN "UNKNOWN"
             ELSE IF RankScore(o) >= 55 /\ o.fidelity \in {"CERTIFIED", "PARTIAL"} THEN "TAKE"
             ELSE IF RankScore(o) <= 45 THEN "SKIP" ELSE "UNKNOWN" IN
    [decision |-> d, thin |-> Gate(o) = "none",
     rank |-> Gate(o) = "none" /\ RankScore(o) >= 55]

-----------------------------------------------------------------------------
(* ContextAgentV1 *)

SpreadState(o) == IF o.bucket # "none" THEN o.bucket ELSE o.price

\* How many of session, volatility, trend, liquidity and spread are known: a label, or what
\* stands in for it.
Known(o) ==
    Cardinality({d \in {"session", "volatility", "trend", "liquidity", "spread"} :
        \/ d \in o.label
        \/ d = "session" /\ o.timed
        \/ d = "volatility" /\ o.price # "UNKNOWN"
        \/ d = "trend" /\ o.directed
        \/ d \in {"liquidity", "spread"} /\ SpreadState(o) # "UNKNOWN"})

\* context_confidence is known / 5, compared with 0.25.
Context(o) ==
    [spread |-> SpreadState(o), degraded |-> o.quote \in {"missing", "future", "stale"},
     unclear |-> 100 * Known(o) < 25 * 5]

-----------------------------------------------------------------------------
(* AnomalyAgentV1 *)

Finding(type, severity, implies) == [type |-> type, severity |-> severity, implies |-> implies]

QuoteFindings(o) ==
    CASE o.quote = "future" -> {Finding("QUOTE", "CRITICAL", "DEFER_DATA_QUALITY")}
      [] o.quote = "stale" -> {Finding("QUOTE", "MEDIUM", "none")}
      [] o.quote = "missing" -> {Finding("QUOTE", "HIGH", "DEFER_DATA_QUALITY")}
      [] OTHER -> {}

SpreadFindings(o) ==
    CASE o.price = "EXTREME" -> {Finding("SPREAD_SPIKE", "HIGH", "none")}
      [] o.price = "HIGH" -> {Finding("SPREAD_SPIKE", "MEDIUM", "none")}
      [] OTHER -> {}

GeometryFindings(o) ==
    CASE o.geometry = "invalid" -> {Finding("STOP_TARGET", "HIGH", "none")}
      [] o.geometry = "unparsable" -> {Finding("GEOMETRY_OUTLIER", "MEDIUM", "none")}
      [] OTHER -> {}

\* NO_ANOMALY is the empty set: it is INFO and nobody acts on it.
Findings(o) ==
    (IF o.oosReplay THEN {Finding("REPLAY_ORIGIN_VIOLATION", "CRITICAL", "REJECT_ROW")} ELSE {})
    \cup (IF o.seen THEN {Finding("DUPLICATE_OBSERVATION", "HIGH", "DEFER")} ELSE {})
    \cup (IF o.replayed THEN {Finding("ECONOMIC_IDENTITY_CONFLICT", "MEDIUM", "none")} ELSE {})
    \cup (IF LateFeature(o) THEN {Finding("FEATURE_DRIFT", "CRITICAL", "DEFER_DATA_QUALITY")} ELSE {})
    \cup (IF o.leaks THEN {Finding("SCHEMA_DRIFT", "CRITICAL", "DEFER_DATA_QUALITY")} ELSE {})
    \cup QuoteFindings(o)
    \cup (IF ~o.costed THEN {Finding("COST_COVERAGE", "INFO", "none")} ELSE {})
    \cup SpreadFindings(o) \cup GeometryFindings(o)
    \cup (IF o.raw = "TAKE" /\ o.native = "SKIP" THEN {Finding("LANE_CONFLICT", "LOW", "none")} ELSE {})
    \cup (IF ~o.sourced THEN {Finding("MISSING_PROVENANCE", "LOW", "none")} ELSE {})

IsCritical(f) == f.severity = "CRITICAL"

-----------------------------------------------------------------------------
(* CriticAgentV1 *)

Review == {"DEFER_DATA_QUALITY", "CHALLENGE", "SUPPORT", "INCONCLUSIVE"}

\* An unclear context and a low confidence are noted and change no status.
Critic(o, a, c, F) ==
    LET critical == {f \in F : IsCritical(f)}
        badData == o.leaks \/ LateFeature(o) \/ c.degraded
        wideTake == c.spread \in {"HIGH", "EXTREME"} /\ a.decision = "TAKE"
        unfit == o.fidelity = "DEPRECATED" \/ (o.fidelity = "PROXY" /\ a.decision = "TAKE") IN
    IF badData \/ \E f \in critical : f.implies = "DEFER_DATA_QUALITY" THEN "DEFER_DATA_QUALITY"
    ELSE IF wideTake \/ critical # {} \/ unfit THEN "CHALLENGE"
    ELSE IF a.thin THEN "SUPPORT" ELSE "INCONCLUSIVE"

-----------------------------------------------------------------------------
(* M2ShadowAdjudicatorV1 *)

HardGate(F, review) ==
    \/ review = "DEFER_DATA_QUALITY"
    \/ \E f \in F : \/ f.implies \in {"DEFER_DATA_QUALITY", "REJECT_ROW"}
                    \/ IsCritical(f) /\ f.implies = "DEFER"
                    \/ f.type = "REPLAY_ORIGIN_VIOLATION"

\* Mutant: an inconclusive review ranks every decision, not only a TAKE.
ShadowRanksAll(a, c, F, review) ==
    IF HardGate(F, review) THEN "DEFER_DATA_QUALITY"
    ELSE CASE review = "CHALLENGE" /\ a.decision = "TAKE" -> "SKIP"
           [] review = "INCONCLUSIVE" /\ (c.unclear \/ ~a.rank) -> "UNKNOWN"
           [] review = "INCONCLUSIVE" /\ a.rank -> "TAKE"
           [] OTHER -> a.decision

\* shadow_recommendation, for whatever review and findings a caller passes.
Shadow(a, c, F, review) ==
    IF HardGate(F, review) THEN "DEFER_DATA_QUALITY"
    ELSE CASE review = "CHALLENGE" /\ a.decision = "TAKE" -> "SKIP"
           [] review = "INCONCLUSIVE" /\ a.decision = "TAKE" /\ (c.unclear \/ ~a.rank) -> "UNKNOWN"
           [] OTHER -> a.decision

\* M2AgentOrchestratorV1.run
Run(o, a) == Shadow(a, Context(o), Findings(o), Critic(o, a, Context(o), Findings(o)))

-----------------------------------------------------------------------------
(* HorizonNoiseAgentV1: stop in tenths of a pip, ratios in hundredths, NA when absent. *)

Missing == -1

\* "x or y": zero counts as absent.
Or(x, y) == IF x \in {Missing, 0} THEN y ELSE x

\* ULTRA_SHORT, which only an extreme noise comes with, is SHORT.
Horizon(stop, atr) ==
    IF stop = Missing /\ atr = Missing THEN "UNKNOWN"
    ELSE IF stop # Missing /\ stop < 40 THEN "SHORT" ELSE "INTRADAY"

\* Mutant: a spread that is not known counts as wide.
NoiseAbsentIsWide(stop, spread, atr) ==
    IF stop # Missing /\ stop < 20 /\ Or(spread, 99) >= 15 THEN 3
    ELSE IF Horizon(stop, atr) = "SHORT"
         THEN IF Or(spread, 99) >= 10 \/ Or(atr, 9900) < 75 THEN 2 ELSE 1
    ELSE IF Horizon(stop, atr) = "INTRADAY" /\ Or(atr, 100) < 100 THEN 2 ELSE 1

\* noise_exposure as a number: MODERATE (or not known) is 1, HIGH 2, EXTREME 3.
Noise(stop, spread, atr) ==
    IF stop # Missing /\ stop < 20 /\ Or(spread, 0) >= 15 THEN 3
    ELSE IF Horizon(stop, atr) = "SHORT"
         THEN IF Or(spread, 0) >= 10 \/ Or(atr, 9900) < 75 THEN 2 ELSE 1
    ELSE IF Horizon(stop, atr) = "INTRADAY" /\ Or(atr, 100) < 100 THEN 2 ELSE 1

=============================================================================

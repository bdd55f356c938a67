--------------------------- MODULE DecisionsProofs ---------------------------
(***************************************************************************)
(* Proofs about Decisions for every set of inputs.  An answer depends on   *)
(* its request alone, so that each property is proved of the function that *)
(* answers, and then of every step: of the requests that speak of it from  *)
(* the function, of the others because their route is another.             *)
(*                                                                         *)
(* And about Wellbeing, where the operators of LifeSelection are applied   *)
(* to rows that keep being added: for every catalogue of observations, any *)
(* page size and any number of processes, requests and restarts.           *)
(***************************************************************************)
EXTENDS Decisions, Wellbeing, FiniteSetTheorems, TLAPS

\* The adjudicator keeps the decision, defers, or refuses a TAKE, for any arguments.
LEMMA ShadowLowers ==
  ASSUME NEW a, NEW c, NEW F, NEW review
  PROVE  \/ T!Shadow(a, c, F, review) = a.decision
         \/ T!Shadow(a, c, F, review) = "DEFER_DATA_QUALITY"
         \/ a.decision = "TAKE" /\ T!Shadow(a, c, F, review) \in {"SKIP", "UNKNOWN"}
<1>1. CASE T!HardGate(F, review)
  BY <1>1 DEF T!Shadow
<1>2. CASE ~T!HardGate(F, review) /\ review = "CHALLENGE"
  BY <1>2 DEF T!Shadow
<1>3. CASE ~T!HardGate(F, review) /\ review # "CHALLENGE"
  BY <1>3 DEF T!Shadow
<1> QED
  BY <1>1, <1>2, <1>3

\* Of a bundle it is the same, since the agents only make its arguments.
LEMMA RunLowers ==
  ASSUME NEW o, NEW a
  PROVE  \/ T!Run(o, a) = a.decision
         \/ T!Run(o, a) = "DEFER_DATA_QUALITY"
         \/ a.decision = "TAKE" /\ T!Run(o, a) \in {"SKIP", "UNKNOWN"}
  BY ShadowLowers DEF T!Run

\* What a step does to the request: it is one of eleven, with its answer, or none.
LEMMA StepAnswers ==
  ASSUME Next
  PROVE  \/ asked'.route \in {"none", "context", "findings", "review"}
         \/ \E a \in Assessments : \E c, F, review :
               asked' = [route |-> "shadow", assessment |-> a] /\ answer' = T!Shadow(a, c, F, review)
         \/ \E o \in Observations : \E a :
               /\ asked' = [route |-> "bundle", observation |-> o, assessment |-> a]
               /\ answer' = T!Run(o, a) /\ a \in Assessments \cup {T!Policy(o)}
         \/ \E x \in Samples :
               /\ asked' = [route |-> "confidence", sample |-> x]
               /\ answer' = L!Confidence(x.days, x.domains, x.width, x.report, x.extreme)
         \/ \E r \in Ratios :
               asked' = [route |-> "horizon", ratios |-> r] /\ answer' = T!Noise(r.stop, r.spread, r.atr)
         \/ \E s \in Subjects :
               asked' = [route |-> "evidence", subject |-> s] /\ answer' = R!Bundle(s)
         \/ \E s \in Scopes :
               asked' = [route |-> "audit", scope |-> s] /\ answer' = R!OverallStatus(s)
         \/ \E r \in Reports :
               asked' = [route |-> "report", report |-> r] /\ answer' = R!Verdict(r)
         \/ \E r \in Rows :
               asked' = [route |-> "select", row |-> r] /\ answer' = L!Classify(r, {"invalidated"})
         \/ \E b \in Beliefs :
               /\ asked' = [route |-> "belief", belief |-> b]
               /\ answer' = L!Prospective(b.n, b.m, b.positive, b.meaningful, b.low, b.target,
                                          b.expired, b.critical)
<1>1. CASE StepRequest
  BY <1>1 DEF StepRequest, CreateContext, CreateFindings, CreateReview, CreateShadow, Answered
<1>2. CASE TradingRequest
  BY <1>2 DEF TradingRequest, RunBundle, CreateHorizonNoise, Alone, Answered
<1>3. CASE ResearchRequest
  BY <1>3 DEF ResearchRequest, CreateEvidenceBundle, CreateSafetyAudit, CreateReport, Alone, Answered
<1>4. CASE LifeRequest
  BY <1>4 DEF LifeRequest, SelectRow, Rate, Believe, Alone, Answered
<1>5. CASE Take
  BY <1>5 DEF Take, Idle
<1> QED
  BY <1>1, <1>2, <1>3, <1>4, <1>5 DEF Next

\* The shadow adjudicator never raises a decision, for every observation, assessment and
\* history of the caller (M2ShadowAdjudicatorV1, run_bundle).
THEOREM ShadowNeverRaises == Spec => []ShadowOnlyLowers
<1>1. Init => ShadowOnlyLowers
  BY DEF Init, Idle, ShadowOnlyLowers
<1>2. ShadowOnlyLowers /\ [Next]_vars => ShadowOnlyLowers'
  <2> SUFFICES ASSUME ShadowOnlyLowers, [Next]_vars PROVE ShadowOnlyLowers'
    OBVIOUS
  <2>1. CASE UNCHANGED vars
    BY <2>1 DEF vars, ShadowOnlyLowers
  <2>2. CASE Next
    BY <2>2, StepAnswers, ShadowLowers, RunLowers DEF ShadowOnlyLowers
  <2> QED
    BY <2>1, <2>2
<1> QED
  BY <1>1, <1>2, PTL DEF Spec

-----------------------------------------------------------------------------
\* What one of the ten rules lets in is what the selection policy lists.
LEMMA IncludedIsListed ==
  ASSUME NEW r, L!Classify(r, {"invalidated"}) = "INCLUDED"
  PROVE  /\ r.id # "invalidated" /\ ~r.listed /\ r.source # "checkin_smoke"
         /\ r.purpose \notin L!NonProductive /\ r.environment # "TEST" /\ r.scope # "TEST_PROFILE"
         /\ \/ r.subject = "workout" \/ r.event = "workout"
            \/ r.purpose = "USER_OBSERVATION" /\ r.scope \in {"none", "PERSONAL"}
            \/ r.purpose = "none" /\ r.environment # "DEVELOPMENT" /\ r.source \in L!CheckInSource
  BY DEF L!Classify, L!Personal, L!LegacyCheckIn, L!None

\* Whatever feeds a person's scores is on the list of the selection policy: for every row,
\* none of the ten rules lets in what an earlier one was to keep out (input_selection).
THEOREM TestsStayOut == Spec => []TestNeverIncluded
<1>1. Init => TestNeverIncluded
  BY DEF Init, Idle, TestNeverIncluded
<1>2. TestNeverIncluded /\ [Next]_vars => TestNeverIncluded'
  <2> SUFFICES ASSUME TestNeverIncluded, [Next]_vars PROVE TestNeverIncluded'
    OBVIOUS
  <2>1. CASE UNCHANGED vars
    BY <2>1 DEF vars, TestNeverIncluded
  <2>2. CASE Next
    BY <2>2, StepAnswers, IncludedIsListed DEF TestNeverIncluded
  <2> QED
    BY <2>1, <2>2
<1> QED
  BY <1>1, <1>2, PTL DEF Spec

\* A validation is open until its target and both groups are reached or its window is over.
LEMMA VerdictNeedsGroups ==
  ASSUME NEW b, b.n \in Nat, b.m \in Nat, b.target \in Nat
  PROVE  LET a == L!Prospective(b.n, b.m, b.positive, b.meaningful, b.low, b.target,
                                b.expired, b.critical)
             reached == b.n + b.m >= b.target /\ b.n >= 7 /\ b.m >= 7 /\ ~b.critical IN
         /\ a \in {"PROSPECTIVE_SUPPORTED", "PROSPECTIVE_WEAKENED", "PROSPECTIVE_INCONCLUSIVE"} <=> reached
         /\ a = "EXPIRED_INCONCLUSIVE" <=> ~reached /\ b.expired
<1> DEFINE reached == b.n + b.m >= b.target /\ b.n >= 7 /\ b.m >= 7 /\ ~b.critical
<1>1. CASE reached
  BY <1>1 DEF L!Prospective
<1>2. CASE ~reached
  BY <1>2 DEF L!Prospective
<1> QED
  BY <1>1, <1>2

\* A validation ends with its target or with its window, for any number of observations,
\* any effect and any target (classify_belief_state).
THEOREM ValidationsRunFull == Spec => []NoEarlyStop
<1>1. Init => NoEarlyStop
  BY DEF Init, Idle, NoEarlyStop
<1>2. NoEarlyStop /\ [Next]_vars => NoEarlyStop'
  <2> SUFFICES ASSUME NoEarlyStop, [Next]_vars PROVE NoEarlyStop'
    OBVIOUS
  <2>1. CASE UNCHANGED vars
    BY <2>1 DEF vars, NoEarlyStop
  <2>2. CASE Next /\ asked'.route = "belief"
    <3>1. PICK b \in Beliefs :
             /\ asked' = [route |-> "belief", belief |-> b]
             /\ answer' = L!Prospective(b.n, b.m, b.positive, b.meaningful, b.low, b.target,
                                        b.expired, b.critical)
      BY <2>2, StepAnswers
    <3>2. b.n \in Nat /\ b.m \in Nat /\ b.target \in Nat
      BY DecisionsAssumption
    <3> QED
      BY <3>1, <3>2, VerdictNeedsGroups DEF NoEarlyStop
  <2>3. CASE Next /\ asked'.route # "belief"
    BY <2>3 DEF NoEarlyStop
  <2> QED
    BY <2>1, <2>2, <2>3
<1> QED
  BY <1>1, <1>2, PTL DEF Spec

-----------------------------------------------------------------------------
\* No quote, spread or stop alone makes a bundle defer, but a quote that is missing or of
\* the future.
LEMMA MarketFindings ==
  ASSUME NEW o,
         NEW f \in T!QuoteFindings(o) \cup T!SpreadFindings(o) \cup T!GeometryFindings(o)
  PROVE  /\ f.type # "REPLAY_ORIGIN_VIOLATION"
         /\ f.implies \in {"none", "DEFER_DATA_QUALITY"}
         /\ f.implies = "DEFER_DATA_QUALITY" => T!NoQuote(o)
<1>1. CASE f \in T!QuoteFindings(o)
  BY <1>1 DEF T!QuoteFindings, T!Finding, T!NoQuote
<1>2. CASE f \in T!SpreadFindings(o)
  BY <1>2 DEF T!SpreadFindings, T!Finding
<1>3. CASE f \in T!GeometryFindings(o)
  BY <1>3 DEF T!GeometryFindings, T!Finding
<1> QED
  BY <1>1, <1>2, <1>3

\* A finding on which the adjudicator defers comes from what cannot be used.
LEMMA FindingsOfUnusable ==
  ASSUME NEW o, NEW f \in T!Findings(o),
         \/ f.implies \in {"DEFER_DATA_QUALITY", "REJECT_ROW"}
         \/ T!IsCritical(f) /\ f.implies = "DEFER"
         \/ f.type = "REPLAY_ORIGIN_VIOLATION"
  PROVE  Unusable(o)
<1>1. CASE f \in T!QuoteFindings(o) \cup T!SpreadFindings(o) \cup T!GeometryFindings(o)
  BY <1>1, MarketFindings DEF Unusable, T!NoQuote
<1>2. CASE f \notin T!QuoteFindings(o) \cup T!SpreadFindings(o) \cup T!GeometryFindings(o)
  <2>1. \/ o.oosReplay /\ f = T!Finding("REPLAY_ORIGIN_VIOLATION", "CRITICAL", "REJECT_ROW")
        \/ f = T!Finding("DUPLICATE_OBSERVATION", "HIGH", "DEFER")
        \/ f = T!Finding("ECONOMIC_IDENTITY_CONFLICT", "MEDIUM", "none")
        \/ T!LateFeature(o) /\ f = T!Finding("FEATURE_DRIFT", "CRITICAL", "DEFER_DATA_QUALITY")
        \/ o.leaks /\ f = T!Finding("SCHEMA_DRIFT", "CRITICAL", "DEFER_DATA_QUALITY")
        \/ f = T!Finding("COST_COVERAGE", "INFO", "none")
        \/ f = T!Finding("LANE_CONFLICT", "LOW", "none")
        \/ f = T!Finding("MISSING_PROVENANCE", "LOW", "none")
    BY <1>2 DEF T!Findings
  <2>2. \A t, v, i : LET x == T!Finding(t, v, i) IN x.type = t /\ x.severity = v /\ x.implies = i
    BY DEF T!Finding
  <2> QED
    BY <2>1, <2>2 DEF T!IsCritical, T!LateFeature, Unusable
<1> QED
  BY <1>1, <1>2

\* The critic or a finding stops every row that cannot be used, and no other.
LEMMA GateIsUnusable ==
  ASSUME NEW o, NEW a
  PROVE  T!HardGate(T!Findings(o), T!Critic(o, a, T!Context(o), T!Findings(o))) <=> Unusable(o)
<1> DEFINE F == T!Findings(o)
           review == T!Critic(o, a, T!Context(o), F)
<1>1. T!Context(o).degraded <=> o.quote \in {"missing", "future", "stale"}
  BY DEF T!Context
<1>2. o.oosReplay => \E f \in F : f.implies = "REJECT_ROW"
  <2> DEFINE f == T!Finding("REPLAY_ORIGIN_VIOLATION", "CRITICAL", "REJECT_ROW")
  <2>1. f.implies = "REJECT_ROW"
    BY DEF T!Finding
  <2>2. o.oosReplay => f \in F
    BY DEF T!Findings
  <2> HIDE DEF f, F
  <2> QED
    BY <2>1, <2>2
<1>3. review = "DEFER_DATA_QUALITY" <=>
        \/ o.leaks \/ T!LateFeature(o) \/ T!Context(o).degraded
        \/ \E f \in F : T!IsCritical(f) /\ f.implies = "DEFER_DATA_QUALITY"
  BY DEF T!Critic
<1>4. Unusable(o) => T!HardGate(F, review)
  BY <1>1, <1>2, <1>3 DEF Unusable, T!HardGate, T!LateFeature
<1>5. T!HardGate(F, review) => Unusable(o)
  BY <1>1, <1>3, FindingsOfUnusable DEF Unusable, T!HardGate, T!LateFeature
<1> HIDE DEF F, review
<1> QED
  BY <1>4, <1>5 DEF F, review

\* A bundle defers what cannot be used, what was deferred before, and nothing else.
LEMMA RunDefers ==
  ASSUME NEW o, NEW a
  PROVE  T!Run(o, a) = "DEFER_DATA_QUALITY" <=>
           Unusable(o) \/ a.decision = "DEFER_DATA_QUALITY"
<1> DEFINE F == T!Findings(o)
           c == T!Context(o)
           review == T!Critic(o, a, c, F)
<1>1. T!HardGate(F, review) <=> Unusable(o)
  BY GateIsUnusable
<1>2. T!HardGate(F, review) => T!Shadow(a, c, F, review) = "DEFER_DATA_QUALITY"
  BY DEF T!Shadow
<1>3. ~T!HardGate(F, review) =>
        (T!Shadow(a, c, F, review) = "DEFER_DATA_QUALITY" <=> a.decision = "DEFER_DATA_QUALITY")
  <2> HIDE DEF F, c, review
  <2>1. CASE review = "CHALLENGE"
    BY <2>1 DEF T!Shadow
  <2>2. CASE review # "CHALLENGE"
    BY <2>2 DEF T!Shadow
  <2> QED
    BY <2>1, <2>2
<1> HIDE DEF F, c, review
<1> QED
  BY <1>1, <1>2, <1>3 DEF T!Run, F, c, review

\* The agents of a bundle together defer exactly what cannot be used or was deferred before,
\* for every observation and assessment (M2AgentOrchestratorV1.run).
THEOREM UnusableIsDeferred == Spec => []BadDataIsDeferred
<1>1. Init => BadDataIsDeferred
  BY DEF Init, Idle, BadDataIsDeferred
<1>2. BadDataIsDeferred /\ [Next]_vars => BadDataIsDeferred'
  <2> SUFFICES ASSUME BadDataIsDeferred, [Next]_vars PROVE BadDataIsDeferred'
    OBVIOUS
  <2>1. CASE UNCHANGED vars
    BY <2>1 DEF vars, BadDataIsDeferred, Unusable
  <2>2. CASE Next /\ asked'.route = "bundle"
    <3>1. PICK o \in Observations : \E a :
             /\ asked' = [route |-> "bundle", observation |-> o, assessment |-> a]
             /\ answer' = T!Run(o, a)
      BY <2>2, StepAnswers
    <3>2. PICK a :
             /\ asked' = [route |-> "bundle", observation |-> o, assessment |-> a]
             /\ answer' = T!Run(o, a)
      BY <3>1
    <3>3. asked'.observation = o /\ asked'.assessment = a
      BY <3>2
    <3> QED
      BY <3>2, <3>3, RunDefers DEF BadDataIsDeferred, Unusable
  <2>3. CASE Next /\ asked'.route # "bundle"
    BY <2>3 DEF BadDataIsDeferred
  <2> QED
    BY <2>1, <2>2, <2>3
<1> QED
  BY <1>1, <1>2, PTL DEF Spec

-----------------------------------------------------------------------------
\* The outcome adds one direction, and no support, contradiction or word about the data.
LEMMA OutcomeAddsLabel ==
  ASSUME NEW s \in R!Subject, NEW t, t = [s EXCEPT !.outcome = "none"]
  PROVE  /\ R!Directions(s) = R!Directions(t) \cup R!OutcomeSays(s)
         /\ R!AnyFixture(s) <=> R!AnyFixture(t)
         /\ R!AnyReal(s) <=> R!AnyReal(t)
         /\ R!Refused(t) => R!Refused(s)
<1>1. t.surface = s.surface /\ t.registry = s.registry /\ t.reports = s.reports /\ t.outcome = "none"
  BY DEF R!Subject
<1>2. R!OutcomeSays(t) = {}
  BY <1>1 DEF R!OutcomeSays
<1>3. R!Directions(s) = R!Directions(t) \cup R!OutcomeSays(s)
  <2> DEFINE pre(u) == UNION {R!Says(k, u.surface[k]) : k \in R!PreOutcome}
             reg(u) == {e.direction : e \in u.registry}
             rep(u) == IF u.reports THEN {"NEUTRAL"} ELSE {}
  <2>1. pre(s) = pre(t) /\ reg(s) = reg(t) /\ rep(s) = rep(t)
    BY <1>1
  <2>2. /\ R!Directions(s) = pre(s) \cup reg(s) \cup rep(s) \cup R!OutcomeSays(s)
        /\ R!Directions(t) = pre(t) \cup reg(t) \cup rep(t) \cup R!OutcomeSays(t)
    BY DEF R!Directions
  <2> HIDE DEF pre, reg, rep
  <2> QED
    BY <1>2, <2>1, <2>2
<1>4. (R!AnyFixture(s) <=> R!AnyFixture(t)) /\ (R!AnyReal(s) <=> R!AnyReal(t))
  BY <1>1 DEF R!AnyFixture, R!AnyReal
<1>5. R!Refused(t) => R!Refused(s)
  BY <1>1 DEF R!Refused
<1> QED
  BY <1>3, <1>4, <1>5

\* Whatever else a bundle holds, its trust is the same without the outcome, or it waits
\* for the outcome where nothing else spoke.
LEMMA TrustIgnoresOutcome ==
  ASSUME NEW s \in R!Subject, NEW t, t = [s EXCEPT !.outcome = "none"]
  PROVE  \/ R!TrustStatus(s) = R!TrustStatus(t)
         \/ /\ R!TrustStatus(s) = "PENDING_OUTCOME"
            /\ R!TrustStatus(t) \in {"MISSING_EVIDENCE", "FIXTURE_ONLY", "PARTIAL"}
<1> DEFINE d == R!Directions(t)
           both(k) == k \in R!Directions(s) <=> k \in d
<1>1. R!OutcomeSays(s) \subseteq {"PENDING_OUTCOME"}
  BY DEF R!OutcomeSays
<1>2. d \subseteq R!Directions(s) /\ R!Directions(s) \subseteq d \cup {"PENDING_OUTCOME"}
  BY <1>1, OutcomeAddsLabel
<1>3. both("SUPPORTING") /\ both("CONTRADICTING") /\ both("DATA_QUALITY")
  BY <1>2
<1>4. (R!AnyFixture(s) <=> R!AnyFixture(t)) /\ (R!AnyReal(s) <=> R!AnyReal(t))
  BY OutcomeAddsLabel
<1>5. CASE both("PENDING_OUTCOME")
  <2>1. R!Directions(s) = d
    BY <1>2, <1>5
  <2> QED
    BY <2>1, <1>4 DEF R!TrustStatus
<1>6. CASE ~both("PENDING_OUTCOME")
  <2>1. "PENDING_OUTCOME" \in R!Directions(s) /\ "PENDING_OUTCOME" \notin d
    BY <1>2, <1>6
  <2>2. CASE "SUPPORTING" \in d \/ "CONTRADICTING" \in d
    BY <2>1, <2>2, <1>3, <1>4 DEF R!TrustStatus
  <2>3. CASE "SUPPORTING" \notin d /\ "CONTRADICTING" \notin d
    BY <2>1, <2>3, <1>3, <1>4 DEF R!TrustStatus
  <2> QED
    BY <2>2, <2>3
<1> QED
  BY <1>5, <1>6

\* What the outcome was is a label, for every bundle (EvidenceAgentV1.build_bundle).
THEOREM OutcomeOnlyLabels == Spec => []OutcomeIsLabel
<1>1. Init => OutcomeIsLabel
  BY DEF Init, Idle, OutcomeIsLabel
<1>2. OutcomeIsLabel /\ [Next]_vars => OutcomeIsLabel'
  <2> SUFFICES ASSUME OutcomeIsLabel, [Next]_vars PROVE OutcomeIsLabel'
    OBVIOUS
  <2>1. CASE UNCHANGED vars
    BY <2>1 DEF vars, OutcomeIsLabel
  <2>2. CASE Next /\ asked'.route = "evidence"
    <3>1. PICK s \in Subjects :
             asked' = [route |-> "evidence", subject |-> s] /\ answer' = R!Bundle(s)
      BY <2>2, StepAnswers
    <3>2. s \in R!Subject /\ asked'.subject = s
      BY <3>1, DecisionsAssumption
    <3> DEFINE t == [s EXCEPT !.outcome = "none"]
    <3>3. R!Refused(s) => answer' = "refused"
      BY <3>1 DEF R!Bundle
    <3>4. ~R!Refused(s) => answer' = R!TrustStatus(s) /\ R!Bundle(t) = R!TrustStatus(t)
      BY <3>1, <3>2, OutcomeAddsLabel DEF R!Bundle
    <3>5. \/ R!TrustStatus(s) = R!TrustStatus(t)
          \/ /\ R!TrustStatus(s) = "PENDING_OUTCOME"
             /\ R!TrustStatus(t) \in {"MISSING_EVIDENCE", "FIXTURE_ONLY", "PARTIAL"}
      BY <3>2, TrustIgnoresOutcome
    <3> QED
      BY <3>2, <3>3, <3>4, <3>5 DEF OutcomeIsLabel
  <2>3. CASE Next /\ asked'.route # "evidence"
    BY <2>3 DEF OutcomeIsLabel
  <2> QED
    BY <2>1, <2>2, <2>3
<1> QED
  BY <1>1, <1>2, PTL DEF Spec

-----------------------------------------------------------------------------
\* An absent probe is UNKNOWN, and an audit with an unknown check does not pass.
LEMMA AbsentProbe ==
  ASSUME NEW scope, NEW p \in R!Probe, scope[p] = "absent"
  PROVE  R!OverallStatus(scope) \in {"SAFETY_PARTIAL", "SAFETY_BLOCKED"}
<1>1. p \in R!Checked(scope, "UNKNOWN")
  BY DEF R!Checked, R!Check
<1> QED
  BY <1>1 DEF R!OverallStatus

\* A verdict that nobody asked for and that is not a refusal has its counts.
LEMMA VerdictHasCounts ==
  ASSUME NEW r \in R!Report,
         R!Verdict(r) \notin {"INSUFFICIENT_SAMPLE", "DATA_QUALITY_BLOCKED", r.asks}
  PROVE  R!TrustedCount(r) >= 30 /\ r.effective # R!NA
<1>1. R!TrustedCount(r) \in Int
  BY DEF R!Report, R!TrustedCount, R!NA
<1> QED
  BY <1>1 DEF R!Verdict

\* No spread exposes a horizon less than one that is not known.
LEMMA UnknownSpread ==
  ASSUME NEW stop \in Int, NEW atr \in Int, NEW spread \in 0..40
  PROVE  T!Noise(stop, T!Missing, atr) <= T!Noise(stop, spread, atr)
<1>1. T!Or(T!Missing, 0) = 0 /\ T!Or(spread, 0) = spread
  BY DEF T!Or, T!Missing
<1>2. T!Horizon(stop, atr) \in {"UNKNOWN", "SHORT", "INTRADAY"}
  BY DEF T!Horizon
<1> QED
  BY <1>1, <1>2 DEF T!Noise

\* What is not known never counts for something, for every scope, report and set of ratios
\* (SafetyAuditorAgentV1, _economic_verdict, HorizonNoiseAgentV1).
THEOREM AbsenceNeverCounts == Spec => []AbsenceProvesNothing
<1>1. Init => AbsenceProvesNothing
  BY DEF Init, Idle, AbsenceProvesNothing
<1>2. AbsenceProvesNothing /\ [Next]_vars => AbsenceProvesNothing'
  <2> SUFFICES ASSUME AbsenceProvesNothing, [Next]_vars PROVE AbsenceProvesNothing'
    OBVIOUS
  <2>1. CASE UNCHANGED vars
    BY <2>1 DEF vars, AbsenceProvesNothing
  <2>2. CASE Next /\ asked'.route = "audit"
    <3>1. PICK s \in Scopes :
             asked' = [route |-> "audit", scope |-> s] /\ answer' = R!OverallStatus(s)
      BY <2>2, StepAnswers
    <3> QED
      BY <3>1, AbsentProbe DEF AbsenceProvesNothing
  <2>3. CASE Next /\ asked'.route = "report"
    <3>1. PICK r \in Reports :
             asked' = [route |-> "report", report |-> r] /\ answer' = R!Verdict(r)
      BY <2>3, StepAnswers
    <3>2. r \in R!Report
      BY DecisionsAssumption
    <3> QED
      BY <3>1, <3>2, VerdictHasCounts DEF AbsenceProvesNothing
  <2>4. CASE Next /\ asked'.route = "horizon"
    <3>1. PICK r \in Ratios :
             asked' = [route |-> "horizon", ratios |-> r] /\ answer' = T!Noise(r.stop, r.spread, r.atr)
      BY <2>4, StepAnswers
    <3>2. r.stop \in Int /\ r.atr \in Int
      BY DecisionsAssumption
    <3> QED
      BY <3>1, <3>2, UnknownSpread DEF AbsenceProvesNothing
  <2>5. CASE Next /\ asked'.route \notin {"audit", "report", "horizon"}
    BY <2>5 DEF AbsenceProvesNothing
  <2> QED
    BY <2>1, <2>2, <2>3, <2>4, <2>5
<1> QED
  BY <1>1, <1>2, PTL DEF Spec

-----------------------------------------------------------------------------
\* The greater of two numbers.
LEMMA MaxOfTwo ==
  ASSUME NEW a \in Int, NEW b \in Int
  PROVE  L!Max({a, b}) = IF a >= b THEN a ELSE b
<1>1. PICK m : m = IF a >= b THEN a ELSE b
  OBVIOUS
<1>2. m \in {a, b} /\ \A y \in {a, b} : m >= y
  BY <1>1
<1>3. \A x \in {a, b} : (\A y \in {a, b} : x >= y) => x = m
  BY <1>2
<1> QED
  BY <1>1, <1>2, <1>3 DEF L!Max

\* The smaller likewise.
LEMMA MinOfTwo ==
  ASSUME NEW a \in Int, NEW b \in Int
  PROVE  L!Min({a, b}) = IF a <= b THEN a ELSE b
<1>1. PICK m : m = IF a <= b THEN a ELSE b
  OBVIOUS
<1>2. m \in {a, b} /\ \A y \in {a, b} : m <= y
  BY <1>1
<1>3. \A x \in {a, b} : (\A y \in {a, b} : x <= y) => x = m
  BY <1>2
<1> QED
  BY <1>1, <1>2, <1>3 DEF L!Min

\* Integer division does not turn an inequality round.
LEMMA DivMonotone ==
  ASSUME NEW a \in Nat, NEW b \in Nat, NEW w \in Nat \ {0}, a <= b
  PROVE  a \div w \in Nat /\ b \div w \in Nat /\ a \div w <= b \div w
<1>1. a \div w \in Int /\ b \div w \in Int
  OBVIOUS
<1>2. w * (a \div w) <= a /\ b < w * (b \div w) + w /\ a < w * (a \div w) + w /\ w * (b \div w) <= b
  BY SMTT(30)
<1> DEFINE p == a \div w  q == b \div w
<1> HIDE DEF p, q
<1>3. p \in Int /\ q \in Int /\ w * p <= a /\ b < w * q + w /\ a < w * p + w /\ w * q <= b
  BY <1>1, <1>2 DEF p, q
<1>4. p <= q
  <2> SUFFICES ASSUME p >= q + 1 PROVE FALSE
    BY <1>3
  <2>1. w * p >= w * (q + 1)
    BY <1>3, SMTT(30)
  <2>2. w * (q + 1) = w * q + w
    BY <1>3, SMTT(30)
  <2> QED
    BY <1>3, <2>1, <2>2
<1>5. p >= 0
  <2> SUFFICES ASSUME p <= -1 PROVE FALSE
    BY <1>3
  <2>1. w * p <= w * (-1)
    BY <1>3, SMTT(30)
  <2> QED
    BY <1>3, <2>1
<1> QED
  BY <1>3, <1>4, <1>5 DEF p, q

\* A part of a number in percent is a natural that grows with both.
LEMMA PercentMonotone ==
  ASSUME NEW x \in Nat, NEW y \in Nat, NEW p \in Nat, NEW q \in Nat, x <= y, p <= q
  PROVE  (x * p) \div 100 \in Nat /\ (x * p) \div 100 <= (y * q) \div 100
<1>1. x * p \in Nat /\ y * q \in Nat /\ y * p \in Nat
  OBVIOUS
<1>2. x * p <= y * p
  BY SMTT(30)
<1>3. y * p <= y * q
  BY SMTT(30)
<1>4. x * p <= y * q
  BY <1>1, <1>2, <1>3
<1> DEFINE a == x * p  b == y * q
<1> HIDE DEF a, b
<1>5. a \in Nat /\ b \in Nat /\ a <= b
  BY <1>1, <1>4 DEF a, b
<1>6. a \div 100 \in Nat /\ a \div 100 <= b \div 100
  BY <1>5, DivMonotone
<1> QED
  BY <1>6 DEF a, b

\* A penalty in percent never falls below its floor, and grows with the count.
Part(floor, step, n) == L!Max({floor, 100 - step * n})
\* Its range.
LEMMA PartFacts ==
  ASSUME NEW floor \in Nat, NEW step \in Nat, NEW n \in Nat, NEW m \in {n, n + 1}
  PROVE  /\ Part(floor, step, n) \in Nat /\ Part(floor, step, m) \in Nat
         /\ Part(floor, step, m) <= Part(floor, step, n)
<1>1. step * n \in Nat /\ step * (n + 1) = step * n + step
  BY SMTT(30)
<1> DEFINE k == step * n  j == step * m
<1> HIDE DEF k, j
<1>2. k \in Nat /\ (j = k \/ j = k + step)
  BY <1>1 DEF k, j
<1>3. /\ Part(floor, step, n) = IF floor >= 100 - k THEN floor ELSE 100 - k
      /\ Part(floor, step, m) = IF floor >= 100 - j THEN floor ELSE 100 - j
  BY <1>2, MaxOfTwo DEF Part, k, j
<1> QED
  BY <1>2, <1>3

\* More of a number, penalised for the same or more, is no less than less penalised for more.
LEMMA PenaltiesGrow ==
  ASSUME NEW x \in Nat, NEW y \in Nat, x <= y,
         NEW r \in [{"explicit", "legacy", "ambiguous", "invalid"} -> Nat],
         NEW s \in {r} \cup {More(r, k) : k \in {"legacy", "ambiguous", "invalid"}}
  PROVE  L!Penalised(x, s) \in Nat /\ L!Penalised(y, r) \in Nat /\ L!Penalised(x, s) <= L!Penalised(y, r)
<1> DEFINE Legacy(v, q) == IF q["legacy"] > 0 THEN (v * 92) \div 100 ELSE v
           Ambiguous(v, q) == (v * Part(55, 12, q["ambiguous"])) \div 100
           Invalid(v, q) == (v * Part(50, 10, q["invalid"])) \div 100
<1>1. \A k \in {"legacy", "ambiguous", "invalid"} :
        r[k] \in Nat /\ s[k] \in {r[k], r[k] + 1}
  BY DEF More
<1>2. /\ L!Penalised(x, s) = Invalid(Ambiguous(Legacy(x, s), s), s)
      /\ L!Penalised(y, r) = Invalid(Ambiguous(Legacy(y, r), r), r)
  BY DEF L!Penalised, Part
<1>3. ASSUME NEW u \in Nat, NEW v \in Nat, u <= v
      PROVE  Legacy(u, s) \in Nat /\ Legacy(v, r) \in Nat /\ Legacy(u, s) <= Legacy(v, r)
  <2>1. /\ (u * 92) \div 100 \in Nat /\ (v * 92) \div 100 \in Nat /\ (u * 100) \div 100 = u
        /\ (u * 92) \div 100 <= (v * 92) \div 100 /\ (u * 92) \div 100 <= (u * 100) \div 100
    BY <1>3
  <2> QED
    BY <1>1, <1>3, <2>1
<1>4. ASSUME NEW u \in Nat, NEW v \in Nat, u <= v
      PROVE  Ambiguous(u, s) \in Nat /\ Ambiguous(v, r) \in Nat /\ Ambiguous(u, s) <= Ambiguous(v, r)
  <2>0. r["ambiguous"] \in Nat /\ s["ambiguous"] \in {r["ambiguous"], r["ambiguous"] + 1}
    BY <1>1
  <2>1. /\ Part(55, 12, s["ambiguous"]) \in Nat /\ Part(55, 12, r["ambiguous"]) \in Nat
        /\ Part(55, 12, s["ambiguous"]) <= Part(55, 12, r["ambiguous"])
    BY <2>0, PartFacts
  <2> DEFINE p == Part(55, 12, s["ambiguous"])
             q == Part(55, 12, r["ambiguous"])
  <2> HIDE DEF p, q
  <2>2. p \in Nat /\ q \in Nat /\ p <= q
    BY <2>1 DEF p, q
  <2>3. (u * p) \div 100 \in Nat /\ (u * p) \div 100 <= (v * q) \div 100
    BY <1>4, <2>2, PercentMonotone
  <2>4. (v * q) \div 100 \in Nat
    BY <1>4, <2>2, PercentMonotone
  <2> QED
    BY <2>3, <2>4 DEF p, q
<1>5. ASSUME NEW u \in Nat, NEW v \in Nat, u <= v
      PROVE  Invalid(u, s) \in Nat /\ Invalid(v, r) \in Nat /\ Invalid(u, s) <= Invalid(v, r)
  <2>0. r["invalid"] \in Nat /\ s["invalid"] \in {r["invalid"], r["invalid"] + 1}
    BY <1>1
  <2>1. /\ Part(50, 10, s["invalid"]) \in Nat /\ Part(50, 10, r["invalid"]) \in Nat
        /\ Part(50, 10, s["invalid"]) <= Part(50, 10, r["invalid"])
    BY <2>0, PartFacts
  <2> DEFINE p == Part(50, 10, s["invalid"])
             q == Part(50, 10, r["invalid"])
  <2> HIDE DEF p, q
  <2>2. p \in Nat /\ q \in Nat /\ p <= q
    BY <2>1 DEF p, q
  <2>3. (u * p) \div 100 \in Nat /\ (u * p) \div 100 <= (v * q) \div 100
    BY <1>5, <2>2, PercentMonotone
  <2>4. (v * q) \div 100 \in Nat
    BY <1>5, <2>2, PercentMonotone
  <2> QED
    BY <2>3, <2>4 DEF p, q
<1> HIDE DEF Legacy, Ambiguous, Invalid
<1>6. Legacy(x, s) \in Nat /\ Legacy(y, r) \in Nat /\ Legacy(x, s) <= Legacy(y, r)
  BY <1>3
<1>7. /\ Ambiguous(Legacy(x, s), s) \in Nat /\ Ambiguous(Legacy(y, r), r) \in Nat
      /\ Ambiguous(Legacy(x, s), s) <= Ambiguous(Legacy(y, r), r)
  BY <1>4, <1>6
<1> QED
  BY <1>2, <1>5, <1>7

\* The sufficiency of a sample grows with its days, and thin samples are the small ones.
LEMMA SufficiencyGrows ==
  ASSUME NEW n \in Nat, NEW w \in Nat \ {0}, n < w
  PROVE  LET a == L!Sufficiency(n, w - n, w)
             b == L!Sufficiency(n + 1, w - (n + 1), w) IN
         /\ L!SufficiencyFactor[a] \in Nat /\ L!SufficiencyFactor[b] \in Nat
         /\ L!SufficiencyFactor[a] <= L!SufficiencyFactor[b]
         /\ L!Thin(n + 1, b) => L!Thin(n, a)
<1>1. w \div 2 \in Nat
  OBVIOUS
<1> DEFINE h == w \div 2
<1> HIDE DEF h
<1>2. /\ L!Sufficiency(n, w - n, w) =
            IF n < 3 THEN "COLD_START" ELSE IF w - n > h THEN "PARTIAL"
            ELSE IF n >= 10 /\ w - n <= 2 THEN "RICH" ELSE "ADEQUATE"
      /\ L!Sufficiency(n + 1, w - (n + 1), w) =
            IF n + 1 < 3 THEN "COLD_START" ELSE IF w - (n + 1) > h THEN "PARTIAL"
            ELSE IF n + 1 >= 10 /\ w - (n + 1) <= 2 THEN "RICH" ELSE "ADEQUATE"
  BY DEF L!Sufficiency, h
<1>3. h \in Nat
  BY <1>1 DEF h
<1> QED
  BY <1>2, <1>3 DEF L!SufficiencyFactor, L!Thin

\* The factor is a number.
LEMMA FactorType ==
  ASSUME NEW n \in Nat, NEW w \in Nat \ {0}
  PROVE  L!SufficiencyFactor[L!Sufficiency(n, w - n, w)] \in Nat
  BY DEF L!Sufficiency, L!SufficiencyFactor

\* What a sample says before any penalty grows with its days and its sufficiency.
LEMMA RawGrows ==
  ASSUME NEW n \in Nat, NEW m \in Nat, n <= m, NEW d \in Nat, NEW w \in Nat \ {0},
         NEW f \in Nat, NEW g \in Nat, f <= g
  PROVE  /\ L!EpistemicRaw(n, d, w, f) \in Nat /\ L!EpistemicRaw(m, d, w, g) \in Nat
         /\ L!EpistemicRaw(n, d, w, f) <= L!EpistemicRaw(m, d, w, g)
<1> DEFINE a == (4500 * n) \div w  b == (4500 * m) \div w  c == (3500 * d) \div 6
<1>1. a \in Nat /\ b \in Nat /\ a <= b
  BY DivMonotone
<1>2. c \in Nat
  BY DivMonotone
<1>3. /\ L!EpistemicRaw(n, d, w, f) = ((a + c + 20 * f) * 85) \div 100
      /\ L!EpistemicRaw(m, d, w, g) = ((b + c + 20 * g) * 85) \div 100
  BY DEF L!EpistemicRaw
<1> HIDE DEF a, b, c
<1>4. a + c + 20 * f \in Nat /\ b + c + 20 * g \in Nat /\ a + c + 20 * f <= b + c + 20 * g
  BY <1>1, <1>2
<1>5. ((b + c + 20 * g) * 85) \div 100 \in Nat
  BY <1>4, PercentMonotone
<1> QED
  BY <1>3, <1>4, <1>5, PercentMonotone

\* What is left of a raw confidence after the cap, the damping and the limit of ambiguity.
Settle(raw, cap, damp, ambiguous) ==
  LET capped == L!Min({raw, cap})
      damped == IF damp THEN (capped * 7) \div 10 ELSE capped IN
  IF ambiguous THEN L!Min({damped, 4000}) ELSE damped
\* It grows with the raw confidence and the cap, and stays below both limits.
LEMMA SettleGrows ==
  ASSUME NEW raw \in Nat, NEW high \in Nat, raw <= high, NEW cap \in Nat, NEW top \in Nat, cap <= top,
         NEW damp \in BOOLEAN, NEW damp2 \in BOOLEAN, damp2 => damp,
         NEW ambiguous \in BOOLEAN, NEW ambiguous2 \in BOOLEAN, ambiguous2 => ambiguous
  PROVE  /\ Settle(raw, cap, damp, ambiguous) <= Settle(high, top, damp2, ambiguous2)
         /\ Settle(raw, cap, damp, ambiguous) <= cap
         /\ ambiguous => Settle(raw, cap, damp, ambiguous) <= 4000
<1> DEFINE x == L!Min({raw, cap})  y == L!Min({high, top})
<1>1. x \in Nat /\ y \in Nat /\ x <= y /\ x <= cap
  BY MinOfTwo
<1> DEFINE u == IF damp THEN (x * 7) \div 10 ELSE x
           v == IF damp2 THEN (y * 7) \div 10 ELSE y
<1>2. /\ Settle(raw, cap, damp, ambiguous) = IF ambiguous THEN L!Min({u, 4000}) ELSE u
      /\ Settle(high, top, damp2, ambiguous2) = IF ambiguous2 THEN L!Min({v, 4000}) ELSE v
  BY DEF Settle
<1> HIDE DEF x, y
<1>3. u \in Nat /\ v \in Nat /\ u <= v /\ u <= cap
  BY <1>1
<1> HIDE DEF u, v
<1>4. L!Min({u, 4000}) = (IF u <= 4000 THEN u ELSE 4000) /\ L!Min({v, 4000}) = (IF v <= 4000 THEN v ELSE 4000)
  BY <1>3, MinOfTwo
<1> QED
  BY <1>2, <1>3, <1>4

\* The confidence of a sample, cut in two.
LEMMA ConfidenceCut ==
  ASSUME NEW n, NEW d, NEW w, NEW r, NEW extreme
  PROVE  LET a == L!Sufficiency(n, w - n, w) IN
         L!Confidence(n, d, w, r, extreme) =
             Settle(L!Penalised(L!EpistemicRaw(n, d, w, L!SufficiencyFactor[a]), r), L!MaturityCap(n),
                    extreme /\ L!Thin(n, a), r["ambiguous"] > 0)
  BY DEF L!Confidence, Settle

\* What the confidence of a sample says, for every sample.
LEMMA ConfidenceEarned ==
  ASSUME NEW n \in Nat, NEW d \in Nat, NEW w \in Nat \ {0}, NEW extreme \in BOOLEAN,
         NEW r \in [{"explicit", "legacy", "ambiguous", "invalid"} -> Nat]
  PROVE  /\ n < 7 => L!Confidence(n, d, w, r, extreme) < 5000
         /\ r["ambiguous"] > 0 => L!Confidence(n, d, w, r, extreme) <= 4000
         /\ \A k \in {"legacy", "ambiguous", "invalid"} :
               L!Confidence(n, d, w, More(r, k), extreme) <= L!Confidence(n, d, w, r, extreme)
         /\ n < w => L!Confidence(n, d, w, r, extreme) <= L!Confidence(n + 1, d, w, r, extreme)
<1> DEFINE a == L!Sufficiency(n, w - n, w)
           f == L!SufficiencyFactor[a]
           raw == L!EpistemicRaw(n, d, w, f)
           cap == L!MaturityCap(n)
           damp == extreme /\ L!Thin(n, a)
<1>1. f \in Nat /\ damp \in BOOLEAN
  BY FactorType DEF L!Thin
<1>2. raw \in Nat
  <2> HIDE DEF f
  <2>1. f <= f /\ n <= n
    BY <1>1
  <2> QED
    BY <1>1, <2>1, RawGrows
<1>3. cap \in Nat /\ (n < 7 => cap <= 4500) /\ L!MaturityCap(n + 1) \in Nat /\ cap <= L!MaturityCap(n + 1)
  BY DEF L!MaturityCap
<1>4. r["ambiguous"] \in Nat
  OBVIOUS
<1>5. L!Confidence(n, d, w, r, extreme) = Settle(L!Penalised(raw, r), cap, damp, r["ambiguous"] > 0)
  BY ConfidenceCut
<1> HIDE DEF raw, cap
<1>6. L!Penalised(raw, r) \in Nat
  BY <1>2, PenaltiesGrow
<1>7. /\ Settle(L!Penalised(raw, r), cap, damp, r["ambiguous"] > 0) <= cap
      /\ r["ambiguous"] > 0 => Settle(L!Penalised(raw, r), cap, damp, r["ambiguous"] > 0) <= 4000
  <2> DEFINE x == L!Penalised(raw, r)  amb == r["ambiguous"] > 0
  <2>1. x \in Nat /\ amb \in BOOLEAN
    BY <1>6
  <2> HIDE DEF x, amb, damp
  <2>2. Settle(x, cap, damp, amb) <= cap /\ (amb => Settle(x, cap, damp, amb) <= 4000)
    BY <1>1, <1>3, <2>1, SettleGrows
  <2> QED
    BY <2>2 DEF x, amb
<1>8. ASSUME NEW k \in {"legacy", "ambiguous", "invalid"}
      PROVE  L!Confidence(n, d, w, More(r, k), extreme) <= L!Confidence(n, d, w, r, extreme)
  <2> DEFINE s == More(r, k)
             x == L!Penalised(raw, s)  y == L!Penalised(raw, r)
             amb == s["ambiguous"] > 0  amb2 == r["ambiguous"] > 0
  <2>1. s["ambiguous"] \in Nat /\ s["ambiguous"] >= r["ambiguous"]
    BY DEF More
  <2>2. L!Confidence(n, d, w, s, extreme) = Settle(x, cap, damp, amb)
    BY ConfidenceCut DEF raw, cap
  <2>3. L!Confidence(n, d, w, r, extreme) = Settle(y, cap, damp, amb2)
    BY <1>5
  <2>4. x \in Nat /\ y \in Nat /\ x <= y
    BY <1>2, PenaltiesGrow
  <2>5. amb \in BOOLEAN /\ amb2 \in BOOLEAN /\ (amb2 => amb)
    BY <1>4, <2>1
  <2> HIDE DEF s, x, y, amb, amb2, damp
  <2>6. Settle(x, cap, damp, amb) <= Settle(y, cap, damp, amb2)
    BY <1>1, <1>3, <2>4, <2>5, SettleGrows
  <2> QED
    BY <2>2, <2>3, <2>6 DEF s
<1>9. ASSUME n < w
      PROVE  L!Confidence(n, d, w, r, extreme) <= L!Confidence(n + 1, d, w, r, extreme)
  <2> DEFINE b == L!Sufficiency(n + 1, w - (n + 1), w)
             g == L!SufficiencyFactor[b]
             raw2 == L!EpistemicRaw(n + 1, d, w, g)
             cap2 == L!MaturityCap(n + 1)
             damp2 == extreme /\ L!Thin(n + 1, b)
             x == L!Penalised(raw, r)  y == L!Penalised(raw2, r)
             amb == r["ambiguous"] > 0
  <2>1. f \in Nat /\ g \in Nat /\ f <= g /\ damp2 \in BOOLEAN /\ (damp2 => damp)
    BY <1>9, SufficiencyGrows DEF L!Thin
  <2>2. L!Confidence(n + 1, d, w, r, extreme) = Settle(y, cap2, damp2, amb)
    BY ConfidenceCut
  <2>3. L!Confidence(n, d, w, r, extreme) = Settle(x, cap, damp, amb)
    BY <1>5
  <2>4. cap2 \in Nat /\ cap <= cap2
    BY <1>3
  <2>5. amb \in BOOLEAN
    BY <1>4
  <2> HIDE DEF f, g
  <2>6. raw2 \in Nat /\ raw <= raw2
    <3>1. n + 1 \in Nat /\ n <= n + 1
      OBVIOUS
    <3>2. /\ L!EpistemicRaw(n + 1, d, w, g) \in Nat
          /\ L!EpistemicRaw(n, d, w, f) <= L!EpistemicRaw(n + 1, d, w, g)
      BY <2>1, <3>1, RawGrows
    <3> QED
      BY <3>2 DEF raw
  <2> HIDE DEF raw2
  <2>7. x \in Nat /\ y \in Nat /\ x <= y
    BY <1>2, <2>6, PenaltiesGrow
  <2> HIDE DEF x, y, amb, damp, damp2, cap2
  <2>8. Settle(x, cap, damp, amb) <= Settle(y, cap2, damp2, amb)
    BY <1>1, <1>3, <2>1, <2>4, <2>5, <2>7, SettleGrows
  <2> QED
    BY <2>2, <2>3, <2>8
<1>10. n < 7 => Settle(L!Penalised(raw, r), cap, damp, r["ambiguous"] > 0) < 5000
  <2>1. Settle(L!Penalised(raw, r), cap, damp, r["ambiguous"] > 0) \in Int
    <3> DEFINE x == L!Penalised(raw, r)  y == L!Min({x, cap})
               u == IF damp THEN (y * 7) \div 10 ELSE y
    <3>1. y \in Nat
      BY <1>3, <1>6, MinOfTwo
    <3> HIDE DEF y
    <3>2. u \in Int /\ L!Min({u, 4000}) \in Int
      BY <3>1, MinOfTwo
    <3>3. Settle(L!Penalised(raw, r), cap, damp, r["ambiguous"] > 0) =
             IF r["ambiguous"] > 0 THEN L!Min({u, 4000}) ELSE u
      BY DEF Settle, y
    <3> QED
      BY <3>2, <3>3
  <2> QED
    BY <1>3, <1>7, <2>1
<1> QED
  BY <1>5, <1>7, <1>8, <1>9, <1>10

\* The confidence of every sample is earned by its days and lost by uncertain readings
\* (_confidence of wellbeing_v1).
THEOREM ConfidenceHasToBeEarned == Spec => []ConfidenceIsEarned
<1>1. Init => ConfidenceIsEarned
  BY DEF Init, Idle, ConfidenceIsEarned
<1>2. ConfidenceIsEarned /\ [Next]_vars => ConfidenceIsEarned'
  <2> SUFFICES ASSUME ConfidenceIsEarned, [Next]_vars PROVE ConfidenceIsEarned'
    OBVIOUS
  <2>1. CASE UNCHANGED vars
    BY <2>1 DEF vars, ConfidenceIsEarned
  <2>2. CASE Next /\ asked'.route = "confidence"
    <3>1. PICK x \in Samples :
             /\ asked' = [route |-> "confidence", sample |-> x]
             /\ answer' = L!Confidence(x.days, x.domains, x.width, x.report, x.extreme)
      BY <2>2, StepAnswers
    <3>2. /\ x.days \in Nat /\ x.domains \in Nat /\ x.width \in Nat \ {0} /\ x.extreme \in BOOLEAN
          /\ x.report \in [{"explicit", "legacy", "ambiguous", "invalid"} -> Nat]
      BY DecisionsAssumption
    <3>3. asked'.sample = x
      BY <3>1
    <3> DEFINE now == L!Confidence(x.days, x.domains, x.width, x.report, x.extreme)
    <3>4. /\ x.days < 7 => now < 5000
          /\ x.report["ambiguous"] > 0 => now <= 4000
          /\ \A k \in {"legacy", "ambiguous", "invalid"} :
                L!Confidence(x.days, x.domains, x.width, More(x.report, k), x.extreme) <= now
          /\ x.days < x.width =>
                now <= L!Confidence(x.days + 1, x.domains, x.width, x.report, x.extreme)
      <4> DEFINE n == x.days  d == x.domains  w == x.width  e == x.extreme  r == x.report
      <4> HIDE DEF n, d, w, e, r
      <4>1. n \in Nat /\ d \in Nat /\ w \in Nat \ {0} /\ e \in BOOLEAN
            /\ r \in [{"explicit", "legacy", "ambiguous", "invalid"} -> Nat]
        BY <3>2 DEF n, d, w, e, r
      <4>2. /\ n < 7 => L!Confidence(n, d, w, r, e) < 5000
            /\ r["ambiguous"] > 0 => L!Confidence(n, d, w, r, e) <= 4000
            /\ \A k \in {"legacy", "ambiguous", "invalid"} :
                  L!Confidence(n, d, w, More(r, k), e) <= L!Confidence(n, d, w, r, e)
            /\ n < w => L!Confidence(n, d, w, r, e) <= L!Confidence(n + 1, d, w, r, e)
        BY <4>1, ConfidenceEarned
      <4> QED
        BY <4>2 DEF n, d, w, e, r
    <3> HIDE DEF now
    <3>5. answer' = now
      BY <3>1 DEF now
    <3> DEFINE next == L!Confidence(x.days + 1, x.domains, x.width, x.report, x.extreme)
    <3>6. x.days < x.width => next >= now
      BY <3>4
    <3> HIDE DEF next
    <3> QED
      BY <3>3, <3>4, <3>5, <3>6 DEF ConfidenceIsEarned, next
  <2>3. CASE Next /\ asked'.route # "confidence"
    BY <2>3 DEF ConfidenceIsEarned
  <2> QED
    BY <2>1, <2>2, <2>3
<1> QED
  BY <1>1, <1>2, PTL DEF Spec

-----------------------------------------------------------------------------
(* The read path and the exclusion registry: Wellbeing. *)

\* Positions are given out one by one, so rows are numbered without holes or doubles.
StoreNumbered ==
    /\ IsFiniteSet(store) /\ {r.at : r \in store} = 1..Cardinality(store)
    /\ \A r, x \in store : r.at = x.at => r = x

\* Where a thread is in what it does, the registry aside.
Place(t) == IF pc[t] \in {"load", "overwrite"} THEN local[t].next ELSE pc[t]

\* While a request scans, and until it computes, it has seen exactly the rows up to the
\* last position it has seen; a scan that is over has seen all there were when it began.
ScanFits(t) ==
    /\ Place(t) \in {"scan", "compute"} =>
          /\ local[t].seen = {r \in store : r.at <= local[t].after}
          /\ local[t].since \subseteq store /\ local[t].after <= Cardinality(store)
    /\ Place(t) = "compute" => local[t].since \subseteq local[t].seen

\* A request knows what it has to do, and an exclusion its target; with the formula rows a
\* request is about to insert none is missing.
RequestFits(t) ==
    /\ Place(t) \in {"scan", "compute", "store"} => local[t].todo \in Todo
    /\ Place(t) = "store" => Formula \subseteq formulas \cup local[t].missing
    /\ Place(t) \in {"exclude", "refresh", "excluding"} => local[t].target \in Excludable
    /\ pc[t] = "load" => local[t].next \in {"compute", "exclude"}

\* What has been read of the table is not older than the process, and holds the thread's own.
LoadedFits(t) ==
    pc[t] = "overwrite" =>
        /\ local[t].loaded.state = "loaded" => born[Home[t]] \subseteq local[t].loaded.ids
        /\ local[t].next = "excluding" =>
              local[t].loaded.state = "loaded" /\ local[t].target \in local[t].loaded.ids

\* No loaded cache is older than its process.
CachesFit ==
    \A p \in Process :
        /\ born[p] \subseteq table
        /\ cache[p].state = "loaded" => born[p] \subseteq cache[p].ids

\* Whose way nobody has crossed is alone in the registry, and what it excludes is in the cache.
AloneFits ==
    /\ alone \subseteq InRegistry
    /\ \A t \in alone : Mates(t) \cap InRegistry = {}
    /\ \A t \in alone : pc[t] = "excluding" => local[t].target \in cache[Home[t]].ids

\* The inductive invariant.
WellbeingInv ==
    /\ WellbeingTypeOK /\ StoreNumbered /\ CachesFit /\ AloneFits
    /\ \A t \in Thread : ScanFits(t) /\ RequestFits(t) /\ LoadedFits(t)

\* Among numbered rows, as many have a position between two bounds as there are positions.
LEMMA CountBetween ==
  ASSUME NEW S, NEW n \in Nat, {r.at : r \in S} = 1..n, \A r, x \in S : r.at = x.at => r = x,
         NEW a \in Nat, NEW b \in Nat, a <= b, b <= n
  PROVE  LET Some == {x \in S : x.at > a /\ x.at <= b} IN IsFiniteSet(Some) /\ Cardinality(Some) = b - a
<1> DEFINE Some == {x \in S : x.at > a /\ x.at <= b}
           f == [i \in (a + 1)..b |-> CHOOSE x \in S : x.at = i]
<1>1. ASSUME NEW i \in (a + 1)..b PROVE f[i] \in Some /\ f[i].at = i
  <2>1. i \in 1..n /\ i > a /\ i <= b
    OBVIOUS
  <2>2. \E x \in S : x.at = i
    BY <2>1
  <2>3. f[i] \in S /\ f[i].at = i
    BY <2>2
  <2> QED
    BY <2>1, <2>3
<1>2. \A x \in Some : x.at \in (a + 1)..b
  <2>1. \A x \in S : x.at \in 1..n
    OBVIOUS
  <2> QED
    BY <2>1
<1>3. \A x \in Some : f[x.at] = x
  BY <1>1, <1>2
<1>4. f \in Bijection((a + 1)..b, Some)
  <2> HIDE DEF Some
  <2>1. f \in [(a + 1)..b -> Some]
    BY <1>1
  <2> HIDE DEF f
  <2>2. \A i, k \in (a + 1)..b : f[i] = f[k] => i = k
    BY <1>1
  <2>3. \A x \in Some : \E i \in (a + 1)..b : f[i] = x
    BY <1>2, <1>3
  <2> QED
    BY <2>1, <2>2, <2>3 DEF Bijection, Injection, Surjection, IsInjective
<1>5. IsFiniteSet((a + 1)..b) /\ Cardinality((a + 1)..b) = b - a
  <2>1. PICK k \in Int : k = a + 1
    OBVIOUS
  <2>2. b \in Int
    OBVIOUS
  <2>3. IsFiniteSet(k..b) /\ Cardinality(k..b) = IF k > b THEN 0 ELSE b - k + 1
    BY <2>2, FS_Interval
  <2> QED
    BY <2>1, <2>3
<1>6. ExistsBijection((a + 1)..b, Some)
  BY <1>4 DEF ExistsBijection
<1> HIDE DEF Some
<1>7. IsFiniteSet(Some) /\ Cardinality(Some) = Cardinality((a + 1)..b)
  BY <1>5, <1>6, FS_Bijection
<1> QED
  BY <1>5, <1>7 DEF Some

\* A page is the rows at the next positions, as many as fit; it is full, or the last.
LEMMA PageIsNext ==
  ASSUME StoreNumbered, PageAssumption, NEW t \in Thread, local[t].after \in Nat
  PROVE  /\ PageOf(t) = {r \in store : r.at > local[t].after /\ r.at <= local[t].after + PageSize}
         /\ Cardinality(PageOf(t)) < PageSize /\ local[t].after <= Cardinality(store)
               => PageOf(t) = {r \in store : r.at > local[t].after}
<1> DEFINE a == local[t].after
           n == Cardinality(store)
<1>1. n \in Nat /\ PageSize \in Nat \ {0} /\ a \in Nat
  BY FS_CardinalityType DEF StoreNumbered, PageAssumption
<1>2. \A r \in store : r.at \in 1..n
  BY DEF StoreNumbered
<1>3. ASSUME NEW b \in Nat, a <= b, b <= n
      PROVE  Cardinality({x \in store : x.at > a /\ x.at <= b}) = b - a
  BY <1>1, <1>3, CountBetween DEF StoreNumbered
<1>4. \A r \in store : r.at > a => Cardinality({x \in store : x.at > a /\ x.at <= r.at}) = r.at - a
  BY <1>1, <1>2, <1>3
<1>5. PageOf(t) = {r \in store : r.at > a /\ r.at <= a + PageSize}
  <2>1. ASSUME NEW r \in store
        PROVE  r.at > a /\ Cardinality({x \in store : x.at > a /\ x.at <= r.at}) <= PageSize
                 <=> r.at > a /\ r.at <= a + PageSize
    <3> PICK k \in 1..n : k = r.at
      BY <1>2
    <3> QED
      BY <1>1, <1>4
  <2> QED
    BY <2>1 DEF PageOf
<1>6. ASSUME Cardinality(PageOf(t)) < PageSize, a <= n
      PROVE  PageOf(t) = {r \in store : r.at > a}
  <2>1. ~(a + PageSize <= n)
    <3> SUFFICES ASSUME a + PageSize <= n PROVE FALSE
      OBVIOUS
    <3>1. Cardinality(PageOf(t)) = (a + PageSize) - a
      BY <1>1, <1>3, <1>5
    <3> QED
      BY <1>1, <1>6, <3>1
  <2> QED
    BY <1>1, <1>2, <1>5, <2>1
<1> QED
  BY <1>5, <1>6

\* The records a request starts and ends with, and the caches, are well typed.
LEMMA RecordTypes ==
  /\ NoRequest \in View /\ Unloaded \in Cache /\ Failed \in Cache
  /\ \A ids \in SUBSET Excludable : Loaded(ids) \in Cache
  BY DEF NoRequest, View, Unloaded, Failed, Loaded, Cache

\* t replaces its record and its control.
Becomes(t, v, at) ==
    /\ local' = [local EXCEPT ![t] = v] /\ v \in View
    /\ pc' = [pc EXCEPT ![t] = at] /\ at \in Control

\* The tables a thread shares with the others only grow, and hold what they should.
TablesGrow ==
    /\ store' = store /\ formulas \subseteq formulas' /\ formulas' \subseteq Formula
    /\ {s.formula : s \in snapshots'} \subseteq formulas' /\ born' = born
    /\ requests' \in Nat /\ exclusions' \in Nat /\ restarts' \in Nat

\* What the types say, one by one.
LEMMA Typed ==
  ASSUME WellbeingInv, NEW t \in Thread
  PROVE  /\ cache \in [Process -> Cache] /\ local \in [Thread -> View] /\ local[t] \in View
         /\ pc \in [Thread -> Control] /\ Home[t] \in Process /\ cache[Home[t]] \in Cache
         /\ alone \subseteq Thread /\ born \in [Process -> SUBSET Excludable]
         /\ store \subseteq Row /\ formulas \subseteq Formula /\ table \subseteq Excludable
         /\ {s.formula : s \in snapshots} \subseteq formulas
         /\ requests \in Nat /\ exclusions \in Nat /\ restarts \in Nat
         /\ ScanFits(t) /\ RequestFits(t) /\ LoadedFits(t) /\ StoreNumbered
  BY HomeAssumption DEF WellbeingInv, WellbeingTypeOK

\* A step of one thread keeps the invariant if what it leaves behind fits.
LEMMA StepIn ==
  ASSUME WellbeingInv, NEW t \in Thread, NEW v, NEW at, Becomes(t, v, at), TablesGrow,
         table' \subseteq Excludable, cache' \in [Process -> Cache], alone' \subseteq Thread,
         CachesFit', AloneFits', ScanFits(t)', RequestFits(t)', LoadedFits(t)'
  PROVE  WellbeingInv'
<1>1. /\ WellbeingTypeOK /\ StoreNumbered /\ local \in [Thread -> View] /\ pc \in [Thread -> Control]
  BY DEF WellbeingInv, WellbeingTypeOK
<1>2. WellbeingTypeOK'
  BY <1>1 DEF Becomes, TablesGrow, WellbeingTypeOK
<1>3. StoreNumbered'
  BY <1>1 DEF StoreNumbered, TablesGrow
<1>4. ASSUME NEW u \in Thread, u # t PROVE ScanFits(u)' /\ RequestFits(u)' /\ LoadedFits(u)'
  <2>1. local'[u] = local[u] /\ pc'[u] = pc[u]
    BY <1>1, <1>4 DEF Becomes
  <2>2. /\ store' = store /\ formulas \subseteq formulas' /\ born' = born
        /\ ScanFits(u) /\ RequestFits(u) /\ LoadedFits(u)
    BY DEF WellbeingInv, TablesGrow
  <2>3. Place(u)' = Place(u)
    BY <2>1 DEF Place
  <2>4. ScanFits(u)'
    BY <2>1, <2>2, <2>3 DEF ScanFits
  <2>5. RequestFits(u)'
    BY <2>1, <2>2, <2>3 DEF RequestFits
  <2>6. LoadedFits(u)'
    BY <2>1, <2>2 DEF LoadedFits
  <2> QED
    BY <2>4, <2>5, <2>6
<1> QED
  BY <1>2, <1>3, <1>4 DEF WellbeingInv

\* Outside of the registry less has to fit.
LEMMA StepAt ==
  ASSUME WellbeingInv, NEW t \in Thread, NEW v, NEW at, Becomes(t, v, at), TablesGrow,
         UNCHANGED <<table, cache, alone>>, t \notin InRegistry, at \notin {"overwrite", "excluding"},
         ScanFits(t)', RequestFits(t)'
  PROVE  WellbeingInv'
<1>1. /\ local \in [Thread -> View] /\ pc \in [Thread -> Control] /\ cache \in [Process -> Cache]
      /\ alone \subseteq Thread /\ table \subseteq Excludable /\ CachesFit /\ AloneFits
  BY DEF WellbeingInv, WellbeingTypeOK
<1>2. pc'[t] = at /\ \A u \in Thread \ {t} : pc'[u] = pc[u] /\ local'[u] = local[u]
  BY <1>1 DEF Becomes
<1>3. InRegistry' = InRegistry
  <2>1. t \notin InRegistry'
    BY <1>2 DEF InRegistry
  <2> QED
    BY <1>2, <2>1 DEF InRegistry
<1>4. CachesFit'
  BY <1>1 DEF CachesFit, TablesGrow
<1>5. AloneFits'
  <2>1. \A u \in alone : u # t
    BY <1>1 DEF AloneFits
  <2>2. \A u \in alone : Mates(u)' = Mates(u)
    BY DEF Mates
  <2> QED
    BY <1>1, <1>2, <1>3, <2>1, <2>2 DEF AloneFits
<1>6. LoadedFits(t)'
  BY <1>2 DEF LoadedFits
<1> QED
  BY <1>1, <1>4, <1>5, <1>6, StepIn

\* An observation is accepted behind all the others.
LEMMA AcceptNumbers ==
  ASSUME WellbeingInv, NEW x \in Catalogue, Accept(x)
  PROVE  LET r == [x EXCEPT !.at = Cardinality(store) + 1] IN
         /\ store' = store \cup {r} /\ r \in Row /\ r \notin store /\ StoreNumbered'
         /\ [r EXCEPT !.at = 0] = [x EXCEPT !.at = 0]
         /\ r.at = Cardinality(store) + 1 /\ Cardinality(store) \in Nat
         /\ Cardinality(store') = Cardinality(store) + 1
         /\ \A y \in store : y.at < r.at
<1>1. PICK n \in Nat : n = Cardinality(store)
  BY FS_CardinalityType DEF WellbeingInv, StoreNumbered
<1>2. PICK r : r = [x EXCEPT !.at = n + 1]
  OBVIOUS
<1>3. x \in Row
  BY CatalogueAssumption
<1>4. r \in Row /\ r.at = n + 1 /\ r.id = x.id /\ [r EXCEPT !.at = 0] = [x EXCEPT !.at = 0]
  <2>1. PICK k \in Nat : k = n + 1
    OBVIOUS
  <2>2. r = [x EXCEPT !.at = k]
    BY <1>2, <2>1
  <2>3. r \in Row
    BY <1>3, <2>2 DEF Row
  <2>4. r.at = k /\ r.id = x.id
    BY <1>3, <2>2 DEF Row
  <2>5. [r EXCEPT !.at = 0] = [x EXCEPT !.at = 0]
    BY <1>3, <2>2 DEF Row
  <2> QED
    BY <2>1, <2>3, <2>4, <2>5
<1>5. store' = store \cup {r} /\ r \notin store
  BY <1>1, <1>2, <1>4 DEF Accept
<1>6. IsFiniteSet(store) /\ {y.at : y \in store} = 1..n /\ \A y, z \in store : y.at = z.at => y = z
  BY <1>1 DEF WellbeingInv, StoreNumbered
<1>7. IsFiniteSet(store') /\ Cardinality(store') = n + 1
  BY <1>1, <1>5, <1>6, FS_AddElement
<1>8. \A y \in store : y.at \in Nat /\ y.at < n + 1
  <2>1. \A y \in store : y.at \in 1..n
    BY <1>6
  <2> QED
    BY <2>1
<1>9. {y.at : y \in store'} = 1..(n + 1)
  <2>1. {y.at : y \in store'} = {y.at : y \in store} \cup {r.at}
    BY <1>5
  <2>2. 1..(n + 1) = 1..n \cup {n + 1}
    OBVIOUS
  <2> QED
    BY <1>4, <1>6, <2>1, <2>2
<1>10. ASSUME NEW y \in store', NEW z \in store', y.at = z.at PROVE y = z
  <2>1. \A w \in store : w.at # r.at
    BY <1>4, <1>8
  <2>2. (y \in store \/ y = r) /\ (z \in store \/ z = r)
    BY <1>5
  <2> QED
    BY <1>6, <1>10, <2>1, <2>2, Zenon
<1>11. StoreNumbered'
  BY <1>7, <1>9, <1>10 DEF StoreNumbered
<1>12. r = [x EXCEPT !.at = Cardinality(store) + 1]
  BY <1>1, <1>2
<1> QED
  BY <1>1, <1>4, <1>5, <1>7, <1>8, <1>11, <1>12

\* The write path adds a row that no scan in progress has come to.
LEMMA AcceptKeeps ==
  ASSUME WellbeingInv, NEW x \in Catalogue, Accept(x)
  PROVE  WellbeingInv'
<1>1. PICK r : r = [x EXCEPT !.at = Cardinality(store) + 1]
  OBVIOUS
<1>2. /\ store' = store \cup {r} /\ r \in Row /\ r \notin store /\ StoreNumbered'
      /\ [r EXCEPT !.at = 0] = [x EXCEPT !.at = 0]
      /\ r.at = Cardinality(store) + 1 /\ Cardinality(store) \in Nat
      /\ Cardinality(store') = Cardinality(store) + 1
  BY <1>1, AcceptNumbers
<1>3. UNCHANGED <<table, formulas, snapshots, cache, pc, local, alone, born, requests, exclusions, restarts>>
  BY DEF Accept, bounded
<1>4. WellbeingTypeOK'
  <2>1. x \in Row /\ x.at = 0
    BY CatalogueAssumption
  <2>2. [x EXCEPT !.at = 0] = x
    BY <2>1 DEF Row
  <2>3. store' \subseteq Row /\ \A y \in store' : [y EXCEPT !.at = 0] \in Catalogue
    BY <1>2, <2>2 DEF WellbeingInv, WellbeingTypeOK
  <2> QED
    BY <1>2, <1>3, <2>3 DEF WellbeingInv, WellbeingTypeOK, StoreNumbered
<1>5. ASSUME NEW t \in Thread PROVE ScanFits(t)' /\ RequestFits(t)' /\ LoadedFits(t)'
  <2>1. ScanFits(t) /\ RequestFits(t) /\ LoadedFits(t) /\ local[t].after \in Nat
    BY Typed DEF View
  <2>5. Place(t)' = Place(t)
    BY <1>3 DEF Place
  <2>2. Place(t) \in {"scan", "compute"} => {y \in store' : y.at <= local[t].after} = {y \in store : y.at <= local[t].after}
    <3> SUFFICES ASSUME Place(t) \in {"scan", "compute"}
                 PROVE  {y \in store' : y.at <= local[t].after} = {y \in store : y.at <= local[t].after}
      OBVIOUS
    <3>1. ~(r.at <= local[t].after)
      BY <1>2, <2>1 DEF ScanFits
    <3> QED
      BY <1>2, <3>1, Zenon
  <2>3. ScanFits(t)'
    BY <1>2, <1>3, <2>1, <2>2, <2>5 DEF ScanFits
  <2>4. RequestFits(t)'
    BY <1>3, <2>1, <2>5 DEF RequestFits
  <2>6. LoadedFits(t)'
    BY <1>3, <2>1 DEF LoadedFits
  <2> QED
    BY <2>3, <2>4, <2>6
<1>6. CachesFit' /\ AloneFits'
  BY <1>3 DEF WellbeingInv, CachesFit, AloneFits, Mates, InRegistry
<1> QED
  BY <1>2, <1>4, <1>5, <1>6 DEF WellbeingInv

\* A request begins, and begins to scan.
LEMMA RequestKeeps ==
  ASSUME WellbeingInv, NEW t \in Thread, NEW todo \in {<<"V1">>, <<"V1", "V2">>}, Request(t, todo)
  PROVE  WellbeingInv'
<1>1. PICK v : v = [NoRequest EXCEPT !.todo = todo, !.since = store]
  OBVIOUS
<1>2. /\ store \subseteq Row /\ local \in [Thread -> View] /\ pc \in [Thread -> Control]
      /\ cache \in [Process -> Cache] /\ cache[Home[t]] \in Cache /\ StoreNumbered /\ Cardinality(store) \in Nat
  BY Typed, FS_CardinalityType DEF StoreNumbered
<1>3. v \in View /\ v.todo = todo /\ v.since = store /\ v.after = 0 /\ v.seen = {}
  <2>1. NoRequest \in View /\ NoRequest.after = 0 /\ NoRequest.seen = {} /\ todo \in Todo
    BY RecordTypes DEF NoRequest, Todo
  <2> QED
    BY <1>1, <1>2, <2>1 DEF View
<1>4. Becomes(t, v, "scan")
  BY <1>1, <1>2, <1>3 DEF Request, Becomes, Goto, Control
<1>5. TablesGrow
  BY Typed DEF Request, TablesGrow
<1>6. local'[t] = v /\ pc'[t] = "scan" /\ store' = store /\ Place(t)' = "scan"
  BY <1>2, <1>4, <1>5 DEF Becomes, TablesGrow, Place
<1>7. \A r \in store : r.at \in Nat \ {0}
  BY <1>2 DEF StoreNumbered
<1>8. ScanFits(t)'
  BY <1>2, <1>3, <1>6, <1>7 DEF ScanFits
<1>9. RequestFits(t)'
  BY <1>3, <1>6 DEF RequestFits, Todo
<1>10. UNCHANGED <<table, cache, alone>> /\ t \notin InRegistry
  BY DEF Request, InRegistry
<1> QED
  BY <1>4, <1>5, <1>8, <1>9, <1>10, StepAt

\* The highest position of a page that is not empty.
LEMMA PageEnd ==
  ASSUME StoreNumbered, PageAssumption, NEW t \in Thread, local[t].after \in Nat,
         local[t].after <= Cardinality(store), PageOf(t) # {}
  PROVE  LET k == Max({r.at : r \in PageOf(t)}) IN
         /\ k \in Nat /\ local[t].after < k /\ k <= Cardinality(store)
         /\ PageOf(t) = {r \in store : r.at > local[t].after /\ r.at <= k}
<1> DEFINE A == {r.at : r \in PageOf(t)}
<1>1. PICK n \in Nat : n = Cardinality(store)
  BY FS_CardinalityType DEF StoreNumbered
<1>2. PICK a \in Nat : a = local[t].after
  OBVIOUS
<1>3. PICK z \in Nat : z = a + PageSize /\ z > a
  BY PageAssumption
<1>4. PageOf(t) = {r \in store : r.at > a /\ r.at <= z}
  BY <1>2, <1>3, PageIsNext
<1>5. {r.at : r \in store} = 1..n
  BY <1>1 DEF StoreNumbered
<1>6. PICK h \in Nat : h = (IF z <= n THEN z ELSE n)
  OBVIOUS
<1>7. \A r \in store : r.at \in 1..n
  BY <1>5
<1>8. n > a
  <2>1. PICK r \in store : r.at > a
    BY <1>4
  <2> QED
    BY <1>7, <2>1
<1>9. h \in A
  <2>1. h \in 1..n /\ h > a /\ h <= z
    BY <1>3, <1>6, <1>8
  <2>2. PICK r \in store : r.at = h
    BY <1>5, <2>1
  <2> QED
    BY <1>4, <2>1, <2>2
<1>10. \A i \in A : i \in Nat /\ i <= h
  BY <1>4, <1>6, <1>7
<1>11. Max(A) = h
  <2> HIDE DEF A
  <2>1. h \in A /\ \A i \in A : h >= i
    BY <1>9, <1>10
  <2>2. \A m \in A : (\A i \in A : m >= i) => m = h
    BY <1>9, <1>10
  <2> QED
    BY <2>1, <2>2 DEF Max
<1>12. PageOf(t) = {r \in store : r.at > a /\ r.at <= h}
  BY <1>4, <1>6, <1>7
<1>13. h > a /\ h <= n
  BY <1>3, <1>6, <1>8
<1> QED
  BY <1>1, <1>2, <1>11, <1>12, <1>13

\* A page extends what the scan has seen without a hole; when it was the last, the scan has
\* seen all there is, and what there was when it began.
LEMMA ScanKeeps ==
  ASSUME WellbeingInv, NEW t \in Thread, ScanPage(t)
  PROVE  WellbeingInv'
<1>1. /\ local \in [Thread -> View] /\ pc \in [Thread -> Control]
      /\ cache \in [Process -> Cache] /\ cache[Home[t]] \in Cache /\ local[t] \in View /\ store \subseteq Row
      /\ StoreNumbered /\ pc[t] = "scan" /\ Place(t) = "scan" /\ ScanFits(t) /\ RequestFits(t)
  BY Typed DEF ScanPage, Place
<1>2. PICK n \in Nat : n = Cardinality(store)
  BY <1>1, FS_CardinalityType DEF StoreNumbered
<1>3. PICK a \in Nat : a = local[t].after /\ a <= n
  BY <1>1, <1>2 DEF View, ScanFits
<1>4. local[t].seen = {r \in store : r.at <= a} /\ local[t].since \subseteq store
  BY <1>1, <1>3 DEF ScanFits
<1>5. PICK page : page = PageOf(t)
  OBVIOUS
<1>6. \A r \in store : r.at \in 1..n
  BY <1>1, <1>2 DEF StoreNumbered
<1>7. PICK k \in Nat : /\ k = (IF page = {} THEN local[t].after ELSE Max({r.at : r \in page}))
                       /\ k <= n /\ local[t].seen \cup page = {r \in store : r.at <= k}
  <2>1. CASE page = {}
    BY <1>3, <1>4, <2>1
  <2>2. CASE page # {}
    <3>1. PICK k \in Nat : /\ k = Max({r.at : r \in page}) /\ a < k /\ k <= n
                           /\ page = {r \in store : r.at > a /\ r.at <= k}
      BY <1>1, <1>2, <1>3, <1>5, <2>2, PageEnd, PageAssumption
    <3>2. local[t].seen \cup page = {r \in store : r.at <= k}
      <4>1. \A r \in store : r.at <= k <=> r.at <= a \/ (r.at > a /\ r.at <= k)
        <5>1. \A r \in store : r.at \in Nat
          BY <1>6
        <5> QED
          BY <3>1, <5>1
      <4> QED
        BY <1>4, <3>1, <4>1
    <3> QED
      BY <2>2, <3>1, <3>2
  <2> QED
    BY <2>1, <2>2
<1>8. Cardinality(page) < PageSize => local[t].seen \cup page = store
  <2> SUFFICES ASSUME Cardinality(page) < PageSize PROVE local[t].seen \cup page = store
    OBVIOUS
  <2>1. page = {r \in store : r.at > a}
    BY <1>1, <1>2, <1>3, <1>5, PageIsNext, PageAssumption
  <2> QED
    BY <1>4, <1>6, <2>1
<1>9. PICK v : v = [local[t] EXCEPT !.seen = local[t].seen \cup page, !.after = k]
  OBVIOUS
<1>10. /\ v \in View /\ v.seen = local[t].seen \cup page /\ v.after = k
       /\ v.since = local[t].since /\ v.todo = local[t].todo
  <2>1. page \subseteq Row
    BY <1>1, <1>5 DEF PageOf
  <2> QED
    BY <1>1, <1>7, <1>9, <2>1 DEF View
<1>11. PICK at \in {"scan", "compute"} : at = IF Cardinality(page) < PageSize THEN "compute" ELSE "scan"
  OBVIOUS
<1>12. /\ local' = [local EXCEPT ![t] = v] /\ pc' = [pc EXCEPT ![t] = at]
       /\ UNCHANGED <<store, table, formulas, snapshots, cache, alone, born, requests, exclusions, restarts>>
  <2>1. local' = [local EXCEPT ![t].seen = local[t].seen \cup page, ![t].after = k]
    BY <1>5, <1>7 DEF ScanPage
  <2>2. local' = [local EXCEPT ![t] = v]
    BY <1>1, <1>9, <2>1
  <2> QED
    BY <1>5, <1>11, <2>2 DEF ScanPage, Goto, bounded
<1>13. Becomes(t, v, at)
  BY <1>10, <1>11, <1>12 DEF Becomes, Control
<1>14. TablesGrow
  BY <1>12, Typed DEF TablesGrow
<1>15. local'[t] = v /\ pc'[t] = at /\ Place(t)' = at
  BY <1>1, <1>11, <1>12 DEF Place
<1>16. ScanFits(t)'
  BY <1>2, <1>4, <1>7, <1>8, <1>10, <1>11, <1>12, <1>15 DEF ScanFits
<1>17. RequestFits(t)'
  BY <1>1, <1>10, <1>11, <1>15 DEF RequestFits
<1>18. UNCHANGED <<table, cache, alone>> /\ t \notin InRegistry
  BY <1>1, <1>12 DEF InRegistry
<1> QED
  BY <1>11, <1>13, <1>14, <1>16, <1>17, <1>18, StepAt

\* The computation takes the exclusions and notes the formula rows that are missing.
LEMMA ComputeKeeps ==
  ASSUME WellbeingInv, NEW t \in Thread, Compute(t)
  PROVE  WellbeingInv'
<1>1. /\ local \in [Thread -> View] /\ pc \in [Thread -> Control]
      /\ cache[Home[t]] \in Cache /\ local[t] \in View
      /\ formulas \subseteq Formula /\ pc[t] = "compute" /\ Place(t) = "compute" /\ RequestFits(t)
  BY Typed DEF Compute, Place
<1>2. PICK ids : ids = cache[Home[t]].ids
  OBVIOUS
<1>3. ids \subseteq Excludable
  BY <1>1, <1>2 DEF Cache
<1>4. PICK v : v = [local[t] EXCEPT !.excluded = Bootstrap \cup ids, !.missing = Formula \ formulas,
                                    !.since = {}, !.after = 0]
  OBVIOUS
<1>5. v \in View /\ v.missing = Formula \ formulas /\ v.todo = local[t].todo
  BY <1>1, <1>3, <1>4 DEF View
<1>6. /\ local' = [local EXCEPT ![t] = v] /\ pc' = [pc EXCEPT ![t] = "store"]
      /\ UNCHANGED <<store, table, formulas, snapshots, cache, alone, born, requests, exclusions, restarts>>
  BY <1>1, <1>2, <1>4 DEF Compute, Goto, bounded
<1>7. Becomes(t, v, "store")
  BY <1>5, <1>6 DEF Becomes, Control
<1>8. TablesGrow
  BY <1>6, Typed DEF TablesGrow
<1>9. local'[t] = v /\ pc'[t] = "store" /\ Place(t)' = "store"
  BY <1>1, <1>6 DEF Place
<1>10. ScanFits(t)'
  BY <1>9 DEF ScanFits
<1>11. RequestFits(t)'
  BY <1>1, <1>5, <1>6, <1>9 DEF RequestFits
<1>12. UNCHANGED <<table, cache, alone>> /\ t \notin InRegistry
  BY <1>1, <1>6 DEF InRegistry
<1> QED
  BY <1>7, <1>8, <1>10, <1>11, <1>12, StepAt

\* What is to do begins with a formula, and after V1 at most V2 is left.
LEMMA TodoFacts == \A t \in Todo : t[1] \in Formula /\ (Len(t) > 1 => Tail(t) = <<"V2">>)
<1> SUFFICES ASSUME NEW t \in Todo PROVE t[1] \in Formula /\ (Len(t) > 1 => Tail(t) = <<"V2">>)
  OBVIOUS
<1>1. CASE t = <<"V1">>
  BY <1>1 DEF Formula
<1>2. CASE t = <<"V2">>
  BY <1>2 DEF Formula
<1>3. CASE t = <<"V1", "V2">>
  <2>1. Tail(<<"V1", "V2">>) = <<"V2">>
    OBVIOUS
  <2> QED
    BY <1>3, <2>1 DEF Formula
<1> QED
  BY <1>1, <1>2, <1>3 DEF Todo

\* With a snapshot the row of its formula is there.
LEMMA StoreKeeps ==
  ASSUME WellbeingInv, NEW t \in Thread, StoreSnapshot(t)
  PROVE  WellbeingInv'
<1> DEFINE conflict == local[t].missing \cap formulas # {}
           more == ~conflict /\ Len(local[t].todo) > 1
<1>1. /\ local \in [Thread -> View] /\ pc \in [Thread -> Control]
      /\ cache \in [Process -> Cache] /\ cache[Home[t]] \in Cache /\ local[t] \in View /\ table \subseteq Excludable
      /\ formulas \subseteq Formula /\ pc[t] = "store" /\ store \subseteq Row /\ StoreNumbered
      /\ {s.formula : s \in snapshots} \subseteq formulas
      /\ local[t].todo \in Todo /\ Formula \subseteq formulas \cup local[t].missing
      /\ requests \in Nat /\ exclusions \in Nat /\ restarts \in Nat
  <2>1. pc[t] = "store" /\ Place(t) = "store"
    BY DEF StoreSnapshot, Place
  <2> QED
    BY <2>1, Typed DEF RequestFits
<1>2. local[t].todo[1] \in Formula /\ (Len(local[t].todo) > 1 => Tail(local[t].todo) = <<"V2">>)
  BY <1>1, TodoFacts
<1>3. /\ formulas' = IF conflict THEN formulas ELSE formulas \cup local[t].missing
      /\ \E result : snapshots' = IF conflict THEN snapshots
                                  ELSE snapshots \cup {[formula |-> local[t].todo[1], result |-> result]}
      /\ UNCHANGED <<store, table, cache, alone, born, requests, exclusions, restarts>>
  BY DEF StoreSnapshot, bounded
<1>4. TablesGrow
  <2>1. formulas \subseteq formulas' /\ formulas' \subseteq Formula
    BY <1>1, <1>3 DEF View
  <2>2. {s.formula : s \in snapshots'} \subseteq formulas'
    <3>1. CASE conflict
      BY <1>1, <1>3, <3>1
    <3>2. CASE ~conflict
      <4>1. PICK s : snapshots' = snapshots \cup {s} /\ s.formula = local[t].todo[1]
        <5>1. PICK result : snapshots' = IF conflict THEN snapshots
                                         ELSE snapshots \cup {[formula |-> local[t].todo[1], result |-> result]}
          BY <1>3
        <5>2. PICK s : s = [formula |-> local[t].todo[1], result |-> result]
          OBVIOUS
        <5>3. snapshots' = snapshots \cup {s}
          BY <3>2, <5>1, <5>2
        <5>4. s.formula = local[t].todo[1]
          BY <5>2
        <5> QED
          BY <5>3, <5>4
      <4>2. local[t].todo[1] \in formulas'
        BY <1>1, <1>2, <1>3, <3>2
      <4> QED
        BY <1>1, <2>1, <4>1, <4>2
    <3> QED
      BY <3>1, <3>2
  <2> QED
    BY <1>1, <1>3, <2>1, <2>2 DEF TablesGrow
<1>5. PICK v : v = IF more THEN [NoRequest EXCEPT !.todo = Tail(local[t].todo), !.since = store] ELSE NoRequest
  OBVIOUS
<1>6. PICK at \in {"scan", "idle"} : at = IF more THEN "scan" ELSE "idle"
  OBVIOUS
<1>7. v \in View /\ (more => v.todo = <<"V2">> /\ v.since = store /\ v.after = 0 /\ v.seen = {})
  BY <1>1, <1>2, <1>5, RecordTypes DEF NoRequest, View, Todo
<1>8. local' = [local EXCEPT ![t] = v] /\ pc' = [pc EXCEPT ![t] = at]
  BY <1>5, <1>6 DEF StoreSnapshot, Goto
<1>9. Becomes(t, v, at)
  BY <1>6, <1>7, <1>8 DEF Becomes, Control
<1>10. local'[t] = v /\ pc'[t] = at /\ Place(t)' = at
  BY <1>1, <1>6, <1>8 DEF Place
<1>11. \A r \in store : r.at \in Nat \ {0}
  <2>1. {r.at : r \in store} = 1..Cardinality(store)
    BY <1>1 DEF StoreNumbered
  <2> QED
    BY <2>1
<1>12. ScanFits(t)' /\ RequestFits(t)'
  <2>1. CASE at = "idle"
    BY <1>10, <2>1 DEF ScanFits, RequestFits
  <2>2. CASE at = "scan"
    <3>1. more
      BY <1>6, <2>2
    <3>2. Cardinality(store) \in Nat
      BY <1>1, FS_CardinalityType DEF StoreNumbered
    <3>3. ScanFits(t)'
      BY <1>3, <1>7, <1>10, <1>11, <2>2, <3>1, <3>2 DEF ScanFits
    <3>4. RequestFits(t)'
      BY <1>7, <1>10, <2>2, <3>1 DEF RequestFits, Todo
    <3> QED
      BY <3>3, <3>4
  <2> QED
    BY <2>1, <2>2
<1>13. UNCHANGED <<table, cache, alone>> /\ t \notin InRegistry
  BY <1>1, <1>3 DEF InRegistry
<1> QED
  BY <1>4, <1>6, <1>9, <1>12, <1>13, StepAt

\* A thread whose process has no cache goes to load it, and keeps its place.
LEMMA MissKeeps ==
  ASSUME WellbeingInv, NEW t \in Thread, MissCache(t)
  PROVE  WellbeingInv'
<1>1. /\ local \in [Thread -> View] /\ pc \in [Thread -> Control] /\ local[t] \in View
      /\ pc[t] \in {"compute", "exclude"} /\ Place(t) = pc[t] /\ ScanFits(t) /\ RequestFits(t)
  BY Typed DEF MissCache, Place
<1>2. PICK v : v = [local[t] EXCEPT !.next = pc[t]]
  OBVIOUS
<1>3. /\ v \in View /\ v.next = pc[t] /\ v.seen = local[t].seen /\ v.after = local[t].after
      /\ v.since = local[t].since /\ v.todo = local[t].todo /\ v.target = local[t].target
      /\ v.missing = local[t].missing
  BY <1>1, <1>2 DEF View
<1>4. /\ local' = [local EXCEPT ![t] = v] /\ pc' = [pc EXCEPT ![t] = "load"]
      /\ UNCHANGED <<store, table, formulas, snapshots, cache, alone, born, requests, exclusions, restarts>>
  BY <1>1, <1>2 DEF MissCache, Goto, bounded
<1>5. Becomes(t, v, "load") /\ TablesGrow
  BY <1>3, <1>4, Typed DEF Becomes, TablesGrow, Control
<1>6. local'[t] = v /\ pc'[t] = "load" /\ Place(t)' = Place(t)
  BY <1>1, <1>3, <1>4 DEF Place
<1>7. ScanFits(t)'
  BY <1>1, <1>3, <1>4, <1>6 DEF ScanFits
<1>8. RequestFits(t)'
  BY <1>1, <1>3, <1>4, <1>6 DEF RequestFits
<1>9. UNCHANGED <<table, cache, alone>> /\ t \notin InRegistry
  BY <1>1, <1>4 DEF InRegistry
<1> QED
  BY <1>5, <1>7, <1>8, <1>9, StepAt

\* Whoever reads the table crosses the way of the other threads of its process.
LEMMA ReadKeeps ==
  ASSUME WellbeingInv, NEW t \in Thread, NEW c \in Cache, NEW next \in {"compute", "exclude", "excluding", "idle"},
         ReadTable(t, c, next),
         c.state = "loaded" => born[Home[t]] \subseteq c.ids,
         next = "excluding" => c.state = "loaded" /\ local[t].target \in c.ids,
         next = "idle" \/ Place(t) = next \/ (next = "excluding" /\ pc[t] = "refresh"),
         t \notin InRegistry
  PROVE  WellbeingInv'
<1>1. /\ local \in [Thread -> View] /\ pc \in [Thread -> Control] /\ local[t] \in View
      /\ ScanFits(t) /\ RequestFits(t) /\ CachesFit /\ AloneFits /\ alone \subseteq Thread
      /\ table \subseteq Excludable /\ cache \in [Process -> Cache]
  BY Typed DEF WellbeingInv
<1>2. PICK v : v = [local[t] EXCEPT !.loaded = c, !.next = next]
  OBVIOUS
<1>3. /\ v \in View /\ v.next = next /\ v.loaded = c /\ v.seen = local[t].seen /\ v.after = local[t].after
      /\ v.since = local[t].since /\ v.todo = local[t].todo /\ v.target = local[t].target
      /\ v.missing = local[t].missing
  BY <1>1, <1>2 DEF View
<1>4. /\ local' = [local EXCEPT ![t] = v] /\ pc' = [pc EXCEPT ![t] = "overwrite"]
      /\ UNCHANGED <<store, table, formulas, snapshots, cache, born, requests, exclusions, restarts>>
  BY <1>1, <1>2 DEF ReadTable, Goto, bounded
<1>5. Becomes(t, v, "overwrite") /\ TablesGrow
  BY <1>3, <1>4, Typed DEF Becomes, TablesGrow, Control
<1>6. local'[t] = v /\ pc'[t] = "overwrite" /\ Place(t)' = next
  BY <1>1, <1>3, <1>4 DEF Place
<1>7. ScanFits(t)'
  <2>1. next \in {"scan", "compute"} => Place(t) = next
    OBVIOUS
  <2> QED
    BY <1>1, <1>3, <1>4, <1>6, <2>1 DEF ScanFits
<1>8. RequestFits(t)'
  <2>1. next = "compute" => local[t].todo \in Todo
    BY <1>1 DEF RequestFits
  <2>2. next \in {"exclude", "excluding"} => local[t].target \in Excludable
    BY <1>1 DEF RequestFits, Place
  <2> QED
    BY <1>3, <1>6, <2>1, <2>2 DEF RequestFits
<1>9. LoadedFits(t)'
  BY <1>3, <1>4, <1>6 DEF LoadedFits
<1>10. CachesFit'
  BY <1>1, <1>4 DEF CachesFit
<1>11. alone' = (alone \ (Mates(t) \cup {t})) \cup (IF Mates(t) \cap InRegistry = {} THEN {t} ELSE {})
  BY DEF ReadTable
<1>12. InRegistry' = InRegistry \cup {t}
  BY <1>1, <1>4 DEF InRegistry
<1>13. AloneFits'
  <2>1. \A u \in Thread : Mates(u)' = Mates(u)
    BY DEF Mates
  <2>2. ASSUME NEW u \in alone'
        PROVE  /\ u \in InRegistry' /\ Mates(u) \cap InRegistry' = {}
               /\ pc'[u] = "excluding" => local'[u].target \in cache'[Home[u]].ids
    <3>1. CASE u = t
      BY <1>6, <1>11, <1>12, <3>1 DEF Mates
    <3>2. CASE u # t
      <4>1. u \in alone /\ u \notin Mates(t) /\ u \in Thread
        BY <1>1, <1>11, <3>2
      <4>2. t \notin Mates(u)
        BY <3>2, <4>1 DEF Mates
      <4>3. pc'[u] = pc[u] /\ local'[u] = local[u]
        BY <1>1, <1>4, <3>2, <4>1
      <4> QED
        BY <1>1, <1>4, <1>12, <4>1, <4>2, <4>3 DEF AloneFits
    <3> QED
      BY <3>1, <3>2
  <2>3. alone' \subseteq Thread
    BY <1>1, <1>11
  <2> QED
    BY <2>1, <2>2, <2>3 DEF AloneFits
<1>14. alone' \subseteq Thread /\ table' \subseteq Excludable /\ cache' \in [Process -> Cache]
  BY <1>1, <1>4, <1>11
<1> QED
  BY <1>5, <1>7, <1>8, <1>9, <1>10, <1>13, <1>14, StepIn

\* What is read is what is committed, with what the reader itself has flushed, or nothing.
LEMMA RegistryReads ==
  ASSUME WellbeingInv, NEW t \in Thread, LoadRegistry(t) \/ RefreshRegistry(t)
  PROVE  WellbeingInv'
<1>1. /\ table \subseteq Excludable /\ Home[t] \in Process /\ RequestFits(t) /\ born[Home[t]] \subseteq table
  BY Typed DEF WellbeingInv, CachesFit
<1>2. Failed.state = "failed" /\ Failed \in Cache
  BY RecordTypes DEF Failed
<1>3. \A ids \in SUBSET Excludable : Loaded(ids) \in Cache /\ Loaded(ids).state = "loaded" /\ Loaded(ids).ids = ids
  BY RecordTypes DEF Loaded
<1>4. t \notin InRegistry
  BY DEF InRegistry, LoadRegistry, RefreshRegistry
<1>5. CASE LoadRegistry(t)
  <2>1. PICK next \in {"compute", "exclude"} : next = local[t].next /\ Place(t) = next
    BY <1>1, <1>5 DEF LoadRegistry, RequestFits, Place
  <2>2. PICK c \in {Loaded(table), Failed} : ReadTable(t, c, next)
    BY <1>5, <2>1 DEF LoadRegistry
  <2>3. c \in Cache /\ (c.state = "loaded" => born[Home[t]] \subseteq c.ids)
    BY <1>1, <1>2, <1>3, <2>2
  <2>4. c.state = "loaded" => born[Home[t]] \subseteq c.ids
    BY <2>3
  <2>5. c \in Cache /\ next # "excluding"
    BY <2>1, <2>3
  <2> QED
    BY <1>4, <2>1, <2>2, <2>4, <2>5, ReadKeeps
<1>6. CASE RefreshRegistry(t)
  <2>1. pc[t] = "refresh" /\ local[t].target \in Excludable
    BY <1>1, <1>6 DEF RefreshRegistry, RequestFits, Place
  <2>2. PICK ids \in SUBSET Excludable : ids = Visible(local[t].target)
    BY <1>1, <2>1 DEF Visible
  <2>3. local[t].target \in ids /\ born[Home[t]] \subseteq ids
    BY <1>1, <2>2 DEF Visible
  <2>4. CASE ReadTable(t, Loaded(ids), "excluding")
    <3>1. PICK c \in Cache : c = Loaded(ids)
      BY <1>3
    <3>2. c.state = "loaded" /\ c.ids = ids /\ ReadTable(t, c, "excluding")
      BY <1>3, <2>4, <3>1
    <3> QED
      BY <1>4, <2>1, <2>3, <3>2, ReadKeeps
  <2>5. CASE ReadTable(t, Failed, "idle")
    BY <1>2, <1>4, <2>5, ReadKeeps
  <2> QED
    BY <1>6, <2>2, <2>4, <2>5 DEF RefreshRegistry
<1> QED
  BY <1>5, <1>6

\* The cache becomes what was read; whose way nobody crossed has no mate in the registry
\* whose cache this could be.
LEMMA OverwriteKeeps ==
  ASSUME WellbeingInv, NEW t \in Thread, OverwriteCache(t)
  PROVE  WellbeingInv'
<1>1. /\ local \in [Thread -> View] /\ pc \in [Thread -> Control] /\ local[t] \in View
      /\ ScanFits(t) /\ RequestFits(t) /\ LoadedFits(t) /\ CachesFit /\ AloneFits /\ alone \subseteq Thread
      /\ table \subseteq Excludable /\ cache \in [Process -> Cache] /\ Home[t] \in Process
      /\ pc[t] = "overwrite"
  BY Typed DEF WellbeingInv, OverwriteCache
<1>2. PICK next \in {"compute", "exclude", "excluding", "idle"} : next = local[t].next
  BY <1>1 DEF View
<1>3. PICK c \in Cache : c = local[t].loaded
  BY <1>1 DEF View
<1>4. PICK v : v = IF next = "idle" THEN NoRequest ELSE [local[t] EXCEPT !.loaded = Unloaded, !.next = "idle"]
  OBVIOUS
<1>5. /\ v \in View
      /\ next # "idle" => /\ v.seen = local[t].seen /\ v.after = local[t].after
                          /\ v.since = local[t].since /\ v.todo = local[t].todo
                          /\ v.target = local[t].target /\ v.missing = local[t].missing
  <2>1. CASE next = "idle"
    BY <1>4, <2>1, RecordTypes
  <2>2. CASE next # "idle"
    <3>1. v = [local[t] EXCEPT !.loaded = Unloaded, !.next = "idle"]
      BY <1>4, <2>2
    <3> QED
      BY <1>1, <3>1, RecordTypes DEF View
  <2> QED
    BY <2>1, <2>2
<1>6. /\ local' = [local EXCEPT ![t] = v] /\ pc' = [pc EXCEPT ![t] = next]
      /\ cache' = [cache EXCEPT ![Home[t]] = c]
      /\ alone' = IF next = "excluding" THEN alone ELSE alone \ {t}
      /\ UNCHANGED <<store, table, formulas, snapshots, born, requests, exclusions, restarts>>
  BY <1>2, <1>3, <1>4 DEF OverwriteCache, Goto, bounded
<1>7. Becomes(t, v, next) /\ TablesGrow
  BY <1>5, <1>6, Typed DEF Becomes, TablesGrow, Control
<1>8. local'[t] = v /\ pc'[t] = next /\ Place(t)' = next /\ Place(t) = next
  BY <1>1, <1>2, <1>6 DEF Place
<1>9. ScanFits(t)'
  BY <1>1, <1>5, <1>6, <1>8 DEF ScanFits
<1>10. RequestFits(t)'
  BY <1>1, <1>5, <1>6, <1>8 DEF RequestFits
<1>11. LoadedFits(t)'
  BY <1>8 DEF LoadedFits
<1>12. CachesFit'
  BY <1>1, <1>3, <1>6 DEF CachesFit, LoadedFits
<1>13. AloneFits'
  <2>1. \A u \in Thread : Mates(u)' = Mates(u)
    BY DEF Mates
  <2>2. InRegistry' \subseteq InRegistry /\ InRegistry \ {t} \subseteq InRegistry'
    BY <1>1, <1>6 DEF InRegistry
  <2>3. ASSUME NEW u \in alone'
        PROVE  /\ u \in Thread /\ u \in InRegistry' /\ Mates(u) \cap InRegistry' = {}
               /\ pc'[u] = "excluding" => local'[u].target \in cache'[Home[u]].ids
    <3>1. u \in alone /\ u \in Thread
      BY <1>1, <1>6
    <3>2. CASE u = t
      <4>1. next = "excluding"
        BY <1>6, <3>2
      <4>2. local[t].target \in c.ids
        BY <1>1, <1>2, <1>3, <4>1 DEF LoadedFits
      <4>3. t \in InRegistry'
        BY <1>1, <1>8, <4>1 DEF InRegistry
      <4>4. cache'[Home[t]] = c
        BY <1>1, <1>6
      <4> QED
        BY <1>1, <1>5, <1>8, <2>2, <3>1, <3>2, <4>1, <4>2, <4>3, <4>4 DEF AloneFits
    <3>3. CASE u # t
      <4>1. t \in InRegistry
        BY <1>1 DEF InRegistry
      <4>2. Home[u] # Home[t]
        BY <1>1, <3>1, <3>3, <4>1 DEF AloneFits, Mates
      <4>3. pc'[u] = pc[u] /\ local'[u] = local[u] /\ cache'[Home[u]] = cache[Home[u]]
        BY <1>1, <1>6, <3>1, <3>3, <4>2, HomeAssumption
      <4>4. u \in InRegistry'
        BY <1>1, <2>2, <3>1, <3>3 DEF AloneFits
      <4> QED
        BY <1>1, <2>2, <3>1, <4>3, <4>4 DEF AloneFits
    <3> QED
      BY <3>2, <3>3
  <2> QED
    BY <1>1, <1>6, <2>1, <2>3 DEF AloneFits
<1>14. alone' \subseteq Thread /\ table' \subseteq Excludable /\ cache' \in [Process -> Cache]
  BY <1>1, <1>3, <1>6
<1> QED
  BY <1>7, <1>9, <1>10, <1>11, <1>12, <1>13, <1>14, StepIn

\* An exclusion begins, and is flushed or refused.
LEMMA AppendKeeps ==
  ASSUME WellbeingInv, NEW t \in Thread,
         (\E id \in Excludable : AppendExclusion(t, id)) \/ FlushExclusion(t)
  PROVE  WellbeingInv'
<1>1. /\ local \in [Thread -> View] /\ pc \in [Thread -> Control] /\ local[t] \in View
      /\ RequestFits(t) /\ exclusions + 1 \in Nat
  BY Typed
<1>2. CASE \E id \in Excludable : AppendExclusion(t, id)
  <2>1. PICK id \in Excludable : AppendExclusion(t, id)
    BY <1>2
  <2>2. PICK v : v = [local[t] EXCEPT !.target = id]
    OBVIOUS
  <2>3. v \in View /\ v.target = id
    BY <1>1, <2>2 DEF View
  <2>4. Becomes(t, v, "exclude")
    BY <1>1, <2>1, <2>2, <2>3 DEF AppendExclusion, Becomes, Goto, Control
  <2>5. TablesGrow
    BY <1>1, <2>1, Typed DEF AppendExclusion, TablesGrow
  <2>6. local'[t] = v /\ pc'[t] = "exclude" /\ Place(t)' = "exclude"
    BY <1>1, <2>4 DEF Becomes, Place
  <2>7. ScanFits(t)' /\ RequestFits(t)'
    BY <2>3, <2>6 DEF ScanFits, RequestFits
  <2>8. UNCHANGED <<table, cache, alone>> /\ t \notin InRegistry
    BY <2>1 DEF AppendExclusion, InRegistry
  <2> QED
    BY <2>4, <2>5, <2>7, <2>8, StepAt
<1>3. CASE FlushExclusion(t)
  <2>1. PICK refused \in BOOLEAN :
          /\ local' = IF refused THEN [local EXCEPT ![t] = NoRequest] ELSE local
          /\ pc' = [pc EXCEPT ![t] = IF refused THEN "idle" ELSE "refresh"]
    <3> DEFINE refused == local[t].target \in Bootstrap \cup cache[Home[t]].ids \cup table
    <3>1. /\ local' = IF refused THEN [local EXCEPT ![t] = NoRequest] ELSE local
          /\ pc' = [pc EXCEPT ![t] = IF refused THEN "idle" ELSE "refresh"]
      BY <1>3 DEF FlushExclusion, Goto
    <3> HIDE DEF refused
    <3>2. CASE refused
      BY <3>1, <3>2
    <3>3. CASE ~refused
      BY <3>1, <3>3
    <3> QED
      BY <3>2, <3>3
  <2>2. /\ pc[t] = "exclude" /\ UNCHANGED <<store, table, formulas, snapshots, cache, alone, born>>
        /\ UNCHANGED <<requests, exclusions, restarts>>
    BY <1>3 DEF FlushExclusion, bounded
  <2>3. TablesGrow /\ t \notin InRegistry
    BY <2>2, Typed DEF TablesGrow, InRegistry
  <2>4. CASE refused
    <3>1. Becomes(t, NoRequest, "idle")
      BY <2>1, <2>4, RecordTypes DEF Becomes, Control
    <3>2. Place(t)' = "idle" /\ pc'[t] = "idle"
      BY <1>1, <3>1 DEF Becomes, Place
    <3>3. ScanFits(t)' /\ RequestFits(t)'
      BY <3>2 DEF ScanFits, RequestFits
    <3> QED
      BY <2>2, <2>3, <3>1, <3>3, StepAt
  <2>5. CASE ~refused
    <3>1. Becomes(t, local[t], "refresh")
      BY <1>1, <2>1, <2>5 DEF Becomes, Control
    <3>2. Place(t)' = "refresh" /\ pc'[t] = "refresh" /\ local'[t] = local[t] /\ Place(t) = "exclude"
      BY <1>1, <2>2, <3>1 DEF Becomes, Place
    <3>3. ScanFits(t)' /\ RequestFits(t)'
      BY <1>1, <3>2 DEF ScanFits, RequestFits
    <3> QED
      BY <2>2, <2>3, <3>1, <3>3, StepAt
  <2> QED
    BY <2>1, <2>4, <2>5
<1> QED
  BY <1>2, <1>3

\* The table grows by an exclusion, or stays.
LEMMA EndKeeps ==
  ASSUME WellbeingInv, NEW t \in Thread, EndExclusion(t)
  PROVE  WellbeingInv'
<1>1. /\ local \in [Thread -> View] /\ pc \in [Thread -> Control]
      /\ RequestFits(t) /\ CachesFit /\ AloneFits /\ alone \subseteq Thread
      /\ table \subseteq Excludable /\ cache \in [Process -> Cache] /\ pc[t] = "excluding"
  BY Typed DEF WellbeingInv, EndExclusion
<1>2. /\ local' = [local EXCEPT ![t] = NoRequest] /\ pc' = [pc EXCEPT ![t] = "idle"]
      /\ table' \in {table, table \cup {local[t].target}} /\ alone' = alone \ {t}
      /\ UNCHANGED <<store, formulas, snapshots, cache, born, requests, exclusions, restarts>>
  BY DEF EndExclusion, Goto, bounded
<1>3. Becomes(t, NoRequest, "idle") /\ TablesGrow
  BY <1>2, RecordTypes, Typed DEF Becomes, TablesGrow, Control
<1>4. pc'[t] = "idle" /\ Place(t)' = "idle"
  BY <1>1, <1>2 DEF Place
<1>5. ScanFits(t)' /\ RequestFits(t)' /\ LoadedFits(t)'
  BY <1>4 DEF ScanFits, RequestFits, LoadedFits
<1>6. local[t].target \in Excludable
  BY <1>1 DEF RequestFits, Place
<1>7. table' \subseteq Excludable /\ table \subseteq table' /\ alone' \subseteq Thread /\ cache' \in [Process -> Cache]
  BY <1>1, <1>2, <1>6
<1>8. CachesFit'
  BY <1>1, <1>2, <1>7 DEF CachesFit
<1>9. AloneFits'
  <2>1. \A u \in Thread : Mates(u)' = Mates(u)
    BY DEF Mates
  <2>2. InRegistry' = InRegistry \ {t}
    BY <1>1, <1>2 DEF InRegistry
  <2>3. \A u \in alone' : u \in alone /\ u # t /\ pc'[u] = pc[u] /\ local'[u] = local[u]
    BY <1>1, <1>2
  <2> QED
    BY <1>1, <1>2, <1>7, <2>1, <2>2, <2>3 DEF AloneFits
<1> QED
  BY <1>3, <1>5, <1>7, <1>8, <1>9, StepIn

\* A process that starts has nothing at hand and no cache, and what is committed by then
\* is what it finds.
LEMMA RestartKeeps ==
  ASSUME WellbeingInv, NEW p \in Process, Restart(p)
  PROVE  WellbeingInv'
<1>1. PICK Dead : Dead = {t \in Thread : Home[t] = p}
  OBVIOUS
<1>2. /\ WellbeingTypeOK /\ StoreNumbered /\ CachesFit /\ AloneFits
      /\ \A t \in Thread : ScanFits(t) /\ RequestFits(t) /\ LoadedFits(t)
  BY DEF WellbeingInv
<1>3. /\ local' = [t \in Thread |-> IF t \in Dead THEN NoRequest ELSE local[t]]
      /\ pc' = [t \in Thread |-> IF t \in Dead THEN "idle" ELSE pc[t]]
      /\ cache' = [cache EXCEPT ![p] = Unloaded] /\ born' = [born EXCEPT ![p] = table]
      /\ alone' = alone \ Dead /\ restarts' = restarts + 1
      /\ UNCHANGED <<store, table, formulas, snapshots, requests, exclusions>>
  BY <1>1 DEF Restart
<1>4. WellbeingTypeOK'
  BY <1>2, <1>3, RecordTypes DEF WellbeingTypeOK, Control
<1>5. StoreNumbered'
  BY <1>2, <1>3 DEF StoreNumbered
<1>6. CachesFit'
  BY <1>2, <1>3 DEF CachesFit, WellbeingTypeOK, Unloaded
<1>7. \A t \in Thread \ Dead : pc'[t] = pc[t] /\ local'[t] = local[t] /\ Home[t] # p
  BY <1>1, <1>3
<1>8. \A t \in Dead : pc'[t] = "idle"
  BY <1>1, <1>3
<1>9. AloneFits'
  <2>1. \A u \in Thread : Mates(u)' = Mates(u)
    BY DEF Mates
  <2>2. InRegistry' = InRegistry \ Dead
    BY <1>7, <1>8 DEF InRegistry
  <2>3. ASSUME NEW u \in alone'
        PROVE  /\ u \in Thread /\ u \in InRegistry' /\ Mates(u) \cap InRegistry' = {}
               /\ pc'[u] = "excluding" => local'[u].target \in cache'[Home[u]].ids
    <3>1. u \in alone /\ u \in Thread \ Dead
      BY <1>2, <1>3 DEF WellbeingTypeOK
    <3>2. cache'[Home[u]] = cache[Home[u]]
      BY <1>2, <1>3, <1>7, <3>1, HomeAssumption DEF WellbeingTypeOK
    <3> QED
      BY <1>2, <1>7, <2>2, <3>1, <3>2 DEF AloneFits
  <2> QED
    BY <2>1, <2>3 DEF AloneFits
<1>10. ASSUME NEW t \in Thread PROVE ScanFits(t)' /\ RequestFits(t)' /\ LoadedFits(t)'
  <2>1. CASE t \in Dead
    BY <1>8, <2>1 DEF ScanFits, RequestFits, LoadedFits, Place
  <2>2. CASE t \notin Dead
    <3>1. pc'[t] = pc[t] /\ local'[t] = local[t] /\ Place(t)' = Place(t) /\ born'[Home[t]] = born[Home[t]]
      BY <1>2, <1>3, <1>7, <2>2, HomeAssumption DEF Place, WellbeingTypeOK
    <3>2. ScanFits(t)'
      BY <1>2, <1>3, <3>1 DEF ScanFits
    <3>3. RequestFits(t)'
      BY <1>2, <1>3, <3>1 DEF RequestFits
    <3>4. LoadedFits(t)'
      BY <1>2, <3>1 DEF LoadedFits
    <3> QED
      BY <3>2, <3>3, <3>4
  <2> QED
    BY <2>1, <2>2
<1> QED
  BY <1>4, <1>5, <1>6, <1>9, <1>10 DEF WellbeingInv

\* Nothing is accepted, asked or excluded yet.
LEMMA WellbeingStarts == WellbeingInit => WellbeingInv
<1> SUFFICES ASSUME WellbeingInit PROVE WellbeingInv
  OBVIOUS
<1>1. IsFiniteSet({}) /\ Cardinality({}) = 0 /\ 1..0 = {}
  BY FS_EmptySet
<1>2. StoreNumbered
  BY <1>1 DEF WellbeingInit, StoreNumbered
<1>3. WellbeingTypeOK
  BY <1>1, RecordTypes DEF WellbeingInit, WellbeingTypeOK, Control
<1>4. \A t \in Thread : ScanFits(t) /\ RequestFits(t) /\ LoadedFits(t)
  BY DEF WellbeingInit, ScanFits, RequestFits, LoadedFits, Place
<1>5. CachesFit /\ AloneFits
  BY DEF WellbeingInit, CachesFit, AloneFits, Unloaded
<1> QED
  BY <1>2, <1>3, <1>4, <1>5 DEF WellbeingInv

\* Every step keeps the invariant.
LEMMA WellbeingContinues == WellbeingInv /\ [WellbeingNext]_wellbeingVars => WellbeingInv'
<1> SUFFICES ASSUME WellbeingInv, [WellbeingNext]_wellbeingVars PROVE WellbeingInv'
  OBVIOUS
<1>1. ASSUME NEW x \in Catalogue, Accept(x) PROVE WellbeingInv'
  BY <1>1, AcceptKeeps
<1>2. ASSUME NEW t \in Thread, NEW todo \in {<<"V1">>, <<"V1", "V2">>}, Request(t, todo) PROVE WellbeingInv'
  BY <1>2, RequestKeeps
<1>3. ASSUME NEW t \in Thread, ScanPage(t) \/ Compute(t) \/ StoreSnapshot(t) PROVE WellbeingInv'
  BY <1>3, ScanKeeps, ComputeKeeps, StoreKeeps
<1>4. ASSUME NEW t \in Thread, MissCache(t) \/ LoadRegistry(t) \/ RefreshRegistry(t) \/ OverwriteCache(t)
      PROVE  WellbeingInv'
  BY <1>4, MissKeeps, RegistryReads, OverwriteKeeps
<1>5. ASSUME NEW t \in Thread,
             (\E id \in Excludable : AppendExclusion(t, id)) \/ FlushExclusion(t) \/ EndExclusion(t)
      PROVE  WellbeingInv'
  BY <1>5, AppendKeeps, EndKeeps
<1>6. ASSUME NEW p \in Process, Restart(p) PROVE WellbeingInv'
  BY <1>6, RestartKeeps
<1>7. CASE UNCHANGED wellbeingVars
  <2>1. /\ UNCHANGED <<store, table, formulas, snapshots, cache, pc, local, alone>>
        /\ UNCHANGED <<born, requests, exclusions, restarts>>
    BY <1>7 DEF wellbeingVars
  <2>2. WellbeingTypeOK' /\ StoreNumbered' /\ CachesFit' /\ AloneFits'
    BY <2>1 DEF WellbeingInv, WellbeingTypeOK, StoreNumbered, CachesFit, AloneFits, Mates, InRegistry
  <2>3. \A t \in Thread : ScanFits(t)' /\ RequestFits(t)' /\ LoadedFits(t)'
    BY <2>1 DEF WellbeingInv, ScanFits, RequestFits, LoadedFits, Place
  <2> QED
    BY <2>2, <2>3 DEF WellbeingInv
<1> QED
  BY <1>1, <1>2, <1>3, <1>4, <1>5, <1>6, <1>7 DEF WellbeingNext

\* The rows, the requests in progress and the caches fit together in every reachable state.
THEOREM WellbeingInvariant == WellbeingSpec => []WellbeingInv
  BY WellbeingStarts, WellbeingContinues, PTL DEF WellbeingSpec

\* Type correctness of the read path and of the registry.
THEOREM WellbeingTypes == WellbeingSpec => []WellbeingTypeOK
<1>1. WellbeingInv => WellbeingTypeOK
  BY DEF WellbeingInv
<1> QED
  BY <1>1, WellbeingInvariant, PTL

\* A cohort has no holes and nothing missing that was there when its scan began, however
\* large a page is and however many rows are accepted between two pages.
THEOREM CohortsArePrefixes == WellbeingSpec => []ScanIsPrefix
<1>1. WellbeingInv => ScanIsPrefix
  <2> SUFFICES ASSUME WellbeingInv, NEW t \in Thread, pc[t] = "compute"
               PROVE  /\ local[t].since \subseteq local[t].seen
                      /\ \A r \in local[t].seen, x \in store : x.at <= r.at => x \in local[t].seen
    BY DEF ScanIsPrefix
  <2>1. ScanFits(t) /\ Place(t) = "compute" /\ local[t].after \in Nat /\ store \subseteq Row
    BY Typed DEF View, Place
  <2>2. \A r \in store : r.at \in Nat
    BY <2>1 DEF Row
  <2> QED
    BY <2>1, <2>2 DEF ScanFits
<1> QED
  BY <1>1, WellbeingInvariant, PTL

\* Rows are only ever added, by the write path, each behind all the others.
LEMMA StoreGrows ==
  ASSUME WellbeingInv, [WellbeingNext]_wellbeingVars, store' # store
  PROVE  \E r \in Row : /\ store' = store \cup {r} /\ r \notin store /\ r.at \in Nat
                        /\ \A y \in store : y.at \in Nat /\ y.at < r.at
<1>1. PICK x \in Catalogue : Accept(x)
  BY DEF WellbeingNext, wellbeingVars, Request, ScanPage, Compute, StoreSnapshot, MissCache, LoadRegistry,
         RefreshRegistry, ReadTable, OverwriteCache, AppendExclusion, FlushExclusion, EndExclusion, Restart
<1>2. PICK r : r = [x EXCEPT !.at = Cardinality(store) + 1]
  OBVIOUS
<1>3. /\ store' = store \cup {r} /\ r \in Row /\ r \notin store /\ r.at = Cardinality(store) + 1
      /\ Cardinality(store) \in Nat /\ \A y \in store : y.at < r.at
  BY <1>1, <1>2, AcceptNumbers
<1>4. \A y \in store : y.at \in Nat
  BY DEF WellbeingInv, WellbeingTypeOK, Row
<1> QED
  BY <1>3, <1>4

\* What is evidence of an experiment, or contradicts it, stays so whatever is accepted later.
THEOREM EvidenceStays == WellbeingSpec => EvidenceIsKept
<1>1. ASSUME WellbeingInv, [WellbeingNext]_wellbeingVars
      PROVE  /\ Eligible(store) \subseteq Eligible(store')
             /\ CriticalFailure(store) => CriticalFailure(store')
  <2>1. CASE store' = store
    BY <2>1
  <2>2. CASE store' # store
    <3>1. PICK r \in Row : /\ store' = store \cup {r} /\ r \notin store /\ r.at \in Nat
                           /\ \A y \in store : y.at \in Nat /\ y.at < r.at
      BY <1>1, <2>2, StoreGrows
    <3>2. \A y \in store : y.at <= r.at
      BY <3>1
    <3>3. Eligible(store) \subseteq Eligible(store')
      BY <3>1, <3>2 DEF Eligible
    <3>4. CriticalFailure(store) => CriticalFailure(store')
      BY <3>1, <3>3 DEF CriticalFailure
    <3> QED
      BY <3>3, <3>4
  <2> QED
    BY <2>1, <2>2
<1>2. WellbeingInv /\ [WellbeingNext]_wellbeingVars =>
        [/\ Eligible(store) \subseteq Eligible(store')
         /\ CriticalFailure(store) => CriticalFailure(store')]_wellbeingVars
  BY <1>1
<1> QED
  BY <1>2, WellbeingInvariant, PTL DEF WellbeingSpec, EvidenceIsKept

\* Of a set of rows and one behind them all: it stands for its day, if it says something
\* of a day, and otherwise changes none.
LEMMA NewestAdds ==
  ASSUME NEW S, NEW r, \A y \in S : y.at \in Nat /\ y.at < r.at, r.at \in Nat
  PROVE  Newest(S \cup {r}) = IF r \in DayRows(S \cup {r})
                              THEN {x \in Newest(S) : x.day # r.day} \cup {r} ELSE Newest(S)
<1>1. r \notin S /\ \A y \in S : y.at <= r.at /\ ~(r.at <= y.at) /\ r.at <= r.at
  OBVIOUS
<1>2. CASE r \in DayRows(S \cup {r})
  <2>1. DayRows(S \cup {r}) = DayRows(S) \cup {r}
    BY <1>2 DEF DayRows
  <2>2. DayRows(S) \subseteq S
    BY DEF DayRows
  <2>3. r \in Newest(S \cup {r})
    <3>1. \A x \in DayRows(S \cup {r}) : x.at <= r.at
      BY <1>1, <2>1, <2>2
    <3> QED
      BY <1>2, <3>1 DEF Newest
  <2>4. \A x \in DayRows(S) : x \in Newest(S \cup {r}) <=> x \in Newest(S) /\ x.day # r.day
    BY <1>1, <2>1, <2>2 DEF Newest
  <2>5. Newest(S \cup {r}) \subseteq DayRows(S) \cup {r} /\ Newest(S) \subseteq DayRows(S)
    BY <2>1 DEF Newest
  <2> QED
    BY <1>2, <2>3, <2>4, <2>5
<1>3. CASE r \notin DayRows(S \cup {r})
  <2>1. DayRows(S \cup {r}) = DayRows(S)
    BY <1>3 DEF DayRows
  <2> QED
    BY <1>3, <2>1 DEF Newest
<1> QED
  BY <1>2, <1>3

\* A correction takes the place of what its day said; a test, or someone else's check-in,
\* changes no day.
THEOREM CorrectionsSupersede == WellbeingSpec => EditsSupersede
<1>1. ASSUME WellbeingInv, [WellbeingNext]_wellbeingVars, NEW n \in store' \ store
      PROVE  Days(store') = IF n \in DayRows(Effective(store', Bootstrap))
                            THEN {x \in Days(store) : x.day # n.day} \cup {n} ELSE Days(store)
  <2>1. PICK r \in Row : /\ store' = store \cup {r} /\ r \notin store /\ r.at \in Nat
                         /\ \A y \in store : y.at \in Nat /\ y.at < r.at
    BY <1>1, StoreGrows
  <2>2. n = r
    BY <1>1, <2>1
  <2>3. PICK S : S = Effective(store, Bootstrap)
    OBVIOUS
  <2>4. S \subseteq store
    BY <2>3 DEF Effective
  <2>5. CASE Classify(r, Bootstrap) = "INCLUDED"
    <3>1. Effective(store', Bootstrap) = S \cup {r}
      BY <2>1, <2>3, <2>5 DEF Effective
    <3>2. Newest(S \cup {r}) = IF r \in DayRows(S \cup {r})
                               THEN {x \in Newest(S) : x.day # r.day} \cup {r} ELSE Newest(S)
      BY <2>1, <2>4, NewestAdds
    <3> QED
      BY <2>2, <2>3, <3>1, <3>2 DEF Days
  <2>6. CASE Classify(r, Bootstrap) # "INCLUDED"
    <3>1. Effective(store', Bootstrap) = S
      BY <2>1, <2>3, <2>6 DEF Effective
    <3>2. n \notin DayRows(S)
      BY <2>1, <2>2, <2>4 DEF DayRows
    <3> QED
      BY <2>3, <3>1, <3>2 DEF Days
  <2> QED
    BY <2>5, <2>6
<1>2. WellbeingInv /\ [WellbeingNext]_wellbeingVars =>
        [\A r \in store' \ store :
            Days(store') = IF r \in DayRows(Effective(store', Bootstrap))
                           THEN {x \in Days(store) : x.day # r.day} \cup {r} ELSE Days(store)]_wellbeingVars
  BY <1>1
<1> QED
  BY <1>2, WellbeingInvariant, PTL DEF WellbeingSpec, EditsSupersede

\* What a thread has excluded its process knows as soon as it is committed, if no other of
\* its threads was in the registry meanwhile; and a loaded cache is never older than its
\* process, whichever of them wrote it.
THEOREM ExclusionsAreKept == WellbeingSpec => ExclusionsStay
<1>1. ASSUME WellbeingInv, [WellbeingNext]_wellbeingVars, NEW t \in alone, pc[t] = "excluding", pc'[t] = "idle"
      PROVE  table' \ table \subseteq cache'[Home[t]].ids
  <2>1. t \in Thread /\ pc \in [Thread -> Control] /\ Home \in [Thread -> Process]
    BY <1>1, HomeAssumption DEF WellbeingInv, WellbeingTypeOK
  <2>2. table' # table => \E u \in Thread : EndExclusion(u)
    BY <1>1 DEF WellbeingNext, wellbeingVars, Accept, Request, ScanPage, Compute, StoreSnapshot, MissCache,
                LoadRegistry, RefreshRegistry, ReadTable, OverwriteCache, AppendExclusion, FlushExclusion, Restart
  <2>3. ASSUME NEW u \in Thread, EndExclusion(u) PROVE table' \ table \subseteq cache'[Home[t]].ids
    <3>1. pc' = [pc EXCEPT ![u] = "idle"] /\ table' \ table \subseteq {local[u].target} /\ cache' = cache
      BY <2>3 DEF EndExclusion, Goto
    <3>2. u = t
      BY <1>1, <2>1, <3>1
    <3> QED
      BY <1>1, <3>1, <3>2 DEF WellbeingInv, AloneFits
  <2> QED
    BY <2>2, <2>3
<1>2. ASSUME WellbeingInv' PROVE \A p \in Process : cache'[p].state = "loaded" => born'[p] \subseteq cache'[p].ids
  BY <1>2 DEF WellbeingInv, CachesFit
<1>3. WellbeingInv /\ WellbeingInv' /\ [WellbeingNext]_wellbeingVars =>
        [/\ \A t \in alone : pc[t] = "excluding" /\ pc'[t] = "idle" => table' \ table \subseteq cache'[Home[t]].ids
         /\ \A p \in Process : cache'[p].state = "loaded" => born'[p] \subseteq cache'[p].ids]_wellbeingVars
  BY <1>1, <1>2
<1> QED
  BY <1>3, WellbeingInvariant, PTL DEF WellbeingSpec, ExclusionsStay

=============================================================================

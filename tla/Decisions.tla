----------------------------- MODULE Decisions -----------------------------
(***************************************************************************)
(* A caller of the deterministic deciders: the M2 trading agents, one      *)
(* after the other or as a bundle, the research agents, and what the life  *)
(* pack decides of an observation, of a sample of days and of an           *)
(* experiment.  A request is answered from what the caller sends; of the   *)
(* trading agents it may send on what earlier requests, of any             *)
(* observation, have answered.  The files an answer is also appended to    *)
(* are read by nothing here; their lines are those of ResearchFactory.     *)
(***************************************************************************)
EXTENDS Integers, Sequences, FiniteSets

T == INSTANCE TradingAgents
R == INSTANCE ResearchAgents
L == INSTANCE LifeSelection

\* Bounds: the inputs that are tried.
CONSTANTS Observations, Few, Assessments, Ratios, Subjects, Scopes, Reports, Rows, Samples, Beliefs

ASSUME DecisionsAssumption ==
    /\ Few \subseteq Observations
    /\ \A o \in Observations : o.quote \in T!Quote /\ o.feature \in {"on_time", "observed_late", "available_late"}
    /\ \A a \in Assessments : a.decision \in T!Decision
    /\ \A s \in Scopes : s \in R!Scope
    /\ \A b \in Beliefs : b.n \in Nat /\ b.m \in Nat /\ b.target \in Nat
    /\ \A r \in Ratios : r.stop \in Int /\ r.spread \in Int /\ r.atr \in Int
    /\ \A s \in Subjects : s \in R!Subject
    /\ \A r \in Reports : r \in R!Report
    /\ Samples \subseteq [days : Nat, domains : Nat, width : Nat \ {0}, extreme : BOOLEAN,
                          report : [{"explicit", "legacy", "ambiguous", "invalid"} -> Nat]]

VARIABLES
    held,     \* what the caller of the trading agents has at hand: each empty or one element
    asked,    \* the request being answered
    answer

vars == <<held, asked, answer>>

NoneHeld == [context |-> {}, findings |-> {}, review |-> {}]
Idle == [route |-> "none"]

\* What is sent if it is held, else what the handler makes of the observation itself.
Given(S, default) == IF S = {} THEN default ELSE CHOOSE x \in S : TRUE

Init == held = NoneHeld /\ asked = Idle /\ answer = "none"

Answered(request, ans) == asked' = request /\ answer' = ans

-----------------------------------------------------------------------------
(* Trading agents *)

CreateContext(o) ==
    /\ Answered([route |-> "context"], "context")
    /\ held' = [held EXCEPT !.context = {T!Context(o)}]

CreateFindings(o) ==
    /\ Answered([route |-> "findings"], "findings")
    /\ held' = [held EXCEPT !.findings = {T!Findings(o)}]

CreateReview(o, a) ==
    LET review == T!Critic(o, a, Given(held.context, T!Context(o)), Given(held.findings, T!Findings(o))) IN
    /\ Answered([route |-> "review"], review)
    /\ held' = [held EXCEPT !.review = {review}]

\* Findings may be missing, context and review may not.
CreateShadow(a) ==
    /\ held.context # {} /\ held.review # {}
    /\ Answered([route |-> "shadow", assessment |-> a],
                T!Shadow(a, Given(held.context, {}), Given(held.findings, {}), Given(held.review, {})))
    /\ UNCHANGED held

\* run_bundle; the assessment may be that of the policy, or any other.
RunBundle(o, a) ==
    /\ Answered([route |-> "bundle", observation |-> o, assessment |-> a], T!Run(o, a))
    /\ UNCHANGED held

Alone(request, ans) == Answered(request, ans) /\ UNCHANGED held

CreateHorizonNoise(r) ==
    Alone([route |-> "horizon", ratios |-> r], T!Noise(r.stop, r.spread, r.atr))

-----------------------------------------------------------------------------
(* Research agents; what is stored of them is in ResearchFactory *)

CreateEvidenceBundle(s) == Alone([route |-> "evidence", subject |-> s], R!Bundle(s))
CreateSafetyAudit(s) == Alone([route |-> "audit", scope |-> s], R!OverallStatus(s))
CreateReport(r) == ~R!ReportRefused(r) /\ Alone([route |-> "report", report |-> r], R!Verdict(r))

-----------------------------------------------------------------------------
(* Life pack *)

SelectRow(r) == Alone([route |-> "select", row |-> r], L!Classify(r, {"invalidated"}))

\* A sample of days of a window with the domains they cover and the readings they rest on.
Rate(x) ==
    Alone([route |-> "confidence", sample |-> x],
          L!Confidence(x.days, x.domains, x.width, x.report, x.extreme))

Believe(b) ==
    Alone([route |-> "belief", belief |-> b],
          L!Prospective(b.n, b.m, b.positive, b.meaningful, b.low, b.target, b.expired, b.critical))

-----------------------------------------------------------------------------
\* The caller takes the answer.
Take ==
    /\ asked # Idle
    /\ asked' = Idle /\ answer' = "none"
    /\ UNCHANGED held

\* Requests about what is held of the trading agents.
StepRequest ==
    \/ \E o \in Few : CreateContext(o) \/ CreateFindings(o)
    \/ \E o \in Few, a \in Assessments : CreateReview(o, a)
    \/ \E a \in Assessments : CreateShadow(a)

TradingRequest ==
    \/ \E o \in Observations : \E a \in Assessments \cup {T!Policy(o)} : RunBundle(o, a)
    \/ \E r \in Ratios : CreateHorizonNoise(r)

ResearchRequest ==
    \/ \E s \in Subjects : CreateEvidenceBundle(s)
    \/ \E s \in Scopes : CreateSafetyAudit(s)
    \/ \E r \in Reports : CreateReport(r)

LifeRequest ==
    \/ \E r \in Rows : SelectRow(r)
    \/ \E x \in Samples : Rate(x)
    \/ \E b \in Beliefs : Believe(b)

\* Bound: requests that read nothing of what is held are made by a caller that holds nothing.
Next ==
    \/ asked = Idle /\ StepRequest
    \/ asked = Idle /\ held = NoneHeld /\ (TradingRequest \/ ResearchRequest \/ LifeRequest)
    \/ Take

Spec == Init /\ [][Next]_vars

-----------------------------------------------------------------------------
\* The shadow adjudicator never raises a decision: it says what the assessment says, or
\* refuses a TAKE, or defers, whatever context, findings and review, of whatever observations,
\* it is called with (agent_bundle_v1 ABSTENTION_RULES).
ShadowOnlyLowers ==
    asked.route \in {"shadow", "bundle"} =>
        \/ answer = asked.assessment.decision
        \/ answer = "DEFER_DATA_QUALITY"
        \/ asked.assessment.decision = "TAKE" /\ answer \in {"SKIP", "UNKNOWN"}

\* Data that cannot be used: an outcome among the features, a feature from after the decision,
\* a quote that is not good, a row held out from replays.
Unusable(o) ==
    \/ o.leaks \/ o.oosReplay
    \/ o.feature # "on_time"
    \/ o.quote \in {"missing", "future", "stale"}

\* The agents of a bundle together defer exactly what cannot be used or was deferred before,
\* although each of them looks at a part of it (orchestrator_v1, critic_agent_v1).
BadDataIsDeferred ==
    asked.route = "bundle" =>
        (answer = "DEFER_DATA_QUALITY" <=>
            Unusable(asked.observation) \/ asked.assessment.decision = "DEFER_DATA_QUALITY")

\* What the outcome was is a label: leaving it out, an admitted bundle is trusted no less,
\* and conflicts or contradicts no less (evidence_agent_v1).
OutcomeIsLabel ==
    asked.route = "evidence" /\ answer # "refused" =>
        LET without == R!Bundle([asked.subject EXCEPT !.outcome = "none"]) IN
        \/ answer = without
        \/ answer = "PENDING_OUTCOME" /\ without \in {"MISSING_EVIDENCE", "FIXTURE_ONLY", "PARTIAL"}

\* What is not known never counts for something: an audit with an absent probe does not pass,
\* a verdict on the value of a system rests on counts that are there, and an unknown spread
\* raises no alarm a known one would not (safety_auditor_agent_v1, report_agent_v1,
\* horizon_noise_agent_v1).
AbsenceProvesNothing ==
    /\ asked.route = "audit" /\ (\E p \in R!Probe : asked.scope[p] = "absent") =>
           answer \in {"SAFETY_PARTIAL", "SAFETY_BLOCKED"}
    /\ asked.route = "report" /\ answer \notin {"INSUFFICIENT_SAMPLE", "DATA_QUALITY_BLOCKED", asked.report.asks} =>
           R!TrustedCount(asked.report) >= 30 /\ asked.report.effective # R!NA
    /\ asked.route = "horizon" /\ asked.ratios.spread = T!Missing =>
           \A spread \in 0..40 : answer <= T!Noise(asked.ratios.stop, spread, asked.ratios.atr)

\* What feeds a person's scores is what the selection policy lists, whichever rule says so:
\* nothing excluded, listed or from a smoke source, of a purpose of tests, a test profile or
\* the environment TEST; of what is no workout, only what a user observed for himself and
\* legacy check-ins (input_selection).  A test_run_id is no such mark.
TestNeverIncluded ==
    asked.route = "select" /\ answer = "INCLUDED" =>
        LET r == asked.row IN
        /\ r.id # "invalidated" /\ ~r.listed /\ r.source # "checkin_smoke"
        /\ r.purpose \notin L!NonProductive /\ r.environment # "TEST" /\ r.scope # "TEST_PROFILE"
        /\ \/ r.subject = "workout" \/ r.event = "workout"
           \/ r.purpose = "USER_OBSERVATION" /\ r.scope \in {"none", "PERSONAL"}
           \/ r.purpose = "none" /\ r.environment # "DEVELOPMENT" /\ r.source \in L!CheckInSource

\* Not even a row that names the test run it is from: the provenance of a row has its
\* test_run_id, and no rule looks at it.
TestRunsStayOut ==
    asked.route = "select" /\ asked.row.run => answer # "INCLUDED"

More(report, k) == [report EXCEPT ![k] = @ + 1]

\* Confidence is earned by days and lost by readings that are not certain: one more day of the
\* same never lowers it, one more such reading never raises it, less than a week stays below a
\* half and ambiguous readings below 40 percent, whatever else is known (wellbeing_v1).
ConfidenceIsEarned ==
    asked.route = "confidence" =>
        LET x == asked.sample IN
        /\ x.days < 7 => answer < 5000
        /\ x.report["ambiguous"] > 0 => answer <= 4000
        /\ \A k \in {"legacy", "ambiguous", "invalid"} :
              L!Confidence(x.days, x.domains, x.width, More(x.report, k), x.extreme) <= answer
        /\ x.days < x.width => L!Confidence(x.days + 1, x.domains, x.width, x.report, x.extreme) >= answer

\* A prospective validation ends with its target and both groups reached, or with its window,
\* however strong the effect is by then, and it does end with its window (bayesian_bootstrap).
NoEarlyStop ==
    asked.route = "belief" =>
        LET b == asked.belief
            reached == b.n + b.m >= b.target /\ b.n >= 7 /\ b.m >= 7 /\ ~b.critical IN
        /\ answer \in {"PROSPECTIVE_SUPPORTED", "PROSPECTIVE_WEAKENED", "PROSPECTIVE_INCONCLUSIVE"} <=> reached
        /\ answer = "EXPIRED_INCONCLUSIVE" <=> ~reached /\ b.expired

=============================================================================

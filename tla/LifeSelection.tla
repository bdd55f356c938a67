--------------------------- MODULE LifeSelection ---------------------------
(***************************************************************************)
(* What the life pack makes of observations that have been accepted: which *)
(* of them may feed a person's wellbeing scores and which are evidence of  *)
(* an experiment, how a score is brought to one scale, what the wellbeing  *)
(* formula V1 says of the days it is given, and what belief an evaluation  *)
(* reaches.  Scores are in hundredths of a point, divisions round down;    *)
(* texts, contributors and suggested actions are left out.                 *)
(***************************************************************************)
EXTENDS Integers, FiniteSetsExt

None == "none"

ScoreField == {"happiness", "stress", "energy", "productivity"}
Domain == ScoreField \cup {"sleep", "gym"}
Scale == {"0_100", "1_10"}
NonProductive == {"SMOKE_TEST", "CONTRACT_TEST", "FIXTURE", "DEMO"}
Purpose == NonProductive \cup {"USER_OBSERVATION", "MIGRATION", "BACKFILL"}
Environment == {"PRODUCTION", "TEST", "DEVELOPMENT"}
SubjectScope == {"PERSONAL", "TEST_PROFILE", "SHARED_DEMO"}
CheckInSource == {"checkin_1", "checkin_2", "checkin_smoke"}

Absent == -1      \* of a value, and of the day of an observation without occurred_at
NotANumber == -2

\* A score as sent: its value, or that it is no number, and the scale declared for it.
Reading == [value : {Absent, NotANumber} \cup Nat, scale : Scale \cup {None, "unknown"}]

\* A row of accepted_observations; at: its global_position; listed: it is one of the
\* KNOWN_TEST_OBSERVATION_IDS; purpose: of the first of its three places that is not empty;
\* run: it carries a test_run_id; contract: measurement_contract_version; tag: what
\* legacy_scale, a source system or a fixture's tag says of the scale.
Row == [id : STRING, at : Nat, own : BOOLEAN, fact : BOOLEAN, listed : BOOLEAN,
        run : BOOLEAN, subject : {"daily_check_in", "workout", "other"}, event : {"checkin", "workout", "other"},
        day : {Absent} \cup Nat, source : CheckInSource \cup {None, "other"},
        purpose : Purpose \cup {None}, environment : Environment \cup {None},
        scope : SubjectScope \cup {None}, contract : {None, "known", "other"},
        tag : Scale \cup {None}, score : [ScoreField -> Reading], sleep : {Absent} \cup Nat, gym : {Absent, 0, 1}]

-----------------------------------------------------------------------------
(* wellbeing_input_selection_v1 *)

\* Mutant: a workout is looked at before its environment and scope.
ClassifyWorkoutFirst(r, excluded) ==
    IF r.id \in excluded THEN "EXCLUDED_INVALIDATED"
    ELSE IF r.subject = "workout" /\ r.purpose \in {None, "USER_OBSERVATION"} THEN "INCLUDED"
    ELSE IF r.listed \/ r.source = "checkin_smoke" \/ r.purpose \in NonProductive THEN "EXCLUDED_TEST"
    ELSE IF r.scope = "TEST_PROFILE" THEN "EXCLUDED_WRONG_SUBJECT"
    ELSE IF r.environment = "TEST" THEN "EXCLUDED_WRONG_ENVIRONMENT"
    ELSE IF r.purpose = "USER_OBSERVATION" THEN "INCLUDED" ELSE "EXCLUDED_AMBIGUOUS"

\* Who an observation that is not of a test belongs to; purpose USER_OBSERVATION.
Personal(r) == r.environment # "TEST" /\ r.scope \in {None, "PERSONAL"}

\* Check-ins from before purposes were recorded.
LegacyCheckIn(r) ==
    r.source \in CheckInSource /\ r.purpose = None /\ r.environment \in {None, "PRODUCTION"}

\* classify_for_personal_production: the first rule that applies.
Classify(r, excluded) ==
    IF r.id \in excluded THEN "EXCLUDED_INVALIDATED"
    ELSE IF r.listed \/ r.source = "checkin_smoke" \/ r.purpose \in NonProductive THEN "EXCLUDED_TEST"
    ELSE IF r.scope = "TEST_PROFILE" THEN "EXCLUDED_WRONG_SUBJECT"
    ELSE IF r.environment = "TEST" THEN "EXCLUDED_WRONG_ENVIRONMENT"
    ELSE IF r.environment = "DEVELOPMENT" /\ r.purpose # "USER_OBSERVATION" THEN "EXCLUDED_WRONG_ENVIRONMENT"
    ELSE IF r.subject = "workout" \/ r.event = "workout"
         THEN IF r.purpose \in {None, "USER_OBSERVATION"} THEN "INCLUDED" ELSE "EXCLUDED_TEST"
    ELSE IF r.purpose = "USER_OBSERVATION"
         THEN IF Personal(r) THEN "INCLUDED" ELSE "EXCLUDED_WRONG_ENVIRONMENT"
    ELSE IF LegacyCheckIn(r) THEN "INCLUDED"
    ELSE IF r.purpose \in {"MIGRATION", "BACKFILL"} THEN "EXCLUDED_UNSUPPORTED_CONTRACT"
    ELSE "EXCLUDED_AMBIGUOUS"

\* select_effective_observations
Effective(rows, excluded) == {r \in rows : Classify(r, excluded) = "INCLUDED"}

-----------------------------------------------------------------------------
(* Measurement scales *)

\* _legacy_scale_for, the tag first.
LegacyScale(r) ==
    IF r.tag # None THEN r.tag ELSE IF r.source \in CheckInSource THEN "1_10" ELSE None

InRange(v, scale) == IF scale = "0_100" THEN v \in 0..100 ELSE v \in 1..10

\* to_canonical_0_100, in hundredths.
Canonical(v, scale) == IF scale = "0_100" THEN 100 * v ELSE ((v - 1) * 10000) \div 9

\* What a score field of a row comes to: absent, explicit, legacy, ambiguous or invalid.
Resolution(r, f) ==
    LET x == r.score[f]
        scale == IF x.scale # None THEN x.scale ELSE LegacyScale(r) IN
    IF x.value = Absent THEN "absent"
    ELSE IF x.value = NotANumber THEN "invalid"
    ELSE IF x.scale = None /\ r.contract = "other" THEN "invalid"
    ELSE IF x.scale = None /\ (r.contract = "known" \/ scale = None) THEN "ambiguous"
    ELSE IF scale = "unknown" \/ ~InRange(x.value, scale) THEN "invalid"
    ELSE IF x.scale # None THEN "explicit" ELSE "legacy"

Resolved(r, f) == Resolution(r, f) \in {"explicit", "legacy"}

Score(r, f) ==
    Canonical(r.score[f].value, IF r.score[f].scale # None THEN r.score[f].scale ELSE LegacyScale(r))

-----------------------------------------------------------------------------
(* wellbeing_v1: from rows to days *)

\* Rows that say something of a day.
DayRows(rows) ==
    {r \in rows : r.subject = "daily_check_in" /\ r.event = "checkin" /\ r.day # Absent}

\* Mutant: the first row of a day stands.
NewestOldest(rows) == {r \in DayRows(rows) : \A x \in DayRows(rows) : x.day = r.day => r.at <= x.at}

\* by_day: the row at the highest position stands for its day.
Newest(rows) == {r \in DayRows(rows) : \A x \in DayRows(rows) : x.day = r.day => x.at <= r.at}

\* ScaleExtractionReport: how many readings of all the rows, the superseded included.
Report(rows) ==
    [k \in {"explicit", "legacy", "ambiguous", "invalid"} |->
        Cardinality({x \in DayRows(rows) \X ScoreField : Resolution(x[1], x[2]) = k})]

AsOf(days) == Max({r.day : r \in days} \cup {0})

InWindow(days, width) == {r \in days : r.day > AsOf(days) - width}

\* The average over the days that have a value; those that have none are not counted.
Average(value) == MapThenSumSet(LAMBDA r : value[r], DOMAIN value) \div Cardinality(DOMAIN value)
Mean(days, f) == Average([r \in {d \in days : Resolved(d, f)} |-> Score(r, f)])
HasMean(days, f) == \E r \in days : Resolved(r, f)
Slept(days) == {r \in days : r.sleep # Absent}
MeanSleep(days) == Average([r \in Slept(days) |-> 100 * r.sleep])

Clamp(x) == IF x < 0 THEN 0 ELSE IF x > 10000 THEN 10000 ELSE x
Abs(x) == IF x < 0 THEN -x ELSE x

\* Only for days with a happiness: it is not 100 - stress.
Happiness(days) ==
    LET energy == IF HasMean(days, "energy") THEN ((Mean(days, "energy") - 5000) * 15) \div 100 ELSE 0
        rest == IF Slept(days) = {} THEN 0 ELSE Clamp(10000 - Abs(MeanSleep(days) - 750) * 12) \div 10 - 500 IN
    Clamp(Mean(days, "happiness") + energy + rest)

\* Alcohol, which amplifies it besides, is left out.
Stress(days) ==
    Clamp(Mean(days, "stress")
          + IF Slept(days) # {} /\ MeanSleep(days) < 600 THEN (600 - MeanSleep(days)) * 4 ELSE 0)

\* Mutant: a week of days is as good as two.
MaturityCapEarly(n) == IF n <= 2 THEN 2500 ELSE IF n <= 6 THEN 6000 ELSE IF n <= 29 THEN 7500 ELSE 10000

\* _sample_maturity_cap
MaturityCap(n) ==
    IF n <= 2 THEN 2500 ELSE IF n <= 6 THEN 4500 ELSE IF n <= 13 THEN 6000
    ELSE IF n <= 29 THEN 7500 ELSE 10000

Sufficiency(sample, missing, width) ==
    IF sample < 3 THEN "COLD_START"
    ELSE IF missing > width \div 2 THEN "PARTIAL"
    ELSE IF sample >= 10 /\ missing <= 2 THEN "RICH" ELSE "ADEQUATE"

SufficiencyFactor == [COLD_START |-> 25, PARTIAL |-> 45, ADEQUATE |-> 75, RICH |-> 100]

\* Of penalties in percent: legacy scales at all, ambiguous and invalid readings by number.
Penalised(x, report) ==
    LET a == IF report["legacy"] > 0 THEN (x * 92) \div 100 ELSE x
        b == (a * Max({55, 100 - 12 * report["ambiguous"]})) \div 100 IN
    (b * Max({50, 100 - 10 * report["invalid"]})) \div 100

\* epistemic_raw: coverage of the days, of the domains, and the sufficiency.
EpistemicRaw(sample, domains, width, factor) ==
    (((4500 * sample) \div width + (3500 * domains) \div 6 + 20 * factor) * 85) \div 100

Thin(sample, sufficiency) == sufficiency \in {"COLD_START", "PARTIAL"} \/ sample < 7
Extreme(x) == x <= 500 \/ x >= 9500

\* Confidence of a sample of days of a window; extreme: happiness or stress is.
Confidence(sample, domains, width, report, extreme) ==
    LET sufficiency == Sufficiency(sample, width - sample, width)
        raw == Penalised(EpistemicRaw(sample, domains, width, SufficiencyFactor[sufficiency]), report)
        capped == Min({raw, MaturityCap(sample)})
        damped == IF extreme /\ Thin(sample, sufficiency) THEN (capped * 7) \div 10 ELSE capped IN
    IF report["ambiguous"] > 0 THEN Min({damped, 4000}) ELSE damped

\* early_warning of what is known of a person; classic risks come before the extreme score.
Warning(sufficiency, happiness, stress, confidence, thinExtreme) ==
    LET classic == (IF stress # Absent /\ stress >= 7000 THEN {"ELEVATED_STRESS"} ELSE {})
                   \cup (IF happiness # Absent /\ happiness <= 3500 THEN {"LOW_HAPPINESS"} ELSE {})
                   \cup (IF confidence <= 3500 THEN {"LOW_CONFIDENCE"} ELSE {}) IN
    IF sufficiency = "COLD_START" THEN "INSUFFICIENT_DATA"
    ELSE IF Cardinality(classic) >= 2 THEN "COMPOUND_RISK"
    ELSE IF classic # {} THEN CHOOSE w \in classic : TRUE
    ELSE IF thinExtreme THEN "EXTREME_SCORE_LOW_EVIDENCE" ELSE "NONE"

\* compute_wellbeing_v1 of the days and the report on the rows they are from.
Wellbeing(all, report, width) ==
    LET days == InWindow(all, width)
        sample == Cardinality(days)
        domains == {f \in ScoreField : HasMean(days, f)}
                   \cup (IF Slept(days) # {} THEN {"sleep"} ELSE {})
                   \cup (IF \E r \in days : r.gym # Absent THEN {"gym"} ELSE {})
        happiness == IF "happiness" \in domains THEN Happiness(days) ELSE Absent
        stress == IF "stress" \in domains THEN Stress(days) ELSE Absent
        extreme == \E x \in {happiness, stress} \ {Absent} : Extreme(x)
        confidence == IF sample = 0 THEN Absent
                      ELSE Confidence(sample, Cardinality(domains), width, report, extreme)
        sufficiency == Sufficiency(sample, width - sample, width) IN
    [happiness |-> happiness, stress |-> stress, confidence |-> confidence, sample |-> sample,
     asOf |-> Max({r.at : r \in days} \cup {0}),
     warning |-> IF sample = 0 THEN "INSUFFICIENT_DATA"
                 ELSE Warning(sufficiency, happiness, stress, confidence,
                              extreme /\ Thin(sample, sufficiency))]

-----------------------------------------------------------------------------
(* Evidence of an experiment: life.sleep_threshold_productivity.v1 *)

\* Check-ins of the application that have what the template needs.
Acceptable(r) ==
    /\ r.own /\ r.fact /\ r.subject = "daily_check_in" /\ r.event = "checkin" /\ r.day # Absent
    /\ r.source \in CheckInSource
    /\ r.sleep # Absent /\ r.sleep <= 24
    /\ r.score["productivity"].value \in 1..10

\* Mutant: the last row from a source stands.
EligibleLast(rows) ==
    {r \in rows : Acceptable(r) /\ \A x \in rows : Acceptable(x) /\ x.source = r.source => x.at <= r.at}

\* select_eligible_checkins: the first row from a source stands.
Eligible(rows) ==
    {r \in rows : Acceptable(r) /\ \A x \in rows : Acceptable(x) /\ x.source = r.source => r.at <= x.at}

\* _conflict_payload
Payload(r) == <<r.sleep, r.score["productivity"].value, r.day>>

\* critical_data_quality_failure: a later row from the source says something else.
CriticalFailure(rows) ==
    \E r \in Eligible(rows), x \in rows :
        Acceptable(x) /\ x.source = r.source /\ Payload(x) # Payload(r)

BeliefState == {"INSUFFICIENT_EVIDENCE", "EXPLORATORY_POSITIVE", "EXPLORATORY_NEGATIVE",
                "EXPLORATORY_INCONCLUSIVE", "PROSPECTIVE_COLLECTING", "EXPIRED_INCONCLUSIVE",
                "PROSPECTIVE_SUPPORTED", "PROSPECTIVE_WEAKENED", "PROSPECTIVE_INCONCLUSIVE"}

Baseline(n, m, positive) ==
    IF n + m < 14 \/ n < 5 \/ m < 5 THEN "INSUFFICIENT_EVIDENCE"
    ELSE IF positive >= 80 THEN "EXPLORATORY_POSITIVE"
    ELSE IF 100 - positive >= 80 THEN "EXPLORATORY_NEGATIVE" ELSE "EXPLORATORY_INCONCLUSIVE"

\* Mutant: a strong effect is enough before the groups are large enough.
ProspectiveEarly(n, m, positive, meaningful, low, target, expired, critical) ==
    IF critical THEN IF expired THEN "EXPIRED_INCONCLUSIVE" ELSE "PROSPECTIVE_COLLECTING"
    ELSE IF meaningful >= 95 /\ low > 0 THEN "PROSPECTIVE_SUPPORTED"
    ELSE IF n + m < target \/ n < 7 \/ m < 7
         THEN IF expired THEN "EXPIRED_INCONCLUSIVE" ELSE "PROSPECTIVE_COLLECTING"
    ELSE IF 100 - positive >= 95 THEN "PROSPECTIVE_WEAKENED" ELSE "PROSPECTIVE_INCONCLUSIVE"

\* classify_belief_state of n and m observations at or above and below the threshold, the
\* probabilities that the effect is positive and that it is meaningful in percent, and the
\* sign of the low end of its interval.
Prospective(n, m, positive, meaningful, low, target, expired, critical) ==
    IF critical \/ n + m < target \/ n < 7 \/ m < 7
    THEN IF expired THEN "EXPIRED_INCONCLUSIVE" ELSE "PROSPECTIVE_COLLECTING"
    ELSE IF meaningful >= 95 /\ low > 0 THEN "PROSPECTIVE_SUPPORTED"
    ELSE IF 100 - positive >= 95 THEN "PROSPECTIVE_WEAKENED" ELSE "PROSPECTIVE_INCONCLUSIVE"

=============================================================================

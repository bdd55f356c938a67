---------------------------- MODULE MCDecisions ----------------------------
(* Inputs that differ in at most one or two places from one where nothing is wrong. *)
EXTENDS Decisions

\* f itself and f with another value, of those that V gives, in one place.
One(f, V) == {f} \cup UNION {{[f EXCEPT ![d] = v] : v \in V[d]} : d \in DOMAIN f}
Two(f, V) == UNION {One(g, V) : g \in One(f, V)}

Healthy ==
    [schema |-> TRUE, leaks |-> FALSE, feature |-> "on_time", identity |-> "ok", quote |-> "good",
     costed |-> TRUE, fidelity |-> "CERTIFIED", raw |-> "TAKE", native |-> "TAKE", bucket |-> "none",
     price |-> "NORMAL", label |-> {}, directed |-> TRUE, timed |-> TRUE, geometry |-> "valid",
     oosReplay |-> FALSE, seen |-> FALSE, replayed |-> FALSE, sourced |-> TRUE]

\* The agent object of a request has seen nothing before: seen and replayed stay FALSE.
ObservationValues ==
    [schema |-> BOOLEAN, leaks |-> BOOLEAN, feature |-> {"observed_late", "available_late"},
     identity |-> {"no_id", "not_1R"}, quote |-> T!Quote, costed |-> BOOLEAN, fidelity |-> T!Fidelity,
     raw |-> {"SKIP"}, native |-> {"SKIP", "UNKNOWN"}, bucket |-> {"UNKNOWN", "HIGH"},
     price |-> {"UNKNOWN", "HIGH", "EXTREME"}, label |-> {{"trend"}}, directed |-> BOOLEAN, timed |-> BOOLEAN,
     geometry |-> {"invalid", "unparsable"}, oosReplay |-> BOOLEAN, seen |-> {}, replayed |-> {},
     sourced |-> BOOLEAN]

MCObservations == Two(Healthy, ObservationValues)
Unclear == [Healthy EXCEPT !.price = "UNKNOWN", !.directed = FALSE, !.timed = FALSE]
MCFew == One(Healthy, [ObservationValues EXCEPT !.schema = {}, !.identity = {}, !.native = {}])
MCAll == MCObservations \cup {Unclear}
MCSome == MCFew \cup {Unclear}

MCAssessments == [decision : T!Decision, thin : BOOLEAN, rank : BOOLEAN]

MCRatios == [stop : {-1, 10, 19, 20, 39, 40}, spread : {-1, 0, 9, 10, 15, 30}, atr : {-1, 0, 74, 75, 100}]

Given_ == [given |-> TRUE, ref |-> TRUE, fixture |-> FALSE, leaks |-> FALSE, says |-> "healthy", dq |-> FALSE]
SurfaceValues == {R!Absent, Given_} \cup
    {[Given_ EXCEPT !.ref = FALSE], [Given_ EXCEPT !.fixture = TRUE], [Given_ EXCEPT !.leaks = TRUE],
     [Given_ EXCEPT !.dq = TRUE]} \cup {[Given_ EXCEPT !.says = c] : c \in R!Content}
MCSubjects ==
    {[surface |-> s, registry |-> g, reports |-> b, outcome |-> o, cutoff |-> c] :
        s \in Two([k \in R!PreOutcome |-> R!Absent], [k \in R!PreOutcome |-> SurfaceValues]),
        g \in {{}, {[direction |-> "SUPPORTING", fixture |-> FALSE]}},
        b \in {FALSE}, o \in {"none", "early", "late", "undated"}, c \in BOOLEAN}

MCScopes ==
    Two([p \in R!Probe |-> IF p \in R!GoodWhenTrue \/ p = "milestone_3_complete" THEN "true" ELSE "false"],
        [p \in R!Probe |-> {"absent", "false", "true"}])

MCReports ==
    [asks : {"none", "NO_INCREMENTAL_VALUE", "ROBUST_INCREMENTAL_VALUE_NOT_YET_PROVEN", "EDGE_CONFIRMED"},
     claim : {"none", "LIVE_READY"}, blocked : BOOLEAN, trusted : {-1, 29, 30, 99, 100},
     sampled : {-1, 30}, effective : {-1, 5}, gain : {"none", "negative", "positive"}]

Unscored == [f \in L!ScoreField |-> [value |-> L!Absent, scale |-> "none"]]
CheckIn ==
    [id |-> "first", at |-> 1, own |-> TRUE, fact |-> TRUE, listed |-> FALSE, run |-> FALSE, subject |-> "daily_check_in",
     event |-> "checkin", day |-> 1, source |-> "checkin_1", purpose |-> "USER_OBSERVATION",
     environment |-> "PRODUCTION", scope |-> "PERSONAL", contract |-> "none", tag |-> "none",
     score |-> Unscored, sleep |-> 7, gym |-> L!Absent]
MCRows ==
    Two(CheckIn,
        [f \in DOMAIN CheckIn |->
            CASE f = "id" -> {"invalidated"} [] f \in {"listed", "run"} -> {TRUE} [] f = "subject" -> {"workout", "other"}
              [] f = "event" -> {"workout", "other"} [] f = "source" -> {"checkin_smoke", "other", "none"}
              [] f = "purpose" -> L!Purpose \cup {"none"} [] f = "environment" -> L!Environment \cup {"none"}
              [] f = "scope" -> L!SubjectScope \cup {"none"} [] OTHER -> {}])

MCSamples ==
    {x \in [days : 1..30, domains : {1, 3, 6}, width : {7, 14, 30}, extreme : BOOLEAN,
            report : [{"explicit", "legacy", "ambiguous", "invalid"} -> {0, 1, 5}]] :
        x.days <= x.width /\ x.report["explicit"] = 0}

MCBeliefs ==
    [n : {0, 6, 7, 30}, m : {6, 7, 30}, positive : {2, 50, 99}, meaningful : {2, 95}, low : {-1, 1},
     target : {14, 20}, expired : BOOLEAN, critical : BOOLEAN]
=============================================================================

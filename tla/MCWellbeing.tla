---------------------------- MODULE MCWellbeing ----------------------------
(* Small instances of Wellbeing for TLC. *)
EXTENDS Wellbeing, TLC

CONSTANTS p1, t1, t2

\* Both threads are of one process.
MCHome == [t \in Thread |-> p1]

Symmetry == Permutations(Thread)

\* No step and no property of the runs looks at the snapshots that are stored.
WithoutSnapshots == <<store, table, formulas, cache, pc, local, alone, bounded>>

NotGiven == [value |-> Absent, scale |-> None]
Of(v) == [value |-> v, scale |-> "0_100"]

CheckIn ==
    [id |-> "first", at |-> 0, own |-> TRUE, fact |-> TRUE, listed |-> FALSE, run |-> FALSE,
     subject |-> "daily_check_in", event |-> "checkin", day |-> 1, source |-> "checkin_1",
     purpose |-> "USER_OBSERVATION", environment |-> "PRODUCTION", scope |-> "PERSONAL",
     contract |-> None, tag |-> None, sleep |-> 7, gym |-> Absent,
     score |-> [happiness |-> Of(60), stress |-> Of(30), energy |-> NotGiven, productivity |-> Of(6)]]

\* A check-in, a correction of it, and a test of the same day.
MCCatalogue ==
    {CheckIn,
     [CheckIn EXCEPT !.id = "corrected", !.sleep = 5, !.score["happiness"].value = 20],
     [CheckIn EXCEPT !.id = "smoke", !.source = "checkin_smoke", !.sleep = 1]}

\* A check-in that declares no scale, and one of the same day that does.
MCEdited ==
    {CheckIn, [CheckIn EXCEPT !.id = "unscaled", !.source = "other", !.score["happiness"].scale = None]}
=============================================================================

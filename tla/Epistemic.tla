----------------------------- MODULE Epistemic -----------------------------
(***************************************************************************)
(* The epistemic commands of one application: hypotheses are proposed,     *)
(* activated (which registers an experiment), evaluated and retired while  *)
(* observations keep arriving.  Every command is one READ COMMITTED        *)
(* transaction that first reads rows without a lock, then locks the head   *)
(* of the stream in its first append, and writes back, at its commit, rows *)
(* computed from what it had read.                                         *)
(*                                                                         *)
(* Keys, replays by key and quarantine are those of EventLedger; here each *)
(* command has a key of its own and the stream is ACTIVE.  An object is    *)
(* named by the position of the event that creates it.  Statistics are     *)
(* left out: an evaluation that may be terminal is or is not.  The status  *)
(* of an experiment and its progress row are left out: no command reads    *)
(* them back.                                                              *)
(***************************************************************************)
EXTENDS AggregateVersions

CONSTANTS
    Session,         \* database sessions, each serving one command at a time
    NoSession,       \* holder of a lock nobody holds
    Target,          \* prospective_target of every experiment
    MaxCommands,     \* bound: commands received in a behaviour
    MaxObservations, \* bound: of them, submissions
    MaxHypotheses    \* bound: of them, proposals

ASSUME LabAssumption == NoSession \notin Session /\ Target \in Nat
ASSUME LabBounds == MaxCommands \in Nat /\ MaxObservations \in Nat /\ MaxHypotheses \in Nat

VARIABLES
    log,          \* engine_events of the application, in commit order
    sequence,     \* last global_position handed out
    lock,         \* row lock of the stream head
    hypotheses,   \* current_hypotheses, by id
    experiments,  \* current_experiments, by id
    evidence,     \* evidence_snapshots
    beliefs,      \* belief_snapshots, by id
    current,      \* beliefs with is_current = 1
    learnings,    \* learning_records
    overdue,      \* experiments whose maximum window has passed
    pc, cmd, seen, \* of each session: control, its command, what it has read
    issued        \* commands received so far, by operation

tables == <<hypotheses, experiments, evidence, beliefs, current, learnings>>
ledger == <<log, sequence, lock>>
vars == <<log, sequence, lock, hypotheses, experiments, evidence, beliefs, current,
          learnings, overdue, pc, cmd, seen, issued>>

Phase == {"BASELINE", "PROSPECTIVE"}
Kind == {"ObservationAccepted", "HypothesisProposed", "HypothesisActivated", "HypothesisRetired",
         "ExperimentRegistered", "ExperimentObservationWindowOpened", "EvidenceEvaluated",
         "BeliefCreated", "BeliefUpdated", "OutcomeEvaluated", "LearningRecorded"}
Status == {"PROPOSED", "ACTIVE", "OBSERVING", "EVALUATED", "RETIRED"}
None == 0
Ask(op, on, phase) == [op |-> op, on |-> on, phase |-> phase]
NoCommand == Ask("none", None, "none")
NothingSeen == [row |-> [status |-> "PROPOSED", experiment |-> None], ver |-> 0,
                late |-> FALSE, cutoff |-> 0, scanned |-> {}, terminal |-> FALSE,
                prior |-> None, base |-> 0, exp |-> [hyp |-> None, activation |-> 0]]
NoData == [hyp |-> None, exp |-> None, phase |-> "none", sources |-> {}, of |-> None, prev |-> None]

\* Commands about rows that exist when they are sent.
Command ==
    {Ask("submit", None, "none"), Ask("propose", None, "none")}
    \cup {Ask("activate", h, "none") : h \in DOMAIN hypotheses}
    \cup {Ask("retire", h, "none") : h \in DOMAIN hypotheses}
    \cup {Ask("evaluate", e, phase) : e \in DOMAIN experiments, phase \in Phase}

\* The hypothesis a command is about.
Subject(c) == IF c.op = "evaluate" THEN experiments[c.on].hyp ELSE c.on

\* The rows a command is about are still there: nothing but a rebuild removes one.
Found(c) == (c.op = "evaluate" => c.on \in DOMAIN experiments) /\ Subject(c) \in DOMAIN hypotheses

\* The hypothesis of a command that has read its rows.
Hypothesis(s) == IF cmd[s].op = "evaluate" THEN seen[s].exp.hyp ELSE cmd[s].on

\* get_latest_aggregate_version.
LatestVersion(agg) == Latest(log, agg)

\* projected_observations of the application, by position.
Observations == {e.pos : e \in {x \in ToSet(log) : x.kind = "ObservationAccepted"}}

\* Mutant: an evaluation does not look at the status.
AcceptableUnchecked(c, status) == c.op \in {"retire", "evaluate"} \/ status = "PROPOSED"

\* What the status must be: PROPOSED to activate, not RETIRED otherwise.
Acceptable(c, status) ==
    IF c.op = "activate" THEN status = "PROPOSED" ELSE status # "RETIRED"

\* split_by_temporal_anchors by ledger position: before or after the activation.
\* Its conditions on clock times, which exclude more, are left out.
Cohort(activation, phase, scanned) ==
    {o \in scanned : IF phase = "BASELINE" THEN o < activation ELSE o > activation}

\* What an evaluation takes as its sources.
Sources(c, view) == Cohort(view.exp.activation, c.phase, view.scanned)

\* compute_evidence_fingerprint, as the evidence that has it.
SameFingerprint(c, view) ==
    {x \in evidence : /\ x.exp = c.on /\ x.phase = c.phase /\ x.cutoff = view.cutoff
                      /\ x.sources = Sources(c, view)}

\* classify_belief_state: terminal when the target (and, of what is left out, the
\* size of the groups) is reached, or the window has passed.
MayBeTerminal(c, view) ==
    IF c.phase = "BASELINE" THEN {FALSE}
    ELSE IF view.late THEN {TRUE}
    ELSE IF Cardinality(Sources(c, view)) >= Target THEN BOOLEAN ELSE {FALSE}

\* A table once the row of an id is inserted or changed.
Upsert(table, id, row) ==
    [x \in DOMAIN table \cup {id} |-> IF x = id THEN row ELSE table[x]]

Finish(s) ==
    /\ pc' = [pc EXCEPT ![s] = "idle"]
    /\ cmd' = [cmd EXCEPT ![s] = NoCommand]
    /\ seen' = [seen EXCEPT ![s] = NothingSeen]

Goto(s, at) == pc' = [pc EXCEPT ![s] = at]

Unlocked(s) == IF lock = s THEN NoSession ELSE lock

Init ==
    /\ log = <<>> /\ sequence = 0 /\ lock = NoSession
    /\ hypotheses = <<>> /\ experiments = <<>>
    /\ evidence = {} /\ beliefs = <<>> /\ current = {} /\ learnings = {}
    /\ overdue = {}
    /\ pc = [s \in Session |-> "idle"]
    /\ cmd = [s \in Session |-> NoCommand]
    /\ seen = [s \in Session |-> NothingSeen]
    /\ issued = [o \in {"submit", "propose", "other"} |-> 0]

-----------------------------------------------------------------------------
\* A command arrives.  Submissions and proposals read no row first.
Receive(s, c) ==
    LET kind == IF c.op \in {"submit", "propose"} THEN c.op ELSE "other" IN
    /\ pc[s] = "idle"
    /\ issued["submit"] + issued["propose"] + issued["other"] < MaxCommands
    /\ c.op = "submit" => issued["submit"] < MaxObservations
    /\ c.op = "propose" => issued["propose"] < MaxHypotheses
    /\ issued' = [issued EXCEPT ![kind] = @ + 1]
    /\ cmd' = [cmd EXCEPT ![s] = c]
    /\ Goto(s, IF kind = "other" THEN "read" ELSE "lock")
    /\ UNCHANGED <<ledger, tables, overdue, seen>>

\* get_hypothesis, the status it must have, and the clock.
ReadHypothesis(s) ==
    LET c == cmd[s]
        row == hypotheses[Subject(c)] IN
    /\ pc[s] = "read" /\ Found(c) /\ Acceptable(c, row.status)
    /\ seen' = [seen EXCEPT ![s].row = row, ![s].late = c.on \in overdue,
                            ![s].exp = IF c.op = "evaluate" THEN experiments[c.on] ELSE @]
    /\ Goto(s, IF cmd[s].op = "evaluate" THEN "cutoff" ELSE "version")
    /\ UNCHANGED <<ledger, tables, overdue, cmd, issued>>

\* HypothesisStateError.
Refuse(s) ==
    /\ pc[s] = "read" /\ Found(cmd[s]) /\ ~Acceptable(cmd[s], hypotheses[Subject(cmd[s])].status)
    /\ Finish(s)
    /\ UNCHANGED <<ledger, tables, overdue, issued>>

\* _next_version, a statement after the one that read the status.
ReadVersion(s) ==
    /\ pc[s] = "version"
    /\ seen' = [seen EXCEPT ![s].ver = LatestVersion(cmd[s].on)]
    /\ Goto(s, "lock")
    /\ UNCHANGED <<ledger, tables, overdue, cmd, issued>>

\* get_stream_head without a lock: the evidence cutoff.
ReadCutoff(s) ==
    /\ pc[s] = "cutoff"
    /\ seen' = [seen EXCEPT ![s].cutoff = Last(log).pos]
    /\ Goto(s, "scan")
    /\ UNCHANGED <<ledger, tables, overdue, cmd, issued>>

\* scan_all_life_observations up to the cutoff, and the classification.
Scan(s) ==
    LET view == [seen[s] EXCEPT !.scanned = {o \in Observations : o <= seen[s].cutoff}] IN
    /\ pc[s] = "scan"
    /\ \E t \in MayBeTerminal(cmd[s], view) :
          seen' = [seen EXCEPT ![s] = [view EXCEPT !.terminal = t]]
    /\ Goto(s, "match")
    /\ UNCHANGED <<ledger, tables, overdue, cmd, issued>>

\* get_evidence_by_fingerprint finds nothing.
MatchNothing(s) ==
    /\ pc[s] = "match" /\ SameFingerprint(cmd[s], seen[s]) = {}
    /\ Goto(s, "prior")
    /\ UNCHANGED <<ledger, tables, overdue, cmd, seen, issued>>

\* The same evidence exists: answer with it; only an idempotency record is written.
MatchExisting(s) ==
    /\ pc[s] = "match" /\ SameFingerprint(cmd[s], seen[s]) # {}
    /\ Finish(s)
    /\ UNCHANGED <<ledger, tables, overdue, issued>>

\* get_current_belief, before the head is locked.
ReadPrior(s) ==
    LET mine == {b \in current : beliefs[b].hyp = Hypothesis(s)} IN
    /\ pc[s] = "prior"
    /\ \/ mine = {} /\ UNCHANGED seen
       \/ \E b \in mine : seen' = [seen EXCEPT ![s].prior = b]
    /\ Goto(s, "lock")
    /\ UNCHANGED <<ledger, tables, overdue, cmd, issued>>

\* Mutant: the version is not compared.
StaleNever(s) == FALSE

\* _assert_optimistic_concurrency, under the lock: another event of the hypothesis
\* was committed since its version was read.
Stale(s) ==
    cmd[s].op \in {"activate", "retire"} /\ LatestVersion(cmd[s].on) # seen[s].ver

\* How many events the command appends.
Appends(s) ==
    CASE cmd[s].op = "activate" -> 3
      [] cmd[s].op = "evaluate" -> IF seen[s].terminal THEN 4 ELSE 2
      [] OTHER -> 1

\* Mutant: the head is read without FOR UPDATE.
LockHeadUnlocked(s) ==
    /\ pc[s] = "lock" /\ ~Stale(s)
    /\ sequence' = sequence + Appends(s)
    /\ seen' = [seen EXCEPT ![s].base = sequence]
    /\ Goto(s, "commit")
    /\ UNCHANGED <<log, lock, tables, overdue, cmd, issued>>

\* The first append locks the head; it and those that follow take their positions.
LockHead(s) ==
    /\ pc[s] = "lock" /\ lock = NoSession /\ ~Stale(s)
    /\ lock' = s
    /\ sequence' = sequence + Appends(s)
    /\ seen' = [seen EXCEPT ![s].base = sequence]
    /\ Goto(s, "commit")
    /\ UNCHANGED <<log, tables, overdue, cmd, issued>>

\* ConcurrencyConflictError: rolled back.
Conflict(s) ==
    /\ pc[s] = "lock" /\ lock = NoSession /\ Stale(s)
    /\ Finish(s)
    /\ UNCHANGED <<ledger, tables, overdue, issued>>

-----------------------------------------------------------------------------
\* The i-th event of the transaction.
Event(s, i, kind, agg, ver, data) ==
    [pos |-> seen[s].base + i, kind |-> kind, agg |-> agg, ver |-> ver, data |-> data]

\* An event of an aggregate created with it.
NewEvent(s, i, kind, data) == Event(s, i, kind, seen[s].base + i, 1, data)

\* What every commit does.
Commits(s, events) ==
    /\ pc[s] = "commit"
    /\ log' = log \o events
    /\ lock' = Unlocked(s)
    /\ Finish(s)
    /\ UNCHANGED <<sequence, overdue, issued>>

CommitSubmit(s) ==
    /\ cmd[s].op = "submit"
    /\ Commits(s, <<NewEvent(s, 1, "ObservationAccepted", NoData)>>)
    /\ UNCHANGED tables

CommitPropose(s) ==
    LET h == seen[s].base + 1 IN
    /\ cmd[s].op = "propose"
    /\ hypotheses' = Upsert(hypotheses, h, [status |-> "PROPOSED", experiment |-> None])
    /\ Commits(s, <<NewEvent(s, 1, "HypothesisProposed", NoData)>>)
    /\ UNCHANGED <<experiments, evidence, beliefs, current, learnings>>

\* The hypothesis row is the one read, ACTIVE, with its new experiment; an upsert
\* inserts the row if it has gone.
CommitActivate(s) ==
    LET h == cmd[s].on
        e == seen[s].base + 2 IN
    /\ cmd[s].op = "activate"
    /\ hypotheses' = Upsert(hypotheses, h, [status |-> "ACTIVE", experiment |-> e])
    /\ experiments' = Upsert(experiments, e, [hyp |-> h, activation |-> seen[s].base + 1])
    /\ Commits(s, <<Event(s, 1, "HypothesisActivated", h, seen[s].ver + 1, [NoData EXCEPT !.exp = e]),
                    NewEvent(s, 2, "ExperimentRegistered", [NoData EXCEPT !.hyp = h]),
                    Event(s, 3, "ExperimentObservationWindowOpened", e, 2, NoData)>>)
    /\ UNCHANGED <<evidence, beliefs, current, learnings>>

\* Mutant: the row is written without its experiment.
RetiredBare(row) == [status |-> "RETIRED"]

Retired(row) == [row EXCEPT !.status = "RETIRED"]

\* The hypothesis row is the one read, RETIRED.
CommitRetire(s) ==
    /\ cmd[s].op = "retire"
    /\ hypotheses' = Upsert(hypotheses, cmd[s].on, Retired(seen[s].row))
    /\ Commits(s, <<Event(s, 1, "HypothesisRetired", cmd[s].on, seen[s].ver + 1, NoData)>>)
    /\ UNCHANGED <<experiments, evidence, beliefs, current, learnings>>

DuplicateNever(s) == FALSE  \* mutant: the index is missing
\* The commit would violate ux_evidence_fingerprint.
Duplicate(s) == SameFingerprint(cmd[s], seen[s]) # {}

\* Mutant: only the belief read as the prior one is demoted.
StillCurrentUnlessPrior(h, prior) == current \ {prior}

\* upsert_belief_snapshot: UPDATE ... SET is_current = 0 of every current belief
\* of the hypothesis there is now, whichever was read as the prior one.
StillCurrent(h, prior) == {b \in current : beliefs[b].hyp # h}

\* Evidence, belief and, if terminal, outcome and learning; the rows of hypothesis
\* and experiment are the ones read, the first OBSERVING or EVALUATED.
CommitEvaluate(s) ==
    LET h == Hypothesis(s)
        v == seen[s]
        b == v.base + 2
        sources == Sources(cmd[s], v)
        closing == <<NewEvent(s, 3, "OutcomeEvaluated", NoData),
                     NewEvent(s, 4, "LearningRecorded", [NoData EXCEPT !.of = b, !.prev = v.prior])>> IN
    /\ cmd[s].op = "evaluate" /\ ~Duplicate(s)
    /\ evidence' = evidence \cup
          {[id |-> v.base + 1, exp |-> cmd[s].on, phase |-> cmd[s].phase, cutoff |-> v.cutoff,
            sources |-> sources]}
    /\ beliefs' = Upsert(beliefs, b, [hyp |-> h, evidence |-> v.base + 1, prev |-> v.prior])
    /\ current' = StillCurrent(h, v.prior) \cup {b}
    /\ learnings' = IF v.terminal
                    THEN learnings \cup {[id |-> v.base + 4, belief |-> b, prior |-> v.prior]}
                    ELSE learnings
    /\ hypotheses' = Upsert(hypotheses, h, [v.row EXCEPT !.status = IF v.terminal THEN "EVALUATED" ELSE "OBSERVING"])
    /\ experiments' = Upsert(experiments, cmd[s].on, v.exp)
    /\ Commits(s, <<NewEvent(s, 1, "EvidenceEvaluated",
                              [NoData EXCEPT !.hyp = h, !.exp = cmd[s].on, !.phase = cmd[s].phase,
                                             !.sources = sources]),
                    NewEvent(s, 2, IF v.prior = None THEN "BeliefCreated" ELSE "BeliefUpdated",
                             [NoData EXCEPT !.hyp = h, !.of = v.base + 1, !.prev = v.prior])>>
                  \o IF v.terminal THEN closing ELSE <<>>)

\* The flush of the evidence row happens only in the commit, outside the try that
\* would replay the winner: the IntegrityError rolls back and leaves the use case.
CommitDuplicate(s) ==
    /\ pc[s] = "commit" /\ cmd[s].op = "evaluate" /\ Duplicate(s)
    /\ lock' = Unlocked(s)
    /\ Finish(s)
    /\ UNCHANGED <<log, sequence, tables, overdue, issued>>

\* The worker dies: rollback.
Crash(s) ==
    /\ pc[s] # "idle"
    /\ lock' = Unlocked(s)
    /\ Finish(s)
    /\ UNCHANGED <<log, sequence, tables, overdue, issued>>

\* The clock passes prospective_start + maximum_window_days.
WindowExpires(e) ==
    /\ e \in DOMAIN experiments \ overdue
    /\ overdue' = overdue \cup {e}
    /\ UNCHANGED <<ledger, tables, pc, cmd, seen, issued>>

\* Every command received was served, and no other need arrive.
Quiescent ==
    /\ \A s \in Session : pc[s] = "idle"
    /\ UNCHANGED vars

SessionStep(s) ==
    \/ ReadHypothesis(s) \/ Refuse(s) \/ ReadVersion(s)
    \/ ReadCutoff(s) \/ Scan(s) \/ MatchNothing(s) \/ MatchExisting(s) \/ ReadPrior(s)
    \/ LockHead(s) \/ Conflict(s)
    \/ CommitSubmit(s) \/ CommitPropose(s) \/ CommitActivate(s) \/ CommitRetire(s)
    \/ CommitEvaluate(s) \/ CommitDuplicate(s)

Next ==
    \/ \E s \in Session :
          (\E c \in Command : Receive(s, c)) \/ SessionStep(s) \/ Crash(s)
    \/ \E e \in DOMAIN experiments : WindowExpires(e)
    \/ Quiescent

Spec == Init /\ [][Next]_vars

-----------------------------------------------------------------------------
(* The columns of each table that are kept. *)

HypothesisRow == [status : Status, experiment : Nat]
ExperimentRow == [hyp : DOMAIN hypotheses, activation : 1..sequence]
EvidenceRow == [id : Nat, exp : DOMAIN experiments, phase : Phase, cutoff : Nat,
                sources : SUBSET Observations]
BeliefRow == [hyp : DOMAIN hypotheses, evidence : Nat, prev : DOMAIN beliefs \cup {None}]
LearningRow == [id : Nat, belief : DOMAIN beliefs, prior : DOMAIN beliefs \cup {None}]
Payload == [hyp : Nat, exp : Nat, phase : Phase \cup {"none"}, sources : SUBSET Observations,
            of : Nat, prev : Nat]

TypeOK ==
    /\ log \in Seq([pos : Nat, kind : Kind, agg : Nat, ver : Nat, data : Payload])
    /\ sequence \in Nat /\ lock \in Session \cup {NoSession}
    /\ DOMAIN hypotheses \subseteq 1..sequence
    /\ \A h \in DOMAIN hypotheses : hypotheses[h] \in HypothesisRow
    /\ \A e \in DOMAIN experiments : experiments[e] \in ExperimentRow
    /\ evidence \subseteq EvidenceRow
    /\ \A b \in DOMAIN beliefs : beliefs[b] \in BeliefRow
    /\ current \subseteq DOMAIN beliefs
    /\ learnings \subseteq LearningRow
    /\ overdue \subseteq DOMAIN experiments
    /\ \A s \in Session :
          /\ pc[s] \in {"idle", "read", "version", "cutoff", "scan", "match", "prior",
                        "lock", "commit"}
          /\ cmd[s] \in Command \cup {NoCommand}
          /\ seen[s].row \in HypothesisRow

\* Evidence is reproducible: its sources are all the observations that by position
\* belong to its phase up to its cutoff, and none that commits later does.  About
\* reading the head and the rows without a lock: positions are taken and committed
\* under the lock, so nothing is still in flight below the head.
EvidenceReproducible ==
    \A x \in evidence :
        x.sources = Cohort(experiments[x.exp].activation, x.phase,
                           {o \in Observations : o <= x.cutoff})

\* A hypothesis that was evaluated has exactly one current belief, its latest.
\* About evaluations that read the same prior belief: each demotes what is
\* current when it holds the lock.
OneCurrentBelief ==
    \A h \in DOMAIN hypotheses :
        LET all == {b \in DOMAIN beliefs : beliefs[b].hyp = h} IN
        {b \in current : beliefs[b].hyp = h} = IF all = {} THEN {} ELSE {Max(all)}

\* No two evidence snapshots have the same fingerprint, although evaluations look
\* for it before they take the lock.
EvidenceUnique ==
    \A x, y \in evidence :
        x.exp = y.exp /\ x.phase = y.phase /\ x.cutoff = y.cutoff /\ x.sources = y.sources
            => x = y

\* The events of an aggregate are numbered 1, 2, 3, ... in commit order, although
\* the number is computed before the lock is taken.
VersionsContiguous == Contiguous(log)

\* A hypothesis that is neither PROPOSED nor RETIRED names an experiment of its
\* own.  About stale rows written back: a retirement may have written a row read
\* before the activation, without the experiment.
LiveHasExperiment ==
    \A h \in DOMAIN hypotheses :
        hypotheses[h].status \in {"ACTIVE", "OBSERVING", "EVALUATED"} =>
            /\ hypotheses[h].experiment \in DOMAIN experiments
            /\ experiments[hypotheses[h].experiment].hyp = h

\* What the commands read before the lock never shows afterwards: neither in the
\* numbers of the events nor in the row that a hypothesis in progress points to.
LockedReadsHold == VersionsContiguous /\ LiveHasExperiment

\* "cannot evaluate a retired hypothesis" (evaluate_experiment_v31.py:260) and
\* "must be PROPOSED to activate" (epistemic.py:535): no command takes a hypothesis
\* out of RETIRED.  The status is checked in a row read before the lock.
RetiredIsFinal ==
    [][\A h \in DOMAIN hypotheses :
          hypotheses[h].status = "RETIRED" => hypotheses'[h].status = "RETIRED"]_hypotheses

=============================================================================

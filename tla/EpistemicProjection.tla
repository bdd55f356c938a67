------------------------- MODULE EpistemicProjection -------------------------
(***************************************************************************)
(* The rebuild of the epistemic tables from the ledger, beside the         *)
(* commands of Epistemic.  It is one READ COMMITTED transaction that takes *)
(* no lock of the application's stream: it reads the events, folds them    *)
(* through one handler per event type, marks every live row for deletion,  *)
(* upserts the folded rows, and commits with a ProjectionRebuilt event of  *)
(* the SYSTEM stream (left out, as are the checkpoint row and the          *)
(* quarantine on an unknown event type, both in Projection).               *)
(*                                                                         *)
(* Columns no command reads back, and the progress table, are left out.    *)
(***************************************************************************)
EXTENDS Epistemic

CONSTANT MaxRebuilds  \* bound: rebuilds in a behaviour

ASSUME RebuildBound == MaxRebuilds \in Nat

VARIABLES
    step,      \* of the rebuild: idle, delete, write, commit
    replayed,  \* the events it has read
    doomed,    \* the rows it has marked for deletion, by table
    demoted,   \* the beliefs whose is_current it has set to 0
    rebuilds   \* rebuilds started so far

rebuilder == <<step, replayed, doomed, demoted, rebuilds>>
allVars == <<vars, rebuilder>>

\* The keys of a set of rows that have an id.
Ids(rows) == {x.id : x \in rows}

\* Every table by its keys.
Keys(t) == [hypotheses |-> DOMAIN t.hypotheses, experiments |-> DOMAIN t.experiments,
            evidence |-> Ids(t.evidence), beliefs |-> DOMAIN t.beliefs, learnings |-> Ids(t.learnings)]

Live == [hypotheses |-> hypotheses, experiments |-> experiments, evidence |-> evidence,
         beliefs |-> beliefs, current |-> current, learnings |-> learnings]

Nothing == [hypotheses |-> <<>>, experiments |-> <<>>, evidence |-> {}, beliefs |-> <<>>,
            current |-> {}, learnings |-> {}]

-----------------------------------------------------------------------------
(* The handlers: what each event does to the state in memory. *)

OnHypothesisProposed(t, e) ==
    [t EXCEPT !.hypotheses = Upsert(@, e.agg, [status |-> "PROPOSED", experiment |-> None])]

OnHypothesisActivated(t, e) ==
    IF e.agg \in DOMAIN t.hypotheses
    THEN [t EXCEPT !.hypotheses[e.agg] = [status |-> "ACTIVE", experiment |-> e.data.exp]] ELSE t

OnHypothesisRetired(t, e) ==
    IF e.agg \in DOMAIN t.hypotheses THEN [t EXCEPT !.hypotheses[e.agg].status = "RETIRED"] ELSE t

\* Mutant: the anchor is the proposal.
OnExperimentRegisteredAtProposal(t, e) ==
    [t EXCEPT !.experiments = Upsert(@, e.agg, [hyp |-> e.data.hyp, activation |-> e.data.hyp])]

\* The activation anchor falls back to the position of the registration.
OnExperimentRegistered(t, e) ==
    [t EXCEPT !.experiments = Upsert(@, e.agg, [hyp |-> e.data.hyp, activation |-> e.pos])]

\* The event carries no cutoff and no fingerprint: the row has none.
OnEvidenceEvaluated(t, e) ==
    [t EXCEPT !.evidence = @ \cup {[id |-> e.agg, exp |-> e.data.exp, phase |-> e.data.phase,
                                    cutoff |-> 0, sources |-> e.data.sources]}]

\* Mutant: the previous belief is the only one that stops being current.
UpsertBeliefUnlinked(t, e) ==
    [t EXCEPT !.beliefs = Upsert(@, e.agg, [hyp |-> e.data.hyp, evidence |-> e.data.of, prev |-> e.data.prev]),
              !.current = (@ \ {e.data.prev}) \cup {e.agg}]

UpsertBelief(t, e) ==
    [t EXCEPT !.beliefs = Upsert(@, e.agg, [hyp |-> e.data.hyp, evidence |-> e.data.of, prev |-> e.data.prev]),
              !.current = {b \in @ : t.beliefs[b].hyp # e.data.hyp} \cup {e.agg}]

\* Mutant: a learning loses the belief it came after.
OnLearningRecordedAlone(t, e) ==
    [t EXCEPT !.learnings = @ \cup {[id |-> e.agg, belief |-> e.data.of, prior |-> None]}]

OnLearningRecorded(t, e) ==
    [t EXCEPT !.learnings = @ \cup {[id |-> e.agg, belief |-> e.data.of, prior |-> e.data.prev]}]

\* Observations and identity events are skipped; outcomes have no table.
Apply(t, e) ==
    CASE e.kind = "HypothesisProposed" -> OnHypothesisProposed(t, e)
      [] e.kind = "HypothesisActivated" -> OnHypothesisActivated(t, e)
      [] e.kind = "HypothesisRetired" -> OnHypothesisRetired(t, e)
      [] e.kind = "ExperimentRegistered" -> OnExperimentRegistered(t, e)
      [] e.kind = "EvidenceEvaluated" -> OnEvidenceEvaluated(t, e)
      [] e.kind \in {"BeliefCreated", "BeliefUpdated"} -> UpsertBelief(t, e)
      [] e.kind = "LearningRecorded" -> OnLearningRecorded(t, e)
      [] OTHER -> t

\* What the handlers make of the events, one after the other.
Replay(events) ==
    LET after[n \in 0..Len(events)] == IF n = 0 THEN Nothing ELSE Apply(after[n - 1], events[n])
    IN  after[Len(events)]

-----------------------------------------------------------------------------
RebuildInit ==
    /\ Init
    /\ step = "idle" /\ replayed = <<>> /\ doomed = Keys(Nothing) /\ demoted = {} /\ rebuilds = 0

\* stream_from_position(0): all that has committed.
ReadLedger ==
    /\ step = "idle" /\ rebuilds < MaxRebuilds
    /\ rebuilds' = rebuilds + 1
    /\ replayed' = log
    /\ step' = "delete"
    /\ UNCHANGED <<vars, doomed, demoted>>

\* delete_all_epistemic_projections marks the rows it finds; nothing is flushed yet.
DeleteAll ==
    /\ step = "delete"
    /\ doomed' = Keys(Live)
    /\ step' = "write"
    /\ UNCHANGED <<vars, replayed, demoted, rebuilds>>

\* Every belief that is upserted first clears is_current of its hypothesis, in the
\* tables as they are now; the rows themselves wait for the flush.
WriteBeliefs ==
    LET fold == Replay(replayed).beliefs IN
    /\ step = "write"
    /\ demoted' = {b \in current : \E x \in DOMAIN fold : fold[x].hyp = beliefs[b].hyp}
    /\ step' = "commit"
    /\ UNCHANGED <<vars, replayed, doomed, rebuilds>>

StopRebuild ==
    /\ step' = "idle" /\ replayed' = <<>> /\ doomed' = Keys(Nothing) /\ demoted' = {}
    /\ UNCHANGED rebuilds

\* The rows an upsert inserts.  The session runs without autoflush: the upsert of a
\* row marked for deletion finds the object in the session and changes it, and the
\* flush deletes it.
Inserted == [k \in DOMAIN doomed |-> Keys(Replay(replayed))[k] \ doomed[k]]

\* The primary key of an inserted row has been taken since.
Collides == \E k \in DOMAIN doomed : Inserted[k] \cap (Keys(Live)[k] \ doomed[k]) # {}

\* A table after the flush: what was not marked, and what is inserted.
Flushed(k, live, fold) ==
    [x \in (DOMAIN live \ doomed[k]) \cup Inserted[k] |->
        IF x \in Inserted[k] THEN fold[x] ELSE live[x]]

FlushedRows(k, live, fold) ==
    {x \in live : x.id \notin doomed[k]} \cup {x \in fold : x.id \in Inserted[k]}

\* Flush and commit.
CommitRebuild ==
    LET fold == Replay(replayed) IN
    /\ step = "commit" /\ ~Collides
    /\ hypotheses' = Flushed("hypotheses", hypotheses, fold.hypotheses)
    /\ experiments' = Flushed("experiments", experiments, fold.experiments)
    /\ evidence' = FlushedRows("evidence", evidence, fold.evidence)
    /\ beliefs' = Flushed("beliefs", beliefs, fold.beliefs)
    /\ current' = (current \ (doomed.beliefs \cup demoted)) \cup (fold.current \cap Inserted.beliefs)
    /\ learnings' = FlushedRows("learnings", learnings, fold.learnings)
    /\ StopRebuild
    /\ UNCHANGED <<ledger, overdue, pc, cmd, seen, issued>>

\* IntegrityError on the flush, or the operator's process dies: rollback.
AbandonRebuild ==
    /\ step # "idle"
    /\ StopRebuild
    /\ UNCHANGED vars

\* ExperimentNotFoundError, HypothesisNotFoundError: a rebuild has removed the row since.
NotFound(s) ==
    /\ pc[s] = "read" /\ ~Found(cmd[s])
    /\ Finish(s)
    /\ UNCHANGED <<ledger, tables, overdue, issued, rebuilder>>

RebuildStep == ReadLedger \/ DeleteAll \/ WriteBeliefs \/ CommitRebuild \/ AbandonRebuild

RebuildNext ==
    \/ Next /\ UNCHANGED rebuilder
    \/ \E s \in Session : NotFound(s)
    \/ RebuildStep

RebuildSpec == RebuildInit /\ [][RebuildNext]_allVars

-----------------------------------------------------------------------------
\* Two handlings of one event tell the same story: until a rebuild starts, replaying the
\* ledger gives the keys of every table, the belief and learning rows, which beliefs are
\* current, the evidence rows but for their cutoff, and the hypothesis of each experiment.
\* Status and experiment of a hypothesis are not compared: commands write them back from
\* rows read before the lock, the replay does not know OBSERVING and EVALUATED.
ReplayAgrees ==
    LET fold == Replay(log) IN
    rebuilds = 0 =>
        /\ Keys(fold) = Keys(Live)
        /\ fold.beliefs = beliefs /\ fold.current = current /\ fold.learnings = learnings
        /\ {[x EXCEPT !.cutoff = 0] : x \in evidence} = fold.evidence
        /\ \A e \in DOMAIN experiments : fold.experiments[e].hyp = experiments[e].hyp

\* A rebuilt anchor is not the live one (registration for activation), yet either splits
\* the observations of both phases alike, because no observation can take a position
\* between the two: whichever anchor rebuilds have left, the cohorts are those of the ledger.
AnchorsKeepCohorts ==
    LET fold == Replay(log).experiments IN
    \A e \in DOMAIN experiments, p \in Phase :
        Cohort(fold[e].activation, p, Observations) = Cohort(experiments[e].activation, p, Observations)

\* Whatever rebuilds and commands commit in between, no row is invented and none tells
\* another story than the ledger: every live key is one of the replay's, and the beliefs,
\* learnings, sources and experiments that are live are as replayed.  About rows folded from
\* a ledger that has grown since, written beside rows computed before they were deleted.
RowsAreReplayed ==
    LET fold == Replay(log) IN
    /\ \A t \in DOMAIN Keys(Live) : Keys(Live)[t] \subseteq Keys(fold)[t]
    /\ \A b \in DOMAIN beliefs : beliefs[b] = fold.beliefs[b]
    /\ current \subseteq DOMAIN beliefs /\ learnings \subseteq fold.learnings
    /\ {[x EXCEPT !.cutoff = 0] : x \in evidence} \subseteq fold.evidence
    /\ \A e \in DOMAIN experiments : experiments[e].hyp = fold.experiments[e].hyp

\* "so is_current flips correctly" (epistemic_projections.py:271): a hypothesis never has
\* two current beliefs.  A third rebuild adds one beside a belief written meanwhile.
AtMostOneCurrent ==
    \A b, c \in current : beliefs[b].hyp = beliefs[c].hyp => b = c

\* "Live tables are replaced atomically inside one transaction after a full event
\* replay" (epistemic_projections.py:3): a rebuild beside which nothing else commits
\* leaves the rows of the replay.
RebuildReplaces ==
    [][CommitRebuild /\ replayed = log => Keys(Live)' = Keys(Replay(replayed))]_allVars

=============================================================================

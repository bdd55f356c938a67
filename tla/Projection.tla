----------------------------- MODULE Projection -----------------------------
(***************************************************************************)
(* The accepted_observations projection: rebuilt from zero through a       *)
(* shadow table, caught up from its checkpoint, or verified, by operators  *)
(* from the CLI while the workers of EventLedger keep appending events and *)
(* inserting the rows of their own observations.                           *)
(*                                                                         *)
(* A row is the position of its event.  A task is one READ COMMITTED       *)
(* transaction; every statement of it has a snapshot of its own, which is  *)
(* what a task record keeps.  Rows it deleted, updated or inserted and the *)
(* checkpoint it wrote stay locked until it ends: whoever needs one waits. *)
(* The shadow table is empty outside tasks; two that insert the same       *)
(* shadow row wait for each other too (primary key).                       *)
(***************************************************************************)
EXTENDS SystemStream

CONSTANTS
    Skipped,  \* event types the projector knows and ignores (_SKIPPED_EVENT_TYPES)
    Undated,  \* payloads of observations submitted without occurred_at
    MaxTasks  \* bound: tasks started in a behaviour

VARIABLES
    mark,      \* projection_checkpoints: the row of accepted_observations
    undated,   \* live rows without occurred_at; a replay gives them the event's
    tasks,     \* tasks started
    tpc, task, \* of each operator's session: control, what it has read and staged
    todo       \* and the rows its statements have yet to look up, update or delete

taskVars == <<mark, tasks, tpc, task, todo>>
projectionVars == <<vars, undated, taskVars>>

TaskOp == {"rebuild", "resume", "verify"}
NoMark == [pos |-> 0, status |-> "NONE"]
Mark == [pos : Nat, status : {"NONE", "READY", "QUARANTINED"}]
Task == [op : TaskOp, read : SUBSET Nat, rows : SUBSET Nat, last : Nat, stop : BOOLEAN,
         update : SUBSET Nat, held : SUBSET Nat, loaded : Mark, ver : Nat,
         event : Event \cup {NoEvent}]
TaskPhase == {"idle", "events", "shadow", "built", "delete", "filled", "lock", "append",
              "commit", "apply", "update", "flush"}
NoTask == [op |-> "none"]
NewTask(op, start) ==
    [op |-> op, read |-> {}, rows |-> {}, last |-> start, stop |-> FALSE,
     update |-> {}, held |-> {}, loaded |-> NoMark, ver |-> 0, event |-> NoEvent]

Projector == <<"Projection", "accepted_observations">>

ASSUME ProjectionAssumption ==
    "ProjectionRebuilt" \in Kind /\ Projector \in Aggregate \ {Fresh} /\ MaxTasks \in Nat

Committed == UNION {ToSet(log[s]) : s \in Stream}
Observations == {e.pos : e \in {x \in Committed : x.kind = Submit}}

-----------------------------------------------------------------------------
\* _apply: the events that stop the projector.
Unknown(events) == {e \in events : e.kind # Submit /\ e.kind \notin Skipped}

\* Mutant: a row for every event the projector gets past.
ReplayEveryKind(j, start) ==
    LET events == {e \in Committed : e.pos > start}
        stops == {e.pos : e \in Unknown(events)}
        applied == {e.pos : e \in {x \in events : \A p \in stops : x.pos < p}}
    IN  [j EXCEPT !.read = {e.pos : e \in events}, !.rows = applied,
                  !.last = Max({start} \cup applied), !.stop = stops # {}]

\* stream_from_position(start) then _apply of each event, in position order, up
\* to the first unknown one: what is read, the rows it gives, how far it got.
Replay(j, start) ==
    LET events == {e \in Committed : e.pos > start}
        stops == {e.pos : e \in Unknown(events)}
        applied == {e \in events : \A p \in stops : e.pos < p}
    IN  [j EXCEPT !.read = {e.pos : e \in events},
                  !.rows = {e.pos : e \in {x \in applied : x.kind = Submit}},
                  !.last = Max({start} \cup {e.pos : e \in applied}),
                  !.stop = stops # {}]

\* save_checkpoint writes the columns that differ from the row it had read.
MarkAfter(m, status) ==
    LET j == task[m] IN
    [pos |-> IF j.last = j.loaded.pos THEN mark.pos ELSE j.last,
     status |-> IF status = j.loaded.status THEN mark.status ELSE status]

\* The checkpoint was absent when read and has been inserted by another task.
MarkTaken(m) == task[m].loaded = NoMark /\ mark # NoMark

End(m) ==
    /\ tpc' = [tpc EXCEPT ![m] = "idle"]
    /\ task' = [task EXCEPT ![m] = NoTask]
    /\ todo' = [todo EXCEPT ![m] = {}]

Goto(m, at) == tpc' = [tpc EXCEPT ![m] = at]

Running == {n \in Admin : tpc[n] # "idle"}

\* Its shadow rows, its live rows are inserted and not committed.
Shadowed(n) == task[n].op # "resume" /\ tpc[n] \in {"built", "delete", "filled", "lock", "append", "commit"}
Filled(n) == tpc[n] \in {"filled", "lock", "append", "commit", "flush"}

\* Every row its DELETE or UPDATE took is locked: its INSERTs come next.
Filling(m) == tpc[m] \in {"delete", "update"} /\ todo[m] = {}

\* The row the running DELETE or UPDATE locks next.  A DELETE follows the table, UPDATEs
\* are flushed in the order of observation_id.  Ids are random: it is the opposite order
\* here, the one in which waits can close into a cycle.
Reachable(m) ==
    {p \in todo[m] : \A q \in todo[m] : \/ tpc[m] = "delete" /\ p <= q
                                        \/ tpc[m] = "update" /\ q <= p}
LockedFor(m, p) == \E n \in Running \ {m} : p \in task[n].held

\* The tasks whose locks stop the next statement of m.
Blockers(m) ==
    {n \in Running \ {m} :
        \/ tpc[m] = "shadow" /\ Shadowed(n) /\ task[n].rows \cap task[m].rows # {}
        \/ /\ \A p \in Reachable(m) : LockedFor(m, p)
           /\ task[n].held \cap Reachable(m) # {}
        \/ /\ Filling(m)
           /\ \/ Filled(n) /\ task[n].rows \cap task[m].rows # {}
              \/ task[n].held \cap task[m].rows # {}
        \/ tpc[m] = "lock" /\ lock[System] = n
        \/ tpc[m] \in {"append", "flush"} /\ tpc[n] = "commit"}

\* A cycle of tasks that wait for each other goes through m.
Deadlocked(m) ==
    \E C \in SUBSET Running :
        /\ m \in C
        /\ \A x \in C : Blockers(x) \cap C # {} /\ \E y \in C : x \in Blockers(y)

-----------------------------------------------------------------------------
ProjectionInit ==
    /\ Init
    /\ mark = NoMark /\ undated = {} /\ tasks = 0
    /\ tpc = [m \in Admin |-> "idle"]
    /\ task = [m \in Admin |-> NoTask]
    /\ todo = [m \in Admin |-> {}]

\* What a step of a worker is to the projection: the row it commits may lack occurred_at.
BesideTasks ==
    /\ undated' = undated \cup {p \in projected' \ projected :
            \E w \in Worker : pc[w] = "commit" /\ staged[w].pos = p /\ req[w].hash \in Undated}
    /\ UNCHANGED taskVars

\* A resume starts at the checkpoint, the other tasks at zero.
Start(m, op) ==
    /\ tpc[m] = "idle" /\ tasks < MaxTasks
    /\ tasks' = tasks + 1
    /\ task' = [task EXCEPT ![m] = NewTask(op, IF op = "resume" THEN mark.pos ELSE 0)]
    /\ Goto(m, "events")
    /\ UNCHANGED <<vars, undated, mark, todo>>

\* The events of all streams in one snapshot.  A resume looks each of the rows up.
ReadEvents(m) ==
    LET j == Replay(task[m], task[m].last) IN
    /\ tpc[m] = "events"
    /\ task' = [task EXCEPT ![m] = j]
    /\ todo' = [todo EXCEPT ![m] = IF j.op = "resume" THEN j.rows ELSE {}]
    /\ Goto(m, IF j.op = "resume" THEN "apply" ELSE "shadow")
    /\ UNCHANGED <<vars, undated, mark, tasks>>

\* The shadow rows are flushed: waits for a task that has inserted one of them.
BuildShadow(m) ==
    /\ tpc[m] = "shadow" /\ Blockers(m) = {}
    /\ Goto(m, "built")
    /\ UNCHANGED <<vars, undated, mark, tasks, task, todo>>

\* verify empties the shadow table, commits and reports whether the shadow agrees with
\* the live rows it had read first: it changes nothing.
Report(m) ==
    /\ tpc[m] = "built" /\ task[m].op = "verify"
    /\ End(m)
    /\ UNCHANGED <<vars, undated, mark, tasks>>

\* An unknown event stops a rebuild: the shadow is emptied, the live rows stay and
\* only the checkpoint, QUARANTINED just before the event, is left to write.
StopRebuild(m) ==
    /\ tpc[m] = "built" /\ task[m].op = "rebuild" /\ task[m].stop
    /\ task' = [task EXCEPT ![m].rows = {}, ![m].loaded = mark]
    /\ Goto(m, "flush")
    /\ UNCHANGED <<vars, undated, mark, tasks, todo>>

\* Mutant: live is filled from the shadow before its pending rows are flushed.
PromoteUnflushed(m) ==
    /\ tpc[m] = "built" /\ task[m].op = "rebuild" /\ ~task[m].stop
    /\ todo' = [todo EXCEPT ![m] = projected]
    /\ task' = [task EXCEPT ![m].rows = {}]
    /\ Goto(m, "delete")
    /\ UNCHANGED <<vars, undated, mark, tasks>>

\* promote_shadow_observations: the DELETE takes every live row there is now.
Promote(m) ==
    /\ tpc[m] = "built" /\ task[m].op = "rebuild" /\ ~task[m].stop
    /\ todo' = [todo EXCEPT ![m] = projected]
    /\ Goto(m, "delete")
    /\ UNCHANGED <<vars, undated, mark, tasks, task>>

\* A row a resume found is looked up once: a missing one is to be inserted, one
\* without occurred_at to be updated, any other is overwritten with itself.
LookUp(m) ==
    /\ tpc[m] = "apply"
    /\ \E p \in todo[m] :
          /\ \A q \in todo[m] : p <= q
          /\ task' = [task EXCEPT ![m].rows = task[m].rows \ ({p} \cap projected),
                                  ![m].update = task[m].update \cup ({p} \cap undated)]
          /\ todo' = [todo EXCEPT ![m] = todo[m] \ {p}]
    /\ UNCHANGED <<vars, undated, mark, tasks, tpc>>

\* The flush: UPDATEs, then INSERTs, the checkpoint last.  save_checkpoint reads it
\* before the flush only if an unknown event has stopped the resume.
Flush(m) ==
    /\ tpc[m] = "apply" /\ todo[m] = {}
    /\ task' = [task EXCEPT ![m].loaded = IF task[m].stop THEN mark ELSE NoMark]
    /\ todo' = [todo EXCEPT ![m] = task[m].update]
    /\ Goto(m, "update")
    /\ UNCHANGED <<vars, undated, mark, tasks>>

\* The next row of the DELETE or UPDATE is there, free, and locked now.
LockRow(m) ==
    /\ \E p \in Reachable(m) \cap projected :
          /\ ~LockedFor(m, p)
          /\ task' = [task EXCEPT ![m].held = task[m].held \cup {p}]
          /\ todo' = [todo EXCEPT ![m] = todo[m] \ {p}]
    /\ UNCHANGED <<vars, undated, mark, tasks, tpc>>

\* A row to insert has been inserted by another task.
Taken(m) == task[m].rows \cap (projected \ task[m].held) # {}

\* The rows are inserted.  A stopped resume has only its checkpoint left.
Fill(m) ==
    /\ Filling(m) /\ Blockers(m) = {} /\ ~Taken(m)
    /\ Goto(m, IF task[m].stop THEN "flush" ELSE "filled")
    /\ UNCHANGED <<vars, undated, mark, tasks, task, todo>>

\* A row to update was deleted (StaleDataError), or one to insert is taken
\* (IntegrityError): rolled back.
LoseRow(m) ==
    /\ \/ tpc[m] = "update" /\ Reachable(m) \ projected # {}
       \/ Filling(m) /\ Blockers(m) = {} /\ Taken(m)
    /\ End(m)
    /\ UNCHANGED <<vars, undated, mark, tasks>>

\* save_checkpoint reads the checkpoint, _next_version what the append will check.
ReadMark(m) ==
    /\ tpc[m] = "filled"
    /\ task' = [task EXCEPT ![m].loaded = mark, ![m].ver = Latest(log[System], Projector)]
    /\ Goto(m, IF task[m].op = "rebuild" THEN "lock" ELSE "flush")
    /\ UNCHANGED <<vars, undated, mark, tasks, todo>>

\* append_one of ProjectionRebuilt: _lock_head of the SYSTEM stream.
LockForEvent(m) ==
    /\ tpc[m] = "lock" /\ lock[System] = NoSession
    /\ lock' = [lock EXCEPT ![System] = m]
    /\ Goto(m, "append")
    /\ UNCHANGED <<ledgerButLock, workerVars, undated, mark, tasks, task, todo>>

\* The optimistic check or the checkpoint's unique index fails.
Stale(m) == MarkTaken(m) \/ Latest(log[System], Projector) # task[m].ver

\* ConcurrencyConflictError or IntegrityError: the rebuild is rolled back.
AppendStale(m) ==
    /\ tpc[m] = "append" /\ Stale(m)
    /\ lock' = Released(m)
    /\ End(m)
    /\ UNCHANGED <<ledgerButLock, workerVars, undated, mark, tasks>>

\* The event is flushed, and with it the checkpoint row.
AppendRebuilt(m) ==
    /\ tpc[m] = "append" /\ ~Stale(m)
    /\ Blockers(m) = {}
    /\ sequence' = sequence + 1
    /\ task' = [task EXCEPT ![m].event =
            SystemEvent(head[System], <<>>, "ProjectionRebuilt", Projector,
                        task[m].ver + 1, sequence + 1)]
    /\ Goto(m, "commit")
    /\ UNCHANGED <<log, head, lock, idem, audits, projected, workerVars, undated, mark, tasks, todo>>

\* The new live rows, the checkpoint and the event become visible together.  A DELETE
\* that waits for one of the old rows passes over it; the new one is not in its snapshot.
CommitRebuild(m) ==
    LET e == task[m].event IN
    /\ tpc[m] = "commit"
    /\ projected' = (projected \ task[m].held) \cup task[m].rows
    /\ undated' = undated \ (task[m].held \cup task[m].rows)
    /\ log' = [log EXCEPT ![System] = Append(log[System], e)]
    /\ head' = [head EXCEPT ![System] = Advanced(head[System], e.pos)]
    /\ audits' = audits \cup {e.pos}
    /\ mark' = MarkAfter(m, "READY")
    /\ lock' = Released(m)
    /\ tpc' = [tpc EXCEPT ![m] = "idle"]
    /\ task' = [task EXCEPT ![m] = NoTask]
    /\ todo' = [n \in Admin |-> IF n = m THEN {}
                                ELSE IF tpc[n] = "delete" THEN todo[n] \ task[m].held ELSE todo[n]]
    /\ UNCHANGED <<sequence, idem, workerVars, tasks>>

\* The checkpoint was inserted by another task meanwhile: rolled back.
FlushConflict(m) ==
    /\ tpc[m] = "flush" /\ Blockers(m) = {} /\ MarkTaken(m)
    /\ End(m)
    /\ UNCHANGED <<vars, undated, mark, tasks>>

\* The rows of a resume and the checkpoint, QUARANTINED at an unknown event, commit.
CommitRows(m) ==
    /\ tpc[m] = "flush" /\ Blockers(m) = {} /\ ~MarkTaken(m)
    /\ projected' = projected \cup task[m].rows
    /\ undated' = undated \ task[m].held
    /\ mark' = MarkAfter(m, IF task[m].stop THEN "QUARANTINED" ELSE "READY")
    /\ End(m)
    /\ UNCHANGED <<log, head, lock, sequence, idem, audits, workerVars, tasks>>

\* PostgreSQL rolls one task of a cycle back.
BreakDeadlock(m) ==
    /\ Deadlocked(m)
    /\ lock' = Released(m)
    /\ End(m)
    /\ UNCHANGED <<ledgerButLock, workerVars, undated, mark, tasks>>

\* The CLI is killed: rollback.  So ends, too, a resume whose UPDATE had begun to wait
\* for a rebuild that commits: the row it found is gone, put back or not.
CrashTask(m) ==
    /\ tpc[m] # "idle"
    /\ lock' = Released(m)
    /\ End(m)
    /\ UNCHANGED <<ledgerButLock, workerVars, undated, mark, tasks>>

TaskStep(m) ==
    \/ ReadEvents(m) \/ BuildShadow(m) \/ Report(m) \/ StopRebuild(m)
    \/ Promote(m) \/ LookUp(m) \/ Flush(m) \/ LockRow(m) \/ Fill(m)
    \/ LoseRow(m) \/ ReadMark(m) \/ LockForEvent(m) \/ AppendStale(m)
    \/ AppendRebuilt(m) \/ CommitRebuild(m) \/ FlushConflict(m) \/ CommitRows(m) \/ BreakDeadlock(m)

TaskNext ==
    \E m \in Admin : (\E op \in TaskOp : Start(m, op)) \/ TaskStep(m) \/ CrashTask(m)

TasksQuiescent ==
    /\ issued = MaxRequests /\ \A w \in Worker : pc[w] = "idle"
    /\ tasks = MaxTasks /\ \A m \in Admin : tpc[m] = "idle"
    /\ UNCHANGED projectionVars

ProjectionNext ==
    \/ WorkerNext /\ BesideTasks
    \/ TaskNext
    \/ TasksQuiescent

ProjectionSpec == ProjectionInit /\ [][ProjectionNext]_projectionVars

\* An operator's process that was started keeps executing: a step of it that stays
\* possible is taken.  With boundedly many tasks nothing need be said of the order in
\* which PostgreSQL serves the waiters of a row, and nothing of the workers.
ProjectionFairness == \A m \in Admin : WF_projectionVars(TaskStep(m))

FairProjectionSpec == ProjectionSpec /\ ProjectionFairness

-----------------------------------------------------------------------------
\* Types of the checkpoint and of the tasks, and of the ledger as they leave it.
ProjectionTypeOK ==
    /\ TypeOK
    /\ mark \in Mark /\ undated \subseteq projected
    /\ tasks \in 0..MaxTasks
    /\ tpc \in [Admin -> TaskPhase] /\ task \in [Admin -> Task \cup {NoTask}]
    /\ todo \in [Admin -> SUBSET Nat]
    /\ \A m \in Admin : tpc[m] = "idle" <=> task[m] = NoTask

\* Every live row is an observation whose event is committed: rebuilds, resumes,
\* crashes and submissions in any order never list what was not accepted.
RowsHaveEvents == projected \subseteq Observations

\* A rebuild that commits before any event it did not read leaves exactly the
\* accepted observations, whatever rows were missing and whoever else rebuilt,
\* resumed or died meanwhile.  About promotion as one transaction.
RebuildExact ==
    [][\A m \in Admin :
          CommitRebuild(m) /\ task[m].read = {e.pos : e \in Committed}
              => projected' = Observations]_projectionVars

\* Every task ends, committed, refused or rolled back: whatever it waits for, rows, the
\* SYSTEM head or the checkpoint, is released, or the wait is in a cycle and broken.
\* About locks held by an operator whose session died.
TasksEnd == \A m \in Admin : []<>(tpc[m] = "idle")

\* "Rebuilds are safe" (PROJECTION_REBUILD.md:17): an accepted observation is
\* listed.  A rebuild deletes rows of observations committed after it had read
\* the events (projections.py:149, repositories/projections.py:166).
AcceptedIsListed == Observations \subseteq projected

\* "Application is idempotent and forward-only, so this never rewrites existing rows"
\* (projections.py:138-140, of a resume).
ResumeRewritesNothing == [][\A m \in Admin : CommitRows(m) => undated' = undated]_projectionVars

\* Tasks never wait for each other in a cycle.
NoCycle == \A m \in Admin : ~Deadlocked(m)

=============================================================================

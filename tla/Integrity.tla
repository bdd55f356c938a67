------------------------------ MODULE Integrity ------------------------------
(***************************************************************************)
(* Integrity verification, quarantine and governed release of the streams  *)
(* of EventLedger, run by operators from the CLI while the workers serve   *)
(* commands.                                                               *)
(*                                                                         *)
(* A job is one transaction: it scans streams (one READ COMMITTED snapshot *)
(* per stream), reads what it will overwrite, then locks the head of the   *)
(* SYSTEM stream, appends its events there and commits.  The rows it has   *)
(* read stay in its session: they are the fields of its job record.        *)
(*                                                                         *)
(* A tampered event is one whose stored hash is no longer that of its      *)
(* content, or of no content: what a restore or a manual UPDATE leaves.    *)
(***************************************************************************)
EXTENDS SystemStream

CONSTANTS
    StreamOrder,    \* all streams, in the order of their keys (list_stream_keys)
    TamperTargets,  \* streams an outside hand corrupts
    ReleaseTargets, \* streams an operator asks to verify alone or to release
    MaxJobs,        \* bound: jobs started in a behaviour
    MaxTampers      \* bound: events corrupted in a behaviour

ASSUME OrderAssumption ==
    /\ StreamOrder \in Seq(Stream) /\ ToSet(StreamOrder) = Stream
    /\ TamperTargets \subseteq Stream /\ ReleaseTargets \subseteq Stream
ASSUME JobBoundAssumption == MaxJobs \in Nat /\ MaxTampers \in Nat

VARIABLES
    checkpoint,  \* integrity_checkpoints: last verified position, 0 when no row
    tampered,    \* positions whose stored event no longer verifies
    tampers, jobs,  \* how often either happened
    apc, job     \* of each admin: control, its session

integrityVars == <<checkpoint, tampered, tampers, jobs, apc, job>>
allVars == <<vars, integrityVars>>

Op == {"verify", "verify_stream", "release"}
NoJob == [op |-> "none"]
NewJob(op, mode, s, todo) ==
    [op |-> op, mode |-> mode, stream |-> s, todo |-> todo, clean |-> {}, bad |-> <<>>,
     loaded |-> [x \in Stream |-> 0], seen |-> NoHead, ver |-> 0, batch |-> <<>>]

StreamAggregate(s) == <<"IntegrityStream", s>>
ViolationAggregate(pos) == <<"IntegrityViolation", pos>>

\* What a job may append to the SYSTEM stream.
ASSUME IntegrityEventAssumption ==
    /\ {"IntegrityCheckCompleted", "IntegrityStreamVerified", "IntegrityStreamReleased",
        "IntegrityViolationDetected", "IntegrityStreamQuarantined"} \subseteq Kind
    /\ \A s \in Stream : StreamAggregate(s) \in Aggregate \ {Fresh}

-----------------------------------------------------------------------------
\* stream_for_stream_key: where the events of s after a position are.
After(s, from) == {i \in DOMAIN log[s] : log[s][i].pos > from}

\* Mutant: an incremental range is expected to start a chain.
BreaksUnanchored(s, from) ==
    {i \in After(s, from) :
        \/ log[s][i].pos \in tampered
        \/ log[s][i].prev # IF i - 1 \in After(s, from) THEN log[s][i - 1].pos ELSE 0}

\* verify_chain: where the events' own hash or their link is wrong.
Breaks(s, from) ==
    {i \in After(s, from) :
        \/ log[s][i].pos \in tampered
        \/ log[s][i].prev # IF i - 1 \in After(s, from) THEN log[s][i - 1].pos ELSE from}

\* The first of the streams still to be scanned.
NextStream(todo) == StreamOrder[Min({k \in DOMAIN StreamOrder : StreamOrder[k] \in todo})]

\* The SYSTEM head as the job's session sees it under the lock.  A release of
\* the SYSTEM stream itself changed that row before: the session keeps the
\* changed object and does not refresh it from SELECT ... FOR UPDATE.
SessionHead(m) ==
    IF job[m].op = "release" /\ job[m].stream = System
    THEN [job[m].seen EXCEPT !.status = "ACTIVE"]
    ELSE head[System]

\* Mutant: two events may carry one version of an aggregate.
ConflictsPrimaryKeyOnly(m) ==
    \E c \in job[m].clean : job[m].loaded[c.stream] = 0 /\ checkpoint[c.stream] # 0

\* The first flush fails: another job inserted a checkpoint this one inserts
\* too, or appended to the aggregate since its version was read.
Conflicts(m) ==
    \/ \E c \in job[m].clean : job[m].loaded[c.stream] = 0 /\ checkpoint[c.stream] # 0
    \/ job[m].op # "verify"
       /\ Latest(log[System], StreamAggregate(job[m].stream)) # job[m].ver

\* The streams whose quarantine is among a job's staged events.
Quarantining(m) ==
    {e.agg[2] : e \in {x \in ToSet(job[m].batch) : x.kind = "IntegrityStreamQuarantined"}}

\* Mutant: a successful single-stream verification also lifts the quarantine.
StatusAfterEager(m, s) ==
    IF s \in Quarantining(m) THEN "QUARANTINED"
    ELSE IF job[m].op \in {"release", "verify_stream"} /\ job[m].stream = s
         THEN "ACTIVE" ELSE head[s].status

\* The status of s once job m commits.  An UPDATE names only the columns that
\* differ from what the session read: releasing a row read as ACTIVE leaves it.
StatusAfter(m, s) ==
    IF s \in Quarantining(m) THEN "QUARANTINED"
    ELSE IF job[m].op = "release" /\ job[m].stream = s /\ job[m].seen.status = "QUARANTINED"
         THEN "ACTIVE" ELSE head[s].status

\* The checkpoint of s once job m commits, by the same rule.
CheckpointAfter(m, s) ==
    LET mine == {c.pos : c \in {x \in job[m].clean : x.stream = s}} \ {job[m].loaded[s]}
    IN  IF mine = {} THEN checkpoint[s] ELSE Max(mine)

EndJob(m, at) ==
    /\ apc' = [apc EXCEPT ![m] = at]
    /\ job' = IF at = "idle" THEN [job EXCEPT ![m] = NoJob] ELSE job
    /\ lock' = Released(m)

-----------------------------------------------------------------------------
IntegrityInit ==
    /\ Init
    /\ checkpoint = [s \in Stream |-> 0]
    /\ tampered = {} /\ tampers = 0 /\ jobs = 0
    /\ apc = [m \in Admin |-> "idle"]
    /\ job = [m \in Admin |-> NoJob]

\* verify(mode): list_stream_keys names the streams that have an event.
StartVerify(m, mode) ==
    /\ apc[m] = "idle" /\ jobs < MaxJobs
    /\ job' = [job EXCEPT ![m] = NewJob("verify", mode, System, {s \in Stream : log[s] # <<>>})]
    /\ apc' = [apc EXCEPT ![m] = "scan"]
    /\ jobs' = jobs + 1
    /\ UNCHANGED <<vars, checkpoint, tampered, tampers>>

\* verify_stream, unquarantine_stream: refused (no effect) when the stream has
\* no head row, that is when nothing was ever appended to it.  An operator without
\* ADMINISTER_ENGINE, refused too, is left out.
StartStream(m, op, s) ==
    /\ apc[m] = "idle" /\ jobs < MaxJobs
    /\ head[s].version > 0
    /\ job' = [job EXCEPT ![m] = NewJob(op, "FULL", s, {s})]
    /\ apc' = [apc EXCEPT ![m] = "scan"]
    /\ jobs' = jobs + 1
    /\ UNCHANGED <<vars, checkpoint, tampered, tampers>>

\* _verify_stream of the next stream: the events after its checkpoint, whose
\* hash anchors them (INCREMENTAL), or all of them.
Scan(m) ==
    LET s == NextStream(job[m].todo)
        from == IF job[m].mode = "INCREMENTAL" THEN checkpoint[s] ELSE 0
        breaks == Breaks(s, from)
        scanned == [job[m] EXCEPT !.todo = job[m].todo \ {s}] IN
    /\ apc[m] = "scan" /\ job[m].todo # {}
    /\ job' = [job EXCEPT ![m] =
            IF breaks # {}
            THEN [scanned EXCEPT !.bad = Append(job[m].bad, [stream |-> s, pos |-> log[s][Min(breaks)].pos])]
            ELSE IF After(s, from) = {} THEN scanned
            ELSE [scanned EXCEPT !.clean =
                    job[m].clean \cup {[stream |-> s, pos |-> log[s][Max(After(s, from))].pos]}]]
    /\ UNCHANGED <<vars, checkpoint, tampered, tampers, jobs, apc>>

\* A single stream that does not verify: verify_stream records nothing, a
\* release is refused (StreamReleaseBlockedError).
StopBroken(m) ==
    /\ apc[m] = "scan" /\ job[m].todo = {}
    /\ job[m].op # "verify" /\ job[m].bad # <<>>
    /\ EndJob(m, "idle")
    /\ UNCHANGED <<ledgerButLock, workerVars, checkpoint, tampered, tampers, jobs>>

\* _advance_checkpoint and release_stream read the rows they change; both
\* write them only at the next flush.
ReadRows(m) ==
    /\ apc[m] = "scan" /\ job[m].todo = {}
    /\ job[m].op = "verify" \/ job[m].bad = <<>>
    /\ job' = [job EXCEPT ![m].loaded = checkpoint,
                          ![m].seen = IF job[m].op = "release" THEN head[job[m].stream] ELSE NoHead]
    /\ apc' = [apc EXCEPT ![m] = "version"]
    /\ UNCHANGED <<vars, checkpoint, tampered, tampers, jobs>>

\* _system_event reads the version of its aggregate before any lock is held.
\* The aggregate of a verification of everything is new.
ReadVersion(m) ==
    /\ apc[m] = "version"
    /\ job' = [job EXCEPT ![m].ver =
            IF job[m].op = "verify" THEN 0
            ELSE Latest(log[System], StreamAggregate(job[m].stream))]
    /\ apc' = [apc EXCEPT ![m] = "lock"]
    /\ UNCHANGED <<vars, checkpoint, tampered, tampers, jobs>>

\* Mutant: the head of the SYSTEM stream is read without FOR UPDATE.
LockSystemUnlocked(m) ==
    /\ apc[m] = "lock"
    /\ apc' = [apc EXCEPT ![m] = "append"]
    /\ UNCHANGED <<vars, checkpoint, tampered, tampers, jobs, job>>

\* append_one: _lock_head of the SYSTEM stream.
LockSystem(m) ==
    /\ apc[m] = "lock" /\ lock[System] = NoSession
    /\ lock' = [lock EXCEPT ![System] = m]
    /\ apc' = [apc EXCEPT ![m] = "append"]
    /\ UNCHANGED <<ledgerButLock, workerVars, checkpoint, tampered, tampers, jobs, job>>

\* ConcurrencyConflictError or an IntegrityError: nothing is kept.
AppendConflict(m) ==
    /\ apc[m] = "append" /\ Conflicts(m)
    /\ EndJob(m, "idle")
    /\ UNCHANGED <<ledgerButLock, workerVars, checkpoint, tampered, tampers, jobs>>

\* The first event.  Its flush also sends the UPDATE of the released head, which
\* takes the row lock of that head.
AppendFirst(m) ==
    LET s == job[m].stream
        releasesApp == job[m].op = "release" /\ s # System IN
    /\ apc[m] = "append" /\ ~Conflicts(m)
    /\ releasesApp => lock[s] = NoSession
    /\ lock' = IF releasesApp THEN [lock EXCEPT ![s] = m] ELSE lock
    /\ sequence' = sequence + 1
    /\ job' = [job EXCEPT ![m].batch = <<SystemEvent(SessionHead(m), <<>>,
            CASE job[m].op = "verify" -> "IntegrityCheckCompleted"
              [] job[m].op = "verify_stream" -> "IntegrityStreamVerified"
              [] job[m].op = "release" -> "IntegrityStreamReleased",
            IF job[m].op = "verify" THEN Fresh ELSE StreamAggregate(s),
            job[m].ver + 1, sequence + 1)>>]
    /\ apc' = [apc EXCEPT ![m] = "quarantine"]
    /\ UNCHANGED <<log, head, idem, audits, projected, workerVars,
                   checkpoint, tampered, tampers, jobs>>

\* The two events of _quarantine for violation v, after those already staged.
QuarantineEvents(m, v) ==
    LET events == log[System] \o job[m].batch
        first == SystemEvent(head[System], job[m].batch, "IntegrityViolationDetected",
                    ViolationAggregate(v.pos),
                    Latest(events, ViolationAggregate(v.pos)) + 1, sequence + 1)
        second == SystemEvent(head[System], <<first>>, "IntegrityStreamQuarantined",
                    StreamAggregate(v.stream),
                    Latest(events, StreamAggregate(v.stream)) + 1, sequence + 2)
    IN  <<first, second>>

\* Mutant: the quarantine does not wait for the writer that holds the head.
QuarantineImpatient(m) ==
    LET v == Head(job[m].bad) IN
    /\ apc[m] = "quarantine" /\ job[m].bad # <<>> /\ v.stream # System
    /\ sequence' = sequence + 2
    /\ job' = [job EXCEPT ![m].batch = job[m].batch \o QuarantineEvents(m, v),
                          ![m].bad = Tail(job[m].bad)]
    /\ UNCHANGED <<log, head, lock, idem, audits, projected, workerVars,
                   checkpoint, tampered, tampers, jobs, apc>>

\* _quarantine of the next violation: the UPDATE of the head waits for its row
\* lock, two events go to the SYSTEM stream.  Everything else that changes a
\* status holds the SYSTEM lock, so nothing moves between read and write.
Quarantine(m) ==
    LET v == Head(job[m].bad) IN
    /\ apc[m] = "quarantine" /\ job[m].bad # <<>> /\ v.stream # System
    /\ lock[v.stream] = NoSession
    /\ lock' = [lock EXCEPT ![v.stream] = m]
    /\ sequence' = sequence + 2
    /\ job' = [job EXCEPT ![m].batch = job[m].batch \o QuarantineEvents(m, v),
                          ![m].bad = Tail(job[m].bad)]
    /\ UNCHANGED <<log, head, idem, audits, projected, workerVars,
                   checkpoint, tampered, tampers, jobs, apc>>

\* The break is in the SYSTEM stream: its head, changed to QUARANTINED in this
\* session, rejects the job's own next event and everything is rolled back.
RejectOwnAppend(m) ==
    /\ apc[m] = "quarantine" /\ job[m].bad # <<>> /\ Head(job[m].bad).stream = System
    /\ EndJob(m, "rejected")
    /\ UNCHANGED <<ledgerButLock, workerVars, checkpoint, tampered, tampers, jobs>>

\* The CLI ends with StreamQuarantinedError.
ReportRejection(m) ==
    /\ apc[m] = "rejected"
    /\ EndJob(m, "idle")
    /\ UNCHANGED <<ledgerButLock, workerVars, checkpoint, tampered, tampers, jobs>>

\* Commit: events, heads, checkpoints and audit become visible together.
CommitJob(m) ==
    LET batch == job[m].batch IN
    /\ apc[m] = "quarantine" /\ job[m].bad = <<>>
    /\ log' = [log EXCEPT ![System] = log[System] \o batch]
    /\ head' = [s \in Stream |->
            IF s = System
            THEN [last |-> Last(batch).pos, version |-> SessionHead(m).version + Len(batch),
                  status |-> StatusAfter(m, s)]
            ELSE [head[s] EXCEPT !.status = StatusAfter(m, s)]]
    /\ checkpoint' = [s \in Stream |-> CheckpointAfter(m, s)]
    /\ audits' = IF job[m].op = "verify_stream" THEN audits ELSE audits \cup {batch[1].pos}
    /\ EndJob(m, "idle")
    /\ UNCHANGED <<sequence, idem, projected, workerVars, tampered, tampers, jobs>>

\* The process of the CLI is killed: the transaction is rolled back.
CrashAdmin(m) ==
    /\ apc[m] \notin {"idle", "rejected"}
    /\ EndJob(m, "idle")
    /\ UNCHANGED <<ledgerButLock, workerVars, checkpoint, tampered, tampers, jobs>>

\* A committed event is corrupted behind the engine's back, or restored.
Tamper(s, i) ==
    /\ tampers < MaxTampers /\ log[s][i].pos \notin tampered
    /\ tampered' = tampered \cup {log[s][i].pos}
    /\ tampers' = tampers + 1
    /\ UNCHANGED <<vars, checkpoint, jobs, apc, job>>

Repair(p) ==
    /\ tampered' = tampered \ {p}
    /\ UNCHANGED <<vars, checkpoint, tampers, jobs, apc, job>>

AdminStep(m) ==
    \/ Scan(m) \/ StopBroken(m) \/ ReadRows(m) \/ ReadVersion(m) \/ LockSystem(m)
    \/ AppendConflict(m) \/ AppendFirst(m) \/ Quarantine(m) \/ RejectOwnAppend(m)
    \/ ReportRejection(m) \/ CommitJob(m)

AdminNext ==
    \E m \in Admin :
        \/ \E mode \in {"FULL", "INCREMENTAL"} : StartVerify(m, mode)
        \/ \E op \in Op \ {"verify"}, s \in ReleaseTargets : StartStream(m, op, s)
        \/ AdminStep(m)
        \/ CrashAdmin(m)

Environment ==
    \/ \E s \in TamperTargets : \E i \in DOMAIN log[s] : Tamper(s, i)
    \/ \E p \in tampered : Repair(p)

AllQuiescent ==
    /\ issued = MaxRequests /\ \A w \in Worker : pc[w] = "idle"
    /\ jobs = MaxJobs /\ \A m \in Admin : apc[m] = "idle"
    /\ UNCHANGED allVars

IntegrityNext ==
    \/ WorkerNext /\ UNCHANGED integrityVars
    \/ AdminNext
    \/ Environment
    \/ AllQuiescent

IntegritySpec == IntegrityInit /\ [][IntegrityNext]_allVars

-----------------------------------------------------------------------------
Phase == {"idle", "scan", "version", "lock", "append", "quarantine", "rejected"}
Finding == [stream : Stream, pos : Nat]
Job == [op : Op, mode : {"FULL", "INCREMENTAL"}, stream : Stream, todo : SUBSET Stream,
        clean : SUBSET Finding, bad : Seq(Finding), loaded : [Stream -> Nat],
        seen : HeadRow, ver : Nat, batch : Seq(Event)]

\* Types of what operators keep, and of the ledger as they leave it.
IntegrityTypeOK ==
    /\ TypeOK
    /\ checkpoint \in [Stream -> Nat]
    /\ tampered \subseteq 1..sequence
    /\ tampers \in 0..MaxTampers /\ jobs \in 0..MaxJobs
    /\ apc \in [Admin -> Phase]
    /\ job \in [Admin -> Job \cup {NoJob}]
    /\ \A m \in Admin : apc[m] = "idle" <=> job[m] = NoJob

\* Where nothing was tampered with, nothing is quarantined: verifications
\* interleaved with appends, releases and other verifications, from any
\* checkpoint, never mistake a legitimate stream for a broken one.
NoFalseAlarm ==
    tampers = 0 => \A s \in Stream : head[s].status = "ACTIVE"

\* The events that say what the status of s is.
StatusEvents(s) ==
    {i \in DOMAIN log[System] : log[System][i].agg = StreamAggregate(s)
                                /\ log[System][i].kind # "IntegrityStreamVerified"}

\* An application's stream that accepts writes has no quarantine recorded after its last
\* recorded release, and one that is blocked has a quarantine on record: no interleaving
\* of operators loses a quarantine, reopens or blocks a stream silently.  The converse of
\* the second does not hold: a release that read ACTIVE is recorded and unblocks nothing.
StatusIsRecorded ==
    \A s \in App :
        IF head[s].status = "ACTIVE"
        THEN \A i \in StatusEvents(s) :
                (\A j \in StatusEvents(s) : j <= i) => log[System][i].kind = "IntegrityStreamReleased"
        ELSE \E i \in StatusEvents(s) : log[System][i].kind = "IntegrityStreamQuarantined"

\* "On a detected break the stream is QUARANTINED" (integrity.py:15): when a
\* verification ends because a stream is quarantined, the stream is.
DetectionQuarantines ==
    \A m \in Admin :
        apc[m] = "rejected" => head[Head(job[m].bad).stream].status = "QUARANTINED"

=============================================================================

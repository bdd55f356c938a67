--------------------------- MODULE IntegrityProofs ---------------------------
(***************************************************************************)
(* Proofs about what operators do beside the workers, for any number of    *)
(* operators, workers, streams, jobs, tasks and corruptions: verification, *)
(* quarantine and release (Integrity), and rebuild, resume and verify of   *)
(* the live rows (Projection).                                             *)
(***************************************************************************)
EXTENDS Integrity, Projection, EventLedgerProofs, AggregateVersionsProofs

\* The SYSTEM stream as it will be once job m commits.
Whole(m) == log[System] \o job[m].batch

\* What a job may write: event e of job record j.
WrittenBy(j, e) ==
    IF j.op = "verify"
    THEN \/ e.agg = Fresh /\ e.kind = "IntegrityCheckCompleted"
         \/ e.kind = "IntegrityViolationDetected" /\ \A s \in Stream : e.agg # StreamAggregate(s)
         \/ e.kind = "IntegrityStreamQuarantined" /\ \E s \in Stream : e.agg = StreamAggregate(s)
    ELSE /\ e.agg = StreamAggregate(j.stream)
         /\ e.kind = IF j.op = "release" THEN "IntegrityStreamReleased"
                                         ELSE "IntegrityStreamVerified"

JobFits(m) ==
    /\ job[m].op # "verify" => job[m].stream \in ReleaseTargets
    /\ \A c, d \in job[m].clean : c.stream = d.stream => c = d
    /\ \A c \in job[m].clean : c.stream \notin job[m].todo
    /\ apc[m] \notin {"quarantine", "rejected"} => job[m].batch = <<>>
    /\ apc[m] \notin {"scan", "rejected"} /\ job[m].op # "verify" => job[m].bad = <<>>

BatchFits(m) ==
    /\ job[m].batch # <<>>
    /\ job[m].op # "verify" => Len(job[m].batch) = 1
    /\ \A i \in DOMAIN job[m].batch :
          job[m].batch[i].pos \in 1..sequence /\ WrittenBy(job[m], job[m].batch[i])
    /\ Numbered(Whole(m))

\* Position p is the position of a committed event of s.
Listed(s, p) == \E i \in DOMAIN log[s] : log[s][i].pos = p

PositionsUsed == \A s \in Stream : \A i \in DOMAIN log[s] : log[s][i].pos \in 1..sequence
JobsFit == \A m \in Admin : apc[m] # "idle" => JobFits(m)
SystemLocked == \A m \in Admin : apc[m] \in {"append", "quarantine"} => lock[System] = m
BatchesFit == \A m \in Admin : apc[m] = "quarantine" => BatchFits(m)

OperatorInv == IntegrityTypeOK /\ PositionsUsed /\ JobsFit /\ SystemLocked /\ BatchesFit

RecordInv == WriteInv /\ OperatorInv /\ VersionsContiguous /\ StatusIsRecorded

-----------------------------------------------------------------------------
\* Sequences of events: what concatenating and cutting them gives.
LEMMA EventSeq ==
    ASSUME NEW L \in Seq(Event)
    PROVE  /\ Len(L) \in Nat /\ DOMAIN L = 1..Len(L)
           /\ \A i \in DOMAIN L : L[i] \in Event
           /\ L = <<>> <=> Len(L) = 0
           /\ L \o <<>> = L /\ <<>> \o L = L
  BY LenProperties, ElementOfSeq, EmptySeq, ConcatEmptySeq

\* The latest version of an aggregate is a number.
LEMMA LatestVersion ==
    ASSUME NEW L \in Seq(Event), NEW aggregate
    PROVE  Latest(L, aggregate) \in Nat
  <1>1. \A e \in Event : e.ver \in Nat
    BY DEF Event
  <1>. QED
    BY <1>1, LatestIsNat

\* An event of a new aggregate, or at the version after the latest of its aggregate,
\* keeps a stream numbered.
LEMMA AppendNumbered ==
    ASSUME NEW L \in Seq(Event), Numbered(L), NEW e \in Event,
           e.agg # Fresh => e.ver = Latest(L, e.agg) + 1
    PROVE  Numbered(Append(L, e))
  <1> DEFINE n == Len(L)
             M == Append(L, e)
  <1>1. /\ n \in Nat /\ DOMAIN L = 1..n /\ M \in Seq(Event) /\ DOMAIN M = 1..(n + 1)
        /\ M[n + 1] = e /\ \A i \in 1..n : M[i] = L[i]
    BY AppendProperties, LenProperties
  <1>2. \A i \in 1..(n + 1) : SubSeq(M, 1, i - 1) = SubSeq(L, 1, i - 1)
    <2> TAKE i \in 1..(n + 1)
    <2>1. \A j \in 1..(i - 1) : j \in 1..n /\ M[j] = L[j]
      BY <1>1
    <2>. QED
      BY <1>1, <2>1
  <1>3. SubSeq(L, 1, n) = L
    BY <1>1
  <1>4. \A i \in 1..(n + 1) : M[i].agg # Fresh => M[i].ver = Latest(SubSeq(M, 1, i - 1), M[i].agg) + 1
    <2> TAKE i \in 1..(n + 1)
    <2>1. CASE i = n + 1
      <3>1. SubSeq(M, 1, i - 1) = L
        BY <1>1, <1>2, <1>3, <2>1
      <3>. QED
        BY <3>1, <2>1, <1>1
    <2>2. CASE i # n + 1
      <3>1. i \in 1..n /\ SubSeq(M, 1, i - 1) = SubSeq(L, 1, i - 1)
        BY <1>1, <1>2, <2>2
      <3>2. L[i].agg # Fresh => L[i].ver = Latest(SubSeq(L, 1, i - 1), L[i].agg) + 1
        BY <3>1, <1>1 DEF Numbered
      <3>. QED
        BY <3>1, <3>2, <1>1
    <2>. QED
      BY <2>1, <2>2
  <1>. QED
    BY <1>1, <1>4 DEF Numbered

\* Appending to the second part of a concatenation.
LEMMA ConcatAppend ==
    ASSUME NEW L \in Seq(Event), NEW B \in Seq(Event), NEW e \in Event
    PROVE  L \o Append(B, e) = Append(L \o B, e)
  OBVIOUS

-----------------------------------------------------------------------------
\* What operators see of a step of a worker: application streams grow, the
\* sequence advances; the SYSTEM stream, its lock in an operator's hands and every
\* status stay.
LEMMA WorkerFrame ==
    ASSUME WriteInv, WorkerNext
    PROVE  /\ WriteInv'
           /\ log'[System] = log[System] /\ head'[System] = head[System]
           /\ \A s \in Stream : head'[s].status = head[s].status
           /\ \A m \in Admin : lock[System] = m => lock'[System] = m
           /\ sequence' \in Nat /\ sequence <= sequence'
  <1>1. [Next]_vars
    BY DEF Next
  <1>2. WriteInv'
    BY <1>1, NextWrites
  <1>3. System \in Stream /\ System \notin App
    BY StreamAssumption DEF Stream
  <1>4. CASE \E w \in Worker : Commit(w)
    <2> PICK w \in Worker : Commit(w)
      BY <1>4
    <2> DEFINE a == req[w].app
               e == staged[w]
    <2>1. /\ a \in App /\ a \in Stream
          /\ log' = [log EXCEPT ![a] = Append(log[a], e)]
          /\ head' = [head EXCEPT ![a] = Advanced(head[a], e.pos)]
          /\ sequence' = sequence
      BY CommitEffect
    <2>2. lock' = Released(w)
      BY DEF Commit
    <2>3. \A s \in Stream : head'[s].status = head[s].status
      BY <2>1 DEF WriteInv, TypeOK, Advanced
    <2>4. log'[System] = log[System] /\ head'[System] = head[System]
      BY <1>3, <2>1 DEF WriteInv, TypeOK
    <2>5. \A m \in Admin : lock[System] = m => lock'[System] = m
      BY <1>3, <2>2, AdminAssumption DEF Released
    <2>6. sequence \in Nat
      BY DEF WriteInv, TypeOK
    <2>. QED
      BY <1>2, <2>1, <2>3, <2>4, <2>5, <2>6
  <1>5. CASE ~\E w \in Worker : Commit(w)
    <2>1. UNCHANGED <<log, head>>
      BY <1>5 DEF WorkerNext, WorkerStep, Receive, FindNothing, FindExisting,
         ResolveNothing, LockHead, RejectQuarantined, AppendEvent, LoseRace, Reply, Crash,
         ledgerVars
    <2>2. sequence' = sequence \/ sequence' = sequence + 1
      BY <1>5 DEF WorkerNext, WorkerStep, Receive, FindNothing, FindExisting,
         ResolveNothing, LockHead, RejectQuarantined, AppendEvent, LoseRace, Reply, Crash,
         ledgerVars
    <2>3. \/ lock' = lock
          \/ \E w \in Worker : lock' = Released(w)
          \/ \E w \in Worker : LockHead(w)
      BY <1>5 DEF WorkerNext, WorkerStep, Receive, FindNothing, FindExisting,
         ResolveNothing, RejectQuarantined, AppendEvent, LoseRace, Reply, Crash, ledgerVars
    <2>4. ASSUME NEW m \in Admin, lock[System] = m PROVE lock'[System] = m
      <3>1. ASSUME NEW w \in Worker, lock' = Released(w) PROVE lock'[System] = m
        BY <1>3, <2>4, <3>1, AdminAssumption DEF Released
      <3>2. ASSUME NEW w \in Worker, LockHead(w) PROVE lock'[System] = m
        <4>1. req[w].app \in App
          BY <3>2 DEF LockHead, WriteInv, LockHeld, Request
        <4>. QED
          BY <1>3, <2>4, <3>2, <4>1 DEF LockHead, WriteInv, TypeOK
      <3>. QED
        BY <2>3, <2>4, <3>1, <3>2
    <2>5. sequence \in Nat
      BY DEF WriteInv, TypeOK
    <2>. QED
      BY <1>2, <2>1, <2>2, <2>4, <2>5
  <1>. QED
    BY <1>4, <1>5

\* A worker uses a position of its own for the event it commits.
LEMMA WorkerPositions ==
    ASSUME WriteInv, PositionsUsed, WorkerNext
    PROVE  PositionsUsed'
  <1>1. sequence \in Nat /\ sequence' \in Nat /\ sequence <= sequence'
    BY WorkerFrame DEF WriteInv, TypeOK
  <1>2. ASSUME NEW w \in Worker, Commit(w), NEW s \in Stream, NEW i \in DOMAIN log'[s]
        PROVE  log'[s][i].pos \in 1..sequence'
    <2> DEFINE a == req[w].app
               e == staged[w]
    <2>1. /\ a \in Stream /\ e \in Event /\ e.prev < e.pos /\ e.pos <= sequence
          /\ sequence' = sequence
      BY <1>2, CommitEffect
    <2>2. /\ \A t \in Stream : t # a => log'[t] = log[t]
          /\ Len(log[a]) \in Nat /\ DOMAIN log[a] = 1..Len(log[a])
          /\ DOMAIN log'[a] = 1..(Len(log[a]) + 1)
          /\ log'[a][Len(log[a]) + 1] = e /\ \A j \in DOMAIN log[a] : log'[a][j] = log[a][j]
      BY <1>2, CommitLog
    <2>3. e.pos \in 1..sequence'
      BY <1>1, <2>1 DEF Event
    <2>4. \A t \in Stream : \A j \in DOMAIN log[t] : log[t][j].pos \in 1..sequence
      BY DEF PositionsUsed
    <2>5. CASE s # a
      BY <2>1, <2>2, <2>4, <2>5
    <2>6. CASE s = a
      <3>1. i \in DOMAIN log[a] \/ i = Len(log[a]) + 1
        BY <2>2, <2>6
      <3>. QED
        BY <2>1, <2>2, <2>3, <2>4, <2>6, <3>1
    <2>. QED
      BY <2>5, <2>6
  <1>3. CASE ~\E w \in Worker : Commit(w)
    <2>1. [Next]_vars
      BY DEF Next
    <2>2. log' = log
      BY <1>3, <2>1, OnlyCommitWrites DEF WriteInv
    <2>. QED
      BY <1>1, <2>2 DEF PositionsUsed
  <1>. QED
    BY <1>2, <1>3 DEF PositionsUsed

-----------------------------------------------------------------------------
(***************************************************************************)
(* What each step of an operator does to its job record.                   *)
(***************************************************************************)
\* The stream scanned next is one of those still to be scanned.
LEMMA NextStreamListed ==
    ASSUME NEW remaining \in SUBSET Stream, remaining # {}
    PROVE  NextStream(remaining) \in remaining
  <1> DEFINE at == {k \in DOMAIN StreamOrder : StreamOrder[k] \in remaining}
  <1>1. at \in SUBSET Nat /\ at # {}
    <2>1. DOMAIN StreamOrder \in SUBSET Nat
      BY OrderAssumption, LenProperties
    <2>2. Stream = {StreamOrder[k] : k \in DOMAIN StreamOrder}
      BY OrderAssumption DEF ToSet
    <2>. QED
      BY <2>1, <2>2
  <1>2. Min(at) \in at
    <2> HIDE DEF at
    <2>. QED
      BY <1>1, MinIsLeast
  <1>. QED
    BY <1>2 DEF NextStream

\* A job that is under way has a job record.
LEMMA RunningJob ==
    ASSUME IntegrityTypeOK, NEW m \in Admin, apc[m] # "idle"
    PROVE  /\ job[m] \in Job /\ job[m].op \in Op /\ job[m].stream \in Stream
           /\ job[m].mode \in {"FULL", "INCREMENTAL"}
           /\ job[m].todo \in SUBSET Stream /\ job[m].clean \in SUBSET Finding
           /\ job[m].bad \in Seq(Finding) /\ job[m].loaded \in [Stream -> Nat]
           /\ job[m].seen \in HeadRow /\ job[m].ver \in Nat /\ job[m].batch \in Seq(Event)
  <1>1. job[m] \in Job
    BY DEF IntegrityTypeOK
  <1>. QED
    BY <1>1 DEF Job

\* How a scan of stream s changes job record r into j: the stream is done; it had
\* nothing new, or is clean up to a committed event, or some event of it does not
\* verify.
ScanResult(r, s, j) ==
    /\ j \in Job
    /\ j.op = r.op /\ j.stream = r.stream /\ j.batch = r.batch
    /\ j.todo = r.todo \ {s}
    /\ \/ j.clean = r.clean /\ j.bad = r.bad
       \/ /\ j.bad = r.bad
          /\ \E p \in Nat : Listed(s, p) /\ j.clean = r.clean \cup {[stream |-> s, pos |-> p]}
       \/ /\ j.clean = r.clean
          /\ Breaks(s, 0) # {} \/ Breaks(s, checkpoint[s]) # {}

\* _verify_stream in these terms.
LEMMA ScanEffect ==
    ASSUME IntegrityTypeOK, NEW m \in Admin, Scan(m)
    PROVE  \E s \in job[m].todo : \E j \in Job :
              ScanResult(job[m], s, j) /\ job' = [job EXCEPT ![m] = j]
  <1> DEFINE s == NextStream(job[m].todo)
             from == IF job[m].mode = "INCREMENTAL" THEN checkpoint[s] ELSE 0
             breaks == Breaks(s, from)
             after == After(s, from)
             scanned == [job[m] EXCEPT !.todo = job[m].todo \ {s}]
             broken == [scanned EXCEPT !.bad = Append(job[m].bad, [stream |-> s, pos |-> log[s][Min(breaks)].pos])]
             cleaned == [scanned EXCEPT !.clean = job[m].clean \cup {[stream |-> s, pos |-> log[s][Max(after)].pos]}]
  <1>1. apc[m] # "idle" /\ job[m].todo # {}
    BY DEF Scan
  <1>2. /\ job[m] \in Job /\ job[m].todo \in SUBSET Stream /\ job[m].clean \in SUBSET Finding
        /\ job[m].bad \in Seq(Finding)
    BY <1>1, RunningJob
  <1>3. s \in job[m].todo /\ s \in Stream
    BY <1>1, <1>2, NextStreamListed
  <1>4. /\ DOMAIN log[s] \in SUBSET Nat /\ Len(log[s]) \in Nat
        /\ \A i \in DOMAIN log[s] : log[s][i] \in Event /\ log[s][i].pos \in Nat /\ i <= Len(log[s])
    <2>1. log[s] \in Seq(Event)
      BY <1>3 DEF IntegrityTypeOK, TypeOK
    <2>2. \A e \in Event : e.pos \in Nat
      BY DEF Event
    <2>. QED
      BY <2>1, <2>2, EventSeq
  <1>5. job' = [job EXCEPT ![m] =
            IF breaks # {} THEN broken ELSE IF after = {} THEN scanned ELSE cleaned]
    BY DEF Scan
  <1>6. after \subseteq DOMAIN log[s] /\ breaks \subseteq DOMAIN log[s]
    BY DEF After, Breaks
  <1>7. breaks = Breaks(s, 0) \/ breaks = Breaks(s, checkpoint[s])
    OBVIOUS
  <1> HIDE DEF s, after, breaks, from
  <1>8. scanned \in Job /\ scanned.todo = job[m].todo \ {s} /\ scanned.op = job[m].op
        /\ scanned.stream = job[m].stream /\ scanned.batch = job[m].batch
        /\ scanned.clean = job[m].clean /\ scanned.bad = job[m].bad
    BY <1>2 DEF Job
  <1>9. CASE breaks # {}
    <2>1. Min(breaks) \in DOMAIN log[s]
      BY <1>4, <1>6, <1>9, MinIsLeast
    <2>2. Append(job[m].bad, [stream |-> s, pos |-> log[s][Min(breaks)].pos]) \in Seq(Finding)
      <3>1. [stream |-> s, pos |-> log[s][Min(breaks)].pos] \in Finding
        BY <1>3, <1>4, <2>1 DEF Finding
      <3>. QED
        BY <1>2, <3>1
    <2>3. broken \in Job /\ broken.todo = job[m].todo \ {s} /\ broken.op = job[m].op
          /\ broken.stream = job[m].stream /\ broken.batch = job[m].batch
          /\ broken.clean = job[m].clean
      BY <1>8, <2>2 DEF Job
    <2>4. ScanResult(job[m], s, broken)
      BY <1>7, <1>9, <2>3 DEF ScanResult
    <2>. QED
      BY <1>3, <1>5, <1>9, <2>3, <2>4
  <1>10. CASE breaks = {} /\ after = {}
    <2>1. ScanResult(job[m], s, scanned)
      BY <1>8 DEF ScanResult
    <2>. QED
      BY <1>3, <1>5, <1>8, <1>10, <2>1
  <1>11. CASE breaks = {} /\ after # {}
    <2> DEFINE p == log[s][Max(after)].pos
    <2>1. Max(after) \in DOMAIN log[s]
      BY <1>4, <1>6, <1>11, MaxIsGreatest
    <2>2. p \in Nat /\ Listed(s, p)
      BY <1>4, <2>1 DEF Listed
    <2> HIDE DEF p
    <2>3. job[m].clean \cup {[stream |-> s, pos |-> p]} \in SUBSET Finding
      BY <1>2, <1>3, <2>2 DEF Finding
    <2>4. cleaned.clean = job[m].clean \cup {[stream |-> s, pos |-> p]}
      BY <1>2 DEF p, Job
    <2>5. cleaned \in Job /\ cleaned.todo = job[m].todo \ {s} /\ cleaned.op = job[m].op
          /\ cleaned.stream = job[m].stream /\ cleaned.batch = job[m].batch
          /\ cleaned.bad = job[m].bad
      BY <1>2, <1>8, <2>3 DEF Job, p
    <2>6. ScanResult(job[m], s, cleaned)
      BY <2>2, <2>4, <2>5 DEF ScanResult
    <2>. QED
      BY <1>3, <1>5, <1>11, <2>5, <2>6
  <1>. QED
    BY <1>9, <1>10, <1>11

\* Violations and streams have different aggregates, and streams one each.
LEMMA AggregatesDiffer ==
    /\ \A p, s : ViolationAggregate(p) # StreamAggregate(s)
    /\ \A s, t : StreamAggregate(s) = StreamAggregate(t) => s = t
    /\ \A s : StreamAggregate(s)[2] = s
  <1>1. ASSUME NEW p, NEW s PROVE ViolationAggregate(p) # StreamAggregate(s)
    <2>1. ViolationAggregate(p)[1] = "IntegrityViolation" /\ StreamAggregate(s)[1] = "IntegrityStream"
      BY DEF ViolationAggregate, StreamAggregate
    <2>2. "IntegrityViolation" # "IntegrityStream"
      OBVIOUS
    <2>. QED
      BY <2>1, <2>2
  <1>2. \A s : StreamAggregate(s)[2] = s
    BY DEF StreamAggregate
  <1>. QED
    BY <1>1, <1>2

\* The SYSTEM head in a session is a head row.
LEMMA SessionHeadType ==
    ASSUME IntegrityTypeOK, NEW m \in Admin, apc[m] # "idle"
    PROVE  SessionHead(m) \in HeadRow
  <1>1. job[m].seen \in HeadRow /\ head[System] \in HeadRow
    BY RunningJob DEF IntegrityTypeOK, TypeOK, Stream
  <1>2. [job[m].seen EXCEPT !.status = "ACTIVE"] \in HeadRow
    BY <1>1 DEF HeadRow
  <1>. QED
    BY <1>1, <1>2 DEF SessionHead

\* The first event of a job: chained onto the head its session sees, at the version
\* after the latest of its aggregate.
LEMMA AppendFirstEffect ==
    ASSUME WriteInv, IntegrityTypeOK, NEW m \in Admin, AppendFirst(m)
    PROVE  \E e \in Event :
              /\ job' = [job EXCEPT ![m] = [job[m] EXCEPT !.batch = <<e>>]]
              /\ e.pos = sequence + 1 /\ e.prev = SessionHead(m).last
              /\ WrittenBy(job[m], e) /\ e.kind # "IntegrityStreamQuarantined"
              /\ e.agg # Fresh => e.ver = Latest(log[System], e.agg) + 1
  <1> DEFINE s == job[m].stream
             kind == CASE job[m].op = "verify" -> "IntegrityCheckCompleted"
                       [] job[m].op = "verify_stream" -> "IntegrityStreamVerified"
                       [] job[m].op = "release" -> "IntegrityStreamReleased"
             aggregate == IF job[m].op = "verify" THEN Fresh ELSE StreamAggregate(s)
             row == SessionHead(m)
             ver == job[m].ver + 1
             pos == sequence + 1
             none == <<>>
             e == SystemEvent(row, none, kind, aggregate, ver, pos)
  <1>1. apc[m] # "idle" /\ ~Conflicts(m)
    BY DEF AppendFirst
  <1>2. job[m] \in Job /\ job[m].op \in Op /\ s \in Stream /\ job[m].ver \in Nat
    BY <1>1, RunningJob
  <1>3. kind = IF job[m].op = "verify" THEN "IntegrityCheckCompleted"
               ELSE IF job[m].op = "release" THEN "IntegrityStreamReleased"
               ELSE "IntegrityStreamVerified"
    BY <1>2 DEF Op
  <1>4. kind \in Kind /\ aggregate \in Aggregate \cup {Fresh}
    BY <1>2, <1>3, IntegrityEventAssumption
  <1>5. job' = [job EXCEPT ![m] = [job[m] EXCEPT !.batch = <<e>>]]
    BY DEF AppendFirst
  <1>6. row \in HeadRow /\ pos \in Nat /\ ver \in Nat /\ none \in Seq(Event) /\ none = <<>>
    BY <1>1, <1>2, SessionHeadType DEF WriteInv, TypeOK
  <1> HIDE DEF kind, aggregate, row, ver, pos, none
  <1>7. /\ e \in Event /\ e.pos = pos /\ e.kind = kind /\ e.agg = aggregate
        /\ e.ver = ver /\ e.prev = row.last
    <2>1. e = SystemEvent(row, none, kind, aggregate, ver, pos)
      OBVIOUS
    <2> HIDE DEF e
    <2>. QED
      BY <1>4, <1>6, <2>1 DEF SystemEvent, Event, HeadRow
  <1> HIDE DEF e
  <1>8. WrittenBy(job[m], e) /\ e.kind # "IntegrityStreamQuarantined"
    <2>1. e.kind # "IntegrityStreamQuarantined"
      BY <1>3, <1>7
    <2>2. WrittenBy(job[m], e)
      BY <1>3, <1>7 DEF WrittenBy, aggregate, kind
    <2>. QED
      BY <2>1, <2>2
  <1>9. e.agg # Fresh => e.ver = Latest(log[System], e.agg) + 1
    BY <1>1, <1>7 DEF Conflicts, aggregate, ver
  <1>. QED
    BY <1>5, <1>7, <1>8, <1>9 DEF row, pos

\* Any position may be that of a violation: the aggregate of one is an aggregate.
ViolationIds == \A p \in Nat : ViolationAggregate(p) \in Aggregate

\* The two events of a quarantine: chained onto the batch and onto each other, each
\* at the version after the latest of its aggregate.
LEMMA QuarantineEffect ==
    ASSUME ViolationIds, WriteInv, IntegrityTypeOK, JobsFit, NEW m \in Admin, Quarantine(m),
           job[m].batch # <<>>
    PROVE  /\ job[m].op = "verify"
           /\ \E a, b \in Event :
              /\ job' = [job EXCEPT ![m] = [job[m] EXCEPT !.batch = job[m].batch \o <<a, b>>,
                                                          !.bad = Tail(job[m].bad)]]
              /\ a.pos = sequence + 1 /\ a.prev = job[m].batch[Len(job[m].batch)].pos
              /\ b.pos = sequence + 2 /\ b.prev = a.pos
              /\ WrittenBy(job[m], a) /\ WrittenBy(job[m], b)
              /\ a.ver = Latest(Whole(m), a.agg) + 1
              /\ b.ver = Latest(Append(Whole(m), a), b.agg) + 1
  <1> DEFINE v == Head(job[m].bad)
             L == Whole(m)
             row == head[System]
             B == job[m].batch
             va == ViolationAggregate(v.pos)
             vb == StreamAggregate(v.stream)
             na == Latest(L, va) + 1
             nb == Latest(L, vb) + 1
             pa == sequence + 1
             pb == sequence + 2
             a == SystemEvent(row, B, "IntegrityViolationDetected", va, na, pa)
             b == SystemEvent(row, <<a>>, "IntegrityStreamQuarantined", vb, nb, pb)
  <1>1. apc[m] = "quarantine" /\ job[m].bad # <<>>
    BY DEF Quarantine
  <1>2. /\ job[m] \in Job /\ job[m].bad \in Seq(Finding) /\ job[m].batch \in Seq(Event)
        /\ job[m].op = "verify"
    BY <1>1, RunningJob DEF JobsFit, JobFits
  <1>3. v \in Finding
    BY <1>1, <1>2
  <1>4. v.pos \in Nat /\ v.stream \in Stream
    BY <1>3 DEF Finding
  <1>5. /\ log[System] \in Seq(Event) /\ L \in Seq(Event) /\ row \in HeadRow
        /\ pa \in Nat /\ pb \in Nat /\ B \in Seq(Event) /\ B # <<>>
    BY <1>2 DEF IntegrityTypeOK, TypeOK, Stream, Whole
  <1>6. /\ job' = [job EXCEPT ![m] = [job[m] EXCEPT !.batch = job[m].batch \o <<a, b>>,
                                                    !.bad = Tail(job[m].bad)]]
    BY DEF Quarantine, QuarantineEvents, Whole
  <1> HIDE DEF v, L, row, B, pa, pb
  <1>7. /\ na \in Nat /\ nb \in Nat
        /\ va \in Aggregate \cup {Fresh} /\ vb \in Aggregate \cup {Fresh} /\ va # vb
        /\ \A s \in Stream : va # StreamAggregate(s)
        /\ "IntegrityViolationDetected" \in Kind /\ "IntegrityStreamQuarantined" \in Kind
    BY <1>4, <1>5, LatestVersion, IntegrityEventAssumption, AggregatesDiffer DEF ViolationIds
  <1>8. vb = StreamAggregate(v.stream)
    OBVIOUS
  <1> HIDE DEF va, vb
  <1>9. na = Latest(L, va) + 1 /\ nb = Latest(L, vb) + 1
    OBVIOUS
  <1> HIDE DEF na, nb
  <1>10. /\ a \in Event /\ a.pos = pa /\ a.kind = "IntegrityViolationDetected"
         /\ a.agg = va /\ a.ver = na /\ a.prev = B[Len(B)].pos
    <2>1. a = SystemEvent(row, B, "IntegrityViolationDetected", va, na, pa)
      OBVIOUS
    <2>2. B[Len(B)] \in Event
      BY <1>5, EventSeq
    <2> HIDE DEF a, b
    <2>. QED
      BY <1>4, <1>5, <1>7, <2>1, <2>2 DEF SystemEvent, Event, Last
  <1> HIDE DEF a
  <1>11. /\ b \in Event /\ b.pos = pb /\ b.kind = "IntegrityStreamQuarantined"
         /\ b.agg = vb /\ b.ver = nb /\ b.prev = a.pos
    <2>1. b = SystemEvent(row, <<a>>, "IntegrityStreamQuarantined", vb, nb, pb)
      OBVIOUS
    <2>2. <<a>> # <<>> /\ <<a>>[Len(<<a>>)] = a /\ a.pos \in Nat
      BY <1>10 DEF Event
    <2> HIDE DEF b
    <2>. QED
      BY <1>5, <1>7, <2>1, <2>2 DEF SystemEvent, Event, Last
  <1> HIDE DEF b
  <1>12. WrittenBy(job[m], a) /\ WrittenBy(job[m], b)
    BY <1>2, <1>4, <1>7, <1>8, <1>10, <1>11 DEF WrittenBy
  <1>13. Latest(Append(L, a), b.agg) = Latest(L, b.agg)
    <2>1. a.agg # b.agg
      BY <1>7, <1>10, <1>11
    <2>. QED
      BY <1>5, <1>10, <2>1, LatestAfterOther
  <1>. QED
    BY <1>2, <1>6, <1>9, <1>10, <1>11, <1>12, <1>13 DEF L, B, pa, pb

\* A commit of a job: the SYSTEM stream grows by the batch, its head names the last
\* event of it, statuses and checkpoints change as StatusAfter and CheckpointAfter say.
LEMMA CommitJobEffect ==
    ASSUME IntegrityTypeOK, JobsFit, BatchesFit, NEW m \in Admin, CommitJob(m)
    PROVE  /\ apc[m] = "quarantine" /\ apc' = [apc EXCEPT ![m] = "idle"]
           /\ job[m].batch \in Seq(Event) /\ Len(job[m].batch) \in Nat \ {0}
           /\ Whole(m) \in Seq(Event) /\ log' = [log EXCEPT ![System] = Whole(m)]
           /\ head' \in [Stream -> HeadRow]
           /\ \A s \in Stream : head'[s].status = StatusAfter(m, s)
           /\ \A s \in App : head'[s].last = head[s].last /\ head'[s].version = head[s].version
           /\ head'[System].last = job[m].batch[Len(job[m].batch)].pos
           /\ head'[System].version = SessionHead(m).version + Len(job[m].batch)
           /\ \A s \in Stream : \/ checkpoint'[s] = checkpoint[s]
                                \/ \E c \in job[m].clean : c.stream = s /\ checkpoint'[s] = c.pos
           /\ checkpoint' \in [Stream -> Nat]
           /\ audits' \subseteq audits \cup {job[m].batch[1].pos}
  <1> DEFINE B == job[m].batch
  <1>1. apc[m] = "quarantine" /\ apc' = [apc EXCEPT ![m] = "idle"]
    BY DEF CommitJob, EndJob
  <1>2. job[m] \in Job /\ B \in Seq(Event) /\ job[m].clean \in SUBSET Finding
    BY <1>1, RunningJob
  <1>3. B # <<>> /\ JobFits(m)
    BY <1>1 DEF BatchesFit, BatchFits, JobsFit
  <1>4. Len(B) \in Nat \ {0}
    BY <1>2, <1>3, EventSeq
  <1>5. System \in Stream /\ (\A s \in App : s \in Stream /\ s # System)
    BY StreamAssumption DEF Stream
  <1>6. /\ log \in [Stream -> Seq(Event)] /\ head \in [Stream -> HeadRow]
        /\ checkpoint \in [Stream -> Nat]
    BY DEF IntegrityTypeOK, TypeOK
  <1>7. Whole(m) \in Seq(Event) /\ log' = [log EXCEPT ![System] = Whole(m)]
    BY <1>2, <1>5, <1>6 DEF CommitJob, Whole
  <1>8. Last(B) = B[Len(B)] /\ Last(B).pos \in Nat
    <2>1. B[Len(B)] \in Event
      BY <1>2, <1>4, EventSeq
    <2>. QED
      BY <2>1 DEF Last, Event
  <1>9. \A s \in Stream : StatusAfter(m, s) \in {"ACTIVE", "QUARANTINED"}
    BY <1>6 DEF StatusAfter, HeadRow
  <1>10. SessionHead(m).version \in Nat
    <2>1. SessionHead(m) \in HeadRow
      BY <1>1, SessionHeadType
    <2>. QED
      BY <2>1 DEF HeadRow
  <1>11. head' = [s \in Stream |->
            IF s = System
            THEN [last |-> Last(B).pos, version |-> SessionHead(m).version + Len(B),
                  status |-> StatusAfter(m, s)]
            ELSE [head[s] EXCEPT !.status = StatusAfter(m, s)]]
    BY DEF CommitJob
  <1>12. /\ head' \in [Stream -> HeadRow]
         /\ \A s \in Stream : head'[s].status = StatusAfter(m, s)
         /\ \A s \in App : head'[s].last = head[s].last /\ head'[s].version = head[s].version
         /\ head'[System].last = B[Len(B)].pos
         /\ head'[System].version = SessionHead(m).version + Len(B)
    <2> DEFINE version == SessionHead(m).version + Len(B)
    <2>1. version \in Nat
      BY <1>4, <1>10
    <2> HIDE DEF version
    <2>2. \A s \in Stream : [head[s] EXCEPT !.status = StatusAfter(m, s)] \in HeadRow
      BY <1>6, <1>9 DEF HeadRow
    <2>3. \A s \in Stream : [last |-> Last(B).pos, version |-> version, status |-> StatusAfter(m, s)] \in HeadRow
      BY <1>8, <1>9, <2>1 DEF HeadRow
    <2>4. head' = [s \in Stream |->
            IF s = System
            THEN [last |-> Last(B).pos, version |-> version, status |-> StatusAfter(m, s)]
            ELSE [head[s] EXCEPT !.status = StatusAfter(m, s)]]
      BY <1>11 DEF version
    <2>5. head' \in [Stream -> HeadRow]
      BY <2>2, <2>3, <2>4
    <2>6. \A s \in Stream : head'[s].status = StatusAfter(m, s)
      BY <1>6, <2>4 DEF HeadRow
    <2>7. \A s \in App : head'[s].last = head[s].last /\ head'[s].version = head[s].version
      BY <1>5, <1>6, <2>4 DEF HeadRow
    <2>8. head'[System].last = B[Len(B)].pos /\ head'[System].version = version
      BY <1>5, <1>8, <2>4
    <2>. QED
      BY <2>5, <2>6, <2>7, <2>8 DEF version
  <1>13. ASSUME NEW s \in Stream
         PROVE  /\ \/ checkpoint'[s] = checkpoint[s]
                   \/ \E c \in job[m].clean : c.stream = s /\ checkpoint'[s] = c.pos
                /\ checkpoint'[s] \in Nat
    <2> DEFINE mine == {c.pos : c \in {x \in job[m].clean : x.stream = s}} \ {job[m].loaded[s]}
    <2>1. checkpoint'[s] = IF mine = {} THEN checkpoint[s] ELSE Max(mine)
      BY DEF CommitJob, CheckpointAfter
    <2>2. CASE mine = {}
      BY <1>6, <2>1, <2>2
    <2>3. CASE mine # {}
      <3>1. PICK c \in job[m].clean : c.stream = s /\ c.pos \in mine
        BY <2>3
      <3>2. c.pos \in Nat
        BY <1>2 DEF Finding
      <3>3. mine = {c.pos}
        BY <1>3, <3>1 DEF JobFits
      <3>4. mine \in SUBSET Nat /\ \A x \in mine : x <= c.pos
        BY <3>2, <3>3
      <3>5. Max(mine) \in mine
        <4> HIDE DEF mine
        <4>. QED
          BY <2>3, <3>2, <3>4, MaxIsGreatest
      <3>6. checkpoint'[s] = c.pos
        BY <2>1, <2>3, <3>3, <3>5
      <3>. QED
        BY <3>1, <3>2, <3>6
    <2>. QED
      BY <2>2, <2>3
  <1>14. checkpoint' = [s \in Stream |-> CheckpointAfter(m, s)]
    BY DEF CommitJob
  <1>15. checkpoint' \in [Stream -> Nat]
    <2>1. \A s \in Stream : checkpoint'[s] = CheckpointAfter(m, s)
      BY <1>14
    <2>2. \A s \in Stream : CheckpointAfter(m, s) \in Nat
      BY <1>13, <2>1
    <2>. QED
      BY <1>14, <2>2
  <1>16. audits' \subseteq audits \cup {B[1].pos}
    BY DEF CommitJob
  <1>. QED
    BY <1>1, <1>2, <1>4, <1>7, <1>12, <1>13, <1>15, <1>16

-----------------------------------------------------------------------------
\* Whatever is not a step of a worker.
OperatorStep == AdminNext \/ Environment \/ UNCHANGED allVars

\* What workers see of operators: nothing of theirs changes, positions are used, and
\* only locks that are free or in an operator's hands move.
LEMMA OperatorFrame ==
    ASSUME TypeOK, OperatorStep
    PROVE  /\ UNCHANGED <<idem, projected, pc, req, staged, issued, answers>>
           /\ sequence' \in Nat /\ sequence <= sequence'
           /\ lock' \in [Stream -> Session \cup {NoSession}]
           /\ \A s \in Stream : lock'[s] = lock[s] \/ lock[s] = NoSession \/ lock[s] \in Admin
           /\ (~\E m \in Admin : CommitJob(m)) => UNCHANGED <<log, head, checkpoint, audits>>
  <1>1. sequence \in Nat /\ lock \in [Stream -> Session \cup {NoSession}] /\ Admin \subseteq Session
    BY AdminAssumption DEF TypeOK
  <1>2. UNCHANGED <<idem, projected, pc, req, staged, issued, answers>>
    BY DEF OperatorStep, AdminNext, AdminStep, Environment, StartVerify,
       StartStream, Scan, StopBroken, ReadRows, ReadVersion, LockSystem, AppendConflict,
       AppendFirst, Quarantine, RejectOwnAppend, ReportRejection, CommitJob, CrashAdmin, Tamper,
       Repair, ledgerButLock, workerVars, vars, allVars
  <1>3. sequence' \in {sequence, sequence + 1, sequence + 2}
    BY DEF OperatorStep, AdminNext, AdminStep, Environment, StartVerify,
       StartStream, Scan, StopBroken, ReadRows, ReadVersion, LockSystem, AppendConflict,
       AppendFirst, Quarantine, RejectOwnAppend, ReportRejection, CommitJob, CrashAdmin, Tamper,
       Repair, ledgerButLock, workerVars, vars, allVars
  <1>4. \/ lock' = lock
        \/ \E m \in Admin : lock' = Released(m)
        \/ \E m \in Admin, s \in Stream : lock[s] = NoSession /\ lock' = [lock EXCEPT ![s] = m]
    <2>1. ASSUME NEW m \in Admin, AppendFirst(m)
          PROVE  \/ lock' = lock
                 \/ \E s \in Stream : lock[s] = NoSession /\ lock' = [lock EXCEPT ![s] = m]
      <3>1. CASE job[m].stream \in Stream
        BY <2>1, <3>1 DEF AppendFirst
      <3>2. CASE job[m].stream \notin Stream
        BY <1>1, <2>1, <3>2 DEF AppendFirst
      <3>. QED
        BY <3>1, <3>2
    <2>2. ASSUME NEW m \in Admin, Quarantine(m)
          PROVE  \/ lock' = lock
                 \/ \E s \in Stream : lock[s] = NoSession /\ lock' = [lock EXCEPT ![s] = m]
      <3> DEFINE t == Head(job[m].bad).stream
      <3>1. lock[t] = NoSession /\ lock' = [lock EXCEPT ![t] = m]
        BY <2>2 DEF Quarantine
      <3> HIDE DEF t
      <3>2. CASE t \in Stream
        BY <3>1, <3>2
      <3>3. CASE t \notin Stream
        BY <1>1, <3>1, <3>3
      <3>. QED
        BY <3>2, <3>3
    <2>3. ASSUME NEW m \in Admin, LockSystem(m)
          PROVE  \E s \in Stream : lock[s] = NoSession /\ lock' = [lock EXCEPT ![s] = m]
      BY <2>3 DEF LockSystem, Stream
    <2>. QED
      BY <2>1, <2>2, <2>3
      DEF OperatorStep, AdminNext, AdminStep, Environment, StartVerify,
       StartStream, Scan, StopBroken, ReadRows, ReadVersion, AppendConflict, EndJob,
       RejectOwnAppend, ReportRejection, CommitJob, CrashAdmin, Tamper, Repair, vars, allVars
  <1>5. /\ lock' \in [Stream -> Session \cup {NoSession}]
        /\ \A s \in Stream : lock'[s] = lock[s] \/ lock[s] = NoSession \/ lock[s] \in Admin
    <2>1. CASE lock' = lock
      BY <1>1, <2>1
    <2>2. ASSUME NEW m \in Admin, lock' = Released(m)
          PROVE  /\ lock' \in [Stream -> Session \cup {NoSession}]
                 /\ \A s \in Stream : lock'[s] = lock[s] \/ lock[s] = NoSession \/ lock[s] \in Admin
      BY <1>1, <2>2 DEF Released
    <2>3. ASSUME NEW m \in Admin, NEW t \in Stream, lock[t] = NoSession, lock' = [lock EXCEPT ![t] = m]
          PROVE  /\ lock' \in [Stream -> Session \cup {NoSession}]
                 /\ \A s \in Stream : lock'[s] = lock[s] \/ lock[s] = NoSession \/ lock[s] \in Admin
      BY <1>1, <2>3
    <2>. QED
      BY <1>4, <2>1, <2>2, <2>3
  <1>6. ASSUME ~\E m \in Admin : CommitJob(m) PROVE UNCHANGED <<log, head, checkpoint, audits>>
    <2>1. UNCHANGED <<log, head, audits>>
      BY <1>6 DEF OperatorStep, AdminNext, AdminStep, Environment, StartVerify,
         StartStream, Scan, StopBroken, ReadRows, ReadVersion, LockSystem, AppendConflict,
         AppendFirst, Quarantine, RejectOwnAppend, ReportRejection, CrashAdmin, Tamper,
         Repair, ledgerButLock, vars, allVars, integrityVars
    <2>2. UNCHANGED checkpoint
      BY <1>6 DEF OperatorStep, AdminNext, AdminStep, Environment, StartVerify,
         StartStream, Scan, StopBroken, ReadRows, ReadVersion, LockSystem, AppendConflict,
         AppendFirst, Quarantine, RejectOwnAppend, ReportRejection, CrashAdmin, Tamper,
         Repair, ledgerButLock, vars, allVars, integrityVars
    <2>. QED
      BY <2>1, <2>2
  <1>. QED
    BY <1>1, <1>2, <1>3, <1>5, <1>6

\* The write path keeps its invariant beside whoever leaves the application streams, what
\* workers have staged and the locks they hold alone.
LEMMA WritesBeside ==
    ASSUME WriteInv, UNCHANGED <<idem, pc, req, staged, issued, answers>>,
           projected' \subseteq Nat, audits' \subseteq Nat, sequence' \in Nat, sequence <= sequence',
           lock' \in [Stream -> Session \cup {NoSession}],
           \A s \in Stream : lock'[s] = lock[s] \/ lock[s] = NoSession \/ lock[s] \in Admin,
           log' \in [Stream -> Seq(Event)], head' \in [Stream -> HeadRow],
           \A s \in Stream : head'[s].last <= sequence',
           \A a \in App : log'[a] = log[a] /\ head'[a].last = head[a].last
    PROVE  WriteInv'
  <1>1. TypeOK /\ \A s \in App : s \in Stream
    BY DEF WriteInv, Stream
  <1>2. TypeOK'
    BY <1>1 DEF TypeOK
  <1>3. LockHeld'
    BY <1>1, SessionAssumption, AdminAssumption DEF WriteInv, LockHeld, Busy, Request
  <1>4. PositionsHandedOut'
    BY DEF PositionsHandedOut
  <1>5. StagedFits'
    <2> SUFFICES ASSUME NEW w \in Worker, pc[w] = "commit"
                 PROVE  /\ staged[w] \in Event
                        /\ staged[w].prev = head'[req[w].app].last
                        /\ staged[w].prev < staged[w].pos /\ staged[w].pos <= sequence'
                        /\ staged[w].key = req[w].key
                        /\ ~KeyTaken(req[w])'
      BY DEF StagedFits
    <2>1. req[w].app \in App
      BY DEF WriteInv, LockHeld, Request
    <2>2. log'[req[w].app] = log[req[w].app] /\ head'[req[w].app].last = head[req[w].app].last
      BY <2>1
    <2>3. staged[w] \in Event /\ staged[w].pos \in Nat /\ sequence \in Nat
      BY <1>1 DEF WriteInv, StagedFits, Event, TypeOK
    <2>4. ~KeyTaken(req[w])'
      <3>1. ~KeyTaken(req[w]) /\ req'[w] = req[w]
        BY DEF WriteInv, StagedFits
      <3>. QED
        BY <2>2, <3>1, Zenon DEF KeyTaken
    <2>. QED
      BY <2>2, <2>3, <2>4 DEF WriteInv, StagedFits
  <1>. QED
    BY <1>2, <1>3, <1>4, <1>5 DEF WriteInv

\* The write path keeps its invariant beside operators: what they change of an
\* application stream is its status and its lock, the latter only if it is free.
LEMMA OperatorWrites ==
    ASSUME WriteInv, OperatorInv, OperatorStep
    PROVE  WriteInv'
  <1>1. TypeOK
    BY DEF WriteInv
  <1>2. /\ UNCHANGED <<idem, projected, pc, req, staged, issued, answers>>
        /\ sequence' \in Nat /\ sequence <= sequence'
        /\ lock' \in [Stream -> Session \cup {NoSession}]
        /\ \A s \in Stream : lock'[s] = lock[s] \/ lock[s] = NoSession \/ lock[s] \in Admin
        /\ (~\E m \in Admin : CommitJob(m)) => UNCHANGED <<log, head, checkpoint, audits>>
    BY <1>1, OperatorFrame
  <1>3. (\A s \in App : s \in Stream /\ s # System) /\ System \in Stream
    BY StreamAssumption DEF Stream
  <1>4. /\ log' \in [Stream -> Seq(Event)] /\ head' \in [Stream -> HeadRow] /\ audits' \subseteq Nat
        /\ \A s \in Stream : head'[s].last <= sequence'
        /\ \A a \in App : log'[a] = log[a] /\ head'[a].last = head[a].last
    <2>1. CASE ~\E m \in Admin : CommitJob(m)
      <3>1. \A s \in Stream : head[s].last \in Nat /\ head[s].last <= sequence
        BY <1>1 DEF WriteInv, PositionsHandedOut, TypeOK, HeadRow
      <3>2. sequence \in Nat
        BY <1>1 DEF TypeOK
      <3>3. log' = log /\ head' = head /\ audits' = audits
        BY <1>2, <2>1
      <3>4. \A s \in Stream : head[s].last <= sequence'
        BY <1>2, <3>1, <3>2
      <3>. QED
        BY <1>1, <3>3, <3>4 DEF TypeOK
    <2>2. ASSUME NEW m \in Admin, CommitJob(m)
          PROVE  /\ log' \in [Stream -> Seq(Event)] /\ head' \in [Stream -> HeadRow]
                 /\ audits' \subseteq Nat
                 /\ \A s \in Stream : head'[s].last <= sequence'
                 /\ \A a \in App : log'[a] = log[a] /\ head'[a].last = head[a].last
      <3> DEFINE B == job[m].batch
      <3>1. /\ apc[m] = "quarantine" /\ B \in Seq(Event) /\ Len(B) \in Nat \ {0}
            /\ Whole(m) \in Seq(Event) /\ log' = [log EXCEPT ![System] = Whole(m)]
            /\ head' \in [Stream -> HeadRow] /\ head'[System].last = B[Len(B)].pos
            /\ \A s \in App : head'[s].last = head[s].last
            /\ audits' \subseteq audits \cup {B[1].pos}
        BY <2>2, CommitJobEffect DEF OperatorInv
      <3>2. \A i \in DOMAIN B : B[i].pos \in Nat /\ B[i].pos <= sequence
        BY <3>1 DEF OperatorInv, BatchesFit, BatchFits
      <3>3. 1 \in DOMAIN B /\ Len(B) \in DOMAIN B
        BY <3>1, EventSeq
      <3>4. log' \in [Stream -> Seq(Event)] /\ \A a \in App : log'[a] = log[a]
        BY <1>1, <1>3, <3>1 DEF TypeOK
      <3>5. audits' \subseteq Nat
        BY <1>1, <3>1, <3>2, <3>3 DEF TypeOK
      <3>6. sequence' = sequence
        BY <2>2 DEF CommitJob
      <3>7. \A s \in Stream : head'[s].last <= sequence'
        <4>1. \A s \in Stream : head[s].last <= sequence
          BY DEF WriteInv, PositionsHandedOut
        <4>. QED
          BY <3>1, <3>2, <3>3, <3>6, <4>1 DEF Stream
      <3>. QED
        BY <3>1, <3>4, <3>5, <3>7
    <2>. QED
      BY <2>1, <2>2
  <1>5. projected' \subseteq Nat
    BY <1>1, <1>2 DEF TypeOK
  <1>. QED
    BY <1>2, <1>4, <1>5, WritesBeside

-----------------------------------------------------------------------------
(***************************************************************************)
(* The jobs.  A step of operator m changes no record but its own.          *)
(***************************************************************************)
ActorStep(m) ==
    \/ \E mode \in {"FULL", "INCREMENTAL"} : StartVerify(m, mode)
    \/ \E op \in Op \ {"verify"}, s \in ReleaseTargets : StartStream(m, op, s)
    \/ AdminStep(m)
    \/ CrashAdmin(m)

\* What is to be kept of the actor's own record: idle without a job, or at work with a
\* record that fits its control, the SYSTEM lock and the events it has staged.
ActorFits(m) ==
    \/ apc[m] = "idle" /\ job[m] = NoJob
    \/ /\ apc[m] \in Phase \ {"idle"} /\ job[m] \in Job /\ JobFits(m)
       /\ apc[m] \in {"append", "quarantine"} => lock[System] = m
       /\ apc[m] = "quarantine" => BatchFits(m)

\* m replaces its record and its control by j and at.
Becomes(m, j, at) == job' = [job EXCEPT ![m] = j] /\ apc' = [apc EXCEPT ![m] = at]

\* A new job's record is well typed.
LEMMA NewJobType ==
    ASSUME NEW op \in Op, NEW mode \in {"FULL", "INCREMENTAL"}, NEW s \in Stream,
           NEW remaining \in SUBSET Stream
    PROVE  NewJob(op, mode, s, remaining) \in Job
  <1>1. [x \in Stream |-> 0] \in [Stream -> Nat] /\ NoHead \in HeadRow
    BY DEF NoHead, HeadRow
  <1>2. <<>> \in Seq(Finding) /\ <<>> \in Seq(Event)
    OBVIOUS
  <1>. QED
    BY <1>1, <1>2 DEF NewJob, Job

\* A record that is in Job is not the idle one.
LEMMA JobIsNotIdle == NoJob \notin Job
  <1>1. "none" \notin Op
    BY DEF Op
  <1>. QED
    BY <1>1 DEF NoJob, Job

\* Starting a job.
LEMMA StartFits ==
    ASSUME IntegrityTypeOK, NEW m \in Admin,
           \/ \E mode \in {"FULL", "INCREMENTAL"} : StartVerify(m, mode)
           \/ \E op \in Op \ {"verify"}, s \in ReleaseTargets : StartStream(m, op, s)
    PROVE  ActorFits(m)' /\ \E j \in Job : Becomes(m, j, "scan")
  <1>1. job \in [Admin -> Job \cup {NoJob}] /\ apc \in [Admin -> Phase]
    BY DEF IntegrityTypeOK
  <1>2. \E j \in Job :
           /\ Becomes(m, j, "scan")
           /\ j.clean = {} /\ j.batch = <<>>
           /\ j.op # "verify" => j.stream \in ReleaseTargets
    <2>1. ASSUME NEW mode \in {"FULL", "INCREMENTAL"}, StartVerify(m, mode)
          PROVE  \E j \in Job :
                    /\ Becomes(m, j, "scan")
                    /\ j.clean = {} /\ j.batch = <<>>
                    /\ j.op # "verify" => j.stream \in ReleaseTargets
      <3> DEFINE j == NewJob("verify", mode, System, {s \in Stream : log[s] # <<>>})
      <3>1. j \in Job
        BY NewJobType DEF Op, Stream
      <3>2. j.clean = {} /\ j.batch = <<>> /\ j.op = "verify"
        BY DEF NewJob
      <3>3. Becomes(m, j, "scan")
        BY <2>1 DEF StartVerify, Becomes
      <3>. QED
        BY <3>1, <3>2, <3>3
    <2>2. ASSUME NEW op \in Op \ {"verify"}, NEW s \in ReleaseTargets, StartStream(m, op, s)
          PROVE  \E j \in Job :
                    /\ Becomes(m, j, "scan")
                    /\ j.clean = {} /\ j.batch = <<>>
                    /\ j.op # "verify" => j.stream \in ReleaseTargets
      <3> DEFINE j == NewJob(op, "FULL", s, {s})
      <3>1. j \in Job
        BY NewJobType, OrderAssumption
      <3>2. j.clean = {} /\ j.batch = <<>> /\ j.stream = s
        BY DEF NewJob
      <3>3. Becomes(m, j, "scan")
        BY <2>2 DEF StartStream, Becomes
      <3>. QED
        BY <3>1, <3>2, <3>3
    <2>. QED
      BY <2>1, <2>2
  <1>3. PICK j \in Job :
           /\ Becomes(m, j, "scan")
           /\ j.clean = {} /\ j.batch = <<>>
           /\ j.op # "verify" => j.stream \in ReleaseTargets
    BY <1>2
  <1>4. job'[m] = j /\ apc'[m] = "scan"
    BY <1>1, <1>3 DEF Becomes
  <1>5. ActorFits(m)'
    BY <1>3, <1>4 DEF ActorFits, JobFits, Phase
  <1>. QED
    BY <1>3, <1>5

\* Scanning: a stream is scanned once.
LEMMA ScanFits ==
    ASSUME IntegrityTypeOK, JobsFit, NEW m \in Admin, Scan(m)
    PROVE  ActorFits(m)' /\ \E j \in Job : Becomes(m, j, "scan")
  <1>1. job \in [Admin -> Job \cup {NoJob}] /\ apc \in [Admin -> Phase] /\ apc[m] = "scan" /\ apc' = apc
    BY DEF IntegrityTypeOK, Scan
  <1>2. JobFits(m)
    BY <1>1 DEF JobsFit
  <1>3. PICK s \in job[m].todo, j \in Job : ScanResult(job[m], s, j) /\ job' = [job EXCEPT ![m] = j]
    BY ScanEffect
  <1>4. job'[m] = j /\ apc'[m] = "scan" /\ Becomes(m, j, "scan")
    BY <1>1, <1>3 DEF Becomes
  <1>5. /\ j.op = job[m].op /\ j.stream = job[m].stream /\ j.batch = job[m].batch
        /\ j.todo = job[m].todo \ {s}
        /\ j.clean = job[m].clean \/ \E p \in Nat : j.clean = job[m].clean \cup {[stream |-> s, pos |-> p]}
    BY <1>3 DEF ScanResult
  <1>6. /\ \A c, d \in j.clean : c.stream = d.stream => c = d
        /\ \A c \in j.clean : c.stream \notin j.todo
    <2>1. CASE j.clean = job[m].clean
      BY <1>2, <1>5, <2>1 DEF JobFits
    <2>2. ASSUME NEW p \in Nat, j.clean = job[m].clean \cup {[stream |-> s, pos |-> p]}
          PROVE  /\ \A c, d \in j.clean : c.stream = d.stream => c = d
                 /\ \A c \in j.clean : c.stream \notin j.todo
      <3>1. \A c \in job[m].clean : c.stream # s
        BY <1>2 DEF JobFits
      <3>2. [stream |-> s, pos |-> p].stream = s
        OBVIOUS
      <3>. QED
        BY <1>2, <1>5, <2>2, <3>1, <3>2 DEF JobFits
    <2>. QED
      BY <1>5, <2>1, <2>2
  <1>7. JobFits(m)'
    BY <1>1, <1>2, <1>4, <1>5, <1>6 DEF JobFits
  <1>. QED
    BY <1>1, <1>4, <1>7 DEF ActorFits, Phase

\* Reading rows and versions, and locking the SYSTEM stream.
LEMMA ReadFits ==
    ASSUME IntegrityTypeOK, JobsFit, NEW m \in Admin, ReadRows(m) \/ ReadVersion(m) \/ LockSystem(m)
    PROVE  ActorFits(m)' /\ \E j \in Job : Becomes(m, j, apc'[m])
  <1>1. job \in [Admin -> Job \cup {NoJob}] /\ apc \in [Admin -> Phase]
    BY DEF IntegrityTypeOK
  <1>2. apc[m] # "idle" /\ apc[m] \in {"scan", "version", "lock"}
    BY DEF ReadRows, ReadVersion, LockSystem
  <1>3. /\ job[m] \in Job /\ job[m].op \in Op /\ job[m].stream \in Stream
        /\ checkpoint \in [Stream -> Nat] /\ head \in [Stream -> HeadRow] /\ NoHead \in HeadRow
    BY <1>2, RunningJob DEF IntegrityTypeOK, TypeOK, NoHead, HeadRow
  <1>4. JobFits(m)
    BY <1>2 DEF JobsFit
  <1>5. CASE ReadRows(m)
    <2> DEFINE seen == IF job[m].op = "release" THEN head[job[m].stream] ELSE NoHead
               j == [job[m] EXCEPT !.loaded = checkpoint, !.seen = seen]
    <2>1. seen \in HeadRow
      BY <1>3
    <2>2. Becomes(m, j, "version") /\ (job[m].op = "verify" \/ job[m].bad = <<>>)
      BY <1>5 DEF ReadRows, Becomes
    <2> HIDE DEF seen
    <2>3. /\ j \in Job /\ j.op = job[m].op /\ j.stream = job[m].stream /\ j.clean = job[m].clean
          /\ j.todo = job[m].todo /\ j.bad = job[m].bad /\ j.batch = job[m].batch
      BY <1>3, <2>1 DEF Job
    <2>4. job'[m] = j /\ apc'[m] = "version"
      BY <1>1, <2>2 DEF Becomes
    <2>5. apc[m] = "scan"
      BY <1>5 DEF ReadRows
    <2> HIDE DEF j
    <2>6. JobFits(m)'
      BY <1>4, <2>2, <2>3, <2>4, <2>5 DEF JobFits
    <2>. QED
      BY <2>2, <2>3, <2>4, <2>6 DEF ActorFits, Phase
  <1>6. CASE ReadVersion(m)
    <2> DEFINE ver == IF job[m].op = "verify" THEN 0
                      ELSE Latest(log[System], StreamAggregate(job[m].stream))
               j == [job[m] EXCEPT !.ver = ver]
    <2>1. ver \in Nat
      <3>1. log[System] \in Seq(Event)
        BY DEF IntegrityTypeOK, TypeOK, Stream
      <3>. QED
        BY <3>1, LatestVersion
    <2>2. Becomes(m, j, "lock") /\ apc[m] = "version"
      BY <1>6 DEF ReadVersion, Becomes
    <2> HIDE DEF ver
    <2>3. /\ j \in Job /\ j.op = job[m].op /\ j.stream = job[m].stream /\ j.clean = job[m].clean
          /\ j.todo = job[m].todo /\ j.bad = job[m].bad /\ j.batch = job[m].batch
      BY <1>3, <2>1 DEF Job
    <2>4. job'[m] = j /\ apc'[m] = "lock"
      BY <1>1, <2>2 DEF Becomes
    <2> HIDE DEF j
    <2>5. JobFits(m)'
      BY <1>4, <2>2, <2>3, <2>4 DEF JobFits
    <2>. QED
      BY <2>2, <2>3, <2>4, <2>5 DEF ActorFits, Phase
  <1>7. CASE LockSystem(m)
    <2>1. job' = job /\ apc' = [apc EXCEPT ![m] = "append"] /\ apc[m] = "lock"
      BY <1>7 DEF LockSystem
    <2>2. job'[m] = job[m] /\ apc'[m] = "append" /\ Becomes(m, job[m], "append")
      BY <1>1, <2>1 DEF Becomes
    <2>3. JobFits(m)'
      BY <1>4, <2>1, <2>2 DEF JobFits
    <2>4. lock'[System] = m
      BY <1>7 DEF LockSystem, IntegrityTypeOK, TypeOK, Stream
    <2>. QED
      BY <1>3, <2>2, <2>3, <2>4 DEF ActorFits, Phase
  <1>. QED
    BY <1>5, <1>6, <1>7

\* Ending a job, committed or not, and keeping a rejected one until it is reported.
LEMMA EndFits ==
    ASSUME IntegrityTypeOK, JobsFit, NEW m \in Admin,
           \/ StopBroken(m) \/ AppendConflict(m) \/ ReportRejection(m) \/ CrashAdmin(m)
           \/ RejectOwnAppend(m) \/ CommitJob(m)
    PROVE  /\ ActorFits(m)'
           /\ Becomes(m, NoJob, "idle") \/ Becomes(m, job[m], "rejected")
  <1>1. job \in [Admin -> Job \cup {NoJob}] /\ apc \in [Admin -> Phase]
    BY DEF IntegrityTypeOK
  <1>2. CASE RejectOwnAppend(m)
    <2>1. apc[m] = "quarantine" /\ apc' = [apc EXCEPT ![m] = "rejected"] /\ job' = job
      BY <1>2 DEF RejectOwnAppend, EndJob
    <2>2. job'[m] = job[m] /\ apc'[m] = "rejected" /\ Becomes(m, job[m], "rejected")
      BY <1>1, <2>1 DEF Becomes
    <2>3. job[m] \in Job /\ JobFits(m)
      BY <2>1, RunningJob DEF JobsFit
    <2>4. JobFits(m)'
      BY <2>1, <2>2, <2>3 DEF JobFits
    <2>. QED
      BY <2>2, <2>3, <2>4 DEF ActorFits, Phase
  <1>3. CASE ~RejectOwnAppend(m)
    <2>1. EndJob(m, "idle")
      BY <1>3 DEF StopBroken, AppendConflict, ReportRejection, CrashAdmin, CommitJob
    <2>2. Becomes(m, NoJob, "idle")
      BY <2>1 DEF EndJob, Becomes
    <2>3. job'[m] = NoJob /\ apc'[m] = "idle"
      BY <1>1, <2>2 DEF Becomes
    <2>. QED
      BY <2>2, <2>3 DEF ActorFits
  <1>. QED
    BY <1>2, <1>3

\* The first staged event: the version that was read is still the latest, or the
\* flush had refused it.
LEMMA AppendFirstFits ==
    ASSUME WriteInv, OperatorInv, VersionsContiguous, NEW m \in Admin, AppendFirst(m)
    PROVE  ActorFits(m)' /\ \E j \in Job : Becomes(m, j, "quarantine")
  <1>1. /\ job \in [Admin -> Job \cup {NoJob}] /\ apc \in [Admin -> Phase] /\ apc[m] = "append"
        /\ apc' = [apc EXCEPT ![m] = "quarantine"] /\ sequence' = sequence + 1 /\ log' = log
        /\ sequence \in Nat /\ log[System] \in Seq(Event) /\ System \in Stream
    BY DEF OperatorInv, IntegrityTypeOK, TypeOK, AppendFirst, Stream
  <1>2. JobFits(m) /\ lock[System] = m /\ IntegrityTypeOK
    BY <1>1 DEF OperatorInv, JobsFit, SystemLocked
  <1>3. job[m] \in Job
    BY <1>1, <1>2, RunningJob
  <1>4. PICK e \in Event :
              /\ job' = [job EXCEPT ![m] = [job[m] EXCEPT !.batch = <<e>>]]
              /\ e.pos = sequence + 1
              /\ WrittenBy(job[m], e)
              /\ e.agg # Fresh => e.ver = Latest(log[System], e.agg) + 1
    BY <1>2, AppendFirstEffect
  <1> DEFINE j == [job[m] EXCEPT !.batch = <<e>>]
  <1>5. /\ j \in Job /\ j.op = job[m].op /\ j.stream = job[m].stream /\ j.clean = job[m].clean
        /\ j.todo = job[m].todo /\ j.bad = job[m].bad /\ j.batch = <<e>>
    <2> DEFINE single == <<e>>
    <2>1. single \in Seq(Event)
      OBVIOUS
    <2> HIDE DEF single
    <2>2. LET r == [job[m] EXCEPT !.batch = single] IN
          /\ r \in Job /\ r.op = job[m].op /\ r.stream = job[m].stream /\ r.clean = job[m].clean
          /\ r.todo = job[m].todo /\ r.bad = job[m].bad /\ r.batch = single
      BY <1>3, <2>1 DEF Job
    <2>. QED
      BY <2>2 DEF single
  <1>6. Becomes(m, j, "quarantine")
    BY <1>1, <1>4 DEF Becomes
  <1> HIDE DEF j
  <1>7. job'[m] = j /\ apc'[m] = "quarantine"
    BY <1>1, <1>6 DEF Becomes
  <1>8. JobFits(m)'
    BY <1>1, <1>2, <1>5, <1>7 DEF JobFits
  <1>9. lock'[System] = m
    <2>1. lock \in [Stream -> Session \cup {NoSession}]
      BY DEF OperatorInv, IntegrityTypeOK, TypeOK
    <2>2. lock' = lock \/ (job[m].stream # System /\ lock' = [lock EXCEPT ![job[m].stream] = m])
      BY DEF AppendFirst
    <2>. QED
      BY <1>1, <1>2, <2>1, <2>2
  <1>10. BatchFits(m)'
    <2>1. Numbered(Append(log[System], e))
      BY <1>1, <1>4, AppendNumbered DEF VersionsContiguous
    <2>2. Whole(m)' = Append(log[System], e)
      <3>1. Whole(m)' = log[System] \o <<e>>
        BY <1>1, <1>5, <1>7 DEF Whole
      <3>. QED
        BY <1>1, <1>4, <3>1, ConcatIsAppends
    <2>3. <<e>> # <<>> /\ Len(<<e>>) = 1 /\ DOMAIN <<e>> = {1} /\ <<e>>[1] = e
      OBVIOUS
    <2>4. e.pos \in 1..sequence' /\ WrittenBy(j, e)
      BY <1>1, <1>4, <1>5 DEF WrittenBy
    <2>5. Numbered(Whole(m))'
      BY <2>1, <2>2 DEF Numbered
    <2>. QED
      BY <1>5, <1>7, <2>3, <2>4, <2>5 DEF BatchFits
  <1>. QED
    BY <1>5, <1>6, <1>7, <1>8, <1>9, <1>10 DEF ActorFits, Phase

\* Two events at the end of a sequence.
LEMMA ConcatTwo ==
    ASSUME NEW B \in Seq(Event), NEW a \in Event, NEW b \in Event, NEW C, C = B \o <<a, b>>
    PROVE  /\ C \in Seq(Event) /\ C # <<>> /\ C = Append(Append(B, a), b)
           /\ Len(C) = Len(B) + 2 /\ C[Len(B) + 2] = b
           /\ C[1] = IF B = <<>> THEN a ELSE B[1]
           /\ \A i \in DOMAIN C : (i \in DOMAIN B /\ C[i] = B[i]) \/ C[i] = a \/ C[i] = b
  <1> DEFINE n == Len(B)
  <1>1. C \in Seq(Event) /\ Len(C) = n + 2 /\ n \in Nat /\ DOMAIN B = 1..n /\ DOMAIN C = 1..(n + 2)
    OBVIOUS
  <1>2. C[n + 1] = a /\ C[n + 2] = b /\ \A i \in 1..n : C[i] = B[i]
    OBVIOUS
  <1>3. B = <<>> <=> n = 0
    BY EventSeq
  <1>4. C = Append(Append(B, a), b)
    BY ConcatIsAppends
  <1>5. C # <<>> /\ C[1] = IF B = <<>> THEN a ELSE B[1]
    BY <1>1, <1>2, <1>3
  <1>6. \A i \in DOMAIN C : (i \in DOMAIN B /\ C[i] = B[i]) \/ C[i] = a \/ C[i] = b
    <2> TAKE i \in DOMAIN C
    <2>1. i \in 1..n \/ i = n + 1 \/ i = n + 2
      BY <1>1
    <2>. QED
      BY <1>1, <1>2, <2>1
  <1>. QED
    BY <1>1, <1>2, <1>4, <1>5, <1>6

\* The events of a quarantine after those of the job: numbered on what is committed
\* and staged together.
LEMMA QuarantineFits ==
    ASSUME ViolationIds, WriteInv, OperatorInv, NEW m \in Admin, Quarantine(m)
    PROVE  ActorFits(m)' /\ \E j \in Job : Becomes(m, j, "quarantine")
  <1>1. /\ job \in [Admin -> Job \cup {NoJob}] /\ apc \in [Admin -> Phase] /\ apc[m] = "quarantine"
        /\ apc' = apc /\ sequence' = sequence + 2 /\ log' = log
        /\ sequence \in Nat /\ log[System] \in Seq(Event) /\ System \in Stream
    BY DEF OperatorInv, IntegrityTypeOK, TypeOK, Quarantine, Stream
  <1>2. JobFits(m) /\ lock[System] = m /\ BatchFits(m) /\ IntegrityTypeOK /\ JobsFit
    BY <1>1 DEF OperatorInv, JobsFit, SystemLocked, BatchesFit
  <1>3. job[m] \in Job /\ job[m].batch \in Seq(Event) /\ job[m].bad \in Seq(Finding) /\ job[m].bad # <<>>
    BY <1>1, <1>2, RunningJob DEF Quarantine
  <1>4. job[m].op = "verify" /\
        \E a, b \in Event :
              /\ job' = [job EXCEPT ![m] = [job[m] EXCEPT !.batch = job[m].batch \o <<a, b>>,
                                                          !.bad = Tail(job[m].bad)]]
              /\ a.pos = sequence + 1 /\ a.prev = job[m].batch[Len(job[m].batch)].pos
              /\ b.pos = sequence + 2 /\ b.prev = a.pos
              /\ WrittenBy(job[m], a) /\ WrittenBy(job[m], b)
              /\ a.ver = Latest(Whole(m), a.agg) + 1
              /\ b.ver = Latest(Append(Whole(m), a), b.agg) + 1
    BY <1>2, QuarantineEffect DEF BatchFits
  <1>5. PICK a \in Event, b \in Event :
              /\ job' = [job EXCEPT ![m] = [job[m] EXCEPT !.batch = job[m].batch \o <<a, b>>,
                                                          !.bad = Tail(job[m].bad)]]
              /\ a.pos = sequence + 1 /\ b.pos = sequence + 2
              /\ WrittenBy(job[m], a) /\ WrittenBy(job[m], b)
              /\ a.ver = Latest(Whole(m), a.agg) + 1
              /\ b.ver = Latest(Append(Whole(m), a), b.agg) + 1
    BY <1>4
  <1> DEFINE B == job[m].batch
             C == B \o <<a, b>>
             rest == Tail(job[m].bad)
             j == [job[m] EXCEPT !.batch = C, !.bad = rest]
  <1>6. /\ C \in Seq(Event) /\ C # <<>>
        /\ log[System] \o C = Append(Append(Whole(m), a), b)
        /\ \A i \in DOMAIN C : (i \in DOMAIN B /\ C[i] = B[i]) \/ C[i] = a \/ C[i] = b
    <2> DEFINE L == log[System]
    <2>1. L \in Seq(Event) /\ B \in Seq(Event) /\ C = B \o <<a, b>> /\ Whole(m) = L \o B
      BY <1>1, <1>3 DEF Whole
    <2> HIDE DEF L, B, C
    <2>2. /\ C \in Seq(Event) /\ C # <<>> /\ C = Append(Append(B, a), b)
          /\ \A i \in DOMAIN C : (i \in DOMAIN B /\ C[i] = B[i]) \/ C[i] = a \/ C[i] = b
      BY <2>1, ConcatTwo
    <2>3. L \o C = Append(Append(L \o B, a), b)
      <3>1. Append(B, a) \in Seq(Event)
        BY <2>1
      <3>2. L \o Append(Append(B, a), b) = Append(L \o Append(B, a), b)
        BY <2>1, <3>1, ConcatAppend
      <3>3. L \o Append(B, a) = Append(L \o B, a)
        BY <2>1, ConcatAppend
      <3>. QED
        BY <2>2, <3>2, <3>3
    <2>. QED
      BY <2>1, <2>2, <2>3 DEF L
  <1>7. rest \in Seq(Finding) /\ Becomes(m, j, "quarantine")
    BY <1>1, <1>3, <1>5 DEF Becomes
  <1> HIDE DEF C, rest
  <1>8. /\ j \in Job /\ j.op = job[m].op /\ j.stream = job[m].stream /\ j.clean = job[m].clean
        /\ j.todo = job[m].todo /\ j.batch = C
    BY <1>3, <1>6, <1>7 DEF Job
  <1> HIDE DEF j
  <1>9. job'[m] = j /\ apc'[m] = "quarantine"
    BY <1>1, <1>7 DEF Becomes
  <1>10. JobFits(m)'
    BY <1>2, <1>4, <1>8, <1>9 DEF JobFits
  <1>11. lock'[System] = m
    <2>1. lock \in [Stream -> Session \cup {NoSession}]
      BY DEF OperatorInv, IntegrityTypeOK, TypeOK
    <2>2. Head(job[m].bad).stream # System /\ lock' = [lock EXCEPT ![Head(job[m].bad).stream] = m]
      BY DEF Quarantine
    <2>. QED
      BY <1>1, <1>2, <2>1, <2>2
  <1>12. BatchFits(m)'
    <2>1. Numbered(Append(Append(Whole(m), a), b))
      <3>1. Whole(m) \in Seq(Event) /\ Numbered(Whole(m))
        BY <1>1, <1>2, <1>3 DEF Whole, BatchFits
      <3>2. Numbered(Append(Whole(m), a)) /\ Append(Whole(m), a) \in Seq(Event)
        BY <1>5, <3>1, AppendNumbered
      <3>. QED
        BY <1>5, <3>2, AppendNumbered
    <2>2. Whole(m)' = Append(Append(Whole(m), a), b)
      BY <1>1, <1>6, <1>8, <1>9 DEF Whole
    <2>3. Numbered(Whole(m))'
      BY <2>1, <2>2 DEF Numbered
    <2>4. \A i \in DOMAIN C : C[i].pos \in 1..sequence' /\ WrittenBy(j, C[i])
      <3>1. \A i \in DOMAIN B : B[i].pos \in 1..sequence /\ WrittenBy(job[m], B[i])
        BY <1>2 DEF BatchFits
      <3>2. \A e : WrittenBy(job[m], e) => WrittenBy(j, e)
        BY <1>8 DEF WrittenBy
      <3>3. a.pos \in 1..sequence' /\ b.pos \in 1..sequence' /\ \A p \in 1..sequence : p \in 1..sequence'
        BY <1>1, <1>5
      <3>. QED
        BY <1>5, <1>6, <3>1, <3>2, <3>3
    <2>. QED
      BY <1>4, <1>6, <1>8, <1>9, <2>3, <2>4 DEF BatchFits
  <1>. QED
    BY <1>7, <1>8, <1>9, <1>10, <1>11, <1>12 DEF ActorFits, Phase

\* Every step of an operator keeps its own record fit and leaves the others alone.
LEMMA ActorKeeps ==
    ASSUME ViolationIds, WriteInv, OperatorInv, VersionsContiguous, NEW m \in Admin, ActorStep(m)
    PROVE  /\ ActorFits(m)'
           /\ \E j \in Job \cup {NoJob}, at \in Phase : Becomes(m, j, at)
  <1>1. IntegrityTypeOK /\ JobsFit /\ apc \in [Admin -> Phase] /\ job \in [Admin -> Job \cup {NoJob}]
    BY DEF OperatorInv, IntegrityTypeOK
  <1>2. CASE \/ \E mode \in {"FULL", "INCREMENTAL"} : StartVerify(m, mode)
             \/ \E op \in Op \ {"verify"}, s \in ReleaseTargets : StartStream(m, op, s)
    BY <1>1, <1>2, StartFits DEF Phase
  <1>3. CASE Scan(m)
    BY <1>1, <1>3, ScanFits DEF Phase
  <1>4. CASE ReadRows(m) \/ ReadVersion(m) \/ LockSystem(m)
    <2>1. apc'[m] \in Phase
      BY <1>1, <1>4, ReadFits DEF ActorFits, Phase
    <2>. QED
      BY <1>1, <1>4, <2>1, ReadFits
  <1>5. CASE \/ StopBroken(m) \/ AppendConflict(m) \/ ReportRejection(m) \/ CrashAdmin(m)
             \/ RejectOwnAppend(m) \/ CommitJob(m)
    <2>1. ActorFits(m)' /\ (Becomes(m, NoJob, "idle") \/ Becomes(m, job[m], "rejected"))
      BY <1>1, <1>5, EndFits
    <2>. QED
      BY <1>1, <2>1 DEF Phase
  <1>6. CASE AppendFirst(m)
    BY <1>6, AppendFirstFits DEF Phase
  <1>7. CASE Quarantine(m)
    BY <1>7, QuarantineFits DEF Phase
  <1>. QED
    BY <1>2, <1>3, <1>4, <1>5, <1>6, <1>7 DEF ActorStep, AdminStep

\* A step of operator m moves no lock that another session holds, and only a commit
\* changes what is committed.
LEMMA ActorFrame ==
    ASSUME TypeOK, NEW m \in Admin, ActorStep(m)
    PROVE  /\ OperatorStep
           /\ \A s \in Stream : lock[s] \notin {NoSession, m} => lock'[s] = lock[s]
           /\ ~CommitJob(m) => UNCHANGED <<log, head, checkpoint, audits>>
           /\ tampered' = tampered /\ tampers' = tampers
           /\ jobs' = jobs \/ (jobs < MaxJobs /\ jobs' = jobs + 1)
  <1>1. OperatorStep
    BY DEF OperatorStep, ActorStep, AdminNext
  <1>2. \/ lock' = lock
        \/ lock' = Released(m)
        \/ \E s : lock[s] = NoSession /\ lock' = [lock EXCEPT ![s] = m]
    <2>1. CASE AppendFirst(m)
      BY <2>1 DEF AppendFirst
    <2>2. CASE Quarantine(m)
      BY <2>2 DEF Quarantine
    <2>3. CASE LockSystem(m)
      BY <2>3 DEF LockSystem
    <2>. QED
      BY <2>1, <2>2, <2>3
      DEF ActorStep, AdminStep, StartVerify, StartStream, Scan, StopBroken, ReadRows,
          ReadVersion, AppendConflict, EndJob, RejectOwnAppend, ReportRejection, CommitJob,
          CrashAdmin, vars
  <1>3. ASSUME NEW s \in Stream, lock[s] \notin {NoSession, m} PROVE lock'[s] = lock[s]
    <2>1. lock \in [Stream -> Session \cup {NoSession}]
      BY DEF TypeOK
    <2>. QED
      BY <1>2, <1>3, <2>1 DEF Released
  <1>4. ~CommitJob(m) => UNCHANGED <<log, head, audits>>
    BY DEF ActorStep, AdminStep, StartVerify, StartStream, Scan, StopBroken, ReadRows,
       ReadVersion, LockSystem, AppendConflict, AppendFirst, Quarantine, RejectOwnAppend,
       ReportRejection, CrashAdmin, ledgerButLock, vars
  <1>5. ~CommitJob(m) => UNCHANGED checkpoint
    BY DEF ActorStep, AdminStep, StartVerify, StartStream, Scan, StopBroken, ReadRows,
       ReadVersion, LockSystem, AppendConflict, AppendFirst, Quarantine, RejectOwnAppend,
       ReportRejection, CrashAdmin
  <1>6. tampered' = tampered /\ tampers' = tampers
    BY DEF ActorStep, AdminStep, StartVerify, StartStream, Scan, StopBroken, ReadRows,
       ReadVersion, LockSystem, AppendConflict, AppendFirst, Quarantine, RejectOwnAppend,
       ReportRejection, CommitJob, CrashAdmin
  <1>7. jobs' = jobs \/ (jobs < MaxJobs /\ jobs' = jobs + 1)
    BY DEF ActorStep, AdminStep, StartVerify, StartStream, Scan, StopBroken, ReadRows,
       ReadVersion, LockSystem, AppendConflict, AppendFirst, Quarantine, RejectOwnAppend,
       ReportRejection, CommitJob, CrashAdmin
  <1>. QED
    BY <1>1, <1>3, <1>4, <1>5, <1>6, <1>7

\* What the SYSTEM stream holds once job m commits: what it held, then the batch.
LEMMA WholeElements ==
    ASSUME IntegrityTypeOK, NEW m \in Admin, job[m].batch \in Seq(Event)
    PROVE  /\ DOMAIN Whole(m) = 1..(Len(log[System]) + Len(job[m].batch))
           /\ DOMAIN log[System] \subseteq DOMAIN Whole(m)
           /\ \A i \in DOMAIN log[System] : Whole(m)[i] = log[System][i]
           /\ \A k \in DOMAIN job[m].batch :
                 /\ Len(log[System]) + k \in DOMAIN Whole(m)
                 /\ Whole(m)[Len(log[System]) + k] = job[m].batch[k]
           /\ \A i \in DOMAIN Whole(m) :
                 i \in DOMAIN log[System]
                 \/ \E k \in DOMAIN job[m].batch : i = Len(log[System]) + k
  <1> DEFINE L == log[System]
             B == job[m].batch
             W == L \o B
  <1>1. L \in Seq(Event) /\ B \in Seq(Event)
    BY DEF IntegrityTypeOK, TypeOK, Stream
  <1> HIDE DEF L, B
  <1>2. /\ Len(L) \in Nat /\ Len(B) \in Nat /\ DOMAIN L = 1..Len(L) /\ DOMAIN B = 1..Len(B)
    BY <1>1, EventSeq
  <1>3. DOMAIN W = 1..(Len(L) + Len(B))
    BY <1>1
  <1>4. \A i \in DOMAIN L : W[i] = L[i]
    BY <1>1
  <1>5. \A k \in DOMAIN B : W[Len(L) + k] = B[k]
    BY <1>1
  <1> HIDE DEF W
  <1>6. DOMAIN L \subseteq DOMAIN W /\ \A k \in DOMAIN B : Len(L) + k \in DOMAIN W
    BY <1>2, <1>3
  <1>7. \A i \in DOMAIN W : i \in DOMAIN L \/ \E k \in DOMAIN B : i = Len(L) + k
    <2> TAKE i \in DOMAIN W
    <2>1. CASE i > Len(L)
      <3>1. i - Len(L) \in DOMAIN B /\ i = Len(L) + (i - Len(L))
        BY <1>2, <1>3, <2>1
      <3>. QED
        BY <3>1
    <2>2. CASE ~(i > Len(L))
      BY <1>2, <1>3, <2>2
    <2>. QED
      BY <2>1, <2>2
  <1>. QED
    BY <1>3, <1>4, <1>5, <1>6, <1>7 DEF W, L, B, Whole

\* A step of an operator keeps the types.
LEMMA ActorTypes ==
    ASSUME ViolationIds, WriteInv, OperatorInv, VersionsContiguous, NEW m \in Admin, ActorStep(m)
    PROVE  IntegrityTypeOK'
  <1>1. /\ IntegrityTypeOK /\ JobsFit /\ BatchesFit /\ TypeOK
        /\ job \in [Admin -> Job \cup {NoJob}] /\ apc \in [Admin -> Phase]
        /\ checkpoint \in [Stream -> Nat] /\ tampered \subseteq 1..sequence /\ sequence \in Nat
        /\ tampers \in 0..MaxTampers /\ jobs \in 0..MaxJobs
        /\ \A n \in Admin : apc[n] = "idle" <=> job[n] = NoJob
    BY DEF OperatorInv, IntegrityTypeOK, WriteInv, TypeOK
  <1>2. OperatorStep /\ TypeOK'
    BY <1>1, ActorFrame, OperatorWrites DEF WriteInv
  <1>3. PICK j \in Job \cup {NoJob}, at \in Phase : Becomes(m, j, at)
    BY ActorKeeps
  <1>4. job' \in [Admin -> Job \cup {NoJob}] /\ apc' \in [Admin -> Phase]
    BY <1>1, <1>3 DEF Becomes
  <1>5. checkpoint' \in [Stream -> Nat]
    <2>1. CASE CommitJob(m)
      BY <1>1, <2>1, CommitJobEffect
    <2>2. CASE ~CommitJob(m)
      BY <1>1, <2>2, ActorFrame
    <2>. QED
      BY <2>1, <2>2
  <1>6. tampered' = tampered /\ tampers' = tampers /\ jobs' \in 0..MaxJobs
    <2>1. /\ tampered' = tampered /\ tampers' = tampers
          /\ jobs' = jobs \/ (jobs < MaxJobs /\ jobs' = jobs + 1)
      BY <1>1, ActorFrame
    <2>. QED
      BY <1>1, <2>1, JobBoundAssumption
  <1>7. sequence' \in Nat /\ sequence <= sequence'
    BY <1>1, <1>2, OperatorFrame
  <1>8. tampered' \subseteq 1..sequence'
    BY <1>1, <1>6, <1>7
  <1>9. \A n \in Admin : apc'[n] = "idle" <=> job'[n] = NoJob
    <2> TAKE n \in Admin
    <2>1. CASE n = m
      <3>1. ActorFits(m)'
        BY ActorKeeps
      <3>. QED
        BY <2>1, <3>1, JobIsNotIdle DEF ActorFits
    <2>2. CASE n # m
      BY <1>1, <1>3, <2>2 DEF Becomes
    <2>. QED
      BY <2>1, <2>2
  <1>. QED
    BY <1>1, <1>2, <1>4, <1>5, <1>6, <1>8, <1>9 DEF IntegrityTypeOK

\* ... the positions used, ...
LEMMA ActorPositions ==
    ASSUME WriteInv, OperatorInv, NEW m \in Admin, ActorStep(m)
    PROVE  PositionsUsed'
  <1>1. /\ IntegrityTypeOK /\ JobsFit /\ BatchesFit /\ TypeOK /\ PositionsUsed /\ sequence \in Nat
        /\ log \in [Stream -> Seq(Event)]
    BY DEF OperatorInv, IntegrityTypeOK, WriteInv, TypeOK
  <1>2. sequence' \in Nat /\ sequence <= sequence'
    BY <1>1, ActorFrame, OperatorFrame
  <1>3. CASE ~CommitJob(m)
    <2>1. log' = log
      BY <1>1, <1>3, ActorFrame
    <2>. QED
      BY <1>1, <1>2, <2>1 DEF PositionsUsed
  <1>4. CASE CommitJob(m)
    <2>1. /\ apc[m] = "quarantine" /\ job[m].batch \in Seq(Event)
          /\ log' = [log EXCEPT ![System] = Whole(m)] /\ sequence' = sequence
      BY <1>1, <1>4, CommitJobEffect DEF CommitJob
    <2>2. \A k \in DOMAIN job[m].batch : job[m].batch[k].pos \in 1..sequence
      BY <1>1, <2>1 DEF BatchesFit, BatchFits
    <2>3. \A i \in DOMAIN Whole(m) : Whole(m)[i].pos \in 1..sequence
      <3> TAKE i \in DOMAIN Whole(m)
      <3>1. CASE i \in DOMAIN log[System]
        BY <1>1, <2>1, <3>1, WholeElements DEF PositionsUsed, Stream
      <3>2. ASSUME NEW k \in DOMAIN job[m].batch, i = Len(log[System]) + k
            PROVE  Whole(m)[i].pos \in 1..sequence
        BY <1>1, <2>1, <2>2, <3>2, WholeElements
      <3>. QED
        BY <1>1, <2>1, <3>1, <3>2, WholeElements
    <2>. QED
      BY <1>1, <2>1, <2>3 DEF PositionsUsed
  <1>. QED
    BY <1>3, <1>4

\* ... and every job, its SYSTEM lock and its staged events: those of another operator
\* that holds the SYSTEM lock are not disturbed, since m neither holds it nor commits.
LEMMA ActorJobs ==
    ASSUME ViolationIds, WriteInv, OperatorInv, VersionsContiguous, NEW m \in Admin, ActorStep(m),
           NEW n \in Admin
    PROVE  /\ apc'[n] # "idle" => JobFits(n)'
           /\ apc'[n] \in {"append", "quarantine"} => lock'[System] = n
           /\ apc'[n] = "quarantine" => BatchFits(n)'
  <1>1. /\ TypeOK /\ JobsFit /\ SystemLocked /\ BatchesFit /\ sequence \in Nat
        /\ job \in [Admin -> Job \cup {NoJob}] /\ apc \in [Admin -> Phase]
        /\ System \in Stream
    BY DEF OperatorInv, IntegrityTypeOK, WriteInv, TypeOK, Stream
  <1>2. CASE n = m
    <2>1. ActorFits(m)'
      BY ActorKeeps
    <2>. QED
      BY <1>2, <2>1 DEF ActorFits
  <1>3. CASE n # m
    <2>1. PICK j \in Job \cup {NoJob}, at \in Phase : Becomes(m, j, at)
      BY ActorKeeps
    <2>2. job'[n] = job[n] /\ apc'[n] = apc[n]
      BY <1>1, <1>3, <2>1 DEF Becomes
    <2>3. apc'[n] # "idle" => JobFits(n)'
      BY <1>1, <2>2 DEF JobsFit, JobFits
    <2>4. apc'[n] \in {"append", "quarantine"} => lock[System] = n /\ lock'[System] = n
      <3> HAVE apc'[n] \in {"append", "quarantine"}
      <3>1. lock[System] = n
        BY <1>1, <2>2 DEF SystemLocked
      <3>2. n \notin {NoSession, m}
        BY <1>3, AdminAssumption, SessionAssumption
      <3>. QED
        BY <1>1, <3>1, <3>2, ActorFrame
    <2>5. ASSUME apc'[n] = "quarantine" PROVE BatchFits(n)'
      <3>1. BatchFits(n) /\ lock[System] = n
        BY <1>1, <2>2, <2>4, <2>5 DEF BatchesFit
      <3>2. ~CommitJob(m)
        BY <1>1, <1>3, <3>1 DEF CommitJob, SystemLocked
      <3>3. log' = log
        BY <1>1, <3>2, ActorFrame
      <3>4. sequence' \in Nat /\ sequence <= sequence'
        BY <1>1, ActorFrame, OperatorFrame
      <3>5. Whole(n)' = Whole(n)
        BY <2>2, <3>3 DEF Whole
      <3>6. Numbered(Whole(n))'
        BY <3>1, <3>5 DEF BatchFits, Numbered
      <3>7. \A i \in DOMAIN job[n].batch :
               job[n].batch[i].pos \in 1..sequence' /\ WrittenBy(job[n], job[n].batch[i])
        BY <1>1, <3>1, <3>4 DEF BatchFits
      <3>. QED
        BY <2>2, <3>1, <3>6, <3>7 DEF BatchFits
    <2>. QED
      BY <2>3, <2>4, <2>5
  <1>. QED
    BY <1>2, <1>3

\* A step of an operator keeps the operators' invariant.
LEMMA ActorInv ==
    ASSUME ViolationIds, WriteInv, OperatorInv, VersionsContiguous, NEW m \in Admin, ActorStep(m)
    PROVE  OperatorInv'
  <1>1. IntegrityTypeOK'
    BY ActorTypes
  <1>2. PositionsUsed'
    BY ActorPositions
  <1>3. JobsFit'
    BY ActorJobs DEF JobsFit
  <1>4. SystemLocked'
    BY ActorJobs DEF SystemLocked
  <1>5. BatchesFit'
    BY ActorJobs DEF BatchesFit
  <1>. QED
    BY <1>1, <1>2, <1>3, <1>4, <1>5 DEF OperatorInv

\* Steps that are no operator's leave the jobs and the SYSTEM stream alone.
LEMMA OutsideInv ==
    ASSUME WriteInv, OperatorInv,
           (WorkerNext /\ UNCHANGED integrityVars) \/ Environment \/ UNCHANGED allVars
    PROVE  OperatorInv' /\ log'[System] = log[System]
           /\ \A s \in Stream : head'[s].status = head[s].status
  <1>1. /\ IntegrityTypeOK /\ TypeOK /\ JobsFit /\ SystemLocked /\ BatchesFit /\ PositionsUsed
        /\ sequence \in Nat
    BY DEF OperatorInv, WriteInv, TypeOK
  <1>2. /\ WriteInv' /\ sequence' \in Nat /\ sequence <= sequence'
        /\ log'[System] = log[System] /\ \A s \in Stream : head'[s].status = head[s].status
        /\ \A n \in Admin : lock[System] = n => lock'[System] = n
        /\ PositionsUsed'
    <2>1. CASE WorkerNext /\ UNCHANGED integrityVars
      BY <1>1, <2>1, WorkerFrame, WorkerPositions
    <2>2. CASE Environment \/ UNCHANGED allVars
      <3>1. UNCHANGED vars
        BY <2>2 DEF Environment, Tamper, Repair, allVars
      <3>2. OperatorStep
        BY <2>2 DEF OperatorStep
      <3>3. WriteInv'
        BY <3>2, OperatorWrites
      <3>4. log' = log /\ head' = head /\ sequence' = sequence /\ lock' = lock
        BY <3>1 DEF vars, ledgerVars
      <3>5. PositionsUsed'
        BY <1>1, <3>4 DEF PositionsUsed
      <3>. QED
        BY <1>1, <3>3, <3>4, <3>5
    <2>. QED
      BY <2>1, <2>2
  <1>3. job' = job /\ apc' = apc /\ checkpoint' = checkpoint /\ jobs' = jobs
    BY DEF Environment, Tamper, Repair, allVars, integrityVars
  <1>4. tampered' \subseteq 1..sequence' /\ tampers' \in 0..MaxTampers
    <2>1. tampered \subseteq 1..sequence /\ tampers \in 0..MaxTampers
      BY <1>1 DEF IntegrityTypeOK
    <2>2. CASE (WorkerNext /\ UNCHANGED integrityVars) \/ UNCHANGED allVars
      <3>1. tampered' = tampered /\ tampers' = tampers
        BY <2>2 DEF allVars, integrityVars
      <3>. QED
        BY <1>1, <1>2, <2>1, <3>1
    <2>3. ASSUME NEW s \in TamperTargets, NEW i \in DOMAIN log[s], Tamper(s, i)
          PROVE  tampered' \subseteq 1..sequence' /\ tampers' \in 0..MaxTampers
      <3>1. s \in Stream
        BY OrderAssumption
      <3>2. log[s][i].pos \in 1..sequence
        BY <1>1, <2>3, <3>1 DEF PositionsUsed
      <3>3. tampered' = tampered \cup {log[s][i].pos} /\ tampers < MaxTampers /\ tampers' = tampers + 1
        BY <2>3 DEF Tamper
      <3>4. tampers' \in 0..MaxTampers
        BY <2>1, <3>3, JobBoundAssumption
      <3>5. 1..sequence \subseteq 1..sequence'
        BY <1>1, <1>2
      <3>6. tampered' \subseteq 1..sequence
        BY <2>1, <3>2, <3>3
      <3>. QED
        BY <3>4, <3>5, <3>6
    <2>4. ASSUME NEW p \in tampered, Repair(p)
          PROVE  tampered' \subseteq 1..sequence' /\ tampers' \in 0..MaxTampers
      BY <1>1, <1>2, <2>1, <2>4 DEF Repair
    <2>. QED
      BY <2>2, <2>3, <2>4 DEF Environment
  <1>5. IntegrityTypeOK'
    BY <1>1, <1>2, <1>3, <1>4 DEF IntegrityTypeOK, WriteInv
  <1>6. JobsFit'
    BY <1>1, <1>3 DEF JobsFit, JobFits
  <1>7. SystemLocked'
    BY <1>1, <1>2, <1>3 DEF SystemLocked
  <1>8. BatchesFit'
    <2> SUFFICES ASSUME NEW n \in Admin, apc[n] = "quarantine" PROVE BatchFits(n)'
      BY <1>3 DEF BatchesFit
    <2>1. BatchFits(n)
      BY <1>1 DEF BatchesFit
    <2>2. Whole(n)' = Whole(n)
      BY <1>2, <1>3 DEF Whole
    <2>3. Numbered(Whole(n))'
      BY <2>1, <2>2 DEF BatchFits, Numbered
    <2>4. \A i \in DOMAIN job[n].batch :
             job[n].batch[i].pos \in 1..sequence' /\ WrittenBy(job[n], job[n].batch[i])
      BY <1>1, <1>2, <2>1 DEF BatchFits
    <2>. QED
      BY <1>3, <2>1, <2>3, <2>4 DEF BatchFits
  <1>. QED
    BY <1>2, <1>5, <1>6, <1>7, <1>8 DEF OperatorInv

-----------------------------------------------------------------------------
(***************************************************************************)
(* What is recorded: versions and statuses.                                *)
(***************************************************************************)
\* A committed batch continues the numbering of the SYSTEM stream.
LEMMA ActorVersions ==
    ASSUME WriteInv, OperatorInv, VersionsContiguous, NEW m \in Admin, ActorStep(m)
    PROVE  VersionsContiguous'
  <1>1. IntegrityTypeOK /\ JobsFit /\ BatchesFit /\ TypeOK /\ log \in [Stream -> Seq(Event)] /\ System \in Stream
    BY DEF OperatorInv, WriteInv, TypeOK, Stream
  <1>2. CASE CommitJob(m)
    <2>1. apc[m] = "quarantine" /\ log' = [log EXCEPT ![System] = Whole(m)]
      BY <1>1, <1>2, CommitJobEffect
    <2>2. Numbered(Whole(m))
      BY <1>1, <2>1 DEF BatchesFit, BatchFits
    <2>3. log'[System] = Whole(m)
      BY <1>1, <2>1
    <2>. QED
      BY <2>2, <2>3 DEF VersionsContiguous, Numbered
  <1>3. CASE ~CommitJob(m)
    <2>1. log' = log
      BY <1>1, <1>3, ActorFrame
    <2>. QED
      BY <2>1 DEF VersionsContiguous, Numbered
  <1>. QED
    BY <1>2, <1>3

\* The events a job commits that say what the status of s is.
BatchStatusEvents(m, s) ==
    {k \in DOMAIN job[m].batch : job[m].batch[k].agg = StreamAggregate(s)
                                 /\ job[m].batch[k].kind # "IntegrityStreamVerified"}

\* They are the quarantine of s and its release, and only the jobs that change its
\* status write any.
LEMMA StatusWritten ==
    ASSUME IntegrityTypeOK, BatchesFit, NEW m \in Admin, apc[m] = "quarantine", NEW s \in Stream
    PROVE  /\ s \in Quarantining(m) =>
                \E k \in BatchStatusEvents(m, s) : job[m].batch[k].kind = "IntegrityStreamQuarantined"
           /\ s \notin Quarantining(m) =>
                IF job[m].op = "release" /\ job[m].stream = s
                THEN /\ Len(job[m].batch) = 1 /\ 1 \in BatchStatusEvents(m, s)
                     /\ job[m].batch[1].kind = "IntegrityStreamReleased"
                ELSE BatchStatusEvents(m, s) = {}
  <1> DEFINE B == job[m].batch
  <1>1. job[m].op \in Op /\ B \in Seq(Event)
    BY RunningJob
  <1>2. /\ B # <<>> /\ (job[m].op # "verify" => Len(B) = 1)
        /\ \A i \in DOMAIN B : WrittenBy(job[m], B[i])
    BY DEF BatchesFit, BatchFits
  <1>3. Quarantining(m) = {B[i].agg[2] : i \in {k \in DOMAIN B : B[k].kind = "IntegrityStreamQuarantined"}}
    BY DEF Quarantining, ToSet
  <1>4. \A t \in Stream : StreamAggregate(t) # Fresh
    BY IntegrityEventAssumption
  <1>5. ASSUME s \in Quarantining(m)
        PROVE  \E k \in BatchStatusEvents(m, s) : B[k].kind = "IntegrityStreamQuarantined"
    <2>1. PICK k \in DOMAIN B : B[k].kind = "IntegrityStreamQuarantined" /\ B[k].agg[2] = s
      BY <1>3, <1>5
    <2>2. PICK t \in Stream : B[k].agg = StreamAggregate(t)
      BY <1>2, <2>1 DEF WrittenBy
    <2>3. t = s
      BY <2>1, <2>2, AggregatesDiffer
    <2>4. k \in BatchStatusEvents(m, s)
      BY <2>1, <2>2, <2>3 DEF BatchStatusEvents
    <2>. QED
      BY <2>1, <2>4
  <1>6. ASSUME s \notin Quarantining(m), job[m].op = "release", job[m].stream = s
        PROVE  /\ Len(B) = 1 /\ 1 \in BatchStatusEvents(m, s)
               /\ B[1].kind = "IntegrityStreamReleased"
    <2>1. Len(B) = 1 /\ 1 \in DOMAIN B
      BY <1>1, <1>2, <1>6, EventSeq
    <2>2. B[1].agg = StreamAggregate(s) /\ B[1].kind = "IntegrityStreamReleased"
      BY <1>2, <1>6, <2>1 DEF WrittenBy
    <2>. QED
      BY <2>1, <2>2 DEF BatchStatusEvents
  <1>7. ASSUME s \notin Quarantining(m), ~(job[m].op = "release" /\ job[m].stream = s)
        PROVE  BatchStatusEvents(m, s) = {}
    <2> SUFFICES ASSUME NEW k \in DOMAIN B, B[k].agg = StreamAggregate(s),
                        B[k].kind # "IntegrityStreamVerified"
                 PROVE  FALSE
      BY DEF BatchStatusEvents
    <2>1. WrittenBy(job[m], B[k])
      BY <1>2
    <2>2. B[k].kind # "IntegrityStreamQuarantined"
      <3>1. B[k].agg[2] = s
        BY AggregatesDiffer
      <3>. QED
        BY <1>3, <1>7, <3>1
    <2>3. CASE job[m].op = "verify"
      BY <1>4, <2>1, <2>2, <2>3 DEF WrittenBy
    <2>4. CASE job[m].op # "verify"
      <3>1. job[m].op = "release" /\ StreamAggregate(s) = StreamAggregate(job[m].stream)
        BY <2>1, <2>4 DEF WrittenBy
      <3>2. job[m].stream = s
        BY <3>1, AggregatesDiffer
      <3>. QED
        BY <1>7, <3>1, <3>2
    <2>. QED
      BY <2>3, <2>4
  <1>. QED
    BY <1>5, <1>6, <1>7

\* A commit appends to the SYSTEM stream what it does to the status of a stream.
LEMMA CommitRecords ==
    ASSUME OperatorInv, StatusIsRecorded, NEW m \in Admin, CommitJob(m)
    PROVE  StatusIsRecorded'
  <1>1. /\ IntegrityTypeOK /\ JobsFit /\ BatchesFit /\ log[System] \in Seq(Event) /\ System \in Stream
        /\ head \in [Stream -> HeadRow]
    BY DEF OperatorInv, IntegrityTypeOK, TypeOK, Stream
  <1>2. /\ apc[m] = "quarantine" /\ job[m].batch \in Seq(Event)
        /\ log' = [log EXCEPT ![System] = Whole(m)] /\ head' \in [Stream -> HeadRow]
        /\ \A s \in Stream : head'[s].status = StatusAfter(m, s)
    BY <1>1, CommitJobEffect
  <1> DEFINE L == log[System]
             B == job[m].batch
             W == Whole(m)
             n == Len(L)
  <1>3. log'[System] = W
    BY <1>1, <1>2 DEF OperatorInv, IntegrityTypeOK, TypeOK
  <1>4. /\ n \in Nat /\ DOMAIN L = 1..n /\ DOMAIN B = 1..Len(B) /\ Len(B) \in Nat
    BY <1>1, <1>2, EventSeq
  <1>5. /\ DOMAIN L \subseteq DOMAIN W /\ \A i \in DOMAIN L : W[i] = L[i]
        /\ \A k \in DOMAIN B : n + k \in DOMAIN W /\ W[n + k] = B[k]
        /\ \A i \in DOMAIN W : i \in DOMAIN L \/ \E k \in DOMAIN B : i = n + k
    BY <1>1, <1>2, WholeElements
  <1> SUFFICES ASSUME NEW s \in App
               PROVE  IF head'[s].status = "ACTIVE"
                      THEN \A i \in StatusEvents(s)' :
                              (\A j \in StatusEvents(s)' : j <= i) => W[i].kind = "IntegrityStreamReleased"
                      ELSE \E i \in StatusEvents(s)' : W[i].kind = "IntegrityStreamQuarantined"
    BY <1>3 DEF StatusIsRecorded
  <1>6. s \in Stream
    BY DEF Stream
  <1> DEFINE E == StatusEvents(s)
             F == StatusEvents(s)'
             N == BatchStatusEvents(m, s)
  <1>7. /\ E \subseteq DOMAIN L /\ N \subseteq DOMAIN B
        /\ \A i \in DOMAIN L : i \in F <=> i \in E
        /\ \A k \in DOMAIN B : n + k \in F <=> k \in N
        /\ \A i \in F : i \in DOMAIN L \/ \E k \in DOMAIN B : i = n + k
    <2>1. F = {i \in DOMAIN W : W[i].agg = StreamAggregate(s) /\ W[i].kind # "IntegrityStreamVerified"}
      BY <1>3 DEF StatusEvents, StreamAggregate
    <2> HIDE DEF W, F
    <2>. QED
      BY <1>5, <2>1 DEF StatusEvents, BatchStatusEvents
  <1>8. /\ s \in Quarantining(m) => \E k \in N : B[k].kind = "IntegrityStreamQuarantined"
        /\ s \notin Quarantining(m) =>
              IF job[m].op = "release" /\ job[m].stream = s
              THEN Len(B) = 1 /\ 1 \in N /\ B[1].kind = "IntegrityStreamReleased"
              ELSE N = {}
    BY <1>1, <1>2, <1>6, StatusWritten
  <1>9. /\ IF head[s].status = "ACTIVE"
           THEN \A i \in E : (\A j \in E : j <= i) => L[i].kind = "IntegrityStreamReleased"
           ELSE \E i \in E : L[i].kind = "IntegrityStreamQuarantined"
    BY DEF StatusIsRecorded
  <1>10. head'[s].status = StatusAfter(m, s)
    BY <1>2, <1>6
  <1>11. CASE s \in Quarantining(m)
    <2>1. head'[s].status # "ACTIVE"
      BY <1>10, <1>11 DEF StatusAfter
    <2>2. PICK k \in N : B[k].kind = "IntegrityStreamQuarantined"
      BY <1>8, <1>11
    <2> HIDE DEF W, B, F, N
    <2>3. n + k \in F /\ W[n + k].kind = "IntegrityStreamQuarantined"
      BY <1>5, <1>7, <2>2
    <2>. QED
      BY <2>1, <2>3 DEF W, F
  <1>12. CASE s \notin Quarantining(m) /\ job[m].op = "release" /\ job[m].stream = s
    <2>1. Len(B) = 1 /\ 1 \in N /\ B[1].kind = "IntegrityStreamReleased"
      BY <1>8, <1>12
    <2>2. head'[s].status = "ACTIVE" \/ head'[s].status = head[s].status
      BY <1>10, <1>12 DEF StatusAfter
    <2>3. n + 1 \in F /\ W[n + 1].kind = "IntegrityStreamReleased"
      <3> HIDE DEF W, B, F, N
      <3>. QED
        BY <1>5, <1>7, <2>1
    <2>4. \A i \in F : (\A j \in F : j <= i) => i = n + 1
      <3> TAKE i \in F
      <3> HAVE \A j \in F : j <= i
      <3>1. n + 1 <= i
        BY <2>3
      <3> HIDE DEF F, W, B
      <3>2. i \in DOMAIN L \/ i = n + 1
        BY <1>4, <1>7, <2>1
      <3>. QED
        BY <1>4, <3>1, <3>2
    <2>5. CASE head'[s].status = "ACTIVE"
      BY <2>3, <2>4, <2>5
    <2>6. CASE head'[s].status # "ACTIVE"
      <3>1. PICK i \in E : L[i].kind = "IntegrityStreamQuarantined"
        BY <1>9, <2>2, <2>6
      <3> HIDE DEF W, F, E
      <3>2. i \in F /\ W[i].kind = "IntegrityStreamQuarantined"
        BY <1>5, <1>7, <3>1
      <3>. QED
        BY <2>6, <3>2 DEF W, F
    <2>. QED
      BY <2>5, <2>6
  <1>13. CASE s \notin Quarantining(m) /\ ~(job[m].op = "release" /\ job[m].stream = s)
    <2>1. head'[s].status = head[s].status
      BY <1>10, <1>13 DEF StatusAfter
    <2>2. N = {}
      BY <1>8, <1>13
    <2> HIDE DEF W, B, F, N, E, L
    <2>3. F = E
      BY <1>7, <2>2
    <2>4. \A i \in E : W[i] = L[i]
      BY <1>5, <1>7
    <2>. QED
      BY <1>9, <2>1, <2>3, <2>4 DEF W, F
  <1>. QED
    BY <1>11, <1>12, <1>13

\* Where the SYSTEM stream and every status stay, what is recorded stays.
LEMMA StatusStays ==
    ASSUME StatusIsRecorded, log'[System] = log[System],
           \A s \in Stream : head'[s].status = head[s].status
    PROVE  StatusIsRecorded'
  <1>1. \A s \in App : StatusEvents(s)' = StatusEvents(s) /\ head'[s].status = head[s].status
    BY DEF StatusEvents, StreamAggregate, Stream
  <1>. QED
    BY <1>1 DEF StatusIsRecorded

-----------------------------------------------------------------------------
\* Nothing is recorded, nothing is blocked and no job runs at first.
LEMMA RecordInit ==
    ASSUME IntegrityInit
    PROVE  RecordInv
  <1>1. WriteInv /\ TypeOK /\ sequence = 0
    BY InitChain DEF IntegrityInit, ChainInv, WriteInv, Init
  <1>2. /\ \A s \in Stream : log[s] = <<>> /\ head[s].status = "ACTIVE"
        /\ apc = [m \in Admin |-> "idle"] /\ job = [m \in Admin |-> NoJob]
        /\ System \in Stream /\ \A s \in App : s \in Stream
    BY DEF IntegrityInit, Init, NoHead, Stream
  <1>3. \A s \in Stream : DOMAIN log[s] = {}
    BY <1>2
  <1>4. IntegrityTypeOK
    <2>1. tampered \subseteq 1..sequence /\ tampers \in 0..MaxTampers /\ jobs \in 0..MaxJobs
      BY JobBoundAssumption DEF IntegrityInit
    <2>2. checkpoint \in [Stream -> Nat]
      BY DEF IntegrityInit
    <2>. QED
      BY <1>1, <1>2, <2>1, <2>2 DEF IntegrityTypeOK, Phase
  <1>5. PositionsUsed
    BY <1>3 DEF PositionsUsed
  <1>6. JobsFit /\ SystemLocked /\ BatchesFit
    BY <1>2 DEF JobsFit, SystemLocked, BatchesFit
  <1>7. VersionsContiguous
    BY <1>2, <1>3 DEF VersionsContiguous, Numbered
  <1>8. StatusIsRecorded
    <2>1. \A s \in App : StatusEvents(s) = {}
      BY <1>2, <1>3 DEF StatusEvents
    <2>. QED
      BY <1>2, <2>1 DEF StatusIsRecorded
  <1>. QED
    BY <1>1, <1>4, <1>5, <1>6, <1>7, <1>8 DEF RecordInv, OperatorInv

\* Every step keeps the statuses on record, with all that this rests on.
LEMMA RecordNext ==
    ASSUME ViolationIds, RecordInv, [IntegrityNext]_allVars
    PROVE  RecordInv'
  <1>1. WriteInv /\ OperatorInv /\ VersionsContiguous /\ StatusIsRecorded
    BY DEF RecordInv
  <1>2. CASE (WorkerNext /\ UNCHANGED integrityVars) \/ Environment \/ UNCHANGED allVars
    <2>1. WriteInv'
      <3>1. CASE WorkerNext
        BY <1>1, <3>1, WorkerFrame
      <3>2. CASE Environment \/ UNCHANGED allVars
        BY <1>1, <3>2, OperatorWrites DEF OperatorStep
      <3>. QED
        BY <1>2, <3>1, <3>2
    <2>2. OperatorInv' /\ log'[System] = log[System]
          /\ \A s \in Stream : head'[s].status = head[s].status
      BY <1>1, <1>2, OutsideInv
    <2>3. VersionsContiguous'
      BY <1>1, <2>2 DEF VersionsContiguous, Numbered
    <2>4. StatusIsRecorded'
      BY <1>1, <2>2, StatusStays
    <2>. QED
      BY <2>1, <2>2, <2>3, <2>4 DEF RecordInv
  <1>3. ASSUME NEW m \in Admin, ActorStep(m) PROVE RecordInv'
    <2>1. OperatorStep /\ (~CommitJob(m) => log' = log /\ head' = head)
      BY <1>1, <1>3, ActorFrame DEF WriteInv
    <2>2. WriteInv'
      BY <1>1, <2>1, OperatorWrites
    <2>3. OperatorInv' /\ VersionsContiguous'
      BY <1>1, <1>3, ActorInv, ActorVersions
    <2>4. StatusIsRecorded'
      <3>1. CASE CommitJob(m)
        BY <1>1, <3>1, CommitRecords
      <3>2. CASE ~CommitJob(m)
        BY <1>1, <2>1, <3>2, StatusStays
      <3>. QED
        BY <3>1, <3>2
    <2>. QED
      BY <2>2, <2>3, <2>4 DEF RecordInv
  <1>. QED
    BY <1>2, <1>3 DEF IntegrityNext, AdminNext, ActorStep, AllQuiescent

\* The strengthening is an invariant of workers and operators together, whatever is
\* corrupted and whichever streams are released.
THEOREM RecordsAreInvariant ==
    ASSUME ViolationIds
    PROVE  IntegritySpec => []RecordInv
  <1>1. IntegrityInit => RecordInv
    BY RecordInit
  <1>2. RecordInv /\ [IntegrityNext]_allVars => RecordInv'
    BY RecordNext
  <1>. QED
    BY <1>1, <1>2, PTL DEF IntegritySpec

\* Types of what operators keep and of the ledger as they leave it.
THEOREM IntegrityTypesCorrect ==
    ASSUME ViolationIds
    PROVE  IntegritySpec => []IntegrityTypeOK
  BY RecordsAreInvariant, PTL DEF RecordInv, OperatorInv

\* Versions read before the SYSTEM lock is taken never leave a gap or a duplicate in
\* an aggregate: the flush refuses a job whose version was overtaken.
THEOREM VersionsStayContiguous ==
    ASSUME ViolationIds
    PROVE  IntegritySpec => []VersionsContiguous
  BY RecordsAreInvariant, PTL DEF RecordInv

\* No interleaving of verifications, releases, quarantines, crashes and commands loses a
\* recorded quarantine or opens or blocks an application's stream without a record.
THEOREM StatusStaysRecorded ==
    ASSUME ViolationIds
    PROVE  IntegritySpec => []StatusIsRecorded
  BY RecordsAreInvariant, PTL DEF RecordInv

-----------------------------------------------------------------------------
(***************************************************************************)
(* The chain, and why a scan that starts at a checkpoint never mistakes it *)
(* for a broken one.  All of this is under System \notin ReleaseTargets: a *)
(* release of the SYSTEM stream itself appends from a stale head.          *)
(***************************************************************************)
\* What verify_chain expects of a stream: links and rising positions.
Sound(events) ==
    /\ \A i \in DOMAIN events :
          /\ events[i].prev = IF i = 1 THEN 0 ELSE events[i - 1].pos
          /\ events[i].prev < events[i].pos
    /\ \A i, j \in DOMAIN events : i < j => events[i].pos < events[j].pos

StreamsSound == \A s \in Stream : Sound(log[s])
BatchesSound == \A m \in Admin : apc[m] = "quarantine" => Sound(Whole(m))

\* A checkpoint, kept or about to be, is the position of a committed event.
AnchorsListed ==
    /\ \A s \in Stream : checkpoint[s] = 0 \/ Listed(s, checkpoint[s])
    /\ \A m \in Admin : apc[m] # "idle" => \A c \in job[m].clean : Listed(c.stream, c.pos)

\* Without a corruption no job has found a break or staged a quarantine.
Untampered ==
    tampers = 0 =>
        /\ tampered = {}
        /\ \A m \in Admin : apc[m] # "idle" => job[m].bad = <<>>
        /\ \A m \in Admin : apc[m] = "quarantine" => Quarantining(m) = {}

ScanInv == HeadTracksLog /\ StreamsSound /\ BatchesSound /\ AnchorsListed /\ Untampered /\ NoFalseAlarm

\* The position of the last event of a stream, 0 without one.
LastPos(events) == IF events = <<>> THEN 0 ELSE events[Len(events)].pos

\* An event chained onto the last one keeps a stream sound.
LEMMA AppendSound ==
    ASSUME NEW L \in Seq(Event), Sound(L), NEW e \in Event, e.prev = LastPos(L), e.prev < e.pos
    PROVE  Sound(Append(L, e))
  <1> DEFINE n == Len(L)
             M == Append(L, e)
  <1>1. /\ n \in Nat /\ DOMAIN L = 1..n /\ DOMAIN M = 1..(n + 1)
        /\ M[n + 1] = e /\ \A i \in 1..n : M[i] = L[i]
    BY AppendProperties, LenProperties
  <1>2. \A i \in 1..n : L[i].pos \in Nat
    <2>1. \A i \in 1..n : L[i] \in Event
      BY <1>1, EventSeq
    <2>. QED
      BY <2>1 DEF Event
  <1>3. e.pos \in Nat /\ e.prev \in Nat
    BY DEF Event
  <1>4. \A i \in 1..n : L[i].pos < e.pos
    <2> TAKE i \in 1..n
    <2>1. n \in Nat /\ n \in 1..n /\ e.prev = L[n].pos
      BY <1>1, EventSeq DEF LastPos
    <2>2. i = n \/ L[i].pos < L[n].pos
      <3>1. i = n \/ i < n
        <4> HIDE DEF n
        <4>. QED
          BY <2>1
      <3>2. \A j, k \in 1..n : j < k => L[j].pos < L[k].pos
        BY <1>1 DEF Sound
      <3>. QED
        BY <2>1, <3>1, <3>2
    <2>. QED
      BY <1>2, <1>3, <2>1, <2>2
  <1>5. e.prev = IF n + 1 = 1 THEN 0 ELSE M[n].pos
    <2>1. n + 1 = 1 <=> L = <<>>
      BY <1>1, EventSeq
    <2>2. CASE n + 1 = 1
      BY <2>1, <2>2 DEF LastPos
    <2>3. CASE n + 1 # 1
      <3>1. n \in 1..n
        BY <1>1, <2>3
      <3>. QED
        BY <1>1, <2>1, <2>3, <3>1 DEF LastPos
    <2>. QED
      BY <2>2, <2>3
  <1> HIDE DEF M
  <1>6. \A i \in 1..(n + 1) : M[i].prev = (IF i = 1 THEN 0 ELSE M[i - 1].pos) /\ M[i].prev < M[i].pos
    <2> TAKE i \in 1..(n + 1)
    <2>1. CASE i = n + 1
      BY <1>1, <1>5, <2>1
    <2>2. CASE i # n + 1
      <3>1. i \in 1..n /\ (i = 1 \/ i - 1 \in 1..n)
        BY <1>1, <2>2
      <3>2. L[i].prev = (IF i = 1 THEN 0 ELSE L[i - 1].pos) /\ L[i].prev < L[i].pos
        BY <1>1, <3>1 DEF Sound
      <3>. QED
        BY <1>1, <3>1, <3>2
    <2>. QED
      BY <2>1, <2>2
  <1>7. \A i, j \in 1..(n + 1) : i < j => M[i].pos < M[j].pos
    <2> TAKE i, j \in 1..(n + 1)
    <2> HAVE i < j
    <2>1. i \in 1..n /\ (j \in 1..n \/ j = n + 1)
      BY <1>1
    <2>. QED
      BY <1>1, <1>4, <2>1 DEF Sound
  <1>. QED
    BY <1>1, <1>6, <1>7 DEF Sound

\* verify_chain from the start, or from the position of any committed event, finds
\* no break in a sound stream nobody corrupted.
LEMMA NoBreaks ==
    ASSUME NEW s \in Stream, log[s] \in Seq(Event), Sound(log[s]), tampered = {},
           NEW from \in Nat, from = 0 \/ Listed(s, from)
    PROVE  Breaks(s, from) = {}
  <1> DEFINE L == log[s]
             n == Len(L)
  <1>1. n \in Nat /\ DOMAIN L = 1..n /\ \A i \in 1..n : L[i].pos \in Nat /\ L[i].prev \in Nat
    <2>1. n \in Nat /\ DOMAIN L = 1..n /\ \A i \in 1..n : L[i] \in Event
      BY EventSeq
    <2>. QED
      BY <2>1 DEF Event
  <1>2. /\ \A i \in 1..n : L[i].prev = (IF i = 1 THEN 0 ELSE L[i - 1].pos) /\ L[i].prev < L[i].pos
        /\ \A i, j \in 1..n : i < j => L[i].pos < L[j].pos
    BY <1>1 DEF Sound
  <1>3. ASSUME NEW i \in 1..n, L[i].pos > from,
               ~(i - 1 \in 1..n /\ L[i - 1].pos > from)
        PROVE  L[i].prev = from
    <2>1. CASE from = 0
      <3>1. i = 1
        <4>1. i # 1 => i - 1 \in 1..n /\ L[i - 1].pos > 0
          <5> HAVE i # 1
          <5>1. i - 1 \in 1..n
            BY <1>1
          <5>2. L[i - 1].prev < L[i - 1].pos /\ L[i - 1].prev \in Nat /\ L[i - 1].pos \in Nat
            BY <1>1, <1>2, <5>1
          <5>. QED
            BY <5>1, <5>2
        <4>. QED
          BY <1>3, <2>1, <4>1
      <3>. QED
        BY <1>2, <2>1, <3>1
    <2>2. ASSUME NEW k \in 1..n, L[k].pos = from PROVE L[i].prev = from
      <3>1. k < i
        <4>1. CASE i < k
          BY <1>1, <1>2, <1>3, <2>2, <4>1
        <4>2. CASE i = k
          BY <1>1, <1>3, <2>2, <4>2
        <4>. QED
          BY <1>1, <4>1, <4>2
      <3>2. i - 1 \in 1..n /\ i # 1
        BY <1>1, <3>1
      <3>3. ~(k < i - 1)
        <4>1. k < i - 1 => L[k].pos < L[i - 1].pos
          BY <1>2, <3>2
        <4>. QED
          BY <1>1, <1>3, <2>2, <3>2, <4>1
      <3>4. k = i - 1
        BY <1>1, <3>1, <3>3
      <3>. QED
        BY <1>2, <2>2, <3>2, <3>4
    <2>. QED
      BY <1>1, <2>1, <2>2 DEF Listed
  <1>4. After(s, from) = {i \in 1..n : L[i].pos > from}
    BY <1>1 DEF After
  <1>5. ASSUME NEW i \in Breaks(s, from) PROVE FALSE
    <2>1. i \in 1..n /\ L[i].pos > from
      BY <1>4, <1>5 DEF Breaks
    <2>2. L[i].prev # IF i - 1 \in After(s, from) THEN L[i - 1].pos ELSE from
      BY <1>5 DEF Breaks
    <2>3. CASE i - 1 \in After(s, from)
      <3>1. i - 1 \in 1..n /\ i # 1
        BY <1>1, <1>4, <2>3
      <3>. QED
        BY <1>2, <2>1, <2>2, <2>3, <3>1
    <2>4. CASE i - 1 \notin After(s, from)
      BY <1>3, <1>4, <2>1, <2>2, <2>4
    <2>. QED
      BY <2>3, <2>4
  <1>. QED
    BY <1>5

\* The position of the last event of what was committed and staged together.
LEMMA WholeLast ==
    ASSUME OperatorInv, NEW m \in Admin, apc[m] = "quarantine"
    PROVE  /\ Whole(m) \in Seq(Event) /\ Whole(m) # <<>>
           /\ Len(Whole(m)) = Len(log[System]) + Len(job[m].batch)
           /\ LastPos(Whole(m)) = job[m].batch[Len(job[m].batch)].pos
           /\ LastPos(Whole(m)) <= sequence /\ LastPos(Whole(m)) \in Nat
  <1> DEFINE L == log[System]
             B == job[m].batch
             W == Whole(m)
  <1>1. IntegrityTypeOK /\ BatchFits(m) /\ B \in Seq(Event) /\ L \in Seq(Event) /\ sequence \in Nat
    BY RunningJob DEF OperatorInv, IntegrityTypeOK, TypeOK, BatchesFit, Stream
  <1>2. W \in Seq(Event)
    BY <1>1 DEF Whole
  <1>3. Len(L) \in Nat /\ Len(B) \in Nat \ {0} /\ DOMAIN B = 1..Len(B)
    BY <1>1, EventSeq DEF BatchFits
  <1>4. /\ DOMAIN W = 1..(Len(L) + Len(B))
        /\ \A k \in DOMAIN B : Len(L) + k \in DOMAIN W /\ W[Len(L) + k] = B[k]
    BY <1>1, WholeElements
  <1> HIDE DEF W, L, B
  <1>5. Len(W) = Len(L) + Len(B) /\ W # <<>>
    <2>1. Len(W) \in Nat /\ DOMAIN W = 1..Len(W) /\ (W = <<>> <=> Len(W) = 0)
      BY <1>2, EventSeq
    <2>2. 1..Len(W) = 1..(Len(L) + Len(B)) /\ Len(L) + Len(B) \in Nat \ {0}
      BY <1>3, <1>4, <2>1
    <2>3. Len(W) = Len(L) + Len(B)
      <3> DEFINE x == Len(L) + Len(B)
                 y == Len(W)
      <3>1. x \in Nat /\ x # 0 /\ y \in Nat /\ 1..y = 1..x
        BY <2>1, <2>2
      <3> HIDE DEF x, y
      <3>2. x \in 1..y
        BY <3>1
      <3>3. y \in 1..x
        BY <3>1, <3>2
      <3>4. x = y
        BY <3>1, <3>2, <3>3
      <3>. QED
        BY <3>4 DEF x, y
    <2>. QED
      BY <2>1, <2>2, <2>3
  <1>6. Len(B) \in DOMAIN B
    BY <1>3
  <1>7. LastPos(W) = B[Len(B)].pos
    BY <1>4, <1>5, <1>6 DEF LastPos
  <1>8. B[Len(B)].pos \in 1..sequence
    BY <1>1, <1>6 DEF BatchFits, B
  <1>. QED
    BY <1>1, <1>2, <1>5, <1>7, <1>8 DEF W, L, B

\* A stream sound from zero is a chain.
LEMMA StreamsChained == StreamsSound => ChainIntact
  BY DEF StreamsSound, Sound, ChainIntact

\* Workers extend sound streams soundly: they hold the lock of the head they chain onto.
LEMMA WorkerScan ==
    ASSUME WriteInv, OperatorInv, ScanInv, WorkerNext, UNCHANGED integrityVars
    PROVE  ScanInv'
  <1>1. /\ TypeOK /\ log \in [Stream -> Seq(Event)]
        /\ HeadTracksLog /\ StreamsSound /\ BatchesSound /\ AnchorsListed /\ Untampered /\ NoFalseAlarm
    BY DEF WriteInv, TypeOK, ScanInv
  <1>2. /\ log'[System] = log[System] /\ \A s \in Stream : head'[s].status = head[s].status
        /\ [Next]_vars
    BY WorkerFrame DEF Next
  <1>3. HeadTracksLog'
    BY <1>1, <1>2, StreamsChained, NextChain DEF ChainInv
  <1>4. \A s \in Stream : Sound(log'[s]) /\ \A p : Listed(s, p) => Listed(s, p)'
    <2>1. CASE ~\E w \in Worker : Commit(w)
      <3>1. log' = log
        BY <1>1, <1>2, <2>1, OnlyCommitWrites
      <3>. QED
        BY <1>1, <3>1 DEF StreamsSound, Listed
    <2>2. ASSUME NEW w \in Worker, Commit(w), NEW s \in Stream
          PROVE  Sound(log'[s]) /\ \A p : Listed(s, p) => Listed(s, p)'
      <3> DEFINE a == req[w].app
                 e == staged[w]
      <3>1. /\ a \in Stream /\ e \in Event /\ e.prev = head[a].last /\ e.prev < e.pos
        BY <2>2, CommitEffect
      <3>2. /\ \A t \in Stream : t # a => log'[t] = log[t]
            /\ log'[a] = Append(log[a], e)
            /\ Len(log[a]) \in Nat
            /\ DOMAIN log[a] = 1..Len(log[a]) /\ DOMAIN log'[a] = 1..(Len(log[a]) + 1)
            /\ \A i \in DOMAIN log[a] : log'[a][i] = log[a][i]
        BY <2>2, CommitLog
      <3>3. CASE s # a
        BY <1>1, <3>2, <3>3 DEF StreamsSound, Listed
      <3>4. CASE s = a
        <4>1. e.prev = LastPos(log[a])
          BY <1>1, <3>1 DEF HeadTracksLog, LastPos
        <4>2. log[a] \in Seq(Event) /\ Sound(log[a])
          BY <1>1, <3>1 DEF StreamsSound
        <4>3. Sound(log'[a])
          BY <3>1, <3>2, <4>1, <4>2, AppendSound
        <4>4. DOMAIN log[a] \subseteq DOMAIN log'[a]
          BY <3>2
        <4>. QED
          BY <3>2, <3>4, <4>3, <4>4 DEF Listed
      <3>. QED
        BY <3>3, <3>4
    <2>. QED
      BY <2>1, <2>2
  <1>5. StreamsSound'
    BY <1>4 DEF StreamsSound, Sound
  <1>6. job' = job /\ apc' = apc /\ checkpoint' = checkpoint /\ tampers' = tampers /\ tampered' = tampered
    BY DEF integrityVars
  <1>7. BatchesSound'
    <2>1. \A m \in Admin : Whole(m)' = Whole(m)
      BY <1>2, <1>6 DEF Whole
    <2>. QED
      BY <1>1, <1>6, <2>1 DEF BatchesSound, Sound
  <1>8. AnchorsListed'
    <2>1. \A s \in Stream : checkpoint'[s] = 0 \/ Listed(s, checkpoint[s])'
      BY <1>1, <1>4, <1>6 DEF AnchorsListed, Listed
    <2>2. ASSUME NEW m \in Admin, apc'[m] # "idle", NEW c \in job'[m].clean
          PROVE  Listed(c.stream, c.pos)'
      <3>1. job[m].clean \in SUBSET Finding
        BY <1>6, <2>2, RunningJob DEF OperatorInv
      <3>2. c.stream \in Stream /\ Listed(c.stream, c.pos)
        BY <1>1, <1>6, <2>2, <3>1 DEF AnchorsListed, Finding
      <3>. QED
        BY <1>4, <3>2 DEF Listed
    <2>. QED
      BY <2>1, <2>2 DEF AnchorsListed
  <1>9. Untampered'
    <2>1. \A m \in Admin : Quarantining(m)' = Quarantining(m)
      BY <1>6 DEF Quarantining
    <2>. QED
      BY <1>1, <1>6, <2>1 DEF Untampered
  <1>10. NoFalseAlarm'
    BY <1>1, <1>2, <1>6 DEF NoFalseAlarm
  <1>. QED
    BY <1>3, <1>5, <1>7, <1>8, <1>9, <1>10 DEF ScanInv

\* A corruption changes no link and no position, and is counted.
LEMMA EnvironmentScan ==
    ASSUME OperatorInv, ScanInv, Environment \/ UNCHANGED allVars
    PROVE  ScanInv'
  <1>1. UNCHANGED <<log, head, job, apc, checkpoint>>
    BY DEF Environment, Tamper, Repair, allVars, vars, ledgerVars, integrityVars
  <1>2. HeadTracksLog' /\ StreamsSound'
    BY <1>1 DEF ScanInv, HeadTracksLog, StreamsSound, Sound
  <1>3. BatchesSound'
    <2>1. \A m \in Admin : Whole(m)' = Whole(m)
      BY <1>1 DEF Whole
    <2>. QED
      BY <1>1, <2>1 DEF ScanInv, BatchesSound, Sound
  <1>4. AnchorsListed'
    BY <1>1 DEF ScanInv, AnchorsListed, Listed
  <1>5. tampers' = 0 => tampers = 0 /\ tampered' = tampered
    <2>1. tampers \in Nat
      BY DEF OperatorInv, IntegrityTypeOK
    <2>2. tampers = 0 => tampered = {}
      BY DEF ScanInv, Untampered
    <2>3. ASSUME NEW s, NEW i, Tamper(s, i) PROVE tampers' # 0
      BY <2>1, <2>3 DEF Tamper
    <2>4. ASSUME NEW p \in tampered, Repair(p) PROVE tampers' = tampers /\ tampers # 0
      BY <2>2, <2>4 DEF Repair
    <2>5. UNCHANGED allVars => tampers' = tampers /\ tampered' = tampered
      BY DEF allVars, integrityVars
    <2>. QED
      BY <2>3, <2>4, <2>5 DEF Environment
  <1>6. Untampered'
    <2>1. \A m \in Admin : Quarantining(m)' = Quarantining(m)
      BY <1>1 DEF Quarantining
    <2>. QED
      BY <1>1, <1>5, <2>1 DEF ScanInv, Untampered
  <1>7. NoFalseAlarm'
    BY <1>1, <1>5 DEF ScanInv, NoFalseAlarm
  <1>. QED
    BY <1>2, <1>3, <1>4, <1>6, <1>7 DEF ScanInv

-----------------------------------------------------------------------------
(***************************************************************************)
(* Steps of an operator on the scan invariant, per kind of step.           *)
(***************************************************************************)
\* What a step of operator m must do to the streams, its record and its batch.
ScanKept(m) ==
    /\ apc[m] = "quarantine" => Sound(Whole(m))
    /\ apc[m] # "idle" => \A c \in job[m].clean : Listed(c.stream, c.pos)
    /\ tampers = 0 /\ apc[m] # "idle" => job[m].bad = <<>>
    /\ tampers = 0 /\ apc[m] = "quarantine" => Quarantining(m) = {}

\* Scanning finds no break unless something was corrupted, and only committed events.
LEMMA ScanScans ==
    ASSUME WriteInv, OperatorInv, ScanInv, NEW m \in Admin, Scan(m)
    PROVE  ScanKept(m)'
  <1>1. /\ IntegrityTypeOK /\ job \in [Admin -> Job \cup {NoJob}] /\ apc \in [Admin -> Phase]
        /\ apc[m] = "scan" /\ apc' = apc /\ log' = log /\ tampers' = tampers
        /\ checkpoint \in [Stream -> Nat] /\ log \in [Stream -> Seq(Event)]
    BY DEF OperatorInv, IntegrityTypeOK, TypeOK, Scan, vars, ledgerVars
  <1>2. PICK s \in job[m].todo, j \in Job : ScanResult(job[m], s, j) /\ job' = [job EXCEPT ![m] = j]
    BY <1>1, ScanEffect
  <1>3. job'[m] = j /\ apc'[m] = "scan"
    BY <1>1, <1>2
  <1>4. s \in Stream
    BY <1>1, RunningJob
  <1>5. \A c \in job[m].clean : Listed(c.stream, c.pos)
    BY <1>1 DEF ScanInv, AnchorsListed
  <1>6. \A c \in j.clean : Listed(c.stream, c.pos)
    <2>1. CASE j.clean = job[m].clean
      BY <1>5, <2>1
    <2>2. ASSUME NEW p \in Nat, Listed(s, p), j.clean = job[m].clean \cup {[stream |-> s, pos |-> p]}
          PROVE  \A c \in j.clean : Listed(c.stream, c.pos)
      BY <1>5, <2>2
    <2>. QED
      BY <1>2, <2>1, <2>2 DEF ScanResult
  <1>7. tampers = 0 => j.bad = <<>>
    <2> HAVE tampers = 0
    <2>1. tampered = {} /\ job[m].bad = <<>>
      BY <1>1 DEF ScanInv, Untampered
    <2>2. log[s] \in Seq(Event) /\ Sound(log[s]) /\ checkpoint[s] \in Nat
          /\ (checkpoint[s] = 0 \/ Listed(s, checkpoint[s]))
      BY <1>1, <1>4 DEF ScanInv, StreamsSound, AnchorsListed
    <2>3. Breaks(s, 0) = {} /\ Breaks(s, checkpoint[s]) = {}
      BY <1>4, <2>1, <2>2, NoBreaks
    <2>. QED
      BY <1>2, <2>1, <2>3 DEF ScanResult
  <1>. QED
    BY <1>1, <1>3, <1>6, <1>7 DEF ScanKept, Listed

\* The first event chains onto the committed head: no operator releases the SYSTEM stream.
LEMMA AppendFirstScans ==
    ASSUME System \notin ReleaseTargets, WriteInv, OperatorInv, ScanInv, NEW m \in Admin, AppendFirst(m)
    PROVE  ScanKept(m)'
  <1>1. /\ IntegrityTypeOK /\ job \in [Admin -> Job \cup {NoJob}] /\ apc \in [Admin -> Phase]
        /\ apc[m] = "append" /\ apc' = [apc EXCEPT ![m] = "quarantine"] /\ log' = log
        /\ tampers' = tampers /\ log[System] \in Seq(Event) /\ System \in Stream
        /\ sequence \in Nat
    BY DEF OperatorInv, IntegrityTypeOK, TypeOK, AppendFirst, Stream
  <1>2. JobFits(m) /\ job[m] \in Job
    BY <1>1, RunningJob DEF OperatorInv, JobsFit
  <1>3. PICK e \in Event :
              /\ job' = [job EXCEPT ![m] = [job[m] EXCEPT !.batch = <<e>>]]
              /\ e.pos = sequence + 1 /\ e.prev = SessionHead(m).last
              /\ e.kind # "IntegrityStreamQuarantined"
    BY <1>1, AppendFirstEffect
  <1>4. /\ job'[m].batch = <<e>> /\ job'[m].clean = job[m].clean /\ job'[m].bad = job[m].bad
        /\ apc'[m] = "quarantine"
    BY <1>1, <1>2, <1>3 DEF Job
  <1>5. SessionHead(m) = head[System]
    BY <1>2 DEF JobFits, SessionHead
  <1>6. e.prev = LastPos(log[System]) /\ e.prev < e.pos
    <2>1. e.prev = LastPos(log[System])
      BY <1>1, <1>3, <1>5 DEF ScanInv, HeadTracksLog, LastPos
    <2>2. head[System].last <= sequence /\ head[System].last \in Nat
      BY <1>1 DEF WriteInv, PositionsHandedOut, TypeOK, HeadRow
    <2>. QED
      BY <1>1, <1>3, <1>5, <2>1, <2>2
  <1>7. Sound(Append(log[System], e))
    BY <1>1, <1>6, AppendSound DEF ScanInv, StreamsSound
  <1>8. Whole(m)' = Append(log[System], e)
    <2>1. Whole(m)' = log[System] \o <<e>>
      BY <1>1, <1>4 DEF Whole
    <2>. QED
      BY <1>1, <1>3, <2>1, ConcatIsAppends
  <1>9. Quarantining(m)' = {}
    <2>1. DOMAIN <<e>> = {1} /\ <<e>>[1] = e
      OBVIOUS
    <2>2. \A x \in ToSet(job'[m].batch) : x = e
      BY <1>4, <2>1 DEF ToSet
    <2>. QED
      BY <1>3, <2>2 DEF Quarantining
  <1>10. Sound(Whole(m))'
    BY <1>7, <1>8 DEF Sound
  <1>11. \A c \in job[m].clean : Listed(c.stream, c.pos)
    BY <1>1 DEF ScanInv, AnchorsListed
  <1>12. tampers = 0 => job[m].bad = <<>>
    BY <1>1 DEF ScanInv, Untampered
  <1>. QED
    BY <1>1, <1>4, <1>9, <1>10, <1>11, <1>12 DEF ScanKept, Listed

\* A quarantine chains onto the batch; without a corruption there is none.
LEMMA QuarantineScans ==
    ASSUME ViolationIds, WriteInv, OperatorInv, ScanInv, NEW m \in Admin, Quarantine(m)
    PROVE  ScanKept(m)'
  <1>1. /\ IntegrityTypeOK /\ job \in [Admin -> Job \cup {NoJob}] /\ apc \in [Admin -> Phase]
        /\ apc[m] = "quarantine" /\ apc' = apc /\ log' = log /\ tampers' = tampers
        /\ log[System] \in Seq(Event) /\ System \in Stream
        /\ sequence \in Nat /\ job[m].bad # <<>> /\ JobsFit
    BY DEF OperatorInv, IntegrityTypeOK, TypeOK, Quarantine, Stream
  <1>2. BatchFits(m) /\ job[m] \in Job /\ job[m].batch \in Seq(Event)
    BY <1>1, RunningJob DEF OperatorInv, BatchesFit
  <1>3. \E a, b \in Event :
              /\ job' = [job EXCEPT ![m] = [job[m] EXCEPT !.batch = job[m].batch \o <<a, b>>,
                                                          !.bad = Tail(job[m].bad)]]
              /\ a.pos = sequence + 1 /\ a.prev = job[m].batch[Len(job[m].batch)].pos
              /\ b.pos = sequence + 2 /\ b.prev = a.pos
    BY <1>1, <1>2, QuarantineEffect DEF BatchFits
  <1>4. PICK a \in Event, b \in Event :
              /\ job' = [job EXCEPT ![m] = [job[m] EXCEPT !.batch = job[m].batch \o <<a, b>>,
                                                          !.bad = Tail(job[m].bad)]]
              /\ a.pos = sequence + 1 /\ a.prev = job[m].batch[Len(job[m].batch)].pos
              /\ b.pos = sequence + 2 /\ b.prev = a.pos
    BY <1>3
  <1>5. /\ job'[m].batch = job[m].batch \o <<a, b>> /\ job'[m].clean = job[m].clean
        /\ apc'[m] = "quarantine"
    BY <1>1, <1>2, <1>4 DEF Job
  <1>6. Whole(m)' = Append(Append(Whole(m), a), b)
    <2> DEFINE L == log[System]
               B == job[m].batch
    <2>1. L \in Seq(Event) /\ B \in Seq(Event) /\ Whole(m) = L \o B
      BY <1>1, <1>2 DEF Whole
    <2>2. Whole(m)' = L \o (B \o <<a, b>>)
      BY <1>1, <1>5 DEF Whole
    <2> HIDE DEF L, B
    <2>3. B \o <<a, b>> = Append(Append(B, a), b) /\ Append(B, a) \in Seq(Event)
      BY <2>1, ConcatIsAppends
    <2>4. L \o Append(Append(B, a), b) = Append(L \o Append(B, a), b)
      BY <2>1, <2>3, ConcatAppend
    <2>5. L \o Append(B, a) = Append(L \o B, a)
      BY <2>1, ConcatAppend
    <2>. QED
      BY <2>1, <2>2, <2>3, <2>4, <2>5
  <1>7. Sound(Append(Append(Whole(m), a), b))
    <2>1. Whole(m) \in Seq(Event) /\ LastPos(Whole(m)) = a.prev /\ a.prev <= sequence /\ a.prev \in Nat
      BY <1>1, <1>4, WholeLast
    <2>2. Sound(Whole(m))
      BY <1>1 DEF ScanInv, BatchesSound
    <2>3. a.prev < a.pos /\ b.prev < b.pos
      BY <1>1, <1>4, <2>1
    <2>4. Sound(Append(Whole(m), a))
      BY <2>1, <2>2, <2>3, AppendSound
    <2>5. Append(Whole(m), a) \in Seq(Event) /\ LastPos(Append(Whole(m), a)) = a.pos
      <3> HIDE DEF Whole
      <3>1. LET V == Append(Whole(m), a) IN V \in Seq(Event) /\ V # <<>> /\ V[Len(V)] = a
        BY <2>1, AppendProperties
      <3>. QED
        BY <3>1 DEF LastPos
    <2>. QED
      BY <1>4, <2>3, <2>4, <2>5, AppendSound
  <1>8. Sound(Whole(m))'
    BY <1>6, <1>7 DEF Sound
  <1>9. \A c \in job[m].clean : Listed(c.stream, c.pos)
    BY <1>1 DEF ScanInv, AnchorsListed
  <1>10. tampers # 0
    BY <1>1 DEF ScanInv, Untampered
  <1>. QED
    BY <1>1, <1>5, <1>8, <1>9, <1>10 DEF ScanKept, Listed

\* Committing, and every step that only reads rows, locks or ends a job: the record
\* that is left is idle, or that of before without a staged event.
LEMMA OtherScans ==
    ASSUME OperatorInv, ScanInv, NEW m \in Admin, ActorStep(m),
           ~(Scan(m) \/ AppendFirst(m) \/ Quarantine(m) \/ CommitJob(m))
    PROVE  ScanKept(m)'
  <1>1. /\ TypeOK /\ job \in [Admin -> Job \cup {NoJob}] /\ apc \in [Admin -> Phase]
        /\ tampers \in Nat
    BY DEF OperatorInv, IntegrityTypeOK
  <1>2. log' = log /\ tampers' = tampers
    BY <1>1, ActorFrame
  <1>3. CASE \/ \E mode \in {"FULL", "INCREMENTAL"} : StartVerify(m, mode)
             \/ \E op \in Op \ {"verify"}, s \in ReleaseTargets : StartStream(m, op, s)
    <2>1. apc'[m] = "scan" /\ job'[m].clean = {} /\ job'[m].bad = <<>>
      BY <1>1, <1>3 DEF StartVerify, StartStream, NewJob
    <2>. QED
      BY <2>1 DEF ScanKept
  <1>4. CASE ReadRows(m) \/ ReadVersion(m) \/ LockSystem(m)
    <2>1. apc[m] # "idle" /\ apc'[m] \in {"version", "lock", "append"}
      BY <1>1, <1>4 DEF ReadRows, ReadVersion, LockSystem
    <2>2. job[m] \in Job
      BY <2>1, RunningJob DEF OperatorInv
    <2>3. job'[m].clean = job[m].clean /\ job'[m].bad = job[m].bad
      BY <1>1, <1>4, <2>2 DEF ReadRows, ReadVersion, LockSystem, Job
    <2>4. \A c \in job[m].clean : Listed(c.stream, c.pos)
      BY <2>1 DEF ScanInv, AnchorsListed
    <2>5. tampers = 0 => job[m].bad = <<>>
      BY <2>1 DEF ScanInv, Untampered
    <2>. QED
      BY <1>2, <2>1, <2>3, <2>4, <2>5 DEF ScanKept, Listed
  <1>5. CASE RejectOwnAppend(m)
    <2>1. apc'[m] = "rejected" /\ job' = job /\ apc[m] # "idle"
      BY <1>1, <1>5 DEF RejectOwnAppend, EndJob
    <2>2. \A c \in job[m].clean : Listed(c.stream, c.pos)
      BY <2>1 DEF ScanInv, AnchorsListed
    <2>3. tampers = 0 => job[m].bad = <<>>
      BY <2>1 DEF ScanInv, Untampered
    <2>. QED
      BY <1>2, <2>1, <2>2, <2>3 DEF ScanKept, Listed
  <1>6. CASE StopBroken(m) \/ AppendConflict(m) \/ ReportRejection(m) \/ CrashAdmin(m)
    <2>1. apc'[m] = "idle"
      BY <1>1, <1>6 DEF StopBroken, AppendConflict, ReportRejection, CrashAdmin, EndJob
    <2>. QED
      BY <2>1 DEF ScanKept
  <1>. QED
    BY <1>3, <1>4, <1>5, <1>6 DEF ActorStep, AdminStep

\* The committed state after a commit: the SYSTEM stream is the sound one that was
\* staged, its head names the last event of it, a checkpoint names a committed event.
LEMMA CommitScans ==
    ASSUME System \notin ReleaseTargets, OperatorInv, ScanInv, NEW m \in Admin, CommitJob(m)
    PROVE  /\ HeadTracksLog' /\ StreamsSound' /\ NoFalseAlarm'
           /\ \A s \in Stream, p \in Nat : Listed(s, p) => Listed(s, p)'
           /\ \A s \in Stream : checkpoint'[s] = 0 \/ Listed(s, checkpoint'[s])
  <1>1. /\ IntegrityTypeOK /\ JobsFit /\ BatchesFit /\ System \in Stream
        /\ log \in [Stream -> Seq(Event)] /\ head \in [Stream -> HeadRow]
    BY DEF OperatorInv, IntegrityTypeOK, TypeOK, Stream
  <1>2. /\ apc[m] = "quarantine" /\ job[m].batch \in Seq(Event)
        /\ log' = [log EXCEPT ![System] = Whole(m)]
        /\ \A s \in Stream : head'[s].status = StatusAfter(m, s)
        /\ \A s \in App : head'[s].last = head[s].last /\ head'[s].version = head[s].version
        /\ head'[System].last = job[m].batch[Len(job[m].batch)].pos
        /\ head'[System].version = SessionHead(m).version + Len(job[m].batch)
        /\ \A s \in Stream : \/ checkpoint'[s] = checkpoint[s]
                             \/ \E c \in job[m].clean : c.stream = s /\ checkpoint'[s] = c.pos
    BY <1>1, CommitJobEffect
  <1>3. SessionHead(m) = head[System]
    BY <1>1, <1>2 DEF JobsFit, JobFits, SessionHead
  <1>4. log'[System] = Whole(m) /\ \A s \in App : log'[s] = log[s]
    BY <1>1, <1>2, StreamAssumption DEF Stream
  <1>5. /\ Whole(m) # <<>> /\ Len(Whole(m)) = Len(log[System]) + Len(job[m].batch)
        /\ LastPos(Whole(m)) = job[m].batch[Len(job[m].batch)].pos
    BY <1>2, WholeLast
  <1>6. HeadTracksLog'
    <2>1. /\ head'[System].version = Len(log'[System])
          /\ head'[System].last = IF log'[System] = <<>> THEN 0 ELSE log'[System][Len(log'[System])].pos
      <3>1. head[System].version = Len(log[System])
        BY <1>1 DEF ScanInv, HeadTracksLog
      <3> HIDE DEF Whole
      <3>2. head'[System].version = Len(log'[System])
        BY <1>2, <1>3, <1>4, <1>5, <3>1
      <3>3. head'[System].last = LastPos(log'[System])
        BY <1>2, <1>4, <1>5
      <3>. QED
        BY <3>2, <3>3 DEF LastPos
    <2>2. \A s \in App : /\ head'[s].version = Len(log'[s])
                         /\ head'[s].last = IF log'[s] = <<>> THEN 0 ELSE log'[s][Len(log'[s])].pos
      BY <1>2, <1>4 DEF ScanInv, HeadTracksLog, Stream
    <2>. QED
      BY <2>1, <2>2 DEF HeadTracksLog, Stream
  <1>7. StreamsSound'
    <2>1. Sound(Whole(m))
      BY <1>2 DEF ScanInv, BatchesSound
    <2>2. \A s \in Stream : Sound(log'[s])
      BY <1>4, <2>1 DEF ScanInv, StreamsSound, Stream
    <2>. QED
      BY <2>2 DEF StreamsSound, Sound
  <1>8. NoFalseAlarm'
    <2> SUFFICES ASSUME tampers' = 0 PROVE \A s \in Stream : head'[s].status = "ACTIVE"
      BY DEF NoFalseAlarm
    <2>1. tampers = 0
      BY DEF CommitJob
    <2>2. Quarantining(m) = {} /\ \A s \in Stream : head[s].status = "ACTIVE"
      BY <1>2, <2>1 DEF ScanInv, Untampered, NoFalseAlarm
    <2>. QED
      BY <1>2, <2>2 DEF StatusAfter
  <1>9. \A s \in Stream, p \in Nat : Listed(s, p) => Listed(s, p)'
    <2> TAKE s \in Stream, p \in Nat
    <2> HAVE Listed(s, p)
    <2>1. PICK i \in DOMAIN log[s] : log[s][i].pos = p
      BY DEF Listed
    <2>2. i \in DOMAIN log'[s] /\ log'[s][i] = log[s][i]
      <3>1. /\ DOMAIN log[System] \subseteq DOMAIN Whole(m)
            /\ \A k \in DOMAIN log[System] : Whole(m)[k] = log[System][k]
        BY <1>1, <1>2, WholeElements
      <3>. QED
        BY <1>4, <2>1, <3>1 DEF Stream
    <2>. QED
      BY <2>1, <2>2 DEF Listed
  <1>10. \A s \in Stream : checkpoint'[s] = 0 \/ Listed(s, checkpoint'[s])
    <2>1. /\ \A s \in Stream : checkpoint[s] = 0 \/ Listed(s, checkpoint[s])
          /\ \A c \in job[m].clean : Listed(c.stream, c.pos)
      BY <1>2 DEF ScanInv, AnchorsListed
    <2>. QED
      BY <1>2, <2>1
  <1>. QED
    BY <1>6, <1>7, <1>8, <1>9, <1>10

\* An operator extends sound streams soundly, and judges them as they are.
LEMMA ActorScan ==
    ASSUME ViolationIds, System \notin ReleaseTargets,
           WriteInv, OperatorInv, VersionsContiguous, ScanInv, NEW m \in Admin, ActorStep(m)
    PROVE  ScanInv'
  <1>1. /\ IntegrityTypeOK /\ TypeOK /\ SystemLocked
        /\ checkpoint \in [Stream -> Nat] /\ job \in [Admin -> Job \cup {NoJob}]
        /\ apc \in [Admin -> Phase]
        /\ HeadTracksLog /\ StreamsSound /\ BatchesSound /\ AnchorsListed /\ Untampered /\ NoFalseAlarm
    BY DEF OperatorInv, IntegrityTypeOK, ScanInv
  <1>2. /\ tampered' = tampered /\ tampers' = tampers
        /\ ~CommitJob(m) => UNCHANGED <<log, head, checkpoint>>
    BY <1>1, ActorFrame
  <1>3. PICK j \in Job \cup {NoJob}, at \in Phase : Becomes(m, j, at)
    BY ActorKeeps
  <1>4. \A n \in Admin : n # m => job'[n] = job[n] /\ apc'[n] = apc[n]
    BY <1>1, <1>3 DEF Becomes
  <1>5. /\ HeadTracksLog' /\ StreamsSound' /\ NoFalseAlarm'
        /\ \A s \in Stream, p \in Nat : Listed(s, p) => Listed(s, p)'
        /\ \A s \in Stream : checkpoint'[s] = 0 \/ Listed(s, checkpoint'[s])
    <2>1. CASE CommitJob(m)
      BY <2>1, CommitScans
    <2>2. CASE ~CommitJob(m)
      <3>1. log' = log /\ head' = head /\ checkpoint' = checkpoint
        BY <1>2, <2>2
      <3>2. HeadTracksLog' /\ StreamsSound'
        BY <1>1, <3>1 DEF HeadTracksLog, StreamsSound, Sound
      <3>3. NoFalseAlarm'
        BY <1>1, <1>2, <3>1 DEF NoFalseAlarm
      <3>4. \A s \in Stream, p \in Nat : Listed(s, p) => Listed(s, p)'
        BY <3>1 DEF Listed
      <3>5. \A s \in Stream : checkpoint'[s] = 0 \/ Listed(s, checkpoint'[s])
        BY <1>1, <3>1 DEF AnchorsListed
      <3>. QED
        BY <3>2, <3>3, <3>4, <3>5
    <2>. QED
      BY <2>1, <2>2
  <1>6. ScanKept(m)'
    <2>1. CASE Scan(m)
      BY <2>1, ScanScans
    <2>2. CASE AppendFirst(m)
      BY <2>2, AppendFirstScans
    <2>3. CASE Quarantine(m)
      BY <2>3, QuarantineScans
    <2>4. CASE CommitJob(m)
      <3>1. apc'[m] = "idle"
        BY <1>1, <2>4 DEF CommitJob, EndJob
      <3>. QED
        BY <3>1 DEF ScanKept
    <2>5. CASE ~(Scan(m) \/ AppendFirst(m) \/ Quarantine(m) \/ CommitJob(m))
      BY <2>5, OtherScans
    <2>. QED
      BY <2>1, <2>2, <2>3, <2>4, <2>5
  <1>7. ASSUME NEW n \in Admin PROVE ScanKept(n)'
    <2>1. CASE n = m
      BY <1>6, <2>1
    <2>2. CASE n # m
      <3>1. job'[n] = job[n] /\ apc'[n] = apc[n]
        BY <1>4, <2>2
      <3>2. ASSUME apc[n] = "quarantine" PROVE Sound(Whole(n))'
        <4>1. ~CommitJob(m)
          BY <1>1, <2>2, <3>2 DEF SystemLocked, CommitJob
        <4>2. Whole(n)' = Whole(n)
          BY <1>2, <3>1, <4>1 DEF Whole
        <4>3. Sound(Whole(n))
          BY <1>1, <3>2 DEF BatchesSound
        <4>. QED
          BY <4>2, <4>3 DEF Sound
      <3>3. ASSUME apc[n] # "idle", NEW c \in job[n].clean PROVE Listed(c.stream, c.pos)'
        <4>1. job[n].clean \in SUBSET Finding
          BY <1>1, <3>3, RunningJob
        <4>2. c.stream \in Stream /\ c.pos \in Nat /\ Listed(c.stream, c.pos)
          BY <1>1, <3>3, <4>1 DEF AnchorsListed, Finding
        <4>. QED
          BY <1>5, <4>2 DEF Listed
      <3>4. Quarantining(n)' = Quarantining(n)
        BY <3>1 DEF Quarantining
      <3>5. tampers = 0 /\ apc[n] # "idle" => job[n].bad = <<>>
        BY <1>1 DEF Untampered
      <3>6. tampers = 0 /\ apc[n] = "quarantine" => Quarantining(n) = {}
        BY <1>1 DEF Untampered
      <3>. QED
        BY <1>2, <3>1, <3>2, <3>3, <3>4, <3>5, <3>6 DEF ScanKept
    <2>. QED
      BY <2>1, <2>2
  <1>8. BatchesSound'
    BY <1>7 DEF BatchesSound, ScanKept
  <1>9. AnchorsListed'
    <2>1. checkpoint' \in [Stream -> Nat]
      BY ActorTypes DEF IntegrityTypeOK
    <2>2. \A s \in Stream : checkpoint'[s] = 0 \/ Listed(s, checkpoint[s])'
      BY <1>5, <2>1 DEF Listed
    <2>3. \A n \in Admin : apc'[n] # "idle" => \A c \in job'[n].clean : Listed(c.stream, c.pos)'
      BY <1>7 DEF ScanKept
    <2>. QED
      BY <2>2, <2>3 DEF AnchorsListed
  <1>10. Untampered'
    BY <1>1, <1>2, <1>7 DEF Untampered, ScanKept
  <1>. QED
    BY <1>5, <1>8, <1>9, <1>10 DEF ScanInv

\* Streams stay sound, and scans right, when no operator releases the SYSTEM stream.
THEOREM ScansAreInvariant ==
    ASSUME ViolationIds, System \notin ReleaseTargets
    PROVE  IntegritySpec => []ScanInv
  <1>1. IntegrityInit => ScanInv
    <2> SUFFICES ASSUME IntegrityInit PROVE ScanInv
      OBVIOUS
    <2>1. HeadTracksLog
      BY InitChain DEF IntegrityInit, ChainInv
    <2>2. /\ \A s \in Stream : log[s] = <<>> /\ head[s].status = "ACTIVE" /\ checkpoint[s] = 0
          /\ \A m \in Admin : apc[m] = "idle"
          /\ tampered = {}
      BY DEF IntegrityInit, Init, NoHead
    <2>3. StreamsSound /\ BatchesSound
      BY <2>2 DEF StreamsSound, BatchesSound, Sound
    <2>4. AnchorsListed /\ Untampered /\ NoFalseAlarm
      BY <2>2 DEF AnchorsListed, Untampered, NoFalseAlarm
    <2>. QED
      BY <2>1, <2>3, <2>4 DEF ScanInv
  <1>2. RecordInv /\ ScanInv /\ [IntegrityNext]_allVars => ScanInv'
    <2> SUFFICES ASSUME RecordInv, ScanInv, [IntegrityNext]_allVars PROVE ScanInv'
      OBVIOUS
    <2>1. WriteInv /\ OperatorInv /\ VersionsContiguous
      BY DEF RecordInv
    <2>2. CASE WorkerNext /\ UNCHANGED integrityVars
      BY <2>1, <2>2, WorkerScan
    <2>3. CASE Environment \/ UNCHANGED allVars
      BY <2>1, <2>3, EnvironmentScan
    <2>4. ASSUME NEW m \in Admin, ActorStep(m) PROVE ScanInv'
      BY <2>1, <2>4, ActorScan
    <2>. QED
      BY <2>2, <2>3, <2>4 DEF IntegrityNext, AdminNext, ActorStep, AllQuiescent
  <1>3. IntegritySpec => []RecordInv
    BY RecordsAreInvariant
  <1>. QED
    BY <1>1, <1>2, <1>3, PTL DEF IntegritySpec

\* The chain of every stream, the SYSTEM stream included, verifies in position order
\* while operators verify, quarantine and release: the SYSTEM lock keeps their events,
\* staged under it, on the head that is still the last.
THEOREM ChainNeverForksBesideOperators ==
    ASSUME ViolationIds, System \notin ReleaseTargets
    PROVE  IntegritySpec => []ChainIntact
  <1>1. ScanInv => ChainIntact
    BY StreamsChained DEF ScanInv
  <1>. QED
    BY <1>1, ScansAreInvariant, PTL

\* Where nothing was corrupted nothing is ever quarantined, whichever checkpoint an
\* incremental verification starts from and whatever commits during it.
THEOREM VerificationNeverCriesWolf ==
    ASSUME ViolationIds, System \notin ReleaseTargets
    PROVE  IntegritySpec => []NoFalseAlarm
  BY ScansAreInvariant, PTL DEF ScanInv

(***************************************************************************)
(* The observation projection: its tasks beside the workers.  As with the  *)
(* jobs, a step of operator m changes no task but its own.                 *)
(***************************************************************************)
Positions == {e.pos : e \in Committed}

\* From the shadow to its commit a rebuild holds the rows of a whole replay.
Replaying == {"shadow", "built", "delete", "filled", "lock", "append", "commit"}

\* Who gets where: a rebuild starts at zero, only a resume applies, and none that an
\* unknown event has stopped promotes, fills or appends.
Suits(j, at) ==
    /\ at = "events" /\ j.op = "rebuild" => j.last = 0
    /\ at \in {"apply", "update"} => j.op = "resume"
    /\ at \in {"delete", "lock", "append", "commit"} => j.op = "rebuild" /\ ~j.stop
    /\ at = "filled" => ~j.stop

\* The event a task has flushed continues the SYSTEM stream, at a position of its own.
EventFits(m) ==
    /\ task[m].event \in Event /\ task[m].event.agg = Projector
    /\ task[m].event.ver = Latest(log[System], Projector) + 1
    /\ task[m].event.prev = head[System].last /\ task[m].event.prev < task[m].event.pos
    /\ task[m].event.pos <= sequence /\ task[m].event.pos \notin Positions
    /\ \A w \in Worker : pc[w] = "commit" => staged[w].pos # task[m].event.pos

\* What a task read has been committed, and a rebuild that was not stopped has the rows
\* of all the observations it read; it appends under the SYSTEM lock.
TaskFits(m) ==
    /\ task[m].rows \subseteq Observations /\ task[m].read \subseteq Positions
    /\ Suits(task[m], tpc[m])
    /\ tpc[m] \in Replaying /\ task[m].op = "rebuild" /\ ~task[m].stop =>
          task[m].rows = Observations \cap task[m].read
    /\ tpc[m] \in {"append", "commit"} => lock[System] = m
    /\ tpc[m] = "commit" => EventFits(m)

TasksFit == \A m \in Admin : tpc[m] # "idle" => TaskFits(m)

\* What workers have staged is of their kind of command, at positions of their own.
StagedNew ==
    \A w \in Worker : pc[w] = "commit" =>
        /\ staged[w].kind = req[w].action /\ staged[w].pos \notin Positions
        /\ \A v \in Worker : v # w /\ pc[v] = "commit" => staged[v].pos # staged[w].pos

ProjectionInv ==
    /\ ChainInv /\ VersionsContiguous /\ PositionsUsed /\ ProjectionTypeOK
    /\ StagedNew /\ TasksFit /\ RowsHaveEvents

\* The ledger has grown by events at the positions `new`.
Grows(new) ==
    /\ Positions' = Positions \cup new /\ new \cap Positions = {}
    /\ Observations \subseteq Observations' /\ Observations' \subseteq Observations \cup new

-----------------------------------------------------------------------------
\* Committed positions are positions handed out.
LEMMA PositionsBounded ==
    ASSUME TypeOK, PositionsUsed
    PROVE  /\ Observations \subseteq Positions /\ Positions \subseteq 1..sequence
           /\ \A e \in Committed : e \in Event
  <1>1. \A s \in Stream : log[s] \in Seq(Event) /\ \A i \in DOMAIN log[s] : log[s][i] \in Event
    BY EventSeq DEF TypeOK
  <1>2. \A e \in Committed : e \in Event /\ e.pos \in 1..sequence
    BY <1>1 DEF Committed, ToSet, PositionsUsed
  <1>. QED
    BY <1>2 DEF Positions, Observations

\* What is committed after one event more.
LEMMA CommittedAfter ==
    ASSUME TypeOK, NEW s \in Stream, NEW e \in Event, log' = [log EXCEPT ![s] = Append(log[s], e)]
    PROVE  Committed' = Committed \cup {e}
  <1>1. log[s] \in Seq(Event) /\ \A t \in Stream : log'[t] = IF t = s THEN Append(log[s], e) ELSE log[t]
    BY DEF TypeOK
  <1>2. ToSet(Append(log[s], e)) = ToSet(log[s]) \cup {e}
    <2> DEFINE L == log[s]
               M == Append(L, e)
    <2>1. /\ DOMAIN L = 1..Len(L) /\ DOMAIN M = 1..(Len(L) + 1) /\ Len(L) \in Nat
          /\ M[Len(L) + 1] = e /\ \A i \in 1..Len(L) : M[i] = L[i]
      BY <1>1, AppendProperties, LenProperties
    <2> HIDE DEF L, M
    <2>2. ToSet(M) = ToSet(L) \cup {e}
      BY <2>1 DEF ToSet
    <2>. QED
      BY <2>2 DEF L, M
  <1>. QED
    BY <1>1, <1>2 DEF Committed

\* An event at a new position makes the ledger grow by that position.
LEMMA GrowsByEvent ==
    ASSUME NEW e, Committed' = Committed \cup {e}, e.pos \notin Positions
    PROVE  Grows({e.pos}) /\ (e.kind = Submit => e.pos \in Observations')
  BY DEF Grows, Positions, Observations

\* A ledger that stays has grown by nothing.
LEMMA GrowsNot ==
    ASSUME log' = log
    PROVE  Grows({}) /\ Observations' = Observations /\ Positions' = Positions
  BY DEF Grows, Positions, Observations, Committed

\* The tasks of the operators that do not act.
LEMMA OtherTasks ==
    ASSUME NEW n \in Admin, TaskFits(n), task'[n] = task[n], tpc'[n] = tpc[n],
           NEW new, Grows(new),
           tpc[n] \in {"append", "commit"} => lock'[System] = n,
           tpc[n] = "commit" => EventFits(n)'
    PROVE  TaskFits(n)'
  <1>1. task[n].rows \subseteq Observations' /\ task[n].read \subseteq Positions'
    BY DEF TaskFits, Grows
  <1>2. Observations' \cap task[n].read = Observations \cap task[n].read
    BY DEF TaskFits, Grows
  <1>. QED
    BY <1>1, <1>2 DEF TaskFits

-----------------------------------------------------------------------------
\* What is staged after a step of a worker was staged before, or is new in every respect.
LEMMA WorkerStaged ==
    ASSUME TypeOK, LockHeld, WorkerNext, NEW w \in Worker, pc'[w] = "commit"
    PROVE  \/ pc[w] = "commit" /\ staged'[w] = staged[w] /\ req'[w] = req[w]
           \/ /\ AppendEvent(w) /\ staged'[w].pos = sequence + 1 /\ staged'[w].kind = req'[w].action
              /\ \A v \in Worker : v # w => pc'[v] = pc[v] /\ staged'[v] = staged[v]
  <1>1. /\ pc \in [Worker -> {"idle", "find", "resolve", "lock", "append", "commit", "reply"}]
        /\ staged \in [Worker -> Event \cup {NoEvent}] /\ req \in [Worker -> Request \cup {NoRequest}]
    BY DEF TypeOK
  <1>2. PICK u \in Worker : (\E r \in Request : Receive(u, r)) \/ WorkerStep(u) \/ Crash(u)
    BY DEF WorkerNext
  <1>3. CASE u # w
    <2>1. pc'[w] = pc[w] /\ staged'[w] = staged[w] /\ req'[w] = req[w]
      BY <1>1, <1>2, <1>3 DEF WorkerStep, Receive, FindNothing, FindExisting, Finish,
         ResolveNothing, LockHead, RejectQuarantined, AppendEvent, LoseRace, Commit, Reply, Crash
    <2>. QED
      BY <2>1
  <1>4. CASE u = w
    <2>1. AppendEvent(w)
      BY <1>1, <1>2, <1>4 DEF WorkerStep, Receive, FindNothing, FindExisting, Finish,
         ResolveNothing, LockHead, RejectQuarantined, LoseRace, Commit, Reply, Crash
    <2>. QED
      BY <1>1, <2>1 DEF AppendEvent
  <1>. QED
    BY <1>3, <1>4

\* What tasks see of a step of a worker.
LEMMA WorkerGrows ==
    ASSUME ProjectionInv, WorkerNext
    PROVE  \E new : /\ Grows(new) /\ projected' \subseteq Observations'
                    /\ \A w \in Worker : pc'[w] = "commit" => staged'[w].pos \notin Positions'
                    /\ \A n \in Admin : tpc[n] = "commit" => task[n].event.pos \notin Positions'
  <1>1. /\ WriteInv /\ TypeOK /\ PositionsUsed /\ StagedNew /\ TasksFit /\ RowsHaveEvents
        /\ sequence \in Nat /\ Positions \subseteq 1..sequence
    BY PositionsBounded DEF ProjectionInv, ChainInv, WriteInv, TypeOK
  <1>2. \A n \in Admin : tpc[n] = "commit" =>
           /\ task[n].event.pos \notin Positions
           /\ \A w \in Worker : pc[w] = "commit" => staged[w].pos # task[n].event.pos
    BY <1>1 DEF TasksFit, TaskFits, EventFits
  <1>3. CASE \E w \in Worker : Commit(w)
    <2> PICK w \in Worker : Commit(w)
      BY <1>3
    <2> DEFINE e == staged[w]
    <2>1. /\ req[w].app \in Stream /\ e \in Event /\ log' = [log EXCEPT ![req[w].app] = Append(log[req[w].app], e)]
          /\ UNCHANGED <<sequence, req, staged>> /\ pc' = [pc EXCEPT ![w] = "reply"]
      BY <1>1, CommitEffect
    <2>2. /\ pc[w] = "commit" /\ e.kind = req[w].action /\ e.pos \notin Positions
          /\ \A v \in Worker : v # w /\ pc[v] = "commit" => staged[v].pos # e.pos
      BY <1>1 DEF Commit, StagedNew
    <2>3. Committed' = Committed \cup {e}
      BY <1>1, <2>1, CommittedAfter
    <2>4. Grows({e.pos}) /\ (e.kind = Submit => e.pos \in Observations')
      BY <2>2, <2>3, GrowsByEvent
    <2>5. projected' \subseteq Observations'
      BY <1>1, <2>2, <2>4 DEF Commit, Grows, RowsHaveEvents
    <2>6. \A v \in Worker : pc'[v] = "commit" => v # w /\ pc[v] = "commit" /\ staged'[v] = staged[v]
      BY <1>1, <2>1 DEF TypeOK
    <2>. QED
      BY <1>1, <1>2, <2>2, <2>4, <2>5, <2>6 DEF Grows, StagedNew
  <1>4. CASE ~\E w \in Worker : Commit(w)
    <2>1. log' = log
      BY <1>1, <1>4, OnlyCommitWrites DEF Next
    <2>2. Grows({}) /\ Observations' = Observations /\ Positions' = Positions
      BY <2>1, GrowsNot
    <2>3. projected' = projected
      BY <1>4 DEF WorkerNext, WorkerStep, Receive, FindNothing, FindExisting,
         ResolveNothing, LockHead, RejectQuarantined, AppendEvent, LoseRace, Reply, Crash,
         ledgerVars
    <2>4. \A w \in Worker : pc'[w] = "commit" => staged'[w].pos \notin Positions
      <3> SUFFICES ASSUME NEW w \in Worker, pc'[w] = "commit" PROVE staged'[w].pos \notin Positions
        OBVIOUS
      <3>1. (pc[w] = "commit" /\ staged'[w] = staged[w]) \/ staged'[w].pos = sequence + 1
        BY <1>1, WorkerStaged DEF WriteInv
      <3>. QED
        BY <1>1, <3>1 DEF StagedNew
    <2>. QED
      BY <1>1, <1>2, <2>2, <2>3, <2>4 DEF RowsHaveEvents
  <1>. QED
    BY <1>3, <1>4

\* Workers go on staging at positions of their own.
LEMMA WorkerStagesNew ==
    ASSUME ProjectionInv, WorkerNext
    PROVE  /\ StagedNew'
           /\ \A n \in Admin, w \in Worker :
                 tpc[n] = "commit" /\ pc'[w] = "commit" => staged'[w].pos # task[n].event.pos
  <1>1. /\ TypeOK /\ LockHeld /\ StagedNew /\ TasksFit /\ StagedFits /\ sequence \in Nat
        /\ \A w \in Worker : pc'[w] = "commit" => staged'[w].pos \notin Positions'
    BY WorkerGrows DEF ProjectionInv, ChainInv, WriteInv, TypeOK
  <1>2. ASSUME NEW w \in Worker, pc'[w] = "commit"
        PROVE  \/ pc[w] = "commit" /\ staged'[w] = staged[w] /\ req'[w] = req[w]
               \/ /\ staged'[w].pos = sequence + 1 /\ staged'[w].kind = req'[w].action
                  /\ \A v \in Worker : v # w => pc'[v] = pc[v] /\ staged'[v] = staged[v]
    BY <1>1, <1>2, WorkerStaged
  <1>3. /\ \A w \in Worker : pc[w] = "commit" => staged[w].pos <= sequence
        /\ \A n \in Admin : tpc[n] = "commit" =>
              /\ task[n].event.pos <= sequence
              /\ \A w \in Worker : pc[w] = "commit" => staged[w].pos # task[n].event.pos
    BY <1>1 DEF StagedFits, TasksFit, TaskFits, EventFits
  <1>4. \A w \in Worker : pc'[w] = "commit" => staged'[w].kind = req'[w].action
    BY <1>1, <1>2 DEF StagedNew
  <1>5. ASSUME NEW w \in Worker, NEW v \in Worker, v # w, pc'[w] = "commit", pc'[v] = "commit"
        PROVE  staged'[v].pos # staged'[w].pos
    <2>1. CASE staged'[w].pos = sequence + 1 /\ pc'[v] = pc[v] /\ staged'[v] = staged[v]
      BY <1>1, <1>3, <1>5, <2>1
    <2>2. CASE staged'[v].pos = sequence + 1 /\ pc'[w] = pc[w] /\ staged'[w] = staged[w]
      BY <1>1, <1>3, <1>5, <2>2
    <2>3. CASE pc[w] = "commit" /\ staged'[w] = staged[w] /\ pc[v] = "commit" /\ staged'[v] = staged[v]
      BY <1>1, <1>5, <2>3 DEF StagedNew
    <2>. QED
      BY <1>2, <1>5, <2>1, <2>2, <2>3
  <1>6. ASSUME NEW n \in Admin, NEW w \in Worker, tpc[n] = "commit", pc'[w] = "commit"
        PROVE  staged'[w].pos # task[n].event.pos
    <2>1. CASE staged'[w].pos = sequence + 1
      BY <1>1, <1>3, <1>6, <2>1
    <2>2. CASE pc[w] = "commit" /\ staged'[w] = staged[w]
      BY <1>3, <1>6, <2>2
    <2>. QED
      BY <1>2, <1>6, <2>1, <2>2
  <1>. QED
    BY <1>1, <1>4, <1>5, <1>6 DEF StagedNew

\* A step of a worker keeps the invariant.
LEMMA WorkerKeepsProjection ==
    ASSUME ProjectionInv, WorkerNext, BesideTasks
    PROVE  ProjectionInv'
  <1>1. /\ ChainInv /\ WriteInv /\ PositionsUsed /\ ProjectionTypeOK /\ TasksFit /\ VersionsContiguous
        /\ mark' = mark /\ tasks' = tasks /\ tpc' = tpc /\ task' = task /\ todo' = todo
    BY DEF ProjectionInv, ChainInv, BesideTasks, taskVars
  <1>2. ChainInv'
    BY <1>1, NextWrites, NextChain DEF ChainInv, Next
  <1>3. /\ log'[System] = log[System] /\ head'[System] = head[System]
        /\ \A m \in Admin : lock[System] = m => lock'[System] = m
        /\ sequence \in Nat /\ sequence' \in Nat /\ sequence <= sequence'
    BY <1>1, WorkerFrame DEF WriteInv, TypeOK
  <1>4. VersionsContiguous'
    BY <1>1, <1>3 DEF VersionsContiguous
  <1>5. PositionsUsed'
    BY <1>1, WorkerPositions
  <1>6. ProjectionTypeOK'
    <2>1. projected \subseteq projected'
      BY DEF WorkerNext, WorkerStep, Receive, FindNothing, FindExisting, Finish,
         ResolveNothing, LockHead, RejectQuarantined, AppendEvent, LoseRace, Commit, Reply, Crash,
         ledgerVars
    <2>2. undated' \subseteq projected'
      BY <1>1, <2>1 DEF BesideTasks, ProjectionTypeOK
    <2>. QED
      BY <1>1, <1>2, <2>2 DEF ProjectionTypeOK, ChainInv, WriteInv
  <1>7. PICK new : /\ Grows(new) /\ projected' \subseteq Observations'
                   /\ \A n \in Admin : tpc[n] = "commit" => task[n].event.pos \notin Positions'
    BY WorkerGrows
  <1>8. StagedNew' /\ \A n \in Admin, w \in Worker :
                        tpc[n] = "commit" /\ pc'[w] = "commit" => staged'[w].pos # task[n].event.pos
    BY WorkerStagesNew
  <1>9. ASSUME NEW n \in Admin, tpc[n] # "idle" PROVE TaskFits(n)'
    <2>1. TaskFits(n)
      BY <1>1, <1>9 DEF TasksFit
    <2>2. ASSUME tpc[n] = "commit" PROVE EventFits(n)'
      <3>1. task[n].event.pos \in Nat
        BY <2>1, <2>2 DEF TaskFits, EventFits, Event
      <3>. QED
        BY <1>1, <1>3, <1>7, <1>8, <2>1, <2>2, <3>1 DEF TaskFits, EventFits
    <2>3. tpc[n] \in {"append", "commit"} => lock'[System] = n
      BY <1>3, <2>1 DEF TaskFits
    <2>. QED
      BY <1>1, <1>7, <2>1, <2>2, <2>3, OtherTasks
  <1>. QED
    BY <1>1, <1>2, <1>4, <1>5, <1>6, <1>7, <1>8, <1>9 DEF ProjectionInv, TasksFit, RowsHaveEvents

-----------------------------------------------------------------------------
\* All that operator m does for the projection.
TaskActs(m) == (\E op \in TaskOp : Start(m, op)) \/ TaskStep(m) \/ CrashTask(m)

\* m replaces its task and its control by j and at.
TaskBecomes(m, j, at) == task' = [task EXCEPT ![m] = j] /\ tpc' = [tpc EXCEPT ![m] = at]

\* What others see of a task: workers keep what is theirs, positions are used, and a
\* lock moves only from or to its operator; the ledger changes at the commit of a rebuild,
\* the live rows there and when a resume or a stopped rebuild ends.
LEMMA TaskFrame ==
    ASSUME TypeOK, NEW m \in Admin, TaskActs(m)
    PROVE  /\ UNCHANGED <<idem, pc, req, staged, issued, answers>>
           /\ sequence' \in Nat /\ sequence <= sequence'
           /\ lock' \in [Stream -> Session \cup {NoSession}]
           /\ \A s \in Stream : lock'[s] = lock[s] \/ lock[s] = NoSession \/ lock[s] = m
           /\ ~CommitRebuild(m) => UNCHANGED <<log, head, audits>>
           /\ ~CommitRebuild(m) /\ ~CommitRows(m) => UNCHANGED <<projected, mark>>
           /\ tasks' = tasks \/ (tasks < MaxTasks /\ tasks' = tasks + 1)
  <1>1. sequence \in Nat /\ lock \in [Stream -> Session \cup {NoSession}] /\ Admin \subseteq Session
        /\ System \in Stream
    BY AdminAssumption DEF TypeOK, Stream
  <1>2. UNCHANGED <<idem, pc, req, staged, issued, answers>>
    BY DEF TaskActs, TaskStep, Start, ReadEvents, BuildShadow, Report,
       StopRebuild, Promote, LookUp, Flush, LockRow, Fill, LoseRow, ReadMark, LockForEvent, AppendStale,
       AppendRebuilt, CommitRebuild, FlushConflict, CommitRows, BreakDeadlock, CrashTask, ledgerButLock, workerVars, vars
  <1>3. sequence' \in {sequence, sequence + 1}
    BY DEF TaskActs, TaskStep, Start, ReadEvents, BuildShadow, Report,
       StopRebuild, Promote, LookUp, Flush, LockRow, Fill, LoseRow, ReadMark, LockForEvent, AppendStale,
       AppendRebuilt, CommitRebuild, FlushConflict, CommitRows, BreakDeadlock, CrashTask, ledgerButLock, vars
  <1>4. \/ lock' = lock \/ lock' = Released(m)
        \/ lock[System] = NoSession /\ lock' = [lock EXCEPT ![System] = m]
    BY DEF TaskActs, TaskStep, Start, ReadEvents, BuildShadow, Report,
       StopRebuild, Promote, LookUp, Flush, LockRow, Fill, LoseRow, ReadMark, LockForEvent, AppendStale,
       AppendRebuilt, CommitRebuild, FlushConflict, CommitRows, BreakDeadlock, CrashTask, vars
  <1>5. /\ lock' \in [Stream -> Session \cup {NoSession}]
        /\ \A s \in Stream : lock'[s] = lock[s] \/ lock[s] = NoSession \/ lock[s] = m
    BY <1>1, <1>4 DEF Released
  <1>6. ~CommitRebuild(m) => UNCHANGED <<log, head, audits>>
    BY DEF TaskActs, TaskStep, Start, ReadEvents, BuildShadow, Report,
       StopRebuild, Promote, LookUp, Flush, LockRow, Fill, LoseRow, ReadMark, LockForEvent, AppendStale,
       AppendRebuilt, FlushConflict, CommitRows, BreakDeadlock, CrashTask, ledgerButLock, vars
  <1>7. ~CommitRebuild(m) /\ ~CommitRows(m) => UNCHANGED <<projected, mark>>
    BY DEF TaskActs, TaskStep, Start, ReadEvents, BuildShadow, Report,
       StopRebuild, Promote, LookUp, Flush, LockRow, Fill, LoseRow, ReadMark, LockForEvent, AppendStale,
       AppendRebuilt, FlushConflict, BreakDeadlock, CrashTask, ledgerButLock, vars
  <1>8. tasks' = tasks \/ (tasks < MaxTasks /\ tasks' = tasks + 1)
    BY DEF TaskActs, TaskStep, Start, ReadEvents, BuildShadow, Report,
       StopRebuild, Promote, LookUp, Flush, LockRow, Fill, LoseRow, ReadMark, LockForEvent, AppendStale,
       AppendRebuilt, CommitRebuild, FlushConflict, CommitRows, BreakDeadlock, CrashTask
  <1>. QED
    BY <1>1, <1>2, <1>3, <1>5, <1>6, <1>7, <1>8

\* A replay: what it has read are positions, its rows are observations, and they are all
\* the observations read when nothing stopped it and it started at zero.
LEMMA ReplayEffect ==
    ASSUME TypeOK, PositionsUsed, NEW j \in Task, NEW start \in Nat
    PROVE  LET k == Replay(j, start) IN
           /\ k \in Task /\ k.op = j.op
           /\ k.read \subseteq Positions /\ k.rows \subseteq Observations
           /\ start = 0 /\ ~k.stop => k.rows = Observations \cap k.read
  <1>1. PICK events : events = {e \in Committed : e.pos > start}
    OBVIOUS
  <1>2. PICK stops : stops = {e.pos : e \in Unknown(events)}
    OBVIOUS
  <1>3. PICK applied : applied = {e \in events : \A p \in stops : e.pos < p}
    OBVIOUS
  <1>4. PICK last : last = Max({start} \cup {e.pos : e \in applied})
    OBVIOUS
  <1>5. PICK k : k = Replay(j, start)
    OBVIOUS
  <1>6. k = [j EXCEPT !.read = {e.pos : e \in events},
                      !.rows = {e.pos : e \in {x \in applied : x.kind = Submit}},
                      !.last = last, !.stop = stops # {}]
    BY <1>1, <1>2, <1>3, <1>4, <1>5, Zenon DEF Replay
  <1>7. Positions \subseteq 1..sequence /\ sequence \in Nat /\ \A e \in Committed : e.pos \in 1..sequence
    BY PositionsBounded DEF TypeOK, Positions
  <1>8. last \in Nat
    <2> DEFINE S == {start} \cup {e.pos : e \in applied}
    <2>1. S \subseteq Nat /\ S # {} /\ \A x \in S : x <= start + sequence
      BY <1>1, <1>3, <1>7
    <2> HIDE DEF S
    <2>2. start + sequence \in Nat
      BY <1>7
    <2>3. Max(S) \in S
      BY <2>1, <2>2, MaxIsGreatest
    <2>. QED
      BY <1>4, <2>1, <2>3 DEF S
  <1>9. /\ {e.pos : e \in events} \subseteq Positions /\ Positions \subseteq Nat
        /\ {e.pos : e \in {x \in applied : x.kind = Submit}} \subseteq Observations
        /\ Observations \subseteq Nat
    BY <1>1, <1>3, <1>7, PositionsBounded DEF Positions, Observations
  <1>10. /\ k \in Task /\ k.op = j.op /\ k.read = {e.pos : e \in events} /\ k.stop = (stops # {})
         /\ k.rows = {e.pos : e \in {x \in applied : x.kind = Submit}}
    <2> DEFINE R == {e.pos : e \in events}
               Q == {e.pos : e \in {x \in applied : x.kind = Submit}}
    <2>1. R \in SUBSET Nat /\ Q \in SUBSET Nat
      BY <1>9
    <2> HIDE DEF R, Q
    <2>2. k = [j EXCEPT !.read = R, !.rows = Q, !.last = last, !.stop = stops # {}]
      BY <1>6 DEF R, Q
    <2>3. k.op = j.op /\ k.read = R /\ k.rows = Q
      BY <2>2 DEF Task
    <2>4. k.stop = (stops # {})
      BY <2>2, Zenon DEF Task
    <2>5. (stops # {}) \in BOOLEAN
      OBVIOUS
    <2>6. k \in Task
      BY <1>8, <2>1, <2>2, <2>5 DEF Task
    <2>. QED
      BY <2>3, <2>4, <2>6 DEF R, Q
  <1>11. ASSUME start = 0, ~k.stop PROVE k.rows = Observations \cap k.read
    <2>1. stops = {}
      BY <1>10, <1>11, Zenon
    <2>2. \A e \in Committed : e.pos > start
      BY <1>7, <1>11
    <2>3. applied = events /\ events = Committed
      BY <1>1, <1>3, <2>1, <2>2
    <2>. QED
      BY <1>10, <2>3 DEF Observations
  <1>. QED
    BY <1>5, <1>9, <1>10, <1>11

\* Rows of a replay are positions.
LEMMA ReplayRows ==
    ASSUME TypeOK, PositionsUsed, NEW j \in Task, NEW start \in Nat
    PROVE  Replay(j, start).rows \subseteq Nat
  BY ReplayEffect DEF Task

-----------------------------------------------------------------------------
\* The actor ends idle without a task, or goes on with a task that fits.
TaskOutcome(m) ==
    \E j \in Task \cup {NoTask}, at \in TaskPhase :
        /\ TaskBecomes(m, j, at) /\ (at = "idle" <=> j = NoTask)
        /\ at # "idle" => TaskFits(m)'

\* A session that runs a task is not idle.
LEMMA TaskIsNotIdle == NoTask \notin Task
  <1>1. "none" \notin TaskOp
    BY DEF TaskOp
  <1>. QED
    BY <1>1 DEF NoTask, Task

\* Ending.
LEMMA TaskEnds ==
    ASSUME NEW m \in Admin, End(m)
    PROVE  TaskOutcome(m)
  BY DEF TaskOutcome, TaskBecomes, End, TaskPhase

\* Going on: what the new record has to be.
LEMMA TaskGoesOn ==
    ASSUME ProjectionTypeOK, NEW m \in Admin, NEW j \in Task, NEW at \in TaskPhase, at # "idle",
           TaskBecomes(m, j, at), log' = log,
           j.rows \subseteq Observations, j.read \subseteq Positions,
           Suits(j, at),
           at \in Replaying /\ j.op = "rebuild" /\ ~j.stop => j.rows = Observations \cap j.read,
           at \in {"append", "commit"} => lock'[System] = m,
           at = "commit" => EventFits(m)'
    PROVE  TaskOutcome(m)
  <1>1. task'[m] = j /\ tpc'[m] = at /\ j # NoTask
    BY TaskIsNotIdle DEF ProjectionTypeOK, TaskBecomes
  <1>2. Observations' = Observations /\ Positions' = Positions
    BY GrowsNot
  <1>3. TaskFits(m)'
    BY <1>1, <1>2 DEF TaskFits
  <1>. QED
    BY <1>1, <1>3 DEF TaskOutcome

\* A record of which the rows, the reads, the operation and the stop stay.
LEMMA TaskGoesOnWith ==
    ASSUME ProjectionTypeOK, NEW m \in Admin, TaskFits(m), NEW j \in Task,
           NEW at \in TaskPhase, at # "idle", TaskBecomes(m, j, at), log' = log,
           j.rows = task[m].rows, j.read = task[m].read, j.op = task[m].op, j.stop = task[m].stop,
           Suits(j, at),
           at \in Replaying /\ j.op = "rebuild" => tpc[m] \in Replaying,
           at \in {"append", "commit"} => lock'[System] = m,
           at = "commit" => EventFits(m)'
    PROVE  TaskOutcome(m)
  <1>1. /\ j.rows \subseteq Observations /\ j.read \subseteq Positions
        /\ at \in Replaying /\ j.op = "rebuild" /\ ~j.stop => j.rows = Observations \cap j.read
    BY DEF TaskFits
  <1>. QED
    BY <1>1, TaskGoesOn

\* Starting, and reading.
LEMMA ReadingFits ==
    ASSUME ProjectionInv, NEW m \in Admin,
           (\E op \in TaskOp : Start(m, op)) \/ ReadEvents(m)
    PROVE  TaskOutcome(m)
  <1>1. /\ ProjectionTypeOK /\ TypeOK /\ PositionsUsed /\ mark.pos \in Nat
        /\ task \in [Admin -> Task \cup {NoTask}] /\ tpc \in [Admin -> TaskPhase]
        /\ tpc[m] # "idle" => task[m] \in Task /\ TaskFits(m)
    BY DEF ProjectionInv, ProjectionTypeOK, TasksFit, Mark
  <1>2. log' = log
    BY DEF Start, ReadEvents, vars
  <1>3. ASSUME NEW op \in TaskOp, Start(m, op) PROVE TaskOutcome(m)
    <2>1. PICK start \in Nat : /\ start = IF op = "resume" THEN mark.pos ELSE 0
                               /\ op = "rebuild" => start = 0
      BY <1>1
    <2>2. PICK j : j = NewTask(op, start)
      OBVIOUS
    <2>3. j \in Task /\ j.rows = {} /\ j.read = {} /\ j.op = op /\ j.last = start
      BY <2>2 DEF NewTask, Task, NoMark, Mark
    <2>4. /\ "events" \in TaskPhase /\ "events" # "idle" /\ "events" \notin Replaying
          /\ "events" \notin {"append", "commit"}
      BY DEF TaskPhase, Replaying
    <2>5. TaskBecomes(m, j, "events")
      BY <1>3, <2>1, <2>2 DEF Start, TaskBecomes, Goto
    <2>6. Suits(j, "events")
      BY <2>1, <2>3 DEF Suits
    <2>. QED
      BY <1>1, <1>2, <2>3, <2>4, <2>5, <2>6, TaskGoesOn
  <1>4. CASE ReadEvents(m)
    <2>1. task[m] \in Task /\ TaskFits(m) /\ task[m].last \in Nat
      BY <1>1, <1>4 DEF ReadEvents, Task
    <2>2. task[m].op = "rebuild" => task[m].last = 0
      BY <1>4, <2>1 DEF ReadEvents, TaskFits, Suits
    <2>3. PICK at : at = IF task[m].op = "resume" THEN "apply" ELSE "shadow"
      OBVIOUS
    <2>4. PICK j : j = Replay(task[m], task[m].last)
      OBVIOUS
    <2>5. /\ j \in Task /\ j.op = task[m].op /\ j.read \subseteq Positions /\ j.rows \subseteq Observations
          /\ task[m].last = 0 /\ ~j.stop => j.rows = Observations \cap j.read
      BY <1>1, <2>1, <2>4, ReplayEffect
    <2>6. TaskBecomes(m, j, at)
      BY <1>4, <2>3, <2>4, <2>5 DEF ReadEvents, TaskBecomes, Goto
    <2>7. at \in TaskPhase /\ at # "idle" /\ at \notin {"append", "commit"} /\ Suits(j, at)
      BY <2>3, <2>5 DEF TaskPhase, Suits
    <2>. QED
      BY <1>1, <1>2, <2>2, <2>5, <2>6, <2>7, TaskGoesOn
  <1>. QED
    BY <1>3, <1>4

\* Ending: committed, reported, refused or rolled back.
LEMMA EndingFits ==
    ASSUME ProjectionInv, NEW m \in Admin,
           \/ Report(m) \/ LoseRow(m) \/ AppendStale(m) \/ CommitRebuild(m) \/ FlushConflict(m)
           \/ CommitRows(m) \/ BreakDeadlock(m) \/ CrashTask(m)
    PROVE  TaskOutcome(m)
  <1>1. CASE CommitRebuild(m)
    <2>1. tpc' = [tpc EXCEPT ![m] = "idle"] /\ task' = [task EXCEPT ![m] = NoTask]
      BY <1>1 DEF CommitRebuild
    <2>. QED
      BY <2>1 DEF TaskOutcome, TaskBecomes, TaskPhase
  <1>. QED
    BY <1>1, TaskEnds DEF Report, LoseRow, AppendStale, FlushConflict, CommitRows, BreakDeadlock, CrashTask

\* The rows: built in the shadow, looked up, deleted or updated one after the other,
\* inserted.
LEMMA WritingFits ==
    ASSUME ProjectionInv, NEW m \in Admin,
           \/ BuildShadow(m) \/ StopRebuild(m) \/ Promote(m) \/ LookUp(m) \/ Flush(m) \/ LockRow(m)
           \/ Fill(m)
    PROVE  TaskOutcome(m)
  <1>1. /\ ProjectionTypeOK /\ mark \in Mark /\ todo[m] \subseteq Nat
        /\ \A at \in Replaying \cup {"apply", "update", "flush"} : at \in TaskPhase /\ at # "idle"
    BY DEF ProjectionInv, ProjectionTypeOK, Replaying, TaskPhase
  <1>2. log' = log
    BY DEF BuildShadow, StopRebuild, Promote, LookUp, Flush, LockRow, Fill, vars
  <1>3. Reachable(m) # {} => tpc[m] \in {"delete", "update"}
    BY DEF Reachable
  <1>4. tpc[m] # "idle"
    BY <1>3 DEF BuildShadow, StopRebuild, Promote, LookUp, Flush, LockRow, Fill, Filling
  <1>5. task[m] \in Task /\ TaskFits(m) /\ Suits(task[m], tpc[m]) /\ task[m].held \subseteq Nat
        /\ task[m].rows \subseteq Nat /\ task[m].update \subseteq Nat
    BY <1>1, <1>4 DEF ProjectionInv, ProjectionTypeOK, TasksFit, TaskFits, Task
  <1>6. CASE BuildShadow(m)
    <2>1. TaskBecomes(m, task[m], "built")
      BY <1>1, <1>6 DEF BuildShadow, TaskBecomes, Goto, ProjectionTypeOK
    <2>2. tpc[m] \in Replaying /\ "built" \in Replaying /\ Suits(task[m], "built")
      BY <1>6 DEF BuildShadow, Replaying, Suits
    <2>. QED
      BY <1>1, <1>2, <1>5, <2>1, <2>2, TaskGoesOnWith
  <1>7. CASE StopRebuild(m)
    <2> DEFINE j == [task[m] EXCEPT !.rows = {}, !.loaded = mark]
    <2>1. j \in Task /\ j.rows = {} /\ j.read = task[m].read
      BY <1>1, <1>5 DEF Task
    <2>2. TaskBecomes(m, j, "flush")
      BY <1>7 DEF StopRebuild, TaskBecomes, Goto
    <2>3. "flush" \notin Replaying
      BY DEF Replaying
    <2> HIDE DEF j
    <2>4. Suits(j, "flush")
      BY DEF Suits
    <2>. QED
      BY <1>1, <1>2, <1>5, <2>1, <2>2, <2>3, <2>4, TaskGoesOn DEF TaskFits
  <1>8. CASE Promote(m)
    <2>1. TaskBecomes(m, task[m], "delete")
      BY <1>1, <1>8 DEF Promote, TaskBecomes, Goto, ProjectionTypeOK
    <2>2. tpc[m] \in Replaying /\ "delete" \in Replaying /\ Suits(task[m], "delete")
      BY <1>8 DEF Promote, Replaying, Suits
    <2>. QED
      BY <1>1, <1>2, <1>5, <2>1, <2>2, TaskGoesOnWith
  <1>9. CASE LookUp(m)
    <2>1. PICK p \in todo[m] :
             task' = [task EXCEPT ![m].rows = task[m].rows \ ({p} \cap projected),
                                  ![m].update = task[m].update \cup ({p} \cap undated)]
      BY <1>9 DEF LookUp
    <2> DEFINE R == task[m].rows \ ({p} \cap projected)
               U == task[m].update \cup ({p} \cap undated)
    <2>2. R \subseteq task[m].rows /\ R \subseteq Nat /\ U \subseteq Nat
      BY <1>1, <1>5
    <2>3. task' = [task EXCEPT ![m].rows = R, ![m].update = U]
      BY <2>1
    <2> HIDE DEF R, U
    <2> DEFINE j == [task[m] EXCEPT !.rows = R, !.update = U]
    <2>4. j \in Task /\ j.rows = R /\ j.read = task[m].read /\ j.op = task[m].op
      BY <1>5, <2>2 DEF Task
    <2>5. TaskBecomes(m, j, "apply")
      BY <1>1, <1>9, <2>3 DEF LookUp, TaskBecomes, ProjectionTypeOK
    <2> HIDE DEF j
    <2>6. "apply" \notin Replaying /\ Suits(j, "apply")
      BY <1>5, <1>9, <2>4 DEF LookUp, Replaying, Suits
    <2>. QED
      BY <1>1, <1>2, <1>5, <2>2, <2>4, <2>5, <2>6, TaskGoesOn DEF TaskFits
  <1>10. CASE Flush(m)
    <2>1. PICK loaded : loaded = IF task[m].stop THEN mark ELSE NoMark
      OBVIOUS
    <2>2. loaded \in Mark
      BY <1>1, <2>1 DEF NoMark, Mark
    <2> DEFINE j == [task[m] EXCEPT !.loaded = loaded]
    <2>3. /\ j \in Task /\ j.rows = task[m].rows /\ j.read = task[m].read /\ j.op = task[m].op
          /\ j.stop = task[m].stop
      BY <1>5, <2>2 DEF Task
    <2>4. TaskBecomes(m, j, "update")
      BY <1>10, <2>1 DEF Flush, TaskBecomes, Goto
    <2> HIDE DEF j
    <2>5. "update" \notin Replaying /\ Suits(j, "update")
      BY <1>5, <1>10, <2>3 DEF Flush, Replaying, Suits
    <2>. QED
      BY <1>1, <1>2, <1>5, <2>3, <2>4, <2>5, TaskGoesOnWith
  <1>11. CASE LockRow(m)
    <2>1. PICK p \in Reachable(m) : task' = [task EXCEPT ![m].held = task[m].held \cup {p}]
      BY <1>11 DEF LockRow
    <2>2. PICK held : held = task[m].held \cup {p}
      OBVIOUS
    <2>3. held \subseteq Nat /\ tpc[m] \in {"delete", "update"}
      BY <1>1, <1>3, <1>5, <2>2 DEF Reachable
    <2> DEFINE j == [task[m] EXCEPT !.held = held]
    <2>4. /\ j \in Task /\ j.rows = task[m].rows /\ j.read = task[m].read /\ j.op = task[m].op
          /\ j.stop = task[m].stop
      BY <1>5, <2>3 DEF Task
    <2>5. TaskBecomes(m, j, tpc[m])
      BY <1>1, <1>11, <2>1, <2>2 DEF LockRow, TaskBecomes, ProjectionTypeOK
    <2> HIDE DEF j
    <2>6. Suits(j, tpc[m]) /\ tpc[m] \in TaskPhase /\ tpc[m] \notin {"append", "commit"}
      BY <1>1, <1>5, <2>3, <2>4 DEF Suits, Replaying
    <2>. QED
      BY <1>2, <1>1, <1>4, <1>5, <2>4, <2>5, <2>6, TaskGoesOnWith
  <1>12. CASE Fill(m)
    <2>1. PICK at : at = IF task[m].stop THEN "flush" ELSE "filled"
      OBVIOUS
    <2>2. TaskBecomes(m, task[m], at)
      BY <1>1, <1>12, <2>1 DEF Fill, TaskBecomes, Goto, ProjectionTypeOK
    <2>3. /\ Suits(task[m], at) /\ at \in Replaying \cup {"flush"} /\ at \notin {"append", "commit"}
          /\ at \in Replaying /\ task[m].op = "rebuild" => tpc[m] \in Replaying
      BY <1>5, <1>12, <2>1 DEF Fill, Filling, Suits, Replaying
    <2>. QED
      BY <1>1, <1>2, <1>5, <2>2, <2>3, TaskGoesOnWith
  <1>. QED
    BY <1>6, <1>7, <1>8, <1>9, <1>10, <1>11, <1>12

\* What precedes the event, or a resume's commit.
LEMMA CheckpointFits ==
    ASSUME ProjectionInv, NEW m \in Admin, ReadMark(m) \/ LockForEvent(m)
    PROVE  TaskOutcome(m)
  <1>1. /\ ProjectionTypeOK /\ mark \in Mark /\ log' = log
        /\ \A at \in {"lock", "append", "flush"} : at \in TaskPhase /\ at # "idle"
        /\ log[System] \in Seq(Event) /\ System \in Stream /\ lock \in [Stream -> Session \cup {NoSession}]
    BY DEF ProjectionInv, ProjectionTypeOK, TypeOK, TaskPhase, Stream, ReadMark, LockForEvent,
       ledgerButLock, vars
  <1>2. task[m] \in Task /\ TaskFits(m) /\ Suits(task[m], tpc[m])
    BY <1>1 DEF ReadMark, LockForEvent, ProjectionInv, ProjectionTypeOK, TasksFit, TaskFits
  <1>3. CASE ReadMark(m)
    <2>1. PICK at : at = IF task[m].op = "rebuild" THEN "lock" ELSE "flush"
      OBVIOUS
    <2>2. PICK ver : ver = Latest(log[System], Projector)
      OBVIOUS
    <2>3. ver \in Nat
      BY <1>1, <2>2, LatestVersion
    <2> DEFINE j == [task[m] EXCEPT !.loaded = mark, !.ver = ver]
    <2>4. /\ j \in Task /\ j.rows = task[m].rows /\ j.read = task[m].read /\ j.op = task[m].op
          /\ j.stop = task[m].stop
      BY <1>1, <1>2, <2>3 DEF Task
    <2>5. TaskBecomes(m, j, at)
      BY <1>3, <2>1, <2>2 DEF ReadMark, TaskBecomes, Goto
    <2> HIDE DEF j
    <2>6. /\ tpc[m] = "filled" /\ tpc[m] \in Replaying /\ at \in {"lock", "flush"}
          /\ at \notin {"append", "commit"} /\ Suits(j, at)
      BY <1>2, <1>3, <2>1, <2>4 DEF ReadMark, Replaying, Suits
    <2>. QED
      BY <1>1, <1>2, <2>4, <2>5, <2>6, TaskGoesOnWith
  <1>4. CASE LockForEvent(m)
    <2>1. TaskBecomes(m, task[m], "append") /\ lock'[System] = m
      BY <1>1, <1>4 DEF LockForEvent, TaskBecomes, Goto, ProjectionTypeOK
    <2>2. tpc[m] \in Replaying /\ Suits(task[m], "append")
      BY <1>2, <1>4 DEF LockForEvent, Replaying, Suits
    <2>. QED
      BY <1>1, <1>2, <2>1, <2>2, TaskGoesOnWith
  <1>. QED
    BY <1>3, <1>4

\* The event of a rebuild is one, and continues the SYSTEM stream.
LEMMA RebuiltEventFits ==
    ASSUME ProjectionInv, NEW m \in Admin, AppendRebuilt(m)
    PROVE  TaskOutcome(m)
  <1>1. /\ ProjectionTypeOK /\ TypeOK /\ sequence \in Nat /\ head[System] \in HeadRow /\ System \in Stream
        /\ log[System] \in Seq(Event) /\ log' = log /\ head' = head /\ sequence' = sequence + 1
        /\ UNCHANGED <<pc, staged, lock>> /\ head[System].last <= sequence
        /\ Positions \subseteq 1..sequence
    BY PositionsBounded
    DEF ProjectionInv, ProjectionTypeOK, TypeOK, Stream, AppendRebuilt, workerVars, ChainInv, WriteInv,
        PositionsHandedOut
  <1>2. task[m] \in Task /\ TaskFits(m) /\ tpc[m] = "append" /\ lock[System] = m
    BY DEF AppendRebuilt, ProjectionInv, ProjectionTypeOK, TasksFit, TaskFits
  <1> DEFINE e == SystemEvent(head[System], <<>>, "ProjectionRebuilt", Projector, task[m].ver + 1, sequence + 1)
             j == [task[m] EXCEPT !.event = e]
  <1>3. task[m].ver = Latest(log[System], Projector) /\ task[m].ver \in Nat
    BY <1>2 DEF AppendRebuilt, Stale, Task
  <1>4. /\ e.pos = sequence + 1 /\ e.prev = head[System].last /\ e.agg = Projector
        /\ e.ver = task[m].ver + 1
    BY DEF SystemEvent
  <1>5. e \in Event
    BY <1>1, <1>3, ProjectionAssumption DEF SystemEvent, Event, HeadRow
  <1> HIDE DEF e
  <1>6. /\ j \in Task /\ j.rows = task[m].rows /\ j.read = task[m].read /\ j.op = task[m].op
        /\ j.stop = task[m].stop /\ j.event = e
    BY <1>2, <1>5 DEF Task
  <1>7. TaskBecomes(m, j, "commit")
    BY DEF AppendRebuilt, TaskBecomes, Goto, e
  <1> HIDE DEF j
  <1>8. EventFits(m)'
    <2>1. task'[m].event = e
      BY <1>1, <1>6, <1>7 DEF TaskBecomes, ProjectionTypeOK
    <2>2. \A w \in Worker : pc[w] = "commit" => staged[w].pos <= sequence
      BY DEF ProjectionInv, ChainInv, WriteInv, StagedFits
    <2>3. \A w \in Worker : pc'[w] = "commit" => staged'[w].pos # e.pos
      <3>1. ASSUME NEW w \in Worker, pc[w] = "commit" PROVE staged[w].pos # sequence + 1
        BY <1>1, <2>2, <3>1
      <3>. QED
        BY <1>1, <1>4, <3>1
    <2>4. Positions' = Positions /\ e.pos \notin Positions
      BY <1>1, <1>4, GrowsNot
    <2>5. e.prev < e.pos /\ e.pos <= sequence'
      BY <1>1, <1>4 DEF HeadRow
    <2>. QED
      BY <1>1, <1>3, <1>4, <1>5, <2>1, <2>3, <2>4, <2>5 DEF EventFits
  <1>9. "commit" \in TaskPhase /\ "commit" # "idle" /\ tpc[m] \in Replaying /\ Suits(j, "commit")
    BY <1>2, <1>6 DEF TaskPhase, Replaying, TaskFits, Suits
  <1>. QED
    BY <1>1, <1>2, <1>6, <1>7, <1>8, <1>9, TaskGoesOnWith DEF TaskFits

\* What a rebuild commits: its event at the end of the SYSTEM stream, and its rows.
LEMMA RebuildCommits ==
    ASSUME ProjectionInv, NEW m \in Admin, CommitRebuild(m)
    PROVE  LET e == task[m].event IN
           /\ ChainInv' /\ VersionsContiguous' /\ PositionsUsed'
           /\ Grows({e.pos}) /\ projected' \subseteq Observations' /\ mark' \in Mark
           /\ lock[System] = m /\ task[m].rows = Observations \cap task[m].read
           /\ \A w \in Worker : pc[w] = "commit" => staged[w].pos # e.pos
  <1> DEFINE e == task[m].event
  <1>1. /\ ProjectionTypeOK /\ TypeOK /\ sequence \in Nat /\ head \in [Stream -> HeadRow] /\ System \in Stream
        /\ log \in [Stream -> Seq(Event)] /\ log[System] \in Seq(Event) /\ WriteInv /\ ChainIntact
        /\ HeadTracksLog /\ PositionsUsed /\ VersionsContiguous /\ RowsHaveEvents
    BY DEF ProjectionInv, ProjectionTypeOK, TypeOK, Stream, ChainInv, WriteInv
  <1>2. task[m] \in Task /\ TaskFits(m) /\ tpc[m] = "commit" /\ lock[System] = m /\ EventFits(m)
    BY DEF CommitRebuild, ProjectionInv, ProjectionTypeOK, TasksFit, TaskFits
  <1>3. /\ e \in Event /\ e.prev = head[System].last /\ e.prev < e.pos /\ e.pos <= sequence
        /\ e.pos \notin Positions /\ e.agg = Projector /\ e.ver = Latest(log[System], Projector) + 1
        /\ \A w \in Worker : pc[w] = "commit" => staged[w].pos # e.pos
    BY <1>2 DEF EventFits
  <1>4. /\ log' = [log EXCEPT ![System] = Append(log[System], e)]
        /\ head' = [head EXCEPT ![System] = Advanced(head[System], e.pos)]
        /\ projected' = (projected \ task[m].held) \cup task[m].rows
        /\ mark' = MarkAfter(m, "READY") /\ audits' = audits \cup {e.pos} /\ lock' = Released(m)
        /\ UNCHANGED <<sequence, idem, pc, req, staged, issued, answers>>
    BY DEF CommitRebuild, workerVars
  <1> HIDE DEF e
  <1>5. e.pos \in Nat \ {0} /\ e.prev \in Nat /\ \A s \in Stream : head[s] \in HeadRow /\ head[s].last <= sequence
    BY <1>1, <1>3 DEF Event, WriteInv, PositionsHandedOut
  <1>6. Committed' = Committed \cup {e} /\ Grows({e.pos})
    BY <1>1, <1>3, <1>4, CommittedAfter, GrowsByEvent
  <1>7. ChainIntact' /\ HeadTracksLog'
    BY <1>1, <1>3, <1>4, ChainExtends
  <1>8. WriteInv'
    <2>1. \A s \in App : s \in Stream /\ s # System
      BY StreamAssumption DEF Stream
    <2>2. Advanced(head[System], e.pos) \in HeadRow /\ Advanced(head[System], e.pos).last = e.pos
      BY <1>1, <1>5 DEF Advanced, HeadRow
    <2>3. head' \in [Stream -> HeadRow] /\ \A s \in Stream : head'[s].last <= sequence
      BY <1>1, <1>3, <1>4, <1>5, <2>2
    <2>4. /\ log' \in [Stream -> Seq(Event)]
          /\ \A a \in App : log'[a] = log[a] /\ head'[a].last = head[a].last
      BY <1>1, <1>3, <1>4, <2>1
    <2>5. /\ lock' \in [Stream -> Session \cup {NoSession}]
          /\ \A s \in Stream : lock'[s] = lock[s] \/ lock[s] = NoSession \/ lock[s] \in Admin
      BY <1>1, TaskFrame DEF TaskActs, TaskStep
    <2>6. projected' \subseteq Nat /\ audits' \subseteq Nat
      BY <1>1, <1>2, <1>4, <1>5 DEF TypeOK, Task
    <2>. QED
      BY <1>1, <1>4, <2>3, <2>4, <2>5, <2>6, WritesBeside
  <1>9. VersionsContiguous'
    <2>1. Numbered(Append(log[System], e))
      BY <1>1, <1>3, AppendNumbered DEF VersionsContiguous
    <2>. QED
      BY <1>1, <1>4, <2>1 DEF VersionsContiguous
  <1>10. PositionsUsed'
    <2>1. \A x \in Committed' : x.pos \in 1..sequence
      BY <1>1, <1>3, <1>5, <1>6, PositionsBounded DEF Positions
    <2>2. \A s \in Stream : \A i \in DOMAIN log'[s] : log'[s][i] \in Committed'
      BY DEF Committed, ToSet
    <2>. QED
      BY <1>4, <2>1, <2>2 DEF PositionsUsed
  <1>11. mark' \in Mark
    BY <1>1, <1>2, <1>4 DEF MarkAfter, Mark, Task, ProjectionTypeOK
  <1>12. projected' \subseteq Observations'
    BY <1>1, <1>2, <1>4, <1>6 DEF RowsHaveEvents, TaskFits, Grows
  <1>13. task[m].rows = Observations \cap task[m].read
    BY <1>2 DEF TaskFits, Suits, Replaying
  <1>. QED
    BY <1>2, <1>3, <1>6, <1>7, <1>8, <1>9, <1>10, <1>11, <1>12, <1>13 DEF ChainInv, e

\* Rows without occurred_at are live rows, and what is left to do are positions.
LEMMA TaskRows ==
    ASSUME ProjectionInv, NEW m \in Admin, TaskActs(m)
    PROVE  undated' \subseteq projected' /\ todo' \in [Admin -> SUBSET Nat]
  <1>1. /\ undated \subseteq projected /\ projected \subseteq Nat /\ todo \in [Admin -> SUBSET Nat]
        /\ TypeOK /\ PositionsUsed /\ (tpc[m] # "idle" => task[m] \in Task)
    BY DEF ProjectionInv, ProjectionTypeOK, TypeOK
  <1>2. undated' \subseteq projected'
    <2>1. CASE CommitRebuild(m)
      BY <1>1, <2>1 DEF CommitRebuild
    <2>2. CASE CommitRows(m)
      BY <1>1, <2>2 DEF CommitRows
    <2>3. CASE ~CommitRebuild(m) /\ ~CommitRows(m)
      <3>1. undated' = undated /\ projected' = projected
        BY <2>3 DEF TaskActs, TaskStep, Start, ReadEvents, BuildShadow, Report,
           StopRebuild, Promote, LookUp, Flush, LockRow, Fill, LoseRow, ReadMark, LockForEvent, AppendStale,
           AppendRebuilt, FlushConflict, BreakDeadlock, CrashTask, ledgerButLock, vars
      <3>. QED
        BY <1>1, <3>1
    <2>. QED
      BY <2>1, <2>2, <2>3
  <1>3. todo' \in [Admin -> SUBSET Nat]
    <2>1. CASE CommitRebuild(m)
      BY <1>1, <2>1 DEF CommitRebuild
    <2>2. CASE ReadEvents(m)
      <3>1. PICK j : j = Replay(task[m], task[m].last)
        OBVIOUS
      <3>2. task[m] \in Task /\ task[m].last \in Nat
        BY <1>1, <2>2 DEF ReadEvents, Task
      <3>3. j.rows \subseteq Nat
        BY <1>1, <3>1, <3>2, ReplayRows
      <3>. QED
        BY <1>1, <2>2, <3>1, <3>3 DEF ReadEvents
    <2>3. CASE ~CommitRebuild(m) /\ ~ReadEvents(m)
      <3>1. \/ todo' = todo \/ \E S \in SUBSET Nat : todo' = [todo EXCEPT ![m] = S]
        <4>1. CASE End(m)
          BY <4>1 DEF End
        <4>2. CASE Promote(m)
          BY <1>1, <4>2 DEF Promote
        <4>3. CASE LookUp(m) \/ LockRow(m)
          <5>1. PICK p : todo' = [todo EXCEPT ![m] = todo[m] \ {p}]
            BY <4>3 DEF LookUp, LockRow
          <5>2. todo[m] \ {p} \in SUBSET Nat
            BY <1>1
          <5>. QED
            BY <5>1, <5>2
        <4>4. CASE Flush(m)
          <5>1. task[m].update \in SUBSET Nat
            BY <1>1, <4>4 DEF Flush, Task
          <5>. QED
            BY <4>4, <5>1 DEF Flush
        <4>. QED
          BY <2>3, <4>1, <4>2, <4>3, <4>4 DEF TaskActs, TaskStep, Start, BuildShadow, Report,
             StopRebuild, Fill, LoseRow, ReadMark, LockForEvent, AppendStale,
             AppendRebuilt, FlushConflict, CommitRows, BreakDeadlock, CrashTask
      <3>. QED
        BY <1>1, <3>1
    <2>. QED
      BY <2>1, <2>2, <2>3
  <1>. QED
    BY <1>2, <1>3

\* A step of an operator keeps the invariant.
LEMMA TaskKeepsProjection ==
    ASSUME ProjectionInv, NEW m \in Admin, TaskActs(m)
    PROVE  ProjectionInv'
  <1>1. /\ ChainInv /\ WriteInv /\ TypeOK /\ PositionsUsed /\ ProjectionTypeOK /\ TasksFit /\ StagedNew
        /\ VersionsContiguous /\ RowsHaveEvents /\ projected \subseteq Nat /\ sequence \in Nat
    BY DEF ProjectionInv, ChainInv, WriteInv, TypeOK
  <1>2. /\ UNCHANGED <<idem, pc, req, staged, issued, answers>>
        /\ sequence' \in Nat /\ sequence <= sequence'
        /\ lock' \in [Stream -> Session \cup {NoSession}]
        /\ \A s \in Stream : lock'[s] = lock[s] \/ lock[s] = NoSession \/ lock[s] = m
        /\ ~CommitRebuild(m) => UNCHANGED <<log, head, audits>>
        /\ ~CommitRebuild(m) /\ ~CommitRows(m) => UNCHANGED <<projected, mark>>
        /\ tasks' = tasks \/ (tasks < MaxTasks /\ tasks' = tasks + 1)
    BY <1>1, TaskFrame
  <1>3. TaskOutcome(m)
    BY ReadingFits, EndingFits, WritingFits, CheckpointFits, RebuiltEventFits DEF TaskActs, TaskStep
  <1>4. PICK j \in Task \cup {NoTask}, at \in TaskPhase :
           TaskBecomes(m, j, at) /\ (at = "idle" <=> j = NoTask) /\ (at # "idle" => TaskFits(m)')
    BY <1>3 DEF TaskOutcome
  <1>5. /\ tpc' \in [Admin -> TaskPhase] /\ task' \in [Admin -> Task \cup {NoTask}]
        /\ \A n \in Admin : tpc'[n] = "idle" <=> task'[n] = NoTask
        /\ tpc'[m] = at /\ \A n \in Admin : n # m => tpc'[n] = tpc[n] /\ task'[n] = task[n]
    BY <1>1, <1>4 DEF ProjectionTypeOK, TaskBecomes
  <1>6. tasks' \in 0..MaxTasks
    BY <1>1, <1>2, ProjectionAssumption DEF ProjectionTypeOK
  <1>7. /\ ChainInv' /\ VersionsContiguous' /\ PositionsUsed' /\ projected' \subseteq Observations'
        /\ mark' \in Mark
        /\ \E new : /\ Grows(new)
                    /\ \A w \in Worker : pc[w] = "commit" => staged[w].pos \notin new
                    /\ new # {} => lock[System] = m
                    /\ (log'[System] = log[System] /\ head'[System] = head[System]) \/ lock[System] = m
    <2>1. CASE CommitRebuild(m)
      BY <2>1, RebuildCommits
    <2>2. CASE ~CommitRebuild(m)
      <3>1. log' = log /\ head' = head /\ audits' = audits
        BY <1>2, <2>2
      <3>2. Grows({}) /\ Observations' = Observations
        BY <3>1, GrowsNot
      <3>3. projected' \subseteq Observations' /\ projected' \subseteq Nat /\ mark' \in Mark
        <4>1. CASE CommitRows(m)
          <5>1. task[m] \in Task /\ TaskFits(m)
            BY <1>1, <4>1 DEF CommitRows, ProjectionTypeOK, TasksFit
          <5>2. MarkAfter(m, IF task[m].stop THEN "QUARANTINED" ELSE "READY") \in Mark
            BY <1>1, <5>1 DEF MarkAfter, Mark, Task, ProjectionTypeOK
          <5>. QED
            BY <1>1, <3>2, <4>1, <5>1, <5>2 DEF CommitRows, RowsHaveEvents, TaskFits, Task
        <4>2. CASE ~CommitRows(m)
          BY <1>1, <1>2, <2>2, <3>2, <4>2 DEF RowsHaveEvents, ProjectionTypeOK
        <4>. QED
          BY <4>1, <4>2
      <3>4. WriteInv'
        <4>1. \A s \in Stream : head[s].last \in Nat /\ head[s].last <= sequence
          BY <1>1 DEF WriteInv, PositionsHandedOut, TypeOK, HeadRow
        <4>2. \A s \in Stream : head'[s].last <= sequence'
          BY <1>1, <1>2, <3>1, <4>1
        <4>3. /\ log' \in [Stream -> Seq(Event)] /\ head' \in [Stream -> HeadRow] /\ audits' \subseteq Nat
              /\ \A s \in Stream : lock'[s] = lock[s] \/ lock[s] = NoSession \/ lock[s] \in Admin
          BY <1>1, <1>2, <3>1 DEF TypeOK
        <4>. QED
          BY <1>1, <1>2, <3>1, <3>3, <4>2, <4>3, WritesBeside
      <3>5. ChainIntact' /\ HeadTracksLog' /\ VersionsContiguous' /\ PositionsUsed'
        BY <1>1, <1>2, <3>1 DEF ChainInv, ChainIntact, HeadTracksLog, VersionsContiguous, PositionsUsed
      <3>. QED
        BY <3>1, <3>2, <3>3, <3>4, <3>5 DEF ChainInv
    <2>. QED
      BY <2>1, <2>2
  <1>8. PICK new : /\ Grows(new)
                   /\ \A w \in Worker : pc[w] = "commit" => staged[w].pos \notin new
                   /\ new # {} => lock[System] = m
                   /\ (log'[System] = log[System] /\ head'[System] = head[System]) \/ lock[System] = m
    BY <1>7
  <1>9. StagedNew'
    BY <1>1, <1>2, <1>8 DEF StagedNew, Grows
  <1>10. ASSUME NEW n \in Admin, tpc'[n] # "idle" PROVE TaskFits(n)'
    <2>1. CASE n = m
      BY <1>4, <1>5, <1>10, <2>1
    <2>2. CASE n # m
      <3>1. TaskFits(n) /\ tpc'[n] = tpc[n] /\ task'[n] = task[n]
        BY <1>1, <1>5, <1>10, <2>2 DEF TasksFit
      <3>2. tpc[n] \in {"append", "commit"} => lock[System] = n /\ lock'[System] = n
        BY <1>2, <2>2, <3>1, AdminAssumption, SessionAssumption DEF TaskFits, Stream
      <3>3. ASSUME tpc[n] = "commit" PROVE EventFits(n)'
        <4>1. /\ EventFits(n) /\ new = {} /\ log'[System] = log[System] /\ head'[System] = head[System]
          BY <1>8, <2>2, <3>1, <3>2, <3>3 DEF TaskFits
        <4>2. Positions' = Positions
          BY <1>8, <4>1 DEF Grows
        <4>3. task[n].event.pos \in Nat
          BY <4>1 DEF EventFits, Event
        <4>. QED
          BY <1>1, <1>2, <3>1, <4>1, <4>2, <4>3 DEF EventFits
      <3>. QED
        BY <1>8, <3>1, <3>2, <3>3, OtherTasks
    <2>. QED
      BY <2>1, <2>2
  <1>11. TypeOK' /\ undated' \subseteq projected' /\ todo' \in [Admin -> SUBSET Nat]
    BY <1>1, <1>7, TaskRows DEF ChainInv, WriteInv
  <1>. QED
    BY <1>5, <1>6, <1>7, <1>9, <1>10, <1>11
    DEF ProjectionInv, ProjectionTypeOK, TasksFit, RowsHaveEvents

-----------------------------------------------------------------------------
\* An empty ledger without tasks.
LEMMA ProjectionStarts == ProjectionInit => ProjectionInv
  <1> SUFFICES ASSUME ProjectionInit PROVE ProjectionInv
    OBVIOUS
  <1>1. ChainInv /\ TypeOK
    BY InitChain DEF ProjectionInit, ChainInv, WriteInv
  <1>2. \A s \in Stream : log[s] = <<>>
    BY DEF ProjectionInit, Init
  <1>3. VersionsContiguous /\ PositionsUsed
    BY <1>2 DEF VersionsContiguous, Numbered, PositionsUsed, Stream
  <1>4. ProjectionTypeOK
    BY <1>1, ProjectionAssumption DEF ProjectionInit, ProjectionTypeOK, NoMark, Mark, TaskPhase
  <1>5. StagedNew /\ TasksFit /\ RowsHaveEvents
    BY DEF ProjectionInit, Init, StagedNew, TasksFit, RowsHaveEvents
  <1>. QED
    BY <1>1, <1>3, <1>4, <1>5 DEF ProjectionInv

\* Every step keeps the invariant.
LEMMA ProjectionContinues == ProjectionInv /\ [ProjectionNext]_projectionVars => ProjectionInv'
  <1> SUFFICES ASSUME ProjectionInv, [ProjectionNext]_projectionVars PROVE ProjectionInv'
    OBVIOUS
  <1>1. CASE WorkerNext /\ BesideTasks
    BY <1>1, WorkerKeepsProjection
  <1>2. CASE TaskNext
    BY <1>2, TaskKeepsProjection DEF TaskNext, TaskActs
  <1>3. CASE UNCHANGED projectionVars
    BY <1>3 DEF projectionVars, vars, taskVars, ProjectionInv, ChainInv, WriteInv, TypeOK, LockHeld, Busy,
       PositionsHandedOut, StagedFits, KeyTaken, ChainIntact, HeadTracksLog, VersionsContiguous, PositionsUsed,
       ProjectionTypeOK, StagedNew, Positions, Committed, Observations, TasksFit, TaskFits, EventFits,
       RowsHaveEvents
  <1>. QED
    BY <1>1, <1>2, <1>3 DEF ProjectionNext, TasksQuiescent

\* The ledger and the tasks fit together, whatever operators and workers do.
THEOREM ProjectionInvariant == ProjectionSpec => []ProjectionInv
  BY ProjectionStarts, ProjectionContinues, PTL DEF ProjectionSpec

\* Type correctness of the checkpoint and of the tasks.
THEOREM ProjectionTypes == ProjectionSpec => []ProjectionTypeOK
  <1>1. ProjectionInv => ProjectionTypeOK
    BY DEF ProjectionInv
  <1>. QED
    BY <1>1, ProjectionInvariant, PTL

\* A live row is an accepted observation, whoever rebuilds, resumes or dies.
THEOREM RowsAreAccepted == ProjectionSpec => []RowsHaveEvents
  <1>1. ProjectionInv => RowsHaveEvents
    BY DEF ProjectionInv
  <1>. QED
    BY <1>1, ProjectionInvariant, PTL

\* The SYSTEM stream stays a chain, and numbered, beside operators who read the version
\* and the checkpoint before they lock it.
THEOREM ChainNeverForksBesideRebuilds == ProjectionSpec => [](ChainIntact /\ VersionsContiguous)
  <1>1. ProjectionInv => ChainIntact /\ VersionsContiguous
    BY DEF ProjectionInv, ChainInv
  <1>. QED
    BY <1>1, ProjectionInvariant, PTL

\* A rebuild that has read all there is leaves exactly the accepted observations.
THEOREM RebuildsAreExact == ProjectionSpec => RebuildExact
  <1>1. ASSUME ProjectionInv, NEW m \in Admin, CommitRebuild(m), task[m].read = {e.pos : e \in Committed}
        PROVE  projected' = Observations
    <2>1. task[m].rows = Observations \cap task[m].read /\ projected \subseteq Observations
      BY <1>1, RebuildCommits DEF ProjectionInv, RowsHaveEvents
    <2>2. \A p \in Observations : p \in task[m].read
      BY <1>1 DEF Observations
    <2>3. task[m].rows = Observations
      BY <2>1, <2>2
    <2>. QED
      BY <1>1, <2>1, <2>3 DEF CommitRebuild
  <1>2. ProjectionInv /\ [ProjectionNext]_projectionVars =>
          [\A m \in Admin : CommitRebuild(m) /\ task[m].read = {e.pos : e \in Committed}
                              => projected' = Observations]_projectionVars
    BY <1>1
  <1>. QED
    BY <1>2, ProjectionInvariant, PTL DEF ProjectionSpec, RebuildExact

=============================================================================

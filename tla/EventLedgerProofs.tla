-------------------------- MODULE EventLedgerProofs --------------------------
(***************************************************************************)
(* Proofs about the write path, for any number of workers, applications,   *)
(* keys and requests.                                                      *)
(***************************************************************************)
EXTENDS EventLedger, TLAPS

(***************************************************************************)
(* The inductive invariant.  ChainIntact is not inductive by itself: that  *)
(* the event about to be committed extends the chain is known because its  *)
(* worker has held the lock since it read the head (LockHeld), so the head *)
(* it chained onto is still the head (StagedFits), and because the head    *)
(* names the last event (HeadTracksLog).                                   *)
(***************************************************************************)
Busy(w) == pc[w] \in {"append", "commit"}

LockHeld ==
    /\ \A w \in Worker : pc[w] # "idle" => req[w] \in Request
    /\ \A w \in Worker : Busy(w) => lock[req[w].app] = w

PositionsHandedOut == \A s \in Stream : head[s].last <= sequence

StagedFits ==
    \A w \in Worker : pc[w] = "commit" =>
        /\ staged[w] \in Event
        /\ staged[w].prev = head[req[w].app].last
        /\ staged[w].prev < staged[w].pos /\ staged[w].pos <= sequence
        /\ staged[w].key = req[w].key
        /\ ~KeyTaken(req[w])

WriteInv == TypeOK /\ LockHeld /\ PositionsHandedOut /\ StagedFits
ChainInv == WriteInv /\ ChainIntact /\ HeadTracksLog

-----------------------------------------------------------------------------
\* The initial tables and idle workers are well typed.
LEMMA InitTypeOK == Init => TypeOK
  BY BoundAssumption, SessionAssumption
  DEF Init, TypeOK, NoHead, HeadRow, Stream

\* Every step keeps the write path well typed; the staged event a commit writes
\* is an event because its worker holds the lock.
LEMMA NextTypeOK == TypeOK /\ LockHeld /\ StagedFits /\ [Next]_vars => TypeOK'
  <1> SUFFICES ASSUME TypeOK, LockHeld, StagedFits, [Next]_vars PROVE TypeOK'
    OBVIOUS
  <1> USE DEF TypeOK
  <1>1. ASSUME NEW w \in Worker, NEW r \in Request, Receive(w, r) PROVE TypeOK'
    BY <1>1, BoundAssumption DEF Receive, ledgerVars
  <1>2. ASSUME NEW w \in Worker, FindNothing(w) PROVE TypeOK'
    BY <1>2 DEF FindNothing, ledgerVars
  <1>3. ASSUME NEW w \in Worker, FindExisting(w) PROVE TypeOK'
    BY <1>3 DEF FindExisting, Finish, Existing, ledgerVars
  <1>4. ASSUME NEW w \in Worker, ResolveNothing(w) PROVE TypeOK'
    BY <1>4 DEF ResolveNothing, Finish, ledgerVars
  <1>5. ASSUME NEW w \in Worker, LockHead(w) PROVE TypeOK'
    BY <1>5, SessionAssumption DEF LockHead
  <1>6. ASSUME NEW w \in Worker, RejectQuarantined(w) PROVE TypeOK'
    BY <1>6 DEF RejectQuarantined, Finish, ledgerVars
  <1>7. ASSUME NEW w \in Worker, AppendEvent(w) PROVE TypeOK'
    <2>1. req[w] \in Request /\ req[w].app \in Stream
      BY <1>7 DEF AppendEvent, LockHeld, Request, Stream
    <2>2. head[req[w].app].last \in Nat
      BY <2>1 DEF HeadRow
    <2>3. [pos |-> sequence + 1, prev |-> head[req[w].app].last,
           kind |-> req[w].action, agg |-> Fresh, ver |-> 1, key |-> req[w].key] \in Event
      BY <2>1, <2>2, ActionAssumption DEF Event, Request
    <2>4. QED
      BY <1>7, <2>3 DEF AppendEvent
  <1>8. ASSUME NEW w \in Worker, LoseRace(w) PROVE TypeOK'
    BY <1>8 DEF LoseRace, Released
  <1>9. ASSUME NEW w \in Worker, Commit(w) PROVE TypeOK'
    <2>1. req[w] \in Request /\ req[w].app \in Stream /\ staged[w] \in Event
      BY <1>9 DEF Commit, LockHeld, StagedFits, Request, Stream
    <2>2. staged[w].pos \in Nat
      BY <2>1 DEF Event
    <2>3. log' \in [Stream -> Seq(Event)]
      BY <1>9, <2>1 DEF Commit
    <2>4. head' \in [Stream -> HeadRow]
      <3>1. Advanced(head[req[w].app], staged[w].pos) \in HeadRow
        BY <2>1, <2>2 DEF Advanced, HeadRow
      <3>2. QED
        BY <1>9, <2>1, <3>1 DEF Commit
    <2>5. idem' \subseteq Record
      BY <1>9, <2>1, <2>2 DEF Commit, Result, Record, Request
    <2>6. audits' \subseteq Nat /\ projected' \subseteq Nat
      BY <1>9, <2>2 DEF Commit
    <2>7. lock' \in [Stream -> Session \cup {NoSession}]
      BY <1>9 DEF Commit, Released
    <2>8. QED
      BY <1>9, <2>3, <2>4, <2>5, <2>6, <2>7 DEF Commit
  <1>10. ASSUME NEW w \in Worker, Reply(w) PROVE TypeOK'
    <2>1. req[w] \in Request
      BY <1>10 DEF Reply, LockHeld
    <2>2. staged[w].pos \in Nat
      BY <1>10 DEF Event, NoEvent
    <2>3. Result(req[w], staged[w].pos) \in Record
      BY <2>1, <2>2 DEF Result, Record, Request
    <2>4. QED
      BY <1>10, <2>3 DEF Reply, Finish, ledgerVars
  <1>11. ASSUME NEW w \in Worker, Crash(w) PROVE TypeOK'
    BY <1>11 DEF Crash, Finish, Released
  <1>12. CASE UNCHANGED vars
    BY <1>12 DEF vars
  <1>13. ASSUME NEW a \in App, SetStatus(a) PROVE TypeOK'
    <2>1. PICK status \in {"ACTIVE", "QUARANTINED"} :
             head' = [head EXCEPT ![a] = [head[a] EXCEPT !.status = status]]
      BY <1>13 DEF SetStatus
    <2>2. head[a] \in HeadRow
      BY DEF Stream
    <2>3. [head[a] EXCEPT !.status = status] \in HeadRow
      BY <2>2 DEF HeadRow
    <2>4. head' \in [Stream -> HeadRow]
      BY <2>1, <2>3
    <2>5. QED
      BY <1>13, <2>4 DEF SetStatus, workerVars
  <1>14. QED
    BY <1>1, <1>2, <1>3, <1>4, <1>5, <1>6, <1>7, <1>8, <1>9, <1>10, <1>11, <1>12, <1>13
    DEF Next, WorkerNext, WorkerStep, Quiescent

-----------------------------------------------------------------------------
\* Every action but the commit leaves the log and the effects alone, and of the
\* heads changes at most a status.
LEMMA OnlyCommitWrites ==
    ASSUME TypeOK, [Next]_vars, ~(\E w \in Worker : Commit(w))
    PROVE  /\ UNCHANGED <<log, idem, audits>>
           /\ \A s \in Stream : head'[s].last = head[s].last /\ head'[s].version = head[s].version
  <1>1. CASE \E a \in App : SetStatus(a)
    <2> PICK a \in App : SetStatus(a)
      BY <1>1
    <2>1. PICK status \in {"ACTIVE", "QUARANTINED"} :
             head' = [head EXCEPT ![a] = [head[a] EXCEPT !.status = status]]
      BY DEF SetStatus
    <2>2. [head[a] EXCEPT !.status = status].last = head[a].last
          /\ [head[a] EXCEPT !.status = status].version = head[a].version
      BY DEF TypeOK, HeadRow, Stream
    <2>3. QED
      BY <2>1, <2>2 DEF SetStatus, TypeOK
  <1>2. CASE ~\E a \in App : SetStatus(a)
    <2>1. UNCHANGED <<log, head, idem, audits>>
      BY <1>2 DEF Next, WorkerNext, WorkerStep, Receive, FindNothing, FindExisting,
         ResolveNothing, LockHead, RejectQuarantined, AppendEvent, LoseRace, Reply, Crash,
         Quiescent, vars, ledgerVars
    <2>2. QED
      BY <2>1
  <1>3. QED
    BY <1>1, <1>2

\* A worker between the lock and the commit keeps the stream lock: the others
\* cannot take it and only its own end gives it back.
LEMMA NextLockHeld == WriteInv /\ [Next]_vars => LockHeld'
  <1> SUFFICES ASSUME WriteInv, [Next]_vars PROVE LockHeld'
    OBVIOUS
  <1> USE DEF WriteInv, TypeOK, LockHeld, Busy
  <1>0. \A w \in Worker : w # NoSession
    BY SessionAssumption
  <1>a. \A r \in Request : r.app \in Stream
    BY DEF Request, Stream
  <1>1. ASSUME NEW w \in Worker, NEW r \in Request, Receive(w, r) PROVE LockHeld'
    BY <1>1 DEF Receive, ledgerVars
  <1>2. ASSUME NEW w \in Worker, FindNothing(w) PROVE LockHeld'
    BY <1>2 DEF FindNothing, ledgerVars
  <1>3. ASSUME NEW w \in Worker, FindExisting(w) PROVE LockHeld'
    BY <1>3 DEF FindExisting, Finish, ledgerVars
  <1>4. ASSUME NEW w \in Worker, ResolveNothing(w) PROVE LockHeld'
    BY <1>4 DEF ResolveNothing, Finish, ledgerVars
  <1>5. ASSUME NEW w \in Worker, LockHead(w) PROVE LockHeld'
    BY <1>5, <1>0, <1>a DEF LockHead
  <1>6. ASSUME NEW w \in Worker, RejectQuarantined(w) PROVE LockHeld'
    BY <1>6 DEF RejectQuarantined, Finish, ledgerVars
  <1>7. ASSUME NEW w \in Worker, AppendEvent(w) PROVE LockHeld'
    BY <1>7 DEF AppendEvent
  <1>8. ASSUME NEW w \in Worker, LoseRace(w) PROVE LockHeld'
    BY <1>8, <1>a DEF LoseRace, Released
  <1>9. ASSUME NEW w \in Worker, Commit(w) PROVE LockHeld'
    BY <1>9, <1>a DEF Commit, Released
  <1>10. ASSUME NEW w \in Worker, Reply(w) PROVE LockHeld'
    BY <1>10 DEF Reply, Finish, ledgerVars
  <1>11. ASSUME NEW w \in Worker, Crash(w) PROVE LockHeld'
    BY <1>11, <1>a DEF Crash, Finish, Released
  <1>12. CASE UNCHANGED vars
    BY <1>12 DEF vars
  <1>13. ASSUME NEW a \in App, SetStatus(a) PROVE LockHeld'
    BY <1>13 DEF SetStatus, workerVars
  <1>14. QED
    BY <1>1, <1>2, <1>3, <1>4, <1>5, <1>6, <1>7, <1>8, <1>9, <1>10, <1>11, <1>12, <1>13
    DEF Next, WorkerNext, WorkerStep, Quiescent

\* What a commit does to the committed state, in terms of what the staged event
\* is known to be: the facts the preservation of each conjunct rests on.
LEMMA CommitEffect ==
    ASSUME WriteInv, NEW w \in Worker, Commit(w)
    PROVE  LET a == req[w].app
               e == staged[w] IN
           /\ a \in App /\ a \in Stream /\ req[w] \in Request /\ e \in Event
           /\ lock[a] = w
           /\ log' = [log EXCEPT ![a] = Append(log[a], e)]
           /\ head' = [head EXCEPT ![a] = Advanced(head[a], e.pos)]
           /\ e.prev = head[a].last /\ e.prev < e.pos /\ e.pos <= sequence
           /\ UNCHANGED <<sequence, req, staged>>
           /\ pc' = [pc EXCEPT ![w] = "reply"]
  BY DEF Commit, WriteInv, LockHeld, StagedFits, Busy, Request, Stream

\* No head names a position the identity column has not handed out.
LEMMA NextPositions == WriteInv /\ [Next]_vars => PositionsHandedOut'
  <1> SUFFICES ASSUME WriteInv, [Next]_vars PROVE PositionsHandedOut'
    OBVIOUS
  <1>1. sequence \in Nat /\ \A s \in Stream : head[s].last \in Nat /\ head[s].last <= sequence
    BY DEF WriteInv, TypeOK, HeadRow, PositionsHandedOut
  <1>2. CASE \E w \in Worker : Commit(w)
    <2> PICK w \in Worker : Commit(w)
      BY <1>2
    <2> DEFINE a == req[w].app
    <2>1. /\ sequence' = sequence /\ staged[w].pos <= sequence
          /\ head' = [head EXCEPT ![a] = Advanced(head[a], staged[w].pos)]
      BY CommitEffect
    <2>2. \A s \in Stream : head'[s].last = IF s = a THEN staged[w].pos ELSE head[s].last
      BY <2>1 DEF Advanced, WriteInv, TypeOK
    <2>3. QED
      BY <1>1, <2>1, <2>2 DEF PositionsHandedOut
  <1>3. CASE ~\E w \in Worker : Commit(w)
    <2>1. \A s \in Stream : head'[s].last = head[s].last
      BY <1>3, OnlyCommitWrites DEF WriteInv
    <2>2. sequence' = sequence \/ sequence' = sequence + 1
      BY <1>3 DEF Next, WorkerNext, WorkerStep, Receive, FindNothing, FindExisting,
         ResolveNothing, LockHead, RejectQuarantined, AppendEvent, LoseRace, Reply, Crash,
         SetStatus, Quiescent, vars, ledgerVars
    <2>3. QED
      BY <1>1, <2>1, <2>2 DEF PositionsHandedOut
  <1>4. QED
    BY <1>2, <1>3

\* An event that is chained onto the head of its stream, with the head moved to it, keeps
\* every stream a chain that its head names.
LEMMA ChainExtends ==
    ASSUME TypeOK, ChainIntact, HeadTracksLog, NEW a \in Stream, NEW e \in Event,
           e.prev = head[a].last, e.prev < e.pos,
           log' = [log EXCEPT ![a] = Append(log[a], e)],
           head' = [head EXCEPT ![a] = Advanced(head[a], e.pos)]
    PROVE  ChainIntact' /\ HeadTracksLog'
  <1>1. log \in [Stream -> Seq(Event)] /\ head \in [Stream -> HeadRow]
    BY DEF TypeOK
  <1>2. ASSUME NEW s \in Stream, s # a
        PROVE  log'[s] = log[s] /\ head'[s] = head[s]
    BY <1>1, <1>2
  <1>3. /\ log'[a] = Append(log[a], e)
        /\ head'[a] = Advanced(head[a], e.pos)
    BY <1>1
  <1>4. /\ Len(log'[a]) = Len(log[a]) + 1 /\ Len(log[a]) \in Nat
        /\ DOMAIN log[a] = 1..Len(log[a]) /\ DOMAIN log'[a] = 1..(Len(log[a]) + 1)
        /\ log'[a][Len(log[a]) + 1] = e
        /\ \A i \in DOMAIN log[a] : log'[a][i] = log[a][i]
    <2>1. log[a] \in Seq(Event)
      BY <1>1
    <2>2. QED
      BY <1>3, <2>1
  <1>5. head[a].last = IF log[a] = <<>> THEN 0 ELSE log[a][Len(log[a])].pos
    BY DEF HeadTracksLog
  <1>6. head[a].version = Len(log[a])
    BY DEF HeadTracksLog
  <1>7. log[a] = <<>> <=> Len(log[a]) = 0
    BY <1>1
  <1>8. ChainIntact'
    <2> SUFFICES ASSUME NEW s \in Stream, NEW i \in DOMAIN log'[s]
                 PROVE  /\ log'[s][i].prev = IF i = 1 THEN 0 ELSE log'[s][i - 1].pos
                        /\ log'[s][i].prev < log'[s][i].pos
      BY DEF ChainIntact
    <2>0. \A t \in Stream : \A j \in DOMAIN log[t] :
            /\ log[t][j].prev = IF j = 1 THEN 0 ELSE log[t][j - 1].pos
            /\ log[t][j].prev < log[t][j].pos
      BY DEF ChainIntact
    <2>1. CASE s # a
      BY <2>0, <2>1, <1>2
    <2>2. CASE s = a /\ i \in DOMAIN log[a]
      <3>1. i = 1 \/ i - 1 \in DOMAIN log[a]
        BY <1>4, <2>2
      <3>2. QED
        BY <2>0, <2>2, <3>1, <1>4
    <2>3. CASE s = a /\ i = Len(log[a]) + 1
      <3>1. log'[s][i] = e
        BY <2>3, <1>4
      <3>2. CASE Len(log[a]) = 0
        BY <3>1, <3>2, <2>3, <1>5, <1>7
      <3>3. CASE Len(log[a]) # 0
        <4>1. i # 1 /\ i - 1 \in DOMAIN log[a] /\ i - 1 = Len(log[a])
          BY <3>3, <2>3, <1>4
        <4>2. log'[s][i - 1] = log[a][Len(log[a])]
          BY <4>1, <2>3, <1>4
        <4>3. QED
          BY <3>1, <3>3, <4>1, <4>2, <1>5, <1>7
      <3>4. QED
        BY <3>2, <3>3
    <2>4. QED
      BY <2>1, <2>2, <2>3, <1>4
  <1>9. HeadTracksLog'
    <2> SUFFICES ASSUME NEW s \in Stream
                 PROVE  /\ head'[s].version = Len(log'[s])
                        /\ head'[s].last = IF log'[s] = <<>> THEN 0
                                           ELSE log'[s][Len(log'[s])].pos
      BY DEF HeadTracksLog
    <2>1. CASE s # a
      BY <2>1, <1>2 DEF HeadTracksLog
    <2>2. CASE s = a
      <3>1. log'[a] # <<>>
        BY <1>4
      <3>2. QED
        BY <2>2, <3>1, <1>3, <1>4, <1>6 DEF Advanced
    <2>3. QED
      BY <2>1, <2>2
  <1>. QED
    BY <1>8, <1>9

\* A commit extends the chain of its stream by one and moves the head to it;
\* no other step touches either.
LEMMA NextChain == ChainInv /\ [Next]_vars => ChainIntact' /\ HeadTracksLog'
  <1> SUFFICES ASSUME ChainInv, [Next]_vars PROVE ChainIntact' /\ HeadTracksLog'
    OBVIOUS
  <1>1. CASE \E w \in Worker : Commit(w)
    <2> PICK w \in Worker : Commit(w)
      BY <1>1
    <2> DEFINE a == req[w].app
               e == staged[w]
    <2>1. /\ a \in Stream /\ e \in Event /\ e.prev = head[a].last /\ e.prev < e.pos
          /\ log' = [log EXCEPT ![a] = Append(log[a], e)]
          /\ head' = [head EXCEPT ![a] = Advanced(head[a], e.pos)]
      BY CommitEffect DEF ChainInv
    <2>. QED
      BY <2>1, ChainExtends DEF ChainInv, WriteInv
  <1>2. CASE ~\E w \in Worker : Commit(w)
    <2>1. /\ UNCHANGED log
          /\ \A s \in Stream : head'[s].last = head[s].last /\ head'[s].version = head[s].version
      BY <1>2, OnlyCommitWrites DEF ChainInv, WriteInv
    <2>2. QED
      BY <2>1 DEF ChainInv, WriteInv, ChainIntact, HeadTracksLog
  <1>3. QED
    BY <1>1, <1>2

\* A staged event keeps fitting the head: only its own worker, which holds the
\* lock, could move the head or append to the stream.
LEMMA NextStagedFits == WriteInv /\ [Next]_vars => StagedFits'
  <1> SUFFICES ASSUME WriteInv, [Next]_vars,
                      NEW v \in Worker, pc'[v] = "commit"
               PROVE  (/\ staged[v] \in Event
                       /\ staged[v].prev = head[req[v].app].last
                       /\ staged[v].prev < staged[v].pos /\ staged[v].pos <= sequence
                       /\ staged[v].key = req[v].key
                       /\ ~KeyTaken(req[v]))'
    BY DEF StagedFits
  <1> USE DEF WriteInv, TypeOK
  <1>1. CASE \E w \in Worker : AppendEvent(w)
    <2> PICK w \in Worker : AppendEvent(w)
      BY <1>1
    <2>1. UNCHANGED <<head, log, req>>
      BY DEF AppendEvent
    <2>2. CASE v = w
      <3> DEFINE e == [pos |-> sequence + 1, prev |-> head[req[w].app].last,
                       kind |-> req[w].action, agg |-> Fresh, ver |-> 1, key |-> req[w].key]
      <3>1. staged'[v] = e /\ sequence' = sequence + 1 /\ ~KeyTaken(req[w])
        BY <2>2 DEF AppendEvent
      <3>2. req[w] \in Request /\ req[w].app \in Stream
        BY DEF AppendEvent, LockHeld, Request, Stream
      <3>3. head[req[w].app].last \in Nat /\ head[req[w].app].last <= sequence
        BY <3>2 DEF HeadRow, PositionsHandedOut
      <3>4. e \in Event
        BY <3>2, <3>3, ActionAssumption DEF Event, Request
      <3>5. KeyTaken(req[w])' <=> KeyTaken(req[w])
        BY <2>1 DEF KeyTaken
      <3>6. QED
        BY <3>1, <3>3, <3>4, <3>5, <2>1, <2>2
    <2>3. CASE v # w
      <3>1. pc[v] = "commit" /\ staged'[v] = staged[v] /\ sequence' = sequence + 1
        BY <2>3 DEF AppendEvent
      <3>2. KeyTaken(req[v])' <=> KeyTaken(req[v])
        BY <2>1 DEF KeyTaken
      <3>3. staged[v] \in Event /\ staged[v].pos \in Nat
        BY <3>1 DEF StagedFits, Event
      <3>4. QED
        BY <3>1, <3>2, <3>3, <2>1 DEF StagedFits
    <2>4. QED
      BY <2>2, <2>3
  <1>2. CASE \E w \in Worker : Commit(w)
    <2> PICK w \in Worker : Commit(w)
      BY <1>2
    <2> DEFINE a == req[w].app
    <2>1. /\ a \in Stream /\ lock[a] = w /\ UNCHANGED <<sequence, req, staged>>
          /\ log' = [log EXCEPT ![a] = Append(log[a], staged[w])]
          /\ head' = [head EXCEPT ![a] = Advanced(head[a], staged[w].pos)]
          /\ pc' = [pc EXCEPT ![w] = "reply"]
      BY CommitEffect
    <2>2. v # w /\ pc[v] = "commit"
      BY <2>1
    <2>3. req[v] \in Request /\ req[v].app \in Stream /\ lock[req[v].app] = v
      BY <2>2 DEF LockHeld, Busy, Request, Stream
    <2>4. req[v].app # a
      BY <2>1, <2>2, <2>3
    <2>5. log'[req[v].app] = log[req[v].app] /\ head'[req[v].app] = head[req[v].app]
      BY <2>1, <2>3, <2>4
    <2>6. KeyTaken(req[v])' <=> KeyTaken(req[v])
      BY <2>1, <2>5 DEF KeyTaken
    <2>7. QED
      BY <2>1, <2>2, <2>5, <2>6 DEF StagedFits
  <1>3. CASE ~(\E w \in Worker : AppendEvent(w)) /\ ~(\E w \in Worker : Commit(w))
    <2>1. UNCHANGED log /\ \A s \in Stream : head'[s].last = head[s].last
      BY <1>3, OnlyCommitWrites
    <2>2. /\ pc[v] = "commit" /\ staged'[v] = staged[v] /\ req'[v] = req[v]
          /\ sequence' = sequence \/ sequence' = sequence + 1
      BY <1>3 DEF Next, WorkerNext, WorkerStep, Receive, FindNothing, FindExisting,
         ResolveNothing, LockHead, RejectQuarantined, LoseRace, Reply, Crash, Finish,
         SetStatus, workerVars, Quiescent, vars, ledgerVars
    <2>3. staged[v].pos \in Nat
      BY <2>2 DEF StagedFits, Event
    <2>4. KeyTaken(req[v])' <=> KeyTaken(req[v])
      BY <2>1, <2>2 DEF KeyTaken
    <2>5. req[v].app \in Stream
      BY <2>2 DEF LockHeld, Request, Stream
    <2>6. QED
      BY <2>1, <2>2, <2>3, <2>4, <2>5 DEF StagedFits
  <1>4. QED
    BY <1>1, <1>2, <1>3

\* Types, locks, positions and staged events are kept whatever the logs hold: this
\* much is also true beside the operators' jobs of Integrity.
LEMMA NextWrites == WriteInv /\ [Next]_vars => WriteInv'
  BY NextTypeOK, NextLockHeld, NextPositions, NextStagedFits DEF WriteInv

\* The empty ledger satisfies the invariant.
LEMMA InitChain == Init => ChainInv
  <1> SUFFICES ASSUME Init PROVE ChainInv
    OBVIOUS
  <1>1. TypeOK
    BY InitTypeOK
  <1>2. LockHeld /\ StagedFits
    BY DEF Init, LockHeld, StagedFits, Busy
  <1>3. PositionsHandedOut /\ ChainIntact /\ HeadTracksLog
    BY DEF Init, PositionsHandedOut, ChainIntact, HeadTracksLog, NoHead
  <1>. QED
    BY <1>1, <1>2, <1>3 DEF ChainInv, WriteInv

\* The strengthening ChainInv is an invariant of the write path: what _lock_head,
\* _append_with_head and the commit together keep true of every stream.
THEOREM ChainInvariant == Spec => []ChainInv
  <1>1. Init => ChainInv
    BY InitChain
  <1>2. ChainInv /\ [Next]_vars => ChainInv'
    BY NextWrites, NextChain DEF ChainInv
  <1>3. QED
    BY <1>1, <1>2, PTL DEF Spec

\* Type correctness of the write path.
THEOREM TypeCorrect == Spec => []TypeOK
  BY ChainInvariant, PTL DEF ChainInv, WriteInv

\* Whatever the interleaving and the crashes, the chain of every stream verifies
\* in position order: _lock_head, _append_with_head and the commit never fork it.
THEOREM ChainNeverForks == Spec => []ChainIntact
  BY ChainInvariant, PTL DEF ChainInv, WriteInv

\* The head row of a stream always names its last committed event.
THEOREM HeadNeverStale == Spec => []HeadTracksLog
  BY ChainInvariant, PTL DEF ChainInv, WriteInv

-----------------------------------------------------------------------------
(***************************************************************************)
(* Effects and answers.  AnswersAgree needs to know where an answer can    *)
(* come from: the idempotency table, or a commit whose answer is in flight *)
(* (ReplyKnown), and that the table holds one record per key.              *)
(***************************************************************************)
OneRecordPerKey ==
    \A x, y \in idem : x.app = y.app /\ x.key = y.key => x = y

ReplyKnown ==
    \A w \in Worker : pc[w] = "reply" => Result(req[w], staged[w].pos) \in idem

EffectInv ==
    ExactlyOnce /\ OneRecordPerKey /\ ReplyKnown /\ answers \subseteq idem

\* Nothing is committed under the key of a staged event.
LEMMA StagedKeyUnused ==
    ASSUME ChainInv, EffectInv, NEW w \in Worker, pc[w] = "commit"
    PROVE  /\ \A i \in DOMAIN log[req[w].app] : log[req[w].app][i].key # staged[w].key
           /\ \A x \in idem : x.app = req[w].app => x.key # req[w].key
  <1>1. staged[w].key = req[w].key /\ ~KeyTaken(req[w])
    BY DEF ChainInv, WriteInv, StagedFits
  <1>2. \A i \in DOMAIN log[req[w].app] : log[req[w].app][i].key # req[w].key
    BY <1>1 DEF KeyTaken
  <1>3. \A x \in idem : \E i \in DOMAIN log[x.app] : log[x.app][i].key = x.key
    BY DEF EffectInv, ExactlyOnce
  <1>4. QED
    BY <1>1, <1>2, <1>3

\* The committed part of a commit, as the effects see it.
LEMMA CommitLog ==
    ASSUME WriteInv, NEW w \in Worker, Commit(w)
    PROVE  LET a == req[w].app
               e == staged[w] IN
           /\ a \in App /\ a \in Stream
           /\ \A s \in Stream : s # a => log'[s] = log[s]
           /\ log'[a] = Append(log[a], e)
           /\ Len(log[a]) \in Nat
           /\ DOMAIN log[a] = 1..Len(log[a]) /\ DOMAIN log'[a] = 1..(Len(log[a]) + 1)
           /\ log'[a][Len(log[a]) + 1] = e
           /\ \A i \in DOMAIN log[a] : log'[a][i] = log[a][i]
  <1> DEFINE a == req[w].app
             e == staged[w]
  <1>1. a \in App /\ a \in Stream /\ e \in Event /\ log' = [log EXCEPT ![a] = Append(log[a], e)]
    BY CommitEffect
  <1>2. log \in [Stream -> Seq(Event)]
    BY DEF WriteInv, TypeOK
  <1>3. log'[a] = Append(log[a], e) /\ log[a] \in Seq(Event)
    BY <1>1, <1>2
  <1>4. \A s \in Stream : s # a => log'[s] = log[s]
    BY <1>1, <1>2
  <1>5. /\ Len(log[a]) \in Nat
        /\ DOMAIN log[a] = 1..Len(log[a]) /\ DOMAIN log'[a] = 1..(Len(log[a]) + 1)
        /\ log'[a][Len(log[a]) + 1] = e
        /\ \A i \in DOMAIN log[a] : log'[a][i] = log[a][i]
    BY <1>1, <1>3
  <1>6. QED
    BY <1>1, <1>3, <1>4, <1>5

\* A commit adds one effect, of a key that had none; no other step adds one.
LEMMA NextEffects == ChainInv /\ EffectInv /\ [Next]_vars => EffectInv'
  <1> SUFFICES ASSUME ChainInv, EffectInv, [Next]_vars PROVE EffectInv'
    OBVIOUS
  <1>0. \A x \in idem : x.app \in App /\ x.app \in Stream
    BY DEF ChainInv, WriteInv, TypeOK, Record, Stream
  <1>1. CASE \E w \in Worker : Commit(w)
    <2> PICK w \in Worker : Commit(w)
      BY <1>1
    <2> DEFINE a == req[w].app
               e == staged[w]
               n == Len(log[a])
               rec == Result(req[w], e.pos)
    <2>1. /\ a \in App /\ a \in Stream
          /\ \A s \in Stream : s # a => log'[s] = log[s]
          /\ n \in Nat /\ DOMAIN log[a] = 1..n /\ DOMAIN log'[a] = 1..(n + 1)
          /\ log'[a][n + 1] = e /\ \A i \in DOMAIN log[a] : log'[a][i] = log[a][i]
      BY CommitLog DEF ChainInv
    <2>2. /\ idem' = idem \cup {rec} /\ audits' = audits \cup {e.pos}
          /\ answers' = answers /\ req' = req /\ staged' = staged
          /\ pc[w] = "commit" /\ pc' = [pc EXCEPT ![w] = "reply"]
      BY DEF Commit
    <2>3. rec.app = a /\ rec.key = req[w].key /\ rec.pos = e.pos /\ e.key = req[w].key
      BY <2>2 DEF Result, ChainInv, WriteInv, StagedFits
    <2>4. /\ \A i \in DOMAIN log[a] : log[a][i].key # e.key
          /\ \A x \in idem : x.app = a => x.key # req[w].key
      BY <2>2, StagedKeyUnused
    <2>5. \A b \in App : \A i, j \in DOMAIN log'[b] : log'[b][i].key = log'[b][j].key => i = j
      <3> SUFFICES ASSUME NEW b \in App, NEW i \in DOMAIN log'[b], NEW j \in DOMAIN log'[b],
                          log'[b][i].key = log'[b][j].key
                   PROVE  i = j
        OBVIOUS
      <3>0. \A k, l \in DOMAIN log[b] : log[b][k].key = log[b][l].key => k = l
        BY DEF EffectInv, ExactlyOnce
      <3>1. CASE b # a
        BY <3>0, <3>1, <2>1 DEF Stream
      <3>2. CASE b = a
        <4>1. \A k \in DOMAIN log[a] : k # n + 1
          BY <2>1
        <4>2. \A k \in DOMAIN log'[a] : k \in DOMAIN log[a] \/ k = n + 1
          BY <2>1
        <4>3. CASE i \in DOMAIN log[a] /\ j \in DOMAIN log[a]
          BY <3>0, <3>2, <4>3, <2>1
        <4>4. CASE i = n + 1 \/ j = n + 1
          <5>1. log'[a][i].key = e.key \/ log'[a][j].key = e.key
            BY <4>4, <2>1
          <5>2. \A k \in DOMAIN log[a] : log'[a][k].key # e.key
            BY <2>1, <2>4
          <5>3. QED
            BY <5>1, <5>2, <3>2, <4>2, <2>1
        <4>5. QED
          BY <3>2, <4>2, <4>3, <4>4
      <3>3. QED
        BY <3>1, <3>2
    <2>6. \A x \in idem' : \E i \in DOMAIN log'[x.app] :
              log'[x.app][i].pos = x.pos /\ log'[x.app][i].key = x.key
      <3> SUFFICES ASSUME NEW x \in idem'
                   PROVE  \E i \in DOMAIN log'[x.app] :
                             log'[x.app][i].pos = x.pos /\ log'[x.app][i].key = x.key
        OBVIOUS
      <3>1. CASE x = rec
        <4>1. n + 1 \in DOMAIN log'[x.app]
          BY <3>1, <2>1, <2>3
        <4>2. QED
          BY <4>1, <3>1, <2>1, <2>3
      <3>2. CASE x \in idem
        <4> PICK i \in DOMAIN log[x.app] :
                log[x.app][i].pos = x.pos /\ log[x.app][i].key = x.key
          BY <3>2 DEF EffectInv, ExactlyOnce
        <4>1. i \in DOMAIN log'[x.app] /\ log'[x.app][i] = log[x.app][i]
          BY <1>0, <3>2, <2>1
        <4>2. QED
          BY <4>1
      <3>3. QED
        BY <3>1, <3>2, <2>2
    <2>7. \A b \in App : \A i \in DOMAIN log'[b] :
              log'[b][i].pos \in audits' /\ \E x \in idem' : x.app = b /\ x.pos = log'[b][i].pos
      <3> SUFFICES ASSUME NEW b \in App, NEW i \in DOMAIN log'[b]
                   PROVE  /\ log'[b][i].pos \in audits'
                          /\ \E x \in idem' : x.app = b /\ x.pos = log'[b][i].pos
        OBVIOUS
      <3>0. \A j \in DOMAIN log[b] :
               log[b][j].pos \in audits /\ \E x \in idem : x.app = b /\ x.pos = log[b][j].pos
        BY DEF EffectInv, ExactlyOnce
      <3>1. CASE b # a
        BY <3>0, <3>1, <2>1, <2>2 DEF Stream
      <3>2. CASE b = a /\ i \in DOMAIN log[a]
        BY <3>0, <3>2, <2>1, <2>2
      <3>3. CASE b = a /\ i = n + 1
        BY <3>3, <2>1, <2>2, <2>3
      <3>4. QED
        BY <3>1, <3>2, <3>3, <2>1
    <2>8. OneRecordPerKey'
      BY <2>2, <2>3, <2>4 DEF OneRecordPerKey, EffectInv
    <2>9. ReplyKnown'
      BY <2>2 DEF ReplyKnown, EffectInv, ChainInv, WriteInv, TypeOK, Result
    <2>10. answers' \subseteq idem'
      BY <2>2 DEF EffectInv
    <2>11. QED
      BY <2>5, <2>6, <2>7, <2>8, <2>9, <2>10 DEF EffectInv, ExactlyOnce
  <1>2. CASE ~\E w \in Worker : Commit(w)
    <2>1. UNCHANGED <<log, idem, audits>>
      BY <1>2, OnlyCommitWrites DEF ChainInv, WriteInv
    <2>2. ExactlyOnce' /\ OneRecordPerKey'
      BY <2>1 DEF EffectInv, ExactlyOnce, OneRecordPerKey
    <2>3. ReplyKnown'
      <3> SUFFICES ASSUME NEW v \in Worker, pc'[v] = "reply"
                   PROVE  Result(req[v], staged[v].pos)' \in idem'
        BY DEF ReplyKnown
      <3>1. pc[v] = "reply" /\ req'[v] = req[v] /\ staged'[v] = staged[v]
        BY <1>2 DEF ChainInv, WriteInv, TypeOK, Next, WorkerNext, WorkerStep, Receive, FindNothing,
           FindExisting, ResolveNothing, LockHead, RejectQuarantined, AppendEvent, LoseRace,
           Reply, Crash, Finish, SetStatus, workerVars, Quiescent, vars, ledgerVars
      <3>2. QED
        BY <3>1, <2>1 DEF EffectInv, ReplyKnown, Result
    <2>4. answers' \subseteq idem
      <3>1. CASE \E w \in Worker : FindExisting(w)
        BY <3>1 DEF FindExisting, Existing, EffectInv
      <3>2. CASE \E w \in Worker : Reply(w)
        BY <3>2 DEF Reply, EffectInv, ReplyKnown
      <3>3. CASE ~(\E w \in Worker : FindExisting(w)) /\ ~(\E w \in Worker : Reply(w))
        <4>1. answers' = answers
          BY <1>2, <3>3 DEF Next, WorkerNext, WorkerStep, Receive, FindNothing,
             ResolveNothing, LockHead, RejectQuarantined, AppendEvent, LoseRace, Crash,
             SetStatus, workerVars, Quiescent, vars, ledgerVars
        <4>2. QED
          BY <4>1 DEF EffectInv
      <3>4. QED
        BY <3>1, <3>2, <3>3
    <2>5. QED
      BY <2>1, <2>2, <2>3, <2>4 DEF EffectInv
  <1>3. QED
    BY <1>1, <1>2

\* The effects of keys (event, audit record, idempotency record, answers) agree in
\* every reachable state: the unique index and the single commit of _write.
THEOREM EffectInvariant == Spec => []EffectInv
  <1>1. Init => EffectInv
    BY DEF Init, EffectInv, ExactlyOnce, OneRecordPerKey, ReplyKnown, Stream
  <1>2. ChainInv /\ EffectInv /\ [Next]_vars => EffectInv'
    BY NextEffects
  <1>3. QED
    BY <1>1, <1>2, ChainInvariant, PTL DEF Spec

\* A key takes effect at most once per application, and completely: the lookup,
\* the unique index under the stream lock and the single commit together.
THEOREM KeysTakeEffectOnce == Spec => []ExactlyOnce
  BY EffectInvariant, PTL DEF EffectInv

\* However often a command is retried, raced or crashed, every successful answer
\* to its scope and key is the same one.
THEOREM RepliesAreStable == Spec => []AnswersAgree
  <1>1. EffectInv => AnswersAgree
    BY DEF EffectInv, OneRecordPerKey, AnswersAgree
  <1>2. QED
    BY <1>1, EffectInvariant, PTL

\* The commit's IntegrityError branch on uq_idempotency_scope_key is dead.
THEOREM CommitIsRaceFree == Spec => []CommitNeverRaces
  <1>1. ChainInv /\ EffectInv => CommitNeverRaces
    BY StagedKeyUnused DEF CommitNeverRaces, Existing
  <1>2. QED
    BY <1>1, ChainInvariant, EffectInvariant, PTL

-----------------------------------------------------------------------------
\* A worker between the lock and the commit works on an ACTIVE stream: a status
\* changes only under the row lock, which that worker holds.
ActiveWhileLocked == \A w \in Worker : Busy(w) => head[req[w].app].status = "ACTIVE"

\* A step keeps the streams of working workers ACTIVE.
LEMMA NextActive == ChainInv /\ ActiveWhileLocked /\ [Next]_vars => ActiveWhileLocked'
  <1> SUFFICES ASSUME ChainInv, ActiveWhileLocked, [Next]_vars,
                      NEW v \in Worker, Busy(v)'
               PROVE  head'[req'[v].app].status = "ACTIVE"
    BY DEF ActiveWhileLocked
  <1> USE DEF ChainInv, WriteInv, TypeOK, Busy
  <1>0. \A w \in Worker : w # NoSession
    BY SessionAssumption
  <1>1. CASE \E w \in Worker : LockHead(w)
    <2> PICK w \in Worker : LockHead(w)
      BY <1>1
    <2>1. CASE v = w
      BY <2>1 DEF LockHead
    <2>2. CASE v # w
      BY <2>2 DEF LockHead, ActiveWhileLocked
    <2>3. QED
      BY <2>1, <2>2
  <1>2. CASE \E w \in Worker : Commit(w)
    <2> PICK w \in Worker : Commit(w)
      BY <1>2
    <2>1. /\ req[w].app \in Stream /\ lock[req[w].app] = w /\ req' = req
          /\ head' = [head EXCEPT ![req[w].app] = Advanced(head[req[w].app], staged[w].pos)]
          /\ pc' = [pc EXCEPT ![w] = "reply"]
      BY CommitEffect DEF ChainInv
    <2>2. v # w /\ Busy(v)
      BY <2>1
    <2>3. lock[req[v].app] = v
      BY <2>2 DEF LockHeld
    <2>4. head'[req[v].app] = head[req[v].app]
      BY <2>1, <2>2, <2>3
    <2>5. QED
      BY <2>1, <2>2, <2>4 DEF ActiveWhileLocked
  <1>3. CASE \E a \in App : SetStatus(a)
    <2> PICK a \in App : SetStatus(a)
      BY <1>3
    <2>1. lock[a] = NoSession /\ UNCHANGED <<pc, req>>
          /\ \A s \in Stream : s # a => head'[s] = head[s]
      BY DEF SetStatus, workerVars
    <2>2. Busy(v) /\ lock[req[v].app] = v /\ req[v].app \in Stream
      BY <2>1 DEF LockHeld, Request, Stream
    <2>3. req[v].app # a
      BY <1>0, <2>1, <2>2
    <2>4. QED
      BY <2>1, <2>2, <2>3 DEF ActiveWhileLocked
  <1>4. CASE /\ ~\E w \in Worker : LockHead(w) \/ Commit(w)
             /\ ~\E a \in App : SetStatus(a)
    <2>1. Busy(v) /\ req'[v] = req[v] /\ head' = head
      BY <1>4 DEF Next, WorkerNext, WorkerStep, Receive, FindNothing, FindExisting,
         ResolveNothing, RejectQuarantined, AppendEvent, LoseRace, Reply, Crash, Finish,
         Quiescent, vars, ledgerVars
    <2>2. QED
      BY <2>1 DEF ActiveWhileLocked
  <1>5. QED
    BY <1>1, <1>2, <1>3, <1>4

\* The kill-switch holds against every writer in flight.
THEOREM QuarantineStopsWrites == Spec => KillSwitch
  <1>1. Init => ActiveWhileLocked
    BY DEF Init, ActiveWhileLocked, Busy
  <1>2. ChainInv /\ ActiveWhileLocked /\ [Next]_vars
          => [\A s \in Stream : log'[s] # log[s] => head[s].status = "ACTIVE"]_vars
    <2> SUFFICES ASSUME ChainInv, ActiveWhileLocked, [Next]_vars,
                        NEW s \in Stream, log'[s] # log[s]
                 PROVE  head[s].status = "ACTIVE"
      OBVIOUS
    <2>1. PICK w \in Worker : Commit(w)
      BY OnlyCommitWrites DEF ChainInv, WriteInv
    <2>2. log' = [log EXCEPT ![req[w].app] = Append(log[req[w].app], staged[w])]
      BY <2>1, CommitEffect DEF ChainInv
    <2>3. s = req[w].app
      BY <2>2 DEF ChainInv, WriteInv, TypeOK
    <2>4. QED
      BY <2>1, <2>3 DEF Commit, Busy, ActiveWhileLocked
  <1>3. QED
    BY <1>1, <1>2, NextActive, ChainInvariant, PTL DEF Spec, KillSwitch

-----------------------------------------------------------------------------
(***************************************************************************)
(* EventLedger implements AtomicLedger: a commit is Accept, an answer that *)
(* is new is Answer, every other step stutters.                            *)
(***************************************************************************)
\* Every event of a stream is at or before its head: the induction along the
\* chain that ChainIntact alone would need, carried as an invariant.
LogBelowHead ==
    \A s \in Stream : \A i \in DOMAIN log[s] : log[s][i].pos <= head[s].last

\* A commit appends at its new head, beyond everything in the stream.
LEMMA NextLogBelowHead == ChainInv /\ LogBelowHead /\ [Next]_vars => LogBelowHead'
  <1> SUFFICES ASSUME ChainInv, LogBelowHead, [Next]_vars PROVE LogBelowHead'
    OBVIOUS
  <1>1. CASE \E w \in Worker : Commit(w)
    <2> PICK w \in Worker : Commit(w)
      BY <1>1
    <2> DEFINE a == req[w].app
               e == staged[w]
    <2>1. /\ a \in Stream /\ e \in Event /\ e.prev = head[a].last /\ e.prev < e.pos
          /\ head' = [head EXCEPT ![a] = Advanced(head[a], e.pos)]
      BY CommitEffect DEF ChainInv
    <2>2. /\ \A s \in Stream : s # a => log'[s] = log[s]
          /\ Len(log[a]) \in Nat
          /\ DOMAIN log[a] = 1..Len(log[a]) /\ DOMAIN log'[a] = 1..(Len(log[a]) + 1)
          /\ log'[a][Len(log[a]) + 1] = e
          /\ \A i \in DOMAIN log[a] : log'[a][i] = log[a][i]
      BY CommitLog DEF ChainInv
    <2>3. /\ \A s \in Stream : s # a => head'[s] = head[s]
          /\ head'[a].last = e.pos
      BY <2>1 DEF ChainInv, WriteInv, TypeOK, Advanced
    <2>4. log[a] \in Seq(Event) /\ head[a].last \in Nat /\ e.pos \in Nat
      BY <2>1 DEF ChainInv, WriteInv, TypeOK, HeadRow, Event
    <2>5. \A i \in DOMAIN log[a] : log[a][i].pos \in Nat /\ log[a][i].pos <= head[a].last
      <3>1. \A i \in DOMAIN log[a] : log[a][i] \in Event
        BY <2>4
      <3>2. \A i \in DOMAIN log[a] : log[a][i].pos <= head[a].last
        BY <2>1 DEF LogBelowHead
      <3>3. QED
        BY <3>1, <3>2 DEF Event
    <2>6. \A i \in DOMAIN log'[a] : log'[a][i].pos <= e.pos
      <3> SUFFICES ASSUME NEW i \in DOMAIN log'[a] PROVE log'[a][i].pos <= e.pos
        OBVIOUS
      <3>1. CASE i \in DOMAIN log[a]
        <4>1. log'[a][i] = log[a][i]
          BY <3>1, <2>2
        <4>2. log[a][i].pos \in Nat /\ log[a][i].pos <= head[a].last
          BY <3>1, <2>5
        <4>3. head[a].last < e.pos
          BY <2>1
        <4> HIDE DEF a, e
        <4>4. QED
          BY <4>1, <4>2, <4>3, <2>4
      <3>2. CASE i = Len(log[a]) + 1
        BY <3>2, <2>2, <2>4
      <3>3. QED
        BY <3>1, <3>2, <2>2
    <2>7. QED
      BY <2>2, <2>3, <2>6 DEF LogBelowHead
  <1>2. CASE ~\E w \in Worker : Commit(w)
    BY <1>2, OnlyCommitWrites DEF LogBelowHead, ChainInv, WriteInv
  <1>3. QED
    BY <1>1, <1>2

\* No committed event of a stream lies beyond its head.
LEMMA LogStaysBelowHead == Spec => []LogBelowHead
  <1>1. Init => LogBelowHead
    BY DEF Init, LogBelowHead
  <1>2. QED
    BY <1>1, NextLogBelowHead, ChainInvariant, PTL DEF Spec

\* Nothing committed is ever changed, and what is appended lies beyond it.
THEOREM HistoryIsKept == Spec => AppendOnly
  <1>1. ChainInv /\ LogBelowHead /\ [Next]_vars
          => [\A s \in Stream :
                /\ Len(log[s]) <= Len(log'[s])
                /\ \A i \in DOMAIN log[s] :
                      /\ log'[s][i] = log[s][i]
                      /\ \A j \in Len(log[s]) + 1 .. Len(log'[s]) :
                            log[s][i].pos < log'[s][j].pos]_log
    <2> SUFFICES ASSUME ChainInv, LogBelowHead, [Next]_vars, log' # log, NEW s \in Stream
                 PROVE  /\ Len(log[s]) <= Len(log'[s])
                        /\ \A i \in DOMAIN log[s] :
                              /\ log'[s][i] = log[s][i]
                              /\ \A j \in Len(log[s]) + 1 .. Len(log'[s]) :
                                    log[s][i].pos < log'[s][j].pos
      OBVIOUS
    <2>1. PICK w \in Worker : Commit(w)
      BY OnlyCommitWrites DEF ChainInv, WriteInv
    <2> DEFINE a == req[w].app
               e == staged[w]
    <2>2. log[s] \in Seq(Event) /\ head[s].last \in Nat
      BY DEF ChainInv, WriteInv, TypeOK, HeadRow
    <2>3. CASE s # a
      <3>1. log'[s] = log[s]
        BY <2>1, <2>3, CommitLog DEF ChainInv
      <3>2. Len(log[s]) \in Nat
        BY <2>2
      <3>3. QED
        BY <3>1, <3>2
    <2>4. CASE s = a
      <3>1. /\ Len(log[s]) \in Nat
            /\ Len(log'[s]) = Len(log[s]) + 1
            /\ log'[s][Len(log[s]) + 1] = e
            /\ \A i \in DOMAIN log[s] : log'[s][i] = log[s][i]
        BY <2>1, <2>2, <2>4, CommitEffect, CommitLog DEF ChainInv
      <3>2. e.pos \in Nat /\ head[s].last < e.pos
        BY <2>1, <2>4, CommitEffect DEF Event, ChainInv
      <3>3. \A i \in DOMAIN log[s] : log[s][i].pos \in Nat /\ log[s][i].pos <= head[s].last
        <4>1. \A i \in DOMAIN log[s] : log[s][i] \in Event
          BY <2>2
        <4>2. QED
          BY <4>1 DEF Event, LogBelowHead
      <3> HIDE DEF a, e
      <3>4. \A i \in DOMAIN log[s] : log[s][i].pos < e.pos
        <4> TAKE i \in DOMAIN log[s]
        <4>1. log[s][i].pos \in Nat /\ log[s][i].pos <= head[s].last
          BY <3>3
        <4>2. QED
          BY <2>2, <3>2, <4>1
      <3>5. \A j \in Len(log[s]) + 1 .. Len(log'[s]) : j = Len(log[s]) + 1
        BY <3>1
      <3>6. QED
        BY <3>1, <3>4, <3>5
    <2>5. QED
      BY <2>3, <2>4
  <1>2. QED
    BY <1>1, ChainInvariant, LogStaysBelowHead, PTL DEF Spec, AppendOnly

\* The positions of a stream after an append are those before it, and the new one.
LEMMA PositionsAppend ==
    ASSUME NEW S, NEW q \in Seq(S), NEW e \in S
    PROVE  [i \in DOMAIN Append(q, e) |-> Append(q, e)[i].pos]
             = Append([i \in DOMAIN q |-> q[i].pos], e.pos)
  <1> DEFINE P == [i \in DOMAIN q |-> q[i].pos]
             L == [i \in DOMAIN Append(q, e) |-> Append(q, e)[i].pos]
             T == {q[i].pos : i \in DOMAIN q}
             R == Append(P, e.pos)
  <1>1. DOMAIN q = 1..Len(q) /\ Len(q) \in Nat
    OBVIOUS
  <1>2. P \in Seq(T) /\ Len(P) = Len(q)
    BY <1>1
  <1>3. /\ DOMAIN R = 1..(Len(q) + 1) /\ R[Len(q) + 1] = e.pos
        /\ \A i \in 1..Len(q) : R[i] = q[i].pos
    BY <1>1, <1>2
  <1>4. /\ DOMAIN L = 1..(Len(q) + 1) /\ L[Len(q) + 1] = e.pos
        /\ \A i \in 1..Len(q) : L[i] = q[i].pos
    BY <1>1
  <1>5. \A i \in 1..(Len(q) + 1) : L[i] = R[i]
    <2> SUFFICES ASSUME NEW i \in 1..(Len(q) + 1) PROVE L[i] = R[i]
      OBVIOUS
    <2>1. i \in 1..Len(q) \/ i = Len(q) + 1
      BY <1>1
    <2>2. QED
      BY <2>1, <1>3, <1>4
  <1>6. L = [i \in 1..(Len(q) + 1) |-> L[i]] /\ R = [i \in 1..(Len(q) + 1) |-> R[i]]
    BY <1>1, <1>2, <1>3, <1>4
  <1>7. QED
    BY <1>5, <1>6

\* A committing worker performs Accept.
LEMMA CommitAccepts ==
    ASSUME ChainInv, EffectInv, LogBelowHead, NEW w \in Worker, Commit(w)
    PROVE  Ledger!Next
  <1> DEFINE a == req[w].app
             e == staged[w]
             x == Result(req[w], e.pos)
             H == [b \in App |-> [i \in DOMAIN log[b] |-> log[b][i].pos]]
  <1>1. /\ a \in App /\ a \in Stream /\ req[w] \in Request /\ e \in Event
        /\ e.prev = head[a].last /\ e.prev < e.pos
        /\ log' = [log EXCEPT ![a] = Append(log[a], e)]
    BY CommitEffect DEF ChainInv
  <1>2. pc[w] = "commit" /\ idem' = idem \cup {x} /\ answers' = answers
    BY DEF Commit
  <1>3. x.app = a /\ x.key = req[w].key /\ x.pos = e.pos /\ x \in Ledger!Record
    BY <1>1 DEF Result, Ledger!Record, Request, Event
  <1>4. \A y \in idem : y.app = a => y.key # x.key
    BY <1>2, <1>3, StagedKeyUnused
  <1>5. x \in idem' \ idem
    BY <1>2, <1>3, <1>4
  <1>6. \A i \in DOMAIN H[a] : H[a][i] < x.pos
    <2>1. log[a] \in Seq(Event) /\ head[a].last \in Nat /\ e.pos \in Nat
      BY <1>1 DEF ChainInv, WriteInv, TypeOK, HeadRow, Event
    <2>2. H[a] = [i \in DOMAIN log[a] |-> log[a][i].pos]
      BY <1>1
    <2>3. \A i \in DOMAIN log[a] : log[a][i].pos \in Nat /\ log[a][i].pos <= head[a].last
      <3>1. \A i \in DOMAIN log[a] : log[a][i] \in Event
        BY <2>1
      <3>2. \A i \in DOMAIN log[a] : log[a][i].pos <= head[a].last
        BY <1>1 DEF LogBelowHead
      <3>3. QED
        BY <3>1, <3>2 DEF Event
    <2>4. QED
      BY <1>1, <1>3, <2>1, <2>2, <2>3
  <1>7. H' = [H EXCEPT ![a] = Append(H[a], x.pos)]
    <2>1. log \in [Stream -> Seq(Event)] /\ App \subseteq Stream
      BY DEF ChainInv, WriteInv, TypeOK, Stream
    <2>2. H'[a] = Append(H[a], x.pos)
      <3>1. log'[a] = Append(log[a], e)
        BY <1>1, <2>1
      <3>2. log[a] \in Seq(Event)
        BY <1>1, <2>1
      <3>3. H'[a] = [i \in DOMAIN Append(log[a], e) |-> Append(log[a], e)[i].pos]
        BY <1>1, <3>1
      <3>4. H[a] = [i \in DOMAIN log[a] |-> log[a][i].pos]
        BY <1>1
      <3>5. [i \in DOMAIN Append(log[a], e) |-> Append(log[a], e)[i].pos]
               = Append([i \in DOMAIN log[a] |-> log[a][i].pos], e.pos)
        <4> DEFINE q == log[a]
        <4> HIDE DEF q, e
        <4>1. q \in Seq(Event) /\ e \in Event
          BY <3>2, <1>1 DEF q
        <4>2. [i \in DOMAIN Append(q, e) |-> Append(q, e)[i].pos]
                 = Append([i \in DOMAIN q |-> q[i].pos], e.pos)
          BY <4>1, PositionsAppend
        <4>3. QED
          BY <4>2 DEF q
      <3> HIDE DEF H, a, e, x
      <3>6. QED
        BY <3>3, <3>4, <3>5, <1>3
    <2>3. \A b \in App : b # a => H'[b] = H[b]
      BY <1>1, <2>1
    <2>4. QED
      BY <2>2, <2>3, <1>1
  <1> HIDE DEF x
  <1>8. PICK y : y = x
    OBVIOUS
  <1>9. Ledger!Accept(y)
    BY <1>2, <1>3, <1>4, <1>6, <1>7, <1>8 DEF Ledger!Accept
  <1>10. y \in idem' \ idem /\ y \in Ledger!Record
    BY <1>3, <1>5, <1>8
  <1>11. QED
    BY <1>9, <1>10 DEF Ledger!Next

\* Any other step changes at most the answers, by a record that is an effect.
LEMMA OtherStepsAnswer ==
    ASSUME ChainInv, EffectInv, [Next]_vars, ~\E w \in Worker : Commit(w)
    PROVE  Ledger!Next \/ UNCHANGED Ledger!vars
  <1>1. UNCHANGED <<log, idem>>
    BY OnlyCommitWrites DEF ChainInv, WriteInv
  <1> DEFINE H == [b \in App |-> [i \in DOMAIN log[b] |-> log[b][i].pos]]
  <1>2. H' = H
    BY <1>1
  <1>3. answers' = answers \/ \E x \in idem : answers' = answers \cup {x}
    <2>1. CASE \E w \in Worker : FindExisting(w)
      BY <2>1 DEF FindExisting, Existing
    <2>2. CASE \E w \in Worker : Reply(w)
      BY <2>2 DEF Reply, EffectInv, ReplyKnown
    <2>3. CASE ~(\E w \in Worker : FindExisting(w)) /\ ~(\E w \in Worker : Reply(w))
      BY <2>3 DEF Next, WorkerNext, WorkerStep, Receive, FindNothing,
         ResolveNothing, LockHead, RejectQuarantined, AppendEvent, LoseRace, Crash,
         SetStatus, workerVars, Quiescent, vars, ledgerVars
    <2>4. QED
      BY <2>1, <2>2, <2>3
  <1>4. CASE answers' = answers
    BY <1>1, <1>2, <1>4 DEF Ledger!vars
  <1>5. CASE answers' # answers
    <2> PICK x \in idem : answers' = answers \cup {x}
      BY <1>3, <1>5
    <2>1. x \in answers' \ answers
      BY <1>5
    <2>2. Ledger!Answer(x)
      BY <1>1, <1>2 DEF Ledger!Answer
    <2>3. QED
      BY <2>1, <2>2 DEF Ledger!Next
  <1>6. QED
    BY <1>4, <1>5

\* The write path implements the atomic ledger: whatever sessions interleave,
\* race, crash or are retried, clients see single atomic effects.
THEOREM LedgerRefinement == Spec => ImplementsAtomicLedger
  <1>1. Init => Ledger!Init
    <2> SUFFICES ASSUME Init PROVE Ledger!Init
      OBVIOUS
    <2>1. \A b \in App : [i \in DOMAIN log[b] |-> log[b][i].pos] = <<>>
      BY DEF Init, Stream
    <2>2. QED
      BY <2>1 DEF Init, Ledger!Init
  <1>2. ChainInv /\ EffectInv /\ LogBelowHead /\ [Next]_vars => [Ledger!Next]_(Ledger!vars)
    BY CommitAccepts, OtherStepsAnswer
  <1>3. QED
    BY <1>1, <1>2, ChainInvariant, EffectInvariant, LogStaysBelowHead, PTL
    DEF Spec, ImplementsAtomicLedger, Ledger!Spec
=============================================================================

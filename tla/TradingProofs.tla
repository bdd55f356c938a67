---------------------------- MODULE TradingProofs ----------------------------
(***************************************************************************)
(* Proofs about TradingAssessment for every set of workers, keys and       *)
(* hashes.  The inductive invariant is TypeOK with Ownership, which says   *)
(* who may write for a key and what is on file at each of its steps.       *)
(***************************************************************************)
EXTENDS TradingAssessment, TLAPS

\* Who writes: a worker at work on a key holds its pending claim, alone.
SoleOwner ==
    \A w \in Worker : pc[w] \in Owning =>
        /\ req[w] \in Request /\ claim[req[w].key] = Pending(req[w].hash)
        /\ \A v \in Worker : pc[v] \in Owning /\ req[v].key = req[w].key => v = w

\* The records of a file that were written to the end.
Lined(s) == {s[i].row : i \in {j \in DOMAIN s : ~s[j].open}}

\* No assessment of a key was ever written, not even a part of one.
Unassessed(k) == \A i \in DOMAIN assessments : assessments[i].row.key # k

\* What the files hold: nothing of a key before its owner has written, its own afterwards.
FilesFollow ==
    \A w \in Worker :
        /\ pc[w] \in {"observe", "assess"} => Unassessed(req[w].key)
        /\ pc[w] \in {"assess", "mirror", "complete"} => req[w] \in Lined(observations)
        /\ pc[w] \in {"mirror", "complete"} => req[w] \in Lined(assessments)
        /\ pc[w] = "complete" => req[w] \in Lined(mirror)

\* Only a record behind a torn one cannot be read though it is whole.
Glued(s) == \A i \in DOMAIN s : ~s[i].ok /\ ~s[i].open => i - 1 \in TornIn(s)
FilesGlued == Glued(observations) /\ Glued(assessments) /\ Glued(mirror)

\* Every file holds it, to the end.
InAll(x) == x \in Lined(observations) /\ x \in Lined(assessments) /\ x \in Lined(mirror)

\* A key nobody has claimed has no assessment, and a complete claim names the
\* one that all files hold.
ClaimsFollow ==
    \A k \in Key :
        /\ claim[k] = NoClaim => Unassessed(k)
        /\ \A h \in Hash, n \in Nat : claim[k] = Complete(h, n) => InAll([key |-> k, hash |-> h, id |-> n])

\* What is about to be answered is what the claim says.
RepliesFollow ==
    \A w \in Worker : pc[w] = "reply" =>
        /\ req[w] \in Request
        /\ claim[req[w].key] = Complete(req[w].hash, req[w].id)

\* What was answered is in every file, and the claim says so.
AnswersFollow == \A x \in answers : claim[x.key] = Complete(x.hash, x.id) /\ InAll(x)

Requested == \A w \in Worker : pc[w] # "idle" => req[w] \in Request

TradingInv ==
    /\ TypeOK /\ Requested /\ SoleOwner /\ FilesFollow /\ ClaimsFollow /\ RepliesFollow
    /\ OneAssessmentPerKey /\ AnswersFollow /\ FilesGlued

\* The four kinds of claim differ, and a complete one gives back what it holds.
LEMMA ClaimKinds ==
    /\ NoClaim.status = "NONE"
    /\ \A h : Pending(h).status = "PENDING" /\ Pending(h).hash = h
    /\ \A h : Failed(h).status = "FAILED" /\ Failed(h).hash = h
    /\ \A h, n : Complete(h, n).status = "COMPLETE" /\ Complete(h, n).hash = h
                 /\ Complete(h, n).id = n
    /\ \A c \in Claim : c.status = "COMPLETE" =>
          c.hash \in Hash /\ c.id \in Nat /\ c = Complete(c.hash, c.id)
  BY DEF NoClaim, Pending, Failed, Complete, Claim

\* What an append does to a file, whether it is cut short or not.
Grows(s, t, r) ==
    \E p \in [row : Request, ok : BOOLEAN, open : BOOLEAN] :
        p.row = r /\ (~p.ok /\ ~p.open => IsOpen(s)) /\ t = Append(s, p)

\* An append is one or the other.
LEMMA AppendGrows ==
    ASSUME NEW s, NEW r \in Request
    PROVE  /\ Grows(s, Append(s, Whole(s, r)), r)
           /\ \A whole \in BOOLEAN : Grows(s, Append(s, Torn(s, r, whole)), r)
  <1> DEFINE P == [row : Request, ok : BOOLEAN, open : BOOLEAN]
  <1>1. ASSUME NEW p \in P, p.row = r, ~p.ok /\ ~p.open => IsOpen(s) PROVE Grows(s, Append(s, p), r)
    BY <1>1 DEF Grows
  <1>2. Whole(s, r) \in P /\ Whole(s, r).row = r /\ (~Whole(s, r).ok => IsOpen(s))
    BY DEF Whole
  <1>3. ASSUME NEW whole \in BOOLEAN
        PROVE  Torn(s, r, whole) \in P /\ Torn(s, r, whole).row = r /\ Torn(s, r, whole).open
    BY DEF Torn
  <1> HIDE DEF P
  <1>. QED
    BY <1>1, <1>2, <1>3

\* The records a file holds stay, and one more stands behind them.
LEMMA GrownFile ==
    ASSUME NEW s \in Pieces(Request), NEW t, NEW r, Grows(s, t, r)
    PROVE  /\ t \in Pieces(Request)
           /\ \A i \in DOMAIN s : i \in DOMAIN t /\ t[i] = s[i]
           /\ DOMAIN t = DOMAIN s \cup {Len(s) + 1} /\ t[Len(s) + 1].row = r
           /\ Lined(s) \subseteq Lined(t)
           /\ Glued(s) => Glued(t)
  <1> DEFINE P == [row : Request, ok : BOOLEAN, open : BOOLEAN]
  <1>1. PICK p \in P : p.row = r /\ (~p.ok /\ ~p.open => IsOpen(s)) /\ t = Append(s, p)
    BY DEF Grows
  <1>2. s \in Seq(P)
    BY DEF Pieces
  <1> HIDE DEF P
  <1>3. /\ t \in Seq(P) /\ Len(s) \in Nat /\ DOMAIN s = 1 .. Len(s) /\ DOMAIN t = 1 .. Len(s) + 1
        /\ t[Len(s) + 1] = p /\ \A i \in 1 .. Len(s) : t[i] = s[i]
    BY <1>1, <1>2
  <1>4. \A i \in DOMAIN s : i \in DOMAIN t /\ t[i] = s[i]
    BY <1>3
  <1>5. DOMAIN t = DOMAIN s \cup {Len(s) + 1} /\ t[Len(s) + 1].row = r
    BY <1>1, <1>3
  <1>6. Lined(s) \subseteq Lined(t)
    BY <1>4 DEF Lined
  <1>7. ASSUME Glued(s), NEW i \in DOMAIN t, ~t[i].ok, ~t[i].open PROVE i - 1 \in TornIn(t)
    <2>1. CASE i \in DOMAIN s
      BY <1>4, <1>7, <2>1 DEF Glued, TornIn
    <2>2. CASE i = Len(s) + 1
      <3>1. IsOpen(s)
        BY <1>1, <1>3, <1>7, <2>2
      <3>2. Len(s) \in DOMAIN s /\ s[Len(s)].open
        BY <1>2, <1>3, <3>1 DEF IsOpen
      <3>3. i - 1 = Len(s)
        BY <1>3, <2>2
      <3>. QED
        BY <1>4, <3>2, <3>3 DEF TornIn
    <2>. QED
      BY <1>5, <2>1, <2>2
  <1>. QED
    BY <1>3, <1>4, <1>5, <1>6, <1>7 DEF P, Pieces, Glued

\* A record that is written to the end.
LEMMA WholeIsLined ==
    ASSUME NEW s \in Pieces(Request), NEW r \in Request
    PROVE  r \in Lined(Append(s, Whole(s, r)))
  <1> DEFINE P == [row : Request, ok : BOOLEAN, open : BOOLEAN]
             p == Whole(s, r)
  <1>1. s \in Seq(P) /\ p.row = r /\ ~p.open
    BY DEF Pieces, Whole
  <1> HIDE DEF P, p
  <1>2. Len(s) + 1 \in DOMAIN Append(s, p) /\ Append(s, p)[Len(s) + 1] = p
    BY <1>1
  <1>3. r \in Lined(Append(s, p))
    BY <1>1, <1>2 DEF Lined
  <1>. QED
    BY <1>3 DEF p

\* An empty table and empty files satisfy the invariant.
LEMMA InitTrading == Init => TradingInv
  <1> SUFFICES ASSUME Init PROVE TradingInv
    OBVIOUS
  <1>1. DOMAIN <<>> = {} /\ \A S : <<>> \in Seq(S)
    OBVIOUS
  <1>2. observations = <<>> /\ assessments = <<>> /\ mirror = <<>>
    BY DEF Init
  <1>3. TypeOK
    BY <1>1, <1>2, BoundAssumption DEF Init, TypeOK, Claim, NoClaim, NoRequest, Owning, Pieces
  <1>4. FilesGlued /\ OneAssessmentPerKey /\ \A k : Unassessed(k)
    BY <1>1, <1>2 DEF FilesGlued, Glued, OneAssessmentPerKey, Unassessed
  <1>5. Requested /\ SoleOwner /\ FilesFollow /\ RepliesFollow /\ AnswersFollow
    BY DEF Init, Requested, SoleOwner, FilesFollow, RepliesFollow, AnswersFollow, Owning
  <1>6. ClaimsFollow
    BY <1>4 DEF Init, ClaimsFollow, NoClaim, Complete
  <1>. QED
    BY <1>3, <1>4, <1>5, <1>6 DEF TradingInv

\* Of the files a step changes at most one, by an append of the request of its worker.
Appends(w) ==
    \/ UNCHANGED fileVars
    \/ /\ pc[w] = "observe" /\ Grows(observations, observations', req[w]) /\ UNCHANGED <<assessments, mirror>>
    \/ /\ pc[w] = "assess" /\ Grows(assessments, assessments', req[w]) /\ UNCHANGED <<observations, mirror>>
       /\ pc'[w] \notin {"claim", "observe", "assess"}
    \/ /\ pc[w] = "mirror" /\ Grows(mirror, mirror', req[w]) /\ UNCHANGED <<observations, assessments>>

\* A step of one worker.
Step(w) ==
    \/ \E k \in Key, h \in Hash : Receive(w, k, h)
    \/ WorkerStep(w) \/ Tear(w) \/ Raise(w) \/ Crash(w)

\* Nothing is ever taken from a file.
LEMMA StepAppends ==
    ASSUME TradingInv, NEW w \in Worker, Step(w)
    PROVE  /\ Appends(w)
           /\ \A x : InAll(x) => InAll(x)'
           /\ Lined(observations) \subseteq Lined(observations') /\ Lined(assessments) \subseteq Lined(assessments')
           /\ Lined(mirror) \subseteq Lined(mirror') /\ FilesGlued'
           /\ observations' \in Pieces(Request) /\ assessments' \in Pieces(Request)
           /\ mirror' \in Pieces(Request)
  <1>0. /\ TypeOK /\ Requested /\ FilesGlued
        /\ observations \in Pieces(Request) /\ assessments \in Pieces(Request) /\ mirror \in Pieces(Request)
    BY DEF TradingInv, TypeOK
  <1>1. Appends(w)
    <2>1. CASE SaveObservation(w)
      BY <1>0, <2>1, AppendGrows DEF SaveObservation, Appends, Requested
    <2>2. CASE SaveAssessment(w)
      <3>1. pc'[w] = "mirror" /\ req[w] \in Request /\ pc[w] = "assess"
        BY <1>0, <2>2 DEF SaveAssessment, Goto, TypeOK, Requested
      <3>2. Grows(assessments, assessments', req[w]) /\ UNCHANGED <<observations, mirror>>
        BY <2>2, <3>1, AppendGrows DEF SaveAssessment
      <3>. QED
        BY <3>1, <3>2 DEF Appends
    <2>3. CASE SaveMirror(w)
      BY <1>0, <2>3, AppendGrows DEF SaveMirror, Appends, Requested
    <2>4. CASE Tear(w)
      <3>1. req[w] \in Request
        BY <1>0, <2>4 DEF Tear, Requested
      <3>2. pc'[w] \in {"fail", "idle"}
        BY <1>0, <2>4 DEF Tear, CutShort, Goto, Finish, TypeOK
      <3>3. ASSUME NEW s, NEW t, NEW whole \in BOOLEAN, t = Append(s, Torn(s, req[w], whole))
            PROVE  Grows(s, t, req[w])
        BY <3>1, <3>3, AppendGrows
      <3>. QED
        BY <2>4, <3>2, <3>3 DEF Tear, CutShort, Appends
    <2>5. CASE ~SaveObservation(w) /\ ~SaveAssessment(w) /\ ~SaveMirror(w) /\ ~Tear(w)
      BY <2>5 DEF Step, WorkerStep, Receive, ClaimNew, Replay, Conflict, Wait, Stall, Refuse,
         CompleteClaim, Reply, MarkFailed, Raise, Crash, fileVars, Appends
    <2>. QED
      BY <2>1, <2>2, <2>3, <2>4, <2>5
  <1>2. ASSUME NEW s \in Pieces(Request), NEW t, s = t \/ Grows(s, t, req[w])
        PROVE  t \in Pieces(Request) /\ Lined(s) \subseteq Lined(t) /\ (Glued(s) => Glued(t))
    BY <1>2, GrownFile
  <1>3. /\ observations' = observations \/ Grows(observations, observations', req[w])
        /\ assessments' = assessments \/ Grows(assessments, assessments', req[w])
        /\ mirror' = mirror \/ Grows(mirror, mirror', req[w])
    BY <1>1 DEF Appends, fileVars
  <1>4. /\ observations' \in Pieces(Request) /\ Lined(observations) \subseteq Lined(observations')
        /\ Glued(observations) => Glued(observations')
    BY <1>0, <1>2, <1>3
  <1>5. /\ assessments' \in Pieces(Request) /\ Lined(assessments) \subseteq Lined(assessments')
        /\ Glued(assessments) => Glued(assessments')
    BY <1>0, <1>2, <1>3
  <1>6. /\ mirror' \in Pieces(Request) /\ Lined(mirror) \subseteq Lined(mirror')
        /\ Glued(mirror) => Glued(mirror')
    BY <1>0, <1>2, <1>3
  <1>7. \A x : InAll(x) => InAll(x)'
    BY <1>4, <1>5, <1>6 DEF InAll
  <1>. QED
    BY <1>0, <1>1, <1>4, <1>5, <1>6, <1>7 DEF FilesGlued

\* Every step keeps the bridge well typed, and a worker at work has a request.
LEMMA NextType == TradingInv /\ [Next]_vars => TypeOK' /\ Requested'
  <1> SUFFICES ASSUME TradingInv, [Next]_vars PROVE TypeOK' /\ Requested'
    OBVIOUS
  <1> USE DEF TradingInv, TypeOK, Requested
  <1>1. CASE \E w \in Worker, k \in Key, h \in Hash : Receive(w, k, h)
    BY <1>1, BoundAssumption DEF Receive, Goto, Request, fileVars, Owning
  <1>2. CASE \E w \in Worker : ClaimNew(w)
    BY <1>2 DEF ClaimNew, Goto, Request, fileVars, Claim, Pending, Owning
  <1>3. CASE \E w \in Worker : Replay(w)
    <2> PICK w \in Worker : Replay(w)
      BY <1>3
    <2>1. req[w] \in Request /\ claim[req[w].key] \in Claim
      BY DEF Replay, Request
    <2>2. claim[req[w].key].id \in Nat
      BY <2>1 DEF Replay, Claim, NoClaim
    <2>3. QED
      BY <2>1, <2>2 DEF Replay, Finish, Goto, Request, fileVars
  <1>4. CASE \E w \in Worker : Conflict(w) \/ Wait(w) \/ Stall(w) \/ Refuse(w) \/ Raise(w) \/ Crash(w)
    BY <1>4 DEF Conflict, Wait, Stall, Refuse, Raise, Crash, Finish, Goto, fileVars, Owning
  <1>5. CASE \E w \in Worker : SaveObservation(w) \/ SaveAssessment(w) \/ SaveMirror(w)
    <2> PICK w \in Worker : SaveObservation(w) \/ SaveAssessment(w) \/ SaveMirror(w)
      BY <1>5
    <2>1. /\ observations' \in Pieces(Request) /\ assessments' \in Pieces(Request)
          /\ mirror' \in Pieces(Request)
      BY StepAppends DEF Step, WorkerStep
    <2>2. claim' = claim /\ issued' = issued /\ answers' = answers /\ req' = req
          /\ pc[w] # "idle" /\ \E at \in {"assess", "mirror", "complete"} : Goto(w, at)
      BY DEF SaveObservation, SaveAssessment, SaveMirror
    <2>. QED
      BY <2>1, <2>2 DEF Goto, Owning
  <1>10. CASE \E w \in Worker : Tear(w)
    <2> PICK w \in Worker : Tear(w)
      BY <1>10
    <2>1. /\ observations' \in Pieces(Request) /\ assessments' \in Pieces(Request)
          /\ mirror' \in Pieces(Request)
      BY StepAppends DEF Step
    <2>2. claim' = claim /\ issued' = issued /\ answers' = answers /\ pc[w] # "idle"
      BY DEF Tear, CutShort
    <2>3. CASE Goto(w, "fail") /\ req' = req
      BY <2>1, <2>2, <2>3 DEF Goto, Owning
    <2>4. CASE Finish(w)
      BY <2>1, <2>2, <2>4 DEF Finish, Goto, Owning
    <2>. QED
      BY <2>3, <2>4 DEF Tear, CutShort
  <1>11. CASE \E w \in Worker : Reply(w)
    BY <1>11 DEF Reply, Finish, Goto, fileVars, Owning
  <1>6. CASE \E w \in Worker : CompleteClaim(w)
    BY <1>6 DEF CompleteClaim, Goto, fileVars, Request, Claim, Complete
  <1>7. CASE \E w \in Worker : MarkFailed(w)
    BY <1>7 DEF MarkFailed, Finish, Goto, fileVars, Request, Claim, Failed
  <1>8. CASE UNCHANGED vars
    BY <1>8 DEF vars
  <1>9. QED
    BY <1>1, <1>2, <1>3, <1>4, <1>5, <1>6, <1>7, <1>8, <1>10, <1>11 DEF Next, WorkerStep, Quiescent

\* A step of one worker leaves the others alone, and touches no claim but that of its
\* own key.
LEMMA StepIsLocal ==
    ASSUME TradingInv, NEW w \in Worker, Step(w)
    PROVE  /\ \A v \in Worker \ {w} : pc'[v] = pc[v] /\ req'[v] = req[v]
           /\ \A k \in Key : claim'[k] # claim[k] => pc[w] # "idle" /\ k = req[w].key
  <1> USE DEF TradingInv, TypeOK, Requested
  <1>1. \A v \in Worker \ {w} : pc'[v] = pc[v] /\ req'[v] = req[v]
    <2> SUFFICES ASSUME NEW v \in Worker, v # w PROVE pc'[v] = pc[v] /\ req'[v] = req[v]
      OBVIOUS
    <2>1. CASE \E k \in Key, h \in Hash : Receive(w, k, h)
      BY <2>1 DEF Receive, Goto
    <2>2. CASE WorkerStep(w)
      BY <2>2 DEF WorkerStep, ClaimNew, Replay, Conflict, Wait, Stall, Refuse, SaveObservation,
         SaveAssessment, SaveMirror, CompleteClaim, Reply, MarkFailed, Finish, Goto
    <2>3. CASE Tear(w) \/ Raise(w) \/ Crash(w)
      BY <2>3 DEF Tear, CutShort, Raise, Crash, Finish, Goto
    <2>4. QED
      BY <2>1, <2>2, <2>3 DEF Step
  <1>2. \A k \in Key : claim'[k] # claim[k] => pc[w] # "idle" /\ k = req[w].key
    BY DEF Step, WorkerStep, Receive, ClaimNew, Replay, Conflict, Wait, Stall, Refuse, SaveObservation,
       SaveAssessment, SaveMirror, CompleteClaim, Reply, MarkFailed, Tear, CutShort, Raise, Crash
  <1>4. QED
    BY <1>1, <1>2

\* What is on file of a key changes only when its owner writes its assessment.
LEMMA StepAssessments ==
    ASSUME TradingInv, NEW w \in Worker, Step(w)
    PROVE  /\ \A k : Unassessed(k) => Unassessed(k)' \/ (pc[w] = "assess" /\ k = req[w].key)
           /\ OneAssessmentPerKey'
  <1> USE DEF TradingInv
  <1>1. Appends(w)
    BY StepAppends
  <1>2. CASE assessments' = assessments
    BY <1>2 DEF Unassessed, OneAssessmentPerKey
  <1>3. CASE assessments' # assessments
    <2>1. pc[w] = "assess" /\ Grows(assessments, assessments', req[w])
      BY <1>1, <1>3 DEF Appends, fileVars
    <2>2. /\ \A i \in DOMAIN assessments : assessments'[i] = assessments[i]
          /\ DOMAIN assessments' = DOMAIN assessments \cup {Len(assessments) + 1}
          /\ assessments'[Len(assessments) + 1].row = req[w]
      <3>1. assessments \in Pieces(Request)
        BY DEF TypeOK
      <3>2. ASSUME NEW s \in Pieces(Request), NEW t, Grows(s, t, req[w])
            PROVE  /\ \A i \in DOMAIN s : t[i] = s[i]
                   /\ DOMAIN t = DOMAIN s \cup {Len(s) + 1} /\ t[Len(s) + 1].row = req[w]
        BY <3>2, GrownFile
      <3>. QED
        BY <2>1, <3>1, <3>2
    <2>3. Unassessed(req[w].key)
      BY <2>1 DEF FilesFollow
    <2>4. OneAssessmentPerKey'
      BY <2>2, <2>3 DEF OneAssessmentPerKey, Unassessed
    <2>5. \A k : Unassessed(k) => Unassessed(k)' \/ k = req[w].key
      BY <2>2 DEF Unassessed
    <2>. QED
      BY <2>1, <2>4, <2>5
  <1>. QED
    BY <1>2, <1>3

\* A key keeps a single owner: it is gained by inserting the row and lost with it.
LEMMA StepOwner ==
    ASSUME TradingInv, NEW w \in Worker, Step(w)
    PROVE  SoleOwner'
  <1> USE DEF TradingInv, TypeOK, Requested
  <1>1. /\ \A v \in Worker \ {w} : pc'[v] = pc[v] /\ req'[v] = req[v]
        /\ \A k \in Key : claim'[k] # claim[k] => pc[w] # "idle" /\ k = req[w].key
    BY StepIsLocal
  <1>2. CASE ClaimNew(w)
    <2>1. /\ req[w] \in Request /\ req' = req /\ claim[req[w].key] = NoClaim
          /\ claim'[req[w].key] = Pending(req[w].hash)
          /\ pc' = [pc EXCEPT ![w] = "observe"]
      BY <1>2 DEF ClaimNew, Goto, Request
    <2>2. \A v \in Worker \ {w} : pc[v] \in Owning => req[v].key # req[w].key
      BY <2>1, ClaimKinds DEF SoleOwner
    <2>3. QED
      BY <1>1, <2>1, <2>2 DEF SoleOwner, Request
  <1>3. CASE ~ClaimNew(w)
    <2>1. pc'[w] \in Owning =>
             /\ pc[w] \in Owning /\ req'[w] = req[w] /\ claim' = claim
      BY <1>3 DEF Step, WorkerStep, Receive, Replay, Conflict, Wait, Stall, Refuse, SaveObservation,
         SaveAssessment, SaveMirror, CompleteClaim, Reply, MarkFailed, Tear, CutShort, Raise, Crash, Finish, Goto, Owning
    <2>2. claim' # claim => pc[w] \in Owning
      BY <1>3 DEF Step, WorkerStep, Receive, Replay, Conflict, Wait, Stall, Refuse, SaveObservation,
         SaveAssessment, SaveMirror, CompleteClaim, Reply, MarkFailed, Tear, CutShort, Raise, Crash, Owning
    <2>3. \A v \in Worker \ {w} : pc[v] \in Owning => claim'[req[v].key] = claim[req[v].key]
      BY <1>1, <2>2 DEF SoleOwner, Request
    <2>4. QED
      BY <1>1, <2>1, <2>3 DEF SoleOwner, Request
  <1>4. QED
    BY <1>2, <1>3

\* Each write leaves its record, and nobody else writes for an owned key.
LEMMA StepFiles ==
    ASSUME TradingInv, NEW w \in Worker, Step(w), TypeOK', Requested', SoleOwner'
    PROVE  FilesFollow'
  <1> USE DEF TradingInv
  <1>1. /\ \A v \in Worker \ {w} : pc'[v] = pc[v] /\ req'[v] = req[v]
        /\ Lined(observations) \subseteq Lined(observations') /\ Lined(assessments) \subseteq Lined(assessments')
        /\ Lined(mirror) \subseteq Lined(mirror')
        /\ \A k : Unassessed(k) => Unassessed(k)' \/ (pc[w] = "assess" /\ k = req[w].key)
    BY StepIsLocal, StepAppends, StepAssessments
  <1>2. ASSUME NEW v \in Worker, v # w
        PROVE  /\ pc'[v] \in {"observe", "assess"} => Unassessed(req[v].key)'
               /\ pc'[v] \in {"assess", "mirror", "complete"} => req'[v] \in Lined(observations')
               /\ pc'[v] \in {"mirror", "complete"} => req'[v] \in Lined(assessments')
               /\ pc'[v] = "complete" => req'[v] \in Lined(mirror')
    <2>1. pc'[v] = pc[v] /\ req'[v] = req[v]
      BY <1>1, <1>2
    <2>2. pc[w] = "assess" /\ pc[v] \in {"observe", "assess"} => req[v].key # req[w].key
      BY <1>2 DEF SoleOwner, Owning
    <2>. QED
      BY <1>1, <2>1, <2>2 DEF FilesFollow, Unassessed
  <1>3. /\ pc'[w] \in {"observe", "assess"} => Unassessed(req[w].key)'
        /\ pc'[w] \in {"assess", "mirror", "complete"} => req'[w] \in Lined(observations')
        /\ pc'[w] \in {"mirror", "complete"} => req'[w] \in Lined(assessments')
        /\ pc'[w] = "complete" => req'[w] \in Lined(mirror')
    <2>1. CASE ClaimNew(w)
      <3>1. /\ pc'[w] = "observe" /\ req' = req /\ assessments' = assessments /\ Unassessed(req[w].key)
        <4>1. req[w] \in Request /\ claim[req[w].key] = NoClaim
          BY <2>1 DEF ClaimNew, Requested
        <4>2. Unassessed(req[w].key)
          BY <4>1 DEF ClaimsFollow, Request
        <4>. QED
          BY <2>1, <4>2 DEF ClaimNew, Goto, TypeOK, fileVars
      <3>. QED
        BY <3>1 DEF Unassessed
    <2>2. CASE SaveObservation(w) \/ SaveAssessment(w) \/ SaveMirror(w)
      <3>1. /\ req[w] \in Request /\ req' = req
            /\ observations \in Pieces(Request) /\ assessments \in Pieces(Request) /\ mirror \in Pieces(Request)
        BY <2>2 DEF SaveObservation, SaveAssessment, SaveMirror, Requested, TypeOK
      <3>2. /\ req[w] \in Lined(Append(observations, Whole(observations, req[w])))
            /\ req[w] \in Lined(Append(assessments, Whole(assessments, req[w])))
            /\ req[w] \in Lined(Append(mirror, Whole(mirror, req[w])))
        BY <3>1, WholeIsLined
      <3>3. CASE SaveObservation(w)
        BY <1>1, <3>1, <3>2, <3>3 DEF SaveObservation, Goto, TypeOK, FilesFollow, Unassessed
      <3>4. CASE SaveAssessment(w)
        BY <1>1, <3>1, <3>2, <3>4 DEF SaveAssessment, Goto, TypeOK, FilesFollow
      <3>5. CASE SaveMirror(w)
        BY <1>1, <3>1, <3>2, <3>5 DEF SaveMirror, Goto, TypeOK, FilesFollow
      <3>. QED
        BY <2>2, <3>3, <3>4, <3>5
    <2>3. CASE ~ClaimNew(w) /\ ~SaveObservation(w) /\ ~SaveAssessment(w) /\ ~SaveMirror(w)
      <3>1. pc'[w] \notin {"observe", "assess", "mirror", "complete"}
        BY <2>3 DEF Step, WorkerStep, Receive, Replay, Conflict, Wait, Stall, Refuse, CompleteClaim,
           Reply, MarkFailed, Tear, CutShort, Raise, Crash, Finish, Goto, TypeOK
      <3>. QED
        BY <3>1
    <2>. QED
      BY <2>1, <2>2, <2>3
  <1>. QED
    BY <1>2, <1>3 DEF FilesFollow

\* The claim of a key changes only by being taken, completed with what the files
\* hold, or failed.
LEMMA StepClaims ==
    ASSUME TradingInv, NEW w \in Worker, Step(w)
    PROVE  \A k \in Key :
              \/ claim'[k] = claim[k]
              \/ /\ claim[k] = NoClaim /\ \E h \in Hash : claim'[k] = Pending(h)
              \/ /\ k = req[w].key /\ claim[k] = Pending(req[w].hash)
                 /\ claim'[k] \in {Complete(req[w].hash, req[w].id), Failed(req[w].hash)}
                 /\ claim'[k] = Complete(req[w].hash, req[w].id) => InAll(req[w])
  <1> USE DEF TradingInv, TypeOK, Requested
  <1>1. CASE ClaimNew(w)
    BY <1>1 DEF ClaimNew, Request
  <1>2. CASE CompleteClaim(w)
    BY <1>2 DEF CompleteClaim, Request, FilesFollow, InAll
  <1>3. CASE MarkFailed(w)
    BY <1>3, ClaimKinds DEF MarkFailed, Request
  <1>4. CASE ~ClaimNew(w) /\ ~CompleteClaim(w) /\ ~MarkFailed(w)
    BY <1>4 DEF Step, WorkerStep, Receive, Replay, Conflict, Wait, Stall, Refuse, SaveObservation,
       SaveAssessment, SaveMirror, Reply, Tear, CutShort, Raise, Crash
  <1>5. QED
    BY <1>1, <1>2, <1>3, <1>4

\* A claim that is complete or failed is not changed by any step.
LEMMA SettledStays ==
    ASSUME TradingInv, NEW w \in Worker, Step(w), NEW k \in Key,
           claim[k].status \in {"COMPLETE", "FAILED"}
    PROVE  claim'[k] = claim[k]
  BY StepClaims, ClaimKinds

\* A claim is completed only with what its owner has put in all three files.
LEMMA StepClaimsFollow ==
    ASSUME TradingInv, NEW w \in Worker, Step(w)
    PROVE  ClaimsFollow'
  <1> USE DEF TradingInv
  <1>1. (\A x : InAll(x) => InAll(x)')
        /\ \A k : Unassessed(k) => Unassessed(k)' \/ (pc[w] = "assess" /\ k = req[w].key)
    BY StepAppends, StepAssessments
  <1>2. ASSUME NEW k \in Key, claim'[k] = NoClaim PROVE Unassessed(k)'
    <2>1. claim[k] = NoClaim
      BY <1>2, StepClaims, ClaimKinds
    <2>2. Unassessed(k)
      BY <2>1 DEF ClaimsFollow
    <2>3. pc[w] = "assess" => claim[req[w].key] = Pending(req[w].hash)
      BY DEF SoleOwner, Owning
    <2>. QED
      BY <1>1, <2>1, <2>2, <2>3, ClaimKinds
  <1>3. ASSUME NEW k \in Key, NEW h \in Hash, NEW n \in Nat, claim'[k] = Complete(h, n)
        PROVE  InAll([key |-> k, hash |-> h, id |-> n])'
    <2>1. CASE claim'[k] = claim[k]
      <3>1. InAll([key |-> k, hash |-> h, id |-> n])
        BY <1>3, <2>1 DEF ClaimsFollow
      <3>. QED
        BY <1>1, <3>1
    <2>2. CASE claim'[k] # claim[k]
      <3>1. /\ k = req[w].key
            /\ claim'[k] = Complete(req[w].hash, req[w].id)
            /\ InAll(req[w])
        BY <1>3, <2>2, StepClaims, ClaimKinds
      <3>2. h = req[w].hash /\ n = req[w].id
        BY <1>3, <3>1, ClaimKinds
      <3>3. req[w] \in Request
        <4>1. pc[w] # "idle"
          BY <2>2, StepIsLocal
        <4>. QED
          BY <4>1 DEF Requested
      <3>4. req[w] = [key |-> k, hash |-> h, id |-> n]
        BY <3>1, <3>2, <3>3 DEF Request
      <3>5. InAll([key |-> k, hash |-> h, id |-> n])
        BY <3>1, <3>4
      <3>. QED
        BY <1>1, <3>5
    <2>3. QED
      BY <2>1, <2>2
  <1>4. QED
    BY <1>2, <1>3 DEF ClaimsFollow

\* Between completing the claim and answering nobody changes the claim.
LEMMA StepReplies ==
    ASSUME TradingInv, NEW w \in Worker, Step(w)
    PROVE  RepliesFollow'
  <1> USE DEF TradingInv
  <1>1. \A v \in Worker \ {w} : pc'[v] = pc[v] /\ req'[v] = req[v]
    BY StepIsLocal
  <1>2. ASSUME NEW v \in Worker, v # w, pc'[v] = "reply"
        PROVE  req'[v] \in Request /\ claim'[req'[v].key] = Complete(req'[v].hash, req'[v].id)
    <2>1. /\ req'[v] = req[v] /\ req[v] \in Request
          /\ claim[req[v].key] = Complete(req[v].hash, req[v].id)
      BY <1>1, <1>2 DEF RepliesFollow
    <2>2. claim'[req[v].key] = claim[req[v].key]
      BY <2>1, SettledStays, ClaimKinds DEF Request
    <2>3. QED
      BY <2>1, <2>2
  <1>3. ASSUME pc'[w] = "reply"
        PROVE  req'[w] \in Request /\ claim'[req'[w].key] = Complete(req'[w].hash, req'[w].id)
    <2>1. CompleteClaim(w)
      BY <1>3 DEF Step, WorkerStep, Receive, ClaimNew, Replay, Conflict, Wait, Stall, Refuse,
         SaveObservation, SaveAssessment, SaveMirror, Reply, MarkFailed, Tear, CutShort, Raise, Crash, Finish,
         Goto, TypeOK
    <2>2. req[w] \in Request /\ claim[req[w].key] = Pending(req[w].hash)
      BY <2>1 DEF CompleteClaim, SoleOwner, Owning
    <2>3. QED
      BY <2>1, <2>2 DEF CompleteClaim, TypeOK, Request
  <1>4. QED
    BY <1>2, <1>3 DEF RepliesFollow

\* A step answers only what is on file.
LEMMA StepAnswers ==
    ASSUME TradingInv, NEW w \in Worker, Step(w)
    PROVE  AnswersFollow'
  <1> USE DEF TradingInv
  <1>1. \A x \in answers' : x \in Request /\ claim[x.key] = Complete(x.hash, x.id) /\ InAll(x)
    <2>1. CASE Replay(w)
      <3> DEFINE x == [key |-> req[w].key, hash |-> req[w].hash, id |-> claim[req[w].key].id]
      <3>1. /\ req[w] \in Request /\ claim[req[w].key] \in Claim
            /\ claim[req[w].key].status = "COMPLETE" /\ claim[req[w].key].hash = req[w].hash
            /\ answers' = answers \cup {x}
        BY <2>1 DEF Replay, Requested, TypeOK, Request
      <3>2. x \in Request /\ claim[x.key] = Complete(x.hash, x.id)
        BY <3>1, ClaimKinds DEF Request
      <3>3. InAll(x)
        BY <3>1, <3>2, ClaimKinds DEF ClaimsFollow, Request
      <3>. QED
        BY <3>1, <3>2, <3>3 DEF AnswersFollow, TypeOK
    <2>2. CASE Reply(w)
      <3>1. /\ req[w] \in Request /\ claim[req[w].key] = Complete(req[w].hash, req[w].id)
            /\ answers' = answers \cup {req[w]}
        BY <2>2 DEF Reply, RepliesFollow
      <3>2. req[w] = [key |-> req[w].key, hash |-> req[w].hash, id |-> req[w].id]
        BY <3>1 DEF Request
      <3>3. InAll(req[w])
        BY <3>1, <3>2 DEF ClaimsFollow, Request
      <3>. QED
        BY <3>1, <3>3 DEF AnswersFollow, TypeOK
    <2>3. CASE ~Replay(w) /\ ~Reply(w)
      <3>1. answers' = answers
        BY <2>3 DEF Step, WorkerStep, Receive, ClaimNew, Conflict, Wait, Stall, Refuse,
           SaveObservation, SaveAssessment, SaveMirror, CompleteClaim, MarkFailed, Tear, CutShort,
           Raise, Crash
      <3>. QED
        BY <3>1 DEF AnswersFollow, TypeOK
    <2>. QED
      BY <2>1, <2>2, <2>3
  <1>2. \A x : InAll(x) => InAll(x)'
    BY StepAppends
  <1>3. \A x \in answers' : claim'[x.key] = claim[x.key]
    BY <1>1, SettledStays, ClaimKinds DEF Request
  <1>. QED
    BY <1>1, <1>2, <1>3 DEF AnswersFollow

\* TradingInv, who owns a key and what is on file at each step of assess, holds in
\* every reachable state of the bridge.
THEOREM TradingInvariant == Spec => []TradingInv
  <1>1. TradingInv /\ [Next]_vars => TradingInv'
    <2> SUFFICES ASSUME TradingInv, [Next]_vars PROVE TradingInv'
      OBVIOUS
    <2>1. TypeOK' /\ Requested'
      BY NextType
    <2>2. CASE \E w \in Worker : Step(w)
      <3> PICK w \in Worker : Step(w)
        BY <2>2
      <3>1. SoleOwner'
        BY StepOwner
      <3>2. FilesFollow'
        BY <2>1, <3>1, StepFiles
      <3>3. QED
        BY <2>1, <3>1, <3>2, StepAppends, StepAssessments, StepClaimsFollow, StepReplies, StepAnswers
        DEF TradingInv
    <2>3. CASE UNCHANGED vars
      <3>1. /\ claim' = claim /\ observations' = observations /\ assessments' = assessments
            /\ mirror' = mirror /\ pc' = pc /\ req' = req /\ answers' = answers
        BY <2>3 DEF vars, fileVars
      <3>2. SoleOwner' /\ FilesFollow' /\ ClaimsFollow' /\ RepliesFollow'
        BY <3>1 DEF TradingInv, SoleOwner, FilesFollow, ClaimsFollow, RepliesFollow, Unassessed, InAll
      <3>3. OneAssessmentPerKey' /\ AnswersFollow' /\ FilesGlued'
        BY <3>1 DEF TradingInv, OneAssessmentPerKey, AnswersFollow, FilesGlued, InAll
      <3>. QED
        BY <2>1, <3>2, <3>3 DEF TradingInv
    <2>4. QED
      BY <2>2, <2>3 DEF Next, Step, Quiescent
  <1>2. QED
    BY <1>1, InitTrading, PTL DEF Spec

\* Whatever the interleaving, the failures and the crashes, nobody makes a
\* second assessment for a key.
THEOREM AssessedOnce == Spec => []OneAssessmentPerKey
  BY TradingInvariant, PTL DEF TradingInv

\* An answer a client has seen is backed by the claim and by every file: a reader finds its
\* record, unless a torn line of another request stands right before it.
THEOREM AnswersAreKept == Spec => []AnswersAreOnFile
  <1>1. ASSUME NEW x, NEW s, x \in Lined(s), Glued(s) PROVE OnFile(x, s)
    <2>1. PICK i \in DOMAIN s : ~s[i].open /\ s[i].row = x
      BY <1>1 DEF Lined
    <2>2. i \in Readable(s) \/ i - 1 \in TornIn(s)
      BY <1>1, <2>1 DEF Glued, Readable
    <2>. QED
      BY <2>1, <2>2 DEF OnFile
  <1>2. TradingInv => AnswersAreOnFile
    BY <1>1 DEF TradingInv, AnswersFollow, InAll, FilesGlued, AnswersAreOnFile
  <1>. QED
    BY <1>2, TradingInvariant, PTL

\* Claims, files, requests and answers are well typed in every reachable state.
THEOREM TradingTypes == Spec => []TypeOK
  BY TradingInvariant, PTL DEF TradingInv

\* A key is never given to another observation, nor a settled claim reopened.
THEOREM ClaimsStaySettled == Spec => ClaimsSettle
  <1>1. TradingInv /\ [Next]_vars =>
          [\A k \in Key :
              /\ claim[k].status \in {"COMPLETE", "FAILED"} => claim'[k] = claim[k]
              /\ claim[k] # NoClaim =>
                    claim'[k] # NoClaim /\ claim'[k].hash = claim[k].hash]_claim
    <2> SUFFICES ASSUME TradingInv, [Next]_vars, claim' # claim, NEW k \in Key
                 PROVE  /\ claim[k].status \in {"COMPLETE", "FAILED"} => claim'[k] = claim[k]
                        /\ claim[k] # NoClaim =>
                              claim'[k] # NoClaim /\ claim'[k].hash = claim[k].hash
      OBVIOUS
    <2>1. PICK w \in Worker : Step(w)
      BY DEF Next, Step, Quiescent, vars
    <2>2. QED
      BY <2>1, StepClaims, SettledStays, ClaimKinds
  <1>2. QED
    BY <1>1, TradingInvariant, PTL DEF Spec, ClaimsSettle

=============================================================================

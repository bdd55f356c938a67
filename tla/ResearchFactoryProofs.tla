----------------------- MODULE ResearchFactoryProofs -----------------------
(***************************************************************************)
(* For any number of workers, requests and torn lines: what the factory's  *)
(* files keep although nobody locks them and any append may be cut short.  *)
(*                                                                         *)
(* The invariant speaks of the appends that requests still have to make:   *)
(* each cites only rows that are kept already or that the same request     *)
(* writes before it, so that it does not matter where a request ends.      *)
(***************************************************************************)
EXTENDS ResearchFactory, FiniteSetTheorems, SequenceTheorems, TLAPS

\* The rows written to the end, readable or glued to a torn one, and those that lack their
\* newline only and could be read at first.
Kept == UNION {{disk[f][i].row.key : i \in {j \in DOMAIN disk[f] : ~disk[f][j].open \/ disk[f][j].ok}} : f \in File}

\* The keys a row in a file speaks of.
Cites(f, row) ==
    IF f \in {"audit", "approvals", "m3b_audit"} THEN {row.names}
    ELSE IF f = "learning" THEN row.sources ELSE {}

\* What a file holds, one by one.
Piece(f) == [row : RowOf(f), ok : BOOLEAN, open : BOOLEAN]

\* The number of the request a worker serves.
Request(w) == todo[w][1].row.key[1]
Busy == {w \in Worker : todo[w] # <<>>}

\* Only a row behind a torn one cannot be read though it is whole.
Glued ==
    \A f \in File : \A i \in DOMAIN disk[f] :
        ~disk[f][i].ok /\ ~disk[f][i].open => i - 1 \in DOMAIN disk[f] /\ disk[f][i - 1].open

\* The appends of a worker are of one request, and no other worker serves it; a request
\* that tears a line goes no further.
OneRequest ==
    /\ \A f \in File : \A i \in DOMAIN disk[f] : disk[f][i].row.key[1] <= served
    /\ \A w \in Busy :
          /\ Request(w) <= served
          /\ \A k \in DOMAIN todo[w] : todo[w][k].row.key[1] = Request(w)
          /\ \A v \in Busy : Request(v) = Request(w) => v = w
          /\ \A f \in File : \A i \in DOMAIN disk[f] :
                disk[f][i].open => disk[f][i].row.key[1] # Request(w)

\* What is answered or cited is kept, or is on its way before what cites it.
CitesKept ==
    /\ answered \subseteq Kept
    /\ \A f \in File : \A i \in DOMAIN disk[f] : Cites(f, disk[f][i].row) \subseteq Kept
    /\ \A w \in Worker : \A k \in DOMAIN todo[w] :
          Cites(todo[w][k].file, todo[w][k].row) \subseteq Kept \cup {todo[w][j].row.key : j \in 1 .. k - 1}

\* An approval stands behind the version it approves, on its way too.
Behind(row) ==
    /\ row.by \notin NotHuman
    /\ \E j \in DOMAIN disk["experiments"] :
          LET before == disk["experiments"][j].row IN
          /\ disk["experiments"][j].ok /\ before.id = row.id
          /\ before.status \in Approvable /\ row.version = NextVersion(before.version)
PendingManual ==
    \A w \in Worker : \A k \in DOMAIN todo[w] :
        todo[w][k].file = "experiments" /\ todo[w][k].row.status = "MANUALLY_APPROVED" => Behind(todo[w][k].row)

\* No artifact of the hash could be read where the request of this one has looked.
Unseen(row) ==
    /\ row.looked <= Len(disk["artifacts"])
    /\ \A i \in Lines("artifacts") : i <= row.looked => disk["artifacts"][i].row.hash # row.hash
LookedFirst ==
    /\ \A i \in DOMAIN disk["artifacts"] : Unseen(disk["artifacts"][i].row)
    /\ \A w \in Worker : \A k \in DOMAIN todo[w] : todo[w][k].file = "artifacts" => Unseen(todo[w][k].row)

IInv ==
    /\ ResearchTypeOK /\ Glued /\ OneRequest /\ CitesKept
    /\ ApprovalsAreManual /\ PendingManual /\ LookedFirst
-----------------------------------------------------------------------------
(* Requests *)

\* Appends a request may start with.
Sound(a) ==
    /\ a \in Seq(Append_) /\ a # <<>>
    /\ \A k \in DOMAIN a : a[k].row.key[1] = served + 1
    /\ \A k \in DOMAIN a : Cites(a[k].file, a[k].row) \subseteq Kept \cup {a[j].row.key : j \in 1 .. k - 1}
    /\ \A k \in DOMAIN a :
          a[k].file = "experiments" /\ a[k].row.status = "MANUALLY_APPROVED" => Behind(a[k].row)
    /\ \A k \in DOMAIN a : a[k].file = "artifacts" => Unseen(a[k].row)

\* Every row has a key, and that a request number.
LEMMA RowHasKey ==
    ASSUME NEW f \in File, NEW row \in RowOf(f)
    PROVE  row.key \in Key /\ row.key[1] \in Nat
  <1>1. row.key \in Key
    BY DEF RowOf
  <1>. QED
    BY <1>1, ResearchAssumption DEF Key

\* The pieces of a file, by their columns.
LEMMA PieceFacts ==
    ASSUME ResearchTypeOK, NEW f \in File, NEW i \in DOMAIN disk[f]
    PROVE  /\ disk[f][i] \in Piece(f) /\ disk[f][i].row \in RowOf(f)
           /\ disk[f][i].ok \in BOOLEAN /\ disk[f][i].open \in BOOLEAN
           /\ disk[f][i].row.key \in Key /\ disk[f][i].row.key[1] \in Nat
  <1>1. disk[f] \in Seq(Piece(f))
    BY DEF ResearchTypeOK, Pieces, Piece
  <1>2. disk[f][i] \in Piece(f)
    BY <1>1
  <1>3. disk[f][i].row \in RowOf(f) /\ disk[f][i].ok \in BOOLEAN /\ disk[f][i].open \in BOOLEAN
    BY <1>2 DEF Piece
  <1>. QED
    BY <1>2, <1>3, RowHasKey

\* The seed's appends as a sequence.
LEMMA SevenInSeq ==
    ASSUME NEW S, NEW a \in S, NEW b \in S, NEW c \in S, NEW d \in S, NEW e \in S, NEW f \in S, NEW g \in S
    PROVE  LET s == <<a, b, c, d, e, f, g>> IN
           /\ s \in Seq(S) /\ DOMAIN s = 1 .. 7 /\ s # <<>>
           /\ s[1] = a /\ s[2] = b /\ s[3] = c /\ s[4] = d /\ s[5] = e /\ s[6] = f /\ s[7] = g
  <1> DEFINE s == <<a, b, c, d, e, f, g>>
  <1>1. s \in Seq(S)
    OBVIOUS
  <1>2. DOMAIN s = 1 .. 7 /\ s # <<>>
    OBVIOUS
  <1>3. s[1] = a /\ s[2] = b /\ s[3] = c /\ s[4] = d /\ s[5] = e /\ s[6] = f /\ s[7] = g
    OBVIOUS
  <1>. QED
    BY <1>1, <1>2, <1>3

\* The keys of a request that starts now.
LEMMA NewKeys ==
    ASSUME served < MaxRequests, ResearchTypeOK, NEW i \in 1 .. 6
    PROVE  NewKey(i) \in Key /\ NewKey(i)[1] = served + 1
  <1>1. served + 1 \in 1 .. MaxRequests
    BY ResearchAssumption DEF ResearchTypeOK, Pieces, Piece
  <1>. QED
    BY <1>1 DEF NewKey, Key

\* An append by the file it is for.
LEMMA PutFacts ==
    ASSUME NEW f \in File, NEW row \in RowOf(f)
    PROVE  /\ Put(f, row) \in Append_ /\ Put(f, row).file = f /\ Put(f, row).row = row
  BY DEF Put, Append_

\* The rows that cite nothing and approve nothing.
Plain(x) ==
    /\ x \in Append_ /\ x.file \notin {"artifacts"} /\ x.row.key[1] = served + 1
    /\ Cites(x.file, x.row) = {}
    /\ x.file = "experiments" => x.row.status # "MANUALLY_APPROVED"

\* An audit entry of this request for a row of its own.
LEMMA AuditFacts ==
    ASSUME served < MaxRequests, ResearchTypeOK, NEW key \in Key
    PROVE  /\ Audit(key) \in Append_ /\ Audit(key).file = "audit" /\ Audit(key).row.key[1] = served + 1
           /\ Cites("audit", Audit(key).row) = {key}
  <1>1. [key |-> NewKey(6), names |-> key] \in RowOf("audit") /\ "audit" \in File
    BY NewKeys DEF RowOf, File
  <1>. QED
    BY <1>1, NewKeys, PutFacts DEF Audit, Cites

\* A row that cites nothing, and the audit entry that names it.
LEMMA CreatedSound ==
    ASSUME IInv, served < MaxRequests, NEW f \in File, NEW row \in RowOf(f), Plain(Put(f, row))
    PROVE  Sound(Created(f, row))
  <1>1. ResearchTypeOK /\ row.key \in Key
    BY RowHasKey DEF IInv
  <1> DEFINE x == Put(f, row)
             y == Audit(row.key)
  <1>2. Created(f, row) = <<x, y>>
    BY DEF Created
  <1>3. x \in Append_ /\ x.row = row /\ Plain(x)
    BY PutFacts
  <1>4. y \in Append_ /\ y.file = "audit" /\ y.row.key[1] = served + 1 /\ Cites("audit", y.row) = {row.key}
    BY <1>1, AuditFacts
  <1> HIDE DEF x, y
  <1>5. <<x, y>> \in Seq(Append_) /\ DOMAIN <<x, y>> = {1, 2} /\ <<x, y>>[1] = x /\ <<x, y>>[2] = y
        /\ <<x, y>> # <<>>
    BY <1>3, <1>4
  <1> DEFINE a == <<x, y>>
  <1> HIDE DEF a
  <1>6. a \in Seq(Append_) /\ DOMAIN a = {1, 2} /\ a[1] = x /\ a[2] = y /\ a # <<>>
    BY <1>5 DEF a
  <1>7. \A k \in DOMAIN a : Cites(a[k].file, a[k].row) \subseteq Kept \cup {a[j].row.key : j \in 1 .. k - 1}
    <2>1. 1 \in 1 .. 2 - 1
      OBVIOUS
    <2>. QED
      BY <1>3, <1>4, <1>6, <2>1 DEF Plain
  <1>8. Sound(a)
    BY <1>3, <1>4, <1>6, <1>7 DEF Sound, Plain
  <1>. QED
    BY <1>2, <1>8 DEF a

\* The approval of a version that was read cites it, and the audit entry cites the approval.
LEMMA ApprovalSound ==
    ASSUME IInv, served < MaxRequests, NEW i \in Lines("experiments"), NEW by \in Actor \ NotHuman,
           disk["experiments"][i].row.status \in Approvable
    PROVE  LET current == disk["experiments"][i].row IN
           Sound(Approval(ExperimentRow(1, current.id, "MANUALLY_APPROVED", NextVersion(current.version), by)))
  <1> DEFINE current == disk["experiments"][i].row
             row == ExperimentRow(1, current.id, "MANUALLY_APPROVED", NextVersion(current.version), by)
             x == Put("experiments", row)
             y == Put("approvals", [key |-> NewKey(2), names |-> row.key])
             z == Audit(row.key)
             a == <<x, y, z>>
  <1>1. ResearchTypeOK
    BY DEF IInv
  <1>2. i \in DOMAIN disk["experiments"] /\ current \in RowOf("experiments")
    <2>1. i \in DOMAIN disk["experiments"] /\ "experiments" \in File
      BY DEF Lines, Readable, File
    <2>. QED
      BY <1>1, <2>1, PieceFacts
  <1>3. current.id \in Experiment \cup Key /\ NextVersion(current.version) \in Int
    BY <1>2 DEF RowOf, NextVersion
  <1>4. /\ row \in RowOf("experiments") /\ row.key = NewKey(1) /\ row.id = current.id
        /\ row.version = NextVersion(current.version) /\ row.by = by /\ row.status = "MANUALLY_APPROVED"
    BY <1>1, <1>3, NewKeys DEF RowOf, ExperimentRow, ExperimentStatus
  <1> HIDE DEF row
  <1>5. x \in Append_ /\ x.file = "experiments" /\ x.row = row
    BY <1>4, PutFacts DEF File
  <1>6. y \in Append_ /\ y.file = "approvals" /\ y.row.key[1] = served + 1
        /\ Cites("approvals", y.row) = {row.key}
    <2>1. [key |-> NewKey(2), names |-> row.key] \in RowOf("approvals") /\ "approvals" \in File
      BY <1>1, <1>4, NewKeys DEF RowOf, File
    <2>. QED
      BY <1>1, <2>1, NewKeys, PutFacts DEF Cites
  <1>7. z \in Append_ /\ z.file = "audit" /\ z.row.key[1] = served + 1 /\ Cites("audit", z.row) = {row.key}
    BY <1>1, <1>4, NewKeys, AuditFacts
  <1>8. Behind(row)
    <2>1. i \in DOMAIN disk["experiments"] /\ disk["experiments"][i].ok
      BY DEF Lines, Readable
    <2>. QED
      BY <1>4, <2>1 DEF Behind
  <1>9. row.key[1] = served + 1
    BY <1>1, <1>4, NewKeys
  <1>10. Cites("experiments", row) = {}
    BY DEF Cites
  <1> HIDE DEF x, y, z
  <1>11. a \in Seq(Append_) /\ DOMAIN a = {1, 2, 3} /\ a[1] = x /\ a[2] = y /\ a[3] = z /\ a # <<>>
    BY <1>5, <1>6, <1>7
  <1> HIDE DEF a
  <1>12. \A k \in DOMAIN a : Cites(a[k].file, a[k].row) \subseteq Kept \cup {a[j].row.key : j \in 1 .. k - 1}
    <2>1. 1 \in 1 .. 2 - 1 /\ 1 \in 1 .. 3 - 1
      OBVIOUS
    <2>. QED
      BY <1>5, <1>6, <1>7, <1>10, <1>11, <2>1
  <1>13. Sound(a)
    BY <1>5, <1>6, <1>7, <1>8, <1>9, <1>11, <1>12 DEF Sound
  <1>14. a = Approval(row)
    BY DEF a, x, y, z, Approval
  <1>. QED
    BY <1>13, <1>14 DEF row

\* The seed writes what it learned after the hypothesis and the evidence.
LEMMA SeedSound ==
    ASSUME IInv, served < MaxRequests
    PROVE  Sound(Seed)
  <1> DEFINE learned == SeedLearning
             trial == SeedExperiment
             x1 == Put("hypotheses", HypothesisRow)
             x2 == Audit(NewKey(1))
             x3 == Put("evidence", EvidenceRow(2))
             x4 == Audit(NewKey(2))
             x5 == Put("learning", learned)
             x6 == Put("experiments", trial)
             x7 == Audit(NewKey(5))
             a == <<x1, x2, x3, x4, x5, x6, x7>>
  <1>1. ResearchTypeOK
    BY DEF IInv
  <1>2. /\ NewKey(1) \in Key /\ NewKey(2) \in Key /\ NewKey(4) \in Key /\ NewKey(5) \in Key
        /\ NewKey(1)[1] = served + 1 /\ NewKey(2)[1] = served + 1
        /\ NewKey(4)[1] = served + 1 /\ NewKey(5)[1] = served + 1
    BY <1>1, NewKeys
  <1>3. /\ HypothesisRow \in RowOf("hypotheses") /\ HypothesisRow.key = NewKey(1)
        /\ EvidenceRow(2) \in RowOf("evidence") /\ EvidenceRow(2).key = NewKey(2)
    BY <1>2 DEF RowOf, HypothesisRow, EvidenceRow
  <1>4. learned \in RowOf("learning") /\ learned.key = NewKey(4) /\ learned.sources = {NewKey(1), NewKey(2)}
    BY <1>2 DEF RowOf, LearningRow, SeedLearning
  <1>5. trial \in RowOf("experiments") /\ trial.key = NewKey(5) /\ trial.status # "MANUALLY_APPROVED"
    BY <1>2 DEF RowOf, ExperimentRow, ExperimentStatus, SeedExperiment
  <1> HIDE DEF learned, trial
  <1>6. /\ x1 \in Append_ /\ x1.file = "hypotheses" /\ x1.row = HypothesisRow
        /\ x3 \in Append_ /\ x3.file = "evidence" /\ x3.row = EvidenceRow(2)
        /\ x5 \in Append_ /\ x5.file = "learning" /\ x5.row = learned
        /\ x6 \in Append_ /\ x6.file = "experiments" /\ x6.row = trial
    BY <1>3, <1>4, <1>5, PutFacts DEF File
  <1>7. /\ x2 \in Append_ /\ x2.file = "audit" /\ x2.row.key[1] = served + 1 /\ Cites("audit", x2.row) = {NewKey(1)}
        /\ x4 \in Append_ /\ x4.file = "audit" /\ x4.row.key[1] = served + 1 /\ Cites("audit", x4.row) = {NewKey(2)}
        /\ x7 \in Append_ /\ x7.file = "audit" /\ x7.row.key[1] = served + 1 /\ Cites("audit", x7.row) = {NewKey(5)}
    BY <1>1, <1>2, <1>3, <1>5, AuditFacts
  <1>8. /\ Cites("hypotheses", x1.row) = {} /\ Cites("evidence", x3.row) = {} /\ Cites("experiments", x6.row) = {}
        /\ Cites("learning", x5.row) = {NewKey(1), NewKey(2)}
    BY <1>4, <1>6 DEF Cites
  <1>9. Seed = a
    BY DEF Seed, learned, trial
  <1> HIDE DEF x1, x2, x3, x4, x5, x6, x7
  <1>10. /\ a \in Seq(Append_) /\ DOMAIN a = 1 .. 7 /\ a # <<>>
         /\ a[1] = x1 /\ a[2] = x2 /\ a[3] = x3 /\ a[4] = x4 /\ a[5] = x5 /\ a[6] = x6 /\ a[7] = x7
    BY <1>6, <1>7, SevenInSeq
  <1> HIDE DEF a
  <1> DEFINE before(k) == {a[j].row.key : j \in 1 .. k - 1}
  <1>11. \A k \in 1 .. 7 : k \in {1, 2, 3, 4, 5, 6, 7}
    OBVIOUS
  <1>12. /\ NewKey(1) \in before(2) /\ NewKey(2) \in before(4) /\ NewKey(5) \in before(7)
         /\ {NewKey(1), NewKey(2)} \subseteq before(5)
    <2>1. a[1].row.key = NewKey(1) /\ a[3].row.key = NewKey(2) /\ a[6].row.key = NewKey(5)
      BY <1>3, <1>5, <1>6, <1>10
    <2>2. /\ 1 \in 1 .. 2 - 1 /\ 3 \in 1 .. 4 - 1 /\ 6 \in 1 .. 7 - 1 /\ 1 \in 1 .. 5 - 1 /\ 3 \in 1 .. 5 - 1
      OBVIOUS
    <2>. QED
      BY <2>1, <2>2
  <1> HIDE DEF before
  <1>13. \A k \in DOMAIN a : Cites(a[k].file, a[k].row) \subseteq Kept \cup before(k)
    BY <1>6, <1>7, <1>8, <1>10, <1>11, <1>12
  <1>14. \A k \in DOMAIN a : a[k].row.key[1] = served + 1
    BY <1>2, <1>3, <1>4, <1>5, <1>6, <1>7, <1>10, <1>11
  <1>15. /\ \A k \in DOMAIN a : a[k].file # "artifacts"
         /\ \A k \in DOMAIN a : a[k].file = "experiments" => a[k].row.status # "MANUALLY_APPROVED"
    BY <1>5, <1>6, <1>7, <1>10, <1>11
  <1>16. Sound(a)
    <2>1. 1 \in DOMAIN a
      BY <1>10
    <2>. QED
      BY <1>10, <1>13, <1>14, <1>15, <2>1 DEF Sound, before
  <1>. QED
    BY <1>9, <1>16

\* An artifact and its audit entry, or the audit entry of the one there is.
LEMMA ArtifactSound ==
    ASSUME IInv, served < MaxRequests, NEW h \in Content
    PROVE  /\ FindByHash(h) = {} => Sound(Artifact(h))
           /\ \A i \in FindByHash(h) : Sound(<<ArtifactAudit(disk["artifacts"][i].row.key)>>)
  <1>1. ResearchTypeOK /\ Glued
    BY DEF IInv
  <1>2. ASSUME NEW key \in Key
        PROVE  LET z == ArtifactAudit(key) IN
               /\ z \in Append_ /\ z.file = "m3b_audit" /\ z.row.key[1] = served + 1
               /\ Cites("m3b_audit", z.row) = {key}
    <2>1. [key |-> NewKey(6), names |-> key] \in RowOf("m3b_audit") /\ "m3b_audit" \in File
      BY <1>1, NewKeys DEF RowOf, File
    <2>. QED
      BY <1>1, <2>1, NewKeys, PutFacts DEF Cites, ArtifactAudit
  <1>3. ASSUME FindByHash(h) = {} PROVE Sound(Artifact(h))
    <2> DEFINE row == ArtifactRow(h)
               x == Put("artifacts", row)
               y == ArtifactAudit(NewKey(1))
               a == <<x, y>>
    <2>1. row \in RowOf("artifacts") /\ row.key = NewKey(1) /\ Unseen(row)
      <3>1. disk["artifacts"] \in Seq(Piece("artifacts"))
        BY <1>1 DEF ResearchTypeOK, Pieces, Piece, File
      <3>2. Len(disk["artifacts"]) \in Nat
        BY <3>1
      <3>3. row.hash = h /\ row.looked = Len(disk["artifacts"]) /\ row.key = NewKey(1) /\ row \in RowOf("artifacts")
        BY <1>1, <3>2, NewKeys DEF RowOf, ArtifactRow
      <3> HIDE DEF row
      <3>4. \A i \in Lines("artifacts") : disk["artifacts"][i].row.hash # h
        BY <1>3 DEF FindByHash
      <3>. QED
        BY <3>2, <3>3, <3>4 DEF Unseen
    <2> HIDE DEF row
    <2>2. x \in Append_ /\ x.file = "artifacts" /\ x.row = row /\ Cites("artifacts", row) = {}
      BY <2>1, PutFacts DEF File, Cites
    <2>3. /\ y \in Append_ /\ y.file = "m3b_audit" /\ y.row.key[1] = served + 1
          /\ Cites("m3b_audit", y.row) = {NewKey(1)} /\ NewKey(1)[1] = served + 1
      BY <1>1, <1>2, NewKeys
    <2>4. Artifact(h) = a
      BY DEF Artifact, row
    <2> HIDE DEF x, y
    <2>5. a \in Seq(Append_) /\ DOMAIN a = {1, 2} /\ a[1] = x /\ a[2] = y /\ a # <<>>
      BY <2>2, <2>3
    <2> HIDE DEF a
    <2>6. \A k \in DOMAIN a : Cites(a[k].file, a[k].row) \subseteq Kept \cup {a[j].row.key : j \in 1 .. k - 1}
      <3>1. 1 \in 1 .. 2 - 1
        OBVIOUS
      <3>. QED
        BY <2>1, <2>2, <2>3, <2>5, <3>1
    <2>7. Sound(a)
      BY <2>1, <2>2, <2>3, <2>5, <2>6 DEF Sound
    <2>. QED
      BY <2>4, <2>7
  <1>4. ASSUME NEW i \in FindByHash(h) PROVE Sound(<<ArtifactAudit(disk["artifacts"][i].row.key)>>)
    <2> DEFINE key == disk["artifacts"][i].row.key
               z == ArtifactAudit(key)
               a == <<z>>
    <2>1. i \in DOMAIN disk["artifacts"] /\ disk["artifacts"][i].ok /\ "artifacts" \in File
      BY <1>4 DEF FindByHash, Lines, Readable, File
    <2>2. key \in Key
      BY <1>1, <2>1, PieceFacts
    <2>3. key \in Kept
      BY <2>1 DEF Kept
    <2> HIDE DEF key
    <2>4. z \in Append_ /\ z.file = "m3b_audit" /\ z.row.key[1] = served + 1 /\ Cites("m3b_audit", z.row) = {key}
      BY <1>2, <2>2
    <2> HIDE DEF z
    <2>5. a \in Seq(Append_) /\ DOMAIN a = {1} /\ a[1] = z /\ a # <<>>
      BY <2>4
    <2> HIDE DEF a
    <2>6. Sound(a)
      BY <2>3, <2>4, <2>5 DEF Sound
    <2>. QED
      BY <2>6 DEF a, z, key
  <1>. QED
    BY <1>3, <1>4

\* What a request starts with, whichever it is.
Create(w) ==
    \/ CreateHypothesis(w) \/ CreateEvidence(w) \/ CreateExperiment(w) \/ ManuallyApprove(w)
    \/ SeedCanonicalEvidence(w) \/ CreateArtifact(w)

\* Whatever a request is, it starts with sound appends.
LEMMA RequestsSound ==
    ASSUME IInv, NEW w \in Worker, Create(w)
    PROVE  \E a : Sound(a) /\ Start(w, a)
  <1>1. ResearchTypeOK
    BY DEF IInv
  <1>2. ASSUME NEW f \in {"hypotheses", "evidence"}, NEW i \in 1 .. 6, served < MaxRequests
        PROVE  Sound(Created(f, [key |-> NewKey(i)]))
    <2> DEFINE row == [key |-> NewKey(i)]
    <2>1. f \in File /\ row \in RowOf(f) /\ row.key[1] = served + 1
      BY <1>1, <1>2, NewKeys DEF File, RowOf
    <2>2. Cites(f, row) = {} /\ f # "artifacts" /\ f # "experiments"
      BY DEF Cites
    <2> HIDE DEF row
    <2>3. Plain(Put(f, row))
      BY <2>1, <2>2, PutFacts DEF Plain
    <2>4. Sound(Created(f, row))
      BY <1>2, <2>1, <2>3, CreatedSound
    <2>. QED
      BY <2>4 DEF row
  <1>3. CASE CreateHypothesis(w)
    <2>1. Start(w, Created("hypotheses", HypothesisRow)) /\ served < MaxRequests
      BY <1>3 DEF CreateHypothesis, Start
    <2>2. Sound(Created("hypotheses", HypothesisRow))
      BY <1>2, <2>1 DEF HypothesisRow
    <2>. QED
      BY <2>1, <2>2
  <1>4. CASE CreateEvidence(w)
    <2>1. Start(w, Created("evidence", EvidenceRow(1))) /\ served < MaxRequests
      BY <1>4 DEF CreateEvidence, Start
    <2>2. Sound(Created("evidence", EvidenceRow(1)))
      BY <1>2, <2>1 DEF EvidenceRow
    <2>. QED
      BY <2>1, <2>2
  <1>5. CASE CreateExperiment(w)
    <2>1. PICK e \in Experiment, status \in ExperimentStatus, version \in Version :
             /\ Accepted(status)
             /\ Start(w, Created("experiments", ExperimentRow(1, e, status, version, "none")))
      BY <1>5 DEF CreateExperiment
    <2> DEFINE row == ExperimentRow(1, e, status, version, "none")
    <2>2. served < MaxRequests
      BY <2>1 DEF Start
    <2>3. /\ row \in RowOf("experiments") /\ row.key[1] = served + 1 /\ row.status # "MANUALLY_APPROVED"
          /\ "experiments" \in File /\ Cites("experiments", row) = {}
      BY <1>1, <2>1, <2>2, NewKeys, ResearchAssumption DEF ExperimentRow, RowOf, Accepted, File, Cites
    <2> HIDE DEF row
    <2>4. Plain(Put("experiments", row))
      BY <2>3, PutFacts DEF Plain
    <2>5. Sound(Created("experiments", row))
      BY <2>2, <2>3, <2>4, CreatedSound
    <2>. QED
      BY <2>1, <2>5 DEF row
  <1>6. CASE ManuallyApprove(w)
    <2>1. PICK i \in Lines("experiments"), by \in Actor \ NotHuman :
             LET current == disk["experiments"][i].row IN
             /\ current.status \in Approvable
             /\ Start(w, Approval(ExperimentRow(1, current.id, "MANUALLY_APPROVED", NextVersion(current.version), by)))
      BY <1>6, Zenon DEF ManuallyApprove
    <2>2. served < MaxRequests
      BY <2>1 DEF Start
    <2>. QED
      BY <2>1, <2>2, ApprovalSound
  <1>7. CASE SeedCanonicalEvidence(w)
    BY <1>7, SeedSound DEF SeedCanonicalEvidence, Start
  <1>8. CASE CreateArtifact(w)
    <2>1. served < MaxRequests
      BY <1>8 DEF CreateArtifact, Start
    <2>2. PICK h \in Content :
             \/ FindByHash(h) = {} /\ Start(w, Artifact(h))
             \/ \E i \in FindByHash(h) : Start(w, <<ArtifactAudit(disk["artifacts"][i].row.key)>>)
      BY <1>8, Zenon DEF CreateArtifact
    <2>. QED
      BY <2>1, <2>2, ArtifactSound
  <1>. QED
    BY <1>3, <1>4, <1>5, <1>6, <1>7, <1>8 DEF Create

\* A request that passes its checks.
LEMMA StartKeeps ==
    ASSUME IInv, NEW w \in Worker, NEW a, Sound(a), Start(w, a)
    PROVE  IInv'
  <1>1. ResearchTypeOK /\ Glued /\ OneRequest /\ CitesKept /\ ApprovalsAreManual /\ PendingManual /\ LookedFirst
    BY DEF IInv
  <1>2. /\ todo[w] = <<>> /\ served < MaxRequests /\ served' = served + 1 /\ disk' = disk /\ answered' = answered
        /\ todo' = [todo EXCEPT ![w] = a]
    BY DEF Start
  <1>3. a \in Seq(Append_) /\ a # <<>> /\ 1 \in DOMAIN a /\ served \in Nat /\ todo \in [Worker -> Seq(Append_)]
    BY <1>1, ResearchAssumption DEF Sound, ResearchTypeOK
  <1>4. todo'[w] = a /\ \A v \in Worker : v # w => todo'[v] = todo[v]
    BY <1>2, <1>3
  <1>5. ResearchTypeOK'
    <2>1. todo' \in [Worker -> Seq(Append_)]
      BY <1>2, <1>3
    <2>2. served' \in 0 .. MaxRequests
      BY <1>2, <1>3, ResearchAssumption
    <2>. QED
      BY <1>1, <1>2, <2>1, <2>2 DEF ResearchTypeOK, Pieces, Piece
  <1>6. Glued' /\ ApprovalsAreManual'
    BY <1>1, <1>2 DEF Glued, ApprovalsAreManual, Lines, Readable
  <1>7. Kept' = Kept /\ (\A row : Behind(row)' <=> Behind(row)) /\ (\A row : Unseen(row)' <=> Unseen(row))
    BY <1>2 DEF Kept, Behind, Unseen, Lines, Readable
  <1>8. Busy' = Busy \cup {w} /\ w \notin Busy
    BY <1>2, <1>3, <1>4 DEF Busy
  <1>9. OneRequest'
    <2>1. Request(w)' = served + 1 /\ \A v \in Busy : Request(v)' = Request(v) /\ Request(v) <= served
      BY <1>1, <1>3, <1>4, <1>8 DEF Request, OneRequest, Sound, Busy
    <2>2. \A f \in File : \A i \in DOMAIN disk[f] : disk[f][i].row.key[1] \in Nat /\ disk[f][i].row.key[1] <= served
      BY <1>1, PieceFacts DEF OneRequest
    <2>3. \A v \in Busy : Request(v) \in Nat
      <3> TAKE v \in Busy
      <3>1. todo[v] \in Seq(Append_) /\ todo[v] # <<>>
        BY <1>3 DEF Busy
      <3>2. todo[v][1] \in Append_
        BY <3>1
      <3>3. PICK f \in File : todo[v][1].row \in RowOf(f)
        BY <3>2 DEF Append_
      <3>. QED
        BY <3>3, RowHasKey DEF Request
    <2>4. \A f \in File : \A i \in DOMAIN disk'[f] : disk'[f][i].row.key[1] <= served'
      BY <1>2, <1>3, <2>2
    <2>5. ASSUME NEW v \in Busy'
          PROVE  /\ Request(v)' <= served'
                 /\ \A k \in DOMAIN todo'[v] : todo'[v][k].row.key[1] = Request(v)'
                 /\ \A u \in Busy' : Request(u)' = Request(v)' => u = v
                 /\ \A f \in File : \A i \in DOMAIN disk'[f] :
                       disk'[f][i].open => disk'[f][i].row.key[1] # Request(v)'
      <3>1. CASE v = w
        BY <1>2, <1>3, <1>4, <1>8, <2>1, <2>2, <2>3, <3>1 DEF Sound
      <3>2. CASE v \in Busy
        BY <1>1, <1>2, <1>3, <1>4, <1>8, <2>1, <2>3, <3>2 DEF OneRequest, Busy
      <3>. QED
        BY <1>8, <3>1, <3>2
    <2>. QED
      BY <2>4, <2>5, Zenon DEF OneRequest
  <1>10. CitesKept'
    <2>1. ASSUME NEW v \in Worker, NEW k \in DOMAIN todo'[v]
          PROVE  Cites(todo'[v][k].file, todo'[v][k].row) \subseteq Kept \cup {todo'[v][j].row.key : j \in 1 .. k - 1}
      <3>1. CASE v = w
        BY <1>4, <3>1 DEF Sound
      <3>2. CASE v # w
        BY <1>1, <1>4, <3>2 DEF CitesKept
      <3>. QED
        BY <3>1, <3>2
    <2>2. answered' \subseteq Kept /\ \A f \in File : \A i \in DOMAIN disk'[f] : Cites(f, disk'[f][i].row) \subseteq Kept
      BY <1>1, <1>2 DEF CitesKept
    <2>. QED
      BY <1>7, <2>1, <2>2 DEF CitesKept
  <1>11. PendingManual'
    BY <1>1, <1>4, <1>7, Zenon DEF PendingManual, Sound
  <1>12. LookedFirst'
    BY <1>1, <1>2, <1>4, <1>7, Zenon DEF LookedFirst, Sound
  <1>. QED
    BY <1>5, <1>6, <1>9, <1>10, <1>11, <1>12 DEF IInv

-----------------------------------------------------------------------------
(* Appends *)

\* The next append of a worker becomes piece p of its file, and is its last if it is torn.
Lands(w, p) ==
    LET f == todo[w][1].file IN
    /\ todo[w] # <<>> /\ f \in File /\ p \in Piece(f) /\ p.row = todo[w][1].row
    /\ ~p.ok /\ ~p.open => IsOpen(disk[f])
    /\ disk' = [disk EXCEPT ![f] = Append(@, p)]
    /\ todo' = [todo EXCEPT ![w] = IF p.open THEN <<>> ELSE Tail(@)]
    /\ served' = served

\* The first append of a worker that has one.
LEMMA NextAppend ==
    ASSUME ResearchTypeOK, NEW w \in Worker, todo[w] # <<>>
    PROVE  LET f == todo[w][1].file IN
           /\ 1 \in DOMAIN todo[w] /\ Head(todo[w]) = todo[w][1] /\ f \in File /\ todo[w][1].row \in RowOf(f)
           /\ todo[w][1].row.key[1] \in Nat
  <1>1. todo[w] \in Seq(Append_)
    BY DEF ResearchTypeOK, Pieces, Piece
  <1>2. 1 \in DOMAIN todo[w] /\ Head(todo[w]) = todo[w][1] /\ todo[w][1] \in Append_
    BY <1>1
  <1>3. todo[w][1].file \in File /\ todo[w][1].row \in RowOf(todo[w][1].file)
    BY <1>2 DEF Append_
  <1>. QED
    BY <1>2, <1>3, RowHasKey

\* An append that is made.
LEMMA WriteLands ==
    ASSUME ResearchTypeOK, NEW w \in Worker, Write(w)
    PROVE  Lands(w, Whole(disk[todo[w][1].file], todo[w][1].row)) /\ ~Whole(disk[todo[w][1].file], todo[w][1].row).open
  <1> DEFINE f == todo[w][1].file
             p == Whole(disk[f], todo[w][1].row)
  <1>1. todo[w] # <<>>
    BY DEF Write
  <1>2. f \in File /\ todo[w][1].row \in RowOf(f) /\ Head(todo[w]) = todo[w][1]
    BY <1>1, NextAppend
  <1>3. p.row = todo[w][1].row /\ p.ok = ~IsOpen(disk[f]) /\ p.open = FALSE /\ p \in Piece(f)
    BY <1>2 DEF Whole, Piece
  <1>4. disk' = [disk EXCEPT ![f] = Append(@, p)]
    BY <1>2 DEF Write
  <1>5. todo' = [todo EXCEPT ![w] = Tail(@)] /\ served' = served
    BY DEF Write
  <1> HIDE DEF p
  <1>6. todo' = [todo EXCEPT ![w] = IF p.open THEN <<>> ELSE Tail(@)]
    BY <1>3, <1>5
  <1>7. Lands(w, p) /\ ~p.open
    BY <1>1, <1>2, <1>3, <1>4, <1>5, <1>6 DEF Lands
  <1>. QED
    BY <1>7 DEF p

\* An append that is cut short.
LEMMA TearLands ==
    ASSUME ResearchTypeOK, NEW w \in Worker, Tear(w)
    PROVE  \E p : Lands(w, p)
  <1> DEFINE f == todo[w][1].file
  <1>1. todo[w] # <<>>
    BY DEF Tear
  <1>2. f \in File /\ todo[w][1].row \in RowOf(f) /\ Head(todo[w]) = todo[w][1]
    BY <1>1, NextAppend
  <1>3. PICK whole \in BOOLEAN : disk' = [disk EXCEPT ![f] = Append(@, Torn(disk[f], todo[w][1].row, whole))]
    BY <1>2 DEF Tear
  <1> DEFINE p == Torn(disk[f], todo[w][1].row, whole)
  <1>4. p.row = todo[w][1].row /\ p.open = TRUE /\ p \in Piece(f)
    <2>1. (whole /\ ~IsOpen(disk[f])) \in BOOLEAN
      OBVIOUS
    <2>. QED
      BY <1>2, <2>1 DEF Torn, Piece
  <1>5. todo' = [todo EXCEPT ![w] = <<>>] /\ served' = served
    BY DEF Tear
  <1>6. disk' = [disk EXCEPT ![f] = Append(@, p)]
    BY <1>3
  <1> HIDE DEF p
  <1>7. todo' = [todo EXCEPT ![w] = IF p.open THEN <<>> ELSE Tail(@)]
    BY <1>4, <1>5
  <1>8. Lands(w, p)
    BY <1>1, <1>2, <1>4, <1>5, <1>6, <1>7 DEF Lands
  <1>. QED
    BY <1>8

\* The pieces there were stay as they are, and the file of the append gets one more.
LEMMA DiskGrows ==
    ASSUME ResearchTypeOK, NEW w \in Worker, NEW p, Lands(w, p)
    PROVE  LET f == todo[w][1].file
               n == Len(disk[f]) IN
           /\ n \in Nat /\ DOMAIN disk[f] = 1 .. n /\ (IsOpen(disk[f]) <=> n # 0 /\ disk[f][n].open)
           /\ DOMAIN disk' = File /\ \A g \in File : disk'[g] \in Seq(Piece(g))
           /\ \A g \in File : \A i \in DOMAIN disk[g] : i \in DOMAIN disk'[g] /\ disk'[g][i] = disk[g][i]
           /\ n + 1 \in DOMAIN disk'[f] /\ disk'[f][n + 1] = p
           /\ \A g \in File : \A i \in DOMAIN disk'[g] :
                 i \in DOMAIN disk[g] \/ (g = f /\ i = n + 1 /\ disk'[g][i] = p)
  <1> DEFINE f == todo[w][1].file
             n == Len(disk[f])
  <1>1. f \in File /\ p \in Piece(f) /\ disk' = [disk EXCEPT ![f] = Append(@, p)]
    BY DEF Lands
  <1> HIDE DEF f
  <1>2. DOMAIN disk = File /\ disk[f] \in Seq(Piece(f)) /\ \A g \in File : disk[g] \in Seq(Piece(g))
    BY <1>1 DEF ResearchTypeOK, Pieces, Piece
  <1>3. n \in Nat /\ DOMAIN disk[f] = 1 .. n
    BY <1>2
  <1>4. IsOpen(disk[f]) <=> n # 0 /\ disk[f][n].open
    BY <1>2 DEF IsOpen, Last
  <1>5. disk'[f] = Append(disk[f], p) /\ DOMAIN disk' = File /\ \A g \in File : g # f => disk'[g] = disk[g]
    BY <1>1, <1>2
  <1>6. disk'[f] \in Seq(Piece(f)) /\ DOMAIN disk'[f] = 1 .. n + 1 /\ disk'[f][n + 1] = p
        /\ \A i \in 1 .. n : disk'[f][i] = disk[f][i]
    BY <1>1, <1>2, <1>5
  <1> HIDE DEF n
  <1>7. \A g \in File : disk'[g] \in Seq(Piece(g))
    BY <1>2, <1>5, <1>6
  <1>8. \A g \in File : \A i \in DOMAIN disk[g] : i \in DOMAIN disk'[g] /\ disk'[g][i] = disk[g][i]
    <2> TAKE g \in File
    <2> TAKE i \in DOMAIN disk[g]
    <2>1. CASE g = f
      BY <1>3, <1>6, <2>1
    <2>2. CASE g # f
      BY <1>5, <2>2
    <2>. QED
      BY <2>1, <2>2
  <1>9. \A g \in File : \A i \in DOMAIN disk'[g] :
           i \in DOMAIN disk[g] \/ (g = f /\ i = n + 1 /\ disk'[g][i] = p)
    <2> TAKE g \in File
    <2> TAKE i \in DOMAIN disk'[g]
    <2>1. CASE g = f
      BY <1>3, <1>6, <2>1
    <2>2. CASE g # f
      BY <1>5, <2>2
    <2>. QED
      BY <2>1, <2>2
  <1>10. n + 1 \in DOMAIN disk'[f]
    BY <1>3, <1>6
  <1>. QED
    BY <1>3, <1>4, <1>5, <1>6, <1>7, <1>8, <1>9, <1>10 DEF f, n

\* What can be read of the pieces there were could be read before.
LEMMA OldLines ==
    ASSUME ResearchTypeOK, NEW w \in Worker, NEW p, Lands(w, p), NEW g \in File
    PROVE  \A i \in Lines(g)' : i \in DOMAIN disk[g] => i \in Lines(g) /\ disk'[g][i] = disk[g][i]
  <1> TAKE i \in Lines(g)'
  <1> HAVE i \in DOMAIN disk[g]
  <1>1. /\ disk'[g][i] = disk[g][i] /\ disk[g] \in Seq(Piece(g)) /\ disk'[g] \in Seq(Piece(g))
        /\ \A j \in DOMAIN disk[g] : j \in DOMAIN disk'[g]
    BY DiskGrows DEF ResearchTypeOK, Pieces, Piece
  <1>2. disk[g][i].ok /\ (disk[g][i].open => i = Len(disk'[g]))
    BY <1>1 DEF Lines, Readable
  <1>3. Len(disk[g]) <= Len(disk'[g]) /\ Len(disk'[g]) \in Nat /\ Len(disk[g]) \in Nat
        /\ i \in 1 .. Len(disk[g])
    <2>1. /\ DOMAIN disk[g] = 1 .. Len(disk[g]) /\ Len(disk[g]) \in Nat
          /\ DOMAIN disk'[g] = 1 .. Len(disk'[g]) /\ Len(disk'[g]) \in Nat
      BY <1>1
    <2>2. Len(disk[g]) \in 1 .. Len(disk[g])
      BY <2>1
    <2>. QED
      BY <1>1, <2>1, <2>2
  <1>. QED
    BY <1>1, <1>2, <1>3 DEF Lines, Readable

\* What is left of a worker's appends is what followed the first.
Shrinks(w, rest) ==
    /\ todo' \in [Worker -> Seq(Append_)] /\ todo'[w] = rest
    /\ \A v \in Worker : v # w => todo'[v] = todo[v]
    /\ \A k \in DOMAIN todo'[w] :
          /\ k \in Nat \ {0} /\ rest = Tail(todo[w])
          /\ k + 1 \in DOMAIN todo[w] /\ todo'[w][k] = todo[w][k + 1]
          /\ \A j \in 1 .. k - 1 : todo'[w][j] = todo[w][j + 1]
    /\ Busy' \subseteq Busy

\* Whether the worker goes on or dies.
LEMMA TodoShrinks ==
    ASSUME ResearchTypeOK, NEW w \in Worker, todo[w] # <<>>, NEW rest, rest \in {<<>>, Tail(todo[w])},
           todo' = [todo EXCEPT ![w] = rest]
    PROVE  Shrinks(w, rest)
  <1>1. todo \in [Worker -> Seq(Append_)] /\ todo[w] \in Seq(Append_)
    BY DEF ResearchTypeOK, Pieces, Piece
  <1>2. rest \in Seq(Append_)
    <2>1. <<>> \in Seq(Append_)
      OBVIOUS
    <2>2. Tail(todo[w]) \in Seq(Append_)
      BY <1>1
    <2>. QED
      BY <2>1, <2>2
  <1>3. todo' \in [Worker -> Seq(Append_)] /\ todo'[w] = rest /\ \A v \in Worker : v # w => todo'[v] = todo[v]
    BY <1>1, <1>2
  <1>4. ASSUME NEW k \in DOMAIN rest
        PROVE  /\ k \in Nat \ {0} /\ rest = Tail(todo[w])
               /\ k + 1 \in DOMAIN todo[w] /\ rest[k] = todo[w][k + 1]
               /\ \A j \in 1 .. k - 1 : rest[j] = todo[w][j + 1]
    <2>1. rest = Tail(todo[w]) /\ Len(todo[w]) \in Nat \ {0} /\ DOMAIN todo[w] = 1 .. Len(todo[w])
      BY <1>1
    <2>2. DOMAIN rest = 1 .. Len(todo[w]) - 1 /\ \A i \in 1 .. Len(todo[w]) - 1 : rest[i] = todo[w][i + 1]
      BY <1>1, <2>1
    <2>. QED
      BY <2>1, <2>2
  <1>5. Busy' \subseteq Busy
    BY <1>3 DEF Busy
  <1>. QED
    BY <1>3, <1>4, <1>5 DEF Shrinks

\* What landing an append does to the worker's other appends and to the rows kept.
LEMMA LandsTodo ==
    ASSUME ResearchTypeOK, NEW w \in Worker, NEW p, Lands(w, p)
    PROVE  /\ todo' \in [Worker -> Seq(Append_)]
           /\ \A v \in Worker : v # w => todo'[v] = todo[v]
           /\ \A k \in DOMAIN todo'[w] :
                 /\ k \in Nat \ {0} /\ ~p.open
                 /\ k + 1 \in DOMAIN todo[w] /\ todo'[w][k] = todo[w][k + 1]
                 /\ \A j \in 1 .. k - 1 : todo'[w][j] = todo[w][j + 1]
           /\ Busy' \subseteq Busy /\ (p.open => w \notin Busy')
  <1> DEFINE rest == IF p.open THEN <<>> ELSE Tail(todo[w])
  <1>1. todo[w] # <<>> /\ todo' = [todo EXCEPT ![w] = rest] /\ todo \in [Worker -> Seq(Append_)]
    BY DEF Lands, ResearchTypeOK
  <1>2. rest \in {<<>>, Tail(todo[w])} /\ (p.open => rest = <<>>)
    OBVIOUS
  <1> HIDE DEF rest
  <1>3. /\ todo' \in [Worker -> Seq(Append_)] /\ todo'[w] = rest
        /\ \A v \in Worker : v # w => todo'[v] = todo[v]
        /\ \A k \in DOMAIN todo'[w] :
              /\ k \in Nat \ {0} /\ rest = Tail(todo[w])
              /\ k + 1 \in DOMAIN todo[w] /\ todo'[w][k] = todo[w][k + 1]
              /\ \A j \in 1 .. k - 1 : todo'[w][j] = todo[w][j + 1]
        /\ Busy' \subseteq Busy
    <2>1. Shrinks(w, rest)
      BY <1>1, <1>2, TodoShrinks
    <2>. QED
      BY <2>1, Zenon DEF Shrinks
  <1>4. \A k \in DOMAIN todo'[w] : ~p.open
    BY <1>2, <1>3
  <1>5. p.open => w \notin Busy'
    BY <1>2, <1>3 DEF Busy
  <1>. QED
    BY <1>3, <1>4, <1>5

\* A row stays kept, and one written to the end is.
LEMMA KeptGrows ==
    ASSUME ResearchTypeOK, NEW w \in Worker, NEW p, Lands(w, p)
    PROVE  Kept \subseteq Kept' /\ (~p.open => p.row.key \in Kept')
  <1> DEFINE f == todo[w][1].file
             n == Len(disk[f])
  <1>1. /\ f \in File
        /\ \A g \in File : \A i \in DOMAIN disk[g] : i \in DOMAIN disk'[g] /\ disk'[g][i] = disk[g][i]
        /\ n + 1 \in DOMAIN disk'[f] /\ disk'[f][n + 1] = p
    BY DiskGrows DEF Lands
  <1> HIDE DEF f, n
  <1>2. Kept \subseteq Kept'
    BY <1>1 DEF Kept
  <1>3. ~p.open => p.row.key \in Kept'
    BY <1>1 DEF Kept
  <1>. QED
    BY <1>2, <1>3

\* The request a busy worker serves stays the same.
LEMMA SameRequest ==
    ASSUME IInv, NEW w \in Worker, NEW p, Lands(w, p)
    PROVE  /\ \A v \in Busy' : v \in Busy /\ 1 \in DOMAIN todo'[v] /\ Request(v)' = Request(v)
           /\ w \in Busy /\ p.row.key[1] = Request(w)
  <1>1. ResearchTypeOK /\ OneRequest
    BY DEF IInv
  <1>2. /\ todo' \in [Worker -> Seq(Append_)]
        /\ \A v \in Worker : v # w => todo'[v] = todo[v]
        /\ \A k \in DOMAIN todo'[w] : k + 1 \in DOMAIN todo[w] /\ todo'[w][k] = todo[w][k + 1]
        /\ Busy' \subseteq Busy
    BY <1>1, LandsTodo
  <1>3. w \in Busy /\ p.row.key[1] = Request(w)
    BY DEF Lands, Busy, Request
  <1>4. ASSUME NEW v \in Busy' PROVE v \in Busy /\ 1 \in DOMAIN todo'[v] /\ Request(v)' = Request(v)
    <2>1. v \in Worker /\ todo'[v] # <<>>
      BY DEF Busy
    <2>2. 1 \in DOMAIN todo'[v]
      <3>1. todo'[v] \in Seq(Append_)
        BY <1>2, <2>1
      <3>. QED
        BY <2>1, <3>1
    <2>3. CASE v = w
      <3>1. todo[w][1 + 1].row.key[1] = Request(w) /\ todo'[w][1] = todo[w][1 + 1]
        BY <1>1, <1>2, <1>3, <2>2, <2>3 DEF OneRequest
      <3>. QED
        BY <1>2, <2>2, <2>3, <3>1 DEF Request
    <2>4. CASE v # w
      BY <1>2, <2>1, <2>2, <2>4 DEF Request
    <2>. QED
      BY <2>3, <2>4
  <1>. QED
    BY <1>3, <1>4

\* An append is of the request of its worker, and a torn one is its last.
LEMMA LandsOneRequest ==
    ASSUME IInv, NEW w \in Worker, NEW p, Lands(w, p)
    PROVE  OneRequest'
  <1> DEFINE f == todo[w][1].file
             n == Len(disk[f])
  <1>1. ResearchTypeOK /\ OneRequest
    BY DEF IInv
  <1>2. /\ DOMAIN disk' = File
        /\ \A g \in File : \A i \in DOMAIN disk[g] : i \in DOMAIN disk'[g] /\ disk'[g][i] = disk[g][i]
        /\ \A g \in File : \A i \in DOMAIN disk'[g] :
              i \in DOMAIN disk[g] \/ (g = f /\ i = n + 1 /\ disk'[g][i] = p)
    BY <1>1, DiskGrows
  <1> HIDE DEF f, n
  <1>3. /\ \A v \in Busy' : v \in Busy /\ 1 \in DOMAIN todo'[v] /\ Request(v)' = Request(v)
        /\ w \in Busy /\ p.row.key[1] = Request(w) /\ served' = served
    BY SameRequest DEF Lands
  <1>4. /\ \A v \in Worker : v # w => todo'[v] = todo[v]
        /\ \A k \in DOMAIN todo'[w] : k + 1 \in DOMAIN todo[w] /\ todo'[w][k] = todo[w][k + 1]
        /\ p.open => w \notin Busy'
    BY <1>1, LandsTodo
  <1>5. Request(w) <= served
    BY <1>1, <1>3 DEF OneRequest
  <1>6. \A g \in File : \A i \in DOMAIN disk'[g] : disk'[g][i].row.key[1] <= served'
    BY <1>1, <1>2, <1>3, <1>5 DEF OneRequest
  <1>7. ASSUME NEW v \in Busy'
        PROVE  /\ Request(v)' <= served'
               /\ \A k \in DOMAIN todo'[v] : todo'[v][k].row.key[1] = Request(v)'
               /\ \A u \in Busy' : Request(u)' = Request(v)' => u = v
               /\ \A g \in File : \A i \in DOMAIN disk'[g] :
                     disk'[g][i].open => disk'[g][i].row.key[1] # Request(v)'
    <2>1. v \in Busy /\ v \in Worker /\ Request(v)' = Request(v)
      BY <1>3 DEF Busy
    <2>2. /\ Request(v) <= served /\ \A k \in DOMAIN todo[v] : todo[v][k].row.key[1] = Request(v)
          /\ \A u \in Busy : Request(u) = Request(v) => u = v
          /\ \A g \in File : \A i \in DOMAIN disk[g] : disk[g][i].open => disk[g][i].row.key[1] # Request(v)
      BY <1>1, <2>1 DEF OneRequest
    <2>3. \A k \in DOMAIN todo'[v] : todo'[v][k].row.key[1] = Request(v)
      <3>1. CASE v = w
        BY <1>4, <2>2, <3>1
      <3>2. CASE v # w
        BY <1>4, <2>1, <2>2, <3>2
      <3>. QED
        BY <3>1, <3>2
    <2>4. \A u \in Busy' : Request(u)' = Request(v)' => u = v
      BY <1>3, <2>1, <2>2
    <2>5. ASSUME NEW g \in File, NEW i \in DOMAIN disk'[g], disk'[g][i].open
          PROVE  disk'[g][i].row.key[1] # Request(v)
      <3>1. CASE i \in DOMAIN disk[g]
        BY <1>2, <2>2, <2>5, <3>1
      <3>2. CASE disk'[g][i] = p
        <4>1. w \notin Busy'
          BY <1>4, <2>5, <3>2
        <4>2. v # w
          BY <4>1
        <4>. QED
          BY <1>3, <2>2, <3>2, <4>2
      <3>. QED
        BY <1>2, <3>1, <3>2
    <2>. QED
      BY <1>3, <2>1, <2>2, <2>3, <2>4, <2>5
  <1>. QED
    BY <1>6, <1>7, Zenon DEF OneRequest

\* What the append cites is kept, and what the later ones cite of it is from now on.
LEMMA LandsCitesKept ==
    ASSUME IInv, NEW w \in Worker, NEW p, Lands(w, p), answered' \subseteq Kept'
    PROVE  CitesKept'
  <1> DEFINE f == todo[w][1].file
             n == Len(disk[f])
  <1>1. ResearchTypeOK /\ CitesKept
    BY DEF IInv
  <1>2. /\ \A g \in File : \A i \in DOMAIN disk[g] : i \in DOMAIN disk'[g] /\ disk'[g][i] = disk[g][i]
        /\ \A g \in File : \A i \in DOMAIN disk'[g] :
              i \in DOMAIN disk[g] \/ (g = f /\ i = n + 1 /\ disk'[g][i] = p)
    BY <1>1, DiskGrows
  <1>3. 1 \in DOMAIN todo[w] /\ p.row = todo[w][1].row
    BY <1>1, NextAppend DEF Lands
  <1>4. Cites(f, p.row) \subseteq Kept
    BY <1>1, <1>3 DEF CitesKept
  <1> HIDE DEF f, n
  <1>5. /\ \A v \in Worker : v # w => todo'[v] = todo[v]
        /\ \A k \in DOMAIN todo'[w] :
              /\ k \in Nat \ {0} /\ ~p.open
              /\ k + 1 \in DOMAIN todo[w] /\ todo'[w][k] = todo[w][k + 1]
              /\ \A j \in 1 .. k - 1 : todo'[w][j] = todo[w][j + 1]
    BY <1>1, LandsTodo
  <1>6. Kept \subseteq Kept' /\ (~p.open => p.row.key \in Kept')
    BY <1>1, KeptGrows
  <1>7. \A g \in File : \A i \in DOMAIN disk'[g] : Cites(g, disk'[g][i].row) \subseteq Kept'
    BY <1>1, <1>2, <1>4, <1>6 DEF CitesKept
  <1>8. ASSUME NEW v \in Worker, NEW k \in DOMAIN todo'[v]
        PROVE  Cites(todo'[v][k].file, todo'[v][k].row) \subseteq Kept' \cup {todo'[v][j].row.key : j \in 1 .. k - 1}
    <2>1. CASE v # w
      BY <1>1, <1>5, <1>6, <2>1 DEF CitesKept
    <2>2. CASE v = w
      <3>1. /\ k \in Nat \ {0} /\ k + 1 \in DOMAIN todo[w] /\ todo'[w][k] = todo[w][k + 1] /\ ~p.open
            /\ \A j \in 1 .. k - 1 : todo'[w][j] = todo[w][j + 1]
        BY <1>5, <2>2
      <3>2. Cites(todo'[w][k].file, todo'[w][k].row) \subseteq Kept \cup {todo[w][j].row.key : j \in 1 .. (k + 1) - 1}
        BY <1>1, <3>1 DEF CitesKept
      <3>3. ASSUME NEW j \in 1 .. (k + 1) - 1
            PROVE  todo[w][j].row.key \in Kept' \cup {todo'[w][m].row.key : m \in 1 .. k - 1}
        <4>1. CASE j = 1
          BY <1>3, <1>6, <3>1, <4>1
        <4>2. CASE j # 1
          <5>1. j - 1 \in 1 .. k - 1 /\ (j - 1) + 1 = j
            BY <3>1, <4>2
          <5>2. todo'[w][j - 1] = todo[w][j]
            BY <3>1, <5>1
          <5>. QED
            BY <5>1, <5>2
        <4>. QED
          BY <4>1, <4>2
      <3>. QED
        BY <1>6, <2>2, <3>2, <3>3
    <2>. QED
      BY <2>1, <2>2
  <1>. QED
    BY <1>7, <1>8 DEF CitesKept

\* The append is whole and unreadable only behind a torn one.
LEMMA LandsGlued ==
    ASSUME IInv, NEW w \in Worker, NEW p, Lands(w, p)
    PROVE  Glued' /\ (answered' \subseteq Key => ResearchTypeOK')
  <1> DEFINE f == todo[w][1].file
             n == Len(disk[f])
  <1>1. ResearchTypeOK /\ Glued
    BY DEF IInv
  <1>2. /\ n \in Nat /\ DOMAIN disk[f] = 1 .. n /\ (IsOpen(disk[f]) <=> n # 0 /\ disk[f][n].open)
        /\ DOMAIN disk' = File /\ \A g \in File : disk'[g] \in Seq(Piece(g))
        /\ \A g \in File : \A i \in DOMAIN disk[g] : i \in DOMAIN disk'[g] /\ disk'[g][i] = disk[g][i]
        /\ \A g \in File : \A i \in DOMAIN disk'[g] :
              i \in DOMAIN disk[g] \/ (g = f /\ i = n + 1 /\ disk'[g][i] = p)
    BY <1>1, DiskGrows
  <1>3. f \in File /\ (~p.ok /\ ~p.open => IsOpen(disk[f])) /\ served' = served
    BY DEF Lands
  <1> HIDE DEF f, n
  <1>4. ASSUME NEW g \in File, NEW i \in DOMAIN disk'[g]
        PROVE  ~disk'[g][i].ok /\ ~disk'[g][i].open => i - 1 \in DOMAIN disk'[g] /\ disk'[g][i - 1].open
    <2>1. CASE i \in DOMAIN disk[g]
      BY <1>1, <1>2, <2>1 DEF Glued
    <2>2. CASE g = f /\ i = n + 1 /\ disk'[g][i] = p
      <3>1. IsOpen(disk[f]) => n \in DOMAIN disk[f]
        BY <1>2
      <3>. QED
        BY <1>2, <1>3, <2>2, <3>1
    <2>. QED
      BY <1>2, <2>1, <2>2
  <1>5. todo' \in [Worker -> Seq(Append_)]
    BY <1>1, LandsTodo
  <1>. QED
    BY <1>1, <1>2, <1>3, <1>4, <1>5 DEF Glued, ResearchTypeOK, Pieces, Piece

\* An approval that is written finds the version it approves in front of it.
LEMMA LandsApprovals ==
    ASSUME IInv, NEW w \in Worker, NEW p, Lands(w, p)
    PROVE  ApprovalsAreManual' /\ PendingManual'
  <1> DEFINE f == todo[w][1].file
             n == Len(disk[f])
             e == "experiments"
  <1>1. ResearchTypeOK /\ ApprovalsAreManual /\ PendingManual
    BY DEF IInv
  <1>2. /\ n \in Nat /\ DOMAIN disk[f] = 1 .. n /\ e \in File
        /\ \A i \in DOMAIN disk[e] : i \in DOMAIN disk'[e] /\ disk'[e][i] = disk[e][i]
        /\ \A i \in DOMAIN disk'[e] :
              i \in DOMAIN disk[e] \/ (e = f /\ i = n + 1 /\ disk'[e][i] = p)
    BY <1>1, DiskGrows DEF File
  <1>3. 1 \in DOMAIN todo[w] /\ p.row = todo[w][1].row
    BY <1>1, NextAppend DEF Lands
  <1>4. f = e /\ p.row.status = "MANUALLY_APPROVED" => Behind(p.row)
    BY <1>1, <1>3 DEF PendingManual
  <1> HIDE DEF f, n
  <1>5. \A row : Behind(row) => Behind(row)'
    BY <1>2 DEF Behind
  <1>7. PendingManual'
    <2>1. /\ \A v \in Worker : v # w => todo'[v] = todo[v]
          /\ \A k \in DOMAIN todo'[w] : k + 1 \in DOMAIN todo[w] /\ todo'[w][k] = todo[w][k + 1]
      BY <1>1, LandsTodo
    <2>2. ASSUME NEW v \in Worker, NEW k \in DOMAIN todo'[v],
                 todo'[v][k].file = e, todo'[v][k].row.status = "MANUALLY_APPROVED"
          PROVE  Behind(todo'[v][k].row)
      <3>1. CASE v = w
        BY <1>1, <2>1, <2>2, <3>1 DEF PendingManual
      <3>2. CASE v # w
        BY <1>1, <2>1, <2>2, <3>2 DEF PendingManual
      <3>. QED
        BY <3>1, <3>2
    <2>. QED
      BY <1>5, <2>2 DEF PendingManual
  <1>8. ASSUME NEW i \in Lines(e)', disk'[e][i].row.status = "MANUALLY_APPROVED"
        PROVE  /\ disk'[e][i].row.by \notin NotHuman
               /\ \E j \in DOMAIN disk'[e] :
                     LET before == disk'[e][j].row IN
                     /\ j < i /\ disk'[e][j].ok /\ before.id = disk'[e][i].row.id
                     /\ before.status \in Approvable /\ disk'[e][i].row.version = NextVersion(before.version)
    <2>1. i \in DOMAIN disk'[e] /\ disk'[e][i].ok
      BY DEF Lines, Readable
    <2>2. CASE i \in DOMAIN disk[e]
      <3>1. i \in Lines(e) /\ disk[e][i] = disk'[e][i]
        BY <1>1, <1>2, <1>8, <2>2, OldLines
      <3>2. /\ disk[e][i].row.by \notin NotHuman
            /\ \E j \in DOMAIN disk[e] :
                  LET before == disk[e][j].row IN
                  /\ j < i /\ disk[e][j].ok /\ before.id = disk[e][i].row.id
                  /\ before.status \in Approvable /\ disk[e][i].row.version = NextVersion(before.version)
        BY <1>1, <1>8, <3>1 DEF ApprovalsAreManual
      <3>. QED
        BY <1>2, <3>1, <3>2
    <2>3. CASE e = f /\ i = n + 1 /\ disk'[e][i] = p
      <3>1. Behind(p.row)
        BY <1>4, <1>8, <2>3
      <3>2. PICK j \in DOMAIN disk[e] :
                LET before == disk[e][j].row IN
                /\ disk[e][j].ok /\ before.id = p.row.id
                /\ before.status \in Approvable /\ p.row.version = NextVersion(before.version)
        BY <3>1 DEF Behind
      <3>3. j < i
        BY <1>2, <2>3
      <3>. QED
        BY <1>2, <2>3, <3>1, <3>2, <3>3 DEF Behind
    <2>. QED
      BY <1>2, <2>1, <2>2, <2>3
  <1>9. ApprovalsAreManual'
    BY <1>8, Zenon DEF ApprovalsAreManual
  <1>. QED
    BY <1>7, <1>9

\* An artifact that is written changes nothing of what the requests have seen.
LEMMA LandsLooked ==
    ASSUME IInv, NEW w \in Worker, NEW p, Lands(w, p)
    PROVE  LookedFirst'
  <1> DEFINE f == todo[w][1].file
             e == "artifacts"
             m == Len(disk[e])
             After(row) == /\ row.looked <= Len(disk'[e])
                           /\ \A i \in Lines(e)' : i <= row.looked => disk'[e][i].row.hash # row.hash
  <1>1. ResearchTypeOK /\ LookedFirst /\ e \in File
    BY DEF IInv, File
  <1>2. /\ \A i \in DOMAIN disk[e] : i \in DOMAIN disk'[e] /\ disk'[e][i] = disk[e][i]
        /\ \A i \in DOMAIN disk'[e] : i \in DOMAIN disk[e] \/ (e = f /\ disk'[e][i] = p)
        /\ disk'[e] \in Seq(Piece(e))
    BY <1>1, DiskGrows
  <1>3. 1 \in DOMAIN todo[w] /\ p.row = todo[w][1].row
    BY <1>1, NextAppend DEF Lands
  <1>4. m \in Nat /\ DOMAIN disk[e] = 1 .. m /\ Len(disk'[e]) \in Nat /\ DOMAIN disk'[e] = 1 .. Len(disk'[e])
    <2>1. disk[e] \in Seq(Piece(e))
      BY <1>1 DEF ResearchTypeOK, Pieces, Piece
    <2>. QED
      BY <1>2, <2>1
  <1>5. m <= Len(disk'[e])
    <2>1. CASE m = 0
      BY <1>4, <2>1
    <2>2. CASE m # 0
      <3>1. m \in DOMAIN disk[e]
        BY <1>4, <2>2
      <3>. QED
        BY <1>2, <1>4, <3>1
    <2>. QED
      BY <2>1, <2>2
  <1> HIDE DEF f
  <1>6. ASSUME NEW row, row.looked \in Nat, Unseen(row) PROVE After(row)
    <2>1. row.looked <= m /\ \A i \in Lines(e) : i <= row.looked => disk[e][i].row.hash # row.hash
      BY <1>6 DEF Unseen
    <2>2. ASSUME NEW i \in Lines(e)', i <= row.looked PROVE disk'[e][i].row.hash # row.hash
      <3>1. i \in DOMAIN disk'[e]
        BY DEF Lines, Readable
      <3>2. i \in DOMAIN disk[e]
        BY <1>4, <1>6, <2>1, <2>2, <3>1
      <3>3. i \in Lines(e) /\ disk'[e][i] = disk[e][i]
        BY <1>1, <3>2, OldLines
      <3>. QED
        BY <2>1, <2>2, <3>3
    <2>3. row.looked <= Len(disk'[e])
      BY <1>4, <1>5, <1>6, <2>1
    <2>. QED
      BY <2>2, <2>3
  <1> HIDE DEF After
  <1>7. f = e => Unseen(p.row) /\ p.row.looked \in Nat
    <2>1. f = e => todo[w][1].row \in RowOf(e)
      BY <1>1, NextAppend DEF f, Lands
    <2>. QED
      BY <1>1, <1>3, <2>1 DEF LookedFirst, RowOf, f
  <1>8. ASSUME NEW i \in DOMAIN disk'[e] PROVE After(disk'[e][i].row)
    <2>1. CASE i \in DOMAIN disk[e]
      <3>1. disk[e][i].row \in RowOf(e)
        BY <1>1, <2>1, PieceFacts
      <3>2. Unseen(disk[e][i].row) /\ disk[e][i].row.looked \in Nat
        BY <1>1, <2>1, <3>1 DEF LookedFirst, RowOf
      <3>. QED
        BY <1>2, <1>6, <2>1, <3>2
    <2>2. CASE e = f /\ disk'[e][i] = p
      BY <1>6, <1>7, <2>2
    <2>. QED
      BY <1>2, <2>1, <2>2
  <1>9. /\ \A v \in Worker : v # w => todo'[v] = todo[v]
        /\ \A k \in DOMAIN todo'[w] : k + 1 \in DOMAIN todo[w] /\ todo'[w][k] = todo[w][k + 1]
    BY <1>1, LandsTodo
  <1>10. ASSUME NEW v \in Worker, NEW k \in DOMAIN todo[v], todo[v][k].file = e
         PROVE  After(todo[v][k].row)
    <2>1. todo[v] \in Seq(Append_)
      BY <1>1 DEF ResearchTypeOK, Pieces, Piece
    <2>2. todo[v][k] \in Append_
      BY <2>1
    <2>3. todo[v][k].row \in RowOf(e)
      BY <1>10, <2>2 DEF Append_
    <2>4. todo[v][k].row.looked \in Nat /\ Unseen(todo[v][k].row)
      BY <1>1, <1>10, <2>3 DEF RowOf, LookedFirst
    <2>. QED
      BY <1>6, <2>4
  <1>11. ASSUME NEW v \in Worker, NEW k \in DOMAIN todo'[v], todo'[v][k].file = e
         PROVE  After(todo'[v][k].row)
    <2>1. CASE v = w
      BY <1>9, <1>10, <1>11, <2>1
    <2>2. CASE v # w
      BY <1>9, <1>10, <1>11, <2>2
    <2>. QED
      BY <2>1, <2>2
  <1>. QED
    BY <1>8, <1>11 DEF LookedFirst, Unseen, After

\* What an answer speaks of is kept: the request that is answered has torn no line.
LEMMA WriteAnswers ==
    ASSUME IInv, NEW w \in Worker, Write(w)
    PROVE  answered' \subseteq Kept' /\ answered' \subseteq Key
  <1> DEFINE p == Whole(disk[todo[w][1].file], todo[w][1].row)
             f == todo[w][1].file
             n == Len(disk[f])
  <1>1. ResearchTypeOK /\ OneRequest /\ CitesKept
    BY DEF IInv
  <1>2. Lands(w, p) /\ ~p.open
    BY <1>1, WriteLands
  <1> HIDE DEF p
  <1>3. /\ \A g \in File : disk'[g] \in Seq(Piece(g))
        /\ \A g \in File : \A i \in DOMAIN disk[g] : i \in DOMAIN disk'[g] /\ disk'[g][i] = disk[g][i]
        /\ \A g \in File : \A i \in DOMAIN disk'[g] :
              i \in DOMAIN disk[g] \/ (g = f /\ i = n + 1 /\ disk'[g][i] = p)
    BY <1>1, <1>2, DiskGrows
  <1>4. Kept \subseteq Kept' /\ answered \subseteq Kept /\ answered \subseteq Key
    BY <1>1, <1>2, KeptGrows DEF CitesKept, ResearchTypeOK
  <1>5. w \in Busy /\ p.row.key[1] = Request(w) /\ Head(todo[w]) = todo[w][1]
    BY <1>1, <1>2, SameRequest, NextAppend DEF Busy
  <1>6. answered' = answered \/ answered' = answered \cup Written(Request(w)) \cup Named(todo[w][1])
    BY <1>5 DEF Write, Request
  <1>8. Named(todo[w][1]) \subseteq Kept /\ Named(todo[w][1]) \subseteq Key
    <2>1. 1 \in DOMAIN todo[w] /\ todo[w][1].file \in File /\ todo[w][1].row \in RowOf(todo[w][1].file)
      BY <1>1, <1>5, NextAppend DEF Busy
    <2>2. Cites(todo[w][1].file, todo[w][1].row) \subseteq Kept \cup {todo[w][j].row.key : j \in 1 .. 1 - 1}
      BY <1>1, <2>1 DEF CitesKept, Busy
    <2>3. 1 .. 1 - 1 = {}
      OBVIOUS
    <2>4. Named(todo[w][1]) \subseteq Kept
      BY <2>2, <2>3 DEF Named, Cites
    <2>5. Named(todo[w][1]) \subseteq Key
      BY <2>1 DEF Named, RowOf
    <2>. QED
      BY <2>4, <2>5
  <1> HIDE DEF f, n
  <1>7. ASSUME NEW key \in Written(Request(w)) PROVE key \in Kept' /\ key \in Key
    <2>1. key[1] = Request(w)
      BY DEF Written
    <2>2. PICK g \in File : \E i \in DOMAIN disk'[g] : key = disk'[g][i].row.key
      <3>1. PICK g \in File : \E piece \in Range(disk'[g]) : key = piece.row.key
        BY DEF Written
      <3>2. PICK piece \in Range(disk'[g]) : key = piece.row.key
        BY <3>1
      <3>3. \E i \in DOMAIN disk'[g] : piece = disk'[g][i]
        BY DEF Range
      <3>. QED
        BY <3>2, <3>3
    <2>3. PICK i \in DOMAIN disk'[g] : key = disk'[g][i].row.key
      BY <2>2
    <2>4. ~disk'[g][i].open
      <3>1. CASE i \in DOMAIN disk[g]
        BY <1>1, <1>3, <1>5, <2>1, <2>3, <3>1 DEF OneRequest
      <3>2. CASE disk'[g][i] = p
        BY <1>2, <3>2
      <3>. QED
        BY <1>3, <3>1, <3>2
    <2>5. key \in Key
      <3>1. disk'[g] \in Seq(Piece(g))
        BY <1>3
      <3>2. disk'[g][i] \in Piece(g)
        BY <3>1
      <3>. QED
        BY <2>3, <3>2, RowHasKey DEF Piece
    <2>. QED
      BY <2>3, <2>4, <2>5 DEF Kept
  <1>. QED
    BY <1>4, <1>6, <1>7, <1>8

\* An append keeps the invariant, if what is answered by it is kept.
LEMMA LandsKeeps ==
    ASSUME IInv, NEW w \in Worker, NEW p, Lands(w, p), answered' \subseteq Kept', answered' \subseteq Key
    PROVE  IInv'
  BY LandsOneRequest, LandsCitesKept, LandsGlued, LandsApprovals, LandsLooked DEF IInv

\* A worker that dies leaves its appends undone.
LEMMA CrashKeeps ==
    ASSUME IInv, NEW w \in Worker, Crash(w)
    PROVE  IInv'
  <1>1. ResearchTypeOK /\ Glued /\ OneRequest /\ CitesKept /\ ApprovalsAreManual /\ PendingManual /\ LookedFirst
    BY DEF IInv
  <1>2. /\ todo[w] # <<>> /\ disk' = disk /\ answered' = answered /\ served' = served
        /\ todo' = [todo EXCEPT ![w] = <<>>]
    BY DEF Crash
  <1>3. Shrinks(w, <<>>)
    BY <1>1, <1>2, TodoShrinks, Zenon
  <1>4. /\ todo' \in [Worker -> Seq(Append_)] /\ todo'[w] = <<>>
        /\ \A v \in Worker : v # w => todo'[v] = todo[v]
    BY <1>3 DEF Shrinks
  <1>5. ResearchTypeOK' /\ Glued' /\ ApprovalsAreManual'
    BY <1>1, <1>2, <1>4 DEF ResearchTypeOK, Pieces, Piece, Glued, ApprovalsAreManual, Lines, Readable
  <1>6. Kept' = Kept /\ (\A row : Behind(row)' <=> Behind(row)) /\ (\A row : Unseen(row)' <=> Unseen(row))
    BY <1>2 DEF Kept, Behind, Unseen, Lines, Readable
  <1>7. DOMAIN <<>> = {}
    OBVIOUS
  <1>8. \A v \in Busy' : v \in Busy /\ v \in Worker /\ v # w /\ todo'[v] = todo[v] /\ Request(v)' = Request(v)
    BY <1>4 DEF Busy, Request
  <1>9. OneRequest'
    BY <1>1, <1>2, <1>8 DEF OneRequest
  <1>10. CitesKept'
    <2>1. ASSUME NEW v \in Worker, NEW k \in DOMAIN todo'[v]
          PROVE  Cites(todo'[v][k].file, todo'[v][k].row) \subseteq Kept \cup {todo'[v][j].row.key : j \in 1 .. k - 1}
      <3>1. v # w
        BY <1>4, <1>7
      <3>2. todo'[v] = todo[v]
        BY <1>4, <3>1
      <3>3. Cites(todo[v][k].file, todo[v][k].row) \subseteq Kept \cup {todo[v][j].row.key : j \in 1 .. k - 1}
        BY <1>1, <3>2 DEF CitesKept
      <3>. QED
        BY <3>2, <3>3
    <2>2. answered' \subseteq Kept /\ \A f \in File : \A i \in DOMAIN disk'[f] : Cites(f, disk'[f][i].row) \subseteq Kept
      BY <1>1, <1>2 DEF CitesKept
    <2>. QED
      BY <1>6, <2>1, <2>2 DEF CitesKept
  <1>11. PendingManual'
    BY <1>1, <1>4, <1>6, <1>7, Zenon DEF PendingManual
  <1>12. LookedFirst'
    BY <1>1, <1>2, <1>4, <1>6, <1>7, Zenon DEF LookedFirst
  <1>. QED
    BY <1>5, <1>9, <1>10, <1>11, <1>12 DEF IInv

-----------------------------------------------------------------------------
(* The invariant *)

\* The invariant holds of the empty files.
LEMMA Starts == Init => IInv
  <1> SUFFICES ASSUME Init PROVE IInv
    OBVIOUS
  <1>1. /\ disk = [f \in File |-> <<>>] /\ todo = [w \in Worker |-> <<>>] /\ served = 0 /\ answered = {}
    BY DEF Init
  <1>2. DOMAIN <<>> = {} /\ (\A S : <<>> \in Seq(S))
    OBVIOUS
  <1>3. /\ \A f \in File : disk[f] = <<>> /\ DOMAIN disk[f] = {}
        /\ \A w \in Worker : todo[w] = <<>> /\ DOMAIN todo[w] = {}
    BY <1>1, <1>2
  <1>4. ResearchTypeOK
    BY <1>1, <1>2, ResearchAssumption DEF ResearchTypeOK, Pieces, Piece
  <1>5. Busy = {}
    BY <1>3 DEF Busy
  <1>6. Glued /\ OneRequest /\ CitesKept /\ PendingManual
    BY <1>1, <1>3, <1>5 DEF Glued, OneRequest, CitesKept, PendingManual
  <1>7. "experiments" \in File /\ "artifacts" \in File
    BY DEF File
  <1>8. ApprovalsAreManual
    BY <1>3, <1>7 DEF ApprovalsAreManual, Lines, Readable
  <1>9. LookedFirst
    BY <1>3, <1>7 DEF LookedFirst
  <1>. QED
    BY <1>4, <1>6, <1>8, <1>9 DEF IInv

\* Every step keeps the invariant.
LEMMA NextKeeps == IInv /\ [Next]_vars => IInv'
  <1> SUFFICES ASSUME IInv, [Next]_vars PROVE IInv'
    OBVIOUS
  <1>1. ResearchTypeOK /\ CitesKept
    BY DEF IInv
  <1>2. ASSUME NEW w \in Worker, Create(w) PROVE IInv'
    BY <1>2, RequestsSound, StartKeeps
  <1>3. ASSUME NEW w \in Worker, Write(w) PROVE IInv'
    BY <1>1, <1>3, WriteLands, WriteAnswers, LandsKeeps
  <1>4. ASSUME NEW w \in Worker, Crash(w) PROVE IInv'
    BY <1>4, CrashKeeps
  <1>5. ASSUME NEW w \in Worker, Tear(w) PROVE IInv'
    <2>1. PICK p : Lands(w, p)
      BY <1>1, <1>5, TearLands
    <2>3. answered' = answered
      BY <1>5 DEF Tear
    <2>2. answered' \subseteq Kept' /\ answered' \subseteq Key
      BY <1>1, <2>1, <2>3, KeptGrows DEF CitesKept, ResearchTypeOK
    <2>. QED
      BY <2>1, <2>2, LandsKeeps
  <1>6. CASE UNCHANGED vars
    <2>1. disk' = disk /\ todo' = todo /\ served' = served /\ answered' = answered
      BY <1>6 DEF vars
    <2>2. ResearchTypeOK' /\ Glued'
      BY <1>1, <2>1 DEF IInv, ResearchTypeOK, Glued
    <2>3. OneRequest'
      BY <2>1 DEF IInv, OneRequest, Busy, Request
    <2>4. CitesKept'
      BY <2>1 DEF IInv, CitesKept, Kept
    <2>5. ApprovalsAreManual' /\ PendingManual'
      BY <2>1 DEF IInv, ApprovalsAreManual, PendingManual, Behind, Lines, Readable
    <2>6. LookedFirst'
      BY <2>1 DEF IInv, LookedFirst, Unseen, Lines, Readable
    <2>. QED
      BY <2>2, <2>3, <2>4, <2>5, <2>6 DEF IInv
  <1>. QED
    BY <1>2, <1>3, <1>4, <1>5, <1>6, Zenon DEF Next, Create, Done

\* The inductive invariant holds in every state.
THEOREM Invariant == Spec => []IInv
  BY Starts, NextKeeps, PTL DEF Spec

\* The files, the pending appends and the counters have their types.
THEOREM ResearchTypeCorrect == Spec => []ResearchTypeOK
  <1>1. IInv => ResearchTypeOK
    BY DEF IInv
  <1>. QED
    BY <1>1, Invariant, PTL

\* manually_approve_experiment reads the version it approves and writes the approval later,
\* without a lock: still every approval is by a person and stands behind an approvable
\* version of the same experiment, however requests interleave and workers die.
THEOREM ApprovalsManual == Spec => []ApprovalsAreManual
  <1>1. IInv => ApprovalsAreManual
    BY DEF IInv
  <1>. QED
    BY <1>1, Invariant, PTL

\* append_idempotent stores an artifact again only in a race: of two copies that can be read
\* the first was written after the request of the second had looked for it.
THEOREM DuplicatesRace == Spec => []DuplicatesNeedRace
  <1>1. IInv => DuplicatesNeedRace
    <2> SUFFICES ASSUME IInv, NEW i \in Lines("artifacts"), NEW j \in Lines("artifacts"),
                        i < j, disk["artifacts"][i].row.hash = disk["artifacts"][j].row.hash
                 PROVE  i > disk["artifacts"][j].row.looked
      BY DEF DuplicatesNeedRace
    <2>1. i \in DOMAIN disk["artifacts"] /\ j \in DOMAIN disk["artifacts"] /\ "artifacts" \in File
      BY DEF Lines, Readable, File
    <2>2. Unseen(disk["artifacts"][j].row)
      BY <2>1 DEF IInv, LookedFirst
    <2>3. disk["artifacts"][j].row \in RowOf("artifacts") /\ disk["artifacts"] \in Seq(Piece("artifacts"))
      BY <2>1, PieceFacts DEF IInv, ResearchTypeOK, Pieces, Piece
    <2>4. disk["artifacts"][j].row.looked \in Nat /\ i \in Nat
      BY <2>1, <2>3 DEF RowOf
    <2>5. ~(i <= disk["artifacts"][j].row.looked)
      BY <2>2 DEF Unseen
    <2>. QED
      BY <2>4, <2>5
  <1>. QED
    BY <1>1, Invariant, PTL

-----------------------------------------------------------------------------
(* What torn lines cost *)

\* A function has no more values than arguments.
LEMMA ImageCounted ==
    ASSUME NEW S, IsFiniteSet(S), NEW g, g = [x \in S |-> g[x]]
    PROVE  IsFiniteSet({g[x] : x \in S}) /\ Cardinality({g[x] : x \in S}) <= Cardinality(S)
  <1> DEFINE T == {g[x] : x \in S}
  <1>1. g \in [S -> T] /\ \A t \in T : \E x \in S : g[x] = t
    OBVIOUS
  <1>2. g \in Surjection(S, T)
    BY <1>1 DEF Surjection
  <1>3. IsFiniteSet(T) /\ Cardinality(T) <= Cardinality(S)
    BY <1>2, FS_Surjection, Zenon
  <1>. QED
    BY <1>3

\* There are finitely many files.
LEMMA FilesFinite == IsFiniteSet(File)
  <1>1. \A x : IsFiniteSet({x})
    BY FS_Singleton
  <1>2. \A S, T : IsFiniteSet(S) /\ IsFiniteSet(T) => IsFiniteSet(S \cup T)
    BY FS_Union
  <1>3. IsFiniteSet((({"hypotheses"} \cup {"evidence"}) \cup ({"experiments"} \cup {"learning"}))
                    \cup (({"approvals"} \cup {"audit"}) \cup ({"artifacts"} \cup {"m3b_audit"})))
    BY <1>1, <1>2, Zenon
  <1>4. File = (({"hypotheses"} \cup {"evidence"}) \cup ({"experiments"} \cup {"learning"}))
               \cup (({"approvals"} \cup {"audit"}) \cup ({"artifacts"} \cup {"m3b_audit"}))
    BY DEF File
  <1>. QED
    BY <1>3, <1>4, Zenon

\* Finitely many lines are torn.
LEMMA TornFinite ==
    ASSUME ResearchTypeOK
    PROVE  IsFiniteSet(TornAt)
  <1> DEFINE g == [f \in File |-> DOMAIN disk[f]]
             D == {g[x] : x \in File}
  <1>1. ASSUME NEW f \in File PROVE IsFiniteSet(g[f])
    <2>1. disk[f] \in Seq(Piece(f))
      BY DEF ResearchTypeOK, Pieces, Piece
    <2>2. Len(disk[f]) \in Nat /\ DOMAIN disk[f] = 1 .. Len(disk[f])
      BY <2>1
    <2>. QED
      BY <2>2, FS_Interval
  <1>2. g = [f \in File |-> g[f]] /\ \A f \in File : g[f] = DOMAIN disk[f]
    OBVIOUS
  <1> HIDE DEF g
  <1>3. IsFiniteSet(D)
    BY <1>2, FilesFinite, ImageCounted
  <1>4. IsFiniteSet(UNION D)
    BY <1>1, <1>3, FS_UNION
  <1>5. TornAt \subseteq File \X UNION D
    BY <1>2 DEF TornAt, TornIn
  <1> HIDE DEF D
  <1>6. IsFiniteSet(File \X UNION D)
    BY <1>4, FilesFinite, FS_Product
  <1>. QED
    BY <1>5, <1>6, FS_Subset

\* Of the rows that were kept, each that cannot be read stands behind a torn one or lost its
\* newline.
LEMMA TornCost ==
    ASSUME IInv, NEW S, S \subseteq Kept
    PROVE  Cardinality(S \ ReadableKeys) <= Cost
  <1> DEFINE g == [x \in TornAt |-> disk[x[1]][x[2] + 1].row.key]
             h == [x \in ReadableTornAt |-> disk[x[1]][x[2]].row.key]
             T == {g[x] : x \in TornAt}
             U == {h[x] : x \in ReadableTornAt}
  <1>1. ResearchTypeOK /\ Glued
    BY DEF IInv
  <1>2. IsFiniteSet(TornAt) /\ IsFiniteSet(ReadableTornAt)
    <2>1. ReadableTornAt \subseteq TornAt
      BY DEF ReadableTornAt, TornAt, TornIn
    <2>. QED
      BY <1>1, <2>1, TornFinite, FS_Subset
  <1>3. ASSUME NEW key \in S, key \notin ReadableKeys
        PROVE  \/ \E x \in TornAt : key = g[x]
               \/ \E x \in ReadableTornAt : key = h[x]
    <2>1. PICK f \in File : \E i \in DOMAIN disk[f] :
             (~disk[f][i].open \/ disk[f][i].ok) /\ key = disk[f][i].row.key
      BY DEF Kept
    <2>2. PICK i \in DOMAIN disk[f] : (~disk[f][i].open \/ disk[f][i].ok) /\ key = disk[f][i].row.key
      BY <2>1
    <2>3. i \notin Lines(f)
      BY <1>3, <2>2 DEF ReadableKeys, Rows
    <2>4. CASE disk[f][i].ok
      <3>1. disk[f][i].open
        BY <2>3, <2>4 DEF Lines, Readable
      <3>2. <<f, i>> \in ReadableTornAt
        BY <2>4, <3>1 DEF ReadableTornAt, TornIn
      <3>3. h[<<f, i>>] = key
        BY <2>2, <3>2
      <3>. QED
        BY <3>2, <3>3
    <2>5. CASE ~disk[f][i].ok
      <3>1. i - 1 \in DOMAIN disk[f] /\ disk[f][i - 1].open
        BY <1>1, <2>2, <2>5 DEF Glued
      <3>2. <<f, i - 1>> \in TornAt
        BY <3>1 DEF TornAt, TornIn
      <3>3. (i - 1) + 1 = i
        <4>1. disk[f] \in Seq(Piece(f))
          BY <1>1 DEF ResearchTypeOK, Pieces, Piece
        <4>2. i \in Nat
          BY <2>2, <4>1
        <4>. QED
          BY <4>2
      <3>4. g[<<f, i - 1>>] = key
        BY <2>2, <3>2, <3>3
      <3>. QED
        BY <3>2, <3>4
    <2>. QED
      BY <2>4, <2>5
  <1>4. g = [x \in TornAt |-> g[x]] /\ h = [x \in ReadableTornAt |-> h[x]]
    OBVIOUS
  <1> HIDE DEF g, h
  <1>5. IsFiniteSet(T) /\ Cardinality(T) <= Cardinality(TornAt)
    BY <1>2, <1>4, ImageCounted
  <1>6. IsFiniteSet(U) /\ Cardinality(U) <= Cardinality(ReadableTornAt)
    BY <1>2, <1>4, ImageCounted
  <1>7. S \ ReadableKeys \subseteq T \cup U
    BY <1>3
  <1> HIDE DEF T, U
  <1>8. /\ IsFiniteSet(T \cup U) /\ IsFiniteSet(T \cap U)
        /\ Cardinality(T \cup U) = Cardinality(T) + Cardinality(U) - Cardinality(T \cap U)
    <2>1. T \cap U \subseteq T
      OBVIOUS
    <2>. QED
      BY <1>5, <1>6, <2>1, FS_Union, FS_Subset
  <1>9. Cardinality(S \ ReadableKeys) <= Cardinality(T \cup U) /\ IsFiniteSet(S \ ReadableKeys)
    BY <1>7, <1>8, FS_Subset
  <1>10. /\ Cardinality(S \ ReadableKeys) \in Nat /\ Cardinality(T) \in Nat /\ Cardinality(U) \in Nat
         /\ Cardinality(T \cap U) \in Nat /\ Cardinality(TornAt) \in Nat /\ Cardinality(ReadableTornAt) \in Nat
    BY <1>2, <1>5, <1>6, <1>8, <1>9, FS_CardinalityType
  <1>. QED
    BY <1>5, <1>6, <1>8, <1>9, <1>10 DEF Cost

\* After any crashes, what was answered, recorded in an audit entry or an approval, or cited
\* by what was learned is in the files: a torn line costs at most the row written behind it,
\* and itself if it only lacked its newline and could be read until then.
THEOREM TrailLeft == Spec => []CrashesLeaveATrail
  <1>1. IInv => CrashesLeaveATrail
    <2> SUFFICES ASSUME IInv PROVE CrashesLeaveATrail
      OBVIOUS
    <2>1. CitesKept
      BY DEF IInv
    <2>2. ASSUME NEW f \in File, NEW r \in Rows(f) PROVE Cites(f, r) \subseteq Kept
      BY <2>1 DEF CitesKept, Rows, Lines, Readable
    <2>3. Promised \subseteq Kept
      <3>1. /\ \A r \in Rows("audit") : r.names \in Kept
            /\ \A r \in Rows("approvals") : r.names \in Kept
            /\ \A r \in Rows("m3b_audit") : r.names \in Kept
        BY <2>2 DEF Cites, File
      <3>. QED
        BY <2>1, <3>1 DEF Promised, CitesKept
    <2>4. Learned \subseteq Kept
      <3>1. \A r \in Rows("learning") : r.sources \subseteq Kept
        BY <2>2 DEF Cites, File
      <3>. QED
        BY <3>1 DEF Learned
    <2>. QED
      BY <2>3, <2>4, TornCost DEF CrashesLeaveATrail
  <1>. QED
    BY <1>1, Invariant, PTL

=============================================================================

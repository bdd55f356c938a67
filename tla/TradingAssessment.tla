-------------------------- MODULE TradingAssessment --------------------------
(***************************************************************************)
(* Trading assessments: threads and processes that share one SQLite table  *)
(* of idempotency claims and append to JSONL files.  The one that inserts  *)
(* the claim of a key makes the assessment; the others wait for it, up to  *)
(* a deadline.                                                             *)
(*                                                                         *)
(* A SQLite statement between BEGIN IMMEDIATE and COMMIT is one step, and  *)
(* so is the write of one JSONL line, which may be cut short; the steps of *)
(* a request are not one transaction.  The number of a request stands for  *)
(* the assessment_id it would generate, a random identifier taken to be    *)
(* new.                                                                    *)
(***************************************************************************)
EXTENDS Naturals, FiniteSets, Sequences, JsonLines

CONSTANTS
    Worker,      \* threads that run TradingAssessmentService.assess
    Key,         \* idempotency keys of observations
    Hash,        \* hashes of whole observations
    MaxRequests, \* bound: requests received in a behaviour
    MaxTears     \* bound: lines cut short

ASSUME BoundAssumption == MaxRequests \in Nat /\ MaxTears \in Nat

VARIABLES
    claim,         \* trading_idempotency: the row of each key
    observations,  \* trading_observations.jsonl
    assessments,   \* trading_assessments.jsonl
    mirror,        \* trading_idempotency.jsonl
    pc, req,       \* of each worker: control and request
    issued,        \* requests received
    answers        \* assessments returned to clients

fileVars == <<observations, assessments, mirror>>
vars == <<claim, observations, assessments, mirror, pc, req, issued, answers>>

NoClaim == [status |-> "NONE"]
Pending(h) == [status |-> "PENDING", hash |-> h]
Failed(h) == [status |-> "FAILED", hash |-> h]
Complete(h, n) == [status |-> "COMPLETE", hash |-> h, id |-> n]
Claim == {NoClaim} \cup [status : {"PENDING", "FAILED"}, hash : Hash]
         \cup [status : {"COMPLETE"}, hash : Hash, id : Nat]

Request == [key : Key, hash : Hash, id : Nat]
NoRequest == [id |-> 0]

Owning == {"observe", "assess", "mirror", "complete", "fail"}

Goto(w, at) == pc' = [pc EXCEPT ![w] = at]

Finish(w) ==
    /\ Goto(w, "idle")
    /\ req' = [req EXCEPT ![w] = NoRequest]

Init ==
    /\ claim = [k \in Key |-> NoClaim]
    /\ observations = <<>> /\ assessments = <<>> /\ mirror = <<>>
    /\ pc = [w \in Worker |-> "idle"]
    /\ req = [w \in Worker |-> NoRequest]
    /\ issued = 0
    /\ answers = {}

-----------------------------------------------------------------------------
\* POST of an observation; a client may repeat it, or reuse its key.
Receive(w, k, h) ==
    /\ pc[w] = "idle" /\ issued < MaxRequests
    /\ issued' = issued + 1
    /\ req' = [req EXCEPT ![w] = [key |-> k, hash |-> h, id |-> issued + 1]]
    /\ Goto(w, "claim")
    /\ UNCHANGED <<claim, fileVars, answers>>

\* Mutant: a failed claim may be taken over.
ClaimNewOrFailed(w) ==
    LET r == req[w] IN
    /\ pc[w] = "claim" /\ claim[r.key] \in {NoClaim, Failed(r.hash)}
    /\ claim' = [claim EXCEPT ![r.key] = Pending(r.hash)]
    /\ Goto(w, "observe")
    /\ UNCHANGED <<fileVars, req, issued, answers>>

\* claim_or_get inserts the row: this worker owns the key.
ClaimNew(w) ==
    LET r == req[w] IN
    /\ pc[w] = "claim" /\ claim[r.key] = NoClaim
    /\ claim' = [claim EXCEPT ![r.key] = Pending(r.hash)]
    /\ Goto(w, "observe")
    /\ UNCHANGED <<fileVars, req, issued, answers>>

\* Mutant: the hash of the request is not compared with the row's.
ReplayAnyHash(w) ==
    LET r == req[w] IN
    /\ pc[w] \in {"claim", "wait"} /\ claim[r.key].status = "COMPLETE"
    /\ answers' = answers \cup {[key |-> r.key, hash |-> r.hash, id |-> claim[r.key].id]}
    /\ Finish(w)
    /\ UNCHANGED <<claim, fileVars, issued>>

\* claim_or_get or a poll of wait_complete finds the stored response.
Replay(w) ==
    LET r == req[w] IN
    /\ pc[w] \in {"claim", "wait"} /\ claim[r.key].status = "COMPLETE"
    /\ claim[r.key].hash = r.hash
    /\ answers' = answers \cup {[key |-> r.key, hash |-> r.hash, id |-> claim[r.key].id]}
    /\ Finish(w)
    /\ UNCHANGED <<claim, fileVars, issued>>

\* The key belongs to another observation: IdempotencyConflictError.
Conflict(w) ==
    LET r == req[w] IN
    /\ pc[w] \in {"claim", "wait"}
    /\ claim[r.key] # NoClaim /\ claim[r.key].hash # r.hash
    /\ Finish(w)
    /\ UNCHANGED <<claim, fileVars, issued, answers>>

\* The row is there and has no response yet, whatever its status: wait for it.
Wait(w) ==
    LET r == req[w] IN
    /\ pc[w] = "claim" /\ claim[r.key] \in {Pending(r.hash), Failed(r.hash)}
    /\ Goto(w, "wait")
    /\ UNCHANGED <<claim, fileVars, req, issued, answers>>

\* Mutant: the deadline is looked at only while the row is pending.
StallWhilePending(w) ==
    /\ pc[w] = "wait" /\ claim[req[w].key].status = "PENDING"
    /\ Goto(w, "stalled")
    /\ UNCHANGED <<claim, fileVars, req, issued, answers>>

\* The deadline passes before a poll sees a response; a poll before it that sees
\* none changes nothing.
Stall(w) ==
    /\ pc[w] = "wait"
    /\ Goto(w, "stalled")
    /\ UNCHANGED <<claim, fileVars, req, issued, answers>>

\* "idempotency pending; retry shortly"
Refuse(w) ==
    /\ pc[w] = "stalled"
    /\ Finish(w)
    /\ UNCHANGED <<claim, fileVars, issued, answers>>

SaveObservation(w) ==
    /\ pc[w] = "observe"
    /\ observations' = Append(observations, Whole(observations, req[w]))
    /\ Goto(w, "assess")
    /\ UNCHANGED <<claim, assessments, mirror, req, issued, answers>>

\* Mutant: the claim is completed before the assessment is written.
SaveNothing(w) ==
    /\ pc[w] = "assess"
    /\ Goto(w, "mirror")
    /\ UNCHANGED <<claim, fileVars, req, issued, answers>>

\* assess_observation, a pure function of the observation, and its record.
SaveAssessment(w) ==
    /\ pc[w] = "assess"
    /\ assessments' = Append(assessments, Whole(assessments, req[w]))
    /\ Goto(w, "mirror")
    /\ UNCHANGED <<claim, observations, mirror, req, issued, answers>>

SaveMirror(w) ==
    /\ pc[w] = "mirror"
    /\ mirror' = Append(mirror, Whole(mirror, req[w]))
    /\ Goto(w, "complete")
    /\ UNCHANGED <<claim, observations, assessments, req, issued, answers>>

\* complete, an UPDATE of the pending row, and the answer.
CompleteClaim(w) ==
    LET r == req[w] IN
    /\ pc[w] = "complete"
    /\ claim' = IF claim[r.key] = Pending(r.hash)
                THEN [claim EXCEPT ![r.key] = Complete(r.hash, r.id)] ELSE claim
    /\ Goto(w, "reply")
    /\ UNCHANGED <<fileVars, req, issued, answers>>

Reply(w) ==
    /\ pc[w] = "reply"
    /\ answers' = answers \cup {req[w]}
    /\ Finish(w)
    /\ UNCHANGED <<claim, fileVars, issued>>

TornLines == Cardinality(TornIn(observations)) + Cardinality(TornIn(assessments)) + Cardinality(TornIn(mirror))

\* The line cut short by a full disk, which raises, or by the end of the process.
CutShort(file, w) ==
    /\ TornLines < MaxTears
    /\ \E whole \in BOOLEAN : file' = Append(file, Torn(file, req[w], whole))
    /\ \/ Goto(w, "fail") /\ req' = req
       \/ Finish(w)
    /\ UNCHANGED <<claim, issued, answers>>

Tear(w) ==
    \/ pc[w] = "observe" /\ CutShort(observations, w) /\ UNCHANGED <<assessments, mirror>>
    \/ pc[w] = "assess" /\ CutShort(assessments, w) /\ UNCHANGED <<observations, mirror>>
    \/ pc[w] = "mirror" /\ CutShort(mirror, w) /\ UNCHANGED <<observations, assessments>>

\* Any step of the owner may raise: a malformed observation, a full disk, a
\* database locked for 30 seconds.
Raise(w) ==
    /\ pc[w] \in Owning \ {"fail"}
    /\ Goto(w, "fail")
    /\ UNCHANGED <<claim, fileVars, req, issued, answers>>

\* mark_failed, then the exception leaves assess.
MarkFailed(w) ==
    LET r == req[w] IN
    /\ pc[w] = "fail"
    /\ claim' = IF claim[r.key] = Pending(r.hash)
                THEN [claim EXCEPT ![r.key] = Failed(r.hash)] ELSE claim
    /\ Finish(w)
    /\ UNCHANGED <<fileVars, issued, answers>>

\* The process dies, at any point: what was written stays.
Crash(w) ==
    /\ pc[w] # "idle"
    /\ Finish(w)
    /\ UNCHANGED <<claim, fileVars, issued, answers>>

Quiescent ==
    /\ issued = MaxRequests /\ \A w \in Worker : pc[w] = "idle"
    /\ UNCHANGED vars

\* What a running worker does next, unless it raises or dies.
WorkerStep(w) ==
    \/ ClaimNew(w) \/ Replay(w) \/ Conflict(w) \/ Wait(w) \/ Stall(w) \/ Refuse(w)
    \/ SaveObservation(w) \/ SaveAssessment(w) \/ SaveMirror(w) \/ CompleteClaim(w)
    \/ Reply(w) \/ MarkFailed(w)

Next ==
    \/ \E w \in Worker :
          \/ \E k \in Key, h \in Hash : Receive(w, k, h)
          \/ WorkerStep(w) \/ Tear(w) \/ Raise(w) \/ Crash(w)
    \/ Quiescent

Spec == Init /\ [][Next]_vars

\* A running thread keeps running and a deadline passes; no client has to send
\* anything and nothing has to fail.
FairSpec == Spec /\ \A w \in Worker : WF_vars(WorkerStep(w))

-----------------------------------------------------------------------------
TypeOK ==
    /\ claim \in [Key -> Claim]
    /\ observations \in Pieces(Request) /\ assessments \in Pieces(Request)
    /\ mirror \in Pieces(Request)
    /\ pc \in [Worker -> {"idle", "claim", "wait", "stalled", "reply"} \cup Owning]
    /\ req \in [Worker -> Request \cup {NoRequest}]
    /\ issued \in 0..MaxRequests
    /\ answers \subseteq Request

\* "We uniquely claimed PENDING - generate exactly one assessment": of a key at most one
\* assessment is ever written, whole or torn, whoever waits, times out, retries or dies.
OneAssessmentPerKey ==
    \A i, j \in DOMAIN assessments : assessments[i].row.key = assessments[j].row.key => i = j

\* x was written to the end and can be read, or stands on the line of one that was cut short.
OnFile(x, s) ==
    \E i \in DOMAIN s :
        /\ s[i].row = x /\ ~s[i].open
        /\ i \in Readable(s) \/ i - 1 \in TornIn(s)

\* What a client was given is what everyone is given from then on: the claim is
\* complete with it, and each file holds it, where a reader finds it unless another's torn
\* line comes right before it.  About completing the claim last, although it and the files
\* are not written together.
AnswersAreOnFile ==
    \A x \in answers :
        /\ claim[x.key] = Complete(x.hash, x.id)
        /\ OnFile(x, assessments) /\ OnFile(x, mirror) /\ OnFile(x, observations)

\* "persists observation + assessment append-only, returns im.tmx.assessment.v1"
\* (docs/reviews/TRADING_ASSESSMENT_INGESTION_V1_REPORT.md:5): get_assessment finds what was
\* returned.
AnswersCanBeFetched ==
    \A x \in answers : \E i \in Readable(assessments) : assessments[i].row = x

\* A claim that is complete or failed stays as it is, and a claimed key never
\* passes to another observation.
ClaimsSettle ==
    [][\A k \in Key :
          /\ claim[k].status \in {"COMPLETE", "FAILED"} => claim'[k] = claim[k]
          /\ claim[k] # NoClaim => claim'[k] # NoClaim /\ claim'[k].hash = claim[k].hash]_claim

\* Every request ends, although it may have to wait for another's: no wait is
\* longer than its deadline, also for a row that failed or whose owner is dead.
RequestsEnd == \A w \in Worker : []<>(pc[w] = "idle")

\* "idempotency pending; retry shortly" (trading_assessment.py:118): while a
\* client is told to retry, the key has a response or someone is producing it.
RetryCanSucceed ==
    \A w \in Worker :
        pc[w] = "stalled" =>
            \/ claim[req[w].key].status = "COMPLETE"
            \/ \E v \in Worker : pc[v] \in Owning /\ req[v].key = req[w].key

=============================================================================

-------------------------- MODULE ResearchFactory --------------------------
(***************************************************************************)
(* The research factory's files: ResearchFactoryService (M3A) and          *)
(* ResearchM3BService over JSON-lines files that are only appended to.     *)
(* A request checks what it needs, then makes its appends one at a time,   *)
(* each to one file, with no lock and no transaction; a worker may die     *)
(* between two appends or inside one.  What a row says is left out, except *)
(* what decides an approval and what relates it to other rows.             *)
(***************************************************************************)
EXTENDS Integers, FiniteSets, SequencesExt, JsonLines

CONSTANTS
    Worker,        \* threads or processes that serve requests
    Experiment,    \* ids of experiments, given by a caller or drawn for a new one
    Content,       \* output hashes of the M3B agents' artifacts
    Actor,         \* who may ask for an approval: people and the three names below
    Version,       \* version numbers an experiment may be created with
    MaxRequests,   \* bound: requests served
    MaxTears       \* bound: appends cut short

ASSUME ResearchAssumption == MaxRequests \in Nat /\ MaxTears \in Nat /\ Version \subseteq Int

VARIABLES
    disk,      \* [File -> the pieces written to it, in order]
    todo,      \* [Worker -> the appends its request still has to make]
    served,    \* number of requests that passed their checks
    answered   \* keys of the rows of the requests that were answered

vars == <<disk, todo, served, answered>>

File == {"hypotheses", "evidence", "experiments", "learning", "approvals", "audit",
         "artifacts", "m3b_audit"}
NotHuman == {"agent", "system", "ollama"}

\* PRE_REGISTERED also stands for REVIEW_REQUIRED, DRAFT for every other status: they are
\* alike to what follows (RUNNING is accepted with force_illegal only).
ExperimentStatus == {"DRAFT", "PRE_REGISTERED", "MANUALLY_APPROVED"}
Approvable == {"PRE_REGISTERED"}

\* A row's key stands for its id, timestamp and content hash; by is approved_by; looked is
\* how much there was in the file when its request looked for the hash (history).
Key == (1 .. MaxRequests) \X (1 .. 6)
RowOf(f) ==
    CASE f \in {"hypotheses", "evidence"} -> [key : Key]
      [] f = "artifacts" -> [key : Key, hash : Content, looked : Nat]
      [] f = "learning" -> [key : Key, sources : SUBSET Key]
      [] f = "experiments" -> [key : Key, id : Experiment \cup Key, status : ExperimentStatus,
                               version : Int, by : Actor \cup {"none"}]
      [] OTHER -> [key : Key, names : Key]

Append_ == UNION {[file : {f}, row : RowOf(f)] : f \in File}

ResearchTypeOK ==
    /\ DOMAIN disk = File /\ \A f \in File : disk[f] \in Pieces(RowOf(f))
    /\ todo \in [Worker -> Seq(Append_)]
    /\ served \in 0 .. MaxRequests
    /\ answered \subseteq Key

-----------------------------------------------------------------------------
(* The files *)

\* Mutant: the reader stops at a line it cannot decode.
LinesUntilTorn(f) == {i \in DOMAIN disk[f] : \A j \in 1 .. i : disk[f][j].ok}

Lines(f) == Readable(disk[f])
Rows(f) == {disk[f][i].row : i \in Lines(f)}

TornAt == UNION {{<<f, i>> : i \in TornIn(disk[f])} : f \in File}
ReadableTornAt == UNION {{<<f, i>> : i \in {j \in TornIn(disk[f]) : disk[f][j].ok}} : f \in File}

\* The lines of an experiment; the last one is what get_experiment answers.
Versions(e) == {i \in Lines("experiments") : disk["experiments"][i].row.id = e}

\* Mutant: an artifact is looked up by the id it was just given.
FindByHashById(h) == {}

\* _find_by_output_hash: the lines of the hash, of which it answers the first.
FindByHash(h) == {i \in Lines("artifacts") : disk["artifacts"][i].row.hash = h}

-----------------------------------------------------------------------------
(* The appends of each request *)

Put(f, row) == [file |-> f, row |-> row]
NewKey(i) == <<served + 1, i>>
Audit(key) == Put("audit", [key |-> NewKey(6), names |-> key])

\* A row and the audit entry that names it.
Created(f, row) == <<Put(f, row), Audit(row.key)>>

HypothesisRow == [key |-> NewKey(1)]
EvidenceRow(i) == [key |-> NewKey(i)]
LearningRow(i, sources) == [key |-> NewKey(i), sources |-> sources]
ExperimentRow(i, e, status, version, by) ==
    [key |-> NewKey(i), id |-> e, status |-> status, version |-> version, by |-> by]

\* Mutant: the audit entry is written first.
ApprovalAuditFirst(row) ==
    <<Audit(row.key), Put("experiments", row), Put("approvals", [key |-> NewKey(2), names |-> row.key])>>

\* The appends of manually_approve_experiment.
Approval(row) ==
    <<Put("experiments", row), Put("approvals", [key |-> NewKey(2), names |-> row.key]), Audit(row.key)>>

SeedExperiment == ExperimentRow(5, NewKey(5), "PRE_REGISTERED", 1, "none")
SeedLearning == LearningRow(4, {NewKey(1), NewKey(2)})

\* Mutant: what was learned is written before what it was learned from.
SeedLearningFirst ==
    <<Put("learning", SeedLearning),
      Put("hypotheses", HypothesisRow), Audit(NewKey(1)), Put("evidence", EvidenceRow(2)), Audit(NewKey(2)),
      Put("experiments", SeedExperiment), Audit(NewKey(5))>>

\* The appends of seed_canonical_evidence; two of its three evidence rows are left out,
\* they are written like the first and nothing refers to them.
Seed ==
    <<Put("hypotheses", HypothesisRow), Audit(NewKey(1)), Put("evidence", EvidenceRow(2)), Audit(NewKey(2)),
      Put("learning", SeedLearning),
      Put("experiments", SeedExperiment), Audit(NewKey(5))>>

\* The audit entry of the service names the artifact it has appended or found.
ArtifactAudit(key) == Put("m3b_audit", [key |-> NewKey(6), names |-> key])
ArtifactRow(h) == [key |-> NewKey(1), hash |-> h, looked |-> Len(disk["artifacts"])]
Artifact(h) == <<Put("artifacts", ArtifactRow(h)), ArtifactAudit(NewKey(1))>>

-----------------------------------------------------------------------------
(* Requests *)

Init ==
    /\ disk = [f \in File |-> <<>>]
    /\ todo = [w \in Worker |-> <<>>]
    /\ served = 0
    /\ answered = {}

\* The checks of a request have passed: what it read is used in its appends.
Start(w, appends) ==
    /\ todo[w] = <<>> /\ served < MaxRequests
    /\ todo' = [todo EXCEPT ![w] = appends]
    /\ served' = served + 1
    /\ UNCHANGED <<disk, answered>>

\* Agents may only propose drafts; the limit on their proposals is counted in a service
\* object that lives for one request and never bites.
CreateHypothesis(w) ==
    \E agent \in BOOLEAN, status \in {"DRAFT", "INCONCLUSIVE"} :
        /\ agent => status = "DRAFT"
        /\ Start(w, Created("hypotheses", HypothesisRow))

CreateEvidence(w) == Start(w, Created("evidence", EvidenceRow(1)))

\* Mutant: any status is accepted.
AcceptedAny(status) == TRUE

\* The status a caller may create an experiment with.
Accepted(status) == status # "MANUALLY_APPROVED"

\* Under a new id or one the caller gives, which may exist already and then gets another
\* row, at the version the caller gives, 1 when it gives none.
CreateExperiment(w) ==
    \E e \in Experiment, status \in ExperimentStatus, version \in Version :
        /\ Accepted(status)
        /\ Start(w, Created("experiments", ExperimentRow(1, e, status, version, "none")))

\* A version that is zero counts as none.
NextVersion(version) == (IF version = 0 THEN 1 ELSE version) + 1

ManuallyApprove(w) ==
    \E i \in Lines("experiments"), by \in Actor \ NotHuman, confirmed \in BOOLEAN :
        LET current == disk["experiments"][i].row IN
        /\ confirmed
        /\ \A j \in Versions(current.id) : j <= i
        /\ current.status \in Approvable
        /\ Start(w, Approval(ExperimentRow(1, current.id, "MANUALLY_APPROVED", NextVersion(current.version), by)))

SeedCanonicalEvidence(w) == Start(w, Seed)

\* append_idempotent: an artifact of an output hash that is not there yet, or the first
\* one there is.
CreateArtifact(w) ==
    \E h \in Content :
        \/ FindByHash(h) = {} /\ Start(w, Artifact(h))
        \/ \E i \in FindByHash(h) :
              /\ \A j \in FindByHash(h) : i <= j
              /\ Start(w, <<ArtifactAudit(disk["artifacts"][i].row.key)>>)

-----------------------------------------------------------------------------
(* Appends, and the end of a worker *)

\* What an answer speaks of: the rows the request has written, and what its last audit
\* entry names.
Written(n) ==
    {p.row.key : p \in UNION {Range(disk'[f]) : f \in File \ {"audit", "m3b_audit", "approvals"}}}
        \cap ({n} \X (1 .. 5))

\* What an audit entry or an approval speaks of.
Named(a) == IF a.file \in {"audit", "approvals", "m3b_audit"} THEN {a.row.names} ELSE {}

Write(w) ==
    /\ todo[w] # <<>>
    /\ LET a == Head(todo[w]) IN
       /\ disk' = [disk EXCEPT ![a.file] = Append(@, Whole(@, a.row))]
       /\ answered' = IF Len(todo[w]) > 1 THEN answered
                      ELSE answered \cup Written(a.row.key[1]) \cup Named(a)
    /\ todo' = [todo EXCEPT ![w] = Tail(@)]
    /\ UNCHANGED served

\* The worker dies between two appends.
Crash(w) ==
    /\ todo[w] # <<>>
    /\ todo' = [todo EXCEPT ![w] = <<>>]
    /\ UNCHANGED <<disk, served, answered>>

\* It dies, or the disk is full, when a part of the line is written, maybe all but the newline.
Tear(w) ==
    /\ todo[w] # <<>> /\ Cardinality(TornAt) < MaxTears
    /\ LET a == Head(todo[w]) IN
       \E whole \in BOOLEAN : disk' = [disk EXCEPT ![a.file] = Append(@, Torn(@, a.row, whole))]
    /\ todo' = [todo EXCEPT ![w] = <<>>]
    /\ UNCHANGED <<served, answered>>

\* Idle: all requests are served.
Done ==
    /\ served = MaxRequests /\ \A w \in Worker : todo[w] = <<>>
    /\ UNCHANGED vars

Next ==
    \/ \E w \in Worker :
        \/ CreateHypothesis(w) \/ CreateEvidence(w) \/ CreateExperiment(w) \/ ManuallyApprove(w)
        \/ SeedCanonicalEvidence(w) \/ CreateArtifact(w)
        \/ Write(w) \/ Crash(w) \/ Tear(w)
    \/ Done

Spec == Init /\ [][Next]_vars

-----------------------------------------------------------------------------
(* Properties *)

ReadableKeys == UNION {{r.key : r \in Rows(f)} : f \in File}

\* An approved version is by a person and was written behind an approvable version of its
\* experiment, one less: whatever else is appended to the same id meanwhile
\* (manually_approve_experiment).
ApprovalsAreManual ==
    \A i \in Lines("experiments") :
        LET row == disk["experiments"][i].row IN
        row.status = "MANUALLY_APPROVED" =>
            /\ row.by \notin NotHuman
            /\ \E j \in DOMAIN disk["experiments"] :
                  LET before == disk["experiments"][j].row IN
                  /\ j < i /\ disk["experiments"][j].ok /\ before.id = row.id
                  /\ before.status \in Approvable /\ row.version = NextVersion(before.version)

\* Rows that an answer or a readable audit entry or approval speaks of.
Promised == answered \cup {r.names : r \in Rows("audit") \cup Rows("approvals") \cup Rows("m3b_audit")}

\* Rows of what was learned.
Learned == UNION {r.sources : r \in Rows("learning")}

\* A torn line costs at most the row that is written behind it, and itself if a reader could
\* find it at first.
Cost == Cardinality(TornAt) + Cardinality(ReadableTornAt)

\* append_idempotent looks before it writes, without a lock: two copies of an artifact can be
\* read only if the first was written after the second's request had looked, so that no
\* request that begins later stores it again.
DuplicatesNeedRace ==
    \A i, j \in Lines("artifacts") :
        LET first == disk["artifacts"][i].row
            second == disk["artifacts"][j].row IN
        i < j /\ first.hash = second.hash => i > second.looked

\* After any crashes what the factory answered for or recorded, and what it learned from, can
\* be found in its files, but for the rows that torn lines have spoilt: a row is written
\* before what speaks of it, and no reader stops at a line it cannot read.
CrashesLeaveATrail ==
    /\ Cardinality(Promised \ ReadableKeys) <= Cost
    /\ Cardinality(Learned \ ReadableKeys) <= Cost

=============================================================================

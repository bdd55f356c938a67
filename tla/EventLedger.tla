----------------------------- MODULE EventLedger -----------------------------
(***************************************************************************)
(* The write path of the engine: HTTP workers run one idempotent command   *)
(* (observations.submit, hypotheses.propose) as one READ COMMITTED         *)
(* transaction that locks the head of the (tenant, owner, application)     *)
(* stream, appends a hash-chained event and commits the event together     *)
(* with its read-model row, audit record and idempotency record.           *)
(*                                                                         *)
(* A step of a worker is what one statement (or the commit) makes visible  *)
(* to other sessions.  What a session wrote and has not committed is in    *)
(* its local `staged`; a crash or an exception drops it and the lock.      *)
(*                                                                         *)
(* A hash is represented by the global position of the event it is the     *)
(* hash of: SHA-256 is taken to be injective and 0 stands for "no hash".   *)
(* One application has one owner, so a stream is named by its application. *)
(***************************************************************************)
EXTENDS Naturals, Sequences

CONSTANTS
    Session,       \* database sessions: the workers, and whoever else writes
    Worker,        \* sessions that serve HTTP commands
    App,           \* application streams
    System,        \* the engine's own stream (SYSTEM_APPLICATION_ID)
    Action,        \* idempotency actions of the commands
    Submit,        \* the one that also writes a projected observation
    Kind,          \* event types; the one a command appends is named as its action
    Aggregate,     \* aggregates that outlive one event
    Fresh,         \* stands for an aggregate id that was just generated
    Key,           \* idempotency keys clients choose
    NoKey,         \* the key of an event appended without one
    Payload,       \* payload hashes
    NoSession,     \* holder of a lock nobody holds
    MaxRequests    \* bound: commands received in a behaviour

ASSUME SessionAssumption == Worker \subseteq Session /\ NoSession \notin Session
ASSUME StreamAssumption == System \notin App
ASSUME ActionAssumption == Submit \in Action /\ Action \subseteq Kind
ASSUME KeyAssumption == NoKey \notin Key
ASSUME BoundAssumption == MaxRequests \in Nat

VARIABLES
    log,        \* engine_events: per stream, the committed events in commit order
    head,       \* event_stream_heads
    lock,       \* row lock of each head: the session that holds it
    sequence,   \* last global_position the database sequence handed out
    idem,       \* idempotency_keys
    audits,     \* audit_records, by the position of their event
    projected,  \* projected_observations, by position
    pc, req, staged,  \* of each worker: control, its command, its uncommitted event
    issued,     \* commands received so far
    answers     \* successful answers that reached a client

ledgerVars == <<log, head, lock, sequence, idem, audits, projected>>
workerVars == <<pc, req, staged, issued, answers>>
vars == <<log, head, lock, sequence, idem, audits, projected,
          pc, req, staged, issued, answers>>

Stream == App \cup {System}
Request == [app : App, action : Action, key : Key, hash : Payload]
Event == [pos : Nat, prev : Nat, kind : Kind, agg : Aggregate \cup {Fresh},
          ver : Nat, key : Key \cup {NoKey}]
Record == [app : App, action : Action, key : Key, hash : Payload, pos : Nat]
HeadRow == [last : Nat, version : Nat, status : {"ACTIVE", "QUARANTINED"}]

NoEvent == [pos |-> 0, prev |-> 0]
NoRequest == [app |-> System]
NoHead == [last |-> 0, version |-> 0, status |-> "ACTIVE"]

\* idempotency.get: the records of the composite scope of command r.
Existing(r) == {x \in idem : x.app = r.app /\ x.action = r.action /\ x.key = r.key}

KeyTakenNever(r) == FALSE  \* mutant: the unique index is missing
\* uq_engine_events_idempotency_scope_key: _append_with_head writes the scope
\* "observations.submit" whatever the action, so the index sees only the key.
KeyTaken(r) == \E i \in DOMAIN log[r.app] : log[r.app][i].key = r.key

\* Worker w forgets its command.
Finish(w) ==
    /\ pc' = [pc EXCEPT ![w] = "idle"]
    /\ req' = [req EXCEPT ![w] = NoRequest]
    /\ staged' = [staged EXCEPT ![w] = NoEvent]

\* Mutant: the session ends and its connection keeps the row locks.
ReleasedNever(p) == lock

\* The locks left when session p commits or rolls back.
Released(p) == [s \in Stream |-> IF lock[s] = p THEN NoSession ELSE lock[s]]

Result(r, pos) == [app |-> r.app, action |-> r.action, key |-> r.key,
                   hash |-> r.hash, pos |-> pos]

\* Mutants: the head is rewritten without its status; it keeps naming the old event.
AdvancedDropsStatus(row, pos) == [last |-> pos, version |-> row.version + 1]
AdvancedKeepsLast(row, pos) == [row EXCEPT !.version = row.version + 1]

\* The head row after an event at position pos.
Advanced(row, pos) == [last |-> pos, version |-> row.version + 1, status |-> row.status]

Init ==
    /\ log = [s \in Stream |-> <<>>]
    /\ head = [s \in Stream |-> NoHead]
    /\ lock = [s \in Stream |-> NoSession]
    /\ sequence = 0
    /\ idem = {} /\ audits = {} /\ projected = {}
    /\ pc = [w \in Worker |-> "idle"]
    /\ req = [w \in Worker |-> NoRequest]
    /\ staged = [w \in Worker |-> NoEvent]
    /\ issued = 0
    /\ answers = {}

-----------------------------------------------------------------------------
\* A client sends a command, new or a retry: nothing marks a retry as one.  Commands that
\* are refused for their content, before anything is read, are left out.
Receive(w, r) ==
    /\ pc[w] = "idle" /\ issued < MaxRequests
    /\ pc' = [pc EXCEPT ![w] = "find"]
    /\ req' = [req EXCEPT ![w] = r]
    /\ issued' = issued + 1
    /\ UNCHANGED <<ledgerVars, staged, answers>>

\* _find_existing, in a transaction of its own, finds the scope unused.
FindNothing(w) ==
    /\ pc[w] = "find" /\ Existing(req[w]) = {}
    /\ pc' = [pc EXCEPT ![w] = "lock"]
    /\ UNCHANGED <<ledgerVars, req, staged, issued, answers>>

\* Mutant: the payload hash is not compared.
FindExistingAnyPayload(w) ==
    /\ pc[w] \in {"find", "resolve"}
    /\ \E x \in Existing(req[w]) : answers' = answers \cup {Result(req[w], x.pos)}
    /\ Finish(w)
    /\ UNCHANGED <<ledgerVars, issued>>

\* _find_existing finds the scope used, first or after a lost race: same
\* payload, answer with the first result; different payload, conflict.
FindExisting(w) ==
    /\ pc[w] \in {"find", "resolve"}
    /\ \E x \in Existing(req[w]) :
          answers' = IF x.hash = req[w].hash THEN answers \cup {x} ELSE answers
    /\ Finish(w)
    /\ UNCHANGED <<ledgerVars, issued>>

\* After a lost race the winner's record is not there: IdempotencyConflictError.
ResolveNothing(w) ==
    /\ pc[w] = "resolve" /\ Existing(req[w]) = {}
    /\ Finish(w)
    /\ UNCHANGED <<ledgerVars, issued, answers>>

\* Mutant: the head is read without FOR UPDATE.
LockHeadUnlocked(w) ==
    /\ pc[w] = "lock" /\ head[req[w].app].status = "ACTIVE"
    /\ pc' = [pc EXCEPT ![w] = "append"]
    /\ UNCHANGED <<ledgerVars, req, staged, issued, answers>>

\* _lock_head: create the head if missing, then SELECT ... FOR UPDATE.
LockHead(w) ==
    /\ pc[w] = "lock" /\ lock[req[w].app] = NoSession
    /\ head[req[w].app].status = "ACTIVE"
    /\ lock' = [lock EXCEPT ![req[w].app] = w]
    /\ pc' = [pc EXCEPT ![w] = "append"]
    /\ UNCHANGED <<log, head, sequence, idem, audits, projected,
                   req, staged, issued, answers>>

\* _reject_if_quarantined: StreamQuarantinedError rolls the transaction back.
RejectQuarantined(w) ==
    /\ pc[w] = "lock" /\ lock[req[w].app] = NoSession
    /\ head[req[w].app].status = "QUARANTINED"
    /\ Finish(w)
    /\ UNCHANGED <<ledgerVars, issued, answers>>

\* _append_with_head: chain the event onto the locked head and flush it.  The
\* aggregate is new, so the optimistic version check passes.
AppendEvent(w) ==
    /\ pc[w] = "append" /\ ~KeyTaken(req[w])
    /\ sequence' = sequence + 1
    /\ staged' = [staged EXCEPT ![w] =
            [pos |-> sequence + 1, prev |-> head[req[w].app].last,
             kind |-> req[w].action, agg |-> Fresh, ver |-> 1, key |-> req[w].key]]
    /\ pc' = [pc EXCEPT ![w] = "commit"]
    /\ UNCHANGED <<log, head, lock, idem, audits, projected, req, issued, answers>>

\* The flush violates the unique index: the position is consumed, the
\* transaction rolls back and IdempotencyRaceDetected leads to a second lookup.
LoseRace(w) ==
    /\ pc[w] = "append" /\ KeyTaken(req[w])
    /\ sequence' = sequence + 1
    /\ lock' = Released(w)
    /\ pc' = [pc EXCEPT ![w] = "resolve"]
    /\ UNCHANGED <<log, head, idem, audits, projected, req, staged, issued, answers>>

\* Mutant: the event replaces the one the head names.
CommitOverwrites(w) ==
    LET a == req[w].app
        e == staged[w] IN
    /\ pc[w] = "commit"
    /\ log' = [log EXCEPT ![a] = IF @ = <<>> THEN <<e>> ELSE [@ EXCEPT ![Len(@)] = e]]
    /\ lock' = Released(w)
    /\ pc' = [pc EXCEPT ![w] = "reply"]
    /\ UNCHANGED <<head, sequence, idem, audits, projected, req, staged, issued, answers>>

\* The rest of _write and the commit: head, read model, audit and idempotency
\* rows become visible with the event, and the lock is released.
Commit(w) ==
    LET a == req[w].app
        e == staged[w] IN
    /\ pc[w] = "commit"
    /\ log' = [log EXCEPT ![a] = Append(@, e)]
    /\ head' = [head EXCEPT ![a] = Advanced(head[a], e.pos)]
    /\ idem' = idem \cup {Result(req[w], e.pos)}
    /\ audits' = audits \cup {e.pos}
    /\ projected' = IF req[w].action = Submit THEN projected \cup {e.pos} ELSE projected
    /\ lock' = Released(w)
    /\ pc' = [pc EXCEPT ![w] = "reply"]
    /\ UNCHANGED <<sequence, req, staged, issued, answers>>

\* The response reaches the client.
Reply(w) ==
    /\ pc[w] = "reply"
    /\ answers' = answers \cup {Result(req[w], staged[w].pos)}
    /\ Finish(w)
    /\ UNCHANGED <<ledgerVars, issued>>

\* The worker dies, or an exception unwinds the unit of work: rollback, no
\* answer.  After the commit the effect stands and only the answer is lost.
Crash(w) ==
    /\ pc[w] # "idle"
    /\ lock' = Released(w)
    /\ Finish(w)
    /\ UNCHANGED <<log, head, sequence, idem, audits, projected, issued, answers>>

\* What a worker sees of an operator's verification or release (module
\* Integrity): the status of a stream that has events changes, by an UPDATE that
\* waits for the row lock.
SetStatus(a) ==
    /\ lock[a] = NoSession /\ log[a] # <<>>
    /\ \E status \in {"ACTIVE", "QUARANTINED"} \ {head[a].status} :
          head' = [head EXCEPT ![a].status = status]
    /\ UNCHANGED <<log, lock, sequence, idem, audits, projected, workerVars>>

\* Every command the bound allows was served.
Quiescent ==
    /\ issued = MaxRequests /\ \A w \in Worker : pc[w] = "idle"
    /\ UNCHANGED vars

WorkerStep(w) ==
    \/ FindNothing(w) \/ FindExisting(w) \/ ResolveNothing(w)
    \/ LockHead(w) \/ RejectQuarantined(w)
    \/ AppendEvent(w) \/ LoseRace(w) \/ Commit(w) \/ Reply(w)

WorkerNext ==
    \E w \in Worker :
        \/ \E r \in Request : Receive(w, r)
        \/ WorkerStep(w)
        \/ Crash(w)

Next == WorkerNext \/ (\E a \in App : SetStatus(a)) \/ Quiescent

Spec == Init /\ [][Next]_vars

\* A worker that received a command keeps executing: a step of it that stays possible
\* is taken.  Crashes, clients and operators owe nothing.
FairSpec == Spec /\ \A w \in Worker : WF_vars(WorkerStep(w))

-----------------------------------------------------------------------------
TypeOK ==
    /\ log \in [Stream -> Seq(Event)]
    /\ head \in [Stream -> HeadRow]
    /\ lock \in [Stream -> Session \cup {NoSession}]
    /\ sequence \in Nat
    /\ idem \subseteq Record
    /\ audits \subseteq Nat /\ projected \subseteq Nat
    /\ pc \in [Worker -> {"idle", "find", "resolve", "lock", "append", "commit", "reply"}]
    /\ req \in [Worker -> Request \cup {NoRequest}]
    /\ staged \in [Worker -> Event \cup {NoEvent}]
    /\ issued \in 0..MaxRequests
    /\ answers \subseteq Record

\* What verify_chain checks of a stream, read ORDER BY global_position: commit
\* order is position order, and each event's previous hash is its predecessor's.
\* About the FOR UPDATE lock of _lock_head, held from before the position is
\* taken until the commit: without it two commands fork the chain.
ChainIntact ==
    \A s \in Stream : \A i \in DOMAIN log[s] :
        /\ log[s][i].prev = IF i = 1 THEN 0 ELSE log[s][i - 1].pos
        /\ log[s][i].prev < log[s][i].pos

\* The stream head names the last committed event of its stream.  About the
\* head row being advanced in the transaction of the event it names.
HeadTracksLog ==
    \A s \in Stream :
        /\ head[s].version = Len(log[s])
        /\ head[s].last = IF log[s] = <<>> THEN 0 ELSE log[s][Len(log[s])].pos

\* A key takes effect at most once in an application, whatever is retried,
\* raced or crashed, and its event, audit and idempotency record are all there
\* or none is.  About lookup, unique index and commit together.
ExactlyOnce ==
    /\ \A a \in App : \A i, j \in DOMAIN log[a] : log[a][i].key = log[a][j].key => i = j
    /\ \A x \in idem : \E i \in DOMAIN log[x.app] :
          log[x.app][i].pos = x.pos /\ log[x.app][i].key = x.key
    /\ \A a \in App : \A i \in DOMAIN log[a] :
          /\ log[a][i].pos \in audits
          /\ \E x \in idem : x.app = a /\ x.pos = log[a][i].pos

\* Two successful answers to the same scope and key name the same event and
\* were given for the same payload.  About replays: FindExisting must not
\* answer a different payload, and a lost answer must not be executed again.
AnswersAgree ==
    \A x, y \in answers :
        x.app = y.app /\ x.action = y.action /\ x.key = y.key => x = y

\* No commit fails on uq_idempotency_scope_key: the event index, coarser and
\* checked under the stream lock, has already refused.  About the commit's
\* IntegrityError branch, which this module can therefore leave out.
CommitNeverRaces ==
    \A w \in Worker : pc[w] = "commit" => Existing(req[w]) = {}

\* A worker that lost the race finds the winner's record, so the outcome is the
\* one a serial retry gets (submit_observation.py:8-10, tables.py:104-109: the
\* effective scope includes the action).  It fails when two actions share a key.
RaceResolvable ==
    \A w \in Worker : pc[w] = "resolve" => Existing(req[w]) # {}

\* Committed events are never changed or removed, and a stream grows by events
\* later than all it holds.  About the append-only log under concurrent writers.
AppendOnly ==
    [][\A s \in Stream :
          /\ Len(log[s]) <= Len(log'[s])
          /\ \A i \in DOMAIN log[s] :
                /\ log'[s][i] = log[s][i]
                /\ \A j \in Len(log[s]) + 1 .. Len(log'[s]) : log[s][i].pos < log'[s][j].pos]_log

\* A quarantined stream takes no event, not even one whose writer had found it
\* ACTIVE before.  About _reject_if_quarantined being checked under the row lock
\* and that lock being kept until the commit.
KillSwitch ==
    [][\A s \in Stream : log'[s] # log[s] => head[s].status = "ACTIVE"]_vars

\* Every behaviour is one of the atomic ledger: transactions, locks, crashes and
\* replays are invisible to clients.  About the write path as a whole.
Ledger == INSTANCE AtomicLedger WITH
    history <- [a \in App |-> [i \in DOMAIN log[a] |-> log[a][i].pos]],
    effects <- idem
ImplementsAtomicLedger == Ledger!Spec

\* A command that reached a worker is eventually answered, refused or aborted: whatever
\* a worker waits for, it is idle again.
RequestsEnd == \A w \in Worker : []<>(pc[w] = "idle")

=============================================================================

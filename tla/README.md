# A verification of the IntelligenceMaxxxing engine

TLA+ models of the engine in `src/intelligence_maxxxing`, TLC configurations that check
them on small instances, and TLAPS proofs of what matters most for instances of any size.
Paths below are relative to `src/intelligence_maxxxing` unless they start with `docs/`.

## 1. The system

A FastAPI process and an operator CLI run use cases over one SQLAlchemy unit of work per
request (`READ COMMITTED`, `autoflush=False`, `expire_on_commit=False`) on PostgreSQL. What
happened is in an append-only event store with one hash chain per (tenant, owner, application)
stream; everything else that can be read is a projection of it. A trading bridge and a
research factory keep their own state in SQLite and JSONL files.

| Component | State it keeps | Operations | What is hard | Correct when |
|---|---|---|---|---|
| Event ledger and write path (`submit_observation.py`, `sqlalchemy_event_store.py`, `unit_of_work.py`, `idempotency.py`) | `engine_events`, `event_stream_heads`, `idempotency_keys`, `audit_records` | look up a key, lock the stream head, append, commit, resolve a lost race, replay | concurrent writers, retries, crashes, lost answers, quarantine arriving meanwhile | one unforked chain per stream; a key takes effect once; all answers agree; a quarantined stream takes nothing |
| Integrity verification (`use_cases/integrity.py`, `repositories/integrity.py`) | head status, `integrity_checkpoints` | full and incremental verification, verify or release one stream | runs beside writers and other operators; its own events go to the SYSTEM stream | no false alarm; a break quarantines; every change of status is on record |
| Observation projection (`use_cases/projections.py`) | `projected_observations`, the shadow table, its checkpoint | rebuild, resume, verify | runs beside submissions; promotion deletes and refills the live table, a resume updates rows of it | rows are exactly the accepted observations; every task ends |
| Epistemic commands (`use_cases/epistemic.py`, `evaluate_experiment_v31.py`) | hypotheses, experiments, evidence, beliefs, learning | propose, activate, evaluate, retire | rows read before the stream lock are written back after it | retired stays retired; one current belief; evidence is reproducible and not duplicated |
| Epistemic projection (`epistemic_projections.py`) | the same tables, rebuilt | rebuild, verify | handlers re-implement the commands' writes | rebuilt rows equal live rows |
| Trading assessment (`use_cases/trading_assessment.py`, `infrastructure/trading`) | SQLite claims, three JSONL files | claim, wait, write, complete, fail | threads and processes share it; four writes, no transaction; torn lines; deadlines | one assessment per key; answers are on file |
| Identity administration and authentication (`identity_admin.py`, `auth/service.py`) | users, applications, credentials, scopes | bootstrap, register, enable, disable, create, rotate, revoke, grant, withdraw; authenticate and serve | whole rows read, changed and written back; a revocation or a withdrawal during a request | credential rows and ledger tell one story; a request is served with what was given on the record |
| Research factory M3a, M3b (`research_factory_m3a.py`, `domain_packs/research_factory_m3b`) | JSONL files, only appended to | create hypotheses, evidence, experiments; approve by hand; seed; bundle, audit, report | several appends per request, no lock, no transaction, torn lines | approvals are manual; what was promised can be read; duplicates need a race |
| Wellbeing read path (`use_cases/wellbeing.py`, `observation_scan.py`) | formula versions, snapshots | scan page by page, compute, store a snapshot, compare | observations arrive between pages; two first requests | a cohort is a prefix of what was accepted |
| Exclusion registry (`exclusion_registry.py`) | a table, and a cache in each process | load, append, refresh | threads share the cache and overwrite it with what they read before; one reads in an open transaction | a known exclusion is not forgotten |
| Evidence selection and wellbeing formulas (`input_selection.py`, `measurement_scale.py`, `eligibility.py`, `wellbeing_v1.py`, `bayesian_bootstrap.py`) | none | classify, choose the row of a day, scale, score, confidence, belief state | order of rules, boundaries, corrections | only what the policy lists feeds a score; corrections supersede; evidence stays; confidence is earned |
| Trading agents and policy (`domain_packs/trading`) | none (JSONL output) | policy, context, anomaly, critic, shadow, horizon; bundle | callers mix pieces of several observations | the shadow only lowers; unusable data is deferred |
| Research agents (`evidence_agent_v1.py`, `safety_auditor_agent_v1.py`, `report_agent_v1.py`) | none | bundle, audit, report | absent probes, counts, outcomes | an absence proves nothing; an outcome is a label |
| HTTP layer, SDK, read use cases, governance manifest, health, migrations | none of their own | | | |

Interactions. HTTP workers and operators meet only in the database: through the row lock of a
stream head (`_lock_head`, `FOR UPDATE`), the unique indexes of `engine_events` and
`idempotency_keys`, and the primary keys of the projection tables. The operators' jobs append
their own events to the SYSTEM stream by the same path. Inside one session, a row once read is
kept (`expire_on_commit=False`, identity map), which two findings below turn on.

## 2. Modules

| Module | Models | State and steps |
|---|---|---|
| `EventLedger` | the write path | One `Worker` per request in progress. `log`, `head`, `idem`, `audits`, `projected` are committed tables; `lock` the row lock of each head; `staged` what a session has flushed and not committed. One action per statement other sessions can notice: `FindNothing`/`FindExisting` (lookup transaction), `LockHead`, `RejectQuarantined`, `AppendEvent` (position from the sequence, insert), `LoseRace` (unique index), `Commit` (event, head, row, audit, idempotency together), `Reply`, `Crash`. `SetStatus` is quarantine and release by someone else. |
| `AtomicLedger` | what the write path promises | `Accept`: a key not yet used takes effect at the end of a history. `Answer`: a client learns of an effect. |
| `AggregateVersions` | `get_latest_aggregate_version` | operators: `Latest`, `Earlier`, `Contiguous`, used wherever a version is read before a lock and compared under it |
| `SystemStream` | what operators' jobs and tasks share | the versions (of `AggregateVersions`) of aggregates in the SYSTEM stream, the events appended there |
| `Integrity` | verification, quarantine, release | a job is a transaction with a session (`loaded`, `seen`) that keeps the rows it has read; `Scan`, `ReadRows`, `ReadVersion`, `LockSystem`, `AppendFirst`, `Quarantine`, `CommitJob`; `Tamper` is the outside hand the checks exist for |
| `Projection` | rebuild, resume, verify | a task is a transaction and `task` what its statements have read; a row is its event's position and whether it lacks `occurred_at` (`undated`). `ReadEvents`; `BuildShadow`; then a rebuild promotes: the DELETE locks the live rows one by one (`Promote`, `LockRow`), `Fill` inserts, `ReadMark`, `LockForEvent`, `AppendRebuilt`, `CommitRebuild`; a resume looks each row up (`LookUp`), updates those that lack `occurred_at` (`Flush`, `LockRow`), inserts the missing ones (`Fill`), `CommitRows`. `LoseRow`, `FlushConflict`, `AppendStale` roll back; `Blockers` is who waits for whom, `BreakDeadlock` PostgreSQL's answer to a cycle |
| `Epistemic` | propose, activate, evaluate, retire, beside submissions, on one application | `hypotheses`, `experiments`, `evidence`, `beliefs`, `current`, `learnings` are committed tables; `seen` is what a session has read so far. One action per unlocked read (`ReadHypothesis` with its status check, `ReadVersion`, `ReadCutoff`, `Scan`, `MatchNothing`/`MatchExisting`, `ReadPrior`), then `LockHead` or `Conflict`, then one commit action per command, which writes back rows as the code computes them from what was read; `CommitDuplicate` is the unique index. |
| `JsonLines` | files of JSON lines that are only appended to | operators: a file is the sequence of the pieces written to it, whole lines or torn ones (`Whole`, `Torn`); `Readable` is what `_read` finds: a line that lacks its newline only is found until the next row is glued to it |
| `TradingAssessment` | the trading bridge | `claim` is the SQLite table, three `JsonLines` files; one action per SQLite transaction and per JSONL line, which `Tear` cuts short |
| `EpistemicProjection` | the rebuild of the epistemic tables, beside `Epistemic` | `ReadLedger`, one handler operator per event type folded over the events (`Apply`, `Replay`), `DeleteAll`, `WriteBeliefs`, `CommitRebuild` or `AbandonRebuild`; a command on a subject whose rows the rebuild took away stops at `NotFound`; `doomed` are the rows marked for deletion and not flushed, which is what the finding about it turns on |
| `Identity` | the operator CLI's identity commands and requests that authenticate | a command reads rows (`ReadRows`, `LoadRow`, `ReadScopes`), reads a version, locks the SYSTEM head, commits the columns it changed; a request goes `CheckCredential`, `CheckApplication`, `ReadScopes`, `Authenticate` (which touches the credential row), `Serve` |
| `ResearchFactory` | the eight JSONL files of M3a and M3b | a request checks what it has to and puts its appends into `todo`; `Write` makes one of them, `Tear` a part of one; the files are those of `JsonLines` |
| `ResearchAgents` | evidence, safety and report agents | operators: `Bundle`, `OverallStatus`, `Verdict` |
| `TradingAgents` | the frozen policy and the M2 agents | operators: `Policy`, `Context`, `Findings`, `Critic`, `Shadow`, `Run`, `Noise` |
| `LifeSelection` | selection, scales, day records, V1 scores, eligibility, belief states | operators: `Classify`, `Effective`, `Newest`, `Eligible`, `Report`, `Confidence`, `Wellbeing`, `Prospective` |
| `Decisions` | the callers of the three modules before | one action per request; `held` is what a caller has kept of earlier answers of the trading agents, of any observation, and sends with the next request |
| `Wellbeing` | the read path and the exclusion registry, over `LifeSelection` | `Accept` (the write path), `Request`, `ScanPage`, `Compute`, `StoreSnapshot`; `AppendExclusion`, `FlushExclusion`, `EndExclusion`, `Restart`. `cache` is shared by the threads of a process (`Home`): `MissCache` finds it not loaded, `LoadRegistry` and `RefreshRegistry` read the table, `OverwriteCache` puts what was read into the cache later |
| `EventLedgerProofs`, `AggregateVersionsProofs`, `IntegrityProofs`, `EpistemicProofs`, `IdentityProofs`, `ResearchFactoryProofs`, `TradingProofs`, `DecisionsProofs` | | theorems, each about the module of its name; `EpistemicProofs` also about `EpistemicProjection`, `IntegrityProofs` also about `Projection`, `DecisionsProofs` also about `Wellbeing` |

`Integrity` and `Projection` extend `SystemStream`, which extends `EventLedger`: the workers of
`EventLedger` run beside the jobs and tasks, so everything is checked under interleaving.
`EpistemicProjection` extends `Epistemic` in the same way; `Decisions` instantiates the three
modules of operators, `Wellbeing` extends `LifeSelection`, `TradingAssessment` and `ResearchFactory` extend `JsonLines`. `MC*` modules define the small instances.

Abstractions common to the modules. A hash is the position of the event it is the hash of, so
SHA-256 is taken to be injective. Freshly generated identifiers are fresh. A payload, a row's
content and a policy's output are identifiers. One application has one owner. A transaction's
statements are steps where another session can notice the order, and one step where it cannot.
Refusals that read nothing but the request and change nothing are left out, which only adds
behaviour: of a submission with bad content (`submit_observation.py:88`), of an operator without
ADMINISTER_ENGINE (`integrity.py:264`).
`append_batch` has no caller outside the tests and is not an action.

## 3. Runs

| Run | Instance | Shows |
|---|---|---|
| `ledger` | 3 workers contending for the stream of 1 application, 2 actions, 2 keys, 2 payloads, 3 requests, fair | chain, exactly-once, agreement of answers, kill switch, refinement of `AtomicLedger`, every request ends |
| `integrity` | 1 worker, 2 operators, 2 requests, 2 jobs, 1 corruption | no false alarm, no fork, versions contiguous, status recorded |
| `integrity_detect` | same, 1 request, a corruption of the SYSTEM stream | **violated**: `DetectionQuarantines` |
| `projection` | 1 worker, 2 operators, 2 actions, 2 keys, 2 requests without `occurred_at`, 2 tasks, fair | rows have events, a complete rebuild is exact, every task ends |
| `epistemic` | 2 sessions, 6 commands, of them at most 1 proposal and 1 submission | evidence reproducible and unique, one current belief; versions and a live hypothesis's experiment survive unlocked reads |
| `epistemic_rebuild` | 2 sessions, 4 commands, 2 rebuilds | the fold of the ledger agrees with the live rows, rebuilt anchors keep the cohort, what is live is what the ledger tells |
| `epistemic_rebuild_empties` | same, 2 commands | **violated**: `RebuildReplaces` |
| `identity` | 2 operators, 1 request, 2 scopes, 6 commands | credential rows follow the ledger, authority is recorded |
| `trading` | 2 workers, 2 keys, 2 payloads, 3 requests, 1 torn line, fair | one assessment per key, answers on file, claims settle, requests end |
| `research` | 2 workers, 1 experiment id created at version 0, 2 artifacts, a person and an agent, 3 requests, 1 torn line | approvals manual, duplicates need a race, crashes leave a trail |
| `decisions` | inputs one or two places away from a healthy one | the seven properties of `Decisions` |
| `wellbeing` | 2 threads of a process, 1 request (a comparison scans twice), 3 observations, pages of 1, 1 id excluded twice, 1 restart | cohorts are prefixes, corrections supersede, evidence is kept, exclusions stay |

Bounds. Every unbounded counter is bounded by a named constant in a guard (`MaxRequests`,
`MaxJobs`, `MaxTasks`, `MaxTampers`, `MaxCommands`, `MaxObservations`, `MaxHypotheses`, `MaxRebuilds`,
`MaxTears`, `MaxExclusions`, `MaxRestarts`). Two workers suffice for every pairwise race; a
third request is the retry after the race, or a command that builds on what both left, and in
`ledger` a third worker waits for a head two others hold in turn. Two keys let a stream hold several
events, two payloads show the reuse of a key. That streams do not interfere although they share the
position sequence is `MCEventLedgerApps.cfg`, the properties of `ledger` with two applications and two
workers, to be run by hand: it passes. Two jobs or tasks beside a worker give every pairwise
interleaving of operators; in `projection` two observations are what the waits of a rebuild and a
resume need to close into a cycle, and the order in which the two take rows is the opposite one, as
random identifiers allow. In `research` a version of 0 is what `int(version or 1)` sets apart, and two
artifacts show that one torn line can cost two rows. In `Epistemic` six commands let a
proposal, an activation, two evaluations, a retirement and an observation, or their repetitions,
overlap in any order; a target of one observation makes both kinds of evaluation happen. In
`Identity` six commands are an owner, an application with a scope and a credential, and two
commands that race with each other and with the request. In `Wellbeing` pages of one make
three pages and a last empty one, the observations are a check-in, its correction and a test of the same day,
and one request and two exclusions are three ways into the registry for two threads; two requests that
collide on the formula rows take a second one, and no property depends on it. `Decisions` varies a healthy input in two places at once, so that every rule meets
every rule before and after it; numbers stand on and beside each threshold. Where proofs exist the
bounds carry no weight.

Symmetry is used only in runs whose properties are invariants or speak of single steps; workers,
payloads, keys, operators and threads are interchangeable there.

Fairness. `EventLedger` assumes weak fairness of each worker's next step, `Projection` of each
task's: a process that was started keeps running and the database answers. Requests and tasks are
bounded, so a wait for a row lock needs no assumption on the order in which PostgreSQL serves the
waiters; a cycle of waits among tasks PostgreSQL breaks after `deadlock_timeout`, which is a step of
each task in it. Nothing is assumed of clients, of crashes, of changes of status or of who starts a
task. `TradingAssessment` assumes weak fairness of each worker's next step only: every wait there has
a deadline.

Deadlock is checked except in `wellbeing`, where everything has been accepted, asked and excluded
in the end and nothing more can happen.

Type invariants are definitions of each module and not part of a run; all are proved.

### Where the code departs from what is said of it

With a run:

1. `integrity_detect`: a break in the SYSTEM stream makes the verification quarantine that
   stream in its session and then refuse its own next append; everything it found is rolled back.
2. `epistemic_rebuild_empties`: the rebuild marks the live rows for deletion with
   `session.delete`, finds the marked objects again with `session.get` when it upserts (there is no
   autoflush), and the flush deletes them: a rebuild beside which nothing happens empties the tables.

### Findings without a run

Each has a configuration, to be run by hand with the module named; TLC finds the property violated.

3. `MCEventLedgerScope.cfg` (`MCEventLedger`, `RaceResolvable`): `_append_with_head` stores one
   scope for all actions (`sqlalchemy_event_store.py:242`), so a key used for two actions of one
   application ends in a conflict no retry resolves, while `submit_observation.py:11-14` and
   `tables.py:104-109` say the scope includes the action.
4. `MCIntegrityRelease.cfg` (`MCIntegrity`, `ChainIntact`): releasing the SYSTEM stream leaves a
   modified row in the session, which the locking read does not refresh
   (`sqlalchemy_event_store.py:334`); the release is chained onto a stale head.
5. `MCProjectionGap.cfg` (`MCProjection`, `AcceptedIsListed`): a rebuild deletes rows of
   observations committed after it read the events (`repositories/projections.py:166`), while
   `docs/runbooks/PROJECTION_REBUILD.md:17` calls rebuilds safe.
6. `MCEpistemicRetire.cfg` (`MCEpistemic`, `RetiredIsFinal`): the status of a hypothesis is checked
   in a row read before the lock (`epistemic.py:533`, `evaluate_experiment_v31.py:259`). An
   activation or evaluation that read it before a retirement committed writes its row over the
   retirement. The version check does not help: activation reads the version after the status,
   and evaluation appends only to new aggregates.
7. `MCTradingRetry.cfg` (`MCTradingAssessment`, `RetryCanSucceed`): a claim that failed or whose
   owner died is never released (`sqlite_idempotency_store.py:92-94`), and clients are told to
   retry shortly (`trading_assessment.py:118`).
8. `MCWellbeingEdit.cfg` (`MCWellbeing`, `OnlyNewestCounts`): the scale report counts the readings
   of rows that a newer row of their day supersedes (`wellbeing_v1.py:177`), so that a corrected
   check-in goes on lowering the confidence, while `wellbeing_v1.py:174-176` says that only the
   newest feeds the features of its day.
9. `MCEpistemicCurrent.cfg` (`MCEpistemicProjection`, `AtMostOneCurrent`, three rebuilds): a rebuild
   that has folded a belief as current, where earlier rebuilds removed its row, demotes the beliefs it
   sees at once and inserts that belief at its commit (`repositories/epistemic.py:146-184`). An
   evaluation that commits a newer belief in between, which no lock prevents, leaves two current
   beliefs of one hypothesis, although beliefs are written "oldest first so is_current flips
   correctly" (`epistemic_projections.py:271`). Two rebuilds are not enough: the first has to delete the
   hypothesis and the experiment beside a belief that is just committed, and the second to put them
   back and delete the belief.
10. `MCProjectionGap.cfg` with `PROPERTY ResumeRewritesNothing` in place of its invariant: a row
   submitted without `occurred_at` is live without it (`submit_observation.py:256`), and a resume gives
   it the event's (`projections.py:403`, `repositories/projections.py:59`), while
   `projections.py:138-140` says that a resume "never rewrites existing rows".
11. `MCProjectionGap.cfg` with `INVARIANT NoCycle` in its place: the row locks of those UPDATEs and of a
   rebuild's DELETE (`repositories/projections.py:166`) are taken in different orders, so a resume and a
   rebuild can wait for each other; PostgreSQL rolls one of them back. A resume can also find its row
   deleted and be rolled back (`LoseRow`). `docs/runbooks/PROJECTION_REBUILD.md:17` calls rebuilds safe.
12. `MCDecisionsTestRun.cfg` (`MCDecisions`, `TestRunsStayOut`): `extract_provenance` reads a
   `test_run_id` (`observation_provenance.py:99`) and no rule of the selection looks at it
   (`input_selection.py:106-166`): a workout or a legacy check-in that carries only this mark feeds the
   scores, while `input_selection.py:5-7` says that tests are excluded.
13. `MCWellbeingThreads.cfg` (`MCWellbeing`, `ExclusionsStayAlways`): a thread reads the exclusions
   (`exclusion_registry.py:78`, `:93`) and overwrites the cache its process shares later (`:96-97`), with
   no lock held across both; what another thread has excluded and committed in between is forgotten,
   against `docs/reviews/WELLBEING_APPEND_ONLY_INVALIDATION_V1.md:24`.
14. `MCTradingTorn.cfg` (`MCTradingAssessment`, `AnswersCanBeFetched`): a line cut short spoils the
   record appended behind it (`infrastructure/trading/jsonl_store.py:40-57`): an assessment that was
   answered and is COMPLETE is not found by `get_assessment`, while
   `docs/reviews/TRADING_ASSESSMENT_INGESTION_V1_REPORT.md:5` says that it is persisted.

### Worth knowing

These contradict no document or are matters of taste; the models contain them.

- Integrity: a release that had read ACTIVE before a concurrent quarantine is recorded and leaves
  the stream QUARANTINED. Two verifications that insert the first checkpoint of a stream: one aborts
  with all it found.
- Projection: `verify` can report a mismatch when a submission commits between its two reads; a
  resume that starts from the checkpoint does not see an event of a lower position that commits
  later; a rebuilt row has `occurred_at` filled where the live row has none.
- Epistemic: the replay does not give back what the commands write: the status of a hypothesis
  (it does not know OBSERVING and EVALUATED) and its experiment can differ from the live row, so
  `ReplayAgrees` compares the keys of every table and the columns its comment names, not these. Two
  activations that both read PROPOSED register two experiments; two evaluations may
  name the same previous belief; an evaluation after a terminal one is not refused. The handler that
  would replay the winner of a fingerprint race is not reached, because the evidence row is flushed
  by the commit outside its `try`, and since the cutoff is the stream head, which every evaluation
  advances, the replay of `docs/architecture/SEMANTIC_EVIDENCE_IDEMPOTENCY.md` can happen only inside
  that race. The projection's `verify` compares and writes nothing.
- Identity: two bootstraps make two owners; `set_application_status` appends no event and no audit
  record, contrary to `identity_admin.py:3-5`; `revoke_scope` and `set_application_status` have no
  command in the CLI.
- Research factory: two concurrent approvals make two rows of one version; equal artifacts of
  concurrent requests are stored twice; the limit on agents' proposals never applies; the evidence
  agent compares times as strings; a report that asks for a verdict gets it without the sample gates;
  fixtures among critic, shadow and anomaly references do not make a bundle a fixture.
- Trading: what the anomaly agent remembers of earlier observations lives in an object made for each
  request, so `DUPLICATE_OBSERVATION` is never raised over HTTP, and if it were, its DEFER with
  severity HIGH defers nothing; no policy decision is TAKE, since the evidence strength is a constant
  below its threshold; objections about context and confidence change no status; zero ratios count as
  absent, and noise does not always fall as the stop grows.
- Life pack: workouts of a SHARED_DEMO scope and rows from before purposes were recorded are
  included, also ones whose purpose text is unknown, although the docstring speaks of
  USER_OBSERVATION only; experiments look neither at the declared scale nor at the exclusions, and
  take the first row of a source where the scores take the newest; a conflicting correction blocks an
  experiment until it expires; a check-in dated in the future becomes the end of the window and
  empties it.
- Wellbeing: `compare_shadow` scans twice, so V1 and V2 may see different sets, whatever
  `input_selection.py:174` asks; two first requests collide on the formula rows and one loses its
  snapshot. Exclusions: a load that fails leaves a process without them until it restarts; a rollback
  after the refresh leaves a phantom; without a session `append_exclusion` only extends a list.

## 4. Proofs

`EventLedgerProofs`, for every set of sessions, workers, applications, actions, keys and
payloads and every bound. `ChainIntact` is not inductive: that the event about to be committed
extends the chain is known only because its worker has held the lock since it read the head.
`ChainInv` adds exactly that: `LockHeld` (who holds the lock), `PositionsHandedOut` (no head is
beyond the sequence), `StagedFits` (what is staged chains onto the current head and its key is
unused) and `HeadTracksLog`. From `ChainInv` follow `TypeCorrect`, `ChainNeverForks`,
`HeadNeverStale`. `EffectInv` adds one record per key and that answers are known, giving
`KeysTakeEffectOnce`, `RepliesAreStable` and `CommitIsRaceFree`. `ActiveWhileLocked` (a status
changes only under the lock) gives the action property `QuarantineStopsWrites`; `LogBelowHead`
(no event lies beyond its head) gives `HistoryIsKept`. `LedgerRefinement` maps each step to
`Accept`, `Answer` or a stutter.

`TradingProofs`, for every set of workers, keys and hashes. `OneAssessmentPerKey` is not
inductive either. `TradingInv` says who may write for a key (`SoleOwner`: a worker at work on a
key holds its pending claim, alone), what its files hold at each step (`FilesFollow`), what a claim
and an answer imply of the files (`ClaimsFollow`, `AnswersFollow`), and that only a record behind a
torn one cannot be read though it is whole (`FilesGlued`). Files only grow (`StepAppends`), so what
was written to the end stays, and is read but for that case. It gives `AssessedOnce`, `AnswersAreKept`,
`TradingTypes` and the action property `ClaimsStaySettled`.

`AggregateVersionsProofs` holds the lemmas on versions that the other proofs share: the latest
version of an aggregate is the number of its events while versions are contiguous
(`LatestIsCount`), appending the version after the latest keeps them contiguous
(`AppendContiguous`, `AppendFresh`), and what an append does to the latest version of its own and
of another aggregate (`LatestAfterOwn`, `LatestAfterOther`). `Latest` is a maximum, so the
existence of least and greatest members of sets of naturals is proved there too.

`IntegrityProofs`, for every set of operators, workers and streams, any number of jobs and any
corruption by any hand. Of `ChainInv`, the part that does not speak of the chain (`WriteInv`) holds
beside operators as it stands: they take only locks that are free and change only statuses and the
SYSTEM stream (`OperatorFrame`, `OperatorWrites`); in return workers leave the SYSTEM stream and every
status alone (`WorkerFrame`). `OperatorInv` says what a job is worth between its steps: who is about
to append, or has, holds the SYSTEM lock (`SystemLocked`), so that nobody else commits meanwhile;
the events it has staged are of its kind of job and continue the numbering of what is committed
(`BatchesFit`); it has scanned no stream twice (`JobsFit`); no event lies beyond the sequence
(`PositionsUsed`). With `VersionsContiguous` and `StatusIsRecorded` themselves that is `RecordInv`,
which is inductive: the version read before the lock is compared again at the first flush, so the
first event continues the numbering, and a commit changes a status exactly when its batch holds the
event that says so (`StatusWritten`). `StatusIsRecorded` says no more than that an active application
stream has no quarantine recorded behind its last recorded release, and a quarantined one a quarantine
on record: a release that had read ACTIVE is recorded and releases nothing. `ScanInv` adds what the scans rely on: streams, and each
with the batch staged for it, have the links and the rising positions `verify_chain` expects
(`StreamsSound`, `BatchesSound`), every checkpoint is 0 or the position of a committed event
(`AnchorsListed`), and without a corruption nobody has found a break (`Untampered`). `NoBreaks` is
the heart of it: from 0, or from the position of any event of the stream, a sound stream has no
break, so it does not matter how far the checkpoint lags behind. These give
`VersionsStayContiguous`, `StatusStaysRecorded`, `ChainNeverForksBesideOperators` and
`VerificationNeverCriesWolf`. The last two assume that no operator releases the SYSTEM stream, which
they must: finding 4 is the counterexample without.

Its second part is about `Projection`, beside the same workers and with the same frames
(`WorkerFrame`, `WritesBeside`). `RowsHaveEvents` is not inductive: a rebuild commits rows it read
long before. `ProjectionInv` adds what a task is worth at each of its steps (`TasksFit`): which
operation can be at that step (`Suits`); what it
has read was committed, since committed events stay (`Grows`); from the shadow on, the rows of a
rebuild are all the observations among the events it read; who is about to append holds the SYSTEM
lock, and the event it has flushed continues the SYSTEM stream at a position no other session has
(`EventFits`, `StagedNew`). Positions are the point: what is committed later never takes a position
that was read or flushed before, so the set a task has read keeps meaning the same events. A rebuild
that read all there is at its commit therefore leaves exactly the observations, however many
operators rebuild beside it. The theorems are `ProjectionInvariant`, `ProjectionTypes`,
`RowsAreAccepted`, `RebuildsAreExact` and `ChainNeverForksBesideRebuilds`. That a rebuild may have
read less is the finding on `repositories/projections.py:166`, and no theorem denies it. The argument
uses nothing of the order in which rows are locked, nor of who is rolled back.

`EpistemicProofs`, for every set of sessions, every target and every bound. None of the
properties is inductive. `IInv` adds to the types: `References` (rows refer to rows that exist),
`AllSettled` (no identifier, position or cutoff is beyond `Settled`, the last position that is
not being written under the lock), `LockOwned` (who holds the lock and how many positions it has
taken), `ViewsHold` (where a command can be and what its unlocked reads are still worth there) and
`CurrentIsLatest` (the current belief of a hypothesis is its latest). `AllSettled` is what
`EvidenceReproducible` turns on: the cutoff of an evaluation is the stream head, so an observation
at or below it is committed, and whatever is committed later comes after it. `CurrentIsLatest` is
why one belief stays current although the prior one was read before the lock: the commit demotes
what is current by then. The theorems are `TypeCorrect`, `Reproducible`, `Unique`, `OneCurrent`,
`ReadsHold`, and for single steps `NothingTakenBack`: no step removes or changes an event, an
experiment, an evidence record or a belief, and no hypothesis becomes PROPOSED again.

Its second part is about `EpistemicProjection`: any number of rebuilds beside the commands. There
`IInv` is lost, since a rebuild deletes rows under the feet of a command. What remains is `RInv`, which
compares everything with `Told`, the replay of the committed events: the live rows are some of its
rows (`RowsAreReplayed`), and all of them, in the columns `ReplayAgrees` names, until a rebuild starts;
what a command has
looked up is told even if its row is gone (`AboutTold`), and what a rebuild has folded is still told
(`RebuildForm`), because events are only added and the handlers of new events leave the rows of old
ones alone (`WithinTransitive`, `TellsNext`). `ToldSettled` keeps observations off the positions of an
experiment and of its activation, the one before: that is why the two anchors an experiment can have
(`Anchored`) choose the same observations. The replay is a recursive function on the prefixes of the
ledger, and what it does at every length is proved by looking at a shortest ledger for which it
would not (`RunExists`, `RunsAgree`); each commit appends up to four events, whose effect on the
replay (`ToldAfterFour`) is compared with the rows the command writes (`EvaluateShows`). The
theorems are `RebuildInvariant`, `ReplayTells`, `RowsTold` and `CohortsKept`.

`IdentityProofs`, for every set of operators, requests and scopes. `IInv` adds: `CommandsRefer` and
`IdsUnique`, `LocksHeld` (a stream has one holder, and who is about to append to an aggregate that
exists holds its stream and has read its latest version), `ScopesGranted` (the scopes in a row, and
those in the hands of an operator about to write them back, were granted), `ContextsRecorded` (what
a request in progress knows was on the record when it came). `CredentialsFollow` rests on
authentication writing one column of a credential's row; `AuthorityRecorded` on scope lists,
however stale, holding only what the ledger granted at some time: it does not say that a
withdrawal wins, and the code does not make it win. `Numbered` is the contiguity of versions.

`ResearchFactoryProofs`, for every finite set of workers and every bound. A request's appends are
fixed when it starts and others write between them, so `IInv` speaks of what is still to do:
`OneRequest` (a worker's appends are of one request, nobody else's, and end when it tears a line),
`CitesKept` (what an append cites is in a file already, or the same request writes it before),
`PendingManual` (an approval on its way stands behind the version it approves), `LookedFirst` (where
the request of an artifact has looked, and it says how far, no copy of it could be read) and `Glued` (a
whole row is unreadable only behind a torn line). `LookedFirst` is what makes a duplicate a race:
lines only become unreadable, so a copy that can be read now and was there then would have been found.
`TrailLeft` adds a count: `TornCost` sends each row that is kept and cannot be read to the torn line
before it, or to itself if it lacked its newline only and was read at first, so that a torn line costs one row,
and one that could be read two.

`DecisionsProofs`, for every set of inputs, however many places they differ in. The answers of
`Decisions` depend on the request alone, so its properties need no strengthening: `StepAnswers` says
what a step does to request and answer, a lemma about the operators says what holds of the function
that answers, and the theorem puts them together. The lemmas carry the weight: `FindingsOfUnusable`
and `GateIsUnusable` (the anomaly agent, the critic and the adjudicator stop the same rows, though
each looks at other fields) for `UnusableIsDeferred`; `OutcomeAddsLabel` and `TrustIgnoresOutcome`
for `OutcomeOnlyLabels`; `ShadowLowers`, `AbsentProbe`, `VerdictHasCounts`, `UnknownSpread`,
`IncludedIsListed` and `VerdictNeedsGroups` for the others. Confidence is a chain of integer
divisions: `DivMonotone` and `PercentMonotone` say that none of them turns an inequality round,
`PenaltiesGrow`, `RawGrows` and `SettleGrows` say it of the stages, and `SufficiencyGrows` that a day
more never thins a sample out, which together give `ConfidenceHasToBeEarned`.

Its second part is about `Wellbeing`, for every catalogue of observations, page size, number of
processes, of threads, of requests and of restarts. `WellbeingInv` adds `StoreNumbered` (rows are numbered 1, 2,
3, ... without holes or doubles, which the write path's lock gives), `ScanFits` (a scan has seen
exactly the rows up to its last position), `RequestFits` (with the formula rows a request is about
to insert none is missing), `LoadedFits` and `CachesFit` (neither what has been read of the table nor a
loaded cache is older than its process) and `AloneFits` (a thread whose way no other of its process
has crossed is alone in the registry, and what it is excluding is in the cache). `ScanIsPrefix` turns on
counting: between two positions there are as many rows as positions (`CountBetween`), so a page is
the rows at the next positions, and a page that is not full is the last (`PageIsNext`, `PageEnd`),
while what is accepted meanwhile comes behind it (`AcceptNumbers`). `StoreGrows` says the same of a
step: a row is added behind all the others, or none. From that `NewestAdds` gives
`CorrectionsSupersede`, and `EvidenceStays` follows; `ExclusionsAreKept` looks at every step that
touches a cache, by threads in any number and any order, and says nothing of two that cross in the
registry: finding 13 is the counterexample. The others are `WellbeingInvariant`, `WellbeingTypes` and `CohortsArePrefixes`.

Assumptions are those named in the modules: sessions include the workers and not `NoSession`,
SYSTEM is no application, actions are kinds of events, bounds are naturals, the workers of the
research factory are finitely many, what a job appends are kinds of events and its aggregates are
lasting ones, the projector has an aggregate of its own and its event a kind, the inputs of
`Decisions` are of the kinds the operators speak of, and the observations that may be accepted are
rows with identifiers of their own. The theorems about `Integrity` are also stated under
`ViolationIds`: an event at any position may turn out broken, so there is an aggregate of violations
for each; a set of constants for TLC has those of the positions it can reach.

Every invariant, action property and refinement of a passing run is proved, under the assumptions
said above. Only model-checked: liveness (`RequestsEnd`, `TasksEnd`), since fairness speaks of what
is enabled, which is out of the prover's reach. What the findings refute has no theorem.

## 5. Plan

1. All components that carry state have their module and run: done.
2. Every invariant and action property of the passing runs has its theorem: done.
3. When the code changes: the module of the part that changed, its run, then its proof.

## 6. Not modelled

Of the wellbeing formulas, V2 (a floating-point model in shadow status), baselines, contributors and
suggested actions; of `bayesian_bootstrap.py`, the statistics behind the probabilities it classifies;
the research models under `domain_packs/trading` (`meta_edge`, `market_narrative`), which no route and
no use case calls: an integer model would say nothing about them. HTTP parsing and schemas, the SDK's
own timing, read use cases, logging, health, configuration and the governance manifest keep no state.
Migrations run while the service is stopped; the constraints they create are the indexes the modules use.

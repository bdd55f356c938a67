---------------------------- MODULE SystemStream ----------------------------
(***************************************************************************)
(* What the operators' jobs of the CLI share: they are sessions beside the *)
(* workers, and the events they append go to the engine's SYSTEM stream    *)
(* under an aggregate whose version is read first and checked when the     *)
(* event is appended.                                                      *)
(***************************************************************************)
EXTENDS EventLedger, AggregateVersions

CONSTANT Admin  \* sessions of operators running the CLI

ASSUME AdminAssumption == Admin \subseteq Session \ Worker

ledgerButLock == <<log, head, sequence, idem, audits, projected>>

\* Mutant: the event is stored without its version.
SystemEventUnversioned(row, before, kind, aggregate, ver, pos) ==
    [pos |-> pos, prev |-> IF before = <<>> THEN row.last ELSE Last(before).pos,
     kind |-> kind, agg |-> aggregate, key |-> NoKey]

\* _system_event then append_one, after the events `before` of the
\* same transaction: chain onto the session's head, next version of the aggregate.
SystemEvent(row, before, kind, aggregate, ver, pos) ==
    [pos |-> pos, prev |-> IF before = <<>> THEN row.last ELSE Last(before).pos,
     kind |-> kind, agg |-> aggregate, ver |-> ver, key |-> NoKey]

\* The events of every lasting aggregate are numbered 1, 2, 3, ... in order.
Numbered(events) ==
    \A i \in DOMAIN events :
        events[i].agg # Fresh =>
            events[i].ver = Latest(SubSeq(events, 1, i - 1), events[i].agg) + 1

\* The versions of an aggregate in the SYSTEM stream are 1, 2, 3, ... in order,
\* although they are read before the lock is taken.  About
\* _assert_optimistic_concurrency re-reading them under it.
VersionsContiguous == Numbered(log[System])

=============================================================================

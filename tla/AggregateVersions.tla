------------------------- MODULE AggregateVersions -------------------------
(***************************************************************************)
(* The versions of an aggregate: every event carries one, the next is read *)
(* from the events that are stored, and it is read again when the event is *)
(* appended.                                                               *)
(***************************************************************************)
EXTENDS Naturals, FiniteSets, SequencesExt

\* get_latest_aggregate_version over a sequence of events.
Latest(events, aggregate) ==
    LET versions == {e.ver : e \in {x \in ToSet(events) : x.agg = aggregate}}
    IN  Max(versions \cup {0})

\* Where an aggregate has events before the i-th one.
Earlier(events, aggregate, i) == {j \in 1..(i - 1) : events[j].agg = aggregate}

\* The events of every aggregate are numbered 1, 2, 3, ... in order.
Contiguous(events) ==
    \A i \in DOMAIN events :
        events[i].ver = 1 + Cardinality(Earlier(events, events[i].agg, i))

=============================================================================

---------------------------- MODULE AtomicLedger ----------------------------
(***************************************************************************)
(* What the write path promises to its clients, without sessions, locks or *)
(* transactions: a command takes effect at most once per (application,     *)
(* action, key), in one step, at the end of its application's history; a   *)
(* successful answer names the effect of that scope and that payload.      *)
(* It abstracts submit_observation.py:1-15 and EventLedger implements it.  *)
(***************************************************************************)
EXTENDS Naturals, Sequences

CONSTANTS App, Action, Key, Payload

VARIABLES history, effects, answers

vars == <<history, effects, answers>>

Record == [app : App, action : Action, key : Key, hash : Payload, pos : Nat]

Init ==
    /\ history = [a \in App |-> <<>>]
    /\ effects = {}
    /\ answers = {}

\* The command described by x takes effect as the latest event of its application.
Accept(x) ==
    /\ \A y \in effects : x.app # y.app \/ x.action # y.action \/ x.key # y.key
    /\ \A i \in DOMAIN history[x.app] : history[x.app][i] < x.pos
    /\ history' = [history EXCEPT ![x.app] = Append(@, x.pos)]
    /\ effects' = effects \cup {x}
    /\ UNCHANGED answers

\* A client is told of an effect, first or by a replay.
Answer(x) ==
    /\ x \in effects
    /\ answers' = answers \cup {x}
    /\ UNCHANGED <<history, effects>>

\* x is bound by what the step adds, so that TLC need not enumerate positions.
Next ==
    \/ \E x \in effects' \ effects : x \in Record /\ Accept(x)
    \/ \E x \in answers' \ answers : Answer(x)

Spec == Init /\ [][Next]_vars
=============================================================================

------------------------------ MODULE JsonLines ------------------------------
(***************************************************************************)
(* Files of JSON lines that are only appended to, as the trading and the   *)
(* research stores write and read them: a file is the sequence of the      *)
(* pieces written to it, each a whole line or the part of a line that was  *)
(* written when the process died or the disk was full.                     *)
(***************************************************************************)
EXTENDS Naturals, Sequences

\* ok: the row is whole and its line begins with it; open: it has no newline.
Pieces(Row) == Seq([row : Row, ok : BOOLEAN, open : BOOLEAN])

\* What is written next continues the line of the last piece.
IsOpen(s) == s # <<>> /\ s[Len(s)].open

\* _append: a row and its newline; it shares its line with a torn one before it.
Whole(s, row) == [row |-> row, ok |-> ~IsOpen(s), open |-> FALSE]

\* An append cut short, maybe of its newline only.
Torn(s, row, whole) == [row |-> row, ok |-> whole /\ ~IsOpen(s), open |-> TRUE]

\* _read: a line that is not JSON is left out; one that only lacks its newline is JSON until
\* the next row is written behind it.
Readable(s) == {i \in DOMAIN s : s[i].ok /\ (s[i].open => i = Len(s))}

\* The pieces of a file that have no newline.
TornIn(s) == {i \in DOMAIN s : s[i].open}

=============================================================================

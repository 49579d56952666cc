-------------------------- MODULE MCSequentialTask --------------------------
(***************************************************************************)
(* Values of the constants of SequentialTask for TLC.                      *)
(***************************************************************************)
EXTENDS SequentialTask

\* At the end only the last subtask's condition must hold: the others may have
\* been undone.
LastOnly == [i \in 0..NumSubtasks - 1 |-> i = NumSubtasks - 1]
NoneOrLast == {AnyState, LastOnly}
=============================================================================

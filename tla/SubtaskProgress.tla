-------------------------- MODULE SubtaskProgress --------------------------
(***************************************************************************)
(* What a sequential task promises, without the lists that implement it:   *)
(* an environment works through its subtasks in order, at most one per     *)
(* step, each completed when its own success condition holds while it is   *)
(* the current one.  Completed subtasks stay completed until the           *)
(* environment is reset.                                                   *)
(*                                                                         *)
(* SequentialTask implements this specification.                           *)
(***************************************************************************)
EXTENDS Integers

CONSTANTS Envs,
          NumSubtasks,
          DesiredStates,   \* the conditions a task may ask for at the end
          AnyState         \* the one that asks for none

VARIABLES desired,         \* the conditions this task asks for
          holds,           \* which subtasks' conditions held at the last step
          progress,        \* how many subtasks each environment has completed
          success          \* the composite task's success after the last step

vars == <<desired, holds, progress, success>>

Subtasks == 0..NumSubtasks - 1

Init == /\ desired \in DesiredStates
        /\ holds = [e \in Envs |-> [i \in Subtasks |-> FALSE]]
        /\ progress = [e \in Envs |-> 0]
        /\ success = [e \in Envs |-> FALSE]

After(results, e) ==
   IF progress[e] < NumSubtasks /\ results[e][progress[e]] THEN progress[e] + 1
                                                          ELSE progress[e]

Step == \E results \in [Envs -> [Subtasks -> BOOLEAN]] :
   /\ holds' = results
   /\ progress' = [e \in Envs |-> After(results, e)]
   /\ success' = [e \in Envs |-> /\ After(results, e) = NumSubtasks
                                 /\ desired \in {AnyState, results[e]}]
   /\ UNCHANGED desired

Reset == \E ids \in SUBSET Envs :
   /\ progress' = [e \in Envs |-> IF e \in ids THEN 0 ELSE progress[e]]
   /\ UNCHANGED <<desired, holds, success>>

Next == Step \/ Reset

Spec == Init /\ [][Next]_vars
=============================================================================

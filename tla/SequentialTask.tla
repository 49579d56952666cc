--------------------------- MODULE SequentialTask ---------------------------
(***************************************************************************)
(* The composite task of isaaclab_arena/tasks/sequential_task_base.py in   *)
(* an Isaac Lab environment: the success function and the reset event that *)
(* share the lists env._subtask_success_state and env._current_subtask_idx, *)
(* and the two recorder terms the metrics are computed from.               *)
(*                                                                         *)
(* One step of the environment runs, in this order, the termination terms, *)
(* the recorders' post-step hook and, for the environments that are done,  *)
(* the recorders' pre-reset hook and the reset events.                     *)
(***************************************************************************)
EXTENDS Integers

CONSTANTS Envs,
          NumSubtasks,
          DesiredStates,   \* the arguments desired_subtask_success_state may be
          AnyState,        \* the argument None
          Shared           \* an inner list that is the one in state

ASSUME TaskAssumption ==
   /\ NumSubtasks \in Nat \ {0}
   /\ DesiredStates \subseteq [0..NumSubtasks - 1 -> BOOLEAN] \cup {AnyState}
   /\ AnyState \notin [0..NumSubtasks - 1 -> BOOLEAN]
   /\ Shared \notin [0..NumSubtasks - 1 -> BOOLEAN]

VARIABLES desired,         \* desired_subtask_success_state
          pc,              \* where env.reset or env.step is
          holds,           \* which subtasks' conditions held at the last step
          state,           \* _subtask_success_state, per environment
          idx,             \* _current_subtask_idx, per environment
          success,         \* the success term the termination manager holds
          done,            \* the environments to be reset in this step
          extras,          \* extras["subtask_success_state"]
          row,             \* the subtask states recorded after the last step
          seen,            \* the subtasks seen completed in the episode's rows
          firstReset,      \* SuccessRecorder.first_reset
          demos            \* the episodes the last reset added to the dataset

taskVars == <<state, idx>>
recorderVars == <<row, seen, firstReset, demos>>
vars == <<desired, pc, holds, taskVars, success, done, extras, recorderVars>>

Subtasks == 0..NumSubtasks - 1
Flags == [Subtasks -> BOOLEAN]
NoneDone == [i \in Subtasks |-> FALSE]
Demos == [flags : Flags, success : BOOLEAN]

TypeOK == /\ desired \in DesiredStates
          /\ pc \in {"begin", "step", "record", "reset"}
          /\ holds \in [Envs -> Flags]
          /\ state \in [Envs -> Flags]
          /\ idx \in [Envs -> Subtasks]
          /\ success \in [Envs -> BOOLEAN]
          /\ done \in SUBSET Envs
          /\ extras \in [Envs -> Flags \cup {Shared}]
          /\ row \in [Envs -> Flags]
          /\ seen \in [Envs -> Flags]
          /\ firstReset \in BOOLEAN
          /\ demos \in SUBSET Demos

\* The two lists are created with these values by whichever function runs first.
Init == /\ desired \in DesiredStates
        /\ pc = "begin"
        /\ holds = [e \in Envs |-> NoneDone]
        /\ state = [e \in Envs |-> NoneDone]
        /\ idx = [e \in Envs |-> 0]
        /\ success = [e \in Envs |-> FALSE]
        /\ done = {}
        /\ extras = [e \in Envs |-> NoneDone]
        /\ row = [e \in Envs |-> NoneDone]
        /\ seen = [e \in Envs |-> NoneDone]
        /\ firstReset = TRUE
        /\ demos = {}
-----------------------------------------------------------------------------
(* sequential_task_success_func *)

\* Wrong forms of the operators below.
AdvanceUncapped(results) ==
   [e \in Envs |-> idx[e] + (IF results[e][idx[e]] THEN 1 ELSE 0)]
SucceedLatched(flags, result) == \A i \in Subtasks : flags[i]

\* The current subtask is latched and the index moves on, except from the last.
Latch(results) ==
   [e \in Envs |-> [i \in Subtasks |-> state[e][i] \/ (i = idx[e] /\ results[e][i])]]
AdvanceIdx(results) ==
   [e \in Envs |-> IF results[e][idx[e]] /\ idx[e] < NumSubtasks - 1
                   THEN idx[e] + 1 ELSE idx[e]]
Succeeds(flags, result) ==
   (\A i \in Subtasks : flags[i]) /\ desired \in {AnyState, result}

\* The copy put in extras is shallow: its inner lists are those of state.
SuccessFunc(results) ==
   /\ state' = Latch(results)
   /\ idx' = AdvanceIdx(results)
   /\ success' = [e \in Envs |-> Succeeds(state'[e], results[e])]
   /\ extras' = [e \in Envs |-> Shared]

\* What a reader of extras sees.
Extras(e) == IF extras[e] = Shared THEN state[e] ELSE extras[e]
-----------------------------------------------------------------------------
(* reset_subtask_success_state *)

\* Wrong forms of ResetTask.
ResetInPlace(ids) ==
   /\ state' = [e \in Envs |-> IF e \in ids THEN NoneDone ELSE state[e]]
   /\ idx' = [e \in Envs |-> IF e \in ids THEN 0 ELSE idx[e]]
   /\ UNCHANGED extras
ResetFlagsOnly(ids) ==
   /\ state' = [e \in Envs |-> IF e \in ids THEN NoneDone ELSE state[e]]
   /\ extras' = [e \in Envs |-> IF e \in ids THEN Extras(e) ELSE extras[e]]
   /\ UNCHANGED idx

\* The environments ids get new inner lists; extras keeps their old ones.
ResetTask(ids) ==
   /\ state' = [e \in Envs |-> IF e \in ids THEN NoneDone ELSE state[e]]
   /\ idx' = [e \in Envs |-> IF e \in ids THEN 0 ELSE idx[e]]
   /\ extras' = [e \in Envs |-> IF e \in ids THEN Extras(e) ELSE extras[e]]
-----------------------------------------------------------------------------
(* The environment *)

\* Wrong form of RecordRow: the row holds the state the step started from.
RecordLate(e) == row[e]

\* What the post-step hook records of environment e.
RecordRow(e) == state[e]

\* env.reset, before the first step: the recorders skip this reset.
InitialReset ==
   /\ pc = "begin"
   /\ ResetTask(Envs)
   /\ firstReset' = FALSE
   /\ pc' = "step"
   /\ UNCHANGED <<desired, holds, success, done, row, seen, demos>>

\* The termination terms: the success function and others, which end any
\* environments they like (a time-out, a dropped object).
Terminate ==
   /\ pc = "step"
   /\ \E results \in [Envs -> Flags], others \in SUBSET Envs :
        /\ holds' = results
        /\ SuccessFunc(results)
        /\ done' = others \cup {e \in Envs : success'[e]}
   /\ pc' = "record"
   /\ UNCHANGED <<desired, recorderVars>>

RecordPostStep ==
   /\ pc = "record"
   /\ row' = [e \in Envs |-> RecordRow(e)]
   /\ seen' = [e \in Envs |-> [i \in Subtasks |-> seen[e][i] \/ row'[e][i]]]
   /\ pc' = IF done = {} THEN "step" ELSE "reset"
   /\ UNCHANGED <<desired, holds, taskVars, success, done, extras, firstReset, demos>>

\* The success flag is recorded, the episode is exported, and the reset event
\* runs.  The metric of an episode is the subtasks completed in any row of it.
ResetDone ==
   /\ pc = "reset"
   /\ demos' = {[flags |-> seen[e], success |-> success[e]] : e \in done}
   /\ seen' = [e \in Envs |-> IF e \in done THEN NoneDone ELSE seen[e]]
   /\ ResetTask(done)
   /\ done' = {}
   /\ pc' = "step"
   /\ UNCHANGED <<desired, holds, success, row, firstReset>>

Next == InitialReset \/ Terminate \/ RecordPostStep \/ ResetDone

Spec == Init /\ [][Next]_vars
-----------------------------------------------------------------------------
(* Properties *)

\* The index and the flags tell the same story: the subtasks before the current
\* one are completed, those after it are not, and the current one is completed
\* only if it is the last.  Two lists, written by two functions, carry it
\* (sequential_task_base.py:168-171, 190-208).
PointerOK == \A e \in Envs :
   /\ \A i \in Subtasks : /\ i < idx[e] => state[e][i]
                          /\ i > idx[e] => ~state[e][i]
   /\ state[e][idx[e]] => idx[e] = NumSubtasks - 1

\* Subtasks are completed in order, at most one per step, each by its own
\* condition while it is the current one; success is that of the last one
\* (and, if asked for, the desired conditions hold), however the environments
\* are reset meanwhile (sequential_task_base.py:136-187).
Progress == INSTANCE SubtaskProgress WITH
   progress <- [e \in Envs |-> IF state[e][NumSubtasks - 1] THEN NumSubtasks ELSE idx[e]]
ImplementsProgress == Progress!Spec

\* The episode records agree: an episode recorded as successful has all its
\* subtasks recorded as completed, and conversely unless final conditions are
\* desired; what is completed is a prefix, so the per-subtask rates never
\* increase.  The flags come from the post-step hook and the success from the
\* pre-reset hook (sequential_task_base.py:45-48, 86-92; success_rate.py:27-41).
DemosAgree == \A d \in demos :
   /\ d.success => \A i \in Subtasks : d.flags[i]
   /\ desired = AnyState /\ (\A i \in Subtasks : d.flags[i]) => d.success
   /\ \A i, j \in Subtasks : i < j /\ d.flags[j] => d.flags[i]

\* After a step, extras shows for every environment the state its recorder
\* wrote for that step, also for the environments reset within the step,
\* although extras shares its lists with the state
\* (sequential_task_base.py:185, 199-200).
ExtrasOfTheStep == pc = "step" => \A e \in Envs : Extras(e) = row[e]
=============================================================================

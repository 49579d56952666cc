------------------------ MODULE SequentialTaskProofs ------------------------
(***************************************************************************)
(* Proofs about SequentialTask, for every set of environments, every number *)
(* of subtasks and every set of desired final conditions.                  *)
(***************************************************************************)
EXTENDS SequentialTask, TLAPS

\* What the record of an environment, and the extras shown for it, say of its
\* state, at each point of a step.
Recorded(e) ==
   /\ pc = "begin" => /\ Extras(e) = NoneDone
                      /\ row[e] = NoneDone
                      /\ seen[e] = NoneDone
   /\ pc = "step" => Extras(e) = row[e] /\ seen[e] = state[e]
   /\ pc = "record" => /\ Extras(e) = state[e]
                       /\ \A i \in Subtasks : seen[e][i] => state[e][i]
   /\ pc = "reset" => /\ Extras(e) = row[e]
                      /\ row[e] = state[e]
                      /\ seen[e] = state[e]

\* From the termination terms to the reset, success is that of the flags.
SuccessOfTheStep(e) == pc \in {"record", "reset"} =>
   /\ success[e] => \A i \in Subtasks : state[e][i]
   /\ desired = AnyState /\ (\A i \in Subtasks : state[e][i]) => success[e]

\* PointerOK, of one environment.
Pointer(e) ==
   /\ \A i \in Subtasks : /\ i < idx[e] => state[e][i]
                          /\ i > idx[e] => ~state[e][i]
   /\ state[e][idx[e]] => idx[e] = NumSubtasks - 1

\* DemosAgree, of one episode.
Agrees(d) ==
   /\ d.success => \A i \in Subtasks : d.flags[i]
   /\ desired = AnyState /\ (\A i \in Subtasks : d.flags[i]) => d.success
   /\ \A i, j \in Subtasks : i < j /\ d.flags[j] => d.flags[i]

\* The inductive invariant.
IInv == /\ TypeOK
        /\ \A e \in Envs : Pointer(e) /\ Recorded(e) /\ SuccessOfTheStep(e)
        /\ \A d \in demos : Agrees(d)

-----------------------------------------------------------------------------
(* Lemmas on the operators *)

\* There is a first and a last subtask, and no flag has been set by a reset.
LEMMA SubtaskFacts ==
  /\ 0 \in Subtasks /\ NumSubtasks - 1 \in Subtasks
  /\ Subtasks \subseteq Int
  /\ NoneDone \in Flags
  /\ Shared \notin Flags
BY TaskAssumption DEF Subtasks, NoneDone, Flags

\* What a reader of extras sees is a list of flags.
LEMMA ExtrasType ==
  ASSUME TypeOK, NEW e \in Envs
  PROVE  Extras(e) \in Flags
BY DEF TypeOK, Extras

\* A reset gives the environments that are reset, and no others, a new list and
\* the first subtask, and changes nothing a reader of extras sees.
LEMMA ResetEffect ==
  ASSUME TypeOK, NEW ids \in SUBSET Envs, ResetTask(ids), NEW e \in Envs
  PROVE  /\ state'[e] = IF e \in ids THEN NoneDone ELSE state[e]
         /\ idx'[e] = IF e \in ids THEN 0 ELSE idx[e]
         /\ Extras(e)' = Extras(e)
<1>1. /\ state'[e] = IF e \in ids THEN NoneDone ELSE state[e]
      /\ idx'[e] = IF e \in ids THEN 0 ELSE idx[e]
      /\ extras'[e] = IF e \in ids THEN Extras(e) ELSE extras[e]
  BY DEF ResetTask
<1>2. ASSUME e \in ids PROVE Extras(e)' = Extras(e)
  <2>1. Extras(e) # Shared
    BY ExtrasType, SubtaskFacts
  <2>2. extras'[e] = Extras(e)
    BY <1>1, <1>2
  <2>3. QED
    BY <2>1, <2>2 DEF Extras
<1>3. ASSUME e \notin ids PROVE Extras(e)' = Extras(e)
  BY <1>1, <1>3 DEF Extras
<1>4. QED
  BY <1>1, <1>2, <1>3

\* So it leaves the type of the three lists alone.
LEMMA ResetType ==
  ASSUME TypeOK, NEW ids \in SUBSET Envs, ResetTask(ids)
  PROVE  /\ state' \in [Envs -> Flags]
         /\ idx' \in [Envs -> Subtasks]
         /\ extras' \in [Envs -> Flags \cup {Shared}]
<1>1. \A e \in Envs : Extras(e) \in Flags
  BY ExtrasType
<1>2. QED
  BY <1>1, SubtaskFacts DEF TypeOK, ResetTask

\* And keeps index and flags together.
LEMMA ResetPointer ==
  ASSUME TypeOK, NEW ids \in SUBSET Envs, ResetTask(ids), NEW e \in Envs, Pointer(e)
  PROVE  Pointer(e)'
<1>1. /\ state'[e] = IF e \in ids THEN NoneDone ELSE state[e]
      /\ idx'[e] = IF e \in ids THEN 0 ELSE idx[e]
  BY ResetEffect
<1>2. CASE e \in ids
  <2>1. \A i \in Subtasks : ~state'[e][i] /\ ~(i < 0)
    BY <1>1, <1>2, TaskAssumption DEF NoneDone, Subtasks
  <2>2. idx'[e] = 0 /\ 0 \in Subtasks
    BY <1>1, <1>2, SubtaskFacts
  <2>3. QED
    BY <2>1, <2>2 DEF Pointer
<1>3. CASE e \notin ids
  BY <1>1, <1>3 DEF Pointer
<1>4. QED
  BY <1>2, <1>3

\* The success function, of one environment.
LEMMA SuccessFuncEffect ==
  ASSUME TypeOK, NEW results \in [Envs -> Flags], SuccessFunc(results), NEW e \in Envs
  PROVE  /\ state'[e] \in Flags
         /\ idx'[e] \in Subtasks
         /\ success'[e] \in BOOLEAN
         /\ \A i \in Subtasks :
               state'[e][i] <=> state[e][i] \/ (i = idx[e] /\ results[e][i])
         /\ idx'[e] = IF results[e][idx[e]] /\ idx[e] < NumSubtasks - 1
                      THEN idx[e] + 1 ELSE idx[e]
         /\ success'[e] <=> Succeeds(state'[e], results[e])
         /\ extras'[e] = Shared
<1>1. idx[e] \in Subtasks /\ state[e] \in Flags
  BY DEF TypeOK
<1>2. state'[e] = [i \in Subtasks |-> state[e][i] \/ (i = idx[e] /\ results[e][i])]
  BY DEF SuccessFunc, Latch
<1>3. /\ state'[e] \in Flags
      /\ \A i \in Subtasks :
            state'[e][i] <=> state[e][i] \/ (i = idx[e] /\ results[e][i])
  BY <1>2 DEF Flags
<1>4. idx'[e] = IF results[e][idx[e]] /\ idx[e] < NumSubtasks - 1
                THEN idx[e] + 1 ELSE idx[e]
  BY DEF SuccessFunc, AdvanceIdx
<1>5. idx'[e] \in Subtasks
  BY <1>1, <1>4, TaskAssumption DEF Subtasks
<1>6. success'[e] = Succeeds(state'[e], results[e])
  BY DEF SuccessFunc
<1>7. success'[e] \in BOOLEAN /\ (success'[e] <=> Succeeds(state'[e], results[e]))
  BY <1>6 DEF Succeeds
<1>8. extras'[e] = Shared
  BY DEF SuccessFunc
<1>9. QED
  BY <1>3, <1>4, <1>5, <1>7, <1>8

\* It moves an environment to the next subtask with the flags that say so.
LEMMA SuccessFuncPointer ==
  ASSUME TypeOK, NEW results \in [Envs -> Flags], SuccessFunc(results),
         NEW e \in Envs, Pointer(e)
  PROVE  Pointer(e)'
<1> DEFINE j == idx[e]
           k == idx'[e]
<1>1. /\ j \in Subtasks /\ k \in Subtasks
      /\ \A i \in Subtasks :
            state'[e][i] <=> state[e][i] \/ (i = j /\ results[e][i])
      /\ k = IF results[e][j] /\ j < NumSubtasks - 1 THEN j + 1 ELSE j
  BY SuccessFuncEffect DEF TypeOK
<1>2. /\ \A i \in Subtasks : (i < j => state[e][i]) /\ (i > j => ~state[e][i])
      /\ state[e][j] => j = NumSubtasks - 1
  BY DEF Pointer
<1> HIDE DEF j, k
<1>3. SUFFICES /\ \A i \in Subtasks : (i < k => state'[e][i]) /\ (i > k => ~state'[e][i])
               /\ state'[e][k] => k = NumSubtasks - 1
  BY DEF Pointer, k
<1>4. CASE results[e][j] /\ j < NumSubtasks - 1
  <2>1. k = j + 1
    BY <1>1, <1>4
  <2>2. ASSUME NEW i \in Subtasks
        PROVE  (i < k => state'[e][i]) /\ (i > k => ~state'[e][i]) /\ (i = k => ~state'[e][i])
    BY <1>1, <1>2, <1>4, <2>1, TaskAssumption DEF Subtasks
  <2>3. QED
    BY <1>1, <2>2
<1>5. CASE results[e][j] /\ ~(j < NumSubtasks - 1)
  BY <1>1, <1>2, <1>5, TaskAssumption DEF Subtasks
<1>6. CASE ~results[e][j]
  BY <1>1, <1>2, <1>6
<1>7. QED
  BY <1>4, <1>5, <1>6

-----------------------------------------------------------------------------
LEMMA InitIInv == Init => IInv
<1> SUFFICES ASSUME Init
             PROVE  IInv
  OBVIOUS
<1>1. TypeOK
  BY SubtaskFacts DEF Init, TypeOK
<1>2. ASSUME NEW e \in Envs
      PROVE  Pointer(e) /\ Recorded(e) /\ SuccessOfTheStep(e)
  <2>1. pc = "begin" /\ state[e] = NoneDone /\ idx[e] = 0 /\ extras[e] = NoneDone
        /\ row[e] = NoneDone /\ seen[e] = NoneDone
    BY <1>2 DEF Init
  <2>2. Pointer(e)
    <3>1. \A i \in Subtasks : ~state[e][i] /\ ~(i < 0)
      BY <2>1, TaskAssumption DEF NoneDone, Subtasks
    <3>2. QED
      BY <2>1, <3>1, SubtaskFacts DEF Pointer
  <2>3. Recorded(e) /\ SuccessOfTheStep(e)
    BY <2>1, SubtaskFacts DEF Recorded, SuccessOfTheStep, Extras
  <2>4. QED
    BY <2>2, <2>3
<1>3. demos = {}
  BY DEF Init
<1>4. QED
  BY <1>1, <1>2, <1>3 DEF IInv

LEMMA InitialResetIInv == IInv /\ InitialReset => IInv'
<1> SUFFICES ASSUME IInv, InitialReset
             PROVE  IInv'
  OBVIOUS
<1>1. /\ TypeOK /\ pc = "begin" /\ pc' = "step" /\ ResetTask(Envs)
      /\ firstReset' = FALSE
      /\ UNCHANGED <<desired, holds, success, done, row, seen, demos>>
  BY DEF IInv, InitialReset
<1>2. TypeOK'
  BY <1>1, ResetType DEF TypeOK
<1>3. ASSUME NEW e \in Envs
      PROVE  (Pointer(e) /\ Recorded(e) /\ SuccessOfTheStep(e))'
  <2>1. Pointer(e) /\ Recorded(e)
    BY <1>3 DEF IInv
  <2>2. Pointer(e)'
    BY <1>1, <2>1, ResetPointer
  <2>3. Extras(e)' = Extras(e) /\ state'[e] = NoneDone
    BY <1>1, ResetEffect
  <2>4. Recorded(e)' /\ SuccessOfTheStep(e)'
    BY <1>1, <2>1, <2>3 DEF Recorded, SuccessOfTheStep
  <2>5. QED
    BY <2>2, <2>4
<1>4. \A d \in demos' : Agrees(d)'
  BY <1>1 DEF IInv, Agrees
<1>5. QED
  BY <1>2, <1>3, <1>4 DEF IInv

LEMMA TerminateIInv == IInv /\ Terminate => IInv'
<1> SUFFICES ASSUME IInv, Terminate
             PROVE  IInv'
  OBVIOUS
<1>1. PICK results \in [Envs -> Flags], others \in SUBSET Envs :
        /\ holds' = results
        /\ SuccessFunc(results)
        /\ done' = others \cup {e \in Envs : success'[e]}
  BY DEF Terminate
<1>2. /\ TypeOK /\ pc = "step" /\ pc' = "record"
      /\ UNCHANGED <<desired, row, seen, firstReset, demos>>
  BY DEF IInv, Terminate, recorderVars
<1>3. /\ state' \in [Envs -> Flags] /\ idx' \in [Envs -> Subtasks]
      /\ success' \in [Envs -> BOOLEAN] /\ extras' \in [Envs -> Flags \cup {Shared}]
  <2>1. \A e \in Envs : /\ state'[e] \in Flags /\ idx'[e] \in Subtasks
                        /\ success'[e] \in BOOLEAN
    BY <1>1, <1>2, SuccessFuncEffect
  <2>2. QED
    BY <1>1, <2>1 DEF SuccessFunc, Latch, AdvanceIdx
<1>4. TypeOK'
  BY <1>1, <1>2, <1>3 DEF TypeOK
<1>5. ASSUME NEW e \in Envs
      PROVE  (Pointer(e) /\ Recorded(e) /\ SuccessOfTheStep(e))'
  <2>1. Pointer(e) /\ Recorded(e)
    BY <1>5 DEF IInv
  <2>2. Pointer(e)'
    BY <1>1, <1>2, <2>1, SuccessFuncPointer
  <2>3. /\ \A i \in Subtasks :
              state'[e][i] <=> state[e][i] \/ (i = idx[e] /\ results[e][i])
        /\ success'[e] <=> Succeeds(state'[e], results[e])
        /\ extras'[e] = Shared
    BY <1>1, <1>2, SuccessFuncEffect
  <2>4. Recorded(e)'
    <3>1. Extras(e)' = state'[e]
      BY <2>3 DEF Extras
    <3>2. seen'[e] = state[e]
      BY <1>2, <2>1 DEF Recorded
    <3>3. QED
      BY <1>2, <2>3, <3>1, <3>2 DEF Recorded
  <2>5. SuccessOfTheStep(e)'
    BY <1>2, <2>3 DEF SuccessOfTheStep, Succeeds
  <2>6. QED
    BY <2>2, <2>4, <2>5
<1>6. \A d \in demos' : Agrees(d)'
  BY <1>2 DEF IInv, Agrees
<1>7. QED
  BY <1>4, <1>5, <1>6 DEF IInv

LEMMA RecordIInv == IInv /\ RecordPostStep => IInv'
<1> SUFFICES ASSUME IInv, RecordPostStep
             PROVE  IInv'
  OBVIOUS
<1>1. /\ TypeOK /\ pc = "record" /\ pc' \in {"step", "reset"}
      /\ row' = [e \in Envs |-> state[e]]
      /\ seen' = [e \in Envs |-> [i \in Subtasks |-> seen[e][i] \/ row'[e][i]]]
      /\ UNCHANGED <<desired, holds, state, idx, success, done, extras, firstReset, demos>>
  BY DEF IInv, RecordPostStep, RecordRow, taskVars
<1>2. ASSUME NEW e \in Envs
      PROVE  (Pointer(e) /\ Recorded(e) /\ SuccessOfTheStep(e))'
  <2>1. Pointer(e) /\ Recorded(e) /\ SuccessOfTheStep(e)
    BY <1>2 DEF IInv
  <2>2. Pointer(e)' /\ SuccessOfTheStep(e)'
    BY <1>1, <2>1 DEF Pointer, SuccessOfTheStep
  <2>3. row'[e] = state[e] /\ Extras(e)' = state[e]
    BY <1>1, <2>1 DEF Recorded, Extras
  <2>4. seen'[e] = state[e]
    <3>1. seen'[e] = [i \in Subtasks |-> seen[e][i] \/ state[e][i]]
      BY <1>1, <2>3
    <3>2. \A i \in Subtasks : (seen[e][i] \/ state[e][i]) = state[e][i]
      <4>1. \A i \in Subtasks : state[e][i] \in BOOLEAN /\ (seen[e][i] => state[e][i])
        BY <1>1, <2>1 DEF Recorded, TypeOK, Flags
      <4>2. QED
        BY <4>1
    <3>3. state[e] = [i \in Subtasks |-> state[e][i]]
      BY <1>1 DEF TypeOK, Flags
    <3>4. QED
      BY <3>1, <3>2, <3>3
  <2>5. Recorded(e)'
    BY <1>1, <2>3, <2>4 DEF Recorded
  <2>6. QED
    BY <2>2, <2>5
<1>3. TypeOK'
  <2>1. row' \in [Envs -> Flags]
    BY <1>1 DEF TypeOK
  <2>2. seen' \in [Envs -> Flags]
    BY <1>1 DEF TypeOK, Flags
  <2>3. QED
    BY <1>1, <2>1, <2>2 DEF TypeOK
<1>4. \A d \in demos' : Agrees(d)'
  BY <1>1 DEF IInv, Agrees
<1>5. QED
  BY <1>2, <1>3, <1>4 DEF IInv

LEMMA ResetIInv == IInv /\ ResetDone => IInv'
<1> SUFFICES ASSUME IInv, ResetDone
             PROVE  IInv'
  OBVIOUS
<1>1. /\ TypeOK /\ pc = "reset" /\ pc' = "step" /\ ResetTask(done) /\ done \in SUBSET Envs
      /\ demos' = {[flags |-> seen[e], success |-> success[e]] : e \in done}
      /\ seen' = [e \in Envs |-> IF e \in done THEN NoneDone ELSE seen[e]]
      /\ done' = {}
      /\ UNCHANGED <<desired, holds, success, row, firstReset>>
  BY DEF IInv, ResetDone, TypeOK
<1>2. \A e \in done : seen[e] \in Flags /\ success[e] \in BOOLEAN
  BY <1>1 DEF TypeOK
<1>3. TypeOK'
  <2>1. demos' \in SUBSET Demos
    BY <1>1, <1>2 DEF Demos
  <2>2. seen' \in [Envs -> Flags]
    BY <1>1, SubtaskFacts DEF TypeOK
  <2>3. state' \in [Envs -> Flags] /\ idx' \in [Envs -> Subtasks]
        /\ extras' \in [Envs -> Flags \cup {Shared}]
    BY <1>1, ResetType
  <2>4. QED
    BY <1>1, <2>1, <2>2, <2>3 DEF TypeOK
<1>4. ASSUME NEW e \in Envs
      PROVE  (Pointer(e) /\ Recorded(e) /\ SuccessOfTheStep(e))'
  <2>1. Pointer(e) /\ Recorded(e)
    BY <1>4 DEF IInv
  <2>2. Pointer(e)'
    BY <1>1, <2>1, ResetPointer
  <2>3. /\ state'[e] = IF e \in done THEN NoneDone ELSE state[e]
        /\ Extras(e)' = Extras(e)
    BY <1>1, ResetEffect
  <2>4. seen'[e] = state'[e] /\ row'[e] = row[e]
    BY <1>1, <2>1, <2>3 DEF Recorded
  <2>5. Recorded(e)' /\ SuccessOfTheStep(e)'
    BY <1>1, <2>1, <2>3, <2>4 DEF Recorded, SuccessOfTheStep
  <2>6. QED
    BY <2>2, <2>5
<1>5. ASSUME NEW d \in demos'
      PROVE  Agrees(d)'
  <2>1. PICK e \in done : d = [flags |-> seen[e], success |-> success[e]]
    BY <1>1, <1>5
  <2>2. e \in Envs /\ d.flags = state[e] /\ d.success = success[e]
    BY <1>1, <2>1 DEF IInv, Recorded
  <2>3. /\ success[e] => \A i \in Subtasks : state[e][i]
        /\ desired' = AnyState /\ (\A i \in Subtasks : state[e][i]) => success[e]
    BY <1>1, <2>2 DEF IInv, SuccessOfTheStep
  <2>4. ASSUME NEW i \in Subtasks, NEW j \in Subtasks, i < j, state[e][j]
        PROVE  state[e][i]
    <3>1. idx[e] \in Subtasks /\ ~(j > idx[e]) /\ (i < idx[e] => state[e][i])
      BY <2>2, <2>4, <1>1 DEF IInv, Pointer, TypeOK
    <3>2. i < idx[e]
      BY <2>4, <3>1, TaskAssumption DEF Subtasks
    <3>3. QED
      BY <3>1, <3>2
  <2>5. QED
    BY <2>2, <2>3, <2>4 DEF Agrees
<1>6. QED
  BY <1>3, <1>4, <1>5 DEF IInv

LEMMA NextIInv == IInv /\ [Next]_vars => IInv'
<1>1. ASSUME IInv, UNCHANGED vars
      PROVE  IInv'
  BY <1>1 DEF vars, taskVars, recorderVars, IInv, TypeOK, Pointer, Recorded, SuccessOfTheStep,
     Agrees, Extras
<1>2. QED
  BY <1>1, InitialResetIInv, TerminateIInv, RecordIInv, ResetIInv DEF Next

LEMMA InvariantHolds == Spec => []IInv
<1>1. QED
  BY InitIInv, NextIInv, PTL DEF Spec

-----------------------------------------------------------------------------
(* Theorems *)

LEMMA IInvSafe == IInv => TypeOK /\ PointerOK /\ DemosAgree /\ ExtrasOfTheStep
<1>1. IInv => TypeOK
  BY DEF IInv
<1>2. IInv => PointerOK
  BY DEF IInv, Pointer, PointerOK
<1>3. IInv => DemosAgree
  BY DEF IInv, Agrees, DemosAgree
<1>4. IInv => ExtrasOfTheStep
  BY DEF IInv, Recorded, ExtrasOfTheStep
<1>5. QED
  BY <1>1, <1>2, <1>3, <1>4

\* However the conditions of the subtasks come and go and whichever environments
\* are reset in whichever steps, the index and the flags of every environment
\* agree, the recorded episodes agree with their success, and extras shows the
\* state that was recorded (sequential_task_base.py:136-208).
THEOREM SequentialTaskSafe ==
  Spec => [](TypeOK /\ PointerOK /\ DemosAgree /\ ExtrasOfTheStep)
<1>1. QED
  BY InvariantHolds, IInvSafe, PTL

-----------------------------------------------------------------------------
(* SequentialTask implements SubtaskProgress *)

\* How many subtasks an environment has completed.
Completed(e) == IF state[e][NumSubtasks - 1] THEN NumSubtasks ELSE idx[e]

\* All subtasks are completed when the last one is.
LEMMA LastCompletesAll ==
  ASSUME NEW flags \in Flags, NEW j \in Subtasks,
         \A i \in Subtasks : (i < j => flags[i]) /\ (i > j => ~flags[i])
  PROVE  (\A i \in Subtasks : flags[i]) <=> flags[NumSubtasks - 1]
<1>1. ASSUME flags[NumSubtasks - 1], NEW i \in Subtasks
      PROVE  flags[i]
  <2>1. ~(NumSubtasks - 1 > j)
    BY <1>1, SubtaskFacts
  <2>2. i = NumSubtasks - 1 \/ i < j
    BY <2>1, TaskAssumption DEF Subtasks
  <2>3. QED
    BY <1>1, <2>2
<1>2. QED
  BY <1>1, SubtaskFacts

\* A step completes at most the current subtask, and all are completed when
\* their number is.
LEMMA StepCompletes ==
  ASSUME TypeOK, NEW results \in [Envs -> Flags], SuccessFunc(results),
         NEW e \in Envs, Pointer(e)
  PROVE  /\ Completed(e)' = IF Completed(e) < NumSubtasks /\ results[e][Completed(e)]
                            THEN Completed(e) + 1 ELSE Completed(e)
         /\ (\A i \in Subtasks : state'[e][i]) <=> Completed(e)' = NumSubtasks
<1> DEFINE j == idx[e]
           last == NumSubtasks - 1
<1>1. /\ j \in Subtasks /\ last \in Subtasks /\ j < NumSubtasks /\ j <= last
      /\ idx'[e] \in Subtasks /\ idx'[e] < NumSubtasks
      /\ j + 1 # NumSubtasks <=> j < last
      /\ j \in Int /\ last \in Int /\ NumSubtasks = last + 1
  <2>1. j \in Subtasks
    BY DEF TypeOK
  <2>2. idx'[e] \in Subtasks
    BY SuccessFuncEffect
  <2> HIDE DEF j
  <2>3. QED
    BY <2>1, <2>2, TaskAssumption DEF Subtasks
<1>2. /\ \A i \in Subtasks :
            state'[e][i] <=> state[e][i] \/ (i = j /\ results[e][i])
      /\ idx'[e] = IF results[e][j] /\ j < last THEN j + 1 ELSE j
      /\ state'[e] \in Flags
  BY SuccessFuncEffect
<1>3. /\ \A i \in Subtasks : (i < j => state[e][i]) /\ (i > j => ~state[e][i])
      /\ state[e][j] => j = last
  BY DEF Pointer
<1>4. (\A i \in Subtasks : state'[e][i]) <=> state'[e][last]
  <2>1. Pointer(e)'
    BY SuccessFuncPointer
  <2>2. QED
    BY <1>1, <1>2, <2>1, LastCompletesAll DEF Pointer
<1>5. state'[e][last] <=> Completed(e)' = NumSubtasks
  BY <1>1 DEF Completed
<1> HIDE DEF j, last
<1>6. CASE state[e][last]
  <2>1. Completed(e) = NumSubtasks
    BY <1>6 DEF Completed, last
  <2>2. Completed(e)' = NumSubtasks
    BY <1>1, <1>2, <1>5, <1>6
  <2>3. QED
    BY <1>1, <1>4, <1>5, <2>1, <2>2
<1>7. CASE ~state[e][last]
  <2>1. Completed(e) = j
    BY <1>7 DEF Completed, j, last
  <2>2. CASE results[e][j] /\ j < last
    <3>1. ~state'[e][last] /\ idx'[e] = j + 1
      BY <1>1, <1>2, <1>7, <2>2
    <3>2. Completed(e)' = j + 1
      BY <3>1 DEF Completed, last
    <3>3. QED
      BY <1>1, <1>4, <1>5, <2>1, <2>2, <3>2
  <2>3. CASE results[e][j] /\ ~(j < last)
    <3>1. j = last /\ state'[e][last]
      BY <1>1, <1>2, <2>3
    <3>2. Completed(e)' = NumSubtasks
      BY <3>1, <1>5
    <3>3. QED
      BY <1>1, <1>4, <1>5, <2>1, <2>3, <3>1, <3>2
  <2>4. CASE ~results[e][j]
    <3>1. ~state'[e][last] /\ idx'[e] = j
      BY <1>1, <1>2, <1>7, <2>4
    <3>2. Completed(e)' = j
      BY <3>1 DEF Completed, last
    <3>3. QED
      BY <1>1, <1>4, <1>5, <2>1, <2>4, <3>2
  <2>5. QED
    BY <2>2, <2>3, <2>4
<1>8. QED
  BY <1>6, <1>7

LEMMA TerminateIsStep == IInv /\ Terminate => Progress!Step
<1> SUFFICES ASSUME IInv, Terminate
             PROVE  Progress!Step
  OBVIOUS
<1>1. PICK results \in [Envs -> Flags] : holds' = results /\ SuccessFunc(results)
  BY DEF Terminate
<1>2. TypeOK /\ UNCHANGED desired /\ \A e \in Envs : Pointer(e)
  BY DEF IInv, Terminate
<1>3. \A e \in Envs :
        /\ Progress!After(results, e) = Completed(e)'
        /\ Succeeds(state'[e], results[e]) <=>
              Progress!After(results, e) = NumSubtasks /\ desired \in {AnyState, results[e]}
  BY <1>1, <1>2, StepCompletes DEF Progress!After, Completed, Succeeds
<1>4. [e \in Envs |-> IF state[e][NumSubtasks - 1] THEN NumSubtasks ELSE idx[e]]'
        = [e \in Envs |-> Progress!After(results, e)]
  BY <1>3 DEF Completed
<1>5. success' = [e \in Envs |-> /\ Progress!After(results, e) = NumSubtasks
                                 /\ desired \in {AnyState, results[e]}]
  <2>1. \A e \in Envs : Succeeds(state'[e], results[e]) =
              (Progress!After(results, e) = NumSubtasks /\ desired \in {AnyState, results[e]})
    BY <1>3 DEF Succeeds
  <2>2. success' = [e \in Envs |-> Succeeds(state'[e], results[e])]
    BY <1>1 DEF SuccessFunc
  <2>3. QED
    BY <2>1, <2>2
<1>6. results \in [Envs -> [Progress!Subtasks -> BOOLEAN]]
  BY DEF Flags, Subtasks, Progress!Subtasks
<1>7. QED
  BY <1>1, <1>2, <1>4, <1>5, <1>6 DEF Progress!Step

LEMMA ResetIsReset ==
  ASSUME TypeOK, NEW ids \in SUBSET Envs, ResetTask(ids), UNCHANGED <<desired, holds, success>>
  PROVE  Progress!Reset
<1>1. \A e \in Envs : Completed(e)' = IF e \in ids THEN 0 ELSE Completed(e)
  <2>1. \A e \in Envs : /\ state'[e] = IF e \in ids THEN NoneDone ELSE state[e]
                        /\ idx'[e] = IF e \in ids THEN 0 ELSE idx[e]
    BY ResetEffect
  <2>2. ~NoneDone[NumSubtasks - 1]
    BY SubtaskFacts DEF NoneDone
  <2>3. QED
    BY <2>1, <2>2 DEF Completed
<1>2. QED
  BY <1>1 DEF Progress!Reset, Completed

\* The two lists, their shared inner lists and the resets that replace them
\* implement the abstract progress through the subtasks: each is completed by
\* its own condition while it is the current one, at most one per step, and the
\* task succeeds when the last one is (sequential_task_base.py:136-187).
THEOREM SequentialTaskImplementsProgress == Spec => ImplementsProgress
<1>1. Init => Progress!Init
  <2> SUFFICES ASSUME Init
               PROVE  Progress!Init
    OBVIOUS
  <2>1. ~NoneDone[NumSubtasks - 1]
    BY SubtaskFacts DEF NoneDone
  <2>2. \A e \in Envs : Completed(e) = 0
    BY <2>1 DEF Init, Completed
  <2>3. QED
    BY <2>2 DEF Init, Completed, Progress!Init, Progress!Subtasks, NoneDone, Subtasks
<1>2. IInv /\ [Next]_vars => [Progress!Next]_(Progress!vars)
  <2> SUFFICES ASSUME IInv, [Next]_vars
               PROVE  [Progress!Next]_(Progress!vars)
    OBVIOUS
  <2>1. ASSUME InitialReset
        PROVE  Progress!Next
    BY <2>1, ResetIsReset DEF IInv, InitialReset, Progress!Next
  <2>2. ASSUME Terminate
        PROVE  Progress!Next
    BY <2>2, TerminateIsStep DEF Progress!Next
  <2>3. ASSUME ResetDone
        PROVE  Progress!Next
    BY <2>3, ResetIsReset DEF IInv, TypeOK, ResetDone, Progress!Next
  <2>4. ASSUME RecordPostStep \/ UNCHANGED vars
        PROVE  UNCHANGED Progress!vars
    BY <2>4 DEF RecordPostStep, taskVars, vars, Progress!vars
  <2>5. QED
    BY <2>1, <2>2, <2>3, <2>4 DEF Next
<1>3. QED
  BY <1>1, <1>2, InvariantHolds, PTL DEF Spec, ImplementsProgress, Progress!Spec
=============================================================================

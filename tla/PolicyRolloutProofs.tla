------------------------ MODULE PolicyRolloutProofs ------------------------
(***************************************************************************)
(* Proofs about PolicyRollout, for every finite set of environments, every *)
(* chunk length, episode length and goal.                                  *)
(***************************************************************************)
EXTENDS PolicyRollout, FiniteSetTheorems, TLAPS

\* The environment's next action is the one its row has for time t of its
\* current episode.
Predicted(e, t) == /\ chunk[e].env = e
                   /\ chunk[e].ep = clock[e].ep
                   /\ chunk[e].t + index[e] = t

\* What the rest of an environment's row was predicted for, where the loop is.
RowInTime(e) ==
   /\ pc = "start" => needs[e]
   /\ pc = "act" /\ ~needs[e] => Predicted(e, clock[e].t)
   /\ pc = "step" /\ ~needs[e] => Predicted(e, clock[e].t + 1)
   /\ pc = "account" /\ ~needs[e] /\ e \notin done => Predicted(e, clock[e].t)

\* The dataset has finished episodes only, and as many as the loop counted or,
\* after a step, is about to count.
Counted ==
   /\ firstReset <=> pc = "start"
   /\ IsFiniteSet(demos)
   /\ \A d \in demos : d[2] < clock[d[1]].ep
   /\ pc \in {"start", "act", "step", "finished"} => Cardinality(demos) = episodes
   /\ pc = "account" => Cardinality(demos) = episodes + Cardinality(done)
   /\ pc = "returned" => metrics = episodes

\* A loop that goes on has not reached its goal.
NotYet == pc \in {"start", "act", "step", "account"} =>
   IF goal.unit = "steps" THEN steps < AtLeastOne(goal.n) ELSE episodes < AtLeastOne(goal.n)

\* The inductive invariant.
IInv == /\ TypeOK
        /\ Chunking!Consistent
        /\ \A e \in Envs : RowInTime(e)
        /\ NoStaleAction
        /\ Counted
        /\ NotYet
        /\ StopsOnTime

-----------------------------------------------------------------------------
(* Lemmas on the constants and operators *)

LEMMA SetFacts ==
  /\ IsFiniteSet(Envs)
  /\ Cardinality(Envs) \in Nat
  /\ \A ids \in SUBSET Envs : /\ IsFiniteSet(ids)
                              /\ Cardinality(ids) \in Nat
                              /\ Cardinality(ids) <= Cardinality(Envs)
                              /\ ids # {} => Cardinality(ids) >= 1
                              /\ ids = {} => Cardinality(ids) = 0
<1>1. IsFiniteSet(Envs)
  BY RolloutAssumption
<1>2. Cardinality(Envs) \in Nat
  BY <1>1, FS_CardinalityType
<1>3. ASSUME NEW ids \in SUBSET Envs
      PROVE  /\ IsFiniteSet(ids)
             /\ Cardinality(ids) \in Nat
             /\ Cardinality(ids) <= Cardinality(Envs)
             /\ ids # {} => Cardinality(ids) >= 1
             /\ ids = {} => Cardinality(ids) = 0
  <2>1. IsFiniteSet(ids) /\ Cardinality(ids) <= Cardinality(Envs)
    BY <1>1, FS_Subset
  <2>2. Cardinality(ids) \in Nat
    BY <2>1, FS_CardinalityType
  <2>3. (Cardinality(ids) = 0) <=> ids = {}
    BY <2>1, FS_EmptySet
  <2>4. QED
    BY <2>1, <2>2, <2>3
<1>4. QED
  BY <1>1, <1>2, <1>3

\* The times of an environment are natural numbers.
LEMMA ClockFacts ==
  ASSUME TypeOK, NEW e \in Envs
  PROVE  clock[e].ep \in Nat /\ clock[e].t \in Nat
BY RolloutAssumption DEF TypeOK

\* The recorder adds one episode for each environment that is done.
LEMMA RecordAdds ==
  ASSUME NEW ids \in SUBSET Envs, TypeOK, IsFiniteSet(demos), ~firstReset,
         \A d \in demos : d[2] < clock[d[1]].ep,
         RecordPreReset(ids)
  PROVE  /\ IsFiniteSet(demos')
         /\ Cardinality(demos') = Cardinality(demos) + Cardinality(ids)
<1> DEFINE new == {<<e, clock[e].ep>> : e \in ids}
           f == [e \in ids |-> <<e, clock[e].ep>>]
<1>1. f \in Bijection(ids, new)
  <2>1. f \in [ids -> new] /\ \A e \in ids : f[e] = <<e, clock[e].ep>>
    OBVIOUS
  <2>2. \A d, e \in ids : f[d] = f[e] => d = e
    BY <2>1
  <2>3. \A d \in new : \E e \in ids : f[e] = d
    BY <2>1
  <2> HIDE DEF f, new
  <2>4. QED
    BY <2>1, <2>2, <2>3 DEF Bijection, Injection, Surjection, IsInjective
<1>2. IsFiniteSet(new) /\ Cardinality(new) = Cardinality(ids)
  BY <1>1, SetFacts, FS_Bijection DEF ExistsBijection
<1>3. demos' = demos \cup new
  BY DEF RecordPreReset
<1>4. demos \cap new = {}
  <2>1. ASSUME NEW d \in demos, d \in new
        PROVE  FALSE
    <3>1. PICK e \in ids : d = <<e, clock[e].ep>>
      BY <2>1
    <3>2. clock[e].ep < clock[e].ep /\ clock[e].ep \in Nat
      BY <2>1, <3>1, ClockFacts
    <3>3. QED
      BY <3>2
  <2>2. QED
    BY <2>1
<1> HIDE DEF new, f
<1>5. IsFiniteSet(demos') /\ Cardinality(demos')
        = Cardinality(demos) + Cardinality(new) - Cardinality(demos \cap new)
  BY <1>2, <1>3, FS_Union
<1>6. Cardinality(demos \cap new) = 0
  BY <1>4, FS_EmptySet
<1>7. Cardinality(demos) \in Nat /\ Cardinality(ids) \in Nat
  BY FS_CardinalityType, SetFacts
<1>8. QED
  BY <1>2, <1>5, <1>6, <1>7

\* A reset of the policy leaves the other environments' rows alone.
LEMMA PolicyResetEffect ==
  ASSUME NEW ids \in SUBSET Envs, PolicyReset(ids),
         Chunking!TypeOK, Chunking!Consistent
  PROVE  /\ chunk' \in [Envs -> Obs \cup {NoObs}]
         /\ index' \in [Envs -> -1..ChunkLength - 1]
         /\ needs' \in [Envs -> BOOLEAN]
         /\ Chunking!Consistent'
         /\ \A e \in ids : needs'[e]
         /\ \A e \in Envs \ ids : /\ chunk'[e] = chunk[e]
                                  /\ index'[e] = index[e]
                                  /\ needs'[e] = needs[e]
<1>1. CASE ids = {}
  BY <1>1 DEF PolicyReset, chunkVars, Chunking!TypeOK, Chunking!Consistent
<1>2. CASE ids # {}
  <2>1. /\ chunk' = [e \in Envs |-> IF e \in ids THEN NoObs ELSE chunk[e]]
        /\ index' = [e \in Envs |-> IF e \in ids THEN -1 ELSE index[e]]
        /\ needs' = [e \in Envs |-> IF e \in ids THEN TRUE ELSE needs[e]]
    BY <1>2 DEF PolicyReset, Chunking!Reset
  <2>2. -1 \in -1..ChunkLength - 1
    BY RolloutAssumption
  <2>3. /\ chunk' \in [Envs -> Obs \cup {NoObs}]
        /\ index' \in [Envs -> -1..ChunkLength - 1]
    BY <2>1, <2>2 DEF Chunking!TypeOK
  <2>4. needs' \in [Envs -> BOOLEAN]
    BY <2>1 DEF Chunking!TypeOK
  <2>5. ASSUME NEW e \in ids
        PROVE  needs'[e] /\ chunk'[e] = NoObs /\ index'[e] = -1
    BY <2>1, <2>5
  <2>6. ASSUME NEW e \in Envs \ ids
        PROVE  /\ chunk'[e] = chunk[e]
               /\ index'[e] = index[e]
               /\ needs'[e] = needs[e]
    BY <2>1, <2>6
  <2>7. Chunking!Consistent'
    BY <2>5, <2>6 DEF Chunking!Consistent
  <2>8. QED
    BY <2>3, <2>4, <2>5, <2>6, <2>7
<1>3. QED
  BY <1>1, <1>2

\* A call of the policy answers every environment from its row or, if it holds
\* none, from one fetched for what it shows now, and leaves a consistent state.
LEMMA GetActionEffect ==
  ASSUME TypeOK, Chunking!Consistent, Chunking!GetAction(Observation)
  PROVE  /\ Chunking!TypeOK' /\ Chunking!Consistent' /\ error' = "none"
         /\ \A e \in Envs :
              LET row == IF needs[e] THEN Observation[e] ELSE chunk[e]
                  pos == IF needs[e] THEN 0 ELSE index[e]
              IN  /\ row \in Obs /\ pos \in 0..ChunkLength - 1
                  /\ action'[e] = [src |-> row, pos |-> pos]
                  /\ ~needs'[e] => chunk'[e] = row /\ index'[e] = pos + 1
<1> USE RolloutAssumption
<1> DEFINE row == Chunking!Row(Observation)
           pos == Chunking!Pos
<1>1. \A e \in Envs : /\ row[e] = IF needs[e] THEN Observation[e] ELSE chunk[e]
                      /\ pos[e] = IF needs[e] THEN 0 ELSE index[e]
  BY DEF Chunking!Row, Chunking!Pos
<1>2. \A e \in Envs : row[e] \in Obs /\ pos[e] \in 0..ChunkLength - 1
  <2> SUFFICES ASSUME NEW e \in Envs
               PROVE  row[e] \in Obs /\ pos[e] \in 0..ChunkLength - 1
    OBVIOUS
  <2>1. index[e] \in -1..ChunkLength - 1 /\ needs[e] \in BOOLEAN
    BY DEF TypeOK, Chunking!TypeOK
  <2>2. Observation[e] \in Obs
    BY ClockFacts DEF Observation, Obs
  <2> HIDE DEF row, pos
  <2>3. CASE needs[e]
    BY <1>1, <2>2, <2>3
  <2>4. CASE ~needs[e]
    BY <1>1, <2>1, <2>4 DEF Chunking!Consistent
  <2>5. QED
    BY <2>1, <2>3, <2>4
<1>3. Chunking!InRange(pos)
  BY <1>2 DEF Chunking!InRange
<1>4. /\ action' = Chunking!Taken(row, pos)
      /\ Chunking!Advance(row, pos)
      /\ error' = "none"
  BY <1>3 DEF Chunking!GetAction
<1> HIDE DEF row, pos
<1>5. /\ action' = [e \in Envs |-> [src |-> row[e], pos |-> pos[e]]]
      /\ chunk' = [e \in Envs |-> IF pos[e] + 1 = ChunkLength THEN NoObs ELSE row[e]]
      /\ index' = [e \in Envs |-> IF pos[e] + 1 = ChunkLength THEN -1 ELSE pos[e] + 1]
      /\ needs' = [e \in Envs |-> pos[e] + 1 >= ChunkLength]
  BY <1>4 DEF Chunking!Taken, Chunking!Act, Chunking!Advance
<1>6. Chunking!TypeOK'
  BY <1>2, <1>4, <1>5 DEF Chunking!TypeOK, Chunking!Acts, Chunking!Errors
<1>7. ASSUME NEW e \in Envs
      PROVE  /\ needs'[e] <=> pos[e] + 1 = ChunkLength
             /\ chunk'[e] = IF pos[e] + 1 = ChunkLength THEN NoObs ELSE row[e]
             /\ index'[e] = IF pos[e] + 1 = ChunkLength THEN -1 ELSE pos[e] + 1
  <2>1. pos[e] + 1 >= ChunkLength <=> pos[e] + 1 = ChunkLength
    BY <1>2
  <2>2. needs'[e] <=> pos[e] + 1 >= ChunkLength
    BY <1>5
  <2>3. QED
    BY <1>5, <2>1, <2>2
<1>8. Chunking!Consistent'
  <2> SUFFICES ASSUME NEW e \in Envs
               PROVE  IF needs'[e] THEN chunk'[e] = NoObs /\ index'[e] \in {-1, 0}
                                   ELSE chunk'[e] \in Obs /\ index'[e] >= 0
    BY DEF Chunking!Consistent
  <2>1. CASE pos[e] + 1 = ChunkLength
    BY <1>7, <2>1
  <2>2. CASE pos[e] + 1 # ChunkLength
    BY <1>2, <1>7, <2>2
  <2>3. QED
    BY <2>1, <2>2
<1>9. \A e \in Envs : /\ action'[e] = [src |-> row[e], pos |-> pos[e]]
                      /\ ~needs'[e] => chunk'[e] = row[e] /\ index'[e] = pos[e] + 1
  BY <1>5, <1>7
<1>10. QED
  BY <1>1, <1>2, <1>4, <1>6, <1>8, <1>9

-----------------------------------------------------------------------------
LEMMA InitIInv == Init => IInv
<1> SUFFICES ASSUME Init
             PROVE  IInv
  OBVIOUS
<1> USE RolloutAssumption
<1>1. /\ pc = "start" /\ goal \in Goals
      /\ steps = 0 /\ episodes = 0 /\ metrics = 0
      /\ clock = [e \in Envs |-> [ep |-> 0, t |-> 0]]
      /\ done = {} /\ firstReset = TRUE /\ demos = {}
      /\ chunk = [e \in Envs |-> NoObs]
      /\ index = [e \in Envs |-> 0]
      /\ needs = [e \in Envs |-> TRUE]
      /\ action = [e \in Envs |-> [src |-> NoObs, pos |-> 0]]
      /\ error = "idle"
  BY DEF Init, Chunking!Init, Chunking!ChunkInit, Chunking!Act
<1>2. Chunking!TypeOK
  BY <1>1 DEF Chunking!TypeOK, Chunking!Acts, Chunking!Errors
<1>3. TypeOK
  BY <1>1, <1>2 DEF TypeOK
<1>4. Chunking!Consistent /\ \A e \in Envs : RowInTime(e)
  BY <1>1 DEF Chunking!Consistent, RowInTime
<1>5. Counted
  <2>1. IsFiniteSet(demos) /\ Cardinality(demos) = 0
    BY <1>1, FS_EmptySet
  <2>2. QED
    BY <1>1, <2>1 DEF Counted
<1>6. NotYet /\ StopsOnTime /\ NoStaleAction
  BY <1>1 DEF NotYet, StopsOnTime, NoStaleAction, AtLeastOne, Goals
<1>7. QED
  BY <1>3, <1>4, <1>5, <1>6 DEF IInv

\* The reset before the loop.
LEMMA StartIInv == IInv /\ Start => IInv'
<1> SUFFICES ASSUME IInv, Start
             PROVE  IInv'
  OBVIOUS
<1> USE RolloutAssumption
<1>1. /\ TypeOK /\ Chunking!TypeOK /\ Chunking!Consistent /\ Counted /\ NotYet
      /\ pc = "start" /\ pc' \in {"act", "failed"}
      /\ RecordPreReset(Envs) /\ PolicyReset(Envs)
      /\ clock' = [e \in Envs |-> [ep |-> clock[e].ep + 1, t |-> 0]]
      /\ UNCHANGED <<goal, steps, episodes, metrics, done, action, error>>
  BY DEF IInv, Start, loopVars, ResetEnvs, TypeOK
<1>2. firstReset' = FALSE /\ demos' = demos
  BY <1>1 DEF RecordPreReset, Counted
<1>3. /\ chunk' \in [Envs -> Obs \cup {NoObs}]
      /\ index' \in [Envs -> -1..ChunkLength - 1]
      /\ needs' \in [Envs -> BOOLEAN]
      /\ Chunking!Consistent'
      /\ \A e \in Envs : needs'[e]
  BY <1>1, PolicyResetEffect
<1>4. TypeOK'
  <2>1. Chunking!TypeOK'
    BY <1>1, <1>3 DEF Chunking!TypeOK
  <2>2. clock' \in [Envs -> [ep : Nat, t : 0..EpisodeLength - 1]]
    BY <1>1, ClockFacts
  <2>3. QED
    BY <1>1, <1>2, <2>1, <2>2 DEF TypeOK
<1>5. \A e \in Envs : RowInTime(e)'
  BY <1>1, <1>3 DEF RowInTime
<1>6. Counted'
  <2>1. ASSUME NEW d \in demos'
        PROVE  d[2] < clock'[d[1]].ep
    <3>1. d \in Envs \X Nat /\ d[2] < clock[d[1]].ep
      BY <1>1, <1>2, <2>1 DEF TypeOK, Counted
    <3>2. clock[d[1]].ep \in Nat
      BY <1>1, <3>1, ClockFacts
    <3>3. clock'[d[1]].ep = clock[d[1]].ep + 1
      BY <1>1, <3>1
    <3>4. QED
      BY <3>1, <3>2, <3>3
  <2>2. QED
    BY <1>1, <1>2, <2>1 DEF Counted
<1>7. NotYet' /\ StopsOnTime' /\ NoStaleAction'
  BY <1>1 DEF NotYet, StopsOnTime, NoStaleAction, AtLeastOne
<1>8. QED
  BY <1>3, <1>4, <1>5, <1>6, <1>7 DEF IInv

\* get_action, which the invariant keeps from failing by an assert.
LEMMA GetActionIInv == IInv /\ GetAction => IInv'
<1> SUFFICES ASSUME IInv, GetAction
             PROVE  IInv'
  OBVIOUS
<1>1. /\ TypeOK /\ Chunking!Consistent /\ Counted /\ NotYet
      /\ pc = "act" /\ Chunking!GetAction(Observation)
      /\ UNCHANGED <<goal, steps, episodes, metrics, clock, done, firstReset, demos>>
  BY DEF IInv, GetAction, loopVars, envVars
<1>2. /\ Chunking!TypeOK' /\ Chunking!Consistent' /\ pc' = "step"
  BY <1>1, GetActionEffect DEF GetAction
<1>3. TypeOK'
  BY <1>1, <1>2 DEF TypeOK
<1>4. ASSUME NEW e \in Envs
      PROVE  /\ action'[e].src.env = e
             /\ action'[e].src.ep = clock[e].ep
             /\ action'[e].src.t + action'[e].pos = clock[e].t
             /\ ~needs'[e] => Predicted(e, clock[e].t + 1)'
  <2> DEFINE row == IF needs[e] THEN Observation[e] ELSE chunk[e]
             pos == IF needs[e] THEN 0 ELSE index[e]
  <2>1. /\ row \in Obs /\ pos \in 0..ChunkLength - 1
        /\ action'[e] = [src |-> row, pos |-> pos]
        /\ ~needs'[e] => chunk'[e] = row /\ index'[e] = pos + 1
    BY <1>1, GetActionEffect
  <2>2. row.env = e /\ row.ep = clock[e].ep /\ row.t + pos = clock[e].t
    <3>1. CASE needs[e]
      <4>1. Observation[e] = [env |-> e, ep |-> clock[e].ep, t |-> clock[e].t]
        BY DEF Observation
      <4>2. QED
        BY <1>1, <3>1, <4>1, ClockFacts
    <3>2. CASE ~needs[e]
      BY <1>1, <3>2 DEF IInv, RowInTime, Predicted
    <3>3. QED
      BY <3>1, <3>2
  <2>3. row.t \in Nat /\ pos \in Int
    BY <2>1 DEF Obs
  <2> HIDE DEF row, pos
  <2>4. QED
    BY <1>1, <2>1, <2>2, <2>3 DEF Predicted
<1>5. NoStaleAction' /\ \A e \in Envs : RowInTime(e)'
  BY <1>1, <1>2, <1>4 DEF NoStaleAction, RowInTime, Predicted
<1>6. Counted' /\ NotYet' /\ StopsOnTime'
  BY <1>1, <1>2 DEF Counted, NotYet, StopsOnTime
<1>7. QED
  BY <1>2, <1>3, <1>5, <1>6 DEF IInv

\* A call that raises ends the program with the chunk state as it was.
LEMMA GetActionFailsIInv == IInv /\ GetActionFails => IInv'
BY DEF IInv, GetActionFails, loopVars, envVars, Chunking!FetchFails, Chunking!chunkVars,
   TypeOK, Chunking!TypeOK, Chunking!Errors, Chunking!Consistent, RowInTime, NoStaleAction,
   Counted, NotYet, StopsOnTime

\* env.step: the episodes that end are recorded and their environments reset.
LEMMA EnvStepIInv == IInv /\ EnvStep => IInv'
<1> SUFFICES ASSUME IInv, EnvStep
             PROVE  IInv'
  OBVIOUS
<1> USE RolloutAssumption
<1>1. PICK ids \in SUBSET Envs :
        /\ \A e \in Envs : clock[e].t + 1 = EpisodeLength => e \in ids
        /\ done' = ids
        /\ RecordPreReset(ids)
        /\ ResetEnvs(ids, [e \in Envs |-> clock[e].t + 1])
  BY DEF EnvStep
<1>2. /\ TypeOK /\ Chunking!TypeOK /\ Chunking!Consistent /\ Counted /\ NotYet
      /\ pc = "step" /\ pc' = "account"
      /\ UNCHANGED <<goal, steps, episodes, metrics, chunk, index, needs, action, error>>
  BY DEF IInv, EnvStep, loopVars, policyVars, TypeOK
<1>3. ~firstReset /\ firstReset' = firstReset
      /\ demos' = demos \cup {<<e, clock[e].ep>> : e \in ids}
  BY <1>1, <1>2 DEF Counted, RecordPreReset
<1>4. ASSUME NEW e \in Envs
      PROVE  /\ clock[e].ep \in Nat /\ clock[e].t \in 0..EpisodeLength - 1
             /\ e \in ids => /\ clock'[e] = [ep |-> clock[e].ep + 1, t |-> 0]
                              /\ clock'[e].ep = clock[e].ep + 1
             /\ e \in Envs \ ids => /\ clock'[e] = [ep |-> clock[e].ep, t |-> clock[e].t + 1]
                                     /\ clock'[e].ep = clock[e].ep
                                     /\ clock'[e].t = clock[e].t + 1
                                     /\ clock[e].t + 1 \in 0..EpisodeLength - 1
  <2>1. clock[e].ep \in Nat /\ clock[e].t \in 0..EpisodeLength - 1
    BY <1>2 DEF TypeOK
  <2>2. clock'[e] = IF e \in ids THEN [ep |-> clock[e].ep + 1, t |-> 0]
                                 ELSE [ep |-> clock[e].ep, t |-> clock[e].t + 1]
    BY <1>1 DEF ResetEnvs
  <2>3. ASSUME e \in Envs \ ids
        PROVE  clock[e].t + 1 \in 0..EpisodeLength - 1
    <3>1. clock[e].t + 1 # EpisodeLength
      BY <1>1, <2>3
    <3>2. QED
      BY <2>1, <3>1
  <2>4. QED
    BY <2>1, <2>2, <2>3
<1>5. TypeOK'
  <2>1. Chunking!TypeOK'
    BY <1>2 DEF Chunking!TypeOK
  <2>2. ASSUME NEW e \in Envs
        PROVE  clock'[e] \in [ep : Nat, t : 0..EpisodeLength - 1]
    <3>1. CASE e \in ids
      <4>1. clock'[e] = [ep |-> clock[e].ep + 1, t |-> 0]
        BY <1>4, <3>1
      <4>2. clock[e].ep \in Nat
        BY <1>4
      <4>3. clock[e].ep + 1 \in Nat /\ 0 \in 0..EpisodeLength - 1
        BY <4>2
      <4>4. QED
        BY <4>1, <4>3
    <3>2. CASE e \in Envs \ ids
      <4>1. clock'[e] = [ep |-> clock[e].ep, t |-> clock[e].t + 1]
        BY <1>4, <3>2
      <4>2. clock[e].ep \in Nat /\ clock[e].t + 1 \in 0..EpisodeLength - 1
        BY <1>4, <3>2
      <4>3. QED
        BY <4>1, <4>2
    <3>3. QED
      BY <3>1, <3>2
  <2>3. clock' \in [Envs -> [ep : Nat, t : 0..EpisodeLength - 1]]
    BY <1>1, <2>2 DEF ResetEnvs
  <2>4. demos' \in SUBSET (Envs \X Nat)
    BY <1>2, <1>3, <1>4 DEF TypeOK
  <2>5. QED
    BY <1>1, <1>2, <1>3, <2>1, <2>3, <2>4 DEF TypeOK
<1>6. Chunking!Consistent'
  BY <1>2 DEF Chunking!Consistent
<1>7. ASSUME NEW e \in Envs
      PROVE  RowInTime(e)'
  <2>1. ~needs[e] => Predicted(e, clock[e].t + 1)
    BY <1>2 DEF IInv, RowInTime
  <2>2. ~needs'[e] /\ e \notin done' => Predicted(e, clock[e].t)'
    BY <1>1, <1>2, <1>4, <2>1 DEF Predicted
  <2>3. QED
    BY <1>2, <2>2 DEF RowInTime, Predicted
<1>8. Counted'
  <2>1. IsFiniteSet(demos') /\ Cardinality(demos') = Cardinality(demos) + Cardinality(ids)
    BY <1>1, <1>2, <1>3, RecordAdds DEF Counted
  <2>2. ASSUME NEW d \in demos'
        PROVE  d[2] < clock'[d[1]].ep
    <3>1. CASE d \in demos
      <4>1. d[1] \in Envs /\ d[2] \in Nat /\ d[2] < clock[d[1]].ep
        BY <1>2, <3>1 DEF TypeOK, Counted
      <4>2. clock'[d[1]].ep \in {clock[d[1]].ep, clock[d[1]].ep + 1} /\ clock[d[1]].ep \in Nat
        BY <1>4, <4>1
      <4>3. QED
        BY <4>1, <4>2
    <3>2. CASE d \notin demos
      <4>1. PICK e \in ids : d = <<e, clock[e].ep>>
        BY <1>3, <2>2, <3>2
      <4>2. clock'[e].ep = clock[e].ep + 1 /\ clock[e].ep \in Nat
        BY <1>4, <4>1
      <4>3. QED
        BY <4>1, <4>2
    <3>3. QED
      BY <3>1, <3>2
  <2>3. QED
    BY <1>1, <1>2, <1>3, <2>1, <2>2 DEF Counted
<1>9. NotYet' /\ StopsOnTime' /\ NoStaleAction'
  BY <1>2 DEF NotYet, StopsOnTime, NoStaleAction
<1>10. QED
  BY <1>5, <1>6, <1>7, <1>8, <1>9 DEF IInv

\* After the policy's reset no row is left of an episode that ended.
LEMMA ResetRows ==
  ASSUME IInv, pc = "account", PolicyReset(done), UNCHANGED clock, NEW e \in Envs
  PROVE  ~needs'[e] => Predicted(e, clock[e].t)'
<1>1. /\ done \in SUBSET Envs /\ Chunking!TypeOK /\ Chunking!Consistent
      /\ ~needs[e] /\ e \notin done => Predicted(e, clock[e].t)
  BY DEF IInv, TypeOK, RowInTime
<1>2. CASE e \in done
  BY <1>1, <1>2, PolicyResetEffect
<1>3. CASE e \notin done
  <2>1. chunk'[e] = chunk[e] /\ index'[e] = index[e] /\ needs'[e] = needs[e]
    BY <1>1, <1>3, PolicyResetEffect
  <2>2. QED
    BY <1>1, <1>3, <2>1 DEF Predicted
<1>4. QED
  BY <1>2, <1>3

\* The rest of the loop body.
LEMMA AccountIInv == IInv /\ Account => IInv'
<1> SUFFICES ASSUME IInv, Account
             PROVE  IInv'
  OBVIOUS
<1> USE RolloutAssumption
<1>1. /\ TypeOK /\ Chunking!TypeOK /\ Chunking!Consistent /\ Counted /\ NotYet
      /\ pc = "account" /\ done \in SUBSET Envs /\ PolicyReset(done)
      /\ episodes' = episodes + Cardinality(done)
      /\ UNCHANGED <<goal, metrics, clock, done, firstReset, demos, action, error>>
  BY DEF IInv, Account, envVars, TypeOK
<1>2. /\ goal \in Goals /\ goal.n \in Nat
      /\ steps \in Nat /\ episodes \in Nat
      /\ Cardinality(done) \in Nat /\ Cardinality(Envs) \in Nat
      /\ Cardinality(done) <= Cardinality(Envs)
      /\ done # {} => Cardinality(done) >= 1
      /\ done = {} => Cardinality(done) = 0
  BY <1>1, SetFacts DEF TypeOK, Goals
<1>3. /\ steps' = IF EnoughEpisodes(episodes') THEN steps ELSE steps + 1
      /\ pc' = IF EnoughEpisodes(episodes') \/ EnoughSteps(steps') THEN "finished" ELSE "act"
  BY DEF Account
<1>4. steps' \in Nat /\ episodes' \in Nat /\ pc' \in {"finished", "act"}
  BY <1>1, <1>2, <1>3
<1>5. /\ chunk' \in [Envs -> Obs \cup {NoObs}]
      /\ index' \in [Envs -> -1..ChunkLength - 1]
      /\ needs' \in [Envs -> BOOLEAN]
      /\ Chunking!Consistent'
  BY <1>1, PolicyResetEffect
<1>6. TypeOK'
  <2>1. Chunking!TypeOK'
    BY <1>1, <1>5 DEF Chunking!TypeOK
  <2>2. QED
    BY <1>1, <1>4, <2>1 DEF TypeOK
<1>7. ASSUME NEW e \in Envs
      PROVE  RowInTime(e)'
  BY <1>1, <1>4, ResetRows DEF RowInTime, Predicted
<1>8. Counted'
  BY <1>1, <1>4 DEF Counted
<1>9. NotYet' /\ StopsOnTime'
  <2>1. CASE goal.unit = "steps"
    <3>1. /\ steps' = steps + 1 /\ steps < AtLeastOne(goal.n)
          /\ pc' = IF steps' >= goal.n THEN "finished" ELSE "act"
      BY <1>1, <1>3, <2>1 DEF EnoughEpisodes, EnoughSteps, NotYet
    <3>2. QED
      BY <1>1, <1>2, <2>1, <3>1 DEF NotYet, StopsOnTime, AtLeastOne
  <2>2. CASE goal.unit # "steps"
    <3>1. /\ episodes < AtLeastOne(goal.n)
          /\ pc' = IF done # {} /\ episodes' >= goal.n THEN "finished" ELSE "act"
      BY <1>1, <1>2, <1>3, <2>2 DEF EnoughEpisodes, EnoughSteps, NotYet, Goals
    <3>2. QED
      BY <1>1, <1>2, <2>2, <3>1 DEF NotYet, StopsOnTime, AtLeastOne
  <2>3. QED
    BY <2>1, <2>2
<1>10. NoStaleAction'
  BY <1>4 DEF NoStaleAction
<1>11. QED
  BY <1>5, <1>6, <1>7, <1>8, <1>9, <1>10 DEF IInv

\* A remote reset that raises ends the program with the chunk state reset.
LEMMA ResetFailsIInv == IInv /\ ResetFails => IInv'
<1> SUFFICES ASSUME IInv, ResetFails
             PROVE  IInv'
  OBVIOUS
<1>1. /\ TypeOK /\ Chunking!TypeOK /\ Chunking!Consistent /\ Counted
      /\ pc = "account" /\ pc' = "failed" /\ done \in SUBSET Envs /\ PolicyReset(done)
      /\ UNCHANGED <<goal, steps, episodes, metrics, clock, done, firstReset, demos, action, error>>
  BY DEF IInv, ResetFails, loopVars, envVars, TypeOK
<1>2. /\ chunk' \in [Envs -> Obs \cup {NoObs}]
      /\ index' \in [Envs -> -1..ChunkLength - 1]
      /\ needs' \in [Envs -> BOOLEAN]
      /\ Chunking!Consistent'
  BY <1>1, PolicyResetEffect
<1>3. TypeOK'
  <2>1. Chunking!TypeOK'
    BY <1>1, <1>2 DEF Chunking!TypeOK
  <2>2. QED
    BY <1>1, <2>1 DEF TypeOK
<1>4. QED
  BY <1>1, <1>2, <1>3 DEF IInv, RowInTime, Counted, NotYet, StopsOnTime, NoStaleAction

\* The metrics are computed over the dataset.
LEMMA ComputeMetricsIInv == IInv /\ ComputeMetrics => IInv'
<1> SUFFICES ASSUME IInv, ComputeMetrics
             PROVE  IInv'
  OBVIOUS
<1>1. /\ TypeOK /\ Chunking!TypeOK /\ Chunking!Consistent /\ Counted /\ StopsOnTime
      /\ pc = "finished" /\ pc' = "returned" /\ metrics' = Cardinality(demos)
      /\ UNCHANGED <<goal, steps, episodes, clock, done, firstReset, demos,
                     chunk, index, needs, action, error>>
  BY DEF IInv, ComputeMetrics, envVars, policyVars, TypeOK
<1>2. metrics' = episodes /\ metrics' \in Nat
  BY <1>1 DEF Counted, TypeOK
<1>3. TypeOK'
  BY <1>1, <1>2 DEF TypeOK, Chunking!TypeOK
<1>4. QED
  BY <1>1, <1>2, <1>3 DEF IInv, Chunking!Consistent, RowInTime, Counted, NotYet, StopsOnTime,
     NoStaleAction

LEMMA NextIInv == IInv /\ [Next]_vars => IInv'
<1>1. ASSUME IInv, UNCHANGED vars
      PROVE  IInv'
  BY <1>1 DEF vars, loopVars, envVars, policyVars, IInv, TypeOK, Chunking!TypeOK,
     Chunking!Consistent, RowInTime, Predicted, NoStaleAction, Counted, NotYet, StopsOnTime
<1>2. QED
  BY <1>1, StartIInv, GetActionIInv, GetActionFailsIInv, EnvStepIInv, AccountIInv,
     ResetFailsIInv, ComputeMetricsIInv DEF Next

-----------------------------------------------------------------------------
(* Theorem *)

\* Whatever the number of environments, their phases in their chunks and the
\* episodes that end in a step, every action executed was predicted for that
\* moment of that episode, the counted episodes are those of the metrics, and
\* the loop stops on time (policy_runner.py:57-126).
THEOREM RolloutSafe ==
  Spec => [](TypeOK /\ NoStaleAction /\ EpisodesCounted /\ StopsOnTime)
<1>1. IInv => TypeOK /\ NoStaleAction /\ EpisodesCounted /\ StopsOnTime
  BY DEF IInv, Counted, EpisodesCounted
<1>2. QED
  BY <1>1, InitIInv, NextIInv, PTL DEF Spec
=============================================================================

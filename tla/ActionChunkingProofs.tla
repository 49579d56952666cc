------------------------ MODULE ActionChunkingProofs ------------------------
(***************************************************************************)
(* Proofs about ActionChunking, for every set of environments, every       *)
(* chunk length and every width of the fetched rows.                       *)
(***************************************************************************)
EXTENDS ActionChunking, TLAPS

\* The inductive invariant: the type, the agreement of flag, index and row,
\* and what both say of the last call.
IInv == TypeOK /\ Consistent /\ AssertsHold /\ NoZeroedAction

-----------------------------------------------------------------------------
(* Lemmas on the refill *)

\* After the refill every environment holds a fetched row and is inside it.
LEMMA RefillFetched ==
  ASSUME TypeOK, Consistent, NEW obs \in [Envs -> Obs], NEW e \in Envs
  PROVE  /\ Row(obs)[e] \in Obs
         /\ Pos[e] \in 0..ChunkLength - 1
<1> USE ChunkingAssumption
<1>1. index[e] \in -1..ChunkLength - 1 /\ needs[e] \in BOOLEAN
  BY DEF TypeOK
<1>2. CASE needs[e]
  BY <1>2 DEF Row, Pos
<1>3. CASE ~needs[e]
  BY <1>1, <1>3 DEF Consistent, Row, Pos
<1>4. QED
  BY <1>1, <1>2, <1>3

\* So the asserts of get_action pass.
LEMMA RefillInRange ==
  ASSUME TypeOK, Consistent, NEW obs \in [Envs -> Obs]
  PROVE  InRange(Pos)
<1> SUFFICES ASSUME NEW e \in Envs
             PROVE  Pos[e] >= 0 /\ Pos[e] < ChunkLength
  BY DEF InRange
<1>1. Pos[e] \in 0..ChunkLength - 1
  BY RefillFetched
<1>2. QED
  BY <1>1, ChunkingAssumption

\* A call that finds the state consistent returns an action for every
\* environment.
LEMMA GetActionReturns ==
  ASSUME IInv, NEW obs \in [Envs -> Obs], GetAction(obs)
  PROVE  /\ action' = Taken(Row(obs), Pos)
         /\ Advance(Row(obs), Pos)
         /\ error' = "none"
  BY RefillInRange DEF IInv, GetAction

-----------------------------------------------------------------------------
LEMMA InitIInv == Init => IInv
  BY ChunkingAssumption DEF Init, ChunkInit, IInv, TypeOK, Consistent, AssertsHold,
     NoZeroedAction, Act, Acts, Errors

LEMMA NextIInv == IInv /\ [Next]_vars => IInv'
<1> SUFFICES ASSUME IInv, [Next]_vars
             PROVE  IInv'
  OBVIOUS
<1> USE ChunkingAssumption
<1>1. ASSUME NEW obs \in [Envs -> Obs], GetAction(obs)
      PROVE  IInv'
  <2> DEFINE row == Row(obs)
             pos == Pos
  <2>1. \A e \in Envs : row[e] \in Obs /\ pos[e] \in 0..ChunkLength - 1
    BY RefillFetched DEF IInv
  <2>2. action' = Taken(row, pos) /\ Advance(row, pos) /\ error' = "none"
    BY <1>1, GetActionReturns
  <2> HIDE DEF row, pos
  <2>3. TypeOK'
    BY <2>1, <2>2 DEF TypeOK, Taken, Advance, Act, Acts, Errors
  <2>4. Consistent'
    <3> SUFFICES ASSUME NEW e \in Envs
                 PROVE  IF needs'[e] THEN chunk'[e] = NoObs /\ index'[e] \in {-1, 0}
                                     ELSE chunk'[e] \in Obs /\ index'[e] >= 0
      BY DEF Consistent
    <3>1. /\ chunk'[e] = IF pos[e] + 1 = ChunkLength THEN NoObs ELSE row[e]
          /\ index'[e] = IF pos[e] + 1 = ChunkLength THEN -1 ELSE pos[e] + 1
          /\ needs'[e] <=> pos[e] + 1 >= ChunkLength
      BY <2>2 DEF Advance
    <3>2. row[e] \in Obs /\ pos[e] \in 0..ChunkLength - 1
      BY <2>1
    <3>3. CASE pos[e] + 1 = ChunkLength
      BY <3>1, <3>2, <3>3
    <3>4. CASE pos[e] + 1 # ChunkLength
      <4>1. ~needs'[e] /\ chunk'[e] = row[e] /\ index'[e] = pos[e] + 1
        BY <3>1, <3>2, <3>4
      <4>2. QED
        BY <3>2, <4>1
    <3>5. QED
      BY <3>3, <3>4
  <2>5. AssertsHold' /\ NoZeroedAction'
    BY <2>1, <2>2 DEF AssertsHold, NoZeroedAction, Taken, Act
  <2>6. QED
    BY <2>3, <2>4, <2>5 DEF IInv
<1>2. ASSUME FetchFails \/ StoreFails
      PROVE  IInv'
  BY <1>2 DEF FetchFails, StoreFails, chunkVars, IInv, TypeOK, Consistent, AssertsHold,
     NoZeroedAction, Errors
<1>3. ASSUME NEW ids \in SUBSET Envs, Reset(ids), UNCHANGED <<action, error>>
      PROVE  IInv'
  <2>1. TypeOK'
    <3>1. chunk' \in [Envs -> Obs \cup {NoObs}] /\ index' \in [Envs -> -1..ChunkLength - 1]
      BY <1>3 DEF Reset, IInv, TypeOK
    <3>2. needs' \in [Envs -> BOOLEAN]
      BY <1>3 DEF Reset, IInv, TypeOK
    <3>3. action' \in [Envs -> Acts] /\ error' \in Errors
      BY <1>3 DEF IInv, TypeOK
    <3>4. QED
      BY <3>1, <3>2, <3>3 DEF TypeOK
  <2>2. Consistent'
    <3> SUFFICES ASSUME NEW e \in Envs
                 PROVE  IF needs'[e] THEN chunk'[e] = NoObs /\ index'[e] \in {-1, 0}
                                     ELSE chunk'[e] \in Obs /\ index'[e] >= 0
      BY DEF Consistent
    <3>1. /\ chunk'[e] = IF e \in ids THEN NoObs ELSE chunk[e]
          /\ index'[e] = IF e \in ids THEN -1 ELSE index[e]
          /\ needs'[e] = IF e \in ids THEN TRUE ELSE needs[e]
      BY <1>3 DEF Reset
    <3>2. QED
      BY <3>1 DEF IInv, Consistent
  <2>3. AssertsHold' /\ NoZeroedAction'
    BY <1>3 DEF IInv, AssertsHold, NoZeroedAction
  <2>4. QED
    BY <2>1, <2>2, <2>3 DEF IInv
<1>4. CASE UNCHANGED vars
  BY <1>4 DEF vars, IInv, TypeOK, Consistent, AssertsHold, NoZeroedAction
<1>5. QED
  BY <1>1, <1>2, <1>3, <1>4 DEF Next

\* The buffer always has its type, the flag, the index and the row of every
\* environment agree, the asserts of get_action never fire and no zeroed row
\* is ever served (ActionChunkingState.get_action and reset).
THEOREM ChunkingSafe == Spec => [](TypeOK /\ Consistent /\ AssertsHold /\ NoZeroedAction)
<1>1. Spec => []IInv
  BY InitIInv, NextIInv, PTL DEF Spec
<1>2. QED
  BY <1>1, PTL DEF IInv

-----------------------------------------------------------------------------
(* ActionChunking implements ChunkPlan *)

LEMMA TakeStep ==
  ASSUME IInv, NEW obs \in [Envs -> Obs], GetAction(obs)
  PROVE  Plan!Take
<1> USE ChunkingAssumption
<1> DEFINE row == Row(obs)
           pos == Pos
<1>1. action' = Taken(row, pos) /\ Advance(row, pos)
  BY GetActionReturns
<1>2. \A e \in Envs : /\ row[e] = Plan!Source(obs, e)
                      /\ pos[e] = ChunkLength - Plan!Left(e)
                      /\ pos[e] \in 0..ChunkLength - 1
                      /\ Plan!Left(e) \in 1..ChunkLength
  <2> SUFFICES ASSUME NEW e \in Envs
               PROVE  /\ row[e] = Plan!Source(obs, e)
                      /\ pos[e] = ChunkLength - Plan!Left(e)
                      /\ pos[e] \in 0..ChunkLength - 1
                      /\ Plan!Left(e) \in 1..ChunkLength
    OBVIOUS
  <2>1. index[e] \in -1..ChunkLength - 1 /\ needs[e] \in BOOLEAN
    BY DEF IInv, TypeOK
  <2>2. CASE needs[e]
    <3>1. Plan!Source(obs, e) = obs[e] /\ Plan!Left(e) = ChunkLength
      BY <2>2 DEF Plan!Source, Plan!Left
    <3>2. row[e] = obs[e] /\ pos[e] = 0
      BY <2>2 DEF Row, Pos
    <3>3. QED
      BY <3>1, <3>2
  <2>3. CASE ~needs[e]
    <3>1. index[e] >= 0
      BY <2>3 DEF IInv, Consistent
    <3>2. ChunkLength - index[e] # 0
      BY <2>1, <3>1
    <3>3. Plan!Source(obs, e) = chunk[e] /\ Plan!Left(e) = ChunkLength - index[e]
      BY <2>3, <3>2 DEF Plan!Source, Plan!Left
    <3>4. row[e] = chunk[e] /\ pos[e] = index[e]
      BY <2>3 DEF Row, Pos
    <3>5. QED
      BY <2>1, <3>1, <3>3, <3>4
  <2>4. QED
    BY <2>1, <2>2, <2>3
<1> HIDE DEF row, pos
<1>3. action' = [e \in Envs |-> Plan!Act(Plan!Source(obs, e), ChunkLength - Plan!Left(e))]
  BY <1>1, <1>2 DEF Taken, Act, Plan!Act
<1>4. [e \in Envs |-> IF needs[e] THEN 0 ELSE ChunkLength - index[e]]'
        = [e \in Envs |-> Plan!Left(e) - 1]
  <2> SUFFICES ASSUME NEW e \in Envs
               PROVE  (IF needs'[e] THEN 0 ELSE ChunkLength - index'[e]) = Plan!Left(e) - 1
    OBVIOUS
  <2>1. /\ needs'[e] <=> pos[e] + 1 >= ChunkLength
        /\ index'[e] = IF pos[e] + 1 = ChunkLength THEN -1 ELSE pos[e] + 1
    BY <1>1 DEF Advance
  <2>2. pos[e] = ChunkLength - Plan!Left(e) /\ Plan!Left(e) \in 1..ChunkLength
    BY <1>2
  <2>3. CASE Plan!Left(e) = 1
    BY <2>1, <2>2, <2>3
  <2>4. CASE Plan!Left(e) # 1
    BY <2>1, <2>2, <2>4
  <2>5. QED
    BY <2>3, <2>4
<1>5. chunk' = [e \in Envs |-> IF Plan!Left(e) = 1 THEN NoObs ELSE Plan!Source(obs, e)]
  BY <1>1, <1>2 DEF Advance
<1>6. QED
  BY <1>3, <1>4, <1>5 DEF Plan!Take

LEMMA DropStep ==
  ASSUME NEW ids \in SUBSET Envs, Reset(ids), UNCHANGED <<action, error>>
  PROVE  Plan!Drop
  BY DEF Reset, Plan!Drop

\* The chunk buffers, indices and flags implement the abstract plan: an
\* environment executes its rows in order and takes a new row exactly when its
\* own is used up or it was reset (ActionChunkingState.get_action and reset).
THEOREM ChunkingImplementsPlan == Spec => ImplementsPlan
<1>1. Init => Plan!Init
  BY DEF Init, ChunkInit, Plan!Init, Act, Plan!Act
<1>2. IInv /\ [Next]_vars => [Plan!Next]_(Plan!vars)
  <2> SUFFICES ASSUME IInv, [Next]_vars
               PROVE  [Plan!Next]_(Plan!vars)
    OBVIOUS
  <2>1. ASSUME NEW obs \in [Envs -> Obs], GetAction(obs)
        PROVE  Plan!Next
    BY <2>1, TakeStep DEF Plan!Next
  <2>2. ASSUME FetchFails \/ StoreFails \/ UNCHANGED vars
        PROVE  UNCHANGED Plan!vars
    BY <2>2 DEF FetchFails, StoreFails, chunkVars, vars, Plan!vars
  <2>3. ASSUME NEW ids \in SUBSET Envs, Reset(ids), UNCHANGED <<action, error>>
        PROVE  Plan!Next
    BY <2>3, DropStep DEF Plan!Next
  <2>4. QED
    BY <2>1, <2>2, <2>3 DEF Next
<1>3. Spec => []IInv
  BY InitIInv, NextIInv, PTL DEF Spec
<1>4. QED
  BY <1>1, <1>2, <1>3, PTL DEF Spec, ImplementsPlan, Plan!Spec
=============================================================================

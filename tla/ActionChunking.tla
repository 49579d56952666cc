--------------------------- MODULE ActionChunking ---------------------------
(***************************************************************************)
(* ActionChunkingState of isaaclab_arena/policy/action_chunking.py: the    *)
(* chunk buffer, the index into it and the refill flag of every            *)
(* environment, shared by the local GR00T policy and by the remote client. *)
(*                                                                         *)
(* A chunk row is the model's answer to one observation, so it is          *)
(* represented by that observation: action number i of the row is          *)
(* Act(row, i), and a zeroed row is NoObs.                                 *)
(***************************************************************************)
EXTENDS Integers

CONSTANTS Envs, Obs, NoObs,
          ChunkLength,     \* action_chunk_length
          Horizon,         \* action_horizon, the width of the buffer
          FetchLengths     \* the widths shape[1] a fetched chunk may have

ASSUME ChunkingAssumption ==
   /\ NoObs \notin Obs
   /\ ChunkLength \in Nat \ {0}
   /\ Horizon \in Nat
   /\ ChunkLength <= Horizon
   /\ FetchLengths \subseteq Nat

VARIABLES chunk,           \* current_action_chunk: the row of each environment
          index,           \* current_action_index
          needs,           \* env_requires_new_chunk
          action,          \* the actions the last successful call returned
          error            \* how the last call ended

chunkVars == <<chunk, index, needs>>
vars == <<chunk, index, needs, action, error>>

Act(src, pos) == [src |-> src, pos |-> pos]
Acts == [src : Obs \cup {NoObs}, pos : 0..ChunkLength - 1]
Errors == {"idle", "none", "fetch", "shape", "assert"}

TypeOK == /\ chunk \in [Envs -> Obs \cup {NoObs}]
          /\ index \in [Envs -> -1..ChunkLength - 1]
          /\ needs \in [Envs -> BOOLEAN]
          /\ action \in [Envs -> Acts]
          /\ error \in Errors

ChunkInit == /\ chunk = [e \in Envs |-> NoObs]
             /\ index = [e \in Envs |-> 0]
             /\ needs = [e \in Envs |-> TRUE]

Init == /\ ChunkInit
        /\ action = [e \in Envs |-> Act(NoObs, 0)]
        /\ error = "idle"
-----------------------------------------------------------------------------
MustFetch == \E e \in Envs : needs[e]

\* The masked assignment needs the buffer's own width; torch also broadcasts
\* a chunk of a single action.
Assignable(n) == n = Horizon \/ n = 1

\* Wrong forms, each a slip one could make in the code below: they show which
\* property would notice it (see the README).
RowNotStored(obs) == chunk
RowUnmasked(obs) == [e \in Envs |-> obs[e]]
AdvanceNoSentinel(row, pos) ==
   /\ chunk' = [e \in Envs |-> IF pos[e] + 1 = ChunkLength THEN NoObs ELSE row[e]]
   /\ index' = [e \in Envs |-> pos[e] + 1]
   /\ needs' = [e \in Envs |-> pos[e] + 1 >= ChunkLength]
ResetKeepsFlag(ids) ==
   /\ chunk' = [e \in Envs |-> IF e \in ids THEN NoObs ELSE chunk[e]]
   /\ index' = [e \in Envs |-> IF e \in ids THEN -1 ELSE index[e]]
   /\ UNCHANGED needs

\* The rows and indices after the refill of the environments that need one.
Row(obs) == [e \in Envs |-> IF needs[e] THEN obs[e] ELSE chunk[e]]
Pos == [e \in Envs |-> IF needs[e] THEN 0 ELSE index[e]]
InRange(pos) == \A e \in Envs : pos[e] >= 0 /\ pos[e] < ChunkLength

\* The actions taken, and the state left by advancing past them.
Taken(row, pos) == [e \in Envs |-> Act(row[e], pos[e])]
Advance(row, pos) ==
   LET used(e) == pos[e] + 1 = ChunkLength
   IN  /\ chunk' = [e \in Envs |-> IF used(e) THEN NoObs ELSE row[e]]
       /\ index' = [e \in Envs |-> IF used(e) THEN -1 ELSE pos[e] + 1]
       /\ needs' = [e \in Envs |-> pos[e] + 1 >= ChunkLength]

\* get_action with a fetch_chunk_fn that would answer obs: the whole call.  The
\* index asserts come after the refill, so a call they stop keeps the refill.
GetAction(obs) ==
   /\ MustFetch => \E n \in FetchLengths : n >= ChunkLength /\ Assignable(n)
   /\ IF InRange(Pos)
      THEN /\ action' = Taken(Row(obs), Pos)
           /\ Advance(Row(obs), Pos)
           /\ error' = "none"
      ELSE /\ chunk' = Row(obs)
           /\ index' = Pos
           /\ needs' = [e \in Envs |-> FALSE]
           /\ error' = "assert"
           /\ UNCHANGED action

\* fetch_chunk_fn raises: a remote error or a response of the wrong shape.
FetchFails ==
   /\ MustFetch
   /\ error' = "fetch"
   /\ UNCHANGED <<chunkVars, action>>

\* The fetched chunk is long enough but does not fit the buffer.
StoreFails ==
   /\ MustFetch
   /\ \E n \in FetchLengths : n >= ChunkLength /\ ~Assignable(n)
   /\ error' = "shape"
   /\ UNCHANGED <<chunkVars, action>>

\* reset: the rows of these environments are zeroed and must be fetched anew.
Reset(ids) ==
   /\ chunk' = [e \in Envs |-> IF e \in ids THEN NoObs ELSE chunk[e]]
   /\ index' = [e \in Envs |-> IF e \in ids THEN -1 ELSE index[e]]
   /\ needs' = [e \in Envs |-> IF e \in ids THEN TRUE ELSE needs[e]]

Next == \/ \E obs \in [Envs -> Obs] : GetAction(obs)
        \/ FetchFails
        \/ StoreFails
        \/ \E ids \in SUBSET Envs : Reset(ids) /\ UNCHANGED <<action, error>>

Spec == Init /\ [][Next]_vars
-----------------------------------------------------------------------------
(* Properties *)

\* An environment that needs no refill is inside a fetched row, and one that
\* needs it holds nothing: its row is zeroed and its index is the start value
\* or -1.  The flag, the index and the row are written by different statements
\* of get_action and reset (action_chunking.py:56-60, 74-78, 86-88).
Consistent == \A e \in Envs :
   IF needs[e] THEN chunk[e] = NoObs /\ index[e] \in {-1, 0}
               ELSE chunk[e] \in Obs /\ index[e] >= 0

\* No sequence of calls, failed fetches and partial resets reaches the index
\* asserts of get_action (action_chunking.py:61-64): the index -1, with which
\* torch would silently read the last action of the row, is never used.
AssertsHold == error # "assert"

\* A call that returned served every environment an action of a fetched row,
\* never one of a row that get_action or reset zeroed
\* (action_chunking.py:67-68, 76, 86).
NoZeroedAction == error = "none" => \A e \in Envs : action[e].src \in Obs

\* Every environment executes its rows in order, from their first action to
\* number ChunkLength - 1, none skipped or repeated, and takes a new row only
\* when its own is used up or it was reset, whatever the other environments do
\* (action_chunking.py:52-60, 74-78).
Plan == INSTANCE ChunkPlan WITH
           source <- chunk,
           left <- [e \in Envs |-> IF needs[e] THEN 0 ELSE ChunkLength - index[e]]
ImplementsPlan == Plan!Spec

\* Every response the client's validation accepts can be stored: it asks for
\* "at least" ChunkLength actions (action_chunking_client.py:124-127).
AcceptedIsStored == error # "shape"
=============================================================================

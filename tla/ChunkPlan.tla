----------------------------- MODULE ChunkPlan -----------------------------
(***************************************************************************)
(* What action chunking promises to the caller of get_action, without the  *)
(* buffers that implement it.  Every environment follows a plan: the       *)
(* actions the model predicted from one observation.  A call returns one   *)
(* action per environment, the next one of its plan; an environment whose  *)
(* plan is used up gets a new one, made from the observation of that call. *)
(* A reset drops the plan.                                                 *)
(*                                                                         *)
(* ActionChunking implements this specification.                           *)
(***************************************************************************)
EXTENDS Integers

CONSTANTS Envs,          \* the parallel environments
          Obs,           \* what one environment may observe
          NoObs,         \* the source of a plan that is used up
          ChunkLength    \* how many actions of a plan are executed

VARIABLES source,        \* the observation each environment's plan was made from
          left,          \* how many of its actions are still to be executed
          action         \* what the last call returned for each environment

vars == <<source, left, action>>

\* Action number pos of the plan made from observation src.
Act(src, pos) == [src |-> src, pos |-> pos]
Acts == [src : Obs \cup {NoObs}, pos : 0..ChunkLength - 1]

Init == /\ source = [e \in Envs |-> NoObs]
        /\ left = [e \in Envs |-> 0]
        /\ action = [e \in Envs |-> Act(NoObs, 0)]

\* The plan of environment e once a call made with observations obs refilled it.
Source(obs, e) == IF left[e] = 0 THEN obs[e] ELSE source[e]
Left(e) == IF left[e] = 0 THEN ChunkLength ELSE left[e]

Take == \E obs \in [Envs -> Obs] :
   /\ action' = [e \in Envs |-> Act(Source(obs, e), ChunkLength - Left(e))]
   /\ left' = [e \in Envs |-> Left(e) - 1]
   /\ source' = [e \in Envs |-> IF Left(e) = 1 THEN NoObs ELSE Source(obs, e)]

Drop == \E ids \in SUBSET Envs :
   /\ left' = [e \in Envs |-> IF e \in ids THEN 0 ELSE left[e]]
   /\ source' = [e \in Envs |-> IF e \in ids THEN NoObs ELSE source[e]]
   /\ UNCHANGED action

Next == Take \/ Drop

Spec == Init /\ [][Next]_vars
=============================================================================

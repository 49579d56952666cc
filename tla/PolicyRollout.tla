--------------------------- MODULE PolicyRollout ---------------------------
(***************************************************************************)
(* rollout_policy of isaaclab_arena/evaluation/policy_runner.py driving a  *)
(* vectorised environment with a chunking policy.  It composes the loop    *)
(* with the chunk state (ActionChunking) and with what the loop sees of    *)
(* Isaac Lab: an environment whose episode ends is reset inside env.step,  *)
(* and the recorder writes one demo per finished episode just before.      *)
(*                                                                         *)
(* An observation is the environment, episode and time it was made at, so  *)
(* an action tells which moment it was predicted for.                      *)
(***************************************************************************)
EXTENDS Integers, FiniteSets

CONSTANTS Envs, NoObs, ChunkLength, Horizon,
          EpisodeLength,   \* the time-out of an episode, in steps
          MaxGoal,         \* bound: the largest num_steps or num_episodes
          MaxEpisode       \* bound: the episodes of one environment; larger than
                           \* MaxGoal, so that only a loop that does not stop
                           \* when it should reaches it

ASSUME RolloutAssumption ==
   /\ IsFiniteSet(Envs)
   /\ NoObs \notin [env : Envs, ep : Nat, t : Nat]
   /\ ChunkLength \in Nat \ {0}
   /\ Horizon \in Nat
   /\ ChunkLength <= Horizon
   /\ EpisodeLength \in Nat \ {0}
   /\ MaxGoal \in Nat
   /\ MaxEpisode > MaxGoal

VARIABLES pc,              \* where rollout_policy is
          goal,            \* its argument: num_steps or num_episodes
          steps,           \* num_steps_completed
          episodes,        \* num_episodes_completed
          clock,           \* the episode of each environment and its time in it
          done,            \* the environments whose episode the last step ended
          firstReset,      \* SuccessRecorder.first_reset
          demos,           \* the episodes in the recorder's dataset
          metrics,         \* the num_episodes metric that rollout_policy returns
          chunk, index, needs, action, error    \* the policy's chunk state

chunkVars == <<chunk, index, needs>>
policyVars == <<chunk, index, needs, action, error>>
loopVars == <<goal, steps, episodes, metrics>>
envVars == <<clock, done, firstReset, demos>>
vars == <<pc, loopVars, envVars, policyVars>>

Obs == [env : Envs, ep : Nat, t : Nat]
Goals == [unit : {"steps", "episodes"}, n : 0..MaxGoal]

\* What the environments show now.
Observation == [e \in Envs |-> [env |-> e, ep |-> clock[e].ep, t |-> clock[e].t]]

Chunking == INSTANCE ActionChunking WITH FetchLengths <- {Horizon}

TypeOK == /\ pc \in {"start", "act", "step", "account", "finished", "returned", "failed"}
          /\ goal \in Goals
          /\ steps \in Nat /\ episodes \in Nat /\ metrics \in Nat
          /\ clock \in [Envs -> [ep : Nat, t : 0..EpisodeLength - 1]]
          /\ done \in SUBSET Envs
          /\ firstReset \in BOOLEAN
          /\ demos \in SUBSET (Envs \X Nat)
          /\ Chunking!TypeOK

Init == /\ pc = "start"
        /\ goal \in Goals
        /\ steps = 0 /\ episodes = 0 /\ metrics = 0
        /\ clock = [e \in Envs |-> [ep |-> 0, t |-> 0]]
        /\ done = {}
        /\ firstReset = TRUE
        /\ demos = {}
        /\ Chunking!Init
-----------------------------------------------------------------------------
(* The environment *)

\* Wrong form: the recorder does not skip the first reset.
RecordEveryReset(ids) ==
   /\ demos' = demos \cup {<<e, clock[e].ep>> : e \in ids}
   /\ UNCHANGED firstReset

\* The recorder before a reset of ids: the first reset, of all environments,
\* follows no episode and is not recorded.
RecordPreReset(ids) ==
   IF firstReset THEN firstReset' = FALSE /\ UNCHANGED demos
                 ELSE /\ demos' = demos \cup {<<e, clock[e].ep>> : e \in ids}
                      /\ UNCHANGED firstReset

\* The environments ids start a new episode, the others are at time t.
ResetEnvs(ids, t) ==
   clock' = [e \in Envs |-> IF e \in ids THEN [ep |-> clock[e].ep + 1, t |-> 0]
                                         ELSE [ep |-> clock[e].ep, t |-> t[e]]]
-----------------------------------------------------------------------------
(* rollout_policy *)

\* Wrong forms of the operators below.
PolicyNotReset(ids) == UNCHANGED chunkVars
StepsOneMore(n) == goal.unit = "steps" /\ n > goal.n
EpisodesExactly(n) == goal.unit = "episodes" /\ done # {} /\ n = goal.n

\* policy.reset(env_ids), called only when an environment is done.
PolicyReset(ids) == IF ids = {} THEN UNCHANGED chunkVars ELSE Chunking!Reset(ids)

\* The two ways to leave the loop.  Episodes are compared only after a step that
\* ended one.
EnoughSteps(n) == goal.unit = "steps" /\ n >= goal.n
EnoughEpisodes(n) == goal.unit = "episodes" /\ done # {} /\ n >= goal.n

\* env.reset, policy.reset and set_task_description.
Start ==
   /\ pc = "start"
   /\ RecordPreReset(Envs)
   /\ ResetEnvs(Envs, [e \in Envs |-> 0])
   /\ PolicyReset(Envs)
   /\ pc' \in {"act", "failed"}
   /\ UNCHANGED <<loopVars, done, action, error>>

GetAction ==
   /\ pc = "act"
   /\ Chunking!GetAction(Observation)
   /\ pc' = IF error' = "none" THEN "step" ELSE "failed"
   /\ UNCHANGED <<loopVars, envVars>>

GetActionFails ==
   /\ pc = "act"
   /\ Chunking!FetchFails
   /\ pc' = "failed"
   /\ UNCHANGED <<loopVars, envVars>>

\* env.step: some episodes end, those at the time-out surely, and their
\* environments are reset before the call returns.
EnvStep ==
   /\ pc = "step"
   /\ \A e \in Envs : clock[e].ep < MaxEpisode
   /\ \E ids \in SUBSET Envs :
        /\ \A e \in Envs : clock[e].t + 1 = EpisodeLength => e \in ids
        /\ done' = ids
        /\ RecordPreReset(ids)
        /\ ResetEnvs(ids, [e \in Envs |-> clock[e].t + 1])
   /\ pc' = "account"
   /\ UNCHANGED <<loopVars, policyVars>>

\* The rest of the loop body: the policy is reset for the environments that
\* are done, then the episodes are counted and, unless they are enough, the
\* step.
Account ==
   /\ pc = "account"
   /\ PolicyReset(done)
   /\ episodes' = episodes + Cardinality(done)
   /\ steps' = IF EnoughEpisodes(episodes') THEN steps ELSE steps + 1
   /\ pc' = IF EnoughEpisodes(episodes') \/ EnoughSteps(steps') THEN "finished" ELSE "act"
   /\ UNCHANGED <<goal, metrics, envVars, action, error>>

\* policy.reset raises in the remote call, after the chunk state was reset.
ResetFails ==
   /\ pc = "account"
   /\ done # {}
   /\ PolicyReset(done)
   /\ pc' = "failed"
   /\ UNCHANGED <<loopVars, envVars, action, error>>

ComputeMetrics ==
   /\ pc = "finished"
   /\ metrics' = Cardinality(demos)
   /\ pc' = "returned"
   /\ UNCHANGED <<goal, steps, episodes, envVars, policyVars>>

Next == Start \/ GetAction \/ GetActionFails \/ EnvStep \/ Account \/ ResetFails
           \/ ComputeMetrics

Spec == Init /\ [][Next]_vars /\ WF_vars(Next)
-----------------------------------------------------------------------------
(* Properties *)

\* No action outlives the episode it was predicted in: what env.step executes
\* for an environment was predicted from an observation of that environment's
\* current episode, exactly pos steps ago, so no prediction is skipped,
\* repeated or carried over a reset (policy_runner.py:84-94 with
\* action_chunking.py:46-88).
NoStaleAction == pc = "step" =>
   \A e \in Envs : /\ action[e].src.env = e
                   /\ action[e].src.ep = clock[e].ep
                   /\ action[e].src.t + action[e].pos = clock[e].t

\* The episodes the loop counts are the episodes the metrics are computed over:
\* the first reset is in neither, every finished episode is in both, also those
\* several environments finish in one step (policy_runner.py:93-101, 119-124;
\* success_rate.py:25-41).
EpisodesCounted ==
   /\ pc \in {"act", "step"} => Cardinality(demos) = episodes
   /\ pc = "returned" => metrics = episodes

\* A rollout that returns made the steps it was asked for, but at least one,
\* or completed the episodes it was asked for and at most |Envs| - 1 more, those that
\* ended in the same step (policy_runner.py:95-107).
AtLeastOne(n) == IF n = 0 THEN 1 ELSE n
StopsOnTime == pc \in {"finished", "returned"} =>
   IF goal.unit = "steps"
   THEN steps = AtLeastOne(goal.n)
   ELSE /\ episodes >= AtLeastOne(goal.n)
        /\ episodes < AtLeastOne(goal.n) + Cardinality(Envs)

\* With a task that times out, every rollout ends: it returns metrics or raises
\* (policy_runner.py:84-126).
Ends == <>(pc \in {"returned", "failed"})
=============================================================================

# Isaac Lab Arena: a TLA+ verification project

Isaac Lab Arena composes simulated robot environments out of assets, embodiments and tasks,
evaluates policies in them, and turns recorded demonstrations into training data. Around the
simulation there is a great deal of *bookkeeping* that a test hardly reaches: chunk buffers at
different phases, resets inside a step, recorders that run in a certain order, remote calls that
time out while their reply is on the way, jobs that fail halfway, keyboard callbacks in the
middle of a replay, worker processes that wait for each other, registries that fill themselves
while their modules import one another, and parts chosen by name that must fit together when
they are first combined. That is what this project models, checks with TLC and, where the
prover can reach it, proves with TLAPS.

Paths below are relative to `src/isaaclab_arena/` unless they start otherwise.

## 1. The system

| Component | State | Operations | Interacts with | What is hard, and what makes it correct |
|---|---|---|---|---|
| **Action chunking** `policy/action_chunking.py` | per environment: a row of predicted actions, an index, a refill flag | `get_action(fetch)`, `reset(env_ids)` | the model or the remote client through `fetch_chunk_fn` | the environments are at different phases; a refill for one must not disturb another; the index `-1` of a reset environment would silently read the last action. *Every environment executes its rows in order, from a fetched row.* |
| **Policy rollout** `evaluation/policy_runner.py` | counters of steps and episodes | `rollout_policy` | environment, policy, metrics | `env.step` resets finished environments before it returns, so the rest of their chunk is stale; several episodes may end in one step. *No action outlives its episode; the loop stops on time; the counted episodes are the recorded ones.* |
| **Recorders and metrics** `metrics/` | `first_reset`, the dataset, the metrics logger | `record_pre_reset`, `record_post_step`, `compute_metrics`, `append_job_metrics` | the hooks of an Isaac Lab environment, the jobs | which hook runs before which; the first reset follows no episode |
| **Sequential tasks** `tasks/sequential_task_base.py` | per environment: flags of the completed subtasks and the index of the current one, on the environment object; a copy in `extras` | the success function, the reset event, the subtask recorder | termination manager, recorders | two lists written by two functions; a shallow copy; success over past and present. *Subtasks complete in order, and an episode's record agrees with its success.* |
| **Remote policy client** `remote_policy/policy_client.py`, `policy/client_side_policy.py` | a REQ socket, the negotiated protocol | `ping`, `get_init_info`, `set_task_description`, `get_action`, `reset`, `kill`, `close` | the server, by messages | a reply later than the time-out; a request nobody takes. *A client takes the answer to its own call, and ends.* |
| **Remote policy server** `remote_policy/policy_server.py`, `policy/…/gr00t_remote_policy.py` | `_running`, the policy's task description | one request at a time, answered exactly once | all clients | clients share it; one may kill it under the others; it may die and be restarted without its task. *No action is computed without the client's task.* |
| **Job manager** `evaluation/job_manager.py` | statuses of the jobs, a queue | `get_next_job`, `set_jobs_status_by_name`, `complete_job` | the batch runner | status and queue entry live apart. *A pending job is queued.* |
| **Batch runner** `evaluation/eval_runner.py` | the open environment, the current job | load, roll out, record, tear down | job manager, rollout, simulation app | every step may raise, under `try`/`except`/`finally`. *One environment at a time; the statuses tell what happened.* |
| **Demonstration scripts** `scripts/imitation_learning/` | recording, pause, skip and reset flags, success counters; the dataset file | record, annotate, replay | keyboard callbacks, the environment and its recorder; each script works on the file of the one before | callbacks between any two statements of the loop; steps that reset the environment by themselves. *Nothing half replayed is exported, and no script makes the next one fail.* |
| **Mimic data generation** `utils/locomanip_mimic_patch.py` | per end effector: subtask, trajectory, index of the waypoint | one iteration executes a waypoint of each | the G1's action term, which says whether it navigates | the indices of *all* end effectors are shifted inside the loop that advances them one by one. *Every index names a waypoint; a navigation ends and the body waits for it.* |
| **G1 whole-body controllers** `isaaclab_arena_g1/` | navigation flags, subgoals, step counter; the lower body's history | `process_actions`, reset events | data generation, the environment's resets | flags that lag a step; a reset of some environments |
| **GR00T data conversion** `…/lerobot/convert_hdf5_to_lerobot.py` | two queues, worker processes, frame counters | convert, encode, stop, describe | the recorded file; the LeRobot dataset | processes waiting for one another; skipped trajectories, failing videos. *Frame indices run on; info.json comes after all videos; the conversion ends.* |
| **Object placement** `relations/`, `utils/bounding_box.py` | attempts, the best positions so far, the poses of the objects | `place`, `solve`, `validate` | the environment builder | the losses and the validation are written separately; retries. *What is solved is accepted, and what is accepted is what the scene gets.* |
| **Registries and asset library** `assets/`, `utils/reload_modules.py` | name → class maps, filled on first use; Python's modules | look-up, registration, import, reload | everything | laziness, circular imports, classes of before a reload. *A look-up finds everything, whatever was imported first.* |
| **Environment builder, scene, config classes** `environments/`, `scene/`, `utils/configclass.py` | none between calls | compose configs | everything | order of the events, options and names that meet only at run time |
| **Tasks, events, affordances** `tasks/`, `affordances/` | none of their own | terminations, reset events, mimic configs | the scene, the robot | a joint that opens the other way; one event undoing another. *A reset leaves what was declared, and no episode is over as it begins.* |
| **Embodiments, devices, example environments** `embodiments/`, `assets/device_library.py`, `isaaclab_arena_environments/` | configuration | constructors | the builder | combinations chosen on the command line. *All documented ones assemble.* |
| Replay, RSL-RL and zero-action policies | an index into a recording | `get_action`, `reset` | rollout | end of the recording, resets of some environments |
| Message serializer, protocol record, GR00T tensors | none | encode, decode | client, server, model | — |

`PROJECT.json` lists every component with what is modelled of it, and every hazard with its
line and the properties that would catch it.

How the modelled parts fit together:

```
 EvalRunner ──extends──> JobManager              the batch of jobs
     │ "rollout" is one run of
     v
 PolicyRollout ──INSTANCE──> ActionChunking ──implements──> ChunkPlan
     │ its fetches are calls of
     v
 RemotePolicy                                    clients, server, messages

 SequentialTask ──implements──> SubtaskProgress  inside env.step

 DemoPipeline = DemoRecording -> DemoAnnotation -> DemoReplay, over DemoDataset
 MimicGeneration = G1Navigation + the loop over the waypoints
 DatasetConversion                               the dataset that training reads

 AssetLibrary <- Embodiments <- AssetRegistry        ┐
                 Embodiments <- ArenaTasks           ├─> ArenaEnvironment
                   ArenaTasks <- ExampleEnvironments │   (build, step, reset)
                                Affordances          ┘
 RelationGeometry <- EnvironmentBuild                placement while building
```

## 2. The modules

A module's definitions carry the names of the code where TLA+ allows it; `map` in
`PROJECT.json` gives the lines each one stands for. The properties come last in a module. Some
modules have *wrong forms* of an operator just before it: the operator with a slip one could
make in that code (a dropped guard, a flag not reset, a swapped order). No specification uses
them; each is there to show that putting it in place of the right one breaks a property.

**ActionChunking** — `ActionChunkingState`. A row is the model's answer to one observation, so
it is represented by that observation, and action `i` of a row by the pair of the two; the
tensors' contents do not matter to any property. `chunk`, `index` and `needs` are
`current_action_chunk`, `current_action_index` and `env_requires_new_chunk`. `GetAction` is the
whole call: refill under the mask, index asserts, gather, advance, the sentinel `-1` and the
new flags. `FetchFails` is a `fetch_chunk_fn` that raises, `StoreFails` a chunk the masked
assignment refuses; what torch broadcasts is in `Assignable`. `Reset(ids)` is `reset`.

**ChunkPlan** — what chunking promises: each environment has a source row and a number of
actions left; `Take` executes the next one and takes a new row exactly when none is left,
`Drop` gives up the rest of some. Nothing about buffers, sentinels or flags.

**PolicyRollout** — `rollout_policy` with an instance of ActionChunking. An observation is
⟨environment, episode, time⟩, so an executed action tells which moment it was predicted for.
`EnvStep` is `env.step` as the loop sees it: any environments' episodes end, those at the
time-out surely; the recorder writes their episodes; they start the next one; all before the
call returns. `Account` is the rest of the loop body with its two breaks.

**SequentialTask** — the success function, the reset event and the two recorder terms in the
order one `env.step` runs them: terminations (`Terminate`), post-step hooks
(`RecordPostStep`), pre-reset hooks and reset events (`ResetDone`). The subtasks' own
conditions and the other terminations are arbitrary in every step. The aliasing of the lists
is modelled: `extras` holds the marker `Shared` where its inner list *is* the one in the
state, and `Extras(e)` is what a reader sees.

**SubtaskProgress** — what a sequential task promises: a number of completed subtasks per
environment, which grows by one when the current subtask's condition holds, and success.

**RemotePolicy** — any number of clients, each going through ping, handshake, reset, task
description, a rollout of calls, and shutdown; the server's loop; messages. `Call` and `Return`
are the two halves of `call_endpoint`; `TimeOut` is `recv` raising with the reply on its way or
not. The server's `Receive` and `Respond` are the two halves of one iteration of `run`, so a
client can time out or a crash come between them. ZeroMQ itself is external: a REQ socket does
not send twice without a reply, a request is kept until a server takes it, `context.term`
waits for it, a server going down loses any requests it had received.

**JobManager** — statuses and queue, under any sequence of calls. **EvalRunner** — `main` of the
batch runner on top of its operations: one action per step of the `try` block, `Fail` for any of
them raising, and the `except` and `finally` clauses with what they do when they raise
themselves. `UsesManager` says that a step of the loop is one operation of the job manager or leaves
it alone.

**DemoDataset, DemoRecording, DemoAnnotation, DemoReplay** — the three scripts, each with the
locals of its loop in one record (`rec`, `ann`, `rep`). A recorded episode is its number of
actions. The keys (`RecKey`, `AnnKey`, `RepKey`) are actions of their own, enabled wherever the
simulation renders, since that is when Isaac Lab runs the callbacks. `Act` is `env.step` or
`sim.render`, and may reset the environment by itself; `Check` is the success count with the
export and the choice to reset. The annotation replays an episode once per end effector and
again until the marks are as many as its signals. In the replay `AssignActions` is the whole
`for` loop over the environments, `AssignAll` one iteration after the other, and `rep.row` is the
tensor `actions`, which *is* the idle-action tensor. An interrupt may end every script. **DemoPipeline** runs one after the other
on what the one before left behind.

**G1Navigation** — the action term's flags, `ProcessActions`, and the P-controller's counter;
where the robot is, is an input of each step. **MimicGeneration** — `generate` of the patched
data generator: `GenerateTrajectory` when a subtask begins, `ExecuteWaypoints` for one
`env.step`, then `AdvanceEef` once per end effector *in the order of the configuration*, which
shifts the indices of all of them when the navigation is to be repeated or skipped.

**DatasetConversion** — the main process and the workers as processes of their own; a job is a
video ⟨trajectory, camera⟩. The error queue has its feeder thread (`SendError`) and its pipe of
limited size, because a process that still holds messages does not end.

**RelationGeometry** — boxes, losses and validation over integers, as operators. Losses are
compared with zero and with each other only, and the arithmetic is the code's.
**EnvironmentBuild** — the builder around it: attempts of the placer (`StartAttempt`), solver
iterations that move the positions to any of the scenario's spots (`Iterate`), `Validate` with
the fallback to the least loss, `Apply`, which writes poses, ranges and reset events into the
objects, and `Compose`, which collects them.

**AssetLibrary** — the registered names by library, with kinds and affordances. **Embodiments** —
per robot: scene entities, accepted options, reset events, observed end effectors, the layout of
its action and the packing of targets into it and out again. **AssetRegistry** — the import graph
of the libraries and the packages between them: each module is a sequence of statements
(`import`, `from`, `bind`, `decorate`), `stack` the imports in progress; a process may import any
module first, look something up at any time and reload everything between environments, in the
order in which the first imports had ended. **Affordances** — the joint arithmetic of doors,
buttons and knobs. **ArenaTasks** and **ExampleEnvironments** — what each task and each
environment of the command line brings: assets in order with how their pose is declared and what
their reset event was built from, entities that terminations name, joints, events, and the
subtasks of data generation. **ArenaEnvironment** — composes them: `Build` looks the names up in
the registries, combines the events and checks that everything fits; `Step` moves everything in
every copy and resets those that are done; `Reset` resets all.

**MC…** modules give constants their values. **…Proofs** modules hold the theorems, each about the
module it is named after; EvaluationProofs holds those about what an evaluation is made of, JobManager,
EvalRunner, AssetRegistry, Affordances and ArenaEnvironment, and DemoPipelineProofs those about the
three scripts. Loops that the theorems speak of (`InListOrder` of JobManager, `Existing` and
`AssignAll` of DemoReplay, `ResetIn` of ArenaEnvironment) are recursive functions rather than folds,
so that one can reason about them.

## 3. What is checked

Deadlock is checked where the system never stops (chunking, the sequential task, a job manager
anybody may call, environments that are built again and again) and not where it ends (a rollout,
a batch run, clients that close, scripts, a conversion, a bounded number of builds).

| Run | Instance | Checks |
|---|---|---|
| `chunking` | 3 environments, chunk of 3 in a buffer of 4, responses of 1–5 actions | `Consistent`: flag, index and row agree. `ImplementsPlan`: refinement of ChunkPlan |
| `rollout` | 3 environments, chunk of 2, time-out 3, goals 0–4 in both units | `NoStaleAction`, `EpisodesCounted`, and `Ends` under fairness |
| `sequential_task` | 2 environments, 3 subtasks, with and without desired final conditions | `DemosAgree`: recorded flags and recorded success agree. `ExtrasOfTheStep`. `ImplementsProgress`: refinement of SubtaskProgress |
| `remote_session` | 2 clients with the token, which both kill the server at their end, and one without, 2 calls per rollout, 1 crash | `AnswersOwnCall`, `NoServerError`, `ActionForTask`, and under fairness `Ends`: without a crash every client ends, except one whose kill comes after the other's |
| `job_manager` | 3 jobs in any statuses, 5 queue entries | `PendingIsQueued` |
| `eval_runner` | 3 jobs in any statuses, both values of `--continue_on_error` | `OneEnvironment`, `OutcomesTold`, `RanAll`, `UsesManager`: every step is one of the job manager's, and `Ends` under fairness |
| `demo_pipeline` | 2 demonstrations of at most 3 steps, 2 success steps, three end effectors, 2 replaying environments, selections with unknown and repeated indices | `DiscardedOnRequest`: no step but the running one after a reset was asked for. `AnnotationComplete`: an exported episode is one complete replay with its marks. `ReplayComplete`: all selected episodes, every action once and in order. `NeverRaises`: no script makes the next one fail. `ReplayEnds` under fairness |
| `mimic_generation` | the G1's three end effectors, segments of 1–4 waypoints, two subgoals, 2 attempts | `WaypointExists`: no index past a trajectory, for all the shifting. `BodyWaitsForNavigation`. `NavigationEnds` under fairness, in a generation that does not raise (finding 14) |
| `dataset_conversion` | 2 workers, 2 trajectories of 2 cameras, a queue of 2 | `FramesContiguous`, `VideosComplete`, and `Ends` under fairness |
| `environment_build` | a table, two placed objects and one that is not, a dozen scenarios, built twice with 2 attempts | `SolvedIsAccepted`: positions of zero loss pass the validation. `CapturedAsPlaced`: the scene, its initial states and its reset events have the poses of the best attempt |
| `arena_environments` | the 29 documented command lines over every example environment, two copies, joints that open either way, one reload | `AllRegistered`, `ImportsSucceed`, `NoStaleClasses` from every import order; `EveryEnvironmentAssembles`; `AsDeclared`: a reset leaves robot, bodies and joint as declared; `FreshNotDone`: no episode is over as it begins; `MimicAgrees`: data generation's configuration fits robot and scene, and its action is packed and unpacked consistently |
| `container_pose` | the table pick and place environment | finding 1 |

Type invariants (`TypeOK`) are checked in the runs `remote_session` and `demo_pipeline`, and are part
of the theorems of chunking, the rollout, the sequential task, the remote session, the demonstrations,
the conversion, placement and the registries; the other runs, whose question it is not, leave theirs
out. So do they with `AssertsHold`, `NoZeroedAction`, `StopsOnTime` and `PointerOK`, which the theorems state.
Every property of a passing run has a mutant of the code that breaks it
(`mutants` in `PROJECT.json`).

**Bounds.** Chunking: three environments allow one that refills, one in the middle of its row
and one that is reset, all at once; a chunk of 3 has a first, an inner and a last action; a
buffer of 4 separates `action_chunk_length` from `action_horizon`. Rollout: with a chunk of 2
and episodes of at most 3 steps, episodes end before, at and after a chunk's end, and the third
environment makes two episodes end in one step while a chunk goes on. `MaxGoal` = 4 covers 0, goals that
are jumped over and goals reached exactly; `MaxEpisode` = 6 is larger, so that only a loop that
failed to stop could reach it, and `Ends` would show it. Sequential task: of three subtasks one is
first, one inner, one last; environments only meet in `done` and in the desired conditions, so two
are enough. Remote: `MaxCalls` = 2 has a call after one that was answered; a late reply needs one
call, a retry two; one crash with a restart loses the task. Both clients kill the server, as the ranks
of one run do, which share `--remote_kill_on_exit`: the second kill may find no server, and a client still in its
rollout may lose its server to the other. Job manager: five entries let two of
three jobs be queued a second time.

Demonstrations: `MaxSteps` = 3 leaves a step before and one after the two that make a success;
`MaxMarks` = 2 is one mark too many; an end effector without signals stands between two with one;
three environments would only repeat what two do, as they share nothing but the list they take
episodes from. Mimic: the body's segments of 1, 2, 3 and 4 waypoints, against arms of 1 to 3, put
the shifts before, at and past the end of the others' trajectories; `MaxNavigationSteps` = 2 lets
the controller give up during a navigation; the second subgoal turns in place. Conversion: with two
jobs in the queue and four videos the main process waits for room and the workers for jobs; one
more worker or camera only repeats; `PipeCapacity` = 4 is all the errors there can be (finding 6 is
about fewer). Environment build: two attempts have every order of a valid and an invalid one, a second build
starts from the poses of the first; the spots of a scenario are on, above, below and beside the
table and on the other object. Arena environments: `MaxLoads` = 2 is one import and one reload of a
module, as every module holds only what it took when it last ran; two copies have one that resets
while the other goes on; the joint is found at its ends and in the middle, with the limits of
doors that open either way.

The proofs lift the bounds of chunking, rollout, sequential task, remote session, jobs, batch runner,
demonstrations, conversion and placement altogether, and `MaxLoads`, the number of copies and the range
of a joint of the arena environments; what is left to the bounds there is liveness.

**Fairness.** `rollout_policy` and the batch runner are sequential programs that nothing
blocks for ever (`env.step`, `get_action` with its time-out): weak fairness of the next-state
relation says they keep running. That a task times out its episodes is an assumption of
`EnvStep`, and needed: with `num_episodes` and an environment that never ends, the loop does
not. In RemotePolicy a client takes its steps, as its receives have a finite `timeout_ms`, and a
server that is up serves; nothing makes a crashed server start again, and no time-out must come
before the reply. Two things make `close` hang (finding 3), and `Ends` excepts both by name: a crash of
the server, and a kill by another client (`Stranded`) for one that asks for the kill itself. A client that does
not, or is the only one that does, ends in every behaviour without a crash. A replay's loop keeps going, but no key is ever pressed by itself, so
`ReplayEnds` excepts a replay that stays paused. A generation keeps iterating, nothing says that the
robot ever arrives: it is the step limit that ends a navigation. `NavigationEnds` speaks of generations that
do not raise (`IndicesShifted`, finding 14), and neither a raise nor the end of the generation counts as the end of the
navigation. In the conversion each *process* is
weakly fair, which is what an operating system gives; the feeder thread counts as part of its
worker.

## 4. What was found

Each of these is a place where the code does something else than it says of itself. The first is a
run; the others, but for the last, have a property that TLC finds violated, most of them with a `.cfg` beside
the runs' that makes it print the counterexample.

1. **A reset moves the container to the origin** (`container_pose`). The table pick and place
   environment makes a reference to the container's prim before it gives the container its pose;
   the reference has a reset event of its own, with the pose of that moment, which comes after the
   container's (`isaaclab_arena_environments/table_pick_and_place_environment.py:35-62`,
   `assets/object_reference.py:22-57`, `scene/scene.py:73-82`).
2. **A chunk that passes the validation cannot be stored** (`ChunkWidth.cfg`, `AcceptedIsStored`).
   The docstring asks for "horizon >= action_chunk_length" actions, the client validates "at least"
   as many, but the masked assignment (`policy/action_chunking.py:56`) needs the buffer's width.
3. **`shutdown_remote` can hang** (`CloseHangs.cfg`, `ShutdownReturns`): it ignores that the kill got
   no answer, and then `close` waits in `context.term` with unlimited linger for a request no server
   will take (`remote_policy/policy_client.py:128-131`). No crash is needed: with two clients that are given
   `--remote_kill_on_exit`, the instance of `CloseHangs.cfg`, the server stops after the first kill, the second
   is never taken, times out, and its client waits for ever. A server that crashed has the same effect.
4. **An environment without an episode does not idle** (`ReplayIdle.cfg`, `OthersIdle`): `actions` is
   the idle-action tensor and is written into (`replay_demos.py:187, 216`), so the environment
   repeats its last action for as long as the others replay.
5. **The repeated navigation action is not the last one** (`NavigationRepeat.cfg`,
   `RepeatsLastAction`): the indices are taken back by one right after they reached the last
   waypoint, so the last but one is repeated (`utils/locomanip_mimic_patch.py:345-353`).
6. **A conversion with many failing videos never ends** (`ConversionStop.cfg`, `WorkersStop`): the
   error queue is read once, before the workers stop; messages that do not fit into the pipe keep a
   worker's feeder thread, and with it the process that `join` waits for
   (`convert_hdf5_to_lerobot.py:604-612`). The cfg has a pipe of one message where a real one holds
   64 KiB.
7. **The validation does not turn an anchor's box, the loss does** (`TurnedAnchor.cfg`,
   `ValidationMatchesLoss`): with an anchor turned by a right angle a placement of zero loss is
   rejected (`relations/object_placer.py:207`, `relations/relation_solver.py:93-101`).
8. **One environment's reset clears the lower body's history of all** (`OthersKeepControl` of
   ArenaEnvironment, for the G1): `G1HomiePolicy.reset` does not use its `env_ids`.
9. **The documented teleoperation device `avp_handtracking` is not registered**
   (`EveryEnvironmentAssembles` with that command line among the `Requests`); the registered name is
   `openxr`.
10. **`get_next_job` hands out jobs that are not pending** (`NextIsPending` of JobManager): changing a
    queued job's status does not remove its entry (`evaluation/job_manager.py:194, 203-209`). The
    batch runner never does this; a caller of the public method may.
11. **A failing job stops the batch** unless `--continue_on_error` is given (`FailureContinues` of
    EvalRunner), where the documentation says that "the runner continues with the next job".
12. **The documented policy interface is not the one the server calls** (`NoServerError` of
    RemotePolicy with `PairPolicy` = FALSE): the server passes `reset_options=` and unpacks a pair
    from `get_action`; the abstract class and the documentation say otherwise.
13. **Success steps need not be continuous, and a mark may never become true** (`ContinuousSuccess`
    of DemoRecording, `SignalsBecomeTrue` of DemoAnnotation, both violated in the instance of
    `demo_pipeline`): the success condition is counted while the recording is paused
    (`record_demos.py:477`), and a mark made while a replay is being reset has the index left over
    from the episode before (`annotate_demos.py:325-328`), which may be past the end of this one.
14. **Generation raises a `TypeError` when an arm ends a subtask as the navigation is handled**
    (`IndicesShifted` of MimicGeneration, violated in the instance of `mimic_generation`): the end of a subtask
    sets that end effector's index to `None` (`utils/locomanip_mimic_patch.py:408`), and when in the same pass of
    the loop, at a later end effector, the indices of all are taken back (`:350`) or moved ahead (`:359-367`), arithmetic is
    done on it. In the shipped order (right, left, body) it is enough that the right arm ends its first subtask in
    the iteration in which the body reaches its last waypoint while the robot navigates. The comment says that all
    "index buffers will be updated" (`:338`).
15. **A threshold given to `PressButtonTask` cannot be used**: it becomes the parameter `threshold` of the
    success term (`tasks/press_button_task.py:45-46`), while `is_pressed` takes `pressedness_threshold`
    (`affordances/pressable.py:23-24`). This was read, not run: no example environment gives one, and
    `PressButtonTask` of ArenaTasks has the threshold of the object.

## 5. What is proved

All theorems hold for every value of the constants under the named assumptions of the modules
(`ChunkingAssumption`: the chunk is not empty and not longer than the buffer;
`RolloutAssumption`: the same, finitely many environments, episodes of at least one step;
`TaskAssumption`: at least one subtask; `ConversionAssumption`: finitely many workers and at least
one, a camera, room for a job in the queue; `RemoteAssumption` and `DescriptionAssumption`: every
client has a task description, told apart from the markers of the model; `JobAssumption`:
the bound on the queue has room for every job once; `RunnerAssumption`: "no job" is not a job;
`RequestsAssumption` and `LimitsAssumption`: a request asks for a robot that exists, and a joint's range is
100 wide, in the unit of Affordances; `DemoAssumption`,
`AnnotationAssumption` and `ReplayAssumption`: demonstrations, steps and environments are counted from
one, indices of episodes too; `NavigationAssumption` and `GenerationAssumption`: a subgoal, end
effectors that are listed once, each with a subtask and trajectories that are not empty;
`BuildAssumption`: an asset is in the scene once, boxes are not flat, and
where there is an anchor, what relations refer to has relations itself, since the solver looks its
position up). TLC evaluates these assumptions on the instances, and checked the properties, and the
inductive invariants behind them, before they were proved. DatasetProofs holds the proofs of both
ends of a generated dataset, MimicGeneration and DatasetConversion.

- **`ChunkingSafe`** — `Spec => []` of `TypeOK`, `Consistent`, `AssertsHold` and
  `NoZeroedAction`. `Consistent` carries the argument: the asserts hold because an environment
  that does not refill has an index ≥ 0 and one that does starts at 0, and an action is never
  taken from a zeroed row because a zeroed row has its flag set. The four together are
  inductive.
- **`ChunkingImplementsPlan`** — the refinement: with `left` = the chunk length minus the
  index, or 0 when the flag is set, `GetAction` is `Take`, `Reset` is `Drop`, and a call that
  fails is a stutter.
- **`RolloutSafe`** — `NoStaleAction`, `EpisodesCounted` and `StopsOnTime`. None is inductive:
  each speaks of one point of the loop. `RowInTime` says, at each point, for which moment the
  *rest* of a row was predicted: the current time before the call, one step later after it,
  and after `env.step` again the current time, except for the environments that are done, whose
  rows `Account` then drops. `Counted` relates dataset and counter (equal, or apart by the
  environments that are done) and says that the dataset holds only episodes *before* the
  current one, so that recording never writes one twice; the cardinalities use the library's
  facts on finite sets. `NotYet` says that a loop that goes on has not reached its goal.
- **`SequentialTaskSafe`** — `PointerOK`, `DemosAgree`, `ExtrasOfTheStep`. `DemosAgree` speaks
  of episodes that are over; it follows from `Recorded` (what the recorder has seen in this
  episode is what the flags say, once the post-step hook ran, because flags are only ever set)
  and `SuccessOfTheStep` (between the terminations and the reset, success is that of the
  flags). `ResetEffect` is the lemma on aliasing: a reset replaces inner lists and so changes
  nothing a reader of `extras` sees.
- **`SequentialTaskImplementsProgress`** — the refinement to SubtaskProgress: the number of
  completed subtasks is the index, or all of them once the last flag is set.
- **`ConversionSafe`** — `TypeOK`, `FramesContiguous` and `VideosComplete`. The last says that at
  the end no video is forgotten, and rests on two facts. `QueueShape`: the queue is jobs and
  behind them Stops; the Stops in it are those sent less those taken, and once one was taken no
  job is left; so when all workers have ended, each having taken one, the queue is empty
  (`AllStopped`, by counting). `JobsKnown` and `VideosPut`: a video that is still "queued" is in the
  queue or with a worker that writes, and the videos that were put are those of the stored tables
  before the current one.
- **`GenerationSafe`** — `WaypointExists` of MimicGeneration, with its types. It speaks of the moment
  before an iteration and of indices that are not `None` (finding 14 is about those that are); `GenerationInv` says what holds inside the loop over the end effectors:
  those already advanced have an index between 1 and the last of their trajectory, those ahead
  between 0 and the last, and one less at the bottom once the navigation was handled (`StepsInRange`),
  because that happens once per iteration and takes back at most one. `MidRange` is the moment between
  the advance of one end effector and the end of its pass, when its index may equal the length.
- **`BodyWaits`** — `BodyWaitsForNavigation`, when the body is not the first end effector
  (`BodyNotFirst`; the shipped order is right, left, body,
  `tasks/g1_locomanip_pick_and_place_task.py:194`, `:269`, `:368`. With the body first TLC finds a
  counterexample: its index is advanced to the end before the navigation is looked at). `HoldInv` says that the
  first end effector of an iteration finds what is due: while the robot navigates, a body still to be advanced
  is not at its last waypoint unless the indices were taken back, and then no other end effector ahead is
  at its own. A body that has finished before is at its last waypoint, or one before it once held
  (`FinishedBodyAt`), so that all the others are held with it and the episode does not end.
  `NoEndWhileNavigating` draws the conclusion for one pass of the loop.
- **`OwnAnswers`** — `TypeOK` and `AnswersOwnCall` of RemotePolicy, for any clients and any order of
  time-outs, retries, kills and crashes. `OnePlace` places every request: while a client calls, its
  request is in the pipe, with the server or answered, in at most one of these, and it asks for what the
  client does now; a client that does not wait has none anywhere. That is what gives a reply to the call
  that waits for it, since a REQ socket that timed out is not used again.
- **`ActsForItsTask`** — `ActionForTask`, when all clients describe one task (`OneTask`, as in the run;
  two tasks on one server overwrite each other, §6). An action on its way was computed with the
  server's task, which is that one task or none, and without a task the policy raises.
- **`NoErrorWithoutCrash`** — `NoServerError`, for a policy with the signatures the server calls
  (`PairPolicy`; with the documented ones it is finding 12). The invariant is that a server that has
  not crashed still has the task of a client that is past its `set_task_description`.
- **`OneEnvironmentAtATime`** — `OneEnvironment` of EvalRunner, from `OpenAt`, which says for each
  point of the loop, the except and finally clauses included, whose environment may be open.
- **`NoJobLost`** — `PendingIsQueued` of JobManager, under any sequence of its calls: only an
  entry that is handed out leaves the queue, and its job is then running; and every job that is made
  pending is put into it (`QueuedJobs`, by induction over the list of jobs).
- **`RunnerImplementsManager`, `BatchLosesNoJob`** — the batch runner implements the job manager: taking
  a job is `GetNextJob`, telling how it ended, in the try block or the except clause, `CompleteJob`, and every
  other step a stutter, so that what is proved of any use of the manager
  (`PendingIsQueued`) is so in a batch, whichever jobs fail.
- **`OutcomesAndOrder`** — `OutcomesTold` and `RanAll` of EvalRunner. The invariant relates the three
  lists of the loop: the jobs handed out and, behind them, the queue are together the pending jobs
  of the configuration in its order; jobs before the current one have the status that tells how they
  ended, those behind it are still pending, and the metrics are those of the completed ones.
- **`PipelineTyped`, `AttemptsDiscarded`, `AnnotationsComplete`, `ReplaysComplete`,
  `ScriptsNeverRaise`** — `TypeOK`, `DiscardedOnRequest`, `AnnotationComplete`, `ReplayComplete` and
  `NeverRaises` of DemoPipeline, from one invariant, `PipelineInv`, that has a part for each script and
  says what the others are while it runs.
  `RecordingInv`: a step made after a reset was asked for belongs to an iteration that is about to reset,
  and a loop that goes on has none of them behind it; a demonstration is never empty.
  `AnnotationInv`: the marks collected are as many as the signals of the end effectors gone
  through, in their order (`CountsUpTo`), and what is exported was replayed to its end.
  `ReplayInv`: the episodes loaded so far followed by those still in the queue, unknown ones left out, are
  the selection; an entry of the map that is not over belongs to one environment only, and of each loaded
  episode exactly the actions before the entry's index were stepped through. Its
  step is the loop over the environments, `AssignAll`, with an invariant of its own: `LoopInv` says
  after each environment which ones were given an action or left out and that the loads are still in
  order (`OneIteration`, `AssignAllIs`). `NeverRaises` then follows as each script is given what the
  invariant of the one before says of its file.
- **`OnLossAgrees`, `NoCollisionLossAgrees`** — for all boxes, positions and clearances: an object
  whose loss is zero passes the validation of that relation, when the parent's box is the same in
  both (finding 7 is the case where it is not).
- **`BuildTyped`, `ScenesAsPlaced`** — `TypeOK` and `CapturedAsPlaced` of EnvironmentBuild, for any
  scene, scenario and number of attempts, iterations and builds, from `BuildInv`. `RelationsKept`:
  the relations are those given and, behind them, NoCollisions the builder added, so that no build
  changes which objects are movable or anchors (`AddedIs`, by induction over the loop that adds them). `BestKept`: the
  placer goes on only while no attempt was valid, and what it holds is then the one of least loss.
  `Configured`: initial state and reset event are those derived from the pose, whoever wrote it last.
  `Captured` carries the best attempt's positions from `Apply` to the scene.
- **`SolvedAccepted`** — `SolvedIsAccepted`: what is solved passes the validation, in every scenario
  whose relations separate the objects (`ScenariosSeparate`: each movable object has a NoCollision with every
  anchor or stands on it, on top of others perhaps; clearances are at least the separation that is
  validated; the anchors do not overlap. TLC evaluates it on the instance. Without it the
  code promises nothing: nothing is added between a movable object and an anchor). A total loss of zero is
  a zero loss of every relation (`TotalLossIs`). Two movable objects are then apart by the NoCollision the
  builder has seen to (`PairsSeparated`), and an object on a stack is above its bottom by
  induction along the stack (`AboveTheStack`).

- **`LookUpsFindAll`, `NoCircularImport`, `ReloadsLeaveNoStaleClass`** — `AllRegistered`, `ImportsSucceed`
  and `NoStaleClasses` of AssetRegistry, whatever is imported first, with any number of look-ups and
  reloads (`MaxLoads` is any number, which the run has as 2). None of them is inductive, as what a
  statement finds depends on how far the modules below it on the stack have come.
  `RegistryInv` has two parts. `Shape` says what the stack is: frames of modules, each once, of
  `ensure_assets_registered`, and at the bottom perhaps the reloads; a reloaded module imports
  nothing but what is there, so that the stack stays three deep then (`ReloadShape`), and it comes
  after those it takes names of (`ReloadCode`, from `LoadedInOrder`: what a module takes names of had
  ended its import before). `Facts` says what was run: `Bound`, when a
  module's name exists; `AboveUnbound`, the heart of it, which modules can be executed within the
  import of one whose name does not exist yet, none of which asks for that name, so no import fails;
  `Taken`, a name that was taken is of a module whose import has ended and is its current one;
  `RegisteredOnce`, `FlagMeans` and `EnsureProgress`, that who sets the flag has all libraries in
  `sys.modules`, though not all of them have ended: they have when no import is in progress.
- **`ServableAssembles`** — `EveryEnvironmentAssembles`: a request whose parts fit and whose names are
  those of classes that some module registers (`Servable`) assembles at every moment of a process at
  which it is built. That the names are *in the registries* by then is `LookUpsFindAll`.
- **`ResetsAsDeclared`, `NoEpisodeOverAtStart`** — `AsDeclared` and `FreshNotDone` of ArenaEnvironment, for any
  number of copies, any subset of them resetting in a step, any range of a joint. What the code has to get
  right for them is the *order* of the combined events, so that is their hypothesis: the last event that moves
  a body puts it where it was declared (`BodiesAreReset`), the joint is turned behind the events that clear all
  joints (`JointIsReset`), and the robot and its controller are put back by some (`RobotIsReset`); for the
  second, reset and threshold of the task are on different sides (`StartsUndone`). The proof is an
  induction over the events (`ResetLeaves`, from `FromThenOn`: what one event has made so and every later
  one keeps is so at the end), and an invariant, `ResetInv`, of the copies that were reset. It needs
  `RegistryInv` as well: the builder gives poses from relations only to objects of the class it knows,
  and no reload has made that stale (`BuilderIsCurrent`).
- **`JointReadsAsReset`, `KnobReadsAsTurned`** — the arithmetic of Affordances those rest on: a joint
  reads as what it was set to, wherever its range begins and in both directions, and a knob as its
  level, for every number of levels.

  The hypotheses of these theorems are about the table of environments, robots and tasks that the code
  has, which is finite data: evaluated by TLC over the 29 command lines of MCArenaEnvironment, `Servable`,
  `EventsListed`, `JointIsReset`, `RobotIsReset`, `BodiesAreReset` and `StartsUndone` are true of each. `EventsListed`
  only says that combining gives a list, which the provers do not see, since `SelectSeq` is opaque to them.

Induction over the natural numbers, needed for loops and lists, is done without the library's induction
rules: `LeastCounterexample` says that a set of natural numbers has a least element, from the
library's fact that every non-empty set has a minimal element of a well-founded relation, and
`LoopExists` that the recursive function of a loop exists; a lemma about such a loop then looks at the
least number of iterations for which it fails.

Only model-checked: `MimicAgrees`, since it is about the data of one request at a time and no step
can change it, so that a theorem could only assume it. Every liveness
property stays with TLC too, since fairness and ENABLED are beyond the prover, and so do operators
built from `SelectSeq`, the folds of the community modules or `RECURSIVE`: their library definitions
have no facts the prover could use.

## 6. What is not modelled, and why

- *Contents*: tensors, observations, message encodings, file formats, the arithmetic of the
  rates. No property depends on them; the encodings keep no state.
- *Simulation*: contact forces, controllers and inverse kinematics, the gradient descent of the
  relation solver are real-valued numerics. Their outcomes are arbitrary in the models that use
  them; poses are told apart only by where they come from (declared, sampled, default, moved).
- *Data of the configuration*: files, scales, gains, joint names, camera poses, viewers, rewards,
  thresholds on forces and distances.
- *Demonstrations*: a freshly reset environment is assumed not to satisfy the success condition
  (`FreshNotDone` checks that of joints); at least one demonstration is asked for, and at least one
  end effector has a signal. The state comparison of the replay only prints. `generate_dataset.py` and
  `teleop.py` keep no state of their own.
- *Data generation* with several environments, with a motion planner or with constraints between
  subtasks, none of which the shipped configuration uses.
- *The conversion*: a worker that is killed from outside.
- *What `load_env` leaves behind when it raises*, and the GR00T policy's own state, belong to
  Isaac Sim and to the GR00T library.
- *Clients with different tasks on one server*: the task description is one field shared by all
  clients, so the second overwrites the first's. Nothing says that the server supports this; the
  runs give all clients one task.

## 7. Plan

Done, in the order of importance: chunking and its abstract plan; the rollout composed with it;
sequential tasks and their abstract progress; the remote session; jobs and the batch runner; the
demonstration scripts and the pipeline they form; data generation with navigation; the dataset
conversion; placement and the environment builder; the registries, assets, robots, tasks and
example environments, composed; the proofs listed above.

Next modules:

1. **ReplayPolicies**: the index past the end (`policy/replay_action_policy.py:112`), a reset of
   some environments that rewinds the one trajectory of all of them
   (`isaaclab_arena_gr00t/policy/replay_lerobot_action_policy.py:237`).
2. **Constraints between subtasks** in MimicGeneration (`utils/locomanip_mimic_patch.py:240-292`), where two
   end effectors wait for each other.
3. **Composition of EvalRunner with RemotePolicy**: the batch runner never shuts a job's client
   down, so requests of a failed job meet the next one's.

Next proofs: that combining the events keeps the order which `ResetsAsDeclared` asks for, with
`combine` as a recursive function, so that the hypothesis could be about the parts and not about their
combination; and the other models' safety properties that come with the modules above.

---------------------------- MODULE ArenaEnvironment ----------------------------
(***************************************************************************)
(* An environment from its assembly to its end: ArenaEnvBuilder combines   *)
(* what the scene, the robot and the task bring (arena_env_builder.py:130- *)
(* 266), and the simulation then steps several copies of it, in which      *)
(* everything moves, and resets each copy whose episode has ended by the   *)
(* reset events in the order they were combined.                           *)
(*                                                                         *)
(* The names come from the registries, which AssetRegistry fills and       *)
(* reloads between environments.                                           *)
(***************************************************************************)
EXTENDS AssetRegistry, ExampleEnvironments, Affordances

CONSTANTS Envs,      \* the copies of the environment
          Requests,   \* what a command line asks for: [name, embodiment, object, device, mimic]
          Limits     \* the limits a door or a button may have

ASSUME RequestsAssumption == \A c \in Requests : c.embodiment \in EmbodimentNames

\* In the unit of Affordances a joint's range is 100 wide.
ASSUME LimitsAssumption == \A l \in Limits : l.min \in Int /\ l.max = l.min + 100

VARIABLES built,     \* what runs: [status], with more when it is "built"
          cells,     \* each copy: [root, joint, robot, control]
          fresh      \* the copies nothing has happened in since their reset

arenaVars == <<built, cells, fresh>>
worldVars == <<registryVars, arenaVars>>

NotBuilt == [status |-> "none"]
-----------------------------------------------------------------------------
(* Combining *)

\* A wrong form: the events of the robot last.
RobotLast(robot, scene, task) == scene \o task \o robot

Has(events, name) == \E i \in DOMAIN events : events[i].name = name

\* combine_configclass_instances: a field that both have keeps its place and has
\* the value of the second (fields of one name have one type).
combine(first, second) ==
   [i \in DOMAIN first |->
      IF Has(second, first[i].name)
      THEN second[CHOOSE k \in DOMAIN second : second[k].name = first[i].name]
      ELSE first[i]] \o
   SelectSeq(second, LAMBDA x : ~Has(first, x.name))

CombinedEvents(robot, scene, task) == combine(combine(robot, scene), task)

Movable(asset) == asset.kind \in {"rigid", "articulation"}

\* An asset's own event: none without a pose, or when the task turned it off.
\* Relations give a pose to the objects that the builder knows for objects.
SceneEvent(asset, disabled, solved) ==
   IF ~Movable(asset) \/ asset.event = "none" \/ asset.name \in disabled \/
      (asset.event = "relative" /\ ~solved)
   THEN <<>>
   ELSE <<[Event(asset.name,
                 IF asset.event = "range" THEN "randomize_object_pose" ELSE "set_object_pose",
                 asset.name) EXCEPT !.pose = asset.event]>>

SceneEvents(env, solved) ==
   FlattenSeq([i \in DOMAIN env.scene |-> SceneEvent(env.scene[i], env.task.disabled, solved)])

Assets(env) == ToSet(env.scene)
Named(env, name) == CHOOSE a \in Assets(env) : a.name = name

\* The entities of the combined scene.
Entities(env) == RobotEntities(env.embodiment) \cup {a.name : a \in Assets(env)} \cup
                 {s[1] : s \in env.task.sensors}

\* The names get_env asks the registries for.
LookedUp(env) == {env.embodiment} \cup {a.name : a \in {x \in Assets(env) : x.library}}
RegisteredNames == UNION {Registers(m) : m \in {x \in Modules : <<Current, x>> \in registered}}

\* What a joint's kind of success asks of its object; a reference to a door is one
\* that can be opened.
Affords(asset, kind) ==
   CASE kind \in {"open", "closed"} -> ~asset.library \/ Affordance(asset.name) = "openable"
     [] kind = "pressed" -> Affordance(asset.name) = "pressable"
     [] kind = "level" -> Affordance(asset.name) = "turnable"
     [] OTHER -> TRUE

\* get_teleop_device_cfg: there is a retargeter for the device and the robot.
HasTeleopDevice(device, embodiment) ==
   device = "none" \/ (device \in Devices /\ <<device, embodiment>> \in Retargeters)

\* The robot's constructor takes the options, a sensor is on a rigid object, the task's
\* joint is one of the object's, and what terminations and events name is in the scene.
Fits(env, device, mimic) ==
   /\ Constructible(env.embodiment, env.options, env.arm)
   /\ env.task.watched \subseteq Entities(env)
   /\ \A s \in env.task.sensors : Named(env, s[2]).kind = "rigid"
   /\ env.task.sampled \subseteq {a.name : a \in Assets(env)}
   /\ env.task.joint.kind /= "none" => Affords(Named(env, env.task.joint.object), env.task.joint.kind)
   /\ HasTeleopDevice(device, env.embodiment)
   /\ mimic => get_mimic_env_cfg(env.task, env.arm).ok

\* Its names are registered, and its parts fit.
Assembles(env, device, mimic) == LookedUp(env) \subseteq RegisteredNames /\ Fits(env, device, mimic)
-----------------------------------------------------------------------------
(* A reset: the events in turn, in the copies that reset *)

Env == built.environment
Joint == Env.task.joint

\* What the task's event sets its joint to.
ResetJoint ==
   CASE Joint.kind \in {"open", "closed"} -> rotate_revolute_joint(built.limits, Joint.reset)
     [] Joint.kind = "pressed" -> unpress(built.limits, Joint.reset)
     [] Joint.kind = "level" -> turn_to_level(stand_mixer, Joint.reset)
     [] OTHER -> 0

Place(cell, bodies, pose) ==
   [cell EXCEPT !.root = [b \in DOMAIN @ |-> IF b \in bodies THEN pose ELSE @[b]]]

BodiesOf(kinds) == {a.body : a \in {x \in Assets(Env) : x.kind \in kinds}}

\* What an event does to a copy that resets.
Apply(event, cell) ==
   CASE event.func \in {"set_object_pose", "randomize_object_pose"} /\ event.asset /= "none" ->
           Place(cell, {Named(Env, event.asset).body}, event.pose)
     [] event.func \in {"randomize_object_pose", "randomize_poses_and_align_auxiliary_assets"}
        /\ event.asset = "none" ->
           Place(cell, Env.task.sampled, "sampled")
     [] event.func = "randomize_joint_by_gaussian_offset" -> [cell EXCEPT !.robot = "noisy"]
     [] event.func = "reset_all_articulation_joints" ->
           [Place(cell, BodiesOf({"articulation"}), "default") EXCEPT !.robot = "default", !.joint = 0]
     [] event.func = "reset_scene_to_default" ->
           [Place(cell, BodiesOf({"rigid", "articulation"}), "default")
               EXCEPT !.robot = "default", !.joint = 0]
     [] event.func \in {"rotate_revolute_joint", "unpress", "turn_to_level"} ->
           [cell EXCEPT !.joint = ResetJoint]
     \* the default joints of the robot; the state of the sequence of tasks
     [] OTHER -> cell

\* The controller of the lower body has one state, which any reset clears for all.
ApplyToAll(event, all) ==
   IF event.func = "reset_wbc_policy"
   THEN [e \in Envs |-> [all[e] EXCEPT !.control = "fresh"]] ELSE all

Happens(event, all, ids) ==
   [e \in Envs |-> IF e \in ids THEN Apply(event, ApplyToAll(event, all)[e])
                   ELSE ApplyToAll(event, all)[e]]

ResetIn(all, ids) ==
   LET after[i \in 0 .. Len(built.events)] ==
          IF i = 0 THEN all ELSE Happens(built.events[i], after[i - 1], ids)
   IN  after[Len(built.events)]
-----------------------------------------------------------------------------
(* Terminations: the success a task reads from its joint *)

JointDone(q) ==
   CASE Joint.kind = "open" -> is_open(built.limits, q, Joint.goal)
     [] Joint.kind = "closed" -> is_closed(built.limits, q, Joint.goal)
     [] Joint.kind = "pressed" -> is_pressed(built.limits, q, Joint.goal)
     [] Joint.kind = "level" -> is_at_level(stand_mixer, q, Joint.goal)
     [] OTHER -> FALSE
-----------------------------------------------------------------------------
(* Actions *)

Ready == Idle /\ outcome = "ok" /\ flag /\ InSysModules("arena_env_builder")

\* Where a joint may be found after a step.
Spots == IF Joint.kind = "none" THEN {0}
         ELSE {built.limits.min, built.limits.min + 50, built.limits.max}

Build(choice, limits) ==
   /\ Ready /\ built.status = "none"
   /\ LET env == get_env(choice)
          solved == holds[<<"arena_env_builder", "object">>] = generation["object"]
      IN  /\ env.task.joint.kind \in {"none", "level"} => limits = [min |-> 0, max |-> 100]
          /\ IF Accepts(choice) /\ Assembles(env, choice.device, choice.mimic)
             THEN /\ built' = [status |-> "built", environment |-> env,
                               limits |-> IF env.task.joint.kind = "level"
                                          THEN [min |-> 0, max |-> 320] ELSE limits,
                               mimic |-> choice.mimic,
                               events |-> CombinedEvents(RobotEvents(env.embodiment),
                                             SceneEvents(env, solved), env.task.events)]
                  /\ cells' = [e \in Envs |->
                        [root |-> [b \in {a.body : a \in {x \in Assets(env) : Movable(x)}} |-> "default"],
                         joint |-> 0, robot |-> "default", control |-> "fresh"]]
             ELSE built' = [status |-> "failed"] /\ UNCHANGED cells
   /\ fresh' = {}
   /\ UNCHANGED registryVars

\* env.reset().
Reset ==
   /\ built.status = "built"
   /\ cells' = ResetIn(cells, Envs)
   /\ fresh' = Envs
   /\ UNCHANGED <<built, registryVars>>

\* env.step(): everything may have moved, and each copy that has succeeded, timed out
\* or dropped its object is reset within the step.
Step ==
   /\ built.status = "built"
   /\ \E joints \in [Envs -> Spots], done \in SUBSET Envs :
         LET moved == [e \in Envs |-> [root |-> [b \in DOMAIN cells[e].root |-> "moved"],
                                       joint |-> joints[e], robot |-> "moved",
                                       control |-> IF Walks(Env.embodiment) THEN "used" ELSE "fresh"]]
         IN  /\ {e \in Envs : JointDone(joints[e])} \subseteq done
             /\ done /= {} => Env.task.terminates
             /\ cells' = ResetIn(moved, done)
             /\ fresh' = done
   /\ UNCHANGED <<built, registryVars>>

CloseEnv ==
   /\ built.status /= "none"
   /\ built' = NotBuilt
   /\ cells' = [e \in Envs |-> [root |-> <<>>, joint |-> 0, robot |-> "default", control |-> "fresh"]]
   /\ fresh' = {}
   /\ UNCHANGED registryVars

ArenaInit ==
   /\ RegistryInit
   /\ built = NotBuilt
   /\ cells = [e \in Envs |-> [root |-> <<>>, joint |-> 0, robot |-> "default", control |-> "fresh"]]
   /\ fresh = {}

\* A process imports and reloads while no environment is open.
Registry == built.status = "none" /\ RegistryNext /\ UNCHANGED arenaVars

ArenaNext == \/ Registry \/ Reset \/ Step \/ CloseEnv
             \/ \E choice \in Requests, limits \in Limits : Build(choice, limits)

ArenaSpec == ArenaInit /\ [][ArenaNext]_worldVars
-----------------------------------------------------------------------------
(* Properties *)

\* Every environment of the command line assembles, with its documented robots and
\* objects and in the documented data generation workflows, whenever in a process the
\* registries were filled, and after any reload: all its names are registered, the
\* robot takes the options it is given ("camera_offset" of
\* gr1_put_and_close_door_environment.py:103), and its events, terminations and mimic
\* configuration name what is in the scene.
EveryEnvironmentAssembles == built.status /= "failed"

\* One entity stands for the body.
Sole(env, body) == \A a, b \in Assets(env) : a.body = body /\ b.body = body => a = b

\* Where a reset is to leave a body: where the task samples it, where its asset says,
\* or where the scene puts it when the task turned that off.
Expected(env, asset) ==
   CASE asset.name \in env.task.sampled -> "sampled"
     [] asset.name \in env.task.disabled -> "default"
     [] OTHER -> asset.declared

\* What the joint reads as, in the terms of the task's reset.
JointReads(q) ==
   CASE Joint.kind \in {"open", "closed"} -> get_normalized_joint_position(built.limits, q)
     [] Joint.kind = "pressed" -> 100 - get_normalized_joint_position(built.limits, q)
     [] Joint.kind = "level" -> get_turning_level(stand_mixer, q)
     [] OTHER -> 0

\* After a reset, of one copy or of all, everything is where it was declared to be: the
\* robot back, each body at the pose its asset was given or its task samples, the joint
\* where the task resets it, though the robot's event clears the joints of every
\* articulation (utils/isaaclab_utils/resets.py:11) and a task's may put the whole
\* scene back (assembly_task.py:181), so that it depends on the order in which the
\* events were combined (arena_env_builder.py:153).  ("We use specialize randomization
\* at reset for this task. So disable default pose resets", assembly_task.py:54.)
AsDeclared ==
   built.status = "built" =>
      \A e \in fresh :
         /\ cells[e].robot /= "moved"
         /\ cells[e].control = "fresh"
         /\ Joint.kind /= "none" => JointReads(cells[e].joint) = Joint.reset
         /\ \A a \in Assets(Env) : Movable(a) /\ Sole(Env, a.body) /\ a.declared /= "none" =>
               cells[e].root[a.body] = Expected(Env, a)

\* No episode is over as it begins: what the reset events leave does not satisfy the
\* joint's success condition, whichever way the joint turns.
FreshNotDone ==
   built.status = "built" => \A e \in fresh : ~JointDone(cells[e].joint)

Eefs == get_mimic_env_cfg(Env.task, Env.arm).eefs

\* Data generation, in the workflows that are documented: the robot's environment takes
\* the targets of exactly the end effectors the task has subtasks for, it observes each
\* of them and reports the pose of every object the subtasks are relative to, and takes
\* out of an action, as wide as the robot's, what it packed in (franka.py:469,
\* gr1t2.py:476, g1.py:647).
MimicAgrees ==
   (built.status = "built" /\ built.mimic) =>
      LET e == Env.embodiment
          action == target_eef_pose_to_action(MimicEnv(e))
          poses == action_to_target_eef_pose(MimicEnv(e), action)
          grippers == actions_to_gripper_actions(MimicEnv(e), action)
      IN  /\ TakesTargetsOf(e, DOMAIN Eefs)
          /\ Len(action) = ActionWidth(e)
          /\ \A x \in DOMAIN Eefs :
                /\ get_robot_eef_pose_works(e, x)
                /\ Eefs[x] /= <<>>
                /\ \A ref \in ToSet(Eefs[x]) :
                      \E a \in Assets(Env) : a.name = ref /\ a.kind \in ReportedKinds(e)
          /\ \A f \in DOMAIN poses : poses[f] = Field(f, Len(poses[f])) /\ poses[f] /= <<>>
          /\ \A f \in DOMAIN grippers : grippers[f] = Field(f, Len(grippers[f])) /\ grippers[f] /= <<>>

\* After a reset every object with a pose is at that pose.  Of the container: "Placing
\* container on the white table in Galileo room"
\* (table_pick_and_place_environment.py:56).
DeclaredPoseKept ==
   built.status = "built" =>
      \A e \in fresh : \A a \in Assets(Env) :
         (Movable(a) /\ a.declared \in {"pose", "range"} /\
          a.name \notin Env.task.sampled \cup Env.task.disabled) =>
            cells[e].root[a.body] = a.declared

\* A copy that resets leaves the others' controller alone: "env_ids: List[int]: The
\* environment ids to reset" (g1_homie_policy.py:64).
OthersKeepControl ==
   [][(built.status = "built" /\ Step) =>
         (Walks(Env.embodiment) /\ fresh' /= {} => \A e \in Envs \ fresh' : cells'[e].control = "used")]_worldVars
===============================================================================

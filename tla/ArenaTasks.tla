------------------------------- MODULE ArenaTasks -------------------------------
(***************************************************************************)
(* The tasks (tasks/): for each, what it adds to the scene, the entities   *)
(* its terminations look at, the joint its success depends on, the events  *)
(* of a reset, and the subtasks it gives to data generation.  Rewards,     *)
(* metrics, viewers and thresholds on forces and distances are left out.   *)
(***************************************************************************)
EXTENDS Embodiments, SequencesExt

\* The joint a task is about: success by kind at goal, reset to the value reset.
NoJoint == [kind |-> "none", object |-> "none", goal |-> 0, reset |-> 0]

\* A task that does nothing.  sensors: <<contact sensor, object, destination>>;
\* watched: the entities of its terminations and commands; sampled: those its
\* events place at random; disabled: those whose own reset it turns off; mimic:
\* one [refs, idle] per task of a sequence.
BareTask == [sensors |-> {}, watched |-> {}, joint |-> NoJoint, events |-> <<>>,
             sampled |-> {}, disabled |-> {}, mimic |-> <<>>, mimicArms |-> "none",
             terminates |-> TRUE]

\* The mimic configuration by arm: the object each subtask of the arm that works
\* is relative to, and the one the other arm, which is static, stays relative to.
ByArm(refs, idle) == <<[refs |-> refs, idle |-> idle]>>

\* NoTask has no terminations, not even a time-out.
NoTask == [BareTask EXCEPT !.terminates = FALSE]

PickPlaceMimicEnvCfg(object, destination) == ByArm(<<object, destination>>, object)

PickAndPlaceTask(object, destination, destination_object) ==
   [BareTask EXCEPT
       !.sensors = {<<"pick_up_object_contact_sensor", object, destination>>},
       !.watched = {object, "pick_up_object_contact_sensor"},
       !.mimic = PickPlaceMimicEnvCfg(object, destination_object),
       \* destination_object.name is read without asking whether there is one
       !.mimicArms = IF destination_object = "none" THEN "none" ELSE "arm"]

RotateRevoluteJointTask(kind, object, threshold, reset) ==
   [BareTask EXCEPT
       !.watched = {object},
       !.joint = [kind |-> kind, object |-> object, goal |-> threshold, reset |-> reset],
       !.events = <<Event("reset_openable_object_revolute_joint_percentage",
                          "rotate_revolute_joint", object)>>]

RotateDoorMimicEnvCfg(object) == ByArm(<<object, object>>, object)

OpenDoorTask(object, threshold, reset) ==
   [RotateRevoluteJointTask("open", object, threshold, reset) EXCEPT
       !.mimic = RotateDoorMimicEnvCfg(object), !.mimicArms = "arm"]
CloseDoorTask(object, threshold, reset) ==
   [RotateRevoluteJointTask("closed", object, threshold, reset) EXCEPT
       !.mimic = RotateDoorMimicEnvCfg(object), !.mimicArms = "arm"]

\* reset_pressedness is how far it is unpressed.  The threshold is the object's own: one
\* given to the task is passed on as "threshold", a parameter is_pressed does not have.
PressButtonTask(object, pressedness_threshold, reset_pressedness) ==
   [BareTask EXCEPT
       !.watched = {object},
       !.joint = [kind |-> "pressed", object |-> object, goal |-> pressedness_threshold,
                  reset |-> reset_pressedness],
       !.events = <<Event("reset_button_state", "unpress", object)>>]

TurnKnobTask(object, target_level, reset_level) ==
   [BareTask EXCEPT
       !.watched = {object},
       !.joint = [kind |-> "level", object |-> object, goal |-> target_level,
                  reset |-> reset_level],
       !.events = <<Event("reset_knob_state", "turn_to_level", object)>>]

GoalPoseTask(object) == [BareTask EXCEPT !.watched = {object}]

\* What its observations, its command and its rewards look at.
LiftObjectObservationsCfg(object, robot) == {object, robot}
LiftObjectCommandsCfg(robot) == {robot}
LiftObjectRewardCfg(object, robot, ee_frame) == {object, robot, ee_frame}

LiftObjectTask(object) == [BareTask EXCEPT !.watched = {object}]
LiftObjectTaskRL(object, embodiment) ==
   [LiftObjectTask(object) EXCEPT
       !.watched = @ \cup LiftObjectObservationsCfg(object, "robot") \cup
                   LiftObjectCommandsCfg("robot") \cup
                   LiftObjectRewardCfg(object, "robot", get_ee_frame_name(embodiment))]

SortMultiObjectTask(objects, destinations) ==
   [BareTask EXCEPT
       !.sensors = {<<"contact_sensor_" \o objects[i], objects[i], destinations[i]>> :
                       i \in DOMAIN objects},
       !.watched = UNION {{objects[i], "contact_sensor_" \o objects[i]} : i \in DOMAIN objects}]

\* The object is named in the configuration, whatever the task's object is.
RightArmSubtasks == <<"brown_box", "brown_box", "brown_box">>
LeftArmSubtasks == <<"brown_box", "brown_box", "brown_box">>
BodySubtasks == <<"brown_box", "brown_box", "brown_box", "brown_box">>

G1LocomanipPickAndPlaceTask(object, bin) ==
   [BareTask EXCEPT
       !.watched = {object, bin},
       !.mimic = <<[left |-> LeftArmSubtasks, right |-> RightArmSubtasks, body |-> BodySubtasks]>>,
       !.mimicArms = "g1"]

\* The events that reset all and then place the task's objects at random.
ResetAndSample(name, func) ==
   <<Event("reset_all", "reset_scene_to_default", "none"), Event(name, func, "none")>>

\* The assets that get a new pose: in the mode that aligns them, the auxiliary ones
\* get the fixed asset's.
randomize_poses_and_align_auxiliary_assets(assets, auxiliary, aligned) ==
   ToSet(assets) \cup (IF aligned THEN ToSet(auxiliary) ELSE {})

AssemblyTask(fixed, held, auxiliary, aligned) ==
   [BareTask EXCEPT
       !.watched = {fixed, held},
       !.disabled = ToSet(<<fixed, held>> \o auxiliary),
       !.sampled = randomize_poses_and_align_auxiliary_assets(<<fixed, held>>, auxiliary, aligned),
       !.events = ResetAndSample("randomize_asset_positions",
                     "randomize_poses_and_align_auxiliary_assets")]

PlaceUprightMimicEnvCfg(object) == ByArm(<<object, object>>, object)

PlaceUprightTask(object) ==
   [BareTask EXCEPT !.watched = {object},
                    !.mimic = PlaceUprightMimicEnvCfg(object), !.mimicArms = "arm"]
-----------------------------------------------------------------------------
(* Sequential tasks *)

\* Each part of the tasks in turn, with the events of the i-th renamed.
Renamed(events, i) ==
   [k \in DOMAIN events |->
      [events[k] EXCEPT !.name = @ \o "_subtask_" \o (IF i = 1 THEN "0" ELSE "1")]]

\* arms: "arm", or the one arm the task has its own get_mimic_env_cfg for.  Of two
\* tasks, the joint is the second's.
SequentialTaskBase(first, second, arms) ==
   [BareTask EXCEPT
       !.sensors = first.sensors \cup second.sensors,
       !.watched = first.watched \cup second.watched,
       !.joint = second.joint,
       !.events = Renamed(first.events, 1) \o Renamed(second.events, 2) \o
                  <<Event("reset_subtask_success_state", "reset_subtask_success_state", "none")>>,
       !.mimic = first.mimic \o second.mimic,
       !.mimicArms = arms]
-----------------------------------------------------------------------------
(* get_mimic_env_cfg(arm_mode): whether it answers, and the subtasks of each   *)
(* end effector, as the objects they are relative to                           *)

\* A wrong form: only the arm that works.
OneArmOnly(task, arm) ==
   [ok |-> TRUE, eefs |-> [x \in {arm} |-> FlattenSeq([i \in DOMAIN task.mimic |-> task.mimic[i].refs])]]

EefsOfArms(task, arm) ==
   LET refs == FlattenSeq([i \in DOMAIN task.mimic |-> task.mimic[i].refs])
       idle == [i \in DOMAIN task.mimic |-> task.mimic[i].idle]
   IN  IF arm = SINGLE_ARM THEN [ok |-> TRUE, eefs |-> [x \in {"robot"} |-> refs]]
       ELSE [ok |-> arm \in {LEFT, RIGHT},
             eefs |-> [x \in {arm, get_other_arm(arm)} |-> IF x = arm THEN refs ELSE idle]]

get_mimic_env_cfg(task, arm) ==
   CASE task.mimicArms = "arm" -> EefsOfArms(task, arm)
     [] task.mimicArms = "right" -> EefsOfArms(task, RIGHT)
     [] task.mimicArms = "g1" -> [ok |-> TRUE, eefs |-> [x \in {LEFT, RIGHT, "body"} |-> task.mimic[1][x]]]
     [] OTHER -> [ok |-> FALSE, eefs |-> <<>>]
===============================================================================

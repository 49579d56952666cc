------------------------------ MODULE Embodiments ------------------------------
(***************************************************************************)
(* The robots (embodiments/): what each adds to the scene, which options   *)
(* its constructor takes, the events that bring it back at a reset, the    *)
(* end effectors it observes, and how the environment that generates data  *)
(* with it packs targets into an action and takes them out again.          *)
(*                                                                         *)
(* Joint names, gains, camera poses and controllers are left out.  Franka, *)
(* DROID, Agibot, Galbot and GR1 stand on a fixed base; G1 walks.          *)
(***************************************************************************)
EXTENDS AssetLibrary, Sequences, SequencesExt

Droids == {"droid_differential_ik", "droid_rel_joint_pos", "droid_abs_joint_pos"}
Frankas == {"franka", "franka_joint"}
GR1s == {"gr1", "gr1_joint", "gr1_pink"}
G1s == {"g1_wbc_joint", "g1_wbc_pink"}

\* The registered embodiments; "gr1" has no action config.
EmbodimentNames == UNION {Droids, Frankas, GR1s, G1s, {"agibot", "galbot"}}
-----------------------------------------------------------------------------
(* Construction *)

SINGLE_ARM == "single_arm"
DUAL_ARM == "dual_arm"
LEFT == "left"
RIGHT == "right"

get_other_arm(arm) == IF arm = LEFT THEN RIGHT ELSE LEFT

default_arm_mode(e) ==
   CASE e \in Droids \cup Frankas -> SINGLE_ARM
     [] e \in GR1s -> RIGHT
     [] e \in G1s -> DUAL_ARM
     [] OTHER -> LEFT

\* The options a constructor takes besides enable_cameras and initial_pose.
ArmOptions == {"concatenate_observation_terms", "arm_mode"}
FrankaEmbodiment == ArmOptions \cup {"initial_joint_pose", "camera_offset", "is_tiled_camera"}
DroidEmbodimentBase == ArmOptions \cup {"initial_joint_pose"}
GR1T2EmbodimentBase == ArmOptions
AgibotEmbodiment == {"arm_mode"}
GalbotEmbodiment == {"arm_mode"}
\* A wrong form: no camera offset, as before the environments passed one.
WithoutOffset == {"use_tiled_camera"}
GR1T2Variant == {"camera_offset", "use_tiled_camera"}
G1Variant == {"camera_offset", "use_tiled_camera"}

Options(e) ==
   CASE e \in Frankas -> FrankaEmbodiment
     [] e \in Droids -> DroidEmbodimentBase
     [] e = "gr1" -> GR1T2EmbodimentBase
     [] e = "agibot" -> AgibotEmbodiment
     [] e = "galbot" -> GalbotEmbodiment
     [] e \in G1s -> G1Variant
     [] OTHER -> GR1T2Variant

\* Galbot's right arm is a suction cup that is not supported.
Constructible(e, options, arm) ==
   /\ options \subseteq Options(e)
   /\ e = "galbot" => arm = LEFT

\* The entities of the scene configs.
FrankaSceneCfg == {"robot", "ee_frame"}
DroidSceneCfg == {"robot", "stand", "ee_frame"}
AgibotSceneCfg == {"robot", "ee_frame"}
GalbotSceneCfg == {"robot", "ee_frame"}
GR1T2SceneCfg == {"robot"}
GR1T2HighPDSceneCfg == {"robot"}
G1SceneCfg == {"robot"}

RobotEntities(e) ==
   CASE e \in Frankas -> FrankaSceneCfg
     [] e \in Droids -> DroidSceneCfg
     [] e = "agibot" -> AgibotSceneCfg
     [] e = "galbot" -> GalbotSceneCfg
     [] e = "gr1_joint" -> GR1T2HighPDSceneCfg
     [] e \in G1s -> G1SceneCfg
     [] OTHER -> GR1T2SceneCfg

\* Those of the camera configs; Agibot and Galbot have none.
FrankaCameraCfg == {"wrist_cam", "left_cam", "right_cam"}
DroidCameraCfg == {"external_camera", "external_camera_2", "wrist_camera"}
GR1T2CameraCfg == {"robot_pov_cam"}
G1CameraCfg == {"robot_head_cam"}

Cameras(e) ==
   CASE e \in Frankas -> FrankaCameraCfg
     [] e \in Droids -> DroidCameraCfg
     [] e \in GR1s -> GR1T2CameraCfg
     [] e \in G1s -> G1CameraCfg
     [] OTHER -> {}

get_scene_cfg(e, enable_cameras) ==
   RobotEntities(e) \cup (IF enable_cameras THEN Cameras(e) ELSE {})

\* The terms of the policy group of the observations.
FrankaObservationsCfg == {"actions", "robot_joint_pos", "joint_pos", "joint_vel", "eef_pos",
                          "eef_quat", "gripper_pos"}
DroidObservationsCfg == {"actions", "robot_joint_pos", "joint_pos", "gripper_pos", "eef_pos",
                         "eef_quat"}
AgibotObservationsCfg == {"actions", "joint_pos", "joint_vel", "eef_pos", "eef_quat",
                          "left_gripper_pos", "right_gripper_pos"}
GalbotObservationsCfg == AgibotObservationsCfg \ {"right_gripper_pos"}
GR1T2ObservationsCfg == {"actions", "robot_joint_pos", "robot_root_pos", "robot_root_rot",
                         "robot_links_state", "left_eef_pos", "left_eef_quat", "right_eef_pos",
                         "right_eef_quat", "hand_joint_state", "head_joint_state"}
G1WBCJointObservationsCfg == {"actions", "robot_joint_pos", "robot_joint_vel",
                              "right_wrist_pose_pelvis_frame", "left_wrist_pose_pelvis_frame"}
G1WBCPinkObservationsCfg == (G1WBCJointObservationsCfg \ {"robot_joint_vel"}) \cup
                            {"left_eef_pos", "left_eef_quat", "right_eef_pos", "right_eef_quat",
                             "body_eef_pos", "body_eef_quat", "robot_pos", "robot_quat"}

PolicyObservations(e) ==
   CASE e \in Frankas -> FrankaObservationsCfg
     [] e \in Droids -> DroidObservationsCfg
     [] e = "agibot" -> AgibotObservationsCfg
     [] e = "galbot" -> GalbotObservationsCfg
     [] e \in GR1s -> GR1T2ObservationsCfg
     [] e = "g1_wbc_joint" -> G1WBCJointObservationsCfg
     [] OTHER -> G1WBCPinkObservationsCfg

\* The widths of the action terms: what drives the arms, then the grippers.
FrankaActionsCfg == <<6, 1>>
FrankaJointPositionActionsCfg == <<8>>
DroidDifferentialIKActionsCfg == <<6, 1>>
DroidRelativeJointPositionActionsCfg == <<7, 1>>
DroidAbsoluteJointPositionActionsCfg == <<7, 1>>
AgibotArmActionsCfg == <<6, 1>>
GalbotLeftArmActionsCfg == <<6, 1>>
GR1T2JointPositionActionCfg == <<14, 22>>      \* ARM_JOINT_NAMES_LIST
GR1T2ActionsCfg == <<14, 22>>                  \* Pink IK: both wrists, then the hands
G1WBCJointActionCfg == <<43, 3, 1, 3>>
G1WBCPinkActionCfg == <<1, 1, 3, 4, 3, 4, 3, 1, 3>>

ActionTerms(e) ==
   CASE e = "franka" -> FrankaActionsCfg
     [] e = "franka_joint" -> FrankaJointPositionActionsCfg
     [] e = "droid_differential_ik" -> DroidDifferentialIKActionsCfg
     [] e = "droid_rel_joint_pos" -> DroidRelativeJointPositionActionsCfg
     [] e = "droid_abs_joint_pos" -> DroidAbsoluteJointPositionActionsCfg
     [] e = "agibot" -> AgibotArmActionsCfg
     [] e = "galbot" -> GalbotLeftArmActionsCfg
     [] e = "gr1_joint" -> GR1T2JointPositionActionCfg
     [] e = "gr1_pink" -> GR1T2ActionsCfg
     [] e = "g1_wbc_joint" -> G1WBCJointActionCfg
     [] e = "g1_wbc_pink" -> G1WBCPinkActionCfg
     [] OTHER -> <<>>                           \* gr1 has no action config

ActionWidth(e) == FoldLeft(+, 0, ActionTerms(e))

\* The frame of the gripper, "" where an embodiment names none.
get_ee_frame_name(e) == IF e \in Droids \cup Frankas THEN "ee_frame" ELSE ""

Walks(e) == e \in G1s
-----------------------------------------------------------------------------
(* Events at a reset, in the order of the config's fields *)

\* func, called with asset; pose is what becomes of the asset's body.
Event(name, func, asset) == [name |-> name, func |-> func, asset |-> asset, pose |-> "none"]

FrankaEventCfg == <<Event("init_franka_arm_pose", "set_default_joint_pose", "robot"),
                    Event("randomize_franka_joint_state",
                          "randomize_joint_by_gaussian_offset", "robot")>>
DroidEventCfg == FrankaEventCfg
GalbotEventCfg == <<Event("randomize_galbot_joint_state",
                          "randomize_joint_by_gaussian_offset", "robot")>>
GR1T2EventCfg == <<Event("reset_all", "reset_all_articulation_joints", "robot")>>
G1WBCEventCfg == GR1T2EventCfg \o <<Event("reset_wbc_policy", "reset_wbc_policy", "robot")>>

RobotEvents(e) ==
   CASE e \in Frankas -> FrankaEventCfg
     [] e \in Droids -> DroidEventCfg
     [] e \in GR1s -> GR1T2EventCfg
     [] e \in G1s -> G1WBCEventCfg
     [] e = "galbot" -> GalbotEventCfg
     [] OTHER -> <<>>
-----------------------------------------------------------------------------
(* Generating data (the Mimic environments) *)

\* mimic_env; None for DROID and Galbot.
MimicEnv(e) ==
   CASE e \in Frankas -> "franka"
     [] e = "agibot" -> "agibot"
     [] e \in GR1s -> "gr1"
     [] e \in G1s -> "g1"
     [] OTHER -> "none"

\* get_robot_eef_pose reads these terms of the policy group.  Franka's and Agibot's
\* name no end effector: they answer for any.
EefTerms(e, eef) ==
   IF MimicEnv(e) \in {"franka", "agibot"} THEN {"eef_pos", "eef_quat"}
   ELSE CASE eef = LEFT -> {"left_eef_pos", "left_eef_quat"}
          [] eef = RIGHT -> {"right_eef_pos", "right_eef_quat"}
          [] eef = "body" -> {"body_eef_pos", "body_eef_quat"}

get_robot_eef_pose_works(e, eef) == EefTerms(e, eef) \subseteq PolicyObservations(e)

\* target_eef_pose_to_action takes the poses of exactly these end effectors, or of
\* the only one there is.
TakesTargetsOf(e, eefs) ==
   CASE MimicEnv(e) \in {"franka", "agibot"} -> \E x \in eefs : eefs = {x}
     [] MimicEnv(e) = "gr1" -> {LEFT, RIGHT} \subseteq eefs
     [] MimicEnv(e) = "g1" -> {LEFT, RIGHT, "body"} \subseteq eefs
     [] OTHER -> FALSE

\* The kinds of scene entities get_object_poses reports.
ReportedKinds(e) == IF MimicEnv(e) = "g1" THEN {"rigid"} ELSE {"rigid", "articulation"}

Field(name, width) == [i \in 1 .. width |-> <<name, i>>]

\* The action, as the fields target_eef_pose_to_action concatenates.
target_eef_pose_to_action(mimic) ==
   CASE mimic = "gr1" -> Field("left_pos", 3) \o Field("left_quat", 4) \o
                         Field("right_pos", 3) \o Field("right_quat", 4) \o
                         Field("left_gripper", 11) \o Field("right_gripper", 11)
     [] mimic = "g1" -> Field("left_gripper", 1) \o Field("right_gripper", 1) \o
                        Field("left_pos", 3) \o Field("left_quat", 4) \o
                        Field("right_pos", 3) \o Field("right_quat", 4) \o
                        Field("body_gripper", 7)
     [] OTHER -> Field("eef_pos", 3) \o Field("eef_rot", 3) \o Field("eef_gripper", 1)

Slice(action, first, last) == SubSeq(action, first + 1, last)

\* What action_to_target_eef_pose takes for the poses.  The deltas of Franka are
\* added to the pose the target was compared with.
action_to_target_eef_pose(mimic, action) ==
   CASE mimic = "gr1" -> [left_pos |-> Slice(action, 0, 3), left_quat |-> Slice(action, 3, 7),
                          right_pos |-> Slice(action, 7, 10), right_quat |-> Slice(action, 10, 14)]
     [] mimic = "g1" -> [left_pos |-> Slice(action, 2, 5), left_quat |-> Slice(action, 5, 9),
                         right_pos |-> Slice(action, 9, 12), right_quat |-> Slice(action, 12, 16)]
     [] OTHER -> [eef_pos |-> Slice(action, 0, 3), eef_rot |-> Slice(action, 3, 6)]

\* What actions_to_gripper_actions takes for the grippers.
actions_to_gripper_actions(mimic, action) ==
   CASE mimic = "gr1" -> [left_gripper |-> Slice(action, 14, 25),
                          right_gripper |-> Slice(action, 25, Len(action))]
     [] mimic = "g1" -> [left_gripper |-> Slice(action, 0, 1), right_gripper |-> Slice(action, 1, 2),
                         body_gripper |-> Slice(action, Len(action) - 7, Len(action))]
     [] OTHER -> [eef_gripper |-> Slice(action, Len(action) - 1, Len(action))]
===============================================================================

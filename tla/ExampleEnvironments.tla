-------------------------- MODULE ExampleEnvironments --------------------------
(***************************************************************************)
(* The example environments (isaaclab_arena_environments/): the assets of  *)
(* each scene in order, its robot, and its task, as get_env assembles them *)
(* from the registries for the command line's choices.                     *)
(*                                                                         *)
(* What is kept of an asset's pose is how a reset is to bring it there:    *)
(* "pose", "range" (sampled anew), "relative" (the relation solver's), or  *)
(* "none".  Positions, viewers and simulation parameters are left out.     *)
(***************************************************************************)
EXTENDS ArenaTasks

\* An asset of the registries.  declared: how its pose is given; event: what its
\* reset event, built when the pose was set, brings it back to.
Asset(name, pose) ==
   [name |-> name, body |-> name, kind |-> ObjectType(name), library |-> TRUE,
    declared |-> pose, event |-> pose]

\* A background, or a table, with its own pose or the one it is given.
Room(name) == Asset(name, "pose")

\* Where a prim is: in the world, or in its parent's frame while that has no pose.
PoseUnder(parent) == IF parent.declared = "none" THEN "origin" ELSE "pose"

\* An ObjectReference to a prim of a parent.  Its event, made with it, holds the pose
\* it has then, as the parent is then; the one declared is as the parent is now.
ObjectReference(name, kind, body, then, now) ==
   [name |-> name, body |-> body, kind |-> kind, library |-> FALSE,
    declared |-> PoseUnder(now), event |-> PoseUnder(then)]

Environment(embodiment, options, scene, task) ==
   [embodiment |-> embodiment, options |-> options, arm |-> default_arm_mode(embodiment),
    scene |-> scene, task |-> task]

Optional(object) == IF object = "none" THEN <<>> ELSE <<Asset(object, "pose")>>

Light == Asset("light", "none")
-----------------------------------------------------------------------------
(* Environments, by embodiment and object *)

cube_goal_pose(e, object) ==
   Environment(e, {}, <<Room("table"), Light, Asset(object, "pose")>>, GoalPoseTask(object))

\* The reference named "table" is a rigid body, the anchor of both relations.
droid_pick_and_place_srl(e, object, destination) ==
   LET background == Asset("maple_table_robolab", "none")
   IN  Environment(e, {},
          <<background, Light, Asset(object, "relative"), Asset(destination, "relative"),
            ObjectReference("table", "rigid", "table", background, background)>>,
          PickAndPlaceTask(object, destination, "none"))

\* The disc, where the object is to be placed, is not in the scene.
franka_put_and_close_door(e, object) ==
   Environment(e, {}, <<Room("kitchen"), Asset("microwave", "pose"), Asset(object, "range")>>,
      SequentialTaskBase(PickAndPlaceTask(object, "microwave_disc", "microwave"),
                         CloseDoorTask("microwave", 5, 90), "arm"))

galileo_g1_locomanip_pick_and_place(e, object) ==
   Environment(e, {}, <<Room("galileo_locomanip"), Asset(object, "range"),
                        Asset("blue_sorting_bin", "pose")>>,
      G1LocomanipPickAndPlaceTask(object, "blue_sorting_bin"))

galileo_pick_and_place(e, object) ==
   Environment(e, {},
      <<Room("galileo"), Asset(object, "pose"),
        ObjectReference("destination_location", "base", "lid", Room("galileo"), Room("galileo"))>>,
      PickAndPlaceTask(object, "destination_location", "none"))

gr1_open_microwave(e, object) ==
   Environment(e, {}, <<Room("kitchen"), Asset("microwave", "pose")>> \o Optional(object),
      OpenDoorTask("microwave", 80, 20))

\* The object's solved pose becomes a range around it.
put_item_in_fridge_and_close_door(e, object) ==
   LET kitchen == Room("lightwheel_robocasa_kitchen")
   IN  Environment(e, {"camera_offset"},
          <<kitchen, ObjectReference("kitchen_counter_top", "base", "counter", kitchen, kitchen),
            Asset(object, "range"), Light,
            ObjectReference("refrigerator", "articulation", "refrigerator", kitchen, kitchen),
            ObjectReference("refrigerator_shelf", "base", "shelf", kitchen, kitchen)>>,
          SequentialTaskBase(PickAndPlaceTask(object, "refrigerator_shelf", "refrigerator"),
                             CloseDoorTask("refrigerator", 10, 50), "right"))

DEFAULT_TABLE_OBJECTS == <<"cracker_box", "mustard_bottle", "sugar_box", "tomato_soup_can",
                           "mug", "brown_box", "dex_cube">>

\* The tabletop, a reference named "table", has no physics of its own.
gr1_table_multi_object_no_collision(e) ==
   Environment(e, {"camera_offset", "use_tiled_camera"},
      <<Asset("ground_plane", "none"), Asset("office_table", "none"),
        ObjectReference("table", "base", "tabletop", Asset("office_table", "none"),
                        Asset("office_table", "none"))>> \o
      [i \in DOMAIN DEFAULT_TABLE_OBJECTS |-> Asset(DEFAULT_TABLE_OBJECTS[i], "relative")] \o
      <<Light>>,
      NoTask)

gr1_turn_stand_mixer_knob(e, object) ==
   Environment(e, {}, <<Room("kitchen"), Asset("stand_mixer", "pose")>> \o Optional(object),
      TurnKnobTask("stand_mixer", 4, -1))

kitchen_pick_and_place(e, object) ==
   LET kitchen == Room("kitchen")
   IN  Environment(e, {},
          <<kitchen, ObjectReference("table_top_reference", "base", "counter", kitchen, kitchen),
            Asset(object, "relative"),
            ObjectReference("destination_location", "rigid", "drawer", kitchen, kitchen)>>,
          PickAndPlaceTask(object, "destination_location", "none"))

lift_object(e, object) ==
   Environment(e, {"concatenate_observation_terms"},
      <<Room("table"), Asset(object, "pose"), Asset("ground_plane", "pose"), Light>>,
      LiftObjectTaskRL(object, e))

press_button(e) ==
   Environment(e, {}, <<Room("packing_table"), Asset("coffee_machine", "pose")>>,
      PressButtonTask("coffee_machine", 50, 80))

tabletop_sort_cubes(e, objects, destinations) ==
   Environment(e, {},
      <<Room("table"), Light>> \o [i \in 1 .. 2 |-> Asset(objects[i], "pose")] \o
      [i \in 1 .. 2 |-> Asset(destinations[i], "pose")],
      SortMultiObjectTask(objects, destinations))

\* The reference to the whole container is made before the container has its pose.
table_pick_and_place(e, object) ==
   Environment(e, {},
      <<Room("galileo"), Asset(object, "range"), Asset("red_container", "pose"),
        ObjectReference("destination_location", "rigid", "red_container",
                        Asset("red_container", "none"), Asset("red_container", "pose"))>>,
      PickAndPlaceTask(object, "destination_location", "red_container"))

gear_mesh(e) ==
   Environment(e, {},
      <<Room("table"), Asset("gear_base", "pose"), Asset("medium_gear", "pose"),
        Asset("small_gear", "pose"), Asset("large_gear", "pose"), Light>>,
      AssemblyTask("gear_base", "medium_gear", <<"small_gear", "large_gear">>, TRUE))

peg_insert(e, object, destination) ==
   Environment(e, {}, <<Room("table"), Asset(object, "pose"), Asset(destination, "pose"), Light>>,
      AssemblyTask(object, destination, <<>>, FALSE))

\* The events are the environment's own, and name the mug whatever the object is.
tabletop_place_upright(e, object) ==
   Environment(e, {"arm_mode"},
      <<Room("table"), Asset(object, "pose"), Asset("ground_plane", "none"), Light>>,
      [PlaceUprightTask(object) EXCEPT
          !.sampled = {"mug"},
          !.events = ResetAndSample("randomize_mug_positions", "randomize_object_pose")])
-----------------------------------------------------------------------------
(* The command line (cli.py): get_env of the environment it names *)

\* The robots some of them are restricted to.
Accepts(args) ==
   CASE args.name \in {"gr1_open_microwave", "gr1_turn_stand_mixer_knob"} ->
           args.embodiment \in {"gr1_pink", "gr1_joint"}
     [] args.name = "tabletop_sort_cubes" -> args.embodiment = "franka"
     [] args.name = "tabletop_place_upright" -> args.embodiment = "agibot"
     [] OTHER -> TRUE

get_env(args) ==
   CASE args.name = "cube_goal_pose" -> cube_goal_pose(args.embodiment, args.object)
     [] args.name = "droid_pick_and_place_srl" ->
           droid_pick_and_place_srl(args.embodiment, args.object, "bowl_ycb_robolab")
     [] args.name = "franka_put_and_close_door" -> franka_put_and_close_door(args.embodiment, args.object)
     [] args.name = "galileo_g1_locomanip_pick_and_place" ->
           galileo_g1_locomanip_pick_and_place(args.embodiment, args.object)
     [] args.name = "galileo_pick_and_place" -> galileo_pick_and_place(args.embodiment, args.object)
     [] args.name = "gr1_open_microwave" -> gr1_open_microwave(args.embodiment, args.object)
     [] args.name = "put_item_in_fridge_and_close_door" ->
           put_item_in_fridge_and_close_door(args.embodiment, args.object)
     [] args.name = "gr1_table_multi_object_no_collision" ->
           gr1_table_multi_object_no_collision(args.embodiment)
     [] args.name = "gr1_turn_stand_mixer_knob" -> gr1_turn_stand_mixer_knob(args.embodiment, args.object)
     [] args.name = "kitchen_pick_and_place" -> kitchen_pick_and_place(args.embodiment, args.object)
     [] args.name = "lift_object" -> lift_object(args.embodiment, args.object)
     [] args.name = "press_button" -> press_button(args.embodiment)
     [] args.name = "tabletop_sort_cubes" ->
           tabletop_sort_cubes(args.embodiment, <<"red_cube", "green_cube">>,
                               <<"red_container", "green_container">>)
     [] args.name = "table_pick_and_place" -> table_pick_and_place(args.embodiment, args.object)
     [] args.name = "gear_mesh" -> gear_mesh(args.embodiment)
     [] args.name = "peg_insert" -> peg_insert(args.embodiment, args.object, "hole")
     [] args.name = "tabletop_place_upright" -> tabletop_place_upright(args.embodiment, args.object)
===============================================================================

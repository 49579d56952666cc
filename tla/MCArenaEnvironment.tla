-------------------------- MODULE MCArenaEnvironment --------------------------
(* Every example environment, with its defaults and as the documentation runs *)
(* it, in two copies, with a joint that opens either way.                     *)
EXTENDS ArenaEnvironment

Ask(name, embodiment, object, device, mimic) ==
   [name |-> name, embodiment |-> embodiment, object |-> object, device |-> device, mimic |-> mimic]
Plain(name, embodiment, object) == Ask(name, embodiment, object, "none", FALSE)

Defaults ==
   {Plain("cube_goal_pose", "franka", "dex_cube"),
    Plain("droid_pick_and_place_srl", "droid_abs_joint_pos", "rubiks_cube_hot3d_robolab"),
    Plain("franka_put_and_close_door", "franka", "dex_cube"),
    Plain("galileo_g1_locomanip_pick_and_place", "g1_wbc_pink", "brown_box"),
    Plain("galileo_pick_and_place", "gr1_pink", "power_drill"),
    Plain("gr1_open_microwave", "gr1_pink", "none"),
    Plain("gr1_table_multi_object_no_collision", "gr1_joint", "none"),
    Plain("gr1_turn_stand_mixer_knob", "gr1_pink", "none"),
    Plain("kitchen_pick_and_place", "franka", "cracker_box"),
    Plain("lift_object", "franka", "dex_cube"),
    Plain("press_button", "franka", "none"),
    Plain("tabletop_sort_cubes", "franka", "none"),
    Plain("gear_mesh", "franka", "none"),
    Plain("peg_insert", "franka", "peg"),
    Ask("tabletop_place_upright", "agibot", "mug", "keyboard", FALSE)}

\* The workflows of docs/pages/example_workflows/ and the jobs of eval_jobs_configs/.
Workflows ==
   {Plain("gr1_open_microwave", "gr1_joint", "tomato_soup_can"),
    Ask("gr1_open_microwave", "gr1_pink", "none", "none", TRUE),
    Ask("galileo_g1_locomanip_pick_and_place", "g1_wbc_pink", "brown_box", "openxr", FALSE),
    Ask("galileo_g1_locomanip_pick_and_place", "g1_wbc_pink", "brown_box", "none", TRUE),
    Plain("galileo_g1_locomanip_pick_and_place", "g1_wbc_joint", "brown_box"),
    Ask("put_item_in_fridge_and_close_door", "gr1_pink", "ranch_dressing_hope_robolab", "openxr", FALSE),
    Ask("put_item_in_fridge_and_close_door", "gr1_pink", "ranch_dressing_hope_robolab", "none", TRUE),
    Plain("put_item_in_fridge_and_close_door", "gr1_joint", "ranch_dressing_hope_robolab"),
    Ask("table_pick_and_place", "franka", "dex_cube", "keyboard", FALSE),
    Ask("table_pick_and_place", "franka", "dex_cube", "spacemouse", FALSE),
    Ask("table_pick_and_place", "franka", "dex_cube", "none", TRUE),
    Plain("table_pick_and_place", "franka_joint", "dex_cube"),
    Ask("kitchen_pick_and_place", "franka", "cracker_box", "spacemouse", FALSE),
    Plain("droid_pick_and_place_srl", "droid_differential_ik", "mustard_bottle")}

MCRequests == Defaults \cup Workflows
TablePickAndPlace == {Plain("table_pick_and_place", "franka", "dex_cube")}
G1Locomanip == {Plain("galileo_g1_locomanip_pick_and_place", "g1_wbc_pink", "brown_box")}
HandTracking == {Ask("gr1_open_microwave", "gr1_pink", "none", "avp_handtracking", FALSE)}

MCLimits == {[min |-> 0, max |-> 100], [min |-> -100, max |-> 0]}
===============================================================================

----------------------------- MODULE AssetLibrary -----------------------------
(***************************************************************************)
(* The names of the libraries that the registries hold                     *)
(* (assets/object_library.py, background_library.py, hdr_image_library.py, *)
(* device_library.py, retargeter_library.py), the kind of each object, the *)
(* pose a background has by default, and the affordances of the articulated*)
(* objects.  Files, scales, materials and masses are left out.             *)
(***************************************************************************)
EXTENDS Naturals

Groceries == {"cracker_box", "mustard_bottle", "sugar_box", "tomato_soup_can",
              "power_drill"}
Appliances == {"microwave", "coffee_machine", "stand_mixer"}
Furniture == {"office_table", "blue_sorting_bin", "blue_exhaust_pipe",
              "brown_box", "mug"}
Spawned == {"ground_plane", "sphere", "light"}
AssemblyParts == {"peg", "hole", "small_gear", "large_gear", "gear_base",
                  "medium_gear"}
SortingObjects == {"dex_cube", "broccoli", "sweet_potato", "jug", "beer_bottle",
                   "red_cube", "green_cube", "red_container", "green_container"}

\* The Robolab objects: basic blocks, fruits and vegetables, Handal tools, HOPE
\* groceries, HOT3D, Objaverse and YCB household objects.
BasicBlocks == {
   "blue_block_basic_robolab", "green_block_basic_robolab",
   "red_block_basic_robolab", "yellow_block_basic_robolab"}
FruitsVeggies == {
   "avocado01_fruits_veggies_robolab", "lemon_01_fruits_veggies_robolab",
   "lemon_02_fruits_veggies_robolab", "lime01_fruits_veggies_robolab",
   "lychee01_fruits_veggies_robolab", "orange_01_fruits_veggies_robolab",
   "orange_02_fruits_veggies_robolab", "pomegranate01_fruits_veggies_robolab",
   "red_onion_fruits_veggies_robolab"}
HandalTools == {
   "hammer_handal_robolab", "hammer_1_handal_robolab",
   "hammer_2_handal_robolab", "hammer_3_handal_robolab",
   "hammer_4_handal_robolab", "hammer_5_handal_robolab",
   "hammer_6_handal_robolab", "hammer_7_handal_robolab",
   "hammer_8_handal_robolab", "ladle_handal_robolab",
   "measuring_cups_handal_robolab", "measuring_cups_1_handal_robolab",
   "measuring_spoon_handal_robolab", "salad_tongs_handal_robolab",
   "serving_spoon_handal_robolab", "serving_spoons_handal_robolab",
   "spoon_handal_robolab", "spoon_1_handal_robolab", "spoon_2_handal_robolab"}
HopeA == {
   "alphabet_soup_can_hope_robolab", "bbq_sauce_bottle_hope_robolab",
   "butter_hope_robolab", "canned_mushrooms_hope_robolab",
   "canned_peaches_hope_robolab", "canned_tuna_hope_robolab",
   "chocolate_pudding_mix_hope_robolab", "corn_can_hope_robolab",
   "cream_cheese_hope_robolab", "granola_bars_hope_robolab",
   "green_beans_can_hope_robolab", "ketchup_bottle_hope_robolab",
   "macaroni_and_cheese_hope_robolab", "mayonnaise_bottle_hope_robolab",
   "milk_carton_hope_robolab", "mustard_bottle_hope_robolab",
   "oatmeal_raisin_cookies_hope_robolab"}
HopeB == {
   "orange_juice_carton_hope_robolab", "parmesan_cheese_canister_hope_robolab",
   "peas_and_carrots_hope_robolab", "pineapple_slices_can_hope_robolab",
   "pitted_cherries_hope_robolab", "popcorn_box_hope_robolab",
   "raisin_box_hope_robolab", "ranch_dressing_hope_robolab",
   "spaghetti_hope_robolab", "tomato_sauce_can_hope_robolab",
   "yogurt_cup_hope_robolab"}
Hot3dA == {
   "bbq_sauce_bottle_hot3d_robolab", "birdhouse_hot3d_robolab",
   "ceramic_mug_hot3d_robolab", "clay_plates_hot3d_robolab",
   "coffee_pot_hot3d_robolab", "computer_mouse_hot3d_robolab",
   "dumbbell_hot3d_robolab", "foam_roller_hot3d_robolab",
   "frozen_vegetable_block_hot3d_robolab", "frozen_waffles_hot3d_robolab",
   "glasses_hot3d_robolab", "keyboard_hot3d_robolab",
   "lizard_figurine_hot3d_robolab", "marker_hot3d_robolab",
   "megaphone_hot3d_robolab"}
Hot3dB == {
   "milk_carton_hot3d_robolab", "mug_hot3d_robolab",
   "mustard_bottle_hot3d_robolab", "orange_juice_carton_hot3d_robolab",
   "parmesan_cheese_canister_hot3d_robolab", "pitcher_hot3d_robolab",
   "potato_masher_hot3d_robolab", "remote_control_hot3d_robolab",
   "rubiks_cube_hot3d_robolab", "salad_dressing_bottle_hot3d_robolab",
   "smartphone_hot3d_robolab", "soup_can_hot3d_robolab",
   "spatula_hot3d_robolab", "storage_box_hot3d_robolab",
   "tomato_sauce_can_hot3d_robolab", "wooden_bowl_hot3d_robolab",
   "wooden_spoons_hot3d_robolab"}
Objaverse == {
   "apple_01_objaverse_robolab", "apple_02_objaverse_robolab",
   "bagel_00_objaverse_robolab", "bagel_06_objaverse_robolab",
   "bagel_07_objaverse_robolab", "baguette_02_objaverse_robolab",
   "gregorys_coffee_cup_objaverse_robolab", "lunchbag_objaverse_robolab",
   "red_bell_pepper_objaverse_robolab", "snickers_bar_objaverse_robolab"}
YcbA == {
   "banana_ycb_robolab", "bowl_ycb_robolab", "brick_ycb_robolab",
   "cheez_it_ycb_robolab", "chocolate_pudding_ycb_robolab",
   "clamp_ycb_robolab", "coffee_can_ycb_robolab", "cordless_drill_ycb_robolab",
   "dry_erase_marker_ycb_robolab", "jello_ycb_robolab", "mug_ycb_robolab",
   "mustard_ycb_robolab", "pitcher_ycb_robolab"}
YcbB == {
   "scissors_ycb_robolab", "soft_scrub_ycb_robolab", "spam_can_ycb_robolab",
   "spring_clamp_ycb_robolab", "sugar_box_ycb_robolab",
   "tomato_soup_can_ycb_robolab", "tuna_can_ycb_robolab",
   "wood_block_ycb_robolab"}

Robolab == UNION {BasicBlocks, FruitsVeggies, HandalTools, HopeA, HopeB, Hot3dA,
                  Hot3dB, Objaverse, YcbA, YcbB, {"table_maple_robolab"}}

Objects == UNION {Groceries, Appliances, Furniture, Spawned, AssemblyParts,
                  SortingObjects, Robolab}

\* The backgrounds with a pose of their own, and those without.
Rooms == {"kitchen", "kitchen_with_open_drawer", "packing_table", "galileo",
          "galileo_locomanip", "lightwheel_robocasa_kitchen"}
Tables == {"table", "maple_table_robolab"}
Backgrounds == Rooms \cup Tables

Hdrs == {"home_office_robolab", "empty_warehouse_robolab",
         "aerodynamics_workshop_robolab", "billiard_hall_robolab",
         "brown_photostudio_robolab", "blinds_robolab",
         "kiara_interior_robolab", "garage_robolab", "wooden_lounge_robolab",
         "photo_studio_robolab", "carpentry_shop_robolab"}

Devices == {"openxr", "keyboard", "spacemouse"}

\* The devices a retargeter is registered for, with the embodiment.
Retargeters == {<<"openxr", "gr1_pink">>, <<"keyboard", "franka">>,
                <<"keyboard", "franka_joint">>, <<"spacemouse", "franka">>,
                <<"keyboard", "droid_differential_ik">>, <<"keyboard", "agibot">>,
                <<"keyboard", "galbot">>, <<"openxr", "g1_wbc_pink">>}

\* object_type: a LibraryObject is rigid unless it says otherwise; a background
\* has no physics.
ObjectType(name) ==
   CASE name \in Appliances \cup AssemblyParts -> "articulation"
     [] name \in Spawned -> "spawner"
     [] name \in Backgrounds -> "base"
     [] OTHER -> "rigid"

\* The affordance of each articulated appliance, and of the mug.
Affordance(name) ==
   CASE name = "microwave" -> "openable"
     [] name = "coffee_machine" -> "pressable"
     [] name = "stand_mixer" -> "turnable"
     [] name = "mug" -> "placeable"
     [] OTHER -> "none"
===============================================================================

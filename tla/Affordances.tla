------------------------------ MODULE Affordances ------------------------------
(***************************************************************************)
(* What tasks do with an object's joint or its upright axis (affordances/, *)
(* utils/joint_utils.py): read it, compare it, and set it at a reset.      *)
(*                                                                         *)
(* A joint's position is in hundredths of a range 100 wide (for a knob, in *)
(* degrees) and a normalized one in hundredths, so that both conversions   *)
(* are exact.  A joint that can be negative opens the other way.           *)
(***************************************************************************)
EXTENDS Integers

\* Wrong forms of the operators below.
ReadsOneWay(limits, q) == ((q - limits.min) * 100) \div (limits.max - limits.min)
SetsOneWay(limits, x) == limits.min + ((limits.max - limits.min) * x) \div 100

normalize_value(q, min, max) == ((q - min) * 100) \div (max - min)
unnormalize_value(x, min, max) == min + ((max - min) * x) \div 100

get_normalized_joint_position(limits, q) ==
   LET x == normalize_value(q, limits.min, limits.max)
   IN  IF limits.min < 0 THEN 100 - x ELSE x

set_normalized_joint_position(limits, x) ==
   unnormalize_value(IF limits.min < 0 THEN 100 - x ELSE x, limits.min, limits.max)
-----------------------------------------------------------------------------
(* Openable, Pressable *)

is_open(limits, q, threshold) == get_normalized_joint_position(limits, q) > threshold
is_closed(limits, q, threshold) == get_normalized_joint_position(limits, q) <= threshold
rotate_revolute_joint(limits, percentage) == set_normalized_joint_position(limits, percentage)

is_pressed(limits, q, threshold) == get_normalized_joint_position(limits, q) > threshold
press(limits, percentage) == set_normalized_joint_position(limits, percentage)
unpress(limits, percentage) == press(limits, 100 - percentage)
-----------------------------------------------------------------------------
(* Turnable: levels -1, the dead zone, to num_levels - 1, over the angles of knob *)

\* The stand mixer's (object_library.py:254).
stand_mixer == [min |-> 40, max |-> 280, num_levels |-> 7]

step_size(knob) == (knob.max - knob.min) \div (knob.num_levels - 1)

\* Set to the middle between the level and the next.
turn_to_level(knob, level) ==
   IF level = -1 THEN 0
   ELSE knob.min + step_size(knob) * level + step_size(knob) \div 2

clamp(q, min, max) == IF q < min THEN min ELSE IF q > max THEN max ELSE q

get_turning_level(knob, q) ==
   IF q < knob.min THEN -1
   ELSE ((clamp(q, knob.min, knob.max) - knob.min) * (knob.num_levels - 1)) \div (knob.max - knob.min)

is_at_level(knob, q, level) == get_turning_level(knob, q) = level
-----------------------------------------------------------------------------
(* Placeable: the angle in degrees between the object's upright axis and up *)

place_upright(percentage) == ((100 - percentage) * 90) \div 100
is_placed_upright(tilt, threshold) == tilt < threshold
===============================================================================

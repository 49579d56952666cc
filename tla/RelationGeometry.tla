-------------------------- MODULE RelationGeometry --------------------------
(***************************************************************************)
(* The arithmetic of object placement: axis-aligned bounding boxes         *)
(* (utils/bounding_box.py), the losses the relation solver minimises       *)
(* (relations/loss_primitives.py, relation_loss_strategies.py) and the     *)
(* tests a placement has to pass (relations/object_placer.py).             *)
(*                                                                         *)
(* Lengths are integers, in units of the model; a point is a record of its *)
(* three coordinates, and the weight of every relation is the default 1.   *)
(***************************************************************************)
EXTENDS Integers

Axes == {"x", "y", "z"}
Points == [x : Int, y : Int, z : Int]

\* A box that is not flat.
IsBox(b) == /\ b \in [min : Points, max : Points]
            /\ \A a \in Axes : b.min[a] < b.max[a]
-----------------------------------------------------------------------------
(* Bounding boxes *)

Translated(b, p) ==
   [min |-> [x |-> b.min.x + p.x, y |-> b.min.y + p.y, z |-> b.min.z + p.z],
    max |-> [x |-> b.max.x + p.x, y |-> b.max.y + p.y, z |-> b.max.z + p.z]]

\* rotated_90_around_z: a quarter turn puts -y on the x axis and x on the y axis.
QuarterTurn(b) ==
   [min |-> [x |-> -b.max.y, y |-> b.min.x, z |-> b.min.z],
    max |-> [x |-> -b.min.y, y |-> b.max.x, z |-> b.max.z]]

Rotated(b, quarters) ==
   CASE quarters % 4 = 0 -> b
     [] quarters % 4 = 1 -> QuarterTurn(b)
     [] quarters % 4 = 2 -> QuarterTurn(QuarterTurn(b))
     [] quarters % 4 = 3 -> QuarterTurn(QuarterTurn(QuarterTurn(b)))

Overlaps(b, c, margin) ==
   \A a \in Axes : b.max[a] + margin > c.min[a] /\ c.max[a] + margin > b.min[a]
-----------------------------------------------------------------------------
(* Loss primitives; the slopes are those of relation_solver_params.py *)

Lower(i, j) == IF i < j THEN i ELSE j
Upper(i, j) == IF i < j THEN j ELSE i

\* single_boundary_linear_loss with penalty_side "less" and "greater".
LessLoss(value, boundary) == Upper(0, boundary - value)
GreaterLoss(value, boundary) == Upper(0, value - boundary)

BandLoss(value, lower, upper) == LessLoss(value, lower) + GreaterLoss(value, upper)
PointLoss(value, target) == Upper(value - target, target - value)

IntervalOverlap(childMin, childMax, parentMin, parentMax) ==
   GreaterLoss(Lower(childMax, parentMax), Upper(childMin, parentMin))

\* The strategies: the child's local box, its position, the parent's world box.
OnLoss(rel, pos, child, parent) ==
   100 * (BandLoss(pos.x, parent.min.x - child.min.x, parent.max.x - child.max.x)
          + BandLoss(pos.y, parent.min.y - child.min.y, parent.max.y - child.max.y)
          + PointLoss(pos.z, parent.max.z + rel.clearance - child.min.z))

\* The child is on the positive or the negative side of the parent along an axis,
\* and on the other one at a point between the parent's ends (cross is -1, 0 or 1).
NextToLoss(rel, pos, child, parent) ==
   LET a == rel.axis
       band == IF a = "x" THEN "y" ELSE "x"
       edge == IF rel.positive THEN parent.max[a] ELSE parent.min[a]
       target == IF rel.positive THEN edge + rel.distance - child.min[a]
                                 ELSE edge - rel.distance - child.max[a]
       bandMin == parent.min[band] - child.min[band]
       bandMax == parent.max[band] - child.max[band]
   IN 10 * ((IF rel.positive THEN LessLoss(pos[a], edge) ELSE GreaterLoss(pos[a], edge))
            + PointLoss(pos[band], bandMin + ((rel.cross + 1) * (bandMax - bandMin)) \div 2)
            + PointLoss(pos[a], target))

AxisOverlap(a, pos, child, parent, clearance) ==
   IntervalOverlap(pos[a] + child.min[a], pos[a] + child.max[a],
                   parent.min[a] - clearance, parent.max[a] + clearance)

NoCollisionLoss(rel, pos, child, parent) ==
   100 * (AxisOverlap("x", pos, child, parent, rel.clearance)
          * AxisOverlap("y", pos, child, parent, rel.clearance)
          * AxisOverlap("z", pos, child, parent, rel.clearance))
-----------------------------------------------------------------------------
(* Validation *)

\* _validate_on_relations for one relation: the two boxes are in the world.
OnHolds(rel, child, parent, tolerance) ==
   /\ parent.min.x <= child.min.x /\ child.max.x <= parent.max.x
   /\ parent.min.y <= child.min.y /\ child.max.y <= parent.max.y
   /\ parent.max.z - tolerance < child.min.z
   /\ child.min.z <= parent.max.z + rel.clearance + tolerance
=============================================================================

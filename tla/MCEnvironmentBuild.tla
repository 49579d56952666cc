------------------------- MODULE MCEnvironmentBuild -------------------------
(* A table with two objects to be placed on it, and a lamp nobody placed. *)
EXTENDS EnvironmentBuild

Point(x, y, z) == [x |-> x, y |-> y, z |-> z]
Box(x, y, z) == [min |-> Point(0, 0, 0), max |-> Point(x, y, z)]

MCLocalBox == [table |-> Box(4, 2, 1), mug |-> Box(1, 1, 1), can |-> Box(1, 1, 1),
               lamp |-> Box(1, 1, 1)]
MCOrder == <<"mug", "table", "can", "lamp">>

On(p) == [type |-> "On", parent |-> p, clearance |-> 1]
Anchor == [type |-> "IsAnchor"]
Random == [type |-> "RandomAroundSolution", half |-> 1]
Turned == [type |-> "RotateAroundSolution", turn |-> 1]
NextToIt(p) == [type |-> "NextTo", parent |-> p, axis |-> "x", positive |-> TRUE,
                distance |-> 1, cross |-> 0]
AtX(x) == [type |-> "AtPosition", at |-> Point(x, 0, 0), axes |-> {"x"}]

Relations(table, mug, can) == [table |-> table, mug |-> mug, can |-> can, lamp |-> <<>>]

\* Where the table and the lamp are.
PosesWith(table) == [table |-> table, mug |-> None, can |-> None,
                     lamp |-> Pose(Point(9, 9, 0), 0)]

TwoOnTheTable == Relations(<<Anchor>>, <<On("table"), Random>>, <<On("table"), AtX(2)>>)
NextToEachOther == Relations(<<Anchor>>, <<On("table"), NoCollision("can")>>,
                             <<NextToIt("mug"), On("table"), Turned>>)
Stacked == Relations(<<Anchor>>, <<On("table")>>, <<On("mug")>>)
AnchorsOnly == Relations(<<Anchor>>, <<>>, <<>>)
NoAnchor == Relations(<<>>, <<On("table")>>, <<>>)
NoRelations == Relations(<<>>, <<>>, <<>>)

Flat == PosesWith(Pose(Point(0, 0, 0), 0))
Askew == PosesWith(Pose(Point(3, 0, 0), 1))

\* Spots on the table as it stands, on the turned one and on both; above it, too
\* low and on top of the other object.
Side == {Point(0, 0, 2), Point(2, 0, 2), Point(2, 3, 2)}
Height == {Point(2, 0, 2), Point(2, 0, 4), Point(0, 1, 1)}

MCScenarios ==
   [relations : {TwoOnTheTable, NextToEachOther}, pose : {Flat, Askew}, spots : {Side}]
   \cup [relations : {Stacked}, pose : {Flat}, spots : {Height}]
   \cup [relations : {TwoOnTheTable, AnchorsOnly},
         pose : {PosesWith(PoseRange(Point(0, 0, 0), 0, 1)), PosesWith(None)}, spots : {Side}]
   \cup [relations : {AnchorsOnly, NoAnchor, NoRelations}, pose : {Flat}, spots : {Side}]

\* The instance meets what SolvedIsAccepted is proved from.
ASSUME InstanceSeparates == ScenariosSeparate
=============================================================================

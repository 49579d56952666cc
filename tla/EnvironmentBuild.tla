-------------------------- MODULE EnvironmentBuild --------------------------
(***************************************************************************)
(* Building an environment (environments/arena_env_builder.py): the        *)
(* relations between the scene's objects are solved by an ObjectPlacer     *)
(* (relations/object_placer.py) that tries random starting positions, lets *)
(* the RelationSolver (relations/relation_solver.py) minimise the losses   *)
(* of RelationGeometry, validates the outcome and writes the poses into    *)
(* the objects; only then are their configs collected in the scene's.      *)
(*                                                                         *)
(* The optimizer is an arbitrary move of the positions, so the solver may  *)
(* converge or not.  An object's position is one of the scenario's spots.  *)
(***************************************************************************)
EXTENDS RelationGeometry, Sequences

CONSTANTS
   Order,          \* the assets of the scene, in the order they were added
   Rigid,          \* those whose pose is written at every reset
   LocalBox,       \* get_bounding_box of each
   Scenarios,      \* what a user builds: the relations and the poses of the assets
                   \* and, as a bound, the spots the solver moves objects to
   Clearance,      \* default clearance of a NoCollision
   MinSeparation,  \* min_separation_m
   Tolerance,      \* on_relation_z_tolerance_m
   MaxAttempts,    \* max_placement_attempts
   MaxIters,       \* max_iters
   MaxBuilds       \* bound: how often the environment is built

Assets == {Order[i] : i \in DOMAIN Order}

\* What an asset can be given: relations to another one, and markers.
Parented == [type : {"On", "NoCollision"}, parent : Assets, clearance : Nat]
            \cup [type : {"NextTo"}, parent : Assets, axis : {"x", "y"}, positive : BOOLEAN,
                  distance : Nat \ {0}, cross : {-1, 0, 1}]
AtPositions == [type : {"AtPosition"}, at : Points, axes : SUBSET Axes]
Markers == [type : {"IsAnchor"}] \cup [type : {"RandomAroundSolution"}, half : Nat]
           \cup [type : {"RotateAroundSolution"}, turn : Int]
AnyRelation == Parented \cup AtPositions \cup Markers

\* A range of poses is one around a pose.
Poses == [kind : {"pose"}, at : Points, turn : Int]
Ranges == [kind : {"range"}, at : Points, turn : Int, half : Nat]
None == [kind |-> "none"]

\* Bound: where there is an anchor, what a relation relates an asset to has relations
\* too, as the solver knows the positions of those only.
ASSUME BuildAssumption ==
   /\ Order \in Seq(Assets) /\ Rigid \subseteq Assets
   /\ \A i, j \in DOMAIN Order : Order[i] = Order[j] => i = j
   /\ \A o \in Assets : IsBox(LocalBox[o])
   /\ \A s \in Scenarios :
         /\ s.relations \in [Assets -> Seq(AnyRelation)]
         /\ s.pose \in [Assets -> Poses \cup Ranges \cup {None}]
         /\ s.spots \subseteq Points
         /\ \A a, o \in Assets : \A k \in DOMAIN s.relations[a], i \in DOMAIN s.relations[o] :
               s.relations[a][k].type = "IsAnchor" /\ s.relations[o][i] \in Parented
                  => s.relations[s.relations[o][i].parent] # <<>>
   /\ {Clearance, MinSeparation} \subseteq Nat
   /\ {Tolerance, MaxAttempts, MaxIters, MaxBuilds} \subseteq Nat \ {0}

VARIABLES
   given,      \* the scenario
   relations,  \* the relations of each asset
   pose,       \* its initial_pose
   init,       \* the init_state of its object_cfg
   event,      \* its event_cfg
   pc,         \* where the builder is
   at,         \* the positions the solver works on
   iter,       \* the iterations it has made
   loss,       \* the last loss of its history
   tried,      \* the attempts made: positions, loss, and whether they are valid
   best,       \* best_positions, best_loss and success; None before an attempt
   scene,      \* the scene and the event config collected from the assets
   builds      \* environments registered

solver == <<at, iter, loss>>
objects == <<pose, init, event>>
vars == <<given, relations, objects, pc, solver, tried, best, scene, builds>>

Pose(p, turn) == [kind |-> "pose", at |-> p, turn |-> turn]
PoseRange(p, turn, half) == [kind |-> "range", at |-> p, turn |-> turn, half |-> half]

Has(o, type) == \E i \in DOMAIN relations[o] : relations[o][i].type = type
The(o, type) == relations[o][CHOOSE i \in DOMAIN relations[o] :
                                /\ relations[o][i].type = type
                                /\ \A j \in 1..i - 1 : relations[o][j].type # type]

\* _get_objects_with_relations and get_anchor_objects.
Related == {o \in Assets : relations[o] # <<>>}
Anchors == {o \in Assets : Has(o, "IsAnchor")}
Movable == Related \ Anchors

Spatial == {"On", "NextTo", "NoCollision", "AtPosition"}

Placements == [Related -> Points]

TypeOK ==
   /\ given \in Scenarios
   /\ relations \in [Assets -> Seq(AnyRelation)]
   /\ pose \in [Assets -> Poses \cup Ranges \cup {None}]
   /\ init \in [Assets -> Poses \cup {None}]
   /\ event \in [Assets -> Poses \cup Ranges \cup {None}]
   /\ pc \in {"idle", "attempt", "solve", "validate", "apply", "compose", "raised"}
   /\ at \in Placements \cup {None}
   /\ iter \in 0 .. MaxIters
   /\ loss \in Nat
   /\ tried \in Seq([at : Placements, loss : Nat, valid : BOOLEAN]) /\ Len(tried) <= MaxAttempts
   /\ best \in [at : Placements, loss : Nat, success : BOOLEAN] \cup {None}
   /\ builds \in 0 .. MaxBuilds
-----------------------------------------------------------------------------
(* The configs of an asset *)

\* _get_initial_pose_as_pose: the middle of a range.
Middle(p) == IF p = None THEN None ELSE Pose(p.at, p.turn)

\* The event that writes the pose, or one of the range, at every reset.
ResetEvent(o, p) == IF o \in Rigid THEN p ELSE None

Init ==
   /\ given \in Scenarios
   /\ relations = given.relations
   /\ pose = given.pose
   /\ init = [o \in Assets |-> Middle(pose[o])]
   /\ event = [o \in Assets |-> ResetEvent(o, pose[o])]
   /\ pc = "idle"
   /\ at = None /\ iter = 0 /\ loss = 0
   /\ tried = <<>> /\ best = None
   /\ scene = None
   /\ builds = 0
-----------------------------------------------------------------------------
(* Starting a build *)

\* o has a NoCollision with p.
Separated(o, p) == \E i \in DOMAIN relations[o] : /\ relations[o][i].type = "NoCollision"
                                                  /\ relations[o][i].parent = p

NoCollision(p) == [type |-> "NoCollision", parent |-> p, clearance |-> Clearance]

\* Wrong form: a relation is added only where there is one.
HasAlready(o, k) == /\ Order[k] \in Movable /\ \E i \in 1..k - 1 : Order[i] = o
                    /\ Separated(o, Order[k])

\* Object k of the scene's order is movable, behind o, and nothing separates o from it.
Misses(o, k) == /\ Order[k] \in Movable /\ \E i \in 1..k - 1 : Order[i] = o
                /\ ~Separated(o, Order[k])

\* _add_pairwise_no_collision: the relations of o after the loop.
Added(o) ==
   LET upTo[k \in 0..Len(Order)] ==
          IF k = 0 THEN relations[o]
          ELSE IF Misses(o, k) THEN Append(upTo[k - 1], NoCollision(Order[k])) ELSE upTo[k - 1]
   IN  upTo[Len(Order)]

\* compose_manager_cfg up to the attempts of ObjectPlacer.place, whose assertions
\* raise when there is no anchor or one without a pose.
StartBuild(solveRelations) ==
   /\ pc = "idle" /\ builds < MaxBuilds
   /\ IF ~solveRelations \/ Related = {}
      THEN pc' = "compose" /\ UNCHANGED relations
      ELSE /\ relations' = [o \in Assets |-> IF o \in Movable THEN Added(o) ELSE relations[o]]
           /\ pc' = IF Anchors = {} \/ \E o \in Anchors : pose[o] = None
                    THEN "raised" ELSE "attempt"
   /\ tried' = <<>> /\ best' = None
   /\ UNCHANGED <<given, objects, solver, scene, builds>>

-----------------------------------------------------------------------------
(* The relation solver *)

\* get_world_bounding_box: a range is not looked at.
WorldBox(o) == IF pose[o].kind # "pose" THEN LocalBox[o]
               ELSE Translated(Rotated(LocalBox[o], pose[o].turn), pose[o].at)

ParentBox(positions, p) == IF p \in Anchors THEN WorldBox(p)
                           ELSE Translated(LocalBox[p], positions[p])

\* An axis that is None is ignored: r.axes are the others.
AxisLoss(r, p, a) == IF a \in r.axes THEN PointLoss(p[a], r.at[a]) ELSE 0
AtPositionLoss(r, p) ==
   100 * (AxisLoss(r, p, "x") + AxisLoss(r, p, "y") + AxisLoss(r, p, "z"))

\* The strategy registered for the type of the relation.
RelationLoss(positions, o, r) ==
   CASE r.type = "On" -> OnLoss(r, positions[o], LocalBox[o], ParentBox(positions, r.parent))
     [] r.type = "NextTo" ->
           NextToLoss(r, positions[o], LocalBox[o], ParentBox(positions, r.parent))
     [] r.type = "NoCollision" ->
           NoCollisionLoss(r, positions[o], LocalBox[o], ParentBox(positions, r.parent))
     [] r.type = "AtPosition" -> AtPositionLoss(r, positions[o])

\* terms[1] + ... + terms[n].
SumUpTo(terms, n) ==
   LET upTo[k \in 0..n] == IF k = 0 THEN 0 ELSE upTo[k - 1] + terms[k]
   IN  upTo[n]

\* The loops over the movable objects and over the spatial relations of each.
LossOf(positions, o) ==
   SumUpTo([i \in DOMAIN relations[o] |->
               IF relations[o][i].type \in Spatial THEN RelationLoss(positions, o, relations[o][i])
               ELSE 0],
           Len(relations[o]))

TotalLoss(positions) ==
   SumUpTo([k \in DOMAIN Order |->
               IF Order[k] \in Movable THEN LossOf(positions, Order[k]) ELSE 0],
           Len(Order))

\* Positions with the anchors where they are.
Moved == {[o \in Related |-> IF o \in Anchors THEN pose[o].at ELSE m[o]] :
             m \in [Movable -> given.spots]}

\* A new attempt: random starting positions.  An anchor's range has no position.
\* With nothing to optimize the solver returns at once, with a loss of zero.
StartAttempt ==
   /\ pc = "attempt"
   /\ IF \E o \in Anchors : pose[o].kind = "range"
      THEN pc' = "raised" /\ UNCHANGED at
      ELSE /\ at' \in Moved
           /\ pc' = IF Movable = {} THEN "validate" ELSE "solve"
   /\ iter' = 0
   /\ loss' = 0
   /\ UNCHANGED <<given, relations, objects, tried, best, scene, builds>>

\* An iteration: the loss of the positions is kept, then they are moved, then the
\* solver stops if that loss was below the threshold.
Iterate ==
   /\ pc = "solve"
   /\ loss' = TotalLoss(at)
   /\ at' \in Moved
   /\ iter' = iter + 1
   /\ pc' = IF loss' = 0 \/ iter' = MaxIters THEN "validate" ELSE "solve"
   /\ UNCHANGED <<given, relations, objects, tried, best, scene, builds>>
-----------------------------------------------------------------------------
(* Validating and applying *)

NoOverlap(positions) ==
   \A o, p \in DOMAIN positions :
      o # p => ~Overlaps(Translated(LocalBox[o], positions[o]),
                         Translated(LocalBox[p], positions[p]), MinSeparation)

OnRelationsHold(positions) ==
   \A o \in DOMAIN positions : \A i \in DOMAIN relations[o] :
      LET r == relations[o][i]
      IN r.type = "On" /\ r.parent \in DOMAIN positions =>
            OnHolds(r, Translated(LocalBox[o], positions[o]),
                    Translated(LocalBox[r.parent], positions[r.parent]), Tolerance)

ValidPlacement(positions) == NoOverlap(positions) /\ OnRelationsHold(positions)

\* A wrong form: the last attempt is kept.
KeptLast(valid) == [at |-> at, loss |-> loss, success |-> valid]

\* What the placer keeps of the attempt it has validated.
Kept(valid) == IF valid \/ best = None \/ loss < best.loss
               THEN [at |-> at, loss |-> loss, success |-> valid] ELSE best

\* A wrong form: invalid attempts are repeated without a bound.
ValidateForever ==
   LET valid == ValidPlacement(at)
   IN /\ pc = "validate" /\ Len(tried) <= MaxAttempts
      /\ best' = Kept(valid)
      /\ tried' = Append(tried, [at |-> at, loss |-> loss, valid |-> valid])
      /\ pc' = IF valid THEN "apply" ELSE "attempt"
      /\ at' = None /\ iter' = 0 /\ loss' = 0
      /\ UNCHANGED <<given, relations, objects, scene, builds>>

Validate ==
   LET valid == ValidPlacement(at)
   IN /\ pc = "validate"
      /\ best' = Kept(valid)
      /\ tried' = Append(tried, [at |-> at, loss |-> loss, valid |-> valid])
      /\ pc' = IF valid \/ Len(tried) + 1 = MaxAttempts THEN "apply" ELSE "attempt"
      /\ at' = None /\ iter' = 0 /\ loss' = 0
      /\ UNCHANGED <<given, relations, objects, scene, builds>>

\* The pose an object gets: the solved position, turned as its marker says, and a
\* range around it if it has the marker for that.
SolvedPose(o, p) ==
   LET turn == IF Has(o, "RotateAroundSolution") THEN The(o, "RotateAroundSolution").turn ELSE 0
   IN IF Has(o, "RandomAroundSolution")
      THEN PoseRange(p, turn, The(o, "RandomAroundSolution").half) ELSE Pose(p, turn)

\* set_initial_pose of every object in ps, which derives the configs again.
SetInitialPoses(ps) ==
   /\ pose' = [o \in Assets |-> IF o \in DOMAIN ps THEN ps[o] ELSE pose[o]]
   /\ init' = [o \in Assets |-> IF o \in DOMAIN ps THEN Middle(ps[o]) ELSE init[o]]
   /\ event' = [o \in Assets |-> IF o \in DOMAIN ps THEN ResetEvent(o, ps[o]) ELSE event[o]]

\* _apply_positions: the anchors are skipped.
Apply ==
   /\ pc = "apply"
   /\ SetInitialPoses([o \in Movable |-> SolvedPose(o, best.at[o])])
   /\ pc' = "compose"
   /\ UNCHANGED <<given, relations, solver, tried, best, scene, builds>>

\* The rest of compose_manager_cfg and build_registered: the configs are collected
\* and the environment is registered.
Compose ==
   /\ pc = "compose"
   /\ scene' = [init |-> init, event |-> event, pose |-> pose]
   /\ builds' = builds + 1
   /\ pc' = "idle"
   /\ UNCHANGED <<given, relations, objects, solver, tried, best>>

Next == \/ \E solveRelations \in BOOLEAN : StartBuild(solveRelations)
        \/ StartAttempt \/ Iterate \/ Validate \/ Apply \/ Compose

Spec == Init /\ [][Next]_vars
-----------------------------------------------------------------------------
(* Properties *)

\* Assets stacked on one another, o on top of them and a below.
Stack(s, o, a) ==
   \E n \in 1..Len(Order) : \E c \in [0..n -> Assets] :
      /\ c[0] = o /\ c[n] = a
      /\ \A i \in 1..n : \E j \in DOMAIN s.relations[c[i - 1]] :
            LET r == s.relations[c[i - 1]][j] IN r.type = "On" /\ r.parent = c[i]

\* A scenario whose relations tell every movable object to keep clear of every anchor,
\* by a NoCollision or by being above it, at the distance the validation asks for; and
\* whose anchors, which the solver does not move, pass the validation by themselves.
Separating(s) ==
   LET anchors == {o \in Assets : \E i \in DOMAIN s.relations[o] :
                                     s.relations[o][i].type = "IsAnchor"}
   IN /\ \A o \in Assets : \A i \in DOMAIN s.relations[o] :
            s.relations[o][i].type \in {"On", "NoCollision"} =>
               /\ s.relations[o][i].clearance >= MinSeparation
               /\ o \notin anchors \/ s.relations[o][i].type # "On"
      /\ \A o, p \in anchors :
            o # p /\ s.pose[o].kind = "pose" /\ s.pose[p].kind = "pose" =>
               ~Overlaps(Translated(LocalBox[o], s.pose[o].at),
                         Translated(LocalBox[p], s.pose[p].at), MinSeparation)
      /\ \A o \in Assets \ anchors, a \in anchors :
            \/ s.relations[o] = <<>>
            \/ Stack(s, o, a)
            \/ \E i \in DOMAIN s.relations[o] :
                  s.relations[o][i].type = "NoCollision" /\ s.relations[o][i].parent = a

ScenariosSeparate == Clearance >= MinSeparation /\ \A s \in Scenarios : Separating(s)

\* Objects at positions of zero loss pass the placer's tests, so that an attempt
\* that has solved the relations is not thrown away: the losses the solver is
\* given, with the NoCollision between every two objects that the builder adds,
\* ask for at least what the validation checks (arena_env_builder.py:71-80,
\* object_placer.py:107, 188-259).  It is stated for anchors that are not turned:
\* the solver turns an anchor's box, the validation does not (object.py:67-78,
\* relation_solver.py:93-101, object_placer.py:207-208).
SolvedIsAccepted ==
   /\ pc = "validate"
   /\ \A o \in Anchors : pose[o].turn % 4 = 0
   /\ TotalLoss(at) = 0
   => ValidPlacement(at)

\* The environment that is registered has the objects where the placer meant them
\* to be: at the positions of the attempt that was valid or, if none was, of the
\* one with the least loss, those with the marker for it in a range around them,
\* in the initial state as in the reset event; every other asset is where the
\* user put it (object_placer.py:95-122, 261-285, object_base.py:72-83,
\* arena_env_builder.py:133-146).
CapturedAsPlaced ==
   pc = "idle" /\ builds > 0 =>
      /\ tried # <<>> =>
            \E i \in DOMAIN tried :
               /\ IF \E j \in DOMAIN tried : tried[j].valid THEN tried[i].valid
                  ELSE \A j \in DOMAIN tried : tried[i].loss <= tried[j].loss
               /\ \A o \in Movable :
                     scene.pose[o].at = tried[i].at[o] /\ scene.init[o].at = tried[i].at[o]
      /\ \A o \in Assets : /\ scene.init[o] = Middle(scene.pose[o])
                           /\ o \in Rigid => scene.event[o] = scene.pose[o]
      /\ \A o \in Assets \ Movable : scene.pose[o] = given.pose[o]

\* "Validate each On relation; logic matches OnLossStrategy
\* (relation_loss_strategies.py)" (object_placer.py:192): an object whose loss of
\* being on an anchor is zero passes the test of that relation.
ValidationMatchesLoss ==
   pc = "validate" =>
      \A o \in Movable : \A i \in DOMAIN relations[o] :
         LET r == relations[o][i]
         IN /\ r.type = "On" /\ r.parent \in Anchors
            /\ RelationLoss(at, o, r) = 0
            => OnHolds(r, Translated(LocalBox[o], at[o]),
                       Translated(LocalBox[r.parent], at[r.parent]), Tolerance)
=============================================================================

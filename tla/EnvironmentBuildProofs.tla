----------------------- MODULE EnvironmentBuildProofs -----------------------
(***************************************************************************)
(* Proofs about the placement of objects while an environment is built:    *)
(* what a zero loss means, for boxes of every size at every position, and  *)
(* that every build gives the scene the poses of its best attempt, for     *)
(* every scene, every scenario and any number of attempts and builds.      *)
(***************************************************************************)
EXTENDS EnvironmentBuild, SequenceTheorems, WellFoundedInduction, TLAPS

(* Boxes and losses *)

\* A box placed somewhere is still a box that is not flat
\* (bounding_box.py:112-132).
LEMMA TranslatedIsBox ==
   ASSUME NEW b, IsBox(b), NEW p \in Points
   PROVE  IsBox(Translated(b, p))
BY DEF IsBox, Translated, Points, Axes

\* Two intervals overlap by nothing exactly if one ends where the other begins,
\* or before (loss_primitives.py:127-162).
LEMMA NoIntervalOverlap ==
   ASSUME NEW cMin \in Int, NEW cMax \in Int, NEW pMin \in Int, NEW pMax \in Int,
          cMin < cMax, pMin < pMax
   PROVE  /\ IntervalOverlap(cMin, cMax, pMin, pMax) \in Nat
          /\ IntervalOverlap(cMin, cMax, pMin, pMax) = 0 <=> cMax <= pMin \/ pMax <= cMin
BY DEF IntervalOverlap, GreaterLoss, Lower, Upper

\* A band loss is zero exactly within the band, a point loss exactly at the point
\* (loss_primitives.py:64-124).
LEMMA NoBandLoss ==
   ASSUME NEW v \in Int, NEW lower \in Int, NEW upper \in Int
   PROVE  /\ BandLoss(v, lower, upper) \in Nat
          /\ BandLoss(v, lower, upper) = 0 <=> lower <= v /\ v <= upper
BY DEF BandLoss, LessLoss, GreaterLoss, Upper

LEMMA NoPointLoss ==
   ASSUME NEW v \in Int, NEW target \in Int
   PROVE  /\ PointLoss(v, target) \in Nat
          /\ PointLoss(v, target) = 0 <=> v = target
BY DEF PointLoss, Upper

\* A child whose On loss is zero passes the validation of its On relation, whatever
\* the boxes, the clearance and the tolerance, if both are computed of the same
\* parent box ("logic matches OnLossStrategy", object_placer.py:192;
\* relation_loss_strategies.py:241-306).
THEOREM OnLossAgrees ==
   ASSUME NEW rel, rel.clearance \in Nat, NEW tolerance \in Nat, tolerance > 0,
          NEW pos \in Points, NEW child, IsBox(child), NEW parent, IsBox(parent),
          OnLoss(rel, pos, child, parent) = 0
   PROVE  OnHolds(rel, Translated(child, pos), parent, tolerance)
<1> DEFINE c == rel.clearance
           bx == BandLoss(pos.x, parent.min.x - child.min.x, parent.max.x - child.max.x)
           by == BandLoss(pos.y, parent.min.y - child.min.y, parent.max.y - child.max.y)
           pz == PointLoss(pos.z, parent.max.z + c - child.min.z)
<1>1. /\ pos.x \in Int /\ pos.y \in Int /\ pos.z \in Int
      /\ \A b \in {child, parent} : /\ b.min.x \in Int /\ b.min.y \in Int /\ b.min.z \in Int
                                    /\ b.max.x \in Int /\ b.max.y \in Int /\ b.max.z \in Int
  BY DEF IsBox, Points
<1>2. /\ parent.min.x - child.min.x \in Int /\ parent.max.x - child.max.x \in Int
      /\ parent.min.y - child.min.y \in Int /\ parent.max.y - child.max.y \in Int
      /\ parent.max.z + c - child.min.z \in Int
  BY <1>1
<1>3. bx \in Nat /\ by \in Nat /\ pz \in Nat
  BY <1>1, <1>2, NoBandLoss, NoPointLoss
<1>4. 100 * (bx + by + pz) = 0
  BY DEF OnLoss
<1>5. bx = 0 /\ by = 0 /\ pz = 0
  <2> HIDE DEF bx, by, pz
  <2> QED BY <1>3, <1>4
<1>6. /\ parent.min.x - child.min.x <= pos.x /\ pos.x <= parent.max.x - child.max.x
      /\ parent.min.y - child.min.y <= pos.y /\ pos.y <= parent.max.y - child.max.y
      /\ pos.z = parent.max.z + c - child.min.z
  <2>1. parent.min.x - child.min.x <= pos.x /\ pos.x <= parent.max.x - child.max.x
    BY <1>1, <1>2, <1>5, NoBandLoss
  <2>2. parent.min.y - child.min.y <= pos.y /\ pos.y <= parent.max.y - child.max.y
    BY <1>1, <1>2, <1>5, NoBandLoss
  <2>3. pos.z = parent.max.z + c - child.min.z
    BY <1>1, <1>2, <1>5, NoPointLoss
  <2> QED BY <2>1, <2>2, <2>3
<1> QED BY <1>1, <1>6 DEF OnHolds, Translated

\* A child whose On loss is zero begins where the parent ends, the clearance above.
LEMMA OnLossHeight ==
   ASSUME NEW rel, rel.clearance \in Nat, NEW pos \in Points, NEW child, IsBox(child),
          NEW parent, IsBox(parent), OnLoss(rel, pos, child, parent) = 0
   PROVE  Translated(child, pos).min.z = parent.max.z + rel.clearance
<1> DEFINE bx == BandLoss(pos.x, parent.min.x - child.min.x, parent.max.x - child.max.x)
           by == BandLoss(pos.y, parent.min.y - child.min.y, parent.max.y - child.max.y)
           pz == PointLoss(pos.z, parent.max.z + rel.clearance - child.min.z)
<1>1. /\ pos.x \in Int /\ pos.y \in Int /\ pos.z \in Int
      /\ parent.min.x - child.min.x \in Int /\ parent.max.x - child.max.x \in Int
      /\ parent.min.y - child.min.y \in Int /\ parent.max.y - child.max.y \in Int
      /\ parent.max.z \in Int /\ child.min.z \in Int
      /\ parent.max.z + rel.clearance - child.min.z \in Int
  BY DEF IsBox, Points
<1>2. bx \in Nat /\ by \in Nat /\ pz \in Nat
  BY <1>1, NoBandLoss, NoPointLoss
<1>3. 100 * (bx + by + pz) = 0
  BY DEF OnLoss
<1>4. pz = 0
  <2> HIDE DEF bx, by, pz
  <2>1. QED
    BY <1>2, <1>3
<1>5. pos.z = parent.max.z + rel.clearance - child.min.z
  BY <1>1, <1>4, NoPointLoss
<1>6. QED
  BY <1>1, <1>5 DEF Translated

\* Two objects whose NoCollision loss is zero do not overlap, even with a margin,
\* as long as the margin the validation asks for is not wider than the clearance
\* of the relation (relation_loss_strategies.py:329-384, bounding_box.py:157-175).
THEOREM NoCollisionLossAgrees ==
   ASSUME NEW rel, rel.clearance \in Nat, NEW margin \in Nat, margin <= rel.clearance,
          NEW pos \in Points, NEW child, IsBox(child), NEW parent, IsBox(parent),
          NoCollisionLoss(rel, pos, child, parent) = 0
   PROVE  ~Overlaps(Translated(child, pos), parent, margin)
<1> DEFINE c == rel.clearance
           over(a) == AxisOverlap(a, pos, child, parent, c)
<1>1. \A a \in Axes : /\ pos[a] \in Int
                      /\ child.min[a] \in Int /\ child.max[a] \in Int
                      /\ parent.min[a] \in Int /\ parent.max[a] \in Int
                      /\ child.min[a] < child.max[a] /\ parent.min[a] < parent.max[a]
  BY DEF IsBox, Points, Axes
<1>2. ASSUME NEW a \in Axes
      PROVE  /\ over(a) \in Nat
             /\ over(a) = 0 => \/ pos[a] + child.max[a] <= parent.min[a] - c
                               \/ parent.max[a] + c <= pos[a] + child.min[a]
  <2>1. /\ pos[a] + child.min[a] < pos[a] + child.max[a]
        /\ parent.min[a] - c < parent.max[a] + c
    BY <1>1
  <2>2. /\ pos[a] + child.min[a] \in Int /\ pos[a] + child.max[a] \in Int
        /\ parent.min[a] - c \in Int /\ parent.max[a] + c \in Int
    BY <1>1
  <2> QED BY <2>1, <2>2, NoIntervalOverlap DEF AxisOverlap
<1>3. 100 * (over("x") * over("y") * over("z")) = 0
  BY DEF NoCollisionLoss
<1>4. PICK a \in Axes : over(a) = 0
  <2> HIDE DEF over
  <2>1. over("x") \in Nat /\ over("y") \in Nat /\ over("z") \in Nat
    BY <1>2 DEF Axes
  <2>2. over("x") = 0 \/ over("y") = 0 \/ over("z") = 0
    BY <2>1, <1>3
  <2> QED BY <2>2 DEF Axes
<1>5. /\ Translated(child, pos).min[a] = pos[a] + child.min[a]
      /\ Translated(child, pos).max[a] = pos[a] + child.max[a]
  BY <1>1 DEF Translated, Axes
<1> QED BY <1>1, <1>2, <1>4, <1>5 DEF Overlaps
-----------------------------------------------------------------------------
(* Induction, and loops *)

Less == {m \in Nat \X Nat : m[1] < m[2]}

\* What is said of the natural numbers is true, or has a least counterexample.
LEMMA LeastCounterexample ==
   ASSUME NEW T, T \subseteq Nat, T # {}
   PROVE  \E n \in T : \A m \in T : n <= m
<1>1. IsWellFoundedOn(Less, Nat)
  BY NatLessThanWellFounded, Zenon DEF OpToRel, Less
<1>2. PICK n \in T : \A m \in T : <<m, n>> \notin Less
  BY <1>1, WFMin
<1>3. \A m \in T : ~ (m < n)
  BY <1>2 DEF Less
<1>4. QED
  BY <1>3

\* g[k] is what a loop that begins with b has after k iterations.
Runs(g, V, b, K, step) == /\ g \in [0..K -> V] /\ g[0] = b
                          /\ \A k \in 1..K : g[k] = step[k][g[k - 1]]
Steps(V, K) == [1..K -> [V -> V]]

\* A loop that makes a value of V from the one before has a result after every
\* number of iterations.
LEMMA LoopExists ==
   ASSUME NEW V, NEW b \in V, NEW K \in Nat, NEW step \in Steps(V, K)
   PROVE  \E g : Runs(g, V, b, K, step)
<1> DEFINE Upto(g, n) == /\ g \in [0..n -> V] /\ g[0] = b
                         /\ \A k \in 1..n : g[k] = step[k][g[k - 1]]
           Bad == {n \in 0..K : ~ \E g : Upto(g, n)}
<1> USE DEF Steps
<1> SUFFICES \E g : Upto(g, K)
  BY DEF Runs
<1> SUFFICES ASSUME Bad # {}
             PROVE  FALSE
  <2>1. K \in 0..K
    OBVIOUS
  <2> HIDE DEF Upto
  <2>2. QED
    BY <2>1
<1>1. PICK n \in Bad : \A m \in Bad : n <= m
  <2>1. Bad \subseteq Nat
    OBVIOUS
  <2> HIDE DEF Bad
  <2>2. QED
    BY <2>1, LeastCounterexample
<1>2. n \in 0..K /\ n # 0
  <2>1. Upto([i \in 0..0 |-> b], 0)
    OBVIOUS
  <2>2. QED
    BY <2>1
<1>3. PICK g : Upto(g, n - 1)
  BY <1>1, <1>2
<1> DEFINE h == [i \in 0..n |-> IF i = n THEN step[n][g[n - 1]] ELSE g[i]]
<1>4. g[n - 1] \in V /\ step[n][g[n - 1]] \in V
  BY <1>2, <1>3
<1>5. h \in [0..n -> V] /\ h[0] = b /\ h[n] = step[n][g[n - 1]]
      /\ \A i \in 0..n - 1 : h[i] = g[i]
  BY <1>2, <1>3, <1>4
<1> HIDE DEF h
<1>6. ASSUME NEW k \in 1..n
      PROVE  h[k] = step[k][h[k - 1]]
  <2>1. h[k - 1] = g[k - 1]
    BY <1>2, <1>5
  <2>2. CASE k = n
    BY <1>5, <2>1, <2>2
  <2>3. CASE k # n
    BY <1>2, <1>3, <1>5, <2>1, <2>3
  <2>4. QED
    BY <2>2, <2>3
<1>7. Upto(h, n)
  BY <1>5, <1>6
<1>8. QED
  BY <1>7

\* A sum of natural numbers is one, and zero only if all of them are.
LEMMA SumIs ==
   ASSUME NEW n \in Nat, NEW terms \in [1..n -> Nat]
   PROVE  /\ SumUpTo(terms, n) \in Nat
          /\ SumUpTo(terms, n) = 0 => \A i \in 1..n : terms[i] = 0
<1> DEFINE step == [k \in 1..n |-> [q \in Nat |-> q + terms[k]]]
           Def(g) == g = [k \in 0..n |-> IF k = 0 THEN 0 ELSE g[k - 1] + terms[k]]
           u == CHOOSE f : Def(f)
<1>1. PICK g \in [0..n -> Nat] : g[0] = 0 /\ \A k \in 1..n : g[k] = step[k][g[k - 1]]
  <2>1. step \in Steps(Nat, n)
    BY DEF Steps
  <2> HIDE DEF step
  <2>2. \E g : Runs(g, Nat, 0, n, step)
    BY <2>1, LoopExists
  <2>3. QED
    BY <2>2 DEF Runs
<1>2. Def(g)
  <2>1. ASSUME NEW k \in 1..n
        PROVE  g[k] = g[k - 1] + terms[k]
    <3>1. g[k - 1] \in Nat
      BY <1>1
    <3>2. QED
      BY <1>1, <3>1
  <2>2. QED
    BY <1>1, <2>1
<1>3. SumUpTo(terms, n) = u[n]
  BY DEF SumUpTo
<1>4. Def(u)
  BY <1>2
<1> HIDE DEF u
<1>5. u[0] = 0 /\ \A k \in 1..n : u[k] = u[k - 1] + terms[k]
  BY <1>4
<1> DEFINE Good(k) == u[k] \in Nat /\ (u[k] = 0 => \A i \in 1..k : terms[i] = 0)
           Bad == {k \in 0..n : ~Good(k)}
<1>6. ASSUME NEW k \in 1..n, Good(k - 1)
      PROVE  Good(k)
  <2>1. u[k] = u[k - 1] + terms[k] /\ u[k - 1] \in Nat /\ terms[k] \in Nat
    BY <1>5, <1>6
  <2>2. ASSUME u[k] = 0, NEW i \in 1..k
        PROVE  terms[i] = 0
    <3>1. u[k - 1] = 0 /\ terms[k] = 0
      BY <2>1, <2>2
    <3>2. i = k \/ i \in 1..k - 1
      OBVIOUS
    <3>3. QED
      BY <1>6, <3>1, <3>2
  <2>3. QED
    BY <2>1, <2>2
<1>7. Bad = {}
  <2> SUFFICES ASSUME Bad # {}
               PROVE  FALSE
    OBVIOUS
  <2>1. PICK k \in Bad : \A m \in Bad : k <= m
    <3>1. Bad \subseteq Nat
      OBVIOUS
    <3> HIDE DEF Bad
    <3>2. QED
      BY <3>1, LeastCounterexample
  <2>2. k # 0 /\ k \in 1..n /\ k - 1 \in 0..n
    BY <1>5
  <2>3. k - 1 \notin Bad
    BY <2>1, <2>2
  <2> HIDE DEF Good
  <2>4. QED
    BY <1>6, <2>2, <2>3
<1>8. QED
  BY <1>3, <1>7

\* What the loop over the scene's objects has made of the relations of o, after n.
Extends(q, o, n) ==
   /\ q \in Seq(AnyRelation) /\ Len(relations[o]) <= Len(q)
   /\ \A i \in 1..Len(relations[o]) : q[i] = relations[o][i]
   /\ \A i \in Len(relations[o]) + 1..Len(q) : \E p \in Movable : q[i] = NoCollision(p)
   /\ \A k \in 1..n : Misses(o, k) => \E i \in 1..Len(q) : q[i] = NoCollision(Order[k])

AddedAt(q, o, n) == IF Misses(o, n) THEN Append(q, NoCollision(Order[n])) ELSE q

LEMMA NoCollisionType ==
   ASSUME NEW p \in Assets
   PROVE  NoCollision(p) \in AnyRelation
  BY BuildAssumption DEF NoCollision, AnyRelation, Parented

LEMMA OrderIs == /\ Len(Order) \in Nat /\ DOMAIN Order = 1..Len(Order)
                 /\ \A k \in 1..Len(Order) : Order[k] \in Assets
                 /\ \A o \in Assets : \E k \in 1..Len(Order) : Order[k] = o
  BY BuildAssumption, LenProperties DEF Assets

LEMMA OneAdded ==
   ASSUME NEW o, NEW n \in 1..Len(Order), NEW q, Extends(q, o, n - 1), Len(relations[o]) \in Nat
   PROVE  Extends(AddedAt(q, o, n), o, n)
<1> DEFINE r == NoCollision(Order[n])
           s == Append(q, r)
<1>1. /\ q \in Seq(AnyRelation) /\ Len(relations[o]) <= Len(q)
      /\ \A i \in 1..Len(relations[o]) : q[i] = relations[o][i]
      /\ \A i \in Len(relations[o]) + 1..Len(q) : \E p \in Movable : q[i] = NoCollision(p)
      /\ \A k \in 1..n - 1 : Misses(o, k) => \E i \in 1..Len(q) : q[i] = NoCollision(Order[k])
  BY DEF Extends
<1>2. Len(q) \in Nat
  BY <1>1, LenProperties
<1>3. \A k \in 1..n : k = n \/ k \in 1..n - 1
  BY OrderIs
<1>4. CASE ~Misses(o, n)
  BY <1>1, <1>3, <1>4 DEF Extends, AddedAt
<1>5. CASE Misses(o, n)
  <2>1. Order[n] \in Movable
    BY <1>5 DEF Misses
  <2>2. r \in AnyRelation
    BY NoCollisionType, OrderIs
  <2> HIDE DEF r
  <2>3. /\ s \in Seq(AnyRelation) /\ Len(s) = Len(q) + 1 /\ s[Len(q) + 1] = r
        /\ \A i \in 1..Len(q) : s[i] = q[i]
    BY <1>1, <2>2, AppendProperties, LenProperties
  <2> HIDE DEF s
  <2>4. \A i \in 1..Len(relations[o]) : s[i] = relations[o][i]
    BY <1>1, <1>2, <2>3
  <2>5. ASSUME NEW i \in Len(relations[o]) + 1..Len(s)
        PROVE  \E p \in Movable : s[i] = NoCollision(p)
    <3>1. CASE i = Len(q) + 1
      BY <2>1, <2>3, <3>1 DEF r
    <3>2. CASE i # Len(q) + 1
      <4>1. i \in Len(relations[o]) + 1..Len(q)
        BY <1>1, <1>2, <2>3, <3>2
      <4>2. i \in 1..Len(q)
        BY <1>2, <4>1
      <4>3. QED
        BY <1>1, <2>3, <4>1, <4>2
    <3>3. QED
      BY <3>1, <3>2
  <2>6. ASSUME NEW k \in 1..n, Misses(o, k)
        PROVE  \E i \in 1..Len(s) : s[i] = NoCollision(Order[k])
    <3>1. CASE k = n
      <4>1. Len(q) + 1 \in 1..Len(s)
        BY <1>2, <2>3
      <4>2. QED
        BY <2>3, <3>1, <4>1 DEF r
    <3>2. CASE k \in 1..n - 1
      <4>1. PICK i \in 1..Len(q) : q[i] = NoCollision(Order[k])
        BY <1>1, <2>6, <3>2
      <4>2. i \in 1..Len(s) /\ s[i] = q[i]
        BY <1>2, <2>3
      <4>3. QED
        BY <4>1, <4>2
    <3>3. QED
      BY <1>3, <3>1, <3>2
  <2>7. AddedAt(q, o, n) = s
    BY <1>5 DEF AddedAt, s, r
  <2>8. Len(relations[o]) <= Len(s)
    BY <1>1, <1>2, <2>3
  <2>9. QED
    BY <2>3, <2>4, <2>5, <2>6, <2>7, <2>8 DEF Extends
<1>6. QED
  BY <1>4, <1>5

\* The builder keeps an object's relations and adds a NoCollision wherever one
\* misses (arena_env_builder.py:71-80).
LEMMA AddedIs ==
   ASSUME NEW o, relations[o] \in Seq(AnyRelation)
   PROVE  Extends(Added(o), o, Len(Order))
<1> DEFINE N == Len(Order)
           V == Seq(AnyRelation)
           step == [k \in 1..N |-> [q \in V |-> AddedAt(q, o, k)]]
           Def(g) == g = [k \in 0..N |-> IF k = 0 THEN relations[o] ELSE AddedAt(g[k - 1], o, k)]
           u == CHOOSE f : Def(f)
<1>1. N \in Nat /\ Len(relations[o]) \in Nat
  BY OrderIs, LenProperties
<1>2. \A k \in 1..N, q \in V : AddedAt(q, o, k) \in V
  BY OrderIs, NoCollisionType, AppendProperties DEF AddedAt
<1>3. step \in Steps(V, N) /\ \A k \in 1..N, q \in V : step[k][q] = AddedAt(q, o, k)
  BY <1>2 DEF Steps
<1> HIDE DEF step, V, N
<1>4. PICK g \in [0..N -> V] : g[0] = relations[o] /\ \A k \in 1..N : g[k] = step[k][g[k - 1]]
  <2>1. relations[o] \in V
    BY DEF V
  <2>2. \E g : Runs(g, V, relations[o], N, step)
    BY <1>1, <1>3, <2>1, LoopExists
  <2>3. QED
    BY <2>2 DEF Runs
<1>5. Def(g)
  <2>1. ASSUME NEW k \in 1..N
        PROVE  g[k] = AddedAt(g[k - 1], o, k)
    <3>1. g[k - 1] \in V
      BY <1>1, <1>4
    <3>2. QED
      BY <1>3, <1>4, <3>1
  <2>2. \A k \in 0..N : k = 0 \/ k \in 1..N
    BY <1>1
  <2>3. QED
    BY <1>4, <2>1, <2>2
<1>6. Added(o) = u[N]
  BY DEF Added, AddedAt, N
<1>7. Def(u)
  BY <1>5
<1> HIDE DEF u
<1>8. u[0] = relations[o] /\ \A k \in 1..N : u[k] = AddedAt(u[k - 1], o, k)
  <2>1. 0 \in 0..N /\ \A k \in 1..N : k \in 0..N /\ k # 0
    BY <1>1
  <2>2. QED
    BY <1>7, <2>1
<1> DEFINE Bad == {k \in 0..N : ~Extends(u[k], o, k)}
<1>9. Bad = {}
  <2> SUFFICES ASSUME Bad # {}
               PROVE  FALSE
    OBVIOUS
  <2>1. PICK k \in Bad : \A m \in Bad : k <= m
    <3>1. Bad \subseteq Nat
      BY <1>1
    <3> HIDE DEF Bad
    <3>2. QED
      BY <3>1, LeastCounterexample
  <2>2. k # 0
    BY <1>1, <1>8, <2>1 DEF Extends
  <2>3. k \in 1..N /\ k - 1 \in 0..N
    BY <1>1, <2>2
  <2>4. Extends(u[k - 1], o, k - 1)
    BY <1>1, <2>1, <2>3
  <2>5. u[k] = AddedAt(u[k - 1], o, k)
    BY <1>8, <2>3
  <2>6. k \in 1..Len(Order) /\ Len(relations[o]) \in Nat
    BY <1>1, <2>3 DEF N
  <2> DEFINE q == u[k - 1]
  <2>7. Extends(q, o, k - 1)
    BY <2>4
  <2> HIDE DEF Bad, q
  <2>8. Extends(AddedAt(q, o, k), o, k)
    BY <2>6, <2>7, OneAdded
  <2>9. Extends(u[k], o, k)
    BY <2>5, <2>8 DEF q
  <2>10. QED
    BY <2>1, <2>9 DEF Bad
<1>10. Extends(u[N], o, N)
  <2>1. N \in 0..N
    BY <1>1
  <2> HIDE DEF Extends
  <2>2. QED
    BY <1>9, <2>1
<1> HIDE DEF Bad
<1>11. QED
  BY <1>6, <1>10 DEF N
-----------------------------------------------------------------------------
(* The losses are natural numbers *)

LEMMA RotatedIsBox ==
   ASSUME NEW b, IsBox(b), NEW quarters \in Int
   PROVE  IsBox(Rotated(b, quarters))
<1>1. ASSUME NEW c, IsBox(c)
      PROVE  IsBox(QuarterTurn(c))
  BY <1>1 DEF IsBox, QuarterTurn, Points, Axes
<1>2. quarters % 4 \in {0, 1, 2, 3}
  OBVIOUS
<1>3. /\ IsBox(QuarterTurn(b)) /\ IsBox(QuarterTurn(QuarterTurn(b)))
      /\ IsBox(QuarterTurn(QuarterTurn(QuarterTurn(b))))
  BY <1>1
<1>4. QED
  BY <1>2, <1>3 DEF Rotated

LEMMA PoseKinds ==
   ASSUME NEW p \in Poses \cup Ranges \cup {None}
   PROVE  /\ p \in Poses => p.kind = "pose" /\ p.at \in Points /\ p.turn \in Int
          /\ p \in Ranges => p.kind = "range" /\ p.at \in Points /\ p.turn \in Int
          /\ p = None => p.kind = "none"
  BY DEF Poses, Ranges, None

LEMMA WorldBoxIs ==
   ASSUME TypeOK, NEW o \in Assets
   PROVE  /\ IsBox(WorldBox(o))
          /\ pose[o].kind = "pose" /\ pose[o].turn % 4 = 0
                => WorldBox(o) = Translated(LocalBox[o], pose[o].at)
<1>1. IsBox(LocalBox[o])
  BY BuildAssumption
<1>2. pose[o] \in Poses \cup Ranges \cup {None}
  BY DEF TypeOK
<1>3. CASE pose[o].kind # "pose"
  BY <1>1, <1>3 DEF WorldBox
<1>4. CASE pose[o].kind = "pose"
  <2>1. pose[o].at \in Points /\ pose[o].turn \in Int
    BY <1>2, <1>4, PoseKinds
  <2>2. WorldBox(o) = Translated(Rotated(LocalBox[o], pose[o].turn), pose[o].at)
    BY <1>4 DEF WorldBox
  <2>3. IsBox(WorldBox(o))
    BY <1>1, <2>1, <2>2, RotatedIsBox, TranslatedIsBox
  <2>4. pose[o].turn % 4 = 0 => Rotated(LocalBox[o], pose[o].turn) = LocalBox[o]
    BY DEF Rotated
  <2>5. QED
    BY <2>2, <2>3, <2>4
<1>5. QED
  BY <1>3, <1>4

LEMMA ParentBoxIs ==
   ASSUME TypeOK, NEW positions \in Placements, NEW p \in Related
   PROVE  IsBox(ParentBox(positions, p))
<1>1. p \in Assets /\ IsBox(LocalBox[p]) /\ positions[p] \in Points
  BY BuildAssumption DEF Related, Placements
<1>2. QED
  BY <1>1, WorldBoxIs, TranslatedIsBox DEF ParentBox

LEMMA OnLossIs ==
   ASSUME NEW rel, rel.clearance \in Nat, NEW pos \in Points, NEW child, IsBox(child),
          NEW parent, IsBox(parent)
   PROVE  OnLoss(rel, pos, child, parent) \in Nat
<1> DEFINE bx == BandLoss(pos.x, parent.min.x - child.min.x, parent.max.x - child.max.x)
           by == BandLoss(pos.y, parent.min.y - child.min.y, parent.max.y - child.max.y)
           pz == PointLoss(pos.z, parent.max.z + rel.clearance - child.min.z)
<1>1. /\ pos.x \in Int /\ pos.y \in Int /\ pos.z \in Int
      /\ parent.min.x - child.min.x \in Int /\ parent.max.x - child.max.x \in Int
      /\ parent.min.y - child.min.y \in Int /\ parent.max.y - child.max.y \in Int
      /\ parent.max.z + rel.clearance - child.min.z \in Int
  BY DEF IsBox, Points
<1>2. bx \in Nat /\ by \in Nat /\ pz \in Nat
  BY <1>1, NoBandLoss, NoPointLoss
<1>3. OnLoss(rel, pos, child, parent) = 100 * (bx + by + pz)
  BY DEF OnLoss
<1> HIDE DEF bx, by, pz
<1>4. QED
  BY <1>2, <1>3

LEMMA NoCollisionLossIs ==
   ASSUME NEW rel, rel.clearance \in Nat, NEW pos \in Points, NEW child, IsBox(child),
          NEW parent, IsBox(parent)
   PROVE  NoCollisionLoss(rel, pos, child, parent) \in Nat
<1> DEFINE over(a) == AxisOverlap(a, pos, child, parent, rel.clearance)
<1>1. ASSUME NEW a \in Axes
      PROVE  over(a) \in Nat
  <2>1. /\ pos[a] \in Int /\ child.min[a] \in Int /\ child.max[a] \in Int
        /\ parent.min[a] \in Int /\ parent.max[a] \in Int
        /\ child.min[a] < child.max[a] /\ parent.min[a] < parent.max[a]
    BY DEF IsBox, Points, Axes
  <2>2. /\ pos[a] + child.min[a] < pos[a] + child.max[a]
        /\ parent.min[a] - rel.clearance < parent.max[a] + rel.clearance
        /\ pos[a] + child.min[a] \in Int /\ pos[a] + child.max[a] \in Int
        /\ parent.min[a] - rel.clearance \in Int /\ parent.max[a] + rel.clearance \in Int
    BY <2>1
  <2>3. QED
    BY <2>2, NoIntervalOverlap DEF AxisOverlap
<1>2. over("x") \in Nat /\ over("y") \in Nat /\ over("z") \in Nat
  BY <1>1 DEF Axes
<1>3. NoCollisionLoss(rel, pos, child, parent) = 100 * (over("x") * over("y") * over("z"))
  BY DEF NoCollisionLoss
<1> HIDE DEF over
<1>4. over("x") * over("y") \in Nat
  BY <1>2
<1>5. over("x") * over("y") * over("z") \in Nat
  BY <1>2, <1>4
<1>6. QED
  BY <1>3, <1>5

LEMMA NextToLossIs ==
   ASSUME NEW rel \in [type : {"NextTo"}, parent : Assets, axis : {"x", "y"}, positive : BOOLEAN,
                       distance : Nat \ {0}, cross : {-1, 0, 1}],
          NEW pos \in Points, NEW child, IsBox(child), NEW parent, IsBox(parent)
   PROVE  NextToLoss(rel, pos, child, parent) \in Nat
<1> DEFINE a == rel.axis
           band == IF a = "x" THEN "y" ELSE "x"
           edge == IF rel.positive THEN parent.max[a] ELSE parent.min[a]
           target == IF rel.positive THEN edge + rel.distance - child.min[a]
                                     ELSE edge - rel.distance - child.max[a]
           bandMin == parent.min[band] - child.min[band]
           bandMax == parent.max[band] - child.max[band]
           middle == bandMin + ((rel.cross + 1) * (bandMax - bandMin)) \div 2
           side == IF rel.positive THEN LessLoss(pos[a], edge) ELSE GreaterLoss(pos[a], edge)
<1>1. a \in Axes /\ band \in Axes
  BY DEF Axes
<1>2. \A b \in Axes : /\ pos[b] \in Int /\ child.min[b] \in Int /\ child.max[b] \in Int
                      /\ parent.min[b] \in Int /\ parent.max[b] \in Int
  BY DEF IsBox, Points, Axes
<1>3. edge \in Int /\ target \in Int /\ bandMin \in Int /\ bandMax \in Int
  BY <1>1, <1>2
<1>4. middle \in Int
  <2> HIDE DEF bandMin, bandMax
  <2>1. rel.cross + 1 \in {0, 1, 2}
    OBVIOUS
  <2>2. (rel.cross + 1) * (bandMax - bandMin) \in Int
    BY <1>3, <2>1
  <2>3. QED
    BY <1>3, <2>2
<1>5. pos[a] \in Int /\ pos[band] \in Int
  BY <1>1, <1>2
<1>6. NextToLoss(rel, pos, child, parent)
         = 10 * (side + PointLoss(pos[band], middle) + PointLoss(pos[a], target))
  BY DEF NextToLoss
<1> HIDE DEF edge, target, middle, band, a
<1>7. side \in Nat
  BY <1>3, <1>5 DEF LessLoss, GreaterLoss, Upper
<1>8. PointLoss(pos[band], middle) \in Nat /\ PointLoss(pos[a], target) \in Nat
  BY <1>3, <1>4, <1>5, NoPointLoss
<1> HIDE DEF side
<1>9. QED
  BY <1>6, <1>7, <1>8

LEMMA AtPositionLossIs ==
   ASSUME NEW rel \in AtPositions, NEW pos \in Points
   PROVE  AtPositionLoss(rel, pos) \in Nat
<1>1. \A a \in Axes : pos[a] \in Int /\ rel.at[a] \in Int
  BY DEF AtPositions, Points, Axes
<1>2. \A a \in Axes : AxisLoss(rel, pos, a) \in Nat
  BY <1>1, NoPointLoss DEF AxisLoss
<1>3. /\ AxisLoss(rel, pos, "x") \in Nat /\ AxisLoss(rel, pos, "y") \in Nat
      /\ AxisLoss(rel, pos, "z") \in Nat
  BY <1>2 DEF Axes
<1>4. QED
  BY <1>3 DEF AtPositionLoss

LEMMA RelationKinds ==
   ASSUME NEW r \in AnyRelation
   PROVE  /\ r.type \in {"On", "NoCollision"} => r.clearance \in Nat
          /\ r.type \in {"On", "NoCollision", "NextTo"} => r \in Parented
          /\ r.type = "NextTo" =>
                r \in [type : {"NextTo"}, parent : Assets, axis : {"x", "y"}, positive : BOOLEAN,
                       distance : Nat \ {0}, cross : {-1, 0, 1}]
          /\ r.type = "AtPosition" => r \in AtPositions
          /\ r.type = "RandomAroundSolution" => r.half \in Nat
          /\ r.type = "RotateAroundSolution" => r.turn \in Int
  BY DEF AnyRelation, Parented, AtPositions, Markers

LEMMA RelationLossIs ==
   ASSUME TypeOK, NEW positions \in Placements, NEW o \in Related, NEW r \in AnyRelation,
          r.type \in Spatial, r \in Parented => r.parent \in Related
   PROVE  RelationLoss(positions, o, r) \in Nat
<1>1. positions[o] \in Points /\ IsBox(LocalBox[o])
  BY BuildAssumption DEF Placements, Related
<1>2. r.type \in {"On", "NoCollision", "NextTo"} => IsBox(ParentBox(positions, r.parent))
  BY ParentBoxIs, RelationKinds
<1>3. CASE r.type = "On"
  <2>1. OnLoss(r, positions[o], LocalBox[o], ParentBox(positions, r.parent)) \in Nat
    BY <1>1, <1>2, <1>3, RelationKinds, OnLossIs
  <2>2. QED
    BY <1>3, <2>1 DEF RelationLoss
<1>4. CASE r.type = "NoCollision"
  <2>1. NoCollisionLoss(r, positions[o], LocalBox[o], ParentBox(positions, r.parent)) \in Nat
    BY <1>1, <1>2, <1>4, RelationKinds, NoCollisionLossIs
  <2>2. QED
    BY <1>4, <2>1 DEF RelationLoss
<1>5. CASE r.type = "NextTo"
  <2>1. NextToLoss(r, positions[o], LocalBox[o], ParentBox(positions, r.parent)) \in Nat
    BY <1>1, <1>2, <1>5, RelationKinds, NextToLossIs
  <2>2. QED
    BY <1>5, <2>1 DEF RelationLoss
<1>6. CASE r.type = "AtPosition"
  <2>1. AtPositionLoss(r, positions[o]) \in Nat
    BY <1>1, <1>6, RelationKinds, AtPositionLossIs
  <2>2. QED
    BY <1>6, <2>1 DEF RelationLoss
<1>7. QED
  BY <1>3, <1>4, <1>5, <1>6 DEF Spatial

\* What a relation refers to has a position.
ParentsKnown == \A o \in Assets : \A i \in DOMAIN relations[o] :
   relations[o][i] \in Parented => relations[o][i].parent \in Related

LEMMA LossOfIs ==
   ASSUME TypeOK, ParentsKnown, NEW positions \in Placements, NEW o \in Related
   PROVE  /\ LossOf(positions, o) \in Nat
          /\ LossOf(positions, o) = 0 =>
                \A i \in DOMAIN relations[o] : relations[o][i].type \in Spatial =>
                   RelationLoss(positions, o, relations[o][i]) = 0
<1> DEFINE terms == [i \in DOMAIN relations[o] |->
                       IF relations[o][i].type \in Spatial
                       THEN RelationLoss(positions, o, relations[o][i]) ELSE 0]
           n == Len(relations[o])
<1>1. o \in Assets /\ relations[o] \in Seq(AnyRelation)
  BY DEF TypeOK, Related
<1>2. n \in Nat /\ DOMAIN relations[o] = 1..n /\ \A i \in 1..n : relations[o][i] \in AnyRelation
  BY <1>1, LenProperties, ElementOfSeq
<1>3. ASSUME NEW i \in 1..n
      PROVE  terms[i] \in Nat
  <2>1. CASE relations[o][i].type \in Spatial
    <3>1. RelationLoss(positions, o, relations[o][i]) \in Nat
      BY <1>1, <1>2, <2>1, RelationLossIs DEF ParentsKnown
    <3>2. QED
      BY <1>2, <2>1, <3>1
  <2>2. CASE relations[o][i].type \notin Spatial
    BY <1>2, <2>2
  <2>3. QED
    BY <2>1, <2>2
<1>4. terms \in [1..n -> Nat]
  BY <1>2, <1>3
<1>5. LossOf(positions, o) = SumUpTo(terms, n)
  BY DEF LossOf
<1>6. /\ SumUpTo(terms, n) \in Nat
      /\ SumUpTo(terms, n) = 0 => \A i \in 1..n : terms[i] = 0
  <2> HIDE DEF terms, n
  <2>1. QED
    BY <1>2, <1>4, SumIs
<1>7. QED
  BY <1>2, <1>5, <1>6

\* The total loss is zero only if every relation's is.
LEMMA TotalLossIs ==
   ASSUME TypeOK, ParentsKnown, NEW positions \in Placements
   PROVE  /\ TotalLoss(positions) \in Nat
          /\ TotalLoss(positions) = 0 =>
                \A o \in Movable : \A i \in DOMAIN relations[o] :
                   relations[o][i].type \in Spatial =>
                      RelationLoss(positions, o, relations[o][i]) = 0
<1> DEFINE terms == [k \in DOMAIN Order |->
                       IF Order[k] \in Movable THEN LossOf(positions, Order[k]) ELSE 0]
           n == Len(Order)
<1>1. ASSUME NEW k \in 1..n
      PROVE  terms[k] \in Nat
  BY OrderIs, LossOfIs DEF Movable
<1>2. terms \in [1..n -> Nat]
  BY <1>1, OrderIs
<1>3. TotalLoss(positions) = SumUpTo(terms, n)
  BY DEF TotalLoss
<1>4. /\ SumUpTo(terms, n) \in Nat
      /\ SumUpTo(terms, n) = 0 => \A k \in 1..n : terms[k] = 0
  <2>1. n \in Nat
    BY OrderIs
  <2> HIDE DEF terms, n
  <2>2. QED
    BY <1>2, <2>1, SumIs
<1>5. ASSUME TotalLoss(positions) = 0, NEW o \in Movable
      PROVE  LossOf(positions, o) = 0
  <2>1. PICK k \in 1..n : Order[k] = o
    BY OrderIs DEF Movable, Related
  <2>2. terms[k] = 0
    BY <1>3, <1>4, <1>5
  <2>3. QED
    BY <2>1, <2>2, OrderIs
<1>6. QED
  BY <1>3, <1>4, <1>5, LossOfIs DEF Movable
-----------------------------------------------------------------------------
(* The invariant *)

GivenRelated == {o \in Assets : given.relations[o] # <<>>}
GivenAnchors == {o \in Assets : \E i \in DOMAIN given.relations[o] :
                                   given.relations[o][i].type = "IsAnchor"}

\* The relations are those given, and behind them what the builder has added.
RelationsKept ==
   /\ Related = GivenRelated /\ Anchors = GivenAnchors
   /\ \A o \in Assets :
         /\ Len(given.relations[o]) <= Len(relations[o])
         /\ \A i \in 1..Len(given.relations[o]) : relations[o][i] = given.relations[o][i]
         /\ \A i \in Len(given.relations[o]) + 1..Len(relations[o]) :
               \E p \in Movable : relations[o][i] = NoCollision(p)

\* Of every two movable objects the first has a NoCollision with the second.
PairsSeparated ==
   \A i, k \in 1..Len(Order) :
      i < k /\ Order[i] \in Movable /\ Order[k] \in Movable => Separated(Order[i], Order[k])

\* From the start of a build on there are anchors, which have a place and stay there.
Anchored ==
   /\ pc \in {"attempt", "solve", "validate", "apply"} =>
         PairsSeparated /\ Anchors # {} /\ \A o \in Anchors : pose[o] # None
   /\ pc \in {"solve", "validate"} =>
         /\ at \in Placements
         /\ \A o \in Anchors : pose[o].kind = "pose" /\ at[o] = pose[o].at

\* The configs agree with the pose, which is the given one unless the placer chose it.
Configured ==
   \A o \in Assets : /\ init[o] = Middle(pose[o]) /\ event[o] = ResetEvent(o, pose[o])
                     /\ o \notin Movable => pose[o] = given.pose[o]

IsBest(i) == IF \E j \in DOMAIN tried : tried[j].valid THEN tried[i].valid
             ELSE \A j \in DOMAIN tried : tried[i].loss <= tried[j].loss

\* The placer goes on while no attempt is valid, and keeps the best one.
BestKept ==
   /\ tried = <<>> <=> best = None
   /\ pc \in {"attempt", "solve", "validate"} =>
         Len(tried) < MaxAttempts /\ \A i \in DOMAIN tried : ~tried[i].valid
   /\ pc = "apply" => tried # <<>>
   /\ tried # <<>> => \E i \in DOMAIN tried :
         IsBest(i) /\ best = [at |-> tried[i].at, loss |-> tried[i].loss, success |-> tried[i].valid]

\* What was applied is the best, and what the scene was composed of is what it has.
Captured ==
   /\ pc \in {"compose", "idle"} /\ tried # <<>> =>
         \A o \in Movable : pose[o] # None /\ pose[o].at = best.at[o]
   /\ pc = "idle" /\ builds > 0 => scene = [init |-> init, event |-> event, pose |-> pose]

\* The iterations of an attempt and the builds are within their bounds.
Bounded == /\ pc = "solve" => iter < MaxIters
           /\ pc \notin {"idle", "raised"} => builds < MaxBuilds

BuildInv == TypeOK /\ Bounded /\ RelationsKept /\ Anchored /\ Configured /\ BestKept /\ Captured

LEMMA GivenIs ==
   ASSUME TypeOK
   PROVE  /\ given.relations \in [Assets -> Seq(AnyRelation)]
          /\ given.pose \in [Assets -> Poses \cup Ranges \cup {None}]
          /\ given.spots \subseteq Points
  BY BuildAssumption DEF TypeOK

LEMMA ParentsAre ==
   ASSUME TypeOK, RelationsKept, Anchors # {}
   PROVE  ParentsKnown
<1> SUFFICES ASSUME NEW o \in Assets, NEW i \in DOMAIN relations[o], relations[o][i] \in Parented
             PROVE  relations[o][i].parent \in Related
  BY DEF ParentsKnown
<1> DEFINE n == Len(given.relations[o])
<1>1. /\ relations[o] \in Seq(AnyRelation) /\ given.relations[o] \in Seq(AnyRelation)
  BY GivenIs DEF TypeOK
<1>2. i \in 1..Len(relations[o]) /\ n \in Nat /\ DOMAIN given.relations[o] = 1..n
  BY <1>1, LenProperties
<1>3. CASE i \in 1..n
  <2>1. relations[o][i] = given.relations[o][i]
    BY <1>3 DEF RelationsKept
  <2>2. PICK a \in Assets : \E k \in DOMAIN given.relations[a] :
                               given.relations[a][k].type = "IsAnchor"
    BY DEF RelationsKept, GivenAnchors
  <2>3. given.relations[given.relations[o][i].parent] # <<>>
    <3>1. given \in Scenarios
      BY DEF TypeOK
    <3>2. \A k \in DOMAIN given.relations[a] :
             given.relations[a][k].type = "IsAnchor" /\ given.relations[o][i] \in Parented
                => given.relations[given.relations[o][i].parent] # <<>>
      BY <1>2, <1>3, <3>1, BuildAssumption
    <3>3. QED
      BY <2>1, <2>2, <3>2
  <2>4. relations[o][i].parent \in Assets
    BY DEF Parented
  <2>5. relations[o][i].parent \in GivenRelated
    BY <2>1, <2>3, <2>4 DEF GivenRelated
  <2>6. QED
    BY <2>5 DEF RelationsKept
<1>4. CASE i \in n + 1..Len(relations[o])
  <2>1. PICK p \in Movable : relations[o][i] = NoCollision(p)
    BY <1>4 DEF RelationsKept
  <2>2. QED
    BY <2>1 DEF NoCollision, Movable
<1>5. QED
  BY <1>2, <1>3, <1>4

LEMMA InitBuild == Init => BuildInv
<1> SUFFICES ASSUME Init
             PROVE  BuildInv
  OBVIOUS
<1>1. /\ given \in Scenarios /\ relations = given.relations /\ pose = given.pose
      /\ init = [o \in Assets |-> Middle(pose[o])]
      /\ event = [o \in Assets |-> ResetEvent(o, pose[o])]
      /\ pc = "idle" /\ at = None /\ iter = 0 /\ loss = 0 /\ tried = <<>> /\ best = None
      /\ builds = 0
  BY DEF Init
<1>2. /\ given.relations \in [Assets -> Seq(AnyRelation)]
      /\ given.pose \in [Assets -> Poses \cup Ranges \cup {None}]
  BY <1>1, BuildAssumption
<1>3. ASSUME NEW o \in Assets
      PROVE  /\ Middle(pose[o]) \in Poses \cup {None}
             /\ ResetEvent(o, pose[o]) \in Poses \cup Ranges \cup {None}
  BY <1>1, <1>2 DEF Middle, ResetEvent, Pose, Poses, Ranges
<1>4. TypeOK
  <2>1. <<>> \in Seq([at : Placements, loss : Nat, valid : BOOLEAN]) /\ Len(<<>>) = 0
    BY EmptySeq
  <2>2. init \in [Assets -> Poses \cup {None}] /\ event \in [Assets -> Poses \cup Ranges \cup {None}]
    BY <1>1, <1>3
  <2>3. QED
    BY <1>1, <1>2, <2>1, <2>2, BuildAssumption DEF TypeOK
<1>5. RelationsKept
  <2>1. Related = GivenRelated /\ Anchors = GivenAnchors
    BY <1>1 DEF Related, Anchors, GivenRelated, GivenAnchors, Has
  <2>2. \A o \in Assets : Len(relations[o]) \in Nat /\ relations[o] = given.relations[o]
    BY <1>1, <1>2, LenProperties
  <2>3. QED
    BY <2>1, <2>2 DEF RelationsKept
<1>6. Configured
  BY <1>1 DEF Configured
<1>7. QED
  BY <1>1, <1>4, <1>5, <1>6 DEF BuildInv, Bounded, Anchored, BestKept, Captured
-----------------------------------------------------------------------------
(* Starting a build *)

\* The relations the builder adds leave every object what it was, movable or not.
LEMMA StartAdds ==
   ASSUME TypeOK, RelationsKept, UNCHANGED given,
          relations' = [o \in Assets |-> IF o \in Movable THEN Added(o) ELSE relations[o]]
   PROVE  /\ relations' \in [Assets -> Seq(AnyRelation)]
          /\ Related' = Related /\ Anchors' = Anchors
          /\ RelationsKept' /\ PairsSeparated'
<1>1. ASSUME NEW o \in Assets
      PROVE  /\ relations[o] \in Seq(AnyRelation) /\ relations'[o] \in Seq(AnyRelation)
             /\ Len(relations[o]) <= Len(relations'[o])
             /\ \A i \in 1..Len(relations[o]) : relations'[o][i] = relations[o][i]
             /\ \A i \in Len(relations[o]) + 1..Len(relations'[o]) :
                   o \in Movable /\ \E p \in Movable : relations'[o][i] = NoCollision(p)
             /\ o \in Movable => \A k \in 1..Len(Order) : Misses(o, k) =>
                   \E i \in 1..Len(relations'[o]) : relations'[o][i] = NoCollision(Order[k])
  <2>1. relations[o] \in Seq(AnyRelation) /\ Len(relations[o]) \in Nat
    BY LenProperties DEF TypeOK
  <2>2. CASE o \in Movable
    <3>1. relations'[o] = Added(o)
      BY <2>2
    <3>2. Extends(relations'[o], o, Len(Order))
      BY <2>1, <3>1, AddedIs
    <3>3. QED
      BY <2>1, <2>2, <3>2 DEF Extends
  <2>3. CASE o \notin Movable
    BY <2>1, <2>3
  <2>4. QED
    BY <2>2, <2>3
<1>2. relations' \in [Assets -> Seq(AnyRelation)]
  <2>1. \A o \in Assets : relations'[o] \in Seq(AnyRelation)
    BY <1>1
  <2>2. relations' = [o \in Assets |-> relations'[o]]
    OBVIOUS
  <2>3. QED
    BY <2>1, <2>2
<1>3. \A o \in Assets : /\ Len(relations[o]) \in Nat /\ DOMAIN relations[o] = 1..Len(relations[o])
                        /\ Len(relations'[o]) \in Nat /\ DOMAIN relations'[o] = 1..Len(relations'[o])
                        /\ relations[o] = <<>> <=> Len(relations[o]) = 0
                        /\ relations'[o] = <<>> <=> Len(relations'[o]) = 0
  BY <1>1, LenProperties, EmptySeq
<1>4. Related' = Related
  <2>1. ASSUME NEW o \in Assets
        PROVE  relations'[o] = <<>> <=> relations[o] = <<>>
    <3>1. CASE o \in Movable
      BY <1>1, <1>3, <3>1 DEF Movable, Related
    <3>2. CASE o \notin Movable
      BY <3>2
    <3>3. QED
      BY <3>1, <3>2
  <2>2. QED
    BY <2>1 DEF Related
<1>5. Anchors' = Anchors
  <2>1. ASSUME NEW o \in Assets
        PROVE  (\E i \in 1..Len(relations'[o]) : relations'[o][i].type = "IsAnchor")
                  <=> (\E i \in 1..Len(relations[o]) : relations[o][i].type = "IsAnchor")
    <3>1. \A i \in 1..Len(relations[o]) : i \in 1..Len(relations'[o])
      BY <1>1, <1>3
    <3>2. ASSUME NEW i \in 1..Len(relations'[o]), relations'[o][i].type = "IsAnchor"
          PROVE  i \in 1..Len(relations[o])
      <4>1. \A p : NoCollision(p).type # "IsAnchor"
        BY DEF NoCollision
      <4>2. i \notin Len(relations[o]) + 1..Len(relations'[o])
        BY <1>1, <3>2, <4>1
      <4>3. QED
        BY <1>3, <4>2
    <3>3. QED
      BY <1>1, <3>1, <3>2
  <2>2. QED
    BY <1>3, <2>1 DEF Anchors, Has
<1>6. Movable' = Movable
  BY <1>4, <1>5 DEF Movable
<1>7. RelationsKept'
  <2>1. Related' = GivenRelated' /\ Anchors' = GivenAnchors'
    BY <1>4, <1>5 DEF RelationsKept, GivenRelated, GivenAnchors
  <2>2. ASSUME NEW o \in Assets
        PROVE  /\ Len(given.relations[o]) <= Len(relations'[o])
               /\ \A i \in 1..Len(given.relations[o]) : relations'[o][i] = given.relations[o][i]
               /\ \A i \in Len(given.relations[o]) + 1..Len(relations'[o]) :
                     \E p \in Movable : relations'[o][i] = NoCollision(p)
    <3>1. /\ Len(given.relations[o]) \in Nat /\ Len(given.relations[o]) <= Len(relations[o])
          /\ \A i \in 1..Len(given.relations[o]) : relations[o][i] = given.relations[o][i]
          /\ \A i \in Len(given.relations[o]) + 1..Len(relations[o]) :
                \E p \in Movable : relations[o][i] = NoCollision(p)
      BY GivenIs, LenProperties DEF RelationsKept
    <3>2. ASSUME NEW i \in Len(given.relations[o]) + 1..Len(relations'[o])
          PROVE  \E p \in Movable : relations'[o][i] = NoCollision(p)
      <4>1. CASE i <= Len(relations[o])
        <5>1. i \in Len(given.relations[o]) + 1..Len(relations[o]) /\ i \in 1..Len(relations[o])
          BY <1>3, <3>1, <4>1
        <5>2. QED
          BY <1>1, <3>1, <5>1
      <4>2. CASE ~(i <= Len(relations[o]))
        <5>1. i \in Len(relations[o]) + 1..Len(relations'[o])
          BY <1>3, <3>1, <4>2
        <5>2. QED
          BY <1>1, <5>1
      <4>3. QED
        BY <4>1, <4>2
    <3>3. ASSUME NEW i \in 1..Len(given.relations[o])
          PROVE  relations'[o][i] = given.relations[o][i]
      <4>1. i \in 1..Len(relations[o])
        BY <1>3, <3>1
      <4>2. QED
        BY <1>1, <3>1, <4>1
    <3>4. Len(given.relations[o]) <= Len(relations'[o])
      BY <1>1, <1>3, <3>1
    <3>5. QED
      BY <3>2, <3>3, <3>4
  <2>3. \A p : NoCollision(p)' = NoCollision(p)
    BY DEF NoCollision
  <2>4. QED
    BY <1>6, <2>1, <2>2, <2>3 DEF RelationsKept
<1>8. PairsSeparated'
  <2> SUFFICES ASSUME NEW i \in 1..Len(Order), NEW k \in 1..Len(Order), i < k,
                      Order[i] \in Movable, Order[k] \in Movable
               PROVE  Separated(Order[i], Order[k])'
    BY <1>6 DEF PairsSeparated
  <2> DEFINE o == Order[i]
  <2>1. o \in Assets
    BY DEF Movable, Related
  <2>2. CASE Separated(o, Order[k])
    <3>1. PICK j \in 1..Len(relations[o]) : /\ relations[o][j].type = "NoCollision"
                                            /\ relations[o][j].parent = Order[k]
      BY <1>3, <2>1, <2>2 DEF Separated
    <3>2. j \in 1..Len(relations'[o]) /\ relations'[o][j] = relations[o][j]
      BY <1>1, <1>3, <2>1, <3>1
    <3>3. QED
      BY <1>3, <2>1, <3>1, <3>2 DEF Separated
  <2>3. CASE ~Separated(o, Order[k])
    <3>1. Misses(o, k)
      <4>1. i \in 1..k - 1
        BY OrderIs
      <4>2. QED
        BY <2>3, <4>1 DEF Misses
    <3>2. PICK j \in 1..Len(relations'[o]) : relations'[o][j] = NoCollision(Order[k])
      BY <1>1, <2>1, <3>1
    <3>3. QED
      BY <1>3, <2>1, <3>2 DEF Separated, NoCollision
  <2>4. QED
    BY <2>2, <2>3
<1>9. QED
  BY <1>2, <1>4, <1>5, <1>7, <1>8

\* While the relations stay, what is said of them does.
LEMMA RelationsStay ==
   ASSUME RelationsKept, UNCHANGED <<given, relations>>
   PROVE  /\ RelationsKept' /\ Related' = Related /\ Anchors' = Anchors /\ Movable' = Movable
          /\ Placements' = Placements /\ PairsSeparated' = PairsSeparated
<1>1. Related' = Related
  BY DEF Related
<1>2. Anchors' = Anchors
  BY DEF Anchors, Has
<1>3. Movable' = Movable /\ Placements' = Placements
  BY <1>1, <1>2 DEF Movable, Placements
<1>4. RelationsKept'
  BY <1>1, <1>2, <1>3 DEF RelationsKept, GivenRelated, GivenAnchors, NoCollision
<1>5. PairsSeparated' = PairsSeparated
  BY <1>3 DEF PairsSeparated, Separated
<1>6. QED
  BY <1>1, <1>2, <1>3, <1>4, <1>5

LEMMA StartKeeps ==
   ASSUME BuildInv, NEW solveRelations \in BOOLEAN, StartBuild(solveRelations)
   PROVE  BuildInv'
<1>1. TypeOK /\ Bounded /\ RelationsKept /\ Anchored /\ Configured /\ BestKept /\ Captured
  BY DEF BuildInv
<1>2. /\ pc = "idle" /\ tried' = <<>> /\ best' = None
      /\ UNCHANGED <<given, pose, init, event, at, iter, loss, scene, builds>>
  BY DEF StartBuild, objects, solver
<1>3. /\ <<>> \in Seq([at : Placements', loss : Nat, valid : BOOLEAN]) /\ Len(<<>>) = 0
      /\ 0 <= MaxAttempts
  BY EmptySeq, BuildAssumption
<1>4. BestKept'
  <2>1. pc' \in {"compose", "raised", "attempt"}
    BY DEF StartBuild
  <2>2. 0 < MaxAttempts /\ DOMAIN <<>> = {}
    BY BuildAssumption
  <2>3. QED
    BY <1>2, <1>3, <2>1, <2>2 DEF BestKept
<1>5. Captured'
  <2>1. pc' \in {"compose", "raised", "attempt"}
    BY DEF StartBuild
  <2>2. QED
    BY <1>2, <2>1 DEF Captured
<1>6. Bounded'
  BY <1>2 DEF Bounded, StartBuild
<1>7. CASE UNCHANGED relations /\ pc' = "compose"
  <2>1. /\ RelationsKept' /\ Related' = Related /\ Anchors' = Anchors /\ Movable' = Movable
        /\ Placements' = Placements
    BY <1>1, <1>2, <1>7, RelationsStay
  <2>2. TypeOK'
    BY <1>1, <1>2, <1>3, <1>7, <2>1 DEF TypeOK
  <2>3. Configured'
    BY <1>1, <1>2, <2>1 DEF Configured, Middle, ResetEvent, Pose
  <2>4. Anchored'
    BY <1>7 DEF Anchored
  <2>5. QED
    BY <1>4, <1>5, <1>6, <2>1, <2>2, <2>3, <2>4 DEF BuildInv
<1>8. CASE /\ relations' = [o \in Assets |-> IF o \in Movable THEN Added(o) ELSE relations[o]]
           /\ pc' = IF Anchors = {} \/ \E o \in Anchors : pose[o] = None
                    THEN "raised" ELSE "attempt"
  <2>1. /\ relations' \in [Assets -> Seq(AnyRelation)]
        /\ Related' = Related /\ Anchors' = Anchors
        /\ RelationsKept' /\ PairsSeparated'
    BY <1>1, <1>2, <1>8, StartAdds
  <2>2. Movable' = Movable /\ Placements' = Placements
    BY <2>1 DEF Movable, Placements
  <2>3. pc' \in {"raised", "attempt"}
    BY <1>8
  <2>4. TypeOK'
    BY <1>1, <1>2, <1>3, <2>1, <2>2, <2>3 DEF TypeOK
  <2>5. Configured'
    BY <1>1, <1>2, <2>2 DEF Configured, Middle, ResetEvent, Pose
  <2>6. Anchored'
    BY <1>2, <1>8, <2>1, <2>3 DEF Anchored
  <2>7. QED
    BY <1>4, <1>5, <1>6, <2>1, <2>4, <2>5, <2>6 DEF BuildInv
<1>9. QED
  BY <1>7, <1>8 DEF StartBuild
-----------------------------------------------------------------------------
(* An attempt *)

LEMMA MovedIs ==
   ASSUME TypeOK, \A o \in Anchors : pose[o].kind = "pose", NEW m \in Moved
   PROVE  m \in Placements /\ \A o \in Anchors \cap Related : m[o] = pose[o].at
<1>1. PICK f \in [Movable -> given.spots] :
         m = [o \in Related |-> IF o \in Anchors THEN pose[o].at ELSE f[o]]
  BY DEF Moved
<1>2. ASSUME NEW o \in Related
      PROVE  m[o] \in Points
  <2>1. pose[o] \in Poses \cup Ranges \cup {None}
    BY DEF TypeOK, Related
  <2>2. CASE o \in Anchors
    BY <1>1, <2>1, <2>2, PoseKinds
  <2>3. CASE o \notin Anchors
    BY <1>1, <2>3, GivenIs DEF Movable
  <2>4. QED
    BY <2>2, <2>3
<1>3. QED
  BY <1>1, <1>2 DEF Placements

\* An anchor has a relation, the marker.
LEMMA AnchorsRelated ==
   ASSUME TypeOK
   PROVE  Anchors \subseteq Related
  BY DEF TypeOK, Anchors, Related, Has

LEMMA AttemptKeeps ==
   ASSUME BuildInv, StartAttempt \/ Iterate
   PROVE  BuildInv'
<1>1. TypeOK /\ Bounded /\ RelationsKept /\ Anchored /\ Configured /\ BestKept /\ Captured
  BY DEF BuildInv
<1>2. /\ UNCHANGED <<given, relations, pose, init, event, tried, best, scene, builds>>
      /\ pc \in {"attempt", "solve"} /\ pc' \in {"solve", "validate", "raised"}
  BY DEF StartAttempt, Iterate, objects
<1>3. /\ RelationsKept' /\ Related' = Related /\ Anchors' = Anchors /\ Movable' = Movable
      /\ Placements' = Placements /\ PairsSeparated' = PairsSeparated
  BY <1>1, <1>2, RelationsStay
<1>4. Configured' /\ BestKept' /\ Captured'
  <2>1. Configured'
    BY <1>1, <1>2, <1>3 DEF Configured, Middle, ResetEvent, Pose
  <2>2. BestKept'
    BY <1>1, <1>2 DEF BestKept, IsBest
  <2>3. Captured'
    BY <1>2 DEF Captured
  <2>4. QED
    BY <2>1, <2>2, <2>3
<1>5. PairsSeparated /\ Anchors # {} /\ \A o \in Anchors : pose[o] # None
  BY <1>1, <1>2 DEF Anchored
<1>6. pc' # "raised" => \A o \in Anchors : pose[o].kind = "pose"
  <2>1. CASE Iterate
    BY <1>1, <2>1 DEF Iterate, Anchored
  <2>2. CASE StartAttempt /\ pc' # "raised"
    <3>1. \A o \in Anchors : pose[o].kind # "range"
      BY <2>2 DEF StartAttempt
    <3>2. \A o \in Anchors : pose[o] \in Poses \cup Ranges \cup {None}
      BY <1>1 DEF TypeOK, Anchors
    <3>3. QED
      BY <1>5, <3>1, <3>2, PoseKinds
  <2>3. QED
    BY <2>1, <2>2
<1>7. /\ pc' # "raised" => at' \in Moved
      /\ pc' = "raised" => at' = at
      /\ iter' \in 0 .. MaxIters
  <2>1. CASE StartAttempt
    BY <2>1, BuildAssumption DEF StartAttempt
  <2>2. CASE Iterate
    <3>1. pc = "solve" /\ iter' = iter + 1 /\ at' \in Moved /\ iter \in 0..MaxIters
      BY <1>1, <2>2 DEF Iterate, TypeOK
    <3>2. iter < MaxIters
      BY <1>1, <3>1 DEF Bounded
    <3>3. QED
      BY <2>2, <3>1, <3>2, BuildAssumption DEF Iterate
  <2>3. QED
    BY <2>1, <2>2
<1>8. loss' \in Nat
  <2>1. CASE StartAttempt
    BY <2>1 DEF StartAttempt
  <2>2. CASE Iterate
    <3>1. at \in Placements
      BY <1>1, <2>2 DEF Iterate, Anchored
    <3>2. ParentsKnown
      BY <1>1, <1>5, ParentsAre
    <3>3. loss' = TotalLoss(at)
      BY <2>2 DEF Iterate
    <3>4. QED
      BY <1>1, <3>1, <3>2, <3>3, TotalLossIs
  <2>3. QED
    BY <2>1, <2>2
<1>9. pc' # "raised" =>
         at' \in Placements /\ \A o \in Anchors : pose[o].kind = "pose" /\ at'[o] = pose[o].at
  BY <1>1, <1>6, <1>7, MovedIs, AnchorsRelated
<1>10. TypeOK'
  <2>1. at' \in Placements \cup {None}
    BY <1>1, <1>7, <1>9 DEF TypeOK
  <2>2. QED
    BY <1>1, <1>2, <1>3, <1>7, <1>8, <2>1 DEF TypeOK
<1>11. Bounded'
  <2>1. builds < MaxBuilds
    BY <1>1, <1>2 DEF Bounded
  <2>2. CASE StartAttempt
    BY <1>2, <2>1, <2>2, BuildAssumption DEF StartAttempt, Bounded
  <2>3. CASE Iterate
    <3>1. iter' = iter + 1 /\ iter < MaxIters /\ iter \in Nat
          /\ pc' = IF loss' = 0 \/ iter' = MaxIters THEN "validate" ELSE "solve"
      BY <1>1, <2>3 DEF Iterate, Bounded, TypeOK
    <3>2. MaxIters \in Nat
      BY BuildAssumption
    <3>3. QED
      BY <1>2, <2>1, <3>1, <3>2 DEF Bounded
  <2>4. QED
    BY <2>2, <2>3
<1>12. Anchored'
  BY <1>2, <1>3, <1>5, <1>9 DEF Anchored
<1>13. QED
  BY <1>3, <1>4, <1>10, <1>11, <1>12 DEF BuildInv

-----------------------------------------------------------------------------
(* Validating and applying *)

\* What the placer keeps is a best one of the attempts, the last included.
LEMMA KeptIsBest ==
   ASSUME BuildInv, Validate
   PROVE  /\ tried' \in Seq([at : Placements, loss : Nat, valid : BOOLEAN])
          /\ best' \in [at : Placements, loss : Nat, success : BOOLEAN]
          /\ Len(tried') = Len(tried) + 1 /\ Len(tried') <= MaxAttempts
          /\ pc' \in {"attempt", "apply"}
          /\ BestKept'
<1> DEFINE new == [at |-> at, loss |-> loss, valid |-> ValidPlacement(at)]
<1>1. TypeOK /\ Anchored /\ BestKept /\ pc = "validate"
  BY DEF BuildInv, Validate
<1>2. /\ best' = Kept(ValidPlacement(at)) /\ tried' = Append(tried, new)
      /\ pc' = IF ValidPlacement(at) \/ Len(tried) + 1 = MaxAttempts THEN "apply" ELSE "attempt"
  BY DEF Validate
<1>3. /\ at \in Placements /\ loss \in Nat
      /\ tried \in Seq([at : Placements, loss : Nat, valid : BOOLEAN])
  BY <1>1 DEF Anchored, TypeOK
<1>4. ValidPlacement(at) \in BOOLEAN
  BY DEF ValidPlacement
<1>5. new \in [at : Placements, loss : Nat, valid : BOOLEAN]
      /\ new.at = at /\ new.loss = loss /\ new.valid = ValidPlacement(at)
  BY <1>3, <1>4
<1> HIDE DEF new
<1> PICK n \in Nat : n = Len(tried) + 1
  BY <1>3, LenProperties
<1>6. /\ tried' \in Seq([at : Placements, loss : Nat, valid : BOOLEAN])
      /\ Len(tried') = n /\ Len(tried) \in Nat /\ tried'[n] = new
      /\ \A i \in 1..Len(tried) : tried'[i] = tried[i]
      /\ DOMAIN tried = 1..Len(tried) /\ DOMAIN tried' = 1..n
      /\ \A i \in 1..Len(tried) : tried[i] \in [at : Placements, loss : Nat, valid : BOOLEAN]
  <2>1. /\ tried' \in Seq([at : Placements, loss : Nat, valid : BOOLEAN])
        /\ Len(tried') = n /\ Len(tried) \in Nat /\ tried'[n] = new
        /\ \A i \in 1..Len(tried) : tried'[i] = tried[i]
        /\ DOMAIN tried = 1..Len(tried) /\ DOMAIN tried' = 1..n
    BY <1>2, <1>3, <1>5, AppendProperties, LenProperties
  <2>2. QED
    BY <1>3, <2>1, ElementOfSeq
<1>7. Len(tried) < MaxAttempts /\ \A i \in 1..Len(tried) : ~tried[i].valid
  BY <1>1, <1>6 DEF BestKept
<1>8. /\ tried' # <<>> /\ n <= MaxAttempts /\ pc' \in {"attempt", "apply"}
      /\ pc' = "attempt" => ~ValidPlacement(at) /\ n # MaxAttempts
  <2>1. n \in DOMAIN tried' /\ MaxAttempts \in Nat
    BY <1>6, BuildAssumption
  <2>2. tried' # <<>>
    BY <2>1
  <2>3. n <= MaxAttempts
    BY <1>6, <1>7, <2>1
  <2>4. QED
    BY <1>2, <2>2, <2>3
<1> DEFINE of(i) == [at |-> tried'[i].at, loss |-> tried'[i].loss, success |-> tried'[i].valid]
<1>9. \E i \in DOMAIN tried' : IsBest(i)' /\ best' = of(i)
  <2>1. CASE ValidPlacement(at)
    <3>1. best' = of(n)
      BY <1>2, <1>5, <1>6, <2>1 DEF Kept
    <3>2. n \in DOMAIN tried' /\ tried'[n].valid
      <4>1. new.valid
        BY <1>5, <2>1, Zenon
      <4>2. n \in DOMAIN tried' /\ tried'[n] = new
        BY <1>6
      <4>3. QED
        BY <4>1, <4>2
    <3>3. IsBest(n)'
      BY <3>2 DEF IsBest
    <3>4. QED
      BY <3>1, <3>2, <3>3
  <2>2. CASE ~ValidPlacement(at) /\ (best = None \/ loss < best.loss)
    <3>1. best' = of(n)
      BY <1>2, <1>5, <1>6, <2>2 DEF Kept
    <3>2. \A j \in 1..Len(tried) : loss <= tried[j].loss
      <4>1. CASE best = None
        BY <1>1, <1>6, <4>1 DEF BestKept
      <4>2. CASE best # None
        <5>1. PICK i \in DOMAIN tried :
                 IsBest(i) /\ best = [at |-> tried[i].at, loss |-> tried[i].loss,
                                      success |-> tried[i].valid]
          BY <1>1, <4>2 DEF BestKept
        <5>2. \A j \in 1..Len(tried) : tried[i].loss <= tried[j].loss
          BY <1>6, <1>7, <5>1 DEF IsBest
        <5>3. loss < tried[i].loss
          BY <2>2, <4>2, <5>1
        <5>4. \A j \in 1..Len(tried) : tried[j].loss \in Nat
          BY <1>6
        <5>5. QED
          BY <1>3, <1>6, <5>2, <5>3, <5>4
      <4>3. QED
        BY <4>1, <4>2
    <3>3. \A j \in 1..n : ~tried'[j].valid /\ tried'[n].loss <= tried'[j].loss
      BY <1>3, <1>5, <1>6, <1>7, <2>2, <3>2
    <3>4. IsBest(n)' /\ n \in DOMAIN tried'
      BY <1>6, <3>3 DEF IsBest
    <3>5. QED
      BY <3>1, <3>4
  <2>3. CASE ~ValidPlacement(at) /\ best # None /\ ~(loss < best.loss)
    <3>1. PICK i \in DOMAIN tried :
             IsBest(i) /\ best = [at |-> tried[i].at, loss |-> tried[i].loss,
                                  success |-> tried[i].valid]
      BY <1>1, <2>3 DEF BestKept
    <3>2. i \in 1..Len(tried) /\ i \in 1..n /\ tried'[i] = tried[i] /\ best.loss = tried[i].loss
      BY <1>6, <3>1
    <3>3. best' = best /\ best = of(i)
      BY <1>2, <2>3, <3>1, <3>2 DEF Kept
    <3>4. \A j \in 1..Len(tried) : tried[i].loss <= tried[j].loss
      BY <1>6, <1>7, <3>1 DEF IsBest
    <3>5. tried[i].loss \in Nat /\ tried[i].loss <= loss
      BY <1>3, <1>6, <2>3, <3>2
    <3>6. ASSUME NEW j \in 1..n
          PROVE  ~tried'[j].valid /\ tried'[i].loss <= tried'[j].loss
      <4>1. CASE j = n
        BY <1>5, <1>6, <2>3, <3>2, <3>5, <4>1
      <4>2. CASE j \in 1..Len(tried)
        BY <1>6, <1>7, <3>2, <3>4, <4>2
      <4>3. QED
        BY <1>6, <4>1, <4>2
    <3>7. IsBest(i)'
      BY <1>6, <3>6 DEF IsBest
    <3>8. QED
      BY <1>6, <3>2, <3>3, <3>7
  <2>4. QED
    BY <2>1, <2>2, <2>3
<1>10. best' \in [at : Placements, loss : Nat, success : BOOLEAN] /\ best' # None
  <2>1. PICK i \in DOMAIN tried' : best' = of(i)
    BY <1>9
  <2>2. tried'[i] \in [at : Placements, loss : Nat, valid : BOOLEAN]
    BY <1>6, <2>1, ElementOfSeq
  <2>3. best' \in [at : Placements, loss : Nat, success : BOOLEAN]
    BY <2>1, <2>2
  <2> HIDE DEF of
  <2>4. QED
    BY <2>3 DEF None
<1>11. pc' = "attempt" => Len(tried') < MaxAttempts /\ \A i \in DOMAIN tried' : ~tried'[i].valid
  <2>1. ASSUME pc' = "attempt", NEW i \in 1..n
        PROVE  ~tried'[i].valid
    <3>1. CASE i = n
      BY <1>5, <1>6, <1>8, <2>1, <3>1
    <3>2. CASE i \in 1..Len(tried)
      BY <1>6, <1>7, <3>2
    <3>3. QED
      BY <1>6, <3>1, <3>2
  <2>2. pc' = "attempt" => n < MaxAttempts
    BY <1>6, <1>8, BuildAssumption
  <2>3. QED
    BY <1>6, <2>1, <2>2
<1>12. BestKept'
  BY <1>8, <1>9, <1>10, <1>11 DEF BestKept
<1>13. QED
  BY <1>6, <1>8, <1>10, <1>12

LEMMA ValidateKeeps ==
   ASSUME BuildInv, Validate
   PROVE  BuildInv'
<1>1. TypeOK /\ Bounded /\ RelationsKept /\ Anchored /\ Configured /\ BestKept /\ Captured
  BY DEF BuildInv
<1>2. /\ pc = "validate" /\ at' = None /\ iter' = 0 /\ loss' = 0
      /\ UNCHANGED <<given, relations, pose, init, event, scene, builds>>
  BY DEF Validate, objects
<1>3. /\ RelationsKept' /\ Related' = Related /\ Anchors' = Anchors /\ Movable' = Movable
      /\ Placements' = Placements /\ PairsSeparated' = PairsSeparated
  BY <1>1, <1>2, RelationsStay
<1>4. /\ tried' \in Seq([at : Placements, loss : Nat, valid : BOOLEAN])
      /\ best' \in [at : Placements, loss : Nat, success : BOOLEAN]
      /\ Len(tried') <= MaxAttempts /\ pc' \in {"attempt", "apply"} /\ BestKept'
  BY KeptIsBest
<1>5. TypeOK'
  BY <1>1, <1>2, <1>3, <1>4, BuildAssumption DEF TypeOK
<1>6. Bounded'
  BY <1>1, <1>2, <1>4 DEF Bounded
<1>7. Anchored'
  BY <1>1, <1>2, <1>3, <1>4 DEF Anchored
<1>8. Configured'
  BY <1>1, <1>2, <1>3 DEF Configured, Middle, ResetEvent, Pose
<1>9. Captured'
  BY <1>4 DEF Captured
<1>10. QED
  BY <1>3, <1>4, <1>5, <1>6, <1>7, <1>8, <1>9 DEF BuildInv

\* An object that has a marker gets what the first one of its type says.
LEMMA TheIs ==
   ASSUME TypeOK, NEW o \in Assets, NEW type, Has(o, type)
   PROVE  The(o, type) \in AnyRelation /\ The(o, type).type = type
<1> DEFINE n == Len(relations[o])
           First(i) == /\ relations[o][i].type = type
                       /\ \A j \in 1..i - 1 : relations[o][j].type # type
           T == {i \in 1..n : relations[o][i].type = type}
<1>1. /\ relations[o] \in Seq(AnyRelation) /\ n \in Nat /\ DOMAIN relations[o] = 1..n
      /\ \A i \in 1..n : relations[o][i] \in AnyRelation
  BY LenProperties, ElementOfSeq DEF TypeOK
<1>2. T # {} /\ T \subseteq Nat
  BY <1>1 DEF Has
<1>3. PICK i \in T : \A m \in T : i <= m
  <2> HIDE DEF T
  <2>1. QED
    BY <1>2, LeastCounterexample
<1>4. First(i) /\ i \in DOMAIN relations[o]
  BY <1>1, <1>3
<1> DEFINE c == CHOOSE k \in DOMAIN relations[o] : First(k)
<1>5. c \in DOMAIN relations[o] /\ First(c)
  BY <1>4
<1>6. The(o, type) = relations[o][c]
  BY DEF The
<1> HIDE DEF c
<1>7. QED
  BY <1>1, <1>5, <1>6

LEMMA SolvedPoseIs ==
   ASSUME TypeOK, NEW o \in Assets, NEW p \in Points
   PROVE  /\ SolvedPose(o, p) \in Poses \cup Ranges
          /\ SolvedPose(o, p) # None /\ SolvedPose(o, p).at = p
<1> DEFINE turn == IF Has(o, "RotateAroundSolution") THEN The(o, "RotateAroundSolution").turn ELSE 0
<1>1. turn \in Int
  BY TheIs, RelationKinds
<1> HIDE DEF turn
<1>2. CASE Has(o, "RandomAroundSolution")
  <2>1. The(o, "RandomAroundSolution").half \in Nat
    BY <1>2, TheIs, RelationKinds
  <2>2. SolvedPose(o, p) = [kind |-> "range", at |-> p, turn |-> turn,
                            half |-> The(o, "RandomAroundSolution").half]
    BY <1>2 DEF SolvedPose, PoseRange, turn
  <2>3. QED
    BY <1>1, <2>1, <2>2 DEF Ranges, None
<1>3. CASE ~Has(o, "RandomAroundSolution")
  <2>1. SolvedPose(o, p) = [kind |-> "pose", at |-> p, turn |-> turn]
    BY <1>3 DEF SolvedPose, Pose, turn
  <2>2. QED
    BY <1>1, <2>1 DEF Poses, None
<1>4. QED
  BY <1>2, <1>3

LEMMA ApplyKeeps ==
   ASSUME BuildInv, Apply
   PROVE  BuildInv'
<1>1. TypeOK /\ Bounded /\ RelationsKept /\ Anchored /\ Configured /\ BestKept /\ Captured
  BY DEF BuildInv
<1> DEFINE ps == [o \in Movable |-> SolvedPose(o, best.at[o])]
<1>2. /\ pc = "apply" /\ pc' = "compose" /\ SetInitialPoses(ps)
      /\ UNCHANGED <<given, relations, at, iter, loss, tried, best, scene, builds>>
  BY DEF Apply, solver
<1>3. /\ RelationsKept' /\ Related' = Related /\ Anchors' = Anchors /\ Movable' = Movable
      /\ Placements' = Placements /\ PairsSeparated' = PairsSeparated
  BY <1>1, <1>2, RelationsStay
<1>4. best \in [at : Placements, loss : Nat, success : BOOLEAN]
  BY <1>1, <1>2 DEF BestKept, TypeOK
<1>5. ASSUME NEW o \in Movable
      PROVE  /\ o \in Assets /\ ps[o] \in Poses \cup Ranges /\ ps[o] # None
             /\ ps[o].at = best.at[o]
  <2>1. o \in Assets /\ o \in Related
    BY DEF Movable, Related
  <2>2. best.at[o] \in Points
    BY <1>4, <2>1 DEF Placements
  <2>3. QED
    BY <1>1, <2>1, <2>2, SolvedPoseIs
<1>6. DOMAIN ps = Movable
  OBVIOUS
<1> HIDE DEF ps
<1>7. ASSUME NEW o \in Assets
      PROVE  /\ pose'[o] = IF o \in Movable THEN ps[o] ELSE pose[o]
             /\ init'[o] = IF o \in Movable THEN Middle(ps[o]) ELSE init[o]
             /\ event'[o] = IF o \in Movable THEN ResetEvent(o, ps[o]) ELSE event[o]
  BY <1>2, <1>6 DEF SetInitialPoses
<1>8. TypeOK'
  <2>1. ASSUME NEW o \in Assets
        PROVE  /\ pose'[o] \in Poses \cup Ranges \cup {None}
               /\ init'[o] \in Poses \cup {None}
               /\ event'[o] \in Poses \cup Ranges \cup {None}
    <3>1. CASE o \in Movable
      <4>1. Middle(ps[o]) \in Poses
        BY <1>5, <3>1 DEF Middle, Pose, Poses, Ranges
      <4>2. ResetEvent(o, ps[o]) \in Poses \cup Ranges \cup {None}
        BY <1>5, <3>1 DEF ResetEvent
      <4>3. QED
        BY <1>5, <1>7, <3>1, <4>1, <4>2
    <3>2. CASE o \notin Movable
      BY <1>1, <1>7, <3>2 DEF TypeOK
    <3>3. QED
      BY <3>1, <3>2
  <2>2. /\ pose' \in [Assets -> Poses \cup Ranges \cup {None}]
        /\ init' \in [Assets -> Poses \cup {None}]
        /\ event' \in [Assets -> Poses \cup Ranges \cup {None}]
    BY <1>2, <2>1 DEF SetInitialPoses
  <2>3. QED
    BY <1>1, <1>2, <1>3, <2>2 DEF TypeOK
<1>9. Bounded'
  BY <1>1, <1>2 DEF Bounded
<1>10. Anchored'
  BY <1>2 DEF Anchored
<1>11. Configured'
  <2>1. ASSUME NEW o \in Assets
        PROVE  /\ init'[o] = Middle(pose'[o]) /\ event'[o] = ResetEvent(o, pose'[o])
               /\ o \notin Movable => pose'[o] = given.pose[o]
    BY <1>1, <1>7 DEF Configured
  <2>2. \A o, p : Middle(p)' = Middle(p') /\ ResetEvent(o, p)' = ResetEvent(o, p')
    BY DEF Middle, ResetEvent, Pose
  <2>3. QED
    BY <1>2, <1>3, <2>1 DEF Configured, Middle, ResetEvent, Pose
<1>12. BestKept'
  BY <1>1, <1>2 DEF BestKept, IsBest
<1>13. Captured'
  <2>1. \A o \in Movable : pose'[o] # None /\ pose'[o].at = best.at[o]
    BY <1>5, <1>7
  <2>2. QED
    BY <1>2, <1>3, <2>1 DEF Captured
<1>14. QED
  BY <1>3, <1>8, <1>9, <1>10, <1>11, <1>12, <1>13 DEF BuildInv

LEMMA ComposeKeeps ==
   ASSUME BuildInv, Compose
   PROVE  BuildInv'
<1>1. TypeOK /\ Bounded /\ RelationsKept /\ Anchored /\ Configured /\ BestKept /\ Captured
  BY DEF BuildInv
<1>2. /\ pc = "compose" /\ pc' = "idle" /\ builds' = builds + 1
      /\ scene' = [init |-> init, event |-> event, pose |-> pose]
      /\ UNCHANGED <<given, relations, pose, init, event, at, iter, loss, tried, best>>
  BY DEF Compose, objects, solver
<1>3. /\ RelationsKept' /\ Related' = Related /\ Anchors' = Anchors /\ Movable' = Movable
      /\ Placements' = Placements /\ PairsSeparated' = PairsSeparated
  BY <1>1, <1>2, RelationsStay
<1>4. builds' \in 0..MaxBuilds
  BY <1>1, <1>2, BuildAssumption DEF Bounded, TypeOK
<1>5. TypeOK'
  BY <1>1, <1>2, <1>3, <1>4 DEF TypeOK
<1>6. Bounded' /\ Anchored'
  BY <1>2 DEF Bounded, Anchored
<1>7. Configured'
  BY <1>1, <1>2, <1>3 DEF Configured, Middle, ResetEvent, Pose
<1>8. BestKept'
  BY <1>1, <1>2 DEF BestKept, IsBest
<1>9. Captured'
  BY <1>1, <1>2, <1>3 DEF Captured
<1>10. QED
  BY <1>3, <1>5, <1>6, <1>7, <1>8, <1>9 DEF BuildInv

LEMMA NextBuild == BuildInv /\ [Next]_vars => BuildInv'
<1> SUFFICES ASSUME BuildInv, [Next]_vars
             PROVE  BuildInv'
  OBVIOUS
<1>1. ASSUME NEW solveRelations \in BOOLEAN, StartBuild(solveRelations)
      PROVE  BuildInv'
  BY <1>1, StartKeeps
<1>2. CASE StartAttempt \/ Iterate
  BY <1>2, AttemptKeeps
<1>3. CASE Validate
  BY <1>3, ValidateKeeps
<1>4. CASE Apply
  BY <1>4, ApplyKeeps
<1>5. CASE Compose
  BY <1>5, ComposeKeeps
<1>6. CASE UNCHANGED vars
  <2>1. TypeOK /\ Bounded /\ RelationsKept /\ Anchored /\ Configured /\ BestKept /\ Captured
    BY DEF BuildInv
  <2>2. UNCHANGED <<given, relations, pose, init, event, pc, at, iter, loss, tried, best, scene,
                    builds>>
    BY <1>6 DEF vars, objects, solver
  <2>3. /\ RelationsKept' /\ Related' = Related /\ Anchors' = Anchors /\ Movable' = Movable
        /\ Placements' = Placements /\ PairsSeparated' = PairsSeparated
    BY <2>1, <2>2, RelationsStay
  <2>4. TypeOK' /\ Bounded' /\ Captured'
    BY <2>1, <2>2, <2>3 DEF TypeOK, Bounded, Captured
  <2>5. Anchored' /\ Configured'
    BY <2>1, <2>2, <2>3 DEF Anchored, Configured, Middle, ResetEvent, Pose
  <2>6. BestKept'
    BY <2>1, <2>2 DEF BestKept, IsBest
  <2>7. QED
    BY <2>3, <2>4, <2>5, <2>6 DEF BuildInv
<1>7. QED
  BY <1>1, <1>2, <1>3, <1>4, <1>5, <1>6 DEF Next
-----------------------------------------------------------------------------
(* What the solver has solved is accepted *)

\* Where an object is in the world, in the eyes of the validation.
Placed(o) == Translated(LocalBox[o], at[o])

\* An attempt to be validated that has solved the relations, among anchors that are
\* not turned, in a scenario whose relations separate the objects.
SolvedState ==
   /\ BuildInv /\ ScenariosSeparate
   /\ pc = "validate" /\ \A o \in Anchors : pose[o].turn % 4 = 0
   /\ TotalLoss(at) = 0

LEMMA NoOverlapBothWays ==
   ASSUME NEW b, NEW c, NEW margin, ~Overlaps(b, c, margin)
   PROVE  ~Overlaps(c, b, margin)
BY DEF Overlaps

LEMMA SolvedIs ==
   ASSUME SolvedState
   PROVE  /\ TypeOK /\ RelationsKept /\ PairsSeparated /\ at \in Placements
          /\ \A o \in Related : /\ o \in Assets /\ at[o] \in Points /\ IsBox(LocalBox[o])
                                /\ IsBox(Placed(o)) /\ ParentBox(at, o) = Placed(o)
          /\ \A o \in Movable : \A i \in DOMAIN relations[o] :
                relations[o][i].type \in Spatial => RelationLoss(at, o, relations[o][i]) = 0
<1>1. TypeOK /\ RelationsKept /\ Anchored /\ pc = "validate" /\ TotalLoss(at) = 0
  BY DEF SolvedState, BuildInv
<1>2. /\ PairsSeparated /\ Anchors # {} /\ at \in Placements
      /\ \A o \in Anchors : pose[o].kind = "pose" /\ at[o] = pose[o].at
  BY <1>1 DEF Anchored
<1>3. ASSUME NEW o \in Related
      PROVE  /\ o \in Assets /\ at[o] \in Points /\ IsBox(LocalBox[o])
             /\ IsBox(Placed(o)) /\ ParentBox(at, o) = Placed(o)
  <2>1. o \in Assets /\ at[o] \in Points /\ IsBox(LocalBox[o])
    BY <1>2, BuildAssumption DEF Placements, Related
  <2>2. IsBox(Placed(o))
    BY <2>1, TranslatedIsBox DEF Placed
  <2>3. CASE o \in Anchors
    <3>1. WorldBox(o) = Translated(LocalBox[o], pose[o].at)
      BY <1>1, <1>2, <2>1, <2>3, WorldBoxIs DEF SolvedState
    <3>2. QED
      BY <1>2, <2>1, <2>2, <2>3, <3>1 DEF ParentBox, Placed
  <2>4. CASE o \notin Anchors
    BY <2>1, <2>2, <2>4 DEF ParentBox, Placed
  <2>5. QED
    BY <2>3, <2>4
<1>4. ParentsKnown
  BY <1>1, <1>2, ParentsAre
<1>5. QED
  BY <1>1, <1>2, <1>3, <1>4, TotalLossIs

\* The clearances are those asked for, and anchors are on nothing.
LEMMA Cleared ==
   ASSUME SolvedState, NEW o \in Related, NEW i \in DOMAIN relations[o],
          relations[o][i].type \in {"On", "NoCollision"}
   PROVE  /\ relations[o][i] \in AnyRelation /\ relations[o][i].clearance \in Nat
          /\ MinSeparation \in Nat /\ MinSeparation <= relations[o][i].clearance
          /\ relations[o][i].type = "On" => o \in Movable
<1> DEFINE n == Len(given.relations[o])
<1>1. TypeOK /\ RelationsKept /\ given \in Scenarios /\ ScenariosSeparate
  BY DEF SolvedState, BuildInv, TypeOK
<1>2. o \in Assets /\ relations[o] \in Seq(AnyRelation) /\ given.relations[o] \in Seq(AnyRelation)
  BY <1>1, GivenIs DEF TypeOK, Related
<1>3. /\ i \in 1..Len(relations[o]) /\ n \in Nat /\ DOMAIN given.relations[o] = 1..n
      /\ relations[o][i] \in AnyRelation
  BY <1>2, LenProperties, ElementOfSeq
<1>4. relations[o][i].clearance \in Nat /\ MinSeparation \in Nat /\ Clearance \in Nat
  BY <1>3, RelationKinds, BuildAssumption
<1>5. CASE i \in 1..n
  <2>1. relations[o][i] = given.relations[o][i]
    BY <1>1, <1>2, <1>5 DEF RelationsKept
  <2>2. Separating(given)
    BY <1>1 DEF ScenariosSeparate
  <2>3. /\ given.relations[o][i].clearance >= MinSeparation
        /\ o \notin GivenAnchors \/ given.relations[o][i].type # "On"
    BY <1>2, <1>3, <1>5, <2>1, <2>2 DEF Separating, GivenAnchors
  <2>4. o \in Movable \/ relations[o][i].type # "On"
    BY <1>1, <2>1, <2>3 DEF RelationsKept, Movable
  <2>5. QED
    BY <1>3, <1>4, <2>1, <2>3, <2>4
<1>6. CASE i \in n + 1..Len(relations[o])
  <2>1. PICK p \in Movable : relations[o][i] = NoCollision(p)
    BY <1>1, <1>2, <1>6 DEF RelationsKept
  <2>2. relations[o][i].clearance = Clearance /\ relations[o][i].type # "On"
    BY <2>1 DEF NoCollision
  <2>3. QED
    BY <1>1, <1>3, <1>4, <2>2 DEF ScenariosSeparate
<1>7. QED
  BY <1>3, <1>5, <1>6

\* An object and what it is not to collide with are apart.
LEMMA ApartAsTold ==
   ASSUME SolvedState, NEW o \in Movable, NEW p \in Related, Separated(o, p)
   PROVE  ~Overlaps(Placed(o), Placed(p), MinSeparation)
<1>1. PICK i \in DOMAIN relations[o] : relations[o][i].type = "NoCollision"
                                       /\ relations[o][i].parent = p
  BY DEF Separated
<1> DEFINE r == relations[o][i]
<1>2. o \in Related
  BY DEF Movable
<1>3. r.clearance \in Nat /\ MinSeparation \in Nat /\ MinSeparation <= r.clearance
  BY <1>1, <1>2, Cleared
<1>4. RelationLoss(at, o, r) = 0
  BY <1>1, SolvedIs DEF Spatial
<1>5. /\ at[o] \in Points /\ IsBox(LocalBox[o]) /\ IsBox(Placed(p))
      /\ ParentBox(at, p) = Placed(p)
  BY <1>2, SolvedIs
<1>6. NoCollisionLoss(r, at[o], LocalBox[o], Placed(p)) = 0
  BY <1>1, <1>4, <1>5 DEF RelationLoss
<1> HIDE DEF r
<1>7. ~Overlaps(Translated(LocalBox[o], at[o]), Placed(p), MinSeparation)
  BY <1>3, <1>5, <1>6, NoCollisionLossAgrees
<1>8. QED
  BY <1>7 DEF Placed

\* An object that is on another stands above it, at least the separation away, and
\* its relation holds.
LEMMA OnAsTold ==
   ASSUME SolvedState, NEW o \in Related, NEW i \in DOMAIN relations[o],
          relations[o][i].type = "On", relations[o][i].parent \in Related
   PROVE  /\ OnHolds(relations[o][i], Placed(o), Placed(relations[o][i].parent), Tolerance)
          /\ Placed(o).min.z >= Placed(relations[o][i].parent).max.z + MinSeparation
<1> DEFINE r == relations[o][i]
           p == relations[o][i].parent
<1>1. /\ r.clearance \in Nat /\ MinSeparation \in Nat /\ MinSeparation <= r.clearance
      /\ o \in Movable
  BY Cleared
<1>2. RelationLoss(at, o, r) = 0
  BY <1>1, SolvedIs DEF Spatial
<1>3. /\ at[o] \in Points /\ IsBox(LocalBox[o]) /\ IsBox(Placed(p))
      /\ ParentBox(at, p) = Placed(p)
  BY SolvedIs
<1>4. OnLoss(r, at[o], LocalBox[o], Placed(p)) = 0
  BY <1>2, <1>3 DEF RelationLoss
<1>5. Tolerance \in Nat /\ Tolerance > 0
  BY BuildAssumption
<1> HIDE DEF r, p
<1>6. OnHolds(r, Placed(o), Placed(p), Tolerance)
  BY <1>1, <1>3, <1>4, <1>5, OnLossAgrees DEF Placed
<1>7. Placed(o).min.z = Placed(p).max.z + r.clearance
  BY <1>1, <1>3, <1>4, OnLossHeight DEF Placed
<1>8. Placed(p).max.z \in Int
  BY <1>3 DEF IsBox, Points
<1>9. QED
  BY <1>1, <1>6, <1>7, <1>8 DEF r, p

\* An object on top of a stack stands above the stack's bottom.
LEMMA AboveTheStack ==
   ASSUME SolvedState, NEW o \in Assets, NEW a \in Anchors, Stack(given, o, a)
   PROVE  ~Overlaps(Placed(o), Placed(a), MinSeparation)
<1>1. PICK n \in 1..Len(Order) : \E c \in [0..n -> Assets] :
         /\ c[0] = o /\ c[n] = a
         /\ \A i \in 1..n : \E j \in DOMAIN given.relations[c[i - 1]] :
               /\ given.relations[c[i - 1]][j].type = "On"
               /\ given.relations[c[i - 1]][j].parent = c[i]
  BY DEF Stack
<1>0. PICK c \in [0..n -> Assets] :
         /\ c[0] = o /\ c[n] = a
         /\ \A i \in 1..n : \E j \in DOMAIN given.relations[c[i - 1]] :
               /\ given.relations[c[i - 1]][j].type = "On"
               /\ given.relations[c[i - 1]][j].parent = c[i]
  BY <1>1
<1>2. n \in Nat /\ n >= 1 /\ MinSeparation \in Nat
  BY OrderIs, BuildAssumption
<1>3. TypeOK /\ RelationsKept
  BY SolvedIs
<1>4. ASSUME NEW i \in 1..n
      PROVE  c[i - 1] \in Related
  <2>1. c[i - 1] \in Assets
    BY <1>2
  <2>2. given.relations[c[i - 1]] # <<>>
    <3>1. DOMAIN given.relations[c[i - 1]] # {}
      BY <1>0
    <3>2. DOMAIN <<>> = {}
      OBVIOUS
    <3>3. QED
      BY <3>1, <3>2
  <2>3. QED
    BY <1>3, <2>1, <2>2 DEF RelationsKept, GivenRelated
<1>5. \A i \in 0..n : c[i] \in Related
  <2>1. a \in Related
    BY <1>3, AnchorsRelated
  <2>2. \A i \in 0..n : i = n \/ (i + 1 \in 1..n /\ (i + 1) - 1 = i)
    BY <1>2
  <2>3. QED
    BY <1>0, <1>4, <2>1, <2>2
<1>6. ASSUME NEW i \in 1..n
      PROVE  Placed(c[i - 1]).min.z >= Placed(c[i]).max.z + MinSeparation
  <2>1. PICK j \in DOMAIN given.relations[c[i - 1]] :
           /\ given.relations[c[i - 1]][j].type = "On"
           /\ given.relations[c[i - 1]][j].parent = c[i]
    BY <1>0
  <2>2. c[i - 1] \in Related /\ c[i - 1] \in Assets /\ c[i] \in Related
    BY <1>2, <1>4, <1>5
  <2>3. /\ given.relations[c[i - 1]] \in Seq(AnyRelation) /\ relations[c[i - 1]] \in Seq(AnyRelation)
        /\ Len(given.relations[c[i - 1]]) <= Len(relations[c[i - 1]])
    BY <1>3, <2>2, GivenIs DEF TypeOK, RelationsKept
  <2>4. j \in 1..Len(given.relations[c[i - 1]]) /\ j \in DOMAIN relations[c[i - 1]]
    BY <2>1, <2>3, LenProperties, SMTT(30)
  <2>5. relations[c[i - 1]][j] = given.relations[c[i - 1]][j]
    BY <1>3, <2>2, <2>4 DEF RelationsKept
  <2>6. QED
    BY <2>1, <2>2, <2>4, <2>5, OnAsTold
<1>7. \A i \in 0..n : /\ Placed(c[i]).min.z \in Int /\ Placed(c[i]).max.z \in Int
                      /\ Placed(c[i]).min.z < Placed(c[i]).max.z
  <2>1. \A i \in 0..n : IsBox(Placed(c[i]))
    BY <1>5, SolvedIs
  <2>2. QED
    BY <2>1 DEF IsBox, Points, Axes
<1> DEFINE Above(m) == Placed(c[n - m]).min.z >= Placed(a).max.z + MinSeparation
           Bad == {m \in 1..n : ~Above(m)}
<1>8. Bad = {}
  <2> SUFFICES ASSUME Bad # {}
               PROVE  FALSE
    OBVIOUS
  <2>1. PICK m \in Bad : \A k \in Bad : m <= k
    <3>1. Bad \subseteq Nat
      OBVIOUS
    <3> HIDE DEF Bad
    <3>2. QED
      BY <3>1, LeastCounterexample
  <2>2. m \in 1..n /\ n - m \in 0..n /\ (n - m) + 1 \in 1..n /\ ((n - m) + 1) - 1 = n - m
    BY <1>2
  <2>3. Placed(c[n - m]).min.z >= Placed(c[(n - m) + 1]).max.z + MinSeparation
    BY <1>6, <2>2
  <2>4. CASE m = 1
    BY <1>0, <1>2, <2>1, <2>3, <2>4
  <2>5. CASE m # 1
    <3>1. m - 1 \in 1..n /\ m - 1 \notin Bad /\ n - (m - 1) = (n - m) + 1
      <4>1. m - 1 \in 1..n /\ ~(m <= m - 1) /\ n - (m - 1) = (n - m) + 1
        BY <1>2, <2>2, <2>5
      <4> HIDE DEF Bad
      <4>2. QED
        BY <2>1, <4>1
    <3>2. Placed(c[(n - m) + 1]).min.z >= Placed(a).max.z + MinSeparation
      BY <3>1
    <3>3. /\ Placed(c[n - m]).min.z \in Int /\ Placed(a).max.z \in Int
          /\ Placed(c[(n - m) + 1]).min.z \in Int /\ Placed(c[(n - m) + 1]).max.z \in Int
          /\ Placed(c[(n - m) + 1]).min.z < Placed(c[(n - m) + 1]).max.z
      <4>1. n \in 0..n /\ n - m \in 0..n /\ (n - m) + 1 \in 0..n
        BY <1>2, <2>2
      <4>2. QED
        BY <1>0, <1>7, <4>1
    <3>4. \A u, v, w, x \in Int : u >= v + MinSeparation /\ w < v /\ w >= x + MinSeparation
                                   => u >= x + MinSeparation
      BY <1>2
    <3>5. Placed(c[n - m]).min.z >= Placed(a).max.z + MinSeparation
      BY <2>3, <3>2, <3>3, <3>4
    <3>6. QED
      BY <2>1, <3>5
  <2>6. QED
    BY <2>4, <2>5
<1>9. Placed(o).min.z >= Placed(a).max.z + MinSeparation
  <2>1. n \in 1..n /\ n - n = 0
    BY <1>2
  <2>2. QED
    BY <1>0, <1>8, <2>1
<1>10. Placed(o).min.z \in Int /\ Placed(a).max.z \in Int
  <2>1. 0 \in 0..n /\ n \in 0..n
    BY <1>2
  <2>2. QED
    BY <1>0, <1>7, <2>1
<1>11. QED
  BY <1>2, <1>9, <1>10 DEF Overlaps, Axes

\* Whatever two objects there are, something keeps them apart.
LEMMA AllApart ==
   ASSUME SolvedState, NEW o \in Related, NEW p \in Related, o # p
   PROVE  ~Overlaps(Placed(o), Placed(p), MinSeparation)
<1>1. TypeOK /\ RelationsKept /\ PairsSeparated /\ Anchored /\ Configured /\ Separating(given)
  BY SolvedIs DEF SolvedState, BuildInv, ScenariosSeparate, TypeOK
<1>2. \A q \in Related : q \in Assets /\ (q \in Anchors \/ q \in Movable)
  BY DEF Movable, Related
<1>3. CASE o \in Movable /\ p \in Movable
  <2>1. PICK i \in 1..Len(Order), k \in 1..Len(Order) : Order[i] = o /\ Order[k] = p
    BY <1>2, OrderIs
  <2>2. i < k \/ k < i
    BY <2>1, OrderIs
  <2>3. CASE i < k
    BY <1>1, <1>3, <2>1, <2>3, ApartAsTold DEF PairsSeparated
  <2>4. CASE k < i
    <3>1. ~Overlaps(Placed(p), Placed(o), MinSeparation)
      BY <1>1, <1>3, <2>1, <2>4, ApartAsTold DEF PairsSeparated
    <3>2. QED
      BY <3>1, NoOverlapBothWays
  <2>5. QED
    BY <2>2, <2>3, <2>4
<1>4. ASSUME NEW q \in Movable, NEW a \in Anchors
      PROVE  ~Overlaps(Placed(q), Placed(a), MinSeparation)
  <2>1. q \in Related /\ q \in Assets /\ q \notin GivenAnchors /\ a \in GivenAnchors
        /\ a \in Related /\ given.relations[q] # <<>>
    BY <1>1, AnchorsRelated DEF Movable, Related, RelationsKept, GivenRelated
  <2>2. Stack(given, q, a) \/ \E i \in DOMAIN given.relations[q] :
           given.relations[q][i].type = "NoCollision" /\ given.relations[q][i].parent = a
    BY <1>1, <2>1 DEF Separating, GivenAnchors
  <2>3. CASE Stack(given, q, a)
    BY <2>1, <2>3, AboveTheStack
  <2>4. CASE \E i \in DOMAIN given.relations[q] :
           given.relations[q][i].type = "NoCollision" /\ given.relations[q][i].parent = a
    <3>1. PICK i \in DOMAIN given.relations[q] :
             given.relations[q][i].type = "NoCollision" /\ given.relations[q][i].parent = a
      BY <2>4
    <3>2. /\ given.relations[q] \in Seq(AnyRelation) /\ relations[q] \in Seq(AnyRelation)
          /\ Len(given.relations[q]) <= Len(relations[q])
      BY <1>1, <2>1, GivenIs DEF TypeOK, RelationsKept
    <3>3. i \in 1..Len(given.relations[q]) /\ i \in DOMAIN relations[q]
      BY <3>1, <3>2, LenProperties
    <3>4. Separated(q, a)
      BY <1>1, <2>1, <3>1, <3>3 DEF RelationsKept, Separated
    <3>5. QED
      BY <2>1, <3>4, ApartAsTold
  <2>5. QED
    BY <2>2, <2>3, <2>4
<1>5. CASE o \in Anchors /\ p \in Anchors
  <2>1. pc = "validate"
    BY DEF SolvedState
  <2>2. \A a \in Anchors : /\ a \in GivenAnchors /\ pose[a] = given.pose[a]
                           /\ pose[a].kind = "pose" /\ at[a] = pose[a].at
    BY <1>1, <2>1 DEF RelationsKept, Configured, Anchored, Anchors, Movable
  <2>3. QED
    BY <1>1, <1>5, <2>2 DEF Separating, GivenAnchors, Placed
<1>6. CASE o \in Movable /\ p \in Anchors
  BY <1>4, <1>6
<1>7. CASE o \in Anchors /\ p \in Movable
  BY <1>4, <1>7, NoOverlapBothWays
<1>8. QED
  BY <1>2, <1>3, <1>5, <1>6, <1>7
-----------------------------------------------------------------------------
(* The theorems *)

\* The placer's and the builder's states stay in their types
\* (arena_env_builder.py:54-146, object_placer.py:56-122).
THEOREM BuildTyped == Spec => []TypeOK
<1>1. BuildInv => TypeOK
  BY DEF BuildInv
<1>2. QED
  BY InitBuild, NextBuild, <1>1, PTL DEF Spec

\* The environment that is registered has every object at the position of the best
\* attempt and every other asset where the user put it, in the pose, the initial
\* state and the reset event alike, however often it is built
\* (object_placer.py:95-122, 261-285, object_base.py:72-83).
THEOREM ScenesAsPlaced == Spec => []CapturedAsPlaced
<1>1. ASSUME BuildInv
      PROVE  CapturedAsPlaced
  <2> SUFFICES ASSUME pc = "idle", builds > 0
               PROVE  /\ tried # <<>> =>
                           \E i \in DOMAIN tried :
                              /\ IsBest(i)
                              /\ \A o \in Movable : /\ scene.pose[o].at = tried[i].at[o]
                                                    /\ scene.init[o].at = tried[i].at[o]
                      /\ \A o \in Assets : /\ scene.init[o] = Middle(scene.pose[o])
                                           /\ o \in Rigid => scene.event[o] = scene.pose[o]
                      /\ \A o \in Assets \ Movable : scene.pose[o] = given.pose[o]
    BY DEF CapturedAsPlaced, IsBest
  <2>1. Configured /\ BestKept /\ Captured
    BY <1>1 DEF BuildInv
  <2>2. scene.init = init /\ scene.event = event /\ scene.pose = pose
    BY <2>1 DEF Captured
  <2>3. ASSUME tried # <<>>
        PROVE  \E i \in DOMAIN tried :
                  /\ IsBest(i)
                  /\ \A o \in Movable : /\ scene.pose[o].at = tried[i].at[o]
                                        /\ scene.init[o].at = tried[i].at[o]
    <3>1. PICK i \in DOMAIN tried :
             IsBest(i) /\ best = [at |-> tried[i].at, loss |-> tried[i].loss,
                                  success |-> tried[i].valid]
      BY <2>1, <2>3 DEF BestKept
    <3>2. best.at = tried[i].at
      BY <3>1
    <3>3. ASSUME NEW o \in Movable
          PROVE  pose[o].at = tried[i].at[o] /\ init[o].at = tried[i].at[o]
      <4>1. o \in Assets /\ pose[o] # None /\ pose[o].at = tried[i].at[o]
        BY <2>1, <2>3, <3>2 DEF Captured, Movable, Related
      <4>2. init[o] = Pose(pose[o].at, pose[o].turn)
        BY <2>1, <4>1 DEF Configured, Middle
      <4>3. QED
        BY <4>1, <4>2 DEF Pose
    <3>4. QED
      BY <2>2, <3>1, <3>3
  <2>4. QED
    BY <2>1, <2>2, <2>3 DEF Configured, ResetEvent
<1>2. QED
  BY InitBuild, NextBuild, <1>1, PTL DEF Spec

\* An attempt that has solved the relations is accepted, whatever the boxes, the
\* number of objects and the tolerance, if what the user relates keeps the movable
\* objects clear of the anchors and the default clearance is at least the
\* separation that is validated (arena_env_builder.py:71-80,
\* object_placer.py:107, 188-259).
THEOREM SolvedAccepted ==
   ASSUME ScenariosSeparate
   PROVE  Spec => []SolvedIsAccepted
<1>1. ASSUME BuildInv
      PROVE  SolvedIsAccepted
  <2> SUFFICES ASSUME SolvedState
               PROVE  NoOverlap(at) /\ OnRelationsHold(at)
    BY <1>1 DEF SolvedIsAccepted, SolvedState, ValidPlacement
  <2>1. DOMAIN at = Related
    BY SolvedIs DEF Placements
  <2>2. NoOverlap(at)
    BY <2>1, AllApart DEF NoOverlap, Placed
  <2>3. OnRelationsHold(at)
    BY <2>1, OnAsTold DEF OnRelationsHold, Placed
  <2>4. QED
    BY <2>2, <2>3
<1>2. QED
  BY InitBuild, NextBuild, <1>1, PTL DEF Spec
=============================================================================

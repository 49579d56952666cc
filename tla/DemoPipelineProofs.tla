------------------------- MODULE DemoPipelineProofs -------------------------
(***************************************************************************)
(* Proofs about DemoPipeline, for every number of demonstrations, of steps *)
(* and of parallel environments, every end effectors' signals and every    *)
(* selection of episodes.                                                  *)
(***************************************************************************)
EXTENDS DemoPipeline, SequenceTheorems, WellFoundedInduction, TLAPS

(* Induction, and loops that go through a list *)

Less == {m \in Nat \X Nat : m[1] < m[2]}

\* What is said of the natural numbers is true, or has a least counterexample.
LEMMA LeastCounterexample ==
   ASSUME NEW T, T \subseteq Nat, T # {}
   PROVE  \E n \in T : \A m \in T : n <= m
<1>1. IsWellFoundedOn(Less, Nat)
  BY NatLessThanWellFounded, Zenon DEF OpToRel, Less
<1>2. PICK n \in T : \A m \in T : <<m, n>> \notin Less
  BY <1>1, WFMin
<1>3. \A m \in T : ~ (m < n)
  BY <1>2 DEF Less
<1>4. QED
  BY <1>3

\* g[k] is what a loop that begins with b has after k iterations.
Runs(g, V, b, K, step) == /\ g \in [0..K -> V] /\ g[0] = b
                          /\ \A k \in 1..K : g[k] = step[k][g[k - 1]]
Steps(V, K) == [1..K -> [V -> V]]

\* A loop that makes a value of V from the one before has a result after every
\* number of iterations.
LEMMA LoopExists ==
   ASSUME NEW V, NEW b \in V, NEW K \in Nat, NEW step \in Steps(V, K)
   PROVE  \E g : Runs(g, V, b, K, step)
<1> DEFINE Upto(g, n) == /\ g \in [0..n -> V] /\ g[0] = b
                         /\ \A k \in 1..n : g[k] = step[k][g[k - 1]]
           Bad == {n \in 0..K : ~ \E g : Upto(g, n)}
<1> USE DEF Steps
<1> SUFFICES \E g : Upto(g, K)
  BY DEF Runs
<1> SUFFICES ASSUME Bad # {}
             PROVE  FALSE
  <2>1. K \in 0..K
    OBVIOUS
  <2> HIDE DEF Upto
  <2>2. QED
    BY <2>1
<1>1. PICK n \in Bad : \A m \in Bad : n <= m
  <2>1. Bad \subseteq Nat
    OBVIOUS
  <2> HIDE DEF Bad
  <2>2. QED
    BY <2>1, LeastCounterexample
<1>2. n \in 0..K /\ n # 0
  <2>1. Upto([i \in 0..0 |-> b], 0)
    OBVIOUS
  <2>2. QED
    BY <2>1
<1>3. PICK g : Upto(g, n - 1)
  BY <1>1, <1>2
<1> DEFINE h == [i \in 0..n |-> IF i = n THEN step[n][g[n - 1]] ELSE g[i]]
<1>4. g[n - 1] \in V /\ step[n][g[n - 1]] \in V
  BY <1>2, <1>3
<1>5. h \in [0..n -> V] /\ h[0] = b /\ h[n] = step[n][g[n - 1]]
      /\ \A i \in 0..n - 1 : h[i] = g[i]
  BY <1>2, <1>3, <1>4
<1> HIDE DEF h
<1>6. ASSUME NEW k \in 1..n
      PROVE  h[k] = step[k][h[k - 1]]
  <2>1. h[k - 1] = g[k - 1]
    BY <1>2, <1>5
  <2>2. CASE k = n
    BY <1>5, <2>1, <2>2
  <2>3. CASE k # n
    BY <1>2, <1>3, <1>5, <2>1, <2>3
  <2>4. QED
    BY <2>2, <2>3
<1>7. Upto(h, n)
  BY <1>5, <1>6
<1>8. QED
  BY <1>7
-----------------------------------------------------------------------------
(* The recording *)

\* While the loop runs, a success was just stepped to, and a step that came late
\* is the running iteration's.
RecordingInv ==
   /\ RecTypeOK /\ DatasetOK
   /\ world.late <= 1 /\ last.late <= 1
   /\ \A i \in DOMAIN dataset : dataset[i] > 0
   /\ rec.pc \in {"loop", "stepped"} =>
         /\ rec.asked => rec.reset
         /\ rec.count < NumSuccessSteps
         /\ Len(dataset) < NumDemos
         /\ world.good => world.steps > 0
   /\ rec.pc = "loop" => world.late = 0
   /\ rec.pc = "stepped" /\ world.late > 0 => rec.asked

LEMMA InitRecording == RecInit => RecordingInv
<1> SUFFICES ASSUME RecInit
             PROVE  RecordingInv
  OBVIOUS
<1>1. DatasetOK /\ dataset = <<>>
  BY DemoAssumption, EmptySeq DEF RecInit, DatasetOK
<1>2. RecTypeOK /\ rec.pc = "loop" /\ ~rec.asked /\ rec.count = 0 /\ world.late = 0
      /\ last.late = 0 /\ ~world.good
  <2>1. PICK term \in BOOLEAN, xr \in BOOLEAN :
           rec = [RecordingOff EXCEPT !.pc = "loop", !.term = term, !.running = ~xr]
    BY DEF RecInit
  <2>2. rec = [pc |-> "loop", term |-> term, running |-> ~xr, reset |-> FALSE,
               asked |-> FALSE, count |-> 0, shown |-> 0]
    BY <2>1 DEF RecordingOff
  <2>3. 0 \in 0..NumSuccessSteps /\ 0 \in 0..NumDemos /\ 0 \in 0..MaxSteps
    BY DemoAssumption
  <2>4. Fresh \in Attempt /\ world = Fresh /\ last = Fresh
    BY <2>3 DEF RecInit, Fresh, Attempt
  <2>5. RecTypeOK
    BY <2>2, <2>3, <2>4 DEF RecTypeOK
  <2>6. QED
    BY <2>2, <2>4, <2>5 DEF Fresh
<1>3. Len(dataset) = 0 /\ DOMAIN dataset = {}
  BY <1>1
<1>4. NumDemos > 0 /\ NumSuccessSteps > 0
  BY DemoAssumption
<1>5. rec.count < NumSuccessSteps /\ Len(dataset) < NumDemos
  BY <1>2, <1>3, <1>4
<1>6. world.late <= 1 /\ last.late <= 1 /\ \A i \in DOMAIN dataset : dataset[i] > 0
  BY <1>2, <1>3
<1>7. QED
  BY <1>1, <1>2, <1>5, <1>6 DEF RecordingInv

LEMMA StepIsAttempt ==
   ASSUME RecTypeOK, NEW good \in BOOLEAN, world.steps < MaxSteps, world.late = 0
   PROVE  Stepped(good) \in Attempt
<1>1. /\ world \in Attempt /\ NumSuccessSteps \in Nat \ {0} /\ MaxSteps \in Nat \ {0}
  BY DemoAssumption DEF RecTypeOK
<1>2. Capped(world.streak + 1) \in 0..NumSuccessSteps
  BY <1>1 DEF Attempt, Capped
<1>3. QED
  BY <1>1, <1>2 DEF Attempt, Stepped

LEMMA NextRecording ==
   ASSUME RecordingInv, RecNext
   PROVE  RecordingInv'
<1> USE DemoAssumption
<1>1. /\ Len(dataset) \in Nat /\ dataset \in Seq(0..MaxSteps) /\ Len(dataset) <= NumDemos
      /\ RecTypeOK /\ world.late <= 1 /\ last.late <= 1
      /\ \A i \in DOMAIN dataset : dataset[i] > 0
  BY LenProperties DEF RecordingInv, DatasetOK
<1>2. /\ rec.pc \in {"loop", "stepped"} =>
            /\ rec.asked => rec.reset
            /\ rec.count < NumSuccessSteps
            /\ Len(dataset) < NumDemos
            /\ world.good => world.steps > 0
      /\ rec.pc = "loop" => world.late = 0
      /\ rec.pc = "stepped" /\ world.late > 0 => rec.asked
  BY DEF RecordingInv
<1>3. CASE RecKey
  <2>1. rec' \in RecKeys /\ UNCHANGED <<world, last, dataset>>
    BY <1>3 DEF RecKey
  <2>2. /\ rec'.pc = rec.pc /\ rec'.count = rec.count
        /\ (rec'.asked => rec'.reset) \/ ~(rec.asked => rec.reset)
        /\ rec.asked => rec'.asked
    BY <1>1, <2>1 DEF RecKeys, RecTypeOK
  <2>3. RecTypeOK'
    BY <1>1, <2>1 DEF RecKeys, RecTypeOK
  <2>4. QED
    BY <1>1, <1>2, <2>1, <2>2, <2>3 DEF RecordingInv, DatasetOK
<1>4. CASE Act
  <2>1. rec' = [rec EXCEPT !.pc = "stepped"] /\ rec.pc = "loop" /\ UNCHANGED <<last, dataset>>
    BY <1>4 DEF Act
  <2>2. world' \in Attempt /\ world'.late <= 1 /\ (world'.late > 0 => rec.asked)
        /\ (world'.good => world'.steps > 0)
    <3>1. CASE \E good \in BOOLEAN : world.steps < MaxSteps /\ world' = Stepped(good)
      BY SMTT(30), <1>1, <1>2, <2>1, <3>1, StepIsAttempt DEF Stepped, RecTypeOK, Attempt
    <3>2. CASE world' = Fresh
      BY <3>2 DEF Fresh, Attempt
    <3>3. CASE UNCHANGED world
      BY <1>1, <1>2, <2>1, <3>3 DEF RecTypeOK
    <3>4. QED
      BY <1>4, <3>1, <3>2, <3>3 DEF Act
  <2>3. RecTypeOK' /\ rec'.pc = "stepped" /\ rec'.asked = rec.asked /\ rec'.reset = rec.reset
        /\ rec'.count = rec.count
    BY <1>1, <2>1, <2>2 DEF RecTypeOK
  <2>4. QED
    BY <1>1, <1>2, <2>1, <2>2, <2>3 DEF RecordingInv, DatasetOK
<1>5. CASE Check
  <2> DEFINE count == IF rec.term THEN NextCount(rec) ELSE rec.count
             success == rec.term /\ world.good /\ count >= NumSuccessSteps
             due == ResetDue(rec, success)
  <2>1. /\ rec.pc = "stepped"
        /\ rec' = [rec EXCEPT !.count = count, !.shown = Len(dataset'), !.reset = due,
                              !.pc = IF due THEN "resetting"
                                     ELSE AfterIteration(Len(dataset'))]
        /\ IF success THEN /\ dataset' = Append(dataset, world.steps) /\ last' = world
                           /\ world' = [world EXCEPT !.steps = 0]
           ELSE UNCHANGED <<dataset, world, last>>
    BY <1>5 DEF Check, Export
  <2>2. count \in 0..NumSuccessSteps /\ (~success => count < NumSuccessSteps)
    BY <1>1, <1>2, <2>1 DEF NextCount, RecTypeOK
  <2>3. /\ success => world.good
        /\ due = (rec.reset \/ success)
        /\ due \in BOOLEAN
    BY <1>1 DEF ResetDue, RecTypeOK
  <2> HIDE DEF count, due, success
  <2>4. /\ dataset' \in Seq(0..MaxSteps) /\ Len(dataset') <= NumDemos /\ Len(dataset') \in Nat
        /\ \A i \in DOMAIN dataset' : dataset'[i] > 0
        /\ ~success => Len(dataset') < NumDemos
    <3>1. CASE success
      <4>1. dataset' = Append(dataset, world.steps) /\ world.steps \in 0..MaxSteps
            /\ world.steps > 0
        BY <1>1, <1>2, <2>1, <2>3, <3>1 DEF RecTypeOK, Attempt
      <4>2. /\ dataset' \in Seq(0..MaxSteps) /\ Len(dataset') = Len(dataset) + 1
            /\ \A i \in 1..Len(dataset) : dataset'[i] = dataset[i]
            /\ dataset'[Len(dataset) + 1] = world.steps
        BY <1>1, <4>1, AppendProperties
      <4>3. DOMAIN dataset' = 1..Len(dataset) + 1 /\ DOMAIN dataset = 1..Len(dataset)
        BY <1>1, <4>2, LenProperties
      <4>4. \A i \in DOMAIN dataset' : dataset'[i] > 0
        BY <1>1, <4>1, <4>2, <4>3
      <4>5. Len(dataset) < NumDemos
        BY <1>2, <2>1
      <4>6. QED
        BY <1>1, <3>1, <4>2, <4>4, <4>5
    <3>2. CASE ~success
      BY <1>1, <1>2, <2>1, <3>2
    <3>3. QED
      BY <3>1, <3>2
  <2>5. /\ world' \in Attempt /\ last' \in Attempt
        /\ world'.late = world.late /\ last'.late \in {world.late, last.late}
        /\ ~success => world' = world
    <3>1. CASE success
      <4>1. last' = world /\ world' = [world EXCEPT !.steps = 0] /\ 0 \in 0..MaxSteps
        BY <2>1, <3>1
      <4>2. world' \in Attempt /\ world'.late = world.late
        BY <1>1, <4>1 DEF RecTypeOK, Attempt
      <4>3. QED
        BY <1>1, <3>1, <4>1, <4>2 DEF RecTypeOK
    <3>2. CASE ~success
      BY <1>1, <2>1, <3>2 DEF RecTypeOK
    <3>3. QED
      BY <3>1, <3>2
  <2>6. rec' \in [pc : {"loop", "stepped", "resetting", "done", "interrupted"},
                  term : BOOLEAN, running : BOOLEAN, reset : BOOLEAN, asked : BOOLEAN,
                  count : 0..NumSuccessSteps, shown : 0..NumDemos]
    <3>1. AfterIteration(Len(dataset')) \in {"done", "loop"}
      BY DEF AfterIteration
    <3>2. Len(dataset') \in 0..NumDemos
      BY <2>4
    <3>3. QED
      BY <1>1, <2>1, <2>2, <2>3, <3>1, <3>2 DEF RecTypeOK
  <2>7. rec'.pc = (IF due THEN "resetting" ELSE AfterIteration(Len(dataset')))
        /\ rec'.asked = rec.asked /\ rec'.count = count
    BY <1>1, <2>1 DEF RecTypeOK
  <2>8. rec'.pc \in {"resetting", "done", "loop"}
    BY <2>7 DEF AfterIteration
  <2>9. rec'.pc = "loop" => /\ ~rec'.asked /\ rec'.count < NumSuccessSteps
                           /\ Len(dataset') < NumDemos /\ world' = world /\ world.late = 0
    <3> SUFFICES ASSUME rec'.pc = "loop"
                 PROVE  /\ ~rec'.asked /\ rec'.count < NumSuccessSteps
                        /\ Len(dataset') < NumDemos /\ world' = world /\ world.late = 0
      OBVIOUS
    <3>1. ~rec.reset /\ ~success
      BY <2>3, <2>7
    <3>2. ~rec.asked
      BY <1>2, <2>1, <3>1
    <3>3. ~ (world.late > 0) /\ world.late \in Nat
      BY <1>1, <1>2, <2>1, <3>2 DEF RecTypeOK, Attempt
    <3>4. QED
      BY <2>2, <2>4, <2>5, <2>7, <3>1, <3>2, <3>3
  <2>10. QED
    BY <1>1, <1>2, <2>1, <2>4, <2>5, <2>6, <2>8, <2>9 DEF RecordingInv, DatasetOK, RecTypeOK
<1>6. CASE HandleReset
  <2>1. /\ world' = Fresh /\ UNCHANGED <<last, dataset>>
        /\ rec' = [rec EXCEPT !.count = 0, !.reset = FALSE, !.asked = FALSE,
                              !.pc = AfterIteration(Len(dataset))]
    BY <1>1, <1>6 DEF HandleReset, Cleared, RecTypeOK
  <2>2. AfterIteration(Len(dataset)) \in {"done", "loop"}
        /\ (AfterIteration(Len(dataset)) = "loop" => Len(dataset) < NumDemos)
    BY <1>1 DEF AfterIteration
  <2>3. /\ rec'.pc \in {"done", "loop"} /\ rec'.count = 0 /\ ~rec'.asked
        /\ rec'.pc = "loop" => Len(dataset) < NumDemos
    BY <1>1, <2>1, <2>2 DEF RecTypeOK
  <2>4. Fresh \in Attempt /\ Fresh.late = 0 /\ ~Fresh.good
    BY DEF Fresh, Attempt
  <2>5. RecTypeOK'
    <3>1. 0 \in 0..NumSuccessSteps
      OBVIOUS
    <3>2. rec' \in [pc : {"loop", "stepped", "resetting", "done", "interrupted"},
                    term : BOOLEAN, running : BOOLEAN, reset : BOOLEAN, asked : BOOLEAN,
                    count : 0..NumSuccessSteps, shown : 0..NumDemos]
      BY <1>1, <2>1, <2>2, <3>1 DEF RecTypeOK
    <3>3. QED
      BY <1>1, <2>1, <2>4, <3>2 DEF RecTypeOK
  <2>6. QED
    BY <1>1, <2>1, <2>3, <2>4, <2>5 DEF RecordingInv, DatasetOK
<1>7. CASE StopRecording \/ InterruptRecording
  <2>1. /\ \E pc \in {"done", "interrupted"} : rec' = [rec EXCEPT !.pc = pc]
        /\ UNCHANGED <<world, last, dataset>>
    BY <1>7 DEF StopRecording, InterruptRecording
  <2>2. RecTypeOK' /\ rec'.pc \in {"done", "interrupted"}
    BY <1>1, <2>1 DEF RecTypeOK
  <2>3. QED
    BY <1>1, <2>1, <2>2 DEF RecordingInv, DatasetOK
<1>8. QED
  BY <1>3, <1>4, <1>5, <1>6, <1>7 DEF RecNext
-----------------------------------------------------------------------------
(* The annotation *)

Replaying == {"reset", "play", "export"}

\* The replay is of an end effector with signals, and those before it have the
\* marks they need.
MarksInv ==
   /\ ann.pc \in {"reset", "play"} /\ ~ann.auto =>
         /\ ann.eef \in DOMAIN SignalCounts /\ SignalCounts[ann.eef] > 0
         /\ MarkCounts(ann.collected) = CountsUpTo[ann.eef - 1]
   /\ ann.pc = "export" /\ ~ann.auto =>
         MarkCounts(ann.collected) = CountsUpTo[Len(SignalCounts)]

\* What was recorded of the episode at hand.
PlaceInv ==
   /\ ann.pc \notin {"off", "raised"}
   /\ ann.ep <= Len(dataset)
   /\ ann.pc \in Replaying => ann.ep > 0
   /\ ann.pc = "play" => recorded = ann.k /\ ann.k <= Length
   /\ ann.pc = "export" => recorded = Length

ExportedInv ==
   /\ AnnotationComplete
   /\ \A i \in DOMAIN annotated :
         /\ annotated[i].src \in 1..ann.ep
         /\ ann.pc \in Replaying => annotated[i].src < ann.ep

AnnotationInv == AnnTypeOK /\ PlaceInv /\ MarksInv /\ ExportedInv

LEMMA CountsDefined ==
   /\ CountsUpTo \in [0..Len(SignalCounts) -> Seq(Nat)]
   /\ CountsUpTo[0] = <<>>
   /\ \A e \in 1..Len(SignalCounts) :
         CountsUpTo[e] = IF SignalCounts[e] > 0 THEN Append(CountsUpTo[e - 1], SignalCounts[e])
                         ELSE CountsUpTo[e - 1]
<1> DEFINE K == Len(SignalCounts)
           V == Seq(Nat)
           Made(e, q) == IF SignalCounts[e] > 0 THEN Append(q, SignalCounts[e]) ELSE q
           step == [e \in 1..K |-> [q \in V |-> Made(e, q)]]
           Def(g) == g = [e \in 0..K |-> IF e = 0 THEN <<>> ELSE Made(e, g[e - 1])]
<1>1. K \in Nat /\ \A e \in 1..K : SignalCounts[e] \in Nat
  BY AnnotationAssumption, LenProperties, ElementOfSeq
<1>2. <<>> \in V
  BY EmptySeq
<1>3. \A e \in 1..K, q \in V : Made(e, q) \in V
  BY <1>1, AppendProperties
<1>4. step \in [1..K -> [V -> V]] /\ \A e \in 1..K, q \in V : step[e][q] = Made(e, q)
  BY <1>3
<1> HIDE DEF step, Made, V, K
<1>5. PICK g \in [0..K -> V] : g[0] = <<>> /\ \A e \in 1..K : g[e] = step[e][g[e - 1]]
  <2>1. step \in Steps(V, K)
    BY <1>4 DEF Steps
  <2>2. \E g : Runs(g, V, <<>>, K, step)
    BY <1>1, <1>2, <2>1, LoopExists
  <2>3. QED
    BY <2>2 DEF Runs
<1>6. Def(g)
  <2>1. \A e \in 0..K : e = 0 \/ (e \in 1..K /\ e - 1 \in 0..K)
    BY <1>1
  <2>2. ASSUME NEW e \in 1..K
        PROVE  g[e] = Made(e, g[e - 1])
    <3>1. e - 1 \in 0..K
      BY <1>1
    <3>2. g[e - 1] \in V
      BY <1>5, <3>1
    <3>3. QED
      BY <1>4, <1>5, <3>2
  <2>3. QED
    BY <1>5, <2>1, <2>2
<1>7. CountsUpTo = CHOOSE f : Def(f)
  BY DEF CountsUpTo, Made, K
<1>8. Def(CountsUpTo)
  BY <1>6, <1>7
<1>9. CountsUpTo[0] = <<>> /\ (\A e \in 1..K : CountsUpTo[e] = Made(e, CountsUpTo[e - 1]))
      /\ CountsUpTo = [e \in 0..K |-> CountsUpTo[e]]
  <2>1. 0 \in 0..K /\ \A e \in 1..K : e \in 0..K /\ e # 0
    BY <1>1
  <2>2. QED
    BY <1>8, <2>1
<1> DEFINE Bad == {e \in 0..K : CountsUpTo[e] \notin V}
<1>10. Bad = {}
  <2> SUFFICES ASSUME Bad # {}
               PROVE  FALSE
    OBVIOUS
  <2>1. PICK e \in Bad : \A m \in Bad : e <= m
    <3>1. Bad \subseteq Nat
      BY <1>1
    <3> HIDE DEF Bad
    <3>2. QED
      BY <3>1, LeastCounterexample
  <2>2. e # 0 /\ e \in 1..K /\ e - 1 \in 0..K
    BY <1>1, <1>2, <1>9
  <2>3. CountsUpTo[e - 1] \in V
    BY <2>1, <2>2
  <2>4. QED
    BY <1>3, <1>9, <2>2, <2>3
<1>11. QED
  BY <1>9, <1>10 DEF K, V, Made

\* End effectors without signals add nothing.
LEMMA CountsSkipped ==
   ASSUME NEW e \in 0..Len(SignalCounts), NEW f \in e..Len(SignalCounts),
          \A g \in e + 1..f : SignalCounts[g] = 0
   PROVE  CountsUpTo[f] = CountsUpTo[e]
<1> DEFINE Bad == {g \in e..f : CountsUpTo[g] # CountsUpTo[e]}
<1>0. Len(SignalCounts) \in Nat
  BY AnnotationAssumption, LenProperties
<1> SUFFICES ASSUME Bad # {}
             PROVE  FALSE
  BY <1>0
<1>1. PICK g \in Bad : \A m \in Bad : g <= m
  <2>1. Bad \subseteq Nat
    BY <1>0
  <2> HIDE DEF Bad
  <2>2. QED
    BY <2>1, LeastCounterexample
<1>2. g \in e + 1..f /\ g - 1 \in e..f /\ g \in 1..Len(SignalCounts)
  BY <1>0, <1>1
<1>3. CountsUpTo[g - 1] = CountsUpTo[e]
  BY <1>0, <1>1, <1>2
<1>4. CountsUpTo[g] = CountsUpTo[g - 1]
  BY <1>2, CountsDefined
<1>5. QED
  BY <1>3, <1>4

\* The next end effector is the first of the later ones with signals.
LEMMA NextEefIs ==
   ASSUME NEW e \in Nat, EefsAfter(e) # {}
   PROVE  /\ NextEef(e) \in EefsAfter(e)
          /\ \A g \in EefsAfter(e) : NextEef(e) <= g
<1>1. EefsAfter(e) \subseteq Nat
  BY AnnotationAssumption, LenProperties DEF EefsAfter
<1>2. \E f \in EefsAfter(e) : \A g \in EefsAfter(e) : f <= g
  BY <1>1, LeastCounterexample
<1>3. QED
  BY <1>2 DEF NextEef

\* What the next end effector with signals needs, and when there is none.
LEMMA NextCounts ==
   ASSUME NEW e \in 0..Len(SignalCounts)
   PROVE  /\ EefsAfter(e) # {} => /\ NextEef(e) \in DOMAIN SignalCounts
                                  /\ NextEef(e) \in Nat /\ SignalCounts[NextEef(e)] > 0
                                  /\ CountsUpTo[NextEef(e) - 1] = CountsUpTo[e]
          /\ EefsAfter(e) = {} => CountsUpTo[Len(SignalCounts)] = CountsUpTo[e]
<1>0. /\ Len(SignalCounts) \in Nat /\ DOMAIN SignalCounts = 1..Len(SignalCounts)
      /\ \A g \in 1..Len(SignalCounts) : SignalCounts[g] \in Nat
  BY AnnotationAssumption, LenProperties, ElementOfSeq
<1>1. ASSUME NEW f \in e..Len(SignalCounts), \A g \in EefsAfter(e) : g > f
      PROVE  CountsUpTo[f] = CountsUpTo[e]
  <2>1. ASSUME NEW g \in e + 1..f
        PROVE  SignalCounts[g] = 0
    <3>1. g \in DOMAIN SignalCounts /\ g > e /\ ~ (g > f) /\ SignalCounts[g] \in Nat
      BY <1>0
    <3>2. g \notin EefsAfter(e)
      BY <1>1, <3>1
    <3>3. QED
      BY <3>1, <3>2 DEF EefsAfter
  <2>2. QED
    BY <2>1, CountsSkipped
<1>2. CASE EefsAfter(e) # {}
  <2> DEFINE f == NextEef(e)
  <2>1. f \in EefsAfter(e) /\ \A g \in EefsAfter(e) : f <= g
    BY <1>0, <1>2, NextEefIs
  <2> HIDE DEF f
  <2>2. f \in DOMAIN SignalCounts /\ f > e /\ SignalCounts[f] > 0 /\ f \in 1..Len(SignalCounts)
    BY <1>0, <2>1 DEF EefsAfter
  <2>3. f - 1 \in e..Len(SignalCounts)
    BY <1>0, <2>2
  <2>4. \A g \in EefsAfter(e) : g > f - 1
    BY <1>0, <2>1, <2>2 DEF EefsAfter
  <2>5. CountsUpTo[f - 1] = CountsUpTo[e]
    BY <1>1, <2>3, <2>4
  <2>6. QED
    BY <1>2, <2>2, <2>5 DEF f
<1>3. CASE EefsAfter(e) = {}
  BY <1>0, <1>1, <1>3
<1>4. QED
  BY <1>2, <1>3

\* A new episode begins with the first end effector that has signals.
LEMMA FirstEef ==
   /\ NextEef(0) \in DOMAIN SignalCounts /\ NextEef(0) \in Nat
   /\ SignalCounts[NextEef(0)] > 0
   /\ CountsUpTo[NextEef(0) - 1] = <<>>
<1>1. /\ Len(SignalCounts) \in Nat /\ DOMAIN SignalCounts = 1..Len(SignalCounts)
      /\ \E e \in DOMAIN SignalCounts : SignalCounts[e] > 0
  BY AnnotationAssumption, LenProperties
<1>2. 0 \in 0..Len(SignalCounts) /\ EefsAfter(0) # {}
  BY <1>1 DEF EefsAfter
<1>3. QED
  BY <1>2, NextCounts, CountsDefined

\* The marks of one more end effector are counted behind the others.
LEMMA MarkCountsAppend ==
   ASSUME NEW c \in Seq(Seq(Action)), NEW m \in Seq(Action)
   PROVE  /\ MarkCounts(c) \in Seq(Nat)
          /\ MarkCounts(Append(c, m)) = Append(MarkCounts(c), Len(m))
<1> DEFINE S == Seq(Action)
           d == Append(c, m)
<1>1. /\ Len(c) \in Nat /\ DOMAIN c = 1..Len(c) /\ \A i \in 1..Len(c) : c[i] \in S
      /\ Len(m) \in Nat
  BY LenProperties, ElementOfSeq
<1>2. /\ d \in Seq(S) /\ Len(d) = Len(c) + 1 /\ DOMAIN d = 1..Len(c) + 1
      /\ \A i \in 1..Len(c) : d[i] = c[i]
      /\ d[Len(c) + 1] = m
  <2>1. c \in Seq(S) /\ m \in S
    OBVIOUS
  <2>2. QED
    BY <1>1, <2>1, AppendProperties, LenProperties
<1>3. \A i \in 1..Len(c) : Len(c[i]) \in Nat
  BY <1>1, LenProperties
<1> HIDE DEF d, S
<1>4. MarkCounts(c) \in Seq(Nat) /\ Len(MarkCounts(c)) = Len(c)
  BY <1>1, <1>3 DEF MarkCounts
<1>5. MarkCounts(d) \in Seq(Nat) /\ Len(MarkCounts(d)) = Len(c) + 1
  <2>1. \A i \in 1..Len(c) + 1 : Len(d[i]) \in Nat
    BY <1>1, <1>2, <1>3
  <2>2. QED
    BY <1>1, <1>2, <2>1 DEF MarkCounts
<1>6. /\ Append(MarkCounts(c), Len(m)) \in Seq(Nat)
      /\ Len(Append(MarkCounts(c), Len(m))) = Len(c) + 1
      /\ \A i \in 1..Len(c) : Append(MarkCounts(c), Len(m))[i] = MarkCounts(c)[i]
      /\ Append(MarkCounts(c), Len(m))[Len(c) + 1] = Len(m)
  BY <1>1, <1>4, AppendProperties
<1>7. \A i \in 1..Len(c) + 1 : MarkCounts(d)[i] = Append(MarkCounts(c), Len(m))[i]
  <2>1. \A i \in 1..Len(c) : MarkCounts(d)[i] = Len(c[i]) /\ MarkCounts(c)[i] = Len(c[i])
    BY <1>1, <1>2 DEF MarkCounts
  <2>2. MarkCounts(d)[Len(c) + 1] = Len(m)
    BY <1>1, <1>2 DEF MarkCounts
  <2>3. QED
    BY <1>1, <1>6, <2>1, <2>2
<1>8. QED
  BY <1>4, <1>5, <1>6, <1>7, SeqEqual DEF d

LEMMA StartOpens ==
   ASSUME RecordingInv, AnnInit, stage = "record", StartAnnotation
   PROVE  AnnotationInv'
<1>1. PICK auto \in BOOLEAN :
         ann' = [ann EXCEPT !.auto = auto, !.pc = IF dataset = <<>> THEN "done" ELSE "next"]
  BY DEF StartAnnotation, OpenDataset
<1>2. ann = AnnotationOff /\ recorded' = 0 /\ annotated' = <<>> /\ dataset' = dataset
  BY DEF AnnInit, StartAnnotation
<1>3. ann' = [pc |-> IF dataset = <<>> THEN "done" ELSE "next", auto |-> auto, ep |-> 0, eef |-> 0,
              k |-> 0, paused |-> FALSE, skip |-> FALSE, index |-> 0, marks |-> <<>>,
              collected |-> <<>>]
  BY <1>1, <1>2 DEF AnnotationOff
<1>4. Len(dataset) \in Nat
  BY LenProperties DEF RecordingInv, DatasetOK
<1>5. AnnTypeOK'
  <2>1. 0 \in Action /\ <<>> \in Seq(Action) /\ <<>> \in Seq(Seq(Action))
        /\ <<>> \in Seq([src : Nat, actions : Action, auto : BOOLEAN, signals : Seq(Seq(Action))])
    BY DemoAssumption, EmptySeq DEF Action
  <2>2. QED
    BY <1>2, <1>3, <2>1 DEF AnnTypeOK
<1>6. ann'.pc \in {"done", "next"} /\ ann'.ep = 0
  BY <1>3
<1>7. PlaceInv' /\ MarksInv'
  BY <1>2, <1>4, <1>6 DEF PlaceInv, MarksInv, Replaying
<1>8. ExportedInv'
  <2>1. DOMAIN annotated' = {}
    BY <1>2
  <2>2. QED
    BY <2>1 DEF ExportedInv, AnnotationComplete
<1>9. QED
  BY <1>5, <1>7, <1>8 DEF AnnotationInv

LEMMA NextAnnotation ==
   ASSUME RecordingInv, AnnotationInv, AnnNext
   PROVE  AnnotationInv'
<1> DEFINE Locals == [pc : {"off", "next", "reset", "play", "export", "done", "interrupted",
                           "raised"},
                      auto : BOOLEAN, ep : Nat, eef : Nat, k : Action,
                      paused : BOOLEAN, skip : BOOLEAN, index : Action,
                      marks : Seq(Action), collected : Seq(Seq(Action))]
<1>0. /\ dataset \in Seq(0..MaxSteps) /\ Len(dataset) \in Nat
      /\ \A i \in 1..Len(dataset) : dataset[i] \in 1..MaxSteps
      /\ MaxSteps \in Nat /\ 0 \in Action /\ Action \subseteq Nat
  <2>1. dataset \in Seq(0..MaxSteps) /\ \A i \in DOMAIN dataset : dataset[i] > 0
    BY DEF RecordingInv, DatasetOK
  <2>2. QED
    BY <2>1, LenProperties, ElementOfSeq, DemoAssumption DEF Action
<1>1. /\ ann \in Locals /\ recorded \in Action
      /\ annotated \in Seq([src : Nat, actions : Action, auto : BOOLEAN,
                            signals : Seq(Seq(Action))])
      /\ ann.pc \notin {"off", "raised"} /\ ann.ep \in Nat /\ ann.ep <= Len(dataset)
      /\ ann.pc \in Replaying => ann.ep > 0
      /\ ann.pc = "play" => recorded = ann.k /\ ann.k <= Length
      /\ ann.pc = "export" => recorded = Length
  BY DEF AnnotationInv, AnnTypeOK, PlaceInv
<1>2. ann.pc \in Replaying => Length \in 1..MaxSteps
  BY <1>0, <1>1 DEF Length
<1>3. UNCHANGED dataset
  BY DEF AnnNext, AnnKey, NextEpisode, NoMoreEpisodes, ResetTo, Play, SkipReplay, EndAuto,
         EndManual, ExportAnnotated, InterruptAnnotation
\* The exported episodes, by the steps that export none.
<1>4. ASSUME UNCHANGED annotated, ann'.ep \in {ann.ep, ann.ep + 1}, ann'.ep \in Nat,
             ann'.ep = ann.ep /\ ann'.pc \in Replaying => ann.pc \in Replaying
      PROVE  ExportedInv'
  <2>1. AnnotationComplete'
    BY <1>3, <1>4 DEF AnnotationInv, ExportedInv, AnnotationComplete
  <2>2. ASSUME NEW i \in DOMAIN annotated
        PROVE  /\ annotated[i].src \in 1..ann'.ep
               /\ ann'.pc \in Replaying => annotated[i].src < ann'.ep
    <3>1. annotated[i].src \in 1..ann.ep /\ (ann.pc \in Replaying => annotated[i].src < ann.ep)
      BY DEF AnnotationInv, ExportedInv
    <3>2. CASE ann'.ep = ann.ep
      BY <1>4, <3>1, <3>2
    <3>3. CASE ann'.ep = ann.ep + 1
      BY SMTT(30), <1>1, <3>1, <3>3
    <3>4. QED
      BY <1>4, <3>2, <3>3
  <2>3. QED
    BY <1>4, <2>1, <2>2 DEF ExportedInv
<1>5. ASSUME UNCHANGED <<recorded, annotated>>,
             \E pc \in {"done", "interrupted", "next"} : ann' = [ann EXCEPT !.pc = pc]
      PROVE  AnnotationInv'
  <2>1. ann' \in Locals /\ ann'.pc \in {"done", "interrupted", "next"} /\ ann'.ep = ann.ep
    BY ZenonT(40), <1>1, <1>5
  <2>2. AnnTypeOK'
    BY <1>1, <1>5, <2>1 DEF AnnTypeOK
  <2>3. PlaceInv' /\ MarksInv'
    BY <1>1, <1>3, <2>1 DEF PlaceInv, MarksInv, Replaying
  <2>4. ExportedInv'
    BY <1>1, <1>4, <1>5, <2>1 DEF Replaying
  <2>5. QED
    BY <2>2, <2>3, <2>4 DEF AnnotationInv
<1>6. CASE AnnKey
  <2>1. ann' \in AnnKeys /\ UNCHANGED <<recorded, annotated>> /\ ann.pc \in {"reset", "play"}
    BY <1>6 DEF AnnKey
  <2>2. Append(ann.marks, ann.index) \in Seq(Action)
    BY <1>1, AppendProperties
  <2>3. /\ ann' \in Locals /\ ann'.pc = ann.pc /\ ann'.ep = ann.ep /\ ann'.k = ann.k
        /\ ann'.auto = ann.auto /\ ann'.eef = ann.eef /\ ann'.collected = ann.collected
    BY ZenonT(40), <1>1, <2>1, <2>2 DEF AnnKeys
  <2>4. AnnTypeOK'
    BY <1>1, <2>1, <2>3 DEF AnnTypeOK
  <2>5. PlaceInv'
    BY <1>1, <1>3, <2>1, <2>3 DEF PlaceInv, Length
  <2>6. MarksInv'
    BY <2>3 DEF AnnotationInv, MarksInv
  <2>7. ExportedInv'
    BY <1>1, <1>4, <2>1, <2>3
  <2>8. QED
    BY <2>4, <2>5, <2>6, <2>7 DEF AnnotationInv
<1>7. CASE NextEpisode
  <2> DEFINE a == [ann EXCEPT !.ep = @ + 1, !.collected = <<>>]
  <2>1. /\ ann.pc = "next" /\ ann.ep < Len(dataset) /\ UNCHANGED <<recorded, annotated>>
        /\ ann' = IF ann.auto THEN [a EXCEPT !.pc = "reset", !.skip = FALSE]
                  ELSE Restart(a, NextEef(0))
    BY <1>7 DEF NextEpisode
  <2>2. a \in Locals /\ a.auto = ann.auto /\ a.ep = ann.ep + 1 /\ a.collected = <<>>
    <3>1. <<>> \in Seq(Seq(Action)) /\ ann.ep + 1 \in Nat
      BY <1>1, EmptySeq
    <3>2. QED
      BY <1>1, <3>1
  <2> HIDE DEF a
  <2>3. /\ ann' \in Locals /\ ann'.pc = "reset" /\ ann'.ep = ann.ep + 1 /\ ann'.auto = ann.auto
        /\ ~ann.auto => ann'.eef = NextEef(0) /\ ann'.collected = <<>>
    <3>1. CASE ann.auto
      BY <1>1, <2>1, <2>2, <3>1
    <3>2. CASE ~ann.auto
      <4>1. NextEef(0) \in Nat /\ <<>> \in Seq(Action)
        BY FirstEef, EmptySeq
      <4>2. QED
        BY <1>1, <2>1, <2>2, <3>2, <4>1 DEF Restart
    <3>3. QED
      BY <3>1, <3>2
  <2>4. AnnTypeOK'
    BY <1>1, <2>1, <2>3 DEF AnnTypeOK
  <2>5. PlaceInv'
    <3>1. ann'.ep > 0 /\ ann'.ep <= Len(dataset) /\ ann'.pc = "reset"
      <4>1. ann.ep \in Nat /\ Len(dataset) \in Nat
        BY <1>0, <1>1
      <4>2. QED
        BY <2>1, <2>3, <4>1
    <3>2. QED
      BY <1>3, <3>1 DEF PlaceInv
  <2>6. MarksInv'
    <3>1. MarkCounts(<<>>) = <<>>
      BY DEF MarkCounts
    <3>2. QED
      BY <2>3, <3>1, FirstEef DEF MarksInv
  <2>7. ExportedInv'
    BY SMTT(30), <1>1, <1>4, <2>1, <2>3 DEF Replaying
  <2>8. QED
    BY <2>4, <2>5, <2>6, <2>7 DEF AnnotationInv
<1>8. CASE NoMoreEpisodes \/ InterruptAnnotation \/ SkipReplay
  <2>1. /\ \E pc \in {"done", "interrupted", "next"} : ann' = [ann EXCEPT !.pc = pc]
        /\ UNCHANGED <<recorded, annotated>>
    BY <1>8 DEF NoMoreEpisodes, InterruptAnnotation, SkipReplay
  <2>2. QED
    BY <1>5, <2>1
<1>9. CASE ResetTo
  <2>1. /\ ann.pc = "reset" /\ recorded' = 0 /\ UNCHANGED annotated
        /\ ann' = [ann EXCEPT !.pc = "play", !.k = 0, !.index = 0]
    BY <1>2, <1>9 DEF ResetTo, Replaying
  <2>2. /\ ann' \in Locals /\ ann'.pc = "play" /\ ann'.ep = ann.ep /\ ann'.k = 0
        /\ ann'.auto = ann.auto /\ ann'.eef = ann.eef /\ ann'.collected = ann.collected
    BY <1>0, <1>1, <2>1
  <2>3. AnnTypeOK'
    BY <1>0, <1>1, <2>1, <2>2 DEF AnnTypeOK
  <2>4. PlaceInv'
    BY <1>1, <1>2, <1>3, <2>1, <2>2 DEF PlaceInv, Length, Replaying
  <2>5. MarksInv'
    BY <2>1, <2>2 DEF AnnotationInv, MarksInv
  <2>6. ExportedInv'
    BY <1>1, <1>4, <2>1, <2>2 DEF Replaying
  <2>7. QED
    BY <2>3, <2>4, <2>5, <2>6 DEF AnnotationInv
<1>10. CASE Play
  <2>1. /\ ann.pc = "play" /\ ann.k < Length /\ recorded' = recorded + 1 /\ UNCHANGED annotated
        /\ ann' = [ann EXCEPT !.k = @ + 1,
                              !.index = IF ann.k + 1 < Length THEN ann.k + 1 ELSE @]
    BY <1>10 DEF Play
  <2>2. recorded = ann.k /\ ann.k + 1 \in Action /\ ann.k + 1 <= Length
    BY <1>0, <1>1, <1>2, <2>1 DEF Action, Replaying
  <2>3. /\ ann' \in Locals /\ ann'.pc = "play" /\ ann'.ep = ann.ep /\ ann'.k = ann.k + 1
        /\ ann'.auto = ann.auto /\ ann'.eef = ann.eef /\ ann'.collected = ann.collected
    BY <1>1, <2>1, <2>2
  <2>4. AnnTypeOK'
    BY <1>1, <2>1, <2>2, <2>3 DEF AnnTypeOK
  <2>5. PlaceInv'
    BY <1>1, <1>2, <1>3, <2>1, <2>2, <2>3 DEF PlaceInv, Length, Replaying
  <2>6. MarksInv'
    BY <2>1, <2>3 DEF AnnotationInv, MarksInv
  <2>7. ExportedInv'
    BY <1>1, <1>4, <2>1, <2>3 DEF Replaying
  <2>8. QED
    BY <2>4, <2>5, <2>6, <2>7 DEF AnnotationInv
<1>11. CASE EndAuto
  <2>1. /\ ann.pc = "play" /\ ann.auto /\ ann.k = Length /\ UNCHANGED <<recorded, annotated>>
        /\ \E pc \in {"export", "next"} : ann' = [ann EXCEPT !.pc = pc]
    BY <1>11 DEF EndAuto
  <2>2. /\ ann' \in Locals /\ ann'.pc \in {"export", "next"} /\ ann'.ep = ann.ep /\ ann'.auto
    BY <1>1, <2>1
  <2>3. AnnTypeOK'
    BY <1>1, <2>1, <2>2 DEF AnnTypeOK
  <2>4. PlaceInv'
    BY <1>1, <1>3, <2>1, <2>2 DEF PlaceInv, Length, Replaying
  <2>5. MarksInv'
    BY <2>2 DEF MarksInv
  <2>6. ExportedInv'
    BY <1>1, <1>4, <2>1, <2>2 DEF Replaying
  <2>7. QED
    BY <2>3, <2>4, <2>5, <2>6 DEF AnnotationInv
<1>12. CASE EndManual
  <2> DEFINE kept == [ann EXCEPT !.collected = Append(@, ann.marks)]
  <2>1. /\ ann.pc = "play" /\ ~ann.auto /\ ann.k = Length /\ UNCHANGED <<recorded, annotated>>
        /\ \/ /\ AllMarked(ann)
              /\ ann' = IF EefsAfter(ann.eef) = {} THEN [kept EXCEPT !.pc = "export"]
                        ELSE Restart(kept, NextEef(ann.eef))
           \/ ann' = Restart(ann, ann.eef)
           \/ ann' = [ann EXCEPT !.pc = "next"]
    BY <1>12 DEF EndManual
  <2>2. /\ ann.eef \in DOMAIN SignalCounts /\ SignalCounts[ann.eef] > 0
        /\ MarkCounts(ann.collected) = CountsUpTo[ann.eef - 1]
        /\ ann.eef \in 1..Len(SignalCounts) /\ ann.eef \in 0..Len(SignalCounts)
    <3>1. Len(SignalCounts) \in Nat /\ DOMAIN SignalCounts = 1..Len(SignalCounts)
      BY AnnotationAssumption, LenProperties
    <3>2. QED
      BY <2>1, <3>1 DEF AnnotationInv, MarksInv
  <2>3. <<>> \in Seq(Action)
    BY EmptySeq
  <2>4. CASE AllMarked(ann)
             /\ ann' = IF EefsAfter(ann.eef) = {} THEN [kept EXCEPT !.pc = "export"]
                       ELSE Restart(kept, NextEef(ann.eef))
    <3>1. /\ kept \in Locals /\ kept.ep = ann.ep /\ kept.auto = ann.auto /\ kept.k = ann.k
          /\ kept.collected = Append(ann.collected, ann.marks)
      <4>1. Append(ann.collected, ann.marks) \in Seq(Seq(Action))
        BY <1>1, AppendProperties
      <4>2. QED
        BY <1>1, <4>1
    <3>2. MarkCounts(kept.collected) = CountsUpTo[ann.eef]
      BY ZenonT(40), <1>1, <2>2, <2>4, <3>1, MarkCountsAppend, CountsDefined DEF AllMarked
    <3> HIDE DEF kept
    <3>3. CASE EefsAfter(ann.eef) = {}
      <4>1. /\ ann' \in Locals /\ ann'.pc = "export" /\ ann'.ep = ann.ep
            /\ ann'.collected = kept.collected
        BY <2>4, <3>1, <3>3
      <4>2. MarksInv'
        BY <2>2, <3>2, <3>3, <4>1, NextCounts DEF MarksInv
      <4>3. PlaceInv'
        BY <1>1, <1>3, <2>1, <4>1 DEF PlaceInv, Length, Replaying
      <4>4. AnnTypeOK'
        BY <1>1, <2>1, <4>1 DEF AnnTypeOK
      <4>5. ExportedInv'
        BY <1>1, <1>4, <2>1, <4>1 DEF Replaying
      <4>6. QED
        BY <4>2, <4>3, <4>4, <4>5 DEF AnnotationInv
    <3>4. CASE EefsAfter(ann.eef) # {}
      <4>1. /\ NextEef(ann.eef) \in DOMAIN SignalCounts /\ NextEef(ann.eef) \in Nat
            /\ SignalCounts[NextEef(ann.eef)] > 0
            /\ CountsUpTo[NextEef(ann.eef) - 1] = CountsUpTo[ann.eef]
        BY <2>2, <3>4, NextCounts
      <4>2. /\ ann' \in Locals /\ ann'.pc = "reset" /\ ann'.ep = ann.ep
            /\ ann'.collected = kept.collected /\ ann'.eef = NextEef(ann.eef)
        BY <2>3, <2>4, <3>1, <3>4, <4>1 DEF Restart
      <4>3. MarksInv'
        BY <3>2, <4>1, <4>2 DEF MarksInv
      <4>4. PlaceInv'
        BY <1>1, <1>3, <2>1, <4>2 DEF PlaceInv, Replaying
      <4>5. AnnTypeOK'
        BY <1>1, <2>1, <4>2 DEF AnnTypeOK
      <4>6. ExportedInv'
        BY <1>1, <1>4, <2>1, <4>2 DEF Replaying
      <4>7. QED
        BY <4>3, <4>4, <4>5, <4>6 DEF AnnotationInv
    <3>5. QED
      BY <3>3, <3>4
  <2>5. CASE ann' = Restart(ann, ann.eef)
    <3>1. /\ ann' \in Locals /\ ann'.pc = "reset" /\ ann'.ep = ann.ep
          /\ ann'.collected = ann.collected /\ ann'.eef = ann.eef
      BY <1>1, <2>3, <2>5 DEF Restart
    <3>2. MarksInv'
      BY <2>2, <3>1 DEF MarksInv
    <3>3. PlaceInv'
      BY <1>1, <1>3, <2>1, <3>1 DEF PlaceInv, Replaying
    <3>4. AnnTypeOK'
      BY <1>1, <2>1, <3>1 DEF AnnTypeOK
    <3>5. ExportedInv'
      BY <1>1, <1>4, <2>1, <3>1 DEF Replaying
    <3>6. QED
      BY <3>2, <3>3, <3>4, <3>5 DEF AnnotationInv
  <2>6. CASE ann' = [ann EXCEPT !.pc = "next"]
    BY <1>5, <2>1, <2>6
  <2>7. QED
    BY <2>1, <2>4, <2>5, <2>6
<1>13. CASE ExportAnnotated
  <2> DEFINE new == [src |-> ann.ep, actions |-> recorded, auto |-> ann.auto,
                     signals |-> ann.collected]
             Episode == [src : Nat, actions : Action, auto : BOOLEAN, signals : Seq(Seq(Action))]
  <2>1. /\ ann.pc = "export" /\ annotated' = Append(annotated, new) /\ recorded' = 0
        /\ ann' = [ann EXCEPT !.pc = "next"]
    BY <1>13 DEF ExportAnnotated
  <2>2. /\ ann' \in Locals /\ ann'.pc = "next" /\ ann'.ep = ann.ep
    BY <1>1, <2>1
  <2>3. new \in Episode
    BY <1>1
  <2>4. /\ new.src = ann.ep /\ new.src \in 1..ann.ep /\ new.actions = dataset[new.src]
        /\ new.auto \/ MarkCounts(new.signals) = CountsUpTo[Len(SignalCounts)]
    BY <1>1, <2>1 DEF AnnotationInv, MarksInv, Length, Replaying
  <2> HIDE DEF new
  <2>5. /\ annotated' \in Seq(Episode) /\ DOMAIN annotated = 1..Len(annotated)
        /\ DOMAIN annotated' = 1..Len(annotated) + 1 /\ Len(annotated) \in Nat
        /\ \A i \in 1..Len(annotated) : annotated'[i] = annotated[i]
        /\ annotated'[Len(annotated) + 1] = new
    <3>1. annotated \in Seq(Episode)
      BY <1>1
    <3> HIDE DEF Episode
    <3>2. /\ annotated' \in Seq(Episode) /\ Len(annotated') = Len(annotated) + 1
          /\ \A i \in 1..Len(annotated) : annotated'[i] = annotated[i]
          /\ annotated'[Len(annotated) + 1] = new
      BY <2>1, <2>3, <3>1, AppendProperties
    <3>3. /\ Len(annotated) \in Nat /\ DOMAIN annotated = 1..Len(annotated)
      BY <3>1, LenProperties
    <3>4. DOMAIN annotated' = 1..Len(annotated) + 1
      BY <3>2, LenProperties
    <3>5. QED
      BY <3>2, <3>3, <3>4
  <2>6. AnnTypeOK'
    BY <1>0, <2>1, <2>2, <2>5 DEF AnnTypeOK
  <2>7. PlaceInv' /\ MarksInv'
    BY <1>1, <1>3, <2>2 DEF PlaceInv, MarksInv, Replaying
  <2>8. ASSUME NEW i \in DOMAIN annotated
        PROVE  /\ annotated[i].actions = dataset[annotated[i].src]
               /\ annotated[i].auto \/
                     MarkCounts(annotated[i].signals) = CountsUpTo[Len(SignalCounts)]
               /\ annotated[i].src \in 1..ann.ep /\ annotated[i].src < ann.ep
    BY <2>1 DEF AnnotationInv, ExportedInv, AnnotationComplete, Replaying
  <2>9. ASSUME NEW i \in DOMAIN annotated'
        PROVE  /\ annotated'[i].actions = dataset'[annotated'[i].src]
               /\ annotated'[i].auto \/
                     MarkCounts(annotated'[i].signals) = CountsUpTo[Len(SignalCounts)]
               /\ annotated'[i].src \in 1..ann'.ep
    <3>1. CASE i = Len(annotated) + 1
      BY <1>3, <2>2, <2>4, <2>5, <3>1
    <3>2. CASE i # Len(annotated) + 1
      <4>1. i \in DOMAIN annotated /\ annotated'[i] = annotated[i]
        BY <2>5, <3>2
      <4>2. QED
        BY <1>3, <2>2, <2>8, <4>1
    <3>3. QED
      BY <3>1, <3>2
  <2>10. ASSUME NEW i \in DOMAIN annotated', NEW j \in DOMAIN annotated', i < j
         PROVE  annotated'[i].src < annotated'[j].src
    <3>1. i \in DOMAIN annotated /\ annotated'[i] = annotated[i]
      BY <2>5, <2>10
    <3>2. CASE j = Len(annotated) + 1
      BY <2>4, <2>5, <2>8, <3>1, <3>2
    <3>3. CASE j # Len(annotated) + 1
      <4>1. j \in DOMAIN annotated /\ annotated'[j] = annotated[j]
        BY <2>5, <3>3
      <4>2. QED
        BY <2>10, <3>1, <4>1 DEF AnnotationInv, ExportedInv, AnnotationComplete
    <3>4. QED
      BY <3>2, <3>3
  <2>11. ExportedInv'
    BY <2>2, <2>9, <2>10 DEF ExportedInv, AnnotationComplete, Replaying
  <2>12. QED
    BY <2>6, <2>7, <2>11 DEF AnnotationInv
<1>14. QED
  BY <1>6, <1>7, <1>8, <1>9, <1>10, <1>11, <1>12, <1>13 DEF AnnNext
-----------------------------------------------------------------------------
(* The selection *)

\* The k-th index from the end, if a dataset of n episodes has it.
Part(q, n, k) == IF q[Len(q) + 1 - k] <= n THEN <<q[Len(q) + 1 - k]>> ELSE <<>>

\* g[k] are the indices that exist among the last k.
InLast(g, q, n) == /\ g \in [0..Len(q) -> Seq(Nat)] /\ g[0] = <<>>
                   /\ \A k \in 1..Len(q) : g[k] = Part(q, n, k) \o g[k - 1]

LEMMA ExistingIs ==
   ASSUME NEW q \in Seq(Nat), NEW n
   PROVE  \E g : InLast(g, q, n) /\ Existing(q, n) = g[Len(q)]
<1> DEFINE K == Len(q)
           V == Seq(Nat)
           step == [k \in 1..K |-> [p \in V |-> Part(q, n, k) \o p]]
           Def(f) == f = [k \in 0..K |->
                            IF k = 0 THEN <<>>
                            ELSE (IF q[K + 1 - k] <= n THEN <<q[K + 1 - k]>> ELSE <<>>) \o f[k - 1]]
           inLast == CHOOSE f : Def(f)
<1>1. K \in Nat /\ <<>> \in V
  BY LenProperties, EmptySeq
<1>2. ASSUME NEW k \in 1..K
      PROVE  Part(q, n, k) \in V
  <2>1. q[K + 1 - k] \in Nat
    BY <1>1, ElementOfSeq
  <2>2. QED
    BY <2>1 DEF Part
<1>3. \A k \in 1..K, p \in V : Part(q, n, k) \o p \in V
  BY <1>2, ConcatProperties
<1>4. step \in [1..K -> [V -> V]]
      /\ \A k \in 1..K, p \in V : step[k][p] = Part(q, n, k) \o p
  BY <1>3
<1>5. \A f : Def(f) <=> f = [k \in 0..K |-> IF k = 0 THEN <<>> ELSE Part(q, n, k) \o f[k - 1]]
  BY DEF Part
<1>6. Existing(q, n) = inLast[K]
  BY DEF Existing
<1> HIDE DEF step, V, K, Def, inLast
<1>7. PICK g \in [0..K -> V] : g[0] = <<>> /\ \A k \in 1..K : g[k] = step[k][g[k - 1]]
  <2>1. step \in Steps(V, K)
    BY <1>4 DEF Steps
  <2>2. \E g : Runs(g, V, <<>>, K, step)
    BY <1>1, <2>1, LoopExists
  <2>3. QED
    BY <2>2 DEF Runs
<1>8. ASSUME NEW k \in 1..K
      PROVE  g[k] = Part(q, n, k) \o g[k - 1]
  <2>1. k - 1 \in 0..K
    BY <1>1
  <2>2. g[k - 1] \in V
    BY <1>7, <2>1
  <2>3. QED
    BY <1>4, <1>7, <2>2
<1>9. Def(g)
  <2>1. \A k \in 0..K : k = 0 \/ k \in 1..K
    BY <1>1
  <2>2. g = [k \in 0..K |-> IF k = 0 THEN <<>> ELSE Part(q, n, k) \o g[k - 1]]
    BY <1>7, <1>8, <2>1
  <2>3. QED
    BY <1>5, <2>2
<1>10. Def(inLast)
  BY <1>9 DEF inLast
<1>11. inLast = [k \in 0..K |-> IF k = 0 THEN <<>> ELSE Part(q, n, k) \o inLast[k - 1]]
  BY <1>5, <1>10
<1>12. inLast[0] = <<>> /\ \A k \in 1..K : inLast[k] = Part(q, n, k) \o inLast[k - 1]
  <2>1. 0 \in 0..K /\ \A k \in 1..K : k \in 0..K /\ k # 0
    BY <1>1
  <2>2. QED
    BY <1>11, <2>1
<1> DEFINE Bad == {k \in 0..K : inLast[k] \notin V}
<1>13. Bad = {}
  <2> SUFFICES ASSUME Bad # {}
               PROVE  FALSE
    OBVIOUS
  <2>1. PICK k \in Bad : \A m \in Bad : k <= m
    <3>1. Bad \subseteq Nat
      BY <1>1
    <3> HIDE DEF Bad
    <3>2. QED
      BY <3>1, LeastCounterexample
  <2>2. k # 0 /\ k \in 1..K /\ k - 1 \in 0..K
    BY <1>1, <1>12
  <2>3. inLast[k - 1] \in V
    BY <2>1, <2>2
  <2>4. QED
    BY <1>3, <1>12, <2>2, <2>3
<1>14. inLast \in [0..K -> V]
  BY <1>11, <1>13
<1>15. QED
  BY <1>6, <1>12, <1>14 DEF InLast, K, V

\* The indices that exist in the rest of a selection.
LEMMA RestExisting ==
   ASSUME NEW q \in Seq(Nat), NEW n, NEW g, InLast(g, q, n), NEW m \in 1..Len(q) + 1
   PROVE  Existing(SubSeq(q, m, Len(q)), n) = g[Len(q) + 1 - m]
<1> DEFINE p == SubSeq(q, m, Len(q))
<1>1. Len(q) \in Nat /\ \A i \in 1..Len(q) : q[i] \in Nat
  BY LenProperties, ElementOfSeq
<1>2. p \in Seq(Nat) /\ Len(p) = Len(q) - m + 1 /\ \A i \in 1..Len(p) : p[i] = q[m + i - 1]
  BY <1>1, SubSeqProperties
<1>3. Len(p) \in Nat /\ Len(p) <= Len(q)
  BY <1>1, <1>2
<1> HIDE DEF p
<1>4. PICK f : InLast(f, p, n) /\ Existing(p, n) = f[Len(p)]
  BY <1>2, ExistingIs
<1> DEFINE Bad == {k \in 0..Len(p) : f[k] # g[k]}
<1>5. Bad = {}
  <2> SUFFICES ASSUME Bad # {}
               PROVE  FALSE
    OBVIOUS
  <2>1. PICK k \in Bad : \A j \in Bad : k <= j
    <3>1. Bad \subseteq Nat
      BY <1>3
    <3> HIDE DEF Bad
    <3>2. QED
      BY <3>1, LeastCounterexample
  <2>2. k # 0 /\ k \in 1..Len(p) /\ k \in 1..Len(q) /\ k - 1 \in 0..Len(p)
    BY SMTT(30), <1>3, <1>4 DEF InLast
  <2>3. f[k - 1] = g[k - 1]
    BY <2>1, <2>2
  <2>4. p[Len(p) + 1 - k] = q[Len(q) + 1 - k]
    BY <1>1, <1>2, <1>3, <2>2
  <2>5. Part(p, n, k) = Part(q, n, k)
    BY <2>4 DEF Part
  <2>6. f[k] = Part(p, n, k) \o f[k - 1] /\ g[k] = Part(q, n, k) \o g[k - 1]
    BY <1>4, <2>2 DEF InLast
  <2>7. QED
    BY <2>3, <2>5, <2>6
<1>6. f[Len(p)] = g[Len(p)]
  BY <1>3, <1>5
<1>7. QED
  BY <1>1, <1>2, <1>4, <1>6 DEF p

\* The first index, if it exists, comes first.
LEMMA ExistingFirst ==
   ASSUME NEW q \in Seq(Nat), NEW n, q # <<>>
   PROVE  /\ Existing(q, n) = (IF Head(q) <= n THEN <<Head(q)>> ELSE <<>>) \o Existing(Tail(q), n)
          /\ Existing(Tail(q), n) \in Seq(Nat)
<1>1. Len(q) \in Nat /\ Len(q) > 0
  BY LenProperties, EmptySeq
<1>2. PICK g : InLast(g, q, n) /\ Existing(q, n) = g[Len(q)]
  BY ExistingIs
<1>3. Tail(q) = SubSeq(q, 2, Len(q)) /\ Head(q) = q[1]
  BY <1>1, TailIsSubSeq
<1>4. Existing(Tail(q), n) = g[Len(q) - 1]
  <2>1. 2 \in 1..Len(q) + 1 /\ Len(q) + 1 - 2 = Len(q) - 1
    BY <1>1
  <2>2. QED
    BY <1>2, <1>3, <2>1, RestExisting
<1>5. g[Len(q)] = Part(q, n, Len(q)) \o g[Len(q) - 1] /\ g[Len(q) - 1] \in Seq(Nat)
  <2>1. Len(q) \in 1..Len(q) /\ Len(q) - 1 \in 0..Len(q)
    BY <1>1
  <2>2. QED
    BY <1>2, <2>1 DEF InLast
<1>6. Len(q) + 1 - Len(q) = 1
  BY <1>1
<1>7. QED
  BY <1>2, <1>3, <1>4, <1>5, <1>6 DEF Part

\* Indices that do not exist can be left out.
LEMMA SkipUnknown ==
   ASSUME NEW q \in Seq(Nat), NEW n, NEW m \in 1..Len(q) + 1,
          \A i \in 1..m - 1 : ~ (q[i] <= n)
   PROVE  Existing(SubSeq(q, m, Len(q)), n) = Existing(q, n)
<1>1. Len(q) \in Nat
  BY LenProperties
<1>2. PICK g : InLast(g, q, n) /\ Existing(q, n) = g[Len(q)]
  BY ExistingIs
<1> DEFINE rest(i) == g[Len(q) + 1 - i]
           Bad == {i \in 1..m : rest(i) # rest(1)}
<1>3. rest(1) = g[Len(q)]
  BY <1>1
<1> HIDE DEF rest
<1>4. Bad = {}
  <2> SUFFICES ASSUME Bad # {}
               PROVE  FALSE
    OBVIOUS
  <2>1. PICK i \in Bad : \A j \in Bad : i <= j
    <3>1. Bad \subseteq Nat
      BY <1>1
    <3> HIDE DEF Bad
    <3>2. QED
      BY <3>1, LeastCounterexample
  <2> DEFINE k == Len(q) + 1 - (i - 1)
  <2>2. i # 1 /\ i - 1 \in 1..m - 1 /\ i - 1 \in 1..m
    BY <1>1
  <2>3. k \in 1..Len(q) /\ k - 1 = Len(q) + 1 - i /\ Len(q) + 1 - k = i - 1 /\ k - 1 \in 0..Len(q)
    BY <1>1, <2>2
  <2>4. rest(i - 1) = rest(1)
    BY <2>1, <2>2
  <2>5. g[k] = rest(i - 1) /\ g[k - 1] = rest(i)
    BY <2>3 DEF rest
  <2> HIDE DEF k
  <2>6. Part(q, n, k) = <<>>
    BY <2>2, <2>3 DEF Part
  <2>7. g[k] = <<>> \o g[k - 1] /\ g[k - 1] \in Seq(Nat)
    BY <1>2, <2>3, <2>6 DEF InLast
  <2>8. rest(i) = rest(1)
    BY <2>4, <2>5, <2>7, ConcatEmptySeq
  <2>9. QED
    BY <2>8
<1>5. g[Len(q) + 1 - m] = g[Len(q)]
  <2>1. m \in 1..m
    BY <1>1
  <2>2. rest(m) = rest(1)
    BY <1>4, <2>1
  <2>3. QED
    BY <1>3, <2>2 DEF rest
<1>6. QED
  BY <1>2, <1>5, RestExisting
-----------------------------------------------------------------------------
(* The replay *)

\* The indices of --select_episodes, what is in a dataset, and the locals.
Indices == Seq(Nat \ {0})

FileOK == file \in Seq(Nat \ {0})

RepLocals ==
   [pc : {"off", "assign", "wait", "done", "interrupted", "raised"},
    selected : Indices, queue : Indices, loads : Seq(DOMAIN file),
    map : [ReplayEnvs -> [load : Nat, src : Nat, next : Nat]],
    row : [ReplayEnvs -> [load : Nat, k : Nat]],
    has : BOOLEAN, first : BOOLEAN, paused : BOOLEAN]

LocalsOK ==
   /\ FileOK
   /\ rep \in RepLocals /\ rep.pc \notin {"off", "raised"}
   /\ acting \in SUBSET ReplayEnvs
   /\ stepped \in Seq(Seq(Nat)) /\ Len(stepped) = Len(rep.loads)

\* Load l has no environment any more.
Over(l) == \A e \in ReplayEnvs : rep.map[e].load # l

\* What an environment holds: nothing, or a load no other one holds.
HoldsLoads(r) ==
   /\ \A e \in ReplayEnvs :
         \/ r.map[e] = NoEpisode
         \/ /\ r.map[e].load \in DOMAIN r.loads
            /\ r.map[e].src = r.loads[r.map[e].load]
            /\ r.map[e].next \in 1..file[r.map[e].src]
   /\ \A e, f \in ReplayEnvs :
         r.map[e].load = r.map[f].load /\ r.map[e] # NoEpisode => e = f
   /\ \A e \in ReplayEnvs : r.row[e].load <= Len(r.loads)

\* How far the loads are.
StepsDone ==
   /\ \A l \in DOMAIN stepped : stepped[l] = [k \in 1..Len(stepped[l]) |-> k]
   /\ \A l \in DOMAIN stepped : Over(l) => Len(stepped[l]) = file[rep.loads[l]]
   /\ rep.pc \in {"assign", "wait", "done"} => \A e \in ReplayEnvs : rep.map[e] # NoEpisode =>
         Len(stepped[rep.map[e].load])
            = rep.map[e].next - (IF rep.pc = "wait" /\ e \in acting THEN 1 ELSE 0)

\* The rows of the environments that act, and when none does.
RowsTaken ==
   /\ rep.pc = "wait" =>
         /\ \A e \in acting : /\ rep.map[e] # NoEpisode
                              /\ rep.row[e] = [load |-> rep.map[e].load, k |-> rep.map[e].next]
         /\ rep.has = (acting # {})
   /\ rep.pc = "done" \/ (rep.pc = "wait" /\ acting = {}) =>
         /\ Existing(rep.queue, Len(file)) = <<>>
         /\ \A e \in ReplayEnvs : ~HasAction(rep.map[e])

ReplayInv == /\ LocalsOK /\ HoldsLoads(rep) /\ StepsDone /\ RowsTaken
             /\ rep.loads \o InFile(rep.queue) = InFile(rep.selected)

LEMMA FileLength ==
   ASSUME FileOK
   PROVE  /\ Len(file) \in Nat /\ DOMAIN file = 1..Len(file)
          /\ \A i \in 1..Len(file) : file[i] \in Nat \ {0}
  BY LenProperties, ElementOfSeq DEF FileOK

\* What the loop pops is what the dataset lacks.
LEMMA PopUnknownIs ==
   ASSUME FileOK, NEW q \in Indices
   PROVE  /\ PopUnknown(q) \in Indices
          /\ InFile(PopUnknown(q)) = InFile(q)
          /\ PopUnknown(q) # <<>> => Head(PopUnknown(q)) \in DOMAIN file
<1> DEFINE n == Len(file)
<1>1. /\ Len(q) \in Nat /\ DOMAIN q = 1..Len(q) /\ \A i \in 1..Len(q) : q[i] \in Nat \ {0}
      /\ n \in Nat /\ DOMAIN file = 1..n
  BY FileLength, LenProperties, ElementOfSeq DEF Indices
<1>2. q \in Seq(Nat)
  BY SeqMonotonic DEF Indices
<1> HIDE DEF n
<1>3. CASE Known(q) = {}
  <2>1. \A i \in 1..Len(q) : ~ (q[i] <= n)
    BY <1>1, <1>3 DEF Known, n
  <2>2. Existing(SubSeq(q, Len(q) + 1, Len(q)), n) = Existing(q, n)
    <3>1. Len(q) + 1 \in 1..Len(q) + 1 /\ Len(q) + 1 - 1 = Len(q)
      BY <1>1
    <3>2. QED
      BY <1>2, <2>1, <3>1, SkipUnknown
  <2>3. SubSeq(q, Len(q) + 1, Len(q)) = <<>>
    BY <1>1, SubSeqEmpty
  <2>4. PopUnknown(q) = <<>> /\ <<>> \in Indices
    BY <1>3, EmptySeq DEF PopUnknown, Indices
  <2>5. QED
    BY <2>2, <2>3, <2>4 DEF InFile, n
<1>4. CASE Known(q) # {}
  <2> DEFINE m == Min(Known(q))
             p == SubSeq(q, m, Len(q))
  <2>1. m \in Known(q) /\ \A i \in Known(q) : m <= i
    <3>1. Known(q) \subseteq Nat
      BY <1>1 DEF Known
    <3>2. \E i \in Known(q) : \A j \in Known(q) : i <= j
      BY <1>4, <3>1, LeastCounterexample
    <3>3. QED
      BY <3>2 DEF Min
  <2> HIDE DEF m
  <2>2. m \in 1..Len(q) /\ q[m] <= n /\ q[m] \in 1..n
    BY <1>1, <2>1 DEF Known, n
  <2>3. \A i \in 1..m - 1 : ~ (q[i] <= n)
    BY <1>1, <2>1, <2>2 DEF Known, n
  <2>4. Existing(p, n) = Existing(q, n)
    <3>1. m \in 1..Len(q) + 1
      BY <1>1, <2>2
    <3>2. QED
      BY <1>2, <2>3, <3>1, SkipUnknown
  <2>5. /\ p \in Indices /\ Len(p) = Len(q) - m + 1 /\ Head(p) = q[m]
    <3>1. \A i \in m..Len(q) : q[i] \in Nat \ {0}
      BY <1>1, <2>2
    <3>2. p \in Seq(Nat \ {0}) /\ Len(p) = Len(q) - m + 1
          /\ \A i \in 1..Len(q) - m + 1 : p[i] = q[m + i - 1]
      BY <1>1, <2>2, <3>1, SubSeqProperties
    <3> HIDE DEF p
    <3>3. 1 \in 1..Len(q) - m + 1 /\ m + 1 - 1 = m
      BY <1>1, <2>2
    <3>4. Head(p) = p[1] /\ p[1] = q[m]
      BY <3>2, <3>3
    <3>5. QED
      BY <3>2, <3>4 DEF Indices
  <2>6. PopUnknown(q) = p
    BY <1>4 DEF PopUnknown, m
  <2>7. QED
    BY <1>1, <2>2, <2>4, <2>5, <2>6 DEF InFile, n
<1>5. QED
  BY <1>3, <1>4

\* What an iteration makes of the environment's entry: it goes on with its
\* episode, there is nothing left, or it begins with the next episode.
GoesOn(s, e, t) ==
   /\ HasAction(s.map[e])
   /\ t = [s EXCEPT !.map = [@ EXCEPT ![e] = [s.map[e] EXCEPT !.next = @ + 1]],
                    !.row = [@ EXCEPT ![e] = [load |-> s.map[e].load, k |-> s.map[e].next + 1]],
                    !.has = TRUE]

StaysIdle(s, e, t) ==
   /\ ~HasAction(s.map[e]) /\ PopUnknown(s.queue) = <<>>
   /\ t = [s EXCEPT !.queue = <<>>]

Begins(s, e, t) ==
   /\ ~HasAction(s.map[e]) /\ PopUnknown(s.queue) # <<>>
   /\ t = [s EXCEPT !.queue = Tail(PopUnknown(s.queue)),
                    !.loads = Append(s.loads, Head(PopUnknown(s.queue))),
                    !.map = [@ EXCEPT ![e] = [load |-> Len(s.loads) + 1,
                                              src |-> Head(PopUnknown(s.queue)), next |-> 1]],
                    !.row = [@ EXCEPT ![e] = [load |-> Len(s.loads) + 1, k |-> 1]],
                    !.has = TRUE]

LEMMA AssignCases ==
   ASSUME FileOK, NEW s \in RepLocals, s.pc # "raised", NEW e \in ReplayEnvs
   PROVE  GoesOn(s, e, Assign(s, e)) \/ StaysIdle(s, e, Assign(s, e)) \/ Begins(s, e, Assign(s, e))
<1> DEFINE q == PopUnknown(s.queue)
           popped == [s EXCEPT !.queue = PopUnknown(@)]
           loaded == Load(popped)
           new == [load |-> Len(loaded.loads), src |-> Head(popped.queue), next |-> 0]
<1>1. popped = [s EXCEPT !.queue = q] /\ popped.queue = q
  BY DEF RepLocals
<1>2. CASE HasAction(s.map[e])
  BY <1>2 DEF Assign, TakeAction, GoesOn
<1>3. CASE ~HasAction(s.map[e]) /\ q = <<>>
  BY <1>1, <1>3 DEF Assign, StaysIdle
<1>4. CASE ~HasAction(s.map[e]) /\ q # <<>>
  <2>1. /\ s.queue \in Indices /\ s.loads \in Seq(DOMAIN file)
        /\ s.map[e] \in [load : Nat, src : Nat, next : Nat]
    BY DEF RepLocals
  <2>2. Head(q) \in DOMAIN file /\ q \in Indices
    BY <1>4, <2>1, PopUnknownIs
  <2>3. Len(Append(s.loads, Head(q))) = Len(s.loads) + 1
    BY <2>1, <2>2, AppendProperties
  <2>4. loaded = [s EXCEPT !.queue = Tail(q), !.loads = Append(s.loads, Head(q))]
    BY <1>1 DEF Load, RepLocals
  <2>5. new = [load |-> Len(s.loads) + 1, src |-> Head(q), next |-> 0]
    BY <1>1, <2>3, <2>4 DEF RepLocals
  <2>6. HasAction(new)
    BY <2>2, <2>5, FileLength DEF HasAction
  <2>7. Assign(s, e) = TakeAction(loaded, e, new)
    BY <1>1, <1>4, <2>6 DEF Assign
  <2> HIDE DEF loaded, new, q
  <2>8. TakeAction(loaded, e, new) =
          [loaded EXCEPT !.map = [@ EXCEPT ![e] = [load |-> Len(s.loads) + 1, src |-> Head(q),
                                                   next |-> 1]],
                         !.row = [@ EXCEPT ![e] = [load |-> Len(s.loads) + 1, k |-> 1]],
                         !.has = TRUE]
    <3> DEFINE m == [load |-> Len(s.loads) + 1, src |-> Head(q), next |-> 1]
               row == [load |-> Len(s.loads) + 1, k |-> 1]
    <3>1. [new EXCEPT !.next = @ + 1] = m
      BY <2>5
    <3>2. [load |-> new.load, k |-> new.next + 1] = row
      BY <2>5
    <3> HIDE DEF m, row
    <3>3. TakeAction(loaded, e, new) =
             [loaded EXCEPT !.map = [@ EXCEPT ![e] = m], !.row = [@ EXCEPT ![e] = row],
                            !.has = TRUE]
      BY <3>1, <3>2 DEF TakeAction
    <3>4. QED
      BY <3>3 DEF m, row
  <2>9. QED
    BY <1>4, <2>4, <2>7, <2>8 DEF Begins, RepLocals, q
<1>5. QED
  BY <1>2, <1>3, <1>4

LEMMA AssignTyped ==
   ASSUME FileOK, NEW s \in RepLocals, NEW e \in ReplayEnvs
   PROVE  Assign(s, e) \in RepLocals
<1>1. CASE s.pc = "raised"
  BY <1>1 DEF Assign
<1>2. CASE s.pc # "raised"
  <2> DEFINE t == Assign(s, e)
             q == PopUnknown(s.queue)
  <2>1. /\ s.queue \in Indices /\ s.loads \in Seq(DOMAIN file) /\ Len(s.loads) \in Nat
        /\ s.map[e] \in [load : Nat, src : Nat, next : Nat]
    BY LenProperties DEF RepLocals
  <2>2. CASE GoesOn(s, e, t)
    <3> DEFINE map == [s.map EXCEPT ![e] = [s.map[e] EXCEPT !.next = @ + 1]]
               row == [s.row EXCEPT ![e] = [load |-> s.map[e].load, k |-> s.map[e].next + 1]]
    <3>1. /\ map \in [ReplayEnvs -> [load : Nat, src : Nat, next : Nat]]
          /\ row \in [ReplayEnvs -> [load : Nat, k : Nat]]
      <4>1. /\ [s.map[e] EXCEPT !.next = @ + 1] \in [load : Nat, src : Nat, next : Nat]
            /\ [load |-> s.map[e].load, k |-> s.map[e].next + 1] \in [load : Nat, k : Nat]
        BY <2>1
      <4>2. QED
        BY <4>1 DEF RepLocals
    <3>2. t = [s EXCEPT !.map = map, !.row = row, !.has = TRUE]
      BY <2>2 DEF GoesOn
    <3> HIDE DEF map, row, t
    <3>3. QED
      BY <3>1, <3>2 DEF RepLocals, t
  <2>3. CASE StaysIdle(s, e, t)
    BY ZenonT(40), <2>3, EmptySeq DEF StaysIdle, RepLocals, Indices
  <2>4. CASE Begins(s, e, t)
    <3>1. Head(q) \in DOMAIN file /\ q \in Indices /\ q # <<>> /\ Head(q) \in Nat
      BY <2>1, <2>4, PopUnknownIs, FileLength DEF Begins
    <3>2. Tail(q) \in Indices /\ Append(s.loads, Head(q)) \in Seq(DOMAIN file)
      BY <2>1, <3>1, HeadTailProperties, AppendProperties DEF Indices
    <3> DEFINE map == [s.map EXCEPT ![e] = [load |-> Len(s.loads) + 1, src |-> Head(q),
                                            next |-> 1]]
               row == [s.row EXCEPT ![e] = [load |-> Len(s.loads) + 1, k |-> 1]]
    <3>3. /\ map \in [ReplayEnvs -> [load : Nat, src : Nat, next : Nat]]
          /\ row \in [ReplayEnvs -> [load : Nat, k : Nat]]
      <4>1. /\ [load |-> Len(s.loads) + 1, src |-> Head(q), next |-> 1]
                  \in [load : Nat, src : Nat, next : Nat]
            /\ [load |-> Len(s.loads) + 1, k |-> 1] \in [load : Nat, k : Nat]
        BY <2>1, <3>1
      <4>2. QED
        BY <4>1 DEF RepLocals
    <3>4. t = [s EXCEPT !.queue = Tail(q), !.loads = Append(s.loads, Head(q)), !.map = map,
                        !.row = row, !.has = TRUE]
      BY <2>4 DEF Begins
    <3> HIDE DEF map, row, t, q
    <3>5. QED
      BY ZenonT(40), <3>2, <3>3, <3>4 DEF RepLocals, t
  <2>5. QED
    BY <1>2, <2>2, <2>3, <2>4, AssignCases
<1>3. QED
  BY <1>1, <1>2

LEMMA NoneExisting == \A n : Existing(<<>>, n) = <<>>
<1> SUFFICES ASSUME NEW n
             PROVE  Existing(<<>>, n) = <<>>
  OBVIOUS
<1>1. <<>> \in Seq(Nat) /\ Len(<<>>) = 0
  BY EmptySeq
<1>2. PICK g : InLast(g, <<>>, n) /\ Existing(<<>>, n) = g[Len(<<>>)]
  BY <1>1, ExistingIs
<1>3. QED
  BY <1>1, <1>2 DEF InLast

\* A load takes the first of the selected indices that are left.
LEMMA BeginsNext ==
   ASSUME FileOK, NEW loads \in Seq(DOMAIN file), NEW q \in Indices, q # <<>>,
          Head(q) \in DOMAIN file
   PROVE  /\ Append(loads, Head(q)) \o InFile(Tail(q)) = loads \o InFile(q)
          /\ InFile(q) # <<>>
<1> DEFINE h == Head(q)
           rest == InFile(Tail(q))
<1>1. q \in Seq(Nat)
  BY SeqMonotonic DEF Indices
<1>2. h <= Len(file) /\ h \in Nat
  BY FileLength
<1>3. InFile(q) = <<h>> \o rest /\ rest \in Seq(Nat)
  BY <1>1, <1>2, ExistingFirst DEF InFile
<1>4. loads \in Seq(Nat) /\ <<h>> \in Seq(Nat)
  <2>1. DOMAIN file \subseteq Nat
    BY FileLength
  <2>2. QED
    BY <1>2, <2>1, SeqMonotonic
<1> HIDE DEF h, rest
<1>5. Append(loads, h) = loads \o <<h>>
  BY <1>2, <1>4, AppendIsConcat
<1>6. (loads \o <<h>>) \o rest = loads \o (<<h>> \o rest)
  BY <1>3, <1>4, ConcatAssociative
<1>7. <<h>> \o rest # <<>>
  <2>1. Len(<<h>> \o rest) = Len(<<h>>) + Len(rest) /\ Len(<<h>>) = 1 /\ Len(rest) \in Nat
    BY <1>3, <1>4, ConcatProperties, LenProperties
  <2>2. QED
    BY <2>1, EmptySeq
<1>8. QED
  BY <1>3, <1>5, <1>6, <1>7 DEF h, rest

\* What the loop did with environment e, from the locals r to s.
Taken(r, s, e) ==
   /\ s.row[e] = [load |-> s.map[e].load, k |-> s.map[e].next]
   /\ s.map[e] # NoEpisode
   /\ \/ r.map[e] # NoEpisode /\ s.map[e] = [r.map[e] EXCEPT !.next = @ + 1]
      \/ s.map[e].load > Len(r.loads) /\ s.map[e].next = 1 /\ ~HasAction(r.map[e])

LeftOut(r, s, e) == s.map[e] = r.map[e] /\ ~HasAction(r.map[e]) /\ InFile(s.queue) = <<>>

\* After the iterations for the first n environments.
LoopInv(r, s, n) ==
   /\ s \in RepLocals /\ s.pc = r.pc /\ s.selected = r.selected
   /\ s.loads \o InFile(s.queue) = InFile(s.selected)
   /\ HoldsLoads(s)
   /\ Len(r.loads) <= Len(s.loads) /\ \A l \in DOMAIN r.loads : s.loads[l] = r.loads[l]
   /\ \A l \in Len(r.loads) + 1..Len(s.loads) : \E e \in 1..n : s.map[e].load = l
   /\ \A e \in n + 1..NumEnvs : s.map[e] = r.map[e]
   /\ \A e \in 1..n : Taken(r, s, e) \/ LeftOut(r, s, e)
   /\ s.has <=> (\E e \in 1..n : Taken(r, s, e))

\* An environment that was given an action has another entry than before.
LEMMA TakenChanges ==
   ASSUME NEW r \in RepLocals, HoldsLoads(r), NEW s, NEW e \in ReplayEnvs, Taken(r, s, e)
   PROVE  s.map[e] # r.map[e]
<1>1. Len(r.loads) \in Nat /\ DOMAIN r.loads = 1..Len(r.loads)
      /\ r.map[e] \in [load : Nat, src : Nat, next : Nat]
  BY LenProperties DEF RepLocals
<1>2. r.map[e].load <= Len(r.loads)
  BY <1>1 DEF HoldsLoads, NoEpisode
<1>3. CASE s.map[e] = [r.map[e] EXCEPT !.next = @ + 1]
  <2>1. s.map[e].next = r.map[e].next + 1 /\ r.map[e].next \in Nat
    BY <1>1, <1>3
  <2>2. QED
    BY <2>1
<1>4. CASE s.map[e].load > Len(r.loads)
  BY <1>1, <1>2, <1>4
<1>5. QED
  BY <1>3, <1>4 DEF Taken

LEMMA OneIteration ==
   ASSUME FileOK, NEW r \in RepLocals, r.pc # "raised", HoldsLoads(r), NEW s, NEW n \in ReplayEnvs,
          LoopInv(r, s, n - 1)
   PROVE  LoopInv(r, Assign(s, n), n)
<1> DEFINE t == Assign(s, n)
           q == PopUnknown(s.queue)
           M == [load : Nat, src : Nat, next : Nat]
<1>1. /\ s \in RepLocals /\ s.pc = r.pc /\ s.selected = r.selected
      /\ s.loads \o InFile(s.queue) = InFile(s.selected)
      /\ HoldsLoads(s)
      /\ Len(r.loads) <= Len(s.loads) /\ \A l \in DOMAIN r.loads : s.loads[l] = r.loads[l]
      /\ \A l \in Len(r.loads) + 1..Len(s.loads) : \E e \in 1..n - 1 : s.map[e].load = l
      /\ \A e \in n - 1 + 1..NumEnvs : s.map[e] = r.map[e]
      /\ \A e \in 1..n - 1 : Taken(r, s, e) \/ LeftOut(r, s, e)
      /\ s.has <=> (\E e \in 1..n - 1 : Taken(r, s, e))
  BY DEF LoopInv
<1>2. /\ n \in Nat /\ NumEnvs \in Nat /\ n <= NumEnvs /\ n > 0
      /\ \A e \in 1..n : e = n \/ e \in 1..n - 1
      /\ \A e \in 1..n - 1 : e \in 1..n /\ e # n /\ e \in ReplayEnvs
      /\ \A e \in n + 1..NumEnvs : e \in n - 1 + 1..NumEnvs /\ e # n /\ e \in ReplayEnvs
      /\ n \in n - 1 + 1..NumEnvs
  BY ReplayAssumption DEF ReplayEnvs
<1>3. /\ s.queue \in Indices /\ s.loads \in Seq(DOMAIN file) /\ Len(s.loads) \in Nat
      /\ DOMAIN s.loads = 1..Len(s.loads)
      /\ Len(r.loads) \in Nat /\ DOMAIN r.loads = 1..Len(r.loads)
      /\ s.map \in [ReplayEnvs -> M] /\ s.row \in [ReplayEnvs -> [load : Nat, k : Nat]]
      /\ s.map[n] \in M /\ s.map[n] = r.map[n]
  BY ZenonT(40), <1>1, <1>2, LenProperties DEF RepLocals
<1>4. t \in RepLocals
  BY <1>1, AssignTyped
<1>5. GoesOn(s, n, t) \/ StaysIdle(s, n, t) \/ Begins(s, n, t)
  BY <1>1, AssignCases
<1>6. q \in Indices /\ InFile(q) = InFile(s.queue) /\ (q # <<>> => Head(q) \in DOMAIN file)
  BY <1>3, PopUnknownIs
<1> HIDE DEF t
\* The environments handled before.
<1>7. ASSUME NEW e \in ReplayEnvs, e # n, t.map[e] = s.map[e], t.row[e] = s.row[e]
      PROVE  Taken(r, t, e) <=> Taken(r, s, e)
  BY <1>7 DEF Taken
<1>8. CASE GoesOn(s, n, t)
  <2>1. /\ HasAction(s.map[n])
        /\ t.pc = s.pc /\ t.selected = s.selected /\ t.queue = s.queue /\ t.loads = s.loads
        /\ t.map = [s.map EXCEPT ![n] = [s.map[n] EXCEPT !.next = @ + 1]]
        /\ t.row = [s.row EXCEPT ![n] = [load |-> s.map[n].load, k |-> s.map[n].next + 1]]
        /\ t.has = TRUE
    BY <1>1, <1>8 DEF GoesOn, RepLocals
  <2>2. /\ t.map[n] = [s.map[n] EXCEPT !.next = @ + 1]
        /\ t.map[n].load = s.map[n].load /\ t.map[n].src = s.map[n].src
        /\ t.map[n].next = s.map[n].next + 1
        /\ t.row[n] = [load |-> s.map[n].load, k |-> s.map[n].next + 1]
    BY <1>3, <2>1
  <2>3. \A e \in ReplayEnvs : e # n => t.map[e] = s.map[e] /\ t.row[e] = s.row[e]
    BY <1>3, <2>1
  <2>4. /\ s.map[n].src # 0 /\ s.map[n].next < file[s.map[n].src] /\ s.map[n] # NoEpisode
        /\ t.map[n] # NoEpisode /\ r.map[n] # NoEpisode
    BY <1>3, <2>1, <2>2 DEF HasAction, NoEpisode
  <2>5. Taken(r, t, n)
    BY <1>3, <2>2, <2>4 DEF Taken
  <2>6. HoldsLoads(t)
    <3>1. /\ s.map[n].load \in DOMAIN s.loads /\ s.map[n].src = s.loads[s.map[n].load]
          /\ s.map[n].next \in 1..file[s.map[n].src] /\ s.map[n].src \in DOMAIN file
      <4>1. /\ s.map[n].load \in DOMAIN s.loads /\ s.map[n].src = s.loads[s.map[n].load]
            /\ s.map[n].next \in 1..file[s.map[n].src]
        BY <1>1, <2>4 DEF HoldsLoads
      <4>2. QED
        BY <1>3, <4>1, ElementOfSeq
    <3>2. s.map[n].next + 1 \in 1..file[s.map[n].src]
      BY <2>4, <3>1, FileLength
    <3>3. ASSUME NEW e \in ReplayEnvs
          PROVE  /\ \/ t.map[e] = NoEpisode
                    \/ /\ t.map[e].load \in DOMAIN t.loads
                       /\ t.map[e].src = t.loads[t.map[e].load]
                       /\ t.map[e].next \in 1..file[t.map[e].src]
                 /\ t.row[e].load <= Len(t.loads)
                 /\ t.map[e].load = s.map[e].load
      <4>1. CASE e = n
        <5>1. t.row[n].load = s.map[n].load /\ s.map[n].load <= Len(s.loads)
          BY <1>3, <2>2, <3>1
        <5>2. QED
          BY <2>1, <2>2, <3>1, <3>2, <4>1, <5>1
      <4>2. CASE e # n
        <5>1. t.map[e] = s.map[e] /\ t.row[e] = s.row[e] /\ t.loads = s.loads
          BY <2>1, <2>3, <4>2
        <5>2. QED
          BY <1>1, <5>1 DEF HoldsLoads
      <4>3. QED
        BY <4>1, <4>2
    <3>4. ASSUME NEW e \in ReplayEnvs, NEW f \in ReplayEnvs, t.map[e].load = t.map[f].load,
                 t.map[e] # NoEpisode
          PROVE  e = f
      <4>1. s.map[e] # NoEpisode
        BY <2>3, <2>4, <3>4
      <4>2. s.map[e].load = s.map[f].load
        BY <3>3, <3>4
      <4>3. QED
        BY <1>1, <4>1, <4>2 DEF HoldsLoads
    <3>5. QED
      BY <3>3, <3>4 DEF HoldsLoads
  <2>7. ASSUME NEW l \in Len(r.loads) + 1..Len(t.loads)
        PROVE  \E e \in 1..n : t.map[e].load = l
    <3>1. PICK e \in 1..n - 1 : s.map[e].load = l
      BY <1>1, <2>1
    <3>2. QED
      BY <1>2, <2>3, <3>1
  <2>8. \A e \in n + 1..NumEnvs : t.map[e] = r.map[e]
    BY <1>1, <1>2, <2>3
  <2>9. \A e \in 1..n : Taken(r, t, e) \/ LeftOut(r, t, e)
    BY <1>1, <1>2, <1>7, <2>1, <2>3, <2>5 DEF LeftOut
  <2>10. t.has <=> (\E e \in 1..n : Taken(r, t, e))
    BY <1>2, <2>1, <2>5
  <2>11. QED
    BY ZenonT(40), <1>1, <1>4, <2>1, <2>6, <2>7, <2>8, <2>9, <2>10 DEF LoopInv, t
<1>9. CASE StaysIdle(s, n, t)
  <2>1. /\ ~HasAction(s.map[n]) /\ q = <<>>
        /\ t.pc = s.pc /\ t.selected = s.selected /\ t.queue = <<>> /\ t.loads = s.loads
        /\ t.map = s.map /\ t.row = s.row /\ t.has = s.has
    BY <1>1, <1>9 DEF StaysIdle, RepLocals
  <2>2. InFile(t.queue) = InFile(s.queue) /\ InFile(t.queue) = <<>>
    BY <1>6, <2>1, NoneExisting DEF InFile
  <2>3. LeftOut(r, t, n) /\ ~Taken(r, t, n)
    BY <1>3, <2>1, <2>2, TakenChanges DEF LeftOut
  <2>4. HoldsLoads(t)
    BY <1>1, <2>1 DEF HoldsLoads
  <2>5. ASSUME NEW l \in Len(r.loads) + 1..Len(t.loads)
        PROVE  \E e \in 1..n : t.map[e].load = l
    <3>1. PICK e \in 1..n - 1 : s.map[e].load = l
      BY <1>1, <2>1
    <3>2. QED
      BY <1>2, <2>1, <3>1
  <2>6. \A e \in n + 1..NumEnvs : t.map[e] = r.map[e]
    BY <1>1, <1>2, <2>1
  <2>7. \A e \in 1..n : Taken(r, t, e) \/ LeftOut(r, t, e)
    BY <1>1, <1>2, <1>7, <2>1, <2>2, <2>3 DEF LeftOut
  <2>8. t.has <=> (\E e \in 1..n : Taken(r, t, e))
    BY <1>1, <1>2, <1>7, <2>1, <2>3
  <2>9. QED
    BY <1>1, <1>4, <2>1, <2>2, <2>4, <2>5, <2>6, <2>7, <2>8 DEF LoopInv, t
<1>10. CASE Begins(s, n, t)
  <2> DEFINE new == Len(s.loads) + 1
  <2>1. /\ ~HasAction(s.map[n]) /\ q # <<>>
        /\ t.pc = s.pc /\ t.selected = s.selected /\ t.queue = Tail(q)
        /\ t.loads = Append(s.loads, Head(q))
        /\ t.map = [s.map EXCEPT ![n] = [load |-> new, src |-> Head(q), next |-> 1]]
        /\ t.row = [s.row EXCEPT ![n] = [load |-> new, k |-> 1]]
        /\ t.has = TRUE
    BY <1>1, <1>10 DEF Begins, RepLocals
  <2> HIDE DEF q
  <2>2. /\ t.map[n] = [load |-> new, src |-> Head(q), next |-> 1]
        /\ t.map[n].load = new /\ t.map[n].src = Head(q) /\ t.map[n].next = 1
        /\ t.row[n] = [load |-> new, k |-> 1]
    BY <1>3, <2>1
  <2>3. \A e \in ReplayEnvs : e # n => t.map[e] = s.map[e] /\ t.row[e] = s.row[e]
    BY <1>3, <2>1
  <2>4. /\ Len(t.loads) = new /\ new \in Nat /\ DOMAIN t.loads = 1..new
        /\ \A l \in 1..Len(s.loads) : t.loads[l] = s.loads[l]
        /\ t.loads[new] = Head(q)
    BY <1>3, <1>6, <2>1, AppendProperties, LenProperties
  <2>5. Head(q) \in DOMAIN file /\ file[Head(q)] \in Nat \ {0} /\ Head(q) <= Len(file)
    BY <1>6, <2>1, FileLength
  <2>6. t.map[n] # NoEpisode
    BY <1>3, <2>2 DEF NoEpisode
  <2>7. Taken(r, t, n)
    BY SMTT(30), <1>1, <1>3, <2>1, <2>2, <2>6 DEF Taken
  <2>8. HoldsLoads(t)
    <3>1. ASSUME NEW e \in ReplayEnvs
          PROVE  s.map[e].load < new /\ s.row[e].load < new
      <4>1. s.row[e].load <= Len(s.loads) /\ s.row[e].load \in Nat
        BY <1>1, <1>3 DEF HoldsLoads
      <4>2. s.map[e] = NoEpisode \/ s.map[e].load \in 1..Len(s.loads)
        BY <1>1, <1>3 DEF HoldsLoads
      <4>3. NoEpisode.load = 0
        BY DEF NoEpisode
      <4>4. Len(s.loads) \in Nat
        BY <1>6, <2>4
      <4>5. s.map[e].load <= Len(s.loads)
        BY <4>2, <4>3, <4>4
      <4>6. s.map[e].load \in Nat
        BY <4>2, <4>3, <4>4
      <4>7. QED
        BY <4>1, <4>4, <4>5, <4>6
    <3>2. ASSUME NEW e \in ReplayEnvs
          PROVE  /\ \/ t.map[e] = NoEpisode
                    \/ /\ t.map[e].load \in DOMAIN t.loads
                       /\ t.map[e].src = t.loads[t.map[e].load]
                       /\ t.map[e].next \in 1..file[t.map[e].src]
                 /\ t.row[e].load <= Len(t.loads)
      <4>1. CASE e = n
        BY SMTT(30), <2>2, <2>4, <2>5, <4>1
      <4>2. CASE e # n
        <5>1. t.map[e] = s.map[e] /\ t.row[e] = s.row[e]
          BY <2>3, <4>2
        <5>2. t.row[e].load <= Len(t.loads)
          BY SMTT(30), <1>1, <1>3, <2>4, <5>1 DEF HoldsLoads
        <5>3. CASE s.map[e] # NoEpisode
          <6>1. /\ s.map[e].load \in 1..Len(s.loads) /\ s.map[e].src = s.loads[s.map[e].load]
                /\ s.map[e].next \in 1..file[s.map[e].src]
            BY <1>1, <1>3, <5>3 DEF HoldsLoads
          <6>2. s.map[e].load \in 1..new
            BY <1>3, <6>1
          <6>3. QED
            BY <2>4, <5>1, <5>2, <6>1, <6>2
        <5>4. QED
          BY <5>1, <5>2, <5>3
      <4>3. QED
        BY <4>1, <4>2
    <3>3. ASSUME NEW e \in ReplayEnvs, NEW f \in ReplayEnvs, t.map[e].load = t.map[f].load,
                 t.map[e] # NoEpisode
          PROVE  e = f
      <4>1. CASE e # n /\ f # n
        BY <1>1, <2>3, <3>3, <4>1 DEF HoldsLoads
      <4>2. CASE e = n /\ f # n
        BY SMTT(30), <1>3, <2>2, <2>3, <3>1, <3>3, <4>2
      <4>3. CASE e # n /\ f = n
        BY SMTT(30), <1>3, <2>2, <2>3, <3>1, <3>3, <4>3
      <4>4. QED
        BY <4>1, <4>2, <4>3
    <3>4. QED
      BY <3>2, <3>3 DEF HoldsLoads
  <2>9. t.loads \o InFile(t.queue) = InFile(t.selected)
    <3>1. t.loads \o InFile(t.queue) = s.loads \o InFile(q)
      <4>1. q # <<>> /\ q \in Indices /\ s.loads \in Seq(DOMAIN file)
        BY <1>3, <1>6, <2>1
      <4>2. Append(s.loads, Head(q)) \o InFile(Tail(q)) = s.loads \o InFile(q)
        BY <2>5, <4>1, BeginsNext
      <4>3. QED
        BY <2>1, <4>2
    <3>2. QED
      BY <1>1, <1>6, <2>1, <3>1
  <2>10. \A l \in Len(r.loads) + 1..Len(t.loads) : \E e \in 1..n : t.map[e].load = l
    <3> SUFFICES ASSUME NEW l \in Len(r.loads) + 1..Len(t.loads)
                 PROVE  \E e \in 1..n : t.map[e].load = l
      OBVIOUS
    <3>1. CASE l = new
      BY <1>2, <2>2, <3>1
    <3>2. CASE l # new
      <4>1. l \in Len(r.loads) + 1..Len(s.loads)
        BY <1>3, <2>4, <3>2
      <4>2. PICK e \in 1..n - 1 : s.map[e].load = l
        BY <1>1, <4>1
      <4>3. QED
        BY <1>2, <2>3, <4>2
    <3>3. QED
      BY <3>1, <3>2
  <2>11. \A e \in n + 1..NumEnvs : t.map[e] = r.map[e]
    BY <1>1, <1>2, <2>3
  <2>12. InFile(s.queue) # <<>>
    BY <1>3, <1>6, <2>1, <2>5, BeginsNext
  <2>13. \A e \in 1..n : Taken(r, t, e) \/ LeftOut(r, t, e)
    BY <1>1, <1>2, <1>7, <2>3, <2>7, <2>12 DEF LeftOut
  <2>14. t.has <=> (\E e \in 1..n : Taken(r, t, e))
    BY <1>2, <2>1, <2>7
  <2>15. Len(r.loads) <= Len(t.loads) /\ \A l \in DOMAIN r.loads : t.loads[l] = r.loads[l]
    <3>1. Len(r.loads) <= Len(t.loads)
      BY <1>1, <1>3, <2>4
    <3>2. \A l \in DOMAIN r.loads : l \in 1..Len(s.loads)
      BY <1>1, <1>3
    <3>3. QED
      BY <1>1, <2>4, <3>1, <3>2
  <2>16. QED
    BY <1>1, <1>4, <2>1, <2>8, <2>9, <2>10, <2>11, <2>13, <2>14, <2>15 DEF LoopInv, t
<1>11. QED
  BY <1>5, <1>8, <1>9, <1>10

LEMMA AssignAllIs ==
   ASSUME FileOK, NEW r \in RepLocals, r.pc # "raised", HoldsLoads(r), LoopInv(r, r, 0)
   PROVE  LoopInv(r, AssignAll(r), NumEnvs)
<1> DEFINE K == NumEnvs
           V == RepLocals
           step == [e \in 1..K |-> [s \in V |-> Assign(s, e)]]
           Def(f) == f = [e \in 0..K |-> IF e = 0 THEN r ELSE Assign(f[e - 1], e)]
           upTo == CHOOSE f : Def(f)
<1>1. K \in Nat /\ r \in V /\ \A e \in 1..K : e \in ReplayEnvs
  BY ReplayAssumption DEF ReplayEnvs
<1>2. \A e \in 1..K, s \in V : Assign(s, e) \in V
  BY <1>1, AssignTyped
<1>3. step \in Steps(V, K) /\ \A e \in 1..K, s \in V : step[e][s] = Assign(s, e)
  BY <1>2 DEF Steps
<1>4. AssignAll(r) = upTo[K]
  BY DEF AssignAll
<1> HIDE DEF step, V, upTo
<1>5. PICK g : Runs(g, V, r, K, step)
  BY <1>1, <1>3, LoopExists
<1>6. ASSUME NEW e \in 1..K
      PROVE  g[e] = Assign(g[e - 1], e)
  <2>1. e - 1 \in 0..K
    BY <1>1
  <2>2. g[e - 1] \in V /\ g[e] = step[e][g[e - 1]]
    BY <1>5, <2>1 DEF Runs
  <2>3. QED
    BY <1>3, <2>2
<1>7. Def(g)
  <2>1. g = [e \in 0..K |-> g[e]] /\ g[0] = r
    BY <1>5 DEF Runs
  <2>2. \A e \in 0..K : e = 0 \/ e \in 1..K
    BY <1>1
  <2>3. QED
    BY <1>6, <2>1, <2>2
<1>8. Def(upTo)
  BY <1>7 DEF upTo
<1>9. upTo[0] = r /\ \A e \in 1..K : upTo[e] = Assign(upTo[e - 1], e)
  <2>1. 0 \in 0..K /\ \A e \in 1..K : e \in 0..K /\ e # 0
    BY <1>1
  <2>2. QED
    BY <1>8, <2>1
<1> HIDE DEF Def
<1> DEFINE Bad == {e \in 0..K : ~LoopInv(r, upTo[e], e)}
<1>10. Bad = {}
  <2> SUFFICES ASSUME Bad # {}
               PROVE  FALSE
    OBVIOUS
  <2>1. PICK e \in Bad : \A m \in Bad : e <= m
    <3>1. Bad \subseteq Nat
      BY <1>1
    <3> HIDE DEF Bad
    <3>2. QED
      BY <3>1, LeastCounterexample
  <2>2. e # 0 /\ e \in 1..K /\ e - 1 \in 0..K
    BY <1>1, <1>9
  <2>3. LoopInv(r, upTo[e - 1], e - 1)
    BY <2>1, <2>2
  <2>4. LoopInv(r, Assign(upTo[e - 1], e), e)
    BY <1>1, <2>2, <2>3, OneIteration
  <2>5. QED
    BY <1>9, <2>2, <2>4
<1>11. K \in 0..K
  BY <1>1
<1>12. QED
  BY <1>4, <1>10, <1>11

LEMMA OpenReplay ==
   ASSUME RecordingInv, AnnotationInv, RepInit, StartReplay
   PROVE  ReplayInv'
<1>1. PICK selection \in Selections :
         \E episodes \in {dataset, [i \in DOMAIN annotated |-> annotated[i].actions]} :
            OpenFile(episodes, selection)
  BY DEF StartReplay
<1>2. PICK episodes \in {dataset, [i \in DOMAIN annotated |-> annotated[i].actions]} :
         OpenFile(episodes, selection)
  BY <1>1
<1>3. /\ dataset \in Seq(0..MaxSteps) /\ DOMAIN dataset = 1..Len(dataset) /\ Len(dataset) \in Nat
      /\ \A i \in 1..Len(dataset) : dataset[i] \in Nat \ {0}
  <2>1. dataset \in Seq(0..MaxSteps) /\ \A i \in DOMAIN dataset : dataset[i] > 0
    BY DEF RecordingInv, DatasetOK
  <2>2. QED
    BY <2>1, LenProperties, ElementOfSeq, DemoAssumption
<1>4. episodes \in Seq(Nat \ {0})
  <2>1. CASE episodes = dataset
    BY <1>3, <2>1
  <2>2. CASE episodes = [i \in DOMAIN annotated |-> annotated[i].actions]
    <3>1. DOMAIN annotated = 1..Len(annotated) /\ Len(annotated) \in Nat
      BY LenProperties DEF AnnotationInv, AnnTypeOK
    <3>2. ASSUME NEW i \in DOMAIN annotated
          PROVE  annotated[i].actions \in Nat \ {0}
      <4>1. /\ annotated[i].actions = dataset[annotated[i].src]
            /\ annotated[i].src \in 1..ann.ep /\ ann.ep <= Len(dataset) /\ ann.ep \in Nat
        BY DEF AnnotationInv, ExportedInv, AnnotationComplete, PlaceInv, AnnTypeOK
      <4>2. annotated[i].src \in 1..Len(dataset)
        BY <1>3, <4>1
      <4>3. QED
        BY <1>3, <4>1, <4>2
    <3>3. QED
      BY <2>2, <3>1, <3>2
  <2>3. QED
    BY <2>1, <2>2
<1> DEFINE all == [i \in DOMAIN episodes |-> i]
           selected == IF selection = <<>> THEN all ELSE selection
<1>5. /\ file' = episodes /\ UNCHANGED <<acting, stepped>>
      /\ rep' = [rep EXCEPT !.pc = IF episodes = <<>> THEN "done" ELSE "assign",
                            !.selected = selected, !.queue = selected]
  BY <1>2 DEF OpenFile
<1>6. selected \in Indices
  <2>1. DOMAIN episodes = 1..Len(episodes) /\ Len(episodes) \in Nat
    BY <1>4, LenProperties
  <2>2. all \in Seq(Nat \ {0})
    BY <2>1
  <2>3. QED
    BY <2>2, ReplayAssumption DEF Indices
<1>7. selected = all \/ (selection # <<>> /\ selected = selection)
  OBVIOUS
<1> HIDE DEF selected
<1>8. /\ rep'.pc = (IF episodes = <<>> THEN "done" ELSE "assign")
      /\ rep'.selected = selected /\ rep'.queue = selected /\ rep'.loads = <<>>
      /\ rep'.map = [e \in ReplayEnvs |-> NoEpisode] /\ rep'.row = [e \in ReplayEnvs |-> Idle]
      /\ rep'.has = FALSE /\ acting' = {} /\ stepped' = <<>>
  BY <1>5 DEF RepInit
<1>9. FileOK' /\ (DOMAIN file)' = DOMAIN episodes
  BY <1>4, <1>5 DEF FileOK
<1>10. LocalsOK'
  <2>1. <<>> \in Seq(DOMAIN episodes) /\ <<>> \in Seq(Seq(Nat))
    BY EmptySeq
  <2>2. NoEpisode \in [load : Nat, src : Nat, next : Nat] /\ Idle \in [load : Nat, k : Nat]
    BY DEF NoEpisode, Idle
  <2>3. rep' \in RepLocals'
    BY <1>5, <1>6, <1>8, <1>9, <2>1, <2>2 DEF RepInit, RepLocals
  <2>4. QED
    BY <1>8, <1>9, <2>1, <2>3 DEF LocalsOK
<1>11. HoldsLoads(rep)'
  BY <1>8, EmptySeq DEF HoldsLoads, NoEpisode, Idle
<1>12. StepsDone'
  <2>1. DOMAIN stepped' = {} /\ \A e \in ReplayEnvs : rep'.map[e] = NoEpisode
    BY <1>8
  <2>2. QED
    BY <2>1 DEF StepsDone
<1>13. /\ (rep.loads \o InFile(rep.queue) = InFile(rep.selected))'
       /\ episodes = <<>> => InFile(selected)' = <<>>
  <2>1. selected \in Seq(Nat)
    BY <1>6, SeqMonotonic DEF Indices
  <2>2. InFile(selected)' = Existing(selected, Len(episodes))
    BY <1>5 DEF InFile
  <2>3. Existing(selected, Len(episodes)) \in Seq(Nat)
    <3>1. PICK g : InLast(g, selected, Len(episodes))
                   /\ Existing(selected, Len(episodes)) = g[Len(selected)]
      BY <2>1, ExistingIs
    <3>2. Len(selected) \in 0..Len(selected)
      BY <2>1, LenProperties
    <3>3. QED
      BY <3>1, <3>2 DEF InLast
  <2>4. ASSUME episodes = <<>>
        PROVE  InFile(selected)' = <<>>
    <3>1. /\ Len(file)' = 0 /\ Len(selected) \in Nat
          /\ \A i \in 1..Len(selected) : selected[i] \in Nat \ {0}
      BY <1>5, <1>6, <2>4, LenProperties, ElementOfSeq DEF Indices
    <3>2. Existing(SubSeq(selected, Len(selected) + 1, Len(selected)), 0) = Existing(selected, 0)
      <4>1. Len(selected) + 1 \in 1..Len(selected) + 1 /\ Len(selected) + 1 - 1 = Len(selected)
            /\ \A i \in 1..Len(selected) : ~ (selected[i] <= 0)
        BY <3>1
      <4>2. QED
        BY <2>1, <4>1, SkipUnknown
    <3>3. SubSeq(selected, Len(selected) + 1, Len(selected)) = <<>>
      BY <3>1, SubSeqEmpty
    <3>4. QED
      BY <1>5, <2>4, <2>2, <3>2, <3>3, NoneExisting, EmptySeq
  <2>5. QED
    BY <1>8, <2>2, <2>3, <2>4, ConcatEmptySeq DEF InFile
<1>14. RowsTaken'
  BY <1>8, <1>13 DEF RowsTaken, HasAction, NoEpisode, InFile
<1>15. QED
  BY <1>10, <1>11, <1>12, <1>13, <1>14 DEF ReplayInv

\* An iteration of the loop over the environments.
LEMMA AssignKeeps ==
   ASSUME ReplayInv, AssignActions
   PROVE  ReplayInv'
<1> DEFINE r == StartIteration(rep)
           old == Len(rep.loads)
           now == Len(rep'.loads)
<1>1. /\ LocalsOK /\ HoldsLoads(rep) /\ StepsDone /\ RowsTaken /\ FileOK /\ rep \in RepLocals
      /\ rep.loads \o InFile(rep.queue) = InFile(rep.selected)
      /\ rep.pc = "assign"
  BY DEF ReplayInv, LocalsOK, AssignActions
<1>2. /\ r \in RepLocals /\ r.pc = "wait" /\ r.selected = rep.selected /\ r.queue = rep.queue
      /\ r.loads = rep.loads /\ r.map = rep.map /\ r.row = rep.row /\ r.has = FALSE
  BY <1>1 DEF RepLocals, StartIteration
<1>3. HoldsLoads(r)
  BY <1>1, <1>2 DEF HoldsLoads
<1>4. /\ file' = file /\ rep' = AssignAll(r)
      /\ acting' = {e \in ReplayEnvs : rep'.map[e] # r.map[e]}
      /\ stepped' = stepped \o [l \in 1..now - Len(stepped) |-> <<>>]
  BY <1>2 DEF AssignActions
<1> HIDE DEF r
<1>5. LoopInv(r, rep', NumEnvs)
  <2>1. Len(r.loads) \in Nat
    BY <1>2, LenProperties DEF RepLocals
  <2>2. LoopInv(r, r, 0)
    <3>1. r.loads \o InFile(r.queue) = InFile(r.selected)
      BY <1>1, <1>2
    <3>2. 1..0 = {} /\ Len(r.loads) + 1..Len(r.loads) = {}
      BY <2>1
    <3>3. Len(r.loads) <= Len(r.loads)
      BY <2>1
    <3>4. QED
      BY <1>2, <1>3, <3>1, <3>2, <3>3 DEF LoopInv
  <2>3. QED
    BY <1>1, <1>2, <1>3, <1>4, <2>2, AssignAllIs
<1>6. /\ rep' \in RepLocals /\ rep'.pc = "wait" /\ rep'.selected = rep.selected
      /\ rep'.loads \o InFile(rep'.queue) = InFile(rep'.selected)
      /\ HoldsLoads(rep')
      /\ old <= now /\ \A l \in DOMAIN rep.loads : rep'.loads[l] = rep.loads[l]
      /\ \A l \in old + 1..now : \E e \in ReplayEnvs : rep'.map[e].load = l
      /\ \A e \in ReplayEnvs : Taken(r, rep', e) \/ LeftOut(r, rep', e)
      /\ rep'.has <=> (\E e \in ReplayEnvs : Taken(r, rep', e))
  BY <1>2, <1>5 DEF LoopInv, ReplayEnvs
<1>7. \A e \in ReplayEnvs : Taken(r, rep', e) => rep'.map[e] # r.map[e]
  BY <1>2, <1>3, TakenChanges
<1>8. acting' = {e \in ReplayEnvs : Taken(r, rep', e)}
  BY <1>4, <1>6, <1>7 DEF LeftOut
<1>9. /\ old \in Nat /\ now \in Nat /\ DOMAIN rep.loads = 1..old /\ DOMAIN rep'.loads = 1..now
      /\ Len(stepped) = old /\ DOMAIN stepped = 1..old /\ stepped \in Seq(Seq(Nat))
  BY <1>1, <1>6, LenProperties DEF LocalsOK, RepLocals
<1>10. /\ stepped' \in Seq(Seq(Nat)) /\ Len(stepped') = now /\ DOMAIN stepped' = 1..now
       /\ \A l \in 1..old : stepped'[l] = stepped[l]
       /\ \A l \in old + 1..now : stepped'[l] = <<>>
  <2> DEFINE new == [l \in 1..now - old |-> <<>>]
  <2>1. <<>> \in Seq(Nat) /\ now - old \in Nat
    BY <1>6, <1>9, EmptySeq
  <2>2. new \in Seq(Seq(Nat)) /\ Len(new) = now - old /\ \A l \in 1..now - old : new[l] = <<>>
    BY <2>1
  <2>3. stepped' = stepped \o new
    BY <1>4, <1>9
  <2> HIDE DEF new
  <2>4. /\ stepped \o new \in Seq(Seq(Nat)) /\ Len(stepped \o new) = Len(stepped) + Len(new)
        /\ \A l \in 1..Len(stepped) + Len(new) : (stepped \o new)[l] =
              IF l <= Len(stepped) THEN stepped[l] ELSE new[l - Len(stepped)]
    <3> DEFINE T == Seq(Nat)
    <3>1. stepped \in Seq(T) /\ new \in Seq(T)
      BY <1>9, <2>2
    <3> HIDE DEF T
    <3>2. /\ stepped \o new \in Seq(T) /\ Len(stepped \o new) = Len(stepped) + Len(new)
          /\ \A l \in 1..Len(stepped) + Len(new) : (stepped \o new)[l] =
                IF l <= Len(stepped) THEN stepped[l] ELSE new[l - Len(stepped)]
      BY <3>1, ConcatProperties
    <3>3. QED
      BY <3>2 DEF T
  <2>5. /\ old + (now - old) = now /\ \A l \in old + 1..now : l - old \in 1..now - old
        /\ \A l \in old + 1..now : l \in 1..now /\ ~(l <= old)
        /\ \A l \in 1..old : l \in 1..now /\ l <= old
    BY <1>6, <1>9
  <2>6. /\ stepped' \in Seq(Seq(Nat)) /\ Len(stepped') = now
        /\ \A l \in 1..now : stepped'[l] = IF l <= old THEN stepped[l] ELSE new[l - old]
    BY <1>9, <2>2, <2>3, <2>4, <2>5
  <2>7. DOMAIN stepped' = 1..now
    BY <2>6, LenProperties
  <2>8. QED
    BY <2>2, <2>5, <2>6, <2>7
<1>11. LocalsOK'
  <2>1. FileOK' /\ RepLocals' = RepLocals
    BY <1>1, <1>4 DEF FileOK, RepLocals
  <2>2. acting' \in SUBSET ReplayEnvs
    BY <1>8
  <2>3. QED
    BY <1>6, <1>10, <2>1, <2>2 DEF LocalsOK
<1>12. HoldsLoads(rep)'
  BY <1>4, <1>6 DEF HoldsLoads
<1>13. ASSUME NEW e \in ReplayEnvs, rep.map[e] # NoEpisode
       PROVE  /\ rep.map[e].load \in 1..old /\ rep.map[e].next \in Nat
              /\ rep.map[e].src = rep.loads[rep.map[e].load]
              /\ Len(stepped[rep.map[e].load]) = rep.map[e].next
              /\ ~HasAction(rep.map[e]) => rep.map[e].next = file[rep.map[e].src]
  <2>1. /\ rep.map[e].load \in 1..old /\ rep.map[e].src = rep.loads[rep.map[e].load]
        /\ rep.map[e].next \in 1..file[rep.map[e].src] /\ rep.map[e].next \in Nat
    BY <1>1, <1>9, <1>13 DEF HoldsLoads
  <2>2. Len(stepped[rep.map[e].load]) = rep.map[e].next - 0
    BY <1>1, <1>13 DEF StepsDone
  <2>3. rep.map[e].src \in DOMAIN file
    BY SMTT(30), <1>1, <1>9, <2>1, ElementOfSeq DEF RepLocals
  <2>4. rep.map[e].src # 0 /\ file[rep.map[e].src] \in Nat
    BY <1>1, <2>3, FileLength
  <2>5. QED
    BY <2>1, <2>2, <2>4 DEF HasAction
<1>14. StepsDone'
  <2>1. \A l \in DOMAIN stepped' : stepped'[l] = [k \in 1..Len(stepped'[l]) |-> k]
    <3> SUFFICES ASSUME NEW l \in 1..now
                 PROVE  stepped'[l] = [k \in 1..Len(stepped'[l]) |-> k]
      BY <1>10
    <3>1. CASE l \in 1..old
      BY <1>1, <1>9, <1>10, <3>1 DEF StepsDone
    <3>2. CASE l \in old + 1..now
      <4>1. stepped'[l] = <<>> /\ Len(<<>>) = 0 /\ 1..0 = {}
        BY <1>10, <3>2
      <4>2. QED
        BY <4>1
    <3>3. QED
      BY <1>9, <3>1, <3>2
  <2>2. ASSUME NEW l \in 1..now, \A e \in ReplayEnvs : rep'.map[e].load # l
        PROVE  Len(stepped'[l]) = file[rep'.loads[l]]
    <3>1. l \in 1..old
      BY SMTT(30), <1>6, <1>9, <2>2
    <3>2. stepped'[l] = stepped[l] /\ rep'.loads[l] = rep.loads[l]
      BY <1>6, <1>9, <1>10, <3>1
    <3>3. CASE Over(l)
      BY <1>1, <1>9, <3>1, <3>2, <3>3 DEF StepsDone
    <3>4. CASE ~Over(l)
      <4>1. PICK e \in ReplayEnvs : rep.map[e].load = l
        BY <3>4 DEF Over
      <4>2. rep.map[e] # NoEpisode
        BY <3>1, <4>1 DEF NoEpisode
      <4>3. rep'.map[e].load # rep.map[e].load
        BY <2>2, <4>1
      <4>4. Taken(r, rep', e)
        BY <1>2, <1>6, <4>3 DEF LeftOut
      <4>5. [rep.map[e] EXCEPT !.next = @ + 1].load = rep.map[e].load
        BY <1>1 DEF RepLocals
      <4>6. ~HasAction(rep.map[e])
        BY <1>2, <4>3, <4>4, <4>5 DEF Taken
      <4>7. QED
        BY <1>13, <3>2, <4>1, <4>2, <4>6
    <3>5. QED
      BY <3>3, <3>4
  <2>3. ASSUME NEW e \in ReplayEnvs, rep'.map[e] # NoEpisode
        PROVE  Len(stepped'[rep'.map[e].load])
                  = rep'.map[e].next - (IF e \in acting' THEN 1 ELSE 0)
    <3>1. CASE LeftOut(r, rep', e)
      <4>1. rep'.map[e] = rep.map[e] /\ e \notin acting'
        BY <1>2, <1>4, <3>1 DEF LeftOut
      <4>2. /\ Len(stepped[rep.map[e].load]) = rep.map[e].next /\ rep.map[e].next \in Nat
            /\ rep.map[e].load \in 1..old
        BY <1>13, <2>3, <4>1
      <4>3. QED
        BY SMTT(30), <1>10, <4>1, <4>2
    <3>2. CASE Taken(r, rep', e) /\ rep.map[e] # NoEpisode
                 /\ rep'.map[e] = [rep.map[e] EXCEPT !.next = @ + 1]
      <4>1. rep'.map[e].load = rep.map[e].load /\ rep'.map[e].next = rep.map[e].next + 1
        BY <1>1, <3>2 DEF RepLocals
      <4>2. /\ Len(stepped[rep.map[e].load]) = rep.map[e].next /\ rep.map[e].next \in Nat
            /\ rep.map[e].load \in 1..old
        BY <1>13, <3>2
      <4>3. e \in acting'
        BY <1>8, <3>2
      <4>4. QED
        BY SMTT(30), <1>10, <4>1, <4>2, <4>3
    <3>3. CASE Taken(r, rep', e) /\ rep'.map[e].load > old /\ rep'.map[e].next = 1
      <4>1. e \in acting'
        BY <1>8, <3>3
      <4>2. rep'.map[e].load \in 1..now
        BY <1>6, <1>9, <2>3 DEF HoldsLoads
      <4>3. rep'.map[e].load \in old + 1..now
        BY <1>9, <3>3, <4>2
      <4>4. Len(stepped'[rep'.map[e].load]) = 0
        BY <1>10, <4>3, EmptySeq
      <4>5. QED
        BY <3>3, <4>1, <4>4
    <3>4. QED
      BY <1>2, <1>6, <3>1, <3>2, <3>3 DEF Taken
  <2>4. QED
    BY <1>4, <1>6, <1>10, <2>1, <2>2, <2>3 DEF StepsDone, Over
<1>15. RowsTaken'
  <2>1. \A e \in acting' : /\ rep'.map[e] # NoEpisode
                           /\ rep'.row[e] = [load |-> rep'.map[e].load, k |-> rep'.map[e].next]
    BY <1>8 DEF Taken
  <2>2. rep'.has = (acting' # {})
    <3>1. rep'.has \in BOOLEAN
      BY <1>6 DEF RepLocals
    <3>2. (acting' # {}) <=> (\E e \in ReplayEnvs : Taken(r, rep', e))
      BY <1>8
    <3>3. QED
      BY <1>6, <3>1, <3>2
  <2>3. ASSUME acting' = {}
        PROVE  /\ Existing(rep'.queue, Len(file)) = <<>>
               /\ \A e \in ReplayEnvs : ~HasAction(rep'.map[e])
    <3>1. \A e \in ReplayEnvs : LeftOut(r, rep', e)
      BY <1>6, <1>8, <2>3
    <3>2. 1 \in ReplayEnvs
      BY ReplayAssumption DEF ReplayEnvs
    <3>3. QED
      BY <3>1, <3>2 DEF LeftOut, InFile
  <2>4. HasAction(rep.map[1])' <=> HasAction(rep'.map[1])
    BY <1>4 DEF HasAction
  <2>5. QED
    BY <1>4, <1>6, <2>1, <2>2, <2>3 DEF RowsTaken, HasAction
<1>16. QED
  BY <1>4, <1>6, <1>11, <1>12, <1>14, <1>15 DEF ReplayInv, InFile

\* The step of an iteration: every environment that acts steps with the action it
\* was given, the next of its load.
LEMMA StepKeeps ==
   ASSUME ReplayInv, Step
   PROVE  ReplayInv'
<1> DEFINE Acts(l) == \E e \in acting : rep.row[e].load = l
           k(l) == rep.row[CHOOSE e \in acting : rep.row[e].load = l].k
<1>1. /\ LocalsOK /\ HoldsLoads(rep) /\ StepsDone /\ RowsTaken /\ FileOK /\ rep \in RepLocals
      /\ rep.loads \o InFile(rep.queue) = InFile(rep.selected)
      /\ rep.pc = "wait" /\ acting \subseteq ReplayEnvs
  BY DEF ReplayInv, LocalsOK, Step
<1>2. /\ stepped' = [l \in DOMAIN stepped |-> IF Acts(l) THEN Append(stepped[l], k(l))
                                              ELSE stepped[l]]
      /\ rep' = [rep EXCEPT !.first = FALSE, !.pc = IF rep.has THEN "assign" ELSE "done"]
      /\ file' = file /\ acting' = acting
  BY DEF Step
<1>3. /\ rep'.pc = (IF rep.has THEN "assign" ELSE "done") /\ rep'.selected = rep.selected
      /\ rep'.queue = rep.queue /\ rep'.loads = rep.loads /\ rep'.map = rep.map
      /\ rep'.row = rep.row /\ rep' \in RepLocals
  BY <1>1, <1>2 DEF RepLocals
<1>4. /\ stepped \in Seq(Seq(Nat)) /\ Len(stepped) \in Nat /\ DOMAIN stepped = 1..Len(stepped)
      /\ Len(stepped) = Len(rep.loads) /\ DOMAIN rep.loads = 1..Len(stepped)
  BY <1>1, LenProperties DEF LocalsOK, RepLocals
<1>5. ASSUME NEW e \in acting
      PROVE  /\ rep.map[e] # NoEpisode /\ rep.row[e].load = rep.map[e].load
             /\ rep.row[e].k = rep.map[e].next
  <2>1. /\ rep.map[e] # NoEpisode
        /\ rep.row[e] = [load |-> rep.map[e].load, k |-> rep.map[e].next]
    BY <1>1 DEF RowsTaken
  <2>2. QED
    BY <2>1
<1>6. ASSUME NEW e \in ReplayEnvs, rep.map[e] # NoEpisode
      PROVE  /\ rep.map[e].load \in DOMAIN stepped /\ rep.map[e].next \in Nat
             /\ Len(stepped[rep.map[e].load]) = rep.map[e].next - (IF e \in acting THEN 1 ELSE 0)
             /\ Acts(rep.map[e].load) <=> e \in acting
  <2>1. rep.map[e].load \in DOMAIN stepped /\ rep.map[e].next \in Nat
    BY <1>1, <1>4, <1>6 DEF HoldsLoads, RepLocals
  <2>2. Len(stepped[rep.map[e].load]) = rep.map[e].next - (IF e \in acting THEN 1 ELSE 0)
    BY <1>1, <1>6 DEF StepsDone
  <2>3. ASSUME NEW f \in acting, rep.row[f].load = rep.map[e].load
        PROVE  f = e
    BY <1>1, <1>5, <1>6, <2>3 DEF HoldsLoads
  <2>4. QED
    BY <1>5, <2>1, <2>2, <2>3
<1>7. ASSUME NEW e \in acting
      PROVE  k(rep.map[e].load) = rep.map[e].next
  <2> DEFINE f == CHOOSE f \in acting : rep.row[f].load = rep.map[e].load
  <2>1. f \in acting /\ rep.row[f].load = rep.map[e].load
    BY <1>5
  <2> HIDE DEF f
  <2>2. f = e
    BY <1>1, <1>5, <2>1 DEF HoldsLoads
  <2>3. rep.row[f].k = rep.map[e].next
    BY <1>5, <2>2
  <2>4. QED
    BY <2>3 DEF f
<1>8. ASSUME NEW l \in DOMAIN stepped, ~Acts(l)
      PROVE  stepped'[l] = stepped[l]
  BY <1>2, <1>8
<1>9. ASSUME NEW e \in acting
      PROVE  LET l == rep.map[e].load IN
             /\ stepped'[l] \in Seq(Nat) /\ Len(stepped'[l]) = rep.map[e].next
             /\ stepped'[l] = [i \in 1..Len(stepped'[l]) |-> i]
  <2> DEFINE l == rep.map[e].load
             n == rep.map[e].next
  <2>1. /\ l \in DOMAIN stepped /\ n \in Nat /\ Len(stepped[l]) = n - 1 /\ Acts(l)
        /\ stepped[l] \in Seq(Nat) /\ Len(stepped[l]) \in Nat
    <3>1. e \in ReplayEnvs /\ rep.map[e] # NoEpisode
      BY <1>1, <1>5
    <3>2. l \in DOMAIN stepped /\ n \in Nat /\ Len(stepped[l]) = n - 1 /\ Acts(l)
      BY <1>6, <3>1
    <3>3. stepped[l] \in Seq(Nat)
      BY SMTT(30), <1>4, <3>2, ElementOfSeq
    <3>4. QED
      BY <3>2, <3>3, LenProperties
  <2>2. stepped'[l] = Append(stepped[l], n)
    BY <1>2, <1>7, <2>1
  <2>3. \A i \in 1..n - 1 : stepped[l][i] = i
    BY <1>1, <2>1 DEF StepsDone
  <2> HIDE DEF l, n
  <2>4. /\ stepped'[l] \in Seq(Nat) /\ Len(stepped'[l]) = n
        /\ \A i \in 1..n : stepped'[l][i] = i
    <3>1. /\ Append(stepped[l], n) \in Seq(Nat) /\ Len(Append(stepped[l], n)) = n - 1 + 1
          /\ \A i \in 1..n - 1 : Append(stepped[l], n)[i] = stepped[l][i]
          /\ Append(stepped[l], n)[n - 1 + 1] = n
      BY <2>1, AppendProperties
    <3>2. n - 1 + 1 = n /\ \A i \in 1..n : i = n \/ i \in 1..n - 1
      BY <2>1
    <3>3. QED
      BY <2>2, <2>3, <3>1, <3>2
  <2>5. stepped'[l] = [i \in 1..Len(stepped'[l]) |-> stepped'[l][i]]
    BY <2>4, LenProperties
  <2>6. QED
    BY <2>4, <2>5 DEF l, n
<1>10. ASSUME NEW l \in DOMAIN stepped, Acts(l)
       PROVE  \E e \in acting : rep.map[e].load = l
  BY <1>5, <1>10
<1>11. ASSUME NEW l \in DOMAIN stepped
       PROVE  stepped'[l] \in Seq(Nat) /\ stepped'[l] = [i \in 1..Len(stepped'[l]) |-> i]
  <2>1. CASE Acts(l)
    BY <1>9, <1>10, <2>1
  <2>2. CASE ~Acts(l)
    BY ZenonT(40), <1>1, <1>4, <1>8, <2>2, ElementOfSeq DEF StepsDone
  <2>3. QED
    BY <2>1, <2>2
<1> HIDE DEF Acts, k
<1>12. DOMAIN stepped' = DOMAIN stepped /\ stepped' \in Seq(Seq(Nat))
       /\ Len(stepped') = Len(stepped)
  <2> DEFINE T == Seq(Nat)
  <2>1. DOMAIN stepped' = DOMAIN stepped
    BY <1>2
  <2>2. stepped' = [l \in 1..Len(stepped) |-> stepped'[l]]
    BY <1>2, <1>4
  <2>3. \A l \in 1..Len(stepped) : stepped'[l] \in T
    BY <1>4, <1>11
  <2> HIDE DEF T
  <2>4. stepped' \in Seq(T)
    <3>1. stepped' \in [1..Len(stepped) -> T]
      BY <2>2, <2>3
    <3>2. QED
      BY <1>4, <3>1
  <2>5. Len(stepped') = Len(stepped)
    BY <1>4, <2>2
  <2>6. QED
    BY <2>1, <2>4, <2>5 DEF T
<1>13. LocalsOK'
  <2>1. FileOK' /\ RepLocals' = RepLocals
    BY <1>1, <1>2 DEF FileOK, RepLocals
  <2>2. QED
    BY <1>1, <1>2, <1>3, <1>4, <1>12, <2>1 DEF LocalsOK
<1>14. HoldsLoads(rep)'
  BY <1>1, <1>2, <1>3 DEF HoldsLoads
<1>15. StepsDone'
  <2>1. ASSUME NEW l \in DOMAIN stepped, Over(l)
        PROVE  Len(stepped'[l]) = file[rep.loads[l]]
    <3>1. ~Acts(l)
      BY <1>1, <1>10, <2>1 DEF Over
    <3>2. QED
      BY <1>1, <1>8, <2>1, <3>1 DEF StepsDone
  <2>2. ASSUME NEW e \in ReplayEnvs, rep.map[e] # NoEpisode
        PROVE  Len(stepped'[rep.map[e].load]) = rep.map[e].next
    <3>1. CASE e \in acting
      BY <1>9, <3>1
    <3>2. CASE e \notin acting
      <4>1. /\ rep.map[e].load \in DOMAIN stepped /\ rep.map[e].next \in Nat
            /\ Len(stepped[rep.map[e].load]) = rep.map[e].next - 0
            /\ ~Acts(rep.map[e].load)
        BY <1>6, <2>2, <3>2
      <4>2. QED
        BY <1>8, <4>1
    <3>3. QED
      BY <3>1, <3>2
  <2>3. \A e \in ReplayEnvs : rep.map[e].next \in Nat
    BY <1>1 DEF RepLocals
  <2>4. QED
    BY SMTT(30), <1>2, <1>3, <1>11, <1>12, <2>1, <2>2, <2>3 DEF StepsDone, Over
<1>16. RowsTaken'
  <2>1. rep'.pc # "wait" /\ (rep'.pc = "done" => acting = {})
    BY <1>1, <1>3 DEF RowsTaken
  <2>2. QED
    BY <1>1, <1>2, <1>3, <2>1 DEF RowsTaken, HasAction
<1>17. QED
  BY <1>1, <1>2, <1>3, <1>13, <1>14, <1>15, <1>16 DEF ReplayInv, InFile

LEMMA NextReplay ==
   ASSUME ReplayInv, RepNext
   PROVE  ReplayInv'
<1>1. /\ LocalsOK /\ HoldsLoads(rep) /\ StepsDone /\ RowsTaken /\ FileOK /\ rep \in RepLocals
      /\ rep.loads \o InFile(rep.queue) = InFile(rep.selected)
  BY DEF ReplayInv, LocalsOK
<1>2. ASSUME file' = file, acting' = acting, stepped' = stepped, rep' \in RepLocals,
             rep'.pc = rep.pc \/ rep'.pc = "interrupted",
             rep'.selected = rep.selected, rep'.queue = rep.queue, rep'.loads = rep.loads,
             rep'.map = rep.map, rep'.row = rep.row, rep'.has = rep.has
      PROVE  ReplayInv'
  <2>1. FileOK' /\ RepLocals' = RepLocals
    BY <1>1, <1>2 DEF FileOK, RepLocals
  <2>2. LocalsOK'
    BY <1>1, <1>2, <2>1 DEF LocalsOK
  <2>3. HoldsLoads(rep)'
    BY <1>1, <1>2 DEF HoldsLoads
  <2>4. StepsDone'
    BY <1>1, <1>2 DEF StepsDone, Over
  <2>5. RowsTaken'
    BY <1>1, <1>2 DEF RowsTaken, HasAction
  <2>6. QED
    BY <1>1, <1>2, <2>2, <2>3, <2>4, <2>5 DEF ReplayInv, InFile
<1>3. CASE RepKey
  <2>1. PICK paused \in BOOLEAN : rep' = [rep EXCEPT !.paused = paused]
    BY <1>3 DEF RepKey
  <2>2. QED
    BY <1>1, <1>2, <1>3, <2>1 DEF RepKey, RepLocals
<1>4. CASE InterruptReplay
  <2>1. rep' = [rep EXCEPT !.pc = "interrupted"]
    BY <1>4 DEF InterruptReplay
  <2>2. QED
    BY <1>1, <1>2, <1>4, <2>1 DEF InterruptReplay, RepLocals
<1>5. QED
  BY <1>3, <1>4, AssignKeeps, StepKeeps DEF RepNext
-----------------------------------------------------------------------------
(* The scripts one after the other *)

\* Only the script that runs has locals, and each works on a file whose episodes
\* all have actions.
PipelineInv ==
   \/ stage = "record" /\ RecordingInv /\ AnnInit /\ RepInit
   \/ stage = "annotate" /\ RecordingInv /\ AnnotationInv /\ RepInit
   \/ stage = "replay" /\ RecordingInv /\ dataset = <<>> /\ AnnInit /\ ReplayInv

LEMMA InitPipeline == Init => PipelineInv
  BY InitRecording DEF Init, PipelineInv

\* A script that has not started, or has ended, stays as it is.
LEMMA OthersKept ==
   /\ RecordingInv /\ UNCHANGED <<dataset, recVars>> => RecordingInv'
   /\ AnnInit /\ UNCHANGED annVars => AnnInit'
   /\ RepInit /\ UNCHANGED repVars => RepInit'
   /\ ReplayInv /\ UNCHANGED repVars => ReplayInv'
<1>1. RecordingInv /\ UNCHANGED <<dataset, recVars>> => RecordingInv'
  BY DEF RecordingInv, RecTypeOK, DatasetOK, recVars
<1>2. AnnInit /\ UNCHANGED annVars => AnnInit'
  BY DEF AnnInit, annVars
<1>3. RepInit /\ UNCHANGED repVars => RepInit'
  BY DEF RepInit, repVars
<1>4. ReplayInv /\ UNCHANGED repVars => ReplayInv'
  <2> SUFFICES ASSUME ReplayInv, file' = file, rep' = rep, acting' = acting, stepped' = stepped
               PROVE  ReplayInv'
    BY DEF repVars
  <2>1. LocalsOK' /\ HoldsLoads(rep)'
    BY DEF ReplayInv, LocalsOK, FileOK, RepLocals, HoldsLoads
  <2>2. StepsDone' /\ RowsTaken'
    BY DEF ReplayInv, StepsDone, Over, RowsTaken, HasAction
  <2>3. QED
    BY <2>1, <2>2 DEF ReplayInv, InFile
<1>5. QED
  BY <1>1, <1>2, <1>3, <1>4

\* Of the recording script nothing is left when the next one starts.
LEMMA RecordingOver ==
   ASSUME dataset' = dataset \/ dataset' = <<>>, RecordingInv,
          \/ rec' = RecordingOff /\ world' = Fresh /\ last' = Fresh
          \/ UNCHANGED recVars
   PROVE  RecordingInv'
<1>1. DatasetOK' /\ \A i \in DOMAIN dataset' : dataset'[i] > 0
  <2>1. CASE dataset' = dataset
    BY <2>1 DEF RecordingInv, DatasetOK
  <2>2. CASE dataset' = <<>>
    <3>1. <<>> \in Seq(0..MaxSteps) /\ Len(<<>>) = 0 /\ Len(<<>>) <= NumDemos
      BY DemoAssumption, EmptySeq
    <3>2. DOMAIN dataset' = {}
      BY <2>2
    <3>3. QED
      BY <2>2, <3>1, <3>2 DEF DatasetOK
  <2>3. QED
    BY <2>1, <2>2
<1>2. CASE rec' = RecordingOff /\ world' = Fresh /\ last' = Fresh
  <2>1. RecordingOff \in [pc : {"loop", "stepped", "resetting", "done", "interrupted"},
                          term : BOOLEAN, running : BOOLEAN, reset : BOOLEAN, asked : BOOLEAN,
                          count : 0..NumSuccessSteps, shown : 0..NumDemos]
        /\ Fresh \in Attempt /\ Fresh.late = 0 /\ RecordingOff.pc = "done"
    BY DemoAssumption DEF RecordingOff, Fresh, Attempt
  <2>2. QED
    BY <1>1, <1>2, <2>1 DEF RecordingInv, RecTypeOK
<1>3. CASE UNCHANGED recVars
  <2>1. Len(dataset') = Len(dataset) \/ Len(dataset') < NumDemos
    BY DemoAssumption
  <2>2. QED
    BY <1>1, <1>3, <2>1 DEF RecordingInv, RecTypeOK, recVars
<1>4. QED
  BY <1>2, <1>3

LEMMA NextPipeline == PipelineInv /\ [Next]_vars => PipelineInv'
<1> SUFFICES ASSUME PipelineInv, [Next]_vars
             PROVE  PipelineInv'
  OBVIOUS
<1>1. CASE UNCHANGED vars
  <2>1. UNCHANGED <<stage, dataset, recVars, annVars, repVars>>
    BY <1>1 DEF vars
  <2>2. AnnotationInv => AnnotationInv'
    BY <2>1 DEF annVars, AnnotationInv, AnnTypeOK, PlaceInv, MarksInv, ExportedInv,
                AnnotationComplete, Length
  <2>3. QED
    BY <2>1, <2>2, OthersKept DEF PipelineInv
<1>2. CASE Record
  <2>1. RecordingInv /\ AnnInit /\ RepInit /\ stage' = "record" /\ UNCHANGED <<annVars, repVars>>
    BY <1>2 DEF PipelineInv, Record
  <2>2. RecordingInv' /\ AnnInit' /\ RepInit'
    BY <1>2, <2>1, NextRecording, OthersKept DEF Record
  <2>3. QED
    BY <2>1, <2>2 DEF PipelineInv
<1>3. CASE StartAnnotation
  <2>1. RecordingInv /\ AnnInit /\ RepInit /\ stage = "record" /\ stage' = "annotate"
    BY <1>3 DEF PipelineInv, StartAnnotation
  <2>2. RecordingInv'
    BY <1>3, <2>1, RecordingOver DEF StartAnnotation
  <2>3. AnnotationInv'
    BY <1>3, <2>1, StartOpens
  <2>4. RepInit'
    BY <1>3, <2>1, OthersKept DEF StartAnnotation
  <2>5. QED
    BY <2>1, <2>2, <2>3, <2>4 DEF PipelineInv
<1>4. CASE Annotate
  <2>1. RecordingInv /\ AnnotationInv /\ RepInit /\ stage' = "annotate"
        /\ UNCHANGED <<recVars, repVars>>
    BY <1>4 DEF PipelineInv, Annotate
  <2>2. UNCHANGED dataset
    BY <1>4 DEF Annotate, AnnNext, AnnKey, NextEpisode, NoMoreEpisodes, ResetTo, Play, SkipReplay,
                EndAuto, EndManual, ExportAnnotated, InterruptAnnotation
  <2>3. RecordingInv' /\ AnnotationInv' /\ RepInit'
    BY <1>4, <2>1, <2>2, NextAnnotation, OthersKept DEF Annotate
  <2>4. QED
    BY <2>1, <2>3 DEF PipelineInv
<1>5. CASE StartReplay
  <2>1. RecordingInv /\ AnnotationInv /\ RepInit /\ stage' = "replay" /\ UNCHANGED recVars
        /\ dataset' = <<>> /\ AnnInit'
    BY <1>5 DEF PipelineInv, StartReplay, AnnInit
  <2>2. ReplayInv'
    BY <1>5, <2>1, OpenReplay
  <2>3. RecordingInv'
    BY <2>1, RecordingOver
  <2>4. QED
    BY <2>1, <2>2, <2>3 DEF PipelineInv
<1>6. CASE Replay
  <2>1. RecordingInv /\ AnnInit /\ ReplayInv /\ dataset = <<>> /\ stage' = "replay"
        /\ UNCHANGED <<dataset, recVars, annVars>>
    BY <1>6 DEF PipelineInv, Replay
  <2>2. RecordingInv' /\ AnnInit' /\ ReplayInv'
    BY <1>6, <2>1, NextReplay, OthersKept DEF Replay
  <2>3. QED
    BY <2>1, <2>2 DEF PipelineInv
<1>7. QED
  BY <1>1, <1>2, <1>3, <1>4, <1>5, <1>6 DEF Next
-----------------------------------------------------------------------------
(* The theorems *)

LEMMA PipelineHolds == Spec => []PipelineInv
  BY InitPipeline, NextPipeline, PTL DEF Spec

\* A script that has not started, or has ended, has no episodes.
LEMMA AnnotationOffIs ==
   ASSUME AnnInit
   PROVE  AnnTypeOK /\ AnnotationComplete /\ ann.pc = "off"
<1>1. 0 \in Action /\ <<>> \in Seq(Action) /\ <<>> \in Seq(Seq(Action))
      /\ <<>> \in Seq([src : Nat, actions : Action, auto : BOOLEAN, signals : Seq(Seq(Action))])
  BY DemoAssumption, EmptySeq DEF Action
<1>2. ann.pc = "off" /\ AnnTypeOK
  BY <1>1 DEF AnnInit, AnnotationOff, AnnTypeOK
<1>3. DOMAIN annotated = {}
  BY DEF AnnInit
<1>4. QED
  BY <1>2, <1>3 DEF AnnotationComplete

LEMMA ReplayOffIs ==
   ASSUME RepInit
   PROVE  RepTypeOK /\ ReplayComplete /\ rep.pc = "off"
<1>1. /\ file = <<>> /\ rep.pc = "off" /\ rep.selected = <<>> /\ rep.queue = <<>>
      /\ rep.loads = <<>> /\ rep.map = [e \in ReplayEnvs |-> NoEpisode]
      /\ rep.row = [e \in ReplayEnvs |-> Idle]
      /\ rep.has = FALSE /\ rep.first = TRUE /\ rep.paused = FALSE
      /\ acting = {} /\ stepped = <<>>
  BY DEF RepInit
<1>2. /\ <<>> \in Seq(Nat) /\ <<>> \in Seq(DOMAIN file) /\ <<>> \in Seq(Seq(Nat)) /\ Len(<<>>) = 0
      /\ NoEpisode \in [load : 0..0, src : 0..0, next : Nat] /\ Idle \in [load : 0..0, k : Nat]
  BY EmptySeq DEF NoEpisode, Idle
<1>3. RepTypeOK
  BY ZenonT(40), <1>1, <1>2 DEF RepTypeOK
<1>4. DOMAIN stepped = {}
  BY <1>1
<1>5. rep.loads \o InFile(rep.queue) = InFile(rep.selected)
  BY <1>1, NoneExisting DEF InFile
<1>6. QED
  BY <1>1, <1>3, <1>4, <1>5 DEF ReplayComplete

LEMMA ReplayInvIs ==
   ASSUME ReplayInv
   PROVE  RepTypeOK /\ ReplayComplete /\ rep.pc # "raised"
<1>1. /\ LocalsOK /\ HoldsLoads(rep) /\ StepsDone /\ RowsTaken /\ FileOK /\ rep \in RepLocals
      /\ rep.pc # "raised" /\ rep.loads \o InFile(rep.queue) = InFile(rep.selected)
  BY DEF ReplayInv, LocalsOK
<1>2. /\ Len(rep.loads) \in Nat /\ DOMAIN rep.loads = 1..Len(rep.loads)
      /\ DOMAIN stepped = 1..Len(rep.loads) /\ rep.loads \in Seq(DOMAIN file)
      /\ Len(file) \in Nat /\ DOMAIN file = 1..Len(file)
  BY <1>1, LenProperties, FileLength DEF RepLocals, LocalsOK
<1>3. RepTypeOK
  <2>1. file \in Seq(Nat) /\ rep.selected \in Seq(Nat) /\ rep.queue \in Seq(Nat)
    BY <1>1, SeqMonotonic DEF FileOK, RepLocals, Indices
  <2>2. ASSUME NEW e \in ReplayEnvs
        PROVE  /\ rep.map[e] \in [load : 0..Len(rep.loads), src : 0..Len(file), next : Nat]
               /\ rep.row[e] \in [load : 0..Len(rep.loads), k : Nat]
    <3>1. /\ rep.map[e] \in [load : Nat, src : Nat, next : Nat]
          /\ rep.row[e] \in [load : Nat, k : Nat] /\ rep.row[e].load <= Len(rep.loads)
      BY <1>1 DEF RepLocals, HoldsLoads
    <3>2. rep.map[e].load \in 0..Len(rep.loads) /\ rep.map[e].src \in 0..Len(file)
      <4>1. CASE rep.map[e] = NoEpisode
        BY <1>2, <4>1 DEF NoEpisode
      <4>2. CASE rep.map[e] # NoEpisode
        <5>1. /\ rep.map[e].load \in 1..Len(rep.loads)
              /\ rep.map[e].src = rep.loads[rep.map[e].load]
          BY <1>1, <1>2, <4>2 DEF HoldsLoads
        <5>2. rep.map[e].src \in 1..Len(file)
          BY <1>2, <5>1, ElementOfSeq
        <5>3. QED
          BY <1>2, <5>1, <5>2
      <4>3. QED
        BY <4>1, <4>2
    <3>3. rep.row[e].load \in 0..Len(rep.loads)
      BY <1>2, <3>1
    <3>4. QED
      BY <3>1, <3>2, <3>3
  <2>3. /\ rep.map \in [ReplayEnvs -> [load : 0..Len(rep.loads), src : 0..Len(file), next : Nat]]
        /\ rep.row \in [ReplayEnvs -> [load : 0..Len(rep.loads), k : Nat]]
    BY <1>1, <2>2 DEF RepLocals
  <2>4. QED
    BY <1>1, <1>2, <2>1, <2>3 DEF RepTypeOK, RepLocals, LocalsOK
<1>4. ASSUME rep.pc = "done"
      PROVE  /\ InFile(rep.queue) = <<>>
             /\ \A l \in DOMAIN stepped : Len(stepped[l]) = file[rep.loads[l]]
  <2>1. InFile(rep.queue) = <<>> /\ \A e \in ReplayEnvs : ~HasAction(rep.map[e])
    BY <1>1, <1>4 DEF RowsTaken, InFile
  <2>2. ASSUME NEW l \in DOMAIN stepped, ~Over(l)
        PROVE  Len(stepped[l]) = file[rep.loads[l]]
    <3>1. PICK e \in ReplayEnvs : rep.map[e].load = l
      BY <2>2 DEF Over
    <3>2. rep.map[e] # NoEpisode
      BY <1>2, <2>2, <3>1 DEF NoEpisode
    <3>3. /\ rep.map[e].src = rep.loads[l] /\ rep.map[e].next \in 1..file[rep.loads[l]]
          /\ rep.loads[l] \in 1..Len(file) /\ file[rep.loads[l]] \in Nat \ {0}
      BY <1>1, <1>2, <2>2, <3>1, <3>2, ElementOfSeq, FileLength DEF HoldsLoads
    <3>4. rep.map[e].next = file[rep.loads[l]]
      BY <2>1, <3>3 DEF HasAction
    <3>5. Len(stepped[l]) = rep.map[e].next - 0
      BY <1>1, <1>4, <3>1, <3>2 DEF StepsDone
    <3>6. QED
      BY <3>3, <3>4, <3>5
  <2>3. QED
    BY <1>1, <2>1, <2>2 DEF StepsDone
<1>5. QED
  BY <1>1, <1>3, <1>4 DEF ReplayComplete, StepsDone

LEMMA PipelineInvIs ==
   ASSUME PipelineInv
   PROVE  TypeOK /\ DiscardedOnRequest /\ AnnotationComplete /\ ReplayComplete /\ NeverRaises
<1>1. RecordingInv /\ stage \in {"record", "annotate", "replay"}
  BY DEF PipelineInv
<1>2. DatasetOK /\ RecTypeOK /\ DiscardedOnRequest
  BY <1>1 DEF RecordingInv, DiscardedOnRequest
<1>3. AnnTypeOK /\ AnnotationComplete /\ ann.pc # "raised"
  <2>1. AnnotationInv => AnnTypeOK /\ AnnotationComplete /\ ann.pc # "raised"
    BY DEF AnnotationInv, PlaceInv, ExportedInv
  <2>2. QED
    BY <2>1, AnnotationOffIs DEF PipelineInv
<1>4. RepTypeOK /\ ReplayComplete /\ rep.pc # "raised"
  BY ReplayOffIs, ReplayInvIs DEF PipelineInv
<1>5. QED
  BY <1>1, <1>2, <1>3, <1>4 DEF TypeOK, NeverRaises

\* The state of each script, and of the files between them, stays in its type.
THEOREM PipelineTyped == Spec => []TypeOK
  BY PipelineHolds, PipelineInvIs, PTL

\* Whatever keys are pressed, and whenever: at most one step is made on an attempt
\* after its reset was asked for (record_demos.py:413-416, 445-510).
THEOREM AttemptsDiscarded == Spec => []DiscardedOnRequest
  BY PipelineHolds, PipelineInvIs, PTL

\* Whenever the annotation is interrupted, an episode skipped or passed over: each
\* exported episode is one of the recorded ones, replayed to its end, in their
\* order, and if it was annotated by hand with one mark for each signal of each end
\* effector (annotate_demos.py:262-440).
THEOREM AnnotationsComplete == Spec => []AnnotationComplete
  BY PipelineHolds, PipelineInvIs, PTL

\* For any number of environments: the selected episodes that the dataset has are
\* loaded in order, each stepped through from its first action, and when the script
\* is done, to its last (replay_demos.py:179-240).
THEOREM ReplaysComplete == Spec => []ReplayComplete
  BY PipelineHolds, PipelineInvIs, PTL

\* No file a script leaves makes the next one raise (record_demos.py:473-488,
\* annotate_demos.py:322, replay_demos.py:211-216).
THEOREM ScriptsNeverRaise == Spec => []NeverRaises
  BY PipelineHolds, PipelineInvIs, PTL
=============================================================================

--------------------------- MODULE EvaluationProofs ---------------------------
(***************************************************************************)
(* Proofs about an evaluation: the batch runner and its job manager, for   *)
(* every number of jobs, every sequence of failures and both values of     *)
(* --continue_on_error, and the registries it fills and reloads between    *)
(* the jobs, for every order of imports and any number of reloads; and     *)
(* what a reset leaves in any number of copies of the environment it runs. *)
(***************************************************************************)
EXTENDS EvalRunner, ArenaEnvironment, SequenceTheorems, WellFoundedInduction, TLAPS
-----------------------------------------------------------------------------
(* One environment at a time *)

\* Which environments are open at each point of the loop.  From a job's load to
\* its closing only that job's environment can be; in the except clause and
\* before the teardown it may not have been loaded.
OpenAt ==
   /\ pc \in {"next", "load", "ended", "raised"} => open = {}
   /\ pc \in {"policy", "length", "rollout", "close"} => open = {job}
   /\ pc \in {"except", "teardown", "torn"} => open \in {{}, {job}}

Points == {"next", "load", "policy", "length", "rollout", "except", "teardown", "close",
           "ended", "raised", "torn"}

IInv == pc \in Points /\ raising \in BOOLEAN /\ OpenAt

LEMMA InitIInv == Init => IInv
  BY DEF Init, IInv, OpenAt, Points

LEMMA NextIInv == IInv /\ [Next]_vars => IInv'
<1> SUFFICES ASSUME IInv, [Next]_vars
             PROVE  IInv'
  OBVIOUS
<1> USE DEF IInv, OpenAt, Points
<1>1. CASE TakeJob
  BY <1>1 DEF TakeJob
<1>2. CASE NoMoreJobs
  BY <1>2 DEF NoMoreJobs
<1>3. CASE LoadEnv
  BY <1>3 DEF LoadEnv
<1>4. CASE GetPolicy \/ ResolveLength
  BY <1>4 DEF GetPolicy, ResolveLength
<1>5. CASE Rollout
  BY <1>5 DEF Rollout
<1>6. CASE Fail
  BY <1>6 DEF Fail
<1>7. CASE Except
  BY <1>7 DEF Except, Reraise
<1>8. CASE Teardown
  BY <1>8 DEF Teardown, AfterFinally
<1>9. CASE Close
  BY <1>9 DEF Close, StillOpen, AfterFinally
<1>10. CASE FinallyFails
  BY <1>10 DEF FinallyFails
<1>11. CASE UNCHANGED vars
  BY <1>11 DEF vars
<1>12. QED
  BY <1>1, <1>2, <1>3, <1>4, <1>5, <1>6, <1>7, <1>8, <1>9, <1>10, <1>11 DEF Next

\* A job's environment is closed before the next one is loaded, whichever step of
\* which job raised before (eval_runner.py:121-172).
THEOREM OneEnvironmentAtATime == Spec => []OneEnvironment
<1>1. IInv => OneEnvironment
  BY DEF IInv, OpenAt, OneEnvironment
<1>2. QED
  BY InitIInv, NextIInv, <1>1, PTL DEF Spec
-----------------------------------------------------------------------------
(* Induction, and the queue that a loop over the list of jobs fills *)

Less == {m \in Nat \X Nat : m[1] < m[2]}

\* What is said of the natural numbers is true, or has a least counterexample.
LEMMA LeastCounterexample ==
   ASSUME NEW T, T \subseteq Nat, T # {}
   PROVE  \E n \in T : \A m \in T : n <= m
<1>1. IsWellFoundedOn(Less, Nat)
  BY NatLessThanWellFounded, Zenon DEF OpToRel, Less
<1>2. PICK n \in T : \A m \in T : <<m, n>> \notin Less
  BY <1>1, WFMin
<1>3. \A m \in T : ~ (m < n)
  BY <1>2 DEF Less
<1>4. QED
  BY <1>3

\* The queue after the first n jobs of the list, from the one before.
NextOf(s, n, q) == IF n \in s THEN Append(q, n) ELSE q

\* g gives the queues of a loop over the first k jobs.
Fills(g, s, k) == g = [n \in 0..k |-> IF n = 0 THEN <<>> ELSE NextOf(s, n, g[n - 1])]

LEMMA LoopExists ==
   ASSUME NEW s, NEW k \in Nat
   PROVE  \E g : Fills(g, s, k)
<1> DEFINE Bad == {n \in Nat : ~ \E g : Fills(g, s, n)}
<1> SUFFICES ASSUME Bad # {}
             PROVE  FALSE
  OBVIOUS
<1>1. PICK n \in Bad : \A m \in Bad : n <= m
  BY LeastCounterexample
<1>2. n # 0
  <2>1. Fills([i \in 0..0 |-> <<>>], s, 0)
    BY DEF Fills
  <2>2. QED
    BY <2>1
<1>3. PICK g : Fills(g, s, n - 1)
  BY <1>1, <1>2
<1> DEFINE h == [i \in 0..n |-> IF i = n THEN NextOf(s, n, g[n - 1]) ELSE g[i]]
<1>4. \A i \in 0..n - 1 : h[i] = g[i]
  BY <1>1, <1>2
<1>5. \A i \in 0..n - 1 : g[i] = IF i = 0 THEN <<>> ELSE NextOf(s, i, g[i - 1])
  BY <1>3, <1>1, <1>2 DEF Fills
<1>6. \A i \in 0..n : h[i] = IF i = 0 THEN <<>> ELSE NextOf(s, i, h[i - 1])
  <2>1. \A i \in 1..n : h[i - 1] = g[i - 1]
    BY <1>4, <1>1
  <2>2. QED
    BY <2>1, <1>5, <1>1, <1>2
<1>7. Fills(h, s, n)
  BY <1>6 DEF Fills
<1>8. QED
  BY <1>7

Sorted(q) == \A a, b \in DOMAIN q : a < b => q[a] < q[b]
Holds(q, s) == \A j \in s : \E i \in DOMAIN q : q[i] = j

\* q is made of the first n jobs of the list: a sequence of those in s, all of
\* them and each once, in the order of the list.
Filled(q, s, n) == /\ q \in Seq((1..n) \cap s) /\ Sorted(q) /\ Len(q) <= n
                   /\ Holds(q, (1..n) \cap s)

LEMMA OneMore ==
   ASSUME NEW s, NEW n \in Nat \ {0}, NEW p, Filled(p, s, n - 1)
   PROVE  Filled(NextOf(s, n, p), s, n)
<1>1. p \in Seq((1..n - 1) \cap s) /\ Sorted(p) /\ Len(p) <= n - 1
      /\ Holds(p, (1..n - 1) \cap s)
  BY DEF Filled
<1>2. p \in Seq((1..n) \cap s)
  <2>1. (1..n - 1) \cap s \subseteq (1..n) \cap s
    OBVIOUS
  <2>2. QED
    BY <1>1, <2>1, SeqMonotonic
<1>3. \A i \in DOMAIN p : p[i] \in (1..n - 1) \cap s
  BY <1>1, ElementOfSeq, LenProperties
<1>4. CASE n \notin s
  <2>1. (1..n) \cap s = (1..n - 1) \cap s
    BY <1>4
  <2>2. Len(p) <= n
    BY <1>1, LenProperties
  <2>3. QED
    BY <1>1, <1>2, <1>4, <2>1, <2>2 DEF Filled, NextOf
<1>5. CASE n \in s
  <2> DEFINE q == Append(p, n)
  <2>1. /\ q \in Seq((1..n) \cap s) /\ Len(q) = Len(p) + 1 /\ Len(p) \in Nat
        /\ \A i \in 1..Len(p) : q[i] = p[i]
        /\ q[Len(p) + 1] = n
        /\ DOMAIN q = 1..Len(p) + 1 /\ DOMAIN p = 1..Len(p)
    <3>1. n \in (1..n) \cap s
      BY <1>5
    <3>2. QED
      BY <1>2, <3>1, AppendProperties, LenProperties
  <2> HIDE DEF q
  <2>2. Sorted(q)
    <3> SUFFICES ASSUME NEW a \in 1..Len(p) + 1, NEW b \in 1..Len(p) + 1, a < b
                 PROVE  q[a] < q[b]
      BY <2>1 DEF Sorted
    <3>1. a \in 1..Len(p) /\ q[a] = p[a] /\ p[a] \in 1..n - 1
      BY SMTT(30), <1>3, <2>1
    <3>2. CASE b = Len(p) + 1
      BY <2>1, <3>1, <3>2
    <3>3. CASE b # Len(p) + 1
      <4>1. b \in 1..Len(p) /\ q[b] = p[b]
        BY SMTT(30), <2>1, <3>3
      <4>2. QED
        BY <1>1, <2>1, <3>1, <4>1 DEF Sorted
    <3>4. QED
      BY <3>2, <3>3
  <2>3. Holds(q, (1..n) \cap s)
    <3> SUFFICES ASSUME NEW j \in (1..n) \cap s
                 PROVE  \E i \in DOMAIN q : q[i] = j
      BY DEF Holds
    <3>1. CASE j = n
      BY <2>1, <3>1
    <3>2. CASE j # n
      <4>1. j \in (1..n - 1) \cap s
        BY <3>2
      <4>2. PICK i \in DOMAIN p : p[i] = j
        BY <1>1, <4>1 DEF Holds
      <4>3. QED
        BY <2>1, <4>2
    <3>3. QED
      BY <3>1, <3>2
  <2>4. QED
    BY <1>1, <1>5, <2>1, <2>2, <2>3 DEF Filled, NextOf, q
<1>6. QED
  BY <1>4, <1>5

LEMMA LoopFills ==
   ASSUME NEW s, NEW k \in Nat, NEW g, Fills(g, s, k), NEW m \in 0..k
   PROVE  Filled(g[m], s, m)
<1> DEFINE Bad == {n \in 0..k : ~ Filled(g[n], s, n)}
<1> SUFFICES ASSUME Bad # {}
             PROVE  FALSE
  OBVIOUS
<1>1. PICK n \in Bad : \A i \in Bad : n <= i
  <2>1. Bad \subseteq Nat
    OBVIOUS
  <2> HIDE DEF Bad
  <2>2. QED
    BY <2>1, LeastCounterexample
<1>2. n # 0
  <2>1. g[0] = <<>>
    BY DEF Fills
  <2>2. Filled(<<>>, s, 0)
    BY DEF Filled, Sorted, Holds
  <2>3. QED
    BY <2>1, <2>2
<1>3. n \in Nat \ {0} /\ n - 1 \in 0..k /\ n \in 0..k
  BY <1>2
<1>4. Filled(g[n - 1], s, n - 1)
  BY <1>1, <1>3
<1>5. g[n] = NextOf(s, n, g[n - 1])
  BY <1>3 DEF Fills
<1>6. QED
  BY <1>3, <1>4, <1>5, OneMore

LEMMA InListOrderIs ==
   ASSUME NEW s
   PROVE  Filled(InListOrder(s), s, NumJobs)
<1> DEFINE g == CHOOSE f : Fills(f, s, NumJobs)
<1>1. Fills(g, s, NumJobs)
  BY LoopExists, JobAssumption
<1>2. InListOrder(s) = g[NumJobs]
  BY DEF InListOrder, Fills, NextOf
<1>3. QED
  BY <1>1, <1>2, LoopFills, JobAssumption

LEMMA QueuedJobs ==
   ASSUME NEW s
   PROVE  /\ InListOrder(s) \in Seq(Jobs) /\ Len(InListOrder(s)) <= NumJobs
          /\ \A j \in Jobs \cap s : \E i \in DOMAIN InListOrder(s) :
                InListOrder(s)[i] = j
<1> DEFINE q == InListOrder(s)
<1>1. Filled(q, s, NumJobs)
  BY InListOrderIs
<1> HIDE DEF q
<1>2. (1..NumJobs) \cap s \subseteq Jobs /\ Jobs = 1..NumJobs
  BY DEF Jobs
<1>3. q \in Seq(Jobs)
  BY <1>1, <1>2, SeqMonotonic DEF Filled
<1>4. Len(q) <= NumJobs /\ \A j \in Jobs \cap s : \E i \in DOMAIN q : q[i] = j
  BY <1>1, <1>2 DEF Filled, Holds
<1>5. QED
  BY <1>3, <1>4 DEF q
-----------------------------------------------------------------------------
(* The job manager, whatever is called in whatever order *)

JobInv == ManagerTypeOK /\ PendingIsQueued

LEMMA InitJobInv == ManagerInit => JobInv
<1> SUFFICES ASSUME ManagerInit
             PROVE  JobInv
  OBVIOUS
<1>1. /\ queue \in Seq(Jobs) /\ Len(queue) <= NumJobs
      /\ \A j \in Jobs \cap Pending(status) : \E i \in DOMAIN queue : queue[i] = j
  BY QueuedJobs DEF ManagerInit
<1>2. Len(queue) <= MaxQueue
  BY <1>1, JobAssumption, LenProperties
<1>3. PendingIsQueued
  BY <1>1 DEF PendingIsQueued, Pending, Queued, Jobs
<1>4. QED
  BY <1>1, <1>2, <1>3 DEF JobInv, ManagerInit, ManagerTypeOK, Jobs

LEMMA NextJobInv == JobInv /\ [ManagerNext]_managerVars => JobInv'
<1> SUFFICES ASSUME JobInv, [ManagerNext]_managerVars
             PROVE  JobInv'
  OBVIOUS
<1> USE JobAssumption DEF JobInv, ManagerTypeOK, PendingIsQueued, Queued,
        Jobs
<1>1. CASE GetNextJob
  <2>1. /\ Head(queue) \in Jobs /\ Tail(queue) \in Seq(Jobs) /\ Len(Tail(queue)) = Len(queue) - 1
        /\ \A i \in 1..Len(Tail(queue)) : Tail(queue)[i] = queue[i + 1]
        /\ Len(queue) \in Nat /\ DOMAIN queue = 1..Len(queue) /\ Head(queue) = queue[1]
        /\ DOMAIN Tail(queue) = 1..Len(Tail(queue))
    BY <1>1, HeadTailProperties, LenProperties DEF GetNextJob, Jobs
  <2>2. ManagerTypeOK'
    BY <1>1, <2>1 DEF GetNextJob, Statuses, Jobs
  <2>3. ASSUME NEW j \in Jobs, status'[j] = "pending"
        PROVE  \E i \in DOMAIN queue' : queue'[i] = j
    <3>1. status[j] = "pending" /\ j # Head(queue)
      BY <1>1, <2>1, <2>3 DEF GetNextJob, Jobs
    <3>2. PICK i \in DOMAIN queue : queue[i] = j
      BY <3>1 DEF Jobs
    <3>3. i - 1 \in 1..Len(Tail(queue)) /\ Tail(queue)[i - 1] = j
      BY SMTT(30), <2>1, <3>1, <3>2
    <3>4. QED
      BY <1>1, <2>1, <3>3 DEF GetNextJob
  <2>4. QED
    BY <2>2, <2>3 DEF Jobs
<1>2. ASSUME NEW ids \in SUBSET Jobs, NEW new \in Statuses,
             SetJobsStatusByName(ids, new)
      PROVE  JobInv'
  <2> DEFINE more == Requeued(ids, new)
  <2>1. /\ more \in Seq(Jobs)
        /\ \A j \in ids : status[j] # "pending" /\ new = "pending" =>
              \E i \in DOMAIN more : more[i] = j
    BY QueuedJobs DEF Requeued
  <2> HIDE DEF more
  <2>2. queue' = queue \o more /\ Len(queue) + Len(more) <= MaxQueue
        /\ status' = [j \in Jobs |-> IF j \in ids THEN new ELSE status[j]]
    BY <1>2 DEF SetJobsStatusByName, more, Jobs
  <2>3. /\ queue' \in Seq(Jobs) /\ Len(queue') = Len(queue) + Len(more)
        /\ \A i \in 1..Len(queue) + Len(more) :
              queue'[i] = IF i <= Len(queue) THEN queue[i] ELSE more[i - Len(queue)]
        /\ DOMAIN queue = 1..Len(queue) /\ DOMAIN more = 1..Len(more)
        /\ DOMAIN queue' = 1..Len(queue')
        /\ Len(queue) \in Nat /\ Len(more) \in Nat
    BY <2>1, <2>2, ConcatProperties, LenProperties DEF Jobs
  <2>4. ManagerTypeOK'
    BY <2>2, <2>3 DEF Jobs
  <2>5. ASSUME NEW j \in Jobs, status'[j] = "pending"
        PROVE  \E i \in DOMAIN queue' : queue'[i] = j
    <3>1. CASE status[j] = "pending"
      <4>1. PICK i \in DOMAIN queue : queue[i] = j
        BY <3>1 DEF Jobs
      <4>2. i \in 1..Len(queue) /\ Len(queue) \in Nat /\ Len(more) \in Nat
        BY <2>3, <4>1
      <4>3. i <= Len(queue) /\ i \in 1..Len(queue) + Len(more)
        BY <4>2
      <4>4. i \in DOMAIN queue' /\ queue'[i] = j
        BY <2>3, <4>1, <4>3
      <4>5. QED
        BY <4>4
    <3>2. CASE status[j] # "pending"
      <4>1. j \in ids /\ new = "pending"
        BY <2>2, <2>5, <3>2
      <4>2. PICK i \in DOMAIN more : more[i] = j
        BY <2>1, <3>2, <4>1
      <4>3. i \in Nat /\ i >= 1 /\ i <= Len(more)
        BY <2>3
      <4>4. PICK k \in Nat : k = Len(queue) + i
        BY <2>3, <4>3
      <4>5. k \in 1..Len(queue) + Len(more) /\ ~(k <= Len(queue)) /\ k - Len(queue) = i
        BY SMTT(30), <2>3, <4>3, <4>4
      <4>6. k \in DOMAIN queue' /\ queue'[k] = more[i]
        BY <2>3, <4>5
      <4>7. QED
        BY <4>2, <4>6
    <3>3. QED
      BY <3>1, <3>2
  <2>6. QED
    BY <2>4, <2>5 DEF Jobs
<1>3. ASSUME NEW j \in Jobs, NEW result \in {"completed", "failed"},
             CompleteJob(j, result)
      PROVE  JobInv'
  BY <1>3 DEF CompleteJob, Statuses
<1>4. CASE UNCHANGED managerVars
  BY <1>4 DEF managerVars
<1>5. QED
  BY <1>1, <1>2, <1>3, <1>4 DEF ManagerNext, Jobs

\* No sequence of calls of the job manager's methods loses a job that is to be
\* run, for any number of jobs (job_manager.py:174-176, 194-196, 205-209).
THEOREM NoJobLost == ManagerSpec => []PendingIsQueued
<1>1. JobInv => PendingIsQueued
  BY DEF JobInv
<1>2. QED
  BY InitJobInv, NextJobInv, <1>1, PTL DEF ManagerSpec
-----------------------------------------------------------------------------
(* The batch runner *)

\* The jobs handed out so far, and where main is while it runs one.
Handed == {order[i] : i \in DOMAIN order}
Running == {"load", "policy", "length", "rollout", "except"}

\* The jobs handed out and those still queued are the jobs to run, so none is
\* handed out twice; the statuses of the others are as they were given.
InOrder == /\ order \in Seq(Jobs) /\ queue \in Seq(Jobs)
           /\ order \o queue = ToRun
           /\ pc = "ended" => queue = <<>>

StatusesTold ==
   /\ given \in [Jobs -> Statuses] /\ status \in [Jobs -> Statuses]
   /\ pc \in Running \/ pc \in {"teardown", "close", "torn"} => job \in Handed
   /\ \A j \in Jobs \ Handed : status[j] = given[j]
   /\ \A j \in Handed : status[j] \in {"completed", "failed"} \/ (j = job /\ pc \in Running)
   /\ logged \subseteq Handed
   /\ \A j \in logged : status[j] = "completed" /\ ~ (j = job /\ pc \in Running)

Raises == /\ pc \in Points /\ raising \in BOOLEAN /\ continueOnError \in BOOLEAN
          /\ raising => ~continueOnError
          /\ pc = "raised" => raising

LoopInv == InOrder /\ StatusesTold /\ Raises

LEMMA ToRunIs == ToRun \in Seq(Jobs) /\ Sorted(ToRun)
<1>1. Filled(ToRun, Pending(given), NumJobs)
  BY InListOrderIs DEF ToRun
<1>2. ToRun \in Seq(Jobs)
  BY QueuedJobs DEF ToRun
<1>3. QED
  BY <1>1, <1>2 DEF Filled

LEMMA InitLoopInv == Init => LoopInv
<1> SUFFICES ASSUME Init
             PROVE  LoopInv
  OBVIOUS
<1>1. queue = ToRun
  BY DEF Init, ManagerInit, ToRun
<1>2. queue \in Seq(Jobs) /\ <<>> \o queue = queue
  BY <1>1, ToRunIs, ConcatEmptySeq
<1>3. InOrder
  BY <1>1, <1>2 DEF Init, InOrder
<1>4. StatusesTold
  BY DEF Init, ManagerInit, Jobs, StatusesTold, Handed, Running
<1>5. QED
  BY <1>3, <1>4 DEF LoopInv, Init, Raises, Points

\* The front of the queue moves to the jobs handed out, and was not among them.
LEMMA HandOver ==
   ASSUME InOrder, queue # <<>>
   PROVE  /\ Append(order, Head(queue)) \in Seq(Jobs) /\ Tail(queue) \in Seq(Jobs)
          /\ Append(order, Head(queue)) \o Tail(queue) = ToRun
          /\ Head(queue) \in Jobs /\ Head(queue) \notin Handed
          /\ {Append(order, Head(queue))[i] : i \in DOMAIN Append(order, Head(queue))}
                = Handed \cup {Head(queue)}
<1> DEFINE h == Head(queue)
           q == Append(order, h)
<1>1. /\ order \in Seq(Jobs) /\ queue \in Seq(Jobs) /\ order \o queue = ToRun
      /\ Len(order) \in Nat /\ DOMAIN order = 1..Len(order) /\ Len(queue) \in Nat
      /\ Len(queue) > 0
  BY LenProperties, EmptySeq DEF InOrder
<1>2. /\ h \in Jobs /\ h = queue[1] /\ Tail(queue) \in Seq(Jobs)
      /\ Len(Tail(queue)) = Len(queue) - 1
      /\ \A i \in 1..Len(Tail(queue)) : Tail(queue)[i] = queue[i + 1]
  BY <1>1, HeadTailProperties
<1>3. /\ q \in Seq(Jobs) /\ Len(q) = Len(order) + 1 /\ DOMAIN q = 1..Len(order) + 1
      /\ \A i \in 1..Len(order) : q[i] = order[i]
      /\ q[Len(order) + 1] = h
  BY <1>1, <1>2, AppendProperties, LenProperties
<1> HIDE DEF q, h
<1>4. /\ Len(ToRun) = Len(order) + Len(queue) /\ DOMAIN ToRun = 1..Len(ToRun)
      /\ \A i \in 1..Len(order) + Len(queue) :
            ToRun[i] = IF i <= Len(order) THEN order[i] ELSE queue[i - Len(order)]
  BY <1>1, ToRunIs, ConcatProperties, LenProperties
<1>5. q \o Tail(queue) = ToRun
  <2>1. /\ q \o Tail(queue) \in Seq(Jobs)
        /\ Len(q \o Tail(queue)) = Len(q) + Len(Tail(queue))
        /\ \A i \in 1..Len(q) + Len(Tail(queue)) :
              (q \o Tail(queue))[i] = IF i <= Len(q) THEN q[i] ELSE Tail(queue)[i - Len(q)]
    BY <1>2, <1>3, ConcatProperties
  <2> DEFINE r == q \o Tail(queue)
  <2>2. Len(r) = Len(ToRun)
    BY <1>1, <1>2, <1>3, <1>4, <2>1
  <2>3. ASSUME NEW i \in 1..Len(r)
        PROVE  r[i] = ToRun[i]
    <3>1. CASE i <= Len(order)
      BY <1>1, <1>2, <1>3, <1>4, <2>1, <2>2, <3>1
    <3>2. CASE i = Len(order) + 1
      BY <1>1, <1>2, <1>3, <1>4, <2>1, <2>2, <3>2
    <3>3. CASE i > Len(order) + 1
      <4>1. i - Len(q) \in 1..Len(Tail(queue)) /\ i - Len(q) + 1 = i - Len(order)
        BY <1>1, <1>2, <1>3, <2>1, <3>3
      <4>2. r[i] = Tail(queue)[i - Len(q)]
        BY <1>1, <1>3, <2>1, <3>3
      <4>3. QED
        BY <1>1, <1>2, <1>4, <2>2, <3>3, <4>1, <4>2
    <3>4. QED
      BY <1>1, <2>1, <3>1, <3>2, <3>3, <1>2, <1>3
  <2>4. QED
    BY <2>1, <2>2, <2>3, ToRunIs, SeqEqual
<1>6. h \notin Handed
  <2> SUFFICES ASSUME NEW i \in DOMAIN order, order[i] = h
               PROVE  FALSE
    BY DEF Handed
  <2>1. ToRun[i] = h /\ ToRun[Len(order) + 1] = h /\ i < Len(order) + 1
    BY <1>1, <1>2, <1>4
  <2>2. i \in DOMAIN ToRun /\ Len(order) + 1 \in DOMAIN ToRun
    BY <1>1, <1>4
  <2>3. ToRun[i] < ToRun[Len(order) + 1]
    BY <2>1, <2>2, ToRunIs DEF Sorted
  <2>4. QED
    BY <1>2, <2>1, <2>3 DEF Jobs
<1>7. {q[i] : i \in DOMAIN q} = Handed \cup {h}
  <2>1. ASSUME NEW i \in DOMAIN q
        PROVE  q[i] \in Handed \cup {h}
    <3>1. CASE i = Len(order) + 1
      BY <1>3, <3>1
    <3>2. CASE i # Len(order) + 1
      <4>1. i \in DOMAIN order /\ q[i] = order[i]
        BY <1>1, <1>3, <3>2
      <4>2. QED
        BY <4>1 DEF Handed
    <3>3. QED
      BY <3>1, <3>2
  <2>2. ASSUME NEW i \in DOMAIN order
        PROVE  i \in DOMAIN q /\ q[i] = order[i]
    BY <1>1, <1>3
  <2>3. Len(order) + 1 \in DOMAIN q /\ q[Len(order) + 1] = h
    BY <1>1, <1>3
  <2>4. QED
    BY <2>1, <2>2, <2>3 DEF Handed
<1>8. QED
  BY <1>2, <1>3, <1>5, <1>6, <1>7 DEF q, h

LEMMA NextLoopInv == LoopInv /\ [Next]_vars => LoopInv'
<1> SUFFICES ASSUME LoopInv, [Next]_vars
             PROVE  LoopInv'
  OBVIOUS
<1> USE DEF LoopInv, managerVars, argVars
<1>1. CASE TakeJob
  <2>1. /\ queue # <<>> /\ queue' = Tail(queue) /\ order' = Append(order, Head(queue))
        /\ job' = Head(queue) /\ status' = [status EXCEPT ![Head(queue)] = "running"]
        /\ pc' = "load" /\ raising' = FALSE /\ UNCHANGED <<given, continueOnError, logged>>
    BY <1>1 DEF TakeJob, GetNextJob
  <2>2. /\ order' \in Seq(Jobs) /\ queue' \in Seq(Jobs) /\ order' \o queue' = ToRun
        /\ Head(queue) \in Jobs /\ Head(queue) \notin Handed
        /\ Handed' = Handed \cup {Head(queue)}
    BY <2>1, HandOver DEF Handed
  <2>3. InOrder'
    BY <2>1, <2>2 DEF InOrder, ToRun
  <2>4. StatusesTold'
    BY <1>1, <2>1, <2>2 DEF StatusesTold, Running, TakeJob, Statuses
  <2>5. Raises'
    BY <2>1 DEF Raises, Points
  <2>6. QED
    BY <2>3, <2>4, <2>5
<1>2. CASE NoMoreJobs
  BY <1>2 DEF NoMoreJobs, InOrder, ToRun, StatusesTold, Handed, Running, Raises, Points
<1>3. CASE LoadEnv \/ GetPolicy \/ ResolveLength \/ Fail
  <2>1. /\ pc \in {"load", "policy", "length", "rollout"}
        /\ pc' \in {"policy", "length", "rollout", "except"}
        /\ UNCHANGED <<status, queue, given, continueOnError, job, raising, order, logged>>
    BY <1>3 DEF LoadEnv, GetPolicy, ResolveLength, Fail
  <2>2. InOrder' /\ Raises' /\ Handed' = Handed
    BY <2>1 DEF InOrder, ToRun, Raises, Points, Handed
  <2>3. StatusesTold'
    BY <2>1, <2>2 DEF StatusesTold, Running
  <2>4. QED
    BY <2>2, <2>3
<1>4. CASE Rollout
  <2>1. /\ pc = "rollout" /\ pc' = "teardown" /\ status' = [status EXCEPT ![job] = "completed"]
        /\ logged' \in {logged, logged \cup {job}}
        /\ UNCHANGED <<queue, given, continueOnError, job, raising, order>>
    BY <1>4 DEF Rollout, CompleteJob, AppendJobMetrics
  <2>2. InOrder' /\ Raises' /\ Handed' = Handed
    BY <2>1 DEF InOrder, ToRun, Raises, Points, Handed
  <2>3. job \in Handed /\ Handed \subseteq Jobs
    BY <2>1, ElementOfSeq, LenProperties DEF StatusesTold, InOrder, Handed, Running
  <2>4. StatusesTold'
    BY <2>1, <2>2, <2>3 DEF StatusesTold, Running, Statuses
  <2>5. QED
    BY <2>2, <2>4
<1>5. CASE Except
  <2>1. /\ pc = "except" /\ pc' = "teardown" /\ status' = [status EXCEPT ![job] = "failed"]
        /\ raising' = ~continueOnError
        /\ UNCHANGED <<queue, given, continueOnError, job, logged, order>>
    BY <1>5 DEF Except, MarkFailed, CompleteJob, Reraise
  <2>2. InOrder' /\ Raises' /\ Handed' = Handed
    BY <2>1 DEF InOrder, ToRun, Raises, Points, Handed
  <2>3. job \in Handed /\ Handed \subseteq Jobs
    BY <2>1, ElementOfSeq, LenProperties DEF StatusesTold, InOrder, Handed, Running
  <2>4. StatusesTold'
    BY <2>1, <2>2, <2>3 DEF StatusesTold, Running, Statuses
  <2>5. QED
    BY <2>2, <2>4
<1>6. CASE Teardown \/ Close \/ FinallyFails
  <2>1. /\ pc \in {"teardown", "close"}
        /\ pc' \in {"close", "torn", AfterFinally}
        /\ UNCHANGED <<status, queue, given, continueOnError, job, raising, order, logged>>
    BY <1>6 DEF Teardown, Close, FinallyFails
  <2>2. InOrder' /\ Raises' /\ Handed' = Handed
    BY <2>1 DEF InOrder, ToRun, Raises, Points, Handed, AfterFinally
  <2>3. StatusesTold'
    BY <2>1, <2>2 DEF StatusesTold, Running, AfterFinally
  <2>4. QED
    BY <2>2, <2>3
<1>7. CASE UNCHANGED vars
  BY <1>7 DEF vars, InOrder, ToRun, StatusesTold, Handed, Running, Raises, Points
<1>8. QED
  BY <1>1, <1>2, <1>3, <1>4, <1>5, <1>6, <1>7 DEF Next

\* Whichever steps of whichever jobs raise: at the end the statuses tell what
\* happened to each job, metrics are those of completed jobs, and a program that
\* ends normally ran every pending job once, in the order of the config
\* (eval_runner.py:121-172, job_manager.py:188-201, 222-226).
THEOREM OutcomesAndOrder == Spec => [](OutcomesTold /\ RanAll)
<1>1. LoopInv => OutcomesTold
  BY DEF LoopInv, StatusesTold, Running, Handed, OutcomesTold
<1>2. LoopInv => RanAll
  <2> SUFFICES ASSUME LoopInv, pc = "ended" \/ (pc = "raised" /\ continueOnError)
               PROVE  order = ToRun
    BY DEF RanAll
  <2>1. pc = "ended" /\ queue = <<>>
    BY DEF LoopInv, Raises, InOrder
  <2>2. QED
    BY <2>1, ConcatEmptySeq DEF LoopInv, InOrder
<1>3. QED
  BY InitLoopInv, NextLoopInv, <1>1, <1>2, PTL DEF Spec
-----------------------------------------------------------------------------
(* The runner implements the job manager *)

LEMMA RunnerStep == LoopInv /\ [Next]_vars => [ManagerNext]_managerVars
<1> SUFFICES ASSUME LoopInv, [Next]_vars
             PROVE  [ManagerNext]_managerVars
  OBVIOUS
<1>1. pc \in Running => job \in Jobs
  <2>1. order \in Seq(Jobs)
    BY DEF LoopInv, InOrder
  <2>2. Handed \subseteq Jobs
    BY <2>1, ElementOfSeq, LenProperties DEF Handed
  <2>3. QED
    BY <2>2 DEF LoopInv, StatusesTold
<1>2. CASE TakeJob
  BY <1>2 DEF TakeJob, ManagerNext
<1>3. CASE Rollout
  BY <1>1, <1>3 DEF Rollout, Running, ManagerNext
<1>4. CASE Except
  BY <1>1, <1>4 DEF Except, MarkFailed, Running, ManagerNext
<1>5. CASE NoMoreJobs \/ LoadEnv \/ GetPolicy \/ ResolveLength \/ Fail
  BY <1>5 DEF NoMoreJobs, LoadEnv, GetPolicy, ResolveLength, Fail
<1>6. CASE Teardown \/ Close \/ FinallyFails
  BY <1>6 DEF Teardown, Close, FinallyFails
<1>7. CASE UNCHANGED vars
  BY <1>7 DEF vars
<1>8. QED
  BY <1>2, <1>3, <1>4, <1>5, <1>6, <1>7 DEF Next

\* Every step of the loop is a call of one of the job manager's methods or leaves it
\* alone (eval_runner.py:123, 158, 161).
THEOREM RunnerImplementsManager == Spec => UsesManager
<1>1. Init => ManagerInit
  BY DEF Init
<1>2. QED
  BY <1>1, InitLoopInv, NextLoopInv, RunnerStep, PTL DEF Spec, UsesManager, ManagerSpec

\* No job of a batch is lost, whichever jobs fail (eval_runner.py:121-172).
COROLLARY BatchLosesNoJob == Spec => []PendingIsQueued
  BY RunnerImplementsManager, NoJobLost DEF UsesManager

-----------------------------------------------------------------------------
(* The registries: what the modules' statements are *)

Binders == {"asset_registry", "object", "register", "object_library", "franka"}
LibraryModules == {"background_library", "device_library", "hdr_image_library",
                   "object_library", "retargeter_library", "embodiments", "policy"}
Robots == {"agibot", "droid", "franka", "g1", "galbot", "gr1t2"}

LEMMA ListsAre ==
   /\ DOMAIN Libraries = 1 .. 7 /\ Len(Libraries) = 7
   /\ DOMAIN RobotModules = 1 .. 6 /\ Len(RobotModules) = 6
   /\ {Libraries[i] : i \in 1 .. 7} = LibraryModules
   /\ {RobotModules[i] : i \in 1 .. 6} = Robots
<1>1. DOMAIN Libraries = 1 .. 7 /\ DOMAIN RobotModules = 1 .. 6
  BY DEF Libraries, RobotModules
<1>2. Len(Libraries) = 7 /\ Len(RobotModules) = 6
  BY DEF Libraries, RobotModules
<1>3. {Libraries[i] : i \in 1 .. 7} = LibraryModules
  BY DEF Libraries, LibraryModules
<1>4. {RobotModules[i] : i \in 1 .. 6} = Robots
  BY DEF RobotModules, Robots
<1>5. QED
  BY <1>1, <1>2, <1>3, <1>4

LEMMA ModulesAre ==
   Modules = LibraryModules \cup Robots \cup
             {"asset_registry", "register", "object", "arena_env_builder"}
  BY ListsAre, Zenon DEF Modules

Ops == {"import", "from", "bind", "decorate"}
Simple == {"device_library", "retargeter_library", "policy", "g1", "galbot", "gr1t2"}

\* What is said of the statements s of module m.
Binding(m, s) ==
   /\ \A i \in DOMAIN s : s[i][1] = "bind" =>
        /\ s[i] = <<"bind", m>> /\ m \in Binders
        /\ m /= "object_library" => i = Len(s)
        /\ \A k \in DOMAIN s : s[k][1] = "bind" => k = i
   /\ m \in Binders => \E i \in DOMAIN s : s[i] = <<"bind", m>>

Decorating(m, s) ==
   \A i \in DOMAIN s : s[i][1] = "decorate" =>
        /\ s[i] = <<"decorate", m>>
        /\ m \in (LibraryModules \cup Robots) \ {"embodiments"}
        /\ \E k \in DOMAIN s : k < i /\ s[k] = <<"from", "register">>
        /\ m \in Binders => m = "franka" \/ \E k \in DOMAIN s : k < i /\ s[k] = <<"bind", m>>

Taking(m, s) ==
   \A i \in DOMAIN s : s[i][1] = "from" =>
        /\ s[i][2] \in Binders /\ s[i][2] /= m
        /\ m \notin {"asset_registry", "object"}
        /\ m = "register" => s[i][2] = "asset_registry"
        /\ m = "object_library" => s[i][2] \in {"object", "register"}
        /\ m = "franka" => s[i][2] \in {"object_library", "register"}
        /\ s[i][2] = "franka" => m \in {"agibot", "droid"}

Importing(m, s) ==
   \A i \in DOMAIN s : s[i][1] = "import" =>
        \/ m = "embodiments" /\ s[i][2] \in Robots
        \/ m = "arena_env_builder" /\ s[i][2] = "embodiments"

Described(m) ==
   /\ Statements(m) \in Seq(Ops \X Modules)
   /\ Binding(m, Statements(m)) /\ Decorating(m, Statements(m))
   /\ Taking(m, Statements(m)) /\ Importing(m, Statements(m))
   /\ m \in (LibraryModules \cup Robots) \ {"embodiments"} =>
         \E i \in DOMAIN Statements(m) : Statements(m)[i][1] = "decorate"

LEMMA StatementsAre == \A m \in Modules : Described(m)
<1> USE DEF Binders, LibraryModules, Robots
<1>1. Described("asset_registry")
  <2>1. Statements("asset_registry") = <<<<"bind", "asset_registry">>>>
    BY DEF Statements, From, Import, ObjectLibrary
  <2>2. ASSUME NEW s, s = <<<<"bind", "asset_registry">>>>
        PROVE  /\ s \in Seq(Ops \X Modules)
               /\ Binding("asset_registry", s) /\ Decorating("asset_registry", s)
               /\ Taking("asset_registry", s) /\ Importing("asset_registry", s)
    <3>1. s \in Seq(Ops \X Modules) /\ DOMAIN s = 1 .. 1 /\ Len(s) = 1
      BY <2>2, ModulesAre DEF Ops
    <3>2. Binding("asset_registry", s)
      BY <2>2, <3>1 DEF Binding
    <3>3. Decorating("asset_registry", s)
      BY <2>2, <3>1 DEF Decorating
    <3>4. Taking("asset_registry", s) /\ Importing("asset_registry", s)
      BY <2>2, <3>1 DEF Taking, Importing
    <3>5. QED
      BY <3>1, <3>2, <3>3, <3>4
  <2>3. QED
    BY <2>1, <2>2 DEF Described
<1>2. Described("object")
  <2>1. Statements("object") = <<<<"bind", "object">>>>
    BY DEF Statements, From, Import, ObjectLibrary
  <2>2. ASSUME NEW s, s = <<<<"bind", "object">>>>
        PROVE  /\ s \in Seq(Ops \X Modules)
               /\ Binding("object", s) /\ Decorating("object", s)
               /\ Taking("object", s) /\ Importing("object", s)
    <3>1. s \in Seq(Ops \X Modules) /\ DOMAIN s = 1 .. 1 /\ Len(s) = 1
      BY <2>2, ModulesAre DEF Ops
    <3>2. Binding("object", s)
      BY <2>2, <3>1 DEF Binding
    <3>3. Decorating("object", s)
      BY <2>2, <3>1 DEF Decorating
    <3>4. Taking("object", s) /\ Importing("object", s)
      BY <2>2, <3>1 DEF Taking, Importing
    <3>5. QED
      BY <3>1, <3>2, <3>3, <3>4
  <2>3. QED
    BY <2>1, <2>2 DEF Described
<1>3. Described("register")
  <2>1. Statements("register") = <<<<"from", "asset_registry">>, <<"bind", "register">>>>
    BY DEF Statements, From, Import, ObjectLibrary
  <2>2. ASSUME NEW s, s = <<<<"from", "asset_registry">>, <<"bind", "register">>>>
        PROVE  /\ s \in Seq(Ops \X Modules)
               /\ Binding("register", s) /\ Decorating("register", s)
               /\ Taking("register", s) /\ Importing("register", s)
    <3>1. s \in Seq(Ops \X Modules) /\ DOMAIN s = 1 .. 2 /\ Len(s) = 2
      BY <2>2, ModulesAre DEF Ops
    <3>2. Binding("register", s)
      BY <2>2, <3>1 DEF Binding
    <3>3. Decorating("register", s)
      BY <2>2, <3>1 DEF Decorating
    <3>4. Taking("register", s) /\ Importing("register", s)
      BY <2>2, <3>1 DEF Taking, Importing
    <3>5. QED
      BY <3>1, <3>2, <3>3, <3>4
  <2>3. QED
    BY <2>1, <2>2 DEF Described
<1>4. Described("object_library")
  <2>1. Statements("object_library") = <<<<"from", "object">>, <<"from", "register">>, <<"bind", "object_library">>, <<"decorate", "object_library">>>>
    BY DEF Statements, From, Import, ObjectLibrary
  <2>2. ASSUME NEW s, s = <<<<"from", "object">>, <<"from", "register">>, <<"bind", "object_library">>, <<"decorate", "object_library">>>>
        PROVE  /\ s \in Seq(Ops \X Modules)
               /\ Binding("object_library", s) /\ Decorating("object_library", s)
               /\ Taking("object_library", s) /\ Importing("object_library", s)
               /\ \E i \in DOMAIN s : s[i][1] = "decorate"
    <3>1. s \in Seq(Ops \X Modules) /\ DOMAIN s = 1 .. 4 /\ Len(s) = 4
      BY <2>2, ModulesAre DEF Ops
    <3>2. Binding("object_library", s)
      BY <2>2, <3>1 DEF Binding
    <3>3. Decorating("object_library", s)
      BY <2>2, <3>1 DEF Decorating
    <3>4. Taking("object_library", s) /\ Importing("object_library", s)
      BY <2>2, <3>1 DEF Taking, Importing
    <3>5. s[4][1] = "decorate"
      BY <2>2
    <3>6. QED
      BY <3>1, <3>2, <3>3, <3>4, <3>5
  <2>3. QED
    BY <2>1, <2>2 DEF Described
<1>5. Described("background_library")
  <2>1. Statements("background_library") = <<<<"from", "object">>, <<"from", "object_library">>, <<"from", "register">>, <<"decorate", "background_library">>>>
    BY DEF Statements, From, Import, ObjectLibrary
  <2>2. ASSUME NEW s, s = <<<<"from", "object">>, <<"from", "object_library">>, <<"from", "register">>, <<"decorate", "background_library">>>>
        PROVE  /\ s \in Seq(Ops \X Modules)
               /\ Binding("background_library", s) /\ Decorating("background_library", s)
               /\ Taking("background_library", s) /\ Importing("background_library", s)
               /\ \E i \in DOMAIN s : s[i][1] = "decorate"
    <3>1. s \in Seq(Ops \X Modules) /\ DOMAIN s = 1 .. 4 /\ Len(s) = 4
      BY <2>2, ModulesAre DEF Ops
    <3>2. Binding("background_library", s)
      BY <2>2, <3>1 DEF Binding
    <3>3. Decorating("background_library", s)
      BY <2>2, <3>1 DEF Decorating
    <3>4. Taking("background_library", s) /\ Importing("background_library", s)
      BY <2>2, <3>1 DEF Taking, Importing
    <3>5. s[4][1] = "decorate"
      BY <2>2
    <3>6. QED
      BY <3>1, <3>2, <3>3, <3>4, <3>5
  <2>3. QED
    BY <2>1, <2>2 DEF Described
<1>6. Described("hdr_image_library")
  <2>1. Statements("hdr_image_library") = <<<<"from", "object_library">>, <<"from", "register">>, <<"decorate", "hdr_image_library">>>>
    BY DEF Statements, From, Import, ObjectLibrary
  <2>2. ASSUME NEW s, s = <<<<"from", "object_library">>, <<"from", "register">>, <<"decorate", "hdr_image_library">>>>
        PROVE  /\ s \in Seq(Ops \X Modules)
               /\ Binding("hdr_image_library", s) /\ Decorating("hdr_image_library", s)
               /\ Taking("hdr_image_library", s) /\ Importing("hdr_image_library", s)
               /\ \E i \in DOMAIN s : s[i][1] = "decorate"
    <3>1. s \in Seq(Ops \X Modules) /\ DOMAIN s = 1 .. 3 /\ Len(s) = 3
      BY <2>2, ModulesAre DEF Ops
    <3>2. Binding("hdr_image_library", s)
      BY <2>2, <3>1 DEF Binding
    <3>3. Decorating("hdr_image_library", s)
      BY <2>2, <3>1 DEF Decorating
    <3>4. Taking("hdr_image_library", s) /\ Importing("hdr_image_library", s)
      BY <2>2, <3>1 DEF Taking, Importing
    <3>5. s[3][1] = "decorate"
      BY <2>2
    <3>6. QED
      BY <3>1, <3>2, <3>3, <3>4, <3>5
  <2>3. QED
    BY <2>1, <2>2 DEF Described
<1>7. Described("agibot")
  <2>1. Statements("agibot") = <<<<"from", "register">>, <<"from", "franka">>, <<"decorate", "agibot">>>>
    BY DEF Statements, From, Import, ObjectLibrary
  <2>2. ASSUME NEW s, s = <<<<"from", "register">>, <<"from", "franka">>, <<"decorate", "agibot">>>>
        PROVE  /\ s \in Seq(Ops \X Modules)
               /\ Binding("agibot", s) /\ Decorating("agibot", s)
               /\ Taking("agibot", s) /\ Importing("agibot", s)
               /\ \E i \in DOMAIN s : s[i][1] = "decorate"
    <3>1. s \in Seq(Ops \X Modules) /\ DOMAIN s = 1 .. 3 /\ Len(s) = 3
      BY <2>2, ModulesAre DEF Ops
    <3>2. Binding("agibot", s)
      BY <2>2, <3>1 DEF Binding
    <3>3. Decorating("agibot", s)
      BY <2>2, <3>1 DEF Decorating
    <3>4. Taking("agibot", s) /\ Importing("agibot", s)
      BY <2>2, <3>1 DEF Taking, Importing
    <3>5. s[3][1] = "decorate"
      BY <2>2
    <3>6. QED
      BY <3>1, <3>2, <3>3, <3>4, <3>5
  <2>3. QED
    BY <2>1, <2>2 DEF Described
<1>8. Described("droid")
  <2>1. Statements("droid") = <<<<"from", "object_library">>, <<"from", "register">>, <<"from", "franka">>, <<"decorate", "droid">>>>
    BY DEF Statements, From, Import, ObjectLibrary
  <2>2. ASSUME NEW s, s = <<<<"from", "object_library">>, <<"from", "register">>, <<"from", "franka">>, <<"decorate", "droid">>>>
        PROVE  /\ s \in Seq(Ops \X Modules)
               /\ Binding("droid", s) /\ Decorating("droid", s)
               /\ Taking("droid", s) /\ Importing("droid", s)
               /\ \E i \in DOMAIN s : s[i][1] = "decorate"
    <3>1. s \in Seq(Ops \X Modules) /\ DOMAIN s = 1 .. 4 /\ Len(s) = 4
      BY <2>2, ModulesAre DEF Ops
    <3>2. Binding("droid", s)
      BY <2>2, <3>1 DEF Binding
    <3>3. Decorating("droid", s)
      BY <2>2, <3>1 DEF Decorating
    <3>4. Taking("droid", s) /\ Importing("droid", s)
      BY <2>2, <3>1 DEF Taking, Importing
    <3>5. s[4][1] = "decorate"
      BY <2>2
    <3>6. QED
      BY <3>1, <3>2, <3>3, <3>4, <3>5
  <2>3. QED
    BY <2>1, <2>2 DEF Described
<1>9. Described("franka")
  <2>1. Statements("franka") = <<<<"from", "object_library">>, <<"from", "register">>, <<"decorate", "franka">>, <<"bind", "franka">>>>
    BY DEF Statements, From, Import, ObjectLibrary
  <2>2. ASSUME NEW s, s = <<<<"from", "object_library">>, <<"from", "register">>, <<"decorate", "franka">>, <<"bind", "franka">>>>
        PROVE  /\ s \in Seq(Ops \X Modules)
               /\ Binding("franka", s) /\ Decorating("franka", s)
               /\ Taking("franka", s) /\ Importing("franka", s)
               /\ \E i \in DOMAIN s : s[i][1] = "decorate"
    <3>1. s \in Seq(Ops \X Modules) /\ DOMAIN s = 1 .. 4 /\ Len(s) = 4
      BY <2>2, ModulesAre DEF Ops
    <3>2. Binding("franka", s)
      BY <2>2, <3>1 DEF Binding
    <3>3. Decorating("franka", s)
      BY <2>2, <3>1 DEF Decorating
    <3>4. Taking("franka", s) /\ Importing("franka", s)
      BY <2>2, <3>1 DEF Taking, Importing
    <3>5. s[3][1] = "decorate"
      BY <2>2
    <3>6. QED
      BY <3>1, <3>2, <3>3, <3>4, <3>5
  <2>3. QED
    BY <2>1, <2>2 DEF Described
<1>10. Described("arena_env_builder")
  <2>1. Statements("arena_env_builder") = <<<<"from", "asset_registry">>, <<"from", "object">>, <<"import", "embodiments">>>>
    BY DEF Statements, From, Import, ObjectLibrary
  <2>2. ASSUME NEW s, s = <<<<"from", "asset_registry">>, <<"from", "object">>, <<"import", "embodiments">>>>
        PROVE  /\ s \in Seq(Ops \X Modules)
               /\ Binding("arena_env_builder", s) /\ Decorating("arena_env_builder", s)
               /\ Taking("arena_env_builder", s) /\ Importing("arena_env_builder", s)
    <3>1. s \in Seq(Ops \X Modules) /\ DOMAIN s = 1 .. 3 /\ Len(s) = 3
      BY <2>2, ModulesAre DEF Ops
    <3>2. Binding("arena_env_builder", s)
      BY <2>2, <3>1 DEF Binding
    <3>3. Decorating("arena_env_builder", s)
      BY <2>2, <3>1 DEF Decorating
    <3>4. Taking("arena_env_builder", s) /\ Importing("arena_env_builder", s)
      BY <2>2, <3>1 DEF Taking, Importing
    <3>5. QED
      BY <3>1, <3>2, <3>3, <3>4
  <2>3. QED
    BY <2>1, <2>2 DEF Described
<1>11. Described("embodiments")
  <2>1. Statements("embodiments") = [i \in 1 .. 6 |-> <<"import", RobotModules[i]>>]
    BY ListsAre DEF Statements, Import
  <2>2. ASSUME NEW s, s = [i \in 1 .. 6 |-> <<"import", RobotModules[i]>>]
        PROVE  /\ s \in Seq(Ops \X Modules)
               /\ Binding("embodiments", s) /\ Decorating("embodiments", s)
               /\ Taking("embodiments", s) /\ Importing("embodiments", s)
    <3>1. \A i \in 1 .. 6 : RobotModules[i] \in Robots
      BY ListsAre
    <3>2. \A i \in 1 .. 6 : RobotModules[i] \in Modules
      BY <3>1, ModulesAre
    <3>3. s \in Seq(Ops \X Modules)
      BY <2>2, <3>2 DEF Ops
    <3>4. Binding("embodiments", s) /\ Decorating("embodiments", s)
      BY <2>2 DEF Binding, Decorating
    <3>5. Taking("embodiments", s) /\ Importing("embodiments", s)
      BY <2>2, <3>1 DEF Taking, Importing
    <3>6. QED
      BY <3>3, <3>4, <3>5
  <2>3. QED
    BY <2>1, <2>2 DEF Described
<1>12. ASSUME NEW m \in Simple
       PROVE  Described(m)
  <2>1. Statements(m) = <<<<"from", "register">>, <<"decorate", m>>>>
    BY DEF Statements, From, Simple
  <2>2. ASSUME NEW s, s = <<<<"from", "register">>, <<"decorate", m>>>>
        PROVE  /\ s \in Seq(Ops \X Modules)
               /\ Binding(m, s) /\ Decorating(m, s)
               /\ Taking(m, s) /\ Importing(m, s)
               /\ \E i \in DOMAIN s : s[i][1] = "decorate"
    <3>1. s \in Seq(Ops \X Modules) /\ DOMAIN s = 1 .. 2 /\ Len(s) = 2
      BY <2>2, ModulesAre DEF Ops, Simple
    <3>2. Binding(m, s)
      BY <2>2, <3>1 DEF Binding, Simple
    <3>3. Decorating(m, s)
      BY <2>2, <3>1 DEF Decorating, Simple
    <3>4. Taking(m, s) /\ Importing(m, s)
      BY <2>2, <3>1 DEF Taking, Importing, Simple
    <3>5. s[2][1] = "decorate"
      BY <2>2
    <3>6. QED
      BY <3>1, <3>2, <3>3, <3>4, <3>5
  <2>3. QED
    BY <2>1, <2>2 DEF Described
<1>13. QED
  BY ModulesAre, <1>1, <1>2, <1>3, <1>4, <1>5, <1>6, <1>7, <1>8, <1>9, <1>10, <1>11, <1>12 DEF Simple

LEMMA DecoratedAre == Decorated = (LibraryModules \cup Robots) \ {"embodiments"}
<1>1. (LibraryModules \cup Robots) \subseteq Modules
  BY ModulesAre
<1>2. \A m \in Modules : Described(m)
  BY StatementsAre
<1>3. ASSUME NEW m \in (LibraryModules \cup Robots) \ {"embodiments"}
      PROVE  m \in Decorated
  BY <1>1, <1>2 DEF Decorated, Described
<1>4. ASSUME NEW m \in Decorated
      PROVE  m \in (LibraryModules \cup Robots) \ {"embodiments"}
  BY <1>2 DEF Decorated, Described, Decorating
<1>5. QED
  BY <1>3, <1>4

LEMMA EdgesAre ==
   /\ \A e \in Edges : /\ e = <<e[1], e[2]>> /\ e[1] \in Modules /\ e[2] \in Modules
                       /\ \E i \in DOMAIN Statements(e[1]) : Statements(e[1])[i] = <<"from", e[2]>>
   /\ \A m \in Modules : \A i \in DOMAIN Statements(m) :
         Statements(m)[i][1] = "from" => <<m, Statements(m)[i][2]>> \in Edges
<1>1. ASSUME NEW m \in Modules, NEW i \in DOMAIN Statements(m), Statements(m)[i][1] = "from"
      PROVE  <<m, Statements(m)[i][2]>> \in Edges
  <2>1. Statements(m)[i] \in Ops \X Modules
    BY StatementsAre DEF Described
  <2>2. Statements(m)[i] = From(Statements(m)[i][2]) /\ Statements(m)[i][2] \in Modules
    BY <1>1, <2>1 DEF From
  <2>3. QED
    BY <2>2 DEF Edges
<1>2. QED
  BY <1>1 DEF Edges, From

LEMMA EnsureIs ==
   /\ Ensure = [name |-> "ensure", code |-> Ensure.code, next |-> 1]
   /\ Ensure.code \in Seq({"import", "flag"} \X Modules) /\ Len(Ensure.code) = 8
   /\ \A i \in 1 .. 7 : Ensure.code[i] = <<"import", Libraries[i]>>
   /\ Ensure.code[8] = <<"flag", "asset_registry">>
<1> DEFINE libs == [i \in 1 .. Len(Libraries) |-> Import(Libraries[i])]
           last == <<"flag", "asset_registry">>
<1>1. \A i \in 1 .. 7 : Libraries[i] \in Modules
  BY ListsAre, ModulesAre
<1>2. libs \in Seq({"import", "flag"} \X Modules) /\ Len(libs) = 7
  BY <1>1, ListsAre DEF Import
<1>3. last \in {"import", "flag"} \X Modules
  BY ModulesAre
<1>4. Ensure.code = Append(libs, last) /\ Ensure = [name |-> "ensure", code |-> Ensure.code, next |-> 1]
  BY DEF Ensure, Frame
<1>5. \A i \in 1 .. 7 : libs[i] = <<"import", Libraries[i]>>
  BY ListsAre DEF Import
<1> DEFINE S == {"import", "flag"} \X Modules
<1> HIDE DEF libs, last, S
<1>6. libs \in Seq(S) /\ last \in S
  BY <1>2, <1>3 DEF S
<1>7. /\ Append(libs, last) \in Seq(S) /\ Len(Append(libs, last)) = Len(libs) + 1
      /\ Append(libs, last)[Len(libs) + 1] = last
      /\ \A i \in 1 .. Len(libs) : Append(libs, last)[i] = libs[i]
  BY <1>6
<1>8. QED
  BY <1>2, <1>4, <1>5, <1>7 DEF last, S
-----------------------------------------------------------------------------
(* The inductive invariant *)

Kinds == Ops \cup {"flag", "reload"}
Names == Modules \cup {"ensure", "reload_arena_modules"}
FrameType == [name : Names, code : Seq(Kinds \X Modules), next : Nat]

Distinct(s) == \A i, j \in 1 .. Len(s) : s[i] = s[j] => i = j
Precedes(a, b, s) == \E i, j \in 1 .. Len(s) : i < j /\ s[i] = a /\ s[j] = b

Typed ==
   /\ loaded \in Seq(Modules)
   /\ Distinct(loaded)
   /\ generation \in [Modules -> Nat]
   /\ holds \in [Edges -> Nat]
   /\ registered \in SUBSET (Nat \X Decorated)
   /\ flag \in BOOLEAN
   /\ outcome = "ok"

\* A frame is a module's, that of ensure_assets_registered, or, at the bottom, the
\* reloads.
FrameOf(f, j) ==
   \/ f.name \in Modules /\ f.code = Statements(f.name)
   \/ f.name = "ensure" /\ f.code = Ensure.code
   \/ f.name = "reload_arena_modules" /\ j = 1 /\ \A i \in 1 .. Len(f.code) : f.code[i][1] = "reload"

\* All frames but the innermost are in the middle of a statement.
StackOf(s) ==
   /\ s \in Seq(FrameType)
   /\ \A j \in 1 .. Len(s) :
        /\ FrameOf(s[j], j)
        /\ s[j].next \in 1 .. Len(s[j].code) + 1
        /\ j < Len(s) => s[j].next <= Len(s[j].code) \/ s[j].name = "reload_arena_modules"
   /\ \A i, j \in 1 .. Len(s) : s[i].name = s[j].name /\ s[i].name \in Modules => i = j

Reloading == stack /= <<>> /\ stack[1].name = "reload_arena_modules"
Reloaded(k) == stack[1].code[k][2]
Waiting(m) == Reloading /\ \E k \in 1 .. Len(stack[1].code) : k >= stack[1].next /\ Reloaded(k) = m

LibrariesIn == \A m \in LibraryModules : InSysModules(m)

\* Only a module that is reloaded is both imported and being executed.
LoadedOrStack == \A m \in Modules : OnStack(m) => (Loaded(m) <=> Reloading)

\* What is reloaded: modules that are loaded, each once, after those it took names of.
ReloadCode ==
   Reloading =>
      /\ \A i, j \in 1 .. Len(stack[1].code) : Reloaded(i) = Reloaded(j) => i = j
      /\ \A i \in 1 .. Len(stack[1].code) : Loaded(Reloaded(i))
      /\ \A i \in 1 .. Len(stack[1].code) : \A e \in Edges :
            e[1] = Reloaded(i) /\ e[2] /= "object_library" =>
               \E j \in 1 .. Len(stack[1].code) : j < i /\ Reloaded(j) = e[2]
      /\ \A m \in Decorated : Loaded(m) => LibrariesIn

\* A reloaded module imports nothing, as everything it imports is in sys.modules.
ReloadShape ==
   Reloading =>
      /\ Len(stack) <= 3
      /\ Len(stack) >= 2 => stack[1].next > 1 /\ stack[2].name = Reloaded(stack[1].next - 1)
      /\ Len(stack) = 3 => stack[3].name = "ensure" /\ stack[2].name \in Decorated

Shape == Typed /\ StackOf(stack) /\ LoadedOrStack /\ ReloadCode /\ ReloadShape

\* The i-th statement of m has run, in this import or since the reload; m's import,
\* or its reload, has ended.
Complete(m) == Loaded(m) /\ ~OnStack(m) /\ ~Waiting(m)
Ran(m, i) == Complete(m) \/ \E j \in 1 .. Len(stack) : stack[j].name = m /\ i < stack[j].next

Bound ==
   \A m \in Modules :
      /\ generation[m] > 0 => InSysModules(m)
      /\ m \in Binders /\ Loaded(m) => generation[m] > 0
      /\ \A i \in 1 .. Len(Statements(m)) : Statements(m)[i][1] = "bind" /\ Ran(m, i) => generation[m] > 0
      /\ generation[m] > 0 /\ OnStack(m) /\ ~Loaded(m) =>
            \E i \in 1 .. Len(Statements(m)) : Statements(m)[i][1] = "bind" /\ Ran(m, i)

\* What can be executed within the import of a module whose name is not bound yet.
Within(n) ==
   CASE n = "register" -> {"asset_registry"}
     [] n = "object_library" -> {"object", "register", "asset_registry"}
     [] n = "franka" -> (Modules \cup {"ensure"}) \ {"franka", "agibot", "droid", "embodiments"}
     [] OTHER -> {}

AboveUnbound ==
   \A i, j \in 1 .. Len(stack) :
      i < j /\ stack[i].name \in Binders /\ generation[stack[i].name] = 0 =>
         stack[j].name \in Within(stack[i].name)

RobotsByPackage == \A m \in Robots : InSysModules(m) => InSysModules("embodiments")

ImportsDone ==
   \A m \in Modules : \A i \in 1 .. Len(Statements(m)) :
      Statements(m)[i][1] \in {"import", "from"} /\ (Loaded(m) \/ Ran(m, i)) =>
         InSysModules(Statements(m)[i][2])

\* A name that was taken is of a module whose import has ended, and is still its name.
Taken ==
   /\ \A m \in Modules : \A i \in 1 .. Len(Statements(m)) :
         Statements(m)[i][1] = "from" /\ Statements(m)[i][2] /= "object_library" /\ Ran(m, i) =>
            /\ Complete(Statements(m)[i][2])
            /\ holds[<<m, Statements(m)[i][2]>>] = generation[Statements(m)[i][2]]
   /\ \A e \in Edges : ~InSysModules(e[1]) => holds[e] = 0

LoadedInOrder ==
   \A e \in Edges : e[2] /= "object_library" /\ Complete(e[1]) => Precedes(e[2], e[1], loaded)

RegisteredOnce ==
   \A m \in Decorated : \A i \in 1 .. Len(Statements(m)) :
      Statements(m)[i][1] = "decorate" /\ Ran(m, i) => <<Current, m>> \in registered /\ flag

FlagMeans == flag => LibrariesIn

EnsureProgress ==
   \A j \in 1 .. Len(stack) : stack[j].name = "ensure" =>
      \A i \in 1 .. 7 : i < stack[j].next => InSysModules(Libraries[i])
-----------------------------------------------------------------------------
(* Stacks *)

LEMMA PushedIs ==
   ASSUME NEW s \in Seq(FrameType), NEW f \in FrameType
   PROVE  /\ Append(s, f) \in Seq(FrameType) /\ Len(Append(s, f)) = Len(s) + 1
          /\ Append(s, f)[Len(s) + 1] = f
          /\ \A j \in 1 .. Len(s) : Append(s, f)[j] = s[j]
          /\ Append(s, f) # <<>> /\ (s = <<>> => Append(s, f) = <<f>>)
<1>1. s = <<>> => Append(s, f) = <<f>>
  OBVIOUS
<1>2. QED
  BY <1>1, AppendProperties

LEMMA FrameFields ==
   ASSUME NEW s \in Seq(FrameType), NEW j \in 1 .. Len(s)
   PROVE  /\ s[j] \in FrameType /\ s[j].name \in Names /\ s[j].next \in Nat
          /\ s[j].code \in Seq(Kinds \X Modules) /\ Len(s[j].code) \in Nat
<1>1. s[j] \in FrameType
  OBVIOUS
<1>2. QED
  BY <1>1 DEF FrameType

LEMMA AdvancedIs ==
   ASSUME stack \in Seq(FrameType), stack # <<>>
   PROVE  /\ Advanced \in Seq(FrameType) /\ Len(Advanced) = Len(stack) /\ Advanced # <<>>
          /\ \A j \in 1 .. Len(stack) :
                /\ Advanced[j].name = stack[j].name /\ Advanced[j].code = stack[j].code
                /\ j = Len(stack) => Advanced[j].next = stack[j].next + 1
                /\ j # Len(stack) => Advanced[j] = stack[j]
<1> DEFINE L == Len(stack)
           f == [stack[L] EXCEPT !.next = stack[L].next + 1]
<1>1. L \in 1 .. L
  OBVIOUS
<1>2. stack[L] \in FrameType /\ stack[L].next + 1 \in Nat
  BY <1>1, FrameFields
<1>3. Advanced = [stack EXCEPT ![L] = f]
  BY DEF Advanced
<1>4. f \in FrameType /\ f.name = stack[L].name /\ f.code = stack[L].code /\ f.next = stack[L].next + 1
  BY <1>2 DEF FrameType
<1> HIDE DEF f
<1>5. Advanced \in Seq(FrameType) /\ Len(Advanced) = L /\ Advanced # <<>>
  BY <1>1, <1>3, <1>4
<1>6. \A j \in 1 .. L : Advanced[j] = IF j = L THEN f ELSE stack[j]
  BY <1>1, <1>3
<1>7. QED
  BY <1>4, <1>5, <1>6

LEMMA PoppedIs ==
   ASSUME NEW s \in Seq(FrameType), s # <<>>
   PROVE  /\ SubSeq(s, 1, Len(s) - 1) \in Seq(FrameType) /\ Len(SubSeq(s, 1, Len(s) - 1)) = Len(s) - 1
          /\ \A j \in 1 .. Len(s) - 1 : SubSeq(s, 1, Len(s) - 1)[j] = s[j]
          /\ Len(s) \in Nat \ {0}
<1>1. Len(s) \in Nat \ {0}
  OBVIOUS
<1> DEFINE n == Len(s) - 1
<1>2. n \in Int /\ 1 \in Int /\ \A i \in 1 .. n : s[i] \in FrameType
  BY <1>1
<1> HIDE DEF n
<1>3. /\ SubSeq(s, 1, n) \in Seq(FrameType)
      /\ Len(SubSeq(s, 1, n)) = IF 1 <= n THEN n - 1 + 1 ELSE 0
      /\ \A i \in 1 .. n - 1 + 1 : SubSeq(s, 1, n)[i] = s[1 + i - 1]
  BY <1>2, SubSeqProperties
<1>4. n - 1 + 1 = n /\ n \in Nat /\ n = Len(s) - 1 /\ \A i \in 1 .. n : 1 + i - 1 = i
  BY <1>1 DEF n
<1>5. /\ SubSeq(s, 1, n) \in Seq(FrameType) /\ Len(SubSeq(s, 1, n)) = n
      /\ \A i \in 1 .. n : SubSeq(s, 1, n)[i] = s[i]
  BY <1>3, <1>4
<1>6. QED
  BY <1>1, <1>4, <1>5

LEMMA OnStackIs ==
   ASSUME StackOf(stack), NEW m
   PROVE  OnStack(m) <=> \E j \in 1 .. Len(stack) : stack[j].name = m
  BY DEF StackOf, OnStack

\* The statement that is executed.
LEMMA Executed ==
   ASSUME Shape, NEW kind, Executing(kind)
   PROVE  /\ stack # <<>> /\ Len(stack) \in 1 .. Len(stack) /\ Top \in FrameType /\ Top = stack[Len(stack)]
          /\ Top.next \in 1 .. Len(Top.code) /\ Operand \in Modules
          /\ Top.code[Top.next] = <<kind, Operand>> /\ FrameOf(Top, Len(stack))
          /\ kind = "reload" <=> Top.name = "reload_arena_modules"
<1>1. /\ stack \in Seq(FrameType) /\ stack # <<>>
      /\ Top.next <= Len(Top.code) /\ Top.code[Top.next][1] = kind
  BY DEF Shape, StackOf, Executing
<1>2. Len(stack) \in 1 .. Len(stack) /\ Top = stack[Len(stack)]
  BY <1>1 DEF Top
<1>9. Top \in FrameType
  BY <1>1, <1>2
<1>10. FrameOf(Top, Len(stack)) /\ Top.next \in 1 .. Len(Top.code) + 1
  BY <1>2 DEF Shape, StackOf
<1>3. Top \in FrameType /\ FrameOf(Top, Len(stack)) /\ Top.next \in 1 .. Len(Top.code)
  <2>1. Top.code \in Seq(Kinds \X Modules)
    BY <1>9 DEF FrameType
  <2>2. QED
    BY <1>1, <1>9, <1>10, <2>1
<1>4. Top.code \in Seq(Kinds \X Modules)
  BY <1>3 DEF FrameType
<1>5. Top.code[Top.next] \in Kinds \X Modules
  BY <1>3, <1>4
<1>6. Top.code[Top.next] = <<kind, Operand>> /\ Operand \in Modules
  BY <1>1, <1>5 DEF Operand
<1>7. kind = "reload" <=> Top.name = "reload_arena_modules"
  <2>1. CASE Top.name \in Modules /\ Top.code = Statements(Top.name)
    <3>1. Statements(Top.name) \in Seq(Ops \X Modules)
      BY <2>1, StatementsAre DEF Described
    <3>2. kind \in Ops
      BY <1>1, <1>3, <2>1, <3>1
    <3>3. QED
      BY <2>1, <3>2, ModulesAre DEF Ops, LibraryModules, Robots
  <2>2. CASE Top.name = "ensure" /\ Top.code = Ensure.code
    <3>1. kind \in {"import", "flag"}
      BY <1>1, <1>3, <2>2, EnsureIs
    <3>2. QED
      BY <2>2, <3>1
  <2>3. CASE Top.name = "reload_arena_modules" /\ \A i \in 1 .. Len(Top.code) : Top.code[i][1] = "reload"
    BY <1>1, <1>3, <2>3
  <2>4. QED
    BY <1>3, <2>1, <2>2, <2>3 DEF FrameOf
<1>8. QED
  BY <1>1, <1>2, <1>3, <1>6, <1>7

\* A statement of ensure_assets_registered, or of a module.
LEMMA ExecutedBy ==
   ASSUME Shape, NEW kind, Executing(kind), kind # "reload"
   PROVE  \/ /\ Top.name \in Modules /\ Top.code = Statements(Top.name) /\ Statements(Top.name) \in Seq(Ops \X Modules)
             /\ Top.next \in 1 .. Len(Statements(Top.name))
             /\ Statements(Top.name)[Top.next] = <<kind, Operand>>
             /\ kind \in Ops
          \/ /\ Top.name = "ensure" /\ Top.code = Ensure.code /\ Len(Top.code) = 8
             /\ \/ kind = "flag" /\ Top.next = 8
                \/ kind = "import" /\ Top.next \in 1 .. 7 /\ Operand = Libraries[Top.next]
<1>1. /\ Top.next \in 1 .. Len(Top.code) /\ Top.code[Top.next] = <<kind, Operand>>
      /\ FrameOf(Top, Len(stack)) /\ Top.name # "reload_arena_modules"
  BY Executed
<1>2. CASE Top.name \in Modules /\ Top.code = Statements(Top.name)
  <2>1. Statements(Top.name) \in Seq(Ops \X Modules)
    BY <1>2, StatementsAre DEF Described
  <2>2. kind \in Ops
    BY <1>1, <1>2, <2>1
  <2>3. QED
    BY <1>1, <1>2, <2>1, <2>2
<1>3. CASE Top.name = "ensure" /\ Top.code = Ensure.code
  <2>1. Len(Top.code) = 8 /\ Top.next \in 1 .. 8
    BY <1>1, <1>3, EnsureIs
  <2>2. CASE Top.next = 8
    BY <1>1, <1>3, <2>1, <2>2, EnsureIs
  <2>3. CASE Top.next \in 1 .. 7
    <3>1. Top.code[Top.next] = <<"import", Libraries[Top.next]>>
      BY <1>3, <2>3, EnsureIs
    <3>2. kind = "import" /\ Operand = Libraries[Top.next]
      BY <1>1, <3>1
    <3>3. QED
      BY <1>3, <2>1, <2>3, <3>2
  <2>4. QED
    BY <2>1, <2>2, <2>3
<1>4. QED
  BY <1>1, <1>2, <1>3 DEF FrameOf

-----------------------------------------------------------------------------
(* What an action does to the stack, and with it to what has run *)

\* Nothing changes for the modules that wait to be reloaded.
LEMMA SameReload ==
   ASSUME Reloading' <=> Reloading, Reloading => stack'[1] = stack[1],
          \A m \in Modules : Loaded(m)' <=> Loaded(m),
          \A m \in Modules : InSysModules(m) => InSysModules(m)',
          Shape
   PROVE  ReloadCode' /\ \A m : Waiting(m)' <=> Waiting(m)
<1>1. \A m : Waiting(m)' <=> Waiting(m)
  BY DEF Waiting, Reloaded
<1>2. ReloadCode'
  <2> SUFFICES ASSUME Reloading
               PROVE  /\ \A i, j \in 1 .. Len(stack[1].code) : Reloaded(i)' = Reloaded(j)' => i = j
                      /\ \A i \in 1 .. Len(stack[1].code) : Loaded(Reloaded(i))'
                      /\ \A i \in 1 .. Len(stack[1].code) : \A e \in Edges :
                            e[1] = Reloaded(i)' /\ e[2] /= "object_library" =>
                               \E j \in 1 .. Len(stack[1].code) : j < i /\ Reloaded(j)' = e[2]
                      /\ \A m \in Decorated : Loaded(m)' => LibrariesIn'
    BY DEF ReloadCode
  <2>1. ReloadCode /\ \A i : Reloaded(i)' = Reloaded(i)
    BY DEF Shape, Reloaded
  <2>2. \A i \in 1 .. Len(stack[1].code) : Reloaded(i) \in Modules
    <3>1. stack[1] \in FrameType
      BY DEF Shape, StackOf, Reloading
    <3>2. stack[1].code \in Seq(Kinds \X Modules)
      BY <3>1 DEF FrameType
    <3>3. QED
      BY <3>2 DEF Reloaded
  <2>3. \A i, j \in 1 .. Len(stack[1].code) : Reloaded(i)' = Reloaded(j)' => i = j
    BY <2>1 DEF ReloadCode
  <2>4. \A i \in 1 .. Len(stack[1].code) : Loaded(Reloaded(i))'
    <3>1. TAKE i \in 1 .. Len(stack[1].code)
    <3>2. Loaded(Reloaded(i)) /\ Reloaded(i) \in Modules /\ Reloaded(i)' = Reloaded(i)
      BY <2>1, <2>2 DEF ReloadCode
    <3>3. QED
      BY <3>2 DEF Loaded
  <2>5. \A i \in 1 .. Len(stack[1].code) : \A e \in Edges :
           e[1] = Reloaded(i)' /\ e[2] /= "object_library" =>
              \E j \in 1 .. Len(stack[1].code) : j < i /\ Reloaded(j)' = e[2]
    BY <2>1 DEF ReloadCode
  <2>6. \A m \in Decorated : Loaded(m)' => LibrariesIn'
    <3>1. LibraryModules \subseteq Modules /\ Decorated \subseteq Modules
      BY ModulesAre DEF Decorated
    <3>2. LibrariesIn => LibrariesIn'
      BY <3>1 DEF LibrariesIn
    <3>3. QED
      BY <2>1, <3>1, <3>2 DEF ReloadCode
  <2>7. QED
    BY <2>3, <2>4, <2>5, <2>6
<1>3. QED
  BY <1>1, <1>2

LEMMA AdvanceShape ==
   ASSUME Shape, NEW kind, Executing(kind), kind # "reload",
          stack' = Advanced, loaded' = loaded, Typed'
   PROVE  /\ Shape' /\ (Reloading' <=> Reloading)
          /\ \A m : (OnStack(m)' <=> OnStack(m)) /\ (Loaded(m)' <=> Loaded(m)) /\ (Complete(m)' <=> Complete(m))
          /\ \A m : InSysModules(m)' <=> InSysModules(m)
          /\ \A m : \A i \in Nat : Ran(m, i)' <=> Ran(m, i) \/ (m = Top.name /\ i = Top.next)
<1> DEFINE L == Len(stack)
<1>1. /\ stack # <<>> /\ L \in 1 .. L /\ Top = stack[L] /\ Top.next \in 1 .. Len(Top.code)
      /\ Top.name # "reload_arena_modules"
  BY Executed
<1>2. stack \in Seq(FrameType) /\ StackOf(stack)
  BY DEF Shape, StackOf
<1>3. /\ stack' \in Seq(FrameType) /\ Len(stack') = L /\ stack' # <<>>
      /\ \A j \in 1 .. L :
            /\ stack'[j].name = stack[j].name /\ stack'[j].code = stack[j].code
            /\ j = L => stack'[j].next = stack[j].next + 1
            /\ j # L => stack'[j] = stack[j]
  BY <1>1, <1>2, AdvancedIs
<1>4. \A j \in 1 .. L : stack[j].next \in Nat /\ Len(stack[j].code) \in Nat
  BY <1>2, FrameFields
<1>5. StackOf(stack')
  <2>1. \A j \in 1 .. L : FrameOf(stack'[j], j)
    BY <1>2, <1>3 DEF StackOf, FrameOf
  <2>2. \A j \in 1 .. L : stack'[j].next \in 1 .. Len(stack'[j].code) + 1
    <3>1. TAKE j \in 1 .. L
    <3>2. stack[j].next \in 1 .. Len(stack[j].code) + 1 /\ stack'[j].code = stack[j].code
      BY <1>2, <1>3 DEF StackOf
    <3>3. CASE j = L
      <4>1. stack'[j].next = stack[j].next + 1 /\ stack[j].next \in 1 .. Len(stack[j].code)
        BY <1>1, <1>3, <3>3
      <4>2. QED
        BY <1>4, <3>2, <4>1
    <3>4. CASE j # L
      BY <1>3, <3>2, <3>4
    <3>5. QED
      BY <3>3, <3>4
  <2>3. \A j \in 1 .. L : j < L => stack'[j].next <= Len(stack'[j].code) \/ stack'[j].name = "reload_arena_modules"
    BY <1>2, <1>3 DEF StackOf
  <2>4. \A i, j \in 1 .. L : stack'[i].name = stack'[j].name /\ stack'[i].name \in Modules => i = j
    BY <1>2, <1>3 DEF StackOf
  <2>5. QED
    BY <1>3, <2>1, <2>2, <2>3, <2>4 DEF StackOf
<1>6. \A m : OnStack(m)' <=> OnStack(m)
  <2>1. \A m : OnStack(m) <=> \E j \in 1 .. L : stack[j].name = m
    BY <1>2, OnStackIs
  <2>2. DOMAIN stack' = 1 .. L
    BY <1>3
  <2>3. \A m : OnStack(m)' <=> \E j \in 1 .. L : stack'[j].name = m
    BY <2>2 DEF OnStack
  <2>4. QED
    BY <1>3, <2>1, <2>3
<1>7. \A m : (Loaded(m)' <=> Loaded(m)) /\ (InSysModules(m)' <=> InSysModules(m))
  BY <1>6 DEF Loaded, InSysModules
<1>8. 1 \in 1 .. L /\ (Reloading' <=> Reloading)
  BY <1>1, <1>3 DEF Reloading
<1>9. Reloading => stack'[1] = stack[1]
  <2> SUFFICES ASSUME Reloading
               PROVE  stack'[1] = stack[1]
    OBVIOUS
  <2>1. L # 1
    BY <1>1 DEF Reloading
  <2>2. stack'[1] \in FrameType /\ stack[1] \in FrameType
    BY <1>2, <1>3, <1>8
  <2>3. /\ stack'[1].name = stack[1].name /\ stack'[1].code = stack[1].code
        /\ stack'[1].next = stack[1].next
    BY <1>3, <1>8, <2>1
  <2>4. QED
    BY <2>2, <2>3 DEF FrameType
<1>10. ReloadCode' /\ \A m : Waiting(m)' <=> Waiting(m)
  BY <1>7, <1>8, <1>9, SameReload
<1>11. \A m : Complete(m)' <=> Complete(m)
  BY <1>6, <1>7, <1>10 DEF Complete
<1>12. ASSUME NEW m, NEW i \in Nat
       PROVE  Ran(m, i)' <=> Ran(m, i) \/ (m = Top.name /\ i = Top.next)
  <2>1. (\E j \in 1 .. L : stack'[j].name = m /\ i < stack'[j].next) <=>
           \/ \E j \in 1 .. L : stack[j].name = m /\ i < stack[j].next
           \/ m = Top.name /\ i = Top.next
    <3>1. ASSUME NEW j \in 1 .. L, stack'[j].name = m, i < stack'[j].next
          PROVE  \/ \E h \in 1 .. L : stack[h].name = m /\ i < stack[h].next
                 \/ m = Top.name /\ i = Top.next
      <4>1. CASE j = L
        BY <1>1, <1>3, <1>4, <3>1, <4>1
      <4>2. CASE j # L
        BY <1>3, <3>1, <4>2
      <4>3. QED
        BY <4>1, <4>2
    <3>2. ASSUME NEW j \in 1 .. L, stack[j].name = m, i < stack[j].next
          PROVE  stack'[j].name = m /\ i < stack'[j].next
      BY <1>3, <1>4, <3>2
    <3>3. m = Top.name /\ i = Top.next => stack'[L].name = m /\ i < stack'[L].next
      BY <1>1, <1>3, <1>4
    <3>4. QED
      BY <1>1, <3>1, <3>2, <3>3
  <2>2. QED
    BY <1>3, <1>11, <2>1 DEF Ran
<1>13. LoadedOrStack'
  BY <1>6, <1>7, <1>8 DEF Shape, LoadedOrStack
<1>14. ReloadShape'
  <2>1. Reloading => Reloaded(stack[1].next - 1)' = Reloaded(stack[1].next - 1)
    BY <1>9 DEF Reloaded
  <2>2. QED
    BY <1>3, <1>8, <1>9, <2>1 DEF Shape, ReloadShape, Reloaded
<1>15. QED
  BY <1>5, <1>6, <1>7, <1>8, <1>10, <1>11, <1>12, <1>13, <1>14 DEF Shape

\* A module that is imported for the first time, or ensure_assets_registered.
LEMMA PushShape ==
   ASSUME Shape, NEW f \in FrameType, f.next = 1, stack' = Append(stack, f), loaded' = loaded, Typed',
          stack # <<>> => Top.next <= Len(Top.code),
          \/ f.name \in Modules /\ f.code = Statements(f.name) /\ ~InSysModules(f.name) /\ ~Reloading
          \/ /\ f.name = "ensure" /\ f.code = Ensure.code
             /\ Reloading => Len(stack) = 2 /\ stack[2].name \in Decorated
   PROVE  /\ Shape' /\ (Reloading' <=> Reloading)
          /\ \A m : (OnStack(m)' <=> OnStack(m) \/ m = f.name) /\ (Loaded(m)' <=> Loaded(m))
          /\ \A m \in Modules : Complete(m)' <=> Complete(m)
          /\ \A m \in Modules : \A i \in Nat \ {0} : Ran(m, i)' <=> Ran(m, i)
          /\ Len(stack') = Len(stack) + 1 /\ stack'[Len(stack) + 1] = f
          /\ \A j \in 1 .. Len(stack) : stack'[j] = stack[j]
<1> DEFINE L == Len(stack)
<1>1. stack \in Seq(FrameType) /\ StackOf(stack) /\ L \in Nat
  BY DEF Shape, StackOf
<1>2. /\ stack' \in Seq(FrameType) /\ Len(stack') = L + 1 /\ stack' # <<>>
      /\ stack'[L + 1] = f /\ \A j \in 1 .. L : stack'[j] = stack[j]
  BY <1>1, PushedIs
<1>3. f.name # "reload_arena_modules" /\ "ensure" \notin Modules /\ "reload_arena_modules" \notin Modules
  BY ModulesAre DEF LibraryModules, Robots
<1>4. \A m : OnStack(m) <=> \E j \in 1 .. L : stack[j].name = m
  BY <1>1, OnStackIs
<1>5. \A m : OnStack(m)' <=> OnStack(m) \/ m = f.name
  <2>1. DOMAIN stack' = 1 .. L + 1
    BY <1>2
  <2>2. \A m : OnStack(m)' <=> \E j \in 1 .. L + 1 : stack'[j].name = m
    BY <2>1 DEF OnStack
  <2>3. QED
    BY <1>1, <1>2, <1>4, <2>2
<1>6. \A m : Loaded(m)' <=> Loaded(m)
  BY DEF Loaded
<1>7. /\ f.code \in Seq(Kinds \X Modules) /\ Len(f.code) \in Nat /\ \A j : FrameOf(f, j)
  BY DEF FrameType, FrameOf
<1>8. StackOf(stack')
  <2>1. \A j \in 1 .. L : FrameOf(stack'[j], j) /\ stack'[j].next \in 1 .. Len(stack'[j].code) + 1
    BY <1>1, <1>2 DEF StackOf
  <2>2. \A j \in 1 .. L : stack'[j].next <= Len(stack'[j].code) \/ stack'[j].name = "reload_arena_modules"
    <3>1. TAKE j \in 1 .. L
    <3>2. CASE j = L
      BY <1>1, <1>2, <3>2 DEF Top
    <3>3. CASE j < L
      BY <1>1, <1>2, <3>3 DEF StackOf
    <3>4. QED
      BY <1>1, <3>2, <3>3
  <2>3. \A j \in 1 .. L : f.name \in Modules => stack[j].name # f.name
    BY <1>3, <1>4 DEF InSysModules
  <2>4. \A i, j \in 1 .. L + 1 : stack'[i].name = stack'[j].name /\ stack'[i].name \in Modules => i = j
    BY <1>1, <1>2, <2>3 DEF StackOf
  <2>5. FrameOf(f, L + 1) /\ f.next \in 1 .. Len(f.code) + 1
    BY <1>7
  <2>6. \A j \in 1 .. L + 1 : j = L + 1 \/ (j \in 1 .. L /\ j < L + 1)
    BY <1>1
  <2>7. \A j \in 1 .. L + 1 :
           /\ FrameOf(stack'[j], j)
           /\ stack'[j].next \in 1 .. Len(stack'[j].code) + 1
           /\ j < L + 1 => stack'[j].next <= Len(stack'[j].code) \/ stack'[j].name = "reload_arena_modules"
    BY <1>2, <2>1, <2>2, <2>5, <2>6
  <2>8. QED
    BY <1>2, <2>4, <2>7 DEF StackOf
<1>9. Reloading' <=> Reloading
  <2>1. CASE stack = <<>>
    BY <1>1, <1>2, <1>3, <2>1 DEF Reloading
  <2>2. CASE stack # <<>>
    <3>1. 1 \in 1 .. L
      BY <1>1, <2>2
    <3>2. QED
      BY <1>2, <2>2, <3>1 DEF Reloading
  <2>3. QED
    BY <2>1, <2>2
<1>10. Reloading => stack'[1] = stack[1]
  BY <1>1, <1>2 DEF Reloading
<1>11. \A m \in Modules : InSysModules(m) => InSysModules(m)'
  BY <1>5, <1>6 DEF InSysModules
<1>12. ReloadCode' /\ \A m : Waiting(m)' <=> Waiting(m)
  BY <1>6, <1>9, <1>10, <1>11, SameReload
<1>13. \A m \in Modules : Complete(m)' <=> Complete(m)
  BY <1>3, <1>5, <1>6, <1>12 DEF Complete, InSysModules
<1>14. ASSUME NEW m \in Modules, NEW i \in Nat \ {0}
       PROVE  Ran(m, i)' <=> Ran(m, i)
  <2>1. (\E j \in 1 .. L + 1 : stack'[j].name = m /\ i < stack'[j].next) <=>
           \E j \in 1 .. L : stack[j].name = m /\ i < stack[j].next
    BY <1>1, <1>2
  <2>2. QED
    BY <1>2, <1>13, <2>1 DEF Ran
<1>15. LoadedOrStack'
  BY <1>3, <1>5, <1>6, <1>9 DEF Shape, LoadedOrStack, InSysModules
<1>16. ReloadShape'
  <2> SUFFICES ASSUME Reloading
               PROVE  ReloadShape'
    BY <1>9 DEF ReloadShape
  <2>1. L = 2 /\ stack[2].name \in Decorated /\ f.name = "ensure"
    OBVIOUS
  <2>2. stack[1].next > 1 /\ stack[2].name = Reloaded(stack[1].next - 1)
    BY <1>1, <2>1 DEF Shape, ReloadShape
  <2>3. stack'[1] = stack[1] /\ stack'[2] = stack[2] /\ stack'[3] = f /\ Len(stack') = 3
    BY <1>2, <2>1
  <2>4. QED
    BY <2>1, <2>2, <2>3 DEF ReloadShape, Reloaded
<1>17. QED
  BY <1>2, <1>5, <1>6, <1>8, <1>9, <1>12, <1>13, <1>14, <1>15, <1>16 DEF Shape

\* The next module is reloaded.
LEMMA ReloadPushShape ==
   ASSUME Shape, ReloadStatement, Typed'
   PROVE  /\ Shape' /\ Reloading /\ Reloading'
          /\ \A m \in Modules : /\ OnStack(m) => FALSE
                                /\ (OnStack(m)' <=> m = Operand) /\ (Loaded(m)' <=> Loaded(m))
                                /\ Complete(m)' <=> Complete(m)
          /\ \A m \in Modules : InSysModules(m)' <=> InSysModules(m)
          /\ \A m \in Modules : \A i \in Nat \ {0} : Ran(m, i)' <=> Ran(m, i)
          /\ Len(stack') = 2 /\ stack'[1].name = "reload_arena_modules" /\ stack'[2].name = Operand
<1> DEFINE f == Frame(Operand, Statements(Operand))
<1>1. Executing("reload") /\ stack' = Append(Advanced, f) /\ loaded' = loaded
  BY DEF ReloadStatement
<1>2. /\ stack # <<>> /\ Len(stack) \in 1 .. Len(stack) /\ Top = stack[Len(stack)]
      /\ Top.next \in 1 .. Len(Top.code) /\ Operand \in Modules
      /\ Top.code[Top.next] = <<"reload", Operand>> /\ FrameOf(Top, Len(stack))
      /\ Top.name = "reload_arena_modules"
  BY <1>1, Executed
<1>3. stack \in Seq(FrameType) /\ StackOf(stack)
  BY DEF Shape, StackOf
<1>4. "reload_arena_modules" \notin Modules /\ "ensure" \notin Modules
  BY ModulesAre DEF LibraryModules, Robots
<1>5. Len(stack) = 1
  BY <1>2, <1>4 DEF FrameOf
<1>26. stack[1] \in FrameType /\ Len(stack[1].code) \in Nat /\ stack[1].next \in 1 .. Len(stack[1].code)
  BY <1>2, <1>3, <1>5, FrameFields
<1>27. PICK k \in 1 .. Len(stack[1].code) : k = stack[1].next
  BY <1>26
<1>6. /\ stack[1].name = "reload_arena_modules" /\ stack[1].code[k] = <<"reload", Operand>>
      /\ k \in Nat /\ k \in 1 .. Len(stack[1].code) /\ FrameOf(stack[1], 1) /\ stack[1].next = k
      /\ stack[1] \in FrameType /\ Len(stack[1].code) \in Nat
  BY <1>2, <1>5, <1>26, <1>27
<1>7. Operand = Reloaded(k) /\ Reloading
  BY <1>2, <1>6 DEF Reloaded, Reloading
<1>8. f \in FrameType /\ f.name = Operand /\ f.code = Statements(Operand) /\ f.next = 1
  <2>1. Statements(Operand) \in Seq(Ops \X Modules)
    BY <1>2, StatementsAre DEF Described
  <2>2. Statements(Operand) \in Seq(Kinds \X Modules)
    BY <2>1 DEF Kinds
  <2>3. QED
    BY <1>2, <2>2 DEF Frame, FrameType, Names
<1> HIDE DEF f
<1>9. /\ Advanced \in Seq(FrameType) /\ Len(Advanced) = 1 /\ Advanced[1].name = "reload_arena_modules"
      /\ Advanced[1].code = stack[1].code /\ Advanced[1].next = k + 1
  BY <1>2, <1>3, <1>5, <1>6, AdvancedIs
<1>10. /\ stack' \in Seq(FrameType) /\ Len(stack') = 2 /\ stack' # <<>> /\ stack'[2] = f
       /\ stack'[1].name = "reload_arena_modules" /\ stack'[1].code = stack[1].code /\ stack'[1].next = k + 1
  <2>1. 1 + 1 = 2 /\ 1 \in 1 .. 1
    OBVIOUS
  <2>2. /\ Append(Advanced, f) \in Seq(FrameType) /\ Len(Append(Advanced, f)) = Len(Advanced) + 1
        /\ Append(Advanced, f)[Len(Advanced) + 1] = f /\ Append(Advanced, f) # <<>>
        /\ \A j \in 1 .. Len(Advanced) : Append(Advanced, f)[j] = Advanced[j]
    BY <1>8, <1>9, PushedIs
  <2>3. QED
    BY <1>1, <1>9, <2>1, <2>2
<1>11. /\ \A m : OnStack(m) <=> m = "reload_arena_modules"
       /\ \A m : OnStack(m)' <=> m \in {"reload_arena_modules", Operand}
  <2>1. \A m : OnStack(m) <=> \E j \in 1 .. Len(stack) : stack[j].name = m
    BY <1>3, OnStackIs
  <2>2. DOMAIN stack' = 1 .. 2
    BY <1>10
  <2>3. \A m : OnStack(m)' <=> \E j \in 1 .. 2 : stack'[j].name = m
    BY <2>2 DEF OnStack
  <2>4. QED
    BY <1>5, <1>6, <1>8, <1>10, <2>1, <2>3
<1>12. \A m : Loaded(m)' <=> Loaded(m)
  BY <1>1 DEF Loaded
<1>13. Loaded(Operand)
  BY <1>6, <1>7 DEF Shape, ReloadCode
<1>14. \A m \in Modules : InSysModules(m)' <=> InSysModules(m)
  BY <1>4, <1>11, <1>12, <1>13 DEF InSysModules
<1>15. Reloading'
  BY <1>10 DEF Reloading
<1>16. /\ \A i : Reloaded(i)' = Reloaded(i)
       /\ Len(stack'[1].code) = Len(stack[1].code)
  BY <1>10 DEF Reloaded
<1>17. \A m : m # Operand => (Waiting(m)' <=> Waiting(m))
  <2>1. \A i \in 1 .. Len(stack[1].code) : i >= k + 1 <=> i >= k /\ i # k
    BY <1>6
  <2>2. \A m : Waiting(m) <=> \E i \in 1 .. Len(stack[1].code) : i >= k /\ Reloaded(i) = m
    BY <1>6, <1>7 DEF Waiting
  <2>3. \A m : Waiting(m)' <=> \E i \in 1 .. Len(stack[1].code) : i >= k + 1 /\ Reloaded(i)' = m
    BY <1>10, <1>15 DEF Waiting
  <2>4. QED
    BY <1>7, <1>16, <2>1, <2>2, <2>3
<1>18. Waiting(Operand)
  BY <1>6, <1>7 DEF Waiting
<1>19. \A m \in Modules : Complete(m)' <=> Complete(m)
  BY <1>4, <1>11, <1>12, <1>17, <1>18 DEF Complete
<1>20. ASSUME NEW m \in Modules, NEW i \in Nat \ {0}
       PROVE  Ran(m, i)' <=> Ran(m, i)
  <2>1. ~ \E j \in 1 .. Len(stack) : stack[j].name = m /\ i < stack[j].next
    BY <1>4, <1>5, <1>6
  <2>2. ~ \E j \in 1 .. Len(stack') : stack'[j].name = m /\ i < stack'[j].next
    BY <1>4, <1>8, <1>10
  <2>3. QED
    BY <1>19, <2>1, <2>2 DEF Ran
<1>21. StackOf(stack')
  <2>1. FrameOf(stack'[1], 1)
    BY <1>4, <1>6, <1>10 DEF FrameOf
  <2>2. FrameOf(stack'[2], 2)
    BY <1>2, <1>8, <1>10 DEF FrameOf
  <2>3. k + 1 \in 1 .. Len(stack[1].code) + 1
    BY <1>6
  <2>4. 1 \in 1 .. Len(f.code) + 1
    BY <1>8 DEF FrameType
  <2>5. \A j \in 1 .. 2 : j = 1 \/ j = 2
    OBVIOUS
  <2>6. \A j \in 1 .. 2 :
          /\ FrameOf(stack'[j], j)
          /\ stack'[j].next \in 1 .. Len(stack'[j].code) + 1
          /\ j < 2 => stack'[j].next <= Len(stack'[j].code) \/ stack'[j].name = "reload_arena_modules"
    BY <1>8, <1>10, <2>1, <2>2, <2>3, <2>4, <2>5
  <2>7. \A i, j \in 1 .. 2 : stack'[i].name = stack'[j].name /\ stack'[i].name \in Modules => i = j
    BY <1>4, <1>8, <1>10, <2>5
  <2>8. QED
    BY <1>10, <2>6, <2>7 DEF StackOf
<1>22. LoadedOrStack'
  BY <1>4, <1>11, <1>12, <1>13, <1>15 DEF LoadedOrStack
<1>23. ReloadCode'
  <2>1. ReloadCode
    BY DEF Shape
  <2>2. LibrariesIn => LibrariesIn'
    BY <1>14, ModulesAre DEF LibrariesIn
  <2>3. /\ \A i, j \in 1 .. Len(stack[1].code) : Reloaded(i) = Reloaded(j) => i = j
        /\ \A i \in 1 .. Len(stack[1].code) : Loaded(Reloaded(i))
        /\ \A i \in 1 .. Len(stack[1].code) : \A e \in Edges :
              e[1] = Reloaded(i) /\ e[2] /= "object_library" =>
                 \E j \in 1 .. Len(stack[1].code) : j < i /\ Reloaded(j) = e[2]
        /\ \A m \in Decorated : Loaded(m) => LibrariesIn
    BY <1>7, <2>1 DEF ReloadCode
  <2>4. \A i \in 1 .. Len(stack[1].code) : Loaded(Reloaded(i))'
    BY <1>1, <1>16, <2>3 DEF Loaded
  <2>5. QED
    BY <1>12, <1>16, <2>2, <2>3, <2>4 DEF ReloadCode
<1>24. ReloadShape'
  <2>1. k + 1 > 1 /\ k + 1 - 1 = k
    BY <1>6
  <2>2. stack'[2].name = Reloaded(k)'
    BY <1>7, <1>8, <1>10, <1>16
  <2>3. Len(stack') <= 3 /\ Len(stack') # 3
    BY <1>10
  <2>4. QED
    BY <1>10, <2>1, <2>2, <2>3 DEF ReloadShape, Reloaded
<1>25. QED
  BY <1>4, <1>7, <1>8, <1>10, <1>11, <1>12, <1>14, <1>15, <1>19, <1>20, <1>21, <1>22, <1>23, <1>24 DEF Shape

\* All modules are to be reloaded.
LEMMA ReloadStartShape ==
   ASSUME Shape, Reload, Typed', LoadedInOrder, \A m \in Decorated : Loaded(m) => LibrariesIn
   PROVE  /\ Shape' /\ Reloading' /\ ~Reloading /\ stack = <<>>
          /\ \A m \in Modules : /\ ~OnStack(m) /\ ~OnStack(m)' /\ (Loaded(m)' <=> Loaded(m))
                                /\ ~Complete(m)'
          /\ \A m \in Modules : InSysModules(m)' <=> InSysModules(m)
          /\ \A m \in Modules : \A i : ~Ran(m, i)'
          /\ Len(stack') = 1 /\ stack'[1].name = "reload_arena_modules"
<1> DEFINE f == Frame("reload_arena_modules", ReloadOrder)
           N == Len(loaded)
<1>1. stack = <<>> /\ stack' = <<f>> /\ loaded' = loaded
  BY DEF Reload, Idle
<1>2. loaded \in Seq(Modules) /\ N \in Nat /\ Distinct(loaded) /\ \A i \in 1 .. N : loaded[i] \in Modules
  BY DEF Shape, Typed
<1>3. ReloadOrder = [i \in 1 .. N |-> <<"reload", loaded[i]>>]
  BY DEF ReloadOrder, Reloads
<1>4. ReloadOrder \in Seq(Kinds \X Modules) /\ Len(ReloadOrder) = N
  BY <1>2, <1>3 DEF Kinds
<1>5. /\ f \in FrameType /\ f.name = "reload_arena_modules" /\ Len(f.code) = N /\ f.next = 1
      /\ \A i \in 1 .. N : f.code[i] = <<"reload", loaded[i]>>
  BY <1>3, <1>4 DEF Frame, FrameType, Names
<1> HIDE DEF f
<1>6. /\ stack' \in Seq(FrameType) /\ Len(stack') = 1 /\ stack' # <<>> /\ stack'[1] = f
  BY <1>1, <1>5
<1>7. "reload_arena_modules" \notin Modules
  BY ModulesAre DEF LibraryModules, Robots
<1>8. \A m \in Modules : ~OnStack(m) /\ ~OnStack(m)'
  <2>1. DOMAIN stack = {} /\ DOMAIN stack' = 1 .. 1
    BY <1>1, <1>6
  <2>2. QED
    BY <1>5, <1>6, <1>7, <2>1 DEF OnStack
<1>9. \A m \in Modules : Loaded(m)' <=> Loaded(m)
  BY <1>1 DEF Loaded
<1>10. \A m \in Modules : InSysModules(m)' <=> InSysModules(m)
  BY <1>8, <1>9 DEF InSysModules
<1>11. ~Reloading /\ Reloading'
  BY <1>1, <1>5, <1>6 DEF Reloading
<1>12. \A i \in 1 .. N : Reloaded(i)' = loaded[i]
  BY <1>5, <1>6 DEF Reloaded
<1>13. \A m : Loaded(m) <=> \E i \in 1 .. N : loaded[i] = m
  BY <1>2 DEF Loaded
<1>14. \A m \in Modules : ~Complete(m)'
  <2>1. \A m : Waiting(m)' <=> \E i \in 1 .. N : i >= 1 /\ Reloaded(i)' = m
    BY <1>5, <1>6, <1>11 DEF Waiting
  <2>2. \A m \in Modules : Loaded(m) => Waiting(m)'
    BY <1>2, <1>12, <1>13, <2>1
  <2>3. QED
    BY <1>9, <2>2 DEF Complete
<1>15. ASSUME NEW m \in Modules, NEW i
       PROVE  ~Ran(m, i)'
  <2>1. ~ \E j \in 1 .. Len(stack') : stack'[j].name = m /\ i < stack'[j].next
    BY <1>5, <1>6, <1>7
  <2>2. QED
    BY <1>14, <2>1 DEF Ran
<1>16. StackOf(stack')
  <2>1. FrameOf(f, 1) /\ f.next \in 1 .. Len(f.code) + 1
    BY <1>2, <1>5 DEF FrameOf
  <2>2. \A j \in 1 .. 1 : j = 1
    OBVIOUS
  <2>3. QED
    BY <1>6, <2>1, <2>2 DEF StackOf
<1>17. LoadedOrStack'
  BY <1>8 DEF LoadedOrStack
<1>18. ReloadCode'
  <2>1. \A i, j \in 1 .. N : Reloaded(i)' = Reloaded(j)' => i = j
    BY <1>2, <1>12 DEF Distinct
  <2>2. \A i \in 1 .. N : Loaded(Reloaded(i))'
    <3>1. TAKE i \in 1 .. N
    <3>2. DOMAIN loaded' = 1 .. N /\ loaded'[i] = Reloaded(i)'
      BY <1>1, <1>2, <1>12
    <3>3. QED
      BY <3>2 DEF Loaded
  <2>3. ASSUME NEW i \in 1 .. N, NEW e \in Edges, e[1] = Reloaded(i)', e[2] /= "object_library"
        PROVE  \E j \in 1 .. N : j < i /\ Reloaded(j)' = e[2]
    <3>1. loaded[i] = e[1] /\ e[1] \in Modules
      BY <1>2, <1>12, <2>3
    <3>2. Complete(e[1])
      BY <1>8, <1>11, <1>13, <3>1 DEF Complete, Waiting
    <3>3. Precedes(e[2], e[1], loaded)
      BY <2>3, <3>2 DEF LoadedInOrder
    <3>4. PICK j \in 1 .. N, l \in 1 .. N : j < l /\ loaded[j] = e[2] /\ loaded[l] = e[1]
      BY <3>3 DEF Precedes
    <3>5. l = i
      BY <1>2, <3>1, <3>4 DEF Distinct
    <3>6. QED
      BY <1>12, <3>4, <3>5
  <2>4. \A m \in Decorated : Loaded(m)' => LibrariesIn'
    <3>1. LibrariesIn => LibrariesIn'
      BY <1>10, ModulesAre DEF LibrariesIn
    <3>2. \A m \in Decorated : m \in Modules
      BY DEF Decorated
    <3>3. QED
      BY <1>9, <3>1, <3>2
  <2>5. Len(stack'[1].code) = N
    BY <1>5, <1>6
  <2>6. QED
    BY <2>1, <2>2, <2>3, <2>4, <2>5 DEF ReloadCode
<1>19. ReloadShape'
  BY <1>6 DEF ReloadShape
<1>20. QED
  BY <1>1, <1>5, <1>6, <1>8, <1>9, <1>10, <1>11, <1>14, <1>15, <1>16, <1>17, <1>18, <1>19 DEF Shape
-----------------------------------------------------------------------------
(* The end of an import *)

\* The sequence t is s with m moved or appended to its end.
EndsIn(s, m, t) ==
   /\ t \in Seq(Modules) /\ Distinct(t)
   /\ \A a : (\E i \in 1 .. Len(t) : t[i] = a) <=> a = m \/ \E i \in 1 .. Len(s) : s[i] = a
   /\ \A a, b : a # m /\ b # m /\ Precedes(a, b, s) => Precedes(a, b, t)
   /\ \A a : a # m /\ (\E i \in 1 .. Len(s) : s[i] = a) => Precedes(a, m, t)

LEMMA AppendedLast ==
   ASSUME NEW s \in Seq(Modules), Distinct(s), NEW m \in Modules, \A i \in 1 .. Len(s) : s[i] # m,
          NEW t, t = Append(s, m)
   PROVE  EndsIn(s, m, t)
<1> DEFINE N == Len(s)
<1>1. N \in Nat
  OBVIOUS
<1>2. /\ t \in Seq(Modules) /\ Len(t) = N + 1 /\ t[N + 1] = m /\ \A i \in 1 .. N : t[i] = s[i]
  BY AppendProperties
<1> HIDE DEF N
<1>3. \A i \in 1 .. N + 1 : i = N + 1 \/ i \in 1 .. N
  BY <1>1
<1>4. \A i \in 1 .. N : i \in 1 .. N + 1 /\ i < N + 1
  BY <1>1
<1>5. N + 1 \in 1 .. N + 1
  BY <1>1
<1>6. Distinct(t)
  BY <1>2, <1>3 DEF Distinct, N
<1>7. \A a : (\E i \in 1 .. N + 1 : t[i] = a) <=> a = m \/ \E i \in 1 .. N : s[i] = a
  BY <1>2, <1>3, <1>4, <1>5
<1>8. \A a, b : Precedes(a, b, s) => Precedes(a, b, t)
  BY <1>2, <1>4 DEF Precedes, N
<1>9. \A a : (\E i \in 1 .. N : s[i] = a) => Precedes(a, m, t)
  BY <1>2, <1>4, <1>5 DEF Precedes
<1>10. QED
  BY <1>2, <1>6, <1>7, <1>8, <1>9 DEF N, EndsIn

LEMMA MovedLast ==
   ASSUME NEW s \in Seq(Modules), Distinct(s), NEW c \in 1 .. Len(s),
          NEW t, t = Append(RemoveAt(s, c), s[c])
   PROVE  EndsIn(s, s[c], t)
<1> DEFINE N == Len(s)
           m == s[c]
           u == RemoveAt(s, c)
<1>1. N \in Nat /\ c \in Nat /\ m \in Modules /\ \A i \in 1 .. N : s[i] \in Modules
  OBVIOUS
<1>2. /\ u \in Seq(Modules) /\ Len(u) = N - 1
      /\ \A i \in 1 .. N - 1 : u[i] = IF i < c THEN s[i] ELSE s[i + 1]
  <2> DEFINE p == SubSeq(s, 1, c - 1)
             q == SubSeq(s, c + 1, N)
  <2>1. \A i \in 1 .. c - 1 : s[i] \in Modules
    BY <1>1
  <2>2. p \in Seq(Modules) /\ Len(p) = c - 1 /\ \A i \in 1 .. c - 1 : p[i] = s[i]
    BY <1>1, <2>1
  <2>3. \A i \in c + 1 .. N : s[i] \in Modules
    BY <1>1
  <2>4. q \in Seq(Modules) /\ Len(q) = N - c /\ \A i \in 1 .. N - c : q[i] = s[c + i]
    BY <1>1, <2>3
  <2>5. u = p \o q
    BY DEF RemoveAt
  <2> HIDE DEF p, q, u, N
  <2>6. /\ p \o q \in Seq(Modules) /\ Len(p \o q) = Len(p) + Len(q)
        /\ \A i \in 1 .. Len(p) + Len(q) :
              (p \o q)[i] = IF i <= Len(p) THEN p[i] ELSE q[i - Len(p)]
    BY <2>2, <2>4, ConcatProperties
  <2>7. \A i \in 1 .. N - 1 : i >= c => i - (c - 1) \in 1 .. N - c /\ c + (i - (c - 1)) = i + 1
    BY <1>1
  <2>8. Len(p) = c - 1 /\ Len(q) = N - c /\ Len(p) + Len(q) = N - 1
    BY <1>1, <2>2, <2>4
  <2>9. u \in Seq(Modules) /\ Len(u) = N - 1
    BY <2>5, <2>6, <2>8
  <2>10. ASSUME NEW i \in 1 .. N - 1, i < c
         PROVE  u[i] = s[i]
    <3>1. i \in 1 .. c - 1 /\ i <= c - 1
      BY <1>1, <2>10
    <3>2. u[i] = p[i]
      BY <2>5, <2>6, <2>8, <3>1
    <3>3. QED
      BY <2>2, <3>1, <3>2
  <2>11. ASSUME NEW i \in 1 .. N - 1, ~(i < c)
         PROVE  u[i] = s[i + 1]
    <3>1. ~(i <= c - 1) /\ i - (c - 1) \in 1 .. N - c /\ c + (i - (c - 1)) = i + 1
      BY <1>1, <2>7, <2>11
    <3>2. u[i] = q[i - (c - 1)]
      BY <2>5, <2>6, <2>8, <3>1
    <3>3. QED
      BY <2>4, <3>1, <3>2
  <2>12. QED
    BY <2>9, <2>10, <2>11
<1> HIDE DEF u, m
<1>3. /\ t \in Seq(Modules) /\ Len(t) = Len(u) + 1 /\ t[Len(u) + 1] = m /\ \A i \in 1 .. Len(u) : t[i] = u[i]
  BY <1>1, <1>2, AppendProperties DEF u, m
<1>4. /\ t \in Seq(Modules) /\ Len(t) = N /\ t[N] = s[c]
      /\ \A i \in 1 .. N - 1 : t[i] = IF i < c THEN s[i] ELSE s[i + 1]
  BY <1>1, <1>2, <1>3 DEF m
<1> HIDE DEF N
<1> DEFINE New(i) == IF i = c THEN N ELSE IF i < c THEN i ELSE i - 1
           Old(i) == IF i = N THEN c ELSE IF i < c THEN i ELSE i + 1
<1>5. c \in 1 .. N
  BY DEF N
<1>6. \A i \in 1 .. N : New(i) \in 1 .. N /\ t[New(i)] = s[i]
  BY <1>1, <1>4, <1>5
<1>7. \A i \in 1 .. N : Old(i) \in 1 .. N /\ t[i] = s[Old(i)]
  BY <1>1, <1>4, <1>5
<1>8. \A i, j \in 1 .. N : Old(i) = Old(j) => i = j
  BY <1>1, <1>5
<1>9. \A i, j \in 1 .. N : i # c /\ j # c /\ i < j => New(i) < New(j)
  BY <1>1, <1>5
<1>10. \A i \in 1 .. N : i # c => New(i) < N
  BY <1>1, <1>5
<1>11. New(c) = N
  OBVIOUS
<1> HIDE DEF New, Old
<1>12. Distinct(t)
  <2>1. \A i, j \in 1 .. N : s[i] = s[j] => i = j
    BY DEF Distinct, N
  <2>2. ASSUME NEW i \in 1 .. N, NEW j \in 1 .. N, t[i] = t[j]
        PROVE  i = j
    <3>1. Old(i) \in 1 .. N /\ Old(j) \in 1 .. N /\ s[Old(i)] = s[Old(j)]
      BY <1>7, <2>2
    <3>2. Old(i) = Old(j)
      BY <2>1, <3>1
    <3>3. QED
      BY <1>8, <3>2
  <2>3. QED
    BY <1>4, <2>2 DEF Distinct
<1>13. \A a : (\E i \in 1 .. N : t[i] = a) <=> a = s[c] \/ \E i \in 1 .. N : s[i] = a
  <2>1. \A a : \A i \in 1 .. N : t[i] = a => a = s[c] \/ \E j \in 1 .. N : s[j] = a
    BY <1>7
  <2>2. \A a : \A i \in 1 .. N : s[i] = a => \E j \in 1 .. N : t[j] = a
    BY <1>6
  <2>3. s[c] = s[c] /\ c \in 1 .. N
    BY <1>5
  <2>4. QED
    BY <2>1, <2>2, <2>3
<1>14. \A a, b : a # s[c] /\ b # s[c] /\ Precedes(a, b, s) => Precedes(a, b, t)
  <2> SUFFICES ASSUME NEW a, NEW b, a # s[c], b # s[c], Precedes(a, b, s)
               PROVE  Precedes(a, b, t)
    OBVIOUS
  <2>1. PICK i \in 1 .. N, j \in 1 .. N : i < j /\ s[i] = a /\ s[j] = b
    BY DEF Precedes, N
  <2>2. /\ New(i) \in 1 .. N /\ New(j) \in 1 .. N /\ New(i) < New(j)
        /\ t[New(i)] = a /\ t[New(j)] = b
    BY <1>6, <1>9, <2>1
  <2>3. QED
    BY <1>4, <2>2 DEF Precedes
<1>15. \A a : a # s[c] /\ (\E i \in 1 .. N : s[i] = a) => Precedes(a, s[c], t)
  <2> SUFFICES ASSUME NEW a, a # s[c], NEW i \in 1 .. N, s[i] = a
               PROVE  Precedes(a, s[c], t)
    OBVIOUS
  <2>1. New(i) \in 1 .. N /\ t[New(i)] = a /\ New(i) < N
    BY <1>6, <1>10
  <2>2. New(c) \in 1 .. N /\ t[N] = s[c] /\ N \in 1 .. N
    BY <1>5, <1>6, <1>11
  <2>3. QED
    BY <1>4, <2>1, <2>2 DEF Precedes
<1>16. QED
  BY <1>4, <1>12, <1>13, <1>14, <1>15 DEF N, EndsIn

\* An import, a reload or ensure_assets_registered ends.
LEMMA ReturnShape ==
   ASSUME Shape, Return, generation' \in [Modules -> Nat], holds' \in [Edges -> Nat],
          registered' \in SUBSET (Nat \X Decorated), flag' \in BOOLEAN, outcome' = "ok"
   PROVE  /\ Shape'
          /\ \A m \in Modules : /\ OnStack(m)' <=> OnStack(m) /\ m # Top.name
                                /\ Loaded(m)' <=> Loaded(m) \/ m = Top.name
                                /\ Complete(m)' <=> Complete(m) \/ m = Top.name
                                /\ InSysModules(m)' <=> InSysModules(m)
                                /\ \A i \in 1 .. Len(Statements(m)) : Ran(m, i)' <=> Ran(m, i)
          /\ Top.name \in Modules => /\ OnStack(Top.name)
                                     /\ \A i \in 1 .. Len(Statements(Top.name)) : Ran(Top.name, i)
          /\ \A a, b \in Modules : a # Top.name /\ b # Top.name /\ Precedes(a, b, loaded) => Precedes(a, b, loaded')
          /\ \A a \in Modules : a # Top.name /\ Loaded(a) /\ Top.name \in Modules => Precedes(a, Top.name, loaded')
          /\ Len(stack) \in Nat \ {0} /\ Len(stack') = Len(stack) - 1
          /\ \A j \in 1 .. Len(stack) - 1 : stack'[j] = stack[j]
<1> DEFINE L == Len(stack)
<1>1. stack \in Seq(FrameType) /\ StackOf(stack) /\ stack # <<>> /\ stack' = SubSeq(stack, 1, L - 1)
  BY DEF Shape, StackOf, Return
<1>2. /\ stack' \in Seq(FrameType) /\ Len(stack') = L - 1 /\ L \in Nat \ {0}
      /\ \A j \in 1 .. L - 1 : stack'[j] = stack[j]
  BY <1>1, PoppedIs
<1>3. L \in 1 .. L /\ Top = stack[L] /\ Top \in FrameType /\ FrameOf(Top, L) /\ Top.next \in Nat /\ Len(Top.code) \in Nat
  <2>1. L \in 1 .. L /\ Top = stack[L]
    BY <1>2 DEF Top
  <2>2. QED
    BY <1>1, <2>1, FrameFields DEF StackOf
<1>4. "reload_arena_modules" \notin Modules /\ "ensure" \notin Modules
  BY ModulesAre DEF LibraryModules, Robots
<1> DEFINE m0 == Top.name
<1>5. PICK r : r = m0
  OBVIOUS
<1> HIDE DEF m0
<1>6. Top.next > Len(Top.code) /\ loaded' = Ended(r)
  BY <1>5 DEF Return, m0
<1>7. \A m : OnStack(m) <=> \E j \in 1 .. L : stack[j].name = m
  BY <1>1, OnStackIs
<1>8. \A m : OnStack(m)' <=> \E j \in 1 .. L - 1 : stack[j].name = m
  <2>1. DOMAIN stack' = 1 .. L - 1
    BY <1>2
  <2>2. QED
    BY <1>2, <2>1 DEF OnStack
<1>0. L \in Nat \ {0}
  BY <1>2
<1>9. /\ \A j \in 1 .. L : j = L \/ j \in 1 .. L - 1
      /\ \A j \in 1 .. L - 1 : j \in 1 .. L /\ j # L
      /\ \A j \in 1 .. L - 1 : L # 1
  <2>1. \A j \in 1 .. L : j = L \/ j \in 1 .. L - 1
    BY <1>0
  <2>2. \A j \in 1 .. L - 1 : j \in 1 .. L /\ j # L
    BY <1>0
  <2>3. \A j \in 1 .. L - 1 : L # 1
    <3>1. \A d \in Nat : \A j \in 1 .. d - 1 : d # 1
      OBVIOUS
    <3>2. QED
      BY <1>0, <3>1
  <2>4. QED
    BY <2>1, <2>2, <2>3
<1>10. \A m \in Modules : OnStack(m)' <=> OnStack(m) /\ m # r
  <2>1. \A j \in 1 .. L - 1 : j \in 1 .. L /\ j # L
    BY <1>9
  <2>2. \A j \in 1 .. L - 1 : stack[j].name \in Modules => stack[j].name # stack[L].name
    BY <1>1, <1>3, <2>1 DEF StackOf
  <2>3. r = stack[L].name
    BY <1>3, <1>5 DEF m0
  <2>4. QED
    BY <1>3, <1>7, <1>8, <1>9, <2>1, <2>2, <2>3
<1>11. /\ loaded \in Seq(Modules) /\ Distinct(loaded) /\ \A m : Loaded(m) <=> \E i \in 1 .. Len(loaded) : loaded[i] = m
  BY DEF Shape, Typed, Loaded
<1>12. /\ loaded' \in Seq(Modules) /\ Distinct(loaded')
       /\ \A m \in Modules : (\E i \in 1 .. Len(loaded') : loaded'[i] = m) <=> Loaded(m) \/ m = r
       /\ \A a, b \in Modules : a # r /\ b # r /\ Precedes(a, b, loaded) => Precedes(a, b, loaded')
       /\ \A a \in Modules : a # r /\ Loaded(a) /\ r \in Modules => Precedes(a, r, loaded')
  <2>1. CASE r \notin Modules
    <3>1. loaded' = loaded
      BY <1>6, <2>1 DEF Ended
    <3>2. QED
      BY <1>11, <2>1, <3>1
  <2>2. CASE r \in Modules /\ ~Loaded(r)
    <3>1. loaded' = Append(loaded, r)
      BY <1>6, <2>2 DEF Ended
    <3>2. \A i \in 1 .. Len(loaded) : loaded[i] # r
      BY <1>11, <2>2
    <3>3. EndsIn(loaded, r, loaded')
      BY <1>11, <2>2, <3>1, <3>2, AppendedLast
    <3>4. QED
      BY <1>11, <3>3 DEF EndsIn
  <2>3. CASE r \in Modules /\ Loaded(r)
    <3>1. PICK c : c = CHOOSE i \in DOMAIN loaded : loaded[i] = r
      OBVIOUS
    <3>2. \E i \in DOMAIN loaded : loaded[i] = r
      BY <2>3 DEF Loaded
    <3>3. c \in DOMAIN loaded /\ loaded[c] = r
      BY <3>1, <3>2
    <3>4. c \in 1 .. Len(loaded)
      BY <1>11, <3>3
    <3>5. loaded' = Append(RemoveAt(loaded, c), r)
      BY <1>6, <2>3, <3>1 DEF Ended
    <3>6. EndsIn(loaded, loaded[c], loaded')
      BY <1>11, <3>3, <3>4, <3>5, MovedLast
    <3>7. QED
      BY <1>11, <3>3, <3>6 DEF EndsIn
  <2>4. QED
    BY <2>1, <2>2, <2>3
<1>13. \A m \in Modules : Loaded(m)' <=> Loaded(m) \/ m = r
  <2>1. DOMAIN loaded' = 1 .. Len(loaded')
    BY <1>12
  <2>2. QED
    BY <1>12, <2>1 DEF Loaded
<1>14. r \in Modules => OnStack(r)
  BY <1>3, <1>5, <1>7 DEF m0
<1>15. \A m \in Modules : InSysModules(m)' <=> InSysModules(m)
  BY <1>10, <1>13, <1>14 DEF InSysModules
<1>16. Typed'
  BY <1>12 DEF Typed
<1>17. StackOf(stack')
  <2>1. \A j \in 1 .. L - 1 : j \in 1 .. L /\ j < L
    BY <1>2
  <2>2. \A j \in 1 .. L - 1 :
           /\ FrameOf(stack[j], j)
           /\ stack[j].next \in 1 .. Len(stack[j].code) + 1
           /\ stack[j].next <= Len(stack[j].code) \/ stack[j].name = "reload_arena_modules"
    BY <1>1, <2>1 DEF StackOf
  <2>3. \A i, j \in 1 .. L - 1 : stack[i].name = stack[j].name /\ stack[i].name \in Modules => i = j
    BY <1>1, <2>1 DEF StackOf
  <2>4. QED
    BY <1>2, <2>2, <2>3 DEF StackOf
<1>18. \/ ~Reloading /\ ~Reloading'
       \/ Reloading /\ L = 1 /\ ~Reloading' /\ r = "reload_arena_modules"
       \/ Reloading /\ L \in {2, 3} /\ Reloading' /\ stack'[1] = stack[1]
  <2>1. L # 1 => 1 \in 1 .. L - 1 /\ stack'[1] = stack[1] /\ stack' # <<>> /\ stack # <<>>
    <3>1. L # 1 => 1 \in 1 .. L - 1 /\ L - 1 # 0
      BY <1>2
    <3>2. L # 1 => stack'[1] = stack[1]
      BY <1>2, <3>1
    <3>3. L # 1 => stack' # <<>>
      BY <1>2, <3>1
    <3>4. QED
      BY <1>1, <3>1, <3>2, <3>3
  <2>2. L = 1 => stack' = <<>> /\ (Reloading => r = "reload_arena_modules")
    BY <1>2, <1>3, <1>5 DEF Reloading, m0
  <2>3. Reloading => L <= 3
    BY DEF Shape, ReloadShape
  <2>4. CASE L = 1
    BY <2>2, <2>4 DEF Reloading
  <2>5. CASE L # 1
    BY <1>2, <2>1, <2>3, <2>5 DEF Reloading
  <2>6. QED
    BY <2>4, <2>5
<1>19. \A m : Waiting(m)' <=> Waiting(m)
  <2>1. CASE ~Reloading /\ ~Reloading'
    BY <2>1 DEF Waiting
  <2>2. CASE Reloading /\ L = 1 /\ ~Reloading' /\ r = "reload_arena_modules"
    <3>1. stack[1].next > Len(stack[1].code) /\ stack[1].next \in Nat /\ Len(stack[1].code) \in Nat
      BY <1>3, <1>6, <2>2
    <3>2. QED
      BY <2>2, <3>1 DEF Waiting
  <2>3. CASE Reloading /\ Reloading' /\ stack'[1] = stack[1]
    BY <2>3 DEF Waiting, Reloaded
  <2>4. QED
    BY <1>18, <2>1, <2>2, <2>3
<1>20. r \in Modules => ~Waiting(r)
  <2> SUFFICES ASSUME r \in Modules, Reloading
               PROVE  ~Waiting(r)
    BY DEF Waiting
  <2>1. L # 1
    BY <1>4, <1>18
  <2>2. L # 3
    <3>1. L = 3 => stack[3].name = "ensure"
      BY DEF Shape, ReloadShape
    <3>2. QED
      BY <1>3, <1>4, <1>5, <3>1 DEF m0
  <2>3. L = 2
    BY <1>18, <2>1, <2>2
  <2>4. stack[1].next > 1 /\ r = Reloaded(stack[1].next - 1)
    <3>1. L >= 2 => stack[1].next > 1 /\ stack[2].name = Reloaded(stack[1].next - 1)
      BY DEF Shape, ReloadShape
    <3>2. QED
      BY <1>3, <1>5, <2>3, <3>1 DEF m0
  <2>5. stack[1].next \in 1 .. Len(stack[1].code) + 1 /\ Len(stack[1].code) \in Nat
    <3>1. 1 \in 1 .. L
      BY <1>2
    <3>2. QED
      BY <1>1, <3>1, FrameFields DEF StackOf
  <2>6. \A i, j \in 1 .. Len(stack[1].code) : Reloaded(i) = Reloaded(j) => i = j
    BY DEF Shape, ReloadCode
  <2>7. stack[1].next - 1 \in 1 .. Len(stack[1].code)
    BY <2>4, <2>5
  <2>8. \A i \in 1 .. Len(stack[1].code) : i >= stack[1].next => i # stack[1].next - 1
    BY <2>5
  <2>9. QED
    BY <2>4, <2>6, <2>7, <2>8 DEF Waiting
<1>21. \A m \in Modules : Complete(m)' <=> Complete(m) \/ m = r
  BY <1>10, <1>13, <1>19, <1>20 DEF Complete
<1>22. ASSUME r \in Modules, NEW i \in 1 .. Len(Statements(r))
       PROVE  Ran(r, i)
  <2>1. Top.code = Statements(r) /\ i < Top.next
    <3>1. Top.code = Statements(r)
      BY <1>3, <1>4, <1>5, <1>22 DEF FrameOf, m0
    <3>2. QED
      BY <1>3, <1>6, <3>1
  <2>2. QED
    BY <1>3, <1>5, <2>1 DEF Ran, m0
<1>23. ASSUME NEW m \in Modules, NEW i \in 1 .. Len(Statements(m))
       PROVE  Ran(m, i)' <=> Ran(m, i)
  <2>1. CASE m = r
    BY <1>21, <1>22, <2>1 DEF Ran
  <2>2. CASE m # r
    <3>1. stack[L].name # m
      BY <1>3, <1>5, <2>2 DEF m0
    <3>2. (\E j \in 1 .. L - 1 : stack'[j].name = m /\ i < stack'[j].next) <=>
             \E j \in 1 .. L : stack[j].name = m /\ i < stack[j].next
      <4>1. \A j \in 1 .. L - 1 : j \in 1 .. L /\ stack'[j] = stack[j]
        BY <1>2, <1>9
      <4>2. ASSUME NEW j \in 1 .. L, stack[j].name = m
            PROVE  j \in 1 .. L - 1
        BY <1>9, <3>1, <4>2
      <4>3. QED
        BY <4>1, <4>2
    <3>3. QED
      BY <1>2, <1>21, <2>2, <3>2 DEF Ran
  <2>3. QED
    BY <2>1, <2>2
<1>24. LoadedOrStack'
  <2> SUFFICES ASSUME NEW m \in Modules, OnStack(m)'
               PROVE  Loaded(m)' <=> Reloading'
    BY DEF LoadedOrStack
  <2>1. L # 1
    <3>1. PICK j \in 1 .. L - 1 : stack[j].name = m
      BY <1>8
    <3>2. QED
      BY <1>9, <3>1
  <2>2. Reloading' <=> Reloading
    BY <1>18, <2>1
  <2>3. OnStack(m) /\ m # r
    BY <1>10
  <2>4. Loaded(m) <=> Reloading
    BY <2>3 DEF Shape, LoadedOrStack
  <2>5. QED
    BY <1>13, <2>2, <2>3, <2>4
<1>25. ReloadCode'
  <2>1. CASE ~Reloading'
    BY <2>1 DEF ReloadCode
  <2>2. CASE Reloading'
    <3>1. Reloading /\ stack'[1] = stack[1]
      BY <1>18, <2>2
    <3>2. r \in Modules => Loaded(r)
      BY <1>14, <3>1 DEF Shape, LoadedOrStack
    <3>3. \A m \in Modules : Loaded(m)' <=> Loaded(m)
      BY <1>13, <3>2
    <3>4. QED
      BY <1>15, <2>2, <3>1, <3>3, SameReload
  <2>3. QED
    BY <2>1, <2>2
<1>26. ReloadShape'
  <2> SUFFICES ASSUME Reloading'
               PROVE  ReloadShape'
    BY DEF ReloadShape
  <2>1. Reloading /\ L \in {2, 3} /\ stack'[1] = stack[1]
    BY <1>18
  <2>2. L = 3 => stack[1].next > 1 /\ stack[2].name = Reloaded(stack[1].next - 1) /\ stack'[2] = stack[2]
    BY <1>2, <2>1 DEF Shape, ReloadShape
  <2>3. Len(stack') <= 3 /\ Len(stack') # 3 /\ (Len(stack') >= 2 => L = 3)
    <3>1. \A k \in {2, 3} : k - 1 <= 3 /\ k - 1 # 3 /\ (k - 1 >= 2 => k = 3)
      OBVIOUS
    <3>2. QED
      BY <1>2, <2>1, <3>1
  <2>4. QED
    BY <2>1, <2>2, <2>3 DEF ReloadShape, Reloaded
<1>27. Shape'
  BY <1>16, <1>17, <1>24, <1>25, <1>26 DEF Shape
<1>28. QED
  BY <1>2, <1>5, <1>10, <1>12, <1>13, <1>14, <1>15, <1>21, <1>22, <1>23, <1>27 DEF m0
-----------------------------------------------------------------------------
(* What has run keeps what it says *)

LEMMA StatementIs ==
   ASSUME NEW m \in Modules, NEW i \in 1 .. Len(Statements(m))
   PROVE  /\ Statements(m) \in Seq(Ops \X Modules) /\ DOMAIN Statements(m) = 1 .. Len(Statements(m))
          /\ Statements(m)[i] \in Ops \X Modules /\ Statements(m)[i][2] \in Modules
          /\ i \in Nat \ {0} /\ Len(Statements(m)) \in Nat
          /\ Binding(m, Statements(m)) /\ Decorating(m, Statements(m))
          /\ Taking(m, Statements(m)) /\ Importing(m, Statements(m))
<1>1. Described(m)
  BY StatementsAre
<1>2. Statements(m) \in Seq(Ops \X Modules)
  BY <1>1 DEF Described
<1>3. Statements(m)[i] \in Ops \X Modules /\ DOMAIN Statements(m) = 1 .. Len(Statements(m)) /\ Len(Statements(m)) \in Nat
  BY <1>2
<1>4. QED
  BY <1>1, <1>2, <1>3 DEF Described

Facts == /\ Bound /\ AboveUnbound /\ RobotsByPackage /\ ImportsDone /\ Taken
         /\ LoadedInOrder /\ RegisteredOnce /\ FlagMeans /\ EnsureProgress

\* A step after which the same statements have run.
LEMMA SameRan ==
   ASSUME Facts, UNCHANGED <<generation, holds, registered, flag>>,
          \A m \in Modules : InSysModules(m) => InSysModules(m)',
          \A m \in Modules : Complete(m) => Complete(m)',
          \A m \in Modules : \A i \in 1 .. Len(Statements(m)) : Ran(m, i)' <=> Ran(m, i)
   PROVE  /\ Taken' /\ RegisteredOnce' /\ FlagMeans'
          /\ \A m \in Modules : generation'[m] > 0 => InSysModules(m)'
          /\ \A m \in Modules : \A i \in 1 .. Len(Statements(m)) :
                Statements(m)[i][1] = "bind" /\ Ran(m, i)' => generation'[m] > 0
<1> USE DEF Facts
<1>1. ASSUME NEW m \in Modules, NEW i \in 1 .. Len(Statements(m)),
             Statements(m)[i][1] = "from", Statements(m)[i][2] /= "object_library", Ran(m, i)'
      PROVE  /\ Complete(Statements(m)[i][2])'
             /\ holds'[<<m, Statements(m)[i][2]>>] = generation'[Statements(m)[i][2]]
  <2>1. Statements(m)[i][2] \in Modules
    BY StatementIs
  <2>2. Complete(Statements(m)[i][2]) /\ holds[<<m, Statements(m)[i][2]>>] = generation[Statements(m)[i][2]]
    BY <1>1 DEF Taken
  <2>3. Complete(Statements(m)[i][2])'
    BY <2>1, <2>2
  <2>4. QED
    BY <2>2, <2>3
<1>2. \A e \in Edges : ~InSysModules(e[1])' => holds'[e] = 0
  BY EdgesAre DEF Taken
<1>3. Taken'
  BY <1>1, <1>2 DEF Taken
<1>4. RegisteredOnce'
  BY DEF RegisteredOnce, Current, Decorated
<1>5. FlagMeans'
  BY ModulesAre DEF FlagMeans, LibrariesIn
<1>6. QED
  BY <1>3, <1>4, <1>5 DEF Bound

LEMMA PushFacts ==
   ASSUME Shape, Facts, NEW f \in FrameType, f.next = 1, stack' = Append(stack, f),
          UNCHANGED <<loaded, generation, holds, registered, flag, outcome>>,
          stack # <<>> => Top.next <= Len(Top.code),
          \/ f.name \in Modules /\ f.code = Statements(f.name) /\ ~InSysModules(f.name) /\ ~Reloading
          \/ /\ f.name = "ensure" /\ f.code = Ensure.code
             /\ Reloading => Len(stack) = 2 /\ stack[2].name \in Decorated,
          f.name \in Robots => InSysModules("embodiments"),
          \A i \in 1 .. Len(stack) : stack[i].name \in Binders /\ generation[stack[i].name] = 0 =>
                                        f.name \in Within(stack[i].name)
   PROVE  Shape' /\ Facts'
<1> USE DEF Facts
<1>1. Typed'
  BY DEF Shape, Typed
<1>2. /\ Shape' /\ (Reloading' <=> Reloading)
      /\ \A m : (OnStack(m)' <=> OnStack(m) \/ m = f.name) /\ (Loaded(m)' <=> Loaded(m))
      /\ \A m \in Modules : Complete(m)' <=> Complete(m)
      /\ \A m \in Modules : \A i \in Nat \ {0} : Ran(m, i)' <=> Ran(m, i)
      /\ Len(stack') = Len(stack) + 1 /\ stack'[Len(stack) + 1] = f
      /\ \A j \in 1 .. Len(stack) : stack'[j] = stack[j]
  BY <1>1, PushShape
<1>3. \A m : InSysModules(m) => InSysModules(m)'
  BY <1>2 DEF InSysModules
<1>4. \A m \in Modules : \A i \in 1 .. Len(Statements(m)) : Ran(m, i)' <=> Ran(m, i)
  BY <1>2, StatementIs
<1>5. /\ Taken' /\ RegisteredOnce' /\ FlagMeans'
      /\ \A m \in Modules : generation'[m] > 0 => InSysModules(m)'
      /\ \A m \in Modules : \A i \in 1 .. Len(Statements(m)) :
            Statements(m)[i][1] = "bind" /\ Ran(m, i)' => generation'[m] > 0
  BY <1>2, <1>3, <1>4, SameRan
<1>6. Bound'
  <2>1. \A m \in Modules : m \in Binders /\ Loaded(m)' => generation'[m] > 0
    BY <1>2 DEF Bound
  <2>2. ASSUME NEW m \in Modules, generation'[m] > 0, OnStack(m)', ~Loaded(m)'
        PROVE  \E i \in 1 .. Len(Statements(m)) : Statements(m)[i][1] = "bind" /\ Ran(m, i)'
    <3>1. InSysModules(m) /\ generation[m] > 0 /\ ~Loaded(m)
      BY <1>2, <2>2 DEF Bound
    <3>2. OnStack(m)
      BY <3>1 DEF InSysModules
    <3>3. QED
      BY <1>4, <3>1, <3>2 DEF Bound
  <2>3. QED
    BY <1>5, <2>1, <2>2 DEF Bound
<1>7. \A j \in 1 .. Len(stack) + 1 : j = Len(stack) + 1 \/ j \in 1 .. Len(stack)
  BY DEF Shape, StackOf
<1>8. AboveUnbound'
  <2> SUFFICES ASSUME NEW i \in 1 .. Len(stack) + 1, NEW j \in 1 .. Len(stack) + 1, i < j,
                      stack'[i].name \in Binders, generation[stack'[i].name] = 0
               PROVE  stack'[j].name \in Within(stack'[i].name)
    BY <1>2 DEF AboveUnbound
  <2>1. Len(stack) \in Nat
    BY DEF Shape, StackOf
  <2>2. i \in 1 .. Len(stack)
    BY <2>1
  <2>3. CASE j = Len(stack) + 1
    BY <1>2, <2>2, <2>3
  <2>4. CASE j \in 1 .. Len(stack)
    BY <1>2, <2>2, <2>4 DEF AboveUnbound
  <2>5. QED
    BY <1>7, <2>3, <2>4
<1>9. RobotsByPackage'
  BY <1>2, <1>3, ModulesAre DEF RobotsByPackage, InSysModules, LibraryModules
<1>10. ImportsDone'
  BY <1>2, <1>3, <1>4 DEF ImportsDone
<1>11. LoadedInOrder'
  BY <1>2, EdgesAre DEF LoadedInOrder
<1>12. EnsureProgress'
  <2> SUFFICES ASSUME NEW j \in 1 .. Len(stack) + 1, stack'[j].name = "ensure",
                      NEW i \in 1 .. 7, i < stack'[j].next
               PROVE  InSysModules(Libraries[i])'
    BY <1>2 DEF EnsureProgress
  <2>1. j \in 1 .. Len(stack)
    BY <1>2, <1>7
  <2>2. QED
    BY <1>2, <1>3, <2>1 DEF EnsureProgress
<1>13. QED
  BY <1>2, <1>5, <1>6, <1>8, <1>9, <1>10, <1>11, <1>12

LEMMA ModuleFrame ==
   ASSUME NEW m \in Modules
   PROVE  /\ Frame(m, Statements(m)) \in FrameType /\ Frame(m, Statements(m)).name = m
          /\ Frame(m, Statements(m)).code = Statements(m) /\ Frame(m, Statements(m)).next = 1
<1>1. Statements(m) \in Seq(Ops \X Modules)
  BY StatementsAre DEF Described
<1>2. Statements(m) \in Seq(Kinds \X Modules)
  BY <1>1 DEF Kinds
<1>3. QED
  BY <1>2 DEF Frame, FrameType, Names

LEMMA EnsureFrame == Ensure \in FrameType /\ Ensure.name = "ensure" /\ Ensure.next = 1
<1>1. Ensure.code \in Seq({"import", "flag"} \X Modules)
  BY EnsureIs
<1>6. ASSUME NEW s \in Seq({"import", "flag"} \X Modules)
      PROVE  s \in Seq(Kinds \X Modules)
  BY DEF Kinds, Ops
<1>2. Ensure.code \in Seq(Kinds \X Modules)
  BY <1>1, <1>6
<1> DEFINE c == Ensure.code
<1>3. Ensure = [name |-> "ensure", code |-> c, next |-> 1]
  BY EnsureIs
<1> HIDE DEF c
<1>4. [name |-> "ensure", code |-> c, next |-> 1] \in FrameType
  BY <1>2 DEF FrameType, Names, c
<1>5. QED
  BY <1>3, <1>4

LEMMA ImportFacts ==
   ASSUME Shape, Facts, ImportStatement
   PROVE  Shape' /\ Facts'
<1> USE DEF Facts
<1> DEFINE L == Len(stack)
           t == Top.name
           n == Operand
<1>1. PICK kind \in {"import", "from"} : Executing(kind)
  BY DEF ImportStatement
<1>2. /\ stack # <<>> /\ L \in 1 .. L /\ Top = stack[L] /\ Top.next \in 1 .. Len(Top.code) /\ n \in Modules
      /\ t # "reload_arena_modules"
  BY <1>1, Executed
<1>3. \/ /\ t \in Modules /\ Top.next \in 1 .. Len(Statements(t)) /\ Statements(t)[Top.next] = <<kind, n>>
      \/ t = "ensure" /\ kind = "import" /\ Top.next \in 1 .. 7 /\ n = Libraries[Top.next]
  BY <1>1, ExecutedBy
<1>4. ~InSysModules(n) /\ stack' = Append(stack, Frame(n, Statements(n)))
      /\ UNCHANGED <<loaded, generation, holds, registered, flag, outcome>>
  BY DEF ImportStatement
<1>5. "ensure" \notin Modules /\ "reload_arena_modules" \notin Modules
  BY ModulesAre DEF LibraryModules, Robots
<1>6. t = "ensure" => n \in LibraryModules
  BY <1>3, <1>5, ListsAre
<1>7. t \in Modules => /\ kind = "from" => n \in Binders /\ n # t /\ t \notin {"asset_registry", "object"}
                       /\ kind = "from" /\ t = "register" => n = "asset_registry"
                       /\ kind = "from" /\ t = "object_library" => n \in {"object", "register"}
                       /\ kind = "from" /\ t = "franka" => n \in {"object_library", "register"}
                       /\ kind = "from" /\ n = "franka" => t \in {"agibot", "droid"}
                       /\ kind = "import" => \/ t = "embodiments" /\ n \in Robots
                                             \/ t = "arena_env_builder" /\ n = "embodiments"
  <2> SUFFICES ASSUME t \in Modules
               PROVE  /\ kind = "from" => n \in Binders /\ n # t /\ t \notin {"asset_registry", "object"}
                      /\ kind = "from" /\ t = "register" => n = "asset_registry"
                      /\ kind = "from" /\ t = "object_library" => n \in {"object", "register"}
                      /\ kind = "from" /\ t = "franka" => n \in {"object_library", "register"}
                      /\ kind = "from" /\ n = "franka" => t \in {"agibot", "droid"}
                      /\ kind = "import" => \/ t = "embodiments" /\ n \in Robots
                                            \/ t = "arena_env_builder" /\ n = "embodiments"
    OBVIOUS
  <2>1. Top.next \in 1 .. Len(Statements(t)) /\ Statements(t)[Top.next] = <<kind, n>>
    BY <1>3, <1>5
  <2>2. /\ Taking(t, Statements(t)) /\ Importing(t, Statements(t)) /\ DOMAIN Statements(t) = 1 .. Len(Statements(t))
    BY <2>1, StatementIs
  <2>3. Top.next \in DOMAIN Statements(t) /\ Statements(t)[Top.next][1] = kind /\ Statements(t)[Top.next][2] = n
    BY <2>1, <2>2
  <2>4. QED
    BY <2>2, <2>3 DEF Taking, Importing
<1>8. StackOf(stack) /\ \A m : OnStack(m) <=> \E j \in 1 .. L : stack[j].name = m
  BY OnStackIs DEF Shape
<1>9. OnStack(t)
  BY <1>2, <1>8
<1>10. ~Reloading
  <2> SUFFICES ASSUME Reloading
               PROVE  InSysModules(n)
    BY <1>4
  <2>1. CASE t \in Modules
    <3>1. Loaded(t)
      BY <1>9, <2>1 DEF Shape, LoadedOrStack
    <3>2. Statements(t)[Top.next] = <<kind, n>> /\ Top.next \in 1 .. Len(Statements(t))
      BY <1>3, <1>5, <2>1
    <3>3. Statements(t)[Top.next][1] \in {"import", "from"} /\ Statements(t)[Top.next][2] = n
      BY <1>1, <3>2
    <3>4. QED
      BY <2>1, <3>1, <3>2, <3>3 DEF ImportsDone
  <2>2. CASE t = "ensure"
    <3>1. L # 1
      BY <1>2, <2>2 DEF Reloading
    <3>2. L # 2
      <4> SUFFICES ASSUME L = 2
                   PROVE  FALSE
        OBVIOUS
      <4>1. L >= 2 => stack[2].name = Reloaded(stack[1].next - 1) /\ stack[1].next > 1
        BY DEF Shape, ReloadShape
      <4>2. stack[2].name = Reloaded(stack[1].next - 1) /\ stack[1].next > 1
        BY <4>1
      <4>3. 1 \in 1 .. L /\ stack[1].next \in 1 .. Len(stack[1].code) + 1 /\ stack \in Seq(FrameType)
        BY <1>8 DEF StackOf
      <4>4. Len(stack[1].code) \in Nat
        BY <4>3, FrameFields
      <4>5. stack[1].next - 1 \in 1 .. Len(stack[1].code)
        BY <4>2, <4>3, <4>4
      <4>6. Loaded(stack[2].name)
        BY <4>2, <4>5 DEF Shape, ReloadCode
      <4>7. stack[2].name \in Modules
        BY <4>6 DEF Shape, Typed, Loaded
      <4>8. QED
        BY <1>2, <1>5, <2>2, <4>7
    <3>3. L <= 3
      BY DEF Shape, ReloadShape
    <3>10. PICK d \in Nat : d = L
      BY <1>2
    <3>11. d >= 1 /\ d # 1 /\ d # 2 /\ d <= 3
      BY <1>2, <3>1, <3>2, <3>3, <3>10
    <3>12. d = 3
      BY <3>11
    <3>4. L = 3
      BY <3>10, <3>12
    <3>5. stack[2].name \in Decorated
      BY <3>4 DEF Shape, ReloadShape
    <3>6. OnStack(stack[2].name) /\ stack[2].name \in Modules
      BY <1>8, <3>4, <3>5 DEF Decorated
    <3>7. Loaded(stack[2].name)
      BY <3>6 DEF Shape, LoadedOrStack
    <3>8. LibrariesIn
      BY <3>5, <3>7 DEF Shape, ReloadCode
    <3>9. QED
      BY <1>6, <2>2, <3>8 DEF LibrariesIn
  <2>3. QED
    BY <1>3, <2>1, <2>2
<1>11. n \in Robots => InSysModules("embodiments")
  <2> SUFFICES ASSUME n \in Robots
               PROVE  InSysModules("embodiments")
    OBVIOUS
  <2>1. t \in Modules
    BY <1>3, <1>6 DEF LibraryModules, Robots
  <2>2. CASE t = "embodiments"
    BY <1>9, <2>2 DEF InSysModules
  <2>3. CASE t \in {"agibot", "droid"}
    BY <1>9, <2>3 DEF RobotsByPackage, InSysModules, Robots
  <2>4. QED
    BY <1>7, <2>1, <2>2, <2>3 DEF Robots, Binders
<1>12. ASSUME NEW i \in 1 .. L, stack[i].name \in Binders, generation[stack[i].name] = 0
       PROVE  n \in Within(stack[i].name)
  <2>1. CASE i = L
    <3>1. t \in Binders /\ t \in Modules
      BY <1>2, <1>12, <2>1, ModulesAre DEF Binders, LibraryModules, Robots
    <3>2. QED
      BY <1>2, <1>7, <2>1, <3>1, <1>1 DEF Within, Binders, LibraryModules, Robots
  <2>2. CASE i < L
    <3>1. t \in Within(stack[i].name)
      BY <1>2, <1>12, <2>2 DEF AboveUnbound
    <3>2. OnStack(stack[i].name)
      BY <1>8
    <3>3. stack[i].name = "franka" => InSysModules("embodiments") /\ InSysModules("franka")
      BY <3>2 DEF RobotsByPackage, InSysModules, Robots
    <3>8. t \in Modules /\ n \in {"agibot", "droid"} => t = "embodiments"
      BY <1>1, <1>7 DEF Binders
    <3>9. n \in LibraryModules => n \notin {"agibot", "droid"}
      BY DEF LibraryModules
    <3>4. CASE stack[i].name = "franka"
      <4>1. t \in (Modules \cup {"ensure"}) \ {"franka", "agibot", "droid", "embodiments"}
        BY <3>1, <3>4 DEF Within
      <4>2. n \notin {"agibot", "droid"}
        BY <1>3, <1>6, <3>8, <3>9, <4>1
      <4>3. n \notin {"franka", "embodiments"}
        BY <1>4, <3>3, <3>4
      <4>4. QED
        BY <1>2, <3>4, <4>2, <4>3 DEF Within
    <3>5. CASE stack[i].name = "object_library"
      <4>1. t \in {"object", "register", "asset_registry"} /\ t \in Modules
        BY <3>1, <3>5, ModulesAre DEF Within
      <4>2. kind = "from" /\ t = "register"
        BY <1>1, <1>7, <4>1
      <4>3. n = "asset_registry"
        BY <1>7, <4>1, <4>2
      <4>4. QED
        BY <3>5, <4>3 DEF Within
    <3>6. CASE stack[i].name = "register"
      <4>1. t = "asset_registry" /\ t \in Modules
        BY <3>1, <3>6, ModulesAre DEF Within
      <4>2. QED
        BY <1>1, <1>7, <4>1
    <3>7. stack[i].name \in {"franka", "object_library", "register"}
      BY <1>12, <3>1 DEF Binders, Within
    <3>13. QED
      BY <3>4, <3>5, <3>6, <3>7
  <2>3. QED
    BY <1>2, <2>1, <2>2
<1>13. QED
  <2>1. /\ Frame(n, Statements(n)) \in FrameType /\ Frame(n, Statements(n)).name = n
        /\ Frame(n, Statements(n)).code = Statements(n) /\ Frame(n, Statements(n)).next = 1
    BY <1>2, ModuleFrame
  <2> DEFINE f == Frame(n, Statements(n))
  <2> HIDE DEF f
  <2>2. f \in FrameType /\ f.name = n /\ f.code = Statements(n) /\ f.next = 1 /\ stack' = Append(stack, f)
    BY <1>4, <2>1 DEF f
  <2>3. stack # <<>> => Top.next <= Len(Top.code)
    BY <1>1 DEF Executing
  <2>4. QED
    BY <1>2, <1>4, <1>10, <1>11, <1>12, <2>2, <2>3, PushFacts

\* What a statement that decorates says of the stack.
LEMMA Decorates ==
   ASSUME Shape, Facts, Executing("decorate")
   PROVE  /\ Top.name \in Decorated /\ Operand = Top.name
          /\ Top.next \in 1 .. Len(Statements(Top.name))
          /\ Statements(Top.name)[Top.next] = <<"decorate", Top.name>>
          /\ \E k \in 1 .. Len(Statements(Top.name)) :
                k < Top.next /\ Statements(Top.name)[k] = <<"from", "register">> /\ Ran(Top.name, k)
          /\ Top.name \in Binders => Top.name = "franka" \/ generation[Top.name] > 0
          /\ Reloading => Len(stack) = 2 /\ stack[2].name = Top.name
<1> DEFINE L == Len(stack)
           t == Top.name
<1>1. /\ stack # <<>> /\ L \in 1 .. L /\ Top = stack[L] /\ Top \in FrameType
      /\ t # "reload_arena_modules" /\ Operand \in Modules
  BY Executed
<1>2. /\ t \in Modules /\ Top.next \in 1 .. Len(Statements(t)) /\ Statements(t)[Top.next] = <<"decorate", Operand>>
  BY ExecutedBy
<1>3. /\ Decorating(t, Statements(t)) /\ Binding(t, Statements(t)) /\ DOMAIN Statements(t) = 1 .. Len(Statements(t))
  BY <1>2, StatementIs
<1>4. Top.next \in DOMAIN Statements(t) /\ Statements(t)[Top.next][1] = "decorate"
  BY <1>2, <1>3
<1>5. Operand = t /\ t \in Decorated
  <2>1. Statements(t)[Top.next] = <<"decorate", t>>
    BY <1>3, <1>4 DEF Decorating
  <2>2. QED
    BY <1>2, <1>3, <1>4, <2>1 DEF Decorated
<1>6. \A k \in 1 .. Len(Statements(t)) : k < Top.next => Ran(t, k)
  BY <1>1 DEF Ran
<1>7. \E k \in 1 .. Len(Statements(t)) : k < Top.next /\ Statements(t)[k] = <<"from", "register">> /\ Ran(t, k)
  BY <1>3, <1>4, <1>6 DEF Decorating
<1>8. t \in Binders => t = "franka" \/ generation[t] > 0
  <2> SUFFICES ASSUME t \in Binders, t # "franka"
               PROVE  generation[t] > 0
    OBVIOUS
  <2>1. PICK k \in 1 .. Len(Statements(t)) : k < Top.next /\ Statements(t)[k] = <<"bind", t>>
    BY <1>3, <1>4 DEF Decorating
  <2>2. Ran(t, k) /\ Statements(t)[k][1] = "bind"
    BY <1>6, <2>1
  <2>3. QED
    BY <1>2, <2>2 DEF Facts, Bound
<1>9. ASSUME Reloading
      PROVE  L = 2
  <2>1. PICK d \in Nat : d = L
    BY <1>1
  <2>2. d # 1
    BY <1>1, <1>9, <2>1 DEF Reloading
  <2>3. d # 3
    BY <1>1, <1>2, <1>9, <2>1, ModulesAre DEF Shape, ReloadShape, LibraryModules, Robots
  <2>4. d <= 3 /\ d >= 1
    BY <1>1, <1>9, <2>1 DEF Shape, ReloadShape
  <2>5. d = 2
    BY <2>2, <2>3, <2>4
  <2>6. QED
    BY <2>1, <2>5
<1>10. QED
  BY <1>1, <1>2, <1>5, <1>7, <1>8, <1>9

LEMMA DecorateEnsuresFacts ==
   ASSUME Shape, Facts, DecorateEnsures
   PROVE  Shape' /\ Facts'
<1> DEFINE L == Len(stack)
           t == Top.name
<1>1. Executing("decorate") /\ stack' = Append(stack, Ensure)
      /\ UNCHANGED <<loaded, generation, holds, registered, flag, outcome>>
  BY DEF DecorateEnsures
<1>2. /\ t \in Decorated
      /\ t \in Binders => t = "franka" \/ generation[t] > 0
      /\ Reloading => L = 2 /\ stack[2].name = t
  BY <1>1, Decorates
<1>3. /\ L \in 1 .. L /\ Top = stack[L]
  BY <1>1, Executed
<1>4. "ensure" \notin Robots /\ "ensure" \in Within("franka")
  BY DEF Robots, Within
<1>5. t \notin {"object", "register", "asset_registry"}
  BY <1>2, DecoratedAre DEF LibraryModules, Robots
<1>6. ASSUME NEW i \in 1 .. L, stack[i].name \in Binders, generation[stack[i].name] = 0
      PROVE  "ensure" \in Within(stack[i].name)
  <2>1. CASE i = L
    <3>1. t = "franka"
      BY <1>2, <1>3, <1>6, <2>1
    <3>2. QED
      BY <1>3, <1>4, <2>1, <3>1
  <2>2. CASE i < L
    <3>1. t \in Within(stack[i].name)
      BY <1>3, <1>6, <2>2 DEF Facts, AboveUnbound
    <3>2. stack[i].name = "franka"
      BY <1>5, <1>6, <3>1 DEF Within, Binders
    <3>3. QED
      BY <1>4, <3>2
  <2>3. QED
    BY <1>3, <2>1, <2>2
<1>7. stack # <<>> => Top.next <= Len(Top.code)
  BY <1>1 DEF Executing
<1> DEFINE f == Ensure
<1>8. f \in FrameType /\ f.name = "ensure" /\ f.next = 1 /\ f.code = Ensure.code /\ stack' = Append(stack, f)
  BY <1>1, EnsureFrame
<1> HIDE DEF f
<1>9. QED
  BY <1>1, <1>2, <1>4, <1>6, <1>7, <1>8, PushFacts

\* The first frame of an idle program.
LEMMA FirstFacts ==
   ASSUME Shape, Facts, stack = <<>>, NEW f \in FrameType, f.next = 1, stack' = <<f>>,
          UNCHANGED <<loaded, generation, holds, registered, flag, outcome>>,
          \/ f.name \in Modules /\ f.code = Statements(f.name) /\ ~InSysModules(f.name)
          \/ f.name = "ensure" /\ f.code = Ensure.code,
          f.name \notin Robots
   PROVE  Shape' /\ Facts'
<1>1. stack \in Seq(FrameType) /\ ~Reloading
  BY DEF Shape, StackOf, Reloading
<1>2. stack' = Append(stack, f)
  BY <1>1, PushedIs
<1>3. \A i \in 1 .. Len(stack) : FALSE
  OBVIOUS
<1>4. QED
  BY <1>1, <1>2, <1>3, PushFacts

LEMMA LookUpFacts ==
   ASSUME Shape, Facts, LookUp
   PROVE  Shape' /\ Facts'
<1> DEFINE f == Ensure
<1>1. /\ stack = <<>> /\ stack' = <<f>> /\ UNCHANGED <<loaded, generation, holds, registered, flag, outcome>>
  BY DEF LookUp, Idle
<1>2. f \in FrameType /\ f.name = "ensure" /\ f.next = 1 /\ f.code = Ensure.code
  BY EnsureFrame
<1> HIDE DEF f
<1>3. "ensure" \notin Robots
  BY DEF Robots
<1>4. QED
  BY <1>1, <1>2, <1>3, FirstFacts

LEMMA ImportModuleFacts ==
   ASSUME Shape, Facts, NEW m \in Entries, ImportModule(m)
   PROVE  Shape' /\ Facts'
<1> DEFINE f == Frame(m, Statements(m))
<1>1. /\ stack = <<>> /\ stack' = <<f>> /\ UNCHANGED <<loaded, generation, holds, registered, flag, outcome>>
      /\ ~InSysModules(m)
  BY DEF ImportModule, Idle
<1>2. m \in Modules /\ m \notin Robots
  BY ListsAre DEF Entries
<1>3. f \in FrameType /\ f.name = m /\ f.next = 1 /\ f.code = Statements(m)
  BY <1>2, ModuleFrame
<1> HIDE DEF f
<1>4. QED
  BY <1>1, <1>2, <1>3, FirstFacts
-----------------------------------------------------------------------------
(* A statement has run *)

LEMMA RanBefore ==
   ASSUME Shape, NEW m, NEW i \in Nat, NEW k \in Nat, k < i, Ran(m, i)
   PROVE  Ran(m, k)
<1>1. \A j \in 1 .. Len(stack) : stack[j].next \in Nat
  BY FrameFields DEF Shape, StackOf
<1>2. QED
  BY <1>1 DEF Ran

\* The names above all frames, and the modules whose import has ended, are the same.
LEMMA AdvanceKeeps ==
   ASSUME Shape, Facts, NEW kind, Executing(kind), kind # "reload", stack' = Advanced, loaded' = loaded, Typed',
          \A m \in Modules : generation'[m] = 0 => generation[m] = 0,
          Top.name = "ensure" /\ kind = "import" => InSysModules(Operand)
   PROVE  AboveUnbound' /\ RobotsByPackage' /\ LoadedInOrder' /\ EnsureProgress'
<1> USE DEF Facts
<1> DEFINE L == Len(stack)
<1>1. /\ stack \in Seq(FrameType) /\ stack # <<>> /\ L \in 1 .. L /\ Top = stack[L] /\ Top.next \in 1 .. Len(Top.code)
  BY Executed DEF Shape, StackOf
<1>2. /\ Len(stack') = L
      /\ \A j \in 1 .. L : /\ stack'[j].name = stack[j].name
                           /\ j = L => stack'[j].next = stack[j].next + 1
                           /\ j # L => stack'[j] = stack[j]
  BY <1>1, AdvancedIs
<1>3. /\ \A m : (Loaded(m)' <=> Loaded(m)) /\ (Complete(m)' <=> Complete(m))
      /\ \A m : InSysModules(m)' <=> InSysModules(m)
  BY AdvanceShape
<1>4. AboveUnbound'
  <2>1. Binders \subseteq Modules
    BY ModulesAre DEF Binders, LibraryModules, Robots
  <2>2. QED
    BY <1>2, <2>1 DEF AboveUnbound
<1>5. RobotsByPackage'
  BY <1>3, ModulesAre DEF RobotsByPackage
<1>6. LoadedInOrder'
  BY <1>3, EdgesAre DEF LoadedInOrder
<1>7. ASSUME NEW j \in 1 .. L, stack'[j].name = "ensure", NEW i \in 1 .. 7, i < stack'[j].next
      PROVE  InSysModules(Libraries[i])
  <2>1. CASE i < stack[j].next
    BY <1>2, <1>7, <2>1 DEF EnsureProgress
  <2>2. CASE ~(i < stack[j].next)
    <3>1. j = L
      BY <1>2, <1>7, <2>2
    <3>2. stack[j].next \in Nat
      BY <1>1, FrameFields
    <3>3. i = Top.next /\ Top.name = "ensure"
      BY <1>1, <1>2, <1>7, <2>2, <3>1, <3>2
    <3>4. "ensure" \notin Modules
      BY ModulesAre DEF LibraryModules, Robots
    <3>5. kind = "import" /\ Operand = Libraries[i]
      BY <3>3, <3>4, ExecutedBy
    <3>6. QED
      BY <3>3, <3>5
  <2>3. QED
    BY <2>1, <2>2
<1>8. EnsureProgress'
  BY <1>2, <1>3, <1>7 DEF EnsureProgress
<1>9. QED
  BY <1>4, <1>5, <1>6, <1>8

\* A statement that binds nothing.
LEMMA AdvanceFacts ==
   ASSUME Shape, Facts, NEW kind \in {"import", "from", "decorate", "flag"}, Executing(kind),
          stack' = Advanced, UNCHANGED <<loaded, generation, outcome>>, Typed',
          kind \in {"import", "from"} => InSysModules(Operand),
          \/ kind # "from" /\ holds' = holds
          \/ /\ kind = "from"
             /\ holds' = [holds EXCEPT ![<<Top.name, Operand>>] = generation[Operand]]
             /\ Operand # "object_library" => Complete(Operand),
          registered \subseteq registered', flag => flag', flag' => LibrariesIn,
          kind = "decorate" => <<Current, Top.name>> \in registered' /\ flag'
   PROVE  Shape' /\ Facts'
<1> USE DEF Facts
<1> DEFINE t == Top.name
           n == Operand
<1>1. /\ stack # <<>> /\ Len(stack) \in 1 .. Len(stack) /\ Top = stack[Len(stack)] /\ Top.next \in 1 .. Len(Top.code)
      /\ n \in Modules
  BY Executed
<1>2. t \in Modules => /\ Top.next \in 1 .. Len(Statements(t)) /\ Statements(t)[Top.next] = <<kind, n>>
  <2>1. "ensure" \notin Modules
    BY ModulesAre DEF LibraryModules, Robots
  <2>2. QED
    BY <2>1, ExecutedBy
<1>3. /\ Shape'
      /\ \A m : (OnStack(m)' <=> OnStack(m)) /\ (Loaded(m)' <=> Loaded(m)) /\ (Complete(m)' <=> Complete(m))
      /\ \A m : InSysModules(m)' <=> InSysModules(m)
      /\ \A m : \A i \in Nat : Ran(m, i)' <=> Ran(m, i) \/ (m = t /\ i = Top.next)
  BY AdvanceShape
<1>4. AboveUnbound' /\ RobotsByPackage' /\ LoadedInOrder' /\ EnsureProgress'
  BY AdvanceKeeps
<1>5. \A m \in Modules : \A i \in 1 .. Len(Statements(m)) :
         Ran(m, i)' => Ran(m, i) \/ (m = t /\ i = Top.next /\ Statements(m)[i] = <<kind, n>>)
  BY <1>2, <1>3, StatementIs
<1>6. \A m \in Modules : \A i \in 1 .. Len(Statements(m)) : Ran(m, i) => Ran(m, i)'
  BY <1>3, StatementIs
<1>7. Bound'
  <2>1. \A m \in Modules : generation'[m] > 0 => InSysModules(m)'
    BY <1>3 DEF Bound
  <2>2. \A m \in Modules : m \in Binders /\ Loaded(m)' => generation'[m] > 0
    BY <1>3 DEF Bound
  <2>3. ASSUME NEW m \in Modules, NEW i \in 1 .. Len(Statements(m)), Statements(m)[i][1] = "bind", Ran(m, i)'
        PROVE  generation'[m] > 0
    BY <1>5, <2>3 DEF Bound
  <2>4. ASSUME NEW m \in Modules, generation'[m] > 0, OnStack(m)', ~Loaded(m)'
        PROVE  \E i \in 1 .. Len(Statements(m)) : Statements(m)[i][1] = "bind" /\ Ran(m, i)'
    BY <1>3, <1>6, <2>4 DEF Bound
  <2>5. QED
    BY <2>1, <2>2, <2>3, <2>4 DEF Bound
<1>8. ImportsDone'
  <2> SUFFICES ASSUME NEW m \in Modules, NEW i \in 1 .. Len(Statements(m)),
                      Statements(m)[i][1] \in {"import", "from"}, Loaded(m)' \/ Ran(m, i)'
               PROVE  InSysModules(Statements(m)[i][2])'
    BY DEF ImportsDone
  <2>1. CASE Loaded(m) \/ Ran(m, i)
    BY <1>3, <2>1 DEF ImportsDone
  <2>2. CASE ~(Loaded(m) \/ Ran(m, i))
    <3>1. Statements(m)[i] = <<kind, n>>
      BY <1>3, <1>5, <2>2
    <3>2. kind \in {"import", "from"} /\ Statements(m)[i][2] = n
      BY <3>1
    <3>3. QED
      BY <1>3, <3>2
  <2>3. QED
    BY <2>1, <2>2
<1>9. Taken'
  <2>1. OnStack(t) /\ (kind = "from" => t \in Modules)
    <3>1. OnStack(t)
      BY <1>1, OnStackIs DEF Shape
    <3>2. kind = "from" => t \in Modules
      BY ExecutedBy
    <3>3. QED
      BY <3>1, <3>2
  <2>2. holds \in [Edges -> Nat]
    BY DEF Shape, Typed
  <2>3. \A e \in Edges : e # <<t, n>> => holds'[e] = holds[e]
    BY <2>2
  <2>4. kind = "from" => <<t, n>> \in Edges
    <3> SUFFICES ASSUME kind = "from"
                 PROVE  <<t, n>> \in Edges
      OBVIOUS
    <3>1. t \in Modules /\ Top.next \in 1 .. Len(Statements(t)) /\ Statements(t)[Top.next] = <<"from", n>>
      BY <1>2, <2>1
    <3>2. Top.next \in DOMAIN Statements(t) /\ Statements(t)[Top.next][1] = "from" /\ Statements(t)[Top.next][2] = n
      BY <3>1, StatementIs
    <3>3. QED
      BY <3>1, <3>2, EdgesAre
  <2>5. kind = "from" => holds'[<<t, n>>] = generation[n]
    BY <2>2, <2>4
  <2>6. kind # "from" => holds' = holds
    OBVIOUS
  <2>7. ASSUME NEW m \in Modules, NEW i \in 1 .. Len(Statements(m)), Statements(m)[i][1] = "from",
               Statements(m)[i][2] /= "object_library", Ran(m, i)'
        PROVE  /\ Complete(Statements(m)[i][2])'
               /\ holds'[<<m, Statements(m)[i][2]>>] = generation'[Statements(m)[i][2]]
    <3> DEFINE x == Statements(m)[i][2]
    <3>1. <<m, x>> \in Edges
      BY <2>7, StatementIs, EdgesAre
    <3>2. CASE Ran(m, i)
      <4>1. Complete(x) /\ holds[<<m, x>>] = generation[x]
        BY <2>7, <3>2 DEF Taken
      <4>2. CASE <<m, x>> = <<t, n>> /\ kind = "from"
        BY <1>3, <2>5, <4>1, <4>2
      <4>3. CASE ~(<<m, x>> = <<t, n>> /\ kind = "from")
        <5>1. holds'[<<m, x>>] = holds[<<m, x>>]
          BY <2>3, <2>6, <3>1, <4>3
        <5>2. QED
          BY <1>3, <4>1, <5>1
      <4>4. QED
        BY <4>2, <4>3
    <3>3. CASE ~Ran(m, i)
      <4>1. m = t /\ Statements(m)[i] = <<kind, n>>
        BY <1>5, <2>7, <3>3
      <4>2. kind = "from" /\ x = n
        BY <2>7, <4>1
      <4>3. Complete(n)
        BY <2>7, <4>2
      <4>4. QED
        BY <1>3, <2>5, <4>1, <4>2, <4>3
    <3>4. QED
      BY <3>2, <3>3
  <2>8. ASSUME NEW e \in Edges, ~InSysModules(e[1])'
        PROVE  holds'[e] = 0
    <3>1. ~InSysModules(e[1]) /\ e[1] # t
      BY <1>3, <2>1, <2>8 DEF InSysModules
    <3>2. holds'[e] = holds[e]
      BY <2>3, <3>1
    <3>3. QED
      BY <3>1, <3>2 DEF Taken
  <2>9. QED
    BY <2>7, <2>8 DEF Taken
<1>10. RegisteredOnce'
  <2>1. Current' = Current
    BY DEF Current
  <2>2. ASSUME NEW m \in Decorated, NEW i \in 1 .. Len(Statements(m)), Statements(m)[i][1] = "decorate", Ran(m, i)'
        PROVE  <<Current, m>> \in registered' /\ flag'
    <3>1. m \in Modules
      BY DEF Decorated
    <3>2. CASE Ran(m, i)
      BY <2>2, <3>2 DEF RegisteredOnce
    <3>3. CASE ~Ran(m, i)
      <4>1. m = t /\ Statements(m)[i] = <<kind, n>>
        BY <1>5, <2>2, <3>1, <3>3
      <4>2. kind = "decorate"
        BY <2>2, <4>1
      <4>3. QED
        BY <4>1, <4>2
    <3>4. QED
      BY <3>2, <3>3
  <2>3. QED
    BY <2>1, <2>2 DEF RegisteredOnce, Decorated
<1>11. FlagMeans'
  BY <1>3, ModulesAre DEF FlagMeans, LibrariesIn
<1>12. QED
  BY <1>3, <1>4, <1>7, <1>8, <1>9, <1>10, <1>11

\* A module that others take names of has bound them, and, the object library's
\* apart, its import has ended.
LEMMA FromComplete ==
   ASSUME Shape, Facts, Executing("from"), InSysModules(Operand)
   PROVE  /\ generation[Operand] > 0
          /\ Operand # "object_library" => Complete(Operand)
<1> USE DEF Facts
<1> DEFINE L == Len(stack)
           t == Top.name
           n == Operand
<1>1. /\ stack # <<>> /\ L \in 1 .. L /\ Top = stack[L] /\ n \in Modules /\ t # "reload_arena_modules"
      /\ stack \in Seq(FrameType) /\ StackOf(stack)
  BY Executed DEF Shape, StackOf
<1>2. t \in Modules /\ Top.next \in 1 .. Len(Statements(t)) /\ Statements(t)[Top.next] = <<"from", n>>
  BY ExecutedBy
<1>3. Taking(t, Statements(t)) /\ DOMAIN Statements(t) = 1 .. Len(Statements(t)) /\ Binding(n, Statements(n))
      /\ DOMAIN Statements(n) = 1 .. Len(Statements(n))
  BY <1>1, <1>2, StatementsAre, StatementIs DEF Described
<1>4. Top.next \in DOMAIN Statements(t) /\ Statements(t)[Top.next][1] = "from" /\ Statements(t)[Top.next][2] = n
  BY <1>2, <1>3
<1>5. /\ n \in Binders /\ n # t /\ t \notin {"asset_registry", "object"}
      /\ t = "register" => n = "asset_registry"
      /\ t = "object_library" => n \in {"object", "register"}
      /\ n = "franka" => t \in {"agibot", "droid"}
  BY <1>3, <1>4 DEF Taking
<1>6. /\ OnStack(n) <=> \E j \in 1 .. L : stack[j].name = n
      /\ OnStack(t)
      /\ <<t, n>> \in Edges
  BY <1>1, <1>2, <1>4, OnStackIs, EdgesAre
<1>7. generation \in [Modules -> Nat]
  BY DEF Shape, Typed
<1>8. generation[n] > 0
  <2>1. CASE Loaded(n)
    BY <1>1, <1>5, <2>1 DEF Bound
  <2>2. CASE OnStack(n)
    <3>1. PICK j \in 1 .. L : stack[j].name = n
      BY <1>6, <2>2
    <3>2. j < L
      BY <1>1, <1>5, <3>1
    <3>3. generation[n] = 0 => t \in Within(n)
      BY <1>1, <1>5, <3>1, <3>2 DEF AboveUnbound
    <3>4. t \notin Within(n)
      BY <1>5 DEF Within, Binders
    <3>5. QED
      BY <1>1, <1>7, <3>3, <3>4
  <2>3. QED
    BY <2>1, <2>2 DEF InSysModules
<1>9. ASSUME n # "object_library", Reloading
      PROVE  Complete(n)
  <2>1. L = 2 /\ stack[2].name = t
    <3>1. PICK d \in Nat : d = L
      BY <1>1
    <3>2. d # 1
      BY <1>1, <1>9, <3>1 DEF Reloading
    <3>3. d # 3
      BY <1>1, <1>2, <1>9, <3>1, ModulesAre DEF Shape, ReloadShape, LibraryModules, Robots
    <3>4. d <= 3 /\ d >= 1
      BY <1>1, <1>9, <3>1 DEF Shape, ReloadShape
    <3>5. d = 2
      BY <3>2, <3>3, <3>4
    <3>6. QED
      BY <1>1, <3>1, <3>5
  <2>2. stack[1].next > 1 /\ t = Reloaded(stack[1].next - 1)
    BY <1>9, <2>1 DEF Shape, ReloadShape
  <2>3. /\ stack[1].next \in 1 .. Len(stack[1].code) + 1 /\ Len(stack[1].code) \in Nat
        /\ stack[1].name = "reload_arena_modules"
    BY <1>1, <1>9, <2>1, FrameFields DEF StackOf, Reloading
  <2>4. PICK c \in 1 .. Len(stack[1].code) : c = stack[1].next - 1
    BY <2>2, <2>3
  <2>5. t = Reloaded(c)
    BY <2>2, <2>4
  <2>6. PICK j \in 1 .. Len(stack[1].code) : j < c /\ Reloaded(j) = n
    <3>1. \A i \in 1 .. Len(stack[1].code) : \A e \in Edges :
             e[1] = Reloaded(i) /\ e[2] /= "object_library" =>
                \E j \in 1 .. Len(stack[1].code) : j < i /\ Reloaded(j) = e[2]
      BY <1>9 DEF Shape, ReloadCode
    <3>2. <<t, n>>[1] = Reloaded(c) /\ <<t, n>>[2] # "object_library"
      BY <1>9, <2>5
    <3>3. \E j \in 1 .. Len(stack[1].code) : j < c /\ Reloaded(j) = <<t, n>>[2]
      BY <1>6, <3>1, <3>2
    <3>4. QED
      BY <3>3
  <2>7. Loaded(n)
    BY <1>9, <2>6 DEF Shape, ReloadCode
  <2>8. ~OnStack(n)
    <3>1. n # "reload_arena_modules"
      BY <1>5 DEF Binders
    <3>2. \A i \in 1 .. L : i = 1 \/ i = 2
      BY <2>1
    <3>3. QED
      BY <1>5, <1>6, <2>1, <2>3, <3>1, <3>2
  <2>9. ~Waiting(n)
    <3>1. ASSUME NEW k \in 1 .. Len(stack[1].code), k >= stack[1].next, Reloaded(k) = n
          PROVE  FALSE
      <4>1. k = j
        BY <1>9, <2>6, <3>1 DEF Shape, ReloadCode
      <4>2. QED
        BY <2>3, <2>4, <2>6, <3>1, <4>1
    <3>2. QED
      BY <3>1 DEF Waiting
  <2>10. QED
    BY <2>7, <2>8, <2>9 DEF Complete
<1>10. ASSUME n # "object_library", ~Reloading
       PROVE  Complete(n)
  <2>1. ~OnStack(n)
    <3> SUFFICES ASSUME OnStack(n)
                 PROVE  FALSE
      OBVIOUS
    <3>1. ~Loaded(n)
      BY <1>1, <1>10 DEF Shape, LoadedOrStack
    <3>2. PICK i \in 1 .. Len(Statements(n)) : Statements(n)[i][1] = "bind" /\ Ran(n, i)
      BY <1>1, <1>8, <3>1 DEF Bound
    <3>3. i = Len(Statements(n)) /\ i \in Nat
      <4>1. i \in DOMAIN Statements(n) /\ i \in Nat
        BY <1>1, <1>3, <3>2, StatementIs
      <4>2. QED
        BY <1>3, <1>10, <3>2, <4>1 DEF Binding
    <3>4. PICK j \in 1 .. L : stack[j].name = n /\ i < stack[j].next
      BY <3>2 DEF Ran, Complete
    <3>5. j < L
      BY <1>1, <1>5, <3>4
    <3>6. stack[j].next <= Len(stack[j].code) \/ stack[j].name = "reload_arena_modules"
      BY <1>1, <3>5 DEF StackOf
    <3>7. FrameOf(stack[j], j) /\ n # "reload_arena_modules" /\ n # "ensure"
      BY <1>1, <1>5 DEF StackOf, Binders
    <3>8. stack[j].code = Statements(n)
      BY <3>4, <3>7 DEF FrameOf
    <3>9. stack[j].next \in Nat
      BY <1>1, FrameFields
    <3>10. QED
      BY <3>3, <3>4, <3>6, <3>7, <3>8, <3>9
  <2>2. Loaded(n) /\ ~Waiting(n)
    BY <1>10, <2>1 DEF InSysModules, Waiting
  <2>3. QED
    BY <2>1, <2>2 DEF Complete
<1>11. QED
  BY <1>8, <1>9, <1>10

LEMMA ImportDoneFacts ==
   ASSUME Shape, Facts, ImportDone
   PROVE  Shape' /\ Facts'
<1>1. /\ Executing("import") /\ InSysModules(Operand) /\ stack' = Advanced
      /\ UNCHANGED <<loaded, generation, holds, registered, flag, outcome>>
  BY DEF ImportDone
<1>2. Typed'
  BY <1>1 DEF Shape, Typed
<1>3. flag' => LibrariesIn
  BY <1>1 DEF Facts, FlagMeans
<1>4. QED
  BY <1>1, <1>2, <1>3, AdvanceFacts

LEMMA FromDoneFacts ==
   ASSUME Shape, Facts, FromDone
   PROVE  Shape' /\ Facts'
<1>1. /\ Executing("from") /\ InSysModules(Operand)
      /\ UNCHANGED <<loaded, generation, registered, flag>>
  BY DEF FromDone
<1>2. /\ generation[Operand] > 0
      /\ Operand # "object_library" => Complete(Operand)
  BY <1>1, FromComplete
<1>3. /\ holds' = [holds EXCEPT ![<<Top.name, Operand>>] = generation[Operand]]
      /\ stack' = Advanced /\ outcome' = outcome
  BY <1>2 DEF FromDone
<1>4. Operand \in Modules
  BY <1>1, Executed
<1>5. Typed'
  BY <1>1, <1>3, <1>4 DEF Shape, Typed
<1>6. flag' => LibrariesIn
  BY <1>1 DEF Facts, FlagMeans
<1>7. QED
  BY <1>1, <1>2, <1>3, <1>5, <1>6, AdvanceFacts

\* register.py holds the registries there are once its import has ended.
LEMMA HeldIsCurrent ==
   ASSUME Shape, Facts, Complete("register")
   PROVE  Held = Current /\ Complete("asset_registry")
<1>1. Statements("register") = <<<<"from", "asset_registry">>, <<"bind", "register">>>>
  BY DEF Statements, From
<1>2. "register" \in Modules
  BY ModulesAre
<1>3. ASSUME NEW s, s = <<<<"from", "asset_registry">>, <<"bind", "register">>>>
      PROVE  1 \in 1 .. Len(s) /\ s[1][1] = "from" /\ s[1][2] = "asset_registry"
  BY <1>3
<1>4. /\ 1 \in 1 .. Len(Statements("register")) /\ Statements("register")[1][1] = "from"
      /\ Statements("register")[1][2] = "asset_registry"
  BY <1>1, <1>3
<1>5. Ran("register", 1)
  BY DEF Ran
<1>6. /\ Complete("asset_registry")
      /\ holds[<<"register", "asset_registry">>] = generation["asset_registry"]
  BY <1>2, <1>4, <1>5 DEF Facts, Taken
<1>7. QED
  BY <1>6 DEF Held, Current

\* A class that was decorated took its registry from register.py.
LEMMA DecoratedAfterRegister ==
   ASSUME Shape, Facts, NEW m \in Decorated, NEW i \in 1 .. Len(Statements(m)),
          Statements(m)[i][1] = "decorate", Ran(m, i)
   PROVE  Complete("register")
<1>1. m \in Modules
  BY DEF Decorated
<1>2. Decorating(m, Statements(m)) /\ DOMAIN Statements(m) = 1 .. Len(Statements(m))
  BY <1>1, StatementIs
<1>3. PICK k \in 1 .. Len(Statements(m)) : k < i /\ Statements(m)[k] = <<"from", "register">>
  BY <1>2 DEF Decorating
<1>4. Ran(m, k) /\ Statements(m)[k][1] = "from" /\ Statements(m)[k][2] = "register"
  <2>1. k \in Nat /\ i \in Nat
    BY <1>1, StatementIs
  <2>2. QED
    BY <1>3, <2>1, RanBefore
<1>5. QED
  BY <1>1, <1>4 DEF Facts, Taken

LEMMA DecorateRegistersFacts ==
   ASSUME Shape, Facts, DecorateRegisters
   PROVE  Shape' /\ Facts'
<1> DEFINE t == Top.name
<1>1. /\ Executing("decorate")
      /\ flag \/ Held /= Current
      /\ registered' = registered \cup {<<Held, Operand>>} /\ stack' = Advanced
      /\ UNCHANGED <<loaded, generation, holds, flag, outcome>>
  BY DEF DecorateRegisters
<1>2. /\ t \in Decorated /\ Operand = t
      /\ \E k \in 1 .. Len(Statements(t)) : Statements(t)[k] = <<"from", "register">> /\ Ran(t, k)
  BY <1>1, Decorates
<1>3. Complete("register")
  <2>1. PICK k \in 1 .. Len(Statements(t)) : Statements(t)[k] = <<"from", "register">> /\ Ran(t, k)
    BY <1>2
  <2>2. Statements(t)[k][1] = "from" /\ Statements(t)[k][2] = "register" /\ t \in Modules
    BY <1>2, <2>1 DEF Decorated
  <2>3. QED
    BY <2>1, <2>2 DEF Facts, Taken
<1>4. Held = Current
  BY <1>3, HeldIsCurrent
<1>5. flag
  BY <1>1, <1>4
<1>6. <<Current, t>> \in registered' /\ registered \subseteq registered'
  BY <1>1, <1>2, <1>4
<1>7. Typed'
  <2>1. Current \in Nat
    BY ModulesAre DEF Shape, Typed, Current
  <2>2. registered' \in SUBSET (Nat \X Decorated)
    BY <1>1, <1>2, <1>4, <2>1 DEF Shape, Typed
  <2>3. QED
    BY <1>1, <2>2 DEF Shape, Typed
<1>8. flag' => LibrariesIn
  BY <1>1 DEF Facts, FlagMeans
<1>9. QED
  BY <1>1, <1>5, <1>6, <1>7, <1>8, AdvanceFacts

LEMMA SetFlagFacts ==
   ASSUME Shape, Facts, SetFlag
   PROVE  Shape' /\ Facts'
<1>1. /\ Executing("flag") /\ flag' = TRUE /\ stack' = Advanced
      /\ UNCHANGED <<loaded, generation, holds, registered, outcome>>
  BY DEF SetFlag
<1>2. Top.name = "ensure" /\ Top.next = 8
  BY <1>1, ExecutedBy DEF Ops
<1>3. Len(stack) \in 1 .. Len(stack) /\ Top = stack[Len(stack)]
  BY <1>1, Executed
<1>4. \A i \in 1 .. 7 : InSysModules(Libraries[i])
  BY <1>2, <1>3 DEF Facts, EnsureProgress
<1>5. LibrariesIn
  BY <1>4, ListsAre DEF LibrariesIn
<1>6. Typed'
  BY <1>1 DEF Shape, Typed
<1>7. QED
  BY <1>1, <1>5, <1>6, AdvanceFacts

LEMMA RobotsAre == Robots \subseteq Modules /\ "embodiments" \in Modules
  BY ModulesAre DEF LibraryModules

\* The names are bound, and those who held the former ones have not run since.
LEMMA BindFacts ==
   ASSUME Shape, Facts, Bind
   PROVE  Shape' /\ Facts'
<1> USE DEF Facts
<1> DEFINE L == Len(stack)
           t == Top.name
<1>1. /\ Executing("bind") /\ stack' = Advanced /\ UNCHANGED <<loaded, holds, registered, outcome>>
      /\ generation' = [generation EXCEPT ![Operand] = @ + 1]
      /\ flag' = IF Operand = "asset_registry" THEN FALSE ELSE flag
  BY DEF Bind
<1>2. /\ stack # <<>> /\ L \in 1 .. L /\ Top = stack[L] /\ Operand \in Modules
  BY <1>1, Executed
<1>3. t \in Modules /\ Top.next \in 1 .. Len(Statements(t)) /\ Statements(t)[Top.next] = <<"bind", Operand>>
  BY <1>1, ExecutedBy
<1>4. Binding(t, Statements(t)) /\ DOMAIN Statements(t) = 1 .. Len(Statements(t))
  BY <1>3, StatementIs
<1>5. Statements(t)[Top.next] = <<"bind", t>> /\ Operand = t
  <2>1. Top.next \in DOMAIN Statements(t) /\ Statements(t)[Top.next][1] = "bind"
    BY <1>3, <1>4
  <2>2. Statements(t)[Top.next] = <<"bind", t>>
    BY <1>4, <2>1 DEF Binding
  <2>3. QED
    BY <1>3, <2>2
<1>6. generation \in [Modules -> Nat] /\ flag \in BOOLEAN
  BY DEF Shape, Typed
<1>7. \A m \in Modules : generation'[m] = IF m = t THEN generation[t] + 1 ELSE generation[m]
  BY <1>1, <1>3, <1>5, <1>6
<1>8. \A m \in Modules : generation'[m] \in Nat
  BY <1>3, <1>6, <1>7
<1>9. Typed'
  <2>1. generation' \in [Modules -> Nat]
    BY <1>1, <1>3, <1>5, <1>6
  <2>2. QED
    BY <1>1, <1>6, <2>1 DEF Shape, Typed
<1>10. /\ Shape'
       /\ \A m : (OnStack(m)' <=> OnStack(m)) /\ (Loaded(m)' <=> Loaded(m)) /\ (Complete(m)' <=> Complete(m))
       /\ \A m : InSysModules(m)' <=> InSysModules(m)
       /\ \A m : \A i \in Nat : Ran(m, i)' <=> Ran(m, i) \/ (m = t /\ i = Top.next)
  BY <1>1, <1>9, AdvanceShape
<1>11. \A m \in Modules : generation'[m] = 0 => generation[m] = 0
  BY <1>6, <1>7
<1>12. AboveUnbound' /\ RobotsByPackage' /\ LoadedInOrder' /\ EnsureProgress'
  BY <1>1, <1>9, <1>11, AdvanceKeeps
<1>13. \A m \in Modules : \A i \in 1 .. Len(Statements(m)) :
          Ran(m, i)' => Ran(m, i) \/ (m = t /\ i = Top.next /\ Statements(m)[i] = <<"bind", t>>)
  BY <1>5, <1>10, StatementIs
<1>14. \A m \in Modules : \A i \in 1 .. Len(Statements(m)) : Ran(m, i) => Ran(m, i)'
  BY <1>10, StatementIs
<1>15. OnStack(t) /\ ~Complete(t)
  BY <1>2, OnStackIs DEF Shape, Complete
<1>16. Bound'
  <2>1. \A m \in Modules : generation'[m] > 0 => InSysModules(m)'
    BY <1>7, <1>10, <1>15 DEF Bound, InSysModules
  <2>2. \A m \in Modules : m \in Binders /\ Loaded(m)' => generation'[m] > 0
    BY <1>6, <1>7, <1>10 DEF Bound
  <2>3. ASSUME NEW m \in Modules, NEW i \in 1 .. Len(Statements(m)), Statements(m)[i][1] = "bind", Ran(m, i)'
        PROVE  generation'[m] > 0
    BY <1>6, <1>7, <1>13, <2>3 DEF Bound
  <2>4. ASSUME NEW m \in Modules, generation'[m] > 0, OnStack(m)', ~Loaded(m)'
        PROVE  \E i \in 1 .. Len(Statements(m)) : Statements(m)[i][1] = "bind" /\ Ran(m, i)'
    <3>1. CASE m = t
      <4>1. PICK k \in 1 .. Len(Statements(m)) : k = Top.next
        BY <1>3, <3>1
      <4>2. Statements(m)[k][1] = "bind" /\ k \in Nat
        BY <1>5, <3>1, <4>1, StatementIs
      <4>3. Ran(m, k)'
        BY <1>10, <3>1, <4>1, <4>2
      <4>4. QED
        BY <4>2, <4>3
    <3>2. CASE m # t
      BY <1>7, <1>10, <1>14, <2>4, <3>2 DEF Bound
    <3>3. QED
      BY <3>1, <3>2
  <2>5. QED
    BY <2>1, <2>2, <2>3, <2>4 DEF Bound
<1>17. ImportsDone'
  <2> SUFFICES ASSUME NEW m \in Modules, NEW i \in 1 .. Len(Statements(m)),
                      Statements(m)[i][1] \in {"import", "from"}, Loaded(m)' \/ Ran(m, i)'
               PROVE  InSysModules(Statements(m)[i][2])'
    BY DEF ImportsDone
  <2>1. Loaded(m) \/ Ran(m, i)
    BY <1>10, <1>13
  <2>2. QED
    BY <1>10, <2>1 DEF ImportsDone
<1>18. Taken'
  <2>1. ASSUME NEW m \in Modules, NEW i \in 1 .. Len(Statements(m)), Statements(m)[i][1] = "from",
               Statements(m)[i][2] /= "object_library", Ran(m, i)'
        PROVE  /\ Complete(Statements(m)[i][2])'
               /\ holds'[<<m, Statements(m)[i][2]>>] = generation'[Statements(m)[i][2]]
    <3>1. Ran(m, i)
      BY <1>13, <2>1
    <3>2. /\ Complete(Statements(m)[i][2])
          /\ holds[<<m, Statements(m)[i][2]>>] = generation[Statements(m)[i][2]]
      BY <2>1, <3>1 DEF Taken
    <3>3. Statements(m)[i][2] # t /\ Statements(m)[i][2] \in Modules
      BY <1>15, <3>2, StatementIs
    <3>4. QED
      BY <1>1, <1>7, <1>10, <3>2, <3>3
  <2>2. \A e \in Edges : ~InSysModules(e[1])' => holds'[e] = 0
    BY <1>1, <1>10 DEF Taken
  <2>3. QED
    BY <2>1, <2>2 DEF Taken
<1>19. RegisteredOnce'
  <2> SUFFICES ASSUME NEW m \in Decorated, NEW i \in 1 .. Len(Statements(m)),
                      Statements(m)[i][1] = "decorate", Ran(m, i)'
               PROVE  <<Current', m>> \in registered' /\ flag'
    BY DEF RegisteredOnce, Decorated
  <2>1. Ran(m, i)
    BY <1>13 DEF Decorated
  <2>2. <<Current, m>> \in registered /\ flag
    BY <2>1 DEF RegisteredOnce
  <2>3. Complete("asset_registry")
    BY <2>1, DecoratedAfterRegister, HeldIsCurrent
  <2>4. t # "asset_registry" /\ "asset_registry" \in Modules
    BY <1>15, <2>3, ModulesAre
  <2>5. Current' = Current /\ flag' = flag
    BY <1>1, <1>5, <1>7, <2>4 DEF Current
  <2>6. QED
    BY <1>1, <2>2, <2>5
<1>20. FlagMeans'
  <2>1. flag' => flag
    BY <1>1
  <2>2. QED
    BY <1>10, <2>1, ModulesAre DEF FlagMeans, LibrariesIn
<1>21. QED
  BY <1>10, <1>12, <1>16, <1>17, <1>18, <1>19, <1>20

LEMMA ReloadStatementFacts ==
   ASSUME Shape, Facts, ReloadStatement
   PROVE  Shape' /\ Facts'
<1> USE DEF Facts
<1>1. UNCHANGED <<loaded, generation, holds, registered, flag, outcome>>
  BY DEF ReloadStatement
<1>2. Typed'
  BY <1>1 DEF Shape, Typed
<1>3. /\ Shape' /\ Reloading /\ Reloading'
      /\ \A m \in Modules : /\ OnStack(m)' <=> m = Operand
                            /\ Loaded(m)' <=> Loaded(m)
                            /\ Complete(m)' <=> Complete(m)
      /\ \A m \in Modules : InSysModules(m)' <=> InSysModules(m)
      /\ \A m \in Modules : \A i \in Nat \ {0} : Ran(m, i)' <=> Ran(m, i)
      /\ Len(stack') = 2 /\ stack'[1].name = "reload_arena_modules" /\ stack'[2].name = Operand
  BY <1>2, ReloadPushShape
<1>4. Operand \in Modules
  BY Executed DEF ReloadStatement
<1>5. \A m \in Modules : \A i \in 1 .. Len(Statements(m)) : Ran(m, i)' <=> Ran(m, i)
  BY <1>3, StatementIs
<1>6. /\ Taken' /\ RegisteredOnce' /\ FlagMeans'
      /\ \A m \in Modules : generation'[m] > 0 => InSysModules(m)'
      /\ \A m \in Modules : \A i \in 1 .. Len(Statements(m)) :
            Statements(m)[i][1] = "bind" /\ Ran(m, i)' => generation'[m] > 0
  BY <1>1, <1>3, <1>5, SameRan
<1>7. Bound'
  <2>1. \A m \in Modules : m \in Binders /\ Loaded(m)' => generation'[m] > 0
    BY <1>1, <1>3 DEF Bound
  <2>2. \A m \in Modules : OnStack(m)' => Loaded(m)'
    BY <1>3 DEF Shape, LoadedOrStack
  <2>3. QED
    BY <1>6, <2>1, <2>2 DEF Bound
<1>8. \A j \in 1 .. Len(stack') : j = 1 \/ j = 2
  BY <1>3
<1>9. AboveUnbound'
  <2> SUFFICES ASSUME NEW i \in 1 .. Len(stack'), NEW j \in 1 .. Len(stack'), i < j, stack'[i].name \in Binders
               PROVE  FALSE
    BY DEF AboveUnbound
  <2>1. i = 1
    BY <1>8
  <2>2. QED
    BY <1>3, <2>1 DEF Binders
<1>10. RobotsByPackage' /\ ImportsDone' /\ LoadedInOrder'
  <2>1. RobotsByPackage'
    BY <1>3, RobotsAre DEF RobotsByPackage
  <2>2. ImportsDone'
    BY <1>3, <1>5, StatementIs DEF ImportsDone
  <2>3. LoadedInOrder'
    BY <1>1, <1>3, EdgesAre DEF LoadedInOrder
  <2>4. QED
    BY <2>1, <2>2, <2>3
<1>11. EnsureProgress'
  <2>1. "ensure" \notin Modules
    BY ModulesAre DEF LibraryModules, Robots
  <2>2. \A j \in 1 .. Len(stack') : stack'[j].name # "ensure"
    BY <1>3, <1>4, <1>8, <2>1
  <2>3. QED
    BY <2>2 DEF EnsureProgress
<1>12. QED
  BY <1>3, <1>6, <1>7, <1>9, <1>10, <1>11

\* All statements of the module have run.
LEMMA ReturnFacts ==
   ASSUME Shape, Facts, Return
   PROVE  Shape' /\ Facts'
<1> USE DEF Facts
<1> DEFINE t == Top.name
<1>1. UNCHANGED <<generation, holds, registered, flag, outcome>>
  BY DEF Return
<1>2. /\ Shape'
      /\ \A m \in Modules : /\ OnStack(m)' <=> OnStack(m) /\ m # t
                            /\ Loaded(m)' <=> Loaded(m) \/ m = t
                            /\ Complete(m)' <=> Complete(m) \/ m = t
                            /\ InSysModules(m)' <=> InSysModules(m)
                            /\ \A i \in 1 .. Len(Statements(m)) : Ran(m, i)' <=> Ran(m, i)
      /\ t \in Modules => /\ OnStack(t)
                          /\ \A i \in 1 .. Len(Statements(t)) : Ran(t, i)
      /\ \A a, b \in Modules : a # t /\ b # t /\ Precedes(a, b, loaded) => Precedes(a, b, loaded')
      /\ \A a \in Modules : a # t /\ Loaded(a) /\ t \in Modules => Precedes(a, t, loaded')
      /\ Len(stack) \in Nat \ {0} /\ Len(stack') = Len(stack) - 1
      /\ \A j \in 1 .. Len(stack) - 1 : stack'[j] = stack[j]
  BY <1>1, ReturnShape DEF Shape, Typed
<1>3. \A m \in Modules : InSysModules(m) => InSysModules(m)'
  BY <1>2
<1>4. \A m \in Modules : Complete(m) => Complete(m)'
  BY <1>2
<1>5. \A m \in Modules : \A i \in 1 .. Len(Statements(m)) : Ran(m, i)' <=> Ran(m, i)
  BY <1>2
<1>6. /\ Taken' /\ RegisteredOnce' /\ FlagMeans'
      /\ \A m \in Modules : generation'[m] > 0 => InSysModules(m)'
      /\ \A m \in Modules : \A i \in 1 .. Len(Statements(m)) :
            Statements(m)[i][1] = "bind" /\ Ran(m, i)' => generation'[m] > 0
  BY <1>1, <1>3, <1>4, <1>5, SameRan
<1>7. Bound'
  <2>1. ASSUME NEW m \in Modules, m \in Binders, Loaded(m)'
        PROVE  generation'[m] > 0
    <3>1. CASE Loaded(m)
      BY <1>1, <2>1, <3>1 DEF Bound
    <3>2. CASE m = t
      <4>1. PICK i \in 1 .. Len(Statements(m)) : Statements(m)[i] = <<"bind", m>>
        <5>1. Binding(m, Statements(m)) /\ DOMAIN Statements(m) = 1 .. Len(Statements(m))
          BY StatementsAre DEF Described
        <5>2. QED
          BY <2>1, <5>1 DEF Binding
      <4>2. Ran(m, i) /\ Statements(m)[i][1] = "bind"
        BY <1>2, <3>2, <4>1
      <4>3. QED
        BY <1>1, <4>2 DEF Bound
    <3>3. QED
      BY <1>2, <2>1, <3>1, <3>2
  <2>2. ASSUME NEW m \in Modules, generation'[m] > 0, OnStack(m)', ~Loaded(m)'
        PROVE  \E i \in 1 .. Len(Statements(m)) : Statements(m)[i][1] = "bind" /\ Ran(m, i)'
    <3>1. OnStack(m) /\ ~Loaded(m) /\ generation[m] > 0
      BY <1>1, <1>2, <2>2
    <3>2. QED
      BY <1>5, <3>1 DEF Bound
  <2>3. QED
    BY <1>6, <2>1, <2>2 DEF Bound
<1>8. \A j \in 1 .. Len(stack') : j \in 1 .. Len(stack) /\ stack'[j] = stack[j]
  BY <1>2
<1>9. AboveUnbound'
  BY <1>1, <1>8 DEF AboveUnbound
<1>10. RobotsByPackage'
  BY <1>2, RobotsAre DEF RobotsByPackage
<1>11. ImportsDone'
  <2> SUFFICES ASSUME NEW m \in Modules, NEW i \in 1 .. Len(Statements(m)),
                      Statements(m)[i][1] \in {"import", "from"}, Loaded(m)' \/ Ran(m, i)'
               PROVE  InSysModules(Statements(m)[i][2])'
    BY DEF ImportsDone
  <2>1. Loaded(m) \/ Ran(m, i)
    BY <1>2
  <2>2. InSysModules(Statements(m)[i][2]) /\ Statements(m)[i][2] \in Modules
    BY <2>1, StatementIs DEF ImportsDone
  <2>3. QED
    BY <1>3, <2>2
<1>12. LoadedInOrder'
  <2> SUFFICES ASSUME NEW e \in Edges, e[2] /= "object_library", Complete(e[1])'
               PROVE  Precedes(e[2], e[1], loaded')
    BY DEF LoadedInOrder
  <2>1. e[1] \in Modules /\ e[2] \in Modules
    BY EdgesAre
  <2>2. PICK i \in 1 .. Len(Statements(e[1])) : Statements(e[1])[i] = <<"from", e[2]>>
    <3>1. DOMAIN Statements(e[1]) = 1 .. Len(Statements(e[1]))
      BY <2>1, StatementsAre DEF Described
    <3>2. QED
      BY <3>1, EdgesAre
  <2>3. Ran(e[1], i)
    BY <1>2, <2>1 DEF Ran
  <2>9. Statements(e[1])[i][1] = "from" /\ Statements(e[1])[i][2] = e[2]
    BY <2>2
  <2>4. Complete(e[2])
    BY <2>1, <2>3, <2>9 DEF Taken
  <2>5. e[2] # t /\ Loaded(e[2])
    BY <1>2, <2>1, <2>4 DEF Complete
  <2>6. CASE e[1] = t
    BY <1>2, <2>1, <2>5, <2>6
  <2>7. CASE e[1] # t
    BY <1>2, <2>1, <2>5, <2>7 DEF LoadedInOrder
  <2>8. QED
    BY <2>6, <2>7
<1>13. EnsureProgress'
  <2>1. \A i \in 1 .. 7 : Libraries[i] \in Modules
    BY ListsAre, ModulesAre
  <2>2. QED
    BY <1>3, <1>8, <2>1 DEF EnsureProgress
<1>14. QED
  BY <1>2, <1>6, <1>7, <1>9, <1>10, <1>11, <1>12, <1>13

\* Between the imports, what is loaded is complete.
LEMMA IdleComplete ==
   ASSUME Shape, stack = <<>>, NEW m
   PROVE  ~OnStack(m) /\ (Complete(m) <=> Loaded(m))
<1>1. ~OnStack(m) /\ ~Waiting(m)
  BY DEF OnStack, Waiting, Reloading
<1>2. QED
  BY <1>1 DEF Complete

LEMMA ReloadFacts ==
   ASSUME Shape, Facts, Reload
   PROVE  Shape' /\ Facts'
<1> USE DEF Facts
<1>1. stack = <<>> /\ UNCHANGED <<loaded, generation, holds, registered, flag, outcome>>
  BY DEF Reload, Idle
<1>2. Typed'
  BY <1>1 DEF Shape, Typed
<1>3. ASSUME NEW m \in Decorated, Loaded(m)
      PROVE  LibrariesIn
  <2>1. m \in Modules /\ DOMAIN Statements(m) = 1 .. Len(Statements(m))
    BY StatementsAre DEF Decorated, Described
  <2>2. PICK i \in 1 .. Len(Statements(m)) : Statements(m)[i][1] = "decorate"
    BY <2>1 DEF Decorated
  <2>3. Ran(m, i)
    BY <1>1, <1>3, IdleComplete DEF Ran
  <2>4. QED
    BY <2>2, <2>3 DEF RegisteredOnce, FlagMeans
<1>4. /\ Shape'
      /\ \A m \in Modules : /\ ~OnStack(m)'
                            /\ Loaded(m)' <=> Loaded(m)
                            /\ ~Complete(m)'
      /\ \A m \in Modules : InSysModules(m)' <=> InSysModules(m)
      /\ \A m \in Modules : \A i : ~Ran(m, i)'
      /\ Len(stack') = 1 /\ stack'[1].name = "reload_arena_modules"
  BY <1>2, <1>3, ReloadStartShape
<1>5. \A j \in 1 .. Len(stack') : j = 1
  BY <1>4
<1>6. Bound'
  BY <1>1, <1>4 DEF Bound
<1>7. AboveUnbound'
  BY <1>5 DEF AboveUnbound
<1>8. RobotsByPackage'
  BY <1>4, RobotsAre DEF RobotsByPackage
<1>9. ImportsDone'
  BY <1>4, StatementIs DEF ImportsDone
<1>10. Taken'
  BY <1>1, <1>4, EdgesAre DEF Taken
<1>11. LoadedInOrder'
  BY <1>4, EdgesAre DEF LoadedInOrder
<1>12. RegisteredOnce'
  BY <1>4 DEF RegisteredOnce, Decorated
<1>13. FlagMeans'
  BY <1>1, <1>4, ModulesAre DEF FlagMeans, LibrariesIn
<1>14. EnsureProgress'
  BY <1>4, <1>5 DEF EnsureProgress
<1>15. QED
  BY <1>4, <1>6, <1>7, <1>8, <1>9, <1>10, <1>11, <1>12, <1>13, <1>14

-----------------------------------------------------------------------------
(* The invariant *)

RegistryInv == Shape /\ Facts

LEMMA RegistryInitially == RegistryInit => RegistryInv
<1> SUFFICES ASSUME RegistryInit
             PROVE  RegistryInv
  OBVIOUS
<1> USE DEF RegistryInit
<1>1. stack = <<>> /\ loaded = <<>> /\ Len(stack) = 0 /\ Len(loaded) = 0
  OBVIOUS
<1>2. \A m : ~Loaded(m) /\ ~OnStack(m) /\ ~InSysModules(m) /\ ~Complete(m)
  BY <1>1 DEF Loaded, OnStack, InSysModules, Complete
<1>3. ~Reloading /\ \A m, i : ~Ran(m, i)
  BY <1>1, <1>2 DEF Reloading, Ran
<1>4. Typed
  <2>1. loaded \in Seq(Modules) /\ Distinct(loaded)
    BY <1>1 DEF Distinct
  <2>2. generation \in [Modules -> Nat] /\ holds \in [Edges -> Nat]
    OBVIOUS
  <2>3. registered \in SUBSET (Nat \X Decorated) /\ flag \in BOOLEAN /\ outcome = "ok"
    OBVIOUS
  <2>4. QED
    BY <2>1, <2>2, <2>3 DEF Typed
<1>5. StackOf(stack)
  BY <1>1 DEF StackOf
<1>6. Shape
  BY <1>2, <1>3, <1>4, <1>5 DEF Shape, LoadedOrStack, ReloadCode, ReloadShape
<1>7. Bound
  BY <1>2, <1>3 DEF Bound
<1>8. AboveUnbound /\ EnsureProgress
  BY <1>1 DEF AboveUnbound, EnsureProgress
<1>9. RobotsByPackage /\ ImportsDone
  BY <1>2, <1>3 DEF RobotsByPackage, ImportsDone
<1>10. Taken /\ LoadedInOrder
  BY <1>2, <1>3 DEF Taken, LoadedInOrder
<1>11. RegisteredOnce /\ FlagMeans
  BY <1>3 DEF RegisteredOnce, FlagMeans
<1>12. QED
  BY <1>6, <1>7, <1>8, <1>9, <1>10, <1>11 DEF RegistryInv, Facts

LEMMA RegistryStep ==
   ASSUME RegistryInv, RegistryNext
   PROVE  RegistryInv'
<1>1. Shape /\ Facts
  BY DEF RegistryInv
<1>2. CASE ImportStatement
  BY <1>1, <1>2, ImportFacts DEF RegistryInv
<1>3. CASE ImportDone
  BY <1>1, <1>3, ImportDoneFacts DEF RegistryInv
<1>4. CASE FromDone
  BY <1>1, <1>4, FromDoneFacts DEF RegistryInv
<1>5. CASE Bind
  BY <1>1, <1>5, BindFacts DEF RegistryInv
<1>6. CASE DecorateEnsures
  BY <1>1, <1>6, DecorateEnsuresFacts DEF RegistryInv
<1>7. CASE DecorateRegisters
  BY <1>1, <1>7, DecorateRegistersFacts DEF RegistryInv
<1>8. CASE SetFlag
  BY <1>1, <1>8, SetFlagFacts DEF RegistryInv
<1>9. CASE ReloadStatement
  BY <1>1, <1>9, ReloadStatementFacts DEF RegistryInv
<1>10. CASE Return
  BY <1>1, <1>10, ReturnFacts DEF RegistryInv
<1>11. CASE LookUp
  BY <1>1, <1>11, LookUpFacts DEF RegistryInv
<1>12. CASE Reload
  BY <1>1, <1>12, ReloadFacts DEF RegistryInv
<1>13. CASE \E m \in Entries : ImportModule(m)
  BY <1>1, <1>13, ImportModuleFacts DEF RegistryInv
<1>14. QED
  BY <1>2, <1>3, <1>4, <1>5, <1>6, <1>7, <1>8, <1>9, <1>10, <1>11, <1>12, <1>13 DEF RegistryNext, Statement

LEMMA RegistryStutter ==
   ASSUME RegistryInv, UNCHANGED registryVars
   PROVE  RegistryInv'
<1> USE DEF registryVars
<1>1. \A m : (Loaded(m)' <=> Loaded(m)) /\ (OnStack(m)' <=> OnStack(m))
  BY DEF Loaded, OnStack
<1>2. \A m : InSysModules(m)' <=> InSysModules(m)
  BY <1>1 DEF InSysModules
<1>3. (Reloading' <=> Reloading) /\ \A i : Reloaded(i)' = Reloaded(i)
  BY DEF Reloading, Reloaded
<1>4. \A m : Waiting(m)' <=> Waiting(m)
  BY <1>3 DEF Waiting
<1>5. \A m : Complete(m)' <=> Complete(m)
  BY <1>1, <1>4 DEF Complete
<1>6. \A m, i : Ran(m, i)' <=> Ran(m, i)
  BY <1>5 DEF Ran
<1>7. Shape'
  BY <1>1, <1>2, <1>3 DEF RegistryInv, Shape, Typed, StackOf, LoadedOrStack, ReloadCode, ReloadShape, LibrariesIn, Reloaded
<1>8. Bound' /\ AboveUnbound' /\ RobotsByPackage' /\ ImportsDone'
  BY <1>1, <1>2, <1>6 DEF RegistryInv, Facts, Bound, AboveUnbound, RobotsByPackage, ImportsDone
<1>9. Taken' /\ LoadedInOrder'
  BY <1>2, <1>5, <1>6 DEF RegistryInv, Facts, Taken, LoadedInOrder
<1>10. RegisteredOnce' /\ FlagMeans' /\ EnsureProgress'
  BY <1>2, <1>6 DEF RegistryInv, Facts, RegisteredOnce, Current, FlagMeans, LibrariesIn, EnsureProgress
<1>11. QED
  BY <1>7, <1>8, <1>9, <1>10 DEF RegistryInv, Facts
-----------------------------------------------------------------------------
(* What it means for the look-ups *)

LEMMA RobotsImported ==
   \A m \in Robots : \E i \in 1 .. Len(Statements("embodiments")) :
      Statements("embodiments")[i] = <<"import", m>>
<1>1. Statements("embodiments") = [i \in 1 .. 6 |-> <<"import", RobotModules[i]>>]
  BY ListsAre DEF Statements, Import
<1>2. ASSUME NEW s, s = [i \in 1 .. 6 |-> <<"import", RobotModules[i]>>]
      PROVE  Len(s) = 6 /\ \A i \in 1 .. 6 : s[i] = <<"import", RobotModules[i]>>
  BY <1>2
<1>3. ASSUME NEW s, s = [i \in 1 .. 6 |-> <<"import", RobotModules[i]>>], NEW m \in Robots
      PROVE  \E i \in 1 .. Len(s) : s[i] = <<"import", m>>
  <2>1. PICK i \in 1 .. 6 : RobotModules[i] = m
    BY ListsAre
  <2>2. s[i] = <<"import", m>> /\ i \in 1 .. Len(s)
    BY <1>2, <1>3, <2>1
  <2>3. QED
    BY <2>2
<1>4. QED
  BY <1>1, <1>3

LEMMA AllThere ==
   ASSUME RegistryInv, Idle, flag
   PROVE  {m \in Modules : <<Current, m>> \in registered} = Decorated
<1> USE DEF RegistryInv, Facts
<1>1. stack = <<>>
  BY DEF Idle
<1>2. \A m : InSysModules(m) => Loaded(m) /\ Complete(m)
  BY <1>1, IdleComplete DEF InSysModules
<1>3. LibrariesIn
  BY DEF FlagMeans
<1>4. \A m \in Robots : InSysModules(m)
  <2>1. "embodiments" \in Modules /\ Loaded("embodiments")
    BY <1>2, <1>3, RobotsAre DEF LibrariesIn, LibraryModules
  <2>2. ASSUME NEW m \in Robots
        PROVE  InSysModules(m)
    <3>1. PICK i \in 1 .. Len(Statements("embodiments")) : Statements("embodiments")[i] = <<"import", m>>
      BY RobotsImported
    <3>2. Statements("embodiments")[i][1] = "import" /\ Statements("embodiments")[i][2] = m
      BY <3>1
    <3>3. QED
      BY <2>1, <3>2 DEF ImportsDone
  <2>3. QED
    BY <2>2
<1>5. ASSUME NEW m \in Decorated
      PROVE  <<Current, m>> \in registered
  <2>1. InSysModules(m)
    BY <1>3, <1>4, DecoratedAre DEF LibrariesIn
  <2>2. m \in Modules /\ DOMAIN Statements(m) = 1 .. Len(Statements(m))
    BY StatementsAre DEF Decorated, Described
  <2>3. PICK i \in 1 .. Len(Statements(m)) : Statements(m)[i][1] = "decorate"
    BY <2>2 DEF Decorated
  <2>4. Ran(m, i)
    BY <1>2, <2>1 DEF Ran
  <2>5. QED
    BY <2>3, <2>4 DEF RegisteredOnce
<1>6. registered \subseteq Nat \X Decorated
  BY DEF Shape, Typed
<1>7. QED
  BY <1>5, <1>6 DEF Decorated

LEMMA NoneStale ==
   ASSUME RegistryInv, Idle, NEW e \in Edges, e[2] /= "object_library"
   PROVE  holds[e] \in {0, generation[e[2]]}
<1> USE DEF RegistryInv, Facts
<1>1. stack = <<>>
  BY DEF Idle
<1>2. CASE ~InSysModules(e[1])
  BY <1>2 DEF Taken
<1>3. CASE InSysModules(e[1])
  <2>1. e[1] \in Modules /\ DOMAIN Statements(e[1]) = 1 .. Len(Statements(e[1])) /\ e = <<e[1], e[2]>>
    BY EdgesAre, StatementsAre DEF Described
  <2>2. Complete(e[1])
    BY <1>1, <1>3, IdleComplete DEF InSysModules
  <2>3. PICK i \in 1 .. Len(Statements(e[1])) : Statements(e[1])[i] = <<"from", e[2]>>
    BY <2>1, EdgesAre
  <2>4. Ran(e[1], i) /\ Statements(e[1])[i][1] = "from" /\ Statements(e[1])[i][2] = e[2]
    BY <2>2, <2>3 DEF Ran
  <2>5. holds[<<e[1], e[2]>>] = generation[e[2]]
    BY <2>1, <2>4 DEF Taken
  <2>6. QED
    BY <2>1, <2>5
<1>4. QED
  BY <1>2, <1>3

LEMMA ArenaInvInitially == ArenaInit => RegistryInv
  BY RegistryInitially DEF ArenaInit

LEMMA ArenaInvStep == RegistryInv /\ [ArenaNext]_worldVars => RegistryInv'
<1> SUFFICES ASSUME RegistryInv, [ArenaNext]_worldVars
             PROVE  RegistryInv'
  OBVIOUS
<1>1. CASE Registry
  BY <1>1, RegistryStep DEF Registry
<1>2. CASE Reset \/ Step \/ CloseEnv \/ \E choice \in Requests, limits \in Limits : Build(choice, limits)
  <2>1. UNCHANGED registryVars
    BY <1>2 DEF Reset, Step, CloseEnv, Build
  <2>2. QED
    BY <2>1, RegistryStutter
<1>3. CASE UNCHANGED worldVars
  BY <1>3, RegistryStutter DEF worldVars
<1>4. QED
  BY <1>1, <1>2, <1>3 DEF ArenaNext

\* A look-up finds everything that is documented: between the imports, once the flag of
\* ensure_assets_registered is set (asset_registry.py:221), the registries that exist
\* hold the classes of all libraries and all robots, though the flag is set by the
\* innermost of the nested calls, and however often the modules were reloaded since.
THEOREM LookUpsFindAll == ArenaSpec => []AllRegistered
<1>1. RegistryInv => AllRegistered
  BY AllThere DEF AllRegistered
<1>2. QED
  BY ArenaInvInitially, ArenaInvStep, <1>1, PTL DEF ArenaSpec

\* No import of the libraries, in any order, at first or when reloaded, takes a name too
\* early: the circle of asset_registry, register and the libraries never raises
\* ImportError.
THEOREM NoCircularImport == ArenaSpec => []ImportsSucceed
<1>1. RegistryInv => ImportsSucceed
  BY DEF RegistryInv, Shape, Typed, ImportsSucceed
<1>2. QED
  BY ArenaInvInitially, ArenaInvStep, <1>1, PTL DEF ArenaSpec

\* The order in which reload_modules.py reloads leaves no module with a class of another
\* as it was before: each is reloaded after those it takes names of.
THEOREM ReloadsLeaveNoStaleClass == ArenaSpec => []NoStaleClasses
<1>1. RegistryInv => NoStaleClasses
  BY NoneStale DEF NoStaleClasses
<1>2. QED
  BY ArenaInvInitially, ArenaInvStep, <1>1, PTL DEF ArenaSpec

\* A request that the environments' files can serve: get_env accepts it, the parts fit,
\* and the libraries and the robots' modules register all names.
Servable(choice) ==
   /\ Accepts(choice)
   /\ Fits(get_env(choice), choice.device, choice.mimic)
   /\ LookedUp(get_env(choice)) \subseteq UNION {Registers(m) : m \in Decorated}

ArenaInv == RegistryInv /\ built.status /= "failed"

LEMMA BuildSucceeds ==
   ASSUME RegistryInv, NEW choice \in Requests, NEW limits \in Limits, Servable(choice), Build(choice, limits)
   PROVE  built'.status = "built"
<1>1. Idle /\ flag
  BY DEF Build, Ready
<1>2. RegisteredNames = UNION {Registers(m) : m \in Decorated}
  BY <1>1, AllThere DEF RegisteredNames
<1>3. Accepts(choice) /\ Assembles(get_env(choice), choice.device, choice.mimic)
  BY <1>2 DEF Servable, Assembles
<1> DEFINE env == get_env(choice)
           l == IF env.task.joint.kind = "level" THEN [min |-> 0, max |-> 320] ELSE limits
           e(solved) == CombinedEvents(RobotEvents(env.embodiment), SceneEvents(env, solved), env.task.events)
<1>4. PICK solved : built' = [status |-> "built", environment |-> env, limits |-> l,
                              mimic |-> choice.mimic, events |-> e(solved)]
  BY <1>3 DEF Build
<1> HIDE DEF env, l, e
<1>5. QED
  BY <1>4

\* Whenever in a process an environment is built, after whichever imports and reloads, a
\* request that the environments' files can serve assembles: what the builder looks up
\* is registered by then, in the registries there are (arena_env_builder.py:130-266).
THEOREM ServableAssembles ==
   ASSUME \A choice \in Requests : Servable(choice)
   PROVE  ArenaSpec => []EveryEnvironmentAssembles
<1>1. ArenaInit => ArenaInv
  BY ArenaInvInitially DEF ArenaInit, ArenaInv, NotBuilt
<1>2. ArenaInv /\ [ArenaNext]_worldVars => ArenaInv'
  <2> SUFFICES ASSUME ArenaInv, [ArenaNext]_worldVars
               PROVE  built'.status /= "failed"
    BY ArenaInvStep DEF ArenaInv
  <2>1. CASE Registry \/ Reset \/ Step \/ UNCHANGED worldVars
    BY <2>1 DEF Registry, Reset, Step, worldVars, arenaVars, ArenaInv
  <2>2. CASE CloseEnv
    BY <2>2 DEF CloseEnv, NotBuilt
  <2>3. ASSUME NEW choice \in Requests, NEW limits \in Limits, Build(choice, limits)
        PROVE  built'.status /= "failed"
    BY <2>3, BuildSucceeds DEF ArenaInv
  <2>4. QED
    BY <2>1, <2>2, <2>3 DEF ArenaNext
<1>3. ArenaInv => EveryEnvironmentAssembles
  BY DEF ArenaInv, EveryEnvironmentAssembles
<1>4. QED
  BY <1>1, <1>2, <1>3, PTL DEF ArenaSpec

-----------------------------------------------------------------------------
(* What a reset leaves in a joint *)

LEMMA Quotient ==
   ASSUME NEW a \in Int, NEW b \in Nat \ {0}, NEW q \in Int, NEW c \in Nat, a = q * b + c, c < b
   PROVE  a \div b = q
<1>1. /\ a \div b \in Int /\ a % b \in 0 .. b - 1
      /\ a = b * (a \div b) + (a % b)
  OBVIOUS
<1> DEFINE p == a \div b
           d == a % b
<1>2. p \in Int /\ d \in 0 .. b - 1 /\ q * b + c = b * p + d
  BY <1>1
<1> HIDE DEF p, d
<1>3. ~(p < q)
  <2> SUFFICES ASSUME p + 1 <= q
               PROVE  FALSE
    BY <1>2
  <2>1. b * (p + 1) <= b * q
    BY <1>2
  <2>2. QED
    BY <1>2, <2>1
<1>4. ~(q < p)
  <2> SUFFICES ASSUME q + 1 <= p
               PROVE  FALSE
    BY <1>2
  <2>1. b * (q + 1) <= b * p
    BY <1>2
  <2>2. QED
    BY <1>2, <2>1
<1>5. QED
  BY <1>2, <1>3, <1>4 DEF p

\* A joint reads as what a reset has set it to, whichever way it opens and wherever its
\* range begins (joint_utils.py): a door or a button that is reset to the other side of
\* the threshold of its task's success is not open, closed or pressed.
THEOREM JointReadsAsReset ==
   ASSUME NEW limits, limits.min \in Int, limits.max = limits.min + 100,
          NEW x \in 0 .. 100, NEW threshold \in Int
   PROVE  /\ get_normalized_joint_position(limits, rotate_revolute_joint(limits, x)) = x
          /\ get_normalized_joint_position(limits, unpress(limits, x)) = 100 - x
          /\ is_open(limits, rotate_revolute_joint(limits, x), threshold) <=> x > threshold
          /\ is_closed(limits, rotate_revolute_joint(limits, x), threshold) <=> x <= threshold
          /\ is_pressed(limits, unpress(limits, x), threshold) <=> 100 - x > threshold
<1>1. ASSUME NEW y \in 0 .. 100
      PROVE  get_normalized_joint_position(limits, set_normalized_joint_position(limits, y)) = y
  <2>1. \A min \in Int : \A z \in 0 .. 100 : unnormalize_value(z, min, min + 100) = min + z
    BY DEF unnormalize_value
  <2>2. \A min \in Int : \A z \in 0 .. 100 : normalize_value(min + z, min, min + 100) = z
    BY DEF normalize_value
  <2>3. CASE limits.min < 0
    <3>1. PICK z \in 0 .. 100 : z = 100 - y /\ 100 - z = y
      OBVIOUS
    <3>5. unnormalize_value(z, limits.min, limits.max) = limits.min + z
      BY SMTT(30), <2>1
    <3>2. set_normalized_joint_position(limits, y) = limits.min + z
      BY <2>3, <3>1, <3>5 DEF set_normalized_joint_position
    <3>3. normalize_value(limits.min + z, limits.min, limits.max) = z
      BY SMTT(30), <2>2
    <3>4. QED
      BY <2>3, <3>1, <3>2, <3>3 DEF get_normalized_joint_position
  <2>4. CASE ~(limits.min < 0)
    <3>1. set_normalized_joint_position(limits, y) = limits.min + y
      BY SMTT(30), <2>1, <2>4 DEF set_normalized_joint_position
    <3>2. normalize_value(limits.min + y, limits.min, limits.max) = y
      BY SMTT(30), <2>2
    <3>3. QED
      BY <2>4, <3>1, <3>2 DEF get_normalized_joint_position
  <2>5. QED
    BY <2>3, <2>4
<1>2. get_normalized_joint_position(limits, rotate_revolute_joint(limits, x)) = x
  BY <1>1 DEF rotate_revolute_joint
<1>3. get_normalized_joint_position(limits, unpress(limits, x)) = 100 - x
  <2>1. 100 - x \in 0 .. 100
    OBVIOUS
  <2>2. QED
    BY <1>1, <2>1 DEF unpress, press
<1>4. QED
  BY <1>2, <1>3 DEF is_open, is_closed, is_pressed

\* A knob reads as the level it was turned to, the dead zone and the last level included,
\* for every number of levels (turnable.py): turn_to_level goes to the middle of a level,
\* and get_turning_level rounds down.
THEOREM KnobReadsAsTurned ==
   ASSUME NEW knob, NEW steps \in Nat \ {0}, NEW size \in Nat \ {0},
          knob.min \in Nat \ {0}, knob.num_levels = steps + 1, knob.max = knob.min + size * steps,
          NEW level \in -1 .. steps
   PROVE  is_at_level(knob, turn_to_level(knob, level), level)
<1>1. knob.num_levels - 1 = steps /\ knob.max - knob.min = size * steps /\ size * steps \in Nat \ {0}
  OBVIOUS
<1>2. step_size(knob) = size
  <2>1. size * steps = size * steps + 0
    OBVIOUS
  <2>2. (size * steps) \div steps = size
    BY <2>1, Quotient
  <2>3. QED
    BY <1>1, <2>2 DEF step_size
<1>3. CASE level = -1
  BY <1>3 DEF is_at_level, get_turning_level, turn_to_level
<1>4. CASE level \in Nat
  <2> DEFINE half == size \div 2
             r == size * level + half
  <2>1. half \in Nat /\ half < size
    OBVIOUS
  <2>2. r \in Nat
    BY <1>4, <2>1
  <2>3. turn_to_level(knob, level) = knob.min + r
    BY <1>2, <1>4, <2>1 DEF turn_to_level
  <2> HIDE DEF half
  <2>4. CASE level = steps
    <3>1. size * level = size * steps
      BY <2>4
    <3>2. knob.min + r >= knob.max
      BY <1>1, <2>1, <3>1
    <3>3. clamp(knob.min + r, knob.min, knob.max) = knob.max
      BY <2>2, <3>2 DEF clamp
    <3>4. (size * steps) * steps = steps * (size * steps) + 0
      OBVIOUS
    <3>5. ((size * steps) * steps) \div (size * steps) = steps
      BY <1>1, <3>4, Quotient
    <3>6. knob.min + r >= knob.min
      BY <2>2
    <3>9. ((knob.max - knob.min) * (knob.num_levels - 1)) \div (knob.max - knob.min) = steps
      BY <1>1, <3>5
    <3>10. ~(knob.min + r < knob.min)
      BY <2>2
    <3> HIDE DEF r
    <3>7. get_turning_level(knob, knob.min + r) = steps
      BY <3>3, <3>9, <3>10 DEF get_turning_level
    <3>8. QED
      BY <2>3, <2>4, <3>7 DEF is_at_level
  <2>5. CASE level < steps
    <3>1. size * level + size <= size * steps
      BY <1>4, <2>5
    <3>2. r <= size * steps
      BY <1>4, <2>1, <3>1
    <3>3. clamp(knob.min + r, knob.min, knob.max) = knob.min + r
      BY <1>1, <2>2, <3>2 DEF clamp
    <3>4. r * steps = level * (size * steps) + half * steps
      BY <1>4, <2>1
    <3>5. half * steps \in Nat /\ half * steps < size * steps
      BY <2>1
    <3>6. r * steps \in Int
      BY <2>2
    <3> DEFINE a == r * steps
               b == size * steps
               c == half * steps
    <3>7. a \in Int /\ b \in Nat \ {0} /\ c \in Nat /\ a = level * b + c /\ c < b
      BY <1>1, <3>4, <3>5, <3>6
    <3> HIDE DEF a, b, c
    <3>10. a \div b = level
      <4>1. level \in Int
        BY <1>4
      <4>2. QED
        BY <3>7, <4>1, Quotient, Zenon
    <3>11. ~(knob.min + r < knob.min) /\ (knob.min + r) - knob.min = r
      BY <2>2
    <3> HIDE DEF r
    <3>8. get_turning_level(knob, knob.min + r) = level
      BY <1>1, <3>3, <3>10, <3>11 DEF get_turning_level, a, b
    <3>9. QED
      BY <2>3, <3>8 DEF is_at_level
  <2>6. QED
    BY <1>4, <2>4, <2>5
<1>5. QED
  BY <1>3, <1>4
-----------------------------------------------------------------------------
(* What a reset leaves in the copies: of its events, the last to write wins *)

\* The events of an environment that is built while the builder's class of objects is
\* the current one, so that it sees the poses that relations give.
RequestEvents(env) ==
   CombinedEvents(RobotEvents(env.embodiment), SceneEvents(env, TRUE), env.task.events)

Turns == {"rotate_revolute_joint", "unpress", "turn_to_level"}
Clears == {"reset_all_articulation_joints", "reset_scene_to_default"}
Noises == {"randomize_joint_by_gaussian_offset"}

\* The bodies an event puts somewhere, and where.
Bodies(env) == {a.body : a \in {x \in Assets(env) : Movable(x)}}
BodiesOfKinds(env, kinds) == {a.body : a \in {x \in Assets(env) : x.kind \in kinds}}
Puts(env, event) ==
   IF event.func \in {"set_object_pose", "randomize_object_pose"} /\ event.asset /= "none"
   THEN {Named(env, event.asset).body}
   ELSE IF event.func \in {"randomize_object_pose", "randomize_poses_and_align_auxiliary_assets"} /\
           event.asset = "none"
   THEN env.task.sampled
   ELSE IF event.func = "reset_all_articulation_joints" THEN BodiesOfKinds(env, {"articulation"})
   ELSE IF event.func = "reset_scene_to_default" THEN BodiesOfKinds(env, {"rigid", "articulation"})
   ELSE {}
PutAt(event) ==
   IF event.func \in Clears THEN "default" ELSE IF event.asset = "none" THEN "sampled" ELSE event.pose

JointKinds == {"open", "closed", "pressed", "level"}

\* One event turns the joint, within its range, and none behind it clears all joints.
JointIsReset(env) ==
   LET joint == env.task.joint
       events == RequestEvents(env)
   IN  joint.kind /= "none" =>
          /\ joint.kind \in JointKinds
          /\ joint.reset \in IF joint.kind = "level" THEN -1 .. 6 ELSE 0 .. 100
          /\ \E i \in 1 .. Len(events) :
                events[i].func \in Turns /\ \A j \in i + 1 .. Len(events) : events[j].func \notin Clears

\* One event puts the robot back and, if the robot walks, one its controller.
RobotIsReset(env) ==
   LET events == RequestEvents(env)
   IN  /\ \E i \in 1 .. Len(events) : events[i].func \in Clears \cup Noises
       /\ Walks(env.embodiment) => \E i \in 1 .. Len(events) : events[i].func = "reset_wbc_policy"

\* The last event to move a body puts it where it is expected.
BodiesAreReset(env) ==
   LET events == RequestEvents(env)
   IN  \A a \in Assets(env) :
          Movable(a) /\ Sole(env, a.body) /\ a.declared /= "none" =>
             \E i \in 1 .. Len(events) :
                /\ a.body \in Puts(env, events[i]) /\ PutAt(events[i]) = Expected(env, a)
                /\ \A j \in i + 1 .. Len(events) : a.body \notin Puts(env, events[j])

\* What is reset is on the other side of the threshold, or another level.
StartsUndone(joint) ==
   /\ joint.kind \in {"open", "closed", "pressed"} => joint.goal \in Int
   /\ joint.kind = "open" => joint.reset <= joint.goal
   /\ joint.kind = "closed" => joint.reset > joint.goal
   /\ joint.kind = "pressed" => 100 - joint.reset <= joint.goal
   /\ joint.kind = "level" => joint.goal /= joint.reset

IsCell(cell) == /\ DOMAIN cell = {"root", "joint", "robot", "control"}
                /\ DOMAIN cell.root = Bodies(Env)
AreCells(all) == \A e \in Envs : IsCell(all[e])

LEMMA PlacedCell ==
   ASSUME NEW cell, IsCell(cell), NEW bodies, NEW pose
   PROVE  LET p == Place(cell, bodies, pose)
          IN  /\ IsCell(p) /\ p.joint = cell.joint /\ p.robot = cell.robot /\ p.control = cell.control
              /\ \A b \in Bodies(Env) : p.root[b] = IF b \in bodies THEN pose ELSE cell.root[b]
<1> DEFINE new == [b \in DOMAIN cell.root |-> IF b \in bodies THEN pose ELSE cell.root[b]]
<1>1. Place(cell, bodies, pose) = [cell EXCEPT !.root = new]
  BY DEF Place
<1>2. DOMAIN new = Bodies(Env) /\ \A b \in Bodies(Env) : new[b] = IF b \in bodies THEN pose ELSE cell.root[b]
  BY DEF IsCell
<1> HIDE DEF new
<1>3. QED
  BY <1>1, <1>2 DEF IsCell

LEMMA EventInCell ==
   ASSUME NEW event, NEW cell, IsCell(cell)
   PROVE  LET after == Apply(event, cell)
          IN  /\ IsCell(after) /\ after.control = cell.control
              /\ after.robot /= cell.robot => after.robot \in {"noisy", "default"}
              /\ event.func \in Clears \cup Noises => after.robot \in {"noisy", "default"}
              /\ event.func \in Turns => after.joint = ResetJoint
              /\ event.func \notin Turns \cup Clears => after.joint = cell.joint
              /\ \A b \in Bodies(Env) :
                    after.root[b] = IF b \in Puts(Env, event) THEN PutAt(event) ELSE cell.root[b]
<1> DEFINE f == event.func
           Moves == {"set_object_pose", "randomize_object_pose"}
           Samples == {"randomize_object_pose", "randomize_poses_and_align_auxiliary_assets"}
<1>1. CASE f \in Moves /\ event.asset /= "none"
  <2>1. Apply(event, cell) = Place(cell, Puts(Env, event), PutAt(event))
    BY <1>1 DEF Apply, Puts, PutAt, Clears
  <2>2. f \notin Turns \cup Clears \cup Noises
    BY <1>1 DEF Turns, Clears, Noises
  <2>3. QED
    BY <2>1, <2>2, PlacedCell
<1>2. CASE f \in Samples /\ event.asset = "none"
  <2>1. Apply(event, cell) = Place(cell, Puts(Env, event), PutAt(event))
    BY <1>2 DEF Apply, Puts, PutAt, Clears
  <2>2. f \notin Turns \cup Clears \cup Noises
    BY <1>2 DEF Turns, Clears, Noises
  <2>3. QED
    BY <2>1, <2>2, PlacedCell
<1>3. CASE f \in Clears
  <2> DEFINE p == Place(cell, Puts(Env, event), "default")
  <2>1. Apply(event, cell) = [p EXCEPT !.robot = "default", !.joint = 0]
    BY <1>3 DEF Apply, Puts, Clears, BodiesOf, BodiesOfKinds
  <2>2. f \notin Turns /\ PutAt(event) = "default"
    BY <1>3 DEF Turns, Clears, PutAt
  <2>3. /\ IsCell(p) /\ p.control = cell.control
        /\ \A b \in Bodies(Env) : p.root[b] = IF b \in Puts(Env, event) THEN "default" ELSE cell.root[b]
    BY PlacedCell
  <2> HIDE DEF p
  <2>4. QED
    BY <1>3, <2>1, <2>2, <2>3 DEF IsCell
<1>4. CASE f \in Noises
  <2>1. Apply(event, cell) = [cell EXCEPT !.robot = "noisy"]
    BY <1>4 DEF Apply, Noises
  <2>2. f \notin Turns \cup Clears /\ Puts(Env, event) = {}
    BY <1>4 DEF Turns, Clears, Noises, Puts
  <2>3. QED
    BY <1>4, <2>1, <2>2 DEF IsCell
<1>5. CASE f \in Turns
  <2>1. Apply(event, cell) = [cell EXCEPT !.joint = ResetJoint]
    BY <1>5 DEF Apply, Turns
  <2>2. f \notin Clears \cup Noises /\ Puts(Env, event) = {}
    BY <1>5 DEF Turns, Clears, Noises, Puts
  <2>3. QED
    BY <1>5, <2>1, <2>2 DEF IsCell
<1>6. CASE /\ f \notin Turns \cup Clears \cup Noises
           /\ ~(f \in Moves /\ event.asset /= "none") /\ ~(f \in Samples /\ event.asset = "none")
  <2>1. Apply(event, cell) = cell
    BY <1>6 DEF Apply, Turns, Clears, Noises
  <2>2. Puts(Env, event) = {}
    BY <1>6 DEF Puts, Clears
  <2>3. QED
    BY <1>6, <2>1, <2>2
<1>7. QED
  BY <1>1, <1>2, <1>3, <1>4, <1>5, <1>6

\* What an event makes of the copies, of which those in ids reset.
EventLeaves(event, all, after, ids) ==
   /\ AreCells(after)
   /\ \A e \in Envs :
         /\ all[e].control = "fresh" => after[e].control = "fresh"
         /\ event.func = "reset_wbc_policy" => after[e].control = "fresh"
   /\ \A e \in ids :
         /\ all[e].robot /= "moved" => after[e].robot /= "moved"
         /\ event.func \in Clears \cup Noises => after[e].robot /= "moved"
         /\ event.func \in Turns => after[e].joint = ResetJoint
         /\ event.func \notin Clears /\ all[e].joint = ResetJoint => after[e].joint = ResetJoint
         /\ \A b \in Bodies(Env) :
               after[e].root[b] = IF b \in Puts(Env, event) THEN PutAt(event) ELSE all[e].root[b]

LEMMA EventInCells ==
   ASSUME NEW event, NEW all, AreCells(all), NEW ids \in SUBSET Envs
   PROVE  EventLeaves(event, all, Happens(event, all, ids), ids)
<1> DEFINE through == ApplyToAll(event, all)
           after == Happens(event, all, ids)
<1>1. \A e \in Envs : /\ IsCell(through[e]) /\ through[e].joint = all[e].joint
                      /\ through[e].robot = all[e].robot /\ through[e].root = all[e].root
                      /\ all[e].control = "fresh" => through[e].control = "fresh"
                      /\ event.func = "reset_wbc_policy" => through[e].control = "fresh"
  BY DEF ApplyToAll, AreCells, IsCell
<1> HIDE DEF through
<1>2. \A e \in Envs : after[e] = IF e \in ids THEN Apply(event, through[e]) ELSE through[e]
  BY DEF Happens, through
<1> HIDE DEF after
<1>3. ASSUME NEW e \in ids
      PROVE  /\ IsCell(after[e])
             /\ after[e].control = through[e].control
             /\ all[e].robot /= "moved" => after[e].robot /= "moved"
             /\ event.func \in Clears \cup Noises => after[e].robot /= "moved"
             /\ event.func \in Turns => after[e].joint = ResetJoint
             /\ event.func \notin Clears /\ all[e].joint = ResetJoint => after[e].joint = ResetJoint
             /\ \A b \in Bodies(Env) :
                   after[e].root[b] = IF b \in Puts(Env, event) THEN PutAt(event) ELSE all[e].root[b]
  <2>1. e \in Envs /\ IsCell(through[e]) /\ after[e] = Apply(event, through[e])
    BY <1>1, <1>2
  <2>2. QED
    BY <1>1, <2>1, EventInCell
<1>4. \A e \in Envs \ ids : after[e] = through[e]
  BY <1>2
<1>5. AreCells(after)
  BY <1>1, <1>3, <1>4 DEF AreCells
<1>6. \A e \in Envs : /\ all[e].control = "fresh" => after[e].control = "fresh"
                      /\ event.func = "reset_wbc_policy" => after[e].control = "fresh"
  BY <1>1, <1>3, <1>4
<1>7. QED
  BY <1>3, <1>5, <1>6 DEF EventLeaves, after

\* The copies after each of the first k events.
AfterEach(after, all, ids, k) ==
   after = [i \in 0 .. k |-> IF i = 0 THEN all ELSE Happens(built.events[i], after[i - 1], ids)]

LEMMA EventsInTurn ==
   ASSUME NEW all, NEW ids, NEW k \in Nat
   PROVE  \E after : AfterEach(after, all, ids, k)
<1> DEFINE Bad == {n \in Nat : ~ \E after : AfterEach(after, all, ids, n)}
<1> SUFFICES ASSUME Bad # {}
             PROVE  FALSE
  OBVIOUS
<1>1. PICK n \in Bad : \A m \in Bad : n <= m
  BY LeastCounterexample
<1>2. n # 0
  <2>1. AfterEach([i \in 0 .. 0 |-> all], all, ids, 0)
    BY DEF AfterEach
  <2>2. QED
    BY <2>1
<1>3. PICK g : AfterEach(g, all, ids, n - 1)
  BY <1>1, <1>2
<1> DEFINE h == [i \in 0 .. n |-> IF i = n THEN Happens(built.events[n], g[n - 1], ids) ELSE g[i]]
<1>4. \A i \in 0 .. n - 1 : h[i] = g[i]
  BY <1>1, <1>2
<1>5. \A i \in 0 .. n - 1 : g[i] = IF i = 0 THEN all ELSE Happens(built.events[i], g[i - 1], ids)
  BY <1>3, <1>1, <1>2 DEF AfterEach
<1>6. \A i \in 0 .. n : h[i] = IF i = 0 THEN all ELSE Happens(built.events[i], h[i - 1], ids)
  <2>1. \A i \in 1 .. n : h[i - 1] = g[i - 1]
    BY <1>4, <1>1
  <2>2. QED
    BY <2>1, <1>5, <1>1, <1>2
<1>7. AfterEach(h, all, ids, n)
  BY <1>6 DEF AfterEach
<1>8. QED
  BY <1>7

\* What one step has made so and every later one keeps is so at the end.
LEMMA FromThenOn ==
   ASSUME NEW k \in Nat, NEW t \in 0 .. k, NEW S, t \in S,
          \A n \in t + 1 .. k : n - 1 \in S => n \in S
   PROVE  k \in S
<1> SUFFICES ASSUME k \notin S
             PROVE  FALSE
  OBVIOUS
<1> DEFINE Bad == {n \in t .. k : n \notin S}
<1>1. PICK n \in Bad : \A m \in Bad : n <= m
  <2>1. Bad \subseteq Nat /\ k \in Bad
    OBVIOUS
  <2> HIDE DEF Bad
  <2>2. QED
    BY <2>1, LeastCounterexample
<1>2. n # t /\ n \in t + 1 .. k /\ n - 1 \in t .. k /\ ~(n <= n - 1)
  BY <1>1
<1>3. n - 1 \in S
  BY <1>1, <1>2
<1>4. QED
  BY <1>1, <1>2, <1>3

\* The copies that were reset are as the requests' events are to leave them.
AfterReset(all, ids) ==
   /\ JointIsReset(Env) /\ Joint.kind /= "none" => \A e \in ids : all[e].joint = ResetJoint
   /\ RobotIsReset(Env) => \A e \in ids : all[e].robot /= "moved" /\ all[e].control = "fresh"
   /\ BodiesAreReset(Env) =>
         \A e \in ids, a \in Assets(Env) :
            Movable(a) /\ Sole(Env, a.body) /\ a.declared /= "none" =>
               all[e].root[a.body] = Expected(Env, a)

ControlKept(all) == ~Walks(Env.embodiment) => \A e \in Envs : all[e].control = "fresh"

\* A reset of some copies, whatever state they were in.
LEMMA ResetLeaves ==
   ASSUME built.events = RequestEvents(Env), Len(built.events) \in Nat,
          NEW all, AreCells(all), ControlKept(all), NEW ids \in SUBSET Envs
   PROVE  LET after == ResetIn(all, ids)
          IN  AreCells(after) /\ ControlKept(after) /\ AfterReset(after, ids)
<1> DEFINE K == Len(built.events)
           g == CHOOSE after : AfterEach(after, all, ids, K)
<1>1. K \in Nat
  OBVIOUS
<1>2. ResetIn(all, ids) = g[K]
  BY DEF ResetIn, AfterEach
<1>3. AfterEach(g, all, ids, K)
  BY <1>1, EventsInTurn
<1>4. K = Len(RequestEvents(Env)) /\ built.events = RequestEvents(Env)
  OBVIOUS
<1> HIDE DEF K, g
<1>5. g[0] = all /\ \A i \in 1 .. K : g[i] = Happens(built.events[i], g[i - 1], ids)
  BY <1>1, <1>3 DEF AfterEach
<1>6. ASSUME NEW i \in 0 .. K
      PROVE  AreCells(g[i]) /\ ControlKept(g[i])
  <2> DEFINE S == {n \in 0 .. K : AreCells(g[n]) /\ ControlKept(g[n])}
  <2>1. 0 \in S
    BY <1>1, <1>5
  <2>2. ASSUME NEW n \in 0 + 1 .. i, n - 1 \in S
        PROVE  n \in S
    <3>1. n \in 1 .. K /\ AreCells(g[n - 1]) /\ ControlKept(g[n - 1])
      BY <1>1, <2>2
    <3>2. g[n] = Happens(built.events[n], g[n - 1], ids)
      BY <1>5, <3>1
    <3>3. AreCells(g[n]) /\ ControlKept(g[n])
      <4>1. EventLeaves(built.events[n], g[n - 1], g[n], ids)
        BY <3>1, <3>2, EventInCells
      <4>2. QED
        BY <3>1, <4>1 DEF EventLeaves, ControlKept
    <3>4. QED
      BY <3>1, <3>3
  <2>3. i \in Nat /\ 0 \in 0 .. i
    BY <1>1
  <2> HIDE DEF S
  <2>4. i \in S
    BY <2>1, <2>2, <2>3, FromThenOn
  <2>5. QED
    BY <2>4 DEF S
<1>7. \A i \in 1 .. K : i \in Nat /\ i \in 0 .. K /\ i - 1 \in 0 .. K
  BY <1>1
<1>8. \A i \in 1 .. K : EventLeaves(built.events[i], g[i - 1], g[i], ids)
  BY <1>5, <1>6, <1>7, EventInCells
<1>9. ASSUME JointIsReset(Env), Joint.kind /= "none", NEW e \in ids
      PROVE  g[K][e].joint = ResetJoint
  <2>1. PICK t \in 1 .. K : built.events[t].func \in Turns /\
                           \A j \in t + 1 .. K : built.events[j].func \notin Clears
    BY <1>4, <1>9 DEF JointIsReset, Joint
  <2> DEFINE S == {n \in 0 .. K : g[n][e].joint = ResetJoint}
  <2>2. t \in S
    BY <1>1, <1>8, <2>1 DEF EventLeaves
  <2>3. ASSUME NEW n \in t + 1 .. K, n - 1 \in S
        PROVE  n \in S
    <3>1. n \in 1 .. K /\ g[n - 1][e].joint = ResetJoint /\ built.events[n].func \notin Clears
      BY <1>1, <2>1, <2>3
    <3>2. QED
      BY <1>1, <1>8, <3>1 DEF EventLeaves
  <2> HIDE DEF S
  <2>4. K \in S
    BY <1>1, <1>7, <2>2, <2>3, FromThenOn
  <2>5. QED
    BY <2>4 DEF S
<1>10. ASSUME RobotIsReset(Env), NEW e \in ids
      PROVE  g[K][e].robot /= "moved"
  <2>1. PICK t \in 1 .. K : built.events[t].func \in Clears \cup Noises
    BY <1>4, <1>10 DEF RobotIsReset
  <2> DEFINE S == {n \in 0 .. K : g[n][e].robot /= "moved"}
  <2>2. t \in S
    BY <1>1, <1>8, <2>1 DEF EventLeaves
  <2>3. ASSUME NEW n \in t + 1 .. K, n - 1 \in S
        PROVE  n \in S
    <3>1. n \in 1 .. K /\ g[n - 1][e].robot /= "moved"
      BY <1>1, <2>1, <2>3
    <3>2. QED
      BY <1>1, <1>8, <3>1 DEF EventLeaves
  <2> HIDE DEF S
  <2>4. K \in S
    BY <1>1, <1>7, <2>2, <2>3, FromThenOn
  <2>5. QED
    BY <2>4 DEF S
<1>11. ASSUME RobotIsReset(Env), NEW e \in ids
       PROVE  g[K][e].control = "fresh"
  <2>1. CASE ~Walks(Env.embodiment)
    BY <1>1, <1>6, <2>1 DEF ControlKept
  <2>2. CASE Walks(Env.embodiment)
    <3>1. PICK t \in 1 .. K : built.events[t].func = "reset_wbc_policy"
      BY <1>4, <1>11, <2>2 DEF RobotIsReset
    <3> DEFINE S == {n \in 0 .. K : g[n][e].control = "fresh"}
    <3>2. t \in S
      BY <1>1, <1>8, <3>1 DEF EventLeaves
    <3>3. ASSUME NEW n \in t + 1 .. K, n - 1 \in S
          PROVE  n \in S
      <4>1. n \in 1 .. K /\ g[n - 1][e].control = "fresh"
        BY <1>1, <3>1, <3>3
      <4>2. QED
        BY <1>1, <1>8, <4>1 DEF EventLeaves
    <3> HIDE DEF S
    <3>4. K \in S
      BY <1>1, <1>7, <3>2, <3>3, FromThenOn
    <3>5. QED
      BY <3>4 DEF S
  <2>3. QED
    BY <2>1, <2>2
<1>12. ASSUME BodiesAreReset(Env), NEW e \in ids, NEW a \in Assets(Env),
              Movable(a), Sole(Env, a.body), a.declared /= "none"
       PROVE  g[K][e].root[a.body] = Expected(Env, a)
  <2>1. PICK t \in 1 .. K :
           /\ a.body \in Puts(Env, built.events[t]) /\ PutAt(built.events[t]) = Expected(Env, a)
           /\ \A j \in t + 1 .. K : a.body \notin Puts(Env, built.events[j])
    BY <1>4, <1>12 DEF BodiesAreReset
  <2>2. a.body \in Bodies(Env)
    BY <1>12 DEF Bodies
  <2> DEFINE S == {n \in 0 .. K : g[n][e].root[a.body] = Expected(Env, a)}
  <2>3. t \in S
    BY <1>1, <1>8, <2>1, <2>2 DEF EventLeaves
  <2>4. ASSUME NEW n \in t + 1 .. K, n - 1 \in S
        PROVE  n \in S
    <3>1. /\ n \in 1 .. K /\ g[n - 1][e].root[a.body] = Expected(Env, a)
          /\ a.body \notin Puts(Env, built.events[n])
      BY <1>1, <2>1, <2>4
    <3>2. QED
      BY <1>1, <1>8, <2>2, <3>1 DEF EventLeaves
  <2> HIDE DEF S
  <2>5. K \in S
    BY <1>1, <1>7, <2>3, <2>4, FromThenOn
  <2>6. QED
    BY <2>5 DEF S
<1>13. AreCells(g[K]) /\ ControlKept(g[K])
  BY <1>1, <1>6
<1>14. AfterReset(g[K], ids)
  BY <1>9, <1>10, <1>11, <1>12 DEF AfterReset
<1>15. QED
  BY <1>2, <1>13, <1>14
-----------------------------------------------------------------------------
(* What joint and success condition read then *)

\* Limits a joint of the kind may have.
LimitsFit == Joint.kind \in {"open", "closed", "pressed"} =>
                built.limits.min \in Int /\ built.limits.max = built.limits.min + 100

LEMMA ReadsAsSet ==
   \A limits, x :
      limits.min \in Int /\ limits.max = limits.min + 100 /\ x \in 0 .. 100 =>
         /\ get_normalized_joint_position(limits, rotate_revolute_joint(limits, x)) = x
         /\ get_normalized_joint_position(limits, unpress(limits, x)) = 100 - x
         /\ \A threshold \in Int : is_pressed(limits, unpress(limits, x), threshold) <=> 100 - x > threshold
<1> SUFFICES ASSUME NEW limits, limits.min \in Int, limits.max = limits.min + 100, NEW x \in 0 .. 100
             PROVE  /\ get_normalized_joint_position(limits, rotate_revolute_joint(limits, x)) = x
                    /\ get_normalized_joint_position(limits, unpress(limits, x)) = 100 - x
                    /\ \A threshold \in Int :
                          is_pressed(limits, unpress(limits, x), threshold) <=> 100 - x > threshold
  OBVIOUS
<1>1. ASSUME NEW threshold \in Int
      PROVE  /\ get_normalized_joint_position(limits, rotate_revolute_joint(limits, x)) = x
             /\ get_normalized_joint_position(limits, unpress(limits, x)) = 100 - x
             /\ is_pressed(limits, unpress(limits, x), threshold) <=> 100 - x > threshold
  BY JointReadsAsReset
<1>2. 0 \in Int
  OBVIOUS
<1>3. QED
  BY <1>1, <1>2

ResetInRange == Joint.kind \in JointKinds /\ Joint.reset \in IF Joint.kind = "level" THEN -1 .. 6 ELSE 0 .. 100

LEMMA ResetReads ==
   ASSUME ResetInRange, LimitsFit
   PROVE  JointReads(ResetJoint) = Joint.reset
<1>1. ASSUME Joint.kind \in {"open", "closed", "pressed"}
      PROVE  /\ get_normalized_joint_position(built.limits, rotate_revolute_joint(built.limits, Joint.reset)) = Joint.reset
             /\ get_normalized_joint_position(built.limits, unpress(built.limits, Joint.reset)) = 100 - Joint.reset
             /\ Joint.reset \in 0 .. 100
  <2>1. Joint.reset \in 0 .. 100
    BY <1>1 DEF ResetInRange
  <2>2. built.limits.min \in Int /\ built.limits.max = built.limits.min + 100
    BY <1>1 DEF LimitsFit
  <2>3. QED
    BY <2>1, <2>2, ReadsAsSet
<1>2. CASE Joint.kind \in {"open", "closed"}
  <2>1. get_normalized_joint_position(built.limits, rotate_revolute_joint(built.limits, Joint.reset)) = Joint.reset
    BY <1>1, <1>2
  <2>2. ResetJoint = rotate_revolute_joint(built.limits, Joint.reset)
    BY <1>2 DEF ResetJoint
  <2>3. QED
    BY <1>2, <2>1, <2>2 DEF JointReads
<1>3. CASE Joint.kind = "pressed"
  <2>1. get_normalized_joint_position(built.limits, unpress(built.limits, Joint.reset)) = 100 - Joint.reset
    BY <1>1, <1>3
  <2>2. ResetJoint = unpress(built.limits, Joint.reset)
    BY <1>3 DEF ResetJoint
  <2>3. JointReads(ResetJoint) = 100 - (100 - Joint.reset)
    BY <1>3, <2>1, <2>2 DEF JointReads
  <2>4. QED
    BY <1>1, <1>3, <2>3
<1>4. CASE Joint.kind = "level"
  <2>1. ResetJoint = turn_to_level(stand_mixer, Joint.reset)
    BY <1>4 DEF ResetJoint
  <2>2. /\ stand_mixer.min \in Nat \ {0} /\ stand_mixer.num_levels = 6 + 1
        /\ stand_mixer.max = stand_mixer.min + 40 * 6
    BY DEF stand_mixer
  <2>3. Joint.reset \in -1 .. 6
    BY <1>4 DEF ResetInRange
  <2>4. is_at_level(stand_mixer, turn_to_level(stand_mixer, Joint.reset), Joint.reset)
    BY <2>2, <2>3, KnobReadsAsTurned
  <2>5. QED
    BY <1>4, <2>1, <2>4 DEF is_at_level, JointReads
<1>5. QED
  BY <1>2, <1>3, <1>4 DEF ResetInRange, JointKinds

\* Every success condition is one of what the joint reads.
LEMMA ResetIsUndone ==
   ASSUME ResetInRange, LimitsFit, StartsUndone(Joint)
   PROVE  ~JointDone(ResetJoint)
<1>1. JointReads(ResetJoint) = Joint.reset
  BY ResetReads
<1>2. CASE Joint.kind = "open"
  BY <1>1, <1>2 DEF JointReads, JointDone, is_open, StartsUndone, ResetInRange
<1>3. CASE Joint.kind = "closed"
  BY <1>1, <1>3 DEF JointReads, JointDone, is_closed, StartsUndone, ResetInRange
<1>4. CASE Joint.kind = "pressed"
  <2>1. built.limits.min \in Int /\ built.limits.max = built.limits.min + 100
    BY <1>4 DEF LimitsFit
  <2>2. Joint.reset \in 0 .. 100 /\ Joint.goal \in Int /\ 100 - Joint.reset <= Joint.goal
    BY <1>4 DEF StartsUndone, ResetInRange
  <2>3. is_pressed(built.limits, unpress(built.limits, Joint.reset), Joint.goal) <=> 100 - Joint.reset > Joint.goal
    BY <2>1, <2>2, ReadsAsSet
  <2>4. ResetJoint = unpress(built.limits, Joint.reset)
    BY <1>4 DEF ResetJoint
  <2>5. QED
    BY <1>4, <2>2, <2>3, <2>4 DEF JointDone
<1>5. CASE Joint.kind = "level"
  BY <1>1, <1>5 DEF JointReads, JointDone, is_at_level, StartsUndone
<1>6. QED
  BY <1>2, <1>3, <1>4, <1>5 DEF ResetInRange, JointKinds
-----------------------------------------------------------------------------
(* Resets of what the registries made *)

\* Combining gives a list of events (SelectSeq is opaque to the provers).
EventsListed == \A choice \in Requests : Len(RequestEvents(get_env(choice))) \in Nat

\* What is so of the environment that runs and of its copies.
ResetInv ==
   built.status = "built" =>
      /\ \E choice \in Requests : Env = get_env(choice)
      /\ built.events = RequestEvents(Env)
      /\ LimitsFit
      /\ fresh \subseteq Envs
      /\ AreCells(cells) /\ ControlKept(cells) /\ AfterReset(cells, fresh)

WorldInv == RegistryInv /\ ResetInv

\* The builder's class of objects is the current one, so that relations give poses.
LEMMA BuilderIsCurrent ==
   ASSUME RegistryInv, Ready
   PROVE  holds[<<"arena_env_builder", "object">>] = generation["object"]
<1> DEFINE b == "arena_env_builder"
<1>1. stack = <<>> /\ InSysModules(b)
  BY DEF Ready, Idle
<1>2. b \in Modules /\ Statements(b) = <<<<"from", "asset_registry">>, <<"from", "object">>, <<"import", "embodiments">>>>
  BY ModulesAre DEF Statements, From, Import
<1>3. Complete(b)
  BY <1>1, IdleComplete DEF RegistryInv, InSysModules
<1>4. ASSUME NEW s, s = <<<<"from", "asset_registry">>, <<"from", "object">>, <<"import", "embodiments">>>>
      PROVE  2 \in 1 .. Len(s) /\ s[2] = <<"from", "object">>
  BY <1>4
<1>5. 2 \in 1 .. Len(Statements(b)) /\ Statements(b)[2] = <<"from", "object">>
  BY <1>2, <1>4
<1>6. Ran(b, 2)
  BY <1>3 DEF Ran
<1>7. Statements(b)[2][1] = "from" /\ Statements(b)[2][2] = "object"
  BY <1>5
<1>8. holds[<<b, Statements(b)[2][2]>>] = generation[Statements(b)[2][2]]
  BY <1>2, <1>5, <1>6, <1>7 DEF RegistryInv, Facts, Taken
<1>9. QED
  BY <1>7, <1>8

LEMMA ResetStep ==
   ASSUME EventsListed, RegistryInv, ResetInv, [ArenaNext]_worldVars
   PROVE  ResetInv'
<1>1. ASSUME NEW choice \in Requests, NEW limits \in Limits, Build(choice, limits)
      PROVE  ResetInv'
  <2> DEFINE env == get_env(choice)
             l == IF env.task.joint.kind = "level" THEN [min |-> 0, max |-> 320] ELSE limits
             solved == holds[<<"arena_env_builder", "object">>] = generation["object"]
             events == CombinedEvents(RobotEvents(env.embodiment), SceneEvents(env, solved), env.task.events)
             cell == [root |-> [b \in {a.body : a \in {x \in Assets(env) : Movable(x)}} |-> "default"],
                      joint |-> 0, robot |-> "default", control |-> "fresh"]
  <2>1. CASE Accepts(choice) /\ Assembles(env, choice.device, choice.mimic)
    <3>1. /\ built' = [status |-> "built", environment |-> env, limits |-> l,
                       mimic |-> choice.mimic, events |-> events]
          /\ cells' = [e \in Envs |-> cell]
          /\ fresh' = {}
      BY <1>1, <2>1 DEF Build
    <3>2. solved = TRUE
      BY <1>1, BuilderIsCurrent DEF Build
    <3>3. events = RequestEvents(env)
      BY <3>2 DEF RequestEvents
    <3>4. limits.min \in Int /\ limits.max = limits.min + 100
      BY LimitsAssumption
    <3>5. DOMAIN cell = {"root", "joint", "robot", "control"} /\ DOMAIN cell.root = Bodies(env) /\ cell.control = "fresh"
      BY DEF Bodies
    <3> HIDE DEF env, events, cell, solved
    <3>6. built'.environment = env /\ built'.events = events /\ built'.limits = l
      BY <3>1
    <3> HIDE DEF l
    <3>7. LimitsFit'
      BY <3>4, <3>6 DEF LimitsFit, Joint, Env, l
    <3>8. AreCells(cells)'
      BY <3>1, <3>5, <3>6 DEF AreCells, IsCell, Env
    <3>9. ControlKept(cells)'
      BY <3>1, <3>5 DEF ControlKept
    <3>10. AfterReset(cells, fresh)'
      BY <3>1 DEF AfterReset
    <3>11. Env' = env /\ (\E c \in Requests : Env' = get_env(c))
      BY <3>6 DEF Env, env
    <3>12. (built.events)' = RequestEvents(Env')
      BY <3>3, <3>6, <3>11
    <3>13. QED
      BY <3>1, <3>7, <3>8, <3>9, <3>10, <3>11, <3>12 DEF ResetInv
  <2>2. CASE ~(Accepts(choice) /\ Assembles(env, choice.device, choice.mimic))
    <3>1. built' = [status |-> "failed"]
      BY <1>1, <2>2 DEF Build
    <3>2. QED
      BY <3>1 DEF ResetInv
  <2>3. QED
    BY <2>1, <2>2
<1>2. ASSUME NEW all, AreCells(all), ControlKept(all), NEW ids \in SUBSET Envs,
             built.status = "built", UNCHANGED built, cells' = ResetIn(all, ids), fresh' = ids
      PROVE  ResetInv'
  <2>1. Len(built.events) \in Nat
    BY <1>2 DEF ResetInv, EventsListed
  <2>2. LET after == ResetIn(all, ids)
        IN  AreCells(after) /\ ControlKept(after) /\ AfterReset(after, ids)
    BY <1>2, <2>1, ResetLeaves DEF ResetInv
  <2>3. Env' = Env /\ Joint' = Joint /\ ResetJoint' = ResetJoint /\ (LimitsFit' <=> LimitsFit)
    BY <1>2 DEF Joint, Env, ResetJoint, LimitsFit
  <2>4. AreCells(cells)' /\ ControlKept(cells)' /\ AfterReset(cells, fresh)'
    BY <1>2, <2>2, <2>3 DEF AreCells, IsCell, ControlKept, AfterReset
  <2>5. QED
    BY <1>2, <2>3, <2>4 DEF ResetInv
<1>3. CASE Reset
  BY <1>2, <1>3 DEF Reset, ResetInv
<1>4. CASE Step
  <2>1. PICK joints \in [Envs -> Spots], done \in SUBSET Envs :
           /\ cells' = ResetIn([e \in Envs |-> [root |-> [b \in DOMAIN cells[e].root |-> "moved"],
                                               joint |-> joints[e], robot |-> "moved",
                                               control |-> IF Walks(Env.embodiment) THEN "used" ELSE "fresh"]], done)
           /\ fresh' = done
    BY <1>4 DEF Step
  <2> DEFINE moved == [e \in Envs |-> [root |-> [b \in DOMAIN cells[e].root |-> "moved"],
                                      joint |-> joints[e], robot |-> "moved",
                                      control |-> IF Walks(Env.embodiment) THEN "used" ELSE "fresh"]]
  <2>2. built.status = "built" /\ UNCHANGED built
    BY <1>4 DEF Step
  <2>3. AreCells(moved)
    BY <2>2 DEF ResetInv, AreCells, IsCell
  <2>4. ControlKept(moved)
    BY DEF ControlKept
  <2>5. cells' = ResetIn(moved, done)
    BY <2>1
  <2> HIDE DEF moved
  <2>6. QED
    BY <1>2, <2>1, <2>2, <2>3, <2>4, <2>5
<1>5. CASE CloseEnv
  BY <1>5 DEF CloseEnv, ResetInv, NotBuilt
<1>6. CASE Registry
  BY <1>6 DEF Registry, arenaVars, ResetInv
<1>7. CASE UNCHANGED worldVars
  <2>1. built' = built /\ cells' = cells /\ fresh' = fresh
    BY <1>7 DEF worldVars, arenaVars
  <2>2. Env' = Env /\ Joint' = Joint /\ ResetJoint' = ResetJoint /\ (LimitsFit' <=> LimitsFit)
    BY <2>1 DEF Joint, Env, ResetJoint, LimitsFit
  <2>3. (AreCells(cells)' <=> AreCells(cells)) /\ (ControlKept(cells)' <=> ControlKept(cells))
        /\ (AfterReset(cells, fresh)' <=> AfterReset(cells, fresh))
    BY <2>1, <2>2 DEF AreCells, IsCell, ControlKept, AfterReset
  <2>4. QED
    BY <2>1, <2>2, <2>3 DEF ResetInv
<1>8. QED
  BY <1>1, <1>3, <1>4, <1>5, <1>6, <1>7 DEF ArenaNext

LEMMA WorldInvAlways ==
   ASSUME EventsListed
   PROVE  ArenaSpec => []WorldInv
<1>1. ArenaInit => WorldInv
  BY ArenaInvInitially DEF ArenaInit, NotBuilt, WorldInv, ResetInv
<1>2. WorldInv /\ [ArenaNext]_worldVars => WorldInv'
  BY ArenaInvStep, ResetStep DEF WorldInv
<1>3. QED
  BY <1>1, <1>2, PTL DEF ArenaSpec

\* After a reset, of one copy or of all, a robot, its controller, the bodies and the
\* joint are where they were declared to be, whatever happened before and whichever
\* copies reset in a step: if of the events of every request, in the order in which the
\* builder combines them, the last that moves a body puts it there, and those that turn
\* the joint come behind those that clear all joints (arena_env_builder.py:130-170).
\* That relations give poses at all rests on the registries: the builder knows an
\* object by a class that no reload has made stale.
THEOREM ResetsAsDeclared ==
   ASSUME EventsListed,
          \A choice \in Requests : LET env == get_env(choice)
                                   IN  JointIsReset(env) /\ RobotIsReset(env) /\ BodiesAreReset(env)
   PROVE  ArenaSpec => []AsDeclared
<1>1. WorldInv => AsDeclared
  <2> SUFFICES ASSUME WorldInv, built.status = "built", NEW e \in fresh
               PROVE  /\ cells[e].robot /= "moved"
                      /\ cells[e].control = "fresh"
                      /\ Joint.kind /= "none" => JointReads(cells[e].joint) = Joint.reset
                      /\ \A a \in Assets(Env) : Movable(a) /\ Sole(Env, a.body) /\ a.declared /= "none" =>
                            cells[e].root[a.body] = Expected(Env, a)
    BY DEF AsDeclared
  <2>1. LimitsFit /\ AfterReset(cells, fresh)
    BY DEF WorldInv, ResetInv
  <2>2. JointIsReset(Env) /\ RobotIsReset(Env) /\ BodiesAreReset(Env)
    BY DEF WorldInv, ResetInv
  <2>3. ASSUME Joint.kind /= "none"
        PROVE  JointReads(cells[e].joint) = Joint.reset
    <3>1. cells[e].joint = ResetJoint
      BY <2>1, <2>2, <2>3 DEF AfterReset
    <3>2. ResetInRange
      BY <2>2, <2>3 DEF JointIsReset, ResetInRange, Joint
    <3>3. QED
      BY <2>1, <3>1, <3>2, ResetReads
  <2>4. QED
    BY <2>1, <2>2, <2>3 DEF AfterReset
<1>2. QED
  BY <1>1, WorldInvAlways, PTL

\* No episode is over as it begins, in any of the copies and whichever of them reset in
\* a step: if moreover what each task resets its joint to is on the side of its
\* threshold where it is not done (open_door_task.py, turn_knob_task.py).
THEOREM NoEpisodeOverAtStart ==
   ASSUME EventsListed,
          \A choice \in Requests : LET env == get_env(choice)
                                   IN  JointIsReset(env) /\ StartsUndone(env.task.joint)
   PROVE  ArenaSpec => []FreshNotDone
<1>1. WorldInv => FreshNotDone
  <2> SUFFICES ASSUME WorldInv, built.status = "built", NEW e \in fresh
               PROVE  ~JointDone(cells[e].joint)
    BY DEF FreshNotDone
  <2>1. LimitsFit /\ AfterReset(cells, fresh)
    BY DEF WorldInv, ResetInv
  <2>2. JointIsReset(Env) /\ StartsUndone(Joint)
    BY DEF WorldInv, ResetInv, Joint
  <2>3. CASE Joint.kind /= "none"
    <3>1. cells[e].joint = ResetJoint
      BY <2>1, <2>2, <2>3 DEF AfterReset
    <3>2. ResetInRange
      BY <2>2, <2>3 DEF JointIsReset, ResetInRange, Joint
    <3>3. QED
      BY <2>1, <2>2, <3>1, <3>2, ResetIsUndone
  <2>4. CASE Joint.kind = "none"
    BY <2>4 DEF JointDone
  <2>5. QED
    BY <2>3, <2>4
<1>2. QED
  BY <1>1, WorldInvAlways, PTL
===============================================================================

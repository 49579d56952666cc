---------------------------- MODULE DatasetProofs ----------------------------
(***************************************************************************)
(* Proofs about the two ends of a generated dataset.  DatasetConversion,   *)
(* for every number of workers, of trajectories and of cameras and every   *)
(* size of the queue and the pipe; MimicGeneration, for every number and   *)
(* order of end effectors, and every number of subtasks and choice of      *)
(* trajectories of each.                                                   *)
(***************************************************************************)
EXTENDS DatasetConversion, MimicGeneration, FiniteSets, FiniteSetTheorems,
        SequenceTheorems, TLAPS

(* Converting a dataset *)

\* Where the main process is, what it has got through, and which workers it may
\* already have told to stop.
MainAt ==
    /\ main \in {"converting", "videos", "crashed", "reporting"} => left = Workers
    /\ main \in {"joining", "describing", "done", "failed"} => left = {}
    /\ main = "videos" => episode <= Episodes
    /\ main \notin {"converting", "videos", "crashed"} => episode > Episodes
    /\ main \in {"describing", "done", "failed"} => \A w \in Workers : worker[w] = "ended"

\* The workers that have taken a Stop.
Leaving == {w \in Workers : worker[w] \in {"ending", "ended"}}

\* The queue holds jobs and behind them the Stops that were sent but not taken;
\* once a Stop was taken there are no jobs before the others.
JobsThenStops(k) ==
    /\ \A i \in 1 .. k : queue[i] \in Videos
    /\ \A i \in k + 1 .. Len(queue) : queue[i] = Stop
    /\ Len(queue) - k = Cardinality(Workers \ left) - Cardinality(Leaving)
    /\ Leaving # {} => k = 0

QueueShape == \E k \in 0 .. Len(queue) : JobsThenStops(k)

\* Tables are stored of the trajectories before the current one, and of that one
\* while its videos are put.
HasTable(e) == \E i \in DOMAIN stored : stored[i].episode = e

StoredBelow ==
    /\ \A i \in DOMAIN stored :
          \/ stored[i].episode < episode
          \/ stored[i].episode = episode /\ main \in {"videos", "crashed"}
    /\ main = "videos" => HasTable(episode)

\* The video has been put in the queue.
Put(v) == HasTable(v[1]) /\ (v[1] < episode \/ (v[1] = episode /\ v[2] < camera))

\* What is known of a video is true of the queue and the workers.
VideosPut == \A v \in Videos : (video[v] # "none") <=> Put(v)

Waiting(v) == \E i \in DOMAIN queue : queue[i] = v
Written(v) == \E w \in Workers : worker[w] = "writing" /\ job[w] = v

JobsKnown ==
    /\ \A i \in DOMAIN queue : queue[i] \in Videos => video[queue[i]] # "none"
    /\ \A w \in Workers : worker[w] = "writing" => job[w] \in Videos /\ video[job[w]] # "none"
    /\ \A v \in Videos : video[v] = "queued" => Waiting(v) \/ Written(v)

IInv == TypeOK /\ MainAt /\ QueueShape /\ FramesContiguous /\ StoredBelow /\ VideosPut /\ JobsKnown

-----------------------------------------------------------------------------
LEMMA StopIsNoVideo == Stop \notin Videos
  BY ConversionAssumption DEF Stop, Videos

LEMMA TableLengthsNat == TableLengths \subseteq Nat
  BY ConversionAssumption DEF TableLengths

LEMMA LeavingFinite == IsFiniteSet(Leaving) /\ IsFiniteSet(Workers \ left)
  BY ConversionAssumption, FS_Subset DEF Leaving

LEMMA CardinalitiesNat == Cardinality(Leaving) \in Nat /\ Cardinality(Workers \ left) \in Nat
  BY LeavingFinite, FS_CardinalityType

\* As long as no Stop was sent, no worker is leaving and all entries are jobs.
LEMMA NoStopYet ==
  ASSUME TypeOK, QueueShape, left = Workers
  PROVE  Leaving = {} /\ \A i \in 1 .. Len(queue) : queue[i] \in Videos
<1>1. PICK k \in 0 .. Len(queue) : JobsThenStops(k)
  BY DEF QueueShape
<1>2. Len(queue) \in Nat
  BY DEF TypeOK
<1>3. Cardinality(Workers \ left) = 0
  <2>1. Workers \ left = {}
    OBVIOUS
  <2>2. QED
    BY <2>1, FS_EmptySet
<1>4. Cardinality(Leaving) = 0 /\ k = Len(queue)
  BY <1>1, <1>2, <1>3, CardinalitiesNat DEF JobsThenStops
<1>5. Leaving = {}
  BY <1>4, LeavingFinite, FS_EmptySet
<1>6. QED
  BY <1>1, <1>4, <1>5 DEF JobsThenStops

\* When every Stop was sent and every worker has taken one, the queue is empty.
LEMMA AllStopped ==
  ASSUME TypeOK, QueueShape, left = {}, \A w \in Workers : worker[w] = "ended"
  PROVE  queue = <<>>
<1>1. PICK k \in 0 .. Len(queue) : JobsThenStops(k)
  BY DEF QueueShape
<1>2. Leaving = Workers /\ Workers \ left = Workers /\ Workers # {}
  BY ConversionAssumption DEF Leaving
<1>3. k = 0
  BY <1>1, <1>2 DEF JobsThenStops
<1>4. Len(queue) - k = 0
  BY <1>1, <1>2, CardinalitiesNat DEF JobsThenStops
<1>5. QED
  BY <1>3, <1>4 DEF TypeOK

-----------------------------------------------------------------------------
LEMMA InitIInv == Init => IInv
<1> SUFFICES ASSUME Init PROVE IInv
  OBVIOUS
<1> USE ConversionAssumption
<1>1. TypeOK
  BY DEF Init, TypeOK, Stop
<1>2. MainAt /\ FramesContiguous /\ StoredBelow
  BY DEF Init, MainAt, FramesContiguous, StoredBelow
<1>3. QueueShape
  <2>1. Leaving = {} /\ Workers \ left = {} /\ Len(queue) = 0
    BY DEF Init, Leaving
  <2>2. Cardinality(Workers \ left) = 0 /\ Cardinality(Leaving) = 0
    BY <2>1, FS_EmptySet
  <2>3. JobsThenStops(0)
    BY <2>1, <2>2 DEF JobsThenStops
  <2>4. QED
    BY <2>1, <2>3 DEF QueueShape
<1>4. VideosPut /\ JobsKnown
  BY DEF Init, VideosPut, Put, HasTable, JobsKnown
<1>5. QED
  BY <1>1, <1>2, <1>3, <1>4 DEF IInv

LEMMA NextTypeOK ==
  ASSUME IInv, Next
  PROVE  TypeOK'
<1> USE ConversionAssumption DEF IInv
<1>1. CASE ConvertTrajectory
  <2>1. CASE main' = "videos"
    <3>1. PICK n \in TableLengths :
             /\ totalLength' = totalLength + n
             /\ stored' = Append(stored, [episode |-> episode, start |-> totalLength, length |-> n])
             /\ camera' = 1 /\ episode' = episode
      BY <1>1, <2>1 DEF ConvertTrajectory
    <3>2. n \in Nat
      BY TableLengthsNat
    <3>3. /\ episode \in 1 .. Episodes
          /\ [episode |-> episode, start |-> totalLength, length |-> n]
                \in [episode : 1 .. Episodes, start : Nat, length : TableLengths]
      BY <1>1 DEF ConvertTrajectory, TypeOK
    <3>4. stored' \in Seq([episode : 1 .. Episodes, start : Nat, length : TableLengths])
      BY <3>1, <3>3, AppendProperties DEF TypeOK
    <3>5. QED
      <4>1. totalLength' \in Nat
        BY <3>1, <3>2 DEF TypeOK
      <4>2. UNCHANGED <<left, queue, pipe, worker, job, video, unsent>>
        BY <1>1 DEF ConvertTrajectory, workerVars
      <4>3. QED
        BY <2>1, <3>1, <3>4, <4>1, <4>2 DEF TypeOK
  <2>2. CASE main' # "videos"
    <3>1. /\ episode' = episode + 1 /\ episode <= Episodes
          /\ UNCHANGED <<main, camera, totalLength, stored>>
      BY <1>1, <2>2 DEF ConvertTrajectory
    <3>2. UNCHANGED <<left, queue, pipe, worker, job, video, unsent>>
      BY <1>1 DEF ConvertTrajectory, workerVars
    <3>3. QED
      BY <3>1, <3>2 DEF TypeOK
  <2>3. QED
    BY <2>1, <2>2
<1>2. CASE PutFrames
  <2>1. <<episode, camera>> \in Videos
    BY <1>2, SMTT(30) DEF PutFrames, TypeOK, MainAt, Videos
  <2>2. queue' \in Seq(Videos \union {Stop}) /\ Len(queue') = Len(queue) + 1
    BY <1>2, <2>1, AppendProperties DEF PutFrames, TypeOK
  <2>3. Len(queue') <= QueueSize
    BY <1>2, <2>2 DEF PutFrames, TypeOK
  <2>4. video' \in [Videos -> {"none", "queued", "written", "failed"}]
    BY <1>2 DEF PutFrames, TypeOK
  <2>5. /\ main' \in {"videos", "converting"} /\ episode' \in 1 .. Episodes + 1
        /\ camera' \in 1 .. Cameras
    BY <1>2 DEF PutFrames, TypeOK, MainAt
  <2>6. QED
    BY <1>2, <2>2, <2>3, <2>4, <2>5 DEF PutFrames, TypeOK
<1>3. CASE CameraMissing \/ WriteMeta \/ JoinWorkers \/ GenerateInfo
  BY <1>3 DEF CameraMissing, WriteMeta, JoinWorkers, GenerateInfo, TypeOK, workerVars
<1>4. CASE ReportErrors
  BY <1>4 DEF ReportErrors, TypeOK, workerVars
<1>5. CASE PutStop
  <2>1. queue' \in Seq(Videos \union {Stop}) /\ Len(queue') = Len(queue) + 1
    BY <1>5, AppendProperties DEF PutStop, TypeOK
  <2>2. Len(queue') <= QueueSize
    BY <1>5, <2>1 DEF PutStop, TypeOK
  <2>3. left' \subseteq Workers /\ main' \in {"joining", "stopping"}
    BY <1>5 DEF PutStop, TypeOK
  <2>4. QED
    BY <1>5, <2>1, <2>2, <2>3 DEF PutStop, TypeOK, workerVars
<1>6. ASSUME NEW w \in Workers, GetJob(w)
      PROVE  TypeOK'
  <2>1. /\ Head(queue) \in Videos \union {Stop}
        /\ queue' \in Seq(Videos \union {Stop}) /\ Len(queue') = Len(queue) - 1
    BY <1>6, HeadTailProperties DEF GetJob, TypeOK
  <2>2. Len(queue') <= QueueSize
    BY <2>1 DEF TypeOK
  <2>3. /\ worker' \in [Workers -> {"idle", "writing", "ending", "ended"}]
        /\ job' \in [Workers -> Videos \union {Stop}]
    BY <1>6, <2>1 DEF GetJob, TypeOK
  <2>4. QED
    BY <1>6, <2>1, <2>2, <2>3 DEF GetJob, TypeOK, mainVars
<1>7. ASSUME NEW w \in Workers, WriteVideo(w) \/ SendError(w) \/ EndWorker(w)
      PROVE  TypeOK'
  <2>1. CASE WriteVideo(w)
    <3>1. video' \in [Videos -> {"none", "queued", "written", "failed"}]
      BY <2>1 DEF WriteVideo, TypeOK
    <3>2. unsent' \in [Workers -> Nat]
      BY <2>1 DEF WriteVideo, TypeOK
    <3>3. worker' \in [Workers -> {"idle", "writing", "ending", "ended"}]
      BY <2>1 DEF WriteVideo, TypeOK
    <3>4. QED
      BY <2>1, <3>1, <3>2, <3>3 DEF WriteVideo, TypeOK, mainVars
  <2>2. CASE SendError(w)
    <3>1. unsent' \in [Workers -> Nat] /\ pipe' \in 0 .. PipeCapacity
      BY <2>2 DEF SendError, TypeOK
    <3>2. QED
      BY <2>2, <3>1 DEF SendError, TypeOK, mainVars
  <2>3. CASE EndWorker(w)
    BY <2>3 DEF EndWorker, TypeOK, mainVars
  <2>4. QED
    BY <1>7, <2>1, <2>2, <2>3
<1>8. QED
  BY <1>1, <1>2, <1>3, <1>4, <1>5, <1>6, <1>7 DEF Next, Main, Work

LEMMA NextMainAt ==
  ASSUME IInv, Next
  PROVE  MainAt'
<1> USE DEF IInv, MainAt
<1>1. CASE ConvertTrajectory
  BY <1>1 DEF ConvertTrajectory, workerVars
<1>2. CASE PutFrames
  <2>1. episode \in Int /\ Episodes \in Int
    BY ConversionAssumption DEF TypeOK
  <2>2. QED
    BY <1>2, <2>1 DEF PutFrames
<1>3. CASE CameraMissing
  BY <1>3 DEF CameraMissing, workerVars
<1>4. CASE WriteMeta
  BY <1>4 DEF WriteMeta, workerVars
<1>5. CASE ReportErrors
  BY <1>5 DEF ReportErrors, workerVars
<1>6. CASE PutStop
  BY <1>6 DEF PutStop, workerVars
<1>7. CASE JoinWorkers
  BY <1>7 DEF JoinWorkers, workerVars
<1>8. CASE GenerateInfo
  BY <1>8 DEF GenerateInfo, workerVars
<1>9. ASSUME NEW w \in Workers, Work(w)
      PROVE  MainAt'
  <2>1. \A u \in Workers : worker[u] = "ended" => worker'[u] = "ended"
    BY <1>9 DEF Work, GetJob, WriteVideo, SendError, EndWorker, TypeOK
  <2>2. UNCHANGED mainVars
    BY <1>9 DEF Work, GetJob, WriteVideo, SendError, EndWorker
  <2>3. QED
    BY <2>1, <2>2 DEF mainVars
<1>10. QED
  BY <1>1, <1>2, <1>3, <1>4, <1>5, <1>6, <1>7, <1>8, <1>9 DEF Next, Main

\* A step that sends and takes no Stop and no job leaves the queue's shape.
LEMMA ShapeUnchanged ==
  ASSUME QueueShape, UNCHANGED <<queue, left>>, Leaving' = Leaving
  PROVE  QueueShape'
<1>1. PICK k \in 0 .. Len(queue) : JobsThenStops(k)
  BY DEF QueueShape
<1>2. JobsThenStops(k)'
  BY <1>1 DEF JobsThenStops
<1>3. QED
  BY <1>2 DEF QueueShape

LEMMA NextQueueShape ==
  ASSUME IInv, Next
  PROVE  QueueShape'
<1> USE ConversionAssumption DEF IInv
<1>1. CASE \/ ConvertTrajectory \/ CameraMissing \/ WriteMeta
           \/ ReportErrors \/ JoinWorkers \/ GenerateInfo
  <2>1. UNCHANGED <<queue, left, worker>>
    BY <1>1 DEF ConvertTrajectory, CameraMissing, WriteMeta, ReportErrors, JoinWorkers,
       GenerateInfo, workerVars
  <2>2. QED
    BY <2>1, ShapeUnchanged DEF Leaving
<1>2. CASE PutFrames
  <2>1. Leaving = {} /\ \A i \in 1 .. Len(queue) : queue[i] \in Videos
    BY <1>2, NoStopYet DEF PutFrames, MainAt
  <2>2. Leaving' = {} /\ UNCHANGED left
    BY <1>2, <2>1 DEF PutFrames, Leaving
  <2>3. Workers \ left' = {}
    BY <1>2, <2>2 DEF PutFrames, MainAt
  <2>4. Cardinality(Workers \ left') = 0 /\ Cardinality(Leaving') = 0
    BY <2>2, <2>3, FS_EmptySet
  <2>5. <<episode, camera>> \in Videos
    BY <1>2, SMTT(30) DEF PutFrames, TypeOK, MainAt, Videos
  <2>6. /\ Len(queue') = Len(queue) + 1 /\ Len(queue) \in Nat
        /\ \A i \in 1 .. Len(queue') : queue'[i] \in Videos
    BY <1>2, <2>1, <2>5, AppendProperties DEF PutFrames, TypeOK
  <2>7. JobsThenStops(Len(queue))'
    BY <2>2, <2>4, <2>6 DEF JobsThenStops
  <2>8. QED
    BY <2>6, <2>7 DEF QueueShape
<1>3. CASE PutStop
  <2>1. PICK k \in 0 .. Len(queue) : JobsThenStops(k)
    BY DEF QueueShape
  <2>2. PICK w \in left : left' = left \ {w}
    BY <1>3 DEF PutStop
  <2>3. Cardinality(Workers \ left') = Cardinality(Workers \ left) + 1
    <3>1. Workers \ left' = (Workers \ left) \union {w} /\ w \notin Workers \ left
      BY <2>2 DEF TypeOK
    <3>2. QED
      BY <3>1, LeavingFinite, FS_AddElement
  <2>4. Leaving' = Leaving
    BY <1>3 DEF PutStop, Leaving, workerVars
  <2>5. /\ Len(queue') = Len(queue) + 1 /\ Len(queue) \in Nat
        /\ \A i \in 1 .. Len(queue) : queue'[i] = queue[i]
        /\ queue'[Len(queue) + 1] = Stop
    BY <1>3, AppendProperties DEF PutStop, TypeOK
  <2>6. JobsThenStops(k)'
    <3>1. \A i \in 1 .. k : queue'[i] \in Videos
      BY <2>1, <2>5 DEF JobsThenStops
    <3>2. \A i \in k + 1 .. Len(queue') : queue'[i] = Stop
      BY <2>1, <2>5 DEF JobsThenStops
    <3>3. Len(queue') - k = Cardinality(Workers \ left') - Cardinality(Leaving')
      BY <2>1, <2>3, <2>4, <2>5, CardinalitiesNat DEF JobsThenStops
    <3>4. QED
      BY <2>1, <2>4, <3>1, <3>2, <3>3 DEF JobsThenStops
  <2>7. QED
    BY <2>5, <2>6 DEF QueueShape
<1>4. ASSUME NEW w \in Workers, GetJob(w)
      PROVE  QueueShape'
  <2>1. PICK k \in 0 .. Len(queue) : JobsThenStops(k)
    BY DEF QueueShape
  <2>2. /\ Len(queue) \in Nat /\ Len(queue) > 0 /\ Len(queue') = Len(queue) - 1
        /\ Head(queue) = queue[1]
        /\ \A i \in 1 .. Len(queue') : queue'[i] = queue[i + 1]
    BY <1>4, HeadTailProperties DEF GetJob, TypeOK
  <2>3. w \notin Leaving /\ UNCHANGED left
    BY <1>4 DEF GetJob, Leaving, mainVars
  <2>4. CASE k = 0
    <3>1. \A i \in 1 .. Len(queue) : queue[i] = Stop
      <4>1. \A i \in k + 1 .. Len(queue) : queue[i] = Stop
        BY <2>1 DEF JobsThenStops
      <4>2. k + 1 = 1
        BY <2>4
      <4>3. QED
        BY <4>1, <4>2
    <3>2. Leaving' = Leaving \union {w}
      BY <1>4, <2>2, <3>1 DEF GetJob, Leaving, TypeOK
    <3>3. Cardinality(Leaving') = Cardinality(Leaving) + 1
      BY <2>3, <3>2, LeavingFinite, FS_AddElement
    <3>4. \A i \in 1 .. Len(queue') : queue'[i] = Stop
      BY <2>2, <3>1
    <3>5. Len(queue') - 0 = Cardinality(Workers \ left') - Cardinality(Leaving')
      BY <2>1, <2>2, <2>3, <2>4, <3>3, CardinalitiesNat DEF JobsThenStops
    <3>6. JobsThenStops(0)'
      <4>1. 0 + 1 = 1 /\ 1 .. 0 = {}
        OBVIOUS
      <4>2. \A i \in 0 + 1 .. Len(queue') : queue'[i] = Stop
        BY <3>4, <4>1
      <4>3. QED
        BY <3>5, <4>1, <4>2 DEF JobsThenStops
    <3>7. QED
      BY <2>2, <3>6 DEF QueueShape
  <2>5. CASE k > 0
    <3>1. Head(queue) \in Videos /\ Leaving = {}
      BY <2>1, <2>2, <2>5 DEF JobsThenStops
    <3>2. Leaving' = Leaving
      BY <1>4, <2>3, <3>1, StopIsNoVideo DEF GetJob, Leaving, TypeOK
    <3>3. \A i \in 1 .. k - 1 : queue'[i] \in Videos
      BY <2>1, <2>2, <2>5 DEF JobsThenStops
    <3>4. \A i \in (k - 1) + 1 .. Len(queue') : queue'[i] = Stop
      BY <2>1, <2>2, <2>5 DEF JobsThenStops
    <3>5. Len(queue') - (k - 1) = Cardinality(Workers \ left') - Cardinality(Leaving')
      BY <2>1, <2>2, <2>3, <3>2, CardinalitiesNat DEF JobsThenStops
    <3>6. JobsThenStops(k - 1)'
      BY <3>1, <3>2, <3>3, <3>4, <3>5 DEF JobsThenStops
    <3>7. QED
      BY <2>1, <2>2, <2>5, <3>6 DEF QueueShape
  <2>6. QED
    BY <2>1, <2>4, <2>5
<1>5. ASSUME NEW w \in Workers, WriteVideo(w) \/ SendError(w) \/ EndWorker(w)
      PROVE  QueueShape'
  <2>1. Leaving' = Leaving
    BY <1>5 DEF WriteVideo, SendError, EndWorker, Leaving, TypeOK
  <2>2. UNCHANGED <<queue, left>>
    BY <1>5 DEF WriteVideo, SendError, EndWorker, mainVars
  <2>3. QED
    BY <2>1, <2>2, ShapeUnchanged
<1>6. QED
  BY <1>1, <1>2, <1>3, <1>4, <1>5 DEF Next, Main, Work

-----------------------------------------------------------------------------
\* What ConvertTrajectory stores, or that it stores nothing.
LEMMA Converted ==
  ASSUME TypeOK, ConvertTrajectory
  PROVE  \/ /\ main' = "videos" /\ camera' = 1 /\ UNCHANGED episode
            /\ \E n \in TableLengths :
                  /\ totalLength' = totalLength + n
                  /\ Len(stored') = Len(stored) + 1
                  /\ \A i \in 1 .. Len(stored) : stored'[i] = stored[i]
                  /\ stored'[Len(stored) + 1] =
                        [episode |-> episode, start |-> totalLength, length |-> n]
         \/ episode' = episode + 1 /\ UNCHANGED <<main, camera, totalLength, stored>>
<1>1. CASE main' = "videos"
  <2>1. PICK n \in TableLengths :
           /\ totalLength' = totalLength + n
           /\ stored' = Append(stored, [episode |-> episode, start |-> totalLength, length |-> n])
           /\ camera' = 1 /\ UNCHANGED episode
    BY <1>1 DEF ConvertTrajectory
  <2>2. [episode |-> episode, start |-> totalLength, length |-> n]
           \in [episode : 1 .. Episodes, start : Nat, length : TableLengths]
    BY ConversionAssumption DEF ConvertTrajectory, TypeOK
  <2>3. /\ Len(stored') = Len(stored) + 1
        /\ \A i \in 1 .. Len(stored) : stored'[i] = stored[i]
        /\ stored'[Len(stored) + 1] =
              [episode |-> episode, start |-> totalLength, length |-> n]
    BY <2>1, <2>2, AppendProperties DEF TypeOK
  <2>4. QED
    BY <1>1, <2>1, <2>3
<1>2. CASE main' # "videos"
  BY <1>2 DEF ConvertTrajectory
<1>3. QED
  BY <1>1, <1>2

LEMMA OthersStoreNothing ==
  ASSUME Next, ~ConvertTrajectory
  PROVE  UNCHANGED <<stored, totalLength>>
  BY DEF Next, Main, PutFrames, CameraMissing, WriteMeta, ReportErrors, PutStop, JoinWorkers,
     GenerateInfo, Work, GetJob, WriteVideo, SendError, EndWorker, mainVars

LEMMA NextFramesContiguous ==
  ASSUME IInv, Next
  PROVE  FramesContiguous'
<1> USE DEF IInv
<1>1. CASE ~ConvertTrajectory
  BY <1>1, OthersStoreNothing DEF FramesContiguous
<1>2. CASE ConvertTrajectory /\ UNCHANGED <<totalLength, stored>>
  BY <1>2 DEF FramesContiguous
<1>3. ASSUME NEW n \in TableLengths,
             totalLength' = totalLength + n,
             Len(stored') = Len(stored) + 1,
             \A i \in 1 .. Len(stored) : stored'[i] = stored[i],
             stored'[Len(stored) + 1] =
                [episode |-> episode, start |-> totalLength, length |-> n],
             TypeOK'
      PROVE  FramesContiguous'
  <2>1. /\ Len(stored) \in Nat /\ DOMAIN stored = 1 .. Len(stored)
        /\ DOMAIN stored' = 1 .. Len(stored) + 1
        /\ stored = <<>> <=> Len(stored) = 0
        /\ stored' # <<>>
    BY <1>3, SMTT(30) DEF TypeOK
  <2>2. ASSUME NEW i \in 1 .. Len(stored) + 1
        PROVE  stored'[i].start = IF i = 1 THEN 0 ELSE stored'[i - 1].start + stored'[i - 1].length
    <3>1. CASE i \in 1 .. Len(stored)
      <4>1. stored'[i] = stored[i] /\ (i # 1 => stored'[i - 1] = stored[i - 1])
        BY <1>3, <2>1, <3>1
      <4>2. QED
        BY <2>1, <3>1, <4>1 DEF FramesContiguous
    <3>2. CASE i = Len(stored) + 1
      <4>1. stored'[i].start = totalLength
        BY <1>3, <3>2
      <4>2. CASE Len(stored) = 0
        BY <2>1, <3>2, <4>1, <4>2 DEF FramesContiguous
      <4>3. CASE Len(stored) > 0
        <5>1. stored'[i - 1] = stored[Len(stored)] /\ i # 1
          BY <1>3, <2>1, <3>2, <4>3
        <5>2. QED
          BY <2>1, <4>1, <4>3, <5>1 DEF FramesContiguous, Last
      <4>4. QED
        BY <2>1, <4>2, <4>3
    <3>3. QED
      BY <2>1, <3>1, <3>2
  <2>3. totalLength' = Last(stored').start + Last(stored').length
    BY <1>3 DEF Last
  <2>4. QED
    BY <2>1, <2>2, <2>3 DEF FramesContiguous
<1>4. QED
  BY <1>1, <1>2, <1>3, Converted, NextTypeOK

LEMMA NextStoredBelow ==
  ASSUME IInv, Next
  PROVE  StoredBelow'
<1> USE DEF IInv
<1>1. /\ episode \in Nat /\ DOMAIN stored = 1 .. Len(stored) /\ Len(stored) \in Nat
      /\ \A i \in DOMAIN stored : stored[i].episode \in Int
  <2>1. episode \in Nat
    BY ConversionAssumption DEF TypeOK
  <2>2. DOMAIN stored = 1 .. Len(stored) /\ Len(stored) \in Nat
    BY DEF TypeOK
  <2>3. \A i \in 1 .. Len(stored) :
           stored[i] \in [episode : 1 .. Episodes, start : Nat, length : TableLengths]
    BY ElementOfSeq DEF TypeOK
  <2>4. QED
    BY <2>1, <2>2, <2>3
<1>2. CASE ConvertTrajectory
  <2>1. \A i \in DOMAIN stored : stored[i].episode < episode
    BY <1>2 DEF StoredBelow, HasTable, ConvertTrajectory
  <2>2. CASE episode' = episode + 1 /\ UNCHANGED <<main, camera, totalLength, stored>>
    BY <1>1, <2>1, <2>2 DEF StoredBelow, HasTable
  <2>3. ASSUME NEW n,
               main' = "videos" /\ UNCHANGED episode,
               Len(stored') = Len(stored) + 1,
               \A i \in 1 .. Len(stored) : stored'[i] = stored[i],
               stored'[Len(stored) + 1] =
                  [episode |-> episode, start |-> totalLength, length |-> n]
        PROVE  StoredBelow'
    <3>1. DOMAIN stored' = 1 .. Len(stored) + 1
      BY <2>3, NextTypeOK DEF TypeOK
    <3>2. \A i \in DOMAIN stored' :
             stored'[i].episode < episode \/ stored'[i].episode = episode
      BY <1>1, <2>1, <2>3, <3>1
    <3>3. HasTable(episode)'
      BY <1>1, <2>3, <3>1 DEF HasTable
    <3>4. QED
      BY <2>3, <3>2, <3>3 DEF StoredBelow, HasTable
  <2>4. QED
    BY <1>2, <2>2, <2>3, Converted
<1>3. CASE PutFrames
  <2>1. \A i \in DOMAIN stored : stored[i].episode < episode \/ stored[i].episode = episode
    BY DEF StoredBelow, HasTable
  <2>2. CASE episode' = episode + 1
    <3>1. main' = "converting" /\ UNCHANGED stored
      BY <1>1, <1>3, <2>2 DEF PutFrames
    <3>2. \A i \in DOMAIN stored : stored[i].episode < episode + 1
      BY <1>1, <2>1
    <3>3. QED
      BY <2>2, <3>1, <3>2 DEF StoredBelow
  <2>3. CASE UNCHANGED <<main, episode>>
    BY <1>3, <2>3 DEF PutFrames, StoredBelow, HasTable
  <2>4. QED
    BY <1>3, <2>2, <2>3 DEF PutFrames
<1>4. CASE CameraMissing
  BY <1>4 DEF CameraMissing, StoredBelow, HasTable
<1>5. CASE WriteMeta \/ ReportErrors \/ PutStop \/ JoinWorkers \/ GenerateInfo
  BY <1>5 DEF WriteMeta, ReportErrors, PutStop, JoinWorkers, GenerateInfo, StoredBelow, HasTable
<1>6. ASSUME NEW w \in Workers, Work(w)
      PROVE  StoredBelow'
  BY <1>6 DEF Work, GetJob, WriteVideo, SendError, EndWorker, mainVars, StoredBelow, HasTable
<1>7. QED
  BY <1>2, <1>3, <1>4, <1>5, <1>6 DEF Next, Main

LEMMA NextVideosPut ==
  ASSUME IInv, Next
  PROVE  VideosPut'
<1> USE ConversionAssumption DEF IInv
<1> SUFFICES ASSUME NEW v \in Videos
             PROVE  (video'[v] # "none") <=> Put(v)'
  BY DEF VideosPut
<1>1. (video[v] # "none") <=> Put(v)
  BY DEF VideosPut
<1>2. /\ v[1] \in 1 .. Episodes /\ v[2] \in 1 .. Cameras /\ v = <<v[1], v[2]>>
      /\ episode \in Nat /\ camera \in 1 .. Cameras
  BY DEF Videos, TypeOK
<1>3. CASE ConvertTrajectory
  <2>1. UNCHANGED video
    BY <1>3 DEF ConvertTrajectory, workerVars
  <2>2. \A e : HasTable(e) => e < episode
    BY <1>3 DEF HasTable, StoredBelow, ConvertTrajectory
  <2>3. CASE episode' = episode + 1 /\ UNCHANGED stored
    <3>1. HasTable(v[1])' <=> HasTable(v[1])
      BY <2>3 DEF HasTable
    <3>2. Put(v)' <=> Put(v)
      BY <1>2, <2>2, <2>3, <3>1 DEF Put
    <3>3. QED
      BY <1>1, <2>1, <3>2
  <2>4. ASSUME NEW n,
               camera' = 1 /\ UNCHANGED episode,
               Len(stored') = Len(stored) + 1,
               \A i \in 1 .. Len(stored) : stored'[i] = stored[i],
               stored'[Len(stored) + 1] =
                  [episode |-> episode, start |-> totalLength, length |-> n]
        PROVE  (video'[v] # "none") <=> Put(v)'
    <3>1. /\ DOMAIN stored = 1 .. Len(stored) /\ Len(stored) \in Nat
          /\ DOMAIN stored' = 1 .. Len(stored) + 1
      BY <2>4, NextTypeOK DEF TypeOK
    <3>2. v[1] < episode => (HasTable(v[1])' <=> HasTable(v[1]))
      <4>1. ASSUME NEW i \in 1 .. Len(stored) + 1, v[1] < episode, stored'[i].episode = v[1]
            PROVE  i \in 1 .. Len(stored) /\ stored[i].episode = v[1]
        BY <1>2, <2>4, <3>1, <4>1
      <4>2. QED
        BY <2>4, <3>1, <4>1 DEF HasTable
    <3>3. Put(v)' <=> v[1] < episode /\ HasTable(v[1])'
      BY <1>2, <2>4 DEF Put
    <3>4. Put(v) <=> v[1] < episode /\ HasTable(v[1])
      BY <1>2, <2>2 DEF Put
    <3>5. QED
      BY <1>1, <2>1, <3>2, <3>3, <3>4
  <2>5. QED
    BY <1>3, <2>3, <2>4, Converted
<1>4. CASE PutFrames
  <2>1. HasTable(v[1])' <=> HasTable(v[1])
    BY <1>4 DEF PutFrames, HasTable
  <2>2. video'[v] = IF v = <<episode, camera>> THEN "queued" ELSE video[v]
    BY <1>4 DEF PutFrames, TypeOK
  <2>3. v = <<episode, camera>> => v[1] = episode /\ v[2] = camera
    OBVIOUS
  <2>4. HasTable(episode)
    BY <1>4 DEF StoredBelow, PutFrames
  <2>5. Put(v)' <=> (v = <<episode, camera>> \/ Put(v))
    <3>1. CASE camera < Cameras
      BY <1>2, <1>4, <2>1, <2>3, <2>4, <3>1 DEF PutFrames, Put
    <3>2. CASE ~(camera < Cameras)
      BY <1>2, <1>4, <2>1, <2>3, <2>4, <3>2 DEF PutFrames, Put
    <3>3. QED
      BY <3>1, <3>2
  <2>6. QED
    BY <1>1, <2>2, <2>5
<1>5. CASE CameraMissing \/ WriteMeta \/ ReportErrors \/ PutStop \/ JoinWorkers \/ GenerateInfo
  BY <1>1, <1>5 DEF CameraMissing, WriteMeta, ReportErrors, PutStop, JoinWorkers, GenerateInfo,
     workerVars, Put, HasTable
<1>6. ASSUME NEW w \in Workers, Work(w)
      PROVE  (video'[v] # "none") <=> Put(v)'
  <2>1. Put(v)' <=> Put(v)
    BY <1>6 DEF Work, GetJob, WriteVideo, SendError, EndWorker, mainVars, Put, HasTable
  <2>2. (video'[v] # "none") <=> (video[v] # "none")
    BY <1>6 DEF Work, GetJob, WriteVideo, SendError, EndWorker, JobsKnown, TypeOK
  <2>3. QED
    BY <1>1, <2>1, <2>2
<1>7. QED
  BY <1>3, <1>4, <1>5, <1>6 DEF Next, Main

LEMMA NextJobsKnown ==
  ASSUME IInv, Next
  PROVE  JobsKnown'
<1> USE ConversionAssumption DEF IInv
<1>1. CASE \/ ConvertTrajectory \/ CameraMissing \/ WriteMeta
           \/ ReportErrors \/ JoinWorkers \/ GenerateInfo
  <2>1. UNCHANGED <<queue, worker, job, video>>
    BY <1>1 DEF ConvertTrajectory, CameraMissing, WriteMeta, ReportErrors, JoinWorkers,
       GenerateInfo, workerVars
  <2>2. QED
    BY <2>1, SMTT(30) DEF JobsKnown, Waiting, Written
<1>2. CASE PutFrames
  <2>1. <<episode, camera>> \in Videos
    BY <1>2, SMTT(30) DEF PutFrames, TypeOK, MainAt, Videos
  <2>2. /\ DOMAIN queue = 1 .. Len(queue) /\ Len(queue) \in Nat
        /\ DOMAIN queue' = 1 .. Len(queue) + 1
        /\ \A i \in DOMAIN queue : queue'[i] = queue[i]
        /\ queue'[Len(queue) + 1] = <<episode, camera>>
    BY <1>2, <2>1, AppendProperties, SMTT(30) DEF PutFrames, TypeOK
  <2>3. \A v \in Videos : video'[v] = IF v = <<episode, camera>> THEN "queued" ELSE video[v]
    BY <1>2 DEF PutFrames, TypeOK
  <2>4. UNCHANGED <<worker, job>>
    BY <1>2 DEF PutFrames
  <2>5. \A i \in DOMAIN queue' : queue'[i] \in Videos => video'[queue'[i]] # "none"
    BY <2>1, <2>2, <2>3 DEF JobsKnown
  <2>6. \A w \in Workers :
           worker'[w] = "writing" => job'[w] \in Videos /\ video'[job'[w]] # "none"
    BY <2>3, <2>4 DEF JobsKnown
  <2>7. ASSUME NEW v \in Videos, video'[v] = "queued"
        PROVE  (Waiting(v) \/ Written(v))'
    <3>1. CASE v = <<episode, camera>>
      BY <2>2, <3>1 DEF Waiting
    <3>2. CASE v # <<episode, camera>>
      <4>1. Waiting(v) \/ Written(v)
        BY <2>3, <2>7, <3>2 DEF JobsKnown
      <4>2. Waiting(v) => Waiting(v)'
        BY <2>2 DEF Waiting
      <4>3. Written(v) => Written(v)'
        BY <2>4 DEF Written
      <4>4. QED
        BY <4>1, <4>2, <4>3
    <3>3. QED
      BY <3>1, <3>2
  <2>8. QED
    BY <2>5, <2>6, <2>7 DEF JobsKnown
<1>3. CASE PutStop
  <2>1. /\ DOMAIN queue = 1 .. Len(queue) /\ Len(queue) \in Nat
        /\ DOMAIN queue' = 1 .. Len(queue) + 1
        /\ \A i \in DOMAIN queue : queue'[i] = queue[i]
        /\ queue'[Len(queue) + 1] = Stop
    BY <1>3, AppendProperties DEF PutStop, TypeOK
  <2>2. UNCHANGED <<worker, job, video>>
    BY <1>3 DEF PutStop, workerVars
  <2>3. \A v : (Waiting(v) => Waiting(v)') /\ (Written(v) => Written(v)')
    BY <2>1, <2>2 DEF Waiting, Written
  <2>4. \A i \in DOMAIN queue' : queue'[i] \in Videos => video'[queue'[i]] # "none"
    BY <2>1, <2>2, StopIsNoVideo DEF JobsKnown
  <2>5. QED
    BY <2>2, <2>3, <2>4 DEF JobsKnown
<1>4. ASSUME NEW w \in Workers, GetJob(w)
      PROVE  JobsKnown'
  <2>1. /\ DOMAIN queue = 1 .. Len(queue) /\ Len(queue) \in Nat /\ Len(queue) > 0
        /\ Head(queue) = queue[1] /\ queue[1] \in Videos \union {Stop}
        /\ DOMAIN queue' = 1 .. Len(queue) - 1
        /\ \A i \in DOMAIN queue' : queue'[i] = queue[i + 1]
    BY <1>4, HeadTailProperties DEF GetJob, TypeOK
  <2>2. /\ UNCHANGED video
        /\ worker[w] = "idle"
        /\ job'[w] = queue[1]
        /\ worker'[w] = IF queue[1] = Stop THEN "ending" ELSE "writing"
        /\ \A u \in Workers \ {w} : worker'[u] = worker[u] /\ job'[u] = job[u]
    BY <1>4, <2>1 DEF GetJob, TypeOK
  <2>3. \A i \in DOMAIN queue' : queue'[i] \in Videos => video'[queue'[i]] # "none"
    BY <2>1, <2>2 DEF JobsKnown
  <2>4. ASSUME NEW u \in Workers, worker'[u] = "writing"
        PROVE  job'[u] \in Videos /\ video'[job'[u]] # "none"
    BY <2>1, <2>2, <2>4 DEF JobsKnown
  <2>5. ASSUME NEW v \in Videos, video'[v] = "queued"
        PROVE  (Waiting(v) \/ Written(v))'
    <3>1. CASE Written(v)
      BY <2>2, <3>1 DEF Written
    <3>2. ASSUME NEW i \in DOMAIN queue, queue[i] = v
          PROVE  (Waiting(v) \/ Written(v))'
      <4>1. CASE i = 1
        BY <2>2, <3>2, <4>1, StopIsNoVideo DEF Written
      <4>2. CASE i # 1
        <5>1. i - 1 \in DOMAIN queue' /\ queue'[i - 1] = v
          BY <2>1, <3>2, <4>2
        <5>2. QED
          BY <5>1 DEF Waiting
      <4>3. QED
        BY <4>1, <4>2
    <3>3. QED
      BY <2>2, <2>5, <3>1, <3>2 DEF JobsKnown, Waiting
  <2>6. QED
    BY <2>3, <2>4, <2>5 DEF JobsKnown
<1>5. ASSUME NEW w \in Workers, WriteVideo(w)
      PROVE  JobsKnown'
  <2>1. /\ UNCHANGED <<queue, job>> /\ worker[w] = "writing" /\ job[w] \in Videos
        /\ worker'[w] = "idle" /\ \A u \in Workers \ {w} : worker'[u] = worker[u]
    BY <1>5 DEF WriteVideo, TypeOK, JobsKnown, mainVars
  <2>2. /\ video'[job[w]] \in {"written", "failed"}
        /\ \A v \in Videos \ {job[w]} : video'[v] = video[v]
    BY <1>5, <2>1 DEF WriteVideo, TypeOK
  <2>3. \A v \in Videos : video[v] # "none" => video'[v] # "none"
    BY <2>2
  <2>4. \A v \in Videos : video'[v] = "queued" =>
           video[v] = "queued" /\ v # job[w] /\ (Waiting(v) => Waiting(v)') /\ (Written(v) => Written(v)')
    BY <2>1, <2>2 DEF Waiting, Written
  <2>5. QED
    BY <2>1, <2>3, <2>4 DEF JobsKnown
<1>6. ASSUME NEW w \in Workers, SendError(w) \/ EndWorker(w)
      PROVE  JobsKnown'
  <2>1. /\ UNCHANGED <<queue, job, video>>
        /\ \A u \in Workers : worker'[u] = "writing" <=> worker[u] = "writing"
    BY <1>6 DEF SendError, EndWorker, TypeOK, mainVars
  <2>2. QED
    BY <2>1 DEF JobsKnown, Waiting, Written
<1>7. QED
  BY <1>1, <1>2, <1>3, <1>4, <1>5, <1>6 DEF Next, Main, Work

-----------------------------------------------------------------------------
LEMMA NextIInv == IInv /\ [Next]_vars => IInv'
<1> SUFFICES ASSUME IInv, [Next]_vars
             PROVE  IInv'
  OBVIOUS
<1>1. CASE Next
  BY <1>1, NextTypeOK, NextMainAt, NextQueueShape, NextFramesContiguous, NextStoredBelow,
     NextVideosPut, NextJobsKnown DEF IInv
<1>2. CASE UNCHANGED vars
  <2>1. TypeOK' /\ MainAt' /\ FramesContiguous'
    BY <1>2 DEF vars, IInv, TypeOK, MainAt, FramesContiguous
  <2>2. QueueShape'
    BY <1>2, ShapeUnchanged DEF vars, IInv, Leaving
  <2>3. StoredBelow' /\ VideosPut' /\ JobsKnown'
    BY <1>2 DEF vars, IInv, StoredBelow, VideosPut, Put, HasTable, JobsKnown, Waiting, Written
  <2>4. QED
    BY <2>1, <2>2, <2>3 DEF IInv
<1>3. QED
  BY <1>1, <1>2

\* When info.json is written the queue is empty and no worker holds a job, so
\* every video that was put has been written or has failed.
LEMMA IInvVideosComplete == IInv => VideosComplete
<1> SUFFICES ASSUME IInv, main \in {"describing", "done", "failed"}
             PROVE  /\ queue = <<>>
                    /\ \A v \in Videos : IF HasTable(v[1]) THEN video[v] \in {"written", "failed"}
                                                         ELSE video[v] = "none"
  BY DEF VideosComplete, HasTable
<1> USE DEF IInv
<1>1. queue = <<>> /\ \A w \in Workers : worker[w] = "ended"
  BY AllStopped DEF MainAt
<1>2. ASSUME NEW v \in Videos
      PROVE  IF HasTable(v[1]) THEN video[v] \in {"written", "failed"} ELSE video[v] = "none"
  <2>1. v[1] < episode
    BY ConversionAssumption DEF MainAt, Videos, TypeOK
  <2>2. video[v] # "queued"
    BY <1>1 DEF JobsKnown, Waiting, Written
  <2>3. (video[v] # "none") <=> HasTable(v[1])
    BY <2>1 DEF VideosPut, Put
  <2>4. QED
    BY <2>2, <2>3 DEF TypeOK
<1>3. QED
  BY <1>1, <1>2

\* The stored tables' frames run on without a gap, whichever trajectories could
\* not be converted, and when info.json is written every stored table has all its
\* videos, or their failure is known (convert_hdf5_to_lerobot.py:508-624).
THEOREM ConversionSafe == Spec => [](TypeOK /\ FramesContiguous /\ VideosComplete)
<1>1. IInv => TypeOK /\ FramesContiguous /\ VideosComplete
  BY IInvVideosComplete DEF IInv
<1>2. QED
  BY InitIInv, NextIInv, <1>1, PTL DEF Spec

-----------------------------------------------------------------------------
(* Generating demonstrations: the navigation *)

\* A navigation that goes on has not reached its goal.
NavInv == NavTypeOK /\ (nav.navigating => ~nav.goalReached)

LEMMA NavigationStep ==
   ASSUME NavInv, NEW command \in BOOLEAN, NEW xy \in BOOLEAN, NEW heading \in BOOLEAN,
          ProcessActions(command, xy, heading)
   PROVE  NavInv'
<1> DEFINE n == EnterNavigation(nav, command)
<1>1. /\ nav \in [navigating : BOOLEAN, goalReached : BOOLEAN,
                  subgoals : 0 .. Len(InPlace), steps : 0 .. MaxNavigationSteps + 1]
      /\ Len(InPlace) \in Nat /\ MaxNavigationSteps \in Nat
  BY NavigationAssumption, LenProperties DEF NavInv, NavTypeOK
<1>2. /\ n \in [navigating : BOOLEAN, goalReached : BOOLEAN,
                subgoals : 0 .. Len(InPlace), steps : 0 .. MaxNavigationSteps + 1]
      /\ n.navigating => ~n.goalReached
  <2>1. CASE nav.navigating
    BY <1>1, <2>1 DEF NavInv, EnterNavigation
  <2>2. CASE ~nav.navigating
    <3> DEFINE n1 == [nav EXCEPT !.goalReached = FALSE]
               n2 == [n1 EXCEPT !.navigating = command]
               count == IF command THEN 0 ELSE nav.steps
    <3>1. /\ n1 \in [navigating : BOOLEAN, goalReached : BOOLEAN,
                     subgoals : 0 .. Len(InPlace), steps : 0 .. MaxNavigationSteps + 1]
          /\ n1.goalReached = FALSE /\ n1.steps = nav.steps
      BY <1>1
    <3>2. n = [n2 EXCEPT !.steps = count]
      BY <2>2 DEF EnterNavigation
    <3>3. count \in 0 .. MaxNavigationSteps + 1
      BY <1>1
    <3> HIDE DEF n1, n, count
    <3>4. /\ n2 \in [navigating : BOOLEAN, goalReached : BOOLEAN,
                     subgoals : 0 .. Len(InPlace), steps : 0 .. MaxNavigationSteps + 1]
          /\ n2.goalReached = FALSE
      BY <3>1
    <3> HIDE DEF n2
    <3>5. QED
      BY <3>2, <3>3, <3>4
  <2>3. QED
    BY <2>1, <2>2
<1>3. nav' = IF n.navigating THEN Steer(n, xy, heading) ELSE n
  BY DEF ProcessActions
<1> HIDE DEF n
<1>4. CASE ~n.navigating
  BY <1>2, <1>3, <1>4 DEF NavInv, NavTypeOK
<1>5. CASE n.navigating
  <2> DEFINE over == n.subgoals = Len(InPlace) \/ n.steps > MaxNavigationSteps
             reached == heading /\ (xy \/ InPlace[n.subgoals + 1])
  <2>1. CASE over
    <3>1. nav' = [n EXCEPT !.navigating = FALSE, !.goalReached = TRUE]
      BY <1>3, <1>5, <2>1 DEF Steer, StopNavigation
    <3>2. QED
      BY <1>1, <1>2, <3>1 DEF NavInv, NavTypeOK
  <2>2. CASE ~over /\ reached
    <3>1. nav' = [n EXCEPT !.navigating = FALSE, !.goalReached = TRUE, !.subgoals = @ + 1]
      BY <1>2, <1>3, <1>5, <2>2 DEF Steer, StopNavigation
    <3>2. n.subgoals + 1 \in 0 .. Len(InPlace)
      BY <1>1, <1>2, <2>2
    <3>3. QED
      BY <1>1, <1>2, <3>1, <3>2 DEF NavInv, NavTypeOK
  <2>3. CASE ~over /\ ~reached
    <3>1. nav' = RunPController(n, xy, heading)
      BY <1>3, <1>5, <2>3 DEF Steer
    <3>2. PICK more \in {0, 1} : nav' = [n EXCEPT !.steps = @ + more]
      BY <3>1 DEF RunPController
    <3>3. n.steps + more \in 0 .. MaxNavigationSteps + 1
      BY <1>1, <1>2, <2>3
    <3>4. QED
      BY <1>1, <1>2, <3>2, <3>3 DEF NavInv, NavTypeOK
  <2>4. QED
    BY <2>1, <2>2, <2>3
<1>6. QED
  BY <1>4, <1>5
-----------------------------------------------------------------------------
(* Generating demonstrations: the invariant *)

AtType == [subtask : [Eefs -> Nat], step : [Eefs -> Int], none : SUBSET Eefs,
           traj : [Eefs -> Seq(BOOLEAN)], finished : SUBSET Eefs,
           processed : BOOLEAN, raised : BOOLEAN]

\* A finished eef stays in its last subtask, and has a step index; one that has an
\* index has a trajectory.
Bookkeeping(a) ==
   /\ a \in AtType
   /\ \A e \in Eefs : a.subtask[e] < Subtasks[e] /\ (e \notin a.none => a.traj[e] # <<>>)
   /\ \A e \in a.finished : a.subtask[e] = Subtasks[e] - 1 /\ e \notin a.none

\* Inside the loop over the eefs, when it is at the k-th: those before it have been
\* advanced, and a shift of the indices has taken back at most one of each.
Least(a, i, k) == (IF i < k THEN 1 ELSE 0) - (IF a.processed THEN 1 ELSE 0)
InRange(a, i, k) ==
   EefOrder[i] \notin a.none =>
      a.step[EefOrder[i]] \in Least(a, i, k) .. Len(a.traj[EefOrder[i]]) - 1
StepsInRange(a, k) == \A i \in DOMAIN EefOrder :
                         InRange(a, i, k) /\ (i >= k => EefOrder[i] \notin a.none)

GenerationInv ==
   /\ NavInv /\ was \in BOOLEAN /\ attempt \in 0 .. Attempts /\ turn \in 0 .. Len(EefOrder)
   /\ phase \in {"reset", "generate", "raised"}
   /\ Bookkeeping(at)
   /\ phase = "reset" => turn = 0
   /\ phase # "raised" => ~at.raised
   /\ phase = "generate" /\ turn > 0 =>
         StepsInRange(at, turn) /\ \A e \in Eefs : at.traj[e] # <<>>
   /\ WaypointExists

LEMMA OrderIs ==
   /\ EefOrder \in Seq(Eefs) /\ Len(EefOrder) \in Nat /\ Len(EefOrder) > 0
   /\ DOMAIN EefOrder = 1 .. Len(EefOrder)
   /\ \A i \in 1 .. Len(EefOrder) : EefOrder[i] \in Eefs
   /\ \A e \in Eefs : \E i \in 1 .. Len(EefOrder) : EefOrder[i] = e
   /\ \A i, j \in 1 .. Len(EefOrder) : EefOrder[i] = EefOrder[j] => i = j
<1>1. EefOrder \in Seq(Eefs) /\ Body \in Eefs /\ IsInjective(EefOrder)
  BY GenerationAssumption
<1>2. Len(EefOrder) \in Nat /\ DOMAIN EefOrder = 1 .. Len(EefOrder)
  BY <1>1, LenProperties
<1>3. \A e \in Eefs : \E i \in 1 .. Len(EefOrder) : EefOrder[i] = e
  BY <1>2 DEF Eefs, Range
<1>4. \A i \in 1 .. Len(EefOrder) : EefOrder[i] \in Eefs
  BY <1>2 DEF Eefs, Range
<1>5. \A i, j \in 1 .. Len(EefOrder) : EefOrder[i] = EefOrder[j] => i = j
  BY <1>1, <1>2 DEF IsInjective
<1>6. Len(EefOrder) > 0
  BY <1>1, <1>2, <1>3
<1>7. QED
  BY <1>1, <1>2, <1>3, <1>4, <1>5, <1>6

LEMMA TrajectoriesAre ==
   ASSUME NEW e \in Eefs, NEW t \in Trajectories[e]
   PROVE  t \in Seq(BOOLEAN) /\ t # <<>> /\ Len(t) \in Nat /\ Len(t) >= 1
BY GenerationAssumption, LenProperties, EmptySeq

LEMMA SubtasksAre == \A e \in Eefs : Subtasks[e] \in Nat /\ Subtasks[e] >= 1
BY GenerationAssumption

LEMMA LengthIs ==
   ASSUME NEW a \in AtType, NEW e \in Eefs
   PROVE  /\ a.traj[e] \in Seq(BOOLEAN) /\ Len(a.traj[e]) \in Nat
          /\ a.step[e] \in Int /\ a.subtask[e] \in Nat
          /\ a.traj[e] # <<>> => Len(a.traj[e]) >= 1
<1>1. a.traj[e] \in Seq(BOOLEAN) /\ a.step[e] \in Int /\ a.subtask[e] \in Nat
  BY DEF AtType
<1>2. QED
  BY <1>1, LenProperties, EmptySeq

LEMMA StartIs == Bookkeeping(StartOfGeneration) /\ StartOfGeneration.finished = {}
                 /\ StartOfGeneration.none = Eefs /\ ~StartOfGeneration.raised
<1>1. StartOfGeneration \in AtType
  BY DEF StartOfGeneration, AtType
<1>2. QED
  BY <1>1, SubtasksAre DEF StartOfGeneration, Bookkeeping

LEMMA InitGeneration == GenerationInit => GenerationInv
<1> SUFFICES ASSUME GenerationInit
             PROVE  GenerationInv
  OBVIOUS
<1>1. NavInv
  BY NavigationAssumption, LenProperties DEF GenerationInit, NavInit, NavInv, NavTypeOK
<1>2. 0 \in 0 .. Attempts /\ 0 \in 0 .. Len(EefOrder)
  BY GenerationAssumption, OrderIs
<1>3. ~at.raised /\ Bookkeeping(at) /\ WaypointExists
  BY StartIs DEF GenerationInit, WaypointExists
<1>4. was \in BOOLEAN /\ attempt \in 0 .. Attempts /\ turn \in 0 .. Len(EefOrder)
  BY <1>2 DEF GenerationInit
<1>5. QED
  BY <1>1, <1>3, <1>4 DEF GenerationInit, GenerationInv
-----------------------------------------------------------------------------
(* Before the loop over the eefs *)

LEMMA StartKeeps ==
   ASSUME GenerationInv, StartGeneration
   PROVE  GenerationInv'
<1>1. /\ attempt < Attempts /\ attempt' = attempt + 1 /\ phase' = "generate" /\ turn' = turn
      /\ at' = StartOfGeneration /\ was' = FALSE /\ ResetPinkPolicy /\ phase = "reset"
  BY DEF StartGeneration
<1>2. NavInv'
  <2>1. /\ nav \in [navigating : BOOLEAN, goalReached : BOOLEAN,
                    subgoals : 0 .. Len(InPlace), steps : 0 .. MaxNavigationSteps + 1]
        /\ Len(InPlace) \in Nat
    BY NavigationAssumption, LenProperties DEF GenerationInv, NavInv, NavTypeOK
  <2> DEFINE n1 == [nav EXCEPT !.navigating = FALSE]
             n2 == [n1 EXCEPT !.goalReached = FALSE]
  <2>2. /\ n1 \in [navigating : BOOLEAN, goalReached : BOOLEAN,
                   subgoals : 0 .. Len(InPlace), steps : 0 .. MaxNavigationSteps + 1]
        /\ n1.navigating = FALSE
    BY <2>1
  <2>3. nav' = [n2 EXCEPT !.subgoals = 0]
    BY <1>1 DEF ResetPinkPolicy
  <2> HIDE DEF n1
  <2>4. /\ n2 \in [navigating : BOOLEAN, goalReached : BOOLEAN,
                   subgoals : 0 .. Len(InPlace), steps : 0 .. MaxNavigationSteps + 1]
        /\ n2.navigating = FALSE
    BY <2>2
  <2> HIDE DEF n2
  <2>5. QED
    BY <2>1, <2>3, <2>4 DEF NavInv, NavTypeOK
<1>3. attempt' \in 0 .. Attempts
  BY <1>1, GenerationAssumption DEF GenerationInv
<1>4. Bookkeeping(at')
  BY <1>1, StartIs
<1>5. Bookkeeping(at)'
  BY <1>4 DEF Bookkeeping, AtType
<1>6. turn' = 0 /\ WaypointExists' /\ ~at'.raised
  BY <1>1, StartIs DEF GenerationInv, WaypointExists
<1>7. 0 \in 0 .. Len(EefOrder)
  BY OrderIs
<1>8. was' \in BOOLEAN
  BY <1>1
<1>9. turn' \in 0 .. Len(EefOrder) /\ ~(turn' > 0)
  BY <1>6, <1>7
<1>10. phase' \in {"reset", "generate", "raised"} /\ ~(phase' = "reset")
  BY <1>1
<1>11. QED
  BY <1>2, <1>3, <1>5, <1>6, <1>8, <1>9, <1>10 DEF GenerationInv

LEMMA TrajectoryKeeps ==
   ASSUME GenerationInv, GenerateTrajectory
   PROVE  GenerationInv'
<1>1. PICK i \in DOMAIN EefOrder :
         /\ EefOrder[i] \in at.none
         /\ \E t \in Trajectories[EefOrder[i]] :
               at' = [at EXCEPT !.none = @ \ {EefOrder[i]}, !.traj[EefOrder[i]] = t,
                                !.step[EefOrder[i]] = 0]
  BY DEF GenerateTrajectory
<1> DEFINE e == EefOrder[i]
<1>2. PICK t \in Trajectories[e] :
         at' = [at EXCEPT !.none = @ \ {e}, !.traj[e] = t, !.step[e] = 0]
  BY <1>1
<1>3. e \in Eefs /\ e \in at.none
  BY <1>1, OrderIs
<1> HIDE DEF e
<1>4. t \in Seq(BOOLEAN) /\ t # <<>> /\ Len(t) \in Nat /\ Len(t) >= 1
  BY <1>3, TrajectoriesAre
<1>5. /\ phase = "generate" /\ turn = 0
      /\ UNCHANGED <<nav, phase, attempt, turn, was>>
  BY DEF GenerateTrajectory
<1>6. /\ Bookkeeping(at) /\ at \in AtType
      /\ \A d \in Eefs \ at.none : at.step[d] \in 0 .. Len(at.traj[d]) - 1
  BY <1>5 DEF GenerationInv, Bookkeeping, WaypointExists
<1>7. /\ at' \in AtType /\ at'.none = at.none \ {e} /\ at'.subtask = at.subtask
      /\ at'.finished = at.finished /\ at'.raised = at.raised
      /\ \A d \in Eefs : /\ at'.traj[d] = IF d = e THEN t ELSE at.traj[d]
                         /\ at'.step[d] = IF d = e THEN 0 ELSE at.step[d]
  <2> DEFINE a1 == [at EXCEPT !.none = @ \ {e}]
             a2 == [a1 EXCEPT !.traj[e] = t]
  <2>1. /\ a1 \in AtType /\ a1.none = at.none \ {e} /\ a1.subtask = at.subtask
        /\ a1.finished = at.finished /\ a1.traj = at.traj /\ a1.step = at.step
        /\ a1.raised = at.raised
    BY <1>6 DEF AtType
  <2>2. at' = [a2 EXCEPT !.step[e] = 0]
    BY <1>2
  <2> HIDE DEF a1
  <2>3. /\ a2 \in AtType /\ a2.none = at.none \ {e} /\ a2.subtask = at.subtask
        /\ a2.finished = at.finished /\ a2.step = at.step /\ a2.raised = at.raised
        /\ \A d \in Eefs : a2.traj[d] = IF d = e THEN t ELSE at.traj[d]
    BY <1>3, <1>4, <2>1 DEF AtType
  <2> HIDE DEF a2
  <2> DEFINE step0 == [a2.step EXCEPT ![e] = 0]
  <2>5. a2.step \in [Eefs -> Int]
    BY <2>3 DEF AtType
  <2>6. step0 \in [Eefs -> Int] /\ \A d \in Eefs : step0[d] = IF d = e THEN 0 ELSE a2.step[d]
    BY <1>3, <2>5
  <2>7. at' = [a2 EXCEPT !.step = step0]
    BY <2>2
  <2> HIDE DEF step0
  <2>4. at' \in AtType /\ at'.none = a2.none /\ at'.subtask = a2.subtask
        /\ at'.finished = a2.finished /\ at'.traj = a2.traj /\ at'.step = step0
        /\ at'.raised = a2.raised
    BY <2>3, <2>6, <2>7 DEF AtType
  <2>8. QED
    BY <1>3, <2>3, <2>4, <2>6
<1>8. Bookkeeping(at)'
  BY <1>4, <1>6, <1>7 DEF Bookkeeping, AtType
<1>9. WaypointExists'
  BY <1>4, <1>5, <1>6, <1>7 DEF WaypointExists
<1>10. phase' # "raised" => ~at'.raised
  BY <1>5, <1>7 DEF GenerationInv
<1>11. NavInv' /\ attempt' \in 0 .. Attempts /\ turn' \in 0 .. Len(EefOrder)
  BY <1>5 DEF GenerationInv, NavInv, NavTypeOK
<1>12. was' \in BOOLEAN
  BY <1>5 DEF GenerationInv
<1>13. QED
  BY <1>5, <1>8, <1>9, <1>10, <1>11, <1>12 DEF GenerationInv

LEMMA ExecuteKeeps ==
   ASSUME GenerationInv, ExecuteWaypoints
   PROVE  GenerationInv'
<1>1. /\ phase = "generate" /\ turn = 0 /\ at.none = {} /\ turn' = 1
      /\ at' = [at EXCEPT !.processed = FALSE]
      /\ UNCHANGED <<phase, attempt, was>>
      /\ \E xy, heading \in BOOLEAN :
            ProcessActions(at.traj[Body][at.step[Body] + 1], xy, heading)
  BY DEF ExecuteWaypoints
<1>2. Bookkeeping(at) /\ at \in AtType /\ \A d \in Eefs : at.step[d] \in 0 .. Len(at.traj[d]) - 1
  BY <1>1 DEF GenerationInv, Bookkeeping, WaypointExists
<1>3. NavInv'
  <2>1. Body \in Eefs
    BY GenerationAssumption
  <2>2. at.traj[Body][at.step[Body] + 1] \in BOOLEAN
    BY <1>2, <2>1, LengthIs, ElementOfSeq
  <2>3. QED
    BY <1>1, <2>2, NavigationStep DEF GenerationInv
<1>4. /\ at' \in AtType /\ at'.none = {} /\ at'.subtask = at.subtask /\ at'.finished = at.finished
      /\ at'.traj = at.traj /\ at'.step = at.step /\ ~at'.processed
  BY <1>1, <1>2 DEF AtType
<1>5. Bookkeeping(at)'
  BY <1>2, <1>4 DEF Bookkeeping, AtType
<1>6. turn' \in 0 .. Len(EefOrder)
  BY <1>1, OrderIs
<1>7. StepsInRange(at, turn)'
  <2>1. \A i \in DOMAIN EefOrder : EefOrder[i] \in Eefs /\ ~(i < 1)
    BY OrderIs
  <2>2. \A i \in DOMAIN EefOrder : Least(at, i, turn)' = 0
    BY <1>1, <1>4, <2>1 DEF Least
  <2>3. QED
    BY <1>1, <1>2, <1>4, <2>1, <2>2 DEF StepsInRange, InRange
<1>8. \A e \in Eefs : at'.traj[e] # <<>>
  BY <1>1, <1>2, <1>4 DEF Bookkeeping
<1>9. QED
  BY <1>1, <1>3, <1>5, <1>6, <1>7, <1>8 DEF GenerationInv, WaypointExists
-----------------------------------------------------------------------------
(* The loop over the eefs *)

\* In the middle of the pass of the k-th eef, after its index was moved on.
MidRange(a, k) ==
   \A i \in DOMAIN EefOrder :
      EefOrder[i] \notin a.none =>
         /\ a.step[EefOrder[i]] >= Least(a, i, k + 1)
         /\ a.step[EefOrder[i]] <= Len(a.traj[EefOrder[i]])
         /\ i # k => a.step[EefOrder[i]] < Len(a.traj[EefOrder[i]])

SameBooks(b, a) ==
   /\ b.none = a.none /\ b.traj = a.traj /\ b.subtask = a.subtask /\ b.finished = a.finished

LEMMA LeastIs ==
   ASSUME NEW a \in AtType, NEW i \in Int, NEW k \in Int
   PROVE  /\ Least(a, i, k) \in Int /\ Least(a, i, k) <= 1
          /\ a.processed => Least(a, i, k) = (IF i < k THEN 1 ELSE 0) - 1
          /\ ~a.processed => Least(a, i, k) = (IF i < k THEN 1 ELSE 0)
BY DEF Least

LEMMA ShiftIs ==
   ASSUME NEW a \in AtType, NEW newStep \in [Eefs -> Int], ~a.raised
   PROVE  /\ Shift(a, newStep) \in AtType /\ SameBooks(Shift(a, newStep), a)
          /\ ~Shift(a, newStep).raised =>
                a.none = {} /\ Shift(a, newStep).step = newStep /\ Shift(a, newStep).processed
<1>1. CASE a.none # {}
  BY <1>1 DEF Shift, AtType, SameBooks
<1>2. CASE a.none = {}
  <2> DEFINE a1 == [a EXCEPT !.step = newStep]
  <2>1. /\ a1 \in AtType /\ SameBooks(a1, a) /\ a1.step = newStep
    BY DEF AtType, SameBooks
  <2>2. Shift(a, newStep) = [a1 EXCEPT !.processed = TRUE]
    BY <1>2 DEF Shift
  <2> HIDE DEF a1
  <2>3. Shift(a, newStep) \in AtType /\ SameBooks(Shift(a, newStep), a1)
        /\ Shift(a, newStep).step = newStep /\ Shift(a, newStep).processed = TRUE
    BY <2>1, <2>2 DEF AtType, SameBooks
  <2>4. QED
    BY <1>2, <2>1, <2>3 DEF SameBooks
<1>3. QED
  BY <1>1, <1>2

LEMMA RepeatKeeps ==
   ASSUME NEW a \in AtType, NEW k \in 1 .. Len(EefOrder), ~a.raised, ~a.processed,
          MidRange(a, k)
   PROVE  LET b == RepeatWaypoint(a) IN
          b \in AtType /\ SameBooks(b, a) /\ (~b.raised => MidRange(b, k) /\ b.processed)
<1> DEFINE newStep == [e \in Eefs |-> a.step[e] - 1]
           b == RepeatWaypoint(a)
<1>1. newStep \in [Eefs -> Int] /\ \A e \in Eefs : newStep[e] = a.step[e] - 1
  BY DEF AtType
<1>2. b = Shift(a, newStep)
  BY DEF RepeatWaypoint
<1> HIDE DEF newStep, b
<1>3. /\ b \in AtType /\ SameBooks(b, a)
      /\ ~b.raised => a.none = {} /\ b.step = newStep /\ b.processed
  BY <1>1, <1>2, ShiftIs
<1>4. ASSUME ~b.raised
      PROVE  MidRange(b, k)
  <2>1. a.none = {} /\ b.step = newStep /\ b.processed /\ b.traj = a.traj
    BY <1>3, <1>4 DEF SameBooks
  <2>2. SUFFICES ASSUME NEW i \in DOMAIN EefOrder
                 PROVE  /\ b.step[EefOrder[i]] >= Least(b, i, k + 1)
                        /\ b.step[EefOrder[i]] <= Len(b.traj[EefOrder[i]])
                        /\ i # k => b.step[EefOrder[i]] < Len(b.traj[EefOrder[i]])
    BY DEF MidRange
  <2> DEFINE e == EefOrder[i]
  <2>3. e \in Eefs /\ i \in Int /\ k \in Int /\ k + 1 \in Int
    BY OrderIs
  <2>4. /\ a.step[e] >= Least(a, i, k + 1)
        /\ a.step[e] <= Len(a.traj[e])
    BY <2>1 DEF MidRange
  <2> HIDE DEF e
  <2>5. b.step[e] = a.step[e] - 1
    BY <1>1, <2>1, <2>3
  <2>6. a.step[e] \in Int /\ Len(a.traj[e]) \in Nat
    BY <2>3, LengthIs
  <2>7. Least(b, i, k + 1) = (IF i < k + 1 THEN 1 ELSE 0) - 1
    BY <1>3, <2>1, <2>3, LeastIs
  <2>8. Least(a, i, k + 1) = (IF i < k + 1 THEN 1 ELSE 0)
    BY <2>3, LeastIs
  <2>9. b.step[e] >= Least(b, i, k + 1)
    BY <2>3, <2>4, <2>5, <2>6, <2>7, <2>8
  <2>10. b.traj[e] = a.traj[e]
    BY <2>1
  <2>11. b.step[e] < Len(b.traj[e])
    BY <2>4, <2>5, <2>6, <2>10
  <2>12. b.step[e] <= Len(b.traj[e])
    BY <2>5, <2>6, <2>10, <2>11
  <2>13. QED
    BY <2>9, <2>11, <2>12 DEF e
<1>5. QED
  BY <1>3, <1>4 DEF b

LEMMA SkipKeeps ==
   ASSUME NEW a \in AtType, NEW k \in 1 .. Len(EefOrder), ~a.raised, ~a.processed,
          MidRange(a, k), \A e \in Eefs : a.traj[e] # <<>>,
          a.none = {} => a.step[Body] # Len(a.traj[Body]) - 1
   PROVE  LET b == SkipToEnd(a) IN
          b \in AtType /\ SameBooks(b, a) /\ (~b.raised => MidRange(b, k) /\ b.processed)
<1> DEFINE rest == LeftOfBody(a)
           newStep == [e \in Eefs |-> IF a.step[e] + rest < Len(a.traj[e])
                                      THEN a.step[e] + rest ELSE Len(a.traj[e]) - 1]
           b == SkipToEnd(a)
<1>1. Body \in Eefs
  BY GenerationAssumption
<1>2. rest = Len(a.traj[Body]) - (a.step[Body] + 1) /\ rest \in Int
  BY <1>1, LengthIs DEF LeftOfBody
<1>3. b = Shift(a, newStep)
  BY DEF SkipToEnd
<1> HIDE DEF rest, b
<1>4. \A e \in Eefs : a.step[e] \in Int /\ Len(a.traj[e]) \in Nat /\ Len(a.traj[e]) >= 1
  BY LengthIs
<1>5. /\ newStep \in [Eefs -> Int]
      /\ \A e \in Eefs : newStep[e] = IF a.step[e] + rest < Len(a.traj[e])
                                      THEN a.step[e] + rest ELSE Len(a.traj[e]) - 1
  BY <1>2, <1>4
<1> HIDE DEF newStep
<1>6. /\ b \in AtType /\ SameBooks(b, a)
      /\ ~b.raised => a.none = {} /\ b.step = newStep /\ b.processed
  BY <1>3, <1>5, ShiftIs
<1>7. ASSUME ~b.raised
      PROVE  MidRange(b, k)
  <2>1. a.none = {} /\ b.step = newStep /\ b.processed /\ b.traj = a.traj
    BY <1>6, <1>7 DEF SameBooks
  <2>2. rest + 1 >= 0
    <3>1. PICK j \in DOMAIN EefOrder : EefOrder[j] = Body
      BY <1>1, OrderIs
    <3>2. a.step[Body] <= Len(a.traj[Body])
      <4>1. EefOrder[j] \notin a.none
        BY <2>1
      <4>2. a.step[EefOrder[j]] <= Len(a.traj[EefOrder[j]])
        BY <4>1 DEF MidRange
      <4>3. QED
        BY <3>1, <4>2
    <3>3. a.step[Body] \in Int /\ Len(a.traj[Body]) \in Nat
      BY <1>1, <1>4
    <3>4. QED
      BY <1>2, <3>2, <3>3
  <2>3. SUFFICES ASSUME NEW i \in DOMAIN EefOrder
                 PROVE  /\ b.step[EefOrder[i]] >= Least(b, i, k + 1)
                        /\ b.step[EefOrder[i]] <= Len(b.traj[EefOrder[i]])
                        /\ i # k => b.step[EefOrder[i]] < Len(b.traj[EefOrder[i]])
    BY DEF MidRange
  <2> DEFINE e == EefOrder[i]
  <2>4. e \in Eefs /\ i \in Int /\ k \in Int /\ k + 1 \in Int
    BY OrderIs
  <2>5. /\ a.step[e] >= Least(a, i, k + 1)
        /\ a.step[e] <= Len(a.traj[e])
    BY <2>1 DEF MidRange
  <2> HIDE DEF e
  <2>6. b.step[e] = IF a.step[e] + rest < Len(a.traj[e])
                    THEN a.step[e] + rest ELSE Len(a.traj[e]) - 1
    BY <1>5, <2>1, <2>4
  <2>7. a.step[e] \in Int /\ Len(a.traj[e]) \in Nat /\ Len(a.traj[e]) >= 1
    BY <1>4, <2>4
  <2>8. Least(b, i, k + 1) = (IF i < k + 1 THEN 1 ELSE 0) - 1
    BY <1>6, <2>1, <2>4, LeastIs
  <2>9. Least(a, i, k + 1) = (IF i < k + 1 THEN 1 ELSE 0)
    BY <2>4, LeastIs
  <2>10. b.step[e] >= Least(b, i, k + 1)
    BY <1>2, <2>2, <2>4, <2>5, <2>6, <2>7, <2>8, <2>9
  <2>11. b.traj[e] = a.traj[e]
    BY <2>1
  <2>12. b.step[e] < Len(b.traj[e])
    BY <1>2, <2>6, <2>7, <2>11
  <2>13. b.step[e] <= Len(b.traj[e])
    BY <1>2, <2>6, <2>7, <2>11, <2>12
  <2>14. QED
    BY <2>10, <2>12, <2>13 DEF e
<1>8. QED
  BY <1>6, <1>7 DEF b

LEMMA FollowKeeps ==
   ASSUME NEW a \in AtType, NEW k \in 1 .. Len(EefOrder), ~a.raised,
          MidRange(a, k), \A e \in Eefs : a.traj[e] # <<>>
   PROVE  LET b == FollowNavigation(a) IN
          b \in AtType /\ SameBooks(b, a) /\ (~b.raised => MidRange(b, k))
<1> DEFINE b == FollowNavigation(a)
<1>1. CASE b = a
  BY <1>1 DEF SameBooks
<1>2. CASE ~a.processed /\ b = RepeatWaypoint(a)
  BY <1>2, RepeatKeeps
<1>3. CASE ~a.processed /\ ~BodyAt(a, Len(a.traj[Body]) - 1) /\ b = SkipToEnd(a)
  <2>1. a.none = {} => a.step[Body] # Len(a.traj[Body]) - 1
    BY <1>3 DEF BodyAt
  <2>2. QED
    BY <1>3, <2>1, SkipKeeps
<1>4. QED
  BY <1>1, <1>2, <1>3 DEF FollowNavigation

LEMMA FinishKeeps ==
   ASSUME NEW b \in AtType, NEW k \in 1 .. Len(EefOrder), ~b.raised, Bookkeeping(b),
          MidRange(b, k), \A d \in Eefs : b.traj[d] # <<>>, EefOrder[k] \notin b.none
   PROVE  LET c == FinishSubtask(b, EefOrder[k]) IN
          /\ Bookkeeping(c)
          /\ \A d \in Eefs : c.traj[d] # <<>>
          /\ \A i \in DOMAIN EefOrder : InRange(c, i, k + 1)
          /\ c.none \subseteq b.none \union {EefOrder[k]}
<1> DEFINE e == EefOrder[k]
           c == FinishSubtask(b, e)
<1>1. /\ e \in Eefs /\ e \notin b.none /\ k \in Int /\ k + 1 \in Int
      /\ \A i \in DOMAIN EefOrder : EefOrder[i] \in Eefs /\ i \in Int
                                    /\ (EefOrder[i] = e => i = k)
  BY OrderIs
<1>2. \A d \in Eefs : b.traj[d] \in Seq(BOOLEAN) /\ Len(b.traj[d]) \in Nat
                      /\ b.step[d] \in Int /\ b.subtask[d] \in Nat /\ Len(b.traj[d]) >= 1
  BY LengthIs
<1>3. \A i \in DOMAIN EefOrder :
         EefOrder[i] \notin b.none =>
            /\ b.step[EefOrder[i]] >= Least(b, i, k + 1)
            /\ b.step[EefOrder[i]] <= Len(b.traj[EefOrder[i]])
            /\ EefOrder[i] # e => b.step[EefOrder[i]] < Len(b.traj[EefOrder[i]])
  BY <1>1 DEF MidRange
<1>4. \A i \in DOMAIN EefOrder : Least(b, i, k + 1) \in Int /\ Least(b, i, k + 1) <= 1
  BY <1>1, LeastIs
<1> HIDE DEF e
<1>5. CASE b.step[e] # Len(b.traj[e])
  <2>1. c = b
    BY <1>5 DEF FinishSubtask
  <2> HIDE DEF c
  <2>2. \A i \in DOMAIN EefOrder : InRange(b, i, k + 1)
    <3> SUFFICES ASSUME NEW i \in DOMAIN EefOrder, EefOrder[i] \notin b.none
                 PROVE  b.step[EefOrder[i]] \in Least(b, i, k + 1) .. Len(b.traj[EefOrder[i]]) - 1
      BY DEF InRange
    <3> DEFINE d == EefOrder[i]
    <3>1. d \in Eefs /\ Least(b, i, k + 1) \in Int
      BY <1>1, <1>4
    <3>2. b.step[d] \in Int /\ Len(b.traj[d]) \in Nat
      BY <1>2, <3>1
    <3>3. b.step[d] >= Least(b, i, k + 1) /\ b.step[d] <= Len(b.traj[d])
      BY <1>3
    <3>4. b.step[d] # Len(b.traj[d])
      <4>1. CASE d = e
        BY <1>5, <4>1
      <4>2. CASE d # e
        BY <1>3, <3>2, <4>2
      <4>3. QED
        BY <4>1, <4>2
    <3> HIDE DEF d
    <3>5. b.step[d] \in Least(b, i, k + 1) .. Len(b.traj[d]) - 1
      BY <3>1, <3>2, <3>3, <3>4
    <3>6. QED
      BY <3>5 DEF d
  <2>3. QED
    BY <2>1, <2>2 DEF c, e
<1>6. CASE b.step[e] = Len(b.traj[e]) /\ b.subtask[e] = Subtasks[e] - 1
  <2> DEFINE longer == Append(b.traj[e], Last(b.traj[e]))
             b1 == [b EXCEPT !.finished = @ \union {e}]
             traj1 == [b.traj EXCEPT ![e] = longer]
  <2>1. longer \in Seq(BOOLEAN) /\ longer # <<>> /\ Len(longer) = Len(b.traj[e]) + 1
    <3>1. b.traj[e] \in Seq(BOOLEAN) /\ Len(b.traj[e]) \in Nat /\ Len(b.traj[e]) >= 1
      BY <1>1, <1>2
    <3>2. Last(b.traj[e]) \in BOOLEAN
      BY <3>1, ElementOfSeq DEF Last
    <3>3. QED
      BY <3>1, <3>2, AppendProperties
  <2>2. c = [b1 EXCEPT !.traj = traj1]
    BY <1>6 DEF FinishSubtask
  <2> HIDE DEF longer, c
  <2>3. /\ b1 \in AtType /\ b1.finished = b.finished \union {e} /\ b1.none = b.none
        /\ b1.step = b.step /\ b1.subtask = b.subtask /\ b1.processed = b.processed
    BY <1>1 DEF AtType
  <2>4. b.traj \in [Eefs -> Seq(BOOLEAN)]
    BY DEF AtType
  <2>5. /\ traj1 \in [Eefs -> Seq(BOOLEAN)]
        /\ \A d \in Eefs : traj1[d] = IF d = e THEN longer ELSE b.traj[d]
    BY <1>1, <2>1, <2>4
  <2> HIDE DEF b1, traj1
  <2>6. c \in AtType /\ c.finished = b1.finished /\ c.none = b1.none /\ c.step = b1.step
        /\ c.subtask = b1.subtask /\ c.processed = b1.processed /\ c.traj = traj1
    BY <2>2, <2>3, <2>5 DEF AtType
  <2>7. \A d \in Eefs : c.traj[d] # <<>>
    BY <2>1, <2>5, <2>6
  <2>8. Bookkeeping(c)
    BY <1>1, <1>6, <2>3, <2>6, <2>7 DEF Bookkeeping
  <2>9. \A i \in DOMAIN EefOrder : InRange(c, i, k + 1)
    <3> SUFFICES ASSUME NEW i \in DOMAIN EefOrder, EefOrder[i] \notin c.none
                 PROVE  c.step[EefOrder[i]] \in Least(c, i, k + 1) .. Len(c.traj[EefOrder[i]]) - 1
      BY DEF InRange
    <3> DEFINE d == EefOrder[i]
    <3>1. d \in Eefs /\ Least(b, i, k + 1) \in Int /\ d \notin b.none
      BY <1>1, <1>4, <2>3, <2>6
    <3>2. b.step[d] \in Int /\ Len(b.traj[d]) \in Nat
      BY <1>2, <3>1
    <3>3. b.step[d] >= Least(b, i, k + 1) /\ b.step[d] <= Len(b.traj[d])
      BY <1>3, <3>1
    <3>4. c.step[d] = b.step[d] /\ Least(c, i, k + 1) = Least(b, i, k + 1)
      BY <2>3, <2>6 DEF Least
    <3>5. b.step[d] < Len(c.traj[d]) /\ Len(c.traj[d]) \in Int
      <4>1. CASE d = e
        <5>1. Len(c.traj[d]) = Len(b.traj[d]) + 1
          BY <2>1, <2>5, <2>6, <3>1, <4>1
        <5>2. QED
          BY <3>2, <3>3, <5>1
      <4>2. CASE d # e
        <5>1. c.traj[d] = b.traj[d]
          BY <2>5, <2>6, <3>1, <4>2
        <5>2. QED
          BY <1>3, <3>1, <3>2, <4>2, <5>1
      <4>3. QED
        BY <4>1, <4>2
    <3> HIDE DEF d
    <3>6. c.step[d] \in Least(c, i, k + 1) .. Len(c.traj[d]) - 1
      BY <3>1, <3>2, <3>3, <3>4, <3>5
    <3>7. QED
      BY <3>6 DEF d
  <2>10. QED
    BY <2>3, <2>6, <2>7, <2>8, <2>9 DEF c, e
<1>7. CASE b.step[e] = Len(b.traj[e]) /\ b.subtask[e] # Subtasks[e] - 1
  <2> DEFINE b1 == [b EXCEPT !.none = @ \union {e}]
             subtask1 == [b.subtask EXCEPT ![e] = @ + 1]
  <2>1. c = [b1 EXCEPT !.subtask = subtask1]
    BY <1>7 DEF FinishSubtask
  <2> HIDE DEF c
  <2>2. /\ b1 \in AtType /\ b1.none = b.none \union {e} /\ b1.finished = b.finished
        /\ b1.step = b.step /\ b1.traj = b.traj /\ b1.processed = b.processed
    BY <1>1 DEF AtType
  <2>3. b.subtask \in [Eefs -> Nat]
    BY DEF AtType
  <2>4. /\ subtask1 \in [Eefs -> Nat]
        /\ \A d \in Eefs : subtask1[d] = IF d = e THEN b.subtask[d] + 1 ELSE b.subtask[d]
    BY <1>1, <2>3
  <2> HIDE DEF b1, subtask1
  <2>5. c \in AtType /\ c.none = b1.none /\ c.finished = b1.finished /\ c.step = b1.step
        /\ c.traj = b1.traj /\ c.processed = b1.processed /\ c.subtask = subtask1
    BY <2>1, <2>2, <2>4 DEF AtType
  <2>6. \A d \in Eefs : c.traj[d] # <<>>
    BY <2>2, <2>5
  <2>7. Bookkeeping(c)
    <3>1. e \notin b.finished
      BY <1>7 DEF Bookkeeping
    <3>2. \A d \in Eefs : c.subtask[d] < Subtasks[d]
      <4> SUFFICES ASSUME NEW d \in Eefs
                   PROVE  c.subtask[d] < Subtasks[d]
        OBVIOUS
      <4>1. b.subtask[d] < Subtasks[d] /\ (d = e => b.subtask[d] # Subtasks[d] - 1)
        BY <1>7 DEF Bookkeeping
      <4>2. b.subtask[d] \in Nat /\ Subtasks[d] \in Nat
        BY <1>2, SubtasksAre
      <4>3. c.subtask[d] = IF d = e THEN b.subtask[d] + 1 ELSE b.subtask[d]
        BY <2>4, <2>5
      <4>4. QED
        BY <4>1, <4>2, <4>3
    <3>3. \A d \in c.finished : c.subtask[d] = Subtasks[d] - 1 /\ d \notin c.none
      <4>1. \A d \in c.finished : d \in Eefs /\ d # e /\ d \in b.finished
        BY <2>2, <2>5, <3>1 DEF AtType
      <4>2. QED
        BY <2>2, <2>4, <2>5, <4>1 DEF Bookkeeping
    <3>4. QED
      BY <2>5, <2>6, <3>2, <3>3 DEF Bookkeeping
  <2>8. \A i \in DOMAIN EefOrder : InRange(c, i, k + 1)
    <3> SUFFICES ASSUME NEW i \in DOMAIN EefOrder, EefOrder[i] \notin c.none
                 PROVE  c.step[EefOrder[i]] \in Least(c, i, k + 1) .. Len(c.traj[EefOrder[i]]) - 1
      BY DEF InRange
    <3> DEFINE d == EefOrder[i]
    <3>1. d \in Eefs /\ Least(b, i, k + 1) \in Int /\ d \notin b.none /\ d # e
      BY <1>1, <1>4, <2>2, <2>5
    <3>2. b.step[d] \in Int /\ Len(b.traj[d]) \in Nat
      BY <1>2, <3>1
    <3>3. b.step[d] >= Least(b, i, k + 1) /\ b.step[d] < Len(b.traj[d])
      BY <1>3, <3>1
    <3>4. /\ c.step[d] = b.step[d] /\ c.traj[d] = b.traj[d]
          /\ Least(c, i, k + 1) = Least(b, i, k + 1)
      BY <2>2, <2>5 DEF Least
    <3> HIDE DEF d
    <3>5. c.step[d] \in Least(c, i, k + 1) .. Len(c.traj[d]) - 1
      BY <3>1, <3>2, <3>3, <3>4
    <3>6. QED
      BY <3>5 DEF d
  <2>9. QED
    BY <2>2, <2>5, <2>6, <2>7, <2>8 DEF c, e
<1>8. QED
  BY <1>5, <1>6, <1>7

LEMMA AdvancedInRange ==
   ASSUME NEW k \in 1 .. Len(EefOrder), at \in AtType, StepsInRange(at, k),
          NEW a \in AtType, SameBooks(a, at), a.processed = at.processed,
          \A d \in Eefs : a.step[d] = IF d = EefOrder[k] THEN at.step[d] + 1 ELSE at.step[d]
   PROVE  MidRange(a, k)
<1> DEFINE e == EefOrder[k]
<1>1. /\ k \in DOMAIN EefOrder /\ e \in Eefs
      /\ \A i \in DOMAIN EefOrder : EefOrder[i] \in Eefs /\ i \in Int
                                    /\ (EefOrder[i] = e => i = k)
  BY OrderIs
<1> SUFFICES ASSUME NEW i \in DOMAIN EefOrder, EefOrder[i] \notin a.none
             PROVE  /\ a.step[EefOrder[i]] >= Least(a, i, k + 1)
                    /\ a.step[EefOrder[i]] <= Len(a.traj[EefOrder[i]])
                    /\ i # k => a.step[EefOrder[i]] < Len(a.traj[EefOrder[i]])
  BY DEF MidRange
<1> DEFINE d == EefOrder[i]
<1>2. d \in Eefs /\ i \in Int /\ d \notin at.none /\ (d = e <=> i = k)
  BY <1>1 DEF SameBooks, e
<1>3. at.step[d] \in Least(at, i, k) .. Len(at.traj[d]) - 1
  BY <1>2 DEF StepsInRange, InRange
<1>4. at.step[d] \in Int /\ Len(at.traj[d]) \in Nat
  BY <1>2, LengthIs
<1>5. a.traj[d] = at.traj[d]
  BY DEF SameBooks
<1>6. a.step[d] = IF d = e THEN at.step[d] + 1 ELSE at.step[d]
  BY <1>2
<1>7. Least(a, i, k + 1) = IF i = k THEN Least(at, i, k) + 1 ELSE Least(at, i, k)
  <2>1. CASE at.processed
    BY <1>2, <2>1 DEF Least
  <2>2. CASE ~at.processed
    BY <1>2, <2>2 DEF Least
  <2>3. QED
    BY <2>1, <2>2
<1>8. Least(at, i, k) \in Int
  BY <1>2, LeastIs
<1> HIDE DEF d
<1>9. CASE i = k
  <2>1. a.step[d] = at.step[d] + 1 /\ Least(a, i, k + 1) = Least(at, i, k) + 1
    <3>1. d = e
      BY <1>2, <1>9
    <3>2. QED
      BY <1>6, <1>7, <1>9, <3>1
  <2>2. a.step[d] >= Least(a, i, k + 1) /\ a.step[d] <= Len(a.traj[d])
    BY <1>3, <1>4, <1>5, <1>8, <2>1, SMTT(30)
  <2>3. QED
    BY <1>9, <2>2 DEF d
<1>10. CASE i # k
  <2>1. a.step[d] = at.step[d] /\ Least(a, i, k + 1) = Least(at, i, k)
    BY <1>2, <1>6, <1>7, <1>10
  <2>2. a.step[d] >= Least(a, i, k + 1) /\ a.step[d] < Len(a.traj[d])
    BY <1>3, <1>4, <1>5, <1>8, <2>1
  <2>3. a.step[d] <= Len(a.traj[d])
    BY <1>4, <1>5, <2>1, <2>2
  <2>4. QED
    BY <2>2, <2>3 DEF d
<1>11. QED
  BY <1>9, <1>10

LEMMA AdvanceKeeps ==
   ASSUME GenerationInv, AdvanceEef
   PROVE  GenerationInv'
<1> DEFINE k == turn
           e == EefOrder[k]
           a == [at EXCEPT !.step[e] = @ + 1]
           b == FollowNavigation(a)
<1>1. /\ phase = "generate" /\ k > 0 /\ k \in 0 .. Len(EefOrder)
      /\ at' = FinishSubtask(b, e)
      /\ turn' = (k + 1) % (Len(EefOrder) + 1)
      /\ was' = IF turn' = 0 THEN nav.navigating ELSE was
      /\ phase' = CASE at'.raised -> "raised"
                    [] ~at'.raised /\ turn' = 0 /\ at'.finished = Eefs -> "reset"
                    [] OTHER -> "generate"
      /\ UNCHANGED <<nav, attempt>>
  BY DEF AdvanceEef, GenerationInv
<1>2. /\ Bookkeeping(at) /\ at \in AtType /\ StepsInRange(at, k)
      /\ \A d \in Eefs : at.traj[d] # <<>>
  BY <1>1 DEF GenerationInv, Bookkeeping
<1>3. k \in 1 .. Len(EefOrder) /\ Len(EefOrder) \in Nat
  BY <1>1, OrderIs
<1>4. /\ k \in DOMAIN EefOrder /\ e \in Eefs
      /\ \A i \in DOMAIN EefOrder : EefOrder[i] \in Eefs /\ i \in Int
                                    /\ (EefOrder[i] = e => i = k)
  BY <1>3, OrderIs
<1>5. e \notin at.none
  BY <1>2, <1>3, <1>4 DEF StepsInRange
<1>6. ~at.raised
  BY <1>1 DEF GenerationInv
<1> HIDE DEF e
<1>7. /\ a \in AtType /\ SameBooks(a, at) /\ a.raised = at.raised /\ a.processed = at.processed
      /\ \A d \in Eefs : a.step[d] = IF d = e THEN at.step[d] + 1 ELSE at.step[d]
  <2> DEFINE step1 == [at.step EXCEPT ![e] = @ + 1]
  <2>1. at.step \in [Eefs -> Int]
    BY <1>2 DEF AtType
  <2>2. /\ step1 \in [Eefs -> Int]
        /\ \A d \in Eefs : step1[d] = IF d = e THEN at.step[d] + 1 ELSE at.step[d]
    BY <1>4, <2>1
  <2>3. a = [at EXCEPT !.step = step1]
    OBVIOUS
  <2> HIDE DEF step1, a
  <2>4. /\ a \in AtType /\ a.step = step1 /\ a.none = at.none /\ a.traj = at.traj
        /\ a.subtask = at.subtask /\ a.finished = at.finished
        /\ a.raised = at.raised /\ a.processed = at.processed
    BY <1>2, <2>2, <2>3 DEF AtType
  <2>5. QED
    BY <2>2, <2>4 DEF SameBooks
<1> HIDE DEF a
<1>8. MidRange(a, k)
  BY <1>2, <1>3, <1>7, AdvancedInRange DEF e
<1>9. \A d \in Eefs : a.traj[d] # <<>>
  BY <1>2, <1>7 DEF SameBooks
<1>10. b \in AtType /\ SameBooks(b, a) /\ (~b.raised => MidRange(b, k))
  BY <1>3, <1>6, <1>7, <1>8, <1>9, FollowKeeps
<1> HIDE DEF b
<1>11. Bookkeeping(b) /\ b.none = at.none /\ \A d \in Eefs : b.traj[d] # <<>>
  BY <1>2, <1>7, <1>9, <1>10 DEF SameBooks, Bookkeeping
<1>12. /\ turn' \in 0 .. Len(EefOrder)
       /\ turn' = IF k = Len(EefOrder) THEN 0 ELSE k + 1
  BY <1>1, <1>3
<1>13. /\ NavInv' /\ attempt' \in 0 .. Attempts /\ phase' \in {"reset", "generate", "raised"}
  BY <1>1 DEF GenerationInv, NavInv, NavTypeOK
<1>14. was' \in BOOLEAN
  BY <1>1 DEF GenerationInv, NavInv, NavTypeOK
<1>15. CASE b.raised
  <2>1. at' = b
    BY <1>1, <1>15 DEF FinishSubtask
  <2>2. phase' = "raised"
    BY <1>1, <1>15, <2>1
  <2>3. Bookkeeping(at)'
    BY <1>11, <2>1 DEF Bookkeeping, AtType
  <2>4. QED
    BY <1>12, <1>13, <1>14, <2>2, <2>3 DEF GenerationInv, WaypointExists
<1>16. CASE ~b.raised
  <2>1. /\ Bookkeeping(at') /\ \A d \in Eefs : at'.traj[d] # <<>>
        /\ \A i \in DOMAIN EefOrder : InRange(at', i, k + 1)
        /\ at'.none \subseteq at.none \union {e}
    BY <1>1, <1>3, <1>5, <1>10, <1>11, <1>16, FinishKeeps DEF e
  <2>2. Bookkeeping(at)'
    BY <2>1 DEF Bookkeeping, AtType
  <2>3. turn' = 0 => WaypointExists'
    <3> SUFFICES ASSUME turn' = 0, NEW d \in Eefs, d \notin at'.none
                 PROVE  at'.step[d] \in 0 .. Len(at'.traj[d]) - 1
      BY DEF WaypointExists
    <3>1. PICK i \in DOMAIN EefOrder : EefOrder[i] = d
      BY OrderIs
    <3>2. at' \in AtType /\ i \in Int /\ i < k + 1
      BY <1>3, <1>4, <1>12, <2>1, OrderIs DEF Bookkeeping
    <3>3. Least(at', i, k + 1) >= 0 /\ Least(at', i, k + 1) \in Int
      BY <3>2 DEF Least
    <3>4. at'.step[d] \in Least(at', i, k + 1) .. Len(at'.traj[d]) - 1
      BY <2>1, <3>1 DEF InRange
    <3>5. at'.step[d] \in Int /\ Len(at'.traj[d]) \in Nat
      BY <3>2, LengthIs
    <3>6. QED
      BY <3>3, <3>4, <3>5
  <2>4. turn' > 0 => StepsInRange(at, turn)'
    <3> SUFFICES ASSUME turn' > 0, NEW i \in DOMAIN EefOrder
                 PROVE  /\ InRange(at', i, turn')
                        /\ i >= turn' => EefOrder[i] \notin at'.none
      BY DEF StepsInRange, InRange, Least
    <3>1. turn' = k + 1
      BY <1>12
    <3>2. i >= k + 1 => EefOrder[i] \notin at'.none
      <4> SUFFICES ASSUME i >= k + 1
                   PROVE  EefOrder[i] \notin at'.none
        OBVIOUS
      <4>1. i >= k /\ i # k
        BY <1>3, <1>4
      <4>2. EefOrder[i] \notin at.none /\ EefOrder[i] # e
        BY <1>2, <1>4, <4>1 DEF StepsInRange
      <4>3. QED
        BY <2>1, <4>2
    <3>3. QED
      BY <2>1, <3>1, <3>2
  <2>5. phase' = "reset" => turn' = 0
    BY <1>1
  <2>6. turn' > 0 => ~(turn' = 0)
    BY <1>12
  <2>7. phase' # "raised" => ~at'.raised
    BY <1>1
  <2>8. turn' # 0 => WaypointExists'
    BY DEF WaypointExists
  <2>9. QED
    BY <1>12, <1>13, <1>14, <2>1, <2>2, <2>3, <2>4, <2>5, <2>7, <2>8 DEF GenerationInv
<1>17. QED
  BY <1>15, <1>16
-----------------------------------------------------------------------------
LEMMA GenerationInvariant == GenerationSpec => []GenerationInv
<1>1. GenerationInv /\ [GenerationNext]_generationVars => GenerationInv'
  <2> SUFFICES ASSUME GenerationInv, [GenerationNext]_generationVars
               PROVE  GenerationInv'
    OBVIOUS
  <2>1. CASE StartGeneration
    BY <2>1, StartKeeps
  <2>2. CASE GenerateTrajectory
    BY <2>2, TrajectoryKeeps
  <2>3. CASE ExecuteWaypoints
    BY <2>3, ExecuteKeeps
  <2>4. CASE AdvanceEef
    BY <2>4, AdvanceKeeps
  <2>5. CASE UNCHANGED generationVars
    BY <2>5 DEF generationVars, GenerationInv, NavInv, NavTypeOK, Bookkeeping, AtType,
                StepsInRange, InRange, Least, WaypointExists
  <2>6. QED
    BY <2>1, <2>2, <2>3, <2>4, <2>5 DEF GenerationNext, Iterate
<1>2. QED
  BY <1>1, InitGeneration, PTL DEF GenerationSpec

\* Generating a demonstration never executes a waypoint that its trajectory does
\* not have (locomanip_mimic_patch.py:330-379), however many eefs there are, in
\* whatever order, and whichever trajectories they are given.
THEOREM GenerationSafe == GenerationSpec => [](GenerationTypeOK /\ WaypointExists)
<1>1. GenerationInv => GenerationTypeOK /\ WaypointExists
  <2> SUFFICES ASSUME GenerationInv
               PROVE  GenerationTypeOK
    BY DEF GenerationInv
  <2>1. at \in AtType /\ \A e \in Eefs : at.subtask[e] < Subtasks[e]
    BY DEF GenerationInv, Bookkeeping
  <2>2. \A e \in Eefs : at.subtask[e] \in 0 .. Subtasks[e] - 1
    BY <2>1, LengthIs, SubtasksAre
  <2>3. QED
    BY <2>1, <2>2 DEF GenerationInv, GenerationTypeOK, NavInv, AtType
<1>2. QED
  BY <1>1, GenerationInvariant, PTL
-----------------------------------------------------------------------------
(* The body is held back *)

\* Inside the loop, a finished body at place j of the order is at its last waypoint,
\* taken back by one when the indices were held before its turn.
FinishedBodyAt(a, j, k) ==
   Len(a.traj[Body]) = a.step[Body] + (IF j >= k /\ a.processed THEN 2 ELSE 1)

HoldInv ==
   /\ phase = "generate" /\ turn = 0 => at.finished # Eefs
   /\ phase = "generate" /\ nav.navigating => at.finished # Eefs
   /\ phase = "generate" /\ turn = 0 /\ Body \in at.finished =>
         at.step[Body] = Len(at.traj[Body]) - 1
   /\ phase = "generate" /\ turn > 0 /\ Body \in at.finished =>
         \A j \in DOMAIN EefOrder : EefOrder[j] = Body => FinishedBodyAt(at, j, turn)
   /\ phase = "generate" /\ turn > 1 /\ nav.navigating /\ ~at.processed =>
         /\ Body \notin at.finished
         /\ EefOrder[turn] = Body => at.step[Body] # Len(at.traj[Body]) - 1
   /\ phase = "generate" /\ turn > 0 /\ nav.navigating /\ at.processed =>
         \A i \in DOMAIN EefOrder :
            i >= turn => at.step[EefOrder[i]] < Len(at.traj[EefOrder[i]]) - 1

\* What handling the navigation does to the indices.
Held(b, a) ==
   /\ ~a.processed /\ BodyAt(a, Len(a.traj[Body]) - 1) /\ nav.navigating /\ b.processed
   /\ \A d \in Eefs : b.step[d] = a.step[d] - 1
Skipped(b, a) ==
   /\ ~a.processed /\ ~BodyAt(a, Len(a.traj[Body]) - 1) /\ ~nav.navigating /\ b.processed
   /\ b.step[Body] = Len(a.traj[Body]) - 1
Untouched(b, a) ==
   /\ b = a
   /\ nav.navigating /\ ~a.processed => ~BodyAt(a, Len(a.traj[Body]) - 1)

LEMMA FollowOutcome ==
   ASSUME NEW a \in AtType, ~a.raised, NavInv
   PROVE  LET b == FollowNavigation(a) IN
          b.raised \/ Held(b, a) \/ Skipped(b, a) \/ Untouched(b, a)
<1> DEFINE b == FollowNavigation(a)
<1>1. CASE ~a.processed /\ BodyAt(a, Len(a.traj[Body]) - 1) /\ nav.navigating
  <2> DEFINE newStep == [e \in Eefs |-> a.step[e] - 1]
  <2>1. b = RepeatWaypoint(a)
    BY <1>1 DEF FollowNavigation, NavInv
  <2>2. newStep \in [Eefs -> Int] /\ \A e \in Eefs : newStep[e] = a.step[e] - 1
    BY DEF AtType
  <2>3. b = Shift(a, newStep)
    BY <2>1 DEF RepeatWaypoint
  <2> HIDE DEF newStep, b
  <2>4. ~b.raised => b.step = newStep /\ b.processed
    BY <2>2, <2>3, ShiftIs
  <2>5. b.raised \/ Held(b, a)
    BY <1>1, <2>2, <2>4 DEF Held
  <2>6. QED
    BY <2>5 DEF b
<1>2. CASE /\ ~a.processed /\ ~BodyAt(a, Len(a.traj[Body]) - 1)
           /\ ~nav.navigating /\ b = SkipToEnd(a)
  <2> DEFINE rest == LeftOfBody(a)
             newStep == [e \in Eefs |-> IF a.step[e] + rest < Len(a.traj[e])
                                        THEN a.step[e] + rest ELSE Len(a.traj[e]) - 1]
  <2>1. Body \in Eefs
    BY GenerationAssumption
  <2>2. rest = Len(a.traj[Body]) - (a.step[Body] + 1) /\ rest \in Int
    BY <2>1, LengthIs DEF LeftOfBody
  <2>3. b = Shift(a, newStep)
    BY <1>2 DEF SkipToEnd
  <2> HIDE DEF rest, b
  <2>4. \A e \in Eefs : a.step[e] \in Int /\ Len(a.traj[e]) \in Nat
    BY LengthIs
  <2>5. /\ newStep \in [Eefs -> Int]
        /\ newStep[Body] = IF a.step[Body] + rest < Len(a.traj[Body])
                           THEN a.step[Body] + rest ELSE Len(a.traj[Body]) - 1
    BY <2>1, <2>2, <2>4
  <2> HIDE DEF newStep
  <2>6. ~b.raised => b.step = newStep /\ b.processed
    BY <2>3, <2>5, ShiftIs
  <2>7. newStep[Body] = Len(a.traj[Body]) - 1
    <3>1. a.step[Body] \in Int /\ Len(a.traj[Body]) \in Nat
      BY <2>1, <2>4
    <3>2. a.step[Body] + rest = Len(a.traj[Body]) - 1
      BY <2>2, <3>1
    <3>3. QED
      BY <2>5, <3>2
  <2>8. b.raised \/ Skipped(b, a)
    BY <1>2, <2>6, <2>7 DEF Skipped
  <2>9. QED
    BY <2>8 DEF b
<1>3. CASE b = a /\ ~(~a.processed /\ BodyAt(a, Len(a.traj[Body]) - 1) /\ nav.navigating)
  BY <1>3 DEF Untouched
<1>4. QED
  BY <1>1, <1>2, <1>3 DEF FollowNavigation

\* What the end of a trajectory does.
GoesOn(c, b) == c = b
RepeatsLast(c, b, e) ==
   /\ c.finished = b.finished \union {e} /\ c.subtask = b.subtask
   /\ Len(c.traj[e]) = Len(b.traj[e]) + 1
   /\ \A d \in Eefs : d # e => c.traj[d] = b.traj[d]
LeavesSubtask(c, b, e) ==
   /\ c.finished = b.finished /\ c.traj = b.traj /\ e \notin b.finished
   /\ \A d \in Eefs : d # e => c.subtask[d] = b.subtask[d]

LEMMA FinishOutcome ==
   ASSUME NEW b \in AtType, NEW e \in Eefs, ~b.raised, Bookkeeping(b)
   PROVE  LET c == FinishSubtask(b, e) IN
          /\ c.step = b.step /\ c.processed = b.processed
          /\ b.step[e] # Len(b.traj[e]) => GoesOn(c, b)
          /\ b.step[e] = Len(b.traj[e]) => RepeatsLast(c, b, e) \/ LeavesSubtask(c, b, e)
<1> DEFINE c == FinishSubtask(b, e)
<1>1. CASE b.step[e] # Len(b.traj[e])
  BY <1>1 DEF FinishSubtask, GoesOn
<1>2. CASE b.step[e] = Len(b.traj[e]) /\ b.subtask[e] = Subtasks[e] - 1
  <2> DEFINE longer == Append(b.traj[e], Last(b.traj[e]))
             b1 == [b EXCEPT !.finished = @ \union {e}]
             traj1 == [b.traj EXCEPT ![e] = longer]
  <2>1. b.traj[e] \in Seq(BOOLEAN) /\ b.traj \in [Eefs -> Seq(BOOLEAN)]
    BY DEF AtType
  <2>2. Len(longer) = Len(b.traj[e]) + 1
    BY <2>1, LenProperties
  <2>3. c = [b1 EXCEPT !.traj = traj1]
    BY <1>2 DEF FinishSubtask
  <2> HIDE DEF longer, c
  <2>4. /\ traj1[e] = longer
        /\ \A d \in Eefs : d # e => traj1[d] = b.traj[d]
    BY <2>1
  <2>5. /\ b1 \in AtType /\ b1.finished = b.finished \union {e} /\ b1.step = b.step
        /\ b1.subtask = b.subtask /\ b1.processed = b.processed
    BY DEF AtType
  <2> HIDE DEF b1, traj1
  <2>6. /\ c.finished = b1.finished /\ c.step = b1.step /\ c.subtask = b1.subtask
        /\ c.processed = b1.processed /\ c.traj = traj1
    BY <2>3, <2>5 DEF AtType
  <2>7. RepeatsLast(c, b, e)
    BY <2>2, <2>4, <2>5, <2>6 DEF RepeatsLast
  <2>8. QED
    BY <1>2, <2>5, <2>6, <2>7 DEF c
<1>3. CASE b.step[e] = Len(b.traj[e]) /\ b.subtask[e] # Subtasks[e] - 1
  <2> DEFINE b1 == [b EXCEPT !.none = @ \union {e}]
             subtask1 == [b.subtask EXCEPT ![e] = @ + 1]
  <2>1. c = [b1 EXCEPT !.subtask = subtask1]
    BY <1>3 DEF FinishSubtask
  <2> HIDE DEF c
  <2>2. \A d \in Eefs : d # e => subtask1[d] = b.subtask[d]
    BY DEF AtType
  <2>3. /\ b1 \in AtType /\ b1.finished = b.finished /\ b1.step = b.step
        /\ b1.traj = b.traj /\ b1.processed = b.processed
    BY DEF AtType
  <2> HIDE DEF b1, subtask1
  <2>4. /\ c.finished = b1.finished /\ c.step = b1.step /\ c.traj = b1.traj
        /\ c.processed = b1.processed /\ c.subtask = subtask1
    BY <2>1, <2>3 DEF AtType
  <2>5. e \notin b.finished
    BY <1>3 DEF Bookkeeping
  <2>6. LeavesSubtask(c, b, e)
    BY <2>2, <2>3, <2>4, <2>5 DEF LeavesSubtask
  <2>7. QED
    BY <1>3, <2>3, <2>4, <2>6 DEF c
<1>4. QED
  BY <1>1, <1>2, <1>3

\* The pass of the loop at the eef e, at place k of the order: what is known of the
\* bookkeeping before it (at), in between (a, b) and after it (at').
Pass(k, j, e, a, b) ==
   /\ phase = "generate" /\ turn = k /\ k \in 1 .. Len(EefOrder) /\ e = EefOrder[k]
   /\ e \in Eefs /\ j \in 1 .. Len(EefOrder) /\ EefOrder[j] = Body
   /\ UNCHANGED nav
   /\ a \in AtType /\ SameBooks(a, at) /\ a.processed = at.processed
   /\ \A d \in Eefs : a.step[d] = IF d = e THEN at.step[d] + 1 ELSE at.step[d]
   /\ b \in AtType /\ SameBooks(b, a)
   /\ Held(b, a) \/ Skipped(b, a) \/ Untouched(b, a)
   /\ at'.step = b.step /\ at'.processed = b.processed
   /\ b.step[e] # Len(b.traj[e]) => GoesOn(at', b)
   /\ b.step[e] = Len(b.traj[e]) => RepeatsLast(at', b, e) \/ LeavesSubtask(at', b, e)

LEMMA PassOrRaise ==
   ASSUME GenerationInv, AdvanceEef
   PROVE  \/ phase' = "raised" /\ at'.subtask = at.subtask
          \/ \E k, j \in DOMAIN EefOrder : \E e \in Eefs : \E a, b \in AtType : Pass(k, j, e, a, b)
<1> DEFINE k == turn
           e == EefOrder[k]
           a == [at EXCEPT !.step[e] = @ + 1]
           b == FollowNavigation(a)
<1>1. /\ phase = "generate" /\ k > 0 /\ k \in 0 .. Len(EefOrder)
      /\ at' = FinishSubtask(b, e) /\ UNCHANGED nav
      /\ at'.raised => phase' = "raised"
  BY DEF AdvanceEef, GenerationInv
<1>2. Bookkeeping(at) /\ at \in AtType /\ ~at.raised /\ NavInv
      /\ \A d \in Eefs : at.traj[d] # <<>>
  BY <1>1 DEF GenerationInv, Bookkeeping
<1>3. k \in 1 .. Len(EefOrder) /\ k \in DOMAIN EefOrder /\ e \in Eefs
  BY <1>1, OrderIs
<1>4. PICK j \in DOMAIN EefOrder : EefOrder[j] = Body
  BY GenerationAssumption, OrderIs
<1> HIDE DEF e
<1>5. /\ a \in AtType /\ SameBooks(a, at) /\ a.raised = at.raised /\ a.processed = at.processed
      /\ \A d \in Eefs : a.step[d] = IF d = e THEN at.step[d] + 1 ELSE at.step[d]
  <2> DEFINE step1 == [at.step EXCEPT ![e] = @ + 1]
  <2>1. at.step \in [Eefs -> Int]
    BY <1>2 DEF AtType
  <2>2. /\ step1 \in [Eefs -> Int]
        /\ \A d \in Eefs : step1[d] = IF d = e THEN at.step[d] + 1 ELSE at.step[d]
    BY <1>3, <2>1
  <2>3. a = [at EXCEPT !.step = step1]
    OBVIOUS
  <2> HIDE DEF step1, a
  <2>4. /\ a \in AtType /\ a.step = step1 /\ a.none = at.none /\ a.traj = at.traj
        /\ a.subtask = at.subtask /\ a.finished = at.finished
        /\ a.raised = at.raised /\ a.processed = at.processed
    BY <1>2, <2>2, <2>3 DEF AtType
  <2>5. QED
    BY <2>2, <2>4 DEF SameBooks
<1> HIDE DEF a
<1>6. MidRange(a, k)
  <2>1. StepsInRange(at, k)
    BY <1>1 DEF GenerationInv
  <2>2. QED
    BY <1>2, <1>3, <1>5, <2>1, AdvancedInRange DEF e
<1>7. \A d \in Eefs : a.traj[d] # <<>>
  BY <1>2, <1>5 DEF SameBooks
<1>8. /\ b \in AtType /\ SameBooks(b, a)
      /\ b.raised \/ Held(b, a) \/ Skipped(b, a) \/ Untouched(b, a)
  BY <1>2, <1>3, <1>5, <1>6, <1>7, FollowKeeps, FollowOutcome
<1> HIDE DEF b
<1>9. CASE b.raised
  <2>1. at' = b
    BY <1>1, <1>9 DEF FinishSubtask
  <2>2. QED
    BY <1>1, <1>5, <1>8, <1>9, <2>1 DEF SameBooks
<1>10. CASE ~b.raised
  <2>1. Bookkeeping(b)
    BY <1>2, <1>5, <1>8 DEF SameBooks, Bookkeeping
  <2>2. /\ at'.step = b.step /\ at'.processed = b.processed
        /\ b.step[e] # Len(b.traj[e]) => GoesOn(at', b)
        /\ b.step[e] = Len(b.traj[e]) => RepeatsLast(at', b, e) \/ LeavesSubtask(at', b, e)
    BY <1>1, <1>3, <1>8, <1>10, <2>1, FinishOutcome
  <2>3. Pass(k, j, e, a, b)
    BY <1>1, <1>3, <1>4, <1>5, <1>8, <1>10, <2>2, OrderIs DEF Pass, e
  <2>4. QED
    BY <1>3, <1>4, <1>5, <1>8, <2>3
<1>11. QED
  BY <1>9, <1>10

LEMMA PassFacts ==
   ASSUME GenerationInv, NEW k \in DOMAIN EefOrder, NEW j \in DOMAIN EefOrder,
          NEW e \in Eefs, NEW a \in AtType, NEW b \in AtType, Pass(k, j, e, a, b)
   PROVE  /\ k \in Int /\ j \in Int /\ k >= 1 /\ j >= 1 /\ Body \in Eefs
          /\ EefOrder[k] = e /\ EefOrder[j] = Body /\ (j = k <=> e = Body)
          /\ \A d \in Eefs : /\ at.step[d] \in Int /\ Len(at.traj[d]) \in Nat
                             /\ a.step[d] \in Int /\ b.step[d] \in Int
                             /\ at'.step[d] = b.step[d]
                             /\ a.traj[d] = at.traj[d] /\ b.traj[d] = at.traj[d]
          /\ \A i \in DOMAIN EefOrder :
                i >= k => EefOrder[i] \notin at.none
                          /\ at.step[EefOrder[i]] < Len(at.traj[EefOrder[i]])
          /\ b.finished = at.finished /\ b.subtask = at.subtask /\ a.none = at.none
<1>1. /\ phase = "generate" /\ turn = k /\ k \in 1 .. Len(EefOrder) /\ e = EefOrder[k]
      /\ j \in 1 .. Len(EefOrder) /\ EefOrder[j] = Body
      /\ SameBooks(a, at) /\ SameBooks(b, a) /\ at'.step = b.step
  BY DEF Pass
<1>2. at \in AtType /\ StepsInRange(at, k)
  BY <1>1 DEF GenerationInv, Bookkeeping
<1>3. k \in Int /\ j \in Int /\ k >= 1 /\ j >= 1 /\ Body \in Eefs /\ (j = k <=> e = Body)
  BY <1>1, OrderIs, GenerationAssumption
<1>4. ASSUME NEW d \in Eefs
      PROVE  /\ at.step[d] \in Int /\ Len(at.traj[d]) \in Nat
             /\ a.step[d] \in Int /\ b.step[d] \in Int
             /\ at'.step[d] = b.step[d]
             /\ a.traj[d] = at.traj[d] /\ b.traj[d] = at.traj[d]
  BY <1>1, <1>2, LengthIs DEF SameBooks
<1>5. ASSUME NEW i \in DOMAIN EefOrder, i >= k
      PROVE  EefOrder[i] \notin at.none /\ at.step[EefOrder[i]] < Len(at.traj[EefOrder[i]])
  <2> DEFINE d == EefOrder[i]
  <2>1. d \in Eefs /\ i \in Int
    BY OrderIs
  <2>2. d \notin at.none /\ at.step[d] \in Least(at, i, k) .. Len(at.traj[d]) - 1
    BY <1>2, <1>5 DEF StepsInRange, InRange
  <2>3. Least(at, i, k) \in Int /\ at.step[d] \in Int /\ Len(at.traj[d]) \in Nat
    BY <1>2, <1>3, <1>4, <2>1, LeastIs
  <2> HIDE DEF d
  <2>4. at.step[d] < Len(at.traj[d])
    BY <2>2, <2>3
  <2>5. QED
    BY <2>2, <2>4 DEF d
<1>6. b.finished = at.finished /\ b.subtask = at.subtask /\ a.none = at.none
  BY <1>1 DEF SameBooks
<1>7. QED
  BY <1>1, <1>3, <1>4, <1>5, <1>6

\* The order of the shipped configuration: the body is not the first eef.
BodyNotFirst == EefOrder[1] # Body

\* While the robot navigates, the body does not get to the end of its trajectory; a
\* body that has finished before holds back all the others with it.
LEMMA NoEndWhileNavigating ==
   ASSUME GenerationInv, HoldInv, BodyNotFirst, nav.navigating,
          NEW k \in DOMAIN EefOrder, NEW j \in DOMAIN EefOrder,
          NEW e \in Eefs, NEW a \in AtType, NEW b \in AtType, Pass(k, j, e, a, b),
          b.step[e] = Len(b.traj[e])
   PROVE  e # Body /\ Body \notin at.finished
<1>1. /\ k \in Int /\ j \in Int /\ k >= 1 /\ j >= 1 /\ Body \in Eefs
      /\ EefOrder[k] = e /\ EefOrder[j] = Body /\ (j = k <=> e = Body)
      /\ a.none = at.none
  BY PassFacts
<1>2. /\ phase = "generate" /\ turn = k /\ a.processed = at.processed
      /\ \A d \in Eefs : a.step[d] = IF d = e THEN at.step[d] + 1 ELSE at.step[d]
      /\ Held(b, a) \/ Skipped(b, a) \/ Untouched(b, a)
  BY DEF Pass
<1>3. \A d \in Eefs : /\ at.step[d] \in Int /\ Len(at.traj[d]) \in Nat
                      /\ a.traj[d] = at.traj[d] /\ b.traj[d] = at.traj[d]
  BY PassFacts
<1>4. at.step[e] < Len(at.traj[e])
  BY <1>1, PassFacts
<1>5. /\ a.step[e] = at.step[e] + 1 /\ at.step[e] \in Int /\ Len(at.traj[e]) \in Nat
      /\ b.traj[e] = at.traj[e]
  BY <1>2, <1>3
<1>6. CASE Held(b, a)
  <2>1. b.step[e] = a.step[e] - 1
    BY <1>6 DEF Held
  <2>2. QED
    BY <1>4, <1>5, <2>1
<1>7. CASE Skipped(b, a)
  BY <1>7 DEF Skipped
<1>8. CASE Untouched(b, a)
  <2>1. b.step[e] = at.step[e] + 1
    BY <1>5, <1>8 DEF Untouched
  <2>2. at.step[e] = Len(at.traj[e]) - 1
    BY <1>5, <2>1
  <2>3. ~at.processed
    <3> SUFFICES ASSUME at.processed
                 PROVE  FALSE
      OBVIOUS
    <3>1. k >= turn /\ turn > 0
      BY <1>1, <1>2
    <3>2. at.step[EefOrder[k]] < Len(at.traj[EefOrder[k]]) - 1
      BY <1>2, <3>1 DEF HoldInv
    <3>3. QED
      BY <1>1, <1>5, <2>2, <3>2
  <2>4. ~BodyAt(a, Len(at.traj[Body]) - 1)
    BY <1>1, <1>2, <1>3, <1>8, <2>3 DEF Untouched
  <2>5. CASE k > 1
    BY <1>1, <1>2, <2>2, <2>3, <2>5 DEF HoldInv
  <2>6. CASE k = 1
    <3>1. e # Body
      BY <1>1, <2>6 DEF BodyNotFirst
    <3>2. Body \notin a.none
      BY <1>1, <2>6, PassFacts
    <3>3. a.step[Body] = at.step[Body]
      BY <1>1, <1>2, <3>1
    <3>4. at.step[Body] # Len(at.traj[Body]) - 1
      BY <2>4, <3>2, <3>3 DEF BodyAt
    <3>5. ASSUME Body \in at.finished
          PROVE  FALSE
      <4>1. FinishedBodyAt(at, j, turn)
        BY <1>1, <1>2, <3>5 DEF HoldInv
      <4>2. Len(at.traj[Body]) = at.step[Body] + 1
        BY <2>3, <4>1 DEF FinishedBodyAt
      <4>3. at.step[Body] \in Int
        BY <1>1, <1>3
      <4>4. QED
        BY <3>4, <4>2, <4>3
    <3>6. QED
      BY <3>1, <3>5
  <2>7. QED
    BY <1>1, <2>5, <2>6
<1>9. QED
  BY <1>2, <1>6, <1>7, <1>8

\* After its own pass, a finished body is at its last waypoint.
LEMMA FinishedBodyAdvanced ==
   ASSUME GenerationInv, HoldInv, BodyNotFirst,
          NEW k \in DOMAIN EefOrder, NEW j \in DOMAIN EefOrder,
          NEW e \in Eefs, NEW a \in AtType, NEW b \in AtType, Pass(k, j, e, a, b),
          Body \in at'.finished, j <= k
   PROVE  Len(at'.traj[Body]) = at'.step[Body] + 1
<1>1. /\ k \in Int /\ j \in Int /\ k >= 1 /\ j >= 1 /\ Body \in Eefs
      /\ EefOrder[k] = e /\ EefOrder[j] = Body /\ (j = k <=> e = Body)
      /\ b.finished = at.finished
  BY PassFacts
<1>2. /\ phase = "generate" /\ turn = k /\ a.processed = at.processed
      /\ \A d \in Eefs : a.step[d] = IF d = e THEN at.step[d] + 1 ELSE at.step[d]
      /\ Held(b, a) \/ Skipped(b, a) \/ Untouched(b, a)
      /\ b.step[e] # Len(b.traj[e]) => GoesOn(at', b)
      /\ b.step[e] = Len(b.traj[e]) => RepeatsLast(at', b, e) \/ LeavesSubtask(at', b, e)
  BY DEF Pass
<1>3. /\ at.step[Body] \in Int /\ Len(at.traj[Body]) \in Nat
      /\ a.traj[Body] = at.traj[Body] /\ b.traj[Body] = at.traj[Body]
      /\ at'.step[Body] = b.step[Body] /\ b.step[Body] \in Int
  BY <1>1, PassFacts
<1>4. Skipped(b, a) => b.step[Body] = Len(at.traj[Body]) - 1
  BY <1>3 DEF Skipped
<1>5. Body \in at.finished =>
         Len(at.traj[Body]) = at.step[Body] + (IF j >= k /\ at.processed THEN 2 ELSE 1)
  BY <1>1, <1>2 DEF HoldInv, FinishedBodyAt
<1>6. CASE e = Body
  <2>1. CASE b.step[Body] = Len(b.traj[Body])
    <3>1. RepeatsLast(at', b, Body) \/ LeavesSubtask(at', b, Body)
      BY <1>2, <1>6, <2>1
    <3>2. Len(at'.traj[Body]) = Len(b.traj[Body]) + 1
      BY <3>1 DEF RepeatsLast, LeavesSubtask
    <3>3. QED
      BY <1>3, <2>1, <3>2
  <2>2. CASE b.step[Body] # Len(b.traj[Body])
    <3>1. at' = b
      BY <1>2, <1>6, <2>2 DEF GoesOn
    <3>2. Body \in at.finished
      BY <1>1, <3>1
    <3>3. j >= k /\ a.step[Body] = at.step[Body] + 1
      BY <1>1, <1>2, <1>6
    <3>4. b.step[Body] = Len(at.traj[Body]) - 1
      <4>1. CASE at.processed
        <5>1. Untouched(b, a)
          BY <1>2, <4>1 DEF Held, Skipped
        <5>2. b.step[Body] = at.step[Body] + 1
          BY <3>3, <5>1 DEF Untouched
        <5>3. Len(at.traj[Body]) = at.step[Body] + 2
          BY <1>5, <3>2, <3>3, <4>1
        <5>4. QED
          BY <1>3, <5>2, <5>3
      <4>2. CASE ~at.processed
        <5>1. Len(at.traj[Body]) = at.step[Body] + 1
          BY <1>5, <3>2, <4>2
        <5>2. a.step[Body] # Len(a.traj[Body]) - 1
          BY <1>3, <3>3, <5>1
        <5>3. ~Held(b, a)
          BY <5>2 DEF Held, BodyAt
        <5>4. Untouched(b, a) => b.step[Body] = Len(b.traj[Body])
          BY <1>3, <3>3, <5>1 DEF Untouched
        <5>5. QED
          BY <1>2, <1>4, <2>2, <5>3, <5>4
      <4>3. QED
        BY <4>1, <4>2
    <3>5. QED
      BY <1>3, <3>1, <3>4
  <2>3. QED
    BY <2>1, <2>2
<1>7. CASE e # Body
  <2>1. at'.traj[Body] = at.traj[Body] /\ (Body \in at'.finished => Body \in at.finished)
    <3>1. CASE b.step[e] = Len(b.traj[e])
      BY <1>1, <1>2, <1>3, <1>7, <3>1 DEF RepeatsLast, LeavesSubtask
    <3>2. CASE b.step[e] # Len(b.traj[e])
      BY <1>1, <1>2, <1>3, <3>2 DEF GoesOn
    <3>3. QED
      BY <3>1, <3>2
  <2>2. Body \in at.finished
    BY <2>1
  <2>3. j < k /\ k > 1
    BY <1>1, <1>7
  <2>4. a.step[Body] = at.step[Body]
    BY <1>1, <1>2, <1>7
  <2>5. Len(at.traj[Body]) = at.step[Body] + 1
    BY <1>1, <1>5, <2>2, <2>3
  <2>6. b.step[Body] = Len(at.traj[Body]) - 1
    <3>1. ~Held(b, a)
      BY <1>2, <2>2, <2>3 DEF Held, HoldInv
    <3>2. CASE Untouched(b, a)
      BY <1>3, <2>4, <2>5, <3>2 DEF Untouched
    <3>3. QED
      BY <1>2, <1>4, <3>1, <3>2
  <2>7. QED
    BY <1>3, <2>1, <2>6
<1>8. QED
  BY <1>6, <1>7

\* Before it, it is at its last waypoint as well, or one before when held.
LEMMA FinishedBodyAhead ==
   ASSUME GenerationInv, HoldInv, BodyNotFirst,
          NEW k \in DOMAIN EefOrder, NEW j \in DOMAIN EefOrder,
          NEW e \in Eefs, NEW a \in AtType, NEW b \in AtType, Pass(k, j, e, a, b),
          Body \in at'.finished, j > k
   PROVE  Len(at'.traj[Body]) = at'.step[Body] + (IF at'.processed THEN 2 ELSE 1)
<1>1. /\ k \in Int /\ j \in Int /\ k >= 1 /\ j >= 1 /\ Body \in Eefs
      /\ EefOrder[k] = e /\ EefOrder[j] = Body /\ (j = k <=> e = Body)
      /\ b.finished = at.finished /\ a.none = at.none
  BY PassFacts
<1>2. /\ phase = "generate" /\ turn = k /\ a.processed = at.processed
      /\ at'.processed = b.processed
      /\ \A d \in Eefs : a.step[d] = IF d = e THEN at.step[d] + 1 ELSE at.step[d]
      /\ Held(b, a) \/ Skipped(b, a) \/ Untouched(b, a)
      /\ b.step[e] # Len(b.traj[e]) => GoesOn(at', b)
      /\ b.step[e] = Len(b.traj[e]) => RepeatsLast(at', b, e) \/ LeavesSubtask(at', b, e)
  BY DEF Pass
<1>3. /\ at.step[Body] \in Int /\ Len(at.traj[Body]) \in Nat
      /\ a.traj[Body] = at.traj[Body] /\ b.traj[Body] = at.traj[Body]
      /\ at'.step[Body] = b.step[Body] /\ b.step[Body] \in Int
  BY <1>1, PassFacts
<1>4. e # Body /\ j >= k /\ Body \notin a.none
  BY <1>1, PassFacts
<1>5. at'.traj[Body] = at.traj[Body] /\ (Body \in at'.finished => Body \in at.finished)
  <2>1. CASE b.step[e] = Len(b.traj[e])
    BY <1>1, <1>2, <1>3, <1>4, <2>1 DEF RepeatsLast, LeavesSubtask
  <2>2. CASE b.step[e] # Len(b.traj[e])
    BY <1>1, <1>2, <1>3, <2>2 DEF GoesOn
  <2>3. QED
    BY <2>1, <2>2
<1>6. Len(at.traj[Body]) = at.step[Body] + (IF at.processed THEN 2 ELSE 1)
  BY <1>1, <1>2, <1>4, <1>5 DEF HoldInv, FinishedBodyAt
<1>7. a.step[Body] = at.step[Body]
  BY <1>1, <1>2, <1>4
<1>8. CASE Held(b, a)
  <2>1. ~at.processed /\ b.processed /\ b.step[Body] = a.step[Body] - 1
    BY <1>1, <1>2, <1>8 DEF Held
  <2>2. Len(at.traj[Body]) = at.step[Body] + 1
    BY <1>6, <2>1
  <2>3. Len(at'.traj[Body]) = at'.step[Body] + 2
    BY <1>3, <1>5, <1>7, <2>1, <2>2
  <2>4. QED
    BY <1>2, <2>1, <2>3
<1>9. CASE Untouched(b, a)
  BY <1>2, <1>3, <1>5, <1>6, <1>7, <1>9 DEF Untouched
<1>10. CASE Skipped(b, a)
  <2>1. ~at.processed /\ b.processed
    BY <1>2, <1>10 DEF Skipped
  <2>2. Len(at.traj[Body]) = at.step[Body] + 1
    BY <1>6, <2>1
  <2>3. a.step[Body] # Len(a.traj[Body]) - 1
    BY <1>4, <1>10 DEF Skipped, BodyAt
  <2>4. QED
    BY <1>3, <1>7, <2>2, <2>3
<1>11. QED
  BY <1>2, <1>8, <1>9, <1>10

LEMMA NotFinishedWhileNavigating ==
   ASSUME GenerationInv, HoldInv, BodyNotFirst, nav.navigating,
          NEW k \in DOMAIN EefOrder, NEW j \in DOMAIN EefOrder,
          NEW e \in Eefs, NEW a \in AtType, NEW b \in AtType, Pass(k, j, e, a, b)
   PROVE  /\ at'.finished # Eefs /\ at'.subtask[Body] = at.subtask[Body]
          /\ Body \in at'.finished => Body \in at.finished
<1>1. /\ Body \in Eefs /\ b.finished = at.finished /\ b.subtask = at.subtask
  BY PassFacts
<1>2. /\ phase = "generate"
      /\ b.step[e] # Len(b.traj[e]) => GoesOn(at', b)
      /\ b.step[e] = Len(b.traj[e]) => RepeatsLast(at', b, e) \/ LeavesSubtask(at', b, e)
  BY DEF Pass
<1>3. at.finished # Eefs
  BY <1>2 DEF HoldInv
<1>4. CASE b.step[e] # Len(b.traj[e])
  BY <1>1, <1>2, <1>3, <1>4 DEF GoesOn
<1>5. CASE b.step[e] = Len(b.traj[e])
  <2>1. e # Body /\ Body \notin at.finished
    BY <1>5, NoEndWhileNavigating
  <2>2. Body \notin at'.finished /\ at'.subtask[Body] = at.subtask[Body]
    BY <1>1, <1>2, <1>5, <2>1 DEF RepeatsLast, LeavesSubtask
  <2>3. QED
    BY <1>1, <2>2
<1>6. QED
  BY <1>4, <1>5

LEMMA PassHolds ==
   ASSUME GenerationInv, HoldInv, BodyNotFirst, AdvanceEef, phase' # "raised",
          NEW k \in DOMAIN EefOrder, NEW j \in DOMAIN EefOrder,
          NEW e \in Eefs, NEW a \in AtType, NEW b \in AtType, Pass(k, j, e, a, b)
   PROVE  HoldInv'
<1>1. /\ k \in Int /\ j \in Int /\ k >= 1 /\ j >= 1 /\ Body \in Eefs
      /\ EefOrder[k] = e /\ EefOrder[j] = Body /\ (j = k <=> e = Body)
      /\ b.finished = at.finished /\ a.none = at.none
  BY PassFacts
<1>2. /\ phase = "generate" /\ turn = k /\ nav' = nav /\ k \in 1 .. Len(EefOrder)
      /\ j \in 1 .. Len(EefOrder)
      /\ a.processed = at.processed /\ at'.processed = b.processed
      /\ \A d \in Eefs : a.step[d] = IF d = e THEN at.step[d] + 1 ELSE at.step[d]
      /\ Held(b, a) \/ Skipped(b, a) \/ Untouched(b, a)
      /\ b.step[e] # Len(b.traj[e]) => GoesOn(at', b)
      /\ b.step[e] = Len(b.traj[e]) => RepeatsLast(at', b, e) \/ LeavesSubtask(at', b, e)
  BY DEF Pass
<1>3. turn' = IF k = Len(EefOrder) THEN 0 ELSE k + 1
  <2>1. turn' = (turn + 1) % (Len(EefOrder) + 1)
    BY DEF AdvanceEef
  <2>2. Len(EefOrder) \in Nat /\ k \in 1 .. Len(EefOrder) /\ turn = k
    BY <1>2, OrderIs
  <2>3. QED
    BY <2>1, <2>2
<1>4. \A d \in Eefs : /\ at.step[d] \in Int /\ Len(at.traj[d]) \in Nat
                      /\ a.step[d] \in Int /\ b.step[d] \in Int
                      /\ at'.step[d] = b.step[d]
                      /\ a.traj[d] = at.traj[d] /\ b.traj[d] = at.traj[d]
  BY PassFacts
<1>5. \A i \in DOMAIN EefOrder :
         EefOrder[i] \in Eefs /\ i \in Int /\ (EefOrder[i] = e => i = k)
         /\ (EefOrder[i] = Body => i = j)
  BY <1>1, <1>2, OrderIs
<1>6. \A d \in Eefs : d # e => at'.traj[d] = at.traj[d]
  <2>1. CASE b.step[e] = Len(b.traj[e])
    BY <1>2, <1>4, <2>1 DEF RepeatsLast, LeavesSubtask
  <2>2. CASE b.step[e] # Len(b.traj[e])
    BY <1>2, <1>4, <2>2 DEF GoesOn
  <2>3. QED
    BY <2>1, <2>2
<1>7. phase' = "generate" /\ turn' = 0 => at'.finished # Eefs
  BY DEF AdvanceEef
<1>8. nav'.navigating => at'.finished # Eefs
  BY <1>2, NotFinishedWhileNavigating
<1>9. turn' = 0 /\ Body \in at'.finished => at'.step[Body] = Len(at'.traj[Body]) - 1
  <2> SUFFICES ASSUME turn' = 0, Body \in at'.finished
               PROVE  at'.step[Body] = Len(at'.traj[Body]) - 1
    OBVIOUS
  <2>1. j <= k
    BY <1>2, <1>3, OrderIs
  <2>2. Len(at'.traj[Body]) = at'.step[Body] + 1
    BY <2>1, FinishedBodyAdvanced
  <2>3. at'.step[Body] \in Int
    BY <1>1, <1>4
  <2>4. QED
    BY <2>2, <2>3
<1>10. ASSUME turn' > 0, Body \in at'.finished
       PROVE  FinishedBodyAt(at', j, turn')
  <2>1. turn' = k + 1
    BY <1>3, <1>10
  <2>2. CASE j <= k
    <3>1. Len(at'.traj[Body]) = at'.step[Body] + 1
      BY <1>10, <2>2, FinishedBodyAdvanced
    <3>2. ~(j >= turn')
      BY <1>1, <2>1, <2>2
    <3>3. QED
      BY <3>1, <3>2 DEF FinishedBodyAt
  <2>3. CASE j > k
    <3>1. Len(at'.traj[Body]) = at'.step[Body] + (IF at'.processed THEN 2 ELSE 1)
      BY <1>10, <2>3, FinishedBodyAhead
    <3>2. j >= turn'
      BY <1>1, <2>1, <2>3
    <3>3. QED
      BY <3>1, <3>2 DEF FinishedBodyAt
  <2>4. QED
    BY <1>1, <2>2, <2>3
<1>11. ASSUME turn' > 1, nav'.navigating, ~at'.processed
       PROVE  /\ Body \notin at'.finished
              /\ EefOrder[turn'] = Body => at'.step[Body] # Len(at'.traj[Body]) - 1
  <2>1. turn' = k + 1 /\ nav.navigating /\ ~b.processed /\ turn' \in DOMAIN EefOrder
    BY <1>2, <1>3, <1>11, OrderIs
  <2>2. Untouched(b, a) /\ ~at.processed
    BY <1>2, <2>1 DEF Held, Skipped, Untouched
  <2>3. ~BodyAt(a, Len(at.traj[Body]) - 1)
    BY <1>1, <1>2, <1>4, <2>1, <2>2 DEF Untouched
  <2>4. j >= k => Body \notin a.none
    BY <1>1, PassFacts
  <2>5. Body \notin at.finished
    <3>1. CASE k > 1
      BY <1>2, <2>1, <2>2, <3>1 DEF HoldInv
    <3>2. CASE k = 1
      <4>1. e # Body /\ j >= k
        BY <1>1, <3>2 DEF BodyNotFirst
      <4>2. a.step[Body] = at.step[Body]
        BY <1>1, <1>2, <4>1
      <4>3. at.step[Body] # Len(at.traj[Body]) - 1
        BY <2>3, <2>4, <4>1, <4>2 DEF BodyAt
      <4>4. ASSUME Body \in at.finished
            PROVE  FALSE
        <5>1. FinishedBodyAt(at, j, turn)
          BY <1>1, <1>2, <4>4 DEF HoldInv
        <5>2. Len(at.traj[Body]) = at.step[Body] + 1
          BY <2>2, <5>1 DEF FinishedBodyAt
        <5>3. at.step[Body] \in Int
          BY <1>1, <1>4
        <5>4. QED
          BY <4>3, <5>2, <5>3
      <4>5. QED
        BY <4>4
    <3>3. QED
      BY <1>1, <3>1, <3>2
  <2>6. Body \notin at'.finished
    BY <2>1, <2>5, NotFinishedWhileNavigating
  <2>7. ASSUME EefOrder[turn'] = Body
        PROVE  at'.step[Body] # Len(at'.traj[Body]) - 1
    <3>1. j = k + 1
      BY <1>5, <2>1, <2>7
    <3>2. e # Body /\ j >= k
      BY <1>1, <3>1
    <3>3. a.step[Body] = at.step[Body] /\ at'.traj[Body] = at.traj[Body]
      BY <1>1, <1>2, <1>6, <3>2
    <3>4. at'.step[Body] = at.step[Body]
      BY <1>1, <1>4, <2>2, <3>3 DEF Untouched
    <3>5. at.step[Body] # Len(at.traj[Body]) - 1
      BY <2>3, <2>4, <3>2, <3>3 DEF BodyAt
    <3>6. QED
      BY <3>3, <3>4, <3>5
  <2>8. QED
    BY <2>6, <2>7
<1>12. ASSUME turn' > 0, nav'.navigating, at'.processed, NEW i \in DOMAIN EefOrder, i >= turn'
       PROVE  at'.step[EefOrder[i]] < Len(at'.traj[EefOrder[i]]) - 1
  <2> DEFINE d == EefOrder[i]
  <2>1. turn' = k + 1 /\ nav.navigating /\ b.processed
    BY <1>2, <1>3, <1>12
  <2>2. i >= k /\ d # e /\ d \in Eefs
    BY <1>1, <1>5, <1>12, <2>1
  <2>3. at.step[d] < Len(at.traj[d])
    BY <2>2, PassFacts
  <2>4. a.step[d] = at.step[d] /\ at'.traj[d] = at.traj[d] /\ at'.step[d] = b.step[d]
    BY <1>2, <1>4, <1>6, <2>2
  <2>5. at.step[d] \in Int /\ Len(at.traj[d]) \in Nat
    BY <1>4, <2>2
  <2>6. CASE Held(b, a)
    <3>1. b.step[d] = a.step[d] - 1
      BY <2>2, <2>6 DEF Held
    <3> HIDE DEF d
    <3>2. at'.step[d] < Len(at'.traj[d]) - 1
      BY <2>3, <2>4, <2>5, <3>1
    <3>3. QED
      BY <3>2 DEF d
  <2>7. CASE Untouched(b, a)
    <3>1. at.processed /\ b.step[d] = a.step[d]
      BY <1>2, <2>1, <2>7 DEF Untouched
    <3>2. turn > 0 /\ i >= turn
      BY <1>1, <1>2, <2>2
    <3>3. at.step[d] < Len(at.traj[d]) - 1
      BY <1>2, <2>1, <3>1, <3>2 DEF HoldInv
    <3>4. QED
      BY <2>4, <3>1, <3>3
  <2>8. QED
    BY <1>2, <2>1, <2>6, <2>7 DEF Skipped
<1>13. \A i \in DOMAIN EefOrder : EefOrder[i] = Body => i = j
  BY <1>5
<1>14. Body \in at'.finished /\ turn' > 0 =>
          \A i \in DOMAIN EefOrder : EefOrder[i] = Body => FinishedBodyAt(at', i, turn')
  BY <1>10, <1>13
<1>15. QED
  BY <1>7, <1>8, <1>9, <1>11, <1>12, <1>14 DEF HoldInv, FinishedBodyAt

LEMMA OthersHold ==
   ASSUME GenerationInv, HoldInv,
          StartGeneration \/ GenerateTrajectory \/ ExecuteWaypoints
   PROVE  HoldInv'
<1>1. CASE StartGeneration
  <2>1. /\ at' = StartOfGeneration /\ turn' = turn /\ phase = "reset" /\ phase' = "generate"
        /\ nav' = [nav EXCEPT !.navigating = FALSE, !.goalReached = FALSE, !.subgoals = 0]
    BY <1>1 DEF StartGeneration, ResetPinkPolicy
  <2>2. turn' = 0 /\ at'.finished = {}
    BY <2>1, StartIs DEF GenerationInv
  <2>3. Eefs # {}
    BY GenerationAssumption
  <2>4. ~(turn' > 0) /\ ~(turn' > 1)
    BY <2>2
  <2>5. QED
    BY <2>2, <2>3, <2>4 DEF HoldInv
<1>2. CASE GenerateTrajectory
  <2>1. PICK i \in DOMAIN EefOrder :
           /\ EefOrder[i] \in at.none
           /\ \E t \in Trajectories[EefOrder[i]] :
                 at' = [at EXCEPT !.none = @ \ {EefOrder[i]}, !.traj[EefOrder[i]] = t,
                                  !.step[EefOrder[i]] = 0]
    BY <1>2 DEF GenerateTrajectory
  <2> DEFINE e == EefOrder[i]
  <2>2. PICK t \in Trajectories[e] :
           at' = [at EXCEPT !.none = @ \ {e}, !.traj[e] = t, !.step[e] = 0]
    BY <2>1
  <2>3. e \in Eefs /\ e \in at.none /\ Body \in Eefs
    BY <2>1, OrderIs, GenerationAssumption
  <2> HIDE DEF e
  <2>4. phase = "generate" /\ turn = 0 /\ UNCHANGED <<nav, phase, attempt, turn, was>>
    BY <1>2 DEF GenerateTrajectory
  <2>5. Bookkeeping(at) /\ at \in AtType
    BY DEF GenerationInv, Bookkeeping
  <2>6. /\ at'.finished = at.finished
        /\ Body # e => at'.traj[Body] = at.traj[Body] /\ at'.step[Body] = at.step[Body]
    <3> DEFINE a1 == [at EXCEPT !.none = @ \ {e}]
               traj1 == [at.traj EXCEPT ![e] = t]
               a2 == [a1 EXCEPT !.traj = traj1]
               step1 == [at.step EXCEPT ![e] = 0]
    <3>1. at.traj \in [Eefs -> Seq(BOOLEAN)] /\ at.step \in [Eefs -> Int]
      BY <2>5 DEF AtType
    <3>2. Body # e => traj1[Body] = at.traj[Body] /\ step1[Body] = at.step[Body]
      BY <2>3, <3>1
    <3>3. a1 \in AtType /\ a1.finished = at.finished /\ a1.traj = at.traj /\ a1.step = at.step
      BY <2>5 DEF AtType
    <3>4. at' = [[a1 EXCEPT !.traj[e] = t] EXCEPT !.step[e] = 0]
      BY <2>2
    <3> HIDE DEF a1
    <3>5. at' = [a2 EXCEPT !.step[e] = 0]
      BY <3>3, <3>4
    <3> HIDE DEF traj1
    <3>6. DOMAIN a2 = DOMAIN a1 /\ a2.finished = at.finished /\ a2.traj = traj1 /\ a2.step = at.step
      BY <3>3 DEF AtType
    <3>7. at' = [a2 EXCEPT !.step = step1]
      BY <3>5, <3>6
    <3> HIDE DEF a2, step1
    <3>8. "step" \in DOMAIN a2 /\ "finished" \in DOMAIN a2 /\ "traj" \in DOMAIN a2
      BY <3>3, <3>6 DEF AtType
    <3>9. at'.finished = a2.finished /\ at'.traj = a2.traj /\ at'.step = step1
      BY <3>7, <3>8
    <3>10. QED
      BY <3>2, <3>6, <3>9
  <2>7. Body \in at.finished => Body # e
    BY <2>3, <2>5 DEF Bookkeeping
  <2>8. ~(turn' > 0) /\ ~(turn' > 1)
    BY <2>4
  <2>9. QED
    BY <2>4, <2>6, <2>7, <2>8 DEF HoldInv
<1>3. CASE ExecuteWaypoints
  <2>1. /\ phase = "generate" /\ turn = 0 /\ turn' = 1 /\ phase' = phase
        /\ at' = [at EXCEPT !.processed = FALSE]
    BY <1>3 DEF ExecuteWaypoints
  <2>2. at \in AtType
    BY DEF GenerationInv, Bookkeeping
  <2>3. /\ at'.finished = at.finished /\ at'.traj = at.traj /\ at'.step = at.step
        /\ ~at'.processed
    BY <2>1, <2>2 DEF AtType
  <2>4. at.finished # Eefs
    BY <2>1 DEF HoldInv
  <2>5. ~(turn' > 1) /\ ~(turn' = 0)
    BY <2>1
  <2>6. ASSUME Body \in at'.finished
        PROVE  Len(at'.traj[Body]) = at'.step[Body] + 1
    <3>1. at.step[Body] = Len(at.traj[Body]) - 1
      BY <2>1, <2>3, <2>6 DEF HoldInv
    <3>2. Len(at.traj[Body]) \in Nat
      BY <2>2, LengthIs, GenerationAssumption
    <3>3. QED
      BY <2>3, <3>1, <3>2
  <2>7. Body \in at'.finished => \A j \in DOMAIN EefOrder : FinishedBodyAt(at', j, turn')
    BY <2>3, <2>6 DEF FinishedBodyAt
  <2>8. QED
    BY <2>3, <2>4, <2>5, <2>7 DEF HoldInv, FinishedBodyAt
<1>4. QED
  BY <1>1, <1>2, <1>3

LEMMA AdvanceHolds ==
   ASSUME GenerationInv, HoldInv, BodyNotFirst, AdvanceEef
   PROVE  /\ HoldInv'
          /\ nav'.navigating =>
                at'.subtask[Body] = at.subtask[Body] /\ phase' # "reset"
<1>1. nav' = nav /\ (phase' = "reset" => at'.finished = Eefs)
  BY DEF AdvanceEef
<1>2. CASE phase' = "raised" /\ at'.subtask = at.subtask
  BY <1>2 DEF HoldInv
<1>3. ASSUME \E k, j \in DOMAIN EefOrder : \E e \in Eefs : \E a, b \in AtType : Pass(k, j, e, a, b)
      PROVE  /\ HoldInv'
             /\ nav'.navigating => at'.subtask[Body] = at.subtask[Body] /\ phase' # "reset"
  <2>1. PICK k, j \in DOMAIN EefOrder :
           \E e \in Eefs : \E a, b \in AtType : Pass(k, j, e, a, b)
    BY <1>3
  <2>2. PICK e \in Eefs : \E a, b \in AtType : Pass(k, j, e, a, b)
    BY <2>1
  <2>3. PICK a, b \in AtType : Pass(k, j, e, a, b)
    BY <2>2
  <2>4. phase' = "raised" => HoldInv'
    BY DEF HoldInv
  <2>5. phase' # "raised" => HoldInv'
    BY <2>3, PassHolds
  <2>6. nav.navigating => at'.finished # Eefs /\ at'.subtask[Body] = at.subtask[Body]
    BY <2>3, NotFinishedWhileNavigating
  <2>7. HoldInv'
    BY <2>4, <2>5
  <2>8. QED
    BY <1>1, <2>6, <2>7
<1>4. QED
  BY <1>2, <1>3, PassOrRaise

\* The body's subtask is not left, nor the episode ended, while the robot is still
\* navigating (locomanip_mimic_patch.py:343-351), as long as the body is not the
\* first eef of the order: a first eef is advanced before the navigation is handled.
THEOREM BodyWaits ==
   ASSUME BodyNotFirst
   PROVE  GenerationSpec => BodyWaitsForNavigation
<1> DEFINE Waits == (\/ at'.subtask[Body] > at.subtask[Body]
                     \/ phase = "generate" /\ phase' = "reset") => ~nav'.navigating
<1>1. GenerationInit => HoldInv
  <2> SUFFICES ASSUME GenerationInit
               PROVE  HoldInv
    OBVIOUS
  <2>1. phase # "generate"
    BY DEF GenerationInit
  <2>2. QED
    BY <2>1 DEF HoldInv
<1>2. GenerationInv /\ HoldInv /\ [GenerationNext]_generationVars
         => HoldInv' /\ [Waits]_generationVars
  <2> SUFFICES ASSUME GenerationInv, HoldInv, [GenerationNext]_generationVars
               PROVE  HoldInv' /\ [Waits]_generationVars
    OBVIOUS
  <2>1. Body \in Eefs /\ at.subtask[Body] \in Nat
    BY GenerationAssumption, LengthIs DEF GenerationInv, Bookkeeping
  <2>2. CASE StartGeneration
    <3>1. HoldInv'
      BY <2>2, OthersHold
    <3>2. at'.subtask[Body] = 0 /\ phase' = "generate"
      BY <2>1, <2>2 DEF StartGeneration, StartOfGeneration
    <3>3. ~(at'.subtask[Body] > at.subtask[Body])
      BY <2>1, <3>2
    <3>4. QED
      BY <3>1, <3>2, <3>3
  <2>3. CASE GenerateTrajectory
    <3>1. HoldInv'
      BY <2>3, OthersHold
    <3>2. phase' = phase /\ at'.subtask = at.subtask
      BY <2>3 DEF GenerateTrajectory, GenerationInv, Bookkeeping, AtType
    <3>3. ~(at'.subtask[Body] > at.subtask[Body])
      BY <2>1, <3>2
    <3>4. ~(phase = "generate" /\ phase' = "reset")
      BY <3>2
    <3>5. QED
      BY <3>1, <3>3, <3>4
  <2>4. CASE ExecuteWaypoints
    <3>1. HoldInv'
      BY <2>4, OthersHold
    <3>2. phase' = phase /\ at'.subtask = at.subtask
      BY <2>4 DEF ExecuteWaypoints, GenerationInv, Bookkeeping, AtType
    <3>3. ~(at'.subtask[Body] > at.subtask[Body])
      BY <2>1, <3>2
    <3>4. ~(phase = "generate" /\ phase' = "reset")
      BY <3>2
    <3>5. QED
      BY <3>1, <3>3, <3>4
  <2>5. CASE AdvanceEef
    <3>1. /\ HoldInv'
          /\ nav'.navigating => at'.subtask[Body] = at.subtask[Body] /\ phase' # "reset"
      BY <2>5, AdvanceHolds
    <3>2. at'.subtask[Body] = at.subtask[Body] => ~(at'.subtask[Body] > at.subtask[Body])
      BY <2>1
    <3>3. QED
      BY <3>1, <3>2
  <2>6. CASE UNCHANGED generationVars
    <3>1. HoldInv'
      BY <2>6 DEF generationVars, HoldInv, FinishedBodyAt
    <3>2. QED
      BY <2>6, <3>1
  <2>7. QED
    BY <2>2, <2>3, <2>4, <2>5, <2>6 DEF GenerationNext, Iterate
<1>3. QED
  BY <1>1, <1>2, GenerationInvariant, PTL DEF GenerationSpec, BodyWaitsForNavigation
=============================================================================

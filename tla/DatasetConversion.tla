-------------------------- MODULE DatasetConversion --------------------------
(***************************************************************************)
(* Converting recorded demonstrations to a LeRobot dataset                 *)
(* (convert_hdf5_to_lerobot.py).  The main process converts one trajectory *)
(* after another to a table and hands the frames of each of its cameras,   *)
(* through a bounded queue, to worker processes that encode the videos; a  *)
(* worker reports errors through a second queue.  At the end the main      *)
(* process reads the reported errors, stops the workers, waits for them    *)
(* and describes the dataset in info.json.                                 *)
(*                                                                         *)
(* A multiprocessing queue hands what is put to a feeder thread, which     *)
(* writes it to a pipe of limited size; a process ends only when its       *)
(* feeder threads have written everything.  For the error queue this is    *)
(* modelled: "unsent" is what the feeder still holds, "pipe" what arrived. *)
(***************************************************************************)
EXTENDS Naturals, SequencesExt

CONSTANTS
    Workers,         \* the worker processes
    Episodes,        \* number of trajectories in the file
    Recorded,        \* the numbers of recorded steps a trajectory can have
    Cameras,         \* number of cameras converted
    QueueSize,       \* max_queue_size
    PipeCapacity     \* bound: error messages the pipe of error_queue can hold

Videos == (1 .. Episodes) \X (1 .. Cameras)

\* The None in the queue that tells a worker to end.
Stop == <<0, 0>>

ASSUME ConversionAssumption ==
    /\ IsFiniteSet(Workers) /\ Workers # {}
    /\ Episodes \in Nat /\ Cameras \in Nat \ {0}
    /\ Recorded \subseteq Nat \ {0}
    /\ QueueSize \in Nat \ {0} /\ PipeCapacity \in Nat \ {0}

VARIABLES
    main,        \* where the main process is
    episode,     \* episode_index + 1
    camera,      \* the camera whose frames come next
    totalLength, \* total_length
    stored,      \* the tables written: which frames, and the first one's index
    queue,       \* jobs and Stops on their way to the workers
    worker,      \* what each worker does
    job,         \* the video it has taken
    video,       \* what became of each video
    unsent,      \* error messages in each worker's feeder
    pipe,        \* error messages in the pipe
    left         \* Stops to be sent, then workers to be joined

vars == <<main, episode, camera, totalLength, stored, queue, worker, job, video, unsent, pipe, left>>

mainVars == <<main, episode, camera, totalLength, stored, left>>
workerVars == <<worker, job, video, unsent>>

Init ==
    /\ main = "converting"
    /\ episode = 1 /\ camera = 1
    /\ totalLength = 0
    /\ stored = <<>>
    /\ queue = <<>>
    /\ worker = [w \in Workers |-> "idle"]
    /\ job = [w \in Workers |-> Stop]
    /\ video = [v \in Videos |-> "none"]
    /\ unsent = [w \in Workers |-> 0]
    /\ pipe = 0
    /\ left = Workers

-----------------------------------------------------------------------------
(* The main process *)

\* The lengths of the tables that can come out: the last step of a trajectory is
\* dropped, and an empty table cannot be completed.
TableLengths == {n - 1 : n \in Recorded} \ {0}

\* A wrong form: the frames of a trajectory count before it is known to convert.
CountThenConvert ==
    /\ main = "converting" /\ episode <= Episodes
    /\ \E n \in TableLengths :
          /\ totalLength' = totalLength + n
          /\ \/ /\ stored' = Append(stored, [episode |-> episode, start |-> totalLength, length |-> n])
                /\ main' = "videos" /\ camera' = 1
                /\ UNCHANGED episode
             \/ /\ episode' = episode + 1
                /\ UNCHANGED <<main, camera, stored>>
    /\ UNCHANGED <<left, queue, pipe, workerVars>>

\* A trajectory that cannot be converted is skipped; its index stays unused.
ConvertTrajectory ==
    /\ main = "converting" /\ episode <= Episodes
    /\ \/ \E n \in TableLengths :
             /\ totalLength' = totalLength + n
             /\ stored' = Append(stored, [episode |-> episode, start |-> totalLength, length |-> n])
             /\ main' = "videos" /\ camera' = 1
             /\ UNCHANGED episode
       \/ /\ episode' = episode + 1
          /\ UNCHANGED <<main, camera, totalLength, stored>>
    /\ UNCHANGED <<left, queue, pipe, workerVars>>

\* A wrong form: the queue takes every job at once.
PutUnbounded ==
    /\ main = "videos"
    /\ queue' = Append(queue, <<episode, camera>>)
    /\ video' = [video EXCEPT ![<<episode, camera>>] = "queued"]
    /\ IF camera < Cameras
       THEN camera' = camera + 1 /\ UNCHANGED <<main, episode>>
       ELSE camera' = 1 /\ main' = "converting" /\ episode' = episode + 1
    /\ UNCHANGED <<totalLength, stored, left, worker, job, unsent, pipe>>

\* The frames of one camera are queued, which waits for room in the queue.
PutFrames ==
    /\ main = "videos"
    /\ Len(queue) < QueueSize
    /\ queue' = Append(queue, <<episode, camera>>)
    /\ video' = [video EXCEPT ![<<episode, camera>>] = "queued"]
    /\ IF camera < Cameras
       THEN camera' = camera + 1 /\ UNCHANGED <<main, episode>>
       ELSE camera' = 1 /\ main' = "converting" /\ episode' = episode + 1
    /\ UNCHANGED <<totalLength, stored, left, worker, job, unsent, pipe>>

\* The camera is not in the file, or has another number of frames: raised outside
\* of any try, so that the program ends and waits for its workers.
CameraMissing ==
    /\ main = "videos"
    /\ main' = "crashed"
    /\ UNCHANGED <<episode, camera, totalLength, stored, left, queue, pipe, workerVars>>

\* After the last trajectory tasks, episodes and modality are written.
WriteMeta ==
    /\ main = "converting" /\ episode > Episodes
    /\ main' = "reporting"
    /\ UNCHANGED <<episode, camera, totalLength, stored, left, queue, pipe, workerVars>>

\* The errors that have arrived by now are printed.
ReportErrors ==
    /\ main = "reporting"
    /\ IF pipe > 0 THEN pipe' = pipe - 1 /\ UNCHANGED main
                   ELSE main' = "stopping" /\ UNCHANGED pipe
    /\ UNCHANGED <<episode, camera, totalLength, stored, left, queue, workerVars>>

\* A wrong form: a Stop overtakes the jobs that are waiting.
PutStopFirst ==
    /\ main = "stopping"
    /\ Len(queue) < QueueSize
    /\ queue' = <<Stop>> \o queue
    /\ \E w \in left : left' = left \ {w}
    /\ IF left' = {} THEN main' = "joining" ELSE UNCHANGED main
    /\ UNCHANGED <<episode, camera, totalLength, stored, pipe, workerVars>>

\* A wrong form: a single Stop for all workers.
PutOneStop ==
    /\ main = "stopping"
    /\ Len(queue) < QueueSize
    /\ queue' = Append(queue, Stop)
    /\ left' = {}
    /\ main' = "joining"
    /\ UNCHANGED <<episode, camera, totalLength, stored, pipe, workerVars>>

\* One Stop for each worker, behind the jobs.
PutStop ==
    /\ main = "stopping"
    /\ Len(queue) < QueueSize
    /\ queue' = Append(queue, Stop)
    /\ \E w \in left : left' = left \ {w}
    /\ IF left' = {} THEN main' = "joining" ELSE UNCHANGED main
    /\ UNCHANGED <<episode, camera, totalLength, stored, pipe, workerVars>>

JoinWorkers ==
    /\ main = "joining"
    /\ \A w \in Workers : worker[w] = "ended"
    /\ main' = "describing"
    /\ UNCHANGED <<episode, camera, totalLength, stored, left, queue, pipe, workerVars>>

\* info.json, from the first converted trajectory and the first video of each
\* camera; raises if there is none, or if a video cannot be examined.
GenerateInfo ==
    /\ main = "describing"
    /\ \/ stored # <<>> /\ main' = "done"
       \/ main' = "failed"
    /\ UNCHANGED <<episode, camera, totalLength, stored, left, queue, pipe, workerVars>>

-----------------------------------------------------------------------------
(* A worker *)

GetJob(w) ==
    /\ worker[w] = "idle" /\ queue # <<>>
    /\ worker' = [worker EXCEPT ![w] = IF Head(queue) = Stop THEN "ending" ELSE "writing"]
    /\ job' = [job EXCEPT ![w] = Head(queue)]
    /\ queue' = Tail(queue)
    /\ UNCHANGED <<mainVars, video, unsent, pipe>>

\* Writes the video, or catches the error and reports it.
WriteVideo(w) ==
    /\ worker[w] = "writing"
    /\ \/ /\ video' = [video EXCEPT ![job[w]] = "written"]
          /\ UNCHANGED unsent
       \/ /\ video' = [video EXCEPT ![job[w]] = "failed"]
          /\ unsent' = [unsent EXCEPT ![w] = @ + 1]
    /\ worker' = [worker EXCEPT ![w] = "idle"]
    /\ UNCHANGED <<mainVars, queue, job, pipe>>

\* The feeder thread of the worker's error queue writes to the pipe.
SendError(w) ==
    /\ unsent[w] > 0 /\ pipe < PipeCapacity
    /\ unsent' = [unsent EXCEPT ![w] = @ - 1]
    /\ pipe' = pipe + 1
    /\ UNCHANGED <<mainVars, queue, worker, job, video>>

\* A process that has left its loop ends once its feeder threads are done.
EndWorker(w) ==
    /\ worker[w] = "ending" /\ unsent[w] = 0
    /\ worker' = [worker EXCEPT ![w] = "ended"]
    /\ UNCHANGED <<mainVars, queue, job, video, unsent, pipe>>

Main == \/ ConvertTrajectory \/ PutFrames \/ CameraMissing \/ WriteMeta
        \/ ReportErrors \/ PutStop \/ JoinWorkers \/ GenerateInfo

Work(w) == GetJob(w) \/ WriteVideo(w) \/ SendError(w) \/ EndWorker(w)

Next == Main \/ \E w \in Workers : Work(w)

\* Every process that can run does: the operating system schedules all of them.
Spec == Init /\ [][Next]_vars /\ WF_vars(Main) /\ \A w \in Workers : WF_vars(Work(w))

-----------------------------------------------------------------------------
TypeOK ==
    /\ main \in {"converting", "videos", "crashed", "reporting", "stopping", "joining",
                 "describing", "done", "failed"}
    /\ episode \in 1 .. Episodes + 1 /\ camera \in 1 .. Cameras
    /\ totalLength \in Nat
    /\ stored \in Seq([episode : 1 .. Episodes, start : Nat, length : TableLengths])
    /\ queue \in Seq(Videos \union {Stop}) /\ Len(queue) <= QueueSize
    /\ worker \in [Workers -> {"idle", "writing", "ending", "ended"}]
    /\ job \in [Workers -> Videos \union {Stop}]
    /\ video \in [Videos -> {"none", "queued", "written", "failed"}]
    /\ unsent \in [Workers -> Nat] /\ pipe \in 0 .. PipeCapacity
    /\ left \subseteq Workers

\* The indices of the frames run on from one stored table to the next, whichever
\* trajectories in between were skipped, and total_frames is their number
\* (convert_hdf5_to_lerobot.py:508-543).
FramesContiguous ==
    /\ \A i \in DOMAIN stored :
          stored[i].start = IF i = 1 THEN 0 ELSE stored[i - 1].start + stored[i - 1].length
    /\ totalLength = IF stored = <<>> THEN 0 ELSE Last(stored).start + Last(stored).length

\* "Generate info.json (AFTER all videos are created)"
\* (convert_hdf5_to_lerobot.py:614): by then every video of every stored table was
\* written or has failed, and no job is left in the queue or with a worker.
VideosComplete ==
    main \in {"describing", "done", "failed"} =>
        /\ queue = <<>>
        /\ \A v \in Videos :
              IF \E i \in DOMAIN stored : stored[i].episode = v[1]
              THEN video[v] \in {"written", "failed"}
              ELSE video[v] = "none"

\* Unless a camera is missing, the conversion comes to its end, and then no worker
\* is left, whatever the workers and the main process wait for in between: a full
\* queue, an empty one, one another's end.
Ends ==
    <>(\/ main = "crashed"
       \/ main \in {"done", "failed"} /\ \A w \in Workers : worker[w] = "ended")

\* "Stop the worker processes and wait for all videos to complete"
\* (convert_hdf5_to_lerobot.py:608): once it has begun, all workers end.
WorkersStop == main = "stopping" ~> \A w \in Workers : worker[w] = "ended"
=============================================================================

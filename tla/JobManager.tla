----------------------------- MODULE JobManager -----------------------------
(***************************************************************************)
(* JobManager of isaaclab_arena/evaluation/job_manager.py: a list of jobs, *)
(* each with a status, and the queue of those to run.  The status lives in *)
(* the job and the queue entry does not follow it: set_jobs_status_by_name *)
(* only ever adds entries.                                                 *)
(*                                                                         *)
(* Jobs are numbered in the order of the list they are given in.           *)
(***************************************************************************)
EXTENDS Integers, Sequences

CONSTANTS NumJobs,
          MaxQueue         \* bound: the entries the queue may have

ASSUME JobAssumption == /\ NumJobs \in Nat
                        /\ MaxQueue \in Nat
                        /\ NumJobs <= MaxQueue

VARIABLES status,          \* the status of every job in all_jobs
          queue            \* pending_queue

managerVars == <<status, queue>>

Jobs == 1..NumJobs
Statuses == {"pending", "running", "completed", "failed"}
Queued == {queue[i] : i \in DOMAIN queue}

ManagerTypeOK == /\ status \in [Jobs -> Statuses]
                 /\ queue \in Seq(Jobs)
                 /\ Len(queue) <= MaxQueue

Pending(s) == {j \in Jobs : s[j] = "pending"}

\* The jobs of s as a loop over the list puts them into a queue.
InListOrder(s) ==
   LET upTo[n \in 0..NumJobs] ==
          IF n = 0 THEN <<>>
          ELSE IF n \in s THEN Append(upTo[n - 1], n) ELSE upTo[n - 1]
   IN  upTo[NumJobs]

\* The jobs given with status pending are queued, in the order of the list.
ManagerInit == /\ status \in [Jobs -> Statuses]
               /\ queue = InListOrder(Pending(status))
-----------------------------------------------------------------------------
\* Wrong forms of the operators below.
RequeuedNone(ids, new) == <<>>
TakeLast == /\ queue # <<>>
            /\ status' = [status EXCEPT ![queue[Len(queue)]] = "running"]
            /\ queue' = SubSeq(queue, 1, Len(queue) - 1)
CompleteSwapped(j, result) == /\ status' = [status EXCEPT ![j] = "metrics"]
                              /\ UNCHANGED queue

\* get_next_job with a non-empty queue: the status of the job is not looked at.
GetNextJob ==
   /\ queue # <<>>
   /\ status' = [status EXCEPT ![Head(queue)] = "running"]
   /\ queue' = Tail(queue)

\* The jobs that become pending again, in the order of all_jobs.
Requeued(ids, new) == InListOrder({j \in ids : status[j] # "pending" /\ new = "pending"})

SetJobsStatusByName(ids, new) ==
   /\ Len(queue) + Len(Requeued(ids, new)) <= MaxQueue
   /\ queue' = queue \o Requeued(ids, new)
   /\ status' = [j \in Jobs |-> IF j \in ids THEN new ELSE status[j]]

CompleteJob(j, result) ==
   /\ status' = [status EXCEPT ![j] = result]
   /\ UNCHANGED queue

\* Any caller's sequence of calls, one job being completed at a time.
ManagerNext == \/ GetNextJob
               \/ \E ids \in SUBSET Jobs, new \in Statuses : SetJobsStatusByName(ids, new)
               \/ \E j \in Jobs, result \in {"completed", "failed"} :
                     CompleteJob(j, result)

ManagerSpec == ManagerInit /\ [][ManagerNext]_managerVars
-----------------------------------------------------------------------------
(* Properties *)

\* No sequence of calls loses a job that is to be run: as long as its status is
\* pending it has an entry in the queue, also after it was re-queued while an old
\* entry was still there (job_manager.py:174-176, 194-196, 205-209).
PendingIsQueued == \A j \in Jobs : status[j] = "pending" => j \in Queued

\* get_next_job returns "the next pending job" (job_manager.py:189-197): the job
\* at the front of the queue is pending.
NextIsPending == queue # <<>> => status[Head(queue)] = "pending"
=============================================================================

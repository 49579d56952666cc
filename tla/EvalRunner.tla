----------------------------- MODULE EvalRunner -----------------------------
(***************************************************************************)
(* main of isaaclab_arena/evaluation/eval_runner.py: the loop that takes   *)
(* the jobs one by one from the JobManager, builds the environment and the *)
(* policy of each, rolls the policy out, records the outcome, and tears    *)
(* the environment down before the next job.  Every step that can raise    *)
(* may do so, and the try / except / finally of the loop decides the rest. *)
(***************************************************************************)
EXTENDS JobManager, FiniteSets

CONSTANT NoJob

ASSUME RunnerAssumption == NoJob \notin Jobs

VARIABLES given,           \* the statuses in the eval_jobs_config
          continueOnError, \* the flag --continue_on_error
          pc,              \* where main is
          job,             \* the job of this iteration
          open,            \* the jobs whose environment is open
          raising,         \* the except clause re-raises
          order,           \* the jobs handed out so far, as they are printed
          logged           \* the jobs with metrics in the MetricsLogger

argVars == <<given, continueOnError>>
vars == <<managerVars, argVars, pc, job, open, raising, order, logged>>

TypeOK == /\ ManagerTypeOK
          /\ given \in [Jobs -> Statuses]
          /\ continueOnError \in BOOLEAN
          /\ pc \in {"next", "load", "policy", "length", "rollout", "except", "teardown", "close",
                     "ended", "raised", "torn"}
          /\ job \in Jobs \cup {NoJob}
          /\ open \in SUBSET Jobs
          /\ raising \in BOOLEAN
          /\ order \in Seq(Jobs)
          /\ logged \in SUBSET Jobs

Init == /\ ManagerInit
        /\ given = status
        /\ continueOnError \in BOOLEAN
        /\ pc = "next"
        /\ job = NoJob
        /\ open = {}
        /\ raising = FALSE
        /\ order = <<>>
        /\ logged = {}
-----------------------------------------------------------------------------
(* The loop and the try block *)

\* Wrong forms of the operators below.
LeaveOpen == open
LogOnly == UNCHANGED managerVars
TryAgain == status' = [status EXCEPT ![job] = "pending"] /\ UNCHANGED queue
NextReturnsNone == pc = "next" /\ queue = <<>> /\ UNCHANGED vars

\* Where the finally clause leads to.
AfterFinally == IF raising THEN "raised" ELSE "next"

TakeJob ==
   /\ pc = "next"
   /\ GetNextJob
   /\ job' = Head(queue)
   /\ order' = Append(order, Head(queue))
   /\ raising' = FALSE
   /\ pc' = "load"
   /\ UNCHANGED <<argVars, open, logged>>

NoMoreJobs ==
   /\ pc = "next"
   /\ queue = <<>>
   /\ pc' = "ended"
   /\ UNCHANGED <<managerVars, argVars, job, open, raising, order, logged>>

LoadEnv ==
   /\ pc = "load"
   /\ open' = open \cup {job}
   /\ pc' = "policy"
   /\ UNCHANGED <<managerVars, argVars, job, raising, order, logged>>

\* get_policy_from_job.
GetPolicy ==
   /\ pc = "policy"
   /\ pc' = "length"
   /\ UNCHANGED <<managerVars, argVars, job, open, raising, order, logged>>

\* The choice of the rollout's length and, if asked for, the video wrapper.
ResolveLength ==
   /\ pc = "length"
   /\ pc' = "rollout"
   /\ UNCHANGED <<managerVars, argVars, job, open, raising, order, logged>>

AppendJobMetrics(j) == logged' = logged \cup {j}

\* rollout_policy returns, with metrics or, for a task without any, with None.
Rollout ==
   /\ pc = "rollout"
   /\ CompleteJob(job, "completed")
   /\ AppendJobMetrics(job) \/ UNCHANGED logged
   /\ pc' = "teardown"
   /\ UNCHANGED <<argVars, job, open, raising, order>>

\* load_env, get_policy_from_job, the choice of the length or rollout_policy
\* raises.
Fail ==
   /\ pc \in {"load", "policy", "length", "rollout"}
   /\ pc' = "except"
   /\ UNCHANGED <<managerVars, argVars, job, open, raising, order, logged>>
-----------------------------------------------------------------------------
(* The except and finally clauses *)

\* Whether the except clause raises the exception again.
Reraise == ~continueOnError
MarkFailed == CompleteJob(job, "failed")

Except ==
   /\ pc = "except"
   /\ MarkFailed
   /\ raising' = Reraise
   /\ pc' = "teardown"
   /\ UNCHANGED <<argVars, job, open, order, logged>>

\* teardown_simulation_app, unless load_env did not return an environment.
Teardown ==
   /\ pc = "teardown"
   /\ pc' = IF job \in open THEN "close" ELSE AfterFinally
   /\ UNCHANGED <<managerVars, argVars, job, open, raising, order, logged>>

\* The environments open after env.close.
StillOpen == open \ {job}

Close ==
   /\ pc = "close"
   /\ open' = StillOpen
   /\ pc' = AfterFinally
   /\ UNCHANGED <<managerVars, argVars, job, raising, order, logged>>

\* The teardown or the closing raises: nothing catches it, whatever the flag.
FinallyFails ==
   /\ pc \in {"teardown", "close"}
   /\ job \in open
   /\ pc' = "torn"
   /\ UNCHANGED <<managerVars, argVars, job, open, raising, order, logged>>

Next == \/ TakeJob \/ NoMoreJobs \/ LoadEnv \/ GetPolicy \/ ResolveLength \/ Rollout
        \/ Fail \/ Except \/ Teardown \/ Close \/ FinallyFails

Spec == Init /\ [][Next]_vars /\ WF_vars(Next)
-----------------------------------------------------------------------------
(* Properties *)

\* The jobs to run, in the order of the config.
ToRun == InListOrder(Pending(given))

\* A job's environment is closed before the next one is loaded, however the job
\* ended: two simulation stages never coexist (eval_runner.py:167-172).
OneEnvironment == pc \in {"next", "load", "ended"} => open = {}

\* When the program ends, however it does, the statuses tell what happened: no
\* job is left running, the jobs handed out completed or failed, the others are
\* as they were given, and only a job that completed has metrics
\* (eval_runner.py:152-165, job_manager.py:188-201, 222-226).
OutcomesTold == pc \in {"ended", "raised", "torn"} =>
   /\ \A j \in Jobs : IF \E i \in DOMAIN order : order[i] = j
                      THEN status[j] \in {"completed", "failed"}
                      ELSE status[j] = given[j]
   /\ \A j \in logged : status[j] = "completed"

\* A program that ends normally ran every job that was pending, once and in the
\* order of the config, failed ones included.  With --continue_on_error only a
\* teardown that fails ends it otherwise (eval_runner.py:121-122, 160-172).
RanAll == pc = "ended" \/ (pc = "raised" /\ continueOnError) => order = ToRun

\* The loop keeps its books with the job manager's methods only, one call at a time, so
\* that what no sequence of calls can break holds of it: a failed job, for one, is not made
\* pending behind the queue's back (eval_runner.py:123, 158, 161).
UsesManager == ManagerSpec

\* The runner always ends (eval_runner.py:121-172).
Ends == <>(pc \in {"ended", "raised", "torn"})

\* "If a job fails, the runner continues with the next job and marks the failed
\* job accordingly" (docs/pages/policy_evaluation/evaluation_types.rst:150-151).
FailureContinues == pc = "raised" => Pending(status) = {}
=============================================================================

--------------------------- MODULE DemoRecording ---------------------------
(***************************************************************************)
(* run_simulation_loop of record_demos.py, with the environment, of which  *)
(* the time-out and success terminations were removed, and the recorder,   *)
(* which exports an episode only when it is marked successful.             *)
(*                                                                         *)
(* Whether the success condition holds changes only when the environment   *)
(* steps or is reset; a freshly reset one does not satisfy it.             *)
(***************************************************************************)
EXTENDS DemoDataset

VARIABLES rec,             \* the locals of run_simulation_loop
          world,           \* the environment and its recorder's episode buffer
          last             \* the attempt that was exported last

recVars == <<rec, world, last>>

\* steps and good are the environment's; properties read the others:
\* streak: the steps with success, one after the other, that were the last ones;
\* late: the steps made after a reset was asked for.
Attempt == [steps : 0..MaxSteps, good : BOOLEAN, streak : 0..NumSuccessSteps, late : 0..MaxSteps]
Fresh == [steps |-> 0, good |-> FALSE, streak |-> 0, late |-> 0]

\* asked: a reset was asked for and not made yet.
RecTypeOK ==
   /\ rec \in [pc : {"loop", "stepped", "resetting", "done", "interrupted"},
               term : BOOLEAN, running : BOOLEAN, reset : BOOLEAN, asked : BOOLEAN,
               count : 0..NumSuccessSteps, shown : 0..NumDemos]
   /\ world \in Attempt /\ last \in Attempt

RecordingOff == [pc |-> "done", term |-> FALSE, running |-> FALSE, reset |-> FALSE,
                 asked |-> FALSE, count |-> 0, shown |-> 0]

\* term: the environment has a success term; with --xr the recording starts
\* paused.
RecInit ==
   /\ \E term, xr \in BOOLEAN :
         rec = [RecordingOff EXCEPT !.pc = "loop", !.term = term, !.running = ~xr]
   /\ world = Fresh /\ last = Fresh
   /\ dataset = <<>>
-----------------------------------------------------------------------------
(* The callbacks *)

\* R and RESET, START, STOP.  They run while the simulation renders: inside
\* env.step or sim.render, inside handle_reset, and in the rate limiter's sleep.
RecKeys == {[rec EXCEPT !.reset = TRUE, !.asked = TRUE],
            [rec EXCEPT !.running = TRUE],
            [rec EXCEPT !.running = FALSE]}

RecKey == /\ rec.pc \in {"loop", "stepped", "resetting"}
          /\ rec' \in RecKeys
          /\ UNCHANGED <<world, last, dataset>>
-----------------------------------------------------------------------------
(* One iteration *)

\* Wrong forms of the operators below.
ResetAfterSuccess(r, success) == success
CountKept(r) == [r EXCEPT !.reset = FALSE]
ExportAfterClearing(n) == dataset' = Append(dataset, 0)

Capped(n) == IF n < NumSuccessSteps THEN n ELSE NumSuccessSteps

\* An environment step, recorded in the buffer.
Stepped(good) == [steps |-> world.steps + 1, good |-> good,
                  streak |-> IF good THEN Capped(world.streak + 1) ELSE 0,
                  late |-> world.late + (IF rec.asked THEN 1 ELSE 0)]

\* advance, then env.step or sim.render.  env.step resets the environment by
\* itself when another termination fires; that attempt is not exported.
Act ==
   /\ rec.pc = "loop"
   /\ IF rec.running
      THEN \/ world.steps < MaxSteps /\ \E good \in BOOLEAN : world' = Stepped(good)
           \/ world' = Fresh
      ELSE UNCHANGED world
   /\ rec' = [rec EXCEPT !.pc = "stepped"]
   /\ UNCHANGED <<last, dataset>>

\* The success_step_count after the success term was evaluated.
NextCount(r) == IF world.good THEN r.count + 1 ELSE 0

\* record_pre_reset, set_success_to_episodes and export_episodes.
Export(n) == dataset' = Append(dataset, n)

\* Whether handle_reset is due: asked for by a callback or after a success.
ResetDue(r, success) == r.reset \/ success

\* The end of an iteration: the desired number of demonstrations is reached, or
\* the loop goes on.
AfterIteration(n) == IF n >= NumDemos THEN "done" ELSE "loop"

\* process_success_condition, the displayed count, and the choice to reset.
Check ==
   /\ rec.pc = "stepped"
   /\ LET count == IF rec.term THEN NextCount(rec) ELSE rec.count
          success == rec.term /\ world.good /\ count >= NumSuccessSteps IN
      /\ IF success
         THEN /\ Export(world.steps)
              /\ last' = world
              /\ world' = [world EXCEPT !.steps = 0]
         ELSE UNCHANGED <<dataset, world, last>>
      /\ rec' = [rec EXCEPT
                   !.count = count,
                   !.shown = Len(dataset'),
                   !.reset = ResetDue(rec, success),
                   !.pc = IF ResetDue(rec, success) THEN "resetting"
                          ELSE AfterIteration(Len(dataset'))]

\* The script's locals after handle_reset: a reset asked for meanwhile is part
\* of this one.
Cleared(r) == [r EXCEPT !.count = 0, !.reset = FALSE]

\* handle_reset: sim.reset, recorder_manager.reset, env.reset.
HandleReset ==
   /\ rec.pc = "resetting"
   /\ world' = Fresh
   /\ rec' = [Cleared(rec) EXCEPT !.asked = FALSE, !.pc = AfterIteration(Len(dataset))]
   /\ UNCHANGED <<last, dataset>>

\* The application is closed or the simulation stopped.
StopRecording ==
   /\ rec.pc = "loop"
   /\ rec' = [rec EXCEPT !.pc = "done"]
   /\ UNCHANGED <<world, last, dataset>>

\* Ctrl-C: "suppress(...) and inference_mode()" is inference_mode alone, so the
\* interrupt leaves the script without closing the environment.
InterruptRecording ==
   /\ rec.pc \in {"loop", "stepped", "resetting"}
   /\ rec' = [rec EXCEPT !.pc = "interrupted"]
   /\ UNCHANGED <<world, last, dataset>>

RecNext == RecKey \/ Act \/ Check \/ HandleReset \/ StopRecording \/ InterruptRecording
RecEnded == rec.pc \in {"done", "interrupted"}
-----------------------------------------------------------------------------
(* Properties *)

\* When the operator asks for a reset, at most the step of the running iteration
\* is still made on the attempt: no demonstration goes on, or is exported, with
\* steps of after the request but that one, also when the request comes while
\* another reset is made or together with a success (record_demos.py:413-416,
\* 477-491).
DiscardedOnRequest == world.late <= 1 /\ last.late <= 1

\* "num_success_steps: Number of continuous steps with task success for
\* concluding a demo as successful" (record_demos.py:48-53).
ContinuousSuccess == dataset # <<>> => last.streak = NumSuccessSteps
=============================================================================

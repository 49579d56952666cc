--------------------------- MODULE MimicGeneration ---------------------------
(***************************************************************************)
(* Generating a demonstration for the G1 (locomanip_mimic_patch.py).  Each *)
(* end effector ("eef") works through its subtasks, a trajectory of        *)
(* waypoints at a time; every iteration executes one waypoint of each eef  *)
(* and moves the indices on.  While the robot navigates (G1Navigation) the *)
(* body's subtask is held back, and when it stops early the rest of the    *)
(* subtask is skipped: the indices of all eefs are shifted, from inside    *)
(* the loop that advances them one eef after another.                      *)
(*                                                                         *)
(* The shipped configuration is modelled: one environment, no motion       *)
(* planner, no subtask constraint.  A trajectory says of each waypoint     *)
(* whether its action commands a navigation.                               *)
(***************************************************************************)
EXTENDS G1Navigation, Integers, SequencesExt

CONSTANTS
    EefOrder,        \* the eefs in the order of subtask_configs
    Body,            \* the eef whose subtasks are the navigation
    Subtasks,        \* number of subtasks of each eef
    Trajectories,    \* the trajectories a subtask of each eef can be given
    Attempts         \* bound: demonstrations attempted

Eefs == Range(EefOrder)

ASSUME GenerationAssumption ==
    /\ EefOrder \in Seq(Eefs) /\ IsInjective(EefOrder) /\ Body \in Eefs
    /\ Subtasks \in [Eefs -> Nat \ {0}]
    /\ \A e \in Eefs : \A t \in Trajectories[e] : t \in Seq(BOOLEAN) /\ t # <<>>
    /\ Attempts \in Nat

VARIABLES
    phase,       \* "reset", "generate", "raised"
    attempt,     \* demonstrations started
    at,          \* per-eef bookkeeping of generate (see StartOfGeneration)
    turn,        \* the eef the loop is at, 0 between the iterations
    was          \* was_navigating

generationVars == <<nav, phase, attempt, at, turn, was>>

\* The dictionaries of generate: subtask and step indices, the eefs whose step
\* index is None, trajectories, finished eefs; and the locals of one pass of the
\* loop over the eefs: whether the navigation was handled, whether it raised.
StartOfGeneration ==
    [subtask |-> [e \in Eefs |-> 0], step |-> [e \in Eefs |-> 0], none |-> Eefs,
     traj |-> [e \in Eefs |-> <<>>], finished |-> {}, processed |-> FALSE, raised |-> FALSE]

GenerationInit ==
    /\ NavInit
    /\ phase = "reset"
    /\ attempt = 0
    /\ at = StartOfGeneration
    /\ turn = 0
    /\ was = FALSE

-----------------------------------------------------------------------------
\* Arithmetic on a step index that is None raises a TypeError.
Shift(a, newStep) ==
    IF a.none # {} THEN [a EXCEPT !.raised = TRUE]
    ELSE [a EXCEPT !.step = newStep, !.processed = TRUE]

RepeatWaypoint(a) == Shift(a, [e \in Eefs |-> a.step[e] - 1])

\* Waypoints of the body that are left after the one its index names.
LeftOfBody(a) == Len(a.traj[Body]) - (a.step[Body] + 1)

\* A wrong form: the skip is not limited to the eef's trajectory.
SkipUnlimited(a) == Shift(a, [e \in Eefs |-> a.step[e] + LeftOfBody(a)])

\* Skip to the end of the body's trajectory; no eef past its own last waypoint.
SkipToEnd(a) ==
    Shift(a, [e \in Eefs |-> IF a.step[e] + LeftOfBody(a) < Len(a.traj[e])
                             THEN a.step[e] + LeftOfBody(a)
                             ELSE Len(a.traj[e]) - 1])

BodyAt(a, step) == Body \notin a.none /\ a.step[Body] = step

\* A wrong form: the body is held back one waypoint too early.
HoldTooEarly(a) ==
    CASE a.processed -> a
      [] ~a.processed /\ BodyAt(a, Len(a.traj[Body]) - 2) ->
            IF nav.navigating /\ ~nav.goalReached THEN RepeatWaypoint(a) ELSE a
      [] OTHER -> IF was /\ ~nav.navigating THEN SkipToEnd(a) ELSE a

\* Handled once per iteration, at the first eef that finds it due: hold the last
\* waypoint of the body while it navigates, skip ahead once it has stopped.
FollowNavigation(a) ==
    CASE a.processed -> a
      [] ~a.processed /\ BodyAt(a, Len(a.traj[Body]) - 1) ->
            IF nav.navigating /\ ~nav.goalReached THEN RepeatWaypoint(a) ELSE a
      [] OTHER -> IF was /\ ~nav.navigating THEN SkipToEnd(a) ELSE a

\* A finished eef keeps repeating its last waypoint.
FinishSubtask(a, e) ==
    CASE a.raised \/ a.step[e] # Len(a.traj[e]) -> a
      [] ~a.raised /\ a.step[e] = Len(a.traj[e]) /\ a.subtask[e] = Subtasks[e] - 1 ->
            [a EXCEPT !.finished = @ \union {e}, !.traj[e] = Append(@, Last(@))]
      [] OTHER -> [a EXCEPT !.none = @ \union {e}, !.subtask[e] = @ + 1]

-----------------------------------------------------------------------------
\* The environment is reset before generate sets up its dictionaries.
StartGeneration ==
    /\ phase = "reset"
    /\ attempt < Attempts
    /\ ResetPinkPolicy
    /\ attempt' = attempt + 1
    /\ phase' = "generate"
    /\ at' = StartOfGeneration
    /\ was' = FALSE
    /\ UNCHANGED turn

\* The first eef in order without a step index is given the trajectory of its
\* next subtask.
GenerateTrajectory ==
    /\ phase = "generate" /\ turn = 0
    /\ \E i \in DOMAIN EefOrder :
          LET e == EefOrder[i] IN
          /\ e \in at.none
          /\ \A j \in 1 .. i - 1 : EefOrder[j] \notin at.none
          /\ \E t \in Trajectories[e] :
                at' = [at EXCEPT !.none = @ \ {e}, !.traj[e] = t, !.step[e] = 0]
    /\ UNCHANGED <<nav, phase, attempt, turn, was>>

\* An iteration: one step of the environment executes the waypoints of all eefs ...
ExecuteWaypoints ==
    /\ phase = "generate" /\ turn = 0
    /\ at.none = {}
    /\ \E xy, heading \in BOOLEAN :
          ProcessActions(at.traj[Body][at.step[Body] + 1], xy, heading)
    /\ at' = [at EXCEPT !.processed = FALSE]
    /\ turn' = 1
    /\ UNCHANGED <<phase, attempt, was>>

\* ... then the loop over the eefs moves their indices on.  When all are finished
\* after it, the episode is exported.
AdvanceEef ==
    /\ phase = "generate" /\ turn > 0
    /\ LET e == EefOrder[turn] IN
       at' = FinishSubtask(FollowNavigation([at EXCEPT !.step[e] = @ + 1]), e)
    /\ turn' = (turn + 1) % (Len(EefOrder) + 1)
    /\ was' = IF turn' = 0 THEN nav.navigating ELSE was
    /\ phase' = CASE at'.raised -> "raised"
                  [] ~at'.raised /\ turn' = 0 /\ at'.finished = Eefs -> "reset"
                  [] OTHER -> "generate"
    /\ UNCHANGED <<nav, attempt>>

Iterate == GenerateTrajectory \/ ExecuteWaypoints \/ AdvanceEef

GenerationNext == StartGeneration \/ Iterate

\* The coroutine of generate is resumed after each step of the environment.
GenerationSpec == GenerationInit /\ [][GenerationNext]_generationVars /\ WF_generationVars(Iterate)

-----------------------------------------------------------------------------
GenerationTypeOK ==
    /\ NavTypeOK
    /\ phase \in {"reset", "generate", "raised"}
    /\ attempt \in 0 .. Attempts
    /\ \A e \in Eefs : at.subtask[e] \in 0 .. Subtasks[e] - 1
    /\ at.step \in [Eefs -> Int]
    /\ at.none \subseteq Eefs /\ at.finished \subseteq Eefs
    /\ \A e \in Eefs : at.traj[e] \in Seq(BOOLEAN)
    /\ turn \in 0 .. Len(EefOrder)
    /\ was \in BOOLEAN

\* Before every iteration each step index names a waypoint of its trajectory: an
\* index beyond the end would raise, or never again equal the length at which the
\* subtask is done (locomanip_mimic_patch.py:370), and a negative one would
\* silently pick a waypoint from the end.
WaypointExists ==
    phase = "generate" /\ turn = 0 =>
        \A e \in Eefs \ at.none : at.step[e] \in 0 .. Len(at.traj[e]) - 1

\* The body's subtask is not left, nor the episode ended, while the robot is
\* still navigating (locomanip_mimic_patch.py:343-351).
BodyWaitsForNavigation ==
    [][(\/ at'.subtask[Body] > at.subtask[Body]
        \/ phase = "generate" /\ phase' = "reset") => ~nav'.navigating]_generationVars

\* "After the first eef is handled, both eefs index buffers will be updated"
\* (locomanip_mimic_patch.py:338): when the navigation is held back or skipped, every
\* eef has a step index.  Where an eef that the loop has already gone past ended its
\* subtask in the same pass (:408), its index is None and the shift raises.
IndicesShifted == phase # "raised"

\* Wherever the robot drives, a navigation comes to an end, unless the program does,
\* by the TypeError of IndicesShifted: a navigation that does not reach its subgoal
\* ("maybe causing infinite loops (xy <-> turning)", p_controller.py:153) is given up
\* after max_navigation_steps.  The end of a generation does not count as its end.
NavigationEnds == []IndicesShifted => (nav.navigating ~> ~nav.navigating)

\* "Repeat the last nav subtask action if the robot is navigating"
\* (locomanip_mimic_patch.py:343): the iteration that holds the indices back has
\* executed the last waypoint of the body's subtask.
RepeatsLastAction ==
    [][(at'.processed /\ ~at.processed /\ nav.navigating)
       => at.step[Body] = Len(at.traj[Body]) - 1]_generationVars
=============================================================================

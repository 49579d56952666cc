---------------------------- MODULE G1Navigation ----------------------------
(***************************************************************************)
(* The navigation part of the G1 whole-body action term                    *)
(* (g1_decoupled_wbc_pink_action.py) with use_p_control set: while the     *)
(* robot navigates, the navigate command of the action is replaced by the  *)
(* output of a P-controller that drives it to the next subgoal.            *)
(*                                                                         *)
(* Where the robot is belongs to the simulation: each step is told whether *)
(* the position and the heading of the subgoal are within the thresholds.  *)
(* Velocities are left out.                                                *)
(***************************************************************************)
EXTENDS Naturals, Sequences

CONSTANTS
    InPlace,              \* cfg.navigation_subgoals: the turning_in_place flag of each
    MaxNavigationSteps    \* cfg.max_navigation_steps

ASSUME NavigationAssumption ==
    /\ InPlace \in Seq(BOOLEAN) /\ InPlace # <<>>
    /\ MaxNavigationSteps \in Nat

VARIABLE nav    \* the term's flags, subgoals reached and the controller's step counter

NavInit == nav = [navigating |-> FALSE, goalReached |-> FALSE, subgoals |-> 0, steps |-> 0]

NavTypeOK ==
    nav \in [navigating : BOOLEAN, goalReached : BOOLEAN,
             subgoals : 0 .. Len(InPlace), steps : 0 .. MaxNavigationSteps + 1]

\* A wrong form of the controller: turning alone is not counted as a step.
CountMovesOnly(n, xy, heading) ==
    LET moves == ~xy /\ ~InPlace[n.subgoals + 1]
    IN  [n EXCEPT !.steps = @ + (IF moves THEN 1 ELSE 0)]

\* PController.run_p_controller: every call that still moves or turns the robot counts.
RunPController(n, xy, heading) ==
    LET moves == ~xy /\ ~InPlace[n.subgoals + 1]
    IN  [n EXCEPT !.steps = @ + (IF moves \/ ~heading THEN 1 ELSE 0)]

\* The flag a finished navigation leaves behind is cleared one step later; a
\* navigate command above the threshold starts a navigation from step 0.
EnterNavigation(n, command) ==
    IF n.navigating THEN n
    ELSE [n EXCEPT !.goalReached = FALSE, !.navigating = command,
                   !.steps = IF command THEN 0 ELSE @]

\* A wrong form: every navigation that ends counts as a subgoal.
StopAndCount(n) ==
    [n EXCEPT !.navigating = FALSE, !.goalReached = TRUE, !.subgoals = @ + 1]

StopNavigation(n) == [n EXCEPT !.navigating = FALSE, !.goalReached = TRUE]

\* One step of a navigation: no subgoal left or too many steps (the subgoal is
\* not counted), subgoal reached, or one more call of the controller.
Steer(n, xy, heading) ==
    CASE n.subgoals = Len(InPlace) \/ n.steps > MaxNavigationSteps -> StopNavigation(n)
      [] ~(n.subgoals = Len(InPlace) \/ n.steps > MaxNavigationSteps)
         /\ heading /\ (xy \/ InPlace[n.subgoals + 1]) ->
            [StopNavigation(n) EXCEPT !.subgoals = @ + 1]
      [] OTHER -> RunPController(n, xy, heading)

ProcessActions(command, xy, heading) ==
    LET n == EnterNavigation(nav, command)
    IN  nav' = IF n.navigating THEN Steer(n, xy, heading) ELSE n

\* The reset event of the embodiment; the step counter is left as it is.
ResetPinkPolicy ==
    nav' = [nav EXCEPT !.navigating = FALSE, !.goalReached = FALSE, !.subgoals = 0]
=============================================================================

--------------------------- MODULE MCActionChunking ---------------------------
(***************************************************************************)
(* Values of the constants of ActionChunking for TLC.                      *)
(***************************************************************************)
EXTENDS ActionChunking, TLC

\* Environments and observations are interchangeable.
Symmetry == Permutations(Envs) \cup Permutations(Obs)

\* A server that sends any number of actions.
AnyWidth == 1..Horizon + 1
=============================================================================

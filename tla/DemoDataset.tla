---------------------------- MODULE DemoDataset ----------------------------
(***************************************************************************)
(* What the demonstration scripts of                                       *)
(* isaaclab_arena/scripts/imitation_learning share: the dataset file of    *)
(* the recorded episodes, as Isaac Lab's HDF5DatasetFileHandler keeps it,  *)
(* and the keys of the teleoperation device, whose callbacks run whenever  *)
(* a script lets the simulation run (env.step, sim.render, sim.reset).     *)
(*                                                                         *)
(* An episode is its number of actions.                                    *)
(***************************************************************************)
EXTENDS Integers, Sequences

CONSTANTS NumDemos,        \* --num_demos
          NumSuccessSteps, \* --num_success_steps
          MaxSteps         \* bound: the steps of one attempt, after which a
                           \* termination other than success ends it

ASSUME DemoAssumption == /\ NumDemos \in Nat \ {0}
                         /\ NumSuccessSteps \in Nat \ {0}
                         /\ MaxSteps \in Nat \ {0}

VARIABLE dataset           \* the episodes exported by record_demos.py

DatasetOK == dataset \in Seq(0..MaxSteps) /\ Len(dataset) <= NumDemos
=============================================================================

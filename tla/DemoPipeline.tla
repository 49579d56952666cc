---------------------------- MODULE DemoPipeline ----------------------------
(***************************************************************************)
(* The imitation learning workflow: demonstrations are recorded, the       *)
(* recorded ones annotated, and one of the two datasets is replayed.  Each *)
(* script is run once, after the one before has ended in any way, and      *)
(* works on what that one left in its file; of the state of a script       *)
(* nothing else is kept when it has ended.                                 *)
(***************************************************************************)
EXTENDS DemoRecording, DemoAnnotation, DemoReplay

VARIABLE stage             \* the script that runs

vars == <<stage, dataset, recVars, annVars, repVars>>

TypeOK == /\ stage \in {"record", "annotate", "replay"}
          /\ DatasetOK /\ RecTypeOK /\ AnnTypeOK /\ RepTypeOK

Init == stage = "record" /\ RecInit /\ AnnInit /\ RepInit

Record == /\ stage = "record" /\ RecNext
          /\ UNCHANGED <<stage, annVars, repVars>>

StartAnnotation ==
   /\ stage = "record" /\ RecEnded
   /\ stage' = "annotate"
   /\ rec' = RecordingOff /\ world' = Fresh /\ last' = Fresh
   /\ \E auto \in BOOLEAN : OpenDataset(auto)
   /\ UNCHANGED <<dataset, recorded, annotated, repVars>>

Annotate == /\ stage = "annotate" /\ AnnNext
            /\ UNCHANGED <<stage, recVars, repVars>>

\* replay_demos.py opens one of the two files; no script reads the other again.
StartReplay ==
   /\ stage = "annotate" /\ AnnEnded
   /\ stage' = "replay"
   /\ \E selection \in Selections,
         episodes \in {dataset, [i \in DOMAIN annotated |-> annotated[i].actions]} :
         OpenFile(episodes, selection)
   /\ ann' = AnnotationOff /\ recorded' = 0 /\ annotated' = <<>> /\ dataset' = <<>>
   /\ UNCHANGED recVars

Replay == /\ stage = "replay" /\ RepNext
          /\ UNCHANGED <<stage, dataset, recVars, annVars>>

Next == Record \/ StartAnnotation \/ Annotate \/ StartReplay \/ Replay

\* The loop of replay_demos.py always goes on; no key is ever pressed by itself.
Spec == /\ Init /\ [][Next]_vars
        /\ WF_vars(stage = "replay" /\ (AssignActions \/ Step)
                   /\ UNCHANGED <<stage, dataset, recVars, annVars>>)
-----------------------------------------------------------------------------
(* Properties *)

\* No dataset a script leaves behind, interrupted or not, makes the next script
\* fail: every exported episode has an action, although the success condition is
\* also evaluated while the recording is paused, right after a reset and after
\* the environment reset itself (record_demos.py:473-488, annotate_demos.py:322,
\* replay_demos.py:211-216).
NeverRaises == ann.pc # "raised" /\ rep.pc # "raised"

\* A replay ends, unless it is paused (replay_demos.py:179-240).
ReplayEnds == stage = "replay" ~> RepEnded \/ rep.paused
=============================================================================

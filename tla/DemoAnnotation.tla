--------------------------- MODULE DemoAnnotation ---------------------------
(***************************************************************************)
(* annotate_demos.py: every recorded episode is replayed, in automatic     *)
(* mode once, in manual mode once per end effector and again until the     *)
(* operator marked as many subtask signals as that end effector has; what  *)
(* the recorder recorded of the last replay is exported.                   *)
(*                                                                         *)
(* Whether a replay ends in success, and whether the environment signalled *)
(* every subtask by itself, is up to the simulation.                       *)
(***************************************************************************)
EXTENDS DemoDataset

CONSTANTS SignalCounts,    \* the signals to mark of each end effector, in order
          MaxMarks         \* bound: the marks of one replay

ASSUME AnnotationAssumption ==
   /\ SignalCounts \in Seq(Nat)
   /\ \E e \in DOMAIN SignalCounts : SignalCounts[e] > 0
   /\ MaxMarks \in Nat

VARIABLES ann,             \* the globals and locals of the script
          recorded,        \* the recorder's buffer: steps of the replay so far
          annotated        \* the exported episodes

annVars == <<ann, recorded, annotated>>

Action == 0..MaxSteps

AnnTypeOK ==
   /\ ann \in [pc : {"off", "next", "reset", "play", "export", "done", "interrupted", "raised"},
               auto : BOOLEAN, ep : Nat, eef : Nat, k : Action,
               paused : BOOLEAN, skip : BOOLEAN, index : Action,
               marks : Seq(Action), collected : Seq(Seq(Action))]
   /\ recorded \in Action
   /\ annotated \in Seq([src : Nat, actions : Action, auto : BOOLEAN,
                         signals : Seq(Seq(Action))])

AnnotationOff == [pc |-> "off", auto |-> FALSE, ep |-> 0, eef |-> 0, k |-> 0,
                  paused |-> FALSE, skip |-> FALSE, index |-> 0, marks |-> <<>>,
                  collected |-> <<>>]

AnnInit == ann = AnnotationOff /\ recorded = 0 /\ annotated = <<>>

\* The dataset is opened, in automatic or manual mode; an empty one ends the
\* script.
OpenDataset(auto) ==
   ann' = [ann EXCEPT !.auto = auto, !.pc = IF dataset = <<>> THEN "done" ELSE "next"]

Length == dataset[ann.ep]

\* The end effectors after e that have signals to mark, the others are skipped.
EefsAfter(e) == {f \in DOMAIN SignalCounts : f > e /\ SignalCounts[f] > 0}
NextEef(e) == CHOOSE f \in EefsAfter(e) : \A g \in EefsAfter(e) : f <= g
-----------------------------------------------------------------------------
(* The callbacks: N plays, B pauses, Q skips the episode, S marks a subtask *)
(* (manual mode only).  They run inside sim.reset, env.step and sim.render. *)

AnnKeys == {[ann EXCEPT !.paused = FALSE], [ann EXCEPT !.paused = TRUE],
            [ann EXCEPT !.skip = TRUE]}
           \cup IF ann.auto \/ Len(ann.marks) = MaxMarks THEN {}
                ELSE {[ann EXCEPT !.marks = Append(@, ann.index)]}

AnnKey == /\ ann.pc \in {"reset", "play"}
          /\ ann' \in AnnKeys
          /\ UNCHANGED <<recorded, annotated, dataset>>
-----------------------------------------------------------------------------
(* The replays *)

\* Wrong form of AllMarked below: it refuses only too many marks.
NotTooManyMarked(a) == Len(a.marks) <= SignalCounts[a.eef]

\* A new replay for end effector e.
Restart(a, e) == [a EXCEPT !.pc = "reset", !.eef = e, !.paused = TRUE, !.skip = FALSE,
                           !.marks = <<>>]

\* The next episode is loaded; automatic mode asks for no mark and does not
\* pause.
NextEpisode ==
   /\ ann.pc = "next"
   /\ ann.ep < Len(dataset)
   /\ LET a == [ann EXCEPT !.ep = @ + 1, !.collected = <<>>] IN
      ann' = IF ann.auto THEN [a EXCEPT !.pc = "reset", !.skip = FALSE]
             ELSE Restart(a, NextEef(0))
   /\ UNCHANGED <<recorded, annotated, dataset>>

NoMoreEpisodes ==
   /\ ann.pc = "next"
   /\ ann.ep = Len(dataset)
   /\ ann' = [ann EXCEPT !.pc = "done"]
   /\ UNCHANGED <<recorded, annotated, dataset>>

\* replay_episode: sim.reset, recorder_manager.reset and reset_to.  An episode
\* without actions has no data of that name, which raises.
ResetTo ==
   /\ ann.pc = "reset"
   /\ recorded' = 0
   /\ ann' = IF Length = 0 THEN [ann EXCEPT !.pc = "raised"]
             ELSE [ann EXCEPT !.pc = "play", !.k = 0, !.index = 0]
   /\ UNCHANGED <<annotated, dataset>>

\* The wait before every action but the first is over.
MayPlay(a) == a.k = 0 \/ (~a.paused /\ ~a.skip)

\* env.step with action k; current_action_index is that of the next one as soon
\* as its wait begins.
Play ==
   /\ ann.pc = "play"
   /\ ann.k < Length
   /\ MayPlay(ann)
   /\ recorded' = recorded + 1
   /\ ann' = [ann EXCEPT !.k = @ + 1,
                         !.index = IF ann.k + 1 < Length THEN ann.k + 1 ELSE @]
   /\ UNCHANGED <<annotated, dataset>>

\* Whether the episode is dropped because of a skip, wherever it was asked for.
Skipped(a) == a.skip

\* Q during a wait ends the replay.
SkipReplay ==
   /\ ann.pc = "play"
   /\ ann.k \in 1..Length - 1
   /\ Skipped(ann)
   /\ ann' = [ann EXCEPT !.pc = "next"]
   /\ UNCHANGED <<recorded, annotated, dataset>>

\* The marks are as many as the end effector has signals.
AllMarked(a) == Len(a.marks) = SignalCounts[a.eef]

\* The end of a replay in automatic mode: it is kept when the task succeeded
\* and the environment signalled every subtask.
EndAuto ==
   /\ ann.pc = "play" /\ ann.auto /\ ann.k = Length
   /\ \/ ~Skipped(ann) /\ ann' = [ann EXCEPT !.pc = "export"]
      \/ ann' = [ann EXCEPT !.pc = "next"]
   /\ UNCHANGED <<recorded, annotated, dataset>>

\* The end of a replay in manual mode.
EndManual ==
   /\ ann.pc = "play" /\ ~ann.auto /\ ann.k = Length
   /\ LET kept == [ann EXCEPT !.collected = Append(@, ann.marks)] IN
      \/ /\ ~Skipped(ann) /\ AllMarked(ann)
         /\ ann' = IF EefsAfter(ann.eef) = {} THEN [kept EXCEPT !.pc = "export"]
                   ELSE Restart(kept, NextEef(ann.eef))
      \/ ~Skipped(ann) /\ ~AllMarked(ann) /\ ann' = Restart(ann, ann.eef)
      \/ ann' = [ann EXCEPT !.pc = "next"]
   /\ UNCHANGED <<recorded, annotated, dataset>>

\* The signals are added to the recorded episode, which is exported.
ExportAnnotated ==
   /\ ann.pc = "export"
   /\ annotated' = Append(annotated, [src |-> ann.ep, actions |-> recorded,
                                      auto |-> ann.auto, signals |-> ann.collected])
   /\ recorded' = 0
   /\ ann' = [ann EXCEPT !.pc = "next"]
   /\ UNCHANGED dataset

InterruptAnnotation ==
   /\ ann.pc \in {"next", "reset", "play", "export"}
   /\ ann' = [ann EXCEPT !.pc = "interrupted"]
   /\ UNCHANGED <<recorded, annotated, dataset>>

AnnNext == \/ AnnKey \/ NextEpisode \/ NoMoreEpisodes \/ ResetTo \/ Play \/ SkipReplay
           \/ EndAuto \/ EndManual \/ ExportAnnotated \/ InterruptAnnotation
AnnEnded == ann.pc \in {"done", "interrupted", "raised"}
-----------------------------------------------------------------------------
(* Properties *)

\* The numbers of signals of the first end effectors, those without any left out.
CountsUpTo[e \in 0..Len(SignalCounts)] ==
   IF e = 0 THEN <<>>
   ELSE IF SignalCounts[e] > 0 THEN Append(CountsUpTo[e - 1], SignalCounts[e])
   ELSE CountsUpTo[e - 1]

\* The numbers of marks of each end effector's replay.
MarkCounts(collected) == [j \in DOMAIN collected |-> Len(collected[j])]

\* Whatever the operator pauses, skips and marks, an exported episode is the
\* recording of one complete replay of its source, it is exported once, and in
\* manual mode it has a mark for each signal (annotate_demos.py:278-287, 324-343,
\* 413-463).
AnnotationComplete ==
   /\ \A i \in DOMAIN annotated :
         /\ annotated[i].actions = dataset[annotated[i].src]
         /\ annotated[i].auto \/
               MarkCounts(annotated[i].signals) = CountsUpTo[Len(SignalCounts)]
   /\ \A i, j \in DOMAIN annotated : i < j => annotated[i].src < annotated[j].src

\* "subtask termination signal is false until subtask is complete, and true
\* afterwards" (annotate_demos.py:459): every signal becomes true in the episode.
SignalsBecomeTrue ==
   \A i \in DOMAIN annotated : \A j \in DOMAIN annotated[i].signals :
      \A m \in DOMAIN annotated[i].signals[j] :
         annotated[i].signals[j][m] < annotated[i].actions
=============================================================================

----------------------------- MODULE DemoReplay -----------------------------
(***************************************************************************)
(* main of replay_demos.py: the selected episodes of a dataset are handed  *)
(* out to the parallel environments, and each environment steps through    *)
(* the actions of its episode before it gets the next.                     *)
(*                                                                         *)
(* actions is the tensor of the idle actions itself, not a copy: what an   *)
(* iteration writes to a row is still there in the next one.               *)
(***************************************************************************)
EXTENDS Integers, Sequences, FiniteSetsExt

CONSTANTS NumEnvs,         \* --num_envs
          Selections       \* the values of --select_episodes, counted from 1

ASSUME ReplayAssumption == /\ NumEnvs \in Nat \ {0}
                           /\ Selections \subseteq Seq(Nat \ {0})

VARIABLES file,            \* the dataset: the number of actions of each episode
          rep,             \* the locals of main
          acting,          \* the environments that get an action in this iteration
          stepped          \* per load, the actions its environment stepped with

repVars == <<file, rep, acting, stepped>>

ReplayEnvs == 1..NumEnvs

\* Load 0 is the empty EpisodeData() every environment begins with.
NoEpisode == [load |-> 0, src |-> 0, next |-> 0]
Idle == [load |-> 0, k |-> 0]

RepTypeOK ==
   /\ file \in Seq(Nat)
   /\ rep.pc \in {"off", "assign", "wait", "done", "interrupted", "raised"}
   /\ rep.selected \in Seq(Nat) /\ rep.queue \in Seq(Nat) /\ rep.loads \in Seq(DOMAIN file)
   /\ rep.map \in [ReplayEnvs -> [load : 0..Len(rep.loads), src : 0..Len(file), next : Nat]]
   /\ rep.row \in [ReplayEnvs -> [load : 0..Len(rep.loads), k : Nat]]
   /\ rep.has \in BOOLEAN /\ rep.first \in BOOLEAN /\ rep.paused \in BOOLEAN
   /\ acting \in SUBSET ReplayEnvs
   /\ stepped \in Seq(Seq(Nat)) /\ Len(stepped) = Len(rep.loads)

RepInit ==
   /\ file = <<>>
   /\ rep = [pc |-> "off", selected |-> <<>>, queue |-> <<>>, loads |-> <<>>,
             map |-> [e \in ReplayEnvs |-> NoEpisode], row |-> [e \in ReplayEnvs |-> Idle],
             has |-> FALSE, first |-> TRUE, paused |-> FALSE]
   /\ acting = {}
   /\ stepped = <<>>

\* The dataset is opened.  An empty one ends the script; without a selection
\* every episode is replayed.
OpenFile(episodes, selection) ==
   /\ file' = episodes
   /\ LET all == [i \in DOMAIN episodes |-> i]
          selected == IF selection = <<>> THEN all ELSE selection IN
      rep' = [rep EXCEPT !.pc = IF episodes = <<>> THEN "done" ELSE "assign",
                         !.selected = selected, !.queue = selected]
   /\ UNCHANGED <<acting, stepped>>
-----------------------------------------------------------------------------
(* The loop over the environments *)

\* Wrong forms of the operators below.
HasKept(r) == [r EXCEPT !.pc = "wait"]
TakeUnnoticed(s, e, m) ==
   [s EXCEPT !.map[e] = [m EXCEPT !.next = @ + 1],
             !.row[e] = [load |-> m.load, k |-> m.next + 1]]

HasAction(m) == m.src # 0 /\ m.next < file[m.src]

\* The selection without the indices at its front that the dataset lacks.
Known(q) == {i \in DOMAIN q : q[i] <= Len(file)}
PopUnknown(q) == IF Known(q) = {} THEN <<>> ELSE SubSeq(q, Min(Known(q)), Len(q))

\* pop(0) and load_episode; the environment is reset to the initial state.
Load(s) == [s EXCEPT !.queue = Tail(@), !.loads = Append(@, Head(s.queue))]

\* get_next_action, and the row of e is overwritten with it.
TakeAction(s, e, m) ==
   [s EXCEPT !.map[e] = [m EXCEPT !.next = @ + 1],
             !.row[e] = [load |-> m.load, k |-> m.next + 1],
             !.has = TRUE]

\* The body of the loop.  A loaded episode without actions gives None, which
\* cannot be written to the row.
Assign(s, e) ==
   LET popped == [s EXCEPT !.queue = PopUnknown(@)]
       loaded == Load(popped)
       new == [load |-> Len(loaded.loads), src |-> Head(popped.queue), next |-> 0] IN
   CASE s.pc = "raised" -> s
     [] s.pc # "raised" /\ HasAction(s.map[e]) -> TakeAction(s, e, s.map[e])
     [] s.pc # "raised" /\ ~HasAction(s.map[e]) /\ popped.queue = <<>> -> popped
     [] OTHER -> IF HasAction(new) THEN TakeAction(loaded, e, new)
                 ELSE [loaded EXCEPT !.pc = "raised"]

\* has_next_action is FALSE again.  actions = idle_action changes no row.
StartIteration(r) == [r EXCEPT !.has = FALSE, !.pc = "wait"]

\* The loop, from the locals r.
AssignAll(r) ==
   LET upTo[e \in 0..NumEnvs] == IF e = 0 THEN r ELSE Assign(upTo[e - 1], e)
   IN  upTo[NumEnvs]

AssignActions ==
   /\ rep.pc = "assign"
   /\ rep' = AssignAll(StartIteration(rep))
   /\ acting' = {e \in ReplayEnvs : rep'.map[e] # rep.map[e]}
   /\ stepped' = stepped \o [l \in 1..Len(rep'.loads) - Len(stepped) |-> <<>>]
   /\ UNCHANGED file
-----------------------------------------------------------------------------
(* The step *)

\* N and B, whose callbacks run inside env.step and sim.render.
RepKey == /\ rep.pc \in {"assign", "wait"}
          /\ \E paused \in BOOLEAN : rep' = [rep EXCEPT !.paused = paused]
          /\ UNCHANGED <<file, acting, stepped>>

\* while is_paused, but for the first iteration.
MayStep(r) == r.first \/ ~r.paused

\* env.step with all rows.  The loop ends after an iteration in which no
\* environment had an action.
Step ==
   /\ rep.pc = "wait"
   /\ MayStep(rep)
   /\ stepped' = [l \in DOMAIN stepped |->
                     IF \E e \in acting : rep.row[e].load = l
                     THEN Append(stepped[l],
                                 rep.row[CHOOSE e \in acting : rep.row[e].load = l].k)
                     ELSE stepped[l]]
   /\ rep' = [rep EXCEPT !.first = FALSE, !.pc = IF rep.has THEN "assign" ELSE "done"]
   /\ UNCHANGED <<file, acting>>

InterruptReplay ==
   /\ rep.pc \in {"assign", "wait"}
   /\ rep' = [rep EXCEPT !.pc = "interrupted"]
   /\ UNCHANGED <<file, acting, stepped>>

RepNext == RepKey \/ AssignActions \/ Step \/ InterruptReplay
RepEnded == rep.pc \in {"done", "interrupted", "raised"}
-----------------------------------------------------------------------------
(* Properties *)

\* The indices of a selection that a dataset of n episodes has.
Existing(q, n) ==
   LET inLast[k \in 0..Len(q)] ==
          IF k = 0 THEN <<>>
          ELSE LET i == q[Len(q) + 1 - k]
               IN  (IF i <= n THEN <<i>> ELSE <<>>) \o inLast[k - 1]
   IN  inLast[Len(q)]

InFile(q) == Existing(q, Len(file))

\* However the episodes are spread over the environments, the selected episodes
\* of the dataset are loaded in the order of the selection, none left out, and
\* every load is stepped through from its first action, none skipped or repeated;
\* when the loop ends all of them were, to their last action
\* (replay_demos.py:185-223).
ReplayComplete ==
   /\ rep.loads \o InFile(rep.queue) = InFile(rep.selected)
   /\ \A l \in DOMAIN stepped : stepped[l] = [k \in 1..Len(stepped[l]) |-> k]
   /\ rep.pc = "done" => /\ InFile(rep.queue) = <<>>
                         /\ \A l \in DOMAIN stepped : Len(stepped[l]) = file[rep.loads[l]]

\* "initialize actions with idle action so those without next action will not
\* move" (replay_demos.py:186).
OthersIdle == rep.pc = "wait" => \A e \in ReplayEnvs \ acting : rep.row[e] = Idle
=============================================================================

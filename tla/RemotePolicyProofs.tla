------------------------- MODULE RemotePolicyProofs -------------------------
(***************************************************************************)
(* Proofs about RemotePolicy, for any clients, with and without the token, *)
(* any number of calls, time-outs, kills and crashes.                      *)
(***************************************************************************)
EXTENDS RemotePolicy, TLAPS

\* A request in the pipe is its client's own.
Addressed == \A c \in Clients : pipe[c] # NoMsg => pipe[c].from = c

\* What an answer to get_action can be.
ActionResults == \A c \in Clients :
   reply[c] # NoMsg /\ reply[c].endpoint = "get_action"
      => reply[c].result \in Tasks \cup {"error"}

TypeInv == TypeOK /\ Addressed /\ ActionResults

\* What the server is handling is c's request.
Serves(c) == serving # NoMsg /\ serving.from = c

\* The request of a client that is still calling is in the pipe, with the server
\* or answered, in one of these places at most, and asks for what the client does
\* now; a client that does not wait has none anywhere.
Placed(c) == pc[c] \in Phases =>
   /\ pipe[c] # NoMsg => /\ waiting[c] /\ pipe[c].endpoint \in EndpointsOf(pc[c])
                         /\ ~Serves(c) /\ reply[c] = NoMsg
   /\ Serves(c) => /\ waiting[c] /\ serving.endpoint \in EndpointsOf(pc[c])
                   /\ reply[c] = NoMsg
   /\ reply[c] # NoMsg => waiting[c] /\ reply[c].endpoint \in EndpointsOf(pc[c])

OnePlace == \A c \in Clients : Placed(c)

LEMMA InitTypeInv == Init => TypeInv
  BY RemoteAssumption DEF Init, TypeInv, TypeOK, Addressed, ActionResults, Tasks, Phases
-----------------------------------------------------------------------------
(* The types *)

LEMMA EndpointsType == \A p : EndpointsOf(p) \subseteq Endpoints
  BY DEF EndpointsOf, Endpoints

LEMMA AfterReplyType == \A p \in Phases : AfterReply(p) \in Phases \cup {"close"}
  BY DEF AfterReply, Phases

LEMMA ResultType ==
   ASSUME TypeOK, NEW r \in Requests
   PROVE  /\ Result(r) \in Results
          /\ r.endpoint = "get_action" => Result(r) \in Tasks \cup {"error"}
          /\ TaskAfter(r) \in Tasks
  BY DEF TypeOK, Result, TaskAfter, Raises, Unauthorized, TaskMissing, OtherSignature,
         Results, Tasks, Requests

LEMMA LoseSomeKeeps ==
   ASSUME TypeOK, NEW p, LoseSome(p)
   PROVE  /\ p \in [Clients -> Requests \cup {NoMsg}]
          /\ \A c \in Clients : p[c] \in {pipe[c], NoMsg}
  BY DEF TypeOK, LoseSome

LEMMA NextTypeInv == TypeInv /\ [Next]_vars => TypeInv'
<1> SUFFICES ASSUME TypeInv, [Next]_vars
             PROVE  TypeInv'
  OBVIOUS
<1> USE DEF TypeInv, Addressed, ActionResults, clientVars, serverVars
<1>1. ASSUME NEW c \in Clients, Call(c)
      PROVE  TypeInv'
  <2> PICK e \in EndpointsOf(pc[c]) : pipe' = [pipe EXCEPT ![c] = [from |-> c, endpoint |-> e]]
    BY <1>1 DEF Call
  <2>1. e \in Endpoints
    BY EndpointsType
  <2>2. [from |-> c, endpoint |-> e] \in Requests
    BY <2>1 DEF Requests
  <2>3. calls' \in [Clients -> 0..MaxCalls]
    BY <1>1, RemoteAssumption DEF Call, TypeOK
  <2>4. TypeOK'
    BY <1>1, <2>2, <2>3 DEF Call, TypeOK
  <2>5. QED
    BY <1>1, <2>4 DEF Call, TypeOK
<1>2. ASSUME NEW c \in Clients, Return(c)
      PROVE  TypeInv'
  <2>1. /\ AfterError(pc[c]) \in {"close", "failed"}
        /\ AfterReply(pc[c]) \in Phases \cup {"close"}
    BY <1>2, AfterReplyType DEF Return, AfterError
  <2>2. got' \in [Clients -> Tasks \cup {NoMsg}]
    BY <1>2 DEF Return, TypeOK
  <2>3. TypeOK'
    BY <1>2, <2>1, <2>2 DEF Return, TypeOK
  <2>4. QED
    BY <1>2, <2>3 DEF Return, TypeOK
<1>3. ASSUME NEW c \in Clients, TimeOut(c)
      PROVE  TypeInv'
  BY <1>3 DEF TimeOut, AfterError, TypeOK
<1>4. ASSUME NEW c \in Clients, FinishRun(c)
      PROVE  TypeInv'
  BY <1>4 DEF FinishRun, TypeOK, Phases
<1>5. ASSUME NEW c \in Clients, Close(c)
      PROVE  TypeInv'
  BY <1>5 DEF Close, TypeOK
<1>6. ASSUME NEW c \in Clients, Receive(c)
      PROVE  TypeInv'
  BY <1>6 DEF Receive, TypeOK
<1>7. ASSUME Respond
      PROVE  TypeInv'
  <2>1. serving \in Requests
    BY <1>7 DEF Respond, TypeOK
  <2>2. /\ serving.from \in Clients /\ serving.endpoint \in Endpoints
        /\ Result(serving) \in Results /\ TaskAfter(serving) \in Tasks
        /\ serving.endpoint = "get_action" => Result(serving) \in Tasks \cup {"error"}
    BY <2>1, ResultType DEF Requests
  <2>3. /\ pipe' \in [Clients -> Requests \cup {NoMsg}]
        /\ \A c \in Clients : pipe'[c] \in {pipe[c], NoMsg}
    <3>1. UNCHANGED pipe \/ LoseSome(pipe')
      BY <1>7 DEF Respond
    <3>2. QED
      BY <3>1, LoseSomeKeeps DEF TypeOK
  <2>4. \/ reply' = reply
        \/ reply' = [reply EXCEPT ![serving.from] = [endpoint |-> serving.endpoint,
                                                     result |-> Result(serving)]]
    BY <1>7 DEF Respond
  <2>5. reply' \in [Clients -> [endpoint : Endpoints, result : Results] \cup {NoMsg}]
    BY <2>2, <2>4 DEF TypeOK
  <2>6. TypeOK'
    BY <1>7, <2>2, <2>3, <2>5 DEF Respond, TypeOK
  <2>7. Addressed'
    BY <2>3
  <2>8. ActionResults'
    BY <2>2, <2>4 DEF TypeOK, Tasks
  <2>9. QED
    BY <2>6, <2>7, <2>8
<1>8. ASSUME Crash
      PROVE  TypeInv'
  <2>1. /\ pipe' \in [Clients -> Requests \cup {NoMsg}]
        /\ \A c \in Clients : pipe'[c] \in {pipe[c], NoMsg}
    BY <1>8, LoseSomeKeeps DEF Crash
  <2>2. crashes' \in 0..MaxCrashes
    BY <1>8, RemoteAssumption DEF Crash, TypeOK
  <2>3. QED
    BY <1>8, <2>1, <2>2 DEF Crash, TypeOK, Tasks
<1>9. ASSUME Restart
      PROVE  TypeInv'
  BY <1>9 DEF Restart, TypeOK
<1>10. CASE UNCHANGED vars
  BY <1>10 DEF vars, TypeOK
<1>11. QED
  BY <1>1, <1>2, <1>3, <1>4, <1>5, <1>6, <1>7, <1>8, <1>9, <1>10 DEF Next, ClientStep
-----------------------------------------------------------------------------
(* One call, one place *)

LEMMA NextOnePlace == TypeInv /\ OnePlace /\ [Next]_vars => OnePlace'
<1> SUFFICES ASSUME TypeInv, OnePlace, [Next]_vars, NEW d \in Clients
             PROVE  Placed(d)'
  BY DEF OnePlace
<1>a. Placed(d)
  BY DEF OnePlace
<1> USE DEF Placed, Serves, clientVars, serverVars
<1>1. ASSUME NEW c \in Clients, Call(c)
      PROVE  Placed(d)'
  <2> PICK e \in EndpointsOf(pc[c]) : pipe' = [pipe EXCEPT ![c] = [from |-> c, endpoint |-> e]]
    BY <1>1 DEF Call
  <2>1. CASE c = d
    BY <1>1, <1>a, <2>1 DEF Call, TypeInv, TypeOK
  <2>2. CASE c # d
    BY <1>1, <1>a, <2>2 DEF Call, TypeInv, TypeOK
  <2>3. QED
    BY <2>1, <2>2
<1>2. ASSUME NEW c \in Clients, Return(c)
      PROVE  Placed(d)'
  <2>1. CASE c = d
    BY <1>2, <1>a, <2>1 DEF Return, TypeInv, TypeOK
  <2>2. CASE c # d
    BY <1>2, <1>a, <2>2 DEF Return, TypeInv, TypeOK
  <2>3. QED
    BY <2>1, <2>2
<1>3. ASSUME NEW c \in Clients, TimeOut(c)
      PROVE  Placed(d)'
  BY <1>3, <1>a DEF TimeOut, AfterError, Phases, TypeInv, TypeOK
<1>4. ASSUME NEW c \in Clients, FinishRun(c)
      PROVE  Placed(d)'
  BY <1>4, <1>a DEF FinishRun, Phases, TypeInv, TypeOK
<1>5. ASSUME NEW c \in Clients, Close(c)
      PROVE  Placed(d)'
  BY <1>5, <1>a DEF Close, Phases, TypeInv, TypeOK
<1>6. ASSUME NEW c \in Clients, Receive(c)
      PROVE  Placed(d)'
  <2>1. pipe[c].from = c
    BY <1>6 DEF Receive, TypeInv, Addressed
  <2>2. CASE c = d
    BY <1>6, <1>a, <2>1, <2>2 DEF Receive, TypeInv, TypeOK
  <2>3. CASE c # d
    BY <1>6, <1>a, <2>1, <2>3 DEF Receive, TypeInv, TypeOK
  <2>4. QED
    BY <2>2, <2>3
<1>7. ASSUME Respond
      PROVE  Placed(d)'
  <2>1. serving.from \in Clients /\ serving.endpoint \in Endpoints
    BY <1>7 DEF Respond, TypeInv, TypeOK, Requests
  <2>2. pipe'[d] \in {pipe[d], NoMsg}
    <3>1. UNCHANGED pipe \/ LoseSome(pipe')
      BY <1>7 DEF Respond
    <3>2. QED
      BY <3>1, LoseSomeKeeps DEF TypeInv
  <2>3. serving' = NoMsg /\ UNCHANGED <<pc, waiting>>
    BY <1>7 DEF Respond
  <2>4. CASE serving.from = d
    <3>1. pc[d] \in Phases =>
             reply'[d] = [endpoint |-> serving.endpoint, result |-> Result(serving)]
      BY <1>7, <2>4 DEF Respond, Listening, TypeInv, TypeOK
    <3>2. QED
      BY <1>7, <1>a, <2>2, <2>3, <2>4, <3>1 DEF Respond
  <2>5. CASE serving.from # d
    <3>1. reply'[d] = reply[d]
      BY <1>7, <2>1, <2>5 DEF Respond, TypeInv, TypeOK
    <3>2. QED
      BY <1>a, <2>2, <2>3, <2>5, <3>1
  <2>6. QED
    BY <2>4, <2>5
<1>8. ASSUME Crash
      PROVE  Placed(d)'
  <2>1. pipe'[d] \in {pipe[d], NoMsg}
    BY <1>8, LoseSomeKeeps DEF Crash, TypeInv
  <2>2. QED
    BY <1>8, <1>a, <2>1 DEF Crash
<1>9. ASSUME Restart
      PROVE  Placed(d)'
  BY <1>9, <1>a DEF Restart
<1>10. CASE UNCHANGED vars
  BY <1>10, <1>a DEF vars
<1>11. QED
  BY <1>1, <1>2, <1>3, <1>4, <1>5, <1>6, <1>7, <1>8, <1>9, <1>10 DEF Next, ClientStep

LEMMA PlacesHold == Spec => [](TypeInv /\ OnePlace)
<1>1. Init => OnePlace
  BY DEF Init, OnePlace, Placed, Serves
<1>2. QED
  BY InitTypeInv, NextTypeInv, NextOnePlace, <1>1, PTL DEF Spec

\* A client takes the answer to the call it is in, through any late reply, lost
\* request, kill or crash: TypeOK and AnswersOwnCall
\* (policy_client.py:24, 120-126; policy_server.py:140-187).
THEOREM OwnAnswers == Spec => [](TypeOK /\ AnswersOwnCall)
<1>1. TypeInv /\ OnePlace => TypeOK /\ AnswersOwnCall
  BY DEF TypeInv, OnePlace, Placed, Serves, AnswersOwnCall
<1>2. QED
  BY PlacesHold, <1>1, PTL
-----------------------------------------------------------------------------
(* One task *)

OneTask == \A c, d \in Clients : TaskOf[c] = TaskOf[d]

\* An action on its way to a client was computed for a task that was set.
ActionOnTheWay == \A c \in Clients :
   reply[c] # NoMsg /\ reply[c].endpoint = "get_action"
      => reply[c].result \in {"error", TaskOf[c]}

LEMMA NextActionOnTheWay ==
   OneTask /\ TypeInv /\ ActionOnTheWay /\ [Next]_vars => ActionOnTheWay'
<1> SUFFICES ASSUME OneTask, TypeInv, ActionOnTheWay, [Next]_vars, NEW d \in Clients,
                    reply'[d] # NoMsg, reply'[d].endpoint = "get_action"
             PROVE  reply'[d].result \in {"error", TaskOf[d]}
  BY DEF ActionOnTheWay
<1>1. CASE reply'[d] = reply[d]
  BY <1>1 DEF ActionOnTheWay
<1>2. CASE reply'[d] # reply[d]
  <2>1. Respond
    BY <1>2 DEF Next, ClientStep, Call, Return, TimeOut, FinishRun, Close, Receive, Crash,
                Restart, vars, clientVars, serverVars, TypeInv, TypeOK
  <2>2. serving \in Requests
    BY <2>1 DEF Respond, TypeInv, TypeOK
  <2>3. reply'[d] = [endpoint |-> serving.endpoint, result |-> Result(serving)]
    BY <1>2, <2>1, <2>2 DEF Respond, TypeInv, TypeOK, Requests
  <2>4. serving.endpoint = "get_action"
    BY <2>3
  <2>5. Result(serving) = "error" \/ (Result(serving) = task /\ task # NoTask)
    BY <2>4 DEF Result, Raises, TaskMissing
  <2>6. task \in {TaskOf[d], NoTask}
    BY DEF OneTask, TypeInv, TypeOK, Tasks
  <2>7. QED
    BY <2>3, <2>5, <2>6
<1>3. QED
  BY <1>1, <1>2

LEMMA NextActionForTask ==
   ActionOnTheWay /\ TypeInv /\ ActionForTask /\ [Next]_vars => ActionForTask'
<1> SUFFICES ASSUME ActionOnTheWay, TypeInv, ActionForTask, [Next]_vars, NEW d \in Clients
             PROVE  got'[d] \in {NoMsg, TaskOf[d]}
  BY DEF ActionForTask
<1>1. CASE got'[d] = got[d]
  BY <1>1 DEF ActionForTask
<1>2. CASE got'[d] # got[d]
  <2>1. Return(d)
    BY <1>2 DEF Next, ClientStep, Call, Return, TimeOut, FinishRun, Close, Receive, Crash,
                Respond, Restart, vars, clientVars, serverVars, TypeInv, TypeOK
  <2>2. QED
    BY <1>2, <2>1 DEF Return, ActionOnTheWay, TypeInv, TypeOK
<1>3. QED
  BY <1>1, <1>2

\* When all clients evaluate the same task, no client ever acts on another, also
\* after the server was restarted and lost the description
\* (policy_server.py:73-82, 93-118; gr00t_remote_policy.py:157, 177-181).
THEOREM ActsForItsTask == OneTask => (Spec => []ActionForTask)
<1> SUFFICES ASSUME OneTask
             PROVE  Spec => []ActionForTask
  OBVIOUS
<1>1. Init => ActionOnTheWay /\ ActionForTask
  BY DEF Init, ActionOnTheWay, ActionForTask
<1>2. TypeInv /\ ActionOnTheWay /\ ActionForTask /\ [Next]_vars
         => ActionOnTheWay' /\ ActionForTask'
  BY NextActionOnTheWay, NextActionForTask
<1>3. QED
  BY PlacesHold, <1>1, <1>2, PTL DEF Spec
-----------------------------------------------------------------------------
(* No error *)

LEMMA RunPhase ==
   /\ \A p : "get_action" \in EndpointsOf(p) => p = "run"
   /\ \A p \in Phases : AfterReply(p) = "run" => p \in {"task", "run"}
   /\ EndpointsOf("task") = {"set_task_description"}
  BY DEF EndpointsOf, AfterReply, Phases

\* While the server has not crashed, the description is set from the moment a
\* client with the token was told so: before it asks for an action, and for as
\* long as its question is on the way.
TaskSet == crashes = 0 =>
   /\ \A c \in Authorized :
         /\ pc[c] = "run" => task # NoTask
         /\ pipe[c] # NoMsg /\ pipe[c].endpoint = "get_action" => task # NoTask
         /\ reply[c] # NoMsg /\ pc[c] = "task" => task # NoTask
   /\ serving # NoMsg /\ serving.from \in Authorized /\ serving.endpoint = "get_action"
         => task # NoTask

\* A description that was set stays, another may replace it.
LEMMA TaskStays ==
   ASSUME TypeInv, task # NoTask, NEW r \in Requests
   PROVE  TaskAfter(r) # NoTask
  BY DescriptionAssumption DEF TaskAfter, Requests

LEMMA NoErrorResult ==
   ASSUME PairPolicy, TypeInv, TaskSet, crashes = 0, serving # NoMsg,
          serving.from \in Authorized
   PROVE  ~Raises(serving) /\ Result(serving) # "error"
<1>1. ~Raises(serving)
  BY DEF TaskSet, Raises, Unauthorized, TaskMissing, OtherSignature
<1>2. task # NoTask => task # "error"
  BY DescriptionAssumption DEF TypeInv, TypeOK, Tasks
<1>3. QED
  BY <1>1, <1>2 DEF Result, TaskSet

LEMMA NextTaskSet ==
   PairPolicy /\ TypeInv /\ OnePlace /\ NoServerError /\ TaskSet /\ [Next]_vars
      => NoServerError' /\ TaskSet'
<1> SUFFICES ASSUME PairPolicy, TypeInv, OnePlace, NoServerError, TaskSet, [Next]_vars,
                    crashes' = 0
             PROVE  NoServerError' /\ TaskSet'
  BY DEF NoServerError, TaskSet
<1> USE RemoteAssumption DEF clientVars, serverVars
<1>a. crashes = 0 /\ ~Crash
  BY DEF Next, ClientStep, Call, Return, TimeOut, FinishRun, Close, Receive, Crash,
         Respond, Restart, vars, TypeInv, TypeOK
<1>1. ASSUME NEW c \in Clients, Call(c)
      PROVE  NoServerError' /\ TaskSet'
  <2>1. \A d \in Clients : pipe'[d] # pipe[d] /\ pipe'[d].endpoint = "get_action"
                              => pc[d] = "run"
    BY <1>1, RunPhase DEF Call, TypeInv, TypeOK
  <2>2. TaskSet'
    BY <1>1, <1>a, <2>1 DEF Call, TaskSet
  <2>3. QED
    BY <1>1, <1>a, <2>2 DEF Call, NoServerError
<1>2. ASSUME NEW c \in Clients, Return(c)
      PROVE  NoServerError' /\ TaskSet'
  <2>1. \A d \in Clients : reply'[d] \in {reply[d], NoMsg}
    BY <1>2 DEF Return, TypeInv, TypeOK
  <2>2. NoServerError'
    BY <1>2, <1>a, <2>1 DEF Return, NoServerError
  <2>3. ASSUME NEW d \in Authorized, pc'[d] = "run"
        PROVE  task # NoTask
    <3>1. CASE d = c
      <4>1. reply[c] # NoMsg /\ pc[c] \in Phases /\ AfterReply(pc[c]) = "run"
        BY <1>2, <2>3, <3>1 DEF Return, AfterError, TypeInv, TypeOK
      <4>2. pc[c] \in {"task", "run"}
        BY <4>1, RunPhase
      <4>3. QED
        BY <1>a, <3>1, <4>1, <4>2 DEF TaskSet
    <3>2. CASE d # c
      BY <1>2, <1>a, <2>3, <3>2 DEF Return, TaskSet, TypeInv, TypeOK
    <3>3. QED
      BY <3>1, <3>2
  <2>4. ASSUME NEW d \in Authorized, reply'[d] # NoMsg, pc'[d] = "task"
        PROVE  task # NoTask
    <3>1. d # c
      BY <1>2, <2>4 DEF Return, TypeInv, TypeOK
    <3>2. reply[d] # NoMsg /\ pc[d] = "task"
      BY <1>2, <2>4, <3>1 DEF Return, TypeInv, TypeOK
    <3>3. QED
      BY <1>a, <3>2 DEF TaskSet
  <2>5. UNCHANGED <<task, pipe, serving>>
    BY <1>2 DEF Return
  <2>6. QED
    BY <1>a, <2>2, <2>3, <2>4, <2>5 DEF TaskSet
<1>3. ASSUME NEW c \in Clients, TimeOut(c) \/ FinishRun(c) \/ Close(c)
      PROVE  NoServerError' /\ TaskSet'
  <2>1. /\ \A d \in Clients : /\ pc'[d] \in {pc[d], "close", "failed", "closed", "kill"}
                              /\ pipe'[d] \in {pipe[d], NoMsg}
        /\ UNCHANGED <<task, serving, reply, crashes>>
    BY <1>3 DEF TimeOut, FinishRun, Close, AfterError, TypeInv, TypeOK
  <2>2. QED
    BY <2>1 DEF TaskSet, NoServerError
<1>4. ASSUME NEW c \in Clients, Receive(c)
      PROVE  NoServerError' /\ TaskSet'
  <2>1. /\ pipe[c].from = c /\ serving' = pipe[c] /\ pipe[c] # NoMsg
        /\ \A d \in Clients : pipe'[d] \in {pipe[d], NoMsg}
        /\ UNCHANGED <<task, pc, reply, crashes>>
    BY <1>4 DEF Receive, TypeInv, TypeOK, Addressed
  <2>2. QED
    BY <2>1 DEF TaskSet, NoServerError
<1>5. ASSUME Respond
      PROVE  NoServerError' /\ TaskSet'
  <2>1. serving \in Requests /\ serving # NoMsg
    BY <1>5 DEF Respond, TypeInv, TypeOK
  <2>2. UNCHANGED <<pc, crashes>> /\ serving' = NoMsg /\ task' = TaskAfter(serving)
    BY <1>5 DEF Respond
  <2>3. \A d \in Clients : pipe'[d] \in {pipe[d], NoMsg}
    <3>1. UNCHANGED pipe \/ LoseSome(pipe')
      BY <1>5 DEF Respond
    <3>2. QED
      BY <3>1, LoseSomeKeeps DEF TypeInv
  <2>4. ASSUME NEW d \in Authorized, reply'[d] # reply[d]
        PROVE  /\ serving.from = d
               /\ reply'[d] = [endpoint |-> serving.endpoint, result |-> Result(serving)]
               /\ pc[d] \in Phases
    BY <1>5, <2>1, <2>4 DEF Respond, Listening, Requests, TypeInv, TypeOK
  <2>5. NoServerError'
    <3> SUFFICES ASSUME NEW d \in Authorized, reply'[d] # NoMsg
                 PROVE  reply'[d].result # "error"
      BY DEF NoServerError
    <3>1. CASE reply'[d] = reply[d]
      BY <1>a, <3>1 DEF NoServerError
    <3>2. CASE reply'[d] # reply[d]
      <4>1. Result(serving) # "error"
        BY <1>a, <2>1, <2>4, <3>2, NoErrorResult
      <4>2. QED
        BY <2>4, <3>2, <4>1
    <3>3. QED
      BY <3>1, <3>2
  <2>6. task # NoTask => task' # NoTask
    BY <2>1, <2>2, TaskStays
  <2>7. ASSUME NEW d \in Authorized, reply'[d] # NoMsg, pc'[d] = "task"
        PROVE  task' # NoTask
    <3>1. CASE reply'[d] = reply[d]
      BY <1>a, <2>2, <2>6, <2>7, <3>1 DEF TaskSet
    <3>2. CASE reply'[d] # reply[d]
      <4>1. serving.endpoint = "set_task_description"
        BY <2>1, <2>2, <2>4, <2>7, <3>2, RunPhase DEF OnePlace, Placed, Serves
      <4>2. ~Raises(serving)
        BY <1>a, <2>1, <2>4, <3>2, NoErrorResult
      <4>3. QED
        BY <2>1, <2>2, <4>1, <4>2, DescriptionAssumption DEF TaskAfter, Requests
    <3>3. QED
      BY <3>1, <3>2
  <2>8. TaskSet'
    BY <1>a, <2>2, <2>3, <2>6, <2>7 DEF TaskSet
  <2>9. QED
    BY <2>5, <2>8
<1>6. ASSUME Restart
      PROVE  NoServerError' /\ TaskSet'
  BY <1>6 DEF Restart, TaskSet, NoServerError
<1>7. CASE UNCHANGED vars
  BY <1>7 DEF vars, TaskSet, NoServerError
<1>8. QED
  BY <1>a, <1>1, <1>2, <1>3, <1>4, <1>5, <1>6, <1>7 DEF Next, ClientStep

\* A server whose policy has the signatures it calls, and that did not crash,
\* answers no client with the token by an error, whatever the others do and
\* whoever gave up before (policy_server.py:63-127, 151-187).
THEOREM NoErrorWithoutCrash == PairPolicy => (Spec => []NoServerError)
<1> SUFFICES ASSUME PairPolicy
             PROVE  Spec => []NoServerError
  OBVIOUS
<1>1. Init => NoServerError /\ TaskSet
  BY RemoteAssumption DEF Init, NoServerError, TaskSet
<1>2. TypeInv /\ OnePlace /\ NoServerError /\ TaskSet /\ [Next]_vars
         => NoServerError' /\ TaskSet'
  BY NextTaskSet
<1>3. QED
  BY PlacesHold, <1>1, <1>2, PTL DEF Spec
=============================================================================

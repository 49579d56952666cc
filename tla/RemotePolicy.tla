---------------------------- MODULE RemotePolicy ----------------------------
(***************************************************************************)
(* Clients that evaluate a remote policy (ClientSidePolicy driven by       *)
(* policy_runner.py, over PolicyClient) and the PolicyServer they share,   *)
(* of isaaclab_arena/remote_policy and isaaclab_arena/policy.              *)
(*                                                                         *)
(* A call is a request on a ZeroMQ REQ socket and the wait for its reply,  *)
(* at most timeout_ms long.  What the model needs of ZeroMQ is this: a REQ *)
(* socket may not send again before it got the reply, a request is kept    *)
(* until a server takes it, and closing a client waits for its request to  *)
(* be taken (the default linger).  The server handles one request at a     *)
(* time, in any order between clients.                                     *)
(***************************************************************************)
EXTENDS Integers

CONSTANTS Clients,
          Authorized,      \* the clients with the server's api_token
          Killers,         \* those with --remote_kill_on_exit
          TaskOf,          \* the task description each client evaluates
          NoTask, NoMsg,
          PairPolicy,      \* whether the served policy has the signatures that
                           \* PolicyServer calls, or those of the documentation
          MaxCalls,        \* bound: the remote calls of one rollout
          MaxCrashes       \* bound: the crashes of the server

ASSUME RemoteAssumption == /\ Authorized \subseteq Clients
                           /\ Killers \subseteq Clients
                           /\ PairPolicy \in BOOLEAN
                           /\ MaxCalls \in Nat /\ MaxCrashes \in Nat

\* A client has a description, and a description is not a status.
ASSUME DescriptionAssumption == \A c \in Clients : TaskOf[c] \notin {NoTask, "ok", "error"}

VARIABLES pc,              \* where each client is
          waiting,         \* its REQ socket waits for a reply
          calls,           \* its remote calls of the rollout
          got,             \* the task its last action was computed for, or NoMsg
          pipe,            \* its request, until the server takes it
          reply,           \* the reply on its way to it
          server,          \* "up", "killed" or "crashed"
          serving,         \* the request being handled
          task,            \* _task_description of the served policy
          crashes

clientVars == <<pc, waiting, calls, got>>
serverVars == <<server, serving, task, crashes>>
vars == <<clientVars, pipe, reply, serverVars>>

Phases == {"ping", "init", "reset", "task", "run", "kill"}
Endpoints == {"ping", "get_init_info", "reset", "set_task_description", "get_action", "kill"}
Requests == [from : Clients, endpoint : Endpoints]
Tasks == {TaskOf[c] : c \in Clients} \cup {NoTask}
Results == {"ok", "error"} \cup Tasks

TypeOK == /\ pc \in [Clients -> Phases \cup {"close", "closed", "failed"}]
          /\ waiting \in [Clients -> BOOLEAN]
          /\ calls \in [Clients -> 0..MaxCalls]
          /\ got \in [Clients -> Tasks \cup {NoMsg}]
          /\ pipe \in [Clients -> Requests \cup {NoMsg}]
          /\ reply \in [Clients -> [endpoint : Endpoints, result : Results] \cup {NoMsg}]
          /\ server \in {"up", "killed", "crashed"}
          /\ serving \in Requests \cup {NoMsg}
          /\ task \in Tasks
          /\ crashes \in 0..MaxCrashes

Init == /\ pc = [c \in Clients |-> "ping"]
        /\ waiting = [c \in Clients |-> FALSE]
        /\ calls = [c \in Clients |-> 0]
        /\ got = [c \in Clients |-> NoMsg]
        /\ pipe = [c \in Clients |-> NoMsg]
        /\ reply = [c \in Clients |-> NoMsg]
        /\ server = "up"
        /\ serving = NoMsg
        /\ task = NoTask
        /\ crashes = 0
-----------------------------------------------------------------------------
(* The client *)

\* Wrong forms of the two operators below: an endpoint the server does not know,
\* and a rollout that does not set the task description.
MisnamedEndpoint(phase) ==
   IF phase \in {"close", "closed", "failed"} THEN {} ELSE {"set_task"}
NoTaskSet(phase) ==
   CASE phase = "ping" -> "init"
     [] phase = "init" -> "reset"
     [] phase \in {"reset", "task", "run"} -> "run"
     [] phase = "kill" -> "close"

\* The constructor pings and shakes hands, rollout_policy resets the policy and
\* sets the task, its loop calls get_action and reset, and shutdown_remote kills
\* the server if asked to.
EndpointsOf(phase) ==
   CASE phase = "ping" -> {"ping"}
     [] phase = "init" -> {"get_init_info"}
     [] phase = "reset" -> {"reset"}
     [] phase = "task" -> {"set_task_description"}
     [] phase = "run" -> {"get_action", "reset"}
     [] phase = "kill" -> {"kill"}
     [] OTHER -> {}

AfterReply(phase) ==
   CASE phase = "ping" -> "init"
     [] phase = "init" -> "reset"
     [] phase = "reset" -> "task"
     [] phase = "task" -> "run"
     [] phase = "run" -> "run"
     [] phase = "kill" -> "close"

\* An exception ends the program, except that shutdown_remote ignores it.
AfterError(phase) == IF phase = "kill" THEN "close" ELSE "failed"

\* call_endpoint up to the recv.
Call(c) ==
   /\ ~waiting[c]
   /\ pc[c] = "run" => calls[c] < MaxCalls
   /\ \E e \in EndpointsOf(pc[c]) :
        pipe' = [pipe EXCEPT ![c] = [from |-> c, endpoint |-> e]]
   /\ waiting' = [waiting EXCEPT ![c] = TRUE]
   /\ calls' = IF pc[c] = "run" THEN [calls EXCEPT ![c] = @ + 1] ELSE calls
   /\ UNCHANGED <<pc, got, reply, serverVars>>

\* The reply arrives in time: call_endpoint returns it or raises its error.
Return(c) ==
   /\ waiting[c] /\ reply[c] # NoMsg
   /\ pc[c] \in Phases
   /\ LET r == reply[c].result
      IN  /\ pc' = [pc EXCEPT ![c] = IF r = "error" THEN AfterError(@) ELSE AfterReply(@)]
          /\ got' = IF reply[c].endpoint = "get_action" /\ r # "error"
                    THEN [got EXCEPT ![c] = r] ELSE got
   /\ waiting' = [waiting EXCEPT ![c] = FALSE]
   /\ reply' = [reply EXCEPT ![c] = NoMsg]
   /\ UNCHANGED <<calls, pipe, serverVars>>

\* Wrong forms: a call that timed out is made again on a socket that may send,
\* and a socket without RCVTIMEO.
WaitForever(c) == FALSE /\ UNCHANGED vars
Retry(c) ==
   /\ waiting[c] /\ pc[c] \in Phases
   /\ waiting' = [waiting EXCEPT ![c] = FALSE]
   /\ UNCHANGED <<pc, calls, got, pipe, reply, serverVars>>

\* recv raises zmq.Again, be the reply on its way or not.  A program that ends
\* takes its unsent request with it.
TimeOut(c) ==
   /\ waiting[c] /\ pc[c] \in Phases
   /\ pc' = [pc EXCEPT ![c] = AfterError(@)]
   /\ pipe' = IF AfterError(pc[c]) = "failed" THEN [pipe EXCEPT ![c] = NoMsg] ELSE pipe
   /\ UNCHANGED <<waiting, calls, got, reply, serverVars>>

\* The rollout is over, after any number of calls.
FinishRun(c) ==
   /\ pc[c] = "run" /\ ~waiting[c]
   /\ pc' = [pc EXCEPT ![c] = IF c \in Killers THEN "kill" ELSE "close"]
   /\ UNCHANGED <<waiting, calls, got, pipe, reply, serverVars>>

\* PolicyClient.close: context.term returns once no request is left to send.
Close(c) ==
   /\ pc[c] = "close"
   /\ pipe[c] = NoMsg
   /\ pc' = [pc EXCEPT ![c] = "closed"]
   /\ UNCHANGED <<waiting, calls, got, pipe, reply, serverVars>>
-----------------------------------------------------------------------------
(* The server *)

Receive(c) ==
   /\ server = "up" /\ serving = NoMsg
   /\ pipe[c] # NoMsg
   /\ serving' = pipe[c]
   /\ pipe' = [pipe EXCEPT ![c] = NoMsg]
   /\ UNCHANGED <<clientVars, reply, server, task, crashes>>

\* The requests answered by an error: without the token, for an action without a
\* task description, and those whose handlers call the policy with arguments
\* (reset) or expect of it a result (get_action) other than the documented.
Unauthorized(r) == r.from \notin Authorized
TaskMissing(r) == r.endpoint = "get_action" /\ task = NoTask
OtherSignature(r) == r.endpoint \in {"get_action", "reset"} /\ ~PairPolicy

\* Wrong form: the policy does not check that a task description is set.
RaisesIfUnauthorized(r) == Unauthorized(r)

Raises(r) == Unauthorized(r) \/ TaskMissing(r) \/ OtherSignature(r)

\* The answer and the policy's task description after it.
Result(r) == IF Raises(r) THEN "error"
             ELSE IF r.endpoint = "get_action" THEN task ELSE "ok"
TaskAfter(r) == IF r.endpoint = "set_task_description" /\ ~Raises(r)
                THEN TaskOf[r.from] ELSE task

\* A client that has ended gets no reply.
Listening(c) == pc[c] \in Phases

\* Requests a server that goes down had received but not handled are lost.
LoseSome(p) == \E lost \in SUBSET Clients :
   p = [c \in Clients |-> IF c \in lost THEN NoMsg ELSE pipe[c]]

\* The handler and the reply; the loop ends after a kill was answered.
Respond ==
   /\ serving # NoMsg
   /\ LET c == serving.from
          kill == serving.endpoint = "kill" /\ ~Raises(serving)
      IN  /\ reply' = IF Listening(c)
                      THEN [reply EXCEPT ![c] = [endpoint |-> serving.endpoint,
                                                 result |-> Result(serving)]]
                      ELSE reply
          /\ task' = TaskAfter(serving)
          /\ server' = IF kill THEN "killed" ELSE server
          /\ IF kill THEN LoseSome(pipe') ELSE UNCHANGED pipe
   /\ serving' = NoMsg
   /\ UNCHANGED <<clientVars, crashes>>

\* The server process dies, and is started again without its task description.
Crash ==
   /\ server = "up" /\ crashes < MaxCrashes
   /\ server' = "crashed"
   /\ serving' = NoMsg
   /\ task' = NoTask
   /\ crashes' = crashes + 1
   /\ LoseSome(pipe')
   /\ UNCHANGED <<clientVars, reply>>

Restart ==
   /\ server = "crashed"
   /\ server' = "up"
   /\ UNCHANGED <<clientVars, pipe, reply, serving, task, crashes>>

ClientStep(c) == Call(c) \/ Return(c) \/ TimeOut(c) \/ FinishRun(c) \/ Close(c)

Next == \/ \E c \in Clients : ClientStep(c) \/ Receive(c)
        \/ Respond \/ Crash \/ Restart

ServerStep == Respond \/ \E c \in Clients : Receive(c)

\* A client that can take a step does, and timeout_ms is finite; a server that is
\* up serves.  A server that crashed need not be started again.
Spec == Init /\ [][Next]_vars /\ WF_vars(ServerStep)
             /\ \A c \in Clients : WF_vars(ClientStep(c))
-----------------------------------------------------------------------------
(* Properties *)

\* A client takes the reply of the call it is in, never the late reply of an
\* earlier one, and while it waits its request is in exactly one place or lost
\* (policy_client.py:24, 120-126; policy_server.py:140-187).
AnswersOwnCall == \A c \in Clients : reply[c] # NoMsg /\ pc[c] \in Phases =>
   /\ reply[c].endpoint \in EndpointsOf(pc[c])
   /\ waiting[c]
   /\ pipe[c] = NoMsg
   /\ serving # NoMsg => serving.from # c

\* No action is computed for another task than the client's, when all clients
\* evaluate the same task (the ranks of a distributed run), not even by a server
\* that was restarted and never got the description
\* (policy_server.py:73-82, 93-118; gr00t_remote_policy.py:157, 177-181).
ActionForTask == \A c \in Clients : got[c] \in {NoMsg, TaskOf[c]}

\* A server that did not crash answers no client with the token by an error,
\* whatever the other clients do (policy_server.py:63-127, 151-187).
NoServerError == crashes = 0 => \A c \in Authorized :
   reply[c] # NoMsg => reply[c].result # "error"

\* A client waits in context.term for its kill request to be taken by a server that
\* another client's kill has stopped.
Stranded(c) == /\ pc[c] = "close" /\ pipe[c] # NoMsg
               /\ server = "killed"
               /\ \E k \in Killers \ {c} : pipe[k] = NoMsg

\* With a server that only a kill stops, every client ends: it closes or its
\* program fails, also when another client killed the server under it.  Of several
\* that kill it, and only of these, some may be left waiting for a server to take
\* their kill (policy_client.py:24, 107-131; policy_server.py:88-91, 140-187).
Ends == [](crashes = 0) => \A c \in Clients :
   <>(pc[c] \in {"closed", "failed"} \/ (c \in Killers /\ Stranded(c)))

\* shutdown_remote is to "Clean up the remote client and optionally stop the
\* remote server", ignoring that the server does not answer: it returns, also when
\* another client has stopped the server first (client_side_policy.py:135-142).
ShutdownReturns == \A c \in Clients : pc[c] = "close" ~> pc[c] = "closed"
=============================================================================

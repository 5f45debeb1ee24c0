----------------------------- MODULE NodeServer -----------------------------
(***************************************************************************)
(* NodeServer (node/node_server.cpp): mosquitto's loop thread receives         *)
(* requests and submits them to the executor, whose worker handles one after   *)
(* the other and answers; the threads of the nodes publish events of their     *)
(* own.  The connection comes and goes, and the owner starts and stops the     *)
(* server.                                                                    *)
(*                                                                         *)
(* What a request does to the nodes is in NodeGraph.  Here it makes a node,    *)
(* removes all of them or does neither.  Executor has how a task is waited     *)
(* for; here the executor's end waits for the task that runs, or for ever for  *)
(* a worker that missed the destructor's notification.                         *)
(***************************************************************************)
EXTENDS Naturals, Sequences, FiniteSets

CONSTANTS
    Requests,  \* messages, each received once at most
    ActionOf,  \* ActionOf[r]: "create" with the type of the node, "clear", another, or
               \* "malformed": no request by its type, or a field is of the wrong kind
    MaxRuns,   \* bound: successful starts
    NoRequest

VARIABLES
    owner,     \* where start() and stop() are
    running,   \* running_
    mosq,      \* mosq_ is set
    executor,  \* executor_ is set
    loop,      \* the loop thread: "none", "up", "ended"
    link,      \* mosquitto has a connection
    connected, \* connected_
    tasks,     \* requests in the executor's queue
    worker,    \* the request that is handled, and how far it is
    nodes,     \* requests whose nodes exist
    talker,    \* a node's thread is inside event()
    open,      \* requests received that were neither answered nor given up (history)
    received,  \* requests received (history)
    runs       \* starts so far

vars == <<owner, running, mosq, executor, loop, link, connected, tasks, worker, nodes, talker,
          open, received, runs>>
server == <<owner, running, mosq, executor, runs>>

ServerAssumption == MaxRuns \in Nat /\ NoRequest \notin Requests

Malformed(r) == ActionOf[r] = "malformed"
Creates(r) == ActionOf[r] \in {"create_model", "create_camera", "create_stream"}
Rest == [request |-> NoRequest, at |-> "waiting"]

Init ==
    /\ owner = "idle" /\ running = FALSE /\ mosq = FALSE /\ executor = FALSE
    /\ loop = "none" /\ link = FALSE /\ connected = FALSE
    /\ tasks = <<>> /\ worker = Rest /\ nodes = {} /\ talker = FALSE
    /\ open = {} /\ received = {} /\ runs = 0

-----------------------------------------------------------------------------
(* The owner *)

\* start: without a broker the client is destroyed again
Start(ok) ==
    /\ owner = "idle" /\ ~running /\ runs < MaxRuns
    /\ IF ok THEN /\ mosq' = TRUE /\ executor' = TRUE /\ running' = TRUE
                  /\ loop' = "up" /\ link' = TRUE /\ runs' = runs + 1
       ELSE UNCHANGED <<mosq, executor, running, loop, link, runs>>
    /\ UNCHANGED <<owner, connected, tasks, worker, nodes, talker, open, received>>

\* stop: mosquitto_disconnect
Stop ==
    /\ owner = "idle" /\ running
    /\ running' = FALSE /\ owner' = "join"
    /\ UNCHANGED <<mosq, executor, loop, link, connected, tasks, worker, nodes, talker, open, received, runs>>

\* Mutant of JoinLoop: the loop thread is not waited for.
JoinLoopNot ==
    /\ owner = "join" /\ owner' = "cancel"
    /\ UNCHANGED <<running, mosq, executor, loop, link, connected, tasks, worker, nodes, talker, open, received, runs>>

\* loop_thread_.join()
JoinLoop ==
    /\ owner = "join" /\ loop = "ended"
    /\ owner' = "cancel" /\ loop' = "none"
    /\ UNCHANGED <<running, mosq, executor, link, connected, tasks, worker, nodes, talker, open, received, runs>>

\* executor_->cancel(): the requests in the queue are given up
Cancel ==
    /\ owner = "cancel" /\ owner' = "executor"
    /\ open' = open \ {tasks[i] : i \in DOMAIN tasks}
    /\ tasks' = <<>>
    /\ UNCHANGED <<running, mosq, executor, loop, link, connected, worker, nodes, talker, received, runs>>

\* executor_.reset(): the task that runs ends first.  A worker that is about to wait
\* may miss the destructor's notification, as Executor shows, and stop hangs.
ResetExecutor ==
    /\ owner = "executor" /\ worker = Rest
    /\ \/ executor' = FALSE /\ owner' = "nodes"
       \/ owner' = "hung" /\ UNCHANGED executor
    /\ UNCHANGED <<running, mosq, loop, link, connected, tasks, worker, nodes, talker, open, received, runs>>

\* Mutant of DestroyNodes: the nodes' threads are not waited for.
DestroyNodesLate ==
    /\ owner = "nodes" /\ owner' = "client"
    /\ UNCHANGED <<running, mosq, executor, loop, link, connected, tasks, worker, nodes, talker, open, received, runs>>

\* destroyAll joins the nodes' threads
DestroyNodes ==
    /\ owner = "nodes" /\ ~talker
    /\ nodes' = {} /\ owner' = "client"
    /\ UNCHANGED <<running, mosq, executor, loop, link, connected, tasks, worker, talker, open, received, runs>>

\* mosquitto_destroy
DestroyClient ==
    /\ owner = "client" /\ owner' = "idle"
    /\ mosq' = FALSE /\ connected' = FALSE /\ link' = FALSE
    /\ UNCHANGED <<running, executor, loop, tasks, worker, nodes, talker, open, received, runs>>

-----------------------------------------------------------------------------
(* The loop thread *)

\* onConnect subscribes
OnConnect ==
    /\ loop = "up" /\ link /\ ~connected /\ connected' = TRUE
    /\ UNCHANGED <<server, loop, link, tasks, worker, nodes, talker, open, received>>

\* onDisconnect; mosquitto connects again
OnDisconnect ==
    /\ loop = "up" /\ link /\ link' = FALSE /\ connected' = FALSE
    /\ UNCHANGED <<server, loop, tasks, worker, nodes, talker, open, received>>
Reconnect ==
    /\ loop = "up" /\ running /\ ~link /\ link' = TRUE
    /\ UNCHANGED <<server, loop, connected, tasks, worker, nodes, talker, open, received>>

\* onMessage submits a request
OnMessage(r) ==
    /\ loop = "up" /\ connected /\ r \notin received
    /\ tasks' = Append(tasks, r) /\ open' = open \cup {r} /\ received' = received \cup {r}
    /\ UNCHANGED <<server, loop, link, connected, worker, nodes, talker>>

\* mosquitto_loop_forever returns after mosquitto_disconnect
LoopEnds ==
    /\ loop = "up" /\ owner = "join"
    /\ loop' = "ended" /\ link' = FALSE /\ connected' = FALSE
    /\ UNCHANGED <<server, tasks, worker, nodes, talker, open, received>>

-----------------------------------------------------------------------------
(* The worker *)

Take ==
    /\ executor /\ worker = Rest /\ tasks # <<>>
    /\ worker' = [request |-> Head(tasks), at |-> "handling"] /\ tasks' = Tail(tasks)
    /\ UNCHANGED <<server, loop, link, connected, nodes, talker, open, received>>

Handling(r) == worker = [request |-> r, at |-> "handling"]

\* Mutant of Answers: what handleCreate made is answered by nobody.
AnswersNoCreate(r, done) == ~(done = "yes" /\ Creates(r))

\* handleRequest answers what handleCreate did not, and handleCreate models and
\* cameras only
Answers(r, done) == ~(done = "yes" /\ ActionOf[r] = "create_stream")

\* handleRequest, up to its try: a message that is no request is ignored; one whose
\* type, name or data is of the wrong kind makes it throw, the executor swallows the
\* exception, and nobody answers
HandleMalformed(r) ==
    /\ Handling(r) /\ Malformed(r)
    /\ worker' = Rest
    /\ UNCHANGED <<server, loop, link, connected, tasks, nodes, talker, open, received>>

\* handleRequest from its try on: done is "yes", "no" for an error or an exception, or "half" for an
\* exception of handleCreate that comes after the node was made.  clear waits
\* for the nodes' threads.
Handle(r, done) ==
    /\ Handling(r) /\ ~Malformed(r)
    /\ done = "half" => ActionOf[r] = "create_camera"
    /\ ActionOf[r] = "clear" => ~talker
    /\ nodes' = CASE Creates(r) /\ done # "no" -> nodes \cup {r}
                  [] ActionOf[r] = "clear" -> {}
                  [] OTHER -> nodes
    /\ worker' = IF Answers(r, done) THEN [worker EXCEPT !.at = "response"] ELSE Rest
    /\ UNCHANGED <<server, loop, link, connected, tasks, talker, open, received>>

\* Mutant of Respond: response waits for the connection.
RespondWaits ==
    /\ worker.at = "response" /\ connected
    /\ worker' = [worker EXCEPT !.at = "publishing"]
    /\ UNCHANGED <<server, loop, link, connected, tasks, nodes, talker, open, received>>

\* response looks at connected_: without a connection the answer is dropped
Respond ==
    /\ worker.at = "response"
    /\ worker' = IF connected THEN [worker EXCEPT !.at = "publishing"] ELSE Rest
    /\ open' = IF connected THEN open ELSE open \ {worker.request}
    /\ UNCHANGED <<server, loop, link, connected, tasks, nodes, talker, received>>

\* mosquitto_publish
Publish ==
    /\ worker.at = "publishing"
    /\ worker' = Rest /\ open' = open \ {worker.request}
    /\ UNCHANGED <<server, loop, link, connected, tasks, nodes, talker, received>>

\* event of a node's thread: connected_ is set, and then mosquitto_publish
Event ==
    /\ ~talker /\ nodes # {} /\ connected
    /\ talker' = TRUE
    /\ UNCHANGED <<server, loop, link, connected, tasks, worker, nodes, open, received>>
EventEnds ==
    /\ talker /\ talker' = FALSE
    /\ UNCHANGED <<server, loop, link, connected, tasks, worker, nodes, open, received>>

OwnerStep == JoinLoop \/ Cancel \/ ResetExecutor \/ DestroyNodes \/ DestroyClient
Done == {"yes", "no", "half"}
WorkerStep ==
    \/ Take \/ Respond \/ Publish
    \/ \E r \in Requests : HandleMalformed(r) \/ \E done \in Done : Handle(r, done)

Next ==
    \/ \E ok \in BOOLEAN : Start(ok)
    \/ Stop \/ OwnerStep
    \/ OnConnect \/ OnDisconnect \/ Reconnect \/ LoopEnds \/ \E r \in Requests : OnMessage(r)
    \/ WorkerStep \/ Event \/ EventEnds

\* The worker is scheduled; a node's thread is now and then outside event().
Fairness == WF_vars(OwnerStep) /\ WF_vars(LoopEnds) /\ SF_vars(WorkerStep) /\ WF_vars(EventEnds)

Spec == Init /\ [][Next]_vars /\ Fairness

-----------------------------------------------------------------------------
(* Properties *)

TypeOK ==
    /\ owner \in {"idle", "join", "cancel", "executor", "hung", "nodes", "client"}
    /\ {running, mosq, executor, link, connected, talker} \subseteq BOOLEAN
    /\ loop \in {"none", "up", "ended"} /\ runs \in 0 .. MaxRuns
    /\ tasks \in Seq(Requests) /\ {nodes, open, received} \subseteq SUBSET Requests
    /\ worker \in [request : Requests \cup {NoRequest}, at : {"waiting", "handling", "response", "publishing"}]

\* Whoever publishes finds the client, whether it is the worker or the thread of a
\* node, and the loop thread finds the executor: stop takes them away in an
\* order that leaves nobody inside.
UsersHaveTheirObjects ==
    /\ worker.at = "publishing" \/ talker => mosq
    /\ loop = "up" => mosq /\ executor
    /\ worker # Rest => executor

\* After stop there is no thread, no client, no executor and no node.
NothingIsLeft ==
    owner = "idle" /\ ~running =>
        ~mosq /\ ~executor /\ loop = "none" /\ nodes = {} /\ ~talker /\ worker = Rest

\* stop ends, whatever the loop thread, the worker and the nodes' threads are doing,
\* unless the executor's destructor missed its worker.
Stopping == owner # "idle"
Stopped == owner \in {"idle", "hung"}
StopComesToAnEnd == Stopping ~> Stopped

\* Every well-formed request is answered, unless the connection is lost or the
\* server stops, whatever its handler throws and whatever else is in the queue; but
\* for the creation of a stream.
Unanswered(r) == r \in open /\ ~Malformed(r) /\ ActionOf[r] # "create_stream"
RequestsAreAnswered == \A r \in Requests : Unanswered(r) ~> (r \notin open)

\* Refuted, in two ways: handleRequest takes every successful create as answered,
\* and reads type, name and data before its try.
EveryRequestIsAnswered == \A r \in Requests : (r \in open) ~> (r \notin open)
=============================================================================

------------------------------ MODULE Executor ------------------------------
(***************************************************************************)
(* node::Executor (src/src/node/executor.h, executor.cpp): one worker       *)
(* thread that runs the tasks of a queue in order; a task that returns true *)
(* goes back to the end of the queue.  NodeServer runs the commands of the  *)
(* control plane on it.                                                     *)
(*                                                                         *)
(* Unlike MessageBox, submit notifies after it released the mutex; like it, *)
(* the destructor writes running_ and notifies without the mutex.           *)
(***************************************************************************)
EXTENDS Naturals, Sequences, FiniteSets

CONSTANTS
    Clients,   \* threads that call submit and cancel
    Tasks,     \* tasks, each submitted at most once
    Destroys,  \* TRUE: the executor may be destroyed
    NoThread,  \* no thread holds the mutex
    NoTask     \* the worker has no task

Worker == "worker"

ASSUME ExecutorAssumption ==
    /\ NoThread \notin Clients \cup {Worker}
    /\ Worker \notin Clients
    /\ NoTask \notin Tasks
    /\ Destroys \in BOOLEAN

VARIABLES
    tasks,      \* tasks_
    running,    \* running_
    mutex,      \* the thread that holds mutex_, or NoThread
    worker,     \* where workerLoop is
    current,    \* the task workerLoop moved out of the queue
    client,     \* client[c]: where client c is
    given,      \* given[c]: the task c submits
    destructor, \* how far ~Executor is
    ended,      \* tasks that returned false or threw
    dropped,    \* tasks that cancel() removed
    submitted   \* tasks that submit has queued, whatever became of them since

vars == <<tasks, running, mutex, worker, current, client, given, destructor, ended, dropped, submitted>>

WorkerPCs == {"top", "lock", "test", "sleep", "asleep", "awake", "check", "run", "resubmit", "exited"}
ClientPCs == {"idle", "push", "notify", "swap"}

Init ==
    /\ tasks = <<>>
    /\ running = TRUE
    /\ mutex = NoThread
    /\ worker = "top"
    /\ current = NoTask
    /\ client = [c \in Clients |-> "idle"]
    /\ given = [c \in Clients |-> NoTask]
    /\ destructor = "none"
    /\ ended = {}
    /\ dropped = {}
    /\ submitted = {}

-----------------------------------------------------------------------------
(* submit, cancel *)

Queued == {tasks[i] : i \in DOMAIN tasks}

\* Tasks that were handed to the executor or are being handed to it.
Known == submitted \cup {given[c] : c \in Clients}

\* Nobody calls a method of an object whose destructor has begun: NodeServer::
\* stop destroys the executor after it joined the thread that submits.
SubmitCall(c) ==
    /\ client[c] = "idle"
    /\ destructor = "none"
    /\ \E t \in Tasks \ Known : given' = [given EXCEPT ![c] = t]
    /\ client' = [client EXCEPT ![c] = "push"]
    /\ UNCHANGED <<tasks, running, mutex, worker, current, destructor, ended, dropped, submitted>>

\* Mutant of SubmitPush: submit does not go on to notify.
SubmitPushSilent(c) ==
    /\ client[c] = "push"
    /\ mutex = NoThread
    /\ tasks' = Append(tasks, given[c])
    /\ submitted' = submitted \cup {given[c]}
    /\ given' = [given EXCEPT ![c] = NoTask]
    /\ client' = [client EXCEPT ![c] = "idle"]
    /\ UNCHANGED <<running, mutex, worker, current, destructor, ended, dropped>>

\* the block that holds the lock_guard
SubmitPush(c) ==
    /\ client[c] = "push"
    /\ mutex = NoThread
    /\ tasks' = Append(tasks, given[c])
    /\ submitted' = submitted \cup {given[c]}
    /\ given' = [given EXCEPT ![c] = NoTask]
    /\ client' = [client EXCEPT ![c] = "notify"]
    /\ UNCHANGED <<running, mutex, worker, current, destructor, ended, dropped>>

WakeWorker == worker' = IF worker = "asleep" THEN "awake" ELSE worker

SubmitNotify(c) ==
    /\ client[c] = "notify"
    /\ WakeWorker
    /\ client' = [client EXCEPT ![c] = "idle"]
    /\ UNCHANGED <<tasks, running, mutex, current, given, destructor, ended, dropped, submitted>>

CancelCall(c) ==
    /\ client[c] = "idle"
    /\ destructor = "none"
    /\ client' = [client EXCEPT ![c] = "swap"]
    /\ UNCHANGED <<tasks, running, mutex, worker, current, given, destructor, ended, dropped, submitted>>

\* the queue is swapped for an empty one; the task that runs is not touched
CancelSwap(c) ==
    /\ client[c] = "swap"
    /\ mutex = NoThread
    /\ dropped' = dropped \cup Queued
    /\ tasks' = <<>>
    /\ client' = [client EXCEPT ![c] = "idle"]
    /\ UNCHANGED <<running, mutex, worker, current, given, destructor, ended, submitted>>

-----------------------------------------------------------------------------
(* workerLoop *)

\* the loop condition
WorkerTop ==
    /\ worker = "top"
    /\ worker' = IF running THEN "lock" ELSE "exited"
    /\ UNCHANGED <<tasks, running, mutex, current, client, given, destructor, ended, dropped, submitted>>

\* Mutant of WorkerLock: cv_.wait without a predicate.
WorkerLockNoPredicate ==
    /\ worker \in {"lock", "awake"}
    /\ mutex = NoThread
    /\ mutex' = Worker
    /\ worker' = IF worker = "awake" THEN "check" ELSE "test"
    /\ UNCHANGED <<tasks, running, current, client, given, destructor, ended, dropped, submitted>>

\* unique_lock at the top of the iteration, or the end of a wait
WorkerLock ==
    /\ worker \in {"lock", "awake"}
    /\ mutex = NoThread
    /\ mutex' = Worker
    /\ worker' = "test"
    /\ UNCHANGED <<tasks, running, current, client, given, destructor, ended, dropped, submitted>>

\* the predicate of cv_.wait
WorkerTest ==
    /\ worker = "test"
    /\ worker' = IF ~running \/ tasks # <<>> THEN "check" ELSE "sleep"
    /\ UNCHANGED <<tasks, running, mutex, current, client, given, destructor, ended, dropped, submitted>>

WorkerSleep ==
    /\ worker = "sleep"
    /\ mutex' = NoThread
    /\ worker' = "asleep"
    /\ UNCHANGED <<tasks, running, current, client, given, destructor, ended, dropped, submitted>>

SpuriousWake ==
    /\ worker = "asleep"
    /\ worker' = "awake"
    /\ UNCHANGED <<tasks, running, mutex, current, client, given, destructor, ended, dropped, submitted>>

\* Mutant of WorkerTake: front() without pop().
WorkerTakeNoPop ==
    /\ worker = "check"
    /\ mutex' = NoThread
    /\ IF running
       THEN tasks # <<>> /\ current' = Head(tasks) /\ worker' = "run"
       ELSE worker' = "exited" /\ UNCHANGED current
    /\ UNCHANGED <<tasks, running, client, given, destructor, ended, dropped, submitted>>

\* Mutant of WorkerTake: the front is moved out before running_ is loaded.
WorkerTakeFirst ==
    /\ worker = "check"
    /\ mutex' = NoThread
    /\ tasks' = IF tasks = <<>> THEN tasks ELSE Tail(tasks)
    /\ IF running
       THEN tasks # <<>> /\ current' = Head(tasks) /\ worker' = "run"
       ELSE worker' = "exited" /\ UNCHANGED current
    /\ UNCHANGED <<running, client, given, destructor, ended, dropped, submitted>>

\* running_ is loaded once more; then the front of the queue is moved out
WorkerTake ==
    /\ worker = "check"
    /\ mutex' = NoThread
    /\ IF running
       THEN /\ tasks # <<>>
            /\ current' = Head(tasks)
            /\ tasks' = Tail(tasks)
            /\ worker' = "run"
       ELSE /\ worker' = "exited"
            /\ UNCHANGED <<current, tasks>>
    /\ UNCHANGED <<running, client, given, destructor, ended, dropped, submitted>>

\* task() returns true
TaskRequeues ==
    /\ worker = "run"
    /\ worker' = "resubmit"
    /\ UNCHANGED <<tasks, running, mutex, current, client, given, destructor, ended, dropped, submitted>>

\* Mutant of TaskEnds: an exception of the task is not caught in the loop.
TaskEndsWorker ==
    /\ worker = "run"
    /\ ended' = ended \cup {current}
    /\ current' = NoTask
    /\ worker' \in {"top", "exited"}
    /\ UNCHANGED <<tasks, running, mutex, client, given, destructor, dropped, submitted>>

\* task() returns false, or throws: catch (...) goes on with the loop
TaskEnds ==
    /\ worker = "run"
    /\ ended' = ended \cup {current}
    /\ current' = NoTask
    /\ worker' = "top"
    /\ UNCHANGED <<tasks, running, mutex, client, given, destructor, dropped, submitted>>

\* submit(std::move(task)); its notify_one finds no waiter, the only thread
\* that waits on cv_ is the one that calls it
WorkerResubmit ==
    /\ worker = "resubmit"
    /\ mutex = NoThread
    /\ tasks' = Append(tasks, current)
    /\ current' = NoTask
    /\ worker' = "top"
    /\ UNCHANGED <<running, mutex, client, given, destructor, ended, dropped, submitted>>

-----------------------------------------------------------------------------
(* ~Executor *)

DestroyStore ==
    /\ Destroys
    /\ destructor = "none"
    /\ \A c \in Clients : client[c] = "idle"
    /\ running' = FALSE
    /\ destructor' = "notify"
    /\ UNCHANGED <<tasks, mutex, worker, current, client, given, ended, dropped, submitted>>

DestroyNotify ==
    /\ destructor = "notify"
    /\ WakeWorker
    /\ destructor' = "join"
    /\ UNCHANGED <<tasks, running, mutex, current, client, given, ended, dropped, submitted>>

DestroyJoin ==
    /\ destructor = "join"
    /\ worker = "exited"
    /\ destructor' = "gone"
    /\ UNCHANGED <<tasks, running, mutex, worker, current, client, given, ended, dropped, submitted>>

-----------------------------------------------------------------------------
(* Specification *)

ClientStep(c) == SubmitPush(c) \/ SubmitNotify(c) \/ CancelSwap(c)

WorkerStep ==
    \/ WorkerTop
    \/ WorkerTest
    \/ WorkerSleep
    \/ WorkerTake
    \/ TaskRequeues
    \/ TaskEnds

Destroy == DestroyStore \/ DestroyNotify \/ DestroyJoin

Next ==
    \/ \E c \in Clients : SubmitCall(c) \/ CancelCall(c) \/ ClientStep(c)
    \/ WorkerStep
    \/ WorkerLock
    \/ WorkerResubmit
    \/ SpuriousWake
    \/ Destroy

Spec == Init /\ [][Next]_vars

\* The worker runs, tasks return, and a thread that asks for the mutex again
\* and again gets it.  Nobody is obliged to call, a destructor that began goes on.
Fairness ==
    /\ WF_vars(WorkerStep)
    /\ SF_vars(WorkerLock)
    /\ SF_vars(WorkerResubmit)
    /\ WF_vars(DestroyNotify \/ DestroyJoin)
    /\ \A c \in Clients : SF_vars(ClientStep(c))

FairSpec == Spec /\ Fairness

-----------------------------------------------------------------------------
(* Properties *)

TypeOK ==
    /\ tasks \in Seq(Tasks)
    /\ running \in BOOLEAN
    /\ mutex \in {NoThread, Worker}
    /\ worker \in WorkerPCs
    /\ current \in Tasks \cup {NoTask}
    /\ client \in [Clients -> ClientPCs]
    /\ given \in [Clients -> Tasks \cup {NoTask}]
    /\ destructor \in {"none", "notify", "join", "gone"}
    /\ ended \subseteq Tasks
    /\ dropped \subseteq Tasks
    /\ submitted \subseteq Tasks

\* A worker that sleeps while tasks are queued is about to be woken by the
\* submit that queued the last of them, although submit notifies after it
\* released the mutex.
NoSleepOnTasks ==
    worker \in {"sleep", "asleep"} /\ tasks # <<>> =>
        worker = "asleep" /\ \E c \in Clients : client[c] = "notify"

\* workerLoop never moves a task out of an empty queue: no cancel() can get
\* between the predicate and front()/pop(), and the second load of running_
\* cannot contradict the first the wrong way.
TakesOnlyTasks == worker = "check" /\ running => tasks # <<>>

\* Requeues, cancels and the destructor never run a task after it ended or was
\* dropped, never queue it twice and never lose one: every task that submit
\* queued, and nothing else, is in the queue, in the worker's hands, ended or
\* dropped, and in one of these places only.
OnePlacePerTask ==
    /\ submitted = Queued \cup ({current} \ {NoTask}) \cup ended \cup dropped
    /\ \A i, j \in DOMAIN tasks : tasks[i] = tasks[j] => i = j
    /\ current \notin Queued
    /\ (Queued \cup {current}) \cap (ended \cup dropped) = {}
    /\ ended \cap dropped = {}

\* Every task that reaches the queue is run or cancelled, whatever other tasks
\* requeue themselves for ever, unless the executor is being destroyed.
QueuedTasksRun ==
    \A t \in Tasks : (t \in Queued) ~> (current = t \/ t \in dropped \/ ~running)

\* ~Executor returns: its join() finds a worker that has left the loop.
DestructorReturns == (destructor = "notify") ~> (destructor = "gone")
=============================================================================

--------------------------- MODULE ExecutorProofs ---------------------------
(* The safety of Executor for any number of clients and tasks. *)
EXTENDS Executor, TLAPS

\* The mutex outlives a step only in the hands of workerLoop.
Ownership == mutex = Worker <=> worker \in {"test", "sleep", "check"}

\* The worker has a task exactly while it runs or resubmits it; a client has
\* one exactly while it submits it.
Carriers ==
    /\ current # NoTask <=> worker \in {"run", "resubmit"}
    /\ \A c \in Clients : given[c] # NoTask <=> client[c] = "push"

\* A task that a client is about to queue is nowhere else.
GivenAreNew ==
    /\ \A c \in Clients : given[c] \in Tasks =>
           given[c] \notin submitted
    /\ \A c, d \in Clients : given[c] \in Tasks /\ given[c] = given[d] => c = d

IInv ==
    /\ TypeOK
    /\ Ownership
    /\ Carriers
    /\ NoSleepOnTasks
    /\ TakesOnlyTasks
    /\ GivenAreNew
    /\ OnePlacePerTask

-----------------------------------------------------------------------------

LEMMA InitIInv == Init => IInv
  BY ExecutorAssumption DEF Init, IInv, TypeOK, Ownership, Carriers, NoSleepOnTasks,
     TakesOnlyTasks, GivenAreNew, OnePlacePerTask, Queued, WorkerPCs, ClientPCs, Worker

\* The queue after a push and after a pop.
LEMMA PushQueued ==
  ASSUME NEW t, tasks \in Seq(Tasks), t \in Tasks, tasks' = Append(tasks, t)
  PROVE  /\ tasks' \in Seq(Tasks)
         /\ Queued' = Queued \cup {t}
         /\ (t \notin Queued /\ \A i, j \in DOMAIN tasks : tasks[i] = tasks[j] => i = j)
                => \A i, j \in DOMAIN tasks' : tasks'[i] = tasks'[j] => i = j
  BY DEF Queued

LEMMA PopQueued ==
  ASSUME tasks \in Seq(Tasks), tasks # <<>>, tasks' = Tail(tasks)
  PROVE  /\ tasks' \in Seq(Tasks)
         /\ Head(tasks) \in Queued
         /\ Queued = Queued' \cup {Head(tasks)}
         /\ (\A i, j \in DOMAIN tasks : tasks[i] = tasks[j] => i = j)
                => /\ Head(tasks) \notin Queued'
                   /\ \A i, j \in DOMAIN tasks' : tasks'[i] = tasks'[j] => i = j
<1>1. /\ Len(tasks) \in Nat \ {0}
      /\ DOMAIN tasks = 1 .. Len(tasks)
      /\ Head(tasks) = tasks[1]
  OBVIOUS
<1>2. /\ tasks' \in Seq(Tasks)
      /\ DOMAIN tasks' = 1 .. Len(tasks) - 1
      /\ \A i \in DOMAIN tasks' : tasks'[i] = tasks[i + 1]
  OBVIOUS
<1>3. Queued' = {tasks[i] : i \in 2 .. Len(tasks)}
  <2>1. \A i \in 2 .. Len(tasks) : i - 1 \in DOMAIN tasks' /\ tasks[i] = tasks'[i - 1]
    BY <1>1, <1>2
  <2>2. \A i \in DOMAIN tasks' : i + 1 \in 2 .. Len(tasks)
    BY <1>1, <1>2
  <2>3. Queued' = {tasks'[i] : i \in DOMAIN tasks'}
    BY DEF Queued
  <2>4. ASSUME NEW q \in Queued' PROVE q \in {tasks[i] : i \in 2 .. Len(tasks)}
    <3>1. PICK i \in DOMAIN tasks' : q = tasks'[i]
      BY <2>3, <2>4
    <3> QED
      BY <3>1, <1>2, <2>2
  <2>5. ASSUME NEW i \in 2 .. Len(tasks) PROVE tasks[i] \in Queued'
    BY <2>1, <2>3
  <2> QED
    BY <2>4, <2>5
<1>4. Head(tasks) \in Queued /\ Queued = Queued' \cup {Head(tasks)}
  BY <1>1, <1>3 DEF Queued
<1>5. ASSUME \A i, j \in DOMAIN tasks : tasks[i] = tasks[j] => i = j
      PROVE  /\ Head(tasks) \notin Queued'
             /\ \A i, j \in DOMAIN tasks' : tasks'[i] = tasks'[j] => i = j
  <2>1. Head(tasks) \notin Queued'
    BY <1>1, <1>3, <1>5
  <2>2. \A i, j \in DOMAIN tasks' : tasks'[i] = tasks'[j] => i = j
    BY <1>1, <1>2, <1>5
  <2> QED
    BY <2>1, <2>2
<1> QED
  BY <1>2, <1>4, <1>5

LEMMA QueuedAreTasks == TypeOK => Queued \subseteq Tasks
  BY DEF TypeOK, Queued

\* One step of the proof per action of Next.
LEMMA StepIInv == IInv /\ [Next]_vars => IInv'
<1> SUFFICES ASSUME IInv, [Next]_vars PROVE IInv'
  OBVIOUS
<1> USE ExecutorAssumption, QueuedAreTasks
    DEF IInv, TypeOK, Ownership, Carriers, NoSleepOnTasks, TakesOnlyTasks, GivenAreNew,
        OnePlacePerTask, WorkerPCs, ClientPCs, Worker, WakeWorker
<1>1. ASSUME NEW c \in Clients, SubmitCall(c) PROVE IInv'
  BY <1>1 DEF SubmitCall, Known, Queued
<1>2. ASSUME NEW c \in Clients, SubmitPush(c) PROVE IInv'
  BY <1>2, PushQueued DEF SubmitPush
<1>3. ASSUME NEW c \in Clients, SubmitNotify(c) PROVE IInv'
  BY <1>3 DEF SubmitNotify, Queued
<1>4. ASSUME NEW c \in Clients, CancelCall(c) PROVE IInv'
  BY <1>4 DEF CancelCall, Queued
<1>5. ASSUME NEW c \in Clients, CancelSwap(c) PROVE IInv'
  BY <1>5 DEF CancelSwap, Queued
<1>6. ASSUME WorkerTop PROVE IInv'
  BY <1>6 DEF WorkerTop, Queued
<1>7. ASSUME WorkerTest PROVE IInv'
  BY <1>7 DEF WorkerTest, Queued
<1>8. ASSUME WorkerSleep PROVE IInv'
  BY <1>8 DEF WorkerSleep, Queued
<1>9. ASSUME WorkerTake PROVE IInv'
  <2>1. CASE running
    <3>1. tasks # <<>> /\ tasks' = Tail(tasks) /\ current' = Head(tasks)
      BY <1>9, <2>1 DEF WorkerTake
    <3>2. /\ tasks' \in Seq(Tasks)
          /\ Head(tasks) \in Queued
          /\ Queued = Queued' \cup {Head(tasks)}
          /\ Head(tasks) \notin Queued'
          /\ \A i, j \in DOMAIN tasks' : tasks'[i] = tasks'[j] => i = j
      BY <3>1, PopQueued
    <3>3. Head(tasks) \in Tasks
      BY <3>2
    <3> HIDE DEF OnePlacePerTask, GivenAreNew
    <3>4. OnePlacePerTask'
      BY <1>9, <2>1, <3>1, <3>2, <3>3 DEF WorkerTake, OnePlacePerTask
    <3>5. GivenAreNew'
      BY <1>9, <2>1, <3>1, <3>2, <3>3 DEF WorkerTake, GivenAreNew
    <3> QED
      BY <1>9, <2>1, <3>1, <3>2, <3>3, <3>4, <3>5 DEF WorkerTake
  <2>2. CASE ~running
    <3>1. Queued' = Queued
      BY <1>9, <2>2 DEF WorkerTake, Queued
    <3> QED
      BY <1>9, <2>2, <3>1 DEF WorkerTake
  <2> QED
    BY <2>1, <2>2
<1>10. ASSUME TaskRequeues PROVE IInv'
  BY <1>10 DEF TaskRequeues, Queued
<1>11. ASSUME TaskEnds PROVE IInv'
  BY <1>11 DEF TaskEnds, Queued
<1>12. ASSUME WorkerLock PROVE IInv'
  BY <1>12 DEF WorkerLock, Queued
<1>13. ASSUME WorkerResubmit PROVE IInv'
  BY <1>13, PushQueued DEF WorkerResubmit
<1>14. ASSUME SpuriousWake PROVE IInv'
  BY <1>14 DEF SpuriousWake, Queued
<1>15. ASSUME DestroyStore PROVE IInv'
  <2>1. Queued' = Queued
    BY <1>15 DEF DestroyStore, Queued
  <2> QED
    BY <1>15, <2>1 DEF DestroyStore
<1>16. ASSUME DestroyNotify PROVE IInv'
  BY <1>16 DEF DestroyNotify, Queued
<1>17. ASSUME DestroyJoin PROVE IInv'
  BY <1>17 DEF DestroyJoin, Queued
<1>18. CASE UNCHANGED vars
  BY <1>18 DEF vars, Queued
<1> QED
  BY <1>1, <1>2, <1>3, <1>4, <1>5, <1>6, <1>7, <1>8, <1>9, <1>10, <1>11, <1>12, <1>13, <1>14, <1>15, <1>16, <1>17, <1>18
  DEF Next, ClientStep, WorkerStep, Destroy

\* submit, cancel, workerLoop and ~Executor preserve the inductive invariant.
THEOREM Invariance == Spec => []IInv
  BY InitIInv, StepIInv, PTL DEF Spec

\* Every variable keeps its type.
THEOREM TypeCorrect == Spec => []TypeOK
<1>1. IInv => TypeOK
  BY DEF IInv
<1> QED
  BY <1>1, Invariance, PTL

\* The worker sleeps on a queue that holds tasks only while a submit is about
\* to notify it: no notification of submit is lost.
THEOREM NoLostNotify == Spec => []NoSleepOnTasks
<1>1. IInv => NoSleepOnTasks
  BY DEF IInv
<1> QED
  BY <1>1, Invariance, PTL

\* workerLoop pops only queues that hold a task.
THEOREM PopsAreSafe == Spec => []TakesOnlyTasks
<1>1. IInv => TakesOnlyTasks
  BY DEF IInv
<1> QED
  BY <1>1, Invariance, PTL

\* Every task that submit queued is in the queue, in the worker's hands, ended
\* or cancelled, and in one of these only: none is lost, doubled, or run after
\* it ended or was cancelled.
THEOREM TasksAreConserved == Spec => []OnePlacePerTask
<1>1. IInv => OnePlacePerTask
  BY DEF IInv
<1> QED
  BY <1>1, Invariance, PTL
=============================================================================

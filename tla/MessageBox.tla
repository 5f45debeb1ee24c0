----------------------------- MODULE MessageBox -----------------------------
(***************************************************************************)
(* node::MessageBox (src/src/node/message_box.h): the bounded queue between *)
(* two nodes, with its mutex and its two condition variables not_empty_ and *)
(* not_full_.                                                               *)
(*                                                                         *)
(* A step is what a thread does between two points where another thread can *)
(* intervene.  queue_ is touched under mutex_ only; interrupted_ is an      *)
(* atomic that interrupt() and reset() write WITHOUT the mutex, so every    *)
(* load of it is a step of its own.  A wait is three steps: the predicate   *)
(* is found false ("test"), the thread joins the waiters and releases the   *)
(* mutex ("sleep"), and after it was woken it takes the mutex again and     *)
(* re-evaluates the predicate.                                              *)
(***************************************************************************)
EXTENDS Naturals, Sequences, FiniteSets

CONSTANTS
    Posters,      \* threads that call post
    Fetchers,     \* threads that call fetch
    Controllers,  \* threads that call the operations of ControlOps
    Msgs,         \* messages
    Capacity,     \* capacity_
    Timeouts,     \* timeout_ms of the calls made: "now" (0), "timed", "forever" (UINT32_MAX)
    ControlOps,   \* among "interrupt", "reset" and "clear"
    ResetAnytime, \* FALSE: reset() only as ModelNode::onStart calls it, see MayReset
    NoThread,     \* no thread holds the mutex
    NoMsg         \* no message

ASSUME BoxAssumption ==
    /\ Capacity \in Nat \ {0}
    /\ Posters \cap Fetchers = {}
    /\ Posters \cap Controllers = {}
    /\ Fetchers \cap Controllers = {}
    /\ NoThread \notin Posters \cup Fetchers \cup Controllers
    /\ NoMsg \notin Msgs
    /\ Timeouts \subseteq {"now", "timed", "forever"}
    /\ ControlOps \subseteq {"interrupt", "reset", "clear"}
    /\ ResetAnytime \in BOOLEAN

VARIABLES
    queue,        \* queue_
    interrupted,  \* interrupted_
    mutex,        \* the thread that holds mutex_, or NoThread
    pc,           \* pc[t]: where thread t is
    timeout,      \* timeout[t]: the timeout_ms of t's call
    expired,      \* expired[t]: t's wait_for has reached its deadline
    msg,          \* msg[t]: the message t posts, or the one it fetched
    op,           \* op[t]: the control operation thread t performs
    sawOpen       \* history: the box was not interrupted at some instant of t's post

vars == <<queue, interrupted, mutex, pc, timeout, expired, msg, op, sawOpen>>

Callers == Posters \cup Fetchers
Threads == Callers \cup Controllers

-----------------------------------------------------------------------------
(* States *)

\* Where a thread can be.  A thread in Holding holds the mutex.
Holding == {"check", "test", "sleep", "recheck", "commit"}
Ended   == {"posted", "refused", "fetched", "missed", "ended"}
PCs     == {"idle", "lock", "asleep", "awake", "store", "wakeE", "wakeF"}
               \cup Holding \cup Ended

Asleep(S) == {t \in S : pc[t] = "asleep"}

Init ==
    /\ queue = <<>>
    /\ interrupted = FALSE
    /\ mutex = NoThread
    /\ pc = [t \in Threads |-> "idle"]
    /\ timeout = [t \in Callers |-> "now"]
    /\ expired = [t \in Callers |-> FALSE]
    /\ msg = [t \in Callers |-> NoMsg]
    /\ op = [t \in Controllers |-> "none"]
    /\ sawOpen = [t \in Posters |-> FALSE]

-----------------------------------------------------------------------------
(* What the steps are made of *)

Goto(t, from, to) ==
    /\ pc[t] = from
    /\ pc' = [pc EXCEPT ![t] = to]

\* lock the mutex (the end of a wait locks it again)
Acquire(t) == mutex = NoThread /\ mutex' = t

\* go on with the mutex held / leave the critical section with a result
Proceed(t, to) == pc' = [pc EXCEPT ![t] = to] /\ UNCHANGED mutex
Leave(t, to)   == pc' = [pc EXCEPT ![t] = to] /\ mutex' = NoThread

\* The sets of threads that notify_one on a condition variable with the
\* waiters S may wake.
NotifyOne(S) == IF S = {} THEN {{}} ELSE {{t} : t \in S}

\* pc' when t moves on and the threads of woken wake up.
Wake(woken, t, to) ==
    [u \in Threads |-> IF u = t THEN to ELSE IF u \in woken THEN "awake" ELSE pc[u]]

-----------------------------------------------------------------------------
(* post *)

PostCall(p) ==
    /\ Goto(p, "idle", "lock")
    /\ \E k \in Timeouts, m \in Msgs :
          /\ timeout' = [timeout EXCEPT ![p] = k]
          /\ msg' = [msg EXCEPT ![p] = m]
    /\ expired' = [expired EXCEPT ![p] = FALSE]
    /\ sawOpen' = [sawOpen EXCEPT ![p] = ~interrupted]
    /\ UNCHANGED <<queue, interrupted, mutex, op>>

\* unique_lock, then the interrupted_ check that comes first
PostLock(p) ==
    /\ Goto(p, "lock", "check")
    /\ Acquire(p)
    /\ UNCHANGED <<queue, interrupted, timeout, expired, msg, op, sawOpen>>

\* Mutant of PostCheck: interrupted_ is not looked at.
PostCheckSkipped(p) ==
    /\ pc[p] = "check"
    /\ Proceed(p, "test")
    /\ UNCHANGED <<queue, interrupted, timeout, expired, msg, op, sawOpen>>

PostCheck(p) ==
    /\ pc[p] = "check"
    /\ IF interrupted THEN Leave(p, "refused") ELSE Proceed(p, "test")
    /\ UNCHANGED <<queue, interrupted, timeout, expired, msg, op, sawOpen>>

\* Mutant of HasRoom: off by one.
HasRoomForOneMore == Len(queue) <= Capacity

HasRoom == Len(queue) < Capacity

\* timeout 0 looks at the queue alone and skips the second interrupted_ check;
\* the other timeouts wait for the predicate
PostTest(p) ==
    /\ pc[p] = "test"
    /\ IF timeout[p] = "now"
       THEN IF HasRoom THEN Proceed(p, "commit") ELSE Leave(p, "refused")
       ELSE \/ (HasRoom \/ interrupted) /\ Proceed(p, "recheck")
            \/ ~HasRoom /\ ~interrupted /\ expired[p] /\ Leave(p, "refused")
            \/ ~HasRoom /\ ~interrupted /\ ~expired[p] /\ Proceed(p, "sleep")
    /\ UNCHANGED <<queue, interrupted, timeout, expired, msg, op, sawOpen>>

PostRecheck(p) ==
    /\ pc[p] = "recheck"
    /\ IF interrupted THEN Leave(p, "refused") ELSE Proceed(p, "commit")
    /\ UNCHANGED <<queue, interrupted, timeout, expired, msg, op, sawOpen>>

\* Mutant of PostCommit: nobody is notified.
PostCommitSilent(p) ==
    /\ pc[p] = "commit"
    /\ queue' = Append(queue, msg[p])
    /\ Leave(p, "posted")
    /\ UNCHANGED <<interrupted, timeout, expired, msg, op, sawOpen>>

\* push, not_empty_.notify_one, unlock
PostCommit(p) ==
    /\ pc[p] = "commit"
    /\ queue' = Append(queue, msg[p])
    /\ \E woken \in NotifyOne(Asleep(Fetchers)) : pc' = Wake(woken, p, "posted")
    /\ mutex' = NoThread
    /\ UNCHANGED <<interrupted, timeout, expired, msg, op, sawOpen>>

PostReturn(p) ==
    /\ pc[p] \in {"posted", "refused"}
    /\ pc' = [pc EXCEPT ![p] = "idle"]
    /\ msg' = [msg EXCEPT ![p] = NoMsg]
    /\ timeout' = [timeout EXCEPT ![p] = "now"]
    /\ expired' = [expired EXCEPT ![p] = FALSE]
    /\ sawOpen' = [sawOpen EXCEPT ![p] = FALSE]
    /\ UNCHANGED <<queue, interrupted, mutex, op>>

-----------------------------------------------------------------------------
(* fetch *)

FetchCall(f) ==
    /\ Goto(f, "idle", "lock")
    /\ \E k \in Timeouts : timeout' = [timeout EXCEPT ![f] = k]
    /\ expired' = [expired EXCEPT ![f] = FALSE]
    /\ UNCHANGED <<queue, interrupted, mutex, msg, op, sawOpen>>

FetchLock(f) ==
    /\ Goto(f, "lock", "test")
    /\ Acquire(f)
    /\ UNCHANGED <<queue, interrupted, timeout, expired, msg, op, sawOpen>>

FetchTest(f) ==
    /\ pc[f] = "test"
    /\ IF timeout[f] = "now"
       THEN IF queue = <<>> THEN Leave(f, "missed") ELSE Proceed(f, "recheck")
       ELSE \/ (queue # <<>> \/ interrupted) /\ Proceed(f, "recheck")
            \/ queue = <<>> /\ ~interrupted /\ expired[f] /\ Leave(f, "missed")
            \/ queue = <<>> /\ ~interrupted /\ ~expired[f] /\ Proceed(f, "sleep")
    /\ UNCHANGED <<queue, interrupted, timeout, expired, msg, op, sawOpen>>

\* Mutant of FetchRecheck: the check after the wait is missing.
FetchRecheckSkipped(f) ==
    /\ pc[f] = "recheck"
    /\ Proceed(f, "commit")
    /\ UNCHANGED <<queue, interrupted, timeout, expired, msg, op, sawOpen>>

\* interrupted_ && queue_.empty(): an interrupted box is drained first.  If
\* interrupted_ let the wait end and reset() comes before this check, the code
\* goes on to pop an empty queue; PopsOnlyMessages says when that cannot be.
FetchRecheck(f) ==
    /\ pc[f] = "recheck"
    /\ IF interrupted /\ queue = <<>> THEN Leave(f, "missed") ELSE Proceed(f, "commit")
    /\ UNCHANGED <<queue, interrupted, timeout, expired, msg, op, sawOpen>>

\* Mutant of FetchCommit: nobody is notified.
FetchCommitSilent(f) ==
    /\ pc[f] = "commit"
    /\ queue # <<>>
    /\ msg' = [msg EXCEPT ![f] = Head(queue)]
    /\ queue' = Tail(queue)
    /\ Leave(f, "fetched")
    /\ UNCHANGED <<interrupted, timeout, expired, op, sawOpen>>

\* front, pop, not_full_.notify_one, unlock
FetchCommit(f) ==
    /\ pc[f] = "commit"
    /\ queue # <<>>
    /\ msg' = [msg EXCEPT ![f] = Head(queue)]
    /\ queue' = Tail(queue)
    /\ \E woken \in NotifyOne(Asleep(Posters)) : pc' = Wake(woken, f, "fetched")
    /\ mutex' = NoThread
    /\ UNCHANGED <<interrupted, timeout, expired, op, sawOpen>>

FetchReturn(f) ==
    /\ pc[f] \in {"fetched", "missed"}
    /\ pc' = [pc EXCEPT ![f] = "idle"]
    /\ msg' = [msg EXCEPT ![f] = NoMsg]
    /\ timeout' = [timeout EXCEPT ![f] = "now"]
    /\ expired' = [expired EXCEPT ![f] = FALSE]
    /\ UNCHANGED <<queue, interrupted, mutex, op, sawOpen>>

-----------------------------------------------------------------------------
(* The wait of post and of fetch: wait(lock, predicate) and wait_for *)

\* join the waiters of the condition variable and release the mutex, at once
Sleep(t) ==
    /\ pc[t] = "sleep"
    /\ Leave(t, "asleep")
    /\ UNCHANGED <<queue, interrupted, timeout, expired, msg, op, sawOpen>>

\* Mutant of Expire: the deadline is counted anew after every wakeup.
ExpireAndForget(t) ==
    /\ Goto(t, "asleep", "awake")
    /\ timeout[t] = "timed"
    /\ UNCHANGED <<queue, interrupted, mutex, timeout, expired, msg, op, sawOpen>>

\* the deadline of wait_for passes
Expire(t) ==
    /\ Goto(t, "asleep", "awake")
    /\ timeout[t] = "timed"
    /\ expired' = [expired EXCEPT ![t] = TRUE]
    /\ UNCHANGED <<queue, interrupted, mutex, timeout, msg, op, sawOpen>>

\* a condition variable may wake a waiter for no reason
SpuriousWake(t) ==
    /\ Goto(t, "asleep", "awake")
    /\ UNCHANGED <<queue, interrupted, mutex, timeout, expired, msg, op, sawOpen>>

\* a thread that was woken locks the mutex and tests its predicate again
Relock(t) ==
    /\ Goto(t, "awake", "test")
    /\ Acquire(t)
    /\ UNCHANGED <<queue, interrupted, timeout, expired, msg, op, sawOpen>>

-----------------------------------------------------------------------------
(* interrupt, reset, clear *)

\* clear() locks the mutex; interrupt() and reset() do not
ControlCall(c) ==
    /\ \E o \in ControlOps :
          /\ op' = [op EXCEPT ![c] = o]
          /\ Goto(c, "idle", IF o = "clear" THEN "lock" ELSE "store")
    /\ UNCHANGED <<queue, interrupted, mutex, timeout, expired, msg, sawOpen>>

ClearLock(c) ==
    /\ Goto(c, "lock", "commit")
    /\ Acquire(c)
    /\ UNCHANGED <<queue, interrupted, timeout, expired, msg, op, sawOpen>>

\* every message is deleted; nobody is notified of the room this makes
Clear(c) ==
    /\ pc[c] = "commit"
    /\ queue' = <<>>
    /\ Leave(c, "ended")
    /\ UNCHANGED <<interrupted, timeout, expired, msg, op, sawOpen>>

\* interrupt(): the store, then each notify_all, all without the mutex
InterruptStore(c) ==
    /\ op[c] = "interrupt"
    /\ Goto(c, "store", "wakeE")
    /\ interrupted' = TRUE
    /\ UNCHANGED <<queue, mutex, timeout, expired, msg, op, sawOpen>>

InterruptWakeFetchers(c) ==
    /\ pc[c] = "wakeE"
    /\ pc' = Wake(Asleep(Fetchers), c, "wakeF")
    /\ UNCHANGED <<queue, interrupted, mutex, timeout, expired, msg, op, sawOpen>>

InterruptWakePosters(c) ==
    /\ pc[c] = "wakeF"
    /\ pc' = Wake(Asleep(Posters), c, "ended")
    /\ UNCHANGED <<queue, interrupted, mutex, timeout, expired, msg, op, sawOpen>>

\* ModelNode::onStart resets the box when no thread fetches (inferLoop was
\* joined) and the posts under way are those of timeout 0, which look at
\* interrupted_ once.
MayReset ==
    \A t \in Callers : pc[t] # "idle" => t \in Posters /\ timeout[t] = "now"

Reset(c) ==
    /\ op[c] = "reset"
    /\ ResetAnytime \/ MayReset
    /\ Goto(c, "store", "ended")
    /\ interrupted' = FALSE
    /\ sawOpen' = [p \in Posters |-> sawOpen[p] \/ pc[p] \notin {"idle"} \cup Ended]
    /\ UNCHANGED <<queue, mutex, timeout, expired, msg, op>>

ControlReturn(c) ==
    /\ Goto(c, "ended", "idle")
    /\ op' = [op EXCEPT ![c] = "none"]
    /\ UNCHANGED <<queue, interrupted, mutex, timeout, expired, msg, sawOpen>>

-----------------------------------------------------------------------------
(* Specification *)

PostStep(p)  == PostCheck(p) \/ PostTest(p) \/ PostRecheck(p) \/ PostCommit(p) \/ PostReturn(p)
FetchStep(f) == FetchTest(f) \/ FetchRecheck(f) \/ FetchCommit(f) \/ FetchReturn(f)
CallerStep(t) == Sleep(t) \/ (t \in Posters /\ PostStep(t)) \/ (t \in Fetchers /\ FetchStep(t))
CallerLock(t) == Relock(t) \/ (t \in Posters /\ PostLock(t)) \/ (t \in Fetchers /\ FetchLock(t))
ControlStep(c) ==
    \/ Clear(c)
    \/ InterruptStore(c)
    \/ InterruptWakeFetchers(c)
    \/ InterruptWakePosters(c)
    \/ Reset(c)
    \/ ControlReturn(c)

Next ==
    \/ \E p \in Posters : PostCall(p) \/ PostLock(p) \/ PostStep(p)
    \/ \E f \in Fetchers : FetchCall(f) \/ FetchLock(f) \/ FetchStep(f)
    \/ \E t \in Callers : Sleep(t) \/ Expire(t) \/ SpuriousWake(t) \/ Relock(t)
    \/ \E c \in Controllers : ControlCall(c) \/ ClearLock(c) \/ ControlStep(c)

Spec == Init /\ [][Next]_vars

\* A running thread goes on; a thread that asks for the mutex again and again
\* gets it; a deadline that keeps being ahead of a waiter passes (it is
\* absolute, a spurious wakeup does not move it).  Nobody is obliged to call,
\* and nothing obliges a waiter to wake without a notification.
Fairness ==
    /\ \A t \in Callers : WF_vars(CallerStep(t)) /\ SF_vars(CallerLock(t)) /\ SF_vars(Expire(t))
    /\ \A c \in Controllers : WF_vars(ControlStep(c)) /\ SF_vars(ClearLock(c))

FairSpec == Spec /\ Fairness

-----------------------------------------------------------------------------
(* Properties *)

TypeOK ==
    /\ queue \in Seq(Msgs)
    /\ interrupted \in BOOLEAN
    /\ mutex \in Threads \cup {NoThread}
    /\ pc \in [Threads -> PCs]
    /\ timeout \in [Callers -> {"now", "timed", "forever"}]
    /\ expired \in [Callers -> BOOLEAN]
    /\ msg \in [Callers -> Msgs \cup {NoMsg}]
    /\ op \in [Controllers -> {"none", "interrupt", "reset", "clear"}]
    /\ sawOpen \in [Posters -> BOOLEAN]

\* The queue never holds more than capacity_ messages, however posts, timed
\* and not, race for the last slot: a poster that found room still has it when
\* it pushes.  Needs reset() to keep to MayReset.
WithinCapacity == Len(queue) <= Capacity

\* fetch never pops an empty std::queue (undefined behaviour): between the
\* predicate that let it go on and front()/pop(), nobody can empty the queue
\* or take the interruption back.
PopsOnlyMessages == \A f \in Fetchers : pc[f] = "commit" => queue # <<>>

\* While a fetcher sleeps on not_empty_, every queued message has a fetcher
\* that was woken for it or is about to pop: notify_one per push loses no
\* wakeup, whatever fetchers barge in, expire or wake spuriously.
MessagesAreAttended ==
    Asleep(Fetchers) # {} =>
        Len(queue) <= Cardinality({f \in Fetchers :
                         pc[f] \in {"awake", "test", "recheck", "commit"}})

\* The box implements the bounded FIFO of Mailbox: a call that returns took
\* effect at one of its steps.  A post under way when interrupt() returns may
\* still push; one that starts after it may not.
Phase(t) ==
    IF pc[t] \in Ended \cup {"idle"} THEN pc[t]
    ELSE IF t \in Posters THEN "posting" ELSE "fetching"

Promise == INSTANCE Mailbox WITH
    box <- queue,
    open <- ~interrupted,
    phase <- [t \in Callers |-> Phase(t)],
    mayPut <- sawOpen,
    got <- [f \in Fetchers |-> msg[f]]

ImplementsMailbox == Promise!Spec

\* A call with timeout 0 or a finite timeout comes back, whatever the other
\* threads do: this is what makes ModelNode::inferLoop, which fetches with
\* 100 ms, notice that it has to stop although interrupt() may miss it.
CallIsTimed(t) == pc[t] # "idle" /\ timeout[t] # "forever"
TimedCallsReturn == \A t \in Callers : CallIsTimed(t) ~> (pc[t] = "idle")

\* A thread blocked in fetch or post leaves once interrupt() was called and
\* nobody resets the box.
InterruptEndsWaits ==
    \A t \in Callers : (interrupted /\ pc[t] # "idle") ~> (pc[t] = "idle" \/ ~interrupted)

\* A poster that waits for room gets it: when there is room it does not stay
\* asleep, as long as nobody interrupts the box.  clear() makes room without a
\* notify, so this needs its absence.
RoomIsThere(p) == pc[p] = "asleep" /\ HasRoom /\ ~interrupted
RoomEndsWaits == \A p \in Posters : RoomIsThere(p) ~> ~RoomIsThere(p)
=============================================================================

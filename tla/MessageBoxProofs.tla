-------------------------- MODULE MessageBoxProofs --------------------------
(* The safety of MessageBox for any number of threads, any messages and any  *)
(* capacity, under the use its callers make of reset() (ResetAnytime FALSE). *)
EXTENDS MessageBox, FiniteSetTheorems, TLAPS

\* The mutex is held by exactly the thread whose pc is in a critical section.
Ownership == \A t \in Threads : pc[t] \in Holding <=> mutex = t

\* What a poster found out about the queue stays true until it pushes: only
\* the holder of the mutex changes the queue, and reset() cannot take back the
\* interruption that let a poster through (it waits for timed posts to end).
PostersHaveRoom ==
    \A p \in Posters :
        /\ pc[p] = "commit" => HasRoom
        /\ pc[p] = "recheck" => timeout[p] # "now" /\ (HasRoom \/ interrupted)

FetchersHaveMessage ==
    \A f \in Fetchers :
        /\ pc[f] = "commit" => queue # <<>>
        /\ pc[f] = "recheck" => queue # <<>> \/ interrupted

\* A poster that is in a call carries a message.
PostersCarry == \A p \in Posters : pc[p] # "idle" => msg[p] \in Msgs

IInv ==
    /\ TypeOK
    /\ Ownership
    /\ WithinCapacity
    /\ PostersHaveRoom
    /\ FetchersHaveMessage
    /\ PostersCarry

-----------------------------------------------------------------------------

LEMMA InitIInv == Init => IInv
<1> SUFFICES ASSUME Init PROVE IInv
  OBVIOUS
<1>1. Len(queue) = 0 /\ queue \in Seq(Msgs)
  BY DEF Init
<1>2. TypeOK
  BY <1>1 DEF Init, TypeOK, Threads, Callers, PCs, Holding, Ended
<1>3. Ownership
  BY BoxAssumption DEF Init, Ownership, Threads, Callers, Holding
<1>4. WithinCapacity
  BY <1>1, BoxAssumption DEF WithinCapacity
<1>5. PostersHaveRoom /\ FetchersHaveMessage /\ PostersCarry
  BY DEF Init, PostersHaveRoom, FetchersHaveMessage, PostersCarry, Threads, Callers
<1> QED
  BY <1>2, <1>3, <1>4, <1>5 DEF IInv

\* One step of the proof per action of Next.
LEMMA StepIInv ==
  ASSUME ResetAnytime = FALSE, IInv, [Next]_vars
  PROVE  IInv'
<1> USE BoxAssumption
    DEF IInv, TypeOK, Ownership, WithinCapacity, PostersHaveRoom, FetchersHaveMessage,
        PostersCarry, HasRoom, Threads, Callers, PCs, Holding, Ended,
        Goto, Acquire, Proceed, Leave, Wake
<1>1. ASSUME NEW p \in Posters, PostCall(p) PROVE IInv'
  BY <1>1 DEF PostCall
<1>2. ASSUME NEW p \in Posters, PostLock(p) PROVE IInv'
  BY <1>2 DEF PostLock
<1>3. ASSUME NEW p \in Posters, PostCheck(p) PROVE IInv'
  BY <1>3 DEF PostCheck
<1>4. ASSUME NEW p \in Posters, PostTest(p) PROVE IInv'
  BY <1>4 DEF PostTest
<1>5. ASSUME NEW p \in Posters, PostRecheck(p) PROVE IInv'
  BY <1>5 DEF PostRecheck
<1>6. ASSUME NEW p \in Posters, PostCommit(p) PROVE IInv'
  BY <1>6 DEF PostCommit, NotifyOne, Asleep
<1>7. ASSUME NEW p \in Posters, PostReturn(p) PROVE IInv'
  BY <1>7 DEF PostReturn
<1>8. ASSUME NEW f \in Fetchers, FetchCall(f) PROVE IInv'
  BY <1>8 DEF FetchCall
<1>9. ASSUME NEW f \in Fetchers, FetchLock(f) PROVE IInv'
  BY <1>9 DEF FetchLock
<1>10. ASSUME NEW f \in Fetchers, FetchTest(f) PROVE IInv'
  BY <1>10 DEF FetchTest
<1>11. ASSUME NEW f \in Fetchers, FetchRecheck(f) PROVE IInv'
  BY <1>11 DEF FetchRecheck
<1>12. ASSUME NEW f \in Fetchers, FetchCommit(f) PROVE IInv'
  BY <1>12 DEF FetchCommit, NotifyOne, Asleep
<1>13. ASSUME NEW f \in Fetchers, FetchReturn(f) PROVE IInv'
  BY <1>13 DEF FetchReturn
<1>14. ASSUME NEW t \in Callers, Sleep(t) PROVE IInv'
  BY <1>14 DEF Sleep
<1>15. ASSUME NEW t \in Callers, Expire(t) PROVE IInv'
  BY <1>15 DEF Expire
<1>16. ASSUME NEW t \in Callers, SpuriousWake(t) PROVE IInv'
  BY <1>16 DEF SpuriousWake
<1>17. ASSUME NEW t \in Callers, Relock(t) PROVE IInv'
  BY <1>17 DEF Relock
<1>18. ASSUME NEW c \in Controllers, ControlCall(c) PROVE IInv'
  BY <1>18 DEF ControlCall
<1>19. ASSUME NEW c \in Controllers, ClearLock(c) PROVE IInv'
  BY <1>19 DEF ClearLock
<1>20. ASSUME NEW c \in Controllers, Clear(c) PROVE IInv'
  BY <1>20 DEF Clear
<1>21. ASSUME NEW c \in Controllers, InterruptStore(c) PROVE IInv'
  BY <1>21 DEF InterruptStore
<1>22. ASSUME NEW c \in Controllers, InterruptWakeFetchers(c) PROVE IInv'
  BY <1>22 DEF InterruptWakeFetchers, Asleep
<1>23. ASSUME NEW c \in Controllers, InterruptWakePosters(c) PROVE IInv'
  BY <1>23 DEF InterruptWakePosters, Asleep
<1>24. ASSUME NEW c \in Controllers, Reset(c) PROVE IInv'
  BY <1>24 DEF Reset, MayReset
<1>25. ASSUME NEW c \in Controllers, ControlReturn(c) PROVE IInv'
  BY <1>25 DEF ControlReturn
<1>26. CASE UNCHANGED vars
  BY <1>26 DEF vars
<1> QED
  BY <1>1, <1>2, <1>3, <1>4, <1>5, <1>6, <1>7, <1>8, <1>9, <1>10, <1>11, <1>12, <1>13, <1>14, <1>15, <1>16, <1>17, <1>18, <1>19, <1>20, <1>21, <1>22, <1>23, <1>24, <1>25, <1>26
  DEF Next, PostStep, FetchStep, ControlStep

\* While reset() keeps to the moments ModelNode::onStart uses, the steps of
\* post, fetch, interrupt and clear preserve the inductive invariant.
THEOREM Invariance == ASSUME ResetAnytime = FALSE PROVE Spec => []IInv
<1>1. IInv /\ [Next]_vars => IInv'
  BY StepIInv
<1>2. QED
  BY InitIInv, <1>1, PTL DEF Spec

\* Every variable keeps its type: post, fetch, interrupt, reset and clear leave
\* no thread in a state the code does not have.
THEOREM TypeCorrect == ASSUME ResetAnytime = FALSE PROVE Spec => []TypeOK
<1>1. IInv => TypeOK
  BY DEF IInv
<1> QED
  BY <1>1, Invariance, PTL

\* The queue never exceeds capacity_, for any number of posters of any timeout.
THEOREM CapacityHolds == ASSUME ResetAnytime = FALSE PROVE Spec => []WithinCapacity
<1>1. IInv => WithinCapacity
  BY DEF IInv
<1> QED
  BY <1>1, Invariance, PTL

\* fetch never calls front() and pop() on an empty queue.
THEOREM PopsAreSafe == ASSUME ResetAnytime = FALSE PROVE Spec => []PopsOnlyMessages
<1>1. IInv => PopsOnlyMessages
  BY DEF IInv, FetchersHaveMessage, PopsOnlyMessages
<1> QED
  BY <1>1, Invariance, PTL

-----------------------------------------------------------------------------
(* Every message has a fetcher                                               *)

\* The fetchers that were woken, or look at the queue without having waited.
Attending == {f \in Fetchers : pc[f] \in {"awake", "test", "recheck", "commit"}}

\* Who goes to sleep saw the queue empty, and it still is: he has the mutex.
SleepersSawNothing == \A f \in Fetchers : pc[f] = "sleep" => queue = <<>>

\* A step that adds no message, takes no fetcher off and lets nobody fall asleep.
LEMMA StillAttended ==
  ASSUME IsFiniteSet(Fetchers), MessagesAreAttended,
         Len(queue) \in Nat, Len(queue') \in Nat, Len(queue') <= Len(queue),
         Attending \subseteq Attending', Asleep(Fetchers)' \subseteq Asleep(Fetchers)
  PROVE  MessagesAreAttended'
<1>1. IsFiniteSet(Attending')
  BY FS_Subset DEF Attending
<1>2. IsFiniteSet(Attending)
  BY FS_Subset DEF Attending
<1>3. Cardinality(Attending) <= Cardinality(Attending')
  BY <1>1, FS_Subset
<1>4. Cardinality(Attending) \in Nat /\ Cardinality(Attending') \in Nat
  BY <1>1, <1>2, FS_CardinalityType
<1>5. Asleep(Fetchers)' # {} => Len(queue) <= Cardinality(Attending)
  BY DEF MessagesAreAttended, Attending
<1> HIDE DEF Attending
<1>6. Asleep(Fetchers)' # {} => Len(queue') <= Cardinality(Attending')
  BY <1>3, <1>4, <1>5
<1> QED
  BY <1>6 DEF MessagesAreAttended, Attending

\* An empty queue needs nobody.
LEMMA NothingToAttend ==
  ASSUME IsFiniteSet(Fetchers), Len(queue') = 0
  PROVE  MessagesAreAttended'
<1>1. IsFiniteSet(Attending')
  BY FS_Subset DEF Attending
<1>2. Cardinality(Attending') \in Nat
  BY <1>1, FS_CardinalityType
<1>3. 0 <= Cardinality(Attending')
  BY <1>2
<1> QED
  BY <1>3 DEF MessagesAreAttended, Attending

\* One step of the proof per action of Next.
LEMMA StepAttended ==
  ASSUME ResetAnytime = FALSE, IsFiniteSet(Fetchers), IInv, SleepersSawNothing, MessagesAreAttended,
         [Next]_vars
  PROVE  SleepersSawNothing' /\ MessagesAreAttended'
<1> DEFINE Same == /\ Len(queue') <= Len(queue)
                   /\ Attending \subseteq Attending' /\ Asleep(Fetchers)' \subseteq Asleep(Fetchers)
<1> USE BoxAssumption
    DEF TypeOK, Ownership, SleepersSawNothing, Threads, Callers, PCs, Holding, Ended,
        Goto, Acquire, Proceed, Leave, Wake
<1>0. TypeOK /\ Ownership /\ FetchersHaveMessage
  BY DEF IInv
<1>a. Len(queue) \in Nat /\ Len(<<>>) = 0
  BY <1>0
<1>b. queue' \in Seq(Msgs) => Len(queue') \in Nat
  OBVIOUS
<1>c. queue' \in Seq(Msgs)
  BY StepIInv DEF IInv
<1>d. Same => MessagesAreAttended'
  BY <1>a, <1>b, <1>c, StillAttended
<1>e. Len(queue') = 0 => MessagesAreAttended'
  BY NothingToAttend
<1> USE <1>0
<1>1. ASSUME NEW p \in Posters, PostCall(p) \/ PostLock(p) \/ PostCheck(p) \/ PostTest(p) \/ PostRecheck(p)
      PROVE  SleepersSawNothing' /\ Same
  BY <1>1, <1>a DEF PostCall, PostLock, PostCheck, PostTest, PostRecheck, Attending, Asleep
<1>2. ASSUME NEW p \in Posters, PostReturn(p) PROVE SleepersSawNothing' /\ Same
  BY <1>2, <1>a DEF PostReturn, Attending, Asleep
<1>3. ASSUME NEW p \in Posters, PostCommit(p) PROVE SleepersSawNothing' /\ MessagesAreAttended'
  <2>1. pc[p] = "commit" /\ mutex = p
    BY <1>3 DEF PostCommit
  <2>2. \A f \in Fetchers : pc[f] # "sleep"
    BY <2>1
  <2>3. PICK woken \in NotifyOne(Asleep(Fetchers)) : pc' = Wake(woken, p, "posted")
    BY <1>3 DEF PostCommit
  <2>4. SleepersSawNothing'
    BY <2>2, <2>3
  <2>5. CASE Asleep(Fetchers) = {}
    <3>1. Asleep(Fetchers)' = {}
      BY <2>3, <2>5 DEF Asleep
    <3> QED
      BY <2>4, <3>1 DEF MessagesAreAttended
  <2>6. CASE Asleep(Fetchers) # {}
    <3>1. PICK t \in Asleep(Fetchers) : woken = {t}
      BY <2>3, <2>6 DEF NotifyOne
    <3>2. t \in Fetchers /\ t \notin Attending
      BY DEF Asleep, Attending
    <3>3. Attending' = Attending \cup {t}
      BY <2>3, <3>1, <3>2 DEF Attending
    <3>4. IsFiniteSet(Attending)
      BY FS_Subset DEF Attending
    <3>5. Cardinality(Attending') = Cardinality(Attending) + 1 /\ Cardinality(Attending) \in Nat
      BY <3>2, <3>3, <3>4, FS_AddElement, FS_CardinalityType
    <3>6. msg[p] \in Msgs /\ queue' = Append(queue, msg[p])
      BY <1>3, <2>1 DEF PostCommit, IInv, PostersCarry
    <3>7. Len(queue') = Len(queue) + 1
      BY <3>6
    <3>8. Len(queue) <= Cardinality(Attending)
      BY <2>6 DEF MessagesAreAttended, Attending
    <3>9. Len(queue') <= Cardinality(Attending')
      BY <3>5, <3>7, <3>8, <1>a
    <3> QED
      BY <2>4, <3>9 DEF MessagesAreAttended, Attending
  <2> QED
    BY <2>5, <2>6
<1>4. ASSUME NEW f \in Fetchers, FetchCall(f) \/ FetchLock(f) PROVE SleepersSawNothing' /\ Same
  BY <1>4, <1>a DEF FetchCall, FetchLock, Attending, Asleep
<1>5. ASSUME NEW f \in Fetchers, FetchReturn(f) PROVE SleepersSawNothing' /\ Same
  BY <1>5, <1>a DEF FetchReturn, Attending, Asleep
<1>6. ASSUME NEW f \in Fetchers, FetchTest(f) PROVE SleepersSawNothing' /\ MessagesAreAttended'
  <2>1. CASE queue = <<>>
    <3>1. SleepersSawNothing' /\ queue' = <<>>
      BY <1>6, <2>1 DEF FetchTest
    <3> QED
      BY <3>1, <1>a, <1>e
  <2>2. CASE queue # <<>>
    <3>1. SleepersSawNothing' /\ Same
      BY <1>6, <2>2, <1>a DEF FetchTest, Attending, Asleep
    <3> QED
      BY <3>1, <1>d
  <2> QED
    BY <2>1, <2>2
<1>7. ASSUME NEW f \in Fetchers, FetchRecheck(f) PROVE SleepersSawNothing' /\ MessagesAreAttended'
  <2>1. CASE queue = <<>>
    <3>1. SleepersSawNothing' /\ queue' = <<>>
      BY <1>7, <2>1 DEF FetchRecheck
    <3> QED
      BY <3>1, <1>a, <1>e
  <2>2. CASE queue # <<>>
    <3>1. SleepersSawNothing' /\ Same
      BY <1>7, <2>2, <1>a DEF FetchRecheck, Attending, Asleep
    <3> QED
      BY <3>1, <1>d
  <2> QED
    BY <2>1, <2>2
<1>8. ASSUME NEW f \in Fetchers, FetchCommit(f) PROVE SleepersSawNothing' /\ MessagesAreAttended'
  <2>1. pc[f] = "commit" /\ mutex = f
    BY <1>8 DEF FetchCommit
  <2>2. \A g \in Fetchers : pc[g] # "sleep"
    BY <2>1
  <2>3. PICK woken \in NotifyOne(Asleep(Posters)) : pc' = Wake(woken, f, "fetched")
    BY <1>8 DEF FetchCommit
  <2>4. woken \subseteq Posters
    BY <2>3 DEF NotifyOne, Asleep
  <2>5. SleepersSawNothing'
    BY <2>2, <2>3, <2>4
  <2>6. Attending' = Attending \ {f} /\ f \in Attending /\ Asleep(Fetchers)' = Asleep(Fetchers)
    BY <2>1, <2>3, <2>4 DEF Attending, Asleep
  <2>7. IsFiniteSet(Attending)
    BY FS_Subset DEF Attending
  <2>8. Cardinality(Attending') = Cardinality(Attending) - 1 /\ Cardinality(Attending) \in Nat
    BY <2>6, <2>7, FS_RemoveElement, FS_CardinalityType
  <2>9. queue # <<>> /\ queue' = Tail(queue)
    BY <1>8 DEF FetchCommit
  <2>10. Len(queue') = Len(queue) - 1
    BY <2>9
  <2>11. Asleep(Fetchers) # {} => Len(queue) <= Cardinality(Attending)
    BY DEF MessagesAreAttended, Attending
  <2>12. Asleep(Fetchers)' # {} => Len(queue') <= Cardinality(Attending')
    BY <2>6, <2>8, <2>10, <2>11, <1>a
  <2> QED
    BY <2>5, <2>12 DEF MessagesAreAttended, Attending
<1>9. ASSUME NEW t \in Callers, Sleep(t) PROVE SleepersSawNothing' /\ MessagesAreAttended'
  <2>1. CASE t \in Fetchers
    <3>1. SleepersSawNothing' /\ queue' = <<>>
      BY <1>9, <2>1 DEF Sleep
    <3> QED
      BY <3>1, <1>a, <1>e
  <2>2. CASE t \in Posters
    <3>1. SleepersSawNothing' /\ Same
      BY <1>9, <2>2, <1>a DEF Sleep, Attending, Asleep
    <3> QED
      BY <3>1, <1>d
  <2> QED
    BY <2>1, <2>2
<1>10. ASSUME NEW t \in Callers, Expire(t) \/ SpuriousWake(t) \/ Relock(t)
       PROVE  SleepersSawNothing' /\ Same
  BY <1>10, <1>a DEF Expire, SpuriousWake, Relock, Attending, Asleep
<1>11. ASSUME NEW c \in Controllers,
              ControlCall(c) \/ ClearLock(c) \/ InterruptStore(c) \/ Reset(c) \/ ControlReturn(c)
       PROVE  SleepersSawNothing' /\ Same
  BY <1>11, <1>a DEF ControlCall, ClearLock, InterruptStore, Reset, ControlReturn, Attending, Asleep
<1>12. ASSUME NEW c \in Controllers, InterruptWakeFetchers(c) \/ InterruptWakePosters(c)
       PROVE  SleepersSawNothing' /\ Same
  BY <1>12, <1>a DEF InterruptWakeFetchers, InterruptWakePosters, Attending, Asleep
<1>13. ASSUME NEW c \in Controllers, Clear(c) PROVE SleepersSawNothing' /\ MessagesAreAttended'
  <2>1. SleepersSawNothing' /\ queue' = <<>>
    BY <1>13 DEF Clear
  <2> QED
    BY <2>1, <1>a, <1>e
<1>14. ASSUME UNCHANGED vars PROVE SleepersSawNothing' /\ Same
  BY <1>14, <1>a DEF vars, Attending, Asleep
<1> HIDE DEF Same, SleepersSawNothing, Goto, Acquire, Proceed, Leave, Wake, TypeOK, Ownership
<1> QED
  BY <1>d, <1>1, <1>2, <1>3, <1>4, <1>5, <1>6, <1>7, <1>8, <1>9, <1>10, <1>11, <1>12, <1>13, <1>14
  DEF Next, PostStep, FetchStep, ControlStep

\* notify_one for each message is enough: while a fetcher sleeps, each message
\* in the box has a fetcher that is awake for it, whoever barges in, expires or
\* wakes for no reason.
THEOREM NoMessageIsForgotten ==
  ASSUME ResetAnytime = FALSE, IsFiniteSet(Fetchers) PROVE Spec => []MessagesAreAttended
<1>1. Init => SleepersSawNothing /\ MessagesAreAttended
  <2> SUFFICES ASSUME Init PROVE SleepersSawNothing /\ MessagesAreAttended
    OBVIOUS
  <2>1. \A f \in Fetchers : pc[f] = "idle"
    BY DEF Init, Threads, Callers
  <2> QED
    BY <2>1 DEF SleepersSawNothing, MessagesAreAttended, Asleep
<1>2. IInv /\ SleepersSawNothing /\ MessagesAreAttended /\ [Next]_vars
        => SleepersSawNothing' /\ MessagesAreAttended'
  BY StepAttended
<1> QED
  BY <1>1, <1>2, Invariance, PTL DEF Spec

-----------------------------------------------------------------------------
(* The implementation of Mailbox *)

\* A post saw the box open if it went past its first check of interrupted_, or
\* if the box is open now.
SeenOpen ==
    \A p \in Posters :
        /\ pc[p] \in {"test", "sleep", "asleep", "awake", "recheck", "commit"} => sawOpen[p]
        /\ pc[p] \notin {"idle"} \cup Ended /\ ~interrupted => sawOpen[p]

\* Posters and fetchers end a call with results of their own, and stay out of
\* the steps of controllers.
Roles ==
    /\ \A p \in Posters : pc[p] \notin {"store", "wakeE", "wakeF", "fetched", "missed", "ended"}
    /\ \A f \in Fetchers :
          /\ pc[f] \notin {"store", "wakeE", "wakeF", "posted", "refused", "ended", "check"}
          /\ pc[f] # "fetched" => msg[f] = NoMsg
    /\ \A c \in Controllers : pc[c] \in {"idle", "lock", "commit", "store", "wakeE", "wakeF", "ended"}

\* The phase of one caller moves, the others stay.
LEMMA PhaseMove ==
  ASSUME NEW t \in Callers, NEW to, Phase(t)' = to,
         \A u \in Callers \ {t} : Phase(u)' = Phase(u)
  PROVE  [u \in Callers |-> Phase(u)]' = [[u \in Callers |-> Phase(u)] EXCEPT ![t] = to]
  OBVIOUS

LEMMA InitRefines == Init => SeenOpen /\ Roles /\ Promise!Init
<1> SUFFICES ASSUME Init PROVE SeenOpen /\ Roles /\ Promise!Init
  OBVIOUS
<1>1. SeenOpen /\ Roles
  BY BoxAssumption DEF Init, SeenOpen, Roles, Ended, Threads, Callers
<1>2. \A t \in Callers : Phase(t) = "idle"
  BY DEF Init, Phase, Threads, Callers, Ended
<1>3. [t \in Callers |-> Phase(t)] = [t \in Callers |-> "idle"]
  BY <1>2
<1>4. [f \in Fetchers |-> msg[f]] = [f \in Fetchers |-> NoMsg]
  BY DEF Init, Callers
<1>5. Promise!Init
  BY <1>3, <1>4 DEF Init, Promise!Init, Promise!Callers, Callers
<1> QED
  BY <1>1, <1>5

LEMMA StepSeenOpen ==
  ASSUME ResetAnytime = FALSE, IInv, SeenOpen, Roles, [Next]_vars
  PROVE  SeenOpen' /\ Roles'
<1> USE BoxAssumption
    DEF IInv, TypeOK, SeenOpen, Roles, Threads, Callers, PCs, Holding, Ended,
        Goto, Acquire, Proceed, Leave, Wake
<1>1. ASSUME NEW p \in Posters, PostCall(p) PROVE SeenOpen' /\ Roles'
  <2>1. pc' = [pc EXCEPT ![p] = "lock"] /\ sawOpen' = [sawOpen EXCEPT ![p] = ~interrupted]
    BY <1>1 DEF PostCall
  <2>2. \A f \in Fetchers : msg'[f] = msg[f]
    BY <1>1 DEF PostCall
  <2>3. interrupted' = interrupted
    BY <1>1 DEF PostCall
  <2> QED
    BY <2>1, <2>2, <2>3
<1>2. ASSUME NEW p \in Posters, PostLock(p) PROVE SeenOpen' /\ Roles'
  BY <1>2 DEF PostLock
<1>3. ASSUME NEW p \in Posters, PostCheck(p) PROVE SeenOpen' /\ Roles'
  BY <1>3 DEF PostCheck
<1>4. ASSUME NEW p \in Posters, PostTest(p) PROVE SeenOpen' /\ Roles'
  BY <1>4 DEF PostTest
<1>5. ASSUME NEW p \in Posters, PostRecheck(p) PROVE SeenOpen' /\ Roles'
  BY <1>5 DEF PostRecheck
<1>6. ASSUME NEW p \in Posters, PostCommit(p) PROVE SeenOpen' /\ Roles'
  BY <1>6 DEF PostCommit, NotifyOne, Asleep
<1>7. ASSUME NEW p \in Posters, PostReturn(p) PROVE SeenOpen' /\ Roles'
  BY <1>7 DEF PostReturn
<1>8. ASSUME NEW f \in Fetchers, FetchCall(f) PROVE SeenOpen' /\ Roles'
  BY <1>8 DEF FetchCall
<1>9. ASSUME NEW f \in Fetchers, FetchLock(f) PROVE SeenOpen' /\ Roles'
  BY <1>9 DEF FetchLock
<1>10. ASSUME NEW f \in Fetchers, FetchTest(f) PROVE SeenOpen' /\ Roles'
  BY <1>10 DEF FetchTest
<1>11. ASSUME NEW f \in Fetchers, FetchRecheck(f) PROVE SeenOpen' /\ Roles'
  BY <1>11 DEF FetchRecheck
<1>12. ASSUME NEW f \in Fetchers, FetchCommit(f) PROVE SeenOpen' /\ Roles'
  BY <1>12 DEF FetchCommit, NotifyOne, Asleep
<1>13. ASSUME NEW f \in Fetchers, FetchReturn(f) PROVE SeenOpen' /\ Roles'
  BY <1>13 DEF FetchReturn
<1>14. ASSUME NEW t \in Callers, Sleep(t) PROVE SeenOpen' /\ Roles'
  BY <1>14 DEF Sleep
<1>15. ASSUME NEW t \in Callers, Expire(t) PROVE SeenOpen' /\ Roles'
  BY <1>15 DEF Expire
<1>16. ASSUME NEW t \in Callers, SpuriousWake(t) PROVE SeenOpen' /\ Roles'
  BY <1>16 DEF SpuriousWake
<1>17. ASSUME NEW t \in Callers, Relock(t) PROVE SeenOpen' /\ Roles'
  BY <1>17 DEF Relock
<1>18. ASSUME NEW c \in Controllers, ControlCall(c) PROVE SeenOpen' /\ Roles'
  BY <1>18 DEF ControlCall
<1>19. ASSUME NEW c \in Controllers, ClearLock(c) PROVE SeenOpen' /\ Roles'
  BY <1>19 DEF ClearLock
<1>20. ASSUME NEW c \in Controllers, Clear(c) PROVE SeenOpen' /\ Roles'
  BY <1>20 DEF Clear
<1>21. ASSUME NEW c \in Controllers, InterruptStore(c) PROVE SeenOpen' /\ Roles'
  BY <1>21 DEF InterruptStore
<1>22. ASSUME NEW c \in Controllers, InterruptWakeFetchers(c) PROVE SeenOpen' /\ Roles'
  BY <1>22 DEF InterruptWakeFetchers, Asleep
<1>23. ASSUME NEW c \in Controllers, InterruptWakePosters(c) PROVE SeenOpen' /\ Roles'
  BY <1>23 DEF InterruptWakePosters, Asleep
<1>24. ASSUME NEW c \in Controllers, Reset(c) PROVE SeenOpen' /\ Roles'
  BY <1>24 DEF Reset, MayReset
<1>25. ASSUME NEW c \in Controllers, ControlReturn(c) PROVE SeenOpen' /\ Roles'
  BY <1>25 DEF ControlReturn
<1>26. CASE UNCHANGED vars
  BY <1>26 DEF vars
<1> QED
  BY <1>1, <1>2, <1>3, <1>4, <1>5, <1>6, <1>7, <1>8, <1>9, <1>10, <1>11, <1>12, <1>13, <1>14, <1>15, <1>16, <1>17, <1>18, <1>19, <1>20, <1>21, <1>22, <1>23, <1>24, <1>25, <1>26
  DEF Next, PostStep, FetchStep, ControlStep

\* Each step is a step of Mailbox or leaves the box and the phases alone.
LEMMA StepRefines ==
  ASSUME IInv, SeenOpen, Roles, [Next]_vars
  PROVE  [Promise!Next]_(Promise!vars)
<1> USE BoxAssumption
    DEF IInv, TypeOK, Ownership, PostersHaveRoom, SeenOpen, Roles, Threads, Callers, PCs,
        Holding, Ended, HasRoom, Goto, Acquire, Proceed, Leave, Wake, Phase,
        Promise!vars, Promise!Callers, Promise!Move
<1> DEFINE Stutter == UNCHANGED Promise!vars
<1>1. ASSUME NEW p \in Posters, PostCall(p) PROVE Promise!CallPost(p)
  <2>1. Phase(p) = "idle" /\ Phase(p)' = "posting"
    BY <1>1 DEF PostCall
  <2>2. \A u \in Callers \ {p} : Phase(u)' = Phase(u)
    BY <1>1 DEF PostCall
  <2>3. [g \in Fetchers |-> msg[g]]' = [g \in Fetchers |-> msg[g]]
    BY <1>1 DEF PostCall
  <2>4. p \in Callers
    OBVIOUS
  <2>5. [u \in Callers |-> Phase(u)]' = [[u \in Callers |-> Phase(u)] EXCEPT ![p] = "posting"]
    BY <2>1, <2>2, <2>4, PhaseMove
  <2> HIDE DEF Phase
  <2> QED
    BY <1>1, <2>1, <2>3, <2>4, <2>5 DEF PostCall, Promise!CallPost
<1>2. ASSUME NEW p \in Posters, PostLock(p) PROVE Stutter
  BY <1>2 DEF PostLock
<1>3. ASSUME NEW p \in Posters, PostCheck(p) PROVE Promise!Refuse(p) \/ Stutter
  <2>1. CASE Leave(p, "refused")
    <3>1. Len(queue) >= Capacity \/ interrupted
      BY <1>3, <2>1 DEF PostCheck
    <3>2. Phase(p) = "posting" /\ Phase(p)' = "refused"
      BY <1>3, <2>1 DEF PostCheck
    <3>3. \A u \in Callers \ {p} : Phase(u)' = Phase(u)
      BY <1>3, <2>1 DEF PostCheck
    <3>4. p \in Callers
      OBVIOUS
    <3>5. [u \in Callers |-> Phase(u)]' = [[u \in Callers |-> Phase(u)] EXCEPT ![p] = "refused"]
      BY <3>2, <3>3, <3>4, PhaseMove
    <3> HIDE DEF Phase
    <3> QED
      BY <1>3, <3>1, <3>2, <3>4, <3>5 DEF PostCheck, Promise!Refuse
  <2>2. CASE ~Leave(p, "refused")
    <3>1. \A u \in Callers : Phase(u)' = Phase(u)
      BY <1>3, <2>2 DEF PostCheck
    <3> HIDE DEF Phase
    <3> QED
      BY <1>3, <3>1 DEF PostCheck
  <2> QED
    BY <2>1, <2>2
<1>4. ASSUME NEW p \in Posters, PostTest(p) PROVE Promise!Refuse(p) \/ Stutter
  <2>1. CASE Leave(p, "refused")
    <3>1. Len(queue) >= Capacity \/ interrupted
      BY <1>4, <2>1 DEF PostTest
    <3>2. Phase(p) = "posting" /\ Phase(p)' = "refused"
      BY <1>4, <2>1 DEF PostTest
    <3>3. \A u \in Callers \ {p} : Phase(u)' = Phase(u)
      BY <1>4, <2>1 DEF PostTest
    <3>4. p \in Callers
      OBVIOUS
    <3>5. [u \in Callers |-> Phase(u)]' = [[u \in Callers |-> Phase(u)] EXCEPT ![p] = "refused"]
      BY <3>2, <3>3, <3>4, PhaseMove
    <3> HIDE DEF Phase
    <3> QED
      BY <1>4, <3>1, <3>2, <3>4, <3>5 DEF PostTest, Promise!Refuse
  <2>2. CASE ~Leave(p, "refused")
    <3>1. \A u \in Callers : Phase(u)' = Phase(u)
      BY <1>4, <2>2 DEF PostTest
    <3> HIDE DEF Phase
    <3> QED
      BY <1>4, <3>1 DEF PostTest
  <2> QED
    BY <2>1, <2>2
<1>5. ASSUME NEW p \in Posters, PostRecheck(p) PROVE Promise!Refuse(p) \/ Stutter
  <2>1. CASE Leave(p, "refused")
    <3>1. Len(queue) >= Capacity \/ interrupted
      BY <1>5, <2>1 DEF PostRecheck
    <3>2. Phase(p) = "posting" /\ Phase(p)' = "refused"
      BY <1>5, <2>1 DEF PostRecheck
    <3>3. \A u \in Callers \ {p} : Phase(u)' = Phase(u)
      BY <1>5, <2>1 DEF PostRecheck
    <3>4. p \in Callers
      OBVIOUS
    <3>5. [u \in Callers |-> Phase(u)]' = [[u \in Callers |-> Phase(u)] EXCEPT ![p] = "refused"]
      BY <3>2, <3>3, <3>4, PhaseMove
    <3> HIDE DEF Phase
    <3> QED
      BY <1>5, <3>1, <3>2, <3>4, <3>5 DEF PostRecheck, Promise!Refuse
  <2>2. CASE ~Leave(p, "refused")
    <3>1. \A u \in Callers : Phase(u)' = Phase(u)
      BY <1>5, <2>2 DEF PostRecheck
    <3> HIDE DEF Phase
    <3> QED
      BY <1>5, <3>1 DEF PostRecheck
  <2> QED
    BY <2>1, <2>2
<1>6. ASSUME NEW p \in Posters, PostCommit(p) PROVE Promise!Put(p, msg[p])
  <2>1. Phase(p) = "posting" /\ Phase(p)' = "posted"
    BY <1>6 DEF PostCommit, NotifyOne, Asleep
  <2>2. \A u \in Callers \ {p} : Phase(u)' = Phase(u)
    BY <1>6 DEF PostCommit, NotifyOne, Asleep
  <2>3. [g \in Fetchers |-> msg[g]]' = [g \in Fetchers |-> msg[g]]
    BY <1>6 DEF PostCommit
  <2>4. p \in Callers
    OBVIOUS
  <2>5. [u \in Callers |-> Phase(u)]' = [[u \in Callers |-> Phase(u)] EXCEPT ![p] = "posted"]
    BY <2>1, <2>2, <2>4, PhaseMove
  <2> HIDE DEF Phase
  <2> QED
    BY <1>6, <2>1, <2>3, <2>4, <2>5 DEF PostCommit, Promise!Put
<1>7. ASSUME NEW p \in Posters, PostReturn(p) PROVE Promise!ReturnPost(p)
  <2>1. Phase(p) \in {"posted", "refused"} /\ Phase(p)' = "idle"
    BY <1>7 DEF PostReturn
  <2>2. \A u \in Callers \ {p} : Phase(u)' = Phase(u)
    BY <1>7 DEF PostReturn
  <2>3. [g \in Fetchers |-> msg[g]]' = [g \in Fetchers |-> msg[g]]
    BY <1>7 DEF PostReturn
  <2>4. p \in Callers
    OBVIOUS
  <2>5. [u \in Callers |-> Phase(u)]' = [[u \in Callers |-> Phase(u)] EXCEPT ![p] = "idle"]
    BY <2>1, <2>2, <2>4, PhaseMove
  <2> HIDE DEF Phase
  <2> QED
    BY <1>7, <2>1, <2>3, <2>4, <2>5 DEF PostReturn, Promise!ReturnPost
<1>8. ASSUME NEW f \in Fetchers, FetchCall(f) PROVE Promise!CallFetch(f)
  <2>1. Phase(f) = "idle" /\ Phase(f)' = "fetching"
    BY <1>8 DEF FetchCall
  <2>2. \A u \in Callers \ {f} : Phase(u)' = Phase(u)
    BY <1>8 DEF FetchCall
  <2>3. [g \in Fetchers |-> msg[g]]' = [g \in Fetchers |-> msg[g]]
    BY <1>8 DEF FetchCall
  <2>4. f \in Callers
    OBVIOUS
  <2>5. [u \in Callers |-> Phase(u)]' = [[u \in Callers |-> Phase(u)] EXCEPT ![f] = "fetching"]
    BY <2>1, <2>2, <2>4, PhaseMove
  <2> HIDE DEF Phase
  <2> QED
    BY <1>8, <2>1, <2>3, <2>4, <2>5 DEF FetchCall, Promise!CallFetch
<1>9. ASSUME NEW f \in Fetchers, FetchLock(f) PROVE Stutter
  BY <1>9 DEF FetchLock
<1>10. ASSUME NEW f \in Fetchers, FetchTest(f) PROVE Promise!Miss(f) \/ Stutter
  <2>1. CASE Leave(f, "missed")
    <3>1. queue = <<>>
      BY <1>10, <2>1 DEF FetchTest
    <3>2. Phase(f) = "fetching" /\ Phase(f)' = "missed"
      BY <1>10, <2>1 DEF FetchTest
    <3>3. \A u \in Callers \ {f} : Phase(u)' = Phase(u)
      BY <1>10, <2>1 DEF FetchTest
    <3>4. f \in Callers
      OBVIOUS
    <3>5. [u \in Callers |-> Phase(u)]' = [[u \in Callers |-> Phase(u)] EXCEPT ![f] = "missed"]
      BY <3>2, <3>3, <3>4, PhaseMove
    <3> HIDE DEF Phase
    <3> QED
      BY <1>10, <3>1, <3>2, <3>4, <3>5 DEF FetchTest, Promise!Miss
  <2>2. CASE ~Leave(f, "missed")
    <3>1. \A u \in Callers : Phase(u)' = Phase(u)
      BY <1>10, <2>2 DEF FetchTest
    <3> HIDE DEF Phase
    <3> QED
      BY <1>10, <3>1 DEF FetchTest
  <2> QED
    BY <2>1, <2>2
<1>11. ASSUME NEW f \in Fetchers, FetchRecheck(f) PROVE Promise!Miss(f) \/ Stutter
  <2>1. CASE Leave(f, "missed")
    <3>1. queue = <<>>
      BY <1>11, <2>1 DEF FetchRecheck
    <3>2. Phase(f) = "fetching" /\ Phase(f)' = "missed"
      BY <1>11, <2>1 DEF FetchRecheck
    <3>3. \A u \in Callers \ {f} : Phase(u)' = Phase(u)
      BY <1>11, <2>1 DEF FetchRecheck
    <3>4. f \in Callers
      OBVIOUS
    <3>5. [u \in Callers |-> Phase(u)]' = [[u \in Callers |-> Phase(u)] EXCEPT ![f] = "missed"]
      BY <3>2, <3>3, <3>4, PhaseMove
    <3> HIDE DEF Phase
    <3> QED
      BY <1>11, <3>1, <3>2, <3>4, <3>5 DEF FetchRecheck, Promise!Miss
  <2>2. CASE ~Leave(f, "missed")
    <3>1. \A u \in Callers : Phase(u)' = Phase(u)
      BY <1>11, <2>2 DEF FetchRecheck
    <3> HIDE DEF Phase
    <3> QED
      BY <1>11, <3>1 DEF FetchRecheck
  <2> QED
    BY <2>1, <2>2
<1>12. ASSUME NEW f \in Fetchers, FetchCommit(f) PROVE Promise!Take(f)
  <2>1. Phase(f) = "fetching" /\ Phase(f)' = "fetched"
    BY <1>12 DEF FetchCommit, NotifyOne, Asleep
  <2>2. \A u \in Callers \ {f} : Phase(u)' = Phase(u)
    BY <1>12 DEF FetchCommit, NotifyOne, Asleep
  <2>3. [g \in Fetchers |-> msg[g]]' = [[g \in Fetchers |-> msg[g]] EXCEPT ![f] = Head(queue)]
    BY <1>12 DEF FetchCommit
  <2>4. f \in Callers
    OBVIOUS
  <2>5. [u \in Callers |-> Phase(u)]' = [[u \in Callers |-> Phase(u)] EXCEPT ![f] = "fetched"]
    BY <2>1, <2>2, <2>4, PhaseMove
  <2> HIDE DEF Phase
  <2> QED
    BY <1>12, <2>1, <2>3, <2>4, <2>5 DEF FetchCommit, Promise!Take
<1>13. ASSUME NEW f \in Fetchers, FetchReturn(f) PROVE Promise!ReturnFetch(f)
  <2>1. Phase(f) \in {"fetched", "missed"} /\ Phase(f)' = "idle"
    BY <1>13 DEF FetchReturn
  <2>2. \A u \in Callers \ {f} : Phase(u)' = Phase(u)
    BY <1>13 DEF FetchReturn
  <2>3. [g \in Fetchers |-> msg[g]]' = [[g \in Fetchers |-> msg[g]] EXCEPT ![f] = NoMsg]
    BY <1>13 DEF FetchReturn
  <2>4. f \in Callers
    OBVIOUS
  <2>5. [u \in Callers |-> Phase(u)]' = [[u \in Callers |-> Phase(u)] EXCEPT ![f] = "idle"]
    BY <2>1, <2>2, <2>4, PhaseMove
  <2> HIDE DEF Phase
  <2> QED
    BY <1>13, <2>1, <2>3, <2>4, <2>5 DEF FetchReturn, Promise!ReturnFetch
<1>14. ASSUME NEW t \in Callers, Sleep(t) PROVE Stutter
  BY <1>14 DEF Sleep
<1>15. ASSUME NEW t \in Callers, Expire(t) PROVE Stutter
  BY <1>15 DEF Expire
<1>16. ASSUME NEW t \in Callers, SpuriousWake(t) PROVE Stutter
  BY <1>16 DEF SpuriousWake
<1>17. ASSUME NEW t \in Callers, Relock(t) PROVE Stutter
  BY <1>17 DEF Relock
<1>18. ASSUME NEW c \in Controllers, ControlCall(c) PROVE Stutter
  BY <1>18 DEF ControlCall
<1>19. ASSUME NEW c \in Controllers, ClearLock(c) PROVE Stutter
  BY <1>19 DEF ClearLock
<1>20. ASSUME NEW c \in Controllers, Clear(c) PROVE Promise!DiscardAll
  BY <1>20 DEF Clear, Promise!DiscardAll
<1>21. ASSUME NEW c \in Controllers, InterruptStore(c) PROVE Promise!Close
  BY <1>21 DEF InterruptStore, Promise!Close
<1>22. ASSUME NEW c \in Controllers, InterruptWakeFetchers(c) PROVE Stutter
  BY <1>22 DEF InterruptWakeFetchers, Asleep
<1>23. ASSUME NEW c \in Controllers, InterruptWakePosters(c) PROVE Stutter
  BY <1>23 DEF InterruptWakePosters, Asleep
<1>24. ASSUME NEW c \in Controllers, Reset(c) PROVE Promise!Open
  BY <1>24 DEF Reset, MayReset, Promise!Open
<1>25. ASSUME NEW c \in Controllers, ControlReturn(c) PROVE Stutter
  BY <1>25 DEF ControlReturn
<1>26. ASSUME UNCHANGED vars PROVE Stutter
  BY <1>26 DEF vars
<1>27. ASSUME NEW p \in Posters, PostCommit(p) PROVE \E m \in Msgs : Promise!Put(p, m)
  <2>1. msg[p] \in Msgs
    BY <1>27 DEF PostCommit, PostersCarry
  <2>2. Promise!Put(p, msg[p])
    BY <1>6, <1>27
  <2> HIDE DEF IInv, TypeOK, Ownership, PostersHaveRoom, SeenOpen, Roles, Phase
  <2> QED
    BY <2>1, <2>2 DEF Promise!Put
<1> HIDE DEF IInv, TypeOK, Ownership, PostersHaveRoom, SeenOpen, Roles, Phase, Goto, Acquire,
        Proceed, Leave, Wake, Promise!vars, Promise!Move
<1> HIDE DEF Stutter
<1>28. ASSUME NEW p \in Posters, PostCall(p) \/ PostLock(p) \/ PostStep(p)
       PROVE  Promise!Next \/ Stutter
  BY <1>1, <1>2, <1>3, <1>4, <1>5, <1>7, <1>27, <1>28 DEF PostStep, Promise!Next
<1>29. ASSUME NEW f \in Fetchers, FetchCall(f) \/ FetchLock(f) \/ FetchStep(f)
       PROVE  Promise!Next \/ Stutter
  BY <1>8, <1>9, <1>10, <1>11, <1>12, <1>13, <1>29 DEF FetchStep, Promise!Next
<1>30. ASSUME NEW t \in Callers, Sleep(t) \/ Expire(t) \/ SpuriousWake(t) \/ Relock(t)
       PROVE  Stutter
  BY <1>14, <1>15, <1>16, <1>17, <1>30
<1>31. ASSUME NEW c \in Controllers, ControlCall(c) \/ ClearLock(c) \/ ControlStep(c)
       PROVE  Promise!Next \/ Stutter
  BY <1>18, <1>19, <1>20, <1>21, <1>22, <1>23, <1>24, <1>25, <1>31
     DEF ControlStep, Promise!Next
<1>32. Promise!Next \/ Stutter
  BY <1>26, <1>28, <1>29, <1>30, <1>31 DEF Next
<1> QED
  BY <1>32 DEF Stutter

\* MessageBox implements Mailbox: whatever the threads do, each post and each
\* fetch takes effect at one step of its own, on a bounded FIFO.
THEOREM Refinement == ASSUME ResetAnytime = FALSE PROVE Spec => ImplementsMailbox
<1> DEFINE RInv == IInv /\ SeenOpen /\ Roles
<1>1. Init => RInv /\ Promise!Init
  BY InitIInv, InitRefines
<1>2. RInv /\ [Next]_vars => RInv'
  BY StepIInv, StepSeenOpen
<1>3. RInv /\ [Next]_vars => [Promise!Next]_(Promise!vars)
  BY StepRefines
<1> QED
  BY <1>1, <1>2, <1>3, PTL DEF Spec, ImplementsMailbox, Promise!Spec
=============================================================================

-------------------------- MODULE FrameFlowProofs --------------------------
(***************************************************************************)
(* What holds of FrameFlow for every network of models, every number of      *)
(* frames and every inbox capacity: the types, the exactness of the          *)
(* reference counts, the bound on the blocks in use, and that nobody posts   *)
(* to, or runs on, a node that is gone.                                      *)
(*                                                                         *)
(* None of these is inductive: what keeps a step of the worker safe is what  *)
(* is left on its agenda.  The invariant IInv says of the agenda what the    *)
(* order of the calls in NodeFactory and CameraNode achieves: a node is      *)
(* freed behind the join of its thread and the detaching of its inbox, or    *)
(* together with a sender that is gone; who is told to stop is waited for    *)
(* and its inbox emptied; nobody runs without the node that feeds it.        *)
(*                                                                         *)
(* That a command issues such an agenda is shown piece by piece: Orderly is  *)
(* what a piece of a teardown promises, JoinedTeardowns that pieces one      *)
(* after the other keep the promise, and Rows and Downwards that a cascade   *)
(* over all models is laid out in their order.                               *)
(***************************************************************************)
EXTENDS FrameFlow, SequenceTheorems, FiniteSetTheorems, WellFoundedInduction, TLAPS

-----------------------------------------------------------------------------
(* Agendas are laid out from pieces                                          *)

\* A set of numbers that is not empty has a least one.
LEMMA SmallestNumber ==
  ASSUME NEW I \in SUBSET Nat, I # {}
  PROVE  \E i \in I : \A j \in I : i <= j
<1>1. PICK i \in I : \A j \in I : ~ (<<j, i>> \in OpToRel(<, Nat))
  BY NatLessThanWellFounded, WFMin
<1>2. ASSUME NEW j \in I PROVE i <= j
  <2>1. <<j, i>> \notin OpToRel(<, Nat)
    BY <1>1
  <2>2. ~(j < i)
    BY <1>1, <2>1 DEF OpToRel
  <2> QED
    BY <2>2
<1> QED
  BY <1>2

\* What holds of 1 and, with n, of n + 1 holds of all numbers up to N.
LEMMA Induction ==
  ASSUME NEW N \in Nat, NEW Good, 1 \in Good, \A n \in 1..N : n \in Good /\ n + 1 \in 1..N => n + 1 \in Good
  PROVE  1..N \subseteq Good
<1> DEFINE Bad == (1..N) \ Good
<1> SUFFICES ASSUME Bad # {} PROVE FALSE
  OBVIOUS
<1>1. PICK n \in Bad : \A j \in Bad : n <= j
  <2>1. Bad \in SUBSET Nat
    OBVIOUS
  <2> HIDE DEF Bad
  <2> QED
    BY <2>1, SmallestNumber
<1>2. n # 1 /\ n \in 1..N
  BY <1>1
<1>3. n - 1 \in 1..N /\ n - 1 \notin Bad
  BY <1>1, <1>2
<1> QED
  BY <1>1, <1>3

\* flat is made of the parts, one after the other, part i behind at[i].
Layout(flat, parts, N, at) ==
    /\ at \in [1..N -> Nat]
    /\ \A i \in 1..N : \A k \in 1..Len(parts[i]) : at[i] + k \in 1..Len(flat) /\ flat[at[i] + k] = parts[i][k]
    /\ \A n \in 1..Len(flat) : \E i \in 1..N : \E k \in 1..Len(parts[i]) : n = at[i] + k
    /\ \A i, j \in 1..N : i < j => at[i] + Len(parts[i]) <= at[j]
    /\ \A i \in 1..N : at[i] + Len(parts[i]) <= Len(flat)

\* One part more.
LEMMA LayoutGrows ==
  ASSUME NEW S, NEW N \in Nat, NEW parts, NEW flat \in Seq(S), NEW at, Layout(flat, parts, N, at),
         \A i \in 1..(N + 1) : parts[i] \in Seq(S)
  PROVE  \E more : Layout(flat \o parts[N + 1], parts, N + 1, more)
<1> DEFINE last == parts[N + 1]
           wide == flat \o last
           more == [i \in 1..(N + 1) |-> IF i = N + 1 THEN Len(flat) ELSE at[i]]
<1>1. last \in Seq(S) /\ Len(flat) \in Nat /\ Len(last) \in Nat
  OBVIOUS
<1> HIDE DEF last
<1>2. /\ wide \in Seq(S) /\ Len(wide) = Len(flat) + Len(last)
      /\ \A n \in 1..Len(flat) : wide[n] = flat[n]
      /\ \A k \in 1..Len(last) : wide[Len(flat) + k] = last[k]
  BY <1>1, ConcatProperties
<1> HIDE DEF wide
<1>3. /\ at \in [1..N -> Nat]
      /\ \A i \in 1..N : \A k \in 1..Len(parts[i]) : at[i] + k \in 1..Len(flat) /\ flat[at[i] + k] = parts[i][k]
      /\ \A n \in 1..Len(flat) : \E i \in 1..N : \E k \in 1..Len(parts[i]) : n = at[i] + k
      /\ \A i, j \in 1..N : i < j => at[i] + Len(parts[i]) <= at[j]
      /\ \A i \in 1..N : Len(parts[i]) \in Nat /\ at[i] + Len(parts[i]) <= Len(flat)
  BY DEF Layout
<1>4. more \in [1..(N + 1) -> Nat] /\ more[N + 1] = Len(flat) /\ \A i \in 1..N : more[i] = at[i]
  BY <1>1, <1>3
<1> HIDE DEF more
<1>5. ASSUME NEW i \in 1..(N + 1), NEW k \in 1..Len(parts[i])
      PROVE  more[i] + k \in 1..Len(wide) /\ wide[more[i] + k] = parts[i][k]
  <2>1. CASE i = N + 1
    <3>1. parts[i] = last
      BY <2>1 DEF last
    <3>2. more[i] = Len(flat) /\ k \in 1..Len(last)
      BY <1>4, <2>1, <3>1
    <3>3. Len(flat) + k \in 1..Len(wide) /\ wide[Len(flat) + k] = last[k]
      BY <1>1, <1>2, <3>2
    <3> QED
      BY <3>1, <3>2, <3>3
  <2>2. CASE i # N + 1
    <3>1. i \in 1..N /\ at[i] + k \in 1..Len(flat) /\ flat[at[i] + k] = parts[i][k]
      BY <1>3, <2>2
    <3> QED
      BY <1>1, <1>2, <1>4, <3>1
  <2> QED
    BY <2>1, <2>2
<1>6. ASSUME NEW n \in 1..Len(wide) PROVE \E i \in 1..(N + 1) : \E k \in 1..Len(parts[i]) : n = more[i] + k
  <2>1. CASE n <= Len(flat)
    <3>1. PICK i \in 1..N : \E k \in 1..Len(parts[i]) : n = at[i] + k
      BY <1>1, <1>2, <1>3, <2>1
    <3> QED
      BY <1>4, <3>1
  <2>2. CASE n > Len(flat)
    <3>1. n - Len(flat) \in 1..Len(last) /\ n = more[N + 1] + (n - Len(flat)) /\ N + 1 \in 1..(N + 1)
      BY <1>1, <1>2, <1>4, <2>2
    <3> QED
      BY <3>1 DEF last
  <2> QED
    BY <1>1, <1>2, <2>1, <2>2
<1>7. ASSUME NEW i \in 1..(N + 1), NEW j \in 1..(N + 1), i < j PROVE more[i] + Len(parts[i]) <= more[j]
  <2>1. CASE j = N + 1
    BY <1>3, <1>4, <1>7, <2>1
  <2>2. CASE j # N + 1
    BY <1>3, <1>4, <1>7, <2>2
  <2> QED
    BY <2>1, <2>2
<1>8. ASSUME NEW i \in 1..(N + 1) PROVE more[i] + Len(parts[i]) <= Len(wide)
  <2>1. CASE i = N + 1
    <3>1. parts[i] = last /\ more[i] = Len(flat)
      BY <1>4, <2>1 DEF last
    <3> QED
      BY <1>1, <1>2, <3>1
  <2>2. CASE i # N + 1
    <3>1. i \in 1..N /\ more[i] = at[i] /\ at[i] \in Nat /\ Len(parts[i]) \in Nat
          /\ at[i] + Len(parts[i]) <= Len(flat)
      BY <1>3, <1>4, <2>2
    <3> QED
      BY ONLY <1>1, <1>2, <3>1
  <2> QED
    BY <2>1, <2>2
<1>9. Layout(wide, parts, N + 1, more)
  BY <1>4, <1>5, <1>6, <1>7, <1>8 DEF Layout
<1> QED
  BY <1>9 DEF wide, last

\* What FlattenSeq makes of the parts.
LEMMA FlattenSeqIsLaidOut ==
  ASSUME NEW S, NEW parts \in Seq(Seq(S))
  PROVE  /\ FlattenSeq(parts) \in Seq(S)
         /\ \E at : Layout(FlattenSeq(parts), parts, Len(parts), at)
<1> DEFINE N == Len(parts)
           Solves(f, n) == f = [i \in 1..n |-> IF i = 1 THEN parts[i] ELSE f[i - 1] \o parts[i]]
           flatten == CHOOSE f : Solves(f, N)
<1>1. N \in Nat /\ \A i \in 1..N : parts[i] \in Seq(S)
  OBVIOUS
<1>2. CASE N = 0
  <2>1. FlattenSeq(parts) = <<>> /\ Len(<<>>) = 0 /\ <<>> \in Seq(S)
    BY <1>2, EmptySeq DEF FlattenSeq
  <2>2. Layout(<<>>, parts, N, [i \in 1..N |-> 0])
    BY <1>2, <2>1 DEF Layout
  <2> QED
    BY <2>1, <2>2
<1>3. CASE N # 0
  <2>1. FlattenSeq(parts) = flatten[N]
    BY <1>3 DEF FlattenSeq
  <2> HIDE DEF N
  <2>2. \E f : Solves(f, N)
    <3> DEFINE Good == {n \in Nat : \E f : Solves(f, n)}
    <3>1. 1 \in Good
      <4>1. Solves([i \in 1..1 |-> parts[i]], 1)
        OBVIOUS
      <4> QED
        BY <4>1
    <3>2. ASSUME NEW n \in 1..N, n \in Good PROVE n + 1 \in Good
      <4>1. PICK f : Solves(f, n)
        BY <3>2
      <4> DEFINE g == [i \in 1..(n + 1) |-> IF i = n + 1 THEN f[n] \o parts[n + 1] ELSE f[i]]
      <4>2. ASSUME NEW i \in 1..(n + 1) PROVE g[i] = IF i = 1 THEN parts[i] ELSE g[i - 1] \o parts[i]
        <5>1. CASE i = n + 1
          <6>1. i # 1 /\ i - 1 = n /\ n \in 1..(n + 1) /\ n # n + 1
            BY <1>1, <5>1
          <6>2. g[i] = f[n] \o parts[n + 1] /\ g[n] = f[n]
            BY <5>1, <6>1
          <6> QED
            BY <5>1, <6>1, <6>2
        <5>2. CASE i # n + 1
          <6>1. i \in 1..n /\ (i # 1 => i - 1 \in 1..n /\ i - 1 # n + 1)
            BY <1>1, <5>2
          <6>2. f[i] = IF i = 1 THEN parts[i] ELSE f[i - 1] \o parts[i]
            BY <4>1, <6>1
          <6> QED
            BY <5>2, <6>1, <6>2
        <5> QED
          BY <5>1, <5>2
      <4>3. g = [i \in 1..(n + 1) |-> g[i]]
        OBVIOUS
      <4> HIDE DEF g
      <4>4. Solves(g, n + 1)
        BY <4>2, <4>3
      <4>5. n + 1 \in Nat
        BY <1>1
      <4> QED
        BY <4>4, <4>5, Zenon
    <3> HIDE DEF Good
    <3>3. 1..N \subseteq Good
      BY <1>1, <3>1, <3>2, Induction
    <3>4. N \in 1..N
      BY <1>1, <1>3
    <3>5. N \in Good
      BY <3>3, <3>4
    <3> QED
      BY <3>5, Zenon DEF Good
  <2>3. Solves(flatten, N)
    BY <2>2
  <2> HIDE DEF flatten
  <2> DEFINE Good == {n \in 1..N : flatten[n] \in Seq(S) /\ \E at : Layout(flatten[n], parts, n, at)}
  <2>4. 1 \in Good
    <3>1. 1 \in 1..N /\ flatten[1] = parts[1] /\ parts[1] \in Seq(S)
      BY <1>1, <1>3, <2>3
    <3>2. Layout(flatten[1], parts, 1, [i \in 1..1 |-> 0])
      BY <3>1 DEF Layout
    <3> QED
      BY <3>1, <3>2
  <2>5. ASSUME NEW n \in 1..N, n \in Good, n + 1 \in 1..N PROVE n + 1 \in Good
    <3>1. flatten[n + 1] = flatten[n] \o parts[n + 1]
      <4>1. n + 1 # 1 /\ (n + 1) - 1 = n
        BY <1>1
      <4>2. flatten[n + 1] = IF n + 1 = 1 THEN parts[n + 1] ELSE flatten[(n + 1) - 1] \o parts[n + 1]
        BY <2>3, <2>5
      <4> QED
        BY <4>1, <4>2
    <3>2. PICK at : Layout(flatten[n], parts, n, at)
      BY <2>5
    <3>3. flatten[n] \in Seq(S) /\ n \in Nat /\ \A i \in 1..(n + 1) : parts[i] \in Seq(S)
      BY <1>1, <2>5
    <3>4. \E more : Layout(flatten[n + 1], parts, n + 1, more)
      BY <3>1, <3>2, <3>3, LayoutGrows
    <3>5. flatten[n + 1] \in Seq(S)
      BY <1>1, <2>5, <3>1, <3>3, ConcatProperties
    <3> QED
      BY <2>5, <3>4, <3>5
  <2> HIDE DEF Good
  <2>6. N \in Good
    <3>1. 1..N \subseteq Good
      BY <1>1, <2>4, <2>5, Induction
    <3>2. N \in 1..N
      BY <1>1, <1>3
    <3> QED
      BY <3>1, <3>2
  <2> QED
    BY <2>1, <2>6 DEF Good, N
<1> QED
  BY <1>2, <1>3
-----------------------------------------------------------------------------
(* What the worker has still to do                                           *)

Building == {"attach", "open", "spawn", "init_mmf"}
TearingDown == {"detach", "halt", "join", "clear", "free", "exit_mmf"}

\* e is among the steps a; it comes before, or behind, step i.
Has(a, e) == \E i \in 1..Len(a) : a[i] = e
Before(a, i, e) == \E j \in 1..(i - 1) : a[j] = e
Behind(a, i, e) == \E j \in (i + 1)..Len(a) : a[j] = e

\* A command builds or tears down.
OneKind ==
    /\ agenda \in Seq([op : Building \cup TearingDown, of : Senders])
    /\ \/ \A i \in 1..Len(agenda) : agenda[i].op \in Building
       \/ \A i \in 1..Len(agenda) : agenda[i].op \in TearingDown

\* A thread is started when there is none, once, for a node that is there.
SpawnsAreSafe ==
    \A i \in 1..Len(agenda), s \in Senders :
        agenda[i] = Step("spawn", s) =>
            /\ pc[s] = "off"
            /\ s \in Models => s \in alive \/ Before(agenda, i, Step("attach", s))
            /\ s = Camera => mmf \/ Before(agenda, i, Step("init_mmf", Camera))
            /\ \A j \in 1..Len(agenda) : agenda[j] = agenda[i] => j = i

\* A node that is told to stop is waited for, then its inbox is emptied.
HaltsAreCompleted ==
    \A i \in 1..Len(agenda), s \in Senders :
        agenda[i] = Step("halt", s) =>
            /\ i + 1 \in 1..Len(agenda) /\ agenda[i + 1] = Step("join", s)
            /\ s \in Models => Behind(agenda, i, Step("clear", s))

\* The thread of s is gone by step i.
GoneBy(i, s) == pc[s] = "off" \/ Before(agenda, i, Step("join", s))

\* A node is freed when its thread is gone, and nobody can reach its inbox: it
\* was detached, or its sender is gone and freed later.
FreesAreSafe ==
    \A i \in 1..Len(agenda), s \in Senders :
        agenda[i] = Step("free", s) =>
            /\ GoneBy(i, s)
            /\ ~running[s] \/ Before(agenda, i, Step("halt", s))
            /\ s \in Models =>
                \/ s \notin subscribers[FedBy[s]]
                \/ Before(agenda, i, Step("detach", s))
                \/ GoneBy(i, FedBy[s]) /\ Behind(agenda, i, Step("free", FedBy[s]))

\* The MMF context goes when all threads have.
ExitsAreSafe ==
    \A i \in 1..Len(agenda) :
        agenda[i] = Step("exit_mmf", Camera) =>
            /\ \A s \in Senders : GoneBy(i, s)
            /\ ~running[Camera] \/ Before(agenda, i, Step("halt", Camera))

\* When the worker is done with its agenda: who runs, and who is there.
WillRun(s) == Has(agenda, Step("spawn", s)) \/ (running[s] /\ ~Has(agenda, Step("halt", s)))
WillLive(m) == Has(agenda, Step("attach", m)) \/ (m \in alive /\ ~Has(agenda, Step("free", m)))

\* Nobody runs, or is there, without the node that feeds it.
FeedersStay ==
    \A m \in Models :
        /\ WillRun(m) => WillRun(FedBy[m])
        /\ WillLive(m) => FedBy[m] = Camera \/ WillLive(FedBy[m])

AgendaInv ==
    OneKind /\ SpawnsAreSafe /\ HaltsAreCompleted /\ FreesAreSafe /\ ExitsAreSafe /\ FeedersStay

\* What a thread holds where.
ThreadInv ==
    \A s \in Senders :
        /\ pc[s] \in {"top", "get", "off"} => hand[s] = NoFrame
        /\ pc[s] \in {"use", "send", "drop"} => hand[s] \in Frames
        /\ pc[s] # "send" => context[s] = Nobody
        /\ pc[s] = "send" => todo[s] \subseteq subscribers[s] /\ context[s] \in todo[s] \cup {Nobody}

\* What is stopped or gone has no thread; what is gone holds nothing.
NodeInv ==
    /\ \A s \in Senders : ~running[s] => pc[s] = "off" \/ Has(agenda, Step("join", s))
    /\ \A m \in Models \ alive : pc[m] = "off" /\ ~running[m] /\ box[m] = <<>>
    /\ ~mmf => pc[Camera] = "off" /\ ~running[Camera]
    /\ \A m \in Models : /\ Len(box[m]) <= Capacity
                         /\ box[m] # <<>> /\ interrupted[m] =>
                                Has(agenda, Step("clear", m)) \/ Has(agenda, Step("free", m))

\* A sender that runs knows nodes only that are there.
SubscriberInv ==
    \A s \in Senders :
        /\ \A m \in subscribers[s] : FedBy[m] = s
        /\ subscribers[s] \subseteq alive \/ (pc[s] = "off" /\ Has(agenda, Step("free", s)))

\* TypeOK, without the counts
VarTypes ==
    /\ pc \in [Senders -> {"top", "get", "use", "send", "drop", "off"}]
    /\ hand \in [Senders -> Frames \cup {NoFrame}]
    /\ todo \in [Senders -> SUBSET Models]
    /\ context \in [Senders -> Models \cup {Nobody}]
    /\ running \in [Senders -> BOOLEAN]
    /\ box \in [Models -> Seq(Frames)]
    /\ interrupted \in [Models -> BOOLEAN]
    /\ subscribers \in [Senders -> SUBSET Models]
    /\ alive \in SUBSET Models
    /\ mmf \in BOOLEAN

IInv == VarTypes /\ AgendaInv /\ ThreadInv /\ NodeInv /\ SubscriberInv

-----------------------------------------------------------------------------
(* The nodes                                                                 *)

\* The camera and the models.
LEMMA Nodes ==
  /\ Camera \notin Models /\ Camera \in Senders /\ Models \subseteq Senders
  /\ FedBy \in [Models -> Senders]
  /\ \A s \in Senders : s = Camera \/ s \in Models
  /\ Capacity \in Nat /\ Capacity >= 1
  /\ NoFrame \notin Frames /\ Nobody \notin Models
BY FrameFlowAssumption DEF Senders

\* The order of the nodes: each is behind the one that feeds it.
LEMMA Order ==
  /\ TopDown \in Seq(Models) /\ Len(TopDown) \in Nat
  /\ \A i \in 1..Len(TopDown) : TopDown[i] \in Models
  /\ \A m \in Models : \E i \in 1..Len(TopDown) : TopDown[i] = m
  /\ \A i, j \in 1..Len(TopDown) : TopDown[i] = TopDown[j] => i = j
  /\ \A i \in 1..Len(TopDown) :
        FedBy[TopDown[i]] = Camera \/ \E j \in 1..(i - 1) : FedBy[TopDown[i]] = TopDown[j]
<1>1. TopDown \in Seq(Models) /\ Len(TopDown) \in Nat /\ DOMAIN TopDown = 1..Len(TopDown)
  BY FrameFlowAssumption, LenProperties
<1>2. \A m \in Models : \E i \in 1..Len(TopDown) : TopDown[i] = m
  BY <1>1 DEF Models, ToSet
<1>3. \A i, j \in 1..Len(TopDown) : TopDown[i] = TopDown[j] => i = j
  BY <1>1, FrameFlowAssumption DEF IsInjective
<1>4. \A i \in 1..Len(TopDown) :
        FedBy[TopDown[i]] = Camera \/ \E j \in 1..(i - 1) : FedBy[TopDown[i]] = TopDown[j]
  BY <1>1, FrameFlowAssumption
<1> QED
  BY <1>1, <1>2, <1>3, <1>4

-----------------------------------------------------------------------------
(* The worker takes a step from its agenda                                   *)

\* What is left of the agenda, shifted by one.
LEMMA Popped ==
  ASSUME OneKind, NEW op, NEW s, Doing(op, s)
  PROVE  /\ agenda' \in Seq([op : Building \cup TearingDown, of : Senders])
         /\ Len(agenda) \in Nat /\ Len(agenda') = Len(agenda) - 1
         /\ 1 \in 1..Len(agenda) /\ agenda[1] = Step(op, s)
         /\ \A i \in 1..Len(agenda') : i + 1 \in 1..Len(agenda) /\ agenda'[i] = agenda[i + 1]
<1> DEFINE E == [op : Building \cup TearingDown, of : Senders]
<1>1. agenda \in Seq(E) /\ agenda # <<>> /\ Head(agenda) = Step(op, s) /\ agenda' = Tail(agenda)
  BY DEF OneKind, Doing
<1> HIDE DEF E
<1>2. /\ agenda' \in Seq(E) /\ Len(agenda) \in Nat /\ Len(agenda') = Len(agenda) - 1
      /\ \A i \in 1..Len(agenda') : agenda'[i] = agenda[i + 1]
  BY <1>1, HeadTailProperties
<1>3. Len(agenda) # 0 /\ agenda[1] = Step(op, s)
  BY <1>1, EmptySeq
<1> QED
  BY <1>2, <1>3 DEF E

\* What comes before and behind, then.
LEMMA PoppedOrder ==
  ASSUME OneKind, NEW op, NEW s, Doing(op, s)
  PROVE  /\ \A i \in 1..Len(agenda') : \A e : Before(agenda, i + 1, e) => e = Step(op, s) \/ Before(agenda', i, e)
         /\ \A i \in 1..Len(agenda') : \A e : Behind(agenda, i + 1, e) => Behind(agenda', i, e)
         /\ \A e : Has(agenda, e) => e = Step(op, s) \/ Has(agenda', e)
         /\ \A e : Has(agenda', e) => Has(agenda, e)
<1>1. /\ Len(agenda) \in Nat /\ Len(agenda') = Len(agenda) - 1
      /\ 1 \in 1..Len(agenda) /\ agenda[1] = Step(op, s)
      /\ \A i \in 1..Len(agenda') : i + 1 \in 1..Len(agenda) /\ agenda'[i] = agenda[i + 1]
  BY Popped
<1>2. ASSUME NEW i \in 1..Len(agenda'), NEW e, Before(agenda, i + 1, e), e # Step(op, s)
      PROVE  Before(agenda', i, e)
  <2>1. PICK j \in 1..i : agenda[j] = e
    BY <1>2 DEF Before
  <2>2. j # 1 /\ j - 1 \in 1..(i - 1) /\ j - 1 \in 1..Len(agenda')
    BY <1>1, <1>2, <2>1
  <2>3. agenda'[j - 1] = e
    BY <1>1, <2>1, <2>2
  <2> QED
    BY <2>2, <2>3 DEF Before
<1>3. ASSUME NEW i \in 1..Len(agenda'), NEW e, Behind(agenda, i + 1, e)
      PROVE  Behind(agenda', i, e)
  <2>1. PICK j \in (i + 1 + 1)..Len(agenda) : agenda[j] = e
    BY <1>3 DEF Behind
  <2>2. j - 1 \in (i + 1)..Len(agenda') /\ j - 1 \in 1..Len(agenda')
    BY <1>1, <2>1
  <2>3. agenda'[j - 1] = e
    BY <1>1, <2>1, <2>2
  <2> QED
    BY <2>2, <2>3 DEF Behind
<1>4. ASSUME NEW e, Has(agenda, e), e # Step(op, s) PROVE Has(agenda', e)
  <2>1. PICK j \in 1..Len(agenda) : agenda[j] = e
    BY <1>4 DEF Has
  <2>2. j # 1 /\ j - 1 \in 1..Len(agenda')
    BY <1>1, <1>4, <2>1
  <2>3. agenda'[j - 1] = e
    BY <1>1, <2>1, <2>2
  <2> QED
    BY <2>2, <2>3 DEF Has
<1>5. ASSUME NEW e, Has(agenda', e) PROVE Has(agenda, e)
  BY <1>1, <1>5 DEF Has
<1> QED
  BY <1>2, <1>3, <1>4, <1>5

\* Steps differ when their operations or their nodes do.
LEMMA StepsDiffer ==
  /\ \A op1, op2, s1, s2 : Step(op1, s1) = Step(op2, s2) <=> op1 = op2 /\ s1 = s2
  /\ \A op1, s1 : Step(op1, s1).op = op1 /\ Step(op1, s1).of = s1
BY DEF Step

\* A kind of step that is on the agenda excludes the other.
LEMMA KindsExclude ==
  ASSUME OneKind, NEW op1, NEW s1, NEW op2, NEW s2,
         op1 \in Building, op2 \in TearingDown, Has(agenda, Step(op1, s1))
  PROVE  ~Has(agenda, Step(op2, s2))
BY StepsDiffer DEF OneKind, Has, Building, TearingDown

\* What a step of the worker does to the rest, as far as the agenda depends on it.
Effect(op, s) ==
    /\ \A x \in Senders : pc[x] = "off" /\ Step(op, s) # Step("spawn", x) => pc'[x] = "off"
    /\ op = "join" => pc'[s] = "off"
    /\ \A x \in Senders :
          running'[x] <=> Step(op, s) = Step("spawn", x) \/ (running[x] /\ Step(op, s) # Step("halt", x))
    /\ \A m \in Models :
          m \in alive' <=> Step(op, s) = Step("attach", m) \/ (m \in alive /\ Step(op, s) # Step("free", m))
    /\ \A m \in Models :
          m \in subscribers'[FedBy[m]] =>
              Step(op, s) = Step("attach", m) \/ (m \in subscribers[FedBy[m]] /\ Step(op, s) # Step("detach", m))
    /\ mmf /\ op # "exit_mmf" => mmf'
    /\ op = "init_mmf" => mmf'

\* The agenda stays what it has to be when the worker takes a step of it.
LEMMA WorkKeepsAgenda ==
  ASSUME AgendaInv, NEW op \in Building \cup TearingDown, NEW s0 \in Senders, Doing(op, s0), Effect(op, s0)
  PROVE  AgendaInv'
<1> DEFINE e == Step(op, s0)
<1> USE Nodes, StepsDiffer
<1>1. OneKind /\ SpawnsAreSafe /\ HaltsAreCompleted /\ FreesAreSafe /\ ExitsAreSafe /\ FeedersStay
  BY DEF AgendaInv
<1>2. /\ agenda' \in Seq([op : Building \cup TearingDown, of : Senders])
      /\ Len(agenda) \in Nat /\ Len(agenda') = Len(agenda) - 1
      /\ 1 \in 1..Len(agenda) /\ agenda[1] = e
      /\ \A i \in 1..Len(agenda') : i + 1 \in 1..Len(agenda) /\ agenda'[i] = agenda[i + 1]
  BY <1>1, Popped
<1>3. /\ \A i \in 1..Len(agenda') : \A x : Before(agenda, i + 1, x) => x = e \/ Before(agenda', i, x)
      /\ \A i \in 1..Len(agenda') : \A x : Behind(agenda, i + 1, x) => Behind(agenda', i, x)
      /\ \A x : Has(agenda, x) => x = e \/ Has(agenda', x)
      /\ \A x : Has(agenda', x) => Has(agenda, x)
  BY <1>1, PoppedOrder
<1>4. Has(agenda, e)
  BY <1>2 DEF Has
<1>5. \A i \in 1..Len(agenda) : Has(agenda, agenda[i])
  BY DEF Has
<1>6. ASSUME NEW op1 \in Building, NEW s1, NEW op2 \in TearingDown, NEW s2,
             Has(agenda, Step(op1, s1)), Has(agenda, Step(op2, s2))
      PROVE  FALSE
  BY <1>1, <1>6, KindsExclude
<1>7. /\ {"attach", "open", "spawn", "init_mmf"} \subseteq Building
      /\ {"detach", "halt", "join", "clear", "free", "exit_mmf"} \subseteq TearingDown
  BY DEF Building, TearingDown
<1>8. OneKind'
  <2>1. CASE \A i \in 1..Len(agenda) : agenda[i].op \in Building
    BY <1>2, <2>1 DEF OneKind
  <2>2. CASE \A i \in 1..Len(agenda) : agenda[i].op \in TearingDown
    BY <1>2, <2>2 DEF OneKind
  <2> QED
    BY <1>1, <2>1, <2>2 DEF OneKind
<1>9. SpawnsAreSafe'
  <2> SUFFICES ASSUME NEW i \in 1..Len(agenda'), NEW s \in Senders, agenda'[i] = Step("spawn", s)
               PROVE  /\ pc'[s] = "off"
                      /\ s \in Models => s \in alive' \/ Before(agenda', i, Step("attach", s))
                      /\ s = Camera => mmf' \/ Before(agenda', i, Step("init_mmf", Camera))
                      /\ \A j \in 1..Len(agenda') : agenda'[j] = agenda'[i] => j = i
    BY DEF SpawnsAreSafe
  <2>1. /\ i + 1 \in 1..Len(agenda) /\ agenda[i + 1] = Step("spawn", s)
    BY <1>2
  <2>2. /\ pc[s] = "off"
        /\ s \in Models => s \in alive \/ Before(agenda, i + 1, Step("attach", s))
        /\ s = Camera => mmf \/ Before(agenda, i + 1, Step("init_mmf", Camera))
        /\ \A j \in 1..Len(agenda) : agenda[j] = agenda[i + 1] => j = i + 1
    BY <1>1, <2>1 DEF SpawnsAreSafe
  <2>3. e # Step("spawn", s)
    BY <1>2, <2>1, <2>2
  <2>4. Has(agenda, Step("spawn", s))
    BY <1>5, <2>1
  <2>5. op \notin TearingDown
    BY <1>4, <1>6, <1>7, <2>4
  <2>6. pc'[s] = "off"
    BY <2>2, <2>3 DEF Effect
  <2>7. ASSUME s \in Models PROVE s \in alive' \/ Before(agenda', i, Step("attach", s))
    <3>1. CASE s \in alive
      BY <1>7, <2>5, <2>7, <3>1 DEF Effect
    <3>2. CASE Before(agenda, i + 1, Step("attach", s))
      BY <1>3, <2>7, <3>2 DEF Effect
    <3> QED
      BY <2>2, <2>7, <3>1, <3>2
  <2>8. ASSUME s = Camera PROVE mmf' \/ Before(agenda', i, Step("init_mmf", Camera))
    <3>1. CASE mmf
      BY <1>7, <2>5, <3>1 DEF Effect
    <3>2. CASE Before(agenda, i + 1, Step("init_mmf", Camera))
      BY <1>3, <3>2 DEF Effect
    <3> QED
      BY <2>2, <2>8, <3>1, <3>2
  <2>9. ASSUME NEW j \in 1..Len(agenda'), agenda'[j] = agenda'[i] PROVE j = i
    <3>1. j + 1 \in 1..Len(agenda) /\ agenda[j + 1] = agenda[i + 1]
      BY <1>2, <2>9
    <3>2. j + 1 = i + 1
      BY <2>2, <3>1
    <3> QED
      BY <3>2, <1>2
  <2> QED
    BY <2>6, <2>7, <2>8, <2>9
<1>10. HaltsAreCompleted'
  <2> SUFFICES ASSUME NEW i \in 1..Len(agenda'), NEW s \in Senders, agenda'[i] = Step("halt", s)
               PROVE  /\ i + 1 \in 1..Len(agenda') /\ agenda'[i + 1] = Step("join", s)
                      /\ s \in Models => Behind(agenda', i, Step("clear", s))
    BY DEF HaltsAreCompleted
  <2>1. /\ i + 1 \in 1..Len(agenda) /\ agenda[i + 1] = Step("halt", s)
    BY <1>2
  <2>2. /\ (i + 1) + 1 \in 1..Len(agenda) /\ agenda[(i + 1) + 1] = Step("join", s)
        /\ s \in Models => Behind(agenda, i + 1, Step("clear", s))
    BY <1>1, <2>1 DEF HaltsAreCompleted
  <2>3. i + 1 \in 1..Len(agenda') /\ agenda'[i + 1] = agenda[(i + 1) + 1]
    BY <1>2, <2>2
  <2> QED
    BY <1>3, <2>2, <2>3
<1>11. ASSUME NEW i \in 1..Len(agenda'), NEW x \in Senders, GoneBy(i + 1, x), op \notin Building
       PROVE  GoneBy(i, x)'
  <2>1. CASE pc[x] = "off"
    BY <1>7, <1>11, <2>1 DEF Effect, GoneBy
  <2>2. CASE Before(agenda, i + 1, Step("join", x))
    <3>1. CASE e = Step("join", x)
      BY <3>1 DEF Effect, GoneBy
    <3>2. CASE Before(agenda', i, Step("join", x))
      BY <3>2 DEF GoneBy
    <3> QED
      BY <1>3, <2>2, <3>1, <3>2
  <2> QED
    BY <1>11, <2>1, <2>2 DEF GoneBy
<1>12. ASSUME NEW i \in 1..Len(agenda'), NEW x \in Senders, op \notin Building,
              ~running[x] \/ Before(agenda, i + 1, Step("halt", x))
       PROVE  ~running'[x] \/ Before(agenda', i, Step("halt", x))
  <2>1. CASE ~running[x]
    BY <1>7, <1>12, <2>1 DEF Effect
  <2>2. CASE Before(agenda, i + 1, Step("halt", x))
    <3>1. CASE e = Step("halt", x)
      BY <3>1, <1>7 DEF Effect
    <3> QED
      BY <1>3, <2>2, <3>1
  <2> QED
    BY <1>12, <2>1, <2>2
<1>13. FreesAreSafe'
  <2> SUFFICES ASSUME NEW i \in 1..Len(agenda'), NEW s \in Senders, agenda'[i] = Step("free", s)
               PROVE  /\ GoneBy(i, s)'
                      /\ ~running'[s] \/ Before(agenda', i, Step("halt", s))
                      /\ s \in Models =>
                          \/ s \notin subscribers'[FedBy[s]]
                          \/ Before(agenda', i, Step("detach", s))
                          \/ GoneBy(i, FedBy[s])' /\ Behind(agenda', i, Step("free", FedBy[s]))
    BY DEF FreesAreSafe, GoneBy
  <2>1. /\ i + 1 \in 1..Len(agenda) /\ agenda[i + 1] = Step("free", s)
    BY <1>2
  <2>2. /\ GoneBy(i + 1, s)
        /\ ~running[s] \/ Before(agenda, i + 1, Step("halt", s))
        /\ s \in Models =>
            \/ s \notin subscribers[FedBy[s]]
            \/ Before(agenda, i + 1, Step("detach", s))
            \/ GoneBy(i + 1, FedBy[s]) /\ Behind(agenda, i + 1, Step("free", FedBy[s]))
    BY <1>1, <2>1 DEF FreesAreSafe
  <2>3. op \notin Building
    BY <1>4, <1>5, <1>6, <1>7, <2>1
  <2>4. GoneBy(i, s)' /\ (~running'[s] \/ Before(agenda', i, Step("halt", s)))
    BY <1>11, <1>12, <2>2, <2>3
  <2>5. ASSUME s \in Models
        PROVE  \/ s \notin subscribers'[FedBy[s]]
               \/ Before(agenda', i, Step("detach", s))
               \/ GoneBy(i, FedBy[s])' /\ Behind(agenda', i, Step("free", FedBy[s]))
    <3>1. CASE s \notin subscribers[FedBy[s]]
      BY <1>7, <2>3, <2>5, <3>1 DEF Effect
    <3>2. CASE Before(agenda, i + 1, Step("detach", s))
      <4>1. CASE e = Step("detach", s)
        BY <2>5, <4>1, <1>7 DEF Effect
      <4> QED
        BY <1>3, <3>2, <4>1
    <3>3. CASE GoneBy(i + 1, FedBy[s]) /\ Behind(agenda, i + 1, Step("free", FedBy[s]))
      <4>1. FedBy[s] \in Senders
        BY <2>5
      <4>2. GoneBy(i, FedBy[s])'
        BY <1>11, <2>3, <3>3, <4>1
      <4> QED
        BY <1>3, <3>3, <4>2
    <3> QED
      BY <2>2, <2>5, <3>1, <3>2, <3>3
  <2> QED
    BY <2>4, <2>5
<1>14. ExitsAreSafe'
  <2> SUFFICES ASSUME NEW i \in 1..Len(agenda'), agenda'[i] = Step("exit_mmf", Camera)
               PROVE  /\ \A s \in Senders : GoneBy(i, s)'
                      /\ ~running'[Camera] \/ Before(agenda', i, Step("halt", Camera))
    BY DEF ExitsAreSafe, GoneBy
  <2>1. /\ i + 1 \in 1..Len(agenda) /\ agenda[i + 1] = Step("exit_mmf", Camera)
    BY <1>2
  <2>2. /\ \A s \in Senders : GoneBy(i + 1, s)
        /\ ~running[Camera] \/ Before(agenda, i + 1, Step("halt", Camera))
    BY <1>1, <2>1 DEF ExitsAreSafe
  <2>3. op \notin Building
    BY <1>4, <1>5, <1>6, <1>7, <2>1
  <2> QED
    BY <1>11, <1>12, <2>2, <2>3
<1>15. ASSUME NEW x \in Senders PROVE WillRun(x)' <=> WillRun(x)
  <2>1. CASE e = Step("spawn", x)
    <3>1. running'[x] /\ ~Has(agenda', Step("halt", x))
      BY <1>3, <1>4, <1>6, <1>7, <2>1 DEF Effect
    <3> QED
      BY <1>4, <2>1, <3>1 DEF WillRun
  <2>2. CASE e = Step("halt", x)
    <3>1. ~running'[x] /\ ~Has(agenda, Step("spawn", x)) /\ ~Has(agenda', Step("spawn", x))
      BY <1>3, <1>4, <1>6, <1>7, <2>2 DEF Effect
    <3> QED
      BY <1>4, <2>2, <3>1 DEF WillRun
  <2>3. CASE e # Step("spawn", x) /\ e # Step("halt", x)
    <3>1. running'[x] <=> running[x]
      BY <2>3 DEF Effect
    <3>2. Has(agenda', Step("spawn", x)) <=> Has(agenda, Step("spawn", x))
      BY <1>3, <2>3
    <3>3. Has(agenda', Step("halt", x)) <=> Has(agenda, Step("halt", x))
      BY <1>3, <2>3
    <3> QED
      BY <3>1, <3>2, <3>3 DEF WillRun
  <2> QED
    BY <2>1, <2>2, <2>3
<1>16. ASSUME NEW m \in Models PROVE WillLive(m)' <=> WillLive(m)
  <2>1. CASE e = Step("attach", m)
    <3>1. m \in alive' /\ ~Has(agenda', Step("free", m))
      BY <1>3, <1>4, <1>6, <1>7, <2>1 DEF Effect
    <3> QED
      BY <1>4, <2>1, <3>1 DEF WillLive
  <2>2. CASE e = Step("free", m)
    <3>1. m \notin alive' /\ ~Has(agenda, Step("attach", m)) /\ ~Has(agenda', Step("attach", m))
      BY <1>3, <1>4, <1>6, <1>7, <2>2 DEF Effect
    <3> QED
      BY <1>4, <2>2, <3>1 DEF WillLive
  <2>3. CASE e # Step("attach", m) /\ e # Step("free", m)
    <3>1. m \in alive' <=> m \in alive
      BY <2>3 DEF Effect
    <3>2. Has(agenda', Step("attach", m)) <=> Has(agenda, Step("attach", m))
      BY <1>3, <2>3
    <3>3. Has(agenda', Step("free", m)) <=> Has(agenda, Step("free", m))
      BY <1>3, <2>3
    <3> QED
      BY <3>1, <3>2, <3>3 DEF WillLive
  <2> QED
    BY <2>1, <2>2, <2>3
<1>17. FeedersStay'
  <2> SUFFICES ASSUME NEW m \in Models
               PROVE  /\ WillRun(m)' => WillRun(FedBy[m])'
                      /\ WillLive(m)' => FedBy[m] = Camera \/ WillLive(FedBy[m])'
    BY DEF FeedersStay, WillRun, WillLive
  <2>1. /\ WillRun(m) => WillRun(FedBy[m])
        /\ WillLive(m) => FedBy[m] = Camera \/ WillLive(FedBy[m])
    BY <1>1 DEF FeedersStay
  <2>2. m \in Senders /\ FedBy[m] \in Senders
    OBVIOUS
  <2>3. WillRun(m)' => WillRun(FedBy[m])'
    BY <1>15, <2>1, <2>2
  <2>4. WillLive(m)' => FedBy[m] = Camera \/ WillLive(FedBy[m])'
    BY <1>16, <2>1, <2>2
  <2> QED
    BY <2>3, <2>4
<1> QED
  BY <1>8, <1>9, <1>10, <1>13, <1>14, <1>17 DEF AgendaInv

\* It stays that when a thread takes a step, which may be its last.
LEMMA ThreadsKeepAgenda ==
  ASSUME AgendaInv, UNCHANGED <<agenda, running, subscribers, alive, mmf>>,
         \A x \in Senders : pc[x] = "off" => pc'[x] = "off"
  PROVE  AgendaInv'
<1>1. OneKind /\ SpawnsAreSafe /\ HaltsAreCompleted /\ FreesAreSafe /\ ExitsAreSafe /\ FeedersStay
  BY DEF AgendaInv
<1>2. OneKind' /\ HaltsAreCompleted'
  BY <1>1 DEF OneKind, HaltsAreCompleted
<1>3. SpawnsAreSafe'
  BY <1>1 DEF SpawnsAreSafe
<1>4. FreesAreSafe'
  BY <1>1, Nodes DEF FreesAreSafe, GoneBy
<1>5. ExitsAreSafe'
  BY <1>1 DEF ExitsAreSafe, GoneBy
<1>6. FeedersStay'
  BY <1>1 DEF FeedersStay, WillRun, WillLive
<1> QED
  BY <1>2, <1>3, <1>4, <1>5, <1>6 DEF AgendaInv

-----------------------------------------------------------------------------
(* The threads                                                               *)

\* A thread leaves alone what the others rely on.
LEMMA ThreadsKeepNodes ==
  ASSUME AgendaInv, NodeInv, SubscriberInv, NEW s \in Senders, pc[s] # "off",
         UNCHANGED <<agenda, running, interrupted, subscribers, alive, mmf>>,
         \A x \in Senders \ {s} : pc'[x] = pc[x],
         \A m \in Models :
            \/ box'[m] = box[m]
            \/ /\ m \in alive /\ Len(box'[m]) <= Capacity
               /\ box[m] = <<>> => ~interrupted[m]
  PROVE  AgendaInv' /\ NodeInv' /\ SubscriberInv'
<1> USE Nodes
<1>1. \A x \in Senders : pc[x] = "off" => pc'[x] = "off"
  OBVIOUS
<1>2. AgendaInv'
  BY <1>1, ThreadsKeepAgenda
<1>3. ASSUME NEW x \in Senders, ~running'[x] PROVE pc'[x] = "off" \/ Has(agenda', Step("join", x))
  BY <1>3 DEF NodeInv
<1>4. ASSUME NEW m \in Models \ alive' PROVE pc'[m] = "off" /\ ~running'[m] /\ box'[m] = <<>>
  BY <1>4 DEF NodeInv
<1>5. ASSUME ~mmf' PROVE pc'[Camera] = "off" /\ ~running'[Camera]
  BY <1>5 DEF NodeInv
<1>6. ASSUME NEW m \in Models
      PROVE  /\ Len(box'[m]) <= Capacity
             /\ box'[m] # <<>> /\ interrupted'[m] =>
                    Has(agenda', Step("clear", m)) \/ Has(agenda', Step("free", m))
  BY <1>6 DEF NodeInv
<1>7. NodeInv'
  BY <1>3, <1>4, <1>5, <1>6 DEF NodeInv
<1>8. SubscriberInv'
  BY <1>1 DEF SubscriberInv
<1> QED
  BY <1>2, <1>7, <1>8

\* No step of a thread breaks the invariant.
LEMMA ThreadsKeepTheInvariant ==
  ASSUME IInv, NEW s \in Senders, Thread(s)
  PROVE  IInv'
<1> USE Nodes
<1>1. VarTypes /\ AgendaInv /\ ThreadInv /\ NodeInv /\ SubscriberInv
  BY DEF IInv
<1>2. /\ pc \in [Senders -> {"top", "get", "use", "send", "drop", "off"}]
      /\ hand \in [Senders -> Frames \cup {NoFrame}]
      /\ todo \in [Senders -> SUBSET Models]
      /\ context \in [Senders -> Models \cup {Nobody}]
      /\ running \in [Senders -> BOOLEAN]
      /\ box \in [Models -> Seq(Frames)]
      /\ interrupted \in [Models -> BOOLEAN]
      /\ subscribers \in [Senders -> SUBSET Models]
      /\ alive \in SUBSET Models
      /\ mmf \in BOOLEAN
  BY <1>1 DEF VarTypes
<1>3. ASSUME NEW x \in Senders
      PROVE  /\ pc[x] \in {"top", "get", "off"} => hand[x] = NoFrame
             /\ pc[x] \in {"use", "send", "drop"} => hand[x] \in Frames
             /\ pc[x] # "send" => context[x] = Nobody
             /\ pc[x] = "send" => todo[x] \subseteq subscribers[x] /\ context[x] \in todo[x] \cup {Nobody}
  BY <1>1 DEF ThreadInv
<1>4. CASE Top(s) \/ Withhold(s) \/ UnlockSubscribers(s) \/ (s = Camera /\ CaptureNothing) \/ (s # Camera /\ FetchNothing(s))
  <2>1. /\ pc[s] # "off" /\ pc' = [pc EXCEPT ![s] = pc'[s]]
        /\ pc'[s] \in {"top", "get", "drop", "off"}
        /\ pc[s] \in {"top", "get"} => pc'[s] \in {"top", "get", "off"}
        /\ pc[s] \in {"use", "send"} => pc'[s] = "drop" /\ context[s] = Nobody
        /\ pc[s] \in {"top", "get", "use", "send"}
        /\ UNCHANGED <<refs, hand, todo, context, running, box, interrupted, subscribers, alive, mmf, agenda>>
    BY <1>2, <1>3, <1>4 DEF Top, Withhold, UnlockSubscribers, CaptureNothing, FetchNothing
  <2>2. \A x \in Senders \ {s} : pc'[x] = pc[x]
    BY <1>2, <2>1
  <2>3. AgendaInv' /\ NodeInv' /\ SubscriberInv'
    BY <1>1, <2>1, <2>2, ThreadsKeepNodes
  <2>4. VarTypes'
    <3>1. pc' \in [Senders -> {"top", "get", "use", "send", "drop", "off"}]
      BY <1>2, <2>1
    <3> QED
      BY <1>2, <2>1, <3>1 DEF VarTypes
  <2>5. ASSUME NEW x \in Senders
        PROVE  /\ pc'[x] \in {"top", "get", "off"} => hand'[x] = NoFrame
               /\ pc'[x] \in {"use", "send", "drop"} => hand'[x] \in Frames
               /\ pc'[x] # "send" => context'[x] = Nobody
               /\ pc'[x] = "send" => todo'[x] \subseteq subscribers'[x] /\ context'[x] \in todo'[x] \cup {Nobody}
    BY <1>3, <2>1, <2>2
  <2>6. ThreadInv'
    BY <2>5 DEF ThreadInv
  <2> QED
    BY <2>3, <2>4, <2>6 DEF IInv
<1>5. CASE LockSubscribers(s)
  <2>1. /\ pc[s] = "use" /\ pc' = [pc EXCEPT ![s] = "send"] /\ todo' = [todo EXCEPT ![s] = subscribers[s]]
        /\ UNCHANGED <<refs, hand, context, running, box, interrupted, subscribers, alive, mmf, agenda>>
    BY <1>5 DEF LockSubscribers
  <2>2. /\ \A x \in Senders \ {s} : pc'[x] = pc[x] /\ todo'[x] = todo[x]
        /\ pc'[s] = "send" /\ todo'[s] = subscribers[s]
    BY <1>2, <2>1
  <2>3. AgendaInv' /\ NodeInv' /\ SubscriberInv'
    BY <1>1, <2>1, <2>2, ThreadsKeepNodes
  <2>4. VarTypes'
    BY <1>2, <2>1 DEF VarTypes
  <2>5. ASSUME NEW x \in Senders
        PROVE  /\ pc'[x] \in {"top", "get", "off"} => hand'[x] = NoFrame
               /\ pc'[x] \in {"use", "send", "drop"} => hand'[x] \in Frames
               /\ pc'[x] # "send" => context'[x] = Nobody
               /\ pc'[x] = "send" => todo'[x] \subseteq subscribers'[x] /\ context'[x] \in todo'[x] \cup {Nobody}
    BY <1>3, <2>1, <2>2
  <2>6. ThreadInv'
    BY <2>5 DEF ThreadInv
  <2> QED
    BY <2>3, <2>4, <2>6 DEF IInv
<1>6. CASE MakeContext(s)
  <2>1. /\ pc[s] = "send" /\ UNCHANGED <<pc, hand, todo, running, box, interrupted, subscribers, alive, mmf, agenda>>
        /\ context' \in [Senders -> Models \cup {Nobody}]
        /\ \A x \in Senders \ {s} : context'[x] = context[x]
        /\ context'[s] \in todo[s]
    BY <1>2, <1>6 DEF MakeContext
  <2>2. AgendaInv' /\ NodeInv' /\ SubscriberInv'
    BY <1>1, <2>1, ThreadsKeepNodes
  <2>3. VarTypes'
    BY <1>2, <2>1 DEF VarTypes
  <2>4. ASSUME NEW x \in Senders
        PROVE  /\ pc'[x] \in {"top", "get", "off"} => hand'[x] = NoFrame
               /\ pc'[x] \in {"use", "send", "drop"} => hand'[x] \in Frames
               /\ pc'[x] # "send" => context'[x] = Nobody
               /\ pc'[x] = "send" => todo'[x] \subseteq subscribers'[x] /\ context'[x] \in todo'[x] \cup {Nobody}
    BY <1>3, <2>1
  <2>5. ThreadInv'
    BY <2>4 DEF ThreadInv
  <2> QED
    BY <2>2, <2>3, <2>5 DEF IInv
<1>7. CASE Post(s)
  <2> DEFINE m0 == context[s]
  <2>1. /\ pc[s] = "send" /\ m0 # Nobody /\ m0 \in Models /\ m0 \in subscribers[s] /\ hand[s] \in Frames
        /\ UNCHANGED <<pc, hand, running, interrupted, subscribers, alive, mmf, agenda>>
        /\ todo' = [todo EXCEPT ![s] = @ \ {m0}]
        /\ context' = [context EXCEPT ![s] = Nobody]
        /\ box' = IF Accepts(m0) THEN [box EXCEPT ![m0] = Append(@, hand[s])] ELSE box
    <3>1. /\ pc[s] = "send" /\ m0 # Nobody
          /\ UNCHANGED <<pc, hand, running, interrupted, subscribers, alive, mmf, agenda>>
          /\ todo' = [todo EXCEPT ![s] = @ \ {m0}]
          /\ context' = [context EXCEPT ![s] = Nobody]
          /\ box' = IF Accepts(m0) THEN [box EXCEPT ![m0] = Append(@, hand[s])] ELSE box
      BY <1>7 DEF Post
    <3>2. m0 \in Models /\ m0 \in subscribers[s] /\ hand[s] \in Frames
      BY <1>2, <1>3, <3>1
    <3> QED
      BY <3>1, <3>2
  <2>2. /\ \A x \in Senders \ {s} : todo'[x] = todo[x] /\ context'[x] = context[x]
        /\ todo'[s] = todo[s] \ {m0} /\ context'[s] = Nobody
    BY <1>2, <2>1
  <2>3. m0 \in alive
    BY <1>1, <2>1 DEF SubscriberInv
  <2> HIDE DEF m0
  <2>4. ASSUME Accepts(m0)
        PROVE  /\ box' \in [Models -> Seq(Frames)] /\ Len(box'[m0]) <= Capacity /\ ~interrupted[m0]
               /\ \A m \in Models \ {m0} : box'[m] = box[m]
    <3>1. box[m0] \in Seq(Frames) /\ Append(box[m0], hand[s]) \in Seq(Frames)
          /\ Len(Append(box[m0], hand[s])) = Len(box[m0]) + 1 /\ Len(box[m0]) \in Nat
      BY <1>2, <2>1, AppendProperties
    <3>2. box' = [box EXCEPT ![m0] = Append(@, hand[s])]
      BY <2>1, <2>4
    <3>3. ~interrupted[m0] /\ Len(box[m0]) < Capacity
      BY <2>4 DEF Accepts
    <3>4. box'[m0] = Append(box[m0], hand[s])
      BY <1>2, <2>1, <3>2
    <3>5. box' \in [Models -> Seq(Frames)] /\ \A m \in Models \ {m0} : box'[m] = box[m]
      BY <1>2, <3>1, <3>2
    <3> QED
      BY <3>1, <3>3, <3>4, <3>5
  <2>5. box' \in [Models -> Seq(Frames)]
    BY <1>2, <2>1, <2>4
  <2>6. \A m \in Models :
            \/ box'[m] = box[m]
            \/ /\ m \in alive /\ Len(box'[m]) <= Capacity
               /\ box[m] = <<>> => ~interrupted[m]
    BY <2>1, <2>3, <2>4
  <2>7. AgendaInv' /\ NodeInv' /\ SubscriberInv'
    BY <1>1, <2>1, <2>6, ThreadsKeepNodes
  <2>8. VarTypes'
    BY <1>2, <2>1, <2>5 DEF VarTypes
  <2>9. ASSUME NEW x \in Senders
        PROVE  /\ pc'[x] \in {"top", "get", "off"} => hand'[x] = NoFrame
               /\ pc'[x] \in {"use", "send", "drop"} => hand'[x] \in Frames
               /\ pc'[x] # "send" => context'[x] = Nobody
               /\ pc'[x] = "send" => todo'[x] \subseteq subscribers'[x] /\ context'[x] \in todo'[x] \cup {Nobody}
    BY <1>3, <2>1, <2>2
  <2>10. ThreadInv'
    BY <2>9 DEF ThreadInv
  <2> QED
    BY <2>7, <2>8, <2>10 DEF IInv
<1>8. CASE Release(s)
  <2>1. /\ pc[s] = "drop" /\ hand' = [hand EXCEPT ![s] = NoFrame] /\ pc' = [pc EXCEPT ![s] = "top"]
        /\ UNCHANGED <<todo, context, running, box, interrupted, subscribers, alive, mmf, agenda>>
    BY <1>8 DEF Release
  <2>2. /\ \A x \in Senders \ {s} : pc'[x] = pc[x] /\ hand'[x] = hand[x]
        /\ pc'[s] = "top" /\ hand'[s] = NoFrame
    BY <1>2, <2>1
  <2>3. AgendaInv' /\ NodeInv' /\ SubscriberInv'
    BY <1>1, <2>1, <2>2, ThreadsKeepNodes
  <2>4. VarTypes'
    BY <1>2, <2>1 DEF VarTypes
  <2>5. ASSUME NEW x \in Senders
        PROVE  /\ pc'[x] \in {"top", "get", "off"} => hand'[x] = NoFrame
               /\ pc'[x] \in {"use", "send", "drop"} => hand'[x] \in Frames
               /\ pc'[x] # "send" => context'[x] = Nobody
               /\ pc'[x] = "send" => todo'[x] \subseteq subscribers'[x] /\ context'[x] \in todo'[x] \cup {Nobody}
    BY <1>3, <2>1, <2>2
  <2>6. ThreadInv'
    BY <2>5 DEF ThreadInv
  <2> QED
    BY <2>3, <2>4, <2>6 DEF IInv
<1>9. CASE (s = Camera /\ Capture) \/ (s # Camera /\ Fetch(s))
  <2>1. /\ pc[s] = "get" /\ pc' = [pc EXCEPT ![s] = "use"]
        /\ UNCHANGED <<todo, context, running, interrupted, subscribers, alive, mmf, agenda>>
        /\ hand' \in [Senders -> Frames \cup {NoFrame}] /\ hand'[s] \in Frames
        /\ \A x \in Senders \ {s} : hand'[x] = hand[x]
        /\ box' \in [Models -> Seq(Frames)]
        /\ \A m \in Models : box'[m] = box[m] \/ (box[m] # <<>> /\ Len(box'[m]) <= Len(box[m]))
    <3>1. CASE s = Camera /\ Capture
      BY <1>2, <3>1 DEF Capture
    <3>2. CASE s # Camera /\ Fetch(s)
      <4>1. s \in Models
        BY <3>2
      <4>2. /\ pc[s] = "get" /\ pc' = [pc EXCEPT ![s] = "use"]
            /\ UNCHANGED <<todo, context, running, interrupted, subscribers, alive, mmf, agenda>>
            /\ box[s] # <<>>
            /\ hand' = [hand EXCEPT ![s] = Head(box[s])]
            /\ box' = [box EXCEPT ![s] = Tail(box[s])]
        BY <3>2 DEF Fetch
      <4>3. box[s] \in Seq(Frames)
        BY <1>2, <4>1
      <4>4. Head(box[s]) \in Frames /\ Tail(box[s]) \in Seq(Frames) /\ Len(Tail(box[s])) <= Len(box[s])
        BY <4>2, <4>3, HeadTailProperties
      <4>5. hand' \in [Senders -> Frames \cup {NoFrame}] /\ hand'[s] \in Frames
            /\ \A x \in Senders \ {s} : hand'[x] = hand[x]
        BY <1>2, <4>2, <4>4
      <4>6. box' \in [Models -> Seq(Frames)] /\ box'[s] = Tail(box[s])
            /\ \A m \in Models \ {s} : box'[m] = box[m]
        BY <1>2, <4>1, <4>2, <4>4
      <4> QED
        BY <4>2, <4>4, <4>5, <4>6
    <3> QED
      BY <1>9, <3>1, <3>2
  <2>2. pc'[s] = "use" /\ \A x \in Senders \ {s} : pc'[x] = pc[x]
    BY <1>2, <2>1
  <2>3. ASSUME NEW m \in Models, box'[m] # box[m]
        PROVE  m \in alive /\ Len(box'[m]) <= Capacity /\ box[m] # <<>>
    <3>1. box[m] # <<>> /\ Len(box'[m]) <= Len(box[m]) /\ Len(box'[m]) \in Nat /\ Len(box[m]) \in Nat
      BY <1>2, <2>1, <2>3
    <3>2. m \in alive /\ Len(box[m]) <= Capacity
      BY <1>1, <3>1 DEF NodeInv
    <3> QED
      BY <3>1, <3>2
  <2>4. AgendaInv' /\ NodeInv' /\ SubscriberInv'
    <3>1. \A m \in Models :
            \/ box'[m] = box[m]
            \/ /\ m \in alive /\ Len(box'[m]) <= Capacity
               /\ box[m] = <<>> => ~interrupted[m]
      BY <2>3
    <3> QED
      BY <1>1, <2>1, <2>2, <3>1, ThreadsKeepNodes
  <2>5. VarTypes'
    BY <1>2, <2>1 DEF VarTypes
  <2>6. ASSUME NEW x \in Senders
        PROVE  /\ pc'[x] \in {"top", "get", "off"} => hand'[x] = NoFrame
               /\ pc'[x] \in {"use", "send", "drop"} => hand'[x] \in Frames
               /\ pc'[x] # "send" => context'[x] = Nobody
               /\ pc'[x] = "send" => todo'[x] \subseteq subscribers'[x] /\ context'[x] \in todo'[x] \cup {Nobody}
    BY <1>3, <2>1, <2>2
  <2>7. ThreadInv'
    BY <2>6 DEF ThreadInv
  <2> QED
    BY <2>4, <2>5, <2>7 DEF IInv
<1> QED
  BY <1>4, <1>5, <1>6, <1>7, <1>8, <1>9 DEF Thread

-----------------------------------------------------------------------------
(* The worker                                                                *)

\* The first step of the agenda: nothing comes before it, what is behind it is left.
LEMMA FirstStep ==
  ASSUME OneKind, NEW op, NEW s0, Doing(op, s0)
  PROVE  /\ 1 \in 1..Len(agenda) /\ agenda[1] = Step(op, s0) /\ Has(agenda, Step(op, s0))
         /\ \A e : ~Before(agenda, 1, e)
         /\ \A e : Behind(agenda, 1, e) => Has(agenda', e)
<1>1. /\ Len(agenda) \in Nat /\ Len(agenda') = Len(agenda) - 1
      /\ 1 \in 1..Len(agenda) /\ agenda[1] = Step(op, s0)
      /\ \A i \in 1..Len(agenda') : i + 1 \in 1..Len(agenda) /\ agenda'[i] = agenda[i + 1]
  BY Popped
<1>2. Has(agenda, Step(op, s0)) /\ \A e : ~Before(agenda, 1, e)
  BY <1>1 DEF Has, Before
<1>3. ASSUME NEW e, Behind(agenda, 1, e) PROVE Has(agenda', e)
  <2>1. PICK j \in 2..Len(agenda) : agenda[j] = e
    BY <1>3 DEF Behind
  <2>2. j - 1 \in 1..Len(agenda') /\ (j - 1) + 1 = j
    BY <1>1, <2>1
  <2>3. agenda'[j - 1] = e
    BY <1>1, <2>1, <2>2
  <2> QED
    BY <2>2, <2>3 DEF Has
<1> QED
  BY <1>1, <1>2, <1>3

\* The nodes stay what they have to be when the worker takes a step.
LEMMA WorkKeepsNodes ==
  ASSUME AgendaInv, NodeInv, NEW op \in Building \cup TearingDown, NEW s0 \in Senders,
         Doing(op, s0), Effect(op, s0),
         op = "exit_mmf" => s0 = Camera,
         \A x \in Senders : Step(op, s0) # Step("spawn", x) => pc'[x] = pc[x],
         \A m \in Models : box'[m] = box[m] \/ box'[m] = <<>>,
         op \in {"clear", "free"} /\ s0 \in Models => box'[s0] = <<>>,
         \A m \in Models : interrupted'[m] => interrupted[m] \/ (op = "halt" /\ m = s0)
  PROVE  AgendaInv' /\ NodeInv'
<1> USE Nodes, StepsDiffer
<1>1. AgendaInv'
  BY WorkKeepsAgenda
<1>2. OneKind /\ SpawnsAreSafe /\ HaltsAreCompleted /\ FreesAreSafe /\ ExitsAreSafe
  BY DEF AgendaInv
<1>3. /\ 1 \in 1..Len(agenda) /\ agenda[1] = Step(op, s0)
      /\ \A e : ~Before(agenda, 1, e)
      /\ \A e : Behind(agenda, 1, e) => Has(agenda', e)
  BY <1>2, FirstStep
<1>4. \A e : Has(agenda, e) => e = Step(op, s0) \/ Has(agenda', e)
  BY <1>2, PoppedOrder
<1>5. ASSUME op = "spawn" PROVE /\ s0 \in Models => s0 \in alive
                                /\ s0 = Camera => mmf
  BY <1>2, <1>3, <1>5 DEF SpawnsAreSafe
<1>6. ASSUME op = "halt" PROVE /\ Has(agenda', Step("join", s0))
                               /\ s0 \in Models => Has(agenda', Step("clear", s0))
  <2>1. /\ 1 + 1 \in 1..Len(agenda) /\ agenda[1 + 1] = Step("join", s0)
        /\ s0 \in Models => Behind(agenda, 1, Step("clear", s0))
    BY <1>2, <1>3, <1>6 DEF HaltsAreCompleted
  <2>2. Behind(agenda, 1, Step("join", s0))
    BY <2>1 DEF Behind
  <2> QED
    BY <1>3, <2>1, <2>2
<1>7. ASSUME op = "free" PROVE pc[s0] = "off" /\ ~running[s0]
  BY <1>2, <1>3, <1>7 DEF FreesAreSafe, GoneBy
<1>8. ASSUME op = "exit_mmf" PROVE pc[Camera] = "off" /\ ~running[Camera]
  BY <1>2, <1>3, <1>8 DEF ExitsAreSafe, GoneBy
<1>9. /\ \A s \in Senders : ~running[s] => pc[s] = "off" \/ Has(agenda, Step("join", s))
      /\ \A m \in Models \ alive : pc[m] = "off" /\ ~running[m] /\ box[m] = <<>>
      /\ ~mmf => pc[Camera] = "off" /\ ~running[Camera]
      /\ \A m \in Models : /\ Len(box[m]) <= Capacity
                           /\ box[m] # <<>> /\ interrupted[m] =>
                                  Has(agenda, Step("clear", m)) \/ Has(agenda, Step("free", m))
  BY DEF NodeInv
<1>10. \A x \in Senders : pc[x] = "off" /\ Step(op, s0) # Step("spawn", x) => pc'[x] = "off"
  BY DEF Effect
<1>11. \A x \in Senders : running'[x] <=> Step(op, s0) = Step("spawn", x) \/ (running[x] /\ Step(op, s0) # Step("halt", x))
  BY DEF Effect
<1>12. ASSUME NEW s \in Senders, ~running'[s] PROVE pc'[s] = "off" \/ Has(agenda', Step("join", s))
  <2>1. Step(op, s0) # Step("spawn", s)
    BY <1>11, <1>12
  <2>2. CASE Step(op, s0) = Step("halt", s)
    BY <1>6, <2>2
  <2>3. CASE ~running[s]
    <3>1. CASE Step(op, s0) = Step("join", s)
      BY <3>1 DEF Effect
    <3> QED
      BY <1>4, <1>9, <1>10, <2>1, <2>3, <3>1
  <2> QED
    BY <1>11, <1>12, <2>2, <2>3
<1>13. ASSUME NEW m \in Models \ alive' PROVE pc'[m] = "off" /\ ~running'[m] /\ box'[m] = <<>>
  <2>1. m \in Senders /\ Step(op, s0) # Step("attach", m) /\ (m \notin alive \/ Step(op, s0) = Step("free", m))
    BY DEF Effect
  <2>2. CASE m \notin alive
    <3>1. Step(op, s0) # Step("spawn", m)
      BY <1>5, <2>2
    <3> QED
      BY <1>9, <1>10, <1>11, <2>1, <2>2, <3>1
  <2>3. CASE Step(op, s0) = Step("free", m)
    <3>1. op = "free" /\ s0 = m
      BY <2>3
    <3>2. Step(op, s0) # Step("spawn", m)
      BY <3>1
    <3>3. box'[m] = <<>>
      BY <3>1
    <3> QED
      BY <1>7, <1>10, <1>11, <2>1, <3>1, <3>2, <3>3
  <2> QED
    BY <2>1, <2>2, <2>3
<1>14. ASSUME ~mmf' PROVE pc'[Camera] = "off" /\ ~running'[Camera]
  <2>1. ~mmf \/ op = "exit_mmf"
    BY <1>14 DEF Effect
  <2>2. Step(op, s0) # Step("spawn", Camera)
    BY <1>5, <2>1
  <2>3. pc[Camera] = "off" /\ ~running[Camera]
    BY <1>8, <1>9, <2>1
  <2> QED
    BY <1>10, <1>11, <2>2, <2>3
<1>15. ASSUME NEW m \in Models
       PROVE  /\ Len(box'[m]) <= Capacity
              /\ box'[m] # <<>> /\ interrupted'[m] =>
                     Has(agenda', Step("clear", m)) \/ Has(agenda', Step("free", m))
  <2>1. Len(box'[m]) <= Capacity
    <3>1. Len(<<>>) = 0
      OBVIOUS
    <3> QED
      BY <1>9, <3>1
  <2>2. ASSUME box'[m] # <<>>, interrupted'[m]
        PROVE  Has(agenda', Step("clear", m)) \/ Has(agenda', Step("free", m))
    <3>1. box[m] # <<>> /\ ~(op \in {"clear", "free"} /\ s0 = m)
      BY <2>2
    <3>2. CASE interrupted[m]
      <4>1. Has(agenda, Step("clear", m)) \/ Has(agenda, Step("free", m))
        BY <1>9, <3>1, <3>2
      <4>2. Step(op, s0) # Step("clear", m) /\ Step(op, s0) # Step("free", m)
        BY <3>1
      <4> QED
        BY <1>4, <4>1, <4>2
    <3>3. CASE op = "halt" /\ m = s0
      BY <1>6, <3>3
    <3> QED
      BY <2>2, <3>2, <3>3
  <2> QED
    BY <2>1, <2>2
<1>16. NodeInv'
  BY <1>12, <1>13, <1>14, <1>15 DEF NodeInv
<1> QED
  BY <1>1, <1>16

\* No step of the worker does.
LEMMA WorkKeepsTheInvariant ==
  ASSUME IInv, Worker
  PROVE  IInv'
<1> USE Nodes, StepsDiffer
<1>1. VarTypes /\ AgendaInv /\ ThreadInv /\ NodeInv /\ SubscriberInv /\ OneKind
  BY DEF IInv, AgendaInv
<1>2. /\ pc \in [Senders -> {"top", "get", "use", "send", "drop", "off"}]
      /\ hand \in [Senders -> Frames \cup {NoFrame}]
      /\ todo \in [Senders -> SUBSET Models]
      /\ context \in [Senders -> Models \cup {Nobody}]
      /\ running \in [Senders -> BOOLEAN]
      /\ box \in [Models -> Seq(Frames)]
      /\ interrupted \in [Models -> BOOLEAN]
      /\ subscribers \in [Senders -> SUBSET Models]
      /\ alive \in SUBSET Models
      /\ mmf \in BOOLEAN
  BY <1>1 DEF VarTypes
<1>3. ASSUME NEW x \in Senders
      PROVE  /\ pc[x] \in {"top", "get", "off"} => hand[x] = NoFrame
             /\ pc[x] \in {"use", "send", "drop"} => hand[x] \in Frames
             /\ pc[x] # "send" => context[x] = Nobody
             /\ pc[x] = "send" => todo[x] \subseteq subscribers[x] /\ context[x] \in todo[x] \cup {Nobody}
  BY <1>1 DEF ThreadInv
<1>4. ASSUME NEW x \in Senders
      PROVE  /\ \A m \in subscribers[x] : FedBy[m] = x
             /\ subscribers[x] \subseteq alive \/ (pc[x] = "off" /\ Has(agenda, Step("free", x)))
  BY <1>1 DEF SubscriberInv
<1>5. /\ {"attach", "open", "spawn", "init_mmf"} \subseteq Building \cup TearingDown
      /\ {"detach", "halt", "join", "clear", "free", "exit_mmf"} \subseteq Building \cup TearingDown
  BY DEF Building, TearingDown
<1>6. ASSUME NEW op, NEW s0, Doing(op, s0)
      PROVE  /\ \A e : Has(agenda, e) => e = Step(op, s0) \/ Has(agenda', e)
             /\ Has(agenda, Step(op, s0))
  BY <1>1, <1>6, PoppedOrder, FirstStep
\* Threads and subscribers stay as they are.
<1>7. ASSUME UNCHANGED <<pc, hand, todo, context>>,
             \A x \in Senders : pc[x] = "send" => todo[x] \subseteq subscribers'[x]
      PROVE  ThreadInv'
  <2>1. ASSUME NEW x \in Senders
        PROVE  /\ pc'[x] \in {"top", "get", "off"} => hand'[x] = NoFrame
               /\ pc'[x] \in {"use", "send", "drop"} => hand'[x] \in Frames
               /\ pc'[x] # "send" => context'[x] = Nobody
               /\ pc'[x] = "send" => todo'[x] \subseteq subscribers'[x] /\ context'[x] \in todo'[x] \cup {Nobody}
    BY <1>3, <1>7
  <2> QED
    BY <2>1 DEF ThreadInv
<1>8. ASSUME NEW op, NEW s0, Doing(op, s0), op # "free", UNCHANGED <<subscribers, alive>>,
             \A x \in Senders : Step(op, s0) # Step("spawn", x) => pc'[x] = pc[x]
      PROVE  SubscriberInv'
  <2>1. ASSUME NEW x \in Senders
        PROVE  /\ \A m \in subscribers'[x] : FedBy[m] = x
               /\ subscribers'[x] \subseteq alive' \/ (pc'[x] = "off" /\ Has(agenda', Step("free", x)))
    <3>1. CASE subscribers[x] \subseteq alive
      BY <1>4, <1>8, <3>1
    <3>2. CASE pc[x] = "off" /\ Has(agenda, Step("free", x))
      <4>1. Has(agenda', Step("free", x))
        BY <1>6, <1>8, <3>2
      <4>2. Step(op, s0) # Step("spawn", x)
        <5>1. ASSUME Step(op, s0) = Step("spawn", x) PROVE FALSE
          <6>1. "spawn" \in Building /\ "free" \in TearingDown /\ Has(agenda, Step("spawn", x))
            BY <1>6, <1>8, <5>1 DEF Building, TearingDown
          <6> QED
            BY <1>1, <3>2, <6>1, KindsExclude
        <5> QED
          BY <5>1
      <4> QED
        BY <1>4, <1>8, <3>2, <4>1, <4>2
    <3> QED
      BY <1>4, <3>1, <3>2
  <2> QED
    BY <2>1 DEF SubscriberInv
<1>9. ASSUME NEW m \in Models, Attach(m) PROVE IInv'
  <2>1. /\ Doing("attach", m) /\ UNCHANGED <<pc, hand, todo, context, running, box, interrupted, mmf>>
        /\ subscribers' = [subscribers EXCEPT ![FedBy[m]] = @ \cup {m}]
        /\ alive' = alive \cup {m}
    BY <1>9 DEF Attach, threads
  <2>2. FedBy[m] \in Senders /\ m \in Senders
    OBVIOUS
  <2>3. /\ subscribers'[FedBy[m]] = subscribers[FedBy[m]] \cup {m}
        /\ \A x \in Senders \ {FedBy[m]} : subscribers'[x] = subscribers[x]
    BY <1>2, <2>1, <2>2
  <2>4. Effect("attach", m)
    BY <2>1, <2>3 DEF Effect
  <2>5. AgendaInv' /\ NodeInv'
    BY <1>1, <1>5, <2>1, <2>2, <2>4, WorkKeepsNodes
  <2>6. VarTypes'
    BY <1>2, <2>1 DEF VarTypes
  <2>7. ThreadInv'
    BY <1>3, <1>7, <2>1, <2>2, <2>3
  <2>8. ASSUME NEW x \in Senders
        PROVE  /\ \A y \in subscribers'[x] : FedBy[y] = x
               /\ subscribers'[x] \subseteq alive' \/ (pc'[x] = "off" /\ Has(agenda', Step("free", x)))
    <3>1. Has(agenda, Step("free", x)) => Has(agenda', Step("free", x))
      BY <1>6, <2>1
    <3>2. \A y \in subscribers'[x] : FedBy[y] = x
      BY <1>4, <2>3
    <3> QED
      BY <1>4, <2>1, <2>3, <3>1, <3>2
  <2>9. SubscriberInv'
    BY <2>8 DEF SubscriberInv
  <2> QED
    BY <2>5, <2>6, <2>7, <2>9 DEF IInv
<1>10. ASSUME NEW m \in Models, Detach(m) PROVE IInv'
  <2>1. /\ Doing("detach", m) /\ UNCHANGED <<pc, hand, todo, context, running, box, interrupted, alive, mmf>>
        /\ subscribers' = [subscribers EXCEPT ![FedBy[m]] = @ \ {m}] /\ pc[FedBy[m]] # "send"
    BY <1>10 DEF Detach, threads
  <2>2. FedBy[m] \in Senders /\ m \in Senders
    OBVIOUS
  <2>3. /\ subscribers'[FedBy[m]] = subscribers[FedBy[m]] \ {m}
        /\ \A x \in Senders \ {FedBy[m]} : subscribers'[x] = subscribers[x]
    BY <1>2, <2>1, <2>2
  <2>4. Effect("detach", m)
    BY <2>1, <2>3 DEF Effect
  <2>5. AgendaInv' /\ NodeInv'
    BY <1>1, <1>5, <2>1, <2>2, <2>4, WorkKeepsNodes
  <2>6. VarTypes'
    BY <1>2, <2>1 DEF VarTypes
  <2>7. ThreadInv'
    BY <1>3, <1>7, <2>1, <2>2, <2>3
  <2>8. ASSUME NEW x \in Senders
        PROVE  /\ \A y \in subscribers'[x] : FedBy[y] = x
               /\ subscribers'[x] \subseteq alive' \/ (pc'[x] = "off" /\ Has(agenda', Step("free", x)))
    <3>1. Has(agenda, Step("free", x)) => Has(agenda', Step("free", x))
      BY <1>6, <2>1
    <3> QED
      BY <1>4, <2>1, <2>3, <3>1
  <2>9. SubscriberInv'
    BY <2>8 DEF SubscriberInv
  <2> QED
    BY <2>5, <2>6, <2>7, <2>9 DEF IInv
<1>11. ASSUME NEW m \in Models, Open(m) \/ Clear(m) PROVE IInv'
  <2>1. PICK op \in {"open", "clear"} :
           /\ Doing(op, m) /\ UNCHANGED <<pc, hand, todo, context, running, subscribers, alive, mmf>>
           /\ box' = [box EXCEPT ![m] = <<>>]
           /\ interrupted' \in [Models -> BOOLEAN]
           /\ \A x \in Models : interrupted'[x] => interrupted[x]
    <3>1. CASE Open(m)
      BY <1>2, <3>1 DEF Open, threads
    <3>2. CASE Clear(m)
      BY <1>2, <3>2 DEF Clear, threads
    <3> QED
      BY <1>11, <3>1, <3>2
  <2>2. m \in Senders
    OBVIOUS
  <2>3. box'[m] = <<>> /\ \A x \in Models \ {m} : box'[x] = box[x]
    BY <1>2, <2>1
  <2>4. Effect(op, m)
    BY <2>1 DEF Effect
  <2>5. AgendaInv' /\ NodeInv'
    <3>1. op \in Building \cup TearingDown /\ op # "exit_mmf" /\ op # "halt" /\ op # "free" /\ op # "spawn"
      BY <1>5
    <3>2. \A x \in Senders : Step(op, m) # Step("spawn", x) => pc'[x] = pc[x]
      BY <2>1
    <3>3. \A x \in Models : box'[x] = box[x] \/ box'[x] = <<>>
      BY <2>3
    <3>4. \A x \in Models : interrupted'[x] => interrupted[x] \/ (op = "halt" /\ x = m)
      BY <2>1
    <3> QED
      BY <1>1, <2>1, <2>2, <2>3, <2>4, <3>1, <3>2, <3>3, <3>4, WorkKeepsNodes
  <2>6. VarTypes'
    <3>1. <<>> \in Seq(Frames)
      OBVIOUS
    <3>2. box' \in [Models -> Seq(Frames)]
      BY <1>2, <2>1, <3>1
    <3> QED
      BY <1>2, <2>1, <3>2 DEF VarTypes
  <2>7. ThreadInv'
    BY <1>3, <1>7, <2>1
  <2>8. SubscriberInv'
    <3>1. op # "free"
      OBVIOUS
    <3> QED
      BY <1>8, <2>1, <3>1
  <2> QED
    BY <2>5, <2>6, <2>7, <2>8 DEF IInv
<1>12. ASSUME NEW m \in Models, Free(m) PROVE IInv'
  <2>1. /\ Doing("free", m) /\ UNCHANGED <<pc, hand, todo, context, running, mmf>>
        /\ box' = [box EXCEPT ![m] = <<>>]
        /\ interrupted' = [interrupted EXCEPT ![m] = FALSE]
        /\ subscribers' = [subscribers EXCEPT ![m] = {}]
        /\ alive' = alive \ {m}
    BY <1>12 DEF Free, threads
  <2>2. m \in Senders
    OBVIOUS
  <2>3. /\ box'[m] = <<>> /\ \A x \in Models \ {m} : box'[x] = box[x]
        /\ \A x \in Models : interrupted'[x] => interrupted[x]
        /\ interrupted' \in [Models -> BOOLEAN]
        /\ subscribers'[m] = {} /\ \A x \in Senders \ {m} : subscribers'[x] = subscribers[x]
    BY <1>2, <2>1, <2>2
  <2>4. Effect("free", m)
    <3>1. ASSUME NEW y \in Models, y \in subscribers'[FedBy[y]] PROVE y \in subscribers[FedBy[y]]
      BY <2>3, <3>1
    <3> QED
      BY <2>1, <3>1 DEF Effect
  <2>5. AgendaInv' /\ NodeInv'
    <3>1. \A x \in Models : box'[x] = box[x] \/ box'[x] = <<>>
      BY <2>3
    <3>2. \A x \in Senders : pc'[x] = pc[x]
      BY <2>1
    <3> QED
      BY <1>1, <1>5, <2>1, <2>2, <2>3, <2>4, <3>1, <3>2, WorkKeepsNodes
  <2>6. VarTypes'
    <3>1. <<>> \in Seq(Frames)
      OBVIOUS
    <3>2. box' \in [Models -> Seq(Frames)]
      BY <1>2, <2>1, <3>1
    <3>3. subscribers' \in [Senders -> SUBSET Models]
      BY <1>2, <2>1
    <3> QED
      BY <1>2, <2>1, <2>3, <3>2, <3>3 DEF VarTypes
  <2>7. /\ pc[m] = "off"
        /\ \/ m \notin subscribers[FedBy[m]]
           \/ pc[FedBy[m]] = "off" /\ Has(agenda', Step("free", FedBy[m]))
    <3>1. FreesAreSafe /\ 1 \in 1..Len(agenda) /\ agenda[1] = Step("free", m)
          /\ (\A e : ~Before(agenda, 1, e)) /\ \A e : Behind(agenda, 1, e) => Has(agenda', e)
      BY <1>1, <2>1, FirstStep DEF AgendaInv
    <3> QED
      BY <3>1 DEF FreesAreSafe, GoneBy
  <2>8. ThreadInv'
    <3>1. \A x \in Senders : pc[x] = "send" => todo[x] \subseteq subscribers'[x]
      BY <1>3, <2>3, <2>7
    <3> QED
      BY <1>7, <2>1, <3>1
  <2>9. ASSUME NEW x \in Senders
        PROVE  /\ \A y \in subscribers'[x] : FedBy[y] = x
               /\ subscribers'[x] \subseteq alive' \/ (pc'[x] = "off" /\ Has(agenda', Step("free", x)))
    <3>1. CASE x = m
      BY <2>3, <3>1
    <3>2. CASE x # m
      <4>1. subscribers'[x] = subscribers[x] /\ pc'[x] = pc[x]
            /\ (Has(agenda, Step("free", x)) => Has(agenda', Step("free", x)))
        BY <1>6, <2>1, <2>3, <3>2
      <4>2. CASE m \in subscribers[x]
        <5>1. FedBy[m] = x
          BY <1>4, <4>2
        <5> QED
          BY <1>4, <2>7, <4>1, <4>2, <5>1
      <4>3. CASE m \notin subscribers[x]
        BY <1>4, <2>1, <4>1, <4>3
      <4> QED
        BY <4>2, <4>3
    <3> QED
      BY <3>1, <3>2
  <2>10. SubscriberInv'
    BY <2>9 DEF SubscriberInv
  <2> QED
    BY <2>5, <2>6, <2>8, <2>10 DEF IInv
<1>13. ASSUME NEW s \in Senders, Spawn(s) PROVE IInv'
  <2>1. /\ Doing("spawn", s) /\ UNCHANGED <<hand, todo, context, box, interrupted, subscribers, alive, mmf>>
        /\ running' = [running EXCEPT ![s] = TRUE]
        /\ pc' = [pc EXCEPT ![s] = "top"]
    BY <1>13 DEF Spawn
  <2>2. /\ running'[s] = TRUE /\ \A x \in Senders \ {s} : running'[x] = running[x]
        /\ pc'[s] = "top" /\ \A x \in Senders \ {s} : pc'[x] = pc[x]
    BY <1>2, <2>1
  <2>3. Effect("spawn", s)
    <3>1. \A x \in Senders : running'[x] <=> x = s \/ running[x]
      BY <2>2
    <3> QED
      BY <2>1, <2>2, <3>1 DEF Effect
  <2>4. AgendaInv' /\ NodeInv'
    <3>1. \A x \in Senders : Step("spawn", s) # Step("spawn", x) => pc'[x] = pc[x]
      BY <2>2
    <3> QED
      BY <1>1, <1>5, <2>1, <2>3, <3>1, WorkKeepsNodes
  <2>5. VarTypes'
    BY <1>2, <2>1 DEF VarTypes
  <2>6. pc[s] = "off"
    <3>1. SpawnsAreSafe /\ 1 \in 1..Len(agenda) /\ agenda[1] = Step("spawn", s)
      BY <1>1, <2>1, FirstStep DEF AgendaInv
    <3> QED
      BY <3>1 DEF SpawnsAreSafe
  <2>7. ASSUME NEW x \in Senders
        PROVE  /\ pc'[x] \in {"top", "get", "off"} => hand'[x] = NoFrame
               /\ pc'[x] \in {"use", "send", "drop"} => hand'[x] \in Frames
               /\ pc'[x] # "send" => context'[x] = Nobody
               /\ pc'[x] = "send" => todo'[x] \subseteq subscribers'[x] /\ context'[x] \in todo'[x] \cup {Nobody}
    BY <1>3, <2>1, <2>2, <2>6
  <2>8. ThreadInv'
    BY <2>7 DEF ThreadInv
  <2>9. SubscriberInv'
    <3>1. \A x \in Senders : Step("spawn", s) # Step("spawn", x) => pc'[x] = pc[x]
      BY <2>2
    <3>2. "spawn" # "free"
      OBVIOUS
    <3> QED
      BY <1>8, <2>1, <3>1, <3>2
  <2> QED
    BY <2>4, <2>5, <2>8, <2>9 DEF IInv
<1>14. ASSUME NEW s \in Senders, Halt(s) PROVE IInv'
  <2>1. /\ Doing("halt", s) /\ UNCHANGED <<pc, hand, todo, context, box, subscribers, alive, mmf>>
        /\ running' = [running EXCEPT ![s] = FALSE]
        /\ interrupted' = [m \in Models |-> m = s \/ interrupted[m]]
    BY <1>14 DEF Halt, threads
  <2>2. running'[s] = FALSE /\ \A x \in Senders \ {s} : running'[x] = running[x]
    BY <1>2, <2>1
  <2>3. Effect("halt", s)
    <3>1. \A x \in Senders : running'[x] <=> x # s /\ running[x]
      BY <2>2
    <3> QED
      BY <2>1, <3>1 DEF Effect
  <2>4. \A m \in Models : interrupted'[m] => interrupted[m] \/ m = s
    BY <2>1
  <2>5. AgendaInv' /\ NodeInv'
    BY <1>1, <1>5, <2>1, <2>3, <2>4, WorkKeepsNodes
  <2>6. VarTypes'
    <3>1. running' \in [Senders -> BOOLEAN]
      BY <1>2, <2>1
    <3>2. interrupted' \in [Models -> BOOLEAN]
      BY <1>2, <2>1
    <3> QED
      BY <1>2, <2>1, <3>1, <3>2 DEF VarTypes
  <2>7. ThreadInv'
    BY <1>3, <1>7, <2>1
  <2>8. SubscriberInv'
    <3>1. "halt" # "free"
      OBVIOUS
    <3> QED
      BY <1>8, <2>1, <3>1
  <2> QED
    BY <2>5, <2>6, <2>7, <2>8 DEF IInv
<1>15. ASSUME NEW s \in Senders, Join(s) PROVE IInv'
  <2>1. /\ Doing("join", s) /\ pc[s] = "off"
        /\ UNCHANGED <<pc, hand, todo, context, running, box, interrupted, subscribers, alive, mmf>>
    BY <1>15 DEF Join, threads
  <2>2. Effect("join", s)
    BY <2>1 DEF Effect
  <2>3. AgendaInv' /\ NodeInv'
    BY <1>1, <1>5, <2>1, <2>2, WorkKeepsNodes
  <2>4. VarTypes'
    BY <1>2, <2>1 DEF VarTypes
  <2>5. ThreadInv'
    BY <1>3, <1>7, <2>1
  <2>6. SubscriberInv'
    <3>1. "join" # "free"
      OBVIOUS
    <3> QED
      BY <1>8, <2>1, <3>1
  <2> QED
    BY <2>3, <2>4, <2>5, <2>6 DEF IInv
<1>16. ASSUME InitMmf \/ ExitMmf PROVE IInv'
  <2>1. PICK op \in {"init_mmf", "exit_mmf"} :
           /\ Doing(op, Camera) /\ mmf' \in BOOLEAN /\ (mmf' <=> op = "init_mmf")
           /\ UNCHANGED <<pc, hand, todo, context, running, box, interrupted, subscribers, alive>>
    <3>1. CASE InitMmf
      BY <3>1 DEF InitMmf, threads
    <3>2. CASE ExitMmf
      BY <3>2 DEF ExitMmf, threads
    <3> QED
      BY <1>16, <3>1, <3>2
  <2>2. Effect(op, Camera)
    BY <2>1 DEF Effect
  <2>3. AgendaInv' /\ NodeInv'
    <3>1. op \in Building \cup TearingDown /\ op # "clear" /\ op # "free"
      BY <1>5
    <3> QED
      BY <1>1, <2>1, <2>2, <3>1, WorkKeepsNodes
  <2>4. VarTypes'
    BY <1>2, <2>1 DEF VarTypes
  <2>5. ThreadInv'
    BY <1>3, <1>7, <2>1
  <2>6. SubscriberInv'
    <3>1. op # "free"
      OBVIOUS
    <3> QED
      BY <1>8, <2>1, <3>1
  <2> QED
    BY <2>3, <2>4, <2>5, <2>6 DEF IInv
<1>17. ASSUME FreeCamera PROVE IInv'
  <2>1. /\ Doing("free", Camera) /\ UNCHANGED <<pc, hand, todo, context, running, box, interrupted, alive, mmf>>
        /\ subscribers' = [subscribers EXCEPT ![Camera] = {}]
    BY <1>17 DEF FreeCamera, threads
  <2>2. subscribers'[Camera] = {} /\ \A x \in Senders \ {Camera} : subscribers'[x] = subscribers[x]
    BY <1>2, <2>1
  <2>3. Effect("free", Camera)
    <3>1. ASSUME NEW y \in Models, y \in subscribers'[FedBy[y]] PROVE y \in subscribers[FedBy[y]]
      BY <2>2, <3>1
    <3>2. \A y \in Models : Step("free", Camera) # Step("free", y)
      OBVIOUS
    <3> QED
      BY <2>1, <3>1, <3>2 DEF Effect
  <2>4. AgendaInv' /\ NodeInv'
    BY <1>1, <1>5, <2>1, <2>3, WorkKeepsNodes
  <2>5. VarTypes'
    BY <1>2, <2>1 DEF VarTypes
  <2>6. pc[Camera] = "off"
    <3>1. FreesAreSafe /\ 1 \in 1..Len(agenda) /\ agenda[1] = Step("free", Camera)
          /\ (\A e : ~Before(agenda, 1, e))
      BY <1>1, <2>1, FirstStep DEF AgendaInv
    <3> QED
      BY <3>1 DEF FreesAreSafe, GoneBy
  <2>7. ThreadInv'
    <3>1. \A x \in Senders : pc[x] = "send" => todo[x] \subseteq subscribers'[x]
      BY <1>3, <2>2, <2>6
    <3> QED
      BY <1>7, <2>1, <3>1
  <2>8. ASSUME NEW x \in Senders
        PROVE  /\ \A y \in subscribers'[x] : FedBy[y] = x
               /\ subscribers'[x] \subseteq alive' \/ (pc'[x] = "off" /\ Has(agenda', Step("free", x)))
    <3>1. CASE x = Camera
      BY <2>2, <3>1
    <3>2. CASE x # Camera
      BY <1>4, <1>6, <2>1, <2>2, <3>2
    <3> QED
      BY <3>1, <3>2
  <2>9. SubscriberInv'
    BY <2>8 DEF SubscriberInv
  <2> QED
    BY <2>4, <2>5, <2>7, <2>9 DEF IInv
<1> QED
  BY <1>9, <1>10, <1>11, <1>12, <1>13, <1>14, <1>15, <1>16, <1>17 DEF Worker

-----------------------------------------------------------------------------
(* The agendas of the commands                                               *)

\* flat is made of the steps of each node of S, those of m behind at[m].
Laid(flat, S, steps, at) ==
    /\ at \in [S -> Nat]
    /\ \A m \in S : \A k \in 1..Len(steps[m]) : at[m] + k \in 1..Len(flat) /\ flat[at[m] + k] = steps[m][k]
    /\ \A n \in 1..Len(flat) : \E m \in S : \E k \in 1..Len(steps[m]) : n = at[m] + k /\ flat[n] = steps[m][k]

\* The steps of the nodes of S, in some order of the nodes
Rows(N, order, S, steps) == FlattenSeq([i \in 1..N |-> IF order[i] \in S THEN steps[order[i]] ELSE <<>>])

\* The pieces of the nodes of S lie in the order of the nodes.
InOrder(at, N, order, S, steps) ==
    \A i, j \in 1..N : i < j /\ order[i] \in S /\ order[j] \in S =>
        at[order[i]] + Len(steps[order[i]]) <= at[order[j]]

\* Rows lays out one piece for each node of S, in the order given.
LEMMA RowsAreLaid ==
  ASSUME NEW E, NEW S \in SUBSET Models, NEW N \in Nat, NEW order \in [1..N -> Models],
         \A m \in Models : \E i \in 1..N : order[i] = m,
         \A i, j \in 1..N : order[i] = order[j] => i = j,
         NEW steps \in [Models -> Seq(E)]
  PROVE  /\ Rows(N, order, S, steps) \in Seq(E)
         /\ \E at : Laid(Rows(N, order, S, steps), S, steps, at) /\ InOrder(at, N, order, S, steps)
<1> DEFINE parts == [i \in 1..N |-> IF order[i] \in S THEN steps[order[i]] ELSE <<>>]
           flat == FlattenSeq(parts)
<1>1. /\ \A i \in 1..N : parts[i] = IF order[i] \in S THEN steps[order[i]] ELSE <<>>
      /\ \A i \in 1..N : parts[i] \in Seq(E)
      /\ parts \in Seq(Seq(E)) /\ Len(parts) = N
  <2>1. <<>> \in Seq(E)
    OBVIOUS
  <2>2. \A i \in 1..N : (IF order[i] \in S THEN steps[order[i]] ELSE <<>>) \in Seq(E)
    BY <2>1
  <2>3. parts \in [1..N -> Seq(E)]
    BY <2>2
  <2> QED
    BY <2>2, <2>3
<1> HIDE DEF parts
<1>2. flat \in Seq(E) /\ \E p : Layout(flat, parts, N, p)
  BY <1>1, FlattenSeqIsLaidOut
<1>3. PICK p : Layout(flat, parts, N, p)
  BY <1>2
<1> HIDE DEF flat
<1>4. /\ p \in [1..N -> Nat]
      /\ \A i \in 1..N : \A k \in 1..Len(parts[i]) : p[i] + k \in 1..Len(flat) /\ flat[p[i] + k] = parts[i][k]
      /\ \A n \in 1..Len(flat) : \E i \in 1..N : \E k \in 1..Len(parts[i]) : n = p[i] + k
      /\ \A i, j \in 1..N : i < j => p[i] + Len(parts[i]) <= p[j]
  BY <1>3 DEF Layout
<1>a. \A i \in 1..N : \A k \in 1..Len(parts[i]) : p[i] + k \in 1..Len(flat) /\ flat[p[i] + k] = parts[i][k]
  BY <1>4
<1> DEFINE index == [m \in Models |-> CHOOSE i \in 1..N : order[i] = m]
           at == [m \in S |-> p[index[m]]]
<1>5. \A m \in Models : index[m] \in 1..N /\ order[index[m]] = m
  OBVIOUS
<1>6. \A i \in 1..N : order[i] \in Models /\ index[order[i]] = i
  BY <1>5
<1>7. ASSUME NEW m \in S
      PROVE  at[m] \in Nat /\ at[m] = p[index[m]] /\ index[m] \in 1..N /\ parts[index[m]] = steps[m]
  <2>1. index[m] \in 1..N /\ order[index[m]] = m
    BY <1>5
  <2> HIDE DEF index
  <2> QED
    BY <1>1, <1>4, <2>1
<1> HIDE DEF index
<1>8. at \in [S -> Nat]
  BY <1>7
<1> HIDE DEF at
<1>9. ASSUME NEW m \in S, NEW k \in 1..Len(steps[m])
      PROVE  at[m] + k \in 1..Len(flat) /\ flat[at[m] + k] = steps[m][k]
  <2>1. index[m] \in 1..N /\ parts[index[m]] = steps[m] /\ at[m] = p[index[m]]
    BY <1>7
  <2>2. k \in 1..Len(parts[index[m]])
    BY <2>1
  <2>3. p[index[m]] + k \in 1..Len(flat) /\ flat[p[index[m]] + k] = parts[index[m]][k]
    BY ONLY <1>a, <2>1, <2>2
  <2> QED
    BY <2>1, <2>3
<1>10. ASSUME NEW n \in 1..Len(flat)
       PROVE  \E m \in S : \E k \in 1..Len(steps[m]) : n = at[m] + k /\ flat[n] = steps[m][k]
  <2>1. PICK i \in 1..N : \E k \in 1..Len(parts[i]) : n = p[i] + k
    BY <1>4
  <2>2. PICK k \in 1..Len(parts[i]) : n = p[i] + k
    BY <2>1
  <2>3. order[i] \in S
    <3>1. ASSUME order[i] \notin S PROVE FALSE
      <4>1. parts[i] = <<>> /\ Len(<<>>) = 0
        BY <1>1, <3>1
      <4>2. k \in 1..0
        BY <2>2, <4>1
      <4> QED
        BY <4>2
    <3> QED
      BY <3>1
  <2>4. parts[i] = steps[order[i]] /\ at[order[i]] = p[i]
    BY <1>1, <1>6, <1>7, <2>3
  <2>5. flat[n] = steps[order[i]][k]
    <3>1. flat[p[i] + k] = parts[i][k]
      BY ONLY <1>a, <2>2
    <3> QED
      BY ONLY <2>2, <2>4, <3>1
  <2> QED
    BY <2>2, <2>3, <2>4, <2>5
<1>11. Laid(flat, S, steps, at)
  BY <1>8, <1>9, <1>10 DEF Laid
<1>12. ASSUME NEW i \in 1..N, NEW j \in 1..N, i < j, order[i] \in S, order[j] \in S
       PROVE  at[order[i]] + Len(steps[order[i]]) <= at[order[j]]
  <2>1. ASSUME NEW k \in 1..N, order[k] \in S
        PROVE  at[order[k]] = p[k] /\ parts[k] = steps[order[k]]
    <3>1. index[order[k]] = k
      BY <1>6
    <3> QED
      BY <1>7, <2>1, <3>1
  <2>2. p[i] + Len(parts[i]) <= p[j]
    BY <1>4, <1>12
  <2> QED
    BY <1>12, <2>1, <2>2
<1> QED
  <2>1. flat = Rows(N, order, S, steps)
    BY DEF Rows, flat, parts
  <2> QED
    BY <1>2, <1>11, <1>12, <2>1 DEF InOrder

\* The order of TopDown, and the other way round.
LEMMA UpAndDown ==
  LET N == Len(TopDown)
      up == Reverse(TopDown)
  IN  /\ N \in Nat
      /\ \A order \in {up, TopDown} :
            /\ order \in [1..N -> Models]
            /\ \A m \in Models : \E i \in 1..N : order[i] = m
            /\ \A i, j \in 1..N : order[i] = order[j] => i = j
      /\ \A m \in Models : FedBy[m] \in Models =>
            \E i, j \in 1..N : i < j /\ up[i] = m /\ up[j] = FedBy[m]
<1> DEFINE N == Len(TopDown)
           up == Reverse(TopDown)
<1>1. /\ N \in Nat /\ TopDown \in [1..N -> Models]
      /\ \A m \in Models : \E i \in 1..N : TopDown[i] = m
      /\ \A i, j \in 1..N : TopDown[i] = TopDown[j] => i = j
      /\ \A i \in 1..N : FedBy[TopDown[i]] = Camera \/ \E j \in 1..(i - 1) : FedBy[TopDown[i]] = TopDown[j]
  BY Order, LenProperties
<1> HIDE DEF N
<1>2. up = [i \in 1..N |-> TopDown[(N - i) + 1]]
  BY DEF Reverse, N
<1>3. up \in [1..N -> Models] /\ \A i \in 1..N : (N - i) + 1 \in 1..N /\ up[i] = TopDown[(N - i) + 1]
  BY <1>1, <1>2
<1> HIDE DEF up
<1>4. \A i \in 1..N : (N - i) + 1 \in 1..N /\ up[(N - i) + 1] = TopDown[i]
  <2> SUFFICES ASSUME NEW i \in 1..N PROVE (N - i) + 1 \in 1..N /\ up[(N - i) + 1] = TopDown[i]
    OBVIOUS
  <2> DEFINE j == (N - i) + 1
  <2>1. j \in 1..N /\ (N - j) + 1 = i
    BY <1>1
  <2> HIDE DEF j
  <2>2. up[j] = TopDown[(N - j) + 1]
    BY <1>3, <2>1
  <2> QED
    BY <2>1, <2>2 DEF j
<1>5. ASSUME NEW m \in Models PROVE \E i \in 1..N : up[i] = m
  <2>1. PICK i \in 1..N : TopDown[i] = m
    BY <1>1
  <2>2. (N - i) + 1 \in 1..N /\ up[(N - i) + 1] = m
    BY <1>4, <2>1
  <2> QED
    BY <2>2
<1>6. ASSUME NEW i \in 1..N, NEW j \in 1..N, up[i] = up[j] PROVE i = j
  <2>1. (N - i) + 1 = (N - j) + 1
    BY <1>1, <1>3, <1>6
  <2> QED
    BY <1>1, <2>1
<1>7. ASSUME NEW m \in Models, FedBy[m] \in Models
      PROVE  \E i, j \in 1..N : i < j /\ up[i] = m /\ up[j] = FedBy[m]
  <2>1. PICK a \in 1..N : TopDown[a] = m
    BY <1>1
  <2>2. PICK b \in 1..(a - 1) : FedBy[m] = TopDown[b]
    BY <1>1, <1>7, <2>1, Nodes
  <2>3. b \in 1..N /\ (N - a) + 1 < (N - b) + 1
    BY <1>1, <2>2
  <2> QED
    BY <1>4, <2>1, <2>2, <2>3
<1> QED
  BY <1>1, <1>3, <1>5, <1>6, <1>7 DEF N, up

\* Both list models.
LEMMA ListsOfModels == \A i \in 1..Len(TopDown) : TopDown[i] \in Models /\ Reverse(TopDown)[i] \in Models
BY UpAndDown

\* What BottomUp and Downwards make of the steps.
Upwards(S, steps) == Rows(Len(TopDown), Reverse(TopDown), S, steps)

\* BottomUp: the piece of a node ends before that of its feeder begins.
LEMMA UpwardsIsLaid ==
  ASSUME NEW E, NEW S \in SUBSET Models, NEW steps \in [Models -> Seq(E)]
  PROVE  /\ Upwards(S, steps) \in Seq(E)
         /\ \E at : /\ Laid(Upwards(S, steps), S, steps, at)
                    /\ \A m \in S : FedBy[m] \in S => at[m] + Len(steps[m]) <= at[FedBy[m]]
<1> DEFINE N == Len(TopDown)
           up == Reverse(TopDown)
           flat == Rows(N, up, S, steps)
<1>1. flat = Upwards(S, steps)
  BY DEF Upwards
<1>2. /\ N \in Nat /\ up \in [1..N -> Models]
      /\ \A m \in Models : \E i \in 1..N : up[i] = m
      /\ \A i, j \in 1..N : up[i] = up[j] => i = j
      /\ \A m \in Models : FedBy[m] \in Models =>
            \E i, j \in 1..N : i < j /\ up[i] = m /\ up[j] = FedBy[m]
  BY UpAndDown
<1> HIDE DEF N, up
<1>3. /\ flat \in Seq(E)
      /\ \E at : Laid(flat, S, steps, at) /\ InOrder(at, N, up, S, steps)
  <2>1. /\ \A m \in Models : \E i \in 1..N : up[i] = m
        /\ \A i, j \in 1..N : up[i] = up[j] => i = j
    BY <1>2
  <2> QED
    BY ONLY <1>2, <2>1, S \in SUBSET Models, steps \in [Models -> Seq(E)], RowsAreLaid
<1> HIDE DEF flat
<1>4. PICK at : Laid(flat, S, steps, at) /\ InOrder(at, N, up, S, steps)
  BY <1>3
<1>5. ASSUME NEW m \in S, FedBy[m] \in S PROVE at[m] + Len(steps[m]) <= at[FedBy[m]]
  <2>1. PICK i, j \in 1..N : i < j /\ up[i] = m /\ up[j] = FedBy[m]
    <3>1. m \in Models /\ FedBy[m] \in Models
      BY <1>5
    <3>2. \A x \in Models : FedBy[x] \in Models => \E i, j \in 1..N : i < j /\ up[i] = x /\ up[j] = FedBy[x]
      BY <1>2
    <3> QED
      BY ONLY <3>1, <3>2
  <2>2. i < j /\ up[i] \in S /\ up[j] \in S => at[up[i]] + Len(steps[up[i]]) <= at[up[j]]
    BY <1>4 DEF InOrder
  <2> QED
    BY <1>5, <2>1, <2>2
<1>6. Laid(Upwards(S, steps), S, steps, at)
  BY <1>1, <1>4
<1>7. Upwards(S, steps) \in Seq(E)
  BY <1>1, <1>3
<1> QED
  BY <1>5, <1>6, <1>7

\* Downwards: one piece for each node of S.
LEMMA DownwardsIsLaid ==
  ASSUME NEW E, NEW S \in SUBSET Models, NEW steps \in [Models -> Seq(E)]
  PROVE  LET flat == Rows(Len(TopDown), TopDown, S, steps)
         IN  flat \in Seq(E) /\ \E at : Laid(flat, S, steps, at)
<1> DEFINE N == Len(TopDown)
           flat == Rows(N, TopDown, S, steps)
<1>1. /\ N \in Nat /\ TopDown \in [1..N -> Models]
      /\ \A m \in Models : \E i \in 1..N : TopDown[i] = m
      /\ \A i, j \in 1..N : TopDown[i] = TopDown[j] => i = j
  BY UpAndDown
<1> HIDE DEF N
<1>2. flat \in Seq(E) /\ \E at : Laid(flat, S, steps, at)
  BY <1>1, RowsAreLaid
<1> QED
  BY <1>2 DEF N

\* Steps and what is around them, in two agendas that follow each other.
LEMMA Joined ==
  ASSUME NEW E, NEW a \in Seq(E), NEW b \in Seq(E)
  PROVE  /\ a \o b \in Seq(E) /\ Len(a) \in Nat /\ Len(b) \in Nat
         /\ \A e : Has(a \o b, e) <=> Has(a, e) \/ Has(b, e)
         /\ \A i \in 1..Len(a) :
               /\ i \in 1..Len(a \o b) /\ (a \o b)[i] = a[i]
               /\ \A e : Before(a, i, e) => Before(a \o b, i, e)
               /\ \A e : Behind(a, i, e) \/ Has(b, e) => Behind(a \o b, i, e)
         /\ \A i \in 1..Len(b) :
               /\ Len(a) + i \in 1..Len(a \o b) /\ (a \o b)[Len(a) + i] = b[i]
               /\ \A e : Has(a, e) \/ Before(b, i, e) => Before(a \o b, Len(a) + i, e)
               /\ \A e : Behind(b, i, e) => Behind(a \o b, Len(a) + i, e)
         /\ \A n \in 1..Len(a \o b) : n \in 1..Len(a) \/ \E i \in 1..Len(b) : n = Len(a) + i
<1> DEFINE c == a \o b
<1>1. /\ c \in Seq(E) /\ Len(a) \in Nat /\ Len(b) \in Nat /\ Len(c) = Len(a) + Len(b)
      /\ \A i \in 1..Len(a) : c[i] = a[i]
      /\ \A i \in 1..Len(b) : c[Len(a) + i] = b[i]
  BY ConcatProperties
<1> HIDE DEF c
<1>2. \A i \in 1..Len(a) : i \in 1..Len(c) /\ c[i] = a[i]
  BY <1>1
<1>3. \A i \in 1..Len(b) : Len(a) + i \in 1..Len(c) /\ c[Len(a) + i] = b[i]
  BY <1>1
<1>4. ASSUME NEW n \in 1..Len(c) PROVE n \in 1..Len(a) \/ \E i \in 1..Len(b) : n = Len(a) + i
  <2>1. CASE n > Len(a)
    <3>1. n - Len(a) \in 1..Len(b) /\ n = Len(a) + (n - Len(a))
      BY <1>1, <2>1
    <3> QED
      BY <3>1
  <2> QED
    BY <1>1, <2>1
<1>5. ASSUME NEW e PROVE Has(c, e) <=> Has(a, e) \/ Has(b, e)
  <2>1. ASSUME Has(c, e) PROVE Has(a, e) \/ Has(b, e)
    <3>1. PICK n \in 1..Len(c) : c[n] = e
      BY <2>1 DEF Has
    <3> QED
      BY <1>2, <1>3, <1>4, <3>1 DEF Has
  <2>2. ASSUME Has(a, e) \/ Has(b, e) PROVE Has(c, e)
    BY <1>2, <1>3, <2>2 DEF Has
  <2> QED
    BY <2>1, <2>2
<1>6. ASSUME NEW i \in 1..Len(a), NEW e, Before(a, i, e) PROVE Before(c, i, e)
  <2>1. PICK j \in 1..(i - 1) : a[j] = e
    BY <1>6 DEF Before
  <2>2. j \in 1..Len(a)
    BY <1>1
  <2> QED
    BY <1>2, <2>1, <2>2 DEF Before
<1>7. ASSUME NEW i \in 1..Len(a), NEW e, Behind(a, i, e) PROVE Behind(c, i, e)
  <2>1. PICK j \in (i + 1)..Len(a) : a[j] = e
    BY <1>7 DEF Behind
  <2>2. j \in 1..Len(a) /\ j \in (i + 1)..Len(c)
    BY <1>1
  <2> QED
    BY <1>2, <2>1, <2>2 DEF Behind
<1>8. ASSUME NEW i \in 1..Len(a), NEW e, Has(b, e) PROVE Behind(c, i, e)
  <2>1. PICK j \in 1..Len(b) : b[j] = e
    BY <1>8 DEF Has
  <2>2. Len(a) + j \in (i + 1)..Len(c) /\ c[Len(a) + j] = e
    BY <1>1, <1>3, <2>1
  <2> QED
    BY <2>2 DEF Behind
<1>9. ASSUME NEW i \in 1..Len(b), NEW e, Has(a, e) PROVE Before(c, Len(a) + i, e)
  <2>1. PICK j \in 1..Len(a) : a[j] = e
    BY <1>9 DEF Has
  <2>2. j \in 1..((Len(a) + i) - 1) /\ c[j] = e
    BY <1>1, <1>2, <2>1
  <2> QED
    BY <2>2 DEF Before
<1>10. ASSUME NEW i \in 1..Len(b), NEW e, Before(b, i, e) PROVE Before(c, Len(a) + i, e)
  <2>1. PICK j \in 1..(i - 1) : b[j] = e
    BY <1>10 DEF Before
  <2>2. j \in 1..Len(b) /\ Len(a) + j \in 1..((Len(a) + i) - 1)
    BY <1>1
  <2> QED
    BY <1>3, <2>1, <2>2 DEF Before
<1>11. ASSUME NEW i \in 1..Len(b), NEW e, Behind(b, i, e) PROVE Behind(c, Len(a) + i, e)
  <2>1. PICK j \in (i + 1)..Len(b) : b[j] = e
    BY <1>11 DEF Behind
  <2>2. j \in 1..Len(b) /\ Len(a) + j \in ((Len(a) + i) + 1)..Len(c)
    BY <1>1
  <2> QED
    BY <1>3, <2>1, <2>2 DEF Behind
<1> QED
  BY <1>1, <1>2, <1>3, <1>4, <1>5, <1>6, <1>7, <1>8, <1>9, <1>10, <1>11 DEF c

\* Whose step op is in a
Of(a, op) == {s \in Senders : Has(a, Step(op, s))}

\* Steps that tear down in an order that is safe, where the threads of gone are
\* gone before, those of idle do not run, and those of freed are freed later.
Orderly(a, gone, idle, freed) ==
    /\ a \in Seq([op : TearingDown, of : Senders])
    /\ \A i \in 1..Len(a), s \in Senders :
          a[i] = Step("halt", s) =>
              /\ i + 1 \in 1..Len(a) /\ a[i + 1] = Step("join", s)
              /\ s \in Models => Behind(a, i, Step("clear", s))
    /\ \A i \in 1..Len(a), s \in Senders :
          a[i] = Step("free", s) =>
              /\ s \in gone \/ Before(a, i, Step("join", s))
              /\ s \in idle \/ Before(a, i, Step("halt", s))
              /\ s \in Models =>
                  \/ s \notin subscribers[FedBy[s]]
                  \/ Before(a, i, Step("detach", s))
                  \/ /\ FedBy[s] \in gone \/ Before(a, i, Step("join", FedBy[s]))
                     /\ FedBy[s] \in freed \/ Behind(a, i, Step("free", FedBy[s]))
    /\ \A i \in 1..Len(a) :
          a[i] = Step("exit_mmf", Camera) =>
              /\ \A s \in Senders : s \in gone \/ Before(a, i, Step("join", s))
              /\ Camera \in idle \/ Before(a, i, Step("halt", Camera))

\* Two teardowns, one after the other, make a teardown.
LEMMA JoinedTeardowns ==
  ASSUME NEW a, NEW b, NEW gone, NEW idle, NEW freed,
         Orderly(a, gone, idle, freed \cup Of(b, "free")),
         Orderly(b, gone \cup Of(a, "join"), idle \cup Of(a, "halt"), freed)
  PROVE  /\ Orderly(a \o b, gone, idle, freed)
         /\ \A op : Of(a \o b, op) = Of(a, op) \cup Of(b, op)
<1> USE Nodes
<1> DEFINE c == a \o b
           E == [op : TearingDown, of : Senders]
<1>1. a \in Seq(E) /\ b \in Seq(E)
  BY DEF Orderly
<1> HIDE DEF E
<1>2. /\ c \in Seq(E)
      /\ \A e : Has(c, e) <=> Has(a, e) \/ Has(b, e)
      /\ \A n \in 1..Len(c) : n \in 1..Len(a) \/ \E i \in 1..Len(b) : n = Len(a) + i
  BY <1>1, Joined
<1>3. \A i \in 1..Len(a) :
         /\ i \in 1..Len(c) /\ c[i] = a[i]
         /\ \A e : Before(a, i, e) => Before(c, i, e)
         /\ \A e : Behind(a, i, e) \/ Has(b, e) => Behind(c, i, e)
  BY <1>1, Joined
<1>4. \A i \in 1..Len(b) :
         /\ Len(a) + i \in 1..Len(c) /\ c[Len(a) + i] = b[i]
         /\ \A e : Has(a, e) \/ Before(b, i, e) => Before(c, Len(a) + i, e)
         /\ \A e : Behind(b, i, e) => Behind(c, Len(a) + i, e)
  BY <1>1, Joined
<1>5. Len(a) \in Nat /\ Len(b) \in Nat
  BY <1>1, Joined
<1> HIDE DEF c
<1>6. ASSUME NEW n \in 1..Len(c), NEW s \in Senders, c[n] = Step("halt", s)
      PROVE  /\ n + 1 \in 1..Len(c) /\ c[n + 1] = Step("join", s)
             /\ s \in Models => Behind(c, n, Step("clear", s))
  <2>1. CASE n \in 1..Len(a)
    <3>1. n + 1 \in 1..Len(a) /\ a[n + 1] = Step("join", s) /\ (s \in Models => Behind(a, n, Step("clear", s)))
      BY <1>3, <1>6, <2>1 DEF Orderly
    <3> QED
      BY <1>3, <2>1, <3>1
  <2>2. ASSUME NEW i \in 1..Len(b), n = Len(a) + i
        PROVE  /\ n + 1 \in 1..Len(c) /\ c[n + 1] = Step("join", s)
               /\ s \in Models => Behind(c, n, Step("clear", s))
    <3>1. i + 1 \in 1..Len(b) /\ b[i + 1] = Step("join", s) /\ (s \in Models => Behind(b, i, Step("clear", s)))
      BY <1>4, <1>6, <2>2 DEF Orderly
    <3>2. n + 1 = Len(a) + (i + 1)
      BY <1>5, <2>2
    <3> QED
      BY <1>4, <2>2, <3>1, <3>2
  <2> QED
    BY <1>2, <2>1, <2>2
<1>7. ASSUME NEW n \in 1..Len(c), NEW s \in Senders, c[n] = Step("free", s)
      PROVE  /\ s \in gone \/ Before(c, n, Step("join", s))
             /\ s \in idle \/ Before(c, n, Step("halt", s))
             /\ s \in Models =>
                 \/ s \notin subscribers[FedBy[s]]
                 \/ Before(c, n, Step("detach", s))
                 \/ /\ FedBy[s] \in gone \/ Before(c, n, Step("join", FedBy[s]))
                    /\ FedBy[s] \in freed \/ Behind(c, n, Step("free", FedBy[s]))
  <2>1. CASE n \in 1..Len(a)
    <3>1. /\ s \in gone \/ Before(a, n, Step("join", s))
          /\ s \in idle \/ Before(a, n, Step("halt", s))
          /\ s \in Models =>
              \/ s \notin subscribers[FedBy[s]]
              \/ Before(a, n, Step("detach", s))
              \/ /\ FedBy[s] \in gone \/ Before(a, n, Step("join", FedBy[s]))
                 /\ FedBy[s] \in freed \cup Of(b, "free") \/ Behind(a, n, Step("free", FedBy[s]))
      BY <1>3, <1>7, <2>1 DEF Orderly
    <3>2. \A x : x \in Of(b, "free") => Behind(c, n, Step("free", x))
      BY <1>3, <2>1 DEF Of
    <3> QED
      BY <1>3, <2>1, <3>1, <3>2
  <2>2. ASSUME NEW i \in 1..Len(b), n = Len(a) + i
        PROVE  /\ s \in gone \/ Before(c, n, Step("join", s))
               /\ s \in idle \/ Before(c, n, Step("halt", s))
               /\ s \in Models =>
                   \/ s \notin subscribers[FedBy[s]]
                   \/ Before(c, n, Step("detach", s))
                   \/ /\ FedBy[s] \in gone \/ Before(c, n, Step("join", FedBy[s]))
                      /\ FedBy[s] \in freed \/ Behind(c, n, Step("free", FedBy[s]))
    <3>1. /\ s \in gone \cup Of(a, "join") \/ Before(b, i, Step("join", s))
          /\ s \in idle \cup Of(a, "halt") \/ Before(b, i, Step("halt", s))
          /\ s \in Models =>
              \/ s \notin subscribers[FedBy[s]]
              \/ Before(b, i, Step("detach", s))
              \/ /\ FedBy[s] \in gone \cup Of(a, "join") \/ Before(b, i, Step("join", FedBy[s]))
                 /\ FedBy[s] \in freed \/ Behind(b, i, Step("free", FedBy[s]))
      BY <1>4, <1>7, <2>2 DEF Orderly
    <3>2. /\ \A x : x \in Of(a, "join") => Before(c, n, Step("join", x))
          /\ \A x : x \in Of(a, "halt") => Before(c, n, Step("halt", x))
      BY <1>4, <2>2 DEF Of
    <3> QED
      BY <1>4, <2>2, <3>1, <3>2
  <2> QED
    BY <1>2, <2>1, <2>2
<1>8. ASSUME NEW n \in 1..Len(c), c[n] = Step("exit_mmf", Camera)
      PROVE  /\ \A s \in Senders : s \in gone \/ Before(c, n, Step("join", s))
             /\ Camera \in idle \/ Before(c, n, Step("halt", Camera))
  <2>1. CASE n \in 1..Len(a)
    <3>1. /\ \A s \in Senders : s \in gone \/ Before(a, n, Step("join", s))
          /\ Camera \in idle \/ Before(a, n, Step("halt", Camera))
      BY <1>3, <1>8, <2>1 DEF Orderly
    <3> QED
      BY <1>3, <2>1, <3>1
  <2>2. ASSUME NEW i \in 1..Len(b), n = Len(a) + i
        PROVE  /\ \A s \in Senders : s \in gone \/ Before(c, n, Step("join", s))
               /\ Camera \in idle \/ Before(c, n, Step("halt", Camera))
    <3>1. /\ \A s \in Senders : s \in gone \cup Of(a, "join") \/ Before(b, i, Step("join", s))
          /\ Camera \in idle \cup Of(a, "halt") \/ Before(b, i, Step("halt", Camera))
      BY <1>4, <1>8, <2>2 DEF Orderly
    <3>2. /\ \A x : x \in Of(a, "join") => Before(c, n, Step("join", x))
          /\ \A x : x \in Of(a, "halt") => Before(c, n, Step("halt", x))
      BY <1>4, <2>2 DEF Of
    <3> QED
      BY <1>4, <2>2, <3>1, <3>2
  <2> QED
    BY <1>2, <2>1, <2>2
<1>9. Orderly(c, gone, idle, freed)
  BY <1>2, <1>6, <1>7, <1>8 DEF Orderly, E
<1>10. \A op : Of(c, op) = Of(a, op) \cup Of(b, op)
  BY <1>2 DEF Of
<1> QED
  BY <1>9, <1>10 DEF c

\* A sequence over S is one over every T around S.
LEMMA WiderSequence ==
  ASSUME NEW S, NEW T, S \subseteq T, NEW q \in Seq(S)
  PROVE  q \in Seq(T) /\ Len(q) \in Nat /\ \A i \in 1..Len(q) : q[i] \in S
<1>1. Len(q) \in Nat /\ q \in [1..Len(q) -> S]
  BY LenProperties
<1> QED
  BY <1>1

\* The senders without a thread, and those that were told to stop.
Off == {s \in Senders : pc[s] = "off"}
Resting == {s \in Senders : ~running[s]}

\* Between two commands
LEMMA Quiet ==
  ASSUME IInv, agenda = <<>>
  PROVE  /\ alive \subseteq Models /\ Resting \subseteq Off
         /\ \A m \in Models : running[m] => m \in alive /\ running[FedBy[m]]
         /\ \A m \in alive : FedBy[m] = Camera \/ FedBy[m] \in alive
         /\ \A m \in Models : m \notin alive => m \in Off
         /\ \A e : ~Has(agenda, e)
<1> USE Nodes
<1>1. VarTypes /\ FeedersStay /\ NodeInv
  BY DEF IInv, AgendaInv
<1>2. \A e : ~Has(agenda, e)
  <2>1. Len(agenda) = 0
    OBVIOUS
  <2> QED
    BY <2>1 DEF Has
<1>3. \A s \in Senders : WillRun(s) <=> running[s]
  BY <1>2 DEF WillRun
<1>4. \A m \in Models : WillLive(m) <=> m \in alive
  BY <1>2 DEF WillLive
<1>5. alive \subseteq Models
  BY <1>1 DEF VarTypes
<1>6. \A m \in Models : running[m] => m \in alive
  BY <1>1 DEF NodeInv
<1>7. \A m \in Models : running[m] => running[FedBy[m]]
  BY <1>1, <1>3 DEF FeedersStay
<1>8. \A m \in alive : FedBy[m] = Camera \/ FedBy[m] \in alive
  BY <1>1, <1>4, <1>5 DEF FeedersStay
<1>9. \A m \in Models : m \notin alive => m \in Off
  BY <1>1 DEF NodeInv, Off
<1>10. Resting \subseteq Off
  BY <1>1, <1>2 DEF NodeInv, Off, Resting
<1> QED
  BY <1>2, <1>5, <1>6, <1>7, <1>8, <1>9, <1>10

\* The worker gets an agenda.
LEMMA IssueKeepsTheRest ==
  ASSUME IInv, agenda = <<>>, UNCHANGED <<refs, threads, running, box, interrupted, subscribers, alive, mmf>>,
         AgendaInv'
  PROVE  IInv'
<1>1. UNCHANGED <<pc, hand, todo, context, running, box, interrupted, subscribers, alive, mmf>>
  BY DEF threads
<1>2. VarTypes /\ ThreadInv /\ NodeInv /\ SubscriberInv /\ \A e : ~Has(agenda, e)
  BY Quiet DEF IInv
<1>3. VarTypes'
  BY <1>1, <1>2 DEF VarTypes
<1>4. ThreadInv'
  BY <1>1, <1>2 DEF ThreadInv
<1>5. NodeInv'
  BY <1>1, <1>2 DEF NodeInv
<1>6. SubscriberInv'
  BY <1>1, <1>2 DEF SubscriberInv
<1> QED
  BY <1>3, <1>4, <1>5, <1>6 DEF IInv

\* A command that tears down is safe if its agenda is orderly, and nobody that
\* runs, or is there, loses the node that feeds it.
LEMMA TeardownIsSafe ==
  ASSUME IInv, NEW name, NEW a, Issue(name, a), Orderly(a, Off, Resting, {}),
         \A m \in Models : running[m] /\ FedBy[m] \in Of(a, "halt") => m \in Of(a, "halt"),
         \A m \in alive : FedBy[m] # Camera /\ FedBy[m] \in Of(a, "free") => m \in Of(a, "free")
  PROVE  IInv'
<1> USE Nodes, StepsDiffer
<1>1. /\ agenda = <<>> /\ agenda' = a
      /\ UNCHANGED <<refs, threads, running, box, interrupted, subscribers, alive, mmf>>
      /\ UNCHANGED <<pc, hand, todo, context, running, box, interrupted, subscribers, alive, mmf>>
  BY DEF Issue, threads
<1>2. /\ Len(a) \in Nat /\ a \in Seq([op : Building \cup TearingDown, of : Senders])
      /\ \A i \in 1..Len(a) : a[i] \in [op : TearingDown, of : Senders]
  <2> DEFINE E == [op : TearingDown, of : Senders]
             W == [op : Building \cup TearingDown, of : Senders]
  <2>1. a \in Seq(E)
    BY DEF Orderly
  <2>2. E \subseteq W
    OBVIOUS
  <2> HIDE DEF E, W
  <2>3. Len(a) \in Nat /\ a \in Seq(W) /\ \A i \in 1..Len(a) : a[i] \in E
    BY <2>1, <2>2, WiderSequence
  <2> QED
    BY <2>3 DEF E, W
<1>3. OneKind'
  <2>1. a \in Seq([op : Building \cup TearingDown, of : Senders])
    BY <1>2
  <2>2. \A i \in 1..Len(a) : a[i].op \in TearingDown
    BY <1>2
  <2> QED
    BY <1>1, <2>1, <2>2 DEF OneKind
<1>4. ASSUME NEW op \in Building, NEW s PROVE ~Has(a, Step(op, s))
  <2>1. op \notin TearingDown
    BY DEF Building, TearingDown
  <2> QED
    BY <1>2, <2>1 DEF Has
<1>5. SpawnsAreSafe'
  <2>1. \A s, i : i \in 1..Len(a) => a[i] # Step("spawn", s)
    BY <1>4 DEF Has, Building
  <2> QED
    BY <1>1, <2>1 DEF SpawnsAreSafe
<1>6. HaltsAreCompleted'
  BY <1>1 DEF HaltsAreCompleted, Orderly
<1>7. \A i, s : s \in Senders => (GoneBy(i, s)' <=> s \in Off \/ Before(a, i, Step("join", s)))
  BY <1>1 DEF GoneBy, Off
<1>8. FreesAreSafe'
  <2> SUFFICES ASSUME NEW i \in 1..Len(a), NEW s \in Senders, a[i] = Step("free", s)
               PROVE  /\ GoneBy(i, s)'
                      /\ ~running[s] \/ Before(a, i, Step("halt", s))
                      /\ s \in Models =>
                          \/ s \notin subscribers[FedBy[s]]
                          \/ Before(a, i, Step("detach", s))
                          \/ GoneBy(i, FedBy[s])' /\ Behind(a, i, Step("free", FedBy[s]))
    BY <1>1 DEF FreesAreSafe, GoneBy
  <2>1. /\ s \in Off \/ Before(a, i, Step("join", s))
        /\ s \in Resting \/ Before(a, i, Step("halt", s))
        /\ s \in Models =>
            \/ s \notin subscribers[FedBy[s]]
            \/ Before(a, i, Step("detach", s))
            \/ /\ FedBy[s] \in Off \/ Before(a, i, Step("join", FedBy[s]))
               /\ FedBy[s] \in {} \/ Behind(a, i, Step("free", FedBy[s]))
    BY DEF Orderly
  <2> QED
    BY <1>7, <2>1 DEF Resting
<1>9. ExitsAreSafe'
  <2> SUFFICES ASSUME NEW i \in 1..Len(a), a[i] = Step("exit_mmf", Camera)
               PROVE  /\ \A s \in Senders : GoneBy(i, s)'
                      /\ ~running[Camera] \/ Before(a, i, Step("halt", Camera))
    BY <1>1 DEF ExitsAreSafe, GoneBy
  <2>1. /\ \A s \in Senders : s \in Off \/ Before(a, i, Step("join", s))
        /\ Camera \in Resting \/ Before(a, i, Step("halt", Camera))
    BY DEF Orderly
  <2> QED
    BY <1>7, <2>1 DEF Resting
<1>10. ASSUME NEW s \in Senders
       PROVE  /\ WillRun(s)' <=> running[s] /\ s \notin Of(a, "halt")
              /\ WillLive(s)' <=> s \in alive /\ s \notin Of(a, "free")
  <2>1. ~Has(a, Step("spawn", s)) /\ ~Has(a, Step("attach", s))
    BY <1>4 DEF Building
  <2> QED
    BY <1>1, <2>1 DEF WillRun, WillLive, Of
<1>11. FeedersStay'
  <2> SUFFICES ASSUME NEW m \in Models
               PROVE  /\ WillRun(m)' => WillRun(FedBy[m])'
                      /\ WillLive(m)' => FedBy[m] = Camera \/ WillLive(FedBy[m])'
    BY DEF FeedersStay, WillRun, WillLive
  <2>1. m \in Senders /\ FedBy[m] \in Senders
    OBVIOUS
  <2>2. running[m] => running[FedBy[m]]
    BY <1>1, Quiet
  <2>3. m \in alive => FedBy[m] = Camera \/ FedBy[m] \in alive
    BY <1>1, Quiet
  <2> QED
    BY <1>10, <2>1, <2>2, <2>3
<1>12. AgendaInv'
  BY <1>3, <1>5, <1>6, <1>8, <1>9, <1>11 DEF AgendaInv
<1> QED
  BY <1>1, <1>12, IssueKeepsTheRest

\* A command that builds is safe if it starts only threads that are off, once,
\* of nodes that are there, and what feeds them runs.
LEMMA BuildingIsSafe ==
  ASSUME IInv, NEW name, NEW a, Issue(name, a),
         a \in Seq([op : Building, of : Senders]),
         \A i \in 1..Len(a), s \in Senders :
            a[i] = Step("spawn", s) =>
                /\ s \in Off
                /\ s \in Models => s \in alive \/ Before(a, i, Step("attach", s))
                /\ s = Camera => mmf \/ Before(a, i, Step("init_mmf", Camera))
                /\ \A j \in 1..Len(a) : a[j] = a[i] => j = i,
         \A m \in Models : m \in Of(a, "spawn") => running[FedBy[m]] \/ FedBy[m] \in Of(a, "spawn"),
         \A m \in Models : m \in Of(a, "attach") => FedBy[m] = Camera \/ FedBy[m] \in alive
  PROVE  IInv'
<1> USE Nodes, StepsDiffer
<1>1. /\ agenda = <<>> /\ agenda' = a
      /\ UNCHANGED <<refs, threads, running, box, interrupted, subscribers, alive, mmf>>
      /\ UNCHANGED <<pc, hand, todo, context, running, box, interrupted, subscribers, alive, mmf>>
  BY DEF Issue, threads
<1>2. /\ Len(a) \in Nat /\ a \in Seq([op : Building \cup TearingDown, of : Senders])
      /\ \A i \in 1..Len(a) : a[i] \in [op : Building, of : Senders]
  <2> DEFINE E == [op : Building, of : Senders]
             W == [op : Building \cup TearingDown, of : Senders]
  <2>1. a \in Seq(E)
    OBVIOUS
  <2>2. E \subseteq W
    OBVIOUS
  <2> HIDE DEF E, W
  <2>3. Len(a) \in Nat /\ a \in Seq(W) /\ \A i \in 1..Len(a) : a[i] \in E
    BY <2>1, <2>2, WiderSequence
  <2> QED
    BY <2>3 DEF E, W
<1>3. OneKind'
  <2>1. a \in Seq([op : Building \cup TearingDown, of : Senders])
    BY <1>2
  <2>2. \A i \in 1..Len(a) : a[i].op \in Building
    BY <1>2
  <2> QED
    BY <1>1, <2>1, <2>2 DEF OneKind
<1>4. ASSUME NEW op \in TearingDown, NEW s PROVE ~Has(a, Step(op, s))
  <2>1. op \notin Building
    BY DEF Building, TearingDown
  <2> QED
    BY <1>2, <2>1 DEF Has
<1>5. SpawnsAreSafe'
  BY <1>1 DEF SpawnsAreSafe, Off
<1>6. ASSUME NEW op \in TearingDown, NEW i \in 1..Len(a), NEW s PROVE a[i] # Step(op, s)
  BY <1>4 DEF Has
<1>7. HaltsAreCompleted'
  BY <1>1, <1>6 DEF HaltsAreCompleted, TearingDown
<1>8. FreesAreSafe'
  BY <1>1, <1>6 DEF FreesAreSafe, TearingDown
<1>9. ExitsAreSafe'
  BY <1>1, <1>6 DEF ExitsAreSafe, TearingDown
<1>10. ASSUME NEW s \in Senders
       PROVE  /\ WillRun(s)' <=> running[s] \/ s \in Of(a, "spawn")
              /\ WillLive(s)' <=> s \in alive \/ s \in Of(a, "attach")
  <2>1. ~Has(a, Step("halt", s)) /\ ~Has(a, Step("free", s))
    BY <1>4 DEF TearingDown
  <2> QED
    BY <1>1, <2>1 DEF WillRun, WillLive, Of
<1>11. FeedersStay'
  <2> SUFFICES ASSUME NEW m \in Models
               PROVE  /\ WillRun(m)' => WillRun(FedBy[m])'
                      /\ WillLive(m)' => FedBy[m] = Camera \/ WillLive(FedBy[m])'
    BY DEF FeedersStay, WillRun, WillLive
  <2>1. m \in Senders /\ FedBy[m] \in Senders
    OBVIOUS
  <2>2. running[m] => running[FedBy[m]]
    BY <1>1, Quiet
  <2>3. m \in alive => FedBy[m] = Camera \/ FedBy[m] \in alive
    BY <1>1, Quiet
  <2> QED
    BY <1>10, <2>1, <2>2, <2>3
<1>12. AgendaInv'
  BY <1>3, <1>5, <1>7, <1>8, <1>9, <1>11 DEF AgendaInv
<1> QED
  BY <1>1, <1>12, IssueKeepsTheRest

\* The nodes below S: they are S, and what is fed by one of them.
LEMMA BelowIs ==
  ASSUME NEW S
  PROVE  /\ Below(S) \subseteq Models /\ S \cap Models \subseteq Below(S)
         /\ \A x \in Models : FedBy[x] \in Below(S) \cup S => x \in Below(S)
         /\ \A x \in Below(S) : x \in S \/ FedBy[x] \in Below(S) \cup S
         /\ \A T \in SUBSET Models :
               S \cap Models \subseteq T /\ (\A x \in Models : FedBy[x] \in T \cup S => x \in T) => Below(S) \subseteq T
<1>1. Below(S) \subseteq Models /\ S \cap Models \subseteq Below(S)
  BY DEF Below
<1>2. ASSUME NEW T \in SUBSET Models, S \cap Models \subseteq T, \A x \in Models : FedBy[x] \in T \cup S => x \in T
      PROVE  Below(S) \subseteq T
  BY <1>2 DEF Below
<1>3. ASSUME NEW x \in Models, FedBy[x] \in Below(S) \cup S PROVE x \in Below(S)
  <2> SUFFICES ASSUME NEW T \in SUBSET Models, S \cap Models \subseteq T,
                      \A y \in Models : FedBy[y] \in T \cup S => y \in T
               PROVE  x \in T
    BY DEF Below
  <2>1. Below(S) \subseteq T
    BY <1>2
  <2> QED
    BY <1>3, <2>1
<1>4. ASSUME NEW x \in Below(S), x \notin S, FedBy[x] \notin Below(S) \cup S PROVE FALSE
  <2> DEFINE T == Below(S) \ {x}
  <2>1. T \in SUBSET Models /\ S \cap Models \subseteq T
    BY <1>1, <1>4
  <2>2. ASSUME NEW y \in Models, FedBy[y] \in T \cup S PROVE y \in T
    BY <1>3, <1>4, <2>2
  <2> HIDE DEF T
  <2>3. Below(S) \subseteq T
    BY <1>2, <2>1, <2>2
  <2> QED
    BY <2>3 DEF T
<1> QED
  BY <1>1, <1>2, <1>3, <1>4

\* Stopping the camera
LEMMA StopCameraIsOrderly ==
  ASSUME running \in [Senders -> BOOLEAN], NEW gone, NEW idle, NEW freed
  PROVE  /\ Orderly(StopCamera, gone, idle, freed)
         /\ Of(StopCamera, "free") = {}
         /\ Of(StopCamera, "halt") = {Camera} \ Resting
         /\ Of(StopCamera, "join") = {Camera} \ Resting
         /\ Of(StopCamera, "exit_mmf") = {}
<1> USE Nodes, StepsDiffer
<1>1. CASE running[Camera]
  <2> DEFINE q == <<Step("halt", Camera), Step("join", Camera)>>
  <2>1. StopCamera = q
    BY <1>1 DEF StopCamera
  <2>2. Len(q) = 2 /\ q[1] = Step("halt", Camera) /\ q[2] = Step("join", Camera)
        /\ q \in Seq([op : TearingDown, of : Senders]) /\ 1..2 = {1, 2}
    BY DEF Step, TearingDown
  <2> HIDE DEF q
  <2>3. \A e : Has(q, e) <=> e = Step("halt", Camera) \/ e = Step("join", Camera)
    BY <2>2 DEF Has
  <2>4. Orderly(q, gone, idle, freed)
    BY <2>2 DEF Orderly
  <2>5. Of(q, "free") = {} /\ Of(q, "exit_mmf") = {} /\ Of(q, "halt") = {Camera} /\ Of(q, "join") = {Camera}
    BY <2>3 DEF Of
  <2>6. Camera \notin Resting
    BY <1>1 DEF Resting
  <2> QED
    BY <2>1, <2>4, <2>5, <2>6
<1>2. CASE ~running[Camera]
  <2>1. StopCamera = <<>> /\ Len(<<>>) = 0 /\ <<>> \in Seq([op : TearingDown, of : Senders])
    BY <1>2 DEF StopCamera
  <2>2. \A e : ~Has(<<>>, e)
    BY <2>1 DEF Has
  <2>3. Orderly(<<>>, gone, idle, freed)
    BY <2>1 DEF Orderly
  <2>4. Of(<<>>, "free") = {} /\ Of(<<>>, "exit_mmf") = {} /\ Of(<<>>, "halt") = {} /\ Of(<<>>, "join") = {}
    BY <2>2 DEF Of
  <2>5. Camera \in Resting
    BY <1>2 DEF Resting
  <2> QED
    BY <2>1, <2>3, <2>4, <2>5
<1> QED
  BY <1>1, <1>2

\* Stopping models
LEMMA StopsAreOrderly ==
  ASSUME running \in [Senders -> BOOLEAN], NEW S \in SUBSET Models, NEW gone, NEW idle, NEW freed
  PROVE  /\ Orderly(BottomUp(S, StopSteps), gone, idle, freed)
         /\ Of(BottomUp(S, StopSteps), "free") = {}
         /\ Of(BottomUp(S, StopSteps), "halt") = S \ Resting
         /\ Of(BottomUp(S, StopSteps), "join") = S \ Resting
         /\ Of(BottomUp(S, StopSteps), "exit_mmf") = {}
<1> USE Nodes, StepsDiffer
<1> DEFINE E == [op : TearingDown, of : Senders]
           steps == [m \in Models |-> StopSteps(m)]
           flat == Upwards(S, steps)
<1>1. flat = BottomUp(S, StopSteps)
  <2>1. \A i \in 1..Len(TopDown) : steps[Reverse(TopDown)[i]] = StopSteps(Reverse(TopDown)[i])
    BY ListsOfModels
  <2> HIDE DEF steps
  <2>2. [i \in 1..Len(TopDown) |-> IF Reverse(TopDown)[i] \in S THEN steps[Reverse(TopDown)[i]] ELSE <<>>]
        = [i \in 1..Len(TopDown) |-> IF Reverse(TopDown)[i] \in S THEN StopSteps(Reverse(TopDown)[i]) ELSE <<>>]
    BY <2>1
  <2> QED
    BY <2>2 DEF Upwards, Rows, BottomUp
<1>2. ASSUME NEW m \in Models
      PROVE  /\ steps[m] \in Seq(E)
             /\ running[m] => /\ Len(steps[m]) = 3 /\ 1..3 = {1, 2, 3}
                              /\ steps[m][1] = Step("halt", m) /\ steps[m][2] = Step("join", m)
                              /\ steps[m][3] = Step("clear", m)
             /\ ~running[m] => steps[m] = <<>> /\ Len(steps[m]) = 0
  <2>1. Step("halt", m) \in E /\ Step("join", m) \in E /\ Step("clear", m) \in E
    BY DEF Step, TearingDown
  <2>2. steps[m] = IF running[m] THEN <<Step("halt", m), Step("join", m), Step("clear", m)>> ELSE <<>>
    BY DEF StopSteps
  <2> HIDE DEF E, steps
  <2>3. <<Step("halt", m), Step("join", m), Step("clear", m)>> \in Seq(E) /\ <<>> \in Seq(E)
    BY <2>1
  <2>4. 1..3 = {1, 2, 3}
    OBVIOUS
  <2> QED
    BY <2>2, <2>3, <2>4
<1>3. steps \in [Models -> Seq(E)]
  BY <1>2
<1> HIDE DEF E, steps, flat
<1>4. flat \in Seq(E)
  BY <1>3, UpwardsIsLaid DEF flat
<1>5. PICK at : Laid(flat, S, steps, at)
  BY <1>3, UpwardsIsLaid DEF flat
<1>6. Len(flat) \in Nat
  BY <1>4
<1>7. ASSUME NEW n \in 1..Len(flat)
      PROVE  \E m \in S : /\ running[m] /\ at[m] \in Nat
                          /\ \/ n = at[m] + 1 /\ flat[n] = Step("halt", m)
                             \/ n = at[m] + 2 /\ flat[n] = Step("join", m)
                             \/ n = at[m] + 3 /\ flat[n] = Step("clear", m)
  <2>1. PICK m \in S : \E k \in 1..Len(steps[m]) : n = at[m] + k /\ flat[n] = steps[m][k]
    BY <1>5 DEF Laid
  <2>2. at[m] \in Nat
    BY <1>5 DEF Laid
  <2>3. PICK k \in 1..Len(steps[m]) : n = at[m] + k /\ flat[n] = steps[m][k]
    BY <2>1
  <2>4. running[m]
    BY <1>2, <2>3
  <2>5. k \in {1, 2, 3}
    <3>1. Len(steps[m]) = 3 /\ 1..3 = {1, 2, 3}
      BY <1>2, <2>4
    <3> QED
      BY <3>1
  <2> QED
    BY <1>2, <2>2, <2>3, <2>4, <2>5
<1>8. ASSUME NEW m \in S, running[m]
      PROVE  /\ at[m] \in Nat /\ at[m] + 1 \in 1..Len(flat) /\ at[m] + 2 \in 1..Len(flat) /\ at[m] + 3 \in 1..Len(flat)
             /\ flat[at[m] + 1] = Step("halt", m) /\ flat[at[m] + 2] = Step("join", m)
             /\ flat[at[m] + 3] = Step("clear", m)
  <2>1. \A k \in 1..Len(steps[m]) : at[m] + k \in 1..Len(flat) /\ flat[at[m] + k] = steps[m][k]
    BY <1>5 DEF Laid
  <2>2. 1 \in 1..Len(steps[m]) /\ 2 \in 1..Len(steps[m]) /\ 3 \in 1..Len(steps[m])
    BY <1>2, <1>8
  <2>3. at[m] \in Nat
    BY <1>5 DEF Laid
  <2> QED
    BY <1>2, <1>8, <2>1, <2>2, <2>3
<1>9. ASSUME NEW n \in 1..Len(flat), NEW s \in Senders, flat[n] = Step("halt", s)
      PROVE  /\ n + 1 \in 1..Len(flat) /\ flat[n + 1] = Step("join", s)
             /\ s \in Models => Behind(flat, n, Step("clear", s))
  <2>1. s \in S /\ running[s] /\ n = at[s] + 1
    BY <1>7, <1>9
  <2>2. n + 1 = at[s] + 2 /\ at[s] + 3 \in (n + 1)..Len(flat)
    BY <1>6, <1>8, <2>1
  <2> QED
    BY <1>8, <2>1, <2>2 DEF Behind
<1>10. ASSUME NEW n \in 1..Len(flat), NEW s PROVE flat[n] # Step("free", s) /\ flat[n] # Step("exit_mmf", s)
  BY <1>7
<1>11. Orderly(flat, gone, idle, freed)
  BY <1>4, <1>9, <1>10 DEF Orderly, E
<1>12. \A s \in Senders : /\ ~Has(flat, Step("free", s))
                          /\ Has(flat, Step("halt", s)) <=> s \in S /\ running[s]
                          /\ Has(flat, Step("join", s)) <=> s \in S /\ running[s]
  <2> TAKE s \in Senders
  <2>1. ~Has(flat, Step("free", s))
    BY <1>10 DEF Has
  <2>2. ASSUME Has(flat, Step("halt", s)) \/ Has(flat, Step("join", s)) PROVE s \in S /\ running[s]
    <3>1. PICK n \in 1..Len(flat) : flat[n] = Step("halt", s) \/ flat[n] = Step("join", s)
      BY <2>2 DEF Has
    <3>2. PICK m \in S : /\ running[m]
                         /\ \/ flat[n] = Step("halt", m)
                            \/ flat[n] = Step("join", m)
                            \/ flat[n] = Step("clear", m)
      BY <1>7
    <3>3. m = s
      BY <3>1, <3>2
    <3> QED
      BY <3>2, <3>3
  <2>3. ASSUME s \in S, running[s] PROVE Has(flat, Step("halt", s)) /\ Has(flat, Step("join", s))
    BY <1>8, <2>3 DEF Has
  <2> QED
    BY <2>1, <2>2, <2>3
<1>13. Of(flat, "free") = {} /\ Of(flat, "halt") = S \ Resting /\ Of(flat, "join") = S \ Resting
  BY <1>12 DEF Of, Resting
<1>14. Of(flat, "exit_mmf") = {}
  BY <1>10 DEF Of, Has
<1> QED
  BY <1>1, <1>11, <1>13, <1>14

\* Destroying models
LEMMA DestroysAreOrderly ==
  ASSUME running \in [Senders -> BOOLEAN], NEW S \in SUBSET Models, NEW gone, NEW idle, NEW freed,
         Resting \subseteq gone, Resting \subseteq idle
  PROVE  /\ Orderly(BottomUp(S, DestroySteps), gone, idle, freed)
         /\ Of(BottomUp(S, DestroySteps), "free") = S
         /\ Of(BottomUp(S, DestroySteps), "halt") = S \ Resting
         /\ Of(BottomUp(S, DestroySteps), "join") = S \ Resting
         /\ Of(BottomUp(S, DestroySteps), "exit_mmf") = {}
<1> USE Nodes, StepsDiffer
<1> DEFINE E == [op : TearingDown, of : Senders]
           steps == [m \in Models |-> DestroySteps(m)]
           flat == Upwards(S, steps)
<1>1. flat = BottomUp(S, DestroySteps)
  <2>1. \A i \in 1..Len(TopDown) : steps[Reverse(TopDown)[i]] = DestroySteps(Reverse(TopDown)[i])
    BY ListsOfModels
  <2> HIDE DEF steps
  <2>2. [i \in 1..Len(TopDown) |-> IF Reverse(TopDown)[i] \in S THEN steps[Reverse(TopDown)[i]] ELSE <<>>]
        = [i \in 1..Len(TopDown) |-> IF Reverse(TopDown)[i] \in S THEN DestroySteps(Reverse(TopDown)[i]) ELSE <<>>]
    BY <2>1
  <2> QED
    BY <2>2 DEF Upwards, Rows, BottomUp
<1>2. ASSUME NEW m \in Models
      PROVE  /\ steps[m] \in Seq(E)
             /\ running[m] => /\ Len(steps[m]) = 5 /\ 1..5 = {1, 2, 3, 4, 5}
                              /\ steps[m][1] = Step("detach", m) /\ steps[m][2] = Step("halt", m)
                              /\ steps[m][3] = Step("join", m) /\ steps[m][4] = Step("clear", m)
                              /\ steps[m][5] = Step("free", m)
             /\ ~running[m] => /\ Len(steps[m]) = 2 /\ 1..2 = {1, 2}
                               /\ steps[m][1] = Step("detach", m) /\ steps[m][2] = Step("free", m)
  <2> DEFINE d == Step("detach", m)
             h == Step("halt", m)
             j == Step("join", m)
             c == Step("clear", m)
             f == Step("free", m)
  <2>1. d \in E /\ h \in E /\ j \in E /\ c \in E /\ f \in E
    BY DEF Step, TearingDown
  <2>2. steps[m] = <<d>> \o (IF running[m] THEN <<h, j, c>> ELSE <<>>) \o <<f>>
    BY DEF DestroySteps, StopSteps
  <2> HIDE DEF E, steps, d, h, j, c, f
  <2>3. <<d>> \in Seq(E) /\ <<f>> \in Seq(E) /\ <<h, j, c>> \in Seq(E) /\ <<>> \in Seq(E)
    BY <2>1
  <2>4. 1..5 = {1, 2, 3, 4, 5} /\ 1..2 = {1, 2}
    OBVIOUS
  <2>5. CASE running[m]
    <3> DEFINE p == <<d>> \o <<h, j, c>>
    <3>1. /\ p \in Seq(E) /\ Len(p) = 4 /\ p[1] = d /\ p[2] = h /\ p[3] = j /\ p[4] = c
      <4>1. /\ p \in Seq(E) /\ Len(p) = Len(<<d>>) + Len(<<h, j, c>>)
            /\ \A i \in 1..Len(<<d>>) : p[i] = <<d>>[i]
            /\ \A i \in 1..Len(<<h, j, c>>) : p[Len(<<d>>) + i] = <<h, j, c>>[i]
        BY <2>3, ConcatProperties
      <4>2. Len(<<d>>) = 1 /\ Len(<<h, j, c>>) = 3
        OBVIOUS
      <4>3. p[1] = d /\ p[1 + 1] = h /\ p[1 + 2] = j /\ p[1 + 3] = c
        BY <4>1, <4>2
      <4> QED
        BY <4>1, <4>2, <4>3
    <3> HIDE DEF p
    <3>2. /\ p \o <<f>> \in Seq(E) /\ Len(p \o <<f>>) = Len(p) + Len(<<f>>)
          /\ \A i \in 1..Len(p) : (p \o <<f>>)[i] = p[i]
          /\ \A i \in 1..Len(<<f>>) : (p \o <<f>>)[Len(p) + i] = <<f>>[i]
      <4> DEFINE q == <<f>>
      <4>1. q \in Seq(E) /\ p \in Seq(E)
        BY <2>3, <3>1
      <4> HIDE DEF q
      <4>2. /\ p \o q \in Seq(E) /\ Len(p \o q) = Len(p) + Len(q)
            /\ \A i \in 1..Len(p) : (p \o q)[i] = p[i]
            /\ \A i \in 1..Len(q) : (p \o q)[Len(p) + i] = q[i]
        BY ONLY <4>1, ConcatProperties
      <4> QED
        BY <4>2 DEF q
    <3>3. Len(<<f>>) = 1 /\ (p \o <<f>>)[4 + 1] = f
      BY <3>1, <3>2
    <3>4. steps[m] = p \o <<f>>
      BY <2>2, <2>5 DEF p
    <3>5. /\ steps[m] \in Seq(E) /\ Len(steps[m]) = 5 /\ steps[m][1] = d /\ steps[m][2] = h
          /\ steps[m][3] = j /\ steps[m][4] = c /\ steps[m][5] = f
      <4>1. 1 \in 1..Len(p) /\ 2 \in 1..Len(p) /\ 3 \in 1..Len(p) /\ 4 \in 1..Len(p)
        BY <3>1
      <4>2. /\ (p \o <<f>>)[1] = p[1] /\ (p \o <<f>>)[2] = p[2] /\ (p \o <<f>>)[3] = p[3] /\ (p \o <<f>>)[4] = p[4]
            /\ (p \o <<f>>)[5] = f /\ Len(p \o <<f>>) = 5
        BY ONLY <3>1, <3>2, <3>3, <4>1
      <4> QED
        BY ONLY <3>1, <3>2, <3>4, <4>2
    <3> QED
      BY <2>4, <2>5, <3>5 DEF d, h, j, c, f
  <2>6. CASE ~running[m]
    <3> DEFINE p == <<d>> \o <<>>
    <3>1. p = <<d>>
      BY <2>3, ConcatEmptySeq
    <3>2. steps[m] = p \o <<f>>
      BY <2>2, <2>6
    <3>3. steps[m] = <<d>> \o <<f>>
      BY <3>1, <3>2
    <3>4. /\ steps[m] \in Seq(E) /\ Len(steps[m]) = Len(<<d>>) + Len(<<f>>)
          /\ \A i \in 1..Len(<<d>>) : steps[m][i] = <<d>>[i]
          /\ \A i \in 1..Len(<<f>>) : steps[m][Len(<<d>>) + i] = <<f>>[i]
      BY <2>3, <3>3, ConcatProperties
    <3>5. Len(<<d>>) = 1 /\ Len(<<f>>) = 1 /\ <<d>>[1] = d /\ <<f>>[1] = f
      OBVIOUS
    <3>6. Len(steps[m]) = 2 /\ steps[m][1] = d /\ steps[m][1 + 1] = f
      BY <3>4, <3>5
    <3> QED
      BY <2>4, <2>6, <3>4, <3>6 DEF d, f
  <2> QED
    BY <2>5, <2>6
<1>3. steps \in [Models -> Seq(E)]
  BY <1>2
<1> HIDE DEF E, steps, flat
<1>4. flat \in Seq(E)
  BY <1>3, UpwardsIsLaid DEF flat
<1>5. PICK at : Laid(flat, S, steps, at)
  BY <1>3, UpwardsIsLaid DEF flat
<1>6. Len(flat) \in Nat
  BY <1>4
<1>7. ASSUME NEW n \in 1..Len(flat)
      PROVE  \E m \in S :
                 \/ /\ running[m]
                    /\ \/ n = at[m] + 1 /\ flat[n] = Step("detach", m)
                       \/ n = at[m] + 2 /\ flat[n] = Step("halt", m)
                       \/ n = at[m] + 3 /\ flat[n] = Step("join", m)
                       \/ n = at[m] + 4 /\ flat[n] = Step("clear", m)
                       \/ n = at[m] + 5 /\ flat[n] = Step("free", m)
                 \/ /\ ~running[m]
                    /\ \/ n = at[m] + 1 /\ flat[n] = Step("detach", m)
                       \/ n = at[m] + 2 /\ flat[n] = Step("free", m)
  <2>1. PICK m \in S : \E k \in 1..Len(steps[m]) : n = at[m] + k /\ flat[n] = steps[m][k]
    BY <1>5 DEF Laid
  <2>2. PICK k \in 1..Len(steps[m]) : n = at[m] + k /\ flat[n] = steps[m][k]
    BY <2>1
  <2>3. CASE running[m]
    <3>1. k \in {1, 2, 3, 4, 5}
      <4>1. Len(steps[m]) = 5 /\ 1..5 = {1, 2, 3, 4, 5}
        BY <1>2, <2>3
      <4> QED
        BY <4>1
    <3> QED
      BY <1>2, <2>2, <2>3, <3>1
  <2>4. CASE ~running[m]
    <3>1. k \in {1, 2}
      <4>1. Len(steps[m]) = 2 /\ 1..2 = {1, 2}
        BY <1>2, <2>4
      <4> QED
        BY <4>1
    <3> QED
      BY <1>2, <2>2, <2>4, <3>1
  <2> QED
    BY <2>3, <2>4
<1>8. ASSUME NEW m \in S
      PROVE  /\ at[m] \in Nat /\ at[m] + 1 \in 1..Len(flat) /\ flat[at[m] + 1] = Step("detach", m)
             /\ running[m] =>
                  /\ at[m] + 2 \in 1..Len(flat) /\ at[m] + 3 \in 1..Len(flat)
                  /\ at[m] + 4 \in 1..Len(flat) /\ at[m] + 5 \in 1..Len(flat)
                  /\ flat[at[m] + 2] = Step("halt", m) /\ flat[at[m] + 3] = Step("join", m)
                  /\ flat[at[m] + 4] = Step("clear", m) /\ flat[at[m] + 5] = Step("free", m)
             /\ ~running[m] => at[m] + 2 \in 1..Len(flat) /\ flat[at[m] + 2] = Step("free", m)
  <2>1. \A k \in 1..Len(steps[m]) : at[m] + k \in 1..Len(flat) /\ flat[at[m] + k] = steps[m][k]
    BY <1>5 DEF Laid
  <2>2. at[m] \in Nat
    BY <1>5 DEF Laid
  <2>3. CASE running[m]
    <3>1. /\ 1 \in 1..Len(steps[m]) /\ 2 \in 1..Len(steps[m]) /\ 3 \in 1..Len(steps[m])
          /\ 4 \in 1..Len(steps[m]) /\ 5 \in 1..Len(steps[m])
      <4>1. Len(steps[m]) = 5 /\ 1..5 = {1, 2, 3, 4, 5}
        BY <1>2, <2>3
      <4> QED
        BY <4>1
    <3> QED
      BY <1>2, <2>1, <2>2, <2>3, <3>1
  <2>4. CASE ~running[m]
    <3>1. 1 \in 1..Len(steps[m]) /\ 2 \in 1..Len(steps[m])
      <4>1. Len(steps[m]) = 2 /\ 1..2 = {1, 2}
        BY <1>2, <2>4
      <4> QED
        BY <4>1
    <3> QED
      BY <1>2, <2>1, <2>2, <2>4, <3>1
  <2> QED
    BY <2>3, <2>4
<1>9. ASSUME NEW n \in 1..Len(flat), NEW s \in Senders, flat[n] = Step("halt", s)
      PROVE  /\ n + 1 \in 1..Len(flat) /\ flat[n + 1] = Step("join", s)
             /\ s \in Models => Behind(flat, n, Step("clear", s))
  <2>1. PICK m \in S : n = at[m] + 2 /\ running[m] /\ m = s
    <3>1. \A op, m : flat[n] = Step(op, m) => op = "halt" /\ m = s
      BY <1>9
    <3>2. PICK m \in S :
                 \/ /\ running[m]
                    /\ \/ flat[n] = Step("detach", m)
                       \/ n = at[m] + 2 /\ flat[n] = Step("halt", m)
                       \/ flat[n] = Step("join", m)
                       \/ flat[n] = Step("clear", m)
                       \/ flat[n] = Step("free", m)
                 \/ flat[n] = Step("detach", m)
                 \/ flat[n] = Step("free", m)
      BY <1>7
    <3> QED
      BY <3>1, <3>2
  <2>2. n + 1 = at[s] + 3 /\ at[s] + 4 \in (n + 1)..Len(flat)
    <3>1. at[s] \in Nat /\ at[s] + 4 \in 1..Len(flat) /\ n = at[s] + 2
      BY <1>8, <2>1
    <3> QED
      BY <1>6, <3>1
  <2> QED
    BY <1>8, <2>1, <2>2 DEF Behind
<1>10. ASSUME NEW n \in 1..Len(flat), NEW s PROVE flat[n] # Step("exit_mmf", s)
  BY <1>7
<1>11. ASSUME NEW n \in 1..Len(flat), NEW s \in Senders, flat[n] = Step("free", s)
       PROVE  /\ s \in gone \/ Before(flat, n, Step("join", s))
              /\ s \in idle \/ Before(flat, n, Step("halt", s))
              /\ Before(flat, n, Step("detach", s))
  <2>1. PICK m \in S : /\ flat[n] = Step("free", m)
                       /\ \/ running[m] /\ n = at[m] + 5
                          \/ ~running[m] /\ n = at[m] + 2
    <3>1. "free" # "detach" /\ "free" # "halt" /\ "free" # "join" /\ "free" # "clear"
      OBVIOUS
    <3> QED
      BY <1>7, <1>11, <3>1
  <2>2. at[s] \in Nat /\ s \in S /\ m = s
    BY <1>8, <1>11, <2>1
  <2>3. CASE running[s]
    <3>1. at[s] + 1 \in 1..(n - 1) /\ at[s] + 2 \in 1..(n - 1) /\ at[s] + 3 \in 1..(n - 1)
      BY <2>1, <2>2, <2>3
    <3> QED
      BY <1>8, <2>2, <2>3, <3>1 DEF Before
  <2>4. CASE ~running[s]
    <3>1. at[s] + 1 \in 1..(n - 1) /\ s \in Resting
      BY <2>1, <2>2, <2>4 DEF Resting
    <3> QED
      BY <1>8, <2>2, <3>1 DEF Before
  <2> QED
    BY <2>3, <2>4
<1>12. Orderly(flat, gone, idle, freed)
  BY <1>4, <1>9, <1>10, <1>11 DEF Orderly, E
<1>13. ASSUME NEW s \in Senders
       PROVE  /\ Has(flat, Step("free", s)) <=> s \in S
              /\ Has(flat, Step("halt", s)) <=> s \in S /\ running[s]
              /\ Has(flat, Step("join", s)) <=> s \in S /\ running[s]
  <2>1. ASSUME NEW n \in 1..Len(flat), flat[n] = Step("free", s) PROVE s \in S
    BY <1>7, <2>1
  <2>2. ASSUME NEW n \in 1..Len(flat), flat[n] = Step("halt", s) \/ flat[n] = Step("join", s)
        PROVE  s \in S /\ running[s]
    <3>1. PICK m \in S : running[m] /\ (flat[n] = Step("halt", m) \/ flat[n] = Step("join", m))
      BY <1>7, <2>2
    <3>2. m = s
      BY <2>2, <3>1
    <3> QED
      BY <3>1, <3>2
  <2>3. ASSUME s \in S PROVE Has(flat, Step("free", s))
    BY <1>8, <2>3 DEF Has
  <2>4. ASSUME s \in S, running[s] PROVE Has(flat, Step("halt", s)) /\ Has(flat, Step("join", s))
    BY <1>8, <2>4 DEF Has
  <2>5. Has(flat, Step("free", s)) => s \in S
    BY <2>1 DEF Has
  <2>6. Has(flat, Step("halt", s)) \/ Has(flat, Step("join", s)) => s \in S /\ running[s]
    BY <2>2 DEF Has
  <2> QED
    BY <2>3, <2>4, <2>5, <2>6
<1>14. Of(flat, "free") = S /\ Of(flat, "halt") = S \ Resting /\ Of(flat, "join") = S \ Resting
  BY <1>13 DEF Of, Resting
<1>15. Of(flat, "exit_mmf") = {}
  BY <1>10 DEF Of, Has
<1> QED
  BY <1>1, <1>12, <1>14, <1>15

\* Freeing models that nobody feeds any more, dependents first
LEMMA FreesAreOrderly ==
  ASSUME NEW S \in SUBSET Models, NEW gone, NEW idle, NEW freed, S \subseteq gone, S \subseteq idle,
         \A m \in S : FedBy[m] \in gone /\ (FedBy[m] \in S \/ FedBy[m] \in freed)
  PROVE  LET frees == BottomUp(S, LAMBDA m : <<Step("free", m)>>)
         IN  /\ Orderly(frees, gone, idle, freed)
             /\ Of(frees, "free") = S
             /\ \A i \in 1..Len(frees) : frees[i].op = "free"
<1> USE Nodes, StepsDiffer
<1> DEFINE E == [op : TearingDown, of : Senders]
           steps == [m \in Models |-> <<Step("free", m)>>]
           flat == Upwards(S, steps)
<1>1. flat = BottomUp(S, LAMBDA m : <<Step("free", m)>>)
  <2>1. \A i \in 1..Len(TopDown) : steps[Reverse(TopDown)[i]] = <<Step("free", Reverse(TopDown)[i])>>
    BY ListsOfModels
  <2> HIDE DEF steps
  <2>2. [i \in 1..Len(TopDown) |-> IF Reverse(TopDown)[i] \in S THEN steps[Reverse(TopDown)[i]] ELSE <<>>]
        = [i \in 1..Len(TopDown) |-> IF Reverse(TopDown)[i] \in S THEN <<Step("free", Reverse(TopDown)[i])>> ELSE <<>>]
    BY <2>1
  <2> QED
    BY <2>2 DEF Upwards, Rows, BottomUp
<1>2. ASSUME NEW m \in Models
      PROVE  /\ steps[m] \in Seq(E) /\ Len(steps[m]) = 1 /\ 1..1 = {1} /\ steps[m][1] = Step("free", m)
  <2>1. Step("free", m) \in E
    BY DEF Step, TearingDown
  <2>2. steps[m] = <<Step("free", m)>>
    OBVIOUS
  <2> HIDE DEF E, steps
  <2> QED
    BY <2>1, <2>2
<1>3. steps \in [Models -> Seq(E)]
  BY <1>2
<1> HIDE DEF E, steps, flat
<1>4. flat \in Seq(E)
  BY <1>3, UpwardsIsLaid DEF flat
<1>5. PICK at : /\ Laid(flat, S, steps, at)
                /\ \A m \in S : FedBy[m] \in S => at[m] + Len(steps[m]) <= at[FedBy[m]]
  BY <1>3, UpwardsIsLaid DEF flat
<1>6. Len(flat) \in Nat
  BY <1>4
<1>7. ASSUME NEW n \in 1..Len(flat)
      PROVE  \E m \in S : n = at[m] + 1 /\ flat[n] = Step("free", m)
  <2>1. PICK m \in S : \E k \in 1..Len(steps[m]) : n = at[m] + k /\ flat[n] = steps[m][k]
    BY <1>5 DEF Laid
  <2>2. PICK k \in 1..Len(steps[m]) : n = at[m] + k /\ flat[n] = steps[m][k]
    BY <2>1
  <2>3. k = 1
    <3>1. Len(steps[m]) = 1 /\ 1..1 = {1}
      BY <1>2
    <3> QED
      BY <3>1
  <2> QED
    BY <1>2, <2>2, <2>3
<1>8. ASSUME NEW m \in S
      PROVE  at[m] \in Nat /\ at[m] + 1 \in 1..Len(flat) /\ flat[at[m] + 1] = Step("free", m)
  <2>1. \A k \in 1..Len(steps[m]) : at[m] + k \in 1..Len(flat) /\ flat[at[m] + k] = steps[m][k]
    BY <1>5 DEF Laid
  <2>2. at[m] \in Nat
    BY <1>5 DEF Laid
  <2>3. 1 \in 1..Len(steps[m])
    BY <1>2
  <2> QED
    BY <1>2, <2>1, <2>2, <2>3
<1>9. ASSUME NEW n \in 1..Len(flat), NEW s PROVE flat[n] # Step("halt", s) /\ flat[n] # Step("exit_mmf", s)
  BY <1>7
<1>10. ASSUME NEW n \in 1..Len(flat), NEW s \in Senders, flat[n] = Step("free", s)
       PROVE  /\ s \in gone /\ s \in idle
              /\ FedBy[s] \in gone /\ (FedBy[s] \in freed \/ Behind(flat, n, Step("free", FedBy[s])))
  <2>1. s \in S /\ n = at[s] + 1
    BY <1>7, <1>10
  <2>2. CASE FedBy[s] \in S
    <3>1. at[s] + 1 <= at[FedBy[s]] /\ at[FedBy[s]] \in Nat
      BY <1>2, <1>5, <1>8, <2>1, <2>2
    <3>2. at[FedBy[s]] + 1 \in (n + 1)..Len(flat)
      BY <1>6, <1>8, <2>1, <2>2, <3>1
    <3> QED
      BY <1>8, <2>1, <2>2, <3>2 DEF Behind
  <2> QED
    BY <2>1, <2>2
<1>11. Orderly(flat, gone, idle, freed)
  BY <1>4, <1>9, <1>10 DEF Orderly, E
<1>12. \A s \in Senders : Has(flat, Step("free", s)) <=> s \in S
  BY <1>7, <1>8 DEF Has
<1>13. Of(flat, "free") = S
  BY <1>12 DEF Of
<1>14. \A n \in 1..Len(flat) : flat[n].op = "free"
  BY <1>7
<1> QED
  BY <1>1, <1>11, <1>13, <1>14

\* The last steps of destroying the camera
LEMMA EndsAreOrderly ==
  ASSUME NEW gone, NEW idle, NEW freed, Camera \in gone, Camera \in idle
  PROVE  /\ Orderly(<<Step("free", Camera)>>, gone, idle, freed)
         /\ Of(<<Step("free", Camera)>>, "free") = {Camera}
         /\ Senders \subseteq gone => Orderly(<<Step("exit_mmf", Camera)>>, gone, idle, freed)
         /\ Senders \subseteq gone =>
                Orderly(<<Step("exit_mmf", Camera), Step("free", Camera)>>, gone, idle, freed)
         /\ LET ends == <<Step("exit_mmf", Camera), Step("free", Camera)>>
            IN  Of(ends, "free") = {Camera} /\ Of(ends, "halt") = {} /\ Of(ends, "join") = {}
         /\ Of(<<Step("free", Camera)>>, "halt") = {} /\ Of(<<Step("free", Camera)>>, "join") = {}
         /\ Of(<<Step("exit_mmf", Camera)>>, "free") = {}
         /\ Of(<<Step("exit_mmf", Camera)>>, "halt") = {} /\ Of(<<Step("exit_mmf", Camera)>>, "join") = {}
<1> USE Nodes, StepsDiffer
<1>1. ASSUME NEW e PROVE /\ Len(<<e>>) = 1 /\ <<e>>[1] = e /\ 1..1 = {1}
                         /\ \A x : Has(<<e>>, x) <=> x = e
  BY DEF Has
<1>2. ASSUME NEW op \in TearingDown PROVE <<Step(op, Camera)>> \in Seq([op : TearingDown, of : Senders])
  <2> DEFINE E == [op : TearingDown, of : Senders]
             e == Step(op, Camera)
  <2>1. e \in E
    BY DEF Step
  <2> HIDE DEF E, e
  <2>2. <<e>> \in Seq(E)
    BY <2>1
  <2> QED
    BY <2>2 DEF E, e
<1>3. /\ <<Step("free", Camera)>> \in Seq([op : TearingDown, of : Senders])
      /\ <<Step("exit_mmf", Camera)>> \in Seq([op : TearingDown, of : Senders])
  BY <1>2 DEF TearingDown
<1>4. Orderly(<<Step("free", Camera)>>, gone, idle, freed)
  BY <1>1, <1>3 DEF Orderly
<1>5. Senders \subseteq gone => Orderly(<<Step("exit_mmf", Camera)>>, gone, idle, freed)
  BY <1>1, <1>3 DEF Orderly
<1>6. /\ Of(<<Step("free", Camera)>>, "free") = {Camera}
      /\ Of(<<Step("free", Camera)>>, "halt") = {} /\ Of(<<Step("free", Camera)>>, "join") = {}
  BY <1>1 DEF Of
<1>7. /\ Of(<<Step("exit_mmf", Camera)>>, "free") = {}
      /\ Of(<<Step("exit_mmf", Camera)>>, "halt") = {} /\ Of(<<Step("exit_mmf", Camera)>>, "join") = {}
  BY <1>1 DEF Of
<1> DEFINE ends == <<Step("exit_mmf", Camera), Step("free", Camera)>>
<1>8. /\ Len(ends) = 2 /\ ends[1] = Step("exit_mmf", Camera) /\ ends[2] = Step("free", Camera) /\ 1..2 = {1, 2}
      /\ ends \in Seq([op : TearingDown, of : Senders])
  <2> DEFINE E == [op : TearingDown, of : Senders]
             x == Step("exit_mmf", Camera)
             f == Step("free", Camera)
  <2>1. x \in E /\ f \in E
    BY DEF Step, TearingDown
  <2> HIDE DEF E, x, f
  <2>2. <<x, f>> \in Seq(E) /\ Len(<<x, f>>) = 2 /\ <<x, f>>[1] = x /\ <<x, f>>[2] = f /\ 1..2 = {1, 2}
    BY <2>1
  <2> QED
    BY <2>2 DEF E, x, f
<1> HIDE DEF ends
<1>9. Senders \subseteq gone => Orderly(ends, gone, idle, freed)
  BY <1>8 DEF Orderly
<1>10. \A x : Has(ends, x) <=> x = Step("exit_mmf", Camera) \/ x = Step("free", Camera)
  BY <1>8 DEF Has
<1>11. Of(ends, "free") = {Camera} /\ Of(ends, "halt") = {} /\ Of(ends, "join") = {}
  BY <1>10 DEF Of
<1> QED
  BY <1>4, <1>5, <1>6, <1>7, <1>9, <1>11 DEF ends

\* The commands that stop and destroy
LEMMA TeardownsKeepTheInvariant ==
  ASSUME IInv,
         \/ \E m \in Models : StopModel(m) \/ DestroyModel(m)
         \/ StopAll \/ DestroyCamera \/ DestroyAll
  PROVE  IInv'
<1> USE Nodes
<1>1. agenda = <<>>
  BY DEF StopModel, DestroyModel, StopAll, DestroyCamera, DestroyAll, Issue
<1>2. running \in [Senders -> BOOLEAN] /\ alive \in SUBSET Models
  BY DEF IInv, VarTypes
<1>3. /\ Resting \subseteq Off
      /\ \A m \in Models : running[m] => m \in alive /\ running[FedBy[m]]
      /\ \A m \in alive : FedBy[m] = Camera \/ FedBy[m] \in alive
      /\ \A m \in Models : m \notin alive => m \in Off
  BY <1>1, Quiet
<1>4. \A m \in Models : running[m] <=> m \notin Resting
  BY DEF Resting
<1>5. ASSUME NEW m \in Models, StopModel(m) PROVE IInv'
  <2> DEFINE S == Below({m}) \cap alive
             a == BottomUp(S, StopSteps)
  <2>1. Issue("stop", a) /\ S \in SUBSET Models
    BY <1>2, <1>5 DEF StopModel
  <2>2. \A x \in Models : FedBy[x] \in Below({m}) => x \in Below({m})
    BY BelowIs
  <2>3. \A x \in Models : running[x] /\ FedBy[x] \in S => x \in S
    BY <1>3, <2>2
  <2> HIDE DEF S
  <2>4. Orderly(a, Off, Resting, {}) /\ Of(a, "free") = {} /\ Of(a, "halt") = S \ Resting
    BY <1>2, <2>1, StopsAreOrderly
  <2> HIDE DEF a
  <2>5. \A x \in Models : running[x] /\ FedBy[x] \in Of(a, "halt") => x \in Of(a, "halt")
    BY <1>4, <2>3, <2>4
  <2>6. \A x \in alive : FedBy[x] # Camera /\ FedBy[x] \in Of(a, "free") => x \in Of(a, "free")
    BY <2>4
  <2> QED
    BY <2>1, <2>4, <2>5, <2>6, TeardownIsSafe
<1>6. ASSUME NEW m \in Models, DestroyModel(m) PROVE IInv'
  <2> DEFINE S == Below({m}) \cap alive
             a == BottomUp(S, DestroySteps)
  <2>1. Issue("destroy", a) /\ S \in SUBSET Models
    BY <1>2, <1>6 DEF DestroyModel
  <2>2. \A x \in Models : FedBy[x] \in Below({m}) => x \in Below({m})
    BY BelowIs
  <2>3. /\ \A x \in Models : running[x] /\ FedBy[x] \in S => x \in S
        /\ \A x \in alive : FedBy[x] \in S => x \in S
    BY <1>2, <1>3, <2>2
  <2> HIDE DEF S
  <2>4. Orderly(a, Off, Resting, {}) /\ Of(a, "free") = S /\ Of(a, "halt") = S \ Resting
    BY <1>2, <1>3, <2>1, DestroysAreOrderly
  <2> HIDE DEF a
  <2>5. \A x \in Models : running[x] /\ FedBy[x] \in Of(a, "halt") => x \in Of(a, "halt")
    BY <1>4, <2>3, <2>4
  <2>6. \A x \in alive : FedBy[x] # Camera /\ FedBy[x] \in Of(a, "free") => x \in Of(a, "free")
    BY <2>3, <2>4
  <2> QED
    BY <2>1, <2>4, <2>5, <2>6, TeardownIsSafe
\* The camera, then all models
<1>7. ASSUME NEW freed
      PROVE  LET a == StopCamera \o BottomUp(alive, StopSteps)
             IN  /\ Orderly(a, Off, Resting, freed) /\ Of(a, "free") = {}
                 /\ Of(a, "halt") = ({Camera} \cup alive) \ Resting
                 /\ Of(a, "join") = ({Camera} \cup alive) \ Resting
  <2> DEFINE c == StopCamera
             b == BottomUp(alive, StopSteps)
  <2>1. /\ Orderly(c, Off, Resting, freed \cup Of(b, "free")) /\ Of(c, "free") = {}
        /\ Of(c, "halt") = {Camera} \ Resting /\ Of(c, "join") = {Camera} \ Resting
    BY <1>2, StopCameraIsOrderly
  <2>2. /\ Orderly(b, Off \cup Of(c, "join"), Resting \cup Of(c, "halt"), freed) /\ Of(b, "free") = {}
        /\ Of(b, "halt") = alive \ Resting /\ Of(b, "join") = alive \ Resting
    BY <1>2, StopsAreOrderly
  <2> HIDE DEF c, b
  <2>3. Orderly(c \o b, Off, Resting, freed) /\ \A op : Of(c \o b, op) = Of(c, op) \cup Of(b, op)
    <3>1. Orderly(c, Off, Resting, freed \cup Of(b, "free"))
      BY <2>1
    <3>2. Orderly(b, Off \cup Of(c, "join"), Resting \cup Of(c, "halt"), freed)
      BY <2>2
    <3> QED
      BY ONLY <3>1, <3>2, JoinedTeardowns
  <2>4. /\ Of(c \o b, "free") = {}
        /\ Of(c \o b, "halt") = ({Camera} \cup alive) \ Resting
        /\ Of(c \o b, "join") = ({Camera} \cup alive) \ Resting
    BY <2>1, <2>2, <2>3
  <2> QED
    BY <2>3, <2>4 DEF c, b
<1>8. ASSUME StopAll PROVE IInv'
  <2> DEFINE a == StopCamera \o BottomUp(alive, StopSteps)
  <2>1. Issue("stop", a)
    BY <1>8 DEF StopAll
  <2>2. Orderly(a, Off, Resting, {}) /\ Of(a, "free") = {} /\ Of(a, "halt") = ({Camera} \cup alive) \ Resting
    BY <1>7
  <2> HIDE DEF a
  <2>3. \A x \in Models : running[x] /\ FedBy[x] \in Of(a, "halt") => x \in Of(a, "halt")
    BY <1>3, <1>4, <2>2
  <2>4. \A x \in alive : FedBy[x] # Camera /\ FedBy[x] \in Of(a, "free") => x \in Of(a, "free")
    BY <2>2
  <2> QED
    BY <2>1, <2>2, <2>3, <2>4, TeardownIsSafe
<1>9. \A s \in Senders : s \in Off \/ (s \in {Camera} \cup alive /\ s \notin Resting)
  BY <1>3
<1>10. Camera \in Resting \/ Camera \notin Resting
  OBVIOUS
<1>11. ASSUME DestroyCamera PROVE IInv'
  <2> DEFINE d == BottomUp(alive, DestroySteps)
             c == StopCamera
             ends == <<Step("exit_mmf", Camera), Step("free", Camera)>>
             a == d \o c \o ends
  <2>1. Issue("destroy", a)
    BY <1>11 DEF DestroyCamera
  <2>2. ASSUME NEW freed
        PROVE  /\ Orderly(d, Off, Resting, freed) /\ Of(d, "free") = alive
               /\ Of(d, "halt") = alive \ Resting /\ Of(d, "join") = alive \ Resting
    BY <1>2, <1>3, DestroysAreOrderly
  <2>3. ASSUME NEW gone, NEW idle, NEW freed
        PROVE  /\ Orderly(c, gone, idle, freed) /\ Of(c, "free") = {}
               /\ Of(c, "halt") = {Camera} \ Resting /\ Of(c, "join") = {Camera} \ Resting
    BY <1>2, StopCameraIsOrderly
  <2>4. ASSUME NEW gone, NEW idle, NEW freed, Senders \subseteq gone, Camera \in idle
        PROVE  /\ Orderly(ends, gone, idle, freed) /\ Of(ends, "free") = {Camera} /\ Of(ends, "halt") = {}
    BY <2>4, EndsAreOrderly
  <2> HIDE DEF d, c, ends
  <2>5. ASSUME NEW freed
        PROVE  Orderly(d \o c, Off, Resting, freed) /\ \A op : Of(d \o c, op) = Of(d, op) \cup Of(c, op)
    <3>1. Orderly(d, Off, Resting, freed \cup Of(c, "free"))
      BY <2>2
    <3>2. Orderly(c, Off \cup Of(d, "join"), Resting \cup Of(d, "halt"), freed)
      BY <2>3
    <3> QED
      BY <3>1, <3>2, JoinedTeardowns
  <2>6. /\ Of(d \o c, "free") = alive
        /\ Of(d \o c, "halt") = ({Camera} \cup alive) \ Resting
        /\ Of(d \o c, "join") = ({Camera} \cup alive) \ Resting
    BY <2>2, <2>3, <2>5
  <2>7. Senders \subseteq Off \cup Of(d \o c, "join") /\ Camera \in Resting \cup Of(d \o c, "halt")
    BY <1>9, <2>6
  <2>8. /\ Orderly(ends, Off \cup Of(d \o c, "join"), Resting \cup Of(d \o c, "halt"), {})
        /\ Of(ends, "free") = {Camera} /\ Of(ends, "halt") = {}
    BY <2>4, <2>7
  <2>9. Orderly(d \o c, Off, Resting, {} \cup Of(ends, "free"))
    BY <2>5
  <2>10. /\ Orderly(a, Off, Resting, {})
         /\ \A op : Of(a, op) = Of(d \o c, op) \cup Of(ends, op)
    <3>1. Orderly(ends, Off \cup Of(d \o c, "join"), Resting \cup Of(d \o c, "halt"), {})
      BY <2>8
    <3> DEFINE front == d \o c
    <3>2. /\ Orderly(front, Off, Resting, {} \cup Of(ends, "free"))
          /\ Orderly(ends, Off \cup Of(front, "join"), Resting \cup Of(front, "halt"), {})
      BY <2>9, <3>1
    <3> HIDE DEF front
    <3>3. /\ Orderly(front \o ends, Off, Resting, {})
          /\ \A op : Of(front \o ends, op) = Of(front, op) \cup Of(ends, op)
      BY ONLY <3>2, JoinedTeardowns
    <3> QED
      BY <3>3 DEF front
  <2>11. Of(a, "free") = alive \cup {Camera} /\ Of(a, "halt") = ({Camera} \cup alive) \ Resting
    BY <2>6, <2>8, <2>10
  <2> HIDE DEF a
  <2>12. \A x \in Models : running[x] /\ FedBy[x] \in Of(a, "halt") => x \in Of(a, "halt")
    BY <1>3, <1>4, <2>11
  <2>13. \A x \in alive : FedBy[x] # Camera /\ FedBy[x] \in Of(a, "free") => x \in Of(a, "free")
    BY <2>11
  <2> QED
    BY <2>1, <2>10, <2>12, <2>13, TeardownIsSafe
<1>12. ASSUME DestroyAll PROVE IInv'
  <2> DEFINE s == StopCamera \o BottomUp(alive, StopSteps)
             x == <<Step("exit_mmf", Camera)>>
             f == BottomUp(alive, LAMBDA m : <<Step("free", m)>>)
             e == <<Step("free", Camera)>>
             a == s \o x \o f \o e
  <2>1. Issue("destroy_all", a)
    BY <1>12 DEF DestroyAll
  <2>2. ASSUME NEW freed
        PROVE  /\ Orderly(s, Off, Resting, freed) /\ Of(s, "free") = {}
               /\ Of(s, "halt") = ({Camera} \cup alive) \ Resting /\ Of(s, "join") = ({Camera} \cup alive) \ Resting
    BY <1>7
  <2>3. ASSUME NEW gone, NEW idle, NEW freed, Senders \subseteq gone, Camera \in idle
        PROVE  /\ Orderly(x, gone, idle, freed)
               /\ Of(x, "free") = {} /\ Of(x, "halt") = {} /\ Of(x, "join") = {}
               /\ Orderly(e, gone, idle, freed) /\ Of(e, "free") = {Camera} /\ Of(e, "halt") = {}
    BY <2>3, EndsAreOrderly
  <2>4. ASSUME NEW gone, NEW idle, NEW freed, Senders \subseteq gone, alive \subseteq idle, Camera \in freed
        PROVE  Orderly(f, gone, idle, freed) /\ Of(f, "free") = alive
    <3>1. \A m \in alive : FedBy[m] \in gone /\ (FedBy[m] \in alive \/ FedBy[m] \in freed)
      BY <1>2, <1>3, <2>4
    <3>2. alive \subseteq gone
      BY <1>2, <2>4
    <3> QED
      BY <1>2, <2>4, <3>1, <3>2, FreesAreOrderly
  <2> HIDE DEF s, x, f, e
  <2>5. ASSUME NEW gone, NEW idle, Off \cup Of(s, "join") \subseteq gone, Resting \cup Of(s, "halt") \subseteq idle
        PROVE  Senders \subseteq gone /\ Camera \in idle /\ alive \subseteq idle
    <3>1. /\ Of(s, "halt") = ({Camera} \cup alive) \ Resting
          /\ Of(s, "join") = ({Camera} \cup alive) \ Resting
      BY <2>2
    <3> QED
      BY <1>9, <2>5, <3>1
  <2>6. ASSUME NEW freed
        PROVE  Orderly(s \o x, Off, Resting, freed) /\ \A op : Of(s \o x, op) = Of(s, op) \cup Of(x, op)
    <3>1. Orderly(s, Off, Resting, freed \cup Of(x, "free"))
      BY <2>2
    <3>2. Senders \subseteq Off \cup Of(s, "join") /\ Camera \in Resting \cup Of(s, "halt")
      BY <2>5
    <3>3. Orderly(x, Off \cup Of(s, "join"), Resting \cup Of(s, "halt"), freed)
      BY <2>3, <3>2
    <3> QED
      BY <3>1, <3>3, JoinedTeardowns
  <2>7. ASSUME NEW freed, Camera \in freed
        PROVE  /\ Orderly(s \o x \o f, Off, Resting, freed) /\ Of(f, "free") = alive
               /\ \A op : Of(s \o x \o f, op) = Of(s \o x, op) \cup Of(f, op)
    <3>1. Orderly(s \o x, Off, Resting, freed \cup Of(f, "free"))
      BY <2>6
    <3>2. Off \cup Of(s, "join") \subseteq Off \cup Of(s \o x, "join")
          /\ Resting \cup Of(s, "halt") \subseteq Resting \cup Of(s \o x, "halt")
      BY <2>6
    <3>3. Senders \subseteq Off \cup Of(s \o x, "join") /\ alive \subseteq Resting \cup Of(s \o x, "halt")
      BY <2>5, <3>2
    <3>4. Orderly(f, Off \cup Of(s \o x, "join"), Resting \cup Of(s \o x, "halt"), freed) /\ Of(f, "free") = alive
      BY <2>4, <2>7, <3>3
    <3> QED
      BY <3>1, <3>4, JoinedTeardowns
  <2>8. \A op : Of(s \o x, op) = Of(s, op) \cup Of(x, op)
    BY <2>6
  <2>9. \A op : Of(s \o x \o f, op) = Of(s \o x, op) \cup Of(f, op)
    BY <2>7
  <2>10. /\ Senders \subseteq Off \cup Of(s \o x \o f, "join")
         /\ Camera \in Resting \cup Of(s \o x \o f, "halt")
    <3>1. Off \cup Of(s, "join") \subseteq Off \cup Of(s \o x \o f, "join")
          /\ Resting \cup Of(s, "halt") \subseteq Resting \cup Of(s \o x \o f, "halt")
      BY <2>8, <2>9
    <3> QED
      BY <2>5, <3>1
  <2>11. /\ Orderly(e, Off \cup Of(s \o x \o f, "join"), Resting \cup Of(s \o x \o f, "halt"), {})
         /\ Of(e, "free") = {Camera}
    BY <2>3, <2>10
  <2>12. Orderly(s \o x \o f, Off, Resting, {} \cup Of(e, "free"))
    BY <2>7, <2>11
  <2>13. /\ Orderly(a, Off, Resting, {})
         /\ \A op : Of(a, op) = Of(s \o x \o f, op) \cup Of(e, op)
    BY <2>11, <2>12, JoinedTeardowns
  <2>14. alive \subseteq Of(a, "free") /\ ({Camera} \cup alive) \ Resting \subseteq Of(a, "halt")
    <3>1. Of(f, "free") = alive
      <4>1. Camera \in {Camera}
        OBVIOUS
      <4> QED
        BY <2>7, <4>1
    <3>2. Of(s, "halt") = ({Camera} \cup alive) \ Resting
      BY <2>2
    <3>3. Of(f, "free") \subseteq Of(a, "free") /\ Of(s, "halt") \subseteq Of(a, "halt")
      BY <2>8, <2>9, <2>13
    <3> QED
      BY <3>1, <3>2, <3>3
  <2> HIDE DEF a
  <2>15. \A m \in Models : running[m] /\ FedBy[m] \in Of(a, "halt") => m \in Of(a, "halt")
    BY <1>3, <1>4, <2>14
  <2>16. \A m \in alive : FedBy[m] # Camera /\ FedBy[m] \in Of(a, "free") => m \in Of(a, "free")
    BY <2>14
  <2> QED
    BY <2>1, <2>13, <2>15, <2>16, TeardownIsSafe
<1> QED
  BY <1>5, <1>6, <1>8, <1>11, <1>12

\* Nobody is started twice by the steps a.
Once(a) == \A i, j \in 1..Len(a), s \in Senders : a[i] = Step("spawn", s) /\ a[j] = Step("spawn", s) => i = j

\* Starting the models of S, or opening their inboxes only
LEMMA StartsAre ==
  ASSUME NEW S \in SUBSET Models
  PROVE  LET a == Downwards(S, StartSteps)
         IN  /\ a \in Seq([op : Building, of : Senders]) /\ Once(a)
             /\ \A s \in Senders : Has(a, Step("spawn", s)) => s \in S
             /\ S \subseteq Of(a, "spawn") /\ \A s : ~Has(a, Step("attach", s))
             /\ \A s : (Has(a, Step("open", s)) => s \in S) /\ ~Has(a, Step("init_mmf", s))
<1> USE Nodes, StepsDiffer
<1> DEFINE E == [op : Building, of : Senders]
           steps == [m \in Models |-> StartSteps(m)]
           flat == Rows(Len(TopDown), TopDown, S, steps)
<1>1. flat = Downwards(S, StartSteps)
  <2>1. \A i \in 1..Len(TopDown) : steps[TopDown[i]] = StartSteps(TopDown[i])
    BY ListsOfModels
  <2> HIDE DEF steps
  <2>2. [i \in 1..Len(TopDown) |-> IF TopDown[i] \in S THEN steps[TopDown[i]] ELSE <<>>]
        = [i \in 1..Len(TopDown) |-> IF TopDown[i] \in S THEN StartSteps(TopDown[i]) ELSE <<>>]
    BY <2>1
  <2> QED
    BY <2>2 DEF Rows, Downwards
<1>2. ASSUME NEW m \in Models
      PROVE  /\ steps[m] \in Seq(E) /\ Len(steps[m]) = 2 /\ 1..2 = {1, 2}
             /\ steps[m][1] = Step("open", m) /\ steps[m][2] = Step("spawn", m)
  <2>1. Step("open", m) \in E /\ Step("spawn", m) \in E
    BY DEF Step, Building
  <2>2. steps[m] = <<Step("open", m), Step("spawn", m)>>
    BY DEF StartSteps
  <2> HIDE DEF E, steps
  <2> QED
    BY <2>1, <2>2
<1>3. steps \in [Models -> Seq(E)]
  BY <1>2
<1> HIDE DEF E, steps
<1>4. flat \in Seq(E) /\ \E at : Laid(flat, S, steps, at)
  BY <1>3, DownwardsIsLaid
<1> HIDE DEF flat
<1>5. PICK at : Laid(flat, S, steps, at)
  BY <1>4
<1>6. ASSUME NEW n \in 1..Len(flat)
      PROVE  \E m \in S : \/ n = at[m] + 1 /\ flat[n] = Step("open", m)
                          \/ n = at[m] + 2 /\ flat[n] = Step("spawn", m)
  <2>1. PICK m \in S : \E k \in 1..Len(steps[m]) : n = at[m] + k /\ flat[n] = steps[m][k]
    BY <1>5 DEF Laid
  <2>2. PICK k \in 1..Len(steps[m]) : n = at[m] + k /\ flat[n] = steps[m][k]
    BY <2>1
  <2>3. k \in {1, 2}
    <3>1. Len(steps[m]) = 2 /\ 1..2 = {1, 2}
      BY <1>2
    <3> QED
      BY <3>1
  <2> QED
    BY <1>2, <2>2, <2>3
<1>7. ASSUME NEW m \in S PROVE Has(flat, Step("spawn", m))
  <2>1. 2 \in 1..Len(steps[m])
    <3>1. Len(steps[m]) = 2
      BY <1>2
    <3> QED
      BY <3>1
  <2>2. at[m] + 2 \in 1..Len(flat) /\ flat[at[m] + 2] = steps[m][2]
    BY <1>5, <2>1 DEF Laid
  <2> QED
    BY <1>2, <2>2 DEF Has
<1>8. ASSUME NEW n \in 1..Len(flat), NEW s, flat[n] = Step("spawn", s) PROVE s \in S /\ n = at[s] + 2
  <2>1. PICK m \in S : \/ n = at[m] + 1 /\ flat[n] = Step("open", m)
                       \/ n = at[m] + 2 /\ flat[n] = Step("spawn", m)
    BY <1>6
  <2>2. m = s /\ n = at[m] + 2
    BY <1>8, <2>1
  <2> QED
    BY <2>1, <2>2
<1>9. Once(flat)
  BY <1>8 DEF Once
<1>10. \A s \in Senders : Has(flat, Step("spawn", s)) => s \in S
  BY <1>8 DEF Has
<1>11. \A s : ~Has(flat, Step("attach", s))
  BY <1>6 DEF Has
<1>12. S \subseteq Of(flat, "spawn")
  BY <1>7 DEF Of
<1>13. \A s : (Has(flat, Step("open", s)) => s \in S) /\ ~Has(flat, Step("init_mmf", s))
  BY <1>6 DEF Has
<1> QED
  BY <1>1, <1>4, <1>9, <1>10, <1>11, <1>12, <1>13 DEF E

\* What the models that fail to start have done.
LEMMA OpensAre ==
  ASSUME NEW S \in SUBSET Models
  PROVE  LET a == Downwards(S, LAMBDA m : <<Step("open", m)>>)
         IN  /\ a \in Seq([op : Building, of : Senders])
             /\ \A s : ~Has(a, Step("spawn", s)) /\ ~Has(a, Step("attach", s))
             /\ \A s : (Has(a, Step("open", s)) => s \in S) /\ ~Has(a, Step("init_mmf", s))
<1> USE Nodes, StepsDiffer
<1> DEFINE E == [op : Building, of : Senders]
           steps == [m \in Models |-> <<Step("open", m)>>]
           flat == Rows(Len(TopDown), TopDown, S, steps)
<1>1. flat = Downwards(S, LAMBDA m : <<Step("open", m)>>)
  <2>1. \A i \in 1..Len(TopDown) : steps[TopDown[i]] = <<Step("open", TopDown[i])>>
    BY ListsOfModels
  <2> HIDE DEF steps
  <2>2. [i \in 1..Len(TopDown) |-> IF TopDown[i] \in S THEN steps[TopDown[i]] ELSE <<>>]
        = [i \in 1..Len(TopDown) |-> IF TopDown[i] \in S THEN <<Step("open", TopDown[i])>> ELSE <<>>]
    BY <2>1
  <2> QED
    BY <2>2 DEF Rows, Downwards
<1>2. ASSUME NEW m \in Models
      PROVE  steps[m] \in Seq(E) /\ Len(steps[m]) = 1 /\ 1..1 = {1} /\ steps[m][1] = Step("open", m)
  <2>1. Step("open", m) \in E
    BY DEF Step, Building
  <2>2. steps[m] = <<Step("open", m)>>
    OBVIOUS
  <2> HIDE DEF E, steps
  <2> QED
    BY <2>1, <2>2
<1>3. steps \in [Models -> Seq(E)]
  BY <1>2
<1> HIDE DEF E, steps
<1>4. flat \in Seq(E) /\ \E at : Laid(flat, S, steps, at)
  BY <1>3, DownwardsIsLaid
<1> HIDE DEF flat
<1>5. PICK at : Laid(flat, S, steps, at)
  BY <1>4
<1>6. ASSUME NEW n \in 1..Len(flat) PROVE \E m \in S : flat[n] = Step("open", m)
  <2>1. PICK m \in S : \E k \in 1..Len(steps[m]) : n = at[m] + k /\ flat[n] = steps[m][k]
    BY <1>5 DEF Laid
  <2>2. PICK k \in 1..Len(steps[m]) : n = at[m] + k /\ flat[n] = steps[m][k]
    BY <2>1
  <2>3. k = 1
    <3>1. Len(steps[m]) = 1 /\ 1..1 = {1}
      BY <1>2
    <3> QED
      BY <3>1
  <2> QED
    BY <1>2, <2>2, <2>3
<1>7. \A s : ~Has(flat, Step("spawn", s)) /\ ~Has(flat, Step("attach", s))
  BY <1>6 DEF Has
<1>8. \A s : (Has(flat, Step("open", s)) => s \in S) /\ ~Has(flat, Step("init_mmf", s))
  BY <1>6 DEF Has
<1> QED
  BY <1>1, <1>4, <1>7, <1>8 DEF E

\* The start cascade: those of S that are not below a failure start.
LEMMA CascadeIs ==
  ASSUME NEW S \in SUBSET Models, NEW failing \in SUBSET Models
  PROVE  /\ Cascade(S, failing) \in Seq([op : Building, of : Senders]) /\ Once(Cascade(S, failing))
         /\ \A s \in Senders : Has(Cascade(S, failing), Step("spawn", s)) <=> s \in S \ Below(failing)
         /\ \A s : ~Has(Cascade(S, failing), Step("attach", s)) /\ ~Has(Cascade(S, failing), Step("init_mmf", s))
         /\ \A s : Has(Cascade(S, failing), Step("open", s)) => s \in S \ Below(failing) \/ s \in failing
<1> DEFINE E == [op : Building, of : Senders]
           R == S \ Below(failing)
           a == Downwards(R, StartSteps)
           b == Downwards(failing \cap S, LAMBDA m : <<Step("open", m)>>)
<1>1. /\ a \in Seq(E) /\ Once(a)
      /\ \A s \in Senders : Has(a, Step("spawn", s)) => s \in R
      /\ R \subseteq Of(a, "spawn") /\ \A s : ~Has(a, Step("attach", s))
      /\ \A s : (Has(a, Step("open", s)) => s \in R) /\ ~Has(a, Step("init_mmf", s))
  <2>1. R \in SUBSET Models
    OBVIOUS
  <2> HIDE DEF R
  <2> QED
    BY <2>1, StartsAre
<1>2. /\ b \in Seq(E)
      /\ \A s : ~Has(b, Step("spawn", s)) /\ ~Has(b, Step("attach", s))
      /\ \A s : (Has(b, Step("open", s)) => s \in failing) /\ ~Has(b, Step("init_mmf", s))
  <2> DEFINE T == failing \cap S
  <2>1. T \in SUBSET Models
    OBVIOUS
  <2> HIDE DEF T
  <2>2. LET d == Downwards(T, LAMBDA m : <<Step("open", m)>>)
        IN  /\ d \in Seq([op : Building, of : Senders])
            /\ \A s : ~Has(d, Step("spawn", s)) /\ ~Has(d, Step("attach", s))
            /\ \A s : (Has(d, Step("open", s)) => s \in T) /\ ~Has(d, Step("init_mmf", s))
    BY <2>1, OpensAre
  <2> QED
    BY <2>2 DEF T
<1>3. Cascade(S, failing) = a \o b
  BY DEF Cascade
<1> HIDE DEF E, a, b
<1> DEFINE c == a \o b
<1>4. /\ c \in Seq(E) /\ Len(a) \in Nat
      /\ \A e : Has(c, e) <=> Has(a, e) \/ Has(b, e)
      /\ \A i \in 1..Len(a) : c[i] = a[i]
      /\ \A i \in 1..Len(b) : c[Len(a) + i] = b[i]
      /\ \A n \in 1..Len(c) : n \in 1..Len(a) \/ \E i \in 1..Len(b) : n = Len(a) + i
  BY <1>1, <1>2, Joined
<1> HIDE DEF c
<1>5. ASSUME NEW n \in 1..Len(c), NEW s \in Senders, c[n] = Step("spawn", s)
      PROVE  n \in 1..Len(a) /\ a[n] = Step("spawn", s)
  <2>1. ASSUME NEW i \in 1..Len(b), n = Len(a) + i PROVE FALSE
    <3>1. b[i] = Step("spawn", s)
      BY <1>4, <1>5, <2>1
    <3> QED
      BY <1>2, <3>1 DEF Has
  <2> QED
    BY <1>4, <1>5, <2>1
<1>6. Once(c)
  BY <1>1, <1>5 DEF Once
<1>7. \A s \in Senders : Has(c, Step("spawn", s)) <=> s \in R
  BY <1>1, <1>2, <1>4 DEF Of
<1>8. \A s : ~Has(c, Step("attach", s))
  BY <1>1, <1>2, <1>4
<1>9. \A s : (Has(c, Step("open", s)) => s \in R \/ s \in failing) /\ ~Has(c, Step("init_mmf", s))
  BY <1>1, <1>2, <1>4
<1> QED
  BY <1>3, <1>4, <1>6, <1>7, <1>8, <1>9 DEF c, E

\* One step, then c
LEMMA StepFirst ==
  ASSUME NEW op \in Building, NEW s0 \in Senders, NEW c \in Seq([op : Building, of : Senders]), Once(c),
         op = "spawn" => ~Has(c, Step(op, s0))
  PROVE  LET a == <<Step(op, s0)>> \o c
         IN  /\ a \in Seq([op : Building, of : Senders]) /\ a # <<>>
             /\ \A e : Has(a, e) <=> e = Step(op, s0) \/ Has(c, e)
             /\ Once(a)
             /\ \A n \in 1..Len(a) : a[n] = Step(op, s0) \/ (Has(c, a[n]) /\ Before(a, n, Step(op, s0)))
<1> USE StepsDiffer
<1> DEFINE E == [op : Building, of : Senders]
           e0 == Step(op, s0)
           h == <<e0>>
           a == h \o c
<1>1. h \in Seq(E) /\ Len(h) = 1 /\ h[1] = e0 /\ 1..1 = {1}
  <2>1. e0 \in E
    BY DEF Step
  <2> HIDE DEF E, e0
  <2> QED
    BY <2>1
<1>2. c \in Seq(E)
  OBVIOUS
<1> HIDE DEF E, h
<1>3. /\ a \in Seq(E) /\ Len(c) \in Nat
      /\ \A e : Has(a, e) <=> Has(h, e) \/ Has(c, e)
      /\ \A i \in 1..Len(h) : i \in 1..Len(a) /\ a[i] = h[i]
      /\ \A i \in 1..Len(c) : /\ a[Len(h) + i] = c[i]
                              /\ \A e : Has(h, e) => Before(a, Len(h) + i, e)
      /\ \A n \in 1..Len(a) : n \in 1..Len(h) \/ \E i \in 1..Len(c) : n = Len(h) + i
  <2>1. h \in Seq(E)
    BY <1>1
  <2>2. /\ a \in Seq(E) /\ Len(c) \in Nat
        /\ \A e : Has(a, e) <=> Has(h, e) \/ Has(c, e)
        /\ \A n \in 1..Len(a) : n \in 1..Len(h) \/ \E i \in 1..Len(c) : n = Len(h) + i
    BY ONLY <1>2, <2>1, Joined
  <2>3. \A i \in 1..Len(h) : i \in 1..Len(a) /\ a[i] = h[i]
    BY ONLY <1>2, <2>1, Joined
  <2>4. \A i \in 1..Len(c) : /\ a[Len(h) + i] = c[i]
                              /\ \A e : Has(h, e) => Before(a, Len(h) + i, e)
    BY ONLY <1>2, <2>1, Joined
  <2> QED
    BY ONLY <2>2, <2>3, <2>4
<1> HIDE DEF a
<1>4. \A e : Has(h, e) <=> e = e0
  BY <1>1 DEF Has
<1>5. /\ 1 \in 1..Len(a) /\ a[1] = e0
      /\ \A i \in 1..Len(c) : a[1 + i] = c[i] /\ Before(a, 1 + i, e0) /\ Has(c, c[i])
      /\ \A n \in 1..Len(a) : n = 1 \/ \E i \in 1..Len(c) : n = 1 + i
  BY <1>1, <1>3, <1>4 DEF Has
<1>6. a # <<>>
  <2>1. Len(<<>>) = 0
    OBVIOUS
  <2> QED
    BY <1>5, <2>1
<1>7. ASSUME NEW i \in 1..Len(a), NEW j \in 1..Len(a), NEW s \in Senders,
             a[i] = Step("spawn", s), a[j] = Step("spawn", s)
      PROVE  i = j
  <2>1. CASE e0 = Step("spawn", s)
    <3>1. op = "spawn" /\ ~Has(c, Step("spawn", s))
      BY <2>1
    <3>2. i = 1 /\ j = 1
      BY <1>5, <1>7, <3>1
    <3> QED
      BY <3>2
  <2>2. CASE e0 # Step("spawn", s)
    <3>1. (\E x \in 1..Len(c) : i = 1 + x) /\ (\E y \in 1..Len(c) : j = 1 + y)
      BY <1>5, <1>7, <2>2
    <3>2. PICK x \in 1..Len(c) : i = 1 + x
      BY <3>1
    <3>3. PICK y \in 1..Len(c) : j = 1 + y
      BY <3>1
    <3>4. c[x] = Step("spawn", s) /\ c[y] = Step("spawn", s)
      BY <1>5, <1>7, <3>2, <3>3
    <3>5. x = y
      BY <3>4 DEF Once
    <3> QED
      BY <3>2, <3>3, <3>5
  <2> QED
    BY <2>1, <2>2
<1>8. Once(a)
  BY <1>7 DEF Once
<1>9. ASSUME NEW n \in 1..Len(a) PROVE a[n] = e0 \/ (Has(c, a[n]) /\ Before(a, n, e0))
  BY <1>5
<1> QED
  BY <1>3, <1>4, <1>6, <1>8, <1>9 DEF E, a, h

\* The commands that create and start
LEMMA BuildingsKeepTheInvariant ==
  ASSUME IInv,
         \/ \E m \in Models : CreateModel(m) \/ StartModel(m)
         \/ CreateCamera \/ StartCamera
  PROVE  IInv'
<1> USE Nodes, StepsDiffer
<1>1. agenda = <<>>
  BY DEF CreateModel, StartModel, CreateCamera, StartCamera, Issue
<1>2. running \in [Senders -> BOOLEAN] /\ alive \in SUBSET Models /\ (~mmf => Camera \in Off)
  BY DEF IInv, VarTypes, NodeInv, Off
<1>3. /\ Resting \subseteq Off
      /\ \A m \in Models : running[m] => m \in alive /\ running[FedBy[m]]
      /\ \A m \in alive : FedBy[m] = Camera \/ FedBy[m] \in alive
      /\ \A m \in Models : m \notin alive => m \in Off
  BY <1>1, Quiet
<1>4. \A s \in Senders : running[s] <=> s \notin Resting
  BY DEF Resting
<1>5. ASSUME NEW failing \in Failing PROVE failing \in SUBSET Models
  BY <1>5 DEF Failing
<1>6. \A op : op \in {"attach", "open", "spawn", "init_mmf"} => op \in Building
  BY DEF Building
<1>7. ASSUME NEW m \in Models, CreateModel(m) PROVE IInv'
  <2>1. PICK failing \in Failing :
           Issue("create", <<Step("attach", m)>> \o (IF running[FedBy[m]] THEN Cascade({m}, failing) ELSE <<>>))
    BY <1>7 DEF CreateModel
  <2>2. m \notin alive /\ (FedBy[m] = Camera \/ FedBy[m] \in alive)
    BY <1>7 DEF CreateModel
  <2> DEFINE c == IF running[FedBy[m]] THEN Cascade({m}, failing) ELSE <<>>
             a == <<Step("attach", m)>> \o c
  <2>3. /\ c \in Seq([op : Building, of : Senders]) /\ Once(c)
        /\ \A s \in Senders : Has(c, Step("spawn", s)) => s = m /\ running[FedBy[m]]
        /\ \A s : ~Has(c, Step("attach", s))
    <3>1. CASE running[FedBy[m]]
      <4> DEFINE one == {m}
      <4>1. one \in SUBSET Models
        OBVIOUS
      <4>2. c = Cascade(one, failing)
        BY <3>1
      <4> HIDE DEF one, c
      <4>3. /\ c \in Seq([op : Building, of : Senders]) /\ Once(c)
            /\ \A s \in Senders : Has(c, Step("spawn", s)) <=> s \in one \ Below(failing)
            /\ \A s : ~Has(c, Step("attach", s))
        BY <1>5, <4>1, <4>2, CascadeIs
      <4> QED
        BY <3>1, <4>3 DEF one
    <3>2. CASE ~running[FedBy[m]]
      <4>1. c = <<>> /\ Len(<<>>) = 0 /\ <<>> \in Seq([op : Building, of : Senders])
        BY <3>2
      <4> HIDE DEF c
      <4> QED
        BY <4>1 DEF Has, Once
    <3> QED
      BY <3>1, <3>2
  <2> HIDE DEF c
  <2>4. /\ a \in Seq([op : Building, of : Senders])
        /\ \A e : Has(a, e) <=> e = Step("attach", m) \/ Has(c, e)
        /\ Once(a)
        /\ \A n \in 1..Len(a) : a[n] = Step("attach", m) \/ (Has(c, a[n]) /\ Before(a, n, Step("attach", m)))
    <3>1. "attach" \in Building /\ m \in Senders /\ "attach" # "spawn"
      BY <1>6
    <3> QED
      <4>1. c \in Seq([op : Building, of : Senders]) /\ Once(c)
        BY <2>3
      <4> QED
        BY ONLY <3>1, <4>1, StepFirst
  <2>5. Issue("create", a)
    BY <2>1 DEF c
  <2> HIDE DEF a
  <2>6. ASSUME NEW i \in 1..Len(a), NEW s \in Senders, a[i] = Step("spawn", s)
        PROVE  /\ s \in Off
               /\ s \in Models => s \in alive \/ Before(a, i, Step("attach", s))
               /\ s = Camera => mmf \/ Before(a, i, Step("init_mmf", Camera))
               /\ \A j \in 1..Len(a) : a[j] = a[i] => j = i
    <3>1. Has(c, Step("spawn", s)) /\ Before(a, i, Step("attach", m))
      BY <2>4, <2>6
    <3>2. s = m
      BY <2>3, <3>1
    <3>3. \A j \in 1..Len(a) : a[j] = a[i] => j = i
      BY <2>4, <2>6 DEF Once
    <3> QED
      BY <1>3, <2>2, <3>1, <3>2, <3>3
  <2>7. \A x \in Models : x \in Of(a, "spawn") => running[FedBy[x]] \/ FedBy[x] \in Of(a, "spawn")
    BY <2>3, <2>4 DEF Of
  <2>8. \A x \in Models : x \in Of(a, "attach") => FedBy[x] = Camera \/ FedBy[x] \in alive
    BY <2>2, <2>3, <2>4 DEF Of
  <2> QED
    BY <2>4, <2>5, <2>6, <2>7, <2>8, BuildingIsSafe
<1>8. ASSUME NEW m \in Models, StartModel(m) PROVE IInv'
  <2> DEFINE S == Below({m}) \cap alive
  <2>1. PICK failing \in Failing : Issue("start", Cascade(S, failing))
    BY <1>8 DEF StartModel
  <2>2. m \in alive /\ m \in Resting /\ running[FedBy[m]]
    BY <1>8 DEF StartModel, Idle, Resting
  <2> DEFINE a == Cascade(S, failing)
  <2>3. S \in SUBSET Models
    BY <1>2
  <2>4. S \subseteq Resting
    <3> DEFINE T == Resting \cap Models
    <3>1. T \in SUBSET Models /\ {m} \cap Models \subseteq T
      BY <2>2
    <3>2. ASSUME NEW x \in Models, FedBy[x] \in T \cup {m} PROVE x \in T
      BY <1>3, <1>4, <2>2, <3>2
    <3> HIDE DEF T
    <3>3. Below({m}) \subseteq T
      BY <3>1, <3>2, BelowIs
    <3> QED
      BY <3>3 DEF T
  <2>5. ASSUME NEW x \in S, x \notin Below(failing) PROVE running[FedBy[x]] \/ (FedBy[x] \in S /\ FedBy[x] \notin Below(failing))
    <3>1. x \in Models /\ x \in alive /\ x \in Below({m})
      BY <1>2
    <3>2. FedBy[x] \notin Below(failing)
      BY <2>5, <3>1, BelowIs
    <3>3. x = m \/ FedBy[x] \in Below({m})
      <4>1. x \in {m} \/ FedBy[x] \in Below({m}) \cup {m}
        BY <3>1, BelowIs
      <4>2. m \in Below({m})
        BY BelowIs
      <4> QED
        BY <4>1, <4>2
    <3>4. CASE FedBy[x] \in Below({m})
      <4>1. FedBy[x] \in Models
        BY <3>4, BelowIs
      <4> QED
        BY <1>3, <3>1, <3>2, <3>4, <4>1
    <3> QED
      BY <2>2, <3>3, <3>4
  <2> HIDE DEF S
  <2>6. /\ a \in Seq([op : Building, of : Senders]) /\ Once(a)
        /\ \A s \in Senders : Has(a, Step("spawn", s)) <=> s \in S \ Below(failing)
        /\ \A s : ~Has(a, Step("attach", s))
    BY <1>5, <2>3, CascadeIs
  <2> HIDE DEF a
  <2>7. S \subseteq alive
    BY DEF S
  <2>8. ASSUME NEW i \in 1..Len(a), NEW s \in Senders, a[i] = Step("spawn", s)
        PROVE  /\ s \in Off
               /\ s \in Models => s \in alive \/ Before(a, i, Step("attach", s))
               /\ s = Camera => mmf \/ Before(a, i, Step("init_mmf", Camera))
               /\ \A j \in 1..Len(a) : a[j] = a[i] => j = i
    <3>1. Has(a, Step("spawn", s))
      BY <2>8 DEF Has
    <3>2. s \in S
      BY <2>6, <3>1
    <3>3. \A j \in 1..Len(a) : a[j] = a[i] => j = i
      BY <2>6, <2>8 DEF Once
    <3> QED
      BY <1>3, <2>3, <2>4, <2>7, <3>2, <3>3
  <2>9. \A x \in Models : x \in Of(a, "spawn") => running[FedBy[x]] \/ FedBy[x] \in Of(a, "spawn")
    <3>1. \A x \in Senders : x \in Of(a, "spawn") <=> x \in S /\ x \notin Below(failing)
      BY <2>6 DEF Of
    <3> QED
      BY <2>5, <3>1
  <2>10. \A x \in Models : x \in Of(a, "attach") => FedBy[x] = Camera \/ FedBy[x] \in alive
    BY <2>6 DEF Of
  <2>11. Issue("start", a)
    BY <2>1 DEF a
  <2> QED
    BY <2>6, <2>8, <2>9, <2>10, <2>11, BuildingIsSafe
<1>9. ASSUME CreateCamera PROVE IInv'
  <2> DEFINE i0 == Step("init_mmf", Camera)
             s0 == Step("spawn", Camera)
             a == <<i0, s0>>
  <2>1. Issue("create", a) /\ ~mmf
    BY <1>9 DEF CreateCamera
  <2>2. i0 \in [op : Building, of : Senders] /\ s0 \in [op : Building, of : Senders]
    BY DEF Step, Building
  <2>3. i0 # s0 /\ \A s : i0 # Step("spawn", s) /\ i0 # Step("attach", s) /\ s0 # Step("attach", s)
    OBVIOUS
  <2>4. \A s : s0 = Step("spawn", s) <=> s = Camera
    OBVIOUS
  <2> HIDE DEF i0, s0
  <2>5. a \in Seq([op : Building, of : Senders])
    <3> DEFINE E == [op : Building, of : Senders]
    <3>1. i0 \in E /\ s0 \in E
      BY <2>2
    <3> HIDE DEF E
    <3>2. a \in Seq(E)
      BY <3>1
    <3> QED
      BY <3>2 DEF E
  <2>6. Len(a) = 2 /\ a[1] = i0 /\ a[2] = s0 /\ 1..2 = {1, 2} /\ 1 \in 1..(2 - 1)
    OBVIOUS
  <2> HIDE DEF a
  <2>7. \A e : Has(a, e) <=> e = i0 \/ e = s0
    BY <2>6 DEF Has
  <2>8. Before(a, 2, i0)
    BY <2>6 DEF Before
  <2>9. ASSUME NEW i \in 1..Len(a), NEW s \in Senders, a[i] = Step("spawn", s)
        PROVE  /\ s \in Off
               /\ s \in Models => s \in alive \/ Before(a, i, Step("attach", s))
               /\ s = Camera => mmf \/ Before(a, i, Step("init_mmf", Camera))
               /\ \A j \in 1..Len(a) : a[j] = a[i] => j = i
    <3>1. i = 2 /\ s = Camera
      BY <2>3, <2>4, <2>6, <2>9
    <3>2. Before(a, i, Step("init_mmf", Camera))
      BY <2>8, <3>1 DEF i0
    <3>3. \A j \in 1..Len(a) : a[j] = a[i] => j = i
      BY <2>3, <2>6, <3>1
    <3> QED
      BY <1>2, <2>1, <3>1, <3>2, <3>3
  <2>10. \A x \in Models : x \notin Of(a, "spawn") /\ x \notin Of(a, "attach")
    BY <2>3, <2>4, <2>7 DEF Of
  <2> QED
    BY <2>1, <2>5, <2>9, <2>10, BuildingIsSafe
<1>10. ASSUME StartCamera PROVE IInv'
  <2>1. PICK failing \in Failing : Issue("start", <<Step("spawn", Camera)>> \o Cascade(Idle(alive), failing))
    BY <1>10 DEF StartCamera
  <2>2. mmf /\ ~running[Camera]
    BY <1>10 DEF StartCamera
  <2> DEFINE S == Idle(alive)
             c == Cascade(S, failing)
             a == <<Step("spawn", Camera)>> \o c
  <2>3. S \in SUBSET Models /\ S \subseteq alive /\ S \subseteq Resting /\ alive \subseteq S \cup {m \in Models : running[m]}
    BY <1>2 DEF Idle, Resting
  <2> HIDE DEF S
  <2>4. /\ c \in Seq([op : Building, of : Senders]) /\ Once(c)
        /\ \A s \in Senders : Has(c, Step("spawn", s)) <=> s \in S \ Below(failing)
        /\ \A s : ~Has(c, Step("attach", s))
    BY <1>5, <2>3, CascadeIs
  <2> HIDE DEF c
  <2>5. /\ a \in Seq([op : Building, of : Senders])
        /\ \A e : Has(a, e) <=> e = Step("spawn", Camera) \/ Has(c, e)
        /\ Once(a)
    <3>1. "spawn" \in Building /\ Camera \in Senders /\ ~Has(c, Step("spawn", Camera))
      BY <1>6, <2>3, <2>4
    <3> QED
      <4>1. c \in Seq([op : Building, of : Senders]) /\ Once(c)
        BY <2>4
      <4> QED
        BY ONLY <3>1, <4>1, StepFirst
  <2>6. Issue("start", a)
    BY <2>1 DEF c, S
  <2> HIDE DEF a
  <2>7. ASSUME NEW i \in 1..Len(a), NEW s \in Senders, a[i] = Step("spawn", s)
        PROVE  /\ s \in Off
               /\ s \in Models => s \in alive \/ Before(a, i, Step("attach", s))
               /\ s = Camera => mmf \/ Before(a, i, Step("init_mmf", Camera))
               /\ \A j \in 1..Len(a) : a[j] = a[i] => j = i
    <3>1. Has(a, Step("spawn", s))
      BY <2>7 DEF Has
    <3>2. s = Camera \/ s \in S
      BY <2>4, <2>5, <3>1
    <3>3. \A j \in 1..Len(a) : a[j] = a[i] => j = i
      BY <2>5, <2>7 DEF Once
    <3>4. Camera \in Resting
      BY <2>2 DEF Resting
    <3> QED
      BY <1>3, <2>2, <2>3, <3>2, <3>3, <3>4
  <2>8. \A s \in Senders : s \in Of(a, "spawn") <=> s = Camera \/ s \in S \ Below(failing)
    BY <2>4, <2>5 DEF Of
  <2>9. ASSUME NEW x \in Models, x \in Of(a, "spawn") PROVE running[FedBy[x]] \/ FedBy[x] \in Of(a, "spawn")
    <3>1. x \in S /\ x \notin Below(failing)
      BY <2>8, <2>9
    <3>2. FedBy[x] \notin Below(failing)
      BY <3>1, BelowIs
    <3>3. FedBy[x] = Camera \/ FedBy[x] \in alive
      BY <1>3, <2>3, <3>1
    <3> QED
      BY <2>3, <2>8, <3>2, <3>3
  <2>10. \A x \in Models : x \in Of(a, "attach") => FedBy[x] = Camera \/ FedBy[x] \in alive
    BY <2>4, <2>5 DEF Of
  <2> QED
    BY <2>5, <2>6, <2>7, <2>9, <2>10, BuildingIsSafe
<1> QED
  BY <1>7, <1>8, <1>9, <1>10

\* So does every step.
LEMMA NextKeepsTheInvariant ==
  ASSUME IInv, [Next]_vars
  PROVE  IInv'
<1>1. CASE ControlPlane
  BY <1>1, BuildingsKeepTheInvariant, TeardownsKeepTheInvariant DEF ControlPlane
<1>2. CASE Worker
  BY <1>2, WorkKeepsTheInvariant
<1>3. CASE \E s \in Senders : Thread(s)
  BY <1>3, ThreadsKeepTheInvariant
<1>4. CASE UNCHANGED vars
  <2>1. UNCHANGED <<pc, hand, todo, context, running, box, interrupted, subscribers, alive, mmf, agenda>>
    BY <1>4 DEF vars, threads
  <2>2. AgendaInv'
    BY <2>1, ThreadsKeepAgenda DEF IInv
  <2>3. VarTypes' /\ ThreadInv' /\ NodeInv' /\ SubscriberInv'
    BY <2>1 DEF IInv, VarTypes, ThreadInv, NodeInv, SubscriberInv
  <2> QED
    BY <2>2, <2>3 DEF IInv
<1> QED
  BY <1>1, <1>2, <1>3, <1>4 DEF Next

\* It holds at first.
LEMMA InitHasTheInvariant == Init => IInv
<1> SUFFICES ASSUME Init PROVE IInv
  OBVIOUS
<1> USE Nodes
<1>1. Len(<<>>) = 0 /\ <<>> \in Seq([op : Building \cup TearingDown, of : Senders]) /\ <<>> \in Seq(Frames)
  OBVIOUS
<1>2. VarTypes
  <2>1. box \in [Models -> Seq(Frames)]
    BY <1>1 DEF Init
  <2>2. subscribers \in [Senders -> SUBSET Models]
    BY DEF Init
  <2> QED
    BY <2>1, <2>2 DEF Init, VarTypes
<1>3. OneKind /\ SpawnsAreSafe /\ HaltsAreCompleted /\ FreesAreSafe /\ ExitsAreSafe
  BY <1>1 DEF Init, OneKind, SpawnsAreSafe, HaltsAreCompleted, FreesAreSafe, ExitsAreSafe
<1>4. FeedersStay
  BY <1>1 DEF Init, FeedersStay, WillRun, WillLive, Has
<1>5. ThreadInv
  BY DEF Init, ThreadInv
<1>6. NodeInv
  BY <1>1 DEF Init, NodeInv
<1>7. SubscriberInv
  BY DEF Init, SubscriberInv
<1> QED
  BY <1>2, <1>3, <1>4, <1>5, <1>6, <1>7 DEF IInv, AgendaInv

\* The invariant holds in every state that can be reached.
THEOREM InvariantHolds == Spec => []IInv
BY InitHasTheInvariant, NextKeepsTheInvariant, PTL DEF Spec

\* Nobody posts to an inbox of a node that is gone, whatever the network of
\* models, their number, and the order of the commands.
THEOREM PostsAreSafe == Spec => []PostsReachLiveNodes
<1>1. IInv => PostsReachLiveNodes
  <2> SUFFICES ASSUME IInv, NEW s \in Senders, pc[s] = "send" PROVE todo[s] \subseteq alive
    BY DEF PostsReachLiveNodes
  <2>1. todo[s] \subseteq subscribers[s]
    BY DEF IInv, ThreadInv
  <2>2. subscribers[s] \subseteq alive
    BY DEF IInv, SubscriberInv
  <2> QED
    BY <2>1, <2>2
<1> QED
  BY <1>1, InvariantHolds, PTL

\* No inference thread runs on a node that is gone.
THEOREM ThreadsAreSafe == Spec => []ThreadsHaveNodes
<1>1. IInv => ThreadsHaveNodes
  BY DEF IInv, NodeInv, ThreadsHaveNodes
<1> QED
  BY <1>1, InvariantHolds, PTL
-----------------------------------------------------------------------------
(* How many hold a frame                                                     *)

Holders(h, f) == {s \in Senders : h[s] = f}
Offering(h, c, f) == {s \in Senders : h[s] = f /\ c[s] # Nobody}
Slots(b, f) == UNION {{<<m, i>> : i \in Places(b[m], f)} : m \in Models}

\* The counts are numbers, and exact.
Counted == refs \in [Frames -> Nat] /\ RefsAreExact

\* Inboxes within their capacity
Boxes == {b \in [Models -> Seq(Frames)] : \A m \in Models : Len(b[m]) <= Capacity}

\* A new element adds one to the size of a finite set,
LEMMA OneMore ==
  ASSUME NEW S, IsFiniteSet(S), NEW x, x \notin S
  PROVE  IsFiniteSet(S \cup {x}) /\ Cardinality(S \cup {x}) = Cardinality(S) + 1
BY FS_AddElement

\* and the loss of one takes one away.
LEMMA OneLess ==
  ASSUME NEW S, IsFiniteSet(S), NEW x, x \in S
  PROVE  IsFiniteSet(S \ {x}) /\ Cardinality(S \ {x}) = Cardinality(S) - 1
BY FS_RemoveElement

\* TopDown lists the models, so there are finitely many.
LEMMA SendersAreFinite == IsFiniteSet(Models) /\ IsFiniteSet(Senders)
<1>1. TopDown \in Surjection(1..Len(TopDown), Models) /\ Len(TopDown) \in Nat
  <2>1. TopDown \in [1..Len(TopDown) -> Models]
    BY Order
  <2> QED
    BY <2>1, Order DEF Surjection
<1>2. IsFiniteSet(Models)
  BY <1>1, FS_NatSurjection DEF ExistsSurjection
<1>3. Senders = Models \cup {Camera}
  BY DEF Senders
<1> QED
  BY <1>2, <1>3, FS_AddElement

\* So are those who hold a frame.
LEMMA HoldersAreFinite ==
  ASSUME NEW h, NEW c, NEW f
  PROVE  IsFiniteSet(Holders(h, f)) /\ IsFiniteSet(Offering(h, c, f))
<1>1. Holders(h, f) \in SUBSET Senders /\ Offering(h, c, f) \in SUBSET Senders
  BY DEF Holders, Offering
<1> QED
  BY <1>1, SendersAreFinite, FS_Subset

\* The elements of Slots
LEMMA SlotsAre ==
  ASSUME NEW b \in [Models -> Seq(Frames)], NEW f
  PROVE  /\ \A m, i : <<m, i>> \in Slots(b, f) <=> m \in Models /\ i \in 1..Len(b[m]) /\ b[m][i] = f
         /\ \A e \in Slots(b, f) : e = <<e[1], e[2]>> /\ <<e[1], e[2]>> \in Slots(b, f)
<1>1. ASSUME NEW m \in Models PROVE Places(b[m], f) = {i \in 1..Len(b[m]) : b[m][i] = f}
  <2>1. b[m] \in Seq(Frames)
    OBVIOUS
  <2>2. DOMAIN b[m] = 1..Len(b[m])
    BY <2>1
  <2> QED
    BY <2>2 DEF Places
<1>2. \A e : e \in Slots(b, f) <=> \E m \in Models : \E i \in Places(b[m], f) : e = <<m, i>>
  BY DEF Slots
<1> QED
  BY <1>1, <1>2

\* Inboxes within their capacity have finitely many slots.
LEMMA SlotsAreFinite ==
  ASSUME NEW b \in Boxes, NEW f
  PROVE  IsFiniteSet(Slots(b, f))
<1>1. IsFiniteSet(Models \X (1..Capacity))
  <2>1. IsFiniteSet(1..Capacity)
    <3>1. 1 \in Int /\ Capacity \in Int
      BY Nodes
    <3> QED
      BY <3>1, FS_Interval
  <2> QED
    BY <2>1, SendersAreFinite, FS_Product
<1>2. Slots(b, f) \in SUBSET (Models \X (1..Capacity))
  <2> SUFFICES ASSUME NEW e \in Slots(b, f) PROVE e \in Models \X (1..Capacity)
    OBVIOUS
  <2>1. b \in [Models -> Seq(Frames)] /\ \A m \in Models : Len(b[m]) <= Capacity
    BY DEF Boxes
  <2>2. e = <<e[1], e[2]>> /\ e[1] \in Models /\ e[2] \in 1..Len(b[e[1]])
    <3>1. b \in [Models -> Seq(Frames)]
      BY <2>1
    <3>2. e = <<e[1], e[2]>> /\ <<e[1], e[2]>> \in Slots(b, f)
      BY <3>1, SlotsAre
    <3> QED
      BY <3>1, <3>2, SlotsAre
  <2>3. b[e[1]] \in Seq(Frames) /\ Len(b[e[1]]) <= Capacity
    BY <2>1, <2>2
  <2>4. Len(b[e[1]]) \in Nat
    BY <2>3, LenProperties
  <2>5. e[2] \in 1..Capacity
    BY <2>2, <2>3, <2>4, Nodes
  <2> QED
    BY <2>2, <2>5
<1> QED
  BY <1>1, <1>2, FS_Subset

\* RefsAreExact in these terms
LEMMA CountsAre ==
  RefsAreExact <=>
    \A f \in Frames : refs[f] = Cardinality(Holders(hand, f)) + Cardinality(Offering(hand, context, f))
                                + Cardinality(Slots(box, f))
BY DEF RefsAreExact, Holders, Offering, Slots

\* The terms are numbers.
LEMMA CountsAreNumbers ==
  ASSUME NEW h, NEW c, NEW b \in Boxes, NEW f
  PROVE  /\ Cardinality(Holders(h, f)) \in Nat /\ Cardinality(Offering(h, c, f)) \in Nat
         /\ Cardinality(Slots(b, f)) \in Nat
BY HoldersAreFinite, SlotsAreFinite, FS_CardinalityType

\* A step changes the count of f by as much as the terms.
Balanced(f) ==
    \E a, b, c \in Int :
        /\ Cardinality(Holders(hand', f)) = Cardinality(Holders(hand, f)) + a
        /\ Cardinality(Offering(hand', context', f)) = Cardinality(Offering(hand, context, f)) + b
        /\ Cardinality(Slots(box', f)) = Cardinality(Slots(box, f)) + c
        /\ refs'[f] = refs[f] + a + b + c

\* Terms that are the same.
LEMMA SameTerms ==
  ASSUME NEW h, NEW c, NEW b \in Boxes, NEW f
  PROVE  /\ Cardinality(Holders(h, f)) = Cardinality(Holders(h, f)) + 0
         /\ Cardinality(Offering(h, c, f)) = Cardinality(Offering(h, c, f)) + 0
         /\ Cardinality(Slots(b, f)) = Cardinality(Slots(b, f)) + 0
BY CountsAreNumbers

\* If every count is balanced, they stay exact.
LEMMA CountsKept ==
  ASSUME Counted, box \in Boxes, box' \in Boxes,
         \E S : refs' \in [Frames -> S],
         \A f \in Frames : Balanced(f)
  PROVE  Counted'
<1>1. ASSUME NEW f \in Frames
      PROVE  /\ refs'[f] = Cardinality(Holders(hand', f)) + Cardinality(Offering(hand', context', f))
                           + Cardinality(Slots(box', f))
             /\ refs'[f] \in Nat
  <2> DEFINE u == Cardinality(Holders(hand, f))
             v == Cardinality(Offering(hand, context, f))
             w == Cardinality(Slots(box, f))
             x == Cardinality(Holders(hand', f))
             y == Cardinality(Offering(hand', context', f))
             z == Cardinality(Slots(box', f))
  <2>1. u \in Nat /\ v \in Nat /\ w \in Nat /\ x \in Nat /\ y \in Nat /\ z \in Nat
    BY CountsAreNumbers
  <2>2. refs[f] = u + v + w /\ refs[f] \in Nat
    BY CountsAre DEF Counted
  <2>3. PICK a, b, c \in Int : x = u + a /\ y = v + b /\ z = w + c /\ refs'[f] = refs[f] + a + b + c
    BY DEF Balanced
  <2> HIDE DEF u, v, w, x, y, z
  <2>4. refs'[f] = x + y + z /\ refs'[f] \in Nat
    BY <2>1, <2>2, <2>3
  <2> QED
    BY <2>4 DEF x, y, z
<1>2. RefsAreExact'
  <2>1. \A f \in Frames : refs'[f] = Cardinality(Holders(hand', f)) + Cardinality(Offering(hand', context', f))
                           + Cardinality(Slots(box', f))
    BY <1>1
  <2> QED
    BY <2>1 DEF RefsAreExact, Holders, Offering, Slots
<1>3. refs' \in [Frames -> Nat]
  BY <1>1
<1> QED
  BY <1>2, <1>3 DEF Counted
\* A thread takes a frame.
LEMMA HoldersGain ==
  ASSUME VarTypes, NEW s \in Senders, NEW g \in Frames, hand[s] = NoFrame, context[s] = Nobody,
         hand' = [hand EXCEPT ![s] = g], context' = context
  PROVE  \A f \in Frames :
            /\ Cardinality(Holders(hand', f)) = Cardinality(Holders(hand, f)) + (IF f = g THEN 1 ELSE 0)
            /\ Offering(hand', context', f) = Offering(hand, context, f)
<1> SUFFICES ASSUME NEW f \in Frames
             PROVE  /\ Cardinality(Holders(hand', f)) = Cardinality(Holders(hand, f)) + (IF f = g THEN 1 ELSE 0)
                    /\ Offering(hand', context', f) = Offering(hand, context, f)
  OBVIOUS
<1>1. \A t \in Senders : hand'[t] = IF t = s THEN g ELSE hand[t]
  BY DEF VarTypes
<1>2. Offering(hand', context', f) = Offering(hand, context, f)
  BY <1>1, Nodes DEF Offering
<1>3. CASE f = g
  <2>1. Holders(hand', f) = Holders(hand, f) \cup {s} /\ s \notin Holders(hand, f)
    BY <1>1, <1>3, Nodes DEF Holders
  <2>2. Cardinality(Holders(hand', f)) = Cardinality(Holders(hand, f)) + 1
    BY <2>1, HoldersAreFinite, OneMore
  <2> QED
    BY <1>2, <1>3, <2>2
<1>4. CASE f # g
  <2>1. Holders(hand', f) = Holders(hand, f)
    BY <1>1, <1>4, Nodes DEF Holders
  <2>2. Cardinality(Holders(hand, f)) \in Nat
    BY HoldersAreFinite, FS_CardinalityType
  <2> QED
    BY <1>2, <1>4, <2>1, <2>2
<1> QED
  BY <1>3, <1>4

\* It lets it go.
LEMMA HoldersLose ==
  ASSUME VarTypes, NEW s \in Senders, hand[s] \in Frames, context[s] = Nobody,
         hand' = [hand EXCEPT ![s] = NoFrame], context' = context
  PROVE  \A f \in Frames :
            /\ Cardinality(Holders(hand', f)) = Cardinality(Holders(hand, f)) - (IF f = hand[s] THEN 1 ELSE 0)
            /\ Offering(hand', context', f) = Offering(hand, context, f)
<1> SUFFICES ASSUME NEW f \in Frames
             PROVE  /\ Cardinality(Holders(hand', f)) = Cardinality(Holders(hand, f)) - (IF f = hand[s] THEN 1 ELSE 0)
                    /\ Offering(hand', context', f) = Offering(hand, context, f)
  OBVIOUS
<1>1. \A t \in Senders : hand'[t] = IF t = s THEN NoFrame ELSE hand[t]
  BY DEF VarTypes
<1>2. Offering(hand', context', f) = Offering(hand, context, f)
  BY <1>1, Nodes DEF Offering
<1>3. CASE f = hand[s]
  <2>1. Holders(hand', f) = Holders(hand, f) \ {s} /\ s \in Holders(hand, f)
    BY <1>1, <1>3, Nodes DEF Holders
  <2>2. Cardinality(Holders(hand', f)) = Cardinality(Holders(hand, f)) - 1
    BY <2>1, HoldersAreFinite, OneLess
  <2> QED
    BY <1>2, <1>3, <2>2
<1>4. CASE f # hand[s]
  <2>1. Holders(hand', f) = Holders(hand, f)
    BY <1>1, <1>4, Nodes DEF Holders
  <2>2. Cardinality(Holders(hand, f)) \in Nat
    BY HoldersAreFinite, FS_CardinalityType
  <2> QED
    BY <1>2, <1>4, <2>1, <2>2
<1> QED
  BY <1>3, <1>4

\* It makes a context for it.
LEMMA OfferingGains ==
  ASSUME VarTypes, NEW s \in Senders, hand[s] \in Frames, context[s] = Nobody,
         NEW m \in Models, context' = [context EXCEPT ![s] = m]
  PROVE  \A f \in Frames : Cardinality(Offering(hand, context', f))
                           = Cardinality(Offering(hand, context, f)) + (IF f = hand[s] THEN 1 ELSE 0)
<1> SUFFICES ASSUME NEW f \in Frames
             PROVE  Cardinality(Offering(hand, context', f))
                           = Cardinality(Offering(hand, context, f)) + (IF f = hand[s] THEN 1 ELSE 0)
  OBVIOUS
<1>1. \A t \in Senders : context'[t] = IF t = s THEN m ELSE context[t]
  BY DEF VarTypes
<1>2. m # Nobody
  BY Nodes
<1>3. CASE f = hand[s]
  <2>1. Offering(hand, context', f) = Offering(hand, context, f) \cup {s} /\ s \notin Offering(hand, context, f)
    BY <1>1, <1>2, <1>3 DEF Offering
  <2>2. Cardinality(Offering(hand, context', f)) = Cardinality(Offering(hand, context, f)) + 1
    BY <2>1, HoldersAreFinite, OneMore
  <2> QED
    BY <1>3, <2>2
<1>4. CASE f # hand[s]
  <2>1. Offering(hand, context', f) = Offering(hand, context, f)
    BY <1>1, <1>4 DEF Offering
  <2>2. Cardinality(Offering(hand, context, f)) \in Nat
    BY HoldersAreFinite, FS_CardinalityType
  <2> QED
    BY <1>4, <2>1, <2>2
<1> QED
  BY <1>3, <1>4

\* It is rid of the context.
LEMMA OfferingLoses ==
  ASSUME VarTypes, NEW s \in Senders, hand[s] \in Frames, context[s] # Nobody,
         context' = [context EXCEPT ![s] = Nobody]
  PROVE  \A f \in Frames : Cardinality(Offering(hand, context', f))
                           = Cardinality(Offering(hand, context, f)) - (IF f = hand[s] THEN 1 ELSE 0)
<1> SUFFICES ASSUME NEW f \in Frames
             PROVE  Cardinality(Offering(hand, context', f))
                           = Cardinality(Offering(hand, context, f)) - (IF f = hand[s] THEN 1 ELSE 0)
  OBVIOUS
<1>1. \A t \in Senders : context'[t] = IF t = s THEN Nobody ELSE context[t]
  BY DEF VarTypes
<1>3. CASE f = hand[s]
  <2>1. Offering(hand, context', f) = Offering(hand, context, f) \ {s} /\ s \in Offering(hand, context, f)
    BY <1>1, <1>3 DEF Offering
  <2>2. Cardinality(Offering(hand, context', f)) = Cardinality(Offering(hand, context, f)) - 1
    BY <2>1, HoldersAreFinite, OneLess
  <2> QED
    BY <1>3, <2>2
<1>4. CASE f # hand[s]
  <2>1. Offering(hand, context', f) = Offering(hand, context, f)
    BY <1>1, <1>4 DEF Offering
  <2>2. Cardinality(Offering(hand, context, f)) \in Nat
    BY HoldersAreFinite, FS_CardinalityType
  <2> QED
    BY <1>4, <2>1, <2>2
<1> QED
  BY <1>3, <1>4

\* A frame is put into an inbox.
LEMMA SlotsGain ==
  ASSUME NEW b \in Boxes, NEW m \in Models, NEW g \in Frames
  PROVE  \A f \in Frames : Cardinality(Slots([b EXCEPT ![m] = Append(@, g)], f))
                           = Cardinality(Slots(b, f)) + (IF f = g THEN 1 ELSE 0)
<1> DEFINE c == [b EXCEPT ![m] = Append(@, g)]
           k == Len(b[m]) + 1
<1> SUFFICES ASSUME NEW f \in Frames
             PROVE  Cardinality(Slots(c, f)) = Cardinality(Slots(b, f)) + (IF f = g THEN 1 ELSE 0)
  OBVIOUS
<1>1. b \in [Models -> Seq(Frames)] /\ b[m] \in Seq(Frames) /\ Len(b[m]) \in Nat
  BY DEF Boxes
<1>2. /\ Append(b[m], g) \in Seq(Frames) /\ Len(Append(b[m], g)) = k
      /\ \A i \in 1..Len(b[m]) : Append(b[m], g)[i] = b[m][i]
      /\ Append(b[m], g)[k] = g
  BY <1>1
<1>3. c \in [Models -> Seq(Frames)] /\ c[m] = Append(b[m], g) /\ \A n \in Models : n # m => c[n] = b[n]
  BY <1>1, <1>2
<1>4. \A n, i : <<n, i>> \in Slots(c, f) <=> <<n, i>> \in Slots(b, f) \/ (n = m /\ i = k /\ f = g)
  <2>1. \A n, i : <<n, i>> \in Slots(c, f) <=> n \in Models /\ i \in 1..Len(c[n]) /\ c[n][i] = f
    BY <1>3, SlotsAre
  <2>2. \A n, i : <<n, i>> \in Slots(b, f) <=> n \in Models /\ i \in 1..Len(b[n]) /\ b[n][i] = f
    BY <1>1, SlotsAre
  <2>3. \A i : i \in 1..Len(c[m]) <=> i \in 1..Len(b[m]) \/ i = k
    BY <1>1, <1>2, <1>3
  <2>4. k \notin 1..Len(b[m])
    BY <1>1
  <2>5. c[m][k] = g /\ \A i \in 1..Len(b[m]) : c[m][i] = b[m][i]
    BY <1>2, <1>3
  <2>6. \A n \in Models : n # m => c[n] = b[n]
    BY <1>3
  <2> HIDE DEF c, k
  <2> SUFFICES ASSUME NEW n, NEW i
               PROVE  <<n, i>> \in Slots(c, f) <=> <<n, i>> \in Slots(b, f) \/ (n = m /\ i = k /\ f = g)
    OBVIOUS
  <2>7. CASE n = m
    <3>1. <<m, i>> \in Slots(c, f) <=> i \in 1..Len(c[m]) /\ c[m][i] = f
      BY <2>1
    <3>2. <<m, i>> \in Slots(b, f) <=> i \in 1..Len(b[m]) /\ b[m][i] = f
      BY <2>2
    <3>3. CASE i = k
      BY <2>3, <2>4, <2>5, <2>7, <3>1, <3>2, <3>3
    <3>4. CASE i # k
      <4>1. i \in 1..Len(c[m]) <=> i \in 1..Len(b[m])
        BY <2>3, <3>4
      <4>2. i \in 1..Len(b[m]) => c[m][i] = b[m][i]
        BY <2>5
      <4> QED
        BY <2>7, <3>1, <3>2, <3>4, <4>1, <4>2
    <3> QED
      BY <3>3, <3>4
  <2>8. CASE n # m
    BY <2>1, <2>2, <2>6, <2>8
  <2> QED
    BY <2>7, <2>8
<1>5. <<m, k>> \notin Slots(b, f)
  BY <1>1, SlotsAre
<1>6. /\ \A e \in Slots(c, f) : e = <<e[1], e[2]>>
      /\ \A e \in Slots(b, f) : e = <<e[1], e[2]>>
  <2>1. \A e \in Slots(c, f) : e = <<e[1], e[2]>>
    <3> HIDE DEF c
    <3>1. c \in [Models -> Seq(Frames)]
      BY <1>3
    <3> QED
      BY ONLY <3>1, SlotsAre
  <2>2. \A e \in Slots(b, f) : e = <<e[1], e[2]>>
    BY <1>1, SlotsAre
  <2> QED
    BY <2>1, <2>2
<1> HIDE DEF c, k
<1>7. CASE f = g
  <2>1. Slots(c, f) = Slots(b, f) \cup {<<m, k>>}
    BY <1>4, <1>6, <1>7
  <2> QED
    BY <1>5, <1>7, <2>1, SlotsAreFinite, OneMore
<1>8. CASE f # g
  <2>1. Slots(c, f) = Slots(b, f)
    BY <1>4, <1>6, <1>8
  <2>2. Cardinality(Slots(b, f)) \in Nat
    BY SlotsAreFinite, FS_CardinalityType
  <2> QED
    BY <1>8, <2>1, <2>2
<1> QED
  BY <1>7, <1>8

\* The first frame is taken out.
LEMMA SlotsLose ==
  ASSUME NEW b \in Boxes, NEW m \in Models, b[m] # <<>>
  PROVE  \A f \in Frames : Cardinality(Slots([b EXCEPT ![m] = Tail(@)], f))
                           = Cardinality(Slots(b, f)) - (IF f = Head(b[m]) THEN 1 ELSE 0)
<1> DEFINE c == [b EXCEPT ![m] = Tail(@)]
<1> SUFFICES ASSUME NEW f \in Frames
             PROVE  Cardinality(Slots(c, f)) = Cardinality(Slots(b, f)) - (IF f = Head(b[m]) THEN 1 ELSE 0)
  OBVIOUS
<1>1. b \in [Models -> Seq(Frames)] /\ b[m] \in Seq(Frames)
  BY DEF Boxes
<1>2. /\ Tail(b[m]) \in Seq(Frames) /\ Len(b[m]) \in Nat /\ Len(Tail(b[m])) = Len(b[m]) - 1
      /\ \A i \in 1..Len(Tail(b[m])) : Tail(b[m])[i] = b[m][i + 1]
  BY <1>1, HeadTailProperties
<1>3. Head(b[m]) = b[m][1] /\ 1 \in 1..Len(b[m])
  BY <1>1, EmptySeq
<1>4. c \in [Models -> Seq(Frames)] /\ c[m] = Tail(b[m]) /\ \A n \in Models : n # m => c[n] = b[n]
  BY <1>1, <1>2
<1>5. /\ \A n, i : <<n, i>> \in Slots(b, f) <=> n \in Models /\ i \in 1..Len(b[n]) /\ b[n][i] = f
      /\ \A e \in Slots(b, f) : e = <<e[1], e[2]>> /\ <<e[1], e[2]>> \in Slots(b, f)
  BY <1>1, SlotsAre
<1> HIDE DEF c
<1>6. /\ \A n, i : <<n, i>> \in Slots(c, f) <=> n \in Models /\ i \in 1..Len(c[n]) /\ c[n][i] = f
      /\ \A e \in Slots(c, f) : e = <<e[1], e[2]>> /\ <<e[1], e[2]>> \in Slots(c, f)
  BY <1>4, SlotsAre
<1> DEFINE Rest == Slots(b, f) \ {<<m, 1>>}
           shift == [e \in Rest |-> IF e[1] = m THEN <<m, e[2] - 1>> ELSE e]
<1>7. \A i : <<m, i>> \in Rest <=> i \in Nat /\ <<m, i - 1>> \in Slots(c, f)
  <2> SUFFICES ASSUME NEW i PROVE <<m, i>> \in Rest <=> i \in Nat /\ <<m, i - 1>> \in Slots(c, f)
    OBVIOUS
  <2>1. <<m, i>> \in Rest <=> i \in 1..Len(b[m]) /\ b[m][i] = f /\ i # 1
    BY <1>5
  <2>2. <<m, i - 1>> \in Slots(c, f) <=> (i - 1) \in 1..Len(c[m]) /\ c[m][i - 1] = f
    BY <1>6
  <2> HIDE DEF Rest
  <2>3. ASSUME i \in Nat, (i - 1) \in 1..Len(c[m]) PROVE c[m][i - 1] = b[m][i] /\ i \in 1..Len(b[m]) /\ i # 1
    <3>1. c[m][i - 1] = b[m][(i - 1) + 1]
      BY <1>2, <1>4, <2>3
    <3> QED
      BY <1>2, <1>4, <2>3, <3>1
  <2>4. ASSUME i \in 1..Len(b[m]), i # 1 PROVE i \in Nat /\ (i - 1) \in 1..Len(c[m])
    BY <1>2, <1>4, <2>4
  <2> QED
    BY <2>1, <2>2, <2>3, <2>4
<1>8. \A n, i : n # m => (<<n, i>> \in Rest <=> <<n, i>> \in Slots(c, f))
  BY <1>4, <1>5, <1>6
<1>9. \A e \in Rest : e = <<e[1], e[2]>> /\ <<e[1], e[2]>> \in Rest
  BY <1>5
<1>10. \A i : <<m, i>> \in Slots(c, f) => i \in Nat /\ <<m, i + 1>> \in Rest
  <2> SUFFICES ASSUME NEW i, <<m, i>> \in Slots(c, f) PROVE i \in Nat /\ <<m, i + 1>> \in Rest
    OBVIOUS
  <2>1. i \in 1..Len(c[m])
    BY <1>6
  <2>2. i \in Nat /\ i + 1 \in Nat /\ (i + 1) - 1 = i
    BY <1>2, <1>4, <2>1
  <2> HIDE DEF Rest
  <2> QED
    BY <1>7, <2>2
<1>11. \A i : <<m, i>> \in Rest => i \in Nat
  BY <1>7
<1> HIDE DEF Rest
<1>12. shift \in [Rest -> Slots(c, f)]
  <2> SUFFICES ASSUME NEW e \in Rest PROVE (IF e[1] = m THEN <<m, e[2] - 1>> ELSE e) \in Slots(c, f)
    OBVIOUS
  <2>1. CASE e[1] = m
    <3>1. <<m, e[2]>> \in Rest
      BY <1>9, <2>1
    <3> QED
      BY <1>7, <2>1, <3>1
  <2>2. CASE e[1] # m
    <3>1. <<e[1], e[2]>> \in Slots(c, f) /\ e = <<e[1], e[2]>>
      BY <1>8, <1>9, <2>2
    <3> QED
      BY <2>2, <3>1
  <2> QED
    BY <2>1, <2>2
<1>13. ASSUME NEW d \in Rest, NEW e \in Rest, shift[d] = shift[e] PROVE d = e
  <2>1. d = <<d[1], d[2]>> /\ e = <<e[1], e[2]>>
    BY <1>9
  <2>2. /\ shift[d] = IF d[1] = m THEN <<m, d[2] - 1>> ELSE d
        /\ shift[e] = IF e[1] = m THEN <<m, e[2] - 1>> ELSE e
    OBVIOUS
  <2> HIDE DEF shift
  <2>3. CASE d[1] = m /\ e[1] = m
    <3>1. d[2] \in Nat /\ e[2] \in Nat
      BY <1>9, <1>11, <2>3
    <3>2. <<m, d[2] - 1>> = <<m, e[2] - 1>>
      BY <1>13, <2>2, <2>3
    <3>3. d[2] - 1 = e[2] - 1
      BY ONLY <3>2
    <3>4. d[2] = e[2]
      BY ONLY <3>1, <3>3
    <3> QED
      BY <2>1, <2>3, <3>4
  <2>4. CASE d[1] = m /\ e[1] # m
    <3>1. <<m, d[2] - 1>> = <<e[1], e[2]>>
      BY <1>13, <2>1, <2>2, <2>4
    <3>2. m = e[1]
      BY ONLY <3>1
    <3> QED
      BY <2>4, <3>2
  <2>5. CASE d[1] # m /\ e[1] = m
    <3>1. <<m, e[2] - 1>> = <<d[1], d[2]>>
      BY <1>13, <2>1, <2>2, <2>5
    <3>2. m = d[1]
      BY ONLY <3>1
    <3> QED
      BY <2>5, <3>2
  <2>6. CASE d[1] # m /\ e[1] # m
    BY <1>13, <2>2, <2>6
  <2> QED
    BY <2>3, <2>4, <2>5, <2>6
<1>14. ASSUME NEW e \in Slots(c, f) PROVE \E d \in Rest : shift[d] = e
  <2>1. e = <<e[1], e[2]>> /\ <<e[1], e[2]>> \in Slots(c, f)
    BY <1>6
  <2>2. CASE e[1] = m
    <3>1. e[2] \in Nat /\ <<m, e[2] + 1>> \in Rest
      BY <1>10, <2>1, <2>2
    <3>2. shift[<<m, e[2] + 1>>] = <<m, (e[2] + 1) - 1>>
      BY <3>1
    <3>3. (e[2] + 1) - 1 = e[2]
      BY <3>1
    <3>4. shift[<<m, e[2] + 1>>] = e
      BY <2>1, <2>2, <3>2, <3>3
    <3> QED
      BY <3>1, <3>4
  <2>3. CASE e[1] # m
    <3>1. e \in Rest
      BY <1>8, <2>1, <2>3
    <3>2. shift[e] = e
      BY <2>3, <3>1
    <3> QED
      BY <3>1, <3>2
  <2> QED
    BY <2>2, <2>3
<1>15. ExistsBijection(Rest, Slots(c, f))
  <2>1. shift \in Injection(Rest, Slots(c, f))
    BY <1>12, <1>13 DEF Injection, IsInjective
  <2>2. shift \in Surjection(Rest, Slots(c, f))
    <3> HIDE DEF shift
    <3> QED
      BY <1>12, <1>14 DEF Surjection
  <2> QED
    BY <2>1, <2>2 DEF Bijection, ExistsBijection
<1>16. CASE f = Head(b[m])
  <2>1. <<m, 1>> \in Slots(b, f)
    BY <1>3, <1>5, <1>16
  <2>2. IsFiniteSet(Rest) /\ Cardinality(Rest) = Cardinality(Slots(b, f)) - 1
    BY <2>1, SlotsAreFinite, OneLess DEF Rest
  <2> QED
    BY <1>15, <1>16, <2>2, FS_Bijection
<1>17. CASE f # Head(b[m])
  <2>1. Rest = Slots(b, f)
    BY <1>3, <1>5, <1>17 DEF Rest
  <2>2. IsFiniteSet(Rest) /\ Cardinality(Rest) \in Nat
    BY <2>1, SlotsAreFinite, FS_CardinalityType
  <2>3. Cardinality(Slots(c, f)) = Cardinality(Rest)
    BY <1>15, <2>2, FS_Bijection
  <2> QED
    BY <1>17, <2>1, <2>2, <2>3
<1> QED
  BY <1>16, <1>17

\* An inbox is emptied.
LEMMA SlotsEmptied ==
  ASSUME NEW b \in Boxes, NEW m \in Models
  PROVE  \A f \in Frames : /\ Cardinality(Slots([b EXCEPT ![m] = <<>>], f))
                                = Cardinality(Slots(b, f)) - Cardinality(Places(b[m], f))
                           /\ Cardinality(Places(b[m], f)) \in Nat
<1> DEFINE c == [b EXCEPT ![m] = <<>>]
<1> SUFFICES ASSUME NEW f \in Frames
             PROVE  /\ Cardinality(Slots(c, f)) = Cardinality(Slots(b, f)) - Cardinality(Places(b[m], f))
                    /\ Cardinality(Places(b[m], f)) \in Nat
  OBVIOUS
<1>1. b \in [Models -> Seq(Frames)] /\ b[m] \in Seq(Frames) /\ Len(b[m]) \in Nat
  BY DEF Boxes
<1>2. c \in Boxes /\ c \in [Models -> Seq(Frames)] /\ c[m] = <<>> /\ \A n \in Models : n # m => c[n] = b[n]
  <2>1. <<>> \in Seq(Frames) /\ Len(<<>>) <= Capacity
    BY Nodes
  <2> QED
    BY <1>1, <2>1 DEF Boxes
<1>3. /\ \A n, i : <<n, i>> \in Slots(b, f) <=> n \in Models /\ i \in 1..Len(b[n]) /\ b[n][i] = f
      /\ \A e \in Slots(b, f) : e = <<e[1], e[2]>> /\ <<e[1], e[2]>> \in Slots(b, f)
  BY <1>1, SlotsAre
<1> HIDE DEF c
<1>4. /\ \A n, i : <<n, i>> \in Slots(c, f) <=> n \in Models /\ i \in 1..Len(c[n]) /\ c[n][i] = f
      /\ \A e \in Slots(c, f) : e = <<e[1], e[2]>> /\ <<e[1], e[2]>> \in Slots(c, f)
  BY <1>2, SlotsAre
<1> DEFINE Own == {<<m, i>> : i \in Places(b[m], f)}
           own == [i \in Places(b[m], f) |-> <<m, i>>]
<1>5. Places(b[m], f) = {i \in 1..Len(b[m]) : b[m][i] = f}
  BY <1>1 DEF Places
<1>6. IsFiniteSet(Places(b[m], f)) /\ Cardinality(Places(b[m], f)) \in Nat
  <2>1. 1 \in Int /\ Len(b[m]) \in Int
    BY <1>1
  <2>2. IsFiniteSet(1..Len(b[m]))
    BY <2>1, FS_Interval
  <2> QED
    BY <1>5, <2>2, FS_Subset, FS_CardinalityType
<1>7. ExistsBijection(Places(b[m], f), Own)
  <2>1. own \in Injection(Places(b[m], f), Own)
    BY DEF Injection, IsInjective
  <2>2. own \in Surjection(Places(b[m], f), Own)
    BY DEF Surjection
  <2> QED
    BY <2>1, <2>2 DEF Bijection, ExistsBijection
<1>8. IsFiniteSet(Own) /\ Cardinality(Own) = Cardinality(Places(b[m], f))
  BY <1>6, <1>7, FS_Bijection
<1>9. Slots(b, f) = Slots(c, f) \cup Own
  <2>1. ASSUME NEW e \in Slots(b, f) PROVE e \in Slots(c, f) \cup Own
    <3>1. e = <<e[1], e[2]>> /\ e[1] \in Models /\ e[2] \in 1..Len(b[e[1]]) /\ b[e[1]][e[2]] = f
      BY <1>3
    <3>2. CASE e[1] = m
      BY <1>5, <3>1, <3>2
    <3>3. CASE e[1] # m
      <4>1. <<e[1], e[2]>> \in Slots(c, f)
        BY <1>2, <1>4, <3>1, <3>3
      <4> QED
        BY <3>1, <4>1
    <3> QED
      BY <3>2, <3>3
  <2>2. ASSUME NEW e \in Slots(c, f) PROVE e \in Slots(b, f)
    <3>1. e = <<e[1], e[2]>> /\ e[1] \in Models /\ e[2] \in 1..Len(c[e[1]]) /\ c[e[1]][e[2]] = f
      BY <1>4
    <3>2. e[1] # m
      BY <1>2, <3>1
    <3>3. <<e[1], e[2]>> \in Slots(b, f)
      BY <1>2, <1>3, <3>1, <3>2
    <3> QED
      BY <3>1, <3>3
  <2>3. ASSUME NEW e \in Own PROVE e \in Slots(b, f)
    BY <1>3, <1>5
  <2> QED
    BY <2>1, <2>2, <2>3
<1>10. Slots(c, f) \cap Own = {}
  <2> SUFFICES ASSUME NEW i, <<m, i>> \in Slots(c, f) PROVE FALSE
    OBVIOUS
  <2> QED
    BY <1>2, <1>4
<1> HIDE DEF Own
<1>11. IsFiniteSet(Slots(c, f)) /\ Cardinality(Slots(c, f)) \in Nat
  BY <1>2, SlotsAreFinite, FS_CardinalityType
<1>12. Cardinality(Slots(b, f)) = Cardinality(Slots(c, f)) + Cardinality(Own) - 0
  BY <1>8, <1>9, <1>10, <1>11, FS_Union, FS_EmptySet
<1> QED
  BY <1>6, <1>8, <1>11, <1>12
\* A thread keeps the counts.
LEMMA ThreadsKeepCounts ==
  ASSUME VarTypes, ThreadInv, Counted, box \in Boxes, box' \in Boxes, NEW s \in Senders, Thread(s)
  PROVE  Counted'
<1> USE Nodes
<1>1. refs \in [Frames -> Nat]
  BY DEF Counted
<1>2. CASE UNCHANGED <<refs, hand, context, box>>
  BY <1>2, CountsAre DEF Counted, RefsAreExact
<1>3. CASE s = Camera /\ Capture
  <2>1. PICK g \in Frames : /\ refs[g] = 0 /\ refs' = [refs EXCEPT ![g] = 1]
                            /\ hand' = [hand EXCEPT ![Camera] = g]
    BY <1>3 DEF Capture
  <2>2. hand[Camera] = NoFrame /\ context[Camera] = Nobody /\ context' = context /\ box' = box
    BY <1>3 DEF Capture, ThreadInv
  <2>3. \A f \in Frames :
            /\ Cardinality(Holders(hand', f)) = Cardinality(Holders(hand, f)) + (IF f = g THEN 1 ELSE 0)
            /\ Offering(hand', context', f) = Offering(hand, context, f)
    BY <2>1, <2>2, HoldersGain
  <2>4. \A f \in Frames : refs'[f] = refs[f] + (IF f = g THEN 1 ELSE 0)
    BY <1>1, <2>1
  <2>5. refs' \in [Frames -> Nat]
    BY <1>1, <2>1
  <2>6. ASSUME NEW f \in Frames PROVE Balanced(f)
    <3> DEFINE d == IF f = g THEN 1 ELSE 0
    <3>1. d \in Int /\ 0 \in Int /\ refs'[f] = refs[f] + d + 0 + 0
      BY <1>1, <2>4
    <3>2. /\ Cardinality(Holders(hand', f)) = Cardinality(Holders(hand, f)) + d
          /\ Cardinality(Offering(hand', context', f)) = Cardinality(Offering(hand, context, f)) + 0
          /\ Cardinality(Slots(box', f)) = Cardinality(Slots(box, f)) + 0
      BY <2>2, <2>3, SameTerms
    <3> HIDE DEF d
    <3> QED
      BY <3>1, <3>2 DEF Balanced
  <2> QED
    BY <2>5, <2>6, CountsKept
<1>4. CASE s # Camera /\ Fetch(s)
  <2>1. s \in Models /\ box[s] \in Seq(Frames) /\ box[s] # <<>>
    BY <1>4 DEF Fetch, VarTypes
  <2> DEFINE g == Head(box[s])
  <2>2. /\ g \in Frames /\ hand' = [hand EXCEPT ![s] = g] /\ box' = [box EXCEPT ![s] = Tail(@)]
        /\ refs' = refs /\ context' = context /\ hand[s] = NoFrame /\ context[s] = Nobody
    BY <1>4, <2>1 DEF Fetch, ThreadInv
  <2>3. \A f \in Frames : Cardinality(Slots(box', f)) = Cardinality(Slots(box, f)) - (IF f = g THEN 1 ELSE 0)
    BY <2>1, <2>2, SlotsLose
  <2> HIDE DEF g
  <2>4. \A f \in Frames :
            /\ Cardinality(Holders(hand', f)) = Cardinality(Holders(hand, f)) + (IF f = g THEN 1 ELSE 0)
            /\ Offering(hand', context', f) = Offering(hand, context, f)
    BY <2>2, HoldersGain
  <2>5. ASSUME NEW f \in Frames PROVE Balanced(f)
    <3> DEFINE d == IF f = g THEN 1 ELSE 0
               e == 0 - d
    <3>1. d \in Int /\ e \in Int /\ 0 \in Int /\ refs'[f] = refs[f] + d + 0 + e
      BY <1>1, <2>2
    <3>2. Cardinality(Slots(box', f)) = Cardinality(Slots(box, f)) + e
      <4>1. Cardinality(Slots(box, f)) \in Nat
        BY CountsAreNumbers
      <4> QED
        BY <2>3, <4>1
    <3>3. /\ Cardinality(Holders(hand', f)) = Cardinality(Holders(hand, f)) + d
          /\ Cardinality(Offering(hand', context', f)) = Cardinality(Offering(hand, context, f)) + 0
      BY <2>4, SameTerms
    <3> HIDE DEF d, e
    <3> QED
      BY <3>1, <3>2, <3>3 DEF Balanced
  <2> QED
    BY <1>1, <2>2, <2>5, CountsKept
<1>5. CASE MakeContext(s)
  <2>1. PICK m \in todo[s] : context' = [context EXCEPT ![s] = m]
    BY <1>5 DEF MakeContext
  <2> DEFINE g == hand[s]
  <2>2. /\ g \in Frames /\ m \in Models /\ refs' = [refs EXCEPT ![g] = @ + 1] /\ context[s] = Nobody
        /\ hand' = hand /\ box' = box
    BY <1>5 DEF MakeContext, ThreadInv, VarTypes
  <2>3. \A f \in Frames : Cardinality(Offering(hand, context', f))
                          = Cardinality(Offering(hand, context, f)) + (IF f = g THEN 1 ELSE 0)
    BY <2>1, <2>2, OfferingGains
  <2> HIDE DEF g
  <2>4. refs' \in [Frames -> Nat] /\ \A f \in Frames : refs'[f] = refs[f] + (IF f = g THEN 1 ELSE 0)
    BY <1>1, <2>2
  <2>5. ASSUME NEW f \in Frames PROVE Balanced(f)
    <3> DEFINE d == IF f = g THEN 1 ELSE 0
    <3>1. d \in Int /\ 0 \in Int /\ refs'[f] = refs[f] + 0 + d + 0
      BY <1>1, <2>4
    <3>2. /\ Cardinality(Holders(hand', f)) = Cardinality(Holders(hand, f)) + 0
          /\ Cardinality(Slots(box', f)) = Cardinality(Slots(box, f)) + 0
      BY <2>2, SameTerms
    <3>3. Cardinality(Offering(hand', context', f)) = Cardinality(Offering(hand, context, f)) + d
      BY <2>2, <2>3
    <3> HIDE DEF d
    <3> QED
      BY <3>1, <3>2, <3>3 DEF Balanced
  <2> QED
    BY <2>4, <2>5, CountsKept
<1>6. CASE Post(s)
  <2> DEFINE g == hand[s]
             m == context[s]
  <2>1. /\ g \in Frames /\ m \in Models /\ context[s] # Nobody /\ context' = [context EXCEPT ![s] = Nobody]
        /\ hand' = hand
        /\ box' = IF Accepts(m) THEN [box EXCEPT ![m] = Append(@, g)] ELSE box
        /\ refs' = IF Accepts(m) THEN refs ELSE [refs EXCEPT ![g] = @ - 1]
    BY <1>6 DEF Post, ThreadInv, VarTypes
  <2>2. \A f \in Frames : Cardinality(Offering(hand, context', f))
                          = Cardinality(Offering(hand, context, f)) - (IF f = g THEN 1 ELSE 0)
    BY <2>1, OfferingLoses
  <2> HIDE DEF g, m
  <2>3. CASE Accepts(m)
    <3>1. \A f \in Frames : Cardinality(Slots(box', f)) = Cardinality(Slots(box, f)) + (IF f = g THEN 1 ELSE 0)
      <4>1. box' = [box EXCEPT ![m] = Append(@, g)] /\ g \in Frames /\ m \in Models
        BY <2>1, <2>3
      <4>2. \A f \in Frames : Cardinality(Slots([box EXCEPT ![m] = Append(@, g)], f))
                              = Cardinality(Slots(box, f)) + (IF f = g THEN 1 ELSE 0)
        BY ONLY <4>1, box \in Boxes, SlotsGain
      <4> QED
        BY <4>1, <4>2
    <3>2. refs' = refs
      BY <2>1, <2>3
    <3>3. ASSUME NEW f \in Frames PROVE Balanced(f)
      <4> DEFINE d == IF f = g THEN 1 ELSE 0
                 e == 0 - d
      <4>1. d \in Int /\ e \in Int /\ 0 \in Int /\ refs'[f] = refs[f] + 0 + e + d
        BY <1>1, <3>2
      <4>2. Cardinality(Offering(hand', context', f)) = Cardinality(Offering(hand, context, f)) + e
        <5>1. Cardinality(Offering(hand, context, f)) \in Nat
          BY CountsAreNumbers
        <5>2. hand' = hand
          BY <2>1
        <5>3. Offering(hand', context', f) = Offering(hand, context', f)
          BY <5>2
        <5>4. Cardinality(Offering(hand', context', f))
              = Cardinality(Offering(hand, context, f)) - (IF f = g THEN 1 ELSE 0)
          BY <2>2, <5>3
        <5> QED
          BY <5>1, <5>4
      <4>3. /\ Cardinality(Holders(hand', f)) = Cardinality(Holders(hand, f)) + 0
            /\ Cardinality(Slots(box', f)) = Cardinality(Slots(box, f)) + d
        BY <2>1, <3>1, SameTerms
      <4> HIDE DEF d, e
      <4> QED
        BY <4>1, <4>2, <4>3 DEF Balanced
    <3> QED
      BY <1>1, <3>2, <3>3, CountsKept
  <2>4. CASE ~Accepts(m)
    <3>1. refs' \in [Frames -> Int] /\ \A f \in Frames : refs'[f] = refs[f] - (IF f = g THEN 1 ELSE 0)
      BY <1>1, <2>1, <2>4
    <3>2. ASSUME NEW f \in Frames PROVE Balanced(f)
      <4> DEFINE e == 0 - (IF f = g THEN 1 ELSE 0)
      <4>1. e \in Int /\ 0 \in Int /\ refs'[f] = refs[f] + 0 + e + 0
        BY <1>1, <3>1
      <4>2. Cardinality(Offering(hand', context', f)) = Cardinality(Offering(hand, context, f)) + e
        <5>1. Cardinality(Offering(hand, context, f)) \in Nat
          BY CountsAreNumbers
        <5>2. hand' = hand
          BY <2>1
        <5>3. Offering(hand', context', f) = Offering(hand, context', f)
          BY <5>2
        <5>4. Cardinality(Offering(hand', context', f))
              = Cardinality(Offering(hand, context, f)) - (IF f = g THEN 1 ELSE 0)
          BY <2>2, <5>3
        <5> QED
          BY <5>1, <5>4
      <4>3. /\ Cardinality(Holders(hand', f)) = Cardinality(Holders(hand, f)) + 0
            /\ Cardinality(Slots(box', f)) = Cardinality(Slots(box, f)) + 0
        BY <2>1, <2>4, SameTerms
      <4> HIDE DEF e
      <4> QED
        BY <4>1, <4>2, <4>3 DEF Balanced
    <3> QED
      BY <3>1, <3>2, CountsKept
  <2> QED
    BY <2>3, <2>4
<1>7. CASE Release(s)
  <2> DEFINE g == hand[s]
  <2>1. /\ g \in Frames /\ hand' = [hand EXCEPT ![s] = NoFrame] /\ refs' = [refs EXCEPT ![g] = @ - 1]
        /\ context[s] = Nobody /\ context' = context /\ box' = box
    BY <1>7 DEF Release, ThreadInv
  <2>2. \A f \in Frames :
            /\ Cardinality(Holders(hand', f)) = Cardinality(Holders(hand, f)) - (IF f = g THEN 1 ELSE 0)
            /\ Offering(hand', context', f) = Offering(hand, context, f)
    BY <2>1, HoldersLose
  <2> HIDE DEF g
  <2>3. refs' \in [Frames -> Int] /\ \A f \in Frames : refs'[f] = refs[f] - (IF f = g THEN 1 ELSE 0)
    BY <1>1, <2>1
  <2>4. ASSUME NEW f \in Frames PROVE Balanced(f)
    <3> DEFINE e == 0 - (IF f = g THEN 1 ELSE 0)
    <3>1. e \in Int /\ 0 \in Int /\ refs'[f] = refs[f] + e + 0 + 0
      BY <1>1, <2>3
    <3>2. Cardinality(Holders(hand', f)) = Cardinality(Holders(hand, f)) + e
      <4>1. Cardinality(Holders(hand, f)) \in Nat
        BY CountsAreNumbers
      <4> QED
        BY <2>2, <4>1
    <3>3. /\ Cardinality(Offering(hand', context', f)) = Cardinality(Offering(hand, context, f)) + 0
          /\ Cardinality(Slots(box', f)) = Cardinality(Slots(box, f)) + 0
      <4>1. Offering(hand', context', f) = Offering(hand, context, f)
        BY <2>2
      <4>2. Slots(box', f) = Slots(box, f)
        BY <2>1
      <4> QED
        BY <4>1, <4>2, SameTerms
    <3> HIDE DEF e
    <3> QED
      BY <3>1, <3>2, <3>3 DEF Balanced
  <2> QED
    BY <2>3, <2>4, CountsKept
<1> QED
  BY <1>2, <1>3, <1>4, <1>5, <1>6, <1>7
     DEF Thread, Top, Withhold, LockSubscribers, UnlockSubscribers, CaptureNothing, FetchNothing

\* So does the worker, which empties inboxes.
LEMMA WorkKeepsCounts ==
  ASSUME VarTypes, Counted, box \in Boxes, box' \in Boxes, Worker
  PROVE  Counted'
<1>1. refs \in [Frames -> Nat]
  BY DEF Counted
<1>2. CASE UNCHANGED <<refs, hand, context, box>>
  BY <1>2, CountsAre DEF Counted, RefsAreExact
<1>3. ASSUME NEW m \in Models, Open(m) \/ Clear(m) \/ Free(m) PROVE Counted'
  <2>1. /\ refs' = [f \in Frames |-> refs[f] - Cardinality(Places(box[m], f))]
        /\ box' = [box EXCEPT ![m] = <<>>] /\ hand' = hand /\ context' = context
    BY <1>3 DEF Open, Clear, Free, Released, threads
  <2>2. \A f \in Frames : /\ Cardinality(Slots(box', f)) = Cardinality(Slots(box, f)) - Cardinality(Places(box[m], f))
                          /\ Cardinality(Places(box[m], f)) \in Nat
    BY <2>1, SlotsEmptied
  <2>3. refs' \in [Frames -> Int]
    BY <1>1, <2>1, <2>2
  <2>4. ASSUME NEW f \in Frames PROVE Balanced(f)
    <3> DEFINE d == Cardinality(Places(box[m], f))
               e == 0 - d
    <3>1. d \in Nat /\ refs'[f] = refs[f] - d
      BY <2>1, <2>2
    <3>2. Cardinality(Slots(box', f)) = Cardinality(Slots(box, f)) - d
      BY <2>2
    <3> HIDE DEF d
    <3>3. e \in Int /\ 0 \in Int /\ refs'[f] = refs[f] + 0 + 0 + e
      BY <1>1, <3>1
    <3>4. Cardinality(Slots(box', f)) = Cardinality(Slots(box, f)) + e
      <4>1. Cardinality(Slots(box, f)) \in Nat
        BY CountsAreNumbers
      <4> QED
        BY <3>1, <3>2, <4>1
    <3>5. /\ Cardinality(Holders(hand', f)) = Cardinality(Holders(hand, f)) + 0
          /\ Cardinality(Offering(hand', context', f)) = Cardinality(Offering(hand, context, f)) + 0
      BY <2>1, SameTerms
    <3> HIDE DEF e
    <3> QED
      BY <3>3, <3>4, <3>5 DEF Balanced
  <2> QED
    BY <2>3, <2>4, CountsKept
<1> QED
  BY <1>2, <1>3 DEF Worker, Attach, Detach, Spawn, Halt, Join, InitMmf, ExitMmf, FreeCamera, threads

\* At first nobody holds a frame.
LEMMA InitIsCounted == Init => Counted
<1> SUFFICES ASSUME Init PROVE Counted
  OBVIOUS
<1>1. ASSUME NEW f \in Frames PROVE refs[f] = Cardinality(Holders(hand, f)) + Cardinality(Offering(hand, context, f))
                                             + Cardinality(Slots(box, f))
  <2>1. Holders(hand, f) = {} /\ Offering(hand, context, f) = {}
    BY Nodes DEF Init, Holders, Offering
  <2>2. Slots(box, f) = {}
    <3>1. box = [m \in Models |-> <<>>] /\ box \in [Models -> Seq(Frames)]
      BY DEF Init
    <3> SUFFICES ASSUME NEW e \in Slots(box, f) PROVE FALSE
      OBVIOUS
    <3>2. <<e[1], e[2]>> \in Slots(box, f)
      BY <3>1, SlotsAre
    <3>3. e[1] \in Models /\ e[2] \in 1..Len(box[e[1]])
      <4>1. \A m, i : <<m, i>> \in Slots(box, f) => m \in Models /\ i \in 1..Len(box[m])
        BY <3>1, SlotsAre
      <4> QED
        BY <3>2, <4>1
    <3> QED
      BY <3>1, <3>3
  <2>3. refs[f] = 0
    BY DEF Init
  <2> QED
    BY <2>1, <2>2, <2>3, FS_EmptySet
<1>2. refs \in [Frames -> Nat]
  BY DEF Init
<1> QED
  BY <1>1, <1>2, CountsAre DEF Counted

\* The invariant keeps the inboxes within their capacity.
LEMMA BoxesFit == IInv => box \in Boxes
BY DEF IInv, VarTypes, NodeInv, Boxes

\* Every step keeps the counts exact.
LEMMA NextKeepsCounts ==
  ASSUME IInv, IInv', Counted, [Next]_vars
  PROVE  Counted'
<1>1. VarTypes /\ ThreadInv /\ box \in Boxes
  BY BoxesFit DEF IInv
<1>2. box' \in Boxes
  <2>1. (box \in Boxes)'
    BY BoxesFit, PTL
  <2> QED
    BY <2>1 DEF Boxes
<1>3. CASE ControlPlane
  <2>1. UNCHANGED <<refs, hand, context, box>>
    BY <1>3 DEF ControlPlane, CreateModel, CreateCamera, StartModel, StartCamera, StopModel, StopAll, DestroyModel,
       DestroyCamera, DestroyAll, Issue, threads
  <2> QED
    BY <2>1 DEF Counted, RefsAreExact
<1>4. CASE Worker
  BY <1>1, <1>2, <1>4, WorkKeepsCounts
<1>5. CASE \E s \in Senders : Thread(s)
  BY <1>1, <1>2, <1>5, ThreadsKeepCounts
<1>6. CASE UNCHANGED vars
  BY <1>6 DEF vars, threads, Counted, RefsAreExact
<1> QED
  BY <1>3, <1>4, <1>5, <1>6 DEF Next

\* The counts, along with the invariant
LEMMA CountsHold == Spec => [](IInv /\ Counted)
<1>1. Init => IInv /\ Counted
  BY InitHasTheInvariant, InitIsCounted
<1>2. IInv /\ Counted /\ [Next]_vars => (IInv /\ Counted)'
  BY NextKeepsTheInvariant, NextKeepsCounts
<1> QED
  BY <1>1, <1>2, PTL DEF Spec

\* The reference count of a frame is the number of those who hold it, in every
\* network and with inboxes of any capacity.
THEOREM CountsAreExact == Spec => []RefsAreExact
<1>1. Counted => RefsAreExact
  BY DEF Counted
<1> QED
  BY <1>1, CountsHold, PTL

\* No count falls below zero.
THEOREM TypesHold == Spec => []TypeOK
<1>1. IInv /\ Counted => TypeOK
  BY DEF IInv, VarTypes, Counted, TypeOK
<1> QED
  BY <1>1, CountsHold, PTL

\* Each frame in use is in the hand of a thread that runs or in a slot of an
\* inbox that is open.
LEMMA FramesAreSomewhere ==
  ASSUME IInv, Counted, NEW f \in InUse
  PROVE  Holders(hand, f) # {} \/ Slots(box, f) # {}
<1> SUFFICES ASSUME Holders(hand, f) = {}, Slots(box, f) = {} PROVE FALSE
  OBVIOUS
<1>1. Offering(hand, context, f) = {}
  BY DEF Holders, Offering
<1>2. f \in Frames /\ refs[f] > 0
  BY DEF InUse
<1>3. refs[f] = Cardinality(Holders(hand, f)) + Cardinality(Offering(hand, context, f)) + Cardinality(Slots(box, f))
  BY <1>2, CountsAre DEF Counted
<1> QED
  BY <1>1, <1>2, <1>3, FS_EmptySet

\* A frame in use has a holder of its own, or a slot of its own.
LEMMA InUseIsBounded ==
  ASSUME IInv, Counted
  PROVE  InFlightBounded
<1> DEFINE Running == {s \in Senders : pc[s] # "off"}
           Live == {m \in alive : ~interrupted[m] \/ agenda # <<>>}
           Room == Live \X (1..Capacity)
           Held == {f \in InUse : Holders(hand, f) # {}}
           Boxed == {f \in InUse : Holders(hand, f) = {}}
           holder == [f \in Held |-> CHOOSE s \in Holders(hand, f) : TRUE]
           slot == [f \in Boxed |-> CHOOSE e \in Slots(box, f) : TRUE]
<1>1. IsFiniteSet(Running) /\ IsFiniteSet(Live)
  <2>1. Running \in SUBSET Senders
    OBVIOUS
  <2>2. Live \in SUBSET Models
    BY DEF IInv, VarTypes
  <2> QED
    BY <2>1, <2>2, SendersAreFinite, FS_Subset
<1>2. IsFiniteSet(Room) /\ Cardinality(Room) = Cardinality(Live) * Capacity
  <2>1. 1 \in Int /\ Capacity \in Int /\ ~(1 > Capacity) /\ Capacity - 1 + 1 = Capacity
    BY Nodes
  <2>2. IsFiniteSet(1..Capacity) /\ Cardinality(1..Capacity) = Capacity
    BY <2>1, FS_Interval
  <2> HIDE DEF Live
  <2> QED
    BY <1>1, <2>2, FS_Product
<1>3. IsFiniteSet(Held) /\ Cardinality(Held) <= Cardinality(Running)
  <2>1. \A f \in Held : holder[f] \in Senders /\ hand[holder[f]] = f
    BY DEF Holders
  <2>2. \A f \in Held : holder[f] \in Running
    <3>1. \A f \in Held : f \in Frames
      BY DEF InUse
    <3> QED
      BY <2>1, <3>1, Nodes DEF IInv, ThreadInv
  <2>3. holder \in [Held -> Running]
    BY <2>2
  <2>4. holder \in Injection(Held, Running)
    <3>1. \A a, b \in Held : holder[a] = holder[b] => a = b
      BY <2>1
    <3> HIDE DEF holder, Held, Running
    <3> QED
      BY <2>3, <3>1 DEF Injection, IsInjective
  <2> HIDE DEF holder, Held, Running
  <2> QED
    BY <1>1, <2>4, FS_Injection
<1>4. IsFiniteSet(Boxed) /\ Cardinality(Boxed) <= Cardinality(Room)
  <2>1. ASSUME NEW f \in Boxed
        PROVE  /\ slot[f] = <<slot[f][1], slot[f][2]>> /\ slot[f][1] \in Models
               /\ slot[f][2] \in 1..Len(box[slot[f][1]]) /\ box[slot[f][1]][slot[f][2]] = f
    <3>1. Slots(box, f) # {}
      BY FramesAreSomewhere
    <3>2. slot[f] \in Slots(box, f)
      BY <3>1
    <3>3. box \in [Models -> Seq(Frames)]
      BY DEF IInv, VarTypes
    <3> HIDE DEF slot
    <3>4. slot[f] = <<slot[f][1], slot[f][2]>> /\ <<slot[f][1], slot[f][2]>> \in Slots(box, f)
      BY <3>2, <3>3, SlotsAre
    <3>5. \A m, i : <<m, i>> \in Slots(box, f) => m \in Models /\ i \in 1..Len(box[m]) /\ box[m][i] = f
      BY <3>3, SlotsAre
    <3> QED
      BY <3>4, <3>5
  <2>2. ASSUME NEW m \in Models, NEW i \in 1..Len(box[m]) PROVE m \in Live /\ i \in 1..Capacity
    <3>1. box[m] \in Seq(Frames) /\ Len(box[m]) \in Nat /\ Len(box[m]) <= Capacity
      BY DEF IInv, VarTypes, NodeInv
    <3>2. box[m] # <<>>
      BY <3>1
    <3>3. m \in alive
      BY <3>2 DEF IInv, NodeInv
    <3>4. interrupted[m] => agenda # <<>>
      <4>1. \A e : Has(agenda, e) => agenda # <<>>
        BY DEF Has
      <4> QED
        BY <3>2, <4>1 DEF IInv, NodeInv
    <3> QED
      BY <3>1, <3>3, <3>4, Nodes
  <2> HIDE DEF slot, Live, Boxed
  <2>3. ASSUME NEW f \in Boxed PROVE slot[f] \in Room
    <3>1. slot[f][1] \in Live /\ slot[f][2] \in 1..Capacity
      BY <2>1, <2>2
    <3>2. <<slot[f][1], slot[f][2]>> \in Room
      BY <3>1
    <3> QED
      BY <2>1, <3>2
  <2>4. slot \in [Boxed -> Room]
    BY <2>3 DEF slot
  <2>5. \A a, b \in Boxed : slot[a] = slot[b] => a = b
    BY <2>1
  <2> HIDE DEF Room
  <2>6. slot \in Injection(Boxed, Room)
    BY <2>4, <2>5 DEF Injection, IsInjective
  <2> QED
    BY <1>2, <2>6, FS_Injection
<1>5. InUse = Held \cup Boxed /\ Held \cap Boxed = {}
  OBVIOUS
<1>6. Capacity \in Nat /\ Cardinality(Running) \in Nat /\ Cardinality(Live) \in Nat
  BY <1>1, Nodes, FS_CardinalityType
<1>7. Cardinality(Held) \in Nat /\ Cardinality(Boxed) \in Nat
  BY <1>3, <1>4, FS_CardinalityType
<1> HIDE DEF Held, Boxed, Running, Live, Room
<1>8. Cardinality(InUse) = Cardinality(Held) + Cardinality(Boxed)
  <2>1. Cardinality(Held \cup Boxed) = Cardinality(Held) + Cardinality(Boxed) - Cardinality(Held \cap Boxed)
    BY <1>3, <1>4, FS_Union
  <2>2. Cardinality(Held \cap Boxed) = 0
    BY <1>5, FS_EmptySet
  <2>3. Cardinality(InUse) = Cardinality(Held \cup Boxed)
    BY <1>5
  <2> QED
    BY <1>7, <2>1, <2>2, <2>3
<1>9. Cardinality(Live) * Capacity = Capacity * Cardinality(Live)
  BY <1>6
<1>10. Cardinality(InUse) <= Cardinality(Running) + Capacity * Cardinality(Live)
  <2> DEFINE x == Cardinality(Live) * Capacity
  <2>1. x \in Nat
    BY <1>6
  <2>2. Cardinality(Held) <= Cardinality(Running) /\ Cardinality(Boxed) <= x
    BY <1>2, <1>3, <1>4
  <2> HIDE DEF x
  <2>3. Cardinality(InUse) <= Cardinality(Running) + x
    BY <1>6, <1>7, <1>8, <2>1, <2>2
  <2> QED
    BY <1>9, <2>3 DEF x
<1> QED
  BY <1>10 DEF InFlightBounded, Running, Live

\* The blocks in use stay within the threads that run and the inboxes that are
\* open, whatever the network and the order of the commands.
THEOREM UseIsBounded == Spec => []InFlightBounded
<1>1. IInv /\ Counted => InFlightBounded
  BY InUseIsBounded
<1> QED
  BY <1>1, CountsHold, PTL

-----------------------------------------------------------------------------
(* Where models start that are told to, no frame outlives the MMF context    *)

\* Who runs has a thread.
RunnersHaveThreads == \A s \in Senders : running[s] => pc[s] # "off"

\* Whose inbox is opened is started, or runs already.
OpensAreSpawned ==
    \A m \in Models : Has(agenda, Step("open", m)) => Has(agenda, Step("spawn", m)) \/ running[m]

\* Who is created starts, unless nobody feeds it.
AttachesAreFollowed ==
    \A m \in Models :
        Has(agenda, Step("attach", m)) =>
            /\ FedBy[m] = Camera => mmf
            /\ \/ Has(agenda, Step("spawn", m)) \/ running[m]
               \/ pc[FedBy[m]] = "off" /\ ~Has(agenda, Step("spawn", FedBy[m]))

\* When a sender starts, who is attached to it takes its frames or refuses them.
SpawnsReachAll ==
    \A m \in Models :
        Has(agenda, Step("spawn", FedBy[m])) /\ m \in subscribers[FedBy[m]] =>
            running[m] \/ interrupted[m] \/ Has(agenda, Step("spawn", m))

\* The command that creates the camera starts no model.
InitsAreAlone ==
    Has(agenda, Step("init_mmf", Camera)) => \A m \in Models : ~Has(agenda, Step("spawn", m))

\* Behind the shutdown of the MMF context nodes are freed, and nothing else.
ExitsComeLast ==
    \A i, j \in 1..Len(agenda) :
        agenda[i] = Step("exit_mmf", Camera) /\ i < j => agenda[j].op = "free"

\* What is left in an inbox that was interrupted will be cleared.
Cleared == \A m \in Models : box[m] # <<>> /\ interrupted[m] => Has(agenda, Step("clear", m))

\* A model that does not run is about to, or refuses frames, or has none and
\* nobody who sends it any.
IdleAreEmpty ==
    \A m \in Models :
        ~running[m] =>
            \/ Has(agenda, Step("spawn", m))
            \/ interrupted[m]
            \/ box[m] = <<>> /\ (pc[FedBy[m]] = "off" \/ m \notin subscribers[FedBy[m]])

\* The camera does not outlive its MMF context, nor do its subscriptions.
CameraLetsGo ==
    ~mmf \/ Has(agenda, Step("exit_mmf", Camera)) =>
        subscribers[Camera] = {} \/ Has(agenda, Step("free", Camera))

\* Without the MMF context there is no thread, and nothing is in an inbox.
Dark == ~mmf => (\A s \in Senders : pc[s] = "off") /\ (\A m \in Models : box[m] = <<>>)

ShutdownInv ==
    /\ RunnersHaveThreads /\ OpensAreSpawned /\ AttachesAreFollowed /\ SpawnsReachAll /\ InitsAreAlone
    /\ ExitsComeLast /\ Cleared /\ IdleAreEmpty /\ CameraLetsGo /\ Dark

\* What a step of the worker does, node by node.
Deed(op, s0) ==
    /\ op \in {"attach", "detach", "open", "clear"} => s0 \in Models
    /\ op \in {"init_mmf", "exit_mmf"} => s0 = Camera
    /\ \A x \in Senders : pc'[x] = IF op = "spawn" /\ x = s0 THEN "top" ELSE pc[x]
    /\ op = "join" => pc[s0] = "off"
    /\ \A x \in Senders : running'[x] <=> (op = "spawn" /\ x = s0) \/ (running[x] /\ ~(op = "halt" /\ x = s0))
    /\ \A m \in Models : box'[m] = IF op \in {"open", "clear", "free"} /\ m = s0 THEN <<>> ELSE box[m]
    /\ \A m \in Models :
          interrupted'[m] <=> (op = "halt" /\ m = s0) \/ (interrupted[m] /\ ~(op \in {"open", "free"} /\ m = s0))
    /\ \A x \in Senders : \A m \in subscribers'[x] :
          m \in subscribers[x] \/ (op = "attach" /\ m = s0 /\ x = FedBy[m])
    /\ op = "free" => subscribers'[s0] = {}
    /\ mmf' <=> op = "init_mmf" \/ (mmf /\ op # "exit_mmf")

LEMMA WorkIsADeed ==
  ASSUME VarTypes, Worker
  PROVE  \E op \in Building \cup TearingDown : \E s0 \in Senders : Doing(op, s0) /\ Deed(op, s0)
<1> USE Nodes
<1>1. /\ pc \in [Senders -> {"top", "get", "use", "send", "drop", "off"}]
      /\ running \in [Senders -> BOOLEAN]
      /\ box \in [Models -> Seq(Frames)]
      /\ interrupted \in [Models -> BOOLEAN]
      /\ subscribers \in [Senders -> SUBSET Models]
      /\ mmf \in BOOLEAN
  BY DEF VarTypes
<1>2. /\ {"attach", "open", "spawn", "init_mmf"} \subseteq Building \cup TearingDown
      /\ {"detach", "halt", "join", "clear", "free", "exit_mmf"} \subseteq Building \cup TearingDown
  BY DEF Building, TearingDown
<1>3. \A m \in Models : m \in Senders
  OBVIOUS
<1>4. ASSUME NEW m \in Models, Attach(m) PROVE Doing("attach", m) /\ Deed("attach", m)
  BY <1>1, <1>4 DEF Attach, threads, Deed
<1>5. ASSUME NEW m \in Models, Detach(m) PROVE Doing("detach", m) /\ Deed("detach", m)
  BY <1>1, <1>5 DEF Detach, threads, Deed
<1>6. ASSUME NEW m \in Models, Open(m) PROVE Doing("open", m) /\ Deed("open", m)
  BY <1>1, <1>6 DEF Open, threads, Deed
<1>7. ASSUME NEW m \in Models, Clear(m) PROVE Doing("clear", m) /\ Deed("clear", m)
  BY <1>1, <1>7 DEF Clear, threads, Deed
<1>8. ASSUME NEW m \in Models, Free(m) PROVE Doing("free", m) /\ Deed("free", m)
  BY <1>1, <1>8 DEF Free, threads, Deed
<1>9. ASSUME NEW s \in Senders, Spawn(s) PROVE Doing("spawn", s) /\ Deed("spawn", s)
  BY <1>1, <1>9 DEF Spawn, threads, Deed
<1>10. ASSUME NEW s \in Senders, Halt(s) PROVE Doing("halt", s) /\ Deed("halt", s)
  BY <1>1, <1>10 DEF Halt, threads, Deed
<1>11. ASSUME NEW s \in Senders, Join(s) PROVE Doing("join", s) /\ Deed("join", s)
  BY <1>1, <1>11 DEF Join, threads, Deed
<1>12. ASSUME InitMmf PROVE Doing("init_mmf", Camera) /\ Deed("init_mmf", Camera)
  BY <1>1, <1>12 DEF InitMmf, threads, Deed
<1>13. ASSUME ExitMmf PROVE Doing("exit_mmf", Camera) /\ Deed("exit_mmf", Camera)
  BY <1>1, <1>13 DEF ExitMmf, threads, Deed
<1>14. ASSUME FreeCamera PROVE Doing("free", Camera) /\ Deed("free", Camera)
  BY <1>1, <1>14 DEF FreeCamera, threads, Deed
<1> QED
  BY <1>2, <1>3, <1>4, <1>5, <1>6, <1>7, <1>8, <1>9, <1>10, <1>11, <1>12, <1>13, <1>14 DEF Worker

\* What a step of a thread does, as far as the shutdown depends on it.
LEMMA ThreadsOnlyPost ==
  ASSUME IInv, NEW s \in Senders, Thread(s)
  PROVE  /\ UNCHANGED <<running, interrupted, subscribers, mmf, agenda>>
         /\ pc[s] # "off"
         /\ \A x \in Senders : pc[x] = "off" => pc'[x] = "off"
         /\ \A x \in Senders : pc[x] # "off" /\ running[x] => pc'[x] # "off"
         /\ \A m \in Models :
               \/ box'[m] = box[m] \/ box[m] # <<>>
               \/ ~interrupted[m] /\ m \in subscribers[FedBy[m]] /\ pc[FedBy[m]] # "off"
<1> USE Nodes
<1>1. VarTypes /\ ThreadInv /\ SubscriberInv
  BY DEF IInv
<1>2. /\ pc \in [Senders -> {"top", "get", "use", "send", "drop", "off"}]
      /\ running \in [Senders -> BOOLEAN]
      /\ box \in [Models -> Seq(Frames)]
  BY <1>1 DEF VarTypes
<1>3. UNCHANGED <<running, interrupted, subscribers, mmf, agenda>> /\ pc[s] # "off"
  BY DEF Thread, Top, Capture, CaptureNothing, Fetch, FetchNothing, Withhold, LockSubscribers, MakeContext, Post,
     UnlockSubscribers, Release
<1>4. pc' = [pc EXCEPT ![s] = pc'[s]] /\ (pc'[s] = "off" => ~running[s])
  BY <1>2 DEF Thread, Top, Capture, CaptureNothing, Fetch, FetchNothing, Withhold, LockSubscribers, MakeContext, Post,
     UnlockSubscribers, Release
<1>5. \A x \in Senders : /\ pc[x] = "off" => pc'[x] = "off"
                         /\ pc[x] # "off" /\ running[x] => pc'[x] # "off"
  BY <1>2, <1>3, <1>4
<1>6. CASE Post(s)
  <2>1. /\ pc[s] = "send" /\ context[s] # Nobody
        /\ box' = IF Accepts(context[s]) THEN [box EXCEPT ![context[s]] = Append(@, hand[s])] ELSE box
    BY <1>6 DEF Post
  <2>2. context[s] \in subscribers[s]
    BY <1>1, <2>1 DEF ThreadInv
  <2>3. context[s] \in Models /\ FedBy[context[s]] = s
    BY <1>1, <2>2 DEF VarTypes, SubscriberInv
  <2>4. Accepts(context[s]) => ~interrupted[context[s]]
    BY DEF Accepts
  <2>5. \A m \in Models : box'[m] = box[m] \/ (m = context[s] /\ ~interrupted[m])
    BY <1>2, <2>1, <2>3, <2>4
  <2> QED
    BY <1>3, <1>5, <2>1, <2>2, <2>3, <2>5
<1>7. CASE s # Camera /\ Fetch(s)
  <2>1. \A m \in Models : box'[m] = box[m] \/ box[m] # <<>>
    BY <1>2, <1>7 DEF Fetch
  <2> QED
    BY <1>3, <1>5, <2>1
<1>8. CASE box' = box
  BY <1>3, <1>5, <1>8
<1> QED
  BY <1>6, <1>7, <1>8 DEF Thread, Top, Capture, CaptureNothing, FetchNothing, Withhold, LockSubscribers, MakeContext,
     UnlockSubscribers, Release

\* No step of a thread breaks the invariant.
LEMMA ThreadsKeepShutdown ==
  ASSUME IInv, ShutdownInv, NEW s \in Senders, Thread(s)
  PROVE  ShutdownInv'
<1> USE Nodes
<1>1. /\ UNCHANGED <<running, interrupted, subscribers, mmf, agenda>>
      /\ pc[s] # "off"
      /\ \A x \in Senders : pc[x] = "off" => pc'[x] = "off"
      /\ \A x \in Senders : pc[x] # "off" /\ running[x] => pc'[x] # "off"
      /\ \A m \in Models :
            \/ box'[m] = box[m] \/ box[m] # <<>>
            \/ ~interrupted[m] /\ m \in subscribers[FedBy[m]] /\ pc[FedBy[m]] # "off"
  BY ThreadsOnlyPost
<1>2. RunnersHaveThreads'
  BY <1>1 DEF ShutdownInv, RunnersHaveThreads
<1>3. OpensAreSpawned' /\ SpawnsReachAll' /\ InitsAreAlone' /\ ExitsComeLast' /\ CameraLetsGo'
  BY <1>1 DEF ShutdownInv, OpensAreSpawned, SpawnsReachAll, InitsAreAlone, ExitsComeLast, CameraLetsGo
<1>4. AttachesAreFollowed'
  BY <1>1 DEF ShutdownInv, AttachesAreFollowed
<1>5. Cleared'
  BY <1>1 DEF ShutdownInv, Cleared
<1>6. IdleAreEmpty'
  BY <1>1 DEF ShutdownInv, IdleAreEmpty
<1>7. Dark'
  BY <1>1 DEF ShutdownInv, Dark
<1> QED
  BY <1>2, <1>3, <1>4, <1>5, <1>6, <1>7 DEF ShutdownInv

\* Models are started with the camera, or while it runs.
LEMMA CameraFirst ==
  ASSUME FeedersStay, NEW m \in Models, WillRun(m)
  PROVE  WillRun(Camera)
<1> DEFINE N == Len(TopDown)
           Good == {n \in Nat : \A i \in 1..n : i \in 1..N /\ WillRun(TopDown[i]) => WillRun(Camera)}
<1>1. /\ N \in Nat /\ \A i \in 1..N : TopDown[i] \in Models
      /\ \A x \in Models : \E i \in 1..N : TopDown[i] = x
      /\ \A i \in 1..N : FedBy[TopDown[i]] = Camera \/ \E j \in 1..(i - 1) : FedBy[TopDown[i]] = TopDown[j]
  BY Order
<1> HIDE DEF N
<1>2. PICK k \in 1..N : TopDown[k] = m
  BY <1>1
<1>3. ASSUME NEW i \in 1..N, WillRun(TopDown[i]), \A j \in 1..(i - 1) : j \in 1..N /\ WillRun(TopDown[j]) => WillRun(Camera)
      PROVE  WillRun(Camera)
  <2>1. WillRun(FedBy[TopDown[i]])
    BY <1>1, <1>3 DEF FeedersStay
  <2>2. CASE FedBy[TopDown[i]] = Camera
    BY <2>1, <2>2
  <2>3. ASSUME NEW j \in 1..(i - 1), FedBy[TopDown[i]] = TopDown[j] PROVE WillRun(Camera)
    <3>1. j \in 1..N
      BY <1>1
    <3> QED
      BY <1>3, <2>1, <2>3, <3>1
  <2> QED
    BY <1>1, <2>2, <2>3
<1>4. 1 \in Good
  <2>1. ASSUME NEW i \in 1..1, i \in 1..N, WillRun(TopDown[i]) PROVE WillRun(Camera)
    <3>1. \A j \in 1..(i - 1) : FALSE
      OBVIOUS
    <3> QED
      BY <1>3, <2>1, <3>1
  <2> QED
    BY <2>1
<1>5. ASSUME NEW n \in 1..N, n \in Good, n + 1 \in 1..N PROVE n + 1 \in Good
  <2>1. \A i \in 1..n : i \in 1..N /\ WillRun(TopDown[i]) => WillRun(Camera)
    BY <1>5
  <2>2. ASSUME NEW i \in 1..(n + 1), i \in 1..N, WillRun(TopDown[i]) PROVE WillRun(Camera)
    <3>1. CASE i = n + 1
      <4>1. \A j \in 1..(i - 1) : j \in 1..n
        BY <3>1
      <4> QED
        BY <1>3, <2>1, <2>2, <4>1
    <3>2. CASE i # n + 1
      <4>1. i \in 1..n
        BY <3>2
      <4> QED
        BY <2>1, <2>2, <4>1
    <3> QED
      BY <3>1, <3>2
  <2>3. n + 1 \in Nat
    OBVIOUS
  <2> QED
    BY <2>2, <2>3
<1> HIDE DEF Good
<1>6. 1..N \subseteq Good
  BY <1>1, <1>4, <1>5, Induction
<1>7. k \in Good
  BY <1>6
<1> QED
  BY <1>2, <1>7 DEF Good

\* No step of the worker does.
LEMMA WorkKeepsShutdown ==
  ASSUME IInv, ShutdownInv, Worker
  PROVE  ShutdownInv'
<1> USE Nodes, StepsDiffer
<1>1. /\ VarTypes /\ OneKind /\ SpawnsAreSafe /\ HaltsAreCompleted /\ FreesAreSafe /\ ExitsAreSafe /\ FeedersStay
      /\ NodeInv
  BY DEF IInv, AgendaInv
<1>2. PICK op \in Building \cup TearingDown : \E s0 \in Senders : Doing(op, s0) /\ Deed(op, s0)
  BY <1>1, WorkIsADeed
<1>3. PICK s0 \in Senders : Doing(op, s0) /\ Deed(op, s0)
  BY <1>2
<1>4. /\ op \in {"attach", "detach", "open", "clear"} => s0 \in Models
      /\ op \in {"init_mmf", "exit_mmf"} => s0 = Camera
      /\ \A x \in Senders : pc'[x] = IF op = "spawn" /\ x = s0 THEN "top" ELSE pc[x]
      /\ op = "free" => subscribers'[s0] = {}
  BY <1>3 DEF Deed
<1>5. \A x \in Senders : running'[x] <=> (op = "spawn" /\ x = s0) \/ (running[x] /\ ~(op = "halt" /\ x = s0))
  BY <1>3 DEF Deed
<1>6. \A m \in Models : box'[m] = IF op \in {"open", "clear", "free"} /\ m = s0 THEN <<>> ELSE box[m]
  BY <1>3 DEF Deed
<1>7. \A m \in Models :
          interrupted'[m] <=> (op = "halt" /\ m = s0) \/ (interrupted[m] /\ ~(op \in {"open", "free"} /\ m = s0))
  BY <1>3 DEF Deed
<1>8. \A x \in Senders : \A m \in subscribers'[x] :
          m \in subscribers[x] \/ (op = "attach" /\ m = s0 /\ x = FedBy[m])
  BY <1>3 DEF Deed
<1>9. mmf' <=> op = "init_mmf" \/ (mmf /\ op # "exit_mmf")
  BY <1>3 DEF Deed
<1>10. /\ \A e : Has(agenda, e) => e = Step(op, s0) \/ Has(agenda', e)
       /\ \A e : Has(agenda', e) => Has(agenda, e)
       /\ Has(agenda, Step(op, s0))
       /\ 1 \in 1..Len(agenda) /\ agenda[1] = Step(op, s0)
       /\ \A e : ~Before(agenda, 1, e)
       /\ \A e : Behind(agenda, 1, e) => Has(agenda', e)
  BY <1>1, <1>3, PoppedOrder, FirstStep
<1>11. ASSUME NEW op1 \in Building, NEW s1, NEW op2 \in TearingDown, NEW s2,
              Has(agenda, Step(op1, s1)), Has(agenda, Step(op2, s2))
       PROVE  FALSE
  BY <1>1, <1>11, KindsExclude
<1>12. /\ {"attach", "open", "spawn", "init_mmf"} \subseteq Building
       /\ {"detach", "halt", "join", "clear", "free", "exit_mmf"} \subseteq TearingDown
  BY DEF Building, TearingDown
<1>13. /\ RunnersHaveThreads /\ OpensAreSpawned /\ AttachesAreFollowed /\ SpawnsReachAll /\ InitsAreAlone
       /\ ExitsComeLast /\ Cleared /\ IdleAreEmpty /\ CameraLetsGo /\ Dark
  BY DEF ShutdownInv
\* A command that builds stops nobody.
<1>14. ASSUME NEW op1 \in Building, NEW s1, Has(agenda, Step(op1, s1))
       PROVE  op \notin TearingDown /\ op \notin {"halt", "free", "exit_mmf"}
  BY <1>10, <1>11, <1>12, <1>14
<1>15. ASSUME NEW op2 \in TearingDown, NEW s2, Has(agenda, Step(op2, s2))
       PROVE  op \notin Building /\ op \notin {"attach", "open", "spawn", "init_mmf"}
  BY <1>10, <1>11, <1>12, <1>15
<1>16. RunnersHaveThreads'
  <2>1. ASSUME NEW s \in Senders, running'[s] PROVE pc'[s] # "off"
    <3>1. CASE op = "spawn" /\ s = s0
      BY <1>4, <3>1
    <3>2. CASE ~(op = "spawn" /\ s = s0)
      <4>1. running[s]
        BY <1>5, <2>1, <3>2
      <4>2. pc[s] # "off"
        BY <1>13, <4>1 DEF RunnersHaveThreads
      <4> QED
        BY <1>4, <3>2, <4>2
    <3> QED
      BY <3>1, <3>2
  <2> QED
    BY <2>1 DEF RunnersHaveThreads
\* Who is to be started by a command that builds is so, or runs.
<1>17. ASSUME NEW m \in Models, NEW op1 \in Building, NEW s1, Has(agenda, Step(op1, s1)),
              Has(agenda, Step("spawn", m)) \/ running[m]
       PROVE  Has(agenda', Step("spawn", m)) \/ running'[m]
  <2>1. op # "halt"
    BY <1>14, <1>17
  <2>2. CASE running[m]
    BY <1>5, <2>1, <2>2
  <2>3. CASE Has(agenda, Step("spawn", m))
    <3>1. Step(op, s0) = Step("spawn", m) \/ Has(agenda', Step("spawn", m))
      BY <1>10, <2>3
    <3>2. Step(op, s0) = Step("spawn", m) => op = "spawn" /\ m = s0
      OBVIOUS
    <3> QED
      BY <1>5, <3>1, <3>2
  <2> QED
    BY <1>17, <2>2, <2>3
<1>18. OpensAreSpawned'
  <2>1. ASSUME NEW m \in Models, Has(agenda', Step("open", m))
        PROVE  Has(agenda', Step("spawn", m)) \/ running'[m]
    <3>1. Has(agenda, Step("open", m)) /\ "open" \in Building
      BY <1>10, <1>12, <2>1
    <3>2. Has(agenda, Step("spawn", m)) \/ running[m]
      BY <1>13, <3>1 DEF OpensAreSpawned
    <3> QED
      BY <1>17, <3>1, <3>2
  <2> QED
    BY <2>1 DEF OpensAreSpawned
<1>19. AttachesAreFollowed'
  <2>1. ASSUME NEW m \in Models, Has(agenda', Step("attach", m))
        PROVE  /\ FedBy[m] = Camera => mmf'
               /\ \/ Has(agenda', Step("spawn", m)) \/ running'[m]
                  \/ pc'[FedBy[m]] = "off" /\ ~Has(agenda', Step("spawn", FedBy[m]))
    <3>1. Has(agenda, Step("attach", m)) /\ "attach" \in Building
      BY <1>10, <1>12, <2>1
    <3>2. /\ FedBy[m] = Camera => mmf
          /\ \/ Has(agenda, Step("spawn", m)) \/ running[m]
             \/ pc[FedBy[m]] = "off" /\ ~Has(agenda, Step("spawn", FedBy[m]))
      BY <1>13, <3>1 DEF AttachesAreFollowed
    <3>3. FedBy[m] = Camera => mmf'
      <4>1. op # "exit_mmf"
        BY <1>14, <3>1
      <4> QED
        BY <1>9, <3>2, <4>1
    <3>4. CASE Has(agenda, Step("spawn", m)) \/ running[m]
      BY <1>17, <3>1, <3>3, <3>4
    <3>5. CASE pc[FedBy[m]] = "off" /\ ~Has(agenda, Step("spawn", FedBy[m]))
      <4>1. ~Has(agenda', Step("spawn", FedBy[m]))
        BY <1>10, <3>5
      <4>2. ~(op = "spawn" /\ FedBy[m] = s0)
        BY <1>10, <3>5
      <4>3. pc'[FedBy[m]] = "off"
        BY <1>4, <3>5, <4>2
      <4> QED
        BY <3>3, <4>1, <4>3
    <3> QED
      BY <3>2, <3>4, <3>5
  <2> QED
    BY <2>1 DEF AttachesAreFollowed
<1>20. SpawnsReachAll'
  <2>1. ASSUME NEW m \in Models, Has(agenda', Step("spawn", FedBy[m])), m \in subscribers'[FedBy[m]]
        PROVE  running'[m] \/ interrupted'[m] \/ Has(agenda', Step("spawn", m))
    <3>1. Has(agenda, Step("spawn", FedBy[m])) /\ "spawn" \in Building
      BY <1>10, <1>12, <2>1
    <3>2. CASE m \in subscribers[FedBy[m]]
      <4>1. running[m] \/ interrupted[m] \/ Has(agenda, Step("spawn", m))
        BY <1>13, <3>1, <3>2 DEF SpawnsReachAll
      <4>2. CASE Has(agenda, Step("spawn", m)) \/ running[m]
        BY <1>17, <3>1, <4>2
      <4>3. CASE interrupted[m]
        <5>1. op # "free"
          BY <1>14, <3>1
        <5>2. CASE op = "open" /\ m = s0
          <6>1. Has(agenda, Step("open", m))
            BY <1>10, <5>2
          <6>2. Has(agenda, Step("spawn", m)) \/ running[m]
            BY <1>13, <6>1 DEF OpensAreSpawned
          <6> QED
            BY <1>17, <3>1, <6>2
        <5>3. CASE ~(op = "open" /\ m = s0)
          BY <1>7, <4>3, <5>1, <5>3
        <5> QED
          BY <5>2, <5>3
      <4> QED
        BY <4>1, <4>2, <4>3
    <3>3. CASE op = "attach" /\ m = s0
      <4>1. Has(agenda, Step("attach", m))
        BY <1>10, <3>3
      <4>2. Has(agenda, Step("spawn", m)) \/ running[m]
        BY <1>13, <3>1, <4>1 DEF AttachesAreFollowed
      <4> QED
        BY <1>17, <3>1, <4>2
    <3> QED
      BY <1>8, <2>1, <3>2, <3>3
  <2> QED
    BY <2>1 DEF SpawnsReachAll
<1>21. InitsAreAlone'
  BY <1>10, <1>13 DEF InitsAreAlone
<1>22. ExitsComeLast'
  <2>1. /\ Len(agenda) \in Nat /\ Len(agenda') = Len(agenda) - 1
        /\ \A i \in 1..Len(agenda') : i + 1 \in 1..Len(agenda) /\ agenda'[i] = agenda[i + 1]
    BY <1>1, <1>3, Popped
  <2>2. ASSUME NEW i \in 1..Len(agenda'), NEW j \in 1..Len(agenda'), agenda'[i] = Step("exit_mmf", Camera), i < j
        PROVE  agenda'[j].op = "free"
    <3>1. /\ i + 1 \in 1..Len(agenda) /\ agenda[i + 1] = Step("exit_mmf", Camera)
          /\ j + 1 \in 1..Len(agenda) /\ agenda[j + 1] = agenda'[j]
      BY <2>1, <2>2
    <3>2. i + 1 < j + 1
      BY <2>1, <2>2
    <3>3. agenda[j + 1].op = "free"
      BY <1>13, <3>1, <3>2 DEF ExitsComeLast
    <3> QED
      BY <3>1, <3>3
  <2> QED
    BY <2>2 DEF ExitsComeLast
<1>23. Cleared'
  <2>1. ASSUME NEW m \in Models, box'[m] # <<>>, interrupted'[m] PROVE Has(agenda', Step("clear", m))
    <3>1. box[m] # <<>> /\ ~(op = "clear" /\ m = s0)
      BY <1>6, <2>1
    <3>2. CASE interrupted[m]
      <4>1. Has(agenda, Step("clear", m))
        BY <1>13, <3>1, <3>2 DEF Cleared
      <4>2. Step(op, s0) # Step("clear", m)
        BY <3>1
      <4> QED
        BY <1>10, <4>1, <4>2
    <3>3. CASE op = "halt" /\ m = s0
      <4>1. Behind(agenda, 1, Step("clear", m))
        BY <1>1, <1>10, <3>3 DEF HaltsAreCompleted
      <4> QED
        BY <1>10, <4>1
    <3> QED
      BY <1>7, <2>1, <3>2, <3>3
  <2> QED
    BY <2>1 DEF Cleared
<1>24. IdleAreEmpty'
  <2>1. ASSUME NEW m \in Models, ~running'[m]
        PROVE  \/ Has(agenda', Step("spawn", m))
               \/ interrupted'[m]
               \/ box'[m] = <<>> /\ (pc'[FedBy[m]] = "off" \/ m \notin subscribers'[FedBy[m]])
    <3>1. ~(op = "spawn" /\ m = s0)
      BY <1>5, <2>1
    <3>2. Has(agenda, Step("spawn", m)) => Has(agenda', Step("spawn", m))
      BY <1>10, <3>1
    <3>3. CASE op = "halt" /\ m = s0
      BY <1>7, <3>3
    <3>4. CASE ~running[m] /\ Has(agenda, Step("spawn", m))
      BY <3>2, <3>4
    <3>5. CASE ~running[m] /\ interrupted[m]
      <4>1. CASE op = "open" /\ m = s0
        <5>1. Has(agenda, Step("open", m))
          BY <1>10, <4>1
        <5>2. Has(agenda, Step("spawn", m))
          BY <1>13, <3>5, <5>1 DEF OpensAreSpawned
        <5> QED
          BY <3>2, <5>2
      <4>2. CASE op = "free" /\ m = s0
        <5>1. box'[m] = <<>>
          BY <1>6, <4>2
        <5>2. m \notin subscribers[FedBy[m]] \/ pc[FedBy[m]] = "off"
          BY <1>1, <1>10, <4>2 DEF FreesAreSafe, GoneBy
        <5>3. m \notin subscribers'[FedBy[m]] \/ pc'[FedBy[m]] = "off"
          BY <1>4, <1>8, <4>2, <5>2
        <5> QED
          BY <5>1, <5>3
      <4> QED
        BY <1>7, <3>5, <4>1, <4>2
    <3>6. CASE ~running[m] /\ box[m] = <<>> /\ pc[FedBy[m]] = "off"
      <4>1. box'[m] = <<>>
        BY <1>6, <3>6
      <4>2. CASE op = "spawn" /\ FedBy[m] = s0
        <5>1. Has(agenda, Step("spawn", FedBy[m]))
          BY <1>10, <4>2
        <5>2. CASE m \in subscribers[FedBy[m]]
          <6>1. interrupted[m] \/ Has(agenda, Step("spawn", m))
            BY <1>13, <3>6, <5>1, <5>2 DEF SpawnsReachAll
          <6>2. interrupted[m] => interrupted'[m]
            BY <1>7, <4>2
          <6> QED
            BY <3>2, <6>1, <6>2
        <5>3. CASE m \notin subscribers[FedBy[m]]
          BY <1>8, <4>1, <4>2, <5>3
        <5> QED
          BY <5>2, <5>3
      <4>3. CASE ~(op = "spawn" /\ FedBy[m] = s0)
        BY <1>4, <3>6, <4>1, <4>3
      <4> QED
        BY <4>2, <4>3
    <3>7. CASE ~running[m] /\ box[m] = <<>> /\ m \notin subscribers[FedBy[m]]
      <4>1. box'[m] = <<>>
        BY <1>6, <3>7
      <4>2. CASE op = "attach" /\ m = s0
        <5>1. Has(agenda, Step("attach", m))
          BY <1>10, <4>2
        <5>2. Has(agenda, Step("spawn", m)) \/ pc[FedBy[m]] = "off"
          BY <1>13, <3>7, <5>1 DEF AttachesAreFollowed
        <5>3. pc[FedBy[m]] = "off" => pc'[FedBy[m]] = "off"
          BY <1>4, <4>2
        <5> QED
          BY <3>2, <4>1, <5>2, <5>3
      <4>3. CASE ~(op = "attach" /\ m = s0)
        BY <1>8, <3>7, <4>1, <4>3
      <4> QED
        BY <4>2, <4>3
    <3>8. ~running[m] \/ (op = "halt" /\ m = s0)
      BY <1>5, <2>1
    <3>9. ~running[m] => \/ Has(agenda, Step("spawn", m))
                         \/ interrupted[m]
                         \/ box[m] = <<>> /\ (pc[FedBy[m]] = "off" \/ m \notin subscribers[FedBy[m]])
      BY <1>13 DEF IdleAreEmpty
    <3> QED
      BY <3>3, <3>4, <3>5, <3>6, <3>7, <3>8, <3>9
  <2> QED
    BY <2>1 DEF IdleAreEmpty
<1>25. CameraLetsGo'
  <2>1. ASSUME ~mmf' \/ Has(agenda', Step("exit_mmf", Camera))
        PROVE  subscribers'[Camera] = {} \/ Has(agenda', Step("free", Camera))
    <3>1. ~mmf \/ Has(agenda, Step("exit_mmf", Camera))
      <4>1. op = "exit_mmf" => Has(agenda, Step("exit_mmf", Camera))
        BY <1>4, <1>10
      <4> QED
        BY <1>9, <1>10, <2>1, <4>1
    <3>2. subscribers[Camera] = {} \/ Has(agenda, Step("free", Camera))
      BY <1>13, <3>1 DEF CameraLetsGo
    <3>3. CASE Has(agenda, Step("free", Camera))
      <4>1. CASE op = "free" /\ s0 = Camera
        BY <1>4, <4>1
      <4>2. CASE ~(op = "free" /\ s0 = Camera)
        <5>1. Step(op, s0) # Step("free", Camera)
          BY <4>2
        <5> QED
          BY <1>10, <3>3, <5>1
      <4> QED
        BY <4>1, <4>2
    <3>4. CASE subscribers[Camera] = {}
      <4>1. ASSUME op = "attach", FedBy[s0] = Camera PROVE FALSE
        <5>1. s0 \in Models /\ Has(agenda, Step("attach", s0))
          BY <1>4, <1>10, <4>1
        <5>2. mmf
          BY <1>13, <4>1, <5>1 DEF AttachesAreFollowed
        <5>3. Has(agenda, Step("exit_mmf", Camera)) /\ "exit_mmf" \in TearingDown /\ "attach" \in Building
          BY <1>12, <3>1, <5>2
        <5> QED
          BY <1>11, <5>1, <5>3
      <4>2. \A m \in subscribers'[Camera] : FALSE
        BY <1>8, <3>4, <4>1
      <4> QED
        BY <4>2
    <3> QED
      BY <3>2, <3>3, <3>4
  <2> QED
    BY <2>1 DEF CameraLetsGo
<1>26. ASSUME op = "exit_mmf" PROVE (\A s \in Senders : pc[s] = "off") /\ (\A m \in Models : box[m] = <<>>)
  <2>1. agenda[1] = Step("exit_mmf", Camera) /\ Has(agenda, Step("exit_mmf", Camera))
    BY <1>4, <1>10, <1>26
  <2>2. \A s \in Senders : pc[s] = "off"
    BY <1>1, <1>10, <2>1 DEF ExitsAreSafe, GoneBy
  <2>3. ASSUME NEW m \in Models, box[m] # <<>> PROVE FALSE
    <3>1. ~running[m]
      BY <1>13, <2>2 DEF RunnersHaveThreads
    <3>2. ~Has(agenda, Step("spawn", m))
      <4>1. "spawn" \in Building /\ "exit_mmf" \in TearingDown
        BY <1>12
      <4> QED
        BY <1>11, <2>1, <4>1
    <3>3. interrupted[m]
      BY <1>13, <2>3, <3>1, <3>2 DEF IdleAreEmpty
    <3>4. Has(agenda, Step("clear", m))
      BY <1>13, <2>3, <3>3 DEF Cleared
    <3>5. PICK j \in 1..Len(agenda) : agenda[j] = Step("clear", m)
      BY <3>4 DEF Has
    <3>6. Len(agenda) \in Nat /\ j # 1
      BY <1>1, <1>3, <2>1, <3>5, Popped
    <3>7. 1 < j
      BY <3>6
    <3>8. agenda[j].op = "free"
      BY <1>10, <1>13, <2>1, <3>7 DEF ExitsComeLast
    <3> QED
      BY <3>5, <3>8
  <2> QED
    BY <2>2, <2>3
\* Nobody is started without the MMF context: the camera would be started first,
\* and who creates the context starts nobody else.
<1>27. ASSUME ~mmf, op = "spawn" PROVE FALSE
  <2>1. ~running[Camera]
    BY <1>1, <1>27 DEF NodeInv
  <2>2. ASSUME NEW i \in 1..Len(agenda), agenda[i] = Step("spawn", Camera)
        PROVE  Before(agenda, i, Step("init_mmf", Camera))
    BY <1>1, <1>27, <2>2 DEF SpawnsAreSafe
  <2>3. s0 \in Models
    <3>1. s0 # Camera
      BY <1>10, <1>27, <2>2
    <3> QED
      BY <3>1
  <2>4. WillRun(s0)
    BY <1>10, <1>27 DEF WillRun
  <2>5. WillRun(Camera)
    BY <1>1, <2>3, <2>4, CameraFirst
  <2>6. PICK i \in 1..Len(agenda) : agenda[i] = Step("spawn", Camera)
    BY <2>1, <2>5 DEF WillRun, Has
  <2>7. PICK j \in 1..(i - 1) : agenda[j] = Step("init_mmf", Camera)
    BY <2>2, <2>6 DEF Before
  <2>8. j \in 1..Len(agenda)
    <3>1. Len(agenda) \in Nat
      BY <1>1, <1>3, Popped
    <3> QED
      BY <3>1
  <2>9. Has(agenda, Step("init_mmf", Camera)) /\ Has(agenda, Step("spawn", s0))
    BY <1>10, <1>27, <2>7, <2>8 DEF Has
  <2> QED
    BY <1>13, <2>3, <2>9 DEF InitsAreAlone
<1>28. Dark'
  <2>1. ASSUME ~mmf' PROVE (\A s \in Senders : pc'[s] = "off") /\ (\A m \in Models : box'[m] = <<>>)
    <3>1. (\A s \in Senders : pc[s] = "off") /\ (\A m \in Models : box[m] = <<>>)
      <4>1. ~mmf \/ op = "exit_mmf"
        BY <1>9, <2>1
      <4> QED
        BY <1>13, <1>26, <4>1 DEF Dark
    <3>2. op # "spawn"
      BY <1>9, <1>27, <2>1
    <3>3. \A s \in Senders : pc'[s] = "off"
      BY <1>4, <3>1, <3>2
    <3>4. \A m \in Models : box'[m] = <<>>
      BY <1>6, <3>1
    <3> QED
      BY <3>3, <3>4
  <2> QED
    BY <2>1 DEF Dark
<1> QED
  BY <1>16, <1>18, <1>19, <1>20, <1>21, <1>22, <1>23, <1>24, <1>25, <1>28 DEF ShutdownInv

\* It holds at first.
LEMMA InitHasShutdown == Init => ShutdownInv
<1> SUFFICES ASSUME Init PROVE ShutdownInv
  OBVIOUS
<1> USE Nodes
<1>1. Len(agenda) = 0 /\ \A e : ~Has(agenda, e)
  BY DEF Init, Has
<1>2. /\ \A s \in Senders : running[s] /\ pc[s] = "top"
      /\ \A m \in Models : box[m] = <<>> /\ ~interrupted[m]
      /\ mmf
  BY DEF Init
<1>3. RunnersHaveThreads /\ OpensAreSpawned /\ AttachesAreFollowed /\ SpawnsReachAll /\ InitsAreAlone
  BY <1>1, <1>2 DEF RunnersHaveThreads, OpensAreSpawned, AttachesAreFollowed, SpawnsReachAll, InitsAreAlone
<1>4. ExitsComeLast /\ Cleared /\ IdleAreEmpty /\ CameraLetsGo /\ Dark
  BY <1>1, <1>2 DEF ExitsComeLast, Cleared, IdleAreEmpty, CameraLetsGo, Dark
<1> QED
  BY <1>3, <1>4 DEF ShutdownInv

\* The worker gets an agenda.
LEMMA IssueKeepsShutdown ==
  ASSUME IInv, ShutdownInv, NEW name, NEW a, Issue(name, a),
         (OpensAreSpawned /\ AttachesAreFollowed /\ SpawnsReachAll /\ InitsAreAlone /\ ExitsComeLast)',
         Has(a, Step("exit_mmf", Camera)) => Has(a, Step("free", Camera))
  PROVE  ShutdownInv'
<1>1. /\ agenda' = a /\ agenda = <<>>
      /\ UNCHANGED <<pc, running, box, interrupted, subscribers, mmf>>
  BY DEF Issue, threads
<1>2. \A e : ~Has(agenda, e)
  BY <1>1, Quiet
<1>3. RunnersHaveThreads' /\ Dark'
  BY <1>1 DEF ShutdownInv, RunnersHaveThreads, Dark
<1>4. Cleared' /\ IdleAreEmpty'
  BY <1>1, <1>2 DEF ShutdownInv, Cleared, IdleAreEmpty
<1>5. CameraLetsGo'
  BY <1>1, <1>2 DEF ShutdownInv, CameraLetsGo
<1> QED
  BY <1>3, <1>4, <1>5 DEF ShutdownInv

\* A command that builds starts whom it opens or creates, and who is attached to
\* those it starts.
LEMMA BuildingIsFollowed ==
  ASSUME IInv, ShutdownInv, NEW name, NEW a \in Seq([op : Building, of : Senders]), Issue(name, a),
         \A m \in Models : Has(a, Step("open", m)) => Has(a, Step("spawn", m)),
         \A m \in Models : Has(a, Step("attach", m)) =>
            /\ FedBy[m] = Camera => mmf
            /\ Has(a, Step("spawn", m)) \/ (pc[FedBy[m]] = "off" /\ ~Has(a, Step("spawn", FedBy[m]))),
         \A m \in Models : Has(a, Step("spawn", FedBy[m])) /\ m \in subscribers[FedBy[m]] =>
            running[m] \/ Has(a, Step("spawn", m)),
         Has(a, Step("init_mmf", Camera)) => \A m \in Models : ~Has(a, Step("spawn", m))
  PROVE  ShutdownInv'
<1> USE StepsDiffer
<1>1. /\ agenda' = a
      /\ UNCHANGED <<pc, running, box, interrupted, subscribers, mmf>>
  BY DEF Issue, threads
<1>2. \A i \in 1..Len(a) : a[i].op \in Building
  <2> DEFINE E == [op : Building, of : Senders]
  <2>1. a \in Seq(E) /\ \A e \in E : e.op \in Building
    OBVIOUS
  <2> HIDE DEF E
  <2> QED
    BY <2>1
<1>3. \A i \in 1..Len(a) : a[i] # Step("exit_mmf", Camera)
  <2>1. "exit_mmf" \notin Building
    BY DEF Building
  <2> QED
    BY <1>2, <2>1
<1>4. OpensAreSpawned' /\ SpawnsReachAll' /\ InitsAreAlone'
  BY <1>1 DEF OpensAreSpawned, SpawnsReachAll, InitsAreAlone
<1>5. AttachesAreFollowed'
  BY <1>1 DEF AttachesAreFollowed
<1>6. ExitsComeLast' /\ ~Has(a, Step("exit_mmf", Camera))
  BY <1>1, <1>3 DEF ExitsComeLast, Has
<1> QED
  BY <1>4, <1>5, <1>6, IssueKeepsShutdown

\* The steps a tear down, and those behind a shutdown of the MMF context free nodes.
Closing(a) ==
    /\ a \in Seq([op : TearingDown, of : Senders])
    /\ \A i, j \in 1..Len(a) : a[i] = Step("exit_mmf", Camera) /\ i < j => a[j].op = "free"

\* A command that tears down frees the camera when it shuts its context down.
LEMMA TeardownIsFollowed ==
  ASSUME IInv, ShutdownInv, NEW name, NEW a, Issue(name, a), Closing(a),
         Has(a, Step("exit_mmf", Camera)) => Has(a, Step("free", Camera))
  PROVE  ShutdownInv'
<1> USE StepsDiffer
<1>1. agenda' = a
  BY DEF Issue
<1>2. ASSUME NEW op, NEW s, Has(a, Step(op, s)) PROVE op \in TearingDown
  <2>1. PICK i \in 1..Len(a) : a[i] = Step(op, s)
    BY <1>2 DEF Has
  <2> DEFINE E == [op : TearingDown, of : Senders]
  <2>2. a \in Seq(E) /\ \A e \in E : e.op \in TearingDown
    BY DEF Closing
  <2> HIDE DEF E
  <2>3. a[i].op \in TearingDown
    BY <2>2
  <2> QED
    BY <2>1, <2>3
<1>3. \A op \in {"open", "attach", "spawn", "init_mmf"} : \A s : ~Has(a, Step(op, s))
  BY <1>2 DEF TearingDown
<1>4. OpensAreSpawned' /\ AttachesAreFollowed' /\ SpawnsReachAll' /\ InitsAreAlone'
  BY <1>1, <1>3 DEF OpensAreSpawned, AttachesAreFollowed, SpawnsReachAll, InitsAreAlone
<1>5. ExitsComeLast'
  BY <1>1 DEF ExitsComeLast, Closing
<1> QED
  BY <1>4, <1>5, IssueKeepsShutdown

\* A piece behind which nodes are freed, or in front of which nothing is shut down
LEMMA JoinedClosings ==
  ASSUME NEW a, NEW b, Closing(a), Closing(b),
         Of(a, "exit_mmf") = {} \/ \A i \in 1..Len(b) : b[i].op = "free"
  PROVE  /\ Closing(a \o b)
         /\ \A op : Of(a \o b, op) = Of(a, op) \cup Of(b, op)
<1> USE Nodes
<1> DEFINE c == a \o b
           E == [op : TearingDown, of : Senders]
<1>1. a \in Seq(E) /\ b \in Seq(E)
  BY DEF Closing
<1> HIDE DEF E
<1>2. /\ c \in Seq(E) /\ Len(a) \in Nat /\ Len(b) \in Nat
      /\ \A e : Has(c, e) <=> Has(a, e) \/ Has(b, e)
      /\ \A n \in 1..Len(c) : n \in 1..Len(a) \/ \E i \in 1..Len(b) : n = Len(a) + i
      /\ \A i \in 1..Len(a) : c[i] = a[i]
      /\ \A i \in 1..Len(b) : c[Len(a) + i] = b[i]
  BY <1>1, Joined
<1> HIDE DEF c
<1>3. ASSUME NEW i \in 1..Len(c), NEW j \in 1..Len(c), c[i] = Step("exit_mmf", Camera), i < j
      PROVE  c[j].op = "free"
  <2>1. CASE j \in 1..Len(a)
    <3>1. i \in 1..Len(a)
      BY <1>2, <1>3, <2>1
    <3> QED
      BY <1>2, <1>3, <2>1, <3>1 DEF Closing
  <2>2. ASSUME NEW y \in 1..Len(b), j = Len(a) + y PROVE c[j].op = "free"
    <3>1. c[j] = b[y]
      BY <1>2, <2>2
    <3>2. CASE i \in 1..Len(a)
      <4>1. a[i] = Step("exit_mmf", Camera)
        BY <1>2, <1>3, <3>2
      <4>2. Camera \in Of(a, "exit_mmf")
        BY <3>2, <4>1 DEF Of, Has
      <4> QED
        BY <3>1, <4>2
    <3>3. ASSUME NEW x \in 1..Len(b), i = Len(a) + x PROVE c[j].op = "free"
      <4>1. b[x] = Step("exit_mmf", Camera) /\ x < y
        BY <1>2, <1>3, <2>2, <3>3
      <4>2. b[y].op = "free"
        BY <4>1 DEF Closing
      <4> QED
        BY <3>1, <4>2
    <3> QED
      BY <1>2, <3>2, <3>3
  <2> QED
    BY <1>2, <2>1, <2>2
<1>4. Closing(c)
  BY <1>2, <1>3 DEF Closing, E
<1>5. \A op : Of(c, op) = Of(a, op) \cup Of(b, op)
  BY <1>2 DEF Of
<1> QED
  BY <1>4, <1>5 DEF c

\* A teardown without a shutdown of the context
LEMMA OrderlyCloses ==
  ASSUME NEW a, NEW gone, NEW idle, NEW freed, Orderly(a, gone, idle, freed), Of(a, "exit_mmf") = {}
  PROVE  Closing(a) /\ ~Has(a, Step("exit_mmf", Camera))
<1>1. ~Has(a, Step("exit_mmf", Camera))
  BY Nodes DEF Of
<1>2. \A i \in 1..Len(a) : a[i] # Step("exit_mmf", Camera)
  BY <1>1 DEF Has
<1> QED
  BY <1>1, <1>2 DEF Closing, Orderly

\* The start cascade, where all that are told to start do.
LEMMA CascadeStartsAll ==
  ASSUME ~StartFailures, NEW S \in SUBSET Models, NEW failing \in Failing
  PROVE  LET c == Cascade(S, failing)
         IN  /\ c \in Seq([op : Building, of : Senders]) /\ Once(c)
             /\ \A s \in Senders : Has(c, Step("spawn", s)) <=> s \in S
             /\ \A s : ~Has(c, Step("attach", s)) /\ ~Has(c, Step("init_mmf", s))
             /\ \A s : Has(c, Step("open", s)) => s \in S
<1>1. failing = {}
  BY DEF Failing
<1>2. Below(failing) = {}
  <2> DEFINE none == {}
  <2>1. none \in SUBSET Models /\ failing \cap Models \subseteq none
        /\ \A x \in Models : FedBy[x] \in none \cup failing => x \in none
    BY <1>1
  <2> HIDE DEF none
  <2>2. Below(failing) \subseteq none
    BY <2>1, BelowIs
  <2> QED
    BY <2>2 DEF none
<1> DEFINE c == Cascade(S, failing)
<1>3. /\ c \in Seq([op : Building, of : Senders]) /\ Once(c)
      /\ \A s \in Senders : Has(c, Step("spawn", s)) <=> s \in S \ Below(failing)
      /\ \A s : ~Has(c, Step("attach", s)) /\ ~Has(c, Step("init_mmf", s))
      /\ \A s : Has(c, Step("open", s)) => s \in S \ Below(failing) \/ s \in failing
  <2>1. failing \in SUBSET Models
    BY <1>1
  <2> QED
    BY <2>1, CascadeIs
<1> HIDE DEF c
<1>4. (\A s \in Senders : Has(c, Step("spawn", s)) <=> s \in S) /\ \A s : Has(c, Step("open", s)) => s \in S
  BY <1>1, <1>2, <1>3
<1> QED
  BY <1>3, <1>4 DEF c

\* The commands that create and start
LEMMA BuildingsKeepShutdown ==
  ASSUME ~StartFailures, IInv, ShutdownInv,
         \/ \E m \in Models : CreateModel(m) \/ StartModel(m)
         \/ CreateCamera \/ StartCamera
  PROVE  ShutdownInv'
<1> USE Nodes, StepsDiffer
<1>1. agenda = <<>>
  BY DEF CreateModel, StartModel, CreateCamera, StartCamera, Issue
<1>2. running \in [Senders -> BOOLEAN] /\ alive \in SUBSET Models
  BY DEF IInv, VarTypes
<1>3. /\ \A m \in Models : running[m] => m \in alive /\ running[FedBy[m]]
      /\ \A m \in alive : FedBy[m] = Camera \/ FedBy[m] \in alive
      /\ \A s \in Senders : ~running[s] => pc[s] = "off"
      /\ \A e : ~Has(agenda, e)
  BY <1>1, Quiet DEF Resting, Off
<1>4. \A m \in Models : m \in subscribers[FedBy[m]] => m \in alive
  BY <1>3 DEF IInv, SubscriberInv
<1>5. "attach" \in Building /\ "spawn" \in Building /\ "init_mmf" \in Building
  BY DEF Building
<1>6. ASSUME NEW m \in Models, CreateModel(m) PROVE ShutdownInv'
  <2>1. PICK failing \in Failing :
           Issue("create", <<Step("attach", m)>> \o (IF running[FedBy[m]] THEN Cascade({m}, failing) ELSE <<>>))
    BY <1>6 DEF CreateModel
  <2>2. m \notin alive /\ (FedBy[m] = Camera => mmf)
    BY <1>6 DEF CreateModel
  <2> DEFINE c == IF running[FedBy[m]] THEN Cascade({m}, failing) ELSE <<>>
             a == <<Step("attach", m)>> \o c
  <2>3. /\ c \in Seq([op : Building, of : Senders]) /\ Once(c)
        /\ \A s \in Senders : Has(c, Step("spawn", s)) <=> s = m /\ running[FedBy[m]]
        /\ \A s : ~Has(c, Step("attach", s)) /\ ~Has(c, Step("init_mmf", s))
        /\ \A s : Has(c, Step("open", s)) => s = m /\ running[FedBy[m]]
    <3>1. CASE running[FedBy[m]]
      <4> DEFINE one == {m}
      <4>1. one \in SUBSET Models
        OBVIOUS
      <4>2. c = Cascade(one, failing)
        BY <3>1
      <4> HIDE DEF one, c
      <4>3. /\ c \in Seq([op : Building, of : Senders]) /\ Once(c)
            /\ \A s \in Senders : Has(c, Step("spawn", s)) <=> s \in one
            /\ \A s : ~Has(c, Step("attach", s)) /\ ~Has(c, Step("init_mmf", s))
            /\ \A s : Has(c, Step("open", s)) => s \in one
        BY <4>1, <4>2, CascadeStartsAll
      <4> QED
        BY <3>1, <4>3 DEF one
    <3>2. CASE ~running[FedBy[m]]
      <4>1. c = <<>> /\ Len(<<>>) = 0 /\ <<>> \in Seq([op : Building, of : Senders])
        BY <3>2
      <4> HIDE DEF c
      <4> QED
        BY <3>2, <4>1 DEF Has, Once
    <3> QED
      BY <3>1, <3>2
  <2> HIDE DEF c
  <2>4. /\ a \in Seq([op : Building, of : Senders])
        /\ \A e : Has(a, e) <=> e = Step("attach", m) \/ Has(c, e)
    <3>1. "attach" # "spawn"
      OBVIOUS
    <3>2. c \in Seq([op : Building, of : Senders]) /\ Once(c) /\ m \in Senders
      BY <2>3
    <3> QED
      BY ONLY <1>5, <3>1, <3>2, StepFirst
  <2>5. Issue("create", a)
    BY <2>1 DEF c
  <2> HIDE DEF a
  <2>6. /\ \A s \in Senders : Has(a, Step("spawn", s)) <=> s = m /\ running[FedBy[m]]
        /\ \A s : Has(a, Step("attach", s)) => s = m
        /\ \A s : Has(a, Step("open", s)) => s = m /\ running[FedBy[m]]
        /\ \A s : ~Has(a, Step("init_mmf", s))
    BY <2>3, <2>4
  <2>7. \A x \in Models : Has(a, Step("open", x)) => Has(a, Step("spawn", x))
    BY <2>6
  <2>8. ASSUME NEW x \in Models, Has(a, Step("attach", x))
        PROVE  /\ FedBy[x] = Camera => mmf
               /\ Has(a, Step("spawn", x)) \/ (pc[FedBy[x]] = "off" /\ ~Has(a, Step("spawn", FedBy[x])))
    <3>1. x = m
      BY <2>6, <2>8
    <3>2. CASE running[FedBy[m]]
      BY <2>2, <2>6, <3>1, <3>2
    <3>3. CASE ~running[FedBy[m]]
      BY <1>3, <2>2, <2>6, <3>1, <3>3
    <3> QED
      BY <3>2, <3>3
  <2>9. ASSUME NEW x \in Models, Has(a, Step("spawn", FedBy[x])), x \in subscribers[FedBy[x]]
        PROVE  running[x] \/ Has(a, Step("spawn", x))
    <3>1. FedBy[x] = m /\ x \in alive
      BY <1>4, <2>6, <2>9
    <3>2. m \in alive
      BY <1>3, <3>1
    <3> QED
      BY <2>2, <3>2
  <2> QED
    BY <2>4, <2>5, <2>6, <2>7, <2>8, <2>9, BuildingIsFollowed
<1>7. ASSUME NEW m \in Models, StartModel(m) PROVE ShutdownInv'
  <2> DEFINE S == Below({m}) \cap alive
  <2>1. PICK failing \in Failing : Issue("start", Cascade(S, failing))
    BY <1>7 DEF StartModel
  <2> DEFINE a == Cascade(S, failing)
  <2>2. S \in SUBSET Models
    BY <1>2
  <2>3. \A x \in Models : x \in alive /\ FedBy[x] \in S => x \in S
    BY BelowIs
  <2> HIDE DEF S
  <2>4. /\ a \in Seq([op : Building, of : Senders])
        /\ \A s \in Senders : Has(a, Step("spawn", s)) <=> s \in S
        /\ \A s : ~Has(a, Step("attach", s)) /\ ~Has(a, Step("init_mmf", s))
        /\ \A s : Has(a, Step("open", s)) => s \in S
    BY <2>2, CascadeStartsAll
  <2>5. Issue("start", a)
    BY <2>1
  <2> HIDE DEF a
  <2>6. \A x \in Models : Has(a, Step("open", x)) => Has(a, Step("spawn", x))
    BY <2>4
  <2>7. \A x \in Models : Has(a, Step("spawn", FedBy[x])) /\ x \in subscribers[FedBy[x]] => Has(a, Step("spawn", x))
    BY <1>4, <2>3, <2>4
  <2> QED
    BY <2>4, <2>5, <2>6, <2>7, BuildingIsFollowed
<1>8. ASSUME CreateCamera PROVE ShutdownInv'
  <2> DEFINE i0 == Step("init_mmf", Camera)
             s0 == Step("spawn", Camera)
             a == <<i0, s0>>
  <2>1. Issue("create", a) /\ ~mmf
    BY <1>8 DEF CreateCamera
  <2>2. a \in Seq([op : Building, of : Senders])
    <3> DEFINE E == [op : Building, of : Senders]
    <3>1. i0 \in E /\ s0 \in E
      BY <1>5 DEF Step
    <3> HIDE DEF E, i0, s0
    <3>2. a \in Seq(E)
      BY <3>1
    <3> QED
      BY <3>2 DEF E
  <2>3. \A e : Has(a, e) <=> e = i0 \/ e = s0
    <3>1. Len(a) = 2 /\ a[1] = i0 /\ a[2] = s0 /\ 1..2 = {1, 2}
      OBVIOUS
    <3> HIDE DEF a
    <3> QED
      BY <3>1 DEF Has
  <2> HIDE DEF a
  <2>4. /\ \A s : Has(a, Step("spawn", s)) => s = Camera
        /\ \A s : ~Has(a, Step("attach", s)) /\ ~Has(a, Step("open", s))
    BY <2>3
  <2>5. subscribers[Camera] = {}
    BY <1>3, <2>1 DEF ShutdownInv, CameraLetsGo
  <2>6. \A m \in Models : Has(a, Step("spawn", FedBy[m])) => m \notin subscribers[FedBy[m]]
    BY <2>4, <2>5
  <2>7. \A m \in Models : ~Has(a, Step("spawn", m))
    BY <2>4
  <2> QED
    BY <2>1, <2>2, <2>4, <2>6, <2>7, BuildingIsFollowed
<1>9. ASSUME StartCamera PROVE ShutdownInv'
  <2>1. PICK failing \in Failing : Issue("start", <<Step("spawn", Camera)>> \o Cascade(Idle(alive), failing))
    BY <1>9 DEF StartCamera
  <2> DEFINE S == Idle(alive)
             c == Cascade(S, failing)
             a == <<Step("spawn", Camera)>> \o c
  <2>2. S \in SUBSET Models /\ \A x \in alive : running[x] \/ x \in S
    BY <1>2 DEF Idle
  <2>3. Issue("start", a)
    BY <2>1
  <2> HIDE DEF S
  <2>4. /\ c \in Seq([op : Building, of : Senders]) /\ Once(c)
        /\ \A s \in Senders : Has(c, Step("spawn", s)) <=> s \in S
        /\ \A s : ~Has(c, Step("attach", s)) /\ ~Has(c, Step("init_mmf", s))
        /\ \A s : Has(c, Step("open", s)) => s \in S
    BY <2>2, CascadeStartsAll
  <2> HIDE DEF c
  <2>5. /\ a \in Seq([op : Building, of : Senders])
        /\ \A e : Has(a, e) <=> e = Step("spawn", Camera) \/ Has(c, e)
    <3>1. c \in Seq([op : Building, of : Senders]) /\ Once(c) /\ ~Has(c, Step("spawn", Camera)) /\ Camera \in Senders
      BY <2>2, <2>4
    <3> QED
      BY ONLY <1>5, <3>1, StepFirst
  <2> HIDE DEF a
  <2>6. /\ \A s \in Senders : Has(a, Step("spawn", s)) <=> s = Camera \/ s \in S
        /\ \A s : ~Has(a, Step("attach", s)) /\ ~Has(a, Step("init_mmf", s))
        /\ \A s : Has(a, Step("open", s)) => s \in S
    BY <2>4, <2>5
  <2>7. \A x \in Models : Has(a, Step("open", x)) => Has(a, Step("spawn", x))
    BY <2>6
  <2>8. \A x \in Models : x \in subscribers[FedBy[x]] => running[x] \/ Has(a, Step("spawn", x))
    BY <1>4, <2>2, <2>6
  <2> QED
    BY <2>3, <2>5, <2>6, <2>7, <2>8, BuildingIsFollowed
<1> QED
  BY <1>6, <1>7, <1>8, <1>9

\* The commands that stop and destroy
LEMMA TeardownsKeepShutdown ==
  ASSUME IInv, ShutdownInv,
         \/ \E m \in Models : StopModel(m) \/ DestroyModel(m)
         \/ StopAll \/ DestroyCamera \/ DestroyAll
  PROVE  ShutdownInv'
<1> USE Nodes, StepsDiffer
<1>1. running \in [Senders -> BOOLEAN] /\ alive \in SUBSET Models
  BY DEF IInv, VarTypes
<1>2. ASSUME NEW S \in SUBSET Models
      PROVE  /\ Closing(BottomUp(S, StopSteps)) /\ Of(BottomUp(S, StopSteps), "exit_mmf") = {}
             /\ Closing(BottomUp(S, DestroySteps)) /\ Of(BottomUp(S, DestroySteps), "exit_mmf") = {}
  <2>1. /\ Orderly(BottomUp(S, StopSteps), Senders, Senders, Senders)
        /\ Of(BottomUp(S, StopSteps), "exit_mmf") = {}
    BY <1>1, <1>2, StopsAreOrderly
  <2>2. /\ Orderly(BottomUp(S, DestroySteps), Senders, Senders, Senders)
        /\ Of(BottomUp(S, DestroySteps), "exit_mmf") = {}
    <3>1. Resting \subseteq Senders
      BY DEF Resting
    <3> QED
      BY <1>1, <1>2, <3>1, DestroysAreOrderly
  <2> QED
    BY <2>1, <2>2, OrderlyCloses
<1>3. Closing(StopCamera) /\ Of(StopCamera, "exit_mmf") = {}
  <2>1. Orderly(StopCamera, Senders, Senders, Senders) /\ Of(StopCamera, "exit_mmf") = {}
    BY <1>1, StopCameraIsOrderly
  <2> QED
    BY <2>1, OrderlyCloses
<1>4. ASSUME NEW a, NEW name, Issue(name, a), Closing(a), Of(a, "exit_mmf") = {} PROVE ShutdownInv'
  <2>1. ~Has(a, Step("exit_mmf", Camera))
    BY <1>4 DEF Of
  <2> QED
    BY <1>4, <2>1, TeardownIsFollowed
<1>5. ASSUME NEW m \in Models, StopModel(m) PROVE ShutdownInv'
  <2> DEFINE S == Below({m}) \cap alive
  <2>1. Issue("stop", BottomUp(S, StopSteps)) /\ S \in SUBSET Models
    BY <1>1, <1>5 DEF StopModel
  <2> HIDE DEF S
  <2> QED
    BY <1>2, <1>4, <2>1
<1>6. ASSUME NEW m \in Models, DestroyModel(m) PROVE ShutdownInv'
  <2> DEFINE S == Below({m}) \cap alive
  <2>1. Issue("destroy", BottomUp(S, DestroySteps)) /\ S \in SUBSET Models
    BY <1>1, <1>6 DEF DestroyModel
  <2> HIDE DEF S
  <2> QED
    BY <1>2, <1>4, <2>1
<1> DEFINE c == StopCamera
           b == BottomUp(alive, StopSteps)
           d == BottomUp(alive, DestroySteps)
           f == BottomUp(alive, LAMBDA m : <<Step("free", m)>>)
           x == <<Step("exit_mmf", Camera)>>
           e == <<Step("free", Camera)>>
           ends == <<Step("exit_mmf", Camera), Step("free", Camera)>>
<1>7. /\ Closing(c) /\ Of(c, "exit_mmf") = {}
      /\ Closing(b) /\ Of(b, "exit_mmf") = {}
      /\ Closing(d) /\ Of(d, "exit_mmf") = {}
  BY <1>1, <1>2, <1>3
<1>8. Closing(f) /\ \A i \in 1..Len(f) : f[i].op = "free"
  <2>1. Orderly(f, Senders, Senders, Senders) /\ \A i \in 1..Len(f) : f[i].op = "free"
    <3>1. alive \subseteq Senders /\ \A m \in alive : FedBy[m] \in Senders
      BY <1>1
    <3> QED
      BY <1>1, <3>1, FreesAreOrderly
  <2> HIDE DEF f
  <2> QED
    BY <2>1 DEF Closing, Orderly
<1>9. /\ Closing(x) /\ Closing(e) /\ Closing(ends)
      /\ e[1].op = "free" /\ Len(e) = 1 /\ 1..1 = {1}
  <2>1. /\ Orderly(x, Senders, Senders, Senders) /\ Orderly(e, Senders, Senders, Senders)
        /\ Orderly(ends, Senders, Senders, Senders)
    BY EndsAreOrderly
  <2>2. Len(x) = 1 /\ Len(e) = 1 /\ 1..1 = {1} /\ e[1] = Step("free", Camera)
    OBVIOUS
  <2>3. Len(ends) = 2 /\ 1..2 = {1, 2} /\ ends[1] = Step("exit_mmf", Camera) /\ ends[2] = Step("free", Camera)
    OBVIOUS
  <2> HIDE DEF x, e, ends
  <2>4. Closing(x)
    <3>1. \A i, j \in 1..Len(x) : ~(i < j)
      BY <2>2
    <3> QED
      BY <2>1, <3>1 DEF Closing, Orderly
  <2>5. Closing(e)
    <3>1. \A i, j \in 1..Len(e) : ~(i < j)
      BY <2>2
    <3> QED
      BY <2>1, <3>1 DEF Closing, Orderly
  <2>6. Closing(ends)
    <3>1. \A i, j \in 1..Len(ends) : i < j => ends[j].op = "free"
      BY <2>3
    <3> QED
      BY <2>1, <3>1 DEF Closing, Orderly
  <2> QED
    BY <2>2, <2>4, <2>5, <2>6
<1>10. Has(e, Step("free", Camera)) /\ Has(ends, Step("free", Camera))
  <2>1. Len(e) = 1 /\ e[1] = Step("free", Camera) /\ Len(ends) = 2 /\ ends[2] = Step("free", Camera)
    OBVIOUS
  <2> HIDE DEF e, ends
  <2>2. 1 \in 1..Len(e) /\ 2 \in 1..Len(ends)
    BY <2>1
  <2> QED
    BY <2>1, <2>2 DEF Has
<1> HIDE DEF c, b, d, f, x, e, ends
\* The camera, then all models
<1>11. Closing(c \o b) /\ Of(c \o b, "exit_mmf") = {}
  <2>1. Closing(c \o b) /\ \A op : Of(c \o b, op) = Of(c, op) \cup Of(b, op)
    BY <1>7, JoinedClosings
  <2> QED
    BY <1>7, <2>1
<1>12. ASSUME StopAll PROVE ShutdownInv'
  <2>1. Issue("stop", c \o b)
    BY <1>12 DEF StopAll, c, b
  <2> QED
    BY <1>4, <1>11, <2>1
<1>13. ASSUME DestroyCamera PROVE ShutdownInv'
  <2> DEFINE front == d \o c
             a == front \o ends
  <2>1. Issue("destroy", a)
    BY <1>13 DEF DestroyCamera, d, c, ends
  <2>2. Closing(front) /\ Of(front, "exit_mmf") = {}
    <3>1. Closing(d \o c) /\ \A op : Of(d \o c, op) = Of(d, op) \cup Of(c, op)
      BY <1>7, JoinedClosings
    <3> QED
      BY <1>7, <3>1
  <2> HIDE DEF front
  <2>3. Closing(a) /\ \A op : Of(a, op) = Of(front, op) \cup Of(ends, op)
    BY <1>9, <2>2, JoinedClosings
  <2>4. Camera \in Of(a, "free")
    BY <1>10, <2>3 DEF Of
  <2> HIDE DEF a
  <2>5. Has(a, Step("free", Camera))
    BY <2>4 DEF Of
  <2> QED
    BY <2>1, <2>3, <2>5, TeardownIsFollowed
<1>14. ASSUME DestroyAll PROVE ShutdownInv'
  <2> DEFINE s == c \o b
             sx == s \o x
             sxf == sx \o f
             a == sxf \o e
  <2>1. Issue("destroy_all", a)
    BY <1>14 DEF DestroyAll, c, b, x, f, e
  <2>2. Closing(s) /\ Of(s, "exit_mmf") = {}
    BY <1>11
  <2> HIDE DEF s
  <2>3. Closing(sx)
    BY <1>9, <2>2, JoinedClosings
  <2> HIDE DEF sx
  <2>4. Closing(sxf)
    BY <1>8, <2>3, JoinedClosings
  <2> HIDE DEF sxf
  <2>5. Closing(a) /\ \A op : Of(a, op) = Of(sxf, op) \cup Of(e, op)
    <3>1. \A i \in 1..Len(e) : e[i].op = "free"
      BY <1>9
    <3> QED
      BY <1>9, <2>4, <3>1, JoinedClosings
  <2>6. Camera \in Of(a, "free")
    BY <1>10, <2>5 DEF Of
  <2> HIDE DEF a
  <2>7. Has(a, Step("free", Camera))
    BY <2>6 DEF Of
  <2> QED
    BY <2>1, <2>5, <2>7, TeardownIsFollowed
<1> QED
  BY <1>5, <1>6, <1>12, <1>13, <1>14

\* Every step keeps it, where models start that are told to.
LEMMA NextKeepsShutdown ==
  ASSUME ~StartFailures, IInv, ShutdownInv, [Next]_vars
  PROVE  ShutdownInv'
<1>1. CASE ControlPlane
  BY <1>1, BuildingsKeepShutdown, TeardownsKeepShutdown DEF ControlPlane
<1>2. CASE Worker
  BY <1>2, WorkKeepsShutdown
<1>3. CASE \E s \in Senders : Thread(s)
  BY <1>3, ThreadsKeepShutdown
<1>4. CASE UNCHANGED vars
  <2>1. UNCHANGED <<pc, running, box, interrupted, subscribers, mmf, agenda>>
    BY <1>4 DEF vars, threads
  <2> QED
    BY <2>1 DEF ShutdownInv, RunnersHaveThreads, OpensAreSpawned, AttachesAreFollowed, SpawnsReachAll, InitsAreAlone,
       ExitsComeLast, Cleared, IdleAreEmpty, CameraLetsGo, Dark
<1> QED
  BY <1>1, <1>2, <1>3, <1>4 DEF Next

\* No frame is in use without the MMF context, in every order of commands and
\* frames, where no model fails to start.  Where one does, its inbox is open
\* with no thread behind it, and the theorem fails (frames_parallel).
THEOREM ContextOutlivesFrames ==
  ASSUME StartFailures = FALSE
  PROVE  Spec => []NoFrameOutlivesMmf
<1>1. Init => ShutdownInv
  BY InitHasShutdown
<1>2. IInv /\ ShutdownInv /\ [Next]_vars => ShutdownInv'
  BY NextKeepsShutdown
<1>3. IInv /\ Counted /\ ShutdownInv => NoFrameOutlivesMmf
  <2> SUFFICES ASSUME IInv, Counted, Dark, ~mmf, NEW f \in InUse PROVE FALSE
    BY DEF ShutdownInv, NoFrameOutlivesMmf
  <2>1. Holders(hand, f) = {}
    <3>1. \A s \in Senders : hand[s] = NoFrame
      BY DEF Dark, IInv, ThreadInv
    <3>2. f # NoFrame
      BY Nodes DEF InUse
    <3> QED
      BY <3>1, <3>2 DEF Holders
  <2>2. Slots(box, f) = {}
    <3>1. \A m \in Models : box[m] = <<>> /\ DOMAIN <<>> = {}
      BY DEF Dark
    <3>2. \A m \in Models : Places(box[m], f) = {}
      BY <3>1 DEF Places
    <3> QED
      BY <3>2 DEF Slots
  <2> QED
    BY <2>1, <2>2, FramesAreSomewhere
<1> QED
  BY <1>1, <1>2, <1>3, CountsHold, PTL DEF Spec
=============================================================================

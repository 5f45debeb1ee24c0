-------------------------- MODULE VideoMemoryProofs --------------------------
(* The pools of the board and the blocks of video memory, for any of them. *)
EXTENDS Devices, FiniteSetTheorems, TLAPS

-----------------------------------------------------------------------------
(* VideoMemory: who brought the pools up                                     *)

\* A manager that found the pools up found those of the context.
ManagerKnows ==
    /\ manager \in [up : BOOLEAN, ownsVb : BOOLEAN, ownsSys : BOOLEAN]
    /\ sys \in BOOLEAN /\ vb \in BOOLEAN /\ mmf \in BOOLEAN
    /\ plan \in Plans \cup {Nothing}
    /\ manager.up => (manager.ownsVb <=> ~mmf) /\ (manager.ownsSys <=> ~mmf)

ContextInv == ManagerKnows /\ Video!UpWhileNeeded

LEMMA InitContext == Video!Init => ContextInv
<1> SUFFICES ASSUME Video!Init PROVE ContextInv
  OBVIOUS
<1>1. ManagerKnows
  <2>1. manager \in [up : BOOLEAN, ownsVb : BOOLEAN, ownsSys : BOOLEAN] /\ ~manager.up
    BY DEF Video!Init, Video!ManagerDown
  <2> QED
    BY <2>1 DEF Video!Init, ManagerKnows
<1>2. Video!UpWhileNeeded
  BY DEF Video!Init, Video!ManagerDown, Video!UpWhileNeeded
<1> QED
  BY <1>1, <1>2 DEF ContextInv

LEMMA NextContext ==
  ASSUME ContextInv, Video!Next
  PROVE  ContextInv'
<1> USE DEF ContextInv, ManagerKnows, Video!UpWhileNeeded
<1>1. CASE Video!MmfInit
  BY <1>1 DEF Video!MmfInit
<1>2. CASE Video!MmfShutdown
  BY <1>2 DEF Video!MmfShutdown
<1>3. ASSUME NEW p \in Plans, Video!Attach(p), ~manager.up, UNCHANGED mmf PROVE ContextInv'
  <2>1. CASE UNCHANGED manager
    BY <1>3, <2>1 DEF Video!Attach
  <2>2. CASE manager' = [up |-> TRUE, ownsVb |-> FALSE, ownsSys |-> ~sys]
    <3>1. sys = TRUE /\ vb = TRUE /\ mmf = TRUE
      BY <1>3 DEF Video!Attach
    <3>2. manager' = [up |-> TRUE, ownsVb |-> FALSE, ownsSys |-> FALSE]
      BY <2>2, <3>1
    <3> QED
      BY <1>3, <3>1, <3>2 DEF Video!Attach
  <2> QED
    BY <1>3, <2>1, <2>2 DEF Video!Attach
<1>4. ASSUME NEW p \in Plans, Video!BringUp(p), ~manager.up, UNCHANGED mmf PROVE ContextInv'
  <2>1. PICK fails \in {"SetConfig", "VB_Init", "SYS_Init", "none"} :
          /\ vb' = (fails = "none")
          /\ sys' = (fails = "none")
          /\ manager' = IF fails = "none" THEN [up |-> TRUE, ownsVb |-> TRUE, ownsSys |-> TRUE] ELSE manager
          /\ plan' = IF fails = "SetConfig" THEN plan ELSE p
    BY <1>4 DEF Video!BringUp
  <2>2. mmf = FALSE /\ mmf' = FALSE
    BY <1>4 DEF Video!BringUp
  <2>3. CASE fails = "none"
    <3>1. vb' = TRUE /\ sys' = TRUE
      BY <2>1, <2>3
    <3>2. manager' = [up |-> TRUE, ownsVb |-> TRUE, ownsSys |-> TRUE]
      BY <2>1, <2>3
    <3>3. plan' \in Plans
      BY <2>1, <2>3
    <3> QED
      BY <2>2, <3>1, <3>2, <3>3
  <2>4. CASE fails # "none"
    <3>1. vb' = FALSE /\ sys' = FALSE
      BY <2>1, <2>4
    <3>2. manager' = manager /\ ~manager.up
      BY <1>4, <2>1, <2>4
    <3>3. plan' \in Plans \cup {Nothing}
      BY <2>1
    <3> QED
      BY <2>2, <3>1, <3>2, <3>3
  <2> QED
    BY <2>3, <2>4
<1>5. CASE Video!ManagerInit
  BY <1>3, <1>4, <1>5 DEF Video!ManagerInit
<1>6. CASE Video!ManagerShutdown
  BY <1>6 DEF Video!ManagerShutdown, Video!ManagerDown
<1>7. CASE UNCHANGED Video!context
  BY <1>7 DEF Video!context
<1>8. ASSUME NEW m \in Memories,
             \/ Video!AllocateVb(m) \/ Video!FromBlock(m) \/ Video!AllocateCpu(m) \/ Video!AllocateTpu(m)
             \/ Video!FromPhysical(m) \/ Video!MapMemory(m) \/ Video!DestroyMemory(m)
             \/ \E n \in Memories : Video!MoveMemory(m, n)
      PROVE  UNCHANGED Video!context
  BY <1>8 DEF Video!AllocateVb, Video!FromBlock, Video!AllocateCpu, Video!AllocateTpu, Video!FromPhysical,
              Video!MapMemory, Video!DestroyMemory, Video!MoveMemory
<1>9. ASSUME NEW f \in FrameVariables,
             \/ Video!LendFrame(f) \/ Video!MatFrame(f) \/ Video!ReleaseFrame(f) \/ Video!MapFrame(f)
             \/ \E g \in FrameVariables : Video!MoveFrame(f, g) \/ Video!CopyFrame(f, g)
             \/ \E m \in Memories : Video!ViewFrame(f, m)
      PROVE  UNCHANGED Video!context
  BY <1>9 DEF Video!LendFrame, Video!MatFrame, Video!ReleaseFrame, Video!MapFrame, Video!MoveFrame,
              Video!CopyFrame, Video!ViewFrame
<1> QED
  BY <1>1, <1>2, <1>5, <1>6, <1>7, <1>8, <1>9 DEF Video!Next

-----------------------------------------------------------------------------
(* VideoMemory: the owners of the blocks                                     *)

Records == [block : Video!Blocks \cup {Nothing}, kind : Video!Ways \cup {"none", "physical"},
            size : Nat, owns : BOOLEAN, mapped : BOOLEAN]
FrameRecords == [store : {"none", "cvi", "mat"}, owner : Video!Ways \cup {"external"},
                 block : Video!Blocks \cup {Nothing}, mapped : BOOLEAN,
                 pixels : Video!Formats \cup {"none"}, format : Video!Formats \cup {"none"}]

\* What a buffer and a frame know of their blocks.
GoodBuffer(r) ==
    /\ r \in Records
    /\ r.owns => r.block \in Video!Blocks /\ r.kind \in Video!Ways \ {"free"}
    /\ r.mapped => r.kind = "vb"
    /\ r.kind = "vb" => r.block \in Video!Pooled
    /\ r.kind \in {"heap", "tpu"} => r.owns
GoodFrame(r) ==
    /\ r \in FrameRecords
    /\ r.owner # "external" => r.owner # "free" /\ r.store = "cvi"
    /\ r.mapped => r.store = "cvi"
    /\ r.store = "cvi" => r.block \in Video!Pooled

Typed ==
    /\ memory \in [Memories -> Records] /\ \A m \in Memories : GoodBuffer(memory[m])
    /\ frame \in [FrameVariables -> FrameRecords] /\ \A f \in FrameVariables : GoodFrame(frame[f])
    /\ lent \in [Video!Blocks -> Video!Ways] /\ maps \in [Video!Blocks -> Nat]

\* An owner gives its block back the way it was lent, and is the only one.
Owned ==
    /\ \A m \in Memories : memory[m].owns => lent[memory[m].block] = memory[m].kind
    /\ \A f \in FrameVariables : frame[f].owner # "external" => lent[frame[f].block] = frame[f].owner
    /\ \A m, n \in Memories : memory[m].owns /\ memory[n].owns /\ memory[m].block = memory[n].block => m = n
    /\ \A f, g \in FrameVariables :
         frame[f].owner # "external" /\ frame[g].owner # "external" /\ frame[f].block = frame[g].block => f = g
    /\ \A m \in Memories, f \in FrameVariables :
         memory[m].owns /\ frame[f].owner # "external" => memory[m].block # frame[f].block
    /\ \A b \in Video!Blocks : lent[b] # "free" =>
         \/ \E m \in Memories : memory[m].owns /\ memory[m].block = b
         \/ \E f \in FrameVariables : frame[f].owner # "external" /\ frame[f].block = b

MappedMemories(b) == {m \in Memories : memory[m].block = b /\ memory[m].mapped}
MappedFrames(b) == {f \in FrameVariables : frame[f].block = b /\ frame[f].mapped}

Counted == \A b \in Video!Blocks : maps[b] = Cardinality(MappedMemories(b)) + Cardinality(MappedFrames(b))

OwnersInv == Typed /\ Owned /\ Counted

\* One more or one less in a set.
One(p) == IF p THEN 1 ELSE 0

LEMMA CountOne ==
  ASSUME NEW S, IsFiniteSet(S), NEW e
  PROVE  /\ Cardinality(S) \in Nat /\ Cardinality(S \ {e}) \in Nat
         /\ Cardinality(S) = Cardinality(S \ {e}) + One(e \in S)
<1>1. Cardinality(S) \in Nat /\ Cardinality(S \ {e}) \in Nat
  BY FS_CardinalityType, FS_RemoveElement
<1>2. CASE e \in S
  BY <1>1, <1>2, FS_RemoveElement DEF One
<1>3. CASE e \notin S
  <2>1. S \ {e} = S
    BY <1>3
  <2>2. One(e \in S) = 0
    BY <1>3 DEF One
  <2>3. Cardinality(S) = Cardinality(S \ {e})
    BY <2>1
  <2> QED
    BY <1>1, <2>2, <2>3
<1> QED
  BY <1>1, <1>2, <1>3

LEMMA CountChange ==
  ASSUME NEW S, NEW T, NEW U, IsFiniteSet(U), S \subseteq U, T \subseteq U, NEW e, S \ {e} = T \ {e}
  PROVE  /\ Cardinality(S) \in Nat /\ Cardinality(T) \in Nat
         /\ Cardinality(T) + One(e \in S) = Cardinality(S) + One(e \in T)
<1>1. IsFiniteSet(S) /\ IsFiniteSet(T)
  BY FS_Subset
<1>2. /\ Cardinality(S) \in Nat /\ Cardinality(T) \in Nat /\ Cardinality(S \ {e}) \in Nat
      /\ Cardinality(S) = Cardinality(S \ {e}) + One(e \in S)
      /\ Cardinality(T) = Cardinality(S \ {e}) + One(e \in T)
  BY <1>1, CountOne
<1>3. One(e \in S) \in Nat /\ One(e \in T) \in Nat
  BY DEF One
<1> QED
  BY <1>2, <1>3

-----------------------------------------------------------------------------

LEMMA BlocksHaveOneOwner ==
  ASSUME OwnersInv, NEW b \in Video!Blocks
  PROVE  IF lent[b] = "free"
         THEN Video!Owners(b) = {}
         ELSE \E o \in Video!Owners(b) : Video!Owners(b) = {o} /\ Video!WayBack(o) = lent[b]
<1>1. \A o : o \in Video!Owners(b) <=>
        \/ \E m \in Memories : o = <<"memory", m>> /\ memory[m].block = b /\ memory[m].owns
        \/ \E f \in FrameVariables : o = <<"frame", f>> /\ frame[f].block = b /\ frame[f].owner # "external"
  BY DEF Video!Owners
<1>2. CASE lent[b] = "free"
  <2>1. \A m \in Memories : ~(memory[m].block = b /\ memory[m].owns)
    BY <1>2 DEF OwnersInv, Owned, Typed, GoodBuffer
  <2>2. \A f \in FrameVariables : ~(frame[f].block = b /\ frame[f].owner # "external")
    BY <1>2 DEF OwnersInv, Owned, Typed, GoodFrame
  <2> QED
    BY <1>1, <1>2, <2>1, <2>2
<1>3. ASSUME NEW m \in Memories, memory[m].owns, memory[m].block = b
      PROVE  Video!Owners(b) = {<<"memory", m>>} /\ Video!WayBack(<<"memory", m>>) = lent[b]
  <2>1. \A n \in Memories : memory[n].block = b /\ memory[n].owns <=> n = m
    BY <1>3 DEF OwnersInv, Owned
  <2>2. \A f \in FrameVariables : ~(frame[f].block = b /\ frame[f].owner # "external")
    BY <1>3 DEF OwnersInv, Owned
  <2> QED
    BY <1>1, <1>3, <2>1, <2>2 DEF OwnersInv, Owned, Video!WayBack
<1>4. ASSUME NEW f \in FrameVariables, frame[f].owner # "external", frame[f].block = b
      PROVE  Video!Owners(b) = {<<"frame", f>>} /\ Video!WayBack(<<"frame", f>>) = lent[b]
  <2>1. \A n \in Memories : ~(memory[n].block = b /\ memory[n].owns)
    BY <1>4 DEF OwnersInv, Owned
  <2>2. \A g \in FrameVariables : frame[g].block = b /\ frame[g].owner # "external" <=> g = f
    BY <1>4 DEF OwnersInv, Owned
  <2> QED
    BY <1>1, <1>4, <2>1, <2>2 DEF OwnersInv, Owned, Video!WayBack
<1>5. CASE lent[b] # "free"
  <2>1. \E o : Video!Owners(b) = {o} /\ Video!WayBack(o) = lent[b]
    BY <1>3, <1>4, <1>5 DEF OwnersInv, Owned
  <2> QED
    BY <1>5, <2>1
<1> QED
  BY <1>2, <1>5

\* What FiniteSets defines is the same in the instance and here.
LEMMA SameSets == \A S : (Video!IsFiniteSet(S) <=> IsFiniteSet(S)) /\ Video!Cardinality(S) = Cardinality(S)
  BY DEF Video!Cardinality, Cardinality, Video!IsFiniteSet, IsFiniteSet

LEMMA FiniteVariables == IsFiniteSet(Memories) /\ IsFiniteSet(FrameVariables)
  BY BlocksAreKnown, SameSets DEF Video!VideoAssumption

LEMMA OwnersInvImplies == OwnersInv => Video!OneOwnerPerBlock
<1> SUFFICES ASSUME OwnersInv PROVE Video!OneOwnerPerBlock
  OBVIOUS
<1>1. ASSUME NEW b \in Video!Blocks
      PROVE  maps[b] = Cardinality({m \in Memories : memory[m].block = b /\ memory[m].mapped})
                       + Cardinality({f \in FrameVariables : frame[f].block = b /\ frame[f].mapped})
  BY DEF OwnersInv, Counted, MappedMemories, MappedFrames
<1>2. ASSUME NEW S PROVE Video!Cardinality(S) = Cardinality(S)
  BY SameSets
<1> QED
  BY Zenon, <1>1, <1>2, BlocksHaveOneOwner DEF Video!OneOwnerPerBlock

-----------------------------------------------------------------------------
(* One buffer changes. *)

LEMMA MemoryStep ==
  ASSUME OwnersInv, NEW m \in Memories, NEW r, GoodBuffer(r),
         memory' = [memory EXCEPT ![m] = r], frame' = frame,
         lent' \in [Video!Blocks -> Video!Ways], maps' \in [Video!Blocks -> Int],
         \A b \in Video!Blocks :
           lent'[b] = IF r.owns /\ r.block = b THEN r.kind
                      ELSE IF memory[m].owns /\ memory[m].block = b THEN "free" ELSE lent[b],
         r.owns => lent[r.block] = "free" \/ (memory[m].owns /\ memory[m].block = r.block),
         \A b \in Video!Blocks :
           maps'[b] + One(memory[m].block = b /\ memory[m].mapped) = maps[b] + One(r.block = b /\ r.mapped)
  PROVE  OwnersInv'
<1>1. memory'[m] = r /\ \A n \in Memories \ {m} : memory'[n] = memory[n]
  BY DEF OwnersInv, Typed
<1>2. Owned'
  <2>1. \A n \in Memories \ {m} : ~(r.owns /\ memory[n].owns /\ memory[n].block = r.block)
    BY DEF OwnersInv, Owned, Typed, GoodBuffer
  <2>2. \A f \in FrameVariables : ~(r.owns /\ frame[f].owner # "external" /\ frame[f].block = r.block)
    BY DEF OwnersInv, Owned, Typed, GoodFrame
  <2>3. \A n \in Memories : memory'[n].owns => lent'[memory'[n].block] = memory'[n].kind
    <3> SUFFICES ASSUME NEW n \in Memories, memory'[n].owns PROVE lent'[memory'[n].block] = memory'[n].kind
      OBVIOUS
    <3>1. CASE n = m
      BY <1>1, <3>1 DEF GoodBuffer
    <3>2. CASE n # m
      <4>1. memory'[n] = memory[n] /\ memory[n].owns /\ memory[n].block \in Video!Blocks
        BY <1>1, <3>2 DEF OwnersInv, Typed, GoodBuffer
      <4>2. lent[memory[n].block] = memory[n].kind
        BY <4>1 DEF OwnersInv, Owned, Typed, GoodBuffer
      <4>3. ~(memory[m].owns /\ memory[m].block = memory[n].block)
        BY <3>2, <4>1 DEF OwnersInv, Owned
      <4>4. ~(r.owns /\ r.block = memory[n].block)
        BY <2>1, <3>2, <4>1
      <4> QED
        BY <4>1, <4>2, <4>3, <4>4
    <3> QED
      BY <3>1, <3>2
  <2>4. \A f \in FrameVariables : frame[f].owner # "external" => lent'[frame[f].block] = frame[f].owner
    <3> SUFFICES ASSUME NEW f \in FrameVariables, frame[f].owner # "external" PROVE lent'[frame[f].block] = frame[f].owner
      OBVIOUS
    <3>1. frame[f].block \in Video!Blocks
      BY DEF OwnersInv, Typed, GoodFrame, Video!Blocks
    <3>2. lent[frame[f].block] = frame[f].owner
      BY DEF OwnersInv, Owned
    <3>3. ~(memory[m].owns /\ memory[m].block = frame[f].block)
      BY DEF OwnersInv, Owned
    <3> QED
      BY <2>2, <3>1, <3>2, <3>3
  <2>5. \A k, n \in Memories : memory'[k].owns /\ memory'[n].owns /\ memory'[k].block = memory'[n].block => k = n
    BY <1>1, <2>1 DEF OwnersInv, Owned
  <2>6. \A n \in Memories, f \in FrameVariables :
          memory'[n].owns /\ frame[f].owner # "external" => memory'[n].block # frame[f].block
    BY <1>1, <2>2 DEF OwnersInv, Owned
  <2>7. \A b \in Video!Blocks : lent'[b] # "free" =>
          \/ \E n \in Memories : memory'[n].owns /\ memory'[n].block = b
          \/ \E f \in FrameVariables : frame[f].owner # "external" /\ frame[f].block = b
    <3> SUFFICES ASSUME NEW b \in Video!Blocks, lent'[b] # "free",
                        ~\E f \in FrameVariables : frame[f].owner # "external" /\ frame[f].block = b
                 PROVE  \E n \in Memories : memory'[n].owns /\ memory'[n].block = b
      OBVIOUS
    <3>1. CASE r.owns /\ r.block = b
      BY <1>1, <3>1
    <3>2. CASE ~(r.owns /\ r.block = b)
      <4>1. ~(memory[m].owns /\ memory[m].block = b) /\ lent[b] # "free"
        BY <3>2
      <4>2. PICK n \in Memories : memory[n].owns /\ memory[n].block = b
        BY <4>1 DEF OwnersInv, Owned
      <4> QED
        BY <1>1, <4>1, <4>2
    <3> QED
      BY <3>1, <3>2
  <2> QED
    BY <2>3, <2>4, <2>5, <2>6, <2>7 DEF OwnersInv, Owned
<1>3. ASSUME NEW b \in Video!Blocks
      PROVE  /\ maps'[b] \in Nat
             /\ maps'[b] = Cardinality(MappedMemories(b)') + Cardinality(MappedFrames(b)')
  <2>1. MappedFrames(b)' = MappedFrames(b) /\ Cardinality(MappedFrames(b)) \in Nat
    BY FS_Subset, FS_CardinalityType, FiniteVariables DEF MappedFrames
  <2>2. /\ MappedMemories(b) \subseteq Memories /\ MappedMemories(b)' \subseteq Memories
        /\ MappedMemories(b) \ {m} = MappedMemories(b)' \ {m}
        /\ m \in MappedMemories(b) <=> memory[m].block = b /\ memory[m].mapped
        /\ m \in MappedMemories(b)' <=> r.block = b /\ r.mapped
    BY <1>1 DEF MappedMemories
  <2>3. /\ Cardinality(MappedMemories(b)) \in Nat /\ Cardinality(MappedMemories(b)') \in Nat
        /\ Cardinality(MappedMemories(b)') + One(m \in MappedMemories(b))
           = Cardinality(MappedMemories(b)) + One(m \in MappedMemories(b)')
    BY <2>2, CountChange, FiniteVariables
  <2>4. /\ One(m \in MappedMemories(b)) = One(memory[m].block = b /\ memory[m].mapped)
        /\ One(m \in MappedMemories(b)') = One(r.block = b /\ r.mapped)
    BY <2>2 DEF One
  <2>5. One(memory[m].block = b /\ memory[m].mapped) \in Nat /\ One(r.block = b /\ r.mapped) \in Nat
    BY DEF One
  <2>6. maps[b] \in Nat /\ maps[b] = Cardinality(MappedMemories(b)) + Cardinality(MappedFrames(b))
    BY DEF OwnersInv, Typed, Counted
  <2>7. /\ maps'[b] \in Int
        /\ maps'[b] + One(memory[m].block = b /\ memory[m].mapped) = maps[b] + One(r.block = b /\ r.mapped)
    OBVIOUS
  <2> QED
    BY ONLY <2>1, <2>3, <2>4, <2>5, <2>6, <2>7
<1>4. Typed'
  <2>1. maps' \in [Video!Blocks -> Nat]
    BY <1>3
  <2>2. memory' \in [Memories -> Records] /\ \A n \in Memories : GoodBuffer(memory'[n])
    BY <1>1 DEF OwnersInv, Typed, GoodBuffer
  <2> QED
    BY <2>1, <2>2 DEF OwnersInv, Typed, GoodBuffer, GoodFrame
<1> QED
  BY <1>2, <1>3, <1>4 DEF OwnersInv, Counted

\* One frame changes.
LEMMA FrameStep ==
  ASSUME OwnersInv, NEW f \in FrameVariables, NEW r, GoodFrame(r),
         frame' = [frame EXCEPT ![f] = r], memory' = memory,
         lent' \in [Video!Blocks -> Video!Ways], maps' \in [Video!Blocks -> Int],
         \A b \in Video!Blocks :
           lent'[b] = IF r.owner # "external" /\ r.block = b THEN r.owner
                      ELSE IF frame[f].owner # "external" /\ frame[f].block = b THEN "free" ELSE lent[b],
         r.owner # "external" => lent[r.block] = "free" \/ (frame[f].owner # "external" /\ frame[f].block = r.block),
         \A b \in Video!Blocks :
           maps'[b] + One(frame[f].block = b /\ frame[f].mapped) = maps[b] + One(r.block = b /\ r.mapped)
  PROVE  OwnersInv'
<1>1. frame'[f] = r /\ \A g \in FrameVariables \ {f} : frame'[g] = frame[g]
  BY DEF OwnersInv, Typed
<1>2. Owned'
  <2>1. \A g \in FrameVariables \ {f} :
          ~(r.owner # "external" /\ frame[g].owner # "external" /\ frame[g].block = r.block)
    BY DEF OwnersInv, Owned, Typed, GoodFrame
  <2>2. \A n \in Memories : ~(r.owner # "external" /\ memory[n].owns /\ memory[n].block = r.block)
    BY DEF OwnersInv, Owned, Typed, GoodBuffer
  <2>3. \A g \in FrameVariables : frame'[g].owner # "external" => lent'[frame'[g].block] = frame'[g].owner
    <3> SUFFICES ASSUME NEW g \in FrameVariables, frame'[g].owner # "external"
                 PROVE  lent'[frame'[g].block] = frame'[g].owner
      OBVIOUS
    <3>1. CASE g = f
      BY <1>1, <3>1 DEF GoodFrame, Video!Blocks
    <3>2. CASE g # f
      <4>1. frame'[g] = frame[g] /\ frame[g].owner # "external" /\ frame[g].block \in Video!Blocks
        BY <1>1, <3>2 DEF OwnersInv, Typed, GoodFrame, Video!Blocks
      <4>2. lent[frame[g].block] = frame[g].owner
        BY <4>1 DEF OwnersInv, Owned
      <4>3. ~(frame[f].owner # "external" /\ frame[f].block = frame[g].block)
        BY <3>2, <4>1 DEF OwnersInv, Owned
      <4>4. ~(r.owner # "external" /\ r.block = frame[g].block)
        BY <2>1, <3>2, <4>1
      <4> QED
        BY <4>1, <4>2, <4>3, <4>4
    <3> QED
      BY <3>1, <3>2
  <2>4. \A n \in Memories : memory[n].owns => lent'[memory[n].block] = memory[n].kind
    <3> SUFFICES ASSUME NEW n \in Memories, memory[n].owns PROVE lent'[memory[n].block] = memory[n].kind
      OBVIOUS
    <3>1. memory[n].block \in Video!Blocks
      BY DEF OwnersInv, Typed, GoodBuffer
    <3>2. lent[memory[n].block] = memory[n].kind
      BY DEF OwnersInv, Owned
    <3>3. ~(frame[f].owner # "external" /\ frame[f].block = memory[n].block)
      BY DEF OwnersInv, Owned
    <3> QED
      BY <2>2, <3>1, <3>2, <3>3
  <2>5. \A g, h \in FrameVariables :
          frame'[g].owner # "external" /\ frame'[h].owner # "external" /\ frame'[g].block = frame'[h].block => g = h
    BY <1>1, <2>1 DEF OwnersInv, Owned
  <2>6. \A n \in Memories, g \in FrameVariables :
          memory[n].owns /\ frame'[g].owner # "external" => memory[n].block # frame'[g].block
    BY <1>1, <2>2 DEF OwnersInv, Owned
  <2>7. \A b \in Video!Blocks : lent'[b] # "free" =>
          \/ \E n \in Memories : memory[n].owns /\ memory[n].block = b
          \/ \E g \in FrameVariables : frame'[g].owner # "external" /\ frame'[g].block = b
    <3> SUFFICES ASSUME NEW b \in Video!Blocks, lent'[b] # "free",
                        ~\E n \in Memories : memory[n].owns /\ memory[n].block = b
                 PROVE  \E g \in FrameVariables : frame'[g].owner # "external" /\ frame'[g].block = b
      OBVIOUS
    <3>1. CASE r.owner # "external" /\ r.block = b
      BY <1>1, <3>1
    <3>2. CASE ~(r.owner # "external" /\ r.block = b)
      <4>1. ~(frame[f].owner # "external" /\ frame[f].block = b) /\ lent[b] # "free"
        BY <3>2
      <4>2. PICK g \in FrameVariables : frame[g].owner # "external" /\ frame[g].block = b
        BY <4>1 DEF OwnersInv, Owned
      <4> QED
        BY <1>1, <4>1, <4>2
    <3> QED
      BY <3>1, <3>2
  <2> QED
    BY <2>3, <2>4, <2>5, <2>6, <2>7 DEF OwnersInv, Owned
<1>3. ASSUME NEW b \in Video!Blocks
      PROVE  /\ maps'[b] \in Nat
             /\ maps'[b] = Cardinality(MappedMemories(b)') + Cardinality(MappedFrames(b)')
  <2>1. MappedMemories(b)' = MappedMemories(b) /\ Cardinality(MappedMemories(b)) \in Nat
    BY FS_Subset, FS_CardinalityType, FiniteVariables DEF MappedMemories
  <2>2. /\ MappedFrames(b) \subseteq FrameVariables /\ MappedFrames(b)' \subseteq FrameVariables
        /\ MappedFrames(b) \ {f} = MappedFrames(b)' \ {f}
        /\ f \in MappedFrames(b) <=> frame[f].block = b /\ frame[f].mapped
        /\ f \in MappedFrames(b)' <=> r.block = b /\ r.mapped
    BY <1>1 DEF MappedFrames
  <2>3. /\ Cardinality(MappedFrames(b)) \in Nat /\ Cardinality(MappedFrames(b)') \in Nat
        /\ Cardinality(MappedFrames(b)') + One(f \in MappedFrames(b))
           = Cardinality(MappedFrames(b)) + One(f \in MappedFrames(b)')
    BY <2>2, CountChange, FiniteVariables
  <2>4. /\ One(f \in MappedFrames(b)) = One(frame[f].block = b /\ frame[f].mapped)
        /\ One(f \in MappedFrames(b)') = One(r.block = b /\ r.mapped)
    BY <2>2 DEF One
  <2>5. One(frame[f].block = b /\ frame[f].mapped) \in Nat /\ One(r.block = b /\ r.mapped) \in Nat
    BY DEF One
  <2>6. maps[b] \in Nat /\ maps[b] = Cardinality(MappedMemories(b)) + Cardinality(MappedFrames(b))
    BY DEF OwnersInv, Typed, Counted
  <2>7. /\ maps'[b] \in Int
        /\ maps'[b] + One(frame[f].block = b /\ frame[f].mapped) = maps[b] + One(r.block = b /\ r.mapped)
    OBVIOUS
  <2> QED
    BY ONLY <2>1, <2>3, <2>4, <2>5, <2>6, <2>7
<1>4. Typed'
  <2>1. maps' \in [Video!Blocks -> Nat]
    BY <1>3
  <2>2. frame' \in [FrameVariables -> FrameRecords] /\ \A g \in FrameVariables : GoodFrame(frame'[g])
    BY <1>1 DEF OwnersInv, Typed, GoodFrame
  <2> QED
    BY <2>1, <2>2 DEF OwnersInv, Typed, GoodBuffer, GoodFrame
<1> QED
  BY <1>2, <1>3, <1>4 DEF OwnersInv, Counted

-----------------------------------------------------------------------------
(* Every action *)

LEMMA InitOwners == Video!Init => OwnersInv
<1> SUFFICES ASSUME Video!Init PROVE OwnersInv
  OBVIOUS
<1>1. \A m \in Memories : memory[m] = Video!NoMemory
  BY DEF Video!Init
<1>2. \A f \in FrameVariables : frame[f] = Video!NoFrame
  BY DEF Video!Init
<1>3. Typed
  <2>1. memory \in [Memories -> Records] /\ \A m \in Memories : GoodBuffer(memory[m])
    BY <1>1 DEF Video!Init, Video!NoMemory, Records, GoodBuffer
  <2>2. frame \in [FrameVariables -> FrameRecords] /\ \A f \in FrameVariables : GoodFrame(frame[f])
    BY <1>2 DEF Video!Init, Video!NoFrame, FrameRecords, GoodFrame
  <2>3. lent \in [Video!Blocks -> Video!Ways] /\ maps \in [Video!Blocks -> Nat]
    BY DEF Video!Init, Video!Ways
  <2> QED
    BY <2>1, <2>2, <2>3 DEF Typed
<1>4. Owned
  BY <1>1, <1>2 DEF Video!Init, Owned, Video!NoMemory, Video!NoFrame
<1>5. ASSUME NEW b \in Video!Blocks PROVE maps[b] = Cardinality(MappedMemories(b)) + Cardinality(MappedFrames(b))
  <2>1. MappedMemories(b) = {} /\ MappedFrames(b) = {}
    BY <1>1, <1>2 DEF MappedMemories, MappedFrames, Video!NoMemory, Video!NoFrame
  <2> QED
    BY <2>1, FS_EmptySet DEF Video!Init
<1> QED
  BY <1>3, <1>4, <1>5 DEF OwnersInv, Counted

\* A buffer that did not hold anything takes a free block.
LEMMA Allocation ==
  ASSUME OwnersInv, NEW m \in Memories, memory[m] = Video!NoMemory,
         NEW b \in Video!Blocks, lent[b] = "free", NEW way \in {"vb", "heap", "tpu"}, NEW n \in Nat,
         way = "vb" => b \in Video!Pooled,
         Video!Lend(b, way), memory' = [memory EXCEPT ![m] = Video!Buffer(b, way, n, TRUE)],
         UNCHANGED <<maps, frame>>
  PROVE  OwnersInv'
<1> DEFINE r == Video!Buffer(b, way, n, TRUE)
<1>1. GoodBuffer(r) /\ r.block = b /\ r.kind = way
  BY DEF Video!Buffer, GoodBuffer, Records, Video!Ways
<1>2. r.owns /\ ~r.mapped
  BY DEF Video!Buffer
<1>3. ~memory[m].owns /\ ~memory[m].mapped
  BY DEF Video!NoMemory
<1>4. memory' = [memory EXCEPT ![m] = r] /\ frame' = frame /\ maps' = maps
  OBVIOUS
<1> HIDE DEF r
<1>5. lent' \in [Video!Blocks -> Video!Ways] /\ maps' \in [Video!Blocks -> Int]
  BY <1>4 DEF OwnersInv, Typed, Video!Lend, Video!Ways
<1>6. \A c \in Video!Blocks : lent'[c] = IF c = b THEN way ELSE lent[c]
  BY DEF OwnersInv, Typed, Video!Lend
<1>7. \A c \in Video!Blocks :
        lent'[c] = IF r.owns /\ r.block = c THEN r.kind
                   ELSE IF memory[m].owns /\ memory[m].block = c THEN "free" ELSE lent[c]
  BY <1>1, <1>2, <1>3, <1>6
<1>8. \A c \in Video!Blocks :
        maps'[c] + One(memory[m].block = c /\ memory[m].mapped) = maps[c] + One(r.block = c /\ r.mapped)
  BY <1>2, <1>3, <1>4 DEF One
<1>9. lent[r.block] = "free"
  BY <1>1
<1>10. r.owns => lent[r.block] = "free" \/ (memory[m].owns /\ memory[m].block = r.block)
  BY <1>9
<1> QED
  BY <1>1, <1>4, <1>5, <1>7, <1>8, <1>10, MemoryStep

\* A buffer that did not hold anything takes what is not its own.
LEMMA Borrowing ==
  ASSUME OwnersInv, NEW m \in Memories, memory[m] = Video!NoMemory,
         NEW b, NEW kind, NEW n, GoodBuffer(Video!Buffer(b, kind, n, FALSE)),
         memory' = [memory EXCEPT ![m] = Video!Buffer(b, kind, n, FALSE)],
         UNCHANGED <<lent, maps, frame>>
  PROVE  OwnersInv'
<1> DEFINE r == Video!Buffer(b, kind, n, FALSE)
<1>1. ~r.owns /\ ~r.mapped
  BY DEF Video!Buffer
<1>2. ~memory[m].owns /\ ~memory[m].mapped
  BY DEF Video!NoMemory
<1>3. GoodBuffer(r) /\ memory' = [memory EXCEPT ![m] = r] /\ frame' = frame /\ maps' = maps /\ lent' = lent
  OBVIOUS
<1> HIDE DEF r
<1>4. lent' \in [Video!Blocks -> Video!Ways] /\ maps' \in [Video!Blocks -> Int]
  BY <1>3 DEF OwnersInv, Typed
<1>5. \A c \in Video!Blocks :
        lent'[c] = IF r.owns /\ r.block = c THEN r.kind
                   ELSE IF memory[m].owns /\ memory[m].block = c THEN "free" ELSE lent[c]
  BY <1>1, <1>2, <1>3
<1>6. \A c \in Video!Blocks :
        maps'[c] + One(memory[m].block = c /\ memory[m].mapped) = maps[c] + One(r.block = c /\ r.mapped)
  BY <1>1, <1>2, <1>3 DEF One
<1>7. r.owns => lent[r.block] = "free" \/ (memory[m].owns /\ memory[m].block = r.block)
  BY <1>1
<1> QED
  BY <1>3, <1>4, <1>5, <1>6, <1>7, MemoryStep

LEMMA OwnersUnchanged == ASSUME OwnersInv, UNCHANGED <<lent, maps, memory, frame>> PROVE OwnersInv'
  BY DEF OwnersInv, Typed, Owned, Counted, MappedMemories, MappedFrames, GoodBuffer, GoodFrame

LEMMA UnmappingIsTyped ==
  ASSUME maps \in [Video!Blocks -> Nat], NEW r, r.mapped => r.block \in Video!Blocks
  PROVE  Video!MapsWithout(r) \in [Video!Blocks -> Int]
<1>1. CASE r.mapped
  <2>1. Video!MapsWithout(r) = [maps EXCEPT ![r.block] = maps[r.block] - 1]
    BY <1>1 DEF Video!MapsWithout
  <2>2. r.block \in Video!Blocks
    BY <1>1
  <2> QED
    BY <2>1, <2>2
<1>2. CASE ~r.mapped
  BY <1>2 DEF Video!MapsWithout
<1> QED
  BY <1>1, <1>2

LEMMA FreeBlocks ==
  ASSUME NEW kind, NEW b \in Video!Free(kind)
  PROVE  /\ b \in Video!Blocks /\ lent[b] = "free"
         /\ kind \in {"vb", "vpss", "vdec"} => b \in Video!Pooled
  BY BlocksAreKnown DEF Video!Free, Video!VideoAssumption, Video!Blocks

LEMMA AllocateVbKeeps ==
  ASSUME OwnersInv, NEW m \in Memories, Video!AllocateVb(m) PROVE OwnersInv'
<1>1. PICK n \in Video!Sizes : \E c \in Video!GetBlock(n) :
        Video!Lend(c, "vb") /\ memory' = [memory EXCEPT ![m] = Video!Buffer(c, "vb", n, TRUE)]
  BY DEF Video!AllocateVb
<1>2. PICK b \in Video!GetBlock(n) :
        Video!Lend(b, "vb") /\ memory' = [memory EXCEPT ![m] = Video!Buffer(b, "vb", n, TRUE)]
  BY <1>1
<1>3. b \in Video!Free("vb") /\ n \in Nat
  BY BlocksAreKnown DEF Video!GetBlock, Video!Sizes, Video!VideoAssumption
<1>4. b \in Video!Blocks /\ lent[b] = "free" /\ b \in Video!Pooled
  BY <1>3, FreeBlocks
<1>5. memory[m] = Video!NoMemory /\ UNCHANGED <<maps, frame>>
  BY DEF Video!AllocateVb
<1> QED
  BY <1>2, <1>3, <1>4, <1>5, Allocation

LEMMA FromBlockKeeps ==
  ASSUME OwnersInv, NEW m \in Memories, Video!FromBlock(m) PROVE OwnersInv'
<1>1. PICK b \in Video!Free("vb") :
        Video!Lend(b, "vb") /\ memory' = [memory EXCEPT ![m] = Video!Buffer(b, "vb", BlockSize[b], TRUE)]
  BY DEF Video!FromBlock
<1>2. b \in Video!Blocks /\ lent[b] = "free" /\ b \in Video!Pooled
  BY FreeBlocks
<1>3. BlockSize[b] \in Nat
  BY <1>2, BlocksAreKnown DEF Video!VideoAssumption
<1>4. memory[m] = Video!NoMemory /\ UNCHANGED <<maps, frame>>
  BY DEF Video!FromBlock
<1> QED
  BY <1>1, <1>2, <1>3, <1>4, Allocation

LEMMA AllocateCpuKeeps ==
  ASSUME OwnersInv, NEW m \in Memories, Video!AllocateCpu(m) PROVE OwnersInv'
<1>1. PICK b \in Video!Free("heap") :
        Video!Lend(b, "heap") /\ memory' = [memory EXCEPT ![m] = Video!Buffer(b, "heap", 1, TRUE)]
  BY DEF Video!AllocateCpu
<1>2. b \in Video!Blocks /\ lent[b] = "free"
  BY FreeBlocks
<1>3. memory[m] = Video!NoMemory /\ UNCHANGED <<maps, frame>>
  BY DEF Video!AllocateCpu
<1> QED
  BY <1>1, <1>2, <1>3, Allocation

LEMMA AllocateTpuKeeps ==
  ASSUME OwnersInv, NEW m \in Memories, Video!AllocateTpu(m) PROVE OwnersInv'
<1>1. memory[m] = Video!NoMemory /\ UNCHANGED <<maps, frame>>
  BY DEF Video!AllocateTpu
<1>2. CASE UNCHANGED <<lent, memory>>
  BY <1>1, <1>2, OwnersUnchanged
<1>3. ASSUME NEW b \in Video!Free("tpu"), Video!Lend(b, "tpu"),
             memory' = [memory EXCEPT ![m] = Video!Buffer(b, "tpu", 1, TRUE)]
      PROVE  OwnersInv'
  <2>1. b \in Video!Blocks /\ lent[b] = "free"
    BY FreeBlocks
  <2> QED
    BY <1>1, <1>3, <2>1, Allocation
<1> QED
  BY <1>2, <1>3 DEF Video!AllocateTpu

LEMMA FromPhysicalKeeps ==
  ASSUME OwnersInv, NEW m \in Memories, Video!FromPhysical(m) PROVE OwnersInv'
<1>1. PICK b \in Video!Pooled : memory' = [memory EXCEPT ![m] = Video!Buffer(b, "physical", 1, FALSE)]
  BY DEF Video!FromPhysical
<1>2. GoodBuffer(Video!Buffer(b, "physical", 1, FALSE))
  BY DEF Video!Buffer, GoodBuffer, Records, Video!Blocks
<1>3. memory[m] = Video!NoMemory /\ UNCHANGED <<lent, maps, frame>>
  BY DEF Video!FromPhysical
<1> QED
  BY <1>1, <1>2, <1>3, Borrowing

LEMMA ViewFrameKeeps ==
  ASSUME OwnersInv, NEW f \in FrameVariables, NEW m \in Memories, Video!ViewFrame(f, m) PROVE OwnersInv'
<1> DEFINE b == frame[f].block
<1>1. b \in Video!Pooled /\ BlockSize[b] \in Nat
  BY BlocksAreKnown DEF Video!ViewFrame, OwnersInv, Typed, GoodFrame, Video!VideoAssumption
<1>2. GoodBuffer(Video!Buffer(b, "vb", BlockSize[b], FALSE))
  BY <1>1 DEF Video!Buffer, GoodBuffer, Records, Video!Blocks, Video!Ways
<1>3. /\ memory[m] = Video!NoMemory /\ UNCHANGED <<lent, maps, frame>>
      /\ memory' = [memory EXCEPT ![m] = Video!Buffer(b, "vb", BlockSize[b], FALSE)]
  BY DEF Video!ViewFrame
<1> QED
  BY <1>1, <1>2, <1>3, Borrowing

LEMMA MapMemoryKeeps ==
  ASSUME OwnersInv, NEW m \in Memories, Video!MapMemory(m) PROVE OwnersInv'
<1> DEFINE r == [memory[m] EXCEPT !.mapped = TRUE]
<1>1. /\ memory[m] \in Records /\ GoodBuffer(memory[m]) /\ memory[m].kind = "vb"
      /\ memory[m].block \in Video!Blocks
  BY DEF OwnersInv, Typed, Video!MapMemory, GoodBuffer, Video!Blocks
<1>2. ~memory[m].mapped
  BY DEF Video!MapMemory
<1>3. /\ r \in Records /\ r.block = memory[m].block /\ r.kind = memory[m].kind /\ r.owns = memory[m].owns
  BY <1>1 DEF Records
<1>4. r.mapped
  BY <1>1 DEF Records
<1>5. memory' = [memory EXCEPT ![m] = r] /\ frame' = frame /\ lent' = lent
  BY DEF Video!MapMemory
<1> HIDE DEF r
<1>6. GoodBuffer(r)
  BY <1>1, <1>3 DEF GoodBuffer
<1>7. lent' \in [Video!Blocks -> Video!Ways] /\ maps' \in [Video!Blocks -> Int]
  <2>1. lent' \in [Video!Blocks -> Video!Ways]
    BY <1>5 DEF OwnersInv, Typed
  <2>2. maps \in [Video!Blocks -> Nat] /\ maps' = [maps EXCEPT ![memory[m].block] = maps[memory[m].block] + 1]
    BY DEF OwnersInv, Typed, Video!MapMemory
  <2> QED
    BY <1>1, <2>1, <2>2
<1>8. \A c \in Video!Blocks : maps'[c] = IF c = memory[m].block THEN maps[c] + 1 ELSE maps[c]
  BY DEF OwnersInv, Typed, Video!MapMemory
<1>9. \A c \in Video!Blocks :
        maps'[c] + One(memory[m].block = c /\ memory[m].mapped) = maps[c] + One(r.block = c /\ r.mapped)
  BY <1>2, <1>3, <1>4, <1>8 DEF One, OwnersInv, Typed
<1>10. memory[m].owns => lent[memory[m].block] = memory[m].kind
  BY DEF OwnersInv, Owned
<1>11. \A c \in Video!Blocks :
         lent'[c] = IF r.owns /\ r.block = c THEN r.kind
                    ELSE IF memory[m].owns /\ memory[m].block = c THEN "free" ELSE lent[c]
  BY <1>3, <1>5, <1>10
<1>12. r.owns => lent[r.block] = "free" \/ (memory[m].owns /\ memory[m].block = r.block)
  BY <1>3
<1> QED
  BY <1>5, <1>6, <1>7, <1>9, <1>11, <1>12, MemoryStep

LEMMA DestroyMemoryKeeps ==
  ASSUME OwnersInv, NEW m \in Memories, Video!DestroyMemory(m) PROVE OwnersInv'
<1> DEFINE r == Video!NoMemory
<1>1. GoodBuffer(r)
  BY DEF Video!NoMemory, GoodBuffer, Records
<1>2. ~r.owns /\ ~r.mapped
  BY DEF Video!NoMemory
<1>3. memory' = [memory EXCEPT ![m] = r] /\ frame' = frame
  BY DEF Video!DestroyMemory
<1> HIDE DEF r
<1>4. memory[m].mapped => memory[m].block \in Video!Blocks
  BY DEF OwnersInv, Typed, GoodBuffer, Video!Blocks
<1>5. lent' \in [Video!Blocks -> Video!Ways] /\ maps' \in [Video!Blocks -> Int]
  <2>1. lent' \in [Video!Blocks -> Video!Ways]
    BY DEF OwnersInv, Typed, Video!DestroyMemory, Video!LentWithout, Video!Ways
  <2>2. maps \in [Video!Blocks -> Nat] /\ maps' = Video!MapsWithout(memory[m])
    BY DEF OwnersInv, Typed, Video!DestroyMemory
  <2>3. maps' \in [Video!Blocks -> Int]
    BY <1>4, <2>2, UnmappingIsTyped
  <2> QED
    BY <2>1, <2>3
<1>6. \A c \in Video!Blocks : lent'[c] = IF memory[m].owns /\ memory[m].block = c THEN "free" ELSE lent[c]
  BY DEF OwnersInv, Typed, Video!DestroyMemory, Video!LentWithout
<1>7. \A c \in Video!Blocks : maps'[c] = IF memory[m].block = c /\ memory[m].mapped THEN maps[c] - 1 ELSE maps[c]
  BY DEF OwnersInv, Typed, Video!DestroyMemory, Video!MapsWithout
<1>8. \A c \in Video!Blocks :
        maps'[c] + One(memory[m].block = c /\ memory[m].mapped) = maps[c] + One(r.block = c /\ r.mapped)
  BY <1>2, <1>7 DEF One, OwnersInv, Typed
<1>9. \A c \in Video!Blocks :
        lent'[c] = IF r.owns /\ r.block = c THEN r.kind
                   ELSE IF memory[m].owns /\ memory[m].block = c THEN "free" ELSE lent[c]
  BY <1>2, <1>6
<1>10. r.owns => lent[r.block] = "free" \/ (memory[m].owns /\ memory[m].block = r.block)
  BY <1>2
<1> QED
  BY <1>1, <1>3, <1>5, <1>8, <1>9, <1>10, MemoryStep

LEMMA MoveMemoryKeeps ==
  ASSUME OwnersInv, NEW m \in Memories, NEW n \in Memories, Video!MoveMemory(m, n) PROVE OwnersInv'
<1>1. m # n /\ memory' = [memory EXCEPT ![m] = memory[n], ![n] = Video!NoMemory] /\ UNCHANGED <<maps, frame>>
  BY DEF Video!MoveMemory
<1>2. /\ memory[m].kind \in {"heap", "tpu"} /\ memory[n].kind \in {"heap", "tpu"}
      /\ memory \in [Memories -> Records] /\ GoodBuffer(memory[m]) /\ GoodBuffer(memory[n])
  BY DEF OwnersInv, Typed, Video!MoveMemory
<1>3. memory[m].owns /\ memory[n].owns
  BY <1>2 DEF GoodBuffer
<1>4. ~memory[m].mapped /\ ~memory[n].mapped
  BY <1>2 DEF GoodBuffer
<1>5. memory'[m] = memory[n] /\ memory'[n] = Video!NoMemory /\ \A k \in Memories \ {m, n} : memory'[k] = memory[k]
  BY <1>1, <1>2
<1>6. ~memory'[n].owns /\ ~memory'[n].mapped
  BY <1>5 DEF Video!NoMemory
<1>7. GoodBuffer(Video!NoMemory)
  BY DEF GoodBuffer, Video!NoMemory, Records
<1>8. \A c \in Video!Blocks : lent'[c] = IF memory[m].block = c THEN "free" ELSE lent[c]
  BY <1>3 DEF OwnersInv, Typed, Video!MoveMemory, Video!LentWithout
<1>9. Typed'
  <2>1. lent' \in [Video!Blocks -> Video!Ways]
    BY DEF OwnersInv, Typed, Video!MoveMemory, Video!LentWithout, Video!Ways
  <2>2. memory' \in [Memories -> Records]
    BY <1>1, <1>2, <1>7 DEF GoodBuffer
  <2>3. \A k \in Memories : GoodBuffer(memory'[k])
    BY <1>2, <1>5, <1>7 DEF OwnersInv, Typed
  <2> QED
    BY <1>1, <2>1, <2>2, <2>3 DEF OwnersInv, Typed, GoodBuffer, GoodFrame
\* k owned what it owns now, or took over what n owned
<1>10. \A k \in Memories : memory'[k].owns =>
         \E l \in Memories \ {m} : /\ memory[l].owns /\ memory'[k] = memory[l]
                                   /\ k = IF l = n THEN m ELSE l
  BY <1>1, <1>3, <1>5, <1>6
<1>11. \A l \in Memories \ {m} : memory[l].owns => memory[l].block \in Video!Blocks /\ memory[l].block # memory[m].block
  BY <1>3 DEF OwnersInv, Owned, Typed, GoodBuffer
<1>12. Owned'
  <2>1. \A k \in Memories : memory'[k].owns => lent'[memory'[k].block] = memory'[k].kind
    BY <1>8, <1>10, <1>11 DEF OwnersInv, Owned
  <2>2. \A f \in FrameVariables : frame[f].owner # "external" => lent'[frame[f].block] = frame[f].owner
    BY <1>3, <1>8 DEF OwnersInv, Owned, Typed, GoodFrame, Video!Blocks
  <2>3. \A k, l \in Memories : memory'[k].owns /\ memory'[l].owns /\ memory'[k].block = memory'[l].block => k = l
    BY <1>10 DEF OwnersInv, Owned
  <2>4. \A k \in Memories, f \in FrameVariables :
          memory'[k].owns /\ frame[f].owner # "external" => memory'[k].block # frame[f].block
    BY <1>10 DEF OwnersInv, Owned
  <2>5. \A b \in Video!Blocks : lent'[b] # "free" =>
          \/ \E k \in Memories : memory'[k].owns /\ memory'[k].block = b
          \/ \E f \in FrameVariables : frame[f].owner # "external" /\ frame[f].block = b
    <3> SUFFICES ASSUME NEW b \in Video!Blocks, lent'[b] # "free",
                        ~\E f \in FrameVariables : frame[f].owner # "external" /\ frame[f].block = b
                 PROVE  \E k \in Memories : memory'[k].owns /\ memory'[k].block = b
      OBVIOUS
    <3>1. lent[b] # "free" /\ memory[m].block # b
      BY <1>8
    <3>2. PICK l \in Memories : memory[l].owns /\ memory[l].block = b
      BY <3>1 DEF OwnersInv, Owned
    <3>3. CASE l = n
      BY <1>3, <1>5, <3>2, <3>3
    <3>4. CASE l # n
      BY <1>5, <3>1, <3>2, <3>4
    <3> QED
      BY <3>3, <3>4
  <2>6. frame' = frame /\ Owned
    BY <1>1 DEF OwnersInv
  <2> QED
    BY ONLY <2>1, <2>2, <2>3, <2>4, <2>5, <2>6 DEF Owned
<1>13. ASSUME NEW b \in Video!Blocks
       PROVE  MappedMemories(b)' = MappedMemories(b) /\ MappedFrames(b)' = MappedFrames(b)
  <2>1. \A k \in Memories : memory'[k].block = b /\ memory'[k].mapped <=> memory[k].block = b /\ memory[k].mapped
    BY <1>4, <1>5, <1>6
  <2> QED
    BY <1>1, <2>1 DEF MappedMemories, MappedFrames
<1> QED
  BY <1>1, <1>9, <1>12, <1>13 DEF OwnersInv, Counted

LEMMA LendFrameKeeps ==
  ASSUME OwnersInv, NEW f \in FrameVariables, Video!LendFrame(f) PROVE OwnersInv'
<1>0. PICK kind \in {"vpss", "vdec", "vb"}, format \in Video!Formats : \E c \in Video!Free(kind) :
        /\ Video!Lend(c, kind)
        /\ frame' = [frame EXCEPT ![f] = [store |-> "cvi", owner |-> kind, block |-> c, mapped |-> FALSE,
                                          pixels |-> format, format |-> format]]
  BY DEF Video!LendFrame
<1>1. PICK b \in Video!Free(kind) :
        /\ Video!Lend(b, kind)
        /\ frame' = [frame EXCEPT ![f] = [store |-> "cvi", owner |-> kind, block |-> b, mapped |-> FALSE,
                                          pixels |-> format, format |-> format]]
  BY <1>0
<1> DEFINE r == [store |-> "cvi", owner |-> kind, block |-> b, mapped |-> FALSE, pixels |-> format, format |-> format]
<1>2. b \in Video!Blocks /\ lent[b] = "free" /\ b \in Video!Pooled
  BY FreeBlocks
<1>3. frame' = [frame EXCEPT ![f] = r] /\ memory' = memory /\ maps' = maps
  BY <1>1 DEF Video!LendFrame
<1>4. GoodFrame(r) /\ r.block = b /\ r.owner = kind
  BY <1>2 DEF GoodFrame, FrameRecords, Video!Ways
<1>5. ~r.mapped
  OBVIOUS
<1>6. frame[f].owner = "external"
  BY DEF Video!LendFrame, Video!NoFrame
<1>7. ~frame[f].mapped
  BY DEF Video!LendFrame, Video!NoFrame
<1> HIDE DEF r
<1>8. lent' \in [Video!Blocks -> Video!Ways] /\ maps' \in [Video!Blocks -> Int]
  <2>1. lent' = [lent EXCEPT ![b] = kind] /\ kind \in Video!Ways
    BY <1>1 DEF Video!Lend, Video!Ways
  <2>2. lent \in [Video!Blocks -> Video!Ways] /\ maps \in [Video!Blocks -> Nat]
    BY DEF OwnersInv, Typed
  <2>3. b \in Video!Blocks /\ maps' = maps
    BY <1>2, <1>3
  <2> QED
    BY ONLY <2>1, <2>2, <2>3
<1>9. \A c \in Video!Blocks : lent'[c] = IF c = b THEN kind ELSE lent[c]
  BY <1>1 DEF OwnersInv, Typed, Video!Lend
<1>10. \A c \in Video!Blocks :
         lent'[c] = IF r.owner # "external" /\ r.block = c THEN r.owner
                    ELSE IF frame[f].owner # "external" /\ frame[f].block = c THEN "free" ELSE lent[c]
  BY <1>4, <1>6, <1>9
<1>11. \A c \in Video!Blocks :
         maps'[c] + One(frame[f].block = c /\ frame[f].mapped) = maps[c] + One(r.block = c /\ r.mapped)
  BY <1>3, <1>5, <1>7 DEF One
<1>12. r.owner # "external" => lent[r.block] = "free" \/ (frame[f].owner # "external" /\ frame[f].block = r.block)
  BY <1>2, <1>4
<1> QED
  BY <1>3, <1>4, <1>8, <1>10, <1>11, <1>12, FrameStep

LEMMA MatFrameKeeps ==
  ASSUME OwnersInv, NEW f \in FrameVariables, Video!MatFrame(f) PROVE OwnersInv'
<1>1. PICK format \in {"BGR", "RGB"} :
        frame' = [frame EXCEPT ![f] = [Video!NoFrame EXCEPT !.store = "mat", !.pixels = format, !.format = format]]
  BY DEF Video!MatFrame
<1> DEFINE r == [Video!NoFrame EXCEPT !.store = "mat", !.pixels = format, !.format = format]
<1>2. frame' = [frame EXCEPT ![f] = r] /\ memory' = memory /\ maps' = maps /\ lent' = lent
  BY <1>1 DEF Video!MatFrame
<1>3. GoodFrame(r) /\ r.owner = "external"
  BY DEF Video!NoFrame, GoodFrame, FrameRecords, Video!Formats
<1>4. ~r.mapped
  BY DEF Video!NoFrame
<1>5. frame[f].owner = "external"
  BY DEF Video!MatFrame, Video!NoFrame
<1>6. ~frame[f].mapped
  BY DEF Video!MatFrame, Video!NoFrame
<1> HIDE DEF r
<1>7. lent' \in [Video!Blocks -> Video!Ways] /\ maps' \in [Video!Blocks -> Int]
  BY <1>2 DEF OwnersInv, Typed
<1>8. \A c \in Video!Blocks :
        lent'[c] = IF r.owner # "external" /\ r.block = c THEN r.owner
                   ELSE IF frame[f].owner # "external" /\ frame[f].block = c THEN "free" ELSE lent[c]
  BY <1>2, <1>3, <1>5
<1>9. \A c \in Video!Blocks :
        maps'[c] + One(frame[f].block = c /\ frame[f].mapped) = maps[c] + One(r.block = c /\ r.mapped)
  BY <1>2, <1>4, <1>6 DEF One
<1> QED
  BY <1>2, <1>3, <1>7, <1>8, <1>9, FrameStep

LEMMA ReleaseFrameKeeps ==
  ASSUME OwnersInv, NEW f \in FrameVariables, Video!ReleaseFrame(f) PROVE OwnersInv'
<1> DEFINE r == Video!NoFrame
<1>1. GoodFrame(r) /\ r.owner = "external"
  BY DEF Video!NoFrame, GoodFrame, FrameRecords
<1>2. ~r.mapped
  BY DEF Video!NoFrame
<1>3. frame' = [frame EXCEPT ![f] = r] /\ memory' = memory
  BY DEF Video!ReleaseFrame
<1> HIDE DEF r
<1>4. frame[f].mapped => frame[f].block \in Video!Blocks
  BY DEF OwnersInv, Typed, GoodFrame, Video!Blocks
<1>5. lent' \in [Video!Blocks -> Video!Ways] /\ maps' \in [Video!Blocks -> Int]
  <2>1. lent' \in [Video!Blocks -> Video!Ways]
    BY DEF OwnersInv, Typed, Video!ReleaseFrame, Video!LentWithoutFrame, Video!Ways
  <2>2. maps \in [Video!Blocks -> Nat] /\ maps' = Video!MapsWithout(frame[f])
    BY DEF OwnersInv, Typed, Video!ReleaseFrame
  <2>3. maps' \in [Video!Blocks -> Int]
    BY <1>4, <2>2, UnmappingIsTyped
  <2> QED
    BY <2>1, <2>3
<1>6. \A c \in Video!Blocks :
        lent'[c] = IF frame[f].owner # "external" /\ frame[f].block = c THEN "free" ELSE lent[c]
  BY DEF OwnersInv, Typed, Video!ReleaseFrame, Video!LentWithoutFrame
<1>7. \A c \in Video!Blocks : maps'[c] = IF frame[f].block = c /\ frame[f].mapped THEN maps[c] - 1 ELSE maps[c]
  BY DEF OwnersInv, Typed, Video!ReleaseFrame, Video!MapsWithout
<1>8. \A c \in Video!Blocks :
        maps'[c] + One(frame[f].block = c /\ frame[f].mapped) = maps[c] + One(r.block = c /\ r.mapped)
  BY <1>2, <1>7 DEF One, OwnersInv, Typed
<1>9. \A c \in Video!Blocks :
        lent'[c] = IF r.owner # "external" /\ r.block = c THEN r.owner
                   ELSE IF frame[f].owner # "external" /\ frame[f].block = c THEN "free" ELSE lent[c]
  BY <1>1, <1>6
<1> QED
  BY <1>1, <1>3, <1>5, <1>8, <1>9, FrameStep

\* What ensure_mapped does to a frame and to the mappings of its block.
LEMMA EnsureMapped ==
  ASSUME OwnersInv, NEW f \in FrameVariables, maps' = Video!MapsWith(frame[f])
  PROVE  /\ GoodFrame(Video!Mapped(frame[f]))
         /\ Video!Mapped(frame[f]).block = frame[f].block /\ Video!Mapped(frame[f]).owner = frame[f].owner
         /\ maps' \in [Video!Blocks -> Int]
         /\ \A c \in Video!Blocks :
              maps'[c] + One(frame[f].block = c /\ frame[f].mapped)
              = maps[c] + One(Video!Mapped(frame[f]).block = c /\ Video!Mapped(frame[f]).mapped)
<1> DEFINE r == Video!Mapped(frame[f])
<1>1. frame[f] \in FrameRecords /\ GoodFrame(frame[f])
  BY DEF OwnersInv, Typed
<1>2. r \in FrameRecords
  BY <1>1 DEF Video!Mapped, FrameRecords
<1>3. r.block = frame[f].block /\ r.owner = frame[f].owner /\ r.store = frame[f].store
  BY <1>1 DEF Video!Mapped, FrameRecords
<1>4. r.mapped <=> frame[f].store = "cvi" \/ frame[f].mapped
  BY <1>1 DEF Video!Mapped, FrameRecords
<1>5. GoodFrame(r)
  BY <1>1, <1>2, <1>3, <1>4 DEF GoodFrame
<1> HIDE DEF r
<1>6. CASE frame[f].store = "cvi" /\ ~frame[f].mapped
  <2>1. maps' = [maps EXCEPT ![frame[f].block] = maps[frame[f].block] + 1]
    BY <1>6 DEF Video!MapsWith
  <2>2. frame[f].block \in Video!Blocks /\ maps \in [Video!Blocks -> Nat]
    BY <1>1, <1>6 DEF GoodFrame, OwnersInv, Typed, Video!Blocks
  <2>3. \A c \in Video!Blocks : maps'[c] = IF c = frame[f].block THEN maps[c] + 1 ELSE maps[c]
    BY <2>1, <2>2
  <2>4. maps' \in [Video!Blocks -> Int]
    BY <2>1, <2>2
  <2>5. r.mapped
    BY <1>4, <1>6
  <2>6. \A c \in Video!Blocks :
          maps'[c] + One(frame[f].block = c /\ frame[f].mapped) = maps[c] + One(r.block = c /\ r.mapped)
    BY <1>3, <1>6, <2>2, <2>3, <2>5 DEF One
  <2> QED
    BY <1>3, <1>5, <2>4, <2>6 DEF r
<1>7. CASE ~(frame[f].store = "cvi" /\ ~frame[f].mapped)
  <2>1. maps' = maps /\ maps' \in [Video!Blocks -> Int]
    BY <1>7 DEF Video!MapsWith, OwnersInv, Typed
  <2>2. r.mapped <=> frame[f].mapped
    BY <1>4, <1>7
  <2>3. \A c \in Video!Blocks :
          maps'[c] + One(frame[f].block = c /\ frame[f].mapped) = maps[c] + One(r.block = c /\ r.mapped)
    BY <1>3, <2>1, <2>2 DEF One
  <2> QED
    BY <1>3, <1>5, <2>1, <2>3 DEF r
<1> QED
  BY <1>6, <1>7

LEMMA MapFrameKeeps ==
  ASSUME OwnersInv, NEW f \in FrameVariables, Video!MapFrame(f) PROVE OwnersInv'
<1> DEFINE r == Video!Mapped(frame[f])
<1>1. /\ GoodFrame(r) /\ r.block = frame[f].block /\ r.owner = frame[f].owner
      /\ maps' \in [Video!Blocks -> Int]
      /\ \A c \in Video!Blocks :
           maps'[c] + One(frame[f].block = c /\ frame[f].mapped) = maps[c] + One(r.block = c /\ r.mapped)
  BY EnsureMapped DEF Video!MapFrame
<1>2. frame' = [frame EXCEPT ![f] = r] /\ memory' = memory /\ lent' = lent
  BY DEF Video!MapFrame
<1> HIDE DEF r
<1>3. lent' \in [Video!Blocks -> Video!Ways]
  BY <1>2 DEF OwnersInv, Typed
<1>4. frame[f].owner # "external" => lent[frame[f].block] = frame[f].owner
  BY DEF OwnersInv, Owned
<1>5. \A c \in Video!Blocks :
        lent'[c] = IF r.owner # "external" /\ r.block = c THEN r.owner
                   ELSE IF frame[f].owner # "external" /\ frame[f].block = c THEN "free" ELSE lent[c]
  BY <1>1, <1>2, <1>4
<1>6. r.owner # "external" => lent[r.block] = "free" \/ (frame[f].owner # "external" /\ frame[f].block = r.block)
  BY <1>1
<1> QED
  BY <1>1, <1>2, <1>3, <1>5, <1>6, FrameStep

LEMMA MoveFrameKeeps ==
  ASSUME OwnersInv, NEW f \in FrameVariables, NEW g \in FrameVariables, Video!MoveFrame(f, g) PROVE OwnersInv'
<1>1. f # g /\ frame' = [frame EXCEPT ![f] = frame[g], ![g] = Video!NoFrame] /\ memory' = memory
  BY DEF Video!MoveFrame
<1>2. frame \in [FrameVariables -> FrameRecords] /\ GoodFrame(frame[f]) /\ GoodFrame(frame[g])
  BY DEF OwnersInv, Typed
<1>3. /\ frame'[f] = frame[g] /\ frame'[g] = Video!NoFrame
      /\ \A h \in FrameVariables \ {f, g} : frame'[h] = frame[h]
  BY <1>1, <1>2
<1>4. frame'[g].owner = "external"
  BY <1>3 DEF Video!NoFrame
<1>5. ~frame'[g].mapped
  BY <1>3 DEF Video!NoFrame
<1>6. GoodFrame(Video!NoFrame)
  BY DEF GoodFrame, Video!NoFrame, FrameRecords
<1>7. \A c \in Video!Blocks :
        lent'[c] = IF frame[f].owner # "external" /\ frame[f].block = c THEN "free" ELSE lent[c]
  BY DEF OwnersInv, Typed, Video!MoveFrame, Video!LentWithoutFrame
<1>8. \A c \in Video!Blocks : maps'[c] = IF frame[f].block = c /\ frame[f].mapped THEN maps[c] - 1 ELSE maps[c]
  BY DEF OwnersInv, Typed, Video!MoveFrame, Video!MapsWithout
<1>9. maps' \in [Video!Blocks -> Int]
  <2>1. maps \in [Video!Blocks -> Nat] /\ maps' = Video!MapsWithout(frame[f])
    BY DEF OwnersInv, Typed, Video!MoveFrame
  <2>2. frame[f].mapped => frame[f].block \in Video!Blocks
    BY <1>2 DEF GoodFrame, Video!Blocks
  <2> QED
    BY <2>1, <2>2, UnmappingIsTyped
\* h owned what it owns now, or took over what g owned
<1>10. \A h \in FrameVariables : frame'[h].owner # "external" =>
         \E k \in FrameVariables \ {f} : /\ frame[k].owner # "external" /\ frame'[h] = frame[k]
                                         /\ h = IF k = g THEN f ELSE k
  BY <1>1, <1>3, <1>4
<1>11. \A k \in FrameVariables \ {f} :
         frame[k].owner # "external" =>
           /\ frame[k].block \in Video!Blocks
           /\ frame[f].owner # "external" => frame[k].block # frame[f].block
  BY DEF OwnersInv, Owned, Typed, GoodFrame, Video!Blocks
<1>12. Owned'
  <2>1. \A h \in FrameVariables : frame'[h].owner # "external" => lent'[frame'[h].block] = frame'[h].owner
    BY <1>7, <1>10, <1>11 DEF OwnersInv, Owned
  <2>2. \A n \in Memories : memory[n].owns => lent'[memory[n].block] = memory[n].kind
    BY <1>7 DEF OwnersInv, Owned, Typed, GoodBuffer
  <2>3. \A h, k \in FrameVariables :
          frame'[h].owner # "external" /\ frame'[k].owner # "external" /\ frame'[h].block = frame'[k].block => h = k
    BY <1>10 DEF OwnersInv, Owned
  <2>4. \A n \in Memories, h \in FrameVariables :
          memory[n].owns /\ frame'[h].owner # "external" => memory[n].block # frame'[h].block
    BY <1>10 DEF OwnersInv, Owned
  <2>5. \A b \in Video!Blocks : lent'[b] # "free" =>
          \/ \E n \in Memories : memory[n].owns /\ memory[n].block = b
          \/ \E h \in FrameVariables : frame'[h].owner # "external" /\ frame'[h].block = b
    <3> SUFFICES ASSUME NEW b \in Video!Blocks, lent'[b] # "free",
                        ~\E n \in Memories : memory[n].owns /\ memory[n].block = b
                 PROVE  \E h \in FrameVariables : frame'[h].owner # "external" /\ frame'[h].block = b
      OBVIOUS
    <3>1. lent[b] # "free" /\ ~(frame[f].owner # "external" /\ frame[f].block = b)
      BY <1>7
    <3>2. PICK k \in FrameVariables : frame[k].owner # "external" /\ frame[k].block = b
      BY <3>1 DEF OwnersInv, Owned
    <3>3. CASE k = g
      BY <1>3, <3>2, <3>3
    <3>4. CASE k # g
      BY <1>3, <3>1, <3>2, <3>4
    <3> QED
      BY <3>3, <3>4
  <2>6. memory' = memory /\ Owned
    BY <1>1 DEF OwnersInv
  <2> QED
    BY ONLY <2>1, <2>2, <2>3, <2>4, <2>5, <2>6 DEF Owned
<1>13. ASSUME NEW b \in Video!Blocks
       PROVE  /\ maps'[b] \in Nat
              /\ maps'[b] = Cardinality(MappedMemories(b)') + Cardinality(MappedFrames(b)')
  <2>1. MappedMemories(b)' = MappedMemories(b) /\ Cardinality(MappedMemories(b)) \in Nat
    BY <1>1, FS_Subset, FS_CardinalityType, FiniteVariables DEF MappedMemories
  <2>2. MappedFrames(b) \subseteq FrameVariables /\ MappedFrames(b)' \subseteq FrameVariables
    BY DEF MappedFrames
  <2>3. MappedFrames(b) \ {f, g} = MappedFrames(b)' \ {f, g}
    BY <1>3 DEF MappedFrames
  <2>4. f \in MappedFrames(b) <=> frame[f].block = b /\ frame[f].mapped
    BY DEF MappedFrames
  <2>5. f \in MappedFrames(b)' <=> g \in MappedFrames(b)
    BY <1>3 DEF MappedFrames
  <2>6. g \notin MappedFrames(b)'
    BY <1>5 DEF MappedFrames
  <2>7. /\ Cardinality(MappedFrames(b)) \in Nat /\ Cardinality(MappedFrames(b)') \in Nat
        /\ Cardinality(MappedFrames(b)') + One(f \in MappedFrames(b)) + One(g \in MappedFrames(b))
           = Cardinality(MappedFrames(b)) + One(f \in MappedFrames(b)') + One(g \in MappedFrames(b)')
    <3> DEFINE S == MappedFrames(b)
               T == MappedFrames(b)'
               V == (S \ {f}) \cup (T \cap {f})
    <3>1. /\ V \subseteq FrameVariables /\ S \ {f} = V \ {f} /\ V \ {g} = T \ {g}
          /\ (f \in V <=> f \in T) /\ (g \in V <=> g \in S)
      BY <1>1, <2>2, <2>3
    <3> HIDE DEF V
    <3>2. /\ Cardinality(S) \in Nat /\ Cardinality(V) \in Nat
          /\ Cardinality(V) + One(f \in S) = Cardinality(S) + One(f \in V)
      BY <2>2, <3>1, CountChange, FiniteVariables
    <3>3. /\ Cardinality(T) \in Nat
          /\ Cardinality(T) + One(g \in V) = Cardinality(V) + One(g \in T)
      BY <2>2, <3>1, CountChange, FiniteVariables
    <3>4. One(f \in V) = One(f \in T) /\ One(g \in V) = One(g \in S)
      BY <3>1 DEF One
    <3>5. One(f \in S) \in Nat /\ One(f \in T) \in Nat /\ One(g \in S) \in Nat /\ One(g \in T) \in Nat
      BY DEF One
    <3> QED
      BY ONLY <3>2, <3>3, <3>4, <3>5
  <2>8. /\ One(f \in MappedFrames(b)) = One(frame[f].block = b /\ frame[f].mapped)
        /\ One(f \in MappedFrames(b)') = One(g \in MappedFrames(b))
        /\ One(g \in MappedFrames(b)') = 0
    BY <2>4, <2>5, <2>6 DEF One
  <2>9. One(frame[f].block = b /\ frame[f].mapped) \in Nat /\ One(g \in MappedFrames(b)) \in Nat
    BY DEF One
  <2>10. maps[b] \in Nat /\ maps[b] = Cardinality(MappedMemories(b)) + Cardinality(MappedFrames(b))
    BY DEF OwnersInv, Typed, Counted
  <2>11. maps'[b] \in Int /\ maps'[b] + One(frame[f].block = b /\ frame[f].mapped) = maps[b]
    BY <1>8, <1>9, <2>10 DEF One
  <2>12. Cardinality(MappedFrames(b)') + One(frame[f].block = b /\ frame[f].mapped) = Cardinality(MappedFrames(b))
    BY ONLY <2>7, <2>8, <2>9
  <2> QED
    BY ONLY <2>1, <2>7, <2>9, <2>10, <2>11, <2>12
<1>14. Typed'
  <2>1. maps' \in [Video!Blocks -> Nat]
    BY <1>9, <1>13
  <2>2. lent' \in [Video!Blocks -> Video!Ways]
    BY DEF OwnersInv, Typed, Video!MoveFrame, Video!LentWithoutFrame, Video!Ways
  <2>3. frame' \in [FrameVariables -> FrameRecords]
    BY <1>1, <1>2, <1>6 DEF GoodFrame
  <2>4. \A h \in FrameVariables : GoodFrame(frame'[h])
    BY <1>2, <1>3, <1>6 DEF OwnersInv, Typed
  <2> QED
    BY <1>1, <2>1, <2>2, <2>3, <2>4 DEF OwnersInv, Typed, GoodBuffer, GoodFrame
<1> QED
  BY <1>12, <1>13, <1>14 DEF OwnersInv, Counted

LEMMA CopyFrameKeeps ==
  ASSUME OwnersInv, NEW f \in FrameVariables, NEW g \in FrameVariables, Video!CopyFrame(f, g) PROVE OwnersInv'
<1> DEFINE r == Video!Mapped(frame[g])
           copy == Video!CloneOf(frame[g])
<1>1. /\ f # g /\ frame' = [frame EXCEPT ![f] = copy, ![g] = r] /\ memory' = memory /\ lent' = lent
      /\ frame[f].owner = "external"
  BY DEF Video!CopyFrame, Video!NoFrame, OwnersInv, Typed
<1>2. ~frame[f].mapped
  BY DEF Video!CopyFrame, Video!NoFrame
<1>3. /\ GoodFrame(r) /\ r.block = frame[g].block /\ r.owner = frame[g].owner
      /\ maps' \in [Video!Blocks -> Int]
      /\ \A c \in Video!Blocks :
           maps'[c] + One(frame[g].block = c /\ frame[g].mapped) = maps[c] + One(r.block = c /\ r.mapped)
  BY EnsureMapped DEF Video!CopyFrame
<1>4. frame[g] \in FrameRecords /\ frame \in [FrameVariables -> FrameRecords]
  BY DEF OwnersInv, Typed
<1>5. copy.owner = "external" /\ GoodFrame(copy)
  <2> DEFINE pixels == IF frame[g].pixels = "NV21" THEN "BGR" ELSE frame[g].pixels
  <2>1. copy \in [store : {"mat"}, owner : {"external"}, block : {Nothing}, mapped : {FALSE},
                 pixels : {pixels}, format : {"BGR"}]
    <3> DEFINE bare == Video!NoFrame
    <3>1. bare \in [store : {"none"}, owner : {"external"}, block : {Nothing}, mapped : {FALSE},
                    pixels : {"none"}, format : {"none"}]
      BY DEF Video!NoFrame
    <3>2. copy = [bare EXCEPT !.store = "mat", !.format = "BGR", !.pixels = pixels]
      BY DEF Video!CloneOf
    <3> HIDE DEF bare, pixels, copy
    <3> QED
      BY ONLY <3>1, <3>2
  <2>2. pixels \in Video!Formats \cup {"none"}
    <3>1. frame[g].pixels \in Video!Formats \cup {"none"}
      BY ONLY <1>4 DEF FrameRecords
    <3> QED
      BY ONLY <3>1 DEF Video!Formats
  <2> HIDE DEF copy, pixels
  <2>3. copy \in FrameRecords
    BY ONLY <2>1, <2>2 DEF FrameRecords, Video!Formats
  <2>4. copy.owner = "external" /\ copy.store = "mat"
    BY ONLY <2>1
  <2>5. ~copy.mapped
    BY ONLY <2>1
  <2> QED
    BY ONLY <2>3, <2>4, <2>5 DEF GoodFrame
<1>6. ~copy.mapped
  BY DEF Video!CloneOf, Video!NoFrame
<1> HIDE DEF r, copy
<1>7. frame'[f] = copy /\ frame'[g] = r /\ \A h \in FrameVariables \ {f, g} : frame'[h] = frame[h]
  BY <1>1, <1>4
<1>8. \A h \in FrameVariables : /\ frame'[h].owner = frame[h].owner
                                /\ frame[h].owner # "external" => frame'[h].block = frame[h].block
  BY <1>1, <1>3, <1>5, <1>7
<1>9. Owned'
  <2>1. Owned /\ memory' = memory /\ lent' = lent
    BY <1>1 DEF OwnersInv
  <2> QED
    BY ONLY <1>8, <2>1 DEF Owned
<1>10. ASSUME NEW b \in Video!Blocks
       PROVE  /\ maps'[b] \in Nat
              /\ maps'[b] = Cardinality(MappedMemories(b)') + Cardinality(MappedFrames(b)')
  <2>1. MappedMemories(b)' = MappedMemories(b) /\ Cardinality(MappedMemories(b)) \in Nat
    BY <1>1, FS_Subset, FS_CardinalityType, FiniteVariables DEF MappedMemories
  <2>2. MappedFrames(b) \subseteq FrameVariables /\ MappedFrames(b)' \subseteq FrameVariables
    BY DEF MappedFrames
  <2>3. f \notin MappedFrames(b) /\ f \notin MappedFrames(b)'
    BY <1>2, <1>6, <1>7 DEF MappedFrames
  <2>4. MappedFrames(b) \ {g} = MappedFrames(b)' \ {g}
    BY <1>7, <2>3 DEF MappedFrames
  <2>5. g \in MappedFrames(b) <=> frame[g].block = b /\ frame[g].mapped
    BY DEF MappedFrames
  <2>6. g \in MappedFrames(b)' <=> r.block = b /\ r.mapped
    BY <1>7 DEF MappedFrames
  <2>7. /\ Cardinality(MappedFrames(b)) \in Nat /\ Cardinality(MappedFrames(b)') \in Nat
        /\ Cardinality(MappedFrames(b)') + One(g \in MappedFrames(b))
           = Cardinality(MappedFrames(b)) + One(g \in MappedFrames(b)')
    BY <2>2, <2>4, CountChange, FiniteVariables
  <2>8. /\ One(g \in MappedFrames(b)) = One(frame[g].block = b /\ frame[g].mapped)
        /\ One(g \in MappedFrames(b)') = One(r.block = b /\ r.mapped)
    BY <2>5, <2>6 DEF One
  <2>9. One(frame[g].block = b /\ frame[g].mapped) \in Nat /\ One(r.block = b /\ r.mapped) \in Nat
    BY DEF One
  <2>10. maps[b] \in Nat /\ maps[b] = Cardinality(MappedMemories(b)) + Cardinality(MappedFrames(b))
    BY DEF OwnersInv, Typed, Counted
  <2>11. /\ maps'[b] \in Int
         /\ maps'[b] + One(frame[g].block = b /\ frame[g].mapped) = maps[b] + One(r.block = b /\ r.mapped)
    BY <1>3
  <2> QED
    BY ONLY <2>1, <2>7, <2>8, <2>9, <2>10, <2>11
<1>11. Typed'
  <2>1. maps' \in [Video!Blocks -> Nat]
    BY <1>3, <1>10
  <2>2. frame' \in [FrameVariables -> FrameRecords]
    BY <1>1, <1>3, <1>4, <1>5 DEF GoodFrame
  <2>3. \A h \in FrameVariables : GoodFrame(frame'[h])
    BY <1>3, <1>5, <1>7 DEF OwnersInv, Typed
  <2> QED
    BY <1>1, <2>1, <2>2, <2>3 DEF OwnersInv, Typed, GoodBuffer, GoodFrame
<1> QED
  BY <1>9, <1>10, <1>11 DEF OwnersInv, Counted

LEMMA NextOwners ==
  ASSUME OwnersInv, Video!Next
  PROVE  OwnersInv'
<1>1. CASE Video!MmfInit \/ Video!MmfShutdown \/ Video!ManagerInit \/ Video!ManagerShutdown
  BY <1>1, OwnersUnchanged DEF Video!MmfInit, Video!MmfShutdown, Video!ManagerInit, Video!ManagerShutdown
<1>2. ASSUME NEW m \in Memories,
             \/ Video!AllocateVb(m) \/ Video!FromBlock(m) \/ Video!AllocateCpu(m) \/ Video!AllocateTpu(m)
             \/ Video!FromPhysical(m) \/ Video!MapMemory(m) \/ Video!DestroyMemory(m)
             \/ \E n \in Memories : Video!MoveMemory(m, n)
      PROVE  OwnersInv'
  BY <1>2, AllocateVbKeeps, FromBlockKeeps, AllocateCpuKeeps, AllocateTpuKeeps, FromPhysicalKeeps,
     MapMemoryKeeps, DestroyMemoryKeeps, MoveMemoryKeeps
<1>3. ASSUME NEW f \in FrameVariables,
             \/ Video!LendFrame(f) \/ Video!MatFrame(f) \/ Video!ReleaseFrame(f) \/ Video!MapFrame(f)
             \/ \E g \in FrameVariables : Video!MoveFrame(f, g) \/ Video!CopyFrame(f, g)
             \/ \E m \in Memories : Video!ViewFrame(f, m)
      PROVE  OwnersInv'
  BY <1>3, LendFrameKeeps, MatFrameKeeps, ReleaseFrameKeeps, MapFrameKeeps, MoveFrameKeeps, CopyFrameKeeps,
     ViewFrameKeeps
<1> QED
  BY <1>1, <1>2, <1>3 DEF Video!Next

-----------------------------------------------------------------------------
(* The behaviours of Devices in which VideoMemory runs                       *)

LEMMA VideoSteps == ASSUME [Next]_vars, which' = "video" PROVE which = "video" /\ [Video!Next]_Video!vars
<1>1. CASE Next
  BY <1>1 DEF Next
<1>2. CASE UNCHANGED vars
  BY <1>2 DEF vars, onlyVideo, Video!vars
<1> QED
  BY <1>1, <1>2

\* While the pools are used, what the manager knows of them is so.
THEOREM ContextInvariant == Spec => [](which = "video" => ContextInv)
<1> DEFINE Inv == which = "video" => ContextInv
<1>1. Init => Inv
  BY InitContext DEF Init
<1>2. ASSUME Inv, [Next]_vars PROVE Inv'
  <2> SUFFICES ASSUME which' = "video" PROVE ContextInv'
    OBVIOUS
  <2>1. which = "video" /\ [Video!Next]_Video!vars
    BY <1>2, VideoSteps
  <2>2. CASE Video!Next
    BY <1>2, <2>1, <2>2, NextContext
  <2>3. CASE UNCHANGED Video!vars
    BY <1>2, <2>1, <2>3 DEF Video!vars, ContextInv, ManagerKnows, Video!UpWhileNeeded
  <2> QED
    BY <2>1, <2>2, <2>3
<1> QED
  BY <1>1, <1>2, PTL DEF Spec

\* While blocks are used, their owners are as described.
THEOREM OwnersInvariant == Spec => [](which = "video" => OwnersInv)
<1> DEFINE Inv == which = "video" => OwnersInv
<1>1. Init => Inv
  BY InitOwners DEF Init
<1>2. ASSUME Inv, [Next]_vars PROVE Inv'
  <2> SUFFICES ASSUME which' = "video" PROVE OwnersInv'
    OBVIOUS
  <2>1. which = "video" /\ [Video!Next]_Video!vars
    BY <1>2, VideoSteps
  <2>2. CASE Video!Next
    BY <1>2, <2>1, <2>2, NextOwners
  <2>3. CASE UNCHANGED Video!vars
    BY <1>2, <2>1, <2>3, OwnersUnchanged DEF Video!vars
  <2> QED
    BY <2>1, <2>2, <2>3
<1> QED
  BY <1>1, <1>2, PTL DEF Spec

(* While VideoMemory runs, the pools of the board and the system are up       *)
(* exactly as long as MmfContext or VbPoolManager needs them.                  *)
THEOREM PoolsUpWhileNeeded == Spec => []UpWhileNeeded
<1>1. (which = "video" => ContextInv) => UpWhileNeeded
  BY DEF UpWhileNeeded, ContextInv
<1> QED
  BY <1>1, ContextInvariant, PTL

(* While VideoMemory runs, whatever is allocated, taken over, moved, viewed,   *)
(* copied or released: a lent block has exactly one owner, which will give it   *)
(* back the way it was lent, a free block has none, and each mapping of a block *)
(* is undone by one holder.                                                    *)
THEOREM EveryBlockHasOneOwner == Spec => []OneOwnerPerBlock
<1>1. (which = "video" => OwnersInv) => OneOwnerPerBlock
  BY OwnersInvImplies DEF OneOwnerPerBlock
<1> QED
  BY <1>1, OwnersInvariant, PTL
=============================================================================

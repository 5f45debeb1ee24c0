---------------------------- MODULE VideoMemory ----------------------------
(***************************************************************************)
(* Who owns the video memory: MmfContext and VbPoolManager bring the pools   *)
(* of the board up and down (modules/cv/mmf_context.cpp,                     *)
(* memory/vb_pool_manager.cpp), buffers and frames hold blocks of them       *)
(* (memory/*_memory.cpp, modules/cv/frame.cpp).                              *)
(*                                                                         *)
(* One thread calls; any call of the driver may fail.  A block is known by   *)
(* the way it must go back: "vb" by CVI_VB_ReleaseBlock, "vpss" and "vdec"   *)
(* by the release of the channel that lent it, "heap" by free, "tpu" by      *)
(* CVI_RT_MemFree.                                                           *)
(***************************************************************************)
EXTENDS Naturals, FiniteSets

CONSTANTS
    SizeOf,    \* SizeOf[b]: the size of the blocks of b's pool; its domain are the VB blocks
    Others,    \* blocks of the heap and of the TPU: b :> "heap" or "tpu"
    Memories,  \* variables that hold a buffer (shared_ptr of a DeviceBuffer)
    Frames,    \* variables that hold a Frame
    Plans,     \* pool configurations
    Nothing    \* no block, no plan

Pooled == DOMAIN SizeOf
Blocks == Pooled \cup DOMAIN Others
Sizes == {SizeOf[b] : b \in Pooled}

VideoAssumption ==
    /\ \A b \in Pooled : SizeOf[b] \in Nat
    /\ \A b \in DOMAIN Others : Others[b] \in {"heap", "tpu"}
    /\ Nothing \notin Blocks
    /\ IsFiniteSet(Memories) /\ IsFiniteSet(Frames)

VARIABLES
    sys,       \* CVI_SYS_Init is in force
    vb,        \* CVI_VB_Init is in force
    plan,      \* the configuration CVI_VB_SetConfig was given
    mmf,       \* MmfContext::initialized_
    manager,   \* VbPoolManager: initialized_, owns_vb_, owns_sys_
    lent,      \* lent[b]: the way b goes back, or "free"
    maps,      \* maps[b]: mappings of b into the process
    memory,    \* memory[m]: the buffer in m
    frame      \* frame[f]: the Frame in f

vars == <<sys, vb, plan, mmf, manager, lent, maps, memory, frame>>
context == <<sys, vb, plan, mmf, manager>>

NoMemory == [block |-> Nothing, kind |-> "none", size |-> 0, owns |-> FALSE, mapped |-> FALSE]

\* storage_type_ NONE; pixels is what the image data is, format what format_ says
NoFrame == [store |-> "none", owner |-> "external", block |-> Nothing,
            mapped |-> FALSE, pixels |-> "none", format |-> "none"]

ManagerDown == [up |-> FALSE, ownsVb |-> FALSE, ownsSys |-> FALSE]

Init ==
    /\ sys = FALSE /\ vb = FALSE /\ plan = Nothing
    /\ mmf = FALSE
    /\ manager = ManagerDown
    /\ lent = [b \in Blocks |-> "free"]
    /\ maps = [b \in Blocks |-> 0]
    /\ memory = [m \in Memories |-> NoMemory]
    /\ frame = [f \in Frames |-> NoFrame]

Free(kind) == {b \in Blocks : lent[b] = "free" /\ IF b \in Pooled THEN vb /\ kind \in {"vb", "vpss", "vdec"} ELSE Others[b] = kind}

NothingLent == \A b \in Pooled : lent[b] = "free"

-----------------------------------------------------------------------------
(* MmfContext, VbPoolManager *)

InitSteps == {"build", "SetConfig", "VB_Init", "SYS_Init", "SetVIVPSSMode", "SetVPSSModeEx"}

\* init(config): the steps before the one that fails are undone.  force_reset
\* first exits what another process left; nobody sets it here.  The context is
\* the outer of the two, as in every program of the repository.
MmfInit ==
    /\ ~mmf /\ ~manager.up
    /\ \E fails \in InitSteps \cup {"none"}, p \in Plans :
        /\ mmf' = (fails = "none")
        /\ sys' = mmf'
        /\ vb' = mmf'
        /\ plan' = IF fails \in {"build", "SetConfig"} THEN plan ELSE p
    /\ UNCHANGED <<manager, lent, maps, memory, frame>>

MmfShutdown ==
    /\ mmf /\ ~manager.up /\ NothingLent
    /\ sys' = FALSE /\ vb' = FALSE /\ mmf' = FALSE
    /\ UNCHANGED <<plan, manager, lent, maps, memory, frame>>

\* VbPoolManager::init when CVI_VB_IsInited: it throws if the configurations
\* differ or CVI_VB_GetConfig fails.  Whoever initialized VB initialized SYS, so
\* that the CVI_SYS_Init of this branch is never reached.
Attach(p) ==
    /\ vb
    /\ \/ /\ p = plan
          /\ manager' = [up |-> TRUE, ownsVb |-> FALSE, ownsSys |-> ~sys]
       \/ UNCHANGED manager
    /\ UNCHANGED <<sys, vb, plan>>

\* VbPoolManager::init when it is first: what fails is undone before it throws.
BringUp(p) ==
    /\ ~vb
    /\ \E fails \in {"SetConfig", "VB_Init", "SYS_Init", "none"} :
        /\ vb' = (fails = "none")
        /\ sys' = (fails = "none")
        /\ manager' = IF fails = "none" THEN [up |-> TRUE, ownsVb |-> TRUE, ownsSys |-> TRUE] ELSE manager
        /\ plan' = IF fails = "SetConfig" THEN plan ELSE p

ManagerInit ==
    /\ ~manager.up
    /\ \E p \in Plans : Attach(p) \/ BringUp(p)
    /\ UNCHANGED <<mmf, lent, maps, memory, frame>>

\* Mutant of ManagerShutdown: it exits what it found initialized.
ManagerShutdownAll ==
    /\ manager.up /\ NothingLent
    /\ sys' = FALSE /\ vb' = FALSE
    /\ manager' = ManagerDown
    /\ UNCHANGED <<plan, mmf, lent, maps, memory, frame>>

ManagerShutdown ==
    /\ manager.up /\ NothingLent
    /\ sys' = (sys /\ ~manager.ownsSys)
    /\ vb' = (vb /\ ~manager.ownsVb)
    /\ manager' = ManagerDown
    /\ UNCHANGED <<plan, mmf, lent, maps, memory, frame>>

-----------------------------------------------------------------------------
(* Buffers *)

\* select_pool: the smallest blocks that are large enough; empty when none is
Selected(size) == {s \in Sizes : s >= size /\ \A t \in Sizes : t >= size => s <= t}

\* get_block: the selected pool; when it is exhausted, whatever the driver finds
GetBlock(size) ==
    LET best == {b \in Free("vb") : SizeOf[b] \in Selected(size)}
    IN  IF best # {} THEN best ELSE {b \in Free("vb") : SizeOf[b] >= size}

Lend(b, kind) == lent' = [lent EXCEPT ![b] = kind]
Buffer(b, kind, size, owns) == [block |-> b, kind |-> kind, size |-> size, owns |-> owns, mapped |-> FALSE]

\* VbMemory::allocate: what fails after get_block gives the block back, so that
\* a failure is no step.
AllocateVb(m) ==
    /\ memory[m] = NoMemory /\ manager.up
    /\ \E size \in Sizes : \E b \in GetBlock(size) :
        /\ Lend(b, "vb")
        /\ memory' = [memory EXCEPT ![m] = Buffer(b, "vb", size, TRUE)]
    /\ UNCHANGED <<context, maps, frame>>

\* VbMemory::from_block(take_ownership) of a block that CVI_VB_GetBlock gave
FromBlock(m) ==
    /\ memory[m] = NoMemory /\ vb
    /\ \E b \in Free("vb") :
        /\ Lend(b, "vb")
        /\ memory' = [memory EXCEPT ![m] = Buffer(b, "vb", SizeOf[b], TRUE)]
    /\ UNCHANGED <<context, maps, frame>>

\* CpuMemory::allocate and from_external(take_ownership)
AllocateCpu(m) ==
    /\ memory[m] = NoMemory
    /\ \E b \in Free("heap") :
        /\ Lend(b, "heap")
        /\ memory' = [memory EXCEPT ![m] = Buffer(b, "heap", 1, TRUE)]
    /\ UNCHANGED <<context, maps, frame>>

\* CviTpuMemory::allocate: no address, or one that is not aligned, frees at once
AllocateTpu(m) ==
    /\ memory[m] = NoMemory
    /\ \E b \in Free("tpu"), fails \in {"none", "VAddr", "PAddr", "unaligned"} :
        IF fails = "none"
        THEN /\ Lend(b, "tpu")
             /\ memory' = [memory EXCEPT ![m] = Buffer(b, "tpu", 1, TRUE)]
        ELSE UNCHANGED <<lent, memory>>
    /\ UNCHANGED <<context, maps, frame>>

\* CviTpuMemory::from_physical: the buffer of somebody else; without a runtime
\* handle the destructor frees nothing, take_ownership or not
FromPhysical(m) ==
    /\ memory[m] = NoMemory
    /\ \E b \in {c \in Pooled : lent[c] # "free"} :
        memory' = [memory EXCEPT ![m] = Buffer(b, "physical", 1, FALSE)]
    /\ UNCHANGED <<context, lent, maps, frame>>

\* what is left of lent and maps when buffer r is destroyed
LentWithout(r) == IF r.owns THEN [lent EXCEPT ![r.block] = "free"] ELSE lent

\* Mutant of MapsWithout: what was never mapped is unmapped too.
MapsWithoutAsking(r) == [maps EXCEPT ![r.block] = @ - 1]

MapsWithout(r) == IF r.mapped THEN [maps EXCEPT ![r.block] = @ - 1] ELSE maps

\* VbMemory::data: maps once
MapMemory(m) ==
    /\ memory[m].kind = "vb" /\ ~memory[m].mapped
    /\ lent[memory[m].block] # "free"
    /\ maps' = [maps EXCEPT ![memory[m].block] = @ + 1]
    /\ memory' = [memory EXCEPT ![m].mapped = TRUE]
    /\ UNCHANGED <<context, lent, frame>>

\* ~VbMemory, ~CpuMemory, ~CviTpuMemory
DestroyMemory(m) ==
    /\ memory[m] # NoMemory
    /\ lent' = LentWithout(memory[m])
    /\ maps' = MapsWithout(memory[m])
    /\ memory' = [memory EXCEPT ![m] = NoMemory]
    /\ UNCHANGED <<context, frame>>

\* operator=(CpuMemory&&), operator=(CviTpuMemory&&)
MoveMemory(m, n) ==
    /\ m # n /\ memory[m].kind = memory[n].kind
    /\ memory[n].kind \in {"heap", "tpu"}
    /\ lent' = LentWithout(memory[m])
    /\ memory' = [memory EXCEPT ![m] = memory[n], ![n] = NoMemory]
    /\ UNCHANGED <<context, maps, frame>>

-----------------------------------------------------------------------------
(* Frames *)

Formats == {"BGR", "RGB", "NV21"}

\* Frame(frame, grp, chn) and set_vpss_owner, Frame(frame, false) and
\* set_vdec_owner, Frame(frame, true): a frame the hardware lends
LendFrame(f) ==
    /\ frame[f] = NoFrame /\ vb
    /\ \E kind \in {"vpss", "vdec", "vb"}, format \in Formats : \E b \in Free(kind) :
        /\ Lend(b, kind)
        /\ frame' = [frame EXCEPT ![f] = [store |-> "cvi", owner |-> kind, block |-> b, mapped |-> FALSE,
                                          pixels |-> format, format |-> format]]
    /\ UNCHANGED <<context, maps, memory>>

\* Frame(mat, format)
MatFrame(f) ==
    /\ frame[f] = NoFrame
    /\ \E format \in {"BGR", "RGB"} :
        frame' = [frame EXCEPT ![f] = [NoFrame EXCEPT !.store = "mat", !.pixels = format, !.format = format]]
    /\ UNCHANGED <<context, lent, maps, memory>>

\* release(), reset(): the release that owner_ names, then the mapping
LentWithoutFrame(r) == IF r.owner # "external" THEN [lent EXCEPT ![r.block] = "free"] ELSE lent

ReleaseFrame(f) ==
    /\ frame[f] # NoFrame
    /\ lent' = LentWithoutFrame(frame[f])
    /\ maps' = MapsWithout(frame[f])
    /\ frame' = [frame EXCEPT ![f] = NoFrame]
    /\ UNCHANGED <<context, memory>>

\* Mutant of MoveFrame: the owner of the other frame is not reset.
MoveFrameTwice(f, g) ==
    /\ f # g /\ frame[g] # NoFrame
    /\ lent' = LentWithoutFrame(frame[f])
    /\ maps' = MapsWithout(frame[f])
    /\ frame' = [frame EXCEPT ![f] = frame[g], ![g].mapped = FALSE]
    /\ UNCHANGED <<context, memory>>

\* operator=(Frame&&)
MoveFrame(f, g) ==
    /\ f # g /\ frame[g] # NoFrame
    /\ lent' = LentWithoutFrame(frame[f])
    /\ maps' = MapsWithout(frame[f])
    /\ frame' = [frame EXCEPT ![f] = frame[g], ![g] = NoFrame]
    /\ UNCHANGED <<context, memory>>

\* ensure_mapped, by to_mat_view and to_mat_copy: at most one mapping of a frame
Mapped(r) == [r EXCEPT !.mapped = r.store = "cvi" \/ @]
MapsWith(r) == IF r.store = "cvi" /\ ~r.mapped THEN [maps EXCEPT ![r.block] = @ + 1] ELSE maps

MapFrame(f) ==
    /\ frame[f].store = "cvi"
    /\ maps' = MapsWith(frame[f])
    /\ frame' = [frame EXCEPT ![f] = Mapped(@)]
    /\ UNCHANGED <<context, lent, memory>>

\* clone(): a Mat of its own, labelled BGR; NV21 is converted, RGB is not
CloneOf(r) == [NoFrame EXCEPT !.store = "mat", !.format = "BGR",
                              !.pixels = IF r.pixels = "NV21" THEN "BGR" ELSE r.pixels]

\* operator=(const Frame&): clone() of g maps g, then the move releases f
CopyFrame(f, g) ==
    /\ f # g /\ frame[g] # NoFrame /\ frame[f] = NoFrame
    /\ maps' = MapsWith(frame[g])
    /\ frame' = [frame EXCEPT ![f] = CloneOf(frame[g]), ![g] = Mapped(@)]
    /\ UNCHANGED <<context, lent, memory>>

\* as_vb_memory: a buffer over the frame's block that does not own it
ViewFrame(f, m) ==
    /\ frame[f].store = "cvi" /\ memory[m] = NoMemory
    /\ memory' = [memory EXCEPT ![m] = Buffer(frame[f].block, "vb", SizeOf[frame[f].block], FALSE)]
    /\ UNCHANGED <<context, lent, maps, frame>>

-----------------------------------------------------------------------------
Next ==
    \/ MmfInit \/ MmfShutdown \/ ManagerInit \/ ManagerShutdown
    \/ \E m \in Memories :
        \/ AllocateVb(m) \/ FromBlock(m) \/ AllocateCpu(m) \/ AllocateTpu(m) \/ FromPhysical(m)
        \/ MapMemory(m) \/ DestroyMemory(m)
        \/ \E n \in Memories : MoveMemory(m, n)
    \/ \E f \in Frames :
        \/ LendFrame(f) \/ MatFrame(f) \/ ReleaseFrame(f) \/ MapFrame(f)
        \/ \E g \in Frames : MoveFrame(f, g) \/ CopyFrame(f, g)
        \/ \E m \in Memories : ViewFrame(f, m)

Spec == Init /\ [][Next]_vars

-----------------------------------------------------------------------------
(* Properties *)

Ways == {"free", "vb", "vpss", "vdec", "heap", "tpu"}

TypeOK ==
    /\ {sys, vb, mmf} \subseteq BOOLEAN
    /\ plan \in Plans \cup {Nothing}
    /\ manager \in [up : BOOLEAN, ownsVb : BOOLEAN, ownsSys : BOOLEAN]
    /\ lent \in [Blocks -> Ways]
    /\ maps \in [Blocks -> Nat]
    /\ memory \in [Memories -> [block : Blocks \cup {Nothing}, kind : Ways \cup {"none", "physical"},
                                size : Nat, owns : BOOLEAN, mapped : BOOLEAN]]
    /\ frame \in [Frames -> [store : {"none", "cvi", "mat"}, owner : Ways \cup {"external"},
                             block : Blocks \cup {Nothing}, mapped : BOOLEAN,
                             pixels : Formats \cup {"none"}, format : Formats \cup {"none"}]]

\* The driver is up exactly as long as somebody who brought it up needs it: an
\* init that fails half-way leaves nothing up, and a manager that attached to
\* the context's pools does not take them down.
UpWhileNeeded ==
    /\ vb <=> mmf \/ manager.up
    /\ sys <=> vb

Owners(b) == {<<"memory", m>> : m \in {n \in Memories : memory[n].block = b /\ memory[n].owns}}
             \cup {<<"frame", f>> : f \in {g \in Frames : frame[g].block = b /\ frame[g].owner # "external"}}

WayBack(o) == IF o[1] = "memory" THEN memory[o[2]].kind ELSE frame[o[2]].owner

\* Whatever is moved, copied, viewed or fails half-way: each lent block has
\* one owner, which will give it back the way it was lent, and no block has an
\* owner after it was given back.  Each mapping has one holder that unmaps it.
OneOwnerPerBlock ==
    \A b \in Blocks :
        /\ IF lent[b] = "free"
           THEN Owners(b) = {}
           ELSE \E o \in Owners(b) : Owners(b) = {o} /\ WayBack(o) = lent[b]
        /\ maps[b] = Cardinality({m \in Memories : memory[m].block = b /\ memory[m].mapped})
                     + Cardinality({f \in Frames : frame[f].block = b /\ frame[f].mapped})

\* A frame's format says what its pixels are.  Refuted: clone() labels every
\* copy BGR, also that of an RGB frame (see the README).
LabelsAreTrue == \A f \in Frames : frame[f].format = frame[f].pixels
=============================================================================

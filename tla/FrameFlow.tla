----------------------------- MODULE FrameFlow -----------------------------
(***************************************************************************)
(* How frames travel: the capture thread of CameraNode, the inference        *)
(* threads of the ModelNodes, the inboxes between them and the reference     *)
(* counts of SharedFrame, while the worker of the Executor starts, stops,    *)
(* creates and destroys the nodes (src/src/node/camera_node.cpp,             *)
(* model_node.cpp, shared_frame.h, pipeline_context.h, node_factory.cpp).    *)
(*                                                                         *)
(* A sender is the camera or a model.  Each runs a thread that gets a frame  *)
(* (from the sensor or from its inbox), holds one reference to it, offers it *)
(* to the inboxes subscribed to the sender while it holds the subscription   *)
(* mutex, and releases it.  The inboxes are used through post and fetch      *)
(* without waiting or with a finite timeout: MessageBox shows that each is   *)
(* one atomic step then.                                                    *)
(*                                                                         *)
(* A command of the control plane is a sequence of steps of the worker, its  *)
(* agenda.                                                                  *)
(***************************************************************************)
EXTENDS Naturals, FiniteSets, SequencesExt

CONSTANTS
    Camera,        \* the camera node
    TopDown,       \* the model nodes, none before the one that feeds it
    FedBy,         \* FedBy[m]: the sender model m subscribes to
    Frames,        \* the blocks of the video buffer pool
    Capacity,      \* inbox capacity of a model node: 1
    Commands,      \* the commands in use, out of those Command lists
    StartFailures, \* TRUE: onStart of a model may fail (its websocket port is taken)
    NoFrame,       \* a sender holds no frame
    Nobody         \* a sender has prepared no context

Models == ToSet(TopDown)
Senders == {Camera} \cup Models
Command == {"create", "start", "stop", "destroy", "destroy_all"}
VB_BUFFER_RESERVE == 1

ASSUME FrameFlowAssumption ==
    /\ TopDown \in Seq(Models) /\ IsInjective(TopDown)
    /\ Camera \notin Models
    /\ FedBy \in [Models -> Senders]
    /\ \A i \in DOMAIN TopDown : FedBy[TopDown[i]] \in {Camera} \cup {TopDown[j] : j \in 1..(i - 1)}
    /\ Capacity \in Nat \ {0}
    /\ Commands \subseteq Command
    /\ StartFailures \in BOOLEAN
    /\ NoFrame \notin Frames
    /\ Nobody \notin Models

VARIABLES
    refs,         \* refs[f]: ref_count_ of the SharedFrame on block f; 0: the block is free
    pc,           \* pc[s]: where the thread of sender s is
    hand,         \* hand[s]: the frame it holds
    todo,         \* todo[s]: subscribers it has not served yet
    context,      \* context[s]: the subscriber it has made a PipelineContext for
    running,      \* running[s]: running_
    box,          \* box[m]: the frames of the contexts in the inbox of m
    interrupted,  \* interrupted[m]: interrupted_ of that inbox
    subscribers,  \* subscribers[s]: whose inboxes are attached to s
    alive,        \* the models whose node object exists
    mmf,          \* MmfContext is initialised: from onCreate to onDestroy of the camera
    agenda        \* the steps the worker has still to take

threads == <<pc, hand, todo, context>>
vars == <<refs, threads, running, box, interrupted, subscribers, alive, mmf, agenda>>

\* All nodes exist and run.
Init ==
    /\ refs = [f \in Frames |-> 0]
    /\ pc = [s \in Senders |-> "top"]
    /\ hand = [s \in Senders |-> NoFrame]
    /\ todo = [s \in Senders |-> {}]
    /\ context = [s \in Senders |-> Nobody]
    /\ running = [s \in Senders |-> TRUE]
    /\ box = [m \in Models |-> <<>>]
    /\ interrupted = [m \in Models |-> FALSE]
    /\ subscribers = [s \in Senders |-> {m \in Models : FedBy[m] = s}]
    /\ alive = Models
    /\ mmf = TRUE
    /\ agenda = <<>>

-----------------------------------------------------------------------------
(* The threads: CameraNode::captureLoop and ModelNode::inferLoop             *)

\* while (running_)
Top(s) ==
    /\ pc[s] = "top"
    /\ pc' = [pc EXCEPT ![s] = IF running[s] THEN "get" ELSE "off"]
    /\ UNCHANGED <<refs, hand, todo, context, running, box, interrupted, subscribers, alive, mmf, agenda>>

\* camera_->read gives a frame on a free block; processFrame wraps it in a
\* SharedFrame with one reference.
Capture ==
    /\ pc[Camera] = "get"
    /\ \E f \in Frames :
           /\ refs[f] = 0
           /\ refs' = [refs EXCEPT ![f] = 1]
           /\ hand' = [hand EXCEPT ![Camera] = f]
    /\ pc' = [pc EXCEPT ![Camera] = "use"]
    /\ UNCHANGED <<todo, context, running, box, interrupted, subscribers, alive, mmf, agenda>>

\* read fails (no buffer), or the frame is skipped and goes out of scope.
CaptureNothing ==
    /\ pc[Camera] = "get"
    /\ pc' = [pc EXCEPT ![Camera] = "top"]
    /\ UNCHANGED <<refs, hand, todo, context, running, box, interrupted, subscribers, alive, mmf, agenda>>

\* inbox_.fetch(&ctx, 100) returns a context.
Fetch(m) ==
    /\ pc[m] = "get"
    /\ box[m] # <<>>
    /\ hand' = [hand EXCEPT ![m] = Head(box[m])]
    /\ box' = [box EXCEPT ![m] = Tail(box[m])]
    /\ pc' = [pc EXCEPT ![m] = "use"]
    /\ UNCHANGED <<refs, todo, context, running, interrupted, subscribers, alive, mmf, agenda>>

\* It times out or is interrupted.
FetchNothing(m) ==
    /\ pc[m] = "get"
    /\ box[m] = <<>>
    /\ pc' = [pc EXCEPT ![m] = "top"]
    /\ UNCHANGED <<refs, hand, todo, context, running, box, interrupted, subscribers, alive, mmf, agenda>>

\* Inference is disabled, or it throws: the frame is not passed on.
Withhold(s) ==
    /\ pc[s] = "use"
    /\ pc' = [pc EXCEPT ![s] = "drop"]
    /\ UNCHANGED <<refs, hand, todo, context, running, box, interrupted, subscribers, alive, mmf, agenda>>

\* distributeFrame and forwardToDownstream lock the mutex of the subscribers;
\* it is held in "send".
LockSubscribers(s) ==
    /\ pc[s] = "use"
    /\ pc' = [pc EXCEPT ![s] = "send"]
    /\ todo' = [todo EXCEPT ![s] = subscribers[s]]
    /\ UNCHANGED <<refs, hand, context, running, box, interrupted, subscribers, alive, mmf, agenda>>

\* ref(), new PipelineContext
MakeContext(s) ==
    /\ pc[s] = "send"
    /\ context[s] = Nobody
    /\ \E m \in todo[s] : context' = [context EXCEPT ![s] = m]
    /\ refs' = [refs EXCEPT ![hand[s]] = @ + 1]
    /\ UNCHANGED <<pc, hand, todo, running, box, interrupted, subscribers, alive, mmf, agenda>>

\* Mutant of Accepts: a slot too many.
AcceptsOneMore(m) == ~interrupted[m] /\ Len(box[m]) <= Capacity

\* post(ctx, 0) succeeds.
Accepts(m) == ~interrupted[m] /\ Len(box[m]) < Capacity

\* Mutant of Post: a context that is refused is not deleted.
PostLeaks(s) ==
    /\ pc[s] = "send"
    /\ context[s] # Nobody
    /\ LET m == context[s] IN
       /\ box' = IF Accepts(m) THEN [box EXCEPT ![m] = Append(@, hand[s])] ELSE box
       /\ todo' = [todo EXCEPT ![s] = @ \ {m}]
    /\ context' = [context EXCEPT ![s] = Nobody]
    /\ UNCHANGED <<refs, pc, hand, running, interrupted, subscribers, alive, mmf, agenda>>

\* post(ctx, 0), and delete ctx if it is refused
Post(s) ==
    /\ pc[s] = "send"
    /\ context[s] # Nobody
    /\ LET m == context[s] IN
       /\ box' = IF Accepts(m) THEN [box EXCEPT ![m] = Append(@, hand[s])] ELSE box
       /\ refs' = IF Accepts(m) THEN refs ELSE [refs EXCEPT ![hand[s]] = @ - 1]
       /\ todo' = [todo EXCEPT ![s] = @ \ {m}]
    /\ context' = [context EXCEPT ![s] = Nobody]
    /\ UNCHANGED <<pc, hand, running, interrupted, subscribers, alive, mmf, agenda>>

UnlockSubscribers(s) ==
    /\ pc[s] = "send"
    /\ context[s] = Nobody
    /\ todo[s] = {}
    /\ pc' = [pc EXCEPT ![s] = "drop"]
    /\ UNCHANGED <<refs, hand, todo, context, running, box, interrupted, subscribers, alive, mmf, agenda>>

\* Mutant of Release: release(), and once more in the destructor.
ReleaseTwice(s) ==
    /\ pc[s] = "drop"
    /\ refs' = [refs EXCEPT ![hand[s]] = @ - 2]
    /\ hand' = [hand EXCEPT ![s] = NoFrame]
    /\ pc' = [pc EXCEPT ![s] = "top"]
    /\ UNCHANGED <<todo, context, running, box, interrupted, subscribers, alive, mmf, agenda>>

\* sf->release(), delete ctx
Release(s) ==
    /\ pc[s] = "drop"
    /\ refs' = [refs EXCEPT ![hand[s]] = @ - 1]
    /\ hand' = [hand EXCEPT ![s] = NoFrame]
    /\ pc' = [pc EXCEPT ![s] = "top"]
    /\ UNCHANGED <<todo, context, running, box, interrupted, subscribers, alive, mmf, agenda>>

Thread(s) ==
    \/ Top(s) \/ Withhold(s) \/ LockSubscribers(s) \/ MakeContext(s) \/ Post(s)
    \/ UnlockSubscribers(s) \/ Release(s)
    \/ s = Camera /\ (Capture \/ CaptureNothing)
    \/ s # Camera /\ (Fetch(s) \/ FetchNothing(s))

-----------------------------------------------------------------------------
(* The steps of the worker *)

\* The models whose node depends on one of S, directly or through others, with
\* those in S
Below(S) ==
    {m \in Models : \A T \in SUBSET Models :
        (S \cap Models \subseteq T /\ \A x \in Models : FedBy[x] \in T \cup S => x \in T) => m \in T}

\* What one PipelineContext after another does to the counts when its owner
\* deletes it
Places(frames, f) == {i \in DOMAIN frames : frames[i] = f}
Released(frames) == [f \in Frames |-> refs[f] - Cardinality(Places(frames, f))]

Step(op, s) == [op |-> op, of |-> s]
Doing(op, s) == agenda # <<>> /\ Head(agenda) = Step(op, s) /\ agenda' = Tail(agenda)

\* create: the node is made, and setupDataFlow attaches its inbox under the subscribers' mutex.
Attach(m) ==
    /\ Doing("attach", m)
    /\ pc[FedBy[m]] # "send"
    /\ subscribers' = [subscribers EXCEPT ![FedBy[m]] = @ \cup {m}]
    /\ alive' = alive \cup {m}
    /\ UNCHANGED <<refs, threads, running, box, interrupted, mmf>>

\* Mutant of Detach: without the mutex.
DetachUnlocked(m) ==
    /\ Doing("detach", m)
    /\ subscribers' = [subscribers EXCEPT ![FedBy[m]] = @ \ {m}]
    /\ UNCHANGED <<refs, threads, running, box, interrupted, alive, mmf>>

\* teardownDataFlow
Detach(m) ==
    /\ Doing("detach", m)
    /\ pc[FedBy[m]] # "send"
    /\ subscribers' = [subscribers EXCEPT ![FedBy[m]] = @ \ {m}]
    /\ UNCHANGED <<refs, threads, running, box, interrupted, alive, mmf>>

\* ModelNode::onStart: inbox_.clear(), inbox_.reset()
Open(m) ==
    /\ Doing("open", m)
    /\ refs' = Released(box[m])
    /\ box' = [box EXCEPT ![m] = <<>>]
    /\ interrupted' = [interrupted EXCEPT ![m] = FALSE]
    /\ UNCHANGED <<threads, running, subscribers, alive, mmf>>

\* Mutant of Spawn: the thread is not started.
SpawnNot(s) ==
    /\ Doing("spawn", s)
    /\ running' = [running EXCEPT ![s] = TRUE]
    /\ UNCHANGED <<refs, threads, box, interrupted, subscribers, alive, mmf>>

\* running_ is set and the thread started.
Spawn(s) ==
    /\ Doing("spawn", s)
    /\ running' = [running EXCEPT ![s] = TRUE]
    /\ pc' = [pc EXCEPT ![s] = "top"]
    /\ UNCHANGED <<refs, hand, todo, context, box, interrupted, subscribers, alive, mmf>>

\* Mutant of Halt: running_ stays set.
HaltInterruptsOnly(s) ==
    /\ Doing("halt", s)
    /\ interrupted' = [m \in Models |-> m = s \/ interrupted[m]]
    /\ UNCHANGED <<refs, threads, running, box, subscribers, alive, mmf>>

\* ModelNode::onStop and stopCapture: running_ is cleared, the inbox interrupted.
Halt(s) ==
    /\ Doing("halt", s)
    /\ running' = [running EXCEPT ![s] = FALSE]
    /\ interrupted' = [m \in Models |-> m = s \/ interrupted[m]]
    /\ UNCHANGED <<refs, threads, box, subscribers, alive, mmf>>

\* Mutant of Join: the thread is not waited for.
JoinNot(s) == Doing("join", s) /\ UNCHANGED <<refs, threads, running, box, interrupted, subscribers, alive, mmf>>

Join(s) ==
    /\ Doing("join", s)
    /\ pc[s] = "off"
    /\ UNCHANGED <<refs, threads, running, box, interrupted, subscribers, alive, mmf>>

\* Mutant of Clear: onStop leaves what is in the inbox there.
ClearNot(m) == Doing("clear", m) /\ UNCHANGED <<refs, threads, running, box, interrupted, subscribers, alive, mmf>>

\* inbox_.clear() at the end of onStop
Clear(m) ==
    /\ Doing("clear", m)
    /\ refs' = Released(box[m])
    /\ box' = [box EXCEPT ![m] = <<>>]
    /\ UNCHANGED <<threads, running, interrupted, subscribers, alive, mmf>>

\* The node object is deleted, and with it its inbox and its subscriptions.
Free(m) ==
    /\ Doing("free", m)
    /\ refs' = Released(box[m])
    /\ box' = [box EXCEPT ![m] = <<>>]
    /\ interrupted' = [interrupted EXCEPT ![m] = FALSE]
    /\ subscribers' = [subscribers EXCEPT ![m] = {}]
    /\ alive' = alive \ {m}
    /\ UNCHANGED <<threads, running, mmf>>

\* CameraNode::onCreate: setupVbPools
InitMmf ==
    /\ Doing("init_mmf", Camera)
    /\ mmf' = TRUE
    /\ UNCHANGED <<refs, threads, running, box, interrupted, subscribers, alive>>

\* CameraNode::onDestroy: cleanupVbPools
ExitMmf ==
    /\ Doing("exit_mmf", Camera)
    /\ mmf' = FALSE
    /\ UNCHANGED <<refs, threads, running, box, interrupted, subscribers, alive>>

\* nodes_.clear() frees the camera with the models.
FreeCamera ==
    /\ Doing("free", Camera)
    /\ subscribers' = [subscribers EXCEPT ![Camera] = {}]
    /\ UNCHANGED <<refs, threads, running, box, interrupted, alive, mmf>>

Worker ==
    \/ \E m \in Models : Attach(m) \/ Detach(m) \/ Open(m) \/ Clear(m) \/ Free(m)
    \/ \E s \in Senders : Spawn(s) \/ Halt(s) \/ Join(s)
    \/ InitMmf \/ ExitMmf \/ FreeCamera

-----------------------------------------------------------------------------
(* The commands: the steps each of them takes, in order *)

\* steps[m] for each m \in S, dependents first or last
BottomUp(S, steps(_)) == FlattenSeq([i \in 1..Len(TopDown) |->
    LET m == Reverse(TopDown)[i] IN IF m \in S THEN steps(m) ELSE <<>>])
Downwards(S, steps(_)) == FlattenSeq([i \in 1..Len(TopDown) |->
    LET m == TopDown[i] IN IF m \in S THEN steps(m) ELSE <<>>])

StopSteps(m) == IF running[m] THEN <<Step("halt", m), Step("join", m), Step("clear", m)>> ELSE <<>>
StartSteps(m) == <<Step("open", m), Step("spawn", m)>>
DestroySteps(m) == <<Step("detach", m)>> \o StopSteps(m) \o <<Step("free", m)>>
StopCamera == IF running[Camera] THEN <<Step("halt", Camera), Step("join", Camera)>> ELSE <<>>

\* The start cascade through S: a model whose onStart fails has opened its
\* inbox, and those behind it are not started.
Cascade(S, failing) ==
    Downwards(S \ Below(failing), StartSteps)
    \o Downwards(failing \cap S, LAMBDA m : <<Step("open", m)>>)

Failing == IF StartFailures THEN {{}} \cup {{m} : m \in Models} ELSE {{}}

Issue(name, steps) ==
    /\ name \in Commands
    /\ agenda = <<>>
    /\ steps # <<>>
    /\ agenda' = steps
    /\ UNCHANGED <<refs, threads, running, box, interrupted, subscribers, alive, mmf>>

Idle(S) == {m \in S : ~running[m]}

\* A model is created after the node that feeds it, and starts if that runs.
CreateModel(m) ==
    /\ m \notin alive
    /\ IF FedBy[m] = Camera THEN mmf ELSE FedBy[m] \in alive
    /\ \E failing \in Failing :
           Issue("create", <<Step("attach", m)>> \o
               (IF running[FedBy[m]] THEN Cascade({m}, failing) ELSE <<>>))

CreateCamera ==
    /\ ~mmf
    /\ Issue("create", <<Step("init_mmf", Camera), Step("spawn", Camera)>>)

StartModel(m) ==
    /\ m \in Idle(alive)
    /\ running[FedBy[m]]
    /\ \E failing \in Failing : Issue("start", Cascade(Below({m}) \cap alive, failing))

StartCamera ==
    /\ mmf /\ ~running[Camera]
    /\ \E failing \in Failing :
           Issue("start", <<Step("spawn", Camera)>> \o Cascade(Idle(alive), failing))

\* A node stops after its dependents; NodeFactory::stop stops the capture
\* thread of a camera first.
StopModel(m) ==
    /\ m \in alive /\ running[m]
    /\ Issue("stop", BottomUp(Below({m}) \cap alive, StopSteps))

StopAll ==
    /\ running[Camera]
    /\ Issue("stop", StopCamera \o BottomUp(alive, StopSteps))

DestroyModel(m) ==
    /\ m \in alive
    /\ Issue("destroy", BottomUp(Below({m}) \cap alive, DestroySteps))

DestroyCamera ==
    /\ mmf
    /\ Issue("destroy", BottomUp(alive, DestroySteps) \o StopCamera
                        \o <<Step("exit_mmf", Camera), Step("free", Camera)>>)

\* No inbox is detached, and the nodes are freed when all are destroyed.
DestroyAll ==
    /\ mmf
    /\ Issue("destroy_all", StopCamera \o BottomUp(alive, StopSteps) \o <<Step("exit_mmf", Camera)>>
                            \o BottomUp(alive, LAMBDA m : <<Step("free", m)>>)
                            \o <<Step("free", Camera)>>)

ControlPlane ==
    \/ \E m \in Models : CreateModel(m) \/ StartModel(m) \/ StopModel(m) \/ DestroyModel(m)
    \/ CreateCamera \/ StartCamera \/ StopAll \/ DestroyCamera \/ DestroyAll

Next == ControlPlane \/ Worker \/ \E s \in Senders : Thread(s)

Spec == Init /\ [][Next]_vars

\* The scheduler runs every thread that can go on; nobody has to issue commands.
\* The worker, which waits for a mutex that its sender holds only between two
\* frames, gets it in the end: strong fairness.
Fairness == SF_vars(Worker) /\ \A s \in Senders : WF_vars(Thread(s))
FairSpec == Spec /\ Fairness

-----------------------------------------------------------------------------
(* Properties *)

InUse == {f \in Frames : refs[f] > 0}

(* Types of the variables. *)
TypeOK ==
    /\ refs \in [Frames -> Nat]
    /\ pc \in [Senders -> {"top", "get", "use", "send", "drop", "off"}]
    /\ hand \in [Senders -> Frames \cup {NoFrame}]
    /\ todo \in [Senders -> SUBSET Models]
    /\ context \in [Senders -> Models \cup {Nobody}]
    /\ running \in [Senders -> BOOLEAN]
    /\ box \in [Models -> Seq(Frames)]
    /\ interrupted \in [Models -> BOOLEAN]
    /\ subscribers \in [Senders -> SUBSET Models]
    /\ alive \subseteq Models
    /\ mmf \in BOOLEAN

(* The reference count of a frame is the number of its holders - threads,        *)
(* contexts on their way, contexts in inboxes - at every moment: no frame is      *)
(* released while somebody can reach it, twice, or never (SharedFrame,           *)
(* PipelineContext, and every place that makes or deletes one).                  *)
RefsAreExact ==
    \A f \in Frames :
        refs[f] = Cardinality({s \in Senders : hand[s] = f})
                + Cardinality({s \in Senders : hand[s] = f /\ context[s] # Nobody})
                + Cardinality(UNION {{<<m, i>> : i \in Places(box[m], f)} : m \in Models})

(* A sender posts only to inboxes of nodes that exist: destroy detaches an inbox  *)
(* under the mutex the sender posts under (teardownDataFlow, distributeFrame).   *)
PostsReachLiveNodes == \A s \in Senders : pc[s] = "send" => todo[s] \subseteq alive

(* No inference thread runs on a node that was deleted (onStop joins it).         *)
ThreadsHaveNodes == \A m \in Models : pc[m] # "off" => m \in alive

(* When the camera shuts the MMF context down, no frame of its pool is in use:   *)
(* the "Frame destructor handles VB release" (shared_frame.h:23) while there is   *)
(* a pool to release to, in every order of stopping and destroying.              *)
NoFrameOutlivesMmf == ~mmf => InUse = {}

(* The blocks in use never exceed one for each thread that runs and Capacity for  *)
(* each inbox that is open: a node that was stopped or destroyed keeps nothing,   *)
(* however frames cross its stop (onStop interrupts before it clears).           *)
InFlightBounded ==
    Cardinality(InUse) <=
        Cardinality({s \in Senders : pc[s] # "off"})
        + Capacity * Cardinality({m \in alive : ~interrupted[m] \/ agenda # <<>>})

(* "Parallel: Camera(1) + N models holding frames + buffer(1)", "Serial: ... only *)
(* need 3 blocks total" (resource_estimator.cpp:230, 233-234).                   *)
RequirementSuffices ==
    Cardinality(InUse) <=
        IF \A m \in Models : FedBy[m] = Camera THEN 1 + Cardinality(Models) + VB_BUFFER_RESERVE ELSE 3

(* Every frame goes back to the pool: no order of posts, failures, stops and      *)
(* restarts strands it.                                                          *)
FramesReturn == \A f \in Frames : refs[f] > 0 ~> refs[f] = 0

(* Every command of the control plane ends: the threads it joins do end.          *)
CommandsEnd == agenda # <<>> ~> agenda = <<>>
=============================================================================

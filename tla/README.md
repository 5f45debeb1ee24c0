# LuaScriptVision: verification project

LuaScriptVision runs vision models on an embedded board. Nodes (a camera, models, streams) are created over
MQTT, linked into a graph, and pass reference-counted video frames to one another through bounded inboxes. This
directory holds TLA+ specifications of the concurrent and stateful part of that program, the TLC configurations
that check them, and TLAPS proofs. Paths below are relative to `src/src/` of the repository unless they start
with `src/`.

Contents: [1 The system](#1-the-system) · [2 The modules](#2-the-modules) · [3 The runs](#3-the-runs) ·
[4 What the code refutes](#4-what-the-code-refutes) · [5 Fairness](#5-fairness) · [6 Proofs](#6-proofs) ·
[7 Limits of the models](#7-limits-of-the-models) · [8 Plan](#8-plan) · [9 Running it](#9-running-it)

## 1 The system

```
 MQTT broker --> NodeServer --submit--> Executor (one worker)
                                           | create/start/stop/destroy
                                           v
                        NodeFactory --owns--> CameraNode, ModelNode..., StreamNode
                          |   ^                   |  capture thread    | inference thread
            evaluate_model|   |                   +--post--> MessageBox --fetch--> ModelNode --post--> ...
                          v   |                        (PipelineContext holds a SharedFrame reference)
                    ResourceEstimator
```

Threads: the MQTT loop, the executor's worker (control plane), one capture thread per camera, one inference
thread per model, encoder threads and the mongoose I/O thread (data plane). The control plane is sequential by
design; what is hard is its encounter with the data-plane threads, and the long sequences of legal commands that
leave the graph in a state nobody thought of.

| Component (source) | State | Operations | Interacts with | Hard behaviours | What makes it correct |
|---|---|---|---|---|---|
| Message box (`node/message_box.h`) | queue, capacity, `interrupted_`, mutex, two condition variables | `post`, `fetch`, `clear`, `interrupt`, `reset` | capture and inference threads, `onStart`/`onStop` of the models | `interrupt`/`reset` write an atomic outside the mutex; `notify_one`; timed waits | bounded FIFO; no pop of an empty queue; no lost wakeup; timed calls return |
| Executor (`node/executor.*`) | task queue, `running_`, mutex, condition variable, worker | `submit`, `cancel`, `workerLoop`, destructor | NodeServer; tasks that ask to be requeued | notify after unlock; `running_` outside the mutex; throwing and requeueing tasks | no task lost, doubled, starved; no lost wakeup; destructor returns |
| Node factory, nodes, links (`node/node_factory.*`, `node.*`, `data_node.h`) | `nodes_`, `dependencies_`/`dependents_` (raw pointers), `started_`, `pending_dependencies_`, `singleton_instances_`, subscriptions | `create`, `start`, `stop`, `destroy`, `destroyAll` | estimator; `onCreate`/`onStart`/`onStop` of nodes, each of which may fail | cascades over a mutable graph, dependencies that appear late, partial failure, pointers to freed nodes | links mutual and live; dependants run only with dependencies; nobody forgotten; inboxes follow links |
| Resource estimator (`node/resource_estimator.*`, `resource_limits.h`) | active models, topologies, camera policies | `evaluate_model`, `on_model_started/stopped`, `register/unregister_camera_policy` | factory; model and camera nodes | boundary arithmetic of the pool; maps kept by other components | limits hold for what is created; maps match the running models |
| Frame distribution (`node/camera_node.*`, `model_node.*`, `shared_frame.h`, `pipeline_context.h`) | reference counts, subscriber lists, inboxes, `running_`, MMF context | `captureLoop`, `distributeFrame`, `inferLoop`, `forwardToDownstream`, `attach/detach`, `onStart/onStop/onDestroy` | VB pool, factory | frames in flight during stop, destroy and restart | counts exact; every frame returns, while there is a pool to return to; no post to a freed inbox; bounded use of blocks |
| Adaptive skipping (`node/camera_node.cpp`, `pipeline/cvi_pipeline.cpp`) | average of processing times, NOBUF streaks, backoff, next inference time | `captureLoop`, `updateSkipTiming`, `applyExponentialBackoff`, `run_camera_frame_adaptive` | models report their timings; driver | several places move the next time; counters at their limits; the rate changes meanwhile | no frame sooner than the rate, as the backoff truncates it, allows |
| Node server (`node/node_server.*`) | MQTT connection, executor, factory | `start`, `stop`, `onMessage`, `handleRequest`, `handleCreate`, `handleClear`, `event` | broker, executor, factory, threads of the nodes | lost connection; order of shutdown; handlers that throw | a response per well-formed request; nothing used after it is gone |
| Stream node, camera preview, VENC encoder (`node/stream_node.*`, `camera_node.cpp`, `stream/venc_encoder.*`) | channel, receiving, bound, stream held, `running_` | `onStart`, `onStop`, `encodeLoop`, `init`, `bind`, `get_stream`, `release_stream`, `shutdown` | vendor driver, transport | each driver call may fail; the thread stores its own flag | every acquisition undone once; the encode thread ends and never finds its encoder gone |
| WebSocket transport (`stream/websocket_transport.*`) | broadcast queue, clients, `running_` | `start`, `stop`, `enqueue_frame`, event handler | encoder threads, mongoose thread | eviction policy; wakeup during stop; clients that come and go | bounded; a new client is sent a key frame; stop ends |
| Parallel pipeline (`pipeline/parallel_pipeline.*`), audio capture (`stream/audio_capture.*`), RTSP (`stream/rtsp_server.cpp`) | three threads, result queue, encoder, RTSP, audio queue | `start`, `stop`, `pop_result`, `get_frame` | VENC, RTSP, ALSA | failures in the middle of `start`; `stop` resets objects its threads use | nothing left by a failed start; nothing used after its reset; newest results kept |
| Camera driver (`modules/cv/cvi_camera.*`, `camera_source.cpp`) | twenty flags, the ISP's thread, frames lent | `open`, `cleanup`, `read`, `release` | vendor driver | failure at every step of `open`; cleanup while the ISP's thread starts | opened with all it needs or nothing held; nothing removed under what stands on it |
| VPSS (`modules/cv/cvi_vpss_processor.*`) | the one group for memory input, what each processor told it | `process`, `process_frame`, destructor | `cv_helpers`, model nodes | state remembered so as not to tell the driver again; half-way failures | a call returns what it was asked |
| JPEG decoder (`hw_jpeg_decoder.cpp`, `image_source.cpp`, `ion_image_loader.cpp`) | one VDEC channel, sizes, pictures lent | `open`, `read`, `load_from_memory*`, `preallocate`, `cleanup` | two users of channel 0 | renewal under lent pictures, late pictures | callers hold live pictures of their own image |
| VB pools, MMF context, buffers, frames (`memory/*`, `mmf_context.cpp`, `frame.*`) | owned/inited flags, pools, blocks, mappings | `init`, `shutdown`, `select_pool`, `allocate`, `map`, move, clone, `reset` | vendor driver; everybody | partial failure, pools of others, move semantics | up while needed; one owner per block |
| Inference session, CVI pipeline (`inference/cvi_session.cpp`, `cvi_pipeline.cpp`, `model_node.cpp`) | tensor address, buffers and caches, regions left | `run`, `run_all`, `run_with_vb`, ROI inference | TPU runtime, VPSS, scripts | stale addresses, caches and scales | what a script is given is about the frame and region it is told |
| Tensors, Lua bindings, preview HTTP server | numeric data, conversions | | | none of their own | not modelled, see section 7 |

`PROJECT.json` lists these components with their status, and under `hazards` each hazard at its line, with the
properties that cover it or the reason why none does yet.

## 2 The modules

| Module | Models | EXTENDS / INSTANCE |
|---|---|---|
| `Mailbox` | what a message box promises, call by call: a bounded FIFO that can be closed | abstract specification |
| `MessageBox` | `node/message_box.h`, one step per point where another thread can intervene | `INSTANCE Mailbox` with a refinement mapping |
| `Executor` | `node/executor.cpp` in the same style | |
| `ResourceEstimator` | the decision of `evaluate_model` as operators | |
| `NodeGraph` | factory, lifecycle, links and the estimator's maps; one action per command | `EXTENDS ResourceEstimator` |
| `FrameFlow` | data-plane threads against the control plane's worker | uses each inbox as the atomic box that `Mailbox` justifies |
| `NodeServer` | MQTT loop, worker and owner; requests, answers, shutdown | uses the executor as the queue that `Executor` justifies |
| `ParallelPipeline` | owner, three threads, capture thread and consumer; VENC, RTSP and ALSA as these classes drive them | |
| `StreamNode` | encode thread, I/O thread, broadcast queue and clients; the camera's preview as a variant (`kind`) | |
| `Camera` | `open` and `cleanup` of `CviCamera`, the ISP's thread, reads | |
| `VideoMemory` | system, pools, blocks, buffers and frames | |
| `JpegDecoder` | one VDEC channel and its two users | |
| `Vpss` | the VPSS group that all processors share | |
| `Inference` | what the input tensor, the outputs and the script's answer show | |
| `FrameSkipping` | both skipping loops, in ticks of a third of a millisecond | |
| `MCNodeGraph`, `MCFrameFlow` | the flows, failures and symmetry that TLC is given | `EXTENDS` the module |
| `Devices`, `Streaming` | several modules side by side: `which` says whose behaviour it is, and the variables of the others stay `Unused`. They state the properties of their modules and assume what these assume of their constants | `INSTANCE` of each |
| `MCDevices`, `MCStreaming` | the values TLC is given | `EXTENDS` the module |
| `MCProgress` | `FrameFlow` and `MessageBox` side by side, with fairness; one of them moves | `EXTENDS MCFrameFlow`, `INSTANCE MessageBox` |
| `MessageBoxProofs`, `ExecutorProofs`, `NodeGraphProofs`, `FrameFlowProofs`, `FrameSkippingProofs` | theorems about one module | `EXTENDS` the module and `TLAPS` |
| `VideoMemoryProofs`, `DevicesProofs` | theorems about `Devices`: the memory; the other four | `EXTENDS Devices`; `DevicesProofs` EXTENDS `VideoMemoryProofs` and takes the invariant of `FrameSkippingProofs` by INSTANCE |
| `StreamingProofs` | theorems about `Streaming`, all four modules | `EXTENDS Streaming` |

**MessageBox.** `pc[t]` is the position of thread t in its call. `mutex` is the thread that holds `mutex_`. A
`wait` is three steps: the predicate is false (`"test"`), the thread joins the waiters and releases the mutex
(`"sleep"`), and when it was notified, expired or woke spuriously (`"awake"`) it relocks and re-evaluates.
`interrupt` is three steps without the mutex (a store, two broadcasts), `reset` one. `HasRoom` is the predicate of
`post`, `PostCheck` its branch for timeout 0. `sawOpen` is a history variable: some instant of the post under way
saw the box open; the mapping to `Mailbox` needs it, because the load of `interrupted_` comes before the push.

**Executor.** The worker's loop is cut at the lock, the predicate, the wait, the re-test of `running_`, the pop,
the call of the task and the resubmission. Clients hold the mutex for one step only (no wait inside), so that
their critical sections are single actions guarded by a free mutex. A task ends or asks for a requeue; an
exception is caught and counts as an end, as in the code. `submitted` is history: the tasks that were ever queued,
each of which must be somewhere (`OnePlacePerTask`).

**NodeGraph.** Each of `create`, `start`, `stop`, `destroy`, `destroyAll` and `onControl("set_infer_fps_limit")` is
one action, because one worker runs them all. A cascade is a closure over the links (`StartCascade`,
`StopCascade`, `Dependents`), written as a least set so that proofs can use it. `dependents` has the keys of
`dependents_`; `stale` those whose pointer dangles: nothing in the code removes a destroyed node from the
`dependents_` of the nodes that stay. Following such a pointer is undefined behaviour; the model continues with
the mildest outcome and sets `touchedFreed`. `asked`, `held` and `touchedFreed` are history variables.
`CreateFails` is `create` whose `onCreate` fails after the links were made.

**FrameFlow.** Each sender (the camera, each model) has a thread that gets a frame, offers it to its subscribers
one by one with a new `PipelineContext` each (one reference per context), and releases its own reference. A command
is a sequence of steps in `agenda`, taken by `Worker` while the other threads run: `halt` (running_ := false,
interrupt), `join`, `clear`, `detach` (waits for the subscription mutex), `free`, `open`, `spawn`, `exit_mmf`.

**NodeServer.** `tasks` and `worker` are the executor's queue and the request that is handled: `HandleMalformed` is
`handleRequest` up to its `try` for a message that is no request or has a field of the wrong kind (nobody answers it),
`Handle` the rest (`done` says whether it succeeded, threw, or threw after the node was made), `Respond` the test of
`connected_`, `Publish` the call of mosquitto. `talker` is the thread of some node inside `event()`. `stop` is its
five steps in the code's order, each with the join it waits for; the one for the executor may never return (owner
`"hung"`), as `executor_destructor_hangs` shows.

**ParallelPipeline.** `start` is one action per outcome, because no thread runs before its end; `stop` one action per
statement, because all of them do. `live` is which objects are set, `chn` the channel as the driver has it, `venc` the
flags of `VencEncoder`. A thread that enters, or is inside, an object that is gone sets `broken`, and the model stops
there: what follows is not defined.

**StreamNode.** `enqueue_frame` is cut between its queue and its wakeup, `onStop` and `stop` at each join. The
`queue` holds `"key"` and `"delta"`; `client[c]` is whether c was there when a key frame was asked for
(`"asked"`), or came before the callback was set (`"unasked"`), or has been sent one (`"watching"`).

**Camera.** Each function of `open` is an action: it gets any prefix of its facilities and goes on, or fails and
cleans up. `flags` is what the members say, `held` what the driver holds; the flip callback has no flag. `UndoOrder`
is the order of `cleanup`, which is not the reverse of `open`'s.

**VideoMemory.** A block is known by the way it must go back (`lent[b]`); `memory` and `frame` are variables of the
program that hold buffers and frames, with the members that decide what their destructors do. `maps` counts
mappings. Any driver call may fail; the caller of the library respects that pools are not shut down under lent
blocks (`NothingLent`), as the nodes do.

**JpegDecoder.** A decoder call is a function from the state of the channel to its possible outcomes, composed by
`EnsureInitialized`, `Configure`, `StartReceiving` and `Decode` as in the code. `generation` tells the pictures of a
channel that was destroyed from those of its successor.

**Vpss.** A call is four steps, between which calls of other processors come. `proc[p]` is what p believes of the
group, `group` what the driver has. Every call of the driver may fail, those that undo something and whose return code the
code drops included: stopping (`Halted`), `CVI_VPSS_DestroyGrp`, taking the crop back (`Uncrop`). `mishap` is history:
what is wrong with the group at present. `"shared"`: two processors use it. `"halfway"`: the set-up of a running
channel ended early, and the members still say what it was. `"crop"`: a crop was not taken back. `"late"`: a result
came after its call gave up. `"kept"`: its destruction failed. What is put right, by a new group or a call that
succeeds, is no longer wrong.

**Inference.** A picture is the frame, region, fit and colours it shows. `session.addr` is the block the input tensor
points to, `session.cpu` what the CPU sees of each output (invalidated or not).

**FrameSkipping.** Times to come count down; `wait` is `next_infer_time - now`. `since`, `floor`, `gap` and `due` are
history: the time since the last frame that was used, and the shortest gap that the loop grants since. A millisecond
has `TicksPerMs` ticks, so that the truncation of `applyExponentialBackoff` to whole milliseconds (`Whole`) is in the
model; `Granted(i)` is what a loop leaves of an interval i when it backs off: the pipeline all of it, the node its whole
milliseconds, and neither more than a second.

## 3 The runs

Passing runs check deadlock except where the system may really stop (said below).

| Run | Instance | Shows | Why these bounds |
|---|---|---|---|
| `box_refines` | 1 poster, 2 fetchers, 1 controller (interrupt, reset, clear), 2 messages, capacity 2, timeouts 0 and finite | `ImplementsMailbox`: every call returns what a bounded FIFO would; `WithinCapacity`, `PopsOnlyMessages`, `MessagesAreAttended` (a message has an awake fetcher) | two fetchers are what `notify_one` and barging need; the post side is symmetric to it. A finite timeout allows every behaviour of an infinite one, so "forever" adds nothing to safety. Capacity 2 separates order from occupancy |
| `executor` | 2 clients, 3 tasks that may requeue themselves, a destructor | `NoSleepOnTasks`, `TakesOnlyTasks`, `OnePlacePerTask` (each task that was queued is in exactly one place), `QueuedTasksRun` | three tasks: one that runs, one that overtakes, one that waits. The program stops when the executor is gone: no deadlock check |
| `graph_flow` | 2 cameras, 2 models in a row, a stream that watches camera and first model; any order of creation; every operation, at most one failing `onStart` per operation | `LinksHold` (links are mutual, lead to live nodes, and none of those a live node was given is missing), `NobodyForgotten`, `FlowFollowsLinks`, `SingletonsAreUnique`, `EstimatorTracksNodes` | the stream makes a diamond, the models a chain, the second camera competes for the singleton. Each node is given the same dependencies whenever it is created; see section 4 for flows that change |
| `graph_limits` | a camera and 4 models that may be created side by side or in chains, after their dependencies | `ModelLimits` (parallel, serial, full pool), `RunsWithDependencies` | the limits are 3 and 3 with a pool of 4 (`resource_limits.h`): 4 models are one more than fits |
| `frames_parallel` | a camera and two models beside each other, 5 blocks, capacity 1, models that may fail to start, every command | `RefsAreExact`, `PostsReachLiveNodes`, `ThreadsHaveNodes`, `InFlightBounded` | 5 = 1 + 2·2 is the most that all threads and inboxes can use; with a model or the camera stopped `InFlightBounded` allows fewer, so that the pool does not hide a violation. Capacity 1 is `ModelNode`'s |
| `progress` | `FrameFlow` with a chain of two models, 2 blocks, every command, models that start when told to; `MessageBox` with 1 poster, 1 fetcher, interrupt and reset, capacity 1 | `FramesReturn`, `CommandsEnd`, `NoFrameOutlivesMmf`; `InboxCallsReturn` (timed calls return, room ends a wait) | two blocks suffice for one in work and one in an inbox; one call against each other role; `clear` and models that fail to start are excluded, see section 4 |
| `devices` | `VideoMemory`: 2 pools, 2 heap blocks, 1 TPU block, 2 buffers, 2 frames. `JpegDecoder`: 2 images of different size. `Vpss`: 2 processors, 3 jobs (plain, cropped matrix, too large). `Inference`: 2 frames, 2 regions, 2 outputs. `FrameSkipping`: 3 ticks a millisecond, intervals of 33⅓ and 113⅓ ms, reads of 0 and 20 ms, processing of 0, 26⅔ and 400 ms | `UpWhileNeeded`, `OneOwnerPerBlock`; `CallersHoldLivePictures`; `OnlyMishapsMislead`, `VpssLeavesNothing`; `AnswersAreAboutTheFrame`; `LimitIsObeyed` | a second block, variable, image, processor, region is what confusion needs; the images differ in size so that the channel is renewed; both intervals lose a third of a millisecond when they are truncated; the horizon is longer than the longer one; processing is shorter and much longer than a frame |
| `streaming` | `Camera`: 2 borders, with and without inference. `ParallelPipeline`: 2 starts, 3 results in a queue of 2. `StreamNode`: queue of 2, 2 clients, all three kinds. `NodeServer`: 4 requests (a camera, a stream, clear, a malformed one), 2 runs | `NothingInUseIsTaken`, `NothingIsLeft`, `NewestAreKept`, `StopsComeToAnEnd`, `NewClientsSeeAKeyFrame`, `RequestsAreAnswered` | a second start finds what the first left; three results overflow a queue of two; a queue of 2 separates eviction of a delta from eviction of a key frame; the second client comes while the first is served. `StopsComeToAnEnd` is about the cleanup of the camera, the pipeline where nothing broke, the stream node and the server; the camera's own stream and the server whose executor's destructor missed its worker are not covered, because both can hang (section 4) |
| `executor_destructor_hangs`, `graph_early_start`, `graph_freed`, `pipeline_stop_breaks` | the smallest instance that shows it | a statement of a comment or a test that the code does not keep | section 4 |

`devices` and `streaming` check no deadlock: cameras may stay open, a broken process stops, a finished client does
nothing. The modules that `Devices` and `Streaming` put side by side share no state, so that the states of a run are the sum, not the
product, of those of its modules; a property that begins with `which = ...` is about one of them, and the fairness
of each module is guarded in the same way.

Bounds common to all: a dependency list names at most one camera and one model (the estimator keeps only the last
of each); flows are acyclic (`NodeGraphAssumption`: `collectDependents` would not return from a cycle); a camera
has no dependencies; the message box takes part of a call's time only through `expired`.

Every property of a passing run has a mutant in `PROJECT.json`: an operator, defined just before the one it
replaces, that changes it as a plausible mistake would (a dropped guard, a missing notification, a missing
reset, a cascade one level deep), and under which TLC reports that property violated.

## 4 What the code refutes

Kept as runs that end in a violation, one `findings` entry each:

- `executor_destructor_hangs` - `~Executor` stores `running_` and notifies without `mutex_` (`executor.cpp:23`). A
  worker that has evaluated its predicate and not yet joined the waiters misses it, and `join()` never returns.
  `src/tests/node/test_executor.cpp:140`: "should not crash or hang".
- `graph_early_start` - `create` starts a node although a dependency is missing: `allDependenciesReady` sees only
  the linked ones. `node_factory.cpp:83`: "will be started when all dependencies become ready".
- `graph_freed` - `destroy` frees the dependents of a started node and then stops the node, whose cascade calls
  `stop()` through `dependents_` on what was freed (`node_factory.cpp:233`, `node.cpp:51`).
- `pipeline_stop_breaks` - `ParallelPipeline::stop` resets `rtsp_`, `encoder_` and `audio_capture_` while the
  stream thread may be inside `encoder_->get_stream` and the audio thread inside `get_frame`, and joins them
  afterwards (`parallel_pipeline.cpp:172`). `parallel_pipeline.cpp:188`: "Now threads can exit cleanly". What the
  other properties say of the pipeline, they say of the behaviours in which nothing broke.

These are also refuted, and can be shown by changing a `.cfg`; the definitions are in the modules:

| Statement | Change | What happens |
|---|---|---|
| `InterruptEndsWaits` (MessageBox) | ControlOps `{"interrupt"}`, Timeouts `{"forever"}`, one fetcher, `FairSpec` | the same lost notification as the executor's. No caller in the program waits without a timeout on a box that is interrupted, so `TimedCallsReturn` is what it relies on |
| `RoomEndsWaits` with `clear` (MessageBox) | ControlOps `{"clear"}`, Timeouts `{"forever"}`, `FairSpec` | `clear` makes room and notifies nobody |
| `WithinCapacity` with `ResetAnytime = TRUE` | `MessageBox_refine.cfg`, without the deadlock check | `reset()` between the end of a wait and the check of `interrupted_`: push to a full queue (and pop from an empty one). `ModelNode::onStart` resets only when no fetch of the box is under way and every post has timeout 0 (`MayReset`) |
| `CreatedWithDependencies` (NodeGraph) | DepsFirst `FALSE` | by design, a node may precede its dependencies (`test_node_factory.cpp:127-136`) |
| `LinksWereAsked` | `DepsOf <- Flows` | `destroyAll` keeps `pending_dependencies_`: an id created again, with other dependencies, is linked to those of its earlier life. With such flows a stale key also makes `destroy` take down a re-created node that no longer depends on the target |
| `FullCameraSkips` | `graph_limits`, `set_infer_fps_limit` among Ops | the policy the decision was based on is changed later |
| `ParallelLimit` | `graph_limits`, `start` among Ops, Policies `{"skip"}` | a model that stops is forgotten by the estimator and not evaluated when it is started again: four models run in parallel (`resource_limits.h:13`: max 3) |
| `NoFrameOutlivesMmf` | `frames_parallel` | a model whose `onStart` failed has an open inbox and no thread; its frame survives the shutdown of the MMF context in `destroyAll` |
| `RequirementSuffices` (FrameFlow) | `FedBy <- Serial`, 6 frames, no commands | a chain of two models uses 5 blocks where `resource_estimator.cpp:233-234` counts 3: an inbox takes a context while the thread works on another |
| `LabelsAreTrue` (VideoMemory) | INVARIANT of the module | `clone()` labels every copy BGR, also that of an RGB frame |
| `PicturesFit` (JpegDecoder) | | `preallocate` for a larger image leaves the channel as it is, and `load_from_memory_fast` does not renew it |
| `LoaderShowsItsImage` | | after a call that gave up, each call of the loader returns the picture of the one before. A source cleans the channel up between images (`SourcesShowTheirImage`, checked) |
| `NoChannelIsLeft` | | `CVI_VDEC_StartRecvStream` fails: `cleanup()` returns at once because `initialized_` is not set yet, the channel stays, and no decoder is ever initialised again |
| `OnlyMishapsMislead` (Vpss) without its premise | `mishap \subseteq {...}` admits more than `"kept"` | each of four alone makes a call return a picture made for another: two processors share the one group (`shared`); setting up a running channel fails half-way and the members still say what it was before (`halfway`); the crop stays on, because a matrix cannot be copied after it was set or because the second `CVI_VPSS_SetChnCrop` fails, whose return code nobody reads (`cvi_vpss_processor.cpp:712`, `:734`) (`crop`); a result comes after its call gave up (`late`). `OnlyMishapsMislead` says that there is no fifth; a `DestroyGrp` that failed (`kept`) misleads nobody |
| `GroupsAreDestroyed`, `CropsEnd` without their exceptions | | the return codes of `CVI_VPSS_DestroyGrp` (`:804`) and of the un-crop are dropped, and the members cleared: the group, or the crop, stays with nobody who knows of it; so do they where two processors share the group, or a matrix cannot be copied |
| `PicturesHaveTheirGroup` | | the processor of a model node destroys the group while the caller still holds a picture of it |
| `MetaAlwaysFitsThePicture` (Inference) | | the VPSS centres a letterboxed picture also for a script that asks for the corner, and the script is told the corner's borders |
| `ColoursFitTheModel` | | the fallback to the CPU leaves the colours as `to_mat_copy` has them |
| `NothingIsLost` | | a constructor of `CviSession` that throws leaves runtime or model behind: there is no destructor call for it |
| `NothingIsLeft` (Camera) | | a `CVI_VI_EnableChn` that fails leaves the flip callback registered, for which there is no flag |
| `BorderIsDrawn` | | a border set before `open` is never told to the channel |
| `FailedStartsClean` (ParallelPipeline) | | audio fails to start before `running_` is set, and the `stop()` that is to clean up returns at once (`parallel_pipeline.cpp:125`) |
| `ResultsAreOfThisRun` | | a pipeline that is started again still holds the results of the run before |
| `AudioIsCaptured` | | a fatal ALSA error ends the capture thread and leaves `running_` set: `start()` does nothing, every `get_frame` times out |
| `CameraStops` (StreamNode) | PROPERTY | `streamEncodeLoop` stores `running = true` when it begins (`camera_node.cpp:538`): a stop before that is overwritten, and the join waits for ever |
| `EveryClientSeesAKeyFrame` | PROPERTY | a client that comes between the transport's `start` and `set_new_client_callback` is not asked for; it waits for the encoder's next key frame, which the model does not promise |
| `EveryRequestIsAnswered` (NodeServer) | PROPERTY | `handleRequest` takes every successful create as answered, and `handleCreate` answers models and cameras only: the creation of a stream is not answered. And `type`, `name` and `data` are read before the `try` (`node_server.cpp:248-254`): a field of the wrong kind throws out of the task, the executor swallows it, and nobody answers |
| `SlowModelsAreSpared` (FrameSkipping) | PROPERTY | the first missing buffer replaces the wait of 1.2 times the average by a cooldown, which may be shorter |
| `StopComesToAnEnd` with `Stopped` as `owner = "idle"` (NodeServer) | PROPERTY | `executor_.reset()` never returns where the executor's destructor missed its worker (`executor_destructor_hangs`) |
| `LimitIsObeyed` with `Granted(i) == i` | | the first missing buffer at an average of twice the interval makes the node wait for 33 ms instead of 33⅓ (99 ticks of 100): `camera_node.cpp:433` truncates. Cooldowns are also capped at one second, for rates below one frame a second |

Where the second column is empty, the statement is an INVARIANT of that module, with the constants of `devices` or
`streaming`.

## 5 Fairness

Safety runs use `Spec` and assume none. The liveness runs state the fairness of the modules they check:

- weak fairness of each thread's own steps: the operating system schedules a thread that can go on, and a task or
  an inference returns. Nothing obliges a client to call or the control plane to issue a command;
- strong fairness of taking a mutex (`PostLock`, `Relock`, `WorkerLock`...): others may take it in between, but a
  thread that asks again and again gets it. `std::mutex` does not promise order, and does not let a thread
  starve for ever on the platforms in use;
- strong fairness of `Expire`: deadlines are absolute (`wait_until` inside `wait_for` with a predicate), so a
  spurious wakeup and a new sleep do not postpone them. There is none for spurious wakeups;
- in `FrameFlow` (run `progress`), strong fairness of `Worker`, whose `detach` waits for a mutex that its sender holds for a moment
  of each frame.

- in `Streaming`, weak fairness of each thread of each module, and of the timeouts of its waits; strong fairness of
  `GetAny` in `StreamNode`: a camera that streams fills the encoder's channel again and again, so that
  `get_stream` does not time out for ever (without it no client is ever sent anything); strong fairness of the
  worker in `NodeServer`, because `clear` waits for the threads of nodes that publish again and again. Nothing
  obliges a client to come, a connection to be restored or an owner to stop. In `ParallelPipeline` fairness ends when
  the process broke.

`QueuedTasksRun` is the property most sensitive to this: requeued tasks go to the back of the queue, so it holds
with weak fairness of the worker alone once locks are granted.

## 6 Proofs

All theorems are checked by `tlapm` for every value of the constants that satisfies the named assumptions.

**MessageBoxProofs** (`BoxAssumption`; `ResetAnytime = FALSE` where named). The inductive invariant says, besides
types, that a thread in `Holding` is the one that holds the mutex, that a poster past its predicate still has room
and a fetcher past its has a message, or the box is interrupted; and that `MayReset` keeps `reset` from
undoing an interruption somebody relies on. `WithinCapacity` is not inductive alone: a poster at `"commit"` in a
full queue would break it, and the invariant is what excludes that state. From it follow `TypeCorrect`,
`CapacityHolds`, `PopsAreSafe`, and `Refinement`: each step maps to a step of `Mailbox` or stutters.
`NoMessageIsForgotten`, for finitely many fetchers, is about `notify_one`: while somebody sleeps, the fetchers that
are awake (`Attending`) are at least as many as the messages. A fetcher that goes to sleep attends to none, which is
harmless only because it holds the mutex since it saw the queue empty (`SleepersSawNothing`).

**ExecutorProofs.** `NoLostNotify`, `PopsAreSafe`, `TasksAreConserved`, `TypeCorrect`. The strengthening ties the
worker's `pc` to the mutex and to what its predicate saw; conservation - the tasks ever queued are exactly those that
are queued, in the worker's hands, ended or cancelled, each in one of these places - needs in addition that a client's
`given` task is in none of them yet.

**NodeGraphProofs** (`EstimatorAssumption`, `NodeGraphAssumption`). `IInv` = `TypeOK` ∧ only nodes are started ∧
links lead from and to nodes (or are stale) ∧ cameras have no dependencies ∧ `SingletonsAreUnique` ∧
`EstimatorTracksNodes`. The last needs the others: a cascade starts and stops sets of nodes found through the
links, and the estimator is told of exactly these; without "links are live" a cascade could start a model that is
not a node. Theorems `TypeCorrect`, `Singletons`, `EstimatorIsExact`, for flows that may change from one deployment
to the next, which the run does not cover. Beyond these, each theorem names the flows it needs:

- `GraphStaysIntact`, for any flows: until a freed node is touched, `LinksHold`, `FlowFollowsLinks`, and what is
  ready runs. The invariant `Intact` adds that a link which is missing is pending.
- `LinksAreKept`, `FlowIsKept`, `NobodyIsForgotten`, for ever, under `OneListEach`: a node is created with the same
  list in every life. Then a stale key is the key of nobody alive (`LinksAreFromFlows`), so that `destroy` never
  follows one to a node that does not depend on the target.
- `DependenciesRun`, under `DepsFirst`: nodes that are created after their dependencies run with them only.
- `LimitsHold`, under `EstimatorIsAsked`: dependencies first, no `start` and no change of the policy by command, at
  most one camera and one model in a list. The estimator decides when a node is created and never again, which is a
  hazard of its own (section 4, `ParallelLimit` and `FullCameraSkips`): the theorem says that this is the only way
  round the limits. The parallel limit is a cardinality, the serial one an induction along the chain that the
  topologies record, the full pool a fact about the camera's policy.

The lemmas `StartCascadeIsExact` and `StopCascadeIsExact` say of the closures what a depth-first walk of the code
does: what was started is exactly what could be, and what is stopped is closed under "depends on".

**FrameFlowProofs** (`FrameFlowAssumption`: any network of models, any number of blocks, any inbox capacity). What a
command still has to do is in `agenda`, and whether a state is safe depends on what is left there: a model that is
told to stop and not yet joined, a node that is detached and not yet freed. The inductive invariant `IInv` has
therefore `AgendaInv` (a command's steps are of one kind; a `spawn` is for a node that stays, a `halt` has its
`join` behind it, a `free` comes after the joins and detachments it relies on, no thread is left at `exit_mmf`, and
whoever feeds a node outlives it), `ThreadInv` (what a thread holds at each position), `NodeInv` (what is stopped or gone has
no thread and an empty inbox, or the step that will see to it is on the agenda) and `SubscriberInv` (a sender that
runs knows live nodes only). TLC checked it before it was proved. Commands lay their steps out with `FlattenSeq` over
the nodes of a subtree, top-down or bottom-up; that the concatenation is what it should be is shown by a least
counterexample (`Induction`, from the well-foundedness of the naturals), because the library's rule of induction
takes an operator. From `IInv`: `PostsAreSafe` (no thread posts to a freed inbox), `ThreadsAreSafe`. Then
`CountsAreExact`: the references of each frame are as many as the places that hold it, by lemmas on what one step
adds to and takes from the set of places; `TypesHold`; and `UseIsBounded`: the frames in flight are at most those of
the threads and inboxes that are open, for any network, where the run has two models. `ContextOutlivesFrames` holds where `StartFailures = FALSE`, and
fails otherwise (`frames_parallel`, section 4). It takes a second invariant, `ShutdownInv`, which TLC checked on the
chain and on the parallel network before it was proved: a model that does not run is about to, or its inbox is
interrupted, or the inbox is empty and nobody feeds it; what is left in an interrupted inbox has its `clear` on the
agenda; behind `exit_mmf` there are only frees. What makes it hard is the creation of a node below one that runs
(`AttachesAreFollowed`, `SpawnsReachAll`): it is fed before its own thread exists, and only because its `spawn` is on
the same agenda is nothing left in its inbox for good.

**FrameSkippingProofs** (`SkippingAssumption`: times are naturals and the horizon is no shorter than an interval;
`Devices` assumes it of its constants, so that TLC evaluates it). `LimitHolds` is about any rates, clock, reading and
processing times. `LimitIsObeyed` speaks of the last two frames; what makes it inductive is `Covered`: the wait and
the time since the last frame make up, at every moment, the shortest gap granted since. Two lemmas bound the
cooldowns from below by what is granted of the interval, whatever the exponent, the streak and the average; each action
keeps `Covered` in a way of its own, which is why it is worth proving.

**VideoMemoryProofs** (`BlocksAreKnown`). `UpWhileNeeded` needs that the manager knows what it brought up
(`ManagerKnows`): every call of the vendor may fail, and the flags must be right after each. `OneOwnerPerBlock` is
proved with `Counted`: the mappings of a block are counted in the buffers and frames that hold it, through moves,
clones and half-failed allocations, for any number of variables and blocks.

**DevicesProofs** (the assumptions `ImagesAreKnown`, `JobsAreKnown`, `PicturesAreKnown`, `SkippingIsWithinReason` of
`Devices`). Each module has its invariant: `JpegInv` adds to `CallersHoldLivePictures` what the members say of the
channel (`ChannelOK`); `VpssInv` what each call in progress knows of the group, that one processor at most believes to
have it, and that a crop ends with its call, each but for what `mishap` records; `InferenceInv` which picture the input tensor, the outputs and the borders are of. The theorems
are the properties of the run `devices`: `VpssCallsAreAnswered` says that the four mishaps are all that can mislead a
call, for any processors and jobs; `AnswersAreTold` speaks of the frame and the region of every answer, and of the
scale and the borders for scripts that ask for a centred picture.

**StreamingProofs** (`ChannelsLend`, `QueuesHold`, `RequestsAreKnown`; the depth and size of the queues are at least
one, which `parallel_pipeline.h:57` and `websocket_transport.h:27` give). `CameraInv`: `open` has at each step what it
took, the flags are true, and what stands on something has it under it (`Supported`). `PipelineInv`: at each step
of `stop` what is torn down, and that no result is of a run to come. `StreamInv`: what the node and the transport
have at each step of their life. `ServerInv`: `Assembled` says what exists at each step of `stop`, `Quiet` that the
worker has nothing to do without an executor and that no node's thread is there from `destroyAll` on. From them
`NobodyLosesWhatHeUses`, `StopsLeaveNothing`, `ConsumersGetTheNewest`, for any number of starts, requests and clients.

Only model-checked: the properties that depend on fairness (`QueuedTasksRun`, `FramesReturn`, `CommandsEnd`,
`InboxCallsReturn`, `StopsComeToAnEnd`, `NewClientsSeeAKeyFrame`, `RequestsAreAnswered`), because the prover has no rules for
fairness nor for `ENABLED`. Every invariant of a run that passes is a theorem, with the assumptions named above. The
claims of section 4 are refuted by TLC on an instance. No module has a `RECURSIVE` operator.

## 7 Limits of the models

Memory is sequentially consistent. Messages, tasks and frames have no content beyond what the properties tell apart.
Logging and JSON are left out. Exceptions appear where the code catches them or where they leave something behind.

- `NodeGraph`: `onCreate`, `onStart` and `onStop` have the effects the graph sees (subscription, estimator,
  failure). The model's late search for its camera (`upstream_camera_`) is not in it. Behaviour after a dangling
  pointer was followed is one of many possible: `RunsWithDependencies` is stated for the others only.
- `ResourceEstimator`: the query of the free memory fills a field no condition reads, and is left out.
- `FrameFlow`: the camera may capture or skip at any moment, which includes what `FrameSkipping` decides. Models
  have one upstream. Allocation of a context never fails.
- `forwardToDownstream` reads `downstream_.empty()` without the mutex (a data race with `attach`): both outcomes
  are in the model, a torn vector is below it.
- `Camera`, `Vpss`, `JpegDecoder`, `ParallelPipeline`, `VideoMemory`: the driver is external. What a call leaves behind
  is modelled from how the code uses it and from the vendor's naming of pairs (create/destroy, attach/detach); each
  call may fail and then does nothing, except where a half-done setting is what the property is about (`Vpss`). Only
  `Vpss` lets the calls fail that undo something and whose return code is dropped; the undo and shutdown calls of
  `Camera` and `ParallelPipeline`, the decoder's `ReleaseFrame` and `DestroyChn`, and the encoder's `RequestIDR` do
  what they are called for.
- `JpegDecoder`: a caller does not ask a source for the next picture while it holds the last one of the same source;
  what renewal does to pictures of other callers is in the model.
- `ParallelPipeline`: statistics and the contents of results are left out; nothing is said of a broken process.
- `StreamNode`: one frame at a time is encoded; bandwidth, HTTP requests and the RTSP variant's clients are left out. The run has as many clients as fit,
  so that none is refused.
- `NodeServer`: a request is received once; quality of service and redelivery are the broker's.
- `FrameSkipping`: times are whole ticks, averages are rounded down to multiples of `Grain`, streaks and times since a
  frame are counted up to a bound (`MaxStreak`, `Horizon`) beyond which no formula tells them apart.
- `Inference`: quantisation and numbers are left out.

Not modelled: tensors (numeric code of one thread, which unit tests reach), the Lua bindings (argument conversion), the
ONNX session (one call of a library), the preview's HTTP server (a thread that serves files), examples.

## 8 Plan

1. Theorems: the executor's conservation as a refinement of a set of tasks that are executed one at a time.
2. The timing feedback of models to the camera that `upstream_camera_` finds, composed with `FrameSkipping`.
3. Compositions: `NodeServer` with `NodeGraph` (which commands are answered how), `Camera` with `VideoMemory`
   (who brings the pools up).
4. Abstract specifications still worth stating: the graph as a set of links derived from `asked`; `FrameFlow` as a
   counter of blocks; the VENC channel as the vendor's promise.

## 9 Running it

```
tlc -workers 2 -config MessageBox_refine.cfg MessageBox
tlc -workers 2 -config Streaming.cfg MCStreaming
tlapm NodeGraphProofs.tla
```

`PROJECT.json` lists for every run its module and configuration. On two workers `box_refines`, `progress`, `devices`
and `streaming` take one to two minutes each and the others less than half a minute. On four cores the proofs of
`FrameFlowProofs` take about seven minutes, those of `StreamingProofs` and `DevicesProofs` three each, of
`NodeGraphProofs` and `MessageBoxProofs` one at most, and those of the other modules seconds.

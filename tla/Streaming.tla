----------------------------- MODULE Streaming -----------------------------
(***************************************************************************)
(* What runs beside the graph, side by side: the camera, the parallel        *)
(* pipeline, the stream to the browsers and the server of the node commands. *)
(* They share no state: which says whose behaviour this is, as in Devices.   *)
(***************************************************************************)
EXTENDS Naturals, Sequences, FiniteSets

CONSTANTS Requests, ActionOf
CONSTANTS Pads, Depth, QueueSize, AudioSize, MaxRuns,
          MaxResults, Kinds, Clients, MaxClients, NoRequest

VARIABLES
    which,
    infer, pad, chnPad, pc, opened, flags, held, foreign, isp, lent,
    owner, live, running, stopping, stream, audio, chn, venc, pcm, capturing, capture, heard,
    results, pushed, runs, served, unclean, broken,
    kind, on, thread, objects, channel, serving, manager, callback, io, queue, idr, client,
    loop, mosq, executor, link, connected, tasks, worker, nodes, talker, open, received

onlyCamera == <<pad, chnPad, pc, opened, flags, held, foreign, isp, lent>>
onlyPipeline == <<live, stopping, stream, audio, chn, venc, pcm, capturing, capture, heard,
                  results, pushed, served, unclean, broken>>
onlyStream == <<kind, on, thread, objects, channel, serving, manager, callback, io, queue, idr, client>>
onlyServer == <<loop, mosq, executor, link, connected, tasks, worker, nodes, talker, open, received>>
shared == <<infer, owner, running, runs>>
vars == <<which, shared, onlyCamera, onlyPipeline, onlyStream, onlyServer>>

Camera == INSTANCE Camera
Pipeline == INSTANCE ParallelPipeline
Stream == INSTANCE StreamNode
Server == INSTANCE NodeServer

ASSUME ChannelsLend == Camera!CameraAssumption
ASSUME QueuesHold == Pipeline!PipelineAssumption /\ Stream!StreamAssumption
ASSUME RequestsAreKnown == Server!ServerAssumption

Unused == "unused"
NoCamera ==
    /\ pad = Unused /\ chnPad = Unused /\ pc = Unused /\ opened = Unused
    /\ flags = Unused /\ held = Unused /\ foreign = Unused /\ isp = Unused
    /\ lent = Unused
NoPipeline ==
    /\ live = Unused /\ stopping = Unused /\ stream = Unused /\ audio = Unused
    /\ chn = Unused /\ venc = Unused /\ pcm = Unused /\ capturing = Unused
    /\ capture = Unused /\ heard = Unused /\ results = Unused /\ pushed = Unused
    /\ served = Unused /\ unclean = Unused /\ broken = Unused
NoStream ==
    /\ kind = Unused /\ on = Unused /\ thread = Unused /\ objects = Unused
    /\ channel = Unused /\ serving = Unused /\ manager = Unused /\ callback = Unused
    /\ io = Unused /\ queue = Unused /\ idr = Unused /\ client = Unused
NoServer ==
    /\ loop = Unused /\ mosq = Unused /\ executor = Unused /\ link = Unused /\ connected = Unused
    /\ tasks = Unused /\ worker = Unused /\ nodes = Unused /\ talker = Unused
    /\ open = Unused /\ received = Unused

Init ==
    \/ /\ which = "camera" /\ Camera!Init
       /\ owner = Unused /\ running = Unused /\ runs = Unused
       /\ NoPipeline /\ NoStream /\ NoServer
    \/ /\ which = "pipeline" /\ Pipeline!Init
       /\ NoCamera /\ NoStream /\ NoServer
    \/ /\ which = "stream" /\ Stream!Init
       /\ infer = Unused /\ runs = Unused
       /\ NoCamera /\ NoPipeline /\ NoServer
    \/ /\ which = "server" /\ Server!Init
       /\ infer = Unused
       /\ NoCamera /\ NoPipeline /\ NoStream

Next ==
    \/ /\ which = "camera" /\ Camera!Next
       /\ UNCHANGED <<which, owner, running, runs, onlyPipeline, onlyStream, onlyServer>>
    \/ /\ which = "pipeline" /\ Pipeline!Next
       /\ UNCHANGED <<which, onlyCamera, onlyStream, onlyServer>>
    \/ /\ which = "stream" /\ Stream!Next
       /\ UNCHANGED <<which, infer, runs, onlyCamera, onlyPipeline, onlyServer>>
    \/ /\ which = "server" /\ Server!Next
       /\ UNCHANGED <<which, infer, onlyCamera, onlyPipeline, onlyStream>>

\* The fairness of each, when it is the one that runs.
cameraVars == Camera!vars
pipelineVars == Pipeline!vars
streamVars == Stream!vars
serverVars == Server!vars

Fairness ==
    /\ WF_cameraVars(which = "camera" /\ Camera!Opening)
    /\ WF_cameraVars(which = "camera" /\ Camera!Cleaning)
    /\ WF_cameraVars(which = "camera" /\ Camera!IspThread)
    /\ WF_pipelineVars(which = "pipeline" /\ ~broken /\ Pipeline!OwnerStep)
    /\ WF_pipelineVars(which = "pipeline" /\ ~broken /\ owner = "stop" /\ Pipeline!StopSignal)
    /\ WF_pipelineVars(which = "pipeline" /\ ~broken /\ Pipeline!Stream)
    /\ WF_pipelineVars(which = "pipeline" /\ ~broken /\ Pipeline!Infer)
    /\ WF_pipelineVars(which = "pipeline" /\ ~broken /\ Pipeline!Audio)
    /\ WF_pipelineVars(which = "pipeline" /\ ~broken /\ ~capturing /\ Pipeline!CaptureEnds)
    /\ WF_streamVars(which = "stream" /\ Stream!OwnerStep)
    /\ WF_streamVars(which = "stream" /\ Stream!Encode)
    /\ WF_streamVars(which = "stream" /\ thread = "getting" /\ (Stream!GetAny \/ Stream!GetNothing))
    /\ SF_streamVars(which = "stream" /\ Stream!GetAny)
    /\ WF_streamVars(which = "stream" /\ Stream!IoStep)
    /\ WF_serverVars(which = "server" /\ Server!OwnerStep)
    /\ WF_serverVars(which = "server" /\ Server!LoopEnds)
    /\ SF_serverVars(which = "server" /\ Server!WorkerStep)
    /\ WF_serverVars(which = "server" /\ Server!EventEnds)

Spec == Init /\ [][Next]_vars /\ Fairness

-----------------------------------------------------------------------------
\* The type invariants of the four.
TypeOK ==
    /\ which = "camera" => Camera!TypeOK
    /\ which = "pipeline" => Pipeline!TypeOK
    /\ which = "stream" => Stream!TypeOK
    /\ which = "server" => Server!TypeOK

\* Nothing that is in use is taken away: by the cleanup of the camera, by onStop
\* of a node that streams, by stop of the server.
NothingInUseIsTaken ==
    /\ which = "camera" => Camera!NothingStandsOnAir
    /\ which = "stream" => Stream!UsersHaveTheirObjects
    /\ which = "server" => Server!UsersHaveTheirObjects

\* What stopped, or failed to start, at whatever step, has left nothing running,
\* open or bound, but for what the modules name.
NothingIsLeft ==
    /\ which = "camera" => Camera!AllOrNothing
    /\ which = "pipeline" => Pipeline!NothingIsLeft
    /\ which = "stream" => Stream!NothingIsLeft
    /\ which = "server" => Server!NothingIsLeft

\* ParallelPipeline: the consumer gets the newest results without a gap.
NewestAreKept == which = "pipeline" => Pipeline!NewestAreKept

\* The camera's cleanup, the parallel pipeline's stop unless it broke something, a
\* stream node's onStop and the server's stop come to their end, whatever the
\* threads are doing.  Two stops may hang and are not covered: that of the camera's
\* own stream, and the server's where the executor's destructor missed its worker.
StopsComeToAnEnd ==
    /\ (which = "camera" /\ Camera!CleaningUp) ~> (which # "camera" \/ Camera!CleanedUp)
    /\ (which = "pipeline" /\ Pipeline!Stopping) ~> (which # "pipeline" \/ Pipeline!Stopped)
    /\ (which = "stream" /\ Stream!Stopping) ~> (which # "stream" \/ Stream!Stopped)
    /\ (which = "server" /\ Server!Stopping) ~> (which # "server" \/ Server!Stopped)

\* StreamNode: a client that was there when a key frame was asked for is sent one.
NewClientsSeeAKeyFrame ==
    \A c \in Clients : (which = "stream" /\ Stream!Waits(c)) ~> (which # "stream" \/ Stream!Served(c))

\* NodeServer: every well-formed request is answered, but for the creation of a
\* stream.
RequestsAreAnswered ==
    \A r \in Requests :
        (which = "server" /\ Server!Unanswered(r)) ~> (which # "server" \/ r \notin open)
=============================================================================

----------------------------- MODULE StreamNode -----------------------------
(***************************************************************************)
(* How encoded video reaches the browsers: the encoder and its thread in       *)
(* StreamNode (node/stream_node.cpp) or, with fewer steps, in CameraNode       *)
(* (initStreamEncoder, streamEncodeLoop in node/camera_node.cpp), and          *)
(* WebSocketTransport (stream/websocket_transport.cpp) with its I/O thread,    *)
(* the queue between the two threads, and the clients.                         *)
(*                                                                         *)
(* A frame is a key frame or one that needs those before it.  Clients come     *)
(* and go while the I/O thread polls.                                          *)
(***************************************************************************)
EXTENDS Naturals, Sequences, SequencesExt, FiniteSets

CONSTANTS
    Kinds,      \* whose encoder: "stream" with a web socket, "plain" without, "camera"
    Depth,      \* queue_depth
    Clients,    \* browsers
    MaxClients  \* max_clients

VARIABLES
    kind,     \* what is modelled
    on,       \* the node is started
    owner,    \* where onStart and onStop are
    running,  \* running_ of the stream, stream_encoder_.running of the camera
    thread,   \* where the encode thread is
    objects,  \* which of encoder_, rtsp_, ws_ are set
    channel,  \* the encoder is initialised and bound
    serving,  \* WebSocketTransport::running_
    manager,  \* mongoose's manager and its listener are there
    callback, \* new_client_cb_ is set
    io,       \* where the I/O thread is
    queue,    \* queue_
    idr,      \* the encoder was asked for a key frame
    client    \* what each client has seen

StreamAssumption == Depth \in Nat \ {0}

vars == <<kind, on, owner, running, thread, objects, channel, serving, manager, callback,
          io, queue, idr, client>>
node == <<kind, on, owner, running, objects, channel>>
transport == <<serving, manager, callback, io, queue, client>>

Away == "away"
Failures == {"encoder", "bind", "rtsp", "ws", "not"}

Init ==
    /\ kind \in Kinds
    /\ on = FALSE /\ owner = "idle" /\ running = FALSE /\ thread = "none"
    /\ objects = {} /\ channel = FALSE
    /\ serving = FALSE /\ manager = FALSE /\ callback = FALSE /\ io = "none"
    /\ queue = <<>> /\ idr = FALSE /\ client = [c \in Clients |-> Away]

-----------------------------------------------------------------------------
(* Start *)

\* WebSocketTransport::start of a new object: the manager is freed when it cannot
\* be woken or cannot listen
StartTransport(ok) ==
    /\ serving' = ok /\ manager' = ok
    /\ io' = IF ok THEN "poll" ELSE "none"
    /\ queue' = <<>> /\ callback' = FALSE

NoTransport == UNCHANGED transport

\* Mutant of Failed: the encoder is left when the web socket cannot be started.
FailedHalf(fails) ==
    IF fails = "ws" THEN objects' = {} /\ channel' = TRUE ELSE objects' = {} /\ channel' = FALSE

\* onStart undoes in its cleanup what came before the step that failed;
\* initStreamEncoder leaves the objects, shut down
Failed(fails) ==
    /\ channel' = FALSE
    /\ objects' = IF kind # "camera" THEN {} ELSE {"encoder"} \cup (IF fails = "ws" THEN {"ws"} ELSE {})

\* StreamNode::onStart, CameraNode::onStart with initStreamEncoder, up to where
\* the web socket serves; a camera is started also when this fails
Start(fails) ==
    /\ owner = "idle" /\ ~on
    /\ fails = "rtsp" => kind # "camera"
    /\ fails = "ws" => kind # "plain"
    /\ on' = (fails = "not" \/ kind = "camera")
    /\ IF fails = "not"
       THEN /\ channel' = TRUE /\ owner' = "callback"
            /\ objects' = CASE kind = "stream" -> {"encoder", "rtsp", "ws"}
                            [] kind = "plain" -> {"encoder", "rtsp"}
                            [] OTHER -> {"encoder", "ws"}
            /\ IF kind = "plain" THEN NoTransport ELSE StartTransport(TRUE) /\ UNCHANGED client
       ELSE /\ Failed(fails) /\ NoTransport /\ owner' = "idle"
    /\ idr' = FALSE
    /\ UNCHANGED <<kind, running, thread>>

\* set_new_client_callback, and the encode thread is started
StartThread ==
    /\ owner = "callback" /\ owner' = "idle"
    /\ callback' = ("ws" \in objects)
    /\ running' = TRUE
    /\ thread' = IF kind = "camera" THEN "begin" ELSE "top"
    /\ UNCHANGED <<kind, on, objects, channel, serving, manager, io, queue, idr, client>>

-----------------------------------------------------------------------------
(* Stop *)

\* onStop of either: the thread is told to end; a camera's may not have begun
Stop ==
    /\ owner = "idle" /\ on
    /\ running' = FALSE
    /\ owner' = IF running THEN "join" ELSE "ws"
    /\ UNCHANGED <<kind, on, thread, objects, channel, transport, idr>>

\* encode_thread_.join(), and rtsp_ is stopped and reset
Join ==
    /\ owner = "join" /\ thread = "ended"
    /\ owner' = "ws" /\ thread' = "none"
    /\ objects' = objects \ {"rtsp"}
    /\ UNCHANGED <<kind, on, running, channel, transport, idr>>

\* WebSocketTransport::stop tells the I/O thread, if it runs
StopTransport ==
    /\ owner = "ws"
    /\ serving' = FALSE
    /\ owner' = IF serving THEN "ws_join" ELSE "encoder"
    /\ objects' = IF serving THEN objects ELSE objects \ {"ws"}
    /\ UNCHANGED <<kind, on, running, thread, channel, manager, callback, io, queue, idr, client>>

\* io_thread_.join(), mg_mgr_free, ws_.reset()
CloseTransport ==
    /\ owner = "ws_join" /\ io = "ended"
    /\ owner' = "encoder" /\ io' = "none" /\ manager' = FALSE
    /\ objects' = objects \ {"ws"} /\ callback' = FALSE /\ queue' = <<>>
    /\ client' = [c \in Clients |-> Away]
    /\ UNCHANGED <<kind, on, running, thread, channel, serving, idr>>

\* encoder_->shutdown(), encoder_.reset()
CloseEncoder ==
    /\ owner = "encoder" /\ owner' = "idle"
    /\ on' = FALSE /\ channel' = FALSE /\ objects' = objects \ {"encoder"}
    /\ UNCHANGED <<kind, running, thread, transport, idr>>

-----------------------------------------------------------------------------
(* The encode thread *)

\* streamEncodeLoop stores running itself
Begin ==
    /\ thread = "begin" /\ thread' = "top"
    /\ running' = TRUE
    /\ UNCHANGED <<kind, on, owner, objects, channel, transport, idr>>

Top ==
    /\ thread = "top"
    /\ thread' = IF running THEN "getting" ELSE "ended"
    /\ UNCHANGED <<node, transport, idr>>

\* get_stream times out
GetNothing ==
    /\ thread = "getting" /\ thread' = "top"
    /\ UNCHANGED <<node, transport, idr>>

\* get_stream; StreamNode looks at running_ again and sends the frame by RTSP
GetStream(frame) ==
    /\ thread = "getting"
    /\ idr => frame = "key"
    /\ idr' = (idr /\ frame # "key")
    /\ thread' = CASE kind # "camera" /\ ~running -> "ended"
                   [] "ws" \notin objects -> "release"
                   [] OTHER -> frame
    /\ UNCHANGED <<node, transport>>

\* Mutant of Enqueued: a full queue drops every new frame.
EnqueuedIfRoom(frame) == IF Len(queue) < Depth THEN Append(queue, frame) ELSE queue

\* Mutant of Enqueued: the queue may exceed its depth by one.
EnqueuedOneMore(frame) ==
    IF Len(queue) <= Depth THEN Append(queue, frame) ELSE Append(Tail(queue), frame)

\* the queue when a frame comes: a full one takes key frames only, for its oldest
\* other frame or, without one, its oldest
Enqueued(frame) ==
    IF Len(queue) < Depth THEN Append(queue, frame)
    ELSE IF frame = "delta" THEN queue
    ELSE IF \E i \in DOMAIN queue : queue[i] = "delta"
         THEN Append(RemoveAt(queue, SelectInSeq(queue, LAMBDA f : f = "delta")), frame)
         ELSE Append(Tail(queue), frame)

\* broadcast_binary: enqueue_frame, up to the wakeup
Enqueue ==
    /\ thread \in {"key", "delta"}
    /\ queue' = IF serving THEN Enqueued(thread) ELSE queue
    /\ thread' = IF serving /\ (thread = "key" \/ Len(queue) < Depth) THEN "waking" ELSE "release"
    /\ UNCHANGED <<node, serving, manager, callback, io, idr, client>>

\* mg_wakeup
Wake ==
    /\ thread = "waking" /\ thread' = "release"
    /\ UNCHANGED <<node, transport, idr>>

\* release_stream
ReleaseStream ==
    /\ thread = "release" /\ thread' = "top"
    /\ UNCHANGED <<node, transport, idr>>

-----------------------------------------------------------------------------
(* The I/O thread *)

Open == {c \in Clients : client[c] # Away}

\* MG_EV_HTTP_MSG, refused when there are too many, and MG_EV_WS_OPEN, which asks
\* for a key frame
ClientOpens(c) ==
    /\ io = "poll" /\ client[c] = Away
    /\ Cardinality(Open) < MaxClients
    /\ client' = [client EXCEPT ![c] = IF callback THEN "asked" ELSE "unasked"]
    /\ idr' = (idr \/ (callback /\ channel))
    /\ UNCHANGED <<node, thread, serving, manager, callback, io, queue>>

\* MG_EV_CLOSE
ClientCloses(c) ==
    /\ io = "poll" /\ client[c] # Away
    /\ client' = [client EXCEPT ![c] = Away]
    /\ UNCHANGED <<node, thread, serving, manager, callback, io, queue, idr>>

\* mg_mgr_poll ends
PollEnds ==
    /\ io = "poll" /\ io' = "drain"
    /\ UNCHANGED <<node, thread, serving, manager, callback, queue, idr, client>>

\* what a client has seen when frames are sent to it
Seen(before, frames) ==
    IF before # Away /\ (\E i \in DOMAIN frames : frames[i] = "key") THEN "watching" ELSE before

\* drain_broadcast_queue; the loop looks at running_
Drain ==
    /\ io = "drain"
    /\ client' = [c \in Clients |-> Seen(client[c], queue)]
    /\ queue' = <<>>
    /\ io' = IF serving THEN "poll" ELSE "ended"
    /\ UNCHANGED <<node, thread, serving, manager, callback, idr>>

OwnerStep == StartThread \/ Join \/ StopTransport \/ CloseTransport \/ CloseEncoder
Encode == Begin \/ Top \/ Enqueue \/ Wake \/ ReleaseStream
GetAny == \E f \in {"key", "delta"} : GetStream(f)
IoStep == PollEnds \/ Drain

Next ==
    \/ \E f \in Failures : Start(f)
    \/ Stop \/ OwnerStep \/ Encode \/ GetNothing \/ GetAny
    \/ IoStep \/ \E c \in Clients : ClientOpens(c) \/ ClientCloses(c)

\* The threads are scheduled; a camera that streams fills the encoder's channel
\* again and again, so that get_stream does not time out for ever.
Fairness ==
    /\ WF_vars(OwnerStep) /\ WF_vars(Encode) /\ WF_vars(thread = "getting" /\ (GetAny \/ GetNothing))
    /\ SF_vars(GetAny) /\ WF_vars(IoStep)

Spec == Init /\ [][Next]_vars /\ Fairness

-----------------------------------------------------------------------------
(* Properties *)

TypeOK ==
    /\ kind \in Kinds /\ {on, running, channel, serving, manager, callback, idr} \subseteq BOOLEAN
    /\ owner \in {"idle", "callback", "join", "ws", "ws_join", "encoder"}
    /\ thread \in {"none", "begin", "top", "getting", "key", "delta", "waking", "release", "ended"}
    /\ objects \subseteq {"encoder", "rtsp", "ws"}
    /\ io \in {"none", "poll", "drain", "ended"}
    /\ queue \in Seq({"key", "delta"}) /\ Len(queue) <= Depth
    /\ client \in [Clients -> {Away, "asked", "unasked", "watching"}]

\* The encode thread never finds the encoder or the transport gone, nor the I/O
\* thread the manager, nor a client's callback the encoder it points to.
UsersHaveTheirObjects ==
    /\ thread \in {"getting", "key", "delta", "waking", "release"} => "encoder" \in objects /\ channel
    /\ thread = "waking" => manager /\ "ws" \in objects
    /\ io \in {"poll", "drain"} => manager /\ (callback => "encoder" \in objects)

\* After onStop, and after an onStart that failed, no thread, no channel, no
\* manager and no client is left.
NothingIsLeft ==
    owner = "idle" /\ ~on =>
        ~running /\ thread = "none" /\ objects = {} /\ ~channel /\ ~manager /\ io = "none" /\ Open = {}

\* A client that was there when a key frame was asked for is sent one, unless it
\* leaves or the node stops: no full queue loses it, whatever the threads do.
Waits(c) == client[c] = "asked"
Served(c) == client[c] \in {Away, "watching"}
NewClientsSeeAKeyFrame == \A c \in Clients : Waits(c) ~> Served(c)

\* onStop ends, but for the camera's.
Stopping == kind # "camera" /\ owner # "idle"
Stopped == owner = "idle"
StopComesToAnEnd == Stopping ~> Stopped

\* Refuted for the camera: streamEncodeLoop stores running again after onStop
\* cleared it, and the join waits for ever.
CameraStops == (owner # "idle") ~> Stopped

\* Refuted: every client is sent a key frame.  One that comes between
\* WebSocketTransport::start and set_new_client_callback is not asked for.
EveryClientSeesAKeyFrame ==
    \A c \in Clients : (client[c] # Away) ~> Served(c)
=============================================================================

-------------------------- MODULE ParallelPipeline --------------------------
(***************************************************************************)
(* ParallelPipeline (pipeline/parallel_pipeline.cpp) with what it drives: the  *)
(* VENC channel of its encoder (stream/venc_encoder.cpp), the RTSP server      *)
(* (stream/rtsp_server.cpp), audio capture (stream/audio_capture.cpp) and the  *)
(* camera.  A stream thread, an inference thread and an audio thread use them  *)
(* while the owner starts and stops the pipeline and a consumer pops results.  *)
(*                                                                         *)
(* stop() takes the objects away before it joins the threads.  A thread that   *)
(* is inside one of them, or enters one that is gone, breaks the process: what *)
(* follows is not defined, and the model stops there.                          *)
(***************************************************************************)
EXTENDS Naturals, Sequences, FiniteSets

CONSTANTS
    QueueSize,   \* config_.result_queue_size
    AudioSize,   \* AudioCapture's frame_queue_size
    MaxRuns,     \* bound: successful and failed starts
    MaxResults   \* bound: results of a run

VARIABLES
    owner,       \* where start() and stop() are
    live,        \* which of encoder_, camera_, rtsp_, audio_capture_ are set
    running,     \* running_
    stopping,    \* stop_requested_
    stream, infer, audio, \* where the three threads are
    chn,         \* the VENC channel, as the driver has it
    venc,        \* the encoder's flags
    pcm,         \* the ALSA device is open
    capturing,   \* AudioCapture::running_
    capture,     \* where the capture thread is
    heard,       \* frames in the audio queue
    results,     \* result_queue_: the run and the number of each
    pushed,      \* results of this run (history)
    runs,        \* starts so far
    served,      \* what the RTSP server has made: context, session, listener
    unclean,     \* a start failed where its cleanup does nothing (history)
    broken       \* a thread used an object that is gone

PipelineAssumption == QueueSize \in Nat \ {0} /\ AudioSize \in Nat /\ MaxRuns \in Nat /\ MaxResults \in Nat

vars == <<owner, live, running, stopping, stream, infer, audio, chn, venc, pcm, capturing,
          capture, heard, results, pushed, runs, served, unclean, broken>>
threads == <<stream, infer, audio>>
encoder == <<chn, venc>>
sound == <<pcm, capturing, capture, heard>>
control == <<owner, live, running, stopping, runs, served, unclean, broken>>

Objects == {"encoder", "camera", "rtsp", "audio"}
Failures == {"encoder", "bind", "camera", "rtsp", "audio", "ready", "not"}
StopSteps == <<"rtsp", "shutdown", "encoder", "stop_audio", "audio", "join", "camera">>

Init ==
    /\ owner = "idle" /\ live = {} /\ running = FALSE /\ stopping = FALSE
    /\ stream = "none" /\ infer = "none" /\ audio = "none"
    /\ chn = {} /\ venc = {}
    /\ pcm = FALSE /\ capturing = FALSE /\ capture = "none" /\ heard = 0
    /\ results = <<>> /\ pushed = 0 /\ runs = 0 /\ served = {} /\ unclean = FALSE /\ broken = FALSE

-----------------------------------------------------------------------------
(* The encoder: what a call leaves of the channel and of the flags *)

Channel(c, f) == [chn |-> c, venc |-> f]

StartRecv(c, f) == Channel(c \cup {"receiving"}, f \cup {"receiving"})

\* init_h264, init_h265, init_jpeg, init_mjpeg: create the channel and receive; a
\* failure destroys it again
CreateChannel(ok) == IF ok THEN StartRecv({"made"}, {}) ELSE Channel({}, {})

\* init
InitEncoder(ok) == [CreateChannel(ok) EXCEPT !.venc = @ \cup (IF ok THEN {"initialized"} ELSE {})]

\* bind_to_vpss; how: "stopFails" leaves it receiving, "bindFails" starts to
\* receive again, and "recvFails" unbinds and leaves it not receiving
BindToVpss(how) ==
    LET before == InitEncoder(TRUE)
    IN  IF how \in {"stopFails", "bindFails"} THEN before
        ELSE IF how = "recvFails" THEN Channel({"made"}, {"initialized"})
        ELSE Channel(before.chn \cup {"bound"}, before.venc \cup {"bound"})

\* Mutant of Shutdown: a channel that is bound is not destroyed.
ShutdownKeepsBound(c, f) == IF "initialized" \in f THEN Channel(c \cap {"made", "bound"}, {}) ELSE Channel(c, f)

\* shutdown: release_stream, unbind_from_vpss, stop to receive, reset and destroy
Shutdown(c, f) == IF "initialized" \in f THEN Channel({}, {}) ELSE Channel(c, f)

-----------------------------------------------------------------------------
(* The owner *)

\* RtspServer::start: a step that fails undoes those before it
StartRtsp(ok) == IF ok THEN {"context", "session", "listener"} ELSE {}

\* init_alsa: a step that fails closes the device again
OpenDevice(ok) == pcm' = ok

\* AudioCapture::start of a new object
StartCapture(ok) ==
    /\ OpenDevice(ok)
    /\ capturing' = ok /\ capture' = IF ok THEN "reading" ELSE "none"
    /\ heard' = 0

\* The objects when start fails at a point; those of an earlier start that failed
\* are there until they are replaced.
Built(fails) ==
    CASE fails = "encoder" -> live \cup {"encoder"}
      [] fails = "bind" -> live \ {"encoder"}
      [] fails = "camera" -> (live \ {"encoder"}) \cup {"camera"}
      [] fails = "rtsp" -> (live \ {"encoder", "camera"}) \cup {"rtsp"}
      [] OTHER -> Objects

\* The channel then: the cleanup of each failure shuts the encoder down, but for
\* the audio's, which calls stop().
Encoded(fails, how) ==
    CASE fails \in {"audio", "ready", "not"} -> BindToVpss("ok")
      [] fails = "encoder" -> InitEncoder(FALSE)
      [] fails = "bind" -> Shutdown(BindToVpss(how).chn, BindToVpss(how).venc)
      [] OTHER -> Shutdown(BindToVpss("ok").chn, BindToVpss("ok").venc)

\* start.  When the audio does not start it calls stop(), which returns at once:
\* running_ is not set yet.  When the camera is not ready, stop() runs.
Start(fails, how) ==
    /\ owner = "idle" /\ ~running /\ runs < MaxRuns
    /\ how # "ok" <=> fails = "bind"
    /\ chn' = Encoded(fails, how).chn /\ venc' = Encoded(fails, how).venc
    /\ live' = Built(fails)
    /\ served' = IF fails \in {"encoder", "bind", "camera"} THEN served ELSE StartRtsp(fails # "rtsp")
    /\ runs' = runs + 1
    /\ unclean' = (fails = "audio" \/ (unclean /\ fails \in {"encoder", "bind", "camera", "rtsp"}))
    /\ IF fails \in {"ready", "not"}
       THEN /\ running' = TRUE /\ stopping' = FALSE /\ pushed' = 0 /\ StartCapture(TRUE)
            /\ IF fails = "ready" THEN owner' = "stop" /\ UNCHANGED threads
               ELSE owner' = "idle" /\ stream' = "top" /\ infer' = "top" /\ audio' = "top"
       ELSE /\ IF fails = "audio" THEN StartCapture(FALSE) ELSE UNCHANGED sound
            /\ UNCHANGED <<owner, threads, running, stopping, pushed>>
    /\ UNCHANGED <<results, broken>>

\* stop(): the flags and the wakeup of pop_result
StopSignal ==
    /\ \/ owner = "idle" /\ running
       \/ owner = "stop"
    /\ owner' = "rtsp" /\ stopping' = TRUE /\ running' = FALSE
    /\ UNCHANGED <<live, threads, encoder, sound, results, pushed, runs, served, unclean, broken>>

Inside(object) ==
    CASE object = "encoder" -> stream \in {"getting", "releasing"}
      [] object = "rtsp" -> (stream = "sending" \/ audio = "sending")
      [] object = "audio" -> audio = "getting"
      [] OTHER -> infer \in {"reading", "holding"}

\* stop() resets an object
TakeAway(object) ==
    /\ live' = live \ {object}
    /\ broken' = (Inside(object) /\ object \in live)

\* rtsp_->stop(), rtsp_.reset()
StopRtsp ==
    /\ owner = "rtsp" /\ owner' = "shutdown"
    /\ TakeAway("rtsp") /\ served' = {}
    /\ UNCHANGED <<running, stopping, threads, encoder, sound, results, pushed, runs, unclean>>

\* encoder_->shutdown(): a thread in get_stream returns
ShutdownEncoder ==
    /\ owner = "shutdown" /\ owner' = "encoder"
    /\ chn' = Shutdown(chn, venc).chn /\ venc' = Shutdown(chn, venc).venc
    /\ UNCHANGED <<live, running, stopping, threads, sound, results, pushed, runs, served, unclean, broken>>

\* encoder_.reset()
ResetEncoder ==
    /\ owner = "encoder" /\ owner' = "stop_audio"
    /\ TakeAway("encoder")
    /\ UNCHANGED <<running, stopping, threads, encoder, sound, results, pushed, runs, served, unclean>>

\* AudioCapture::stop: running_, then the join
StopCapture ==
    /\ owner = "stop_audio" /\ capturing
    /\ capturing' = FALSE
    /\ UNCHANGED <<control, threads, encoder, pcm, capture, heard, results, pushed>>

\* AudioCapture::stop: the thread is joined, the device closed, the queue emptied;
\* audio_capture_.reset()
CloseCapture ==
    /\ owner = "stop_audio" /\ ~capturing /\ capture \in {"none", "ended"}
    /\ owner' = "join" /\ TakeAway("audio")
    /\ pcm' = FALSE /\ capture' = "none" /\ heard' = 0
    /\ UNCHANGED <<running, stopping, capturing, threads, encoder, results, pushed, runs, served, unclean>>

\* the three joins
Join ==
    /\ owner = "join" /\ {stream, infer, audio} \subseteq {"none", "ended"}
    /\ owner' = "camera"
    /\ stream' = "none" /\ infer' = "none" /\ audio' = "none"
    /\ UNCHANGED <<live, running, stopping, encoder, sound, results, pushed, runs, served, unclean, broken>>

\* camera_->release(), camera_.reset()
ReleaseCamera ==
    /\ owner = "camera" /\ owner' = "idle"
    /\ TakeAway("camera")
    /\ UNCHANGED <<running, stopping, threads, encoder, sound, results, pushed, runs, served, unclean>>

-----------------------------------------------------------------------------
(* The threads *)

\* A thread enters an object, and breaks if it is gone.
Enter(object) == broken' = (object \notin live)

unseen == <<owner, live, running, stopping, sound, pushed, results, runs, served, unclean>>

\* stream_thread_func looks at stop_requested_
StreamTop ==
    /\ stream = "top"
    /\ IF stopping THEN stream' = "ended" /\ UNCHANGED broken ELSE stream' = "getting" /\ Enter("encoder")
    /\ UNCHANGED <<unseen, infer, audio, encoder>>

\* get_stream finds nothing, or the encoder shut down
GetNoStream ==
    /\ stream = "getting" /\ stream' = "top"
    /\ UNCHANGED <<unseen, infer, audio, encoder, broken>>

\* get_stream; with stop_requested_ the stream is not sent
GetStream ==
    /\ stream = "getting" /\ "initialized" \in venc
    /\ venc' = venc \cup {"acquired"}
    /\ stream' = IF stopping THEN "ended" ELSE IF "rtsp" \in live THEN "sending" ELSE "release"
    /\ UNCHANGED <<unseen, infer, audio, chn, broken>>

\* send_video
SendVideo ==
    /\ stream = "sending" /\ stream' = "release"
    /\ UNCHANGED <<unseen, infer, audio, encoder, broken>>

\* if (encoder_)
EnterRelease ==
    /\ stream = "release"
    /\ stream' = IF "encoder" \in live THEN "releasing" ELSE "top"
    /\ UNCHANGED <<unseen, infer, audio, encoder, broken>>

\* release_stream
ReleaseStream ==
    /\ stream = "releasing" /\ stream' = "top"
    /\ venc' = venc \ {"acquired"}
    /\ UNCHANGED <<unseen, infer, audio, chn, broken>>

\* Mutant of InferTop: it looks at running_ only once, when it starts.
InferTopDeaf ==
    /\ infer = "top" /\ infer' = "reading" /\ Enter("camera")
    /\ UNCHANGED <<unseen, stream, audio, encoder>>

\* infer_thread_func looks at stop_requested_ and reads the camera
InferTop ==
    /\ infer = "top"
    /\ IF stopping THEN infer' = "ended" /\ UNCHANGED broken ELSE infer' = "reading" /\ Enter("camera")
    /\ UNCHANGED <<unseen, stream, audio, encoder>>

\* camera_->read: a frame, or the timeout
ReadCamera(got) ==
    /\ infer = "reading" /\ infer' = IF got THEN "holding" ELSE "top"
    /\ UNCHANGED <<unseen, stream, audio, encoder, broken>>

\* Mutant of PushResult: a full queue refuses the new result.
PushNothing ==
    /\ infer = "holding" /\ infer' = "top" /\ pushed < MaxResults
    /\ pushed' = pushed + 1
    /\ results' = IF Len(results) >= QueueSize THEN results ELSE Append(results, [run |-> runs, no |-> pushed'])
    /\ UNCHANGED <<control, stream, audio, encoder, sound>>

\* the callback has a result: push_result drops the oldest one of a full queue
PushResult ==
    /\ infer = "holding" /\ infer' = "top" /\ pushed < MaxResults
    /\ pushed' = pushed + 1
    /\ results' = Append(IF Len(results) >= QueueSize THEN Tail(results) ELSE results,
                         [run |-> runs, no |-> pushed'])
    /\ UNCHANGED <<control, stream, audio, encoder, sound>>

\* the callback has none
NoResult ==
    /\ infer = "holding" /\ infer' = "top"
    /\ UNCHANGED <<unseen, stream, audio, encoder, broken>>

\* audio_thread_func looks at stop_requested_ and at audio_capture_
AudioTop ==
    /\ audio = "top"
    /\ audio' = IF stopping \/ "audio" \notin live THEN "ended" ELSE "getting"
    /\ UNCHANGED <<unseen, stream, infer, encoder, broken>>

\* get_frame times out or is woken by stop()
GetNoFrame ==
    /\ audio = "getting" /\ audio' = "top"
    /\ UNCHANGED <<unseen, stream, infer, encoder, broken>>

\* get_frame; with stop_requested_ the frame is not sent
GetFrame ==
    /\ audio = "getting" /\ heard > 0 /\ capturing
    /\ heard' = heard - 1
    /\ audio' = IF stopping THEN "ended" ELSE IF "rtsp" \in live THEN "sending" ELSE "top"
    /\ UNCHANGED <<control, stream, infer, encoder, pcm, capturing, capture, results, pushed>>

\* send_audio
SendAudio ==
    /\ audio = "sending" /\ audio' = "top"
    /\ UNCHANGED <<unseen, stream, infer, encoder, broken>>

\* capture_thread_func: a chunk is queued, or dropped when the queue is full; an
\* overrun is repaired
CaptureChunk ==
    /\ capture = "reading" /\ capturing
    /\ heard' \in {heard, IF heard < AudioSize THEN heard + 1 ELSE heard}
    /\ UNCHANGED <<control, threads, encoder, pcm, capturing, capture, results, pushed>>

\* running_ is cleared, or ALSA fails for good
CaptureEnds ==
    /\ capture = "reading" /\ capture' = "ended"
    /\ UNCHANGED <<control, threads, encoder, pcm, capturing, heard, results, pushed>>

\* pop_result
PopResult ==
    /\ results # <<>> /\ results' = Tail(results)
    /\ UNCHANGED <<control, threads, encoder, sound, pushed>>

OwnerStep ==
    \/ StopRtsp \/ ShutdownEncoder \/ ResetEncoder \/ StopCapture \/ CloseCapture
    \/ Join \/ ReleaseCamera
Stream == StreamTop \/ GetNoStream \/ GetStream \/ SendVideo \/ EnterRelease \/ ReleaseStream
Infer == InferTop \/ (\E got \in BOOLEAN : ReadCamera(got)) \/ PushResult \/ NoResult
Audio == AudioTop \/ GetNoFrame \/ GetFrame \/ SendAudio

Next ==
    /\ ~broken
    /\ \/ \E f \in Failures, h \in {"ok", "stopFails", "bindFails", "recvFails"} : Start(f, h)
       \/ StopSignal \/ OwnerStep \/ Stream \/ Infer \/ Audio
       \/ CaptureChunk \/ CaptureEnds \/ PopResult

\* The threads are scheduled, every wait in them has a timeout, and a capture
\* thread that is told to end reads one more chunk at most.
Fairness ==
    /\ WF_vars(~broken /\ OwnerStep) /\ WF_vars(~broken /\ owner = "stop" /\ StopSignal)
    /\ WF_vars(~broken /\ Stream) /\ WF_vars(~broken /\ Infer) /\ WF_vars(~broken /\ Audio)
    /\ WF_vars(~broken /\ ~capturing /\ CaptureEnds)

Spec == Init /\ [][Next]_vars /\ Fairness

-----------------------------------------------------------------------------
(* Properties *)

TypeOK ==
    /\ owner \in {"idle", "stop", "rtsp", "shutdown", "encoder", "stop_audio", "join", "camera"}
    /\ live \subseteq Objects
    /\ {running, stopping, pcm, capturing, unclean, broken} \subseteq BOOLEAN
    /\ stream \in {"none", "top", "getting", "sending", "release", "releasing", "ended"}
    /\ infer \in {"none", "top", "reading", "holding", "ended"}
    /\ audio \in {"none", "top", "getting", "sending", "ended"}
    /\ chn \subseteq {"made", "receiving", "bound"}
    /\ venc \subseteq {"initialized", "receiving", "bound", "acquired"}
    /\ capture \in {"none", "reading", "ended"} /\ heard \in 0 .. AudioSize
    /\ results \in Seq([run : 1 .. MaxRuns, no : 1 .. MaxResults]) /\ pushed \in 0 .. MaxResults
    /\ runs \in 0 .. MaxRuns /\ served \subseteq {"context", "session", "listener"}

\* After stop(), and after a start that failed, no thread runs, the camera and the
\* server are gone and the channel is destroyed, whatever failed where and
\* whatever the threads did meanwhile: but for the start whose audio failed.
NothingIsLeft ==
    owner = "idle" /\ ~running /\ ~unclean /\ ~broken =>
        /\ {stream, infer, audio, capture} = {"none"} /\ ~pcm
        /\ chn = {} /\ served = {} /\ "audio" \notin live

\* The consumer is given the newest results, none missing between two of them.
NewestAreKept ==
    \A i \in DOMAIN results :
        results[i].run = runs /\ running => results[i].no = pushed - Len(results) + i

\* stop() ends, whatever the threads are doing, unless the process broke.
Stopping == owner # "idle"
Stopped == owner = "idle" \/ broken
StopComesToAnEnd == Stopping ~> Stopped

\* Refuted: "Now threads can exit cleanly".
NothingBreaks == ~broken

\* Refuted: a start that failed leaves nothing.
FailedStartsClean == owner = "idle" /\ ~running => chn = {} /\ served = {} /\ "audio" \notin live

\* Refuted: results are of the run that is on.
ResultsAreOfThisRun == running => \A i \in DOMAIN results : results[i].run = runs

\* Refuted: audio that runs is captured.
AudioIsCaptured == capturing => capture = "reading"
=============================================================================

------------------------------- MODULE Camera -------------------------------
(***************************************************************************)
(* CviCamera (modules/cv/cvi_camera.cpp) and its owner CameraSource: opening *)
(* a camera takes some twenty steps in the driver, any of which may fail;    *)
(* cleanup undoes those that were done, in a fixed order that is not the     *)
(* reverse, while the thread of the ISP is still running.                    *)
(*                                                                         *)
(* One thread calls.  A step is a function of the source; "held" is what the *)
(* driver has given, "flags" what the members say it has.                    *)
(***************************************************************************)
EXTENDS Naturals, Sequences, SequencesExt

CONSTANTS
    Pads,      \* values of the border of a letterboxed frame
    Depth      \* frames a VPSS channel lends

VARIABLES
    infer,     \* config_.enable_infer
    pad,       \* config_.infer_pad_value
    chnPad,    \* the border the inference channel draws, or 0: none was set
    pc,        \* the step of open or cleanup that is next, "idle" between calls
    opened,    \* opened_
    flags,     \* the members that say what was done
    held,      \* what the driver holds for this camera
    foreign,   \* the VPSS group exists, left by somebody else
    isp,       \* the ISP's thread: "none", "started", "running" (in CVI_ISP_Run), "ended"
    lent       \* frames that were read and not returned

CameraAssumption == Depth \in Nat

vars == <<infer, pad, chnPad, pc, opened, flags, held, foreign, isp, lent>>
config == <<infer, pad>>

\* the steps that leave something behind, in the order open takes them
Facilities == <<"sensor", "vi", "callbacks", "dev", "pipe", "pipe_started", "ae", "awb", "isp", "thread",
                "flip", "vi_chn", "vi_pool", "grp", "stream_chn", "stream_pool", "infer_chn", "infer_pool",
                "grp_started", "bound">>

Init ==
    /\ infer \in BOOLEAN /\ pad \in Pads /\ chnPad = 0
    /\ pc = "idle" /\ opened = FALSE
    /\ flags = {} /\ held = {}
    /\ foreign \in BOOLEAN
    /\ isp = "none" /\ lent = 0

-----------------------------------------------------------------------------
(* open.  Gets(s) at a step: the driver gives s in order until a call fails; *)
(* unless it gave everything the step ends in cleanup, and it may also fail  *)
(* after that (mayFail).  "flip" has no flag.                                *)

Gets(s, mayFail, next) ==
    \E n \in 0 .. Len(s) :
        /\ held' = held \cup ToSet(SubSeq(s, 1, n))
        /\ flags' = flags \cup (ToSet(SubSeq(s, 1, n)) \ {"flip"})
        /\ \/ n = Len(s) /\ pc' = next
           \/ (n < Len(s) \/ mayFail) /\ pc' = "isp_exit"

\* open: nothing for an opened camera
OpenCamera ==
    /\ pc = "idle" /\ ~opened
    /\ pc' = "init_sensor"
    /\ UNCHANGED <<config, chnPad, opened, flags, held, foreign, isp, lent>>

\* CviSensor::init: when no profile's sensor answers, open ends without cleanup;
\* a size the board does not support ends it with one
InitSensor ==
    /\ pc = "init_sensor"
    /\ \/ pc' = "idle" /\ UNCHANGED <<flags, held>>
       \/ Gets(<<"sensor">>, TRUE, "init_system") /\ "sensor" \in held'
    /\ UNCHANGED <<config, chnPad, opened, foreign, isp, lent>>

\* init_system: checks and numbers, nothing is taken
InitSystem ==
    /\ pc = "init_system" /\ Gets(<<>>, TRUE, "start_sensor")
    /\ UNCHANGED <<config, chnPad, opened, foreign, isp, lent>>

\* start_vi opens VI, then start_sensor: what follows the callbacks may fail
StartSensor ==
    /\ pc = "start_sensor" /\ Gets(<<"vi", "callbacks">>, TRUE, "start_mipi")
    /\ UNCHANGED <<config, chnPad, opened, foreign, isp, lent>>

\* start_mipi resets and probes the sensor; nothing of it is ever undone
StartMipi ==
    /\ pc = "start_mipi" /\ Gets(<<>>, TRUE, "start_vi_dev")
    /\ UNCHANGED <<config, chnPad, opened, foreign, isp, lent>>

StartViDev ==
    /\ pc = "start_vi_dev" /\ Gets(<<"dev">>, FALSE, "start_vi_pipe")
    /\ UNCHANGED <<config, chnPad, opened, foreign, isp, lent>>

StartViPipe ==
    /\ pc = "start_vi_pipe" /\ Gets(<<"pipe", "pipe_started">>, FALSE, "init_isp")
    /\ UNCHANGED <<config, chnPad, opened, foreign, isp, lent>>

InitIsp ==
    /\ pc = "init_isp" /\ Gets(<<"ae", "awb", "isp">>, FALSE, "start_isp")
    /\ UNCHANGED <<config, chnPad, opened, foreign, isp, lent>>

StartIsp ==
    /\ pc = "start_isp" /\ Gets(<<"thread">>, FALSE, "start_vi_channel")
    /\ isp' = IF "thread" \in held' THEN "started" ELSE isp
    /\ UNCHANGED <<config, chnPad, opened, foreign, lent>>

StartViChannel ==
    /\ pc = "start_vi_channel" /\ Gets(<<"flip", "vi_chn", "vi_pool">>, FALSE, "init_vpss")
    /\ UNCHANGED <<config, chnPad, opened, foreign, isp, lent>>

\* init_vpss: a group that exists is destroyed and created anew
InitVpss ==
    /\ pc = "init_vpss"
    /\ Gets(<<"grp">>, TRUE, "setup_stream")
    /\ foreign' = FALSE
    /\ UNCHANGED <<config, chnPad, opened, isp, lent>>

\* setup_channel for the stream and, with inference, for the second channel;
\* neither sets the border
SetupStream ==
    /\ pc = "setup_stream"
    /\ Gets(<<"stream_chn", "stream_pool">>, FALSE, IF infer THEN "setup_infer" ELSE "start_grp")
    /\ UNCHANGED <<config, chnPad, opened, foreign, isp, lent>>

SetupInfer ==
    /\ pc = "setup_infer" /\ Gets(<<"infer_chn", "infer_pool">>, FALSE, "start_grp")
    /\ chnPad' = 0
    /\ UNCHANGED <<config, opened, foreign, isp, lent>>

StartGrp ==
    /\ pc = "start_grp" /\ Gets(<<"grp_started">>, FALSE, "bind")
    /\ UNCHANGED <<config, chnPad, opened, foreign, isp, lent>>

\* bind_vi_vpss; then warmup_vpss_frames takes frames and returns them
BindViVpss ==
    /\ pc = "bind" /\ Gets(<<"bound">>, FALSE, "idle")
    /\ opened' = ("bound" \in held')
    /\ UNCHANGED <<config, chnPad, foreign, isp, lent>>

-----------------------------------------------------------------------------
(* An open camera *)

\* read_internal; wait_for_ready returns what it reads
ReadFrame ==
    /\ pc = "idle" /\ opened /\ lent < Depth
    /\ lent' = lent + 1
    /\ UNCHANGED <<config, chnPad, pc, opened, flags, held, foreign, isp>>

ReturnFrame ==
    /\ lent > 0 /\ lent' = lent - 1
    /\ UNCHANGED <<config, chnPad, pc, opened, flags, held, foreign, isp>>

\* set_infer_pad_value: the channel is told when there is one, which may fail
SetInferPadValue(v) ==
    /\ pc = "idle" /\ pad' = v
    /\ chnPad' \in IF opened /\ infer /\ "infer_chn" \in flags THEN {v, chnPad} ELSE {chnPad}
    /\ UNCHANGED <<infer, pc, opened, flags, held, foreign, isp, lent>>

\* release
Release ==
    /\ pc = "idle" /\ opened
    /\ pc' = "isp_exit"
    /\ UNCHANGED <<config, chnPad, opened, flags, held, foreign, isp, lent>>

-----------------------------------------------------------------------------
(* cleanup *)

\* Mutant of UndoOrder: the VI channel goes before the VPSS group.
ViFirst == <<"vi_pool", "vi_chn", "bound", "infer_pool", "stream_pool", "infer_chn", "stream_chn", "grp_started",
             "grp", "pipe_started", "pipe", "dev", "vi", "callbacks", "ae", "awb", "sensor">>

\* The steps after the ISP has stopped, in their order.
UndoOrder == <<"bound", "infer_pool", "stream_pool", "vi_pool", "infer_chn", "stream_chn", "grp_started", "grp",
               "vi_chn", "pipe_started", "pipe", "dev", "vi", "callbacks", "ae", "awb", "sensor">>

\* one step of cleanup: the first of the order whose flag is set; disabling the
\* VI channel also takes its callback back
UndoStep ==
    /\ pc = "undo"
    /\ \E i \in DOMAIN UndoOrder :
          /\ UndoOrder[i] \in flags
          /\ \A j \in 1 .. i - 1 : UndoOrder[j] \notin flags
          /\ flags' = flags \ {UndoOrder[i]}
          /\ held' = held \ (IF UndoOrder[i] = "vi_chn" THEN {"vi_chn", "flip"} ELSE {UndoOrder[i]})
    /\ UNCHANGED <<config, chnPad, pc, opened, foreign, isp, lent>>

\* Mutant of ExitIsp: CVI_ISP_Exit is for an initialized ISP without a thread.
ExitWithoutThread ==
    /\ pc = "isp_exit"
    /\ held' = IF "thread" \in flags THEN held ELSE held \ {"isp"}
    /\ pc' = IF "thread" \in flags THEN "isp_join" ELSE "undo"
    /\ flags' = IF "thread" \in flags THEN flags ELSE flags \ {"isp"}
    /\ UNCHANGED <<config, chnPad, opened, foreign, isp, lent>>

\* CVI_ISP_Exit ends CVI_ISP_Run
ExitIsp ==
    /\ pc = "isp_exit"
    /\ held' = held \ {"isp"}
    /\ pc' = IF "thread" \in flags THEN "isp_join" ELSE "undo"
    /\ flags' = IF "thread" \in flags THEN flags ELSE flags \ {"isp"}
    /\ UNCHANGED <<config, chnPad, opened, foreign, isp, lent>>

JoinIsp ==
    /\ pc = "isp_join" /\ isp = "ended"
    /\ isp' = "none"
    /\ flags' = flags \ {"isp", "thread"} /\ held' = held \ {"thread"}
    /\ pc' = "undo"
    /\ UNCHANGED <<config, chnPad, opened, foreign, lent>>

CleanupEnds ==
    /\ pc = "undo" /\ flags = {}
    /\ pc' = "idle" /\ opened' = FALSE
    /\ UNCHANGED <<config, chnPad, flags, held, foreign, isp, lent>>

\* isp_thread_entry: CVI_ISP_Run runs until the ISP is exited, and returns at
\* once when there is none
IspRuns ==
    /\ isp = "started" /\ isp' = IF "isp" \in held THEN "running" ELSE "ended"
    /\ UNCHANGED <<config, chnPad, pc, opened, flags, held, foreign, lent>>

IspEnds ==
    /\ isp = "running" /\ "isp" \notin held /\ isp' = "ended"
    /\ UNCHANGED <<config, chnPad, pc, opened, flags, held, foreign, lent>>

\* CameraSource::close, CameraNode::onStop: a camera that is released is dropped,
\* and the next one has a configuration of its own
NewCamera ==
    /\ pc = "idle" /\ ~opened
    /\ infer' \in BOOLEAN /\ pad' \in Pads
    /\ UNCHANGED <<chnPad, pc, opened, flags, held, foreign, isp, lent>>

-----------------------------------------------------------------------------
Opening ==
    \/ InitSensor \/ InitSystem \/ StartSensor \/ StartMipi \/ StartViDev \/ StartViPipe \/ InitIsp \/ StartIsp
    \/ StartViChannel \/ InitVpss \/ SetupStream \/ SetupInfer \/ StartGrp \/ BindViVpss

Cleaning == ExitIsp \/ JoinIsp \/ UndoStep \/ CleanupEnds

IspThread == IspRuns \/ IspEnds

Next ==
    \/ OpenCamera \/ Opening \/ Release \/ Cleaning \/ IspThread
    \/ ReadFrame \/ ReturnFrame \/ (\E v \in Pads : SetInferPadValue(v)) \/ NewCamera

\* The two threads go on.
Fairness == WF_vars(Opening) /\ WF_vars(Cleaning) /\ WF_vars(IspThread)
Spec == Init /\ [][Next]_vars /\ Fairness

-----------------------------------------------------------------------------
(* Properties *)

TypeOK ==
    /\ infer \in BOOLEAN /\ pad \in Pads /\ chnPad \in Pads \cup {0}
    /\ pc \in {"idle", "init_sensor", "init_system", "start_sensor", "start_mipi", "start_vi_dev", "start_vi_pipe", "init_isp",
               "start_isp", "start_vi_channel", "init_vpss", "setup_stream", "setup_infer", "start_grp", "bind",
               "isp_exit", "isp_join", "undo"}
    /\ flags \subseteq ToSet(Facilities) \ {"flip"} /\ held \subseteq ToSet(Facilities)
    /\ {opened, foreign} \subseteq BOOLEAN
    /\ isp \in {"none", "started", "running", "ended"} /\ lent \in 0 .. Depth

\* What each facility stands on; "runs" is the ISP's thread inside CVI_ISP_Run.
StandsOn ==
    [bound |-> {"vi_chn", "grp_started"}, infer_pool |-> {"infer_chn"}, stream_pool |-> {"stream_chn"},
     vi_pool |-> {"vi_chn"}, infer_chn |-> {"grp"}, stream_chn |-> {"grp"}, grp_started |-> {"grp"},
     vi_chn |-> {"pipe_started"}, pipe_started |-> {"pipe"}, pipe |-> {"dev"}, dev |-> {"vi"},
     runs |-> {"pipe_started", "ae", "awb", "callbacks"}]

\* Whatever step fails, and however far the thread of the ISP has come when
\* cleanup begins: nothing is taken away while something stands on it.
NothingStandsOnAir ==
    \A x \in DOMAIN StandsOn :
        x \in held \/ (x = "runs" /\ isp = "running") => StandsOn[x] \subseteq held

\* An opened camera has all it needs; one that is not opened, between calls, has
\* nothing, but for the flip callback, which has no flag, and no thread.
AllOrNothing ==
    pc = "idle" =>
        IF opened
        THEN held = ToSet(Facilities) \ (IF infer THEN {} ELSE {"infer_chn", "infer_pool"})
        ELSE held \subseteq {"flip"} /\ isp = "none"

\* A failed open or a release comes to its end: the ISP's thread is always told
\* to end before it is joined.
CleaningUp == pc = "isp_exit"
CleanedUp == pc = "idle"
CleanupComesToAnEnd == CleaningUp ~> CleanedUp

\* Refuted: a CVI_VI_EnableChn that fails leaves the callback registered.
NothingIsLeft == pc = "idle" /\ ~opened => held = {}

\* Refuted: a border that was set before open is never told to the channel.
BorderIsDrawn == pc = "idle" /\ opened /\ infer => chnPad = pad
=============================================================================

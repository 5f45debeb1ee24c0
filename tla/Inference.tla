------------------------------ MODULE Inference ------------------------------
(***************************************************************************)
(* A session with a model (inference/cvi_session.cpp) and the two that give it *)
(* pictures: ModelNode, with a whole frame or with the regions a script        *)
(* selects (node/model_node.cpp), and CviPipeline (pipeline/cvi_pipeline.cpp). *)
(* A picture reaches the model through the session's own input buffer, or      *)
(* without a copy by pointing the input tensor at the block of a frame.        *)
(*                                                                         *)
(* A picture is what it shows: a frame, the region of it, how it was fitted    *)
(* into the input, and the order of its colours.  The TPU reads and writes     *)
(* memory; the CPU sees what it invalidated last.                              *)
(***************************************************************************)
EXTENDS Naturals, Sequences

CONSTANTS
    Outputs,    \* the outputs of the model
    Primary,    \* select_primary_output_index
    Regions,    \* regions that select_rois may return
    Fits,       \* preprocess types of the scripts
    Centres,    \* values of "center" in the scripts
    Nothing

VARIABLES
    takesVb,    \* supports_vb_input()
    fit,        \* preprocess_config_.type
    centre,     \* preprocess_config_.center
    exists,     \* session_ is set
    lost,       \* what a constructor that threw acquired (history)
    session,    \* addresses and buffers of the session
    blocks,     \* what the blocks of the frame and of the VPSS's result hold
    frame,      \* the frame: there are Frames of them, one after the other
    rest,       \* the regions of the frame that are still to be inferred
    answer      \* what the last call gave the script (history)

vars == <<takesVb, fit, centre, exists, lost, session, blocks, frame, rest, answer>>
setup == <<takesVb, fit, centre>>

Frames == 2     \* a stale picture is of the other one
Own == "own"    \* the session's own input buffer
Blocks == {"frame", "result"}
Whole == "whole"

Geometry(region, how, mid) == [region |-> region, fit |-> how, centred |-> mid]
Picture(f, g, colours) == [of |-> f, geometry |-> g, colours |-> colours]
Geometries == [region : Regions \cup {Whole}, fit : Fits \cup {"letterbox"}, centred : BOOLEAN]
Pictures == [of : 0 .. Frames - 1, geometry : Geometries, colours : {"model", "frame"}]

InferenceAssumption == Nothing \notin Pictures /\ Centres \subseteq BOOLEAN

\* addr: where the input tensor is; cpu: what the CPU sees of each output.  What
\* is in the own buffer and in the outputs' memory is written by every call before
\* it is read.
Fresh == [addr |-> Own, cpu |-> [o \in Outputs |-> Nothing]]

Init ==
    /\ takesVb \in BOOLEAN /\ fit \in Fits /\ centre \in Centres
    /\ exists = FALSE /\ lost = {} /\ session = Fresh
    /\ blocks = [b \in Blocks |-> Nothing] /\ frame = 0 /\ rest = <<>> /\ answer = Nothing

-----------------------------------------------------------------------------
(* The session *)

\* the constructor; what it acquired before it throws has no owner: the
\* destructor does not run
Construct(acquired) ==
    /\ ~exists
    /\ IF acquired = {"runtime", "model", "tensors"}
       THEN exists' = TRUE /\ session' = Fresh /\ UNCHANGED lost
       ELSE lost' = lost \cup acquired /\ UNCHANGED <<exists, session>>
    /\ UNCHANGED <<setup, blocks, frame, rest, answer>>

Acquired == {{}, {"runtime"}, {"runtime", "model"}, {"runtime", "model", "tensors"}}

\* ~CviSession
Destruct ==
    /\ exists /\ rest = <<>>
    /\ exists' = FALSE /\ session' = Fresh /\ answer' = Nothing
    /\ UNCHANGED <<setup, lost, blocks, frame, rest>>

\* Mutant of Collect: only the primary output is invalidated.
CollectPrimary(s, done, selected) == [s EXCEPT !.cpu[Primary] = done]

\* invalidate_cache and read_output_tensor of the selected outputs; done is what
\* the TPU computed them from
Collect(s, done, selected) ==
    [s EXCEPT !.cpu = [o \in Outputs |-> IF o \in selected THEN done ELSE @[o]]]

\* CVI_NN_Forward with the input tensor at s.addr, and what follows; sent is what
\* copy_input_to_device put into the own buffer
Forward(s, sent, selected, mem, fails) ==
    IF fails \in {"forward", "collect"} THEN [session |-> s, ok |-> FALSE]
    ELSE [session |-> Collect(s, IF s.addr = Own THEN sent ELSE mem[s.addr], selected), ok |-> TRUE]

\* Mutant of Run: the tensor is left at the address it has.
RunWhereItIs(s, picture, selected, mem, fails) ==
    IF fails = "check" THEN [session |-> s, ok |-> FALSE]
    ELSE Forward(s, picture, selected, mem, fails)

\* run, run_all, run_all_selected
Run(s, picture, selected, mem, fails) ==
    IF fails = "check" THEN [session |-> s, ok |-> FALSE]
    ELSE Forward([s EXCEPT !.addr = Own], picture, selected, mem, fails)

\* run_vb, run_vb_selected: the own address is restored, but by no exception
RunVb(s, block, selected, mem, fails) ==
    IF fails = "check" THEN [session |-> s, ok |-> FALSE]
    ELSE LET done == Forward([s EXCEPT !.addr = block], Nothing, selected, mem, fails)
         IN  IF done.ok THEN [done EXCEPT !.session.addr = Own] ELSE done

Fails == {"check", "forward", "collect", "not"}

-----------------------------------------------------------------------------
(* Preprocessing *)

\* the VPSS in its mode "letterbox" centres, and gives the colours that the model asks for
ByVpss(region, how) == Picture(frame, Geometry(region, how, TRUE), "model")
\* the CPU: letterbox, resize or nothing, with the colours of the frame's copy
ByCpu(region) == Picture(frame, Geometry(region, fit, fit = "letterbox" => centre), "frame")
\* Mutant of Meta: a region's is that of the whole frame.
MetaOfFrame(region) == Geometry(Whole, fit, fit = "letterbox" => centre)

\* compute_letterbox_meta, or the scale of a resize
Meta(region) == Geometry(region, fit, fit = "letterbox" => centre)

\* what a script's postprocess is called with
Told(s, selected, region) ==
    [outputs |-> [o \in selected |-> s.cpu[o]], meta |-> Meta(region), region |-> region]

\* Infer a region: path is "none" (a frame in host memory, or a VPSS that failed),
\* "copy" (the VPSS's result is not what the session needs) or "vb"
\* (can_zero_copy), and lent says that the frame was already as it must be
Infer(region, path, lent, fails) ==
    LET picture == IF path = "none" THEN ByCpu(region) ELSE ByVpss(region, fit)
        block == IF lent THEN "frame" ELSE "result"
        mem == IF path = "none" THEN blocks ELSE [blocks EXCEPT ![block] = picture]
        result == IF path = "vb" THEN RunVb(session, block, Outputs, mem, fails)
                  ELSE Run(session, picture, Outputs, mem, fails)
    IN  /\ fit = "other" => path = "none" /\ fails = "check"
        /\ path # "none" => takesVb
        /\ lent => path # "none" /\ fit = "none" /\ region = Whole
        /\ session' = result.session
        /\ answer' = IF result.ok THEN Told(result.session, Outputs, region) ELSE Nothing
        \* the VPSS's result is released when the function ends
        /\ blocks' = [blocks EXCEPT !["result"] = Nothing]

Paths == {"none", "copy", "vb"}

\* runFullFrameInference
InferFrame(path, lent, fails) ==
    /\ exists /\ rest = <<>> /\ blocks["frame"] # Nothing
    /\ Infer(Whole, path, lent, fails)
    /\ UNCHANGED <<setup, exists, lost, frame, rest>>

\* runCroppedRoiInference calls select_rois
SelectRegions(regions) ==
    /\ exists /\ rest = <<>> /\ blocks["frame"] # Nothing
    /\ rest' = regions
    /\ UNCHANGED <<setup, exists, lost, session, blocks, frame, answer>>

\* one region: an exception gives up the others too
InferRegion(path, fails) ==
    /\ exists /\ rest # <<>>
    /\ Infer(Head(rest), path, FALSE, fails)
    /\ rest' = IF answer' = Nothing THEN <<>> ELSE Tail(rest)
    /\ UNCHANGED <<setup, exists, lost, frame>>

\* a region that is empty within the frame, or a frame without a copy, is left out
SkipRegion ==
    /\ exists /\ rest # <<>>
    /\ rest' = Tail(rest)
    /\ UNCHANGED <<setup, exists, lost, session, blocks, frame, answer>>

\* CviPipeline::init throws for another type than letterbox
PipelineTakes == fit = "letterbox"

\* CviPipeline::run_tpu of a frame that preprocess_frame letterboxed; without
\* zero copy it throws
RunTpu(fails) ==
    /\ exists /\ PipelineTakes /\ rest = <<>> /\ blocks["frame"] # Nothing
    /\ ~takesVb => fails = "check"
    /\ LET picture == ByVpss(Whole, "letterbox")
           result == RunVb(session, "result", Outputs, [blocks EXCEPT !["result"] = picture], fails)
       IN  /\ session' = result.session
           /\ answer' = IF result.ok THEN [outputs |-> result.session.cpu, region |-> Whole,
                                           meta |-> Geometry(Whole, "letterbox", TRUE)]
                        ELSE Nothing
    /\ blocks' = [b \in Blocks |-> Nothing]
    /\ UNCHANGED <<setup, exists, lost, frame, rest>>

\* Session:run of a script (modules/lua_nn.cpp), with outputs it selects
RunScript(selected, fails) ==
    /\ exists /\ rest = <<>> /\ blocks["frame"] # Nothing
    /\ LET result == Run(session, ByCpu(Whole), selected, blocks, fails)
       IN  /\ session' = result.session
           /\ answer' = IF result.ok THEN Told(result.session, selected, Whole) ELSE Nothing
    /\ UNCHANGED <<setup, exists, lost, blocks, frame, rest>>

\* the frame is released, and the next one captured
NextFrame ==
    /\ rest = <<>>
    /\ frame' = (frame + 1) % Frames
    /\ blocks' = [blocks EXCEPT !["frame"] = Picture(frame', Geometry(Whole, "letterbox", TRUE), "model")]
    /\ answer' = Nothing
    /\ UNCHANGED <<setup, exists, lost, session, rest>>

Next ==
    \/ \E a \in Acquired : Construct(a)
    \/ Destruct \/ SkipRegion \/ NextFrame
    \/ \E p \in Paths, l \in BOOLEAN, f \in Fails : InferFrame(p, l, f)
    \/ \E p \in Paths, f \in Fails : InferRegion(p, f)
    \/ \E r, s \in Regions : SelectRegions(<<r, s>>)
    \/ \E f \in Fails : RunTpu(f) \/ \E sel \in (SUBSET Outputs) \ {{}} : RunScript(sel, f)

Spec == Init /\ [][Next]_vars

-----------------------------------------------------------------------------
(* Properties *)

TypeOK ==
    /\ takesVb \in BOOLEAN /\ fit \in Fits /\ centre \in Centres
    /\ exists \in BOOLEAN /\ lost \subseteq {"runtime", "model", "tensors"}
    /\ session \in [addr : Blocks \cup {Own}, cpu : [Outputs -> Pictures \cup {Nothing}]]
    /\ blocks \in [Blocks -> Pictures \cup {Nothing}]
    /\ frame \in 0 .. Frames - 1 /\ rest \in Seq(Regions)

Shown == {answer.outputs[o] : o \in DOMAIN answer.outputs}

\* What a script is given was computed from the frame and the region it is told,
\* in every output: not from a block that another call left the tensor at, not
\* from outputs of an earlier call that are still in the cache.
AnswersAreAboutTheFrame ==
    answer # Nothing => \A p \in Shown : p # Nothing /\ p.of = frame /\ p.geometry.region = answer.region

\* The scale and the borders that a script is told are those of the picture, so
\* that boxes are mapped back to where they are.  The VPSS always centres: this
\* is for scripts that ask for it.
MetaFitsThePicture == answer # Nothing /\ centre => \A p \in Shown : p.geometry = answer.meta

\* Refuted without that condition.
MetaAlwaysFitsThePicture == answer # Nothing => \A p \in Shown : p.geometry = answer.meta

\* Refuted: the model is given the colours it asks for.  The fallback to the CPU
\* leaves them as to_mat_copy has them.
ColoursFitTheModel == answer # Nothing /\ takesVb => \A p \in Shown : p.colours # "frame"

\* Refuted: a session that could not be made leaves nothing behind.
NothingIsLost == lost = {}
=============================================================================

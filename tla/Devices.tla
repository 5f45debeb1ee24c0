------------------------------ MODULE Devices ------------------------------
(***************************************************************************)
(* The modules below the graph side by side: pools and buffers, the JPEG       *)
(* decoder, the VPSS, the inference sessions and the skipping of frames.  They *)
(* share no state: which says whose behaviour this is, and the variables of    *)
(* the others stay Unused.  A variable that two of them name alike serves both. *)
(***************************************************************************)
EXTENDS Naturals, Sequences, FiniteSets

CONSTANTS BlockSize, OtherBlocks, ImageSize, Jobs
CONSTANTS Memories, FrameVariables, Plans, Processors, Inputs, Outputs, TooLarge,
          ModelOutputs, Primary, Regions, Fits, Centres, Nothing, None, NoPicture,
          Loops, TicksPerMs, Intervals, ProcTimes, ReadTimes, Grain, Horizon

VARIABLES
    which,
    sys, vb, plan, mmf, manager, lent, maps, memory, frame,
    channel, generation, decoded, size, loaded, held, prealloc, block, asked, late,
    group, proc, pc, job, result, mishap,
    takesVb, fit, centre, exists, lost, session, blocks, rest, answer,
    loop, interval, wait, ema, streak, vpssStreak, exponent, since, floor, gap, due

onlyVideo == <<sys, vb, plan, mmf, manager, maps, memory>>
onlyJpeg == <<channel, generation, decoded, size, loaded, held, prealloc, block, asked, late>>
onlyVpss == <<group, proc, pc, job, result, mishap>>
onlyInference == <<takesVb, fit, centre, exists, lost, session, blocks, rest, answer>>
onlySkipping == <<loop, interval, wait, ema, streak, vpssStreak, exponent, since, floor, gap, due>>
vars == <<which, lent, frame, onlyVideo, onlyJpeg, onlyVpss, onlyInference, onlySkipping>>

Video == INSTANCE VideoMemory WITH SizeOf <- BlockSize, Others <- OtherBlocks, Frames <- FrameVariables
Jpeg == INSTANCE JpegDecoder WITH SizeOf <- ImageSize, Images <- DOMAIN ImageSize
Vpss == INSTANCE Vpss
Inference == INSTANCE Inference WITH Outputs <- ModelOutputs
Skipping == INSTANCE FrameSkipping

ASSUME BlocksAreKnown == Video!VideoAssumption
ASSUME ImagesAreKnown == Jpeg!JpegAssumption
ASSUME JobsAreKnown == Vpss!VpssAssumption
ASSUME PicturesAreKnown == Inference!InferenceAssumption
ASSUME SkippingIsWithinReason == Skipping!SkippingAssumption

Unused == "unused"
NoVideo ==
    /\ sys = Unused /\ vb = Unused /\ plan = Unused /\ mmf = Unused
    /\ manager = Unused /\ maps = Unused /\ memory = Unused
NoJpeg ==
    /\ channel = Unused /\ generation = Unused /\ decoded = Unused /\ size = Unused
    /\ loaded = Unused /\ held = Unused /\ prealloc = Unused /\ block = Unused
    /\ asked = Unused /\ late = Unused
NoVpss ==
    /\ group = Unused /\ proc = Unused /\ pc = Unused /\ job = Unused
    /\ result = Unused /\ mishap = Unused
NoInference ==
    /\ takesVb = Unused /\ fit = Unused /\ centre = Unused /\ exists = Unused
    /\ lost = Unused /\ session = Unused /\ blocks = Unused /\ rest = Unused
    /\ answer = Unused
NoSkipping ==
    /\ loop = Unused /\ interval = Unused /\ wait = Unused /\ ema = Unused
    /\ streak = Unused /\ vpssStreak = Unused /\ exponent = Unused /\ since = Unused
    /\ floor = Unused /\ gap = Unused /\ due = Unused

Init ==
    \/ /\ which = "video" /\ Video!Init
       /\ NoJpeg /\ NoVpss /\ NoInference /\ NoSkipping
    \/ /\ which = "jpeg" /\ Jpeg!Init /\ frame = Unused
       /\ NoVideo /\ NoVpss /\ NoInference /\ NoSkipping
    \/ /\ which = "vpss" /\ Vpss!Init /\ lent = Unused /\ frame = Unused
       /\ NoVideo /\ NoJpeg /\ NoInference /\ NoSkipping
    \/ /\ which = "inference" /\ Inference!Init /\ lent = Unused
       /\ NoVideo /\ NoJpeg /\ NoVpss /\ NoSkipping
    \/ /\ which = "skipping" /\ Skipping!Init /\ lent = Unused /\ frame = Unused
       /\ NoVideo /\ NoJpeg /\ NoVpss /\ NoInference

Next ==
    \/ /\ which = "video" /\ Video!Next
       /\ UNCHANGED <<which, onlyJpeg, onlyVpss, onlyInference, onlySkipping>>
    \/ /\ which = "jpeg" /\ Jpeg!Next
       /\ UNCHANGED <<which, frame, onlyVideo, onlyVpss, onlyInference, onlySkipping>>
    \/ /\ which = "vpss" /\ Vpss!Next
       /\ UNCHANGED <<which, lent, frame, onlyVideo, onlyJpeg, onlyInference, onlySkipping>>
    \/ /\ which = "inference" /\ Inference!Next
       /\ UNCHANGED <<which, lent, onlyVideo, onlyJpeg, onlyVpss, onlySkipping>>
    \/ /\ which = "skipping" /\ Skipping!Next
       /\ UNCHANGED <<which, lent, frame, onlyVideo, onlyJpeg, onlyVpss, onlyInference>>

Spec == Init /\ [][Next]_vars

-----------------------------------------------------------------------------
\* The type invariants of the five.
TypeOK ==
    /\ which = "video" => Video!TypeOK
    /\ which = "jpeg" => Jpeg!TypeOK
    /\ which = "vpss" => Vpss!TypeOK
    /\ which = "inference" => Inference!TypeOK
    /\ which = "skipping" => Skipping!TypeOK

\* VideoMemory: the system and its pools are up as long as anyone needs them.
UpWhileNeeded == which = "video" => Video!UpWhileNeeded

\* VideoMemory: a block has one owner, whatever was moved, lent, mapped and copied.
OneOwnerPerBlock == which = "video" => Video!OneOwnerPerBlock

\* JpegDecoder: a picture a caller holds is one that the channel still lends, and that
\* of its image: always for a source, for the loader until a call gives up too early.
CallersHoldLivePictures ==
    which = "jpeg" => Jpeg!CallersHoldLivePictures /\ Jpeg!PicturesAreOwn

\* Vpss: a call that returns has done what it was asked, unless two
\* processors share the group, the set-up of a running channel stopped halfway, a crop
\* was not taken back or a late result is still in the channel.
OnlyMishapsMislead == [][which = "vpss" => Vpss!CallsReturnWhatWasAsked]_vars

\* Vpss: no group and no crop window outlives its use, on any error path on which
\* the driver's undoing calls do what they are called for.
VpssLeavesNothing == which = "vpss" => Vpss!GroupsAreDestroyed /\ Vpss!CropsEnd

\* Inference: what a script is given is about the frame and the region it is told
\* and, for a script that asks for a centred picture, in the scale and with the
\* borders it is told.
AnswersAreAboutTheFrame ==
    which = "inference" => Inference!AnswersAreAboutTheFrame /\ Inference!MetaFitsThePicture

\* FrameSkipping: no frame is used sooner than its loop grants it.
LimitIsObeyed == which = "skipping" => Skipping!LimitIsObeyed
=============================================================================

---------------------------- MODULE FrameSkipping ----------------------------
(***************************************************************************)
(* Which frames of a camera are used: CameraNode::captureLoop with the        *)
(* times its models report (node/camera_node.cpp), and                        *)
(* CviPipeline::run_camera_frame_adaptive (pipeline/cvi_pipeline.cpp), which   *)
(* measures them itself.  Both skip frames until next_infer_time and back off *)
(* when the camera has no buffer, by formulas of their own.                   *)
(*                                                                         *)
(* Time is in ticks of the steady clock, of which a millisecond has           *)
(* TicksPerMs: the code computes with fractions of a millisecond but where it *)
(* casts to int.  Times to come count down; averages are rounded down.        *)
(***************************************************************************)
EXTENDS Naturals

CONSTANTS
    Loops,       \* the loops that are modelled: "node", "pipeline"
    TicksPerMs,  \* ticks in a millisecond
    Intervals,   \* frame intervals: 1000 / fps
    ProcTimes,   \* times that processing takes
    ReadTimes,   \* times that a read of the camera takes, with a frame or without
    Grain,       \* the averages are kept in multiples of it
    Horizon      \* longer times since a frame are not told apart

Second == 1000 * TicksPerMs       \* the largest cooldown
QuarterSecond == 250 * TicksPerMs \* the largest base of the pipeline's
MaxExponent == 4

VARIABLES
    loop,      \* which of the two loops this is
    interval,  \* the frame interval in force
    wait,      \* next_infer_time - now
    ema,       \* infer_ema_ms
    streak,    \* camera_nobuf_streak
    vpssStreak,\* vpss_nobuf_streak_ (pipeline)
    exponent,  \* backoff_exponent (node)
    since,     \* time since the last frame that was used, up to Horizon (history)
    floor,     \* the shortest gap that the loop grants since (history)
    gap,       \* the time between the last two frames that were used (history)
    due        \* the shortest gap that the loop granted between them (history)

vars == <<loop, interval, wait, ema, streak, vpssStreak, exponent, since, floor, gap, due>>
history == <<floor, gap, due>>

Least(a, b) == IF a < b THEN a ELSE b
Most(a, b) == IF a > b THEN a ELSE b
Minus(a, b) == IF a > b THEN a - b ELSE 0
Clamp(x, low, high) == IF x < low THEN low ELSE IF x > high THEN high ELSE x

MaxStreak == 6

\* 2 to the n-th
Doublings == <<1, 2, 4, 8, 16>>
Doubled(n) == Doublings[n + 1]

\* static_cast<int> of a time in milliseconds
Whole(t) == (t \div TicksPerMs) * TicksPerMs

\* What is left of an interval when the loop backs off: the node truncates it to
\* milliseconds, and no cooldown of either loop is longer than a second.
Granted(i) == Least(IF loop = "node" THEN Whole(i) ELSE i, Second)

SkippingAssumption ==
    /\ {TicksPerMs, Grain} \subseteq Nat \ {0}
    /\ Intervals \subseteq Nat \ {0} /\ Horizon \in Nat /\ \A i \in Intervals : i <= Horizon
    /\ ProcTimes \subseteq Nat /\ ReadTimes \subseteq Nat

Init ==
    /\ loop \in Loops /\ interval \in Intervals
    /\ wait = 0 /\ ema = 0 /\ streak = 0 /\ vpssStreak = 0 /\ exponent = 0
    /\ since = Horizon /\ floor = Granted(interval) /\ gap = Horizon /\ due = floor

Elapse(t) == since' = Least(since + t, Horizon)
NextStreak(n) == Least(n + 1, MaxStreak)

\* a frame is used after a read of r; t of the time to the next one is over
Used(r, t) ==
    /\ gap' = Least(since + r, Horizon) /\ due' = floor
    /\ since' = Least(t, Horizon) /\ floor' = Granted(interval)

-----------------------------------------------------------------------------
\* computeNobufThreshold, compute_nobuf_threshold
NobufThreshold ==
    IF loop = "pipeline" /\ ema = 0 THEN 3
    ELSE IF ema >= 2 * interval THEN 1
    ELSE IF 10 * ema >= 13 * interval THEN 2 ELSE 3

\* applyExponentialBackoff
NodeCooldown == Least(Whole(interval) * Doubled(exponent), Second)

\* compute_nobuf_cooldown_ms
PipelineCooldown(n) ==
    LET base == Clamp(IF ema > 0 THEN (ema * 6) \div 5 ELSE 2 * interval, interval, QuarterSecond)
    IN  Clamp(base * Doubled(Clamp(Minus(n, NobufThreshold), 0, 4)), interval, Second)

\* captureLoop without a buffer: from the threshold on it backs off, and sleeps
\* until next_infer_time unless that is a millisecond away
NodeNobuf(r) ==
    /\ loop = "node"
    /\ streak' = NextStreak(streak)
    /\ IF streak + 1 >= NobufThreshold
       THEN /\ exponent' = Least(exponent + 1, MaxExponent)
            /\ IF NodeCooldown > TicksPerMs THEN wait' = 0 /\ Elapse(r + NodeCooldown)
                                             ELSE wait' = NodeCooldown /\ Elapse(r)
       ELSE /\ wait' = Minus(wait, r) /\ Elapse(r)
            /\ UNCHANGED exponent
    /\ UNCHANGED <<loop, interval, ema, vpssStreak, history>>

\* Mutant of PipelineNobuf: below the threshold there is no wait at all.
PipelineRetries(r) ==
    /\ loop = "pipeline"
    /\ streak' = NextStreak(streak)
    /\ Elapse(r)
    /\ wait' = IF streak + 1 >= NobufThreshold THEN PipelineCooldown(streak + 1) ELSE 0
    /\ UNCHANGED <<loop, interval, ema, vpssStreak, exponent, history>>

\* run_camera_frame_adaptive without a buffer: below the threshold it waits for
\* one frame interval
PipelineNobuf(r) ==
    /\ loop = "pipeline"
    /\ streak' = NextStreak(streak)
    /\ Elapse(r)
    /\ wait' = IF streak + 1 >= NobufThreshold THEN PipelineCooldown(streak + 1) ELSE interval
    /\ UNCHANGED <<loop, interval, ema, vpssStreak, exponent, history>>

\* a read that gives a frame before next_infer_time: it is skipped
SkipFrame(r) ==
    /\ wait > r
    /\ wait' = wait - r /\ Elapse(r)
    /\ streak' = 0 /\ exponent' = 0
    /\ UNCHANGED <<loop, interval, ema, vpssStreak, history>>

Smooth(t) == ((4 * ema + t) \div (5 * Grain)) * Grain

\* processFrame and updateSkipTiming: t is the longest of the times the models
\* reported within five seconds, 0 when none did
UseFrameNode(r, t) ==
    /\ loop = "node" /\ wait <= r
    /\ ema' = IF t > 0 THEN Smooth(t) ELSE ema
    /\ wait' = Most((ema' * 6) \div 5, interval)
    /\ streak' = 0 /\ exponent' = 0
    /\ Used(r, 0)
    /\ UNCHANGED <<loop, interval, vpssStreak>>

\* run_camera_frame_from_input took t: the wait runs from the read
UseFramePipeline(r, t) ==
    /\ loop = "pipeline" /\ wait <= r /\ t > 0
    /\ ema' = IF ema = 0 THEN t ELSE Smooth(t)
    /\ wait' = Minus(Most((ema' * 6) \div 5, interval), t)
    /\ streak' = 0 /\ vpssStreak' = 0
    /\ Used(r, t)
    /\ UNCHANGED <<loop, interval, exponent>>

\* the VPSS has no buffer for the frame, which is given up after t: from the
\* threshold on the pipeline backs off, from the read on
VpssNobuf(r, t) ==
    /\ loop = "pipeline" /\ wait <= r
    /\ vpssStreak' = NextStreak(vpssStreak)
    /\ streak' = 0
    /\ wait' = IF vpssStreak + 1 >= NobufThreshold THEN Minus(PipelineCooldown(vpssStreak + 1), t) ELSE 0
    /\ Elapse(r + t)
    /\ UNCHANGED <<loop, interval, ema, exponent, history>>

\* processing gives the frame up after t for another reason, and throws: the next
\* frame may be used at once
ProcessingThrows(r, t) ==
    /\ loop = "pipeline" /\ wait <= r
    /\ streak' = 0 /\ wait' = 0 /\ Elapse(r + t)
    /\ UNCHANGED <<loop, interval, ema, vpssStreak, exponent, history>>

\* the read fails for another reason than a missing buffer, and throws
ReadThrows(r) ==
    /\ loop = "pipeline"
    /\ wait' = Minus(wait, r) /\ Elapse(r)
    /\ UNCHANGED <<loop, interval, ema, streak, vpssStreak, exponent, history>>

\* onControl: set_fps, set_infer_fps_limit
SetInterval(i) ==
    /\ loop = "node" /\ i # interval
    /\ interval' = i /\ floor' = Least(floor, Granted(i))
    /\ UNCHANGED <<loop, wait, ema, streak, vpssStreak, exponent, since, gap, due>>

\* open_camera, close_camera
ReopenCamera ==
    /\ loop = "pipeline"
    /\ wait' = 0 /\ ema' = 0 /\ streak' = 0 /\ vpssStreak' = 0
    /\ since' = Horizon
    /\ UNCHANGED <<loop, interval, exponent, history>>

Next ==
    \/ \E r \in ReadTimes :
        \/ NodeNobuf(r) \/ PipelineNobuf(r) \/ SkipFrame(r) \/ ReadThrows(r)
        \/ \E t \in ProcTimes : UseFrameNode(r, t) \/ UseFramePipeline(r, t) \/ VpssNobuf(r, t) \/ ProcessingThrows(r, t)
    \/ ReopenCamera
    \/ \E i \in Intervals : SetInterval(i)

Spec == Init /\ [][Next]_vars

-----------------------------------------------------------------------------
(* Properties *)

TypeOK ==
    /\ loop \in Loops /\ interval \in Intervals
    /\ {wait, ema, since, gap, floor, due} \subseteq Nat /\ since <= Horizon
    /\ {streak, vpssStreak} \subseteq 0 .. MaxStreak /\ exponent \in 0 .. MaxExponent

\* A frame that is used follows the one before it by at least the shortest gap
\* that the loop granted between them - the frame interval in force, for the node
\* in whole milliseconds, at most a second - whatever mixture of skipped frames,
\* missing buffers, backoffs, frames given up, failed calls and changes of the
\* rate lies between.  With the interval itself in place of Granted this is
\* refuted (see the README).
LimitIsObeyed == gap >= due

\* Refuted: a model is given its next frame no sooner than 1.2 times its average.
\* The first missing buffer replaces that wait by a cooldown, which is shorter.
SlowModelsAreSpared == [][since' < since /\ ~ReopenCamera => 5 * gap' >= 6 * ema - 5]_vars
=============================================================================

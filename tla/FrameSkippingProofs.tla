------------------------ MODULE FrameSkippingProofs ------------------------
(* The frame limit, for any intervals, any times of reading and processing. *)
EXTENDS FrameSkipping, Integers, TLAPS

\* Before a frame is used, the wait and the time since the last one make up the
\* shortest gap granted since.
Covered == Least(since + wait, Horizon) >= floor

IInv ==
    /\ TypeOK
    /\ floor <= Granted(interval)
    /\ Covered
    /\ LimitIsObeyed

-----------------------------------------------------------------------------

\* Truncation to milliseconds makes no time longer.
LEMMA WholeIsNoLonger ==
  ASSUME SkippingAssumption, NEW t \in Nat
  PROVE  Whole(t) \in Nat /\ Whole(t) <= t
<1>1. TicksPerMs \in Nat \ {0}
  BY DEF SkippingAssumption
<1>2. t \div TicksPerMs \in Nat
  BY <1>1, Z3
<1>3. (t \div TicksPerMs) * TicksPerMs \in Nat /\ (t \div TicksPerMs) * TicksPerMs <= t
  <2>1. (t \div TicksPerMs) * TicksPerMs <= t
    BY ONLY <1>1, t \in Nat, Z3
  <2> QED
    BY <1>1, <1>2, <2>1
<1> QED
  BY <1>3 DEF Whole

\* A loop grants no more than the interval, nor than the horizon.
LEMMA GrantedIsInRange ==
  ASSUME SkippingAssumption, NEW i \in Intervals
  PROVE  Granted(i) \in Nat /\ Granted(i) <= i /\ Granted(i) <= Horizon
<1>1. i \in Nat /\ i <= Horizon /\ Horizon \in Nat /\ Second \in Nat
  BY DEF SkippingAssumption, Second
<1>2. Whole(i) \in Nat /\ Whole(i) <= i
  BY <1>1, WholeIsNoLonger
<1> QED
  BY <1>1, <1>2 DEF Granted, Least

\* Whatever the exponent, the node's cooldown is no shorter than what it grants.
LEMMA NodeCooldownSuffices ==
  ASSUME SkippingAssumption, loop = "node", interval \in Intervals, exponent \in 0 .. MaxExponent
  PROVE  NodeCooldown \in Nat /\ NodeCooldown >= Granted(interval)
<1>1. interval \in Nat /\ Second \in Nat
  BY DEF SkippingAssumption, Second
<1>2. Doubled(exponent) \in {1, 2, 4, 8, 16}
  BY DEF Doubled, Doublings, MaxExponent
<1>3. Whole(interval) \in Nat
  BY <1>1, WholeIsNoLonger
<1>4. Granted(interval) = Least(Whole(interval), Second)
  BY DEF Granted
<1> QED
  BY <1>1, <1>2, <1>3, <1>4 DEF NodeCooldown, Least

\* Nor is the pipeline's, whatever the streak.
LEMMA PipelineCooldownSuffices ==
  ASSUME SkippingAssumption, loop = "pipeline", interval \in Intervals, ema \in Nat, NEW n \in Nat
  PROVE  PipelineCooldown(n) \in Nat /\ PipelineCooldown(n) >= Granted(interval)
<1> DEFINE base == Clamp(IF ema > 0 THEN (ema * 6) \div 5 ELSE 2 * interval, interval, QuarterSecond)
           k == Clamp(Minus(n, NobufThreshold), 0, 4)
<1>1. interval \in Nat /\ Second \in Nat /\ QuarterSecond \in Nat
  BY DEF SkippingAssumption, Second, QuarterSecond
<1>2. base \in Nat
  BY <1>1 DEF Clamp
<1>3. NobufThreshold \in Nat
  BY DEF NobufThreshold
<1>4. k \in 0 .. 4
  BY <1>3 DEF Clamp, Minus
<1>5. Doubled(k) \in {1, 2, 4, 8, 16}
  <2> HIDE DEF k
  <2> QED BY <1>4 DEF Doubled, Doublings
<1>6. base * Doubled(k) \in Nat
  <2> HIDE DEF base, k
  <2> QED BY <1>2, <1>5
<1>7. PipelineCooldown(n) = Clamp(base * Doubled(k), interval, Second)
  BY DEF PipelineCooldown
<1>8. Granted(interval) = Least(interval, Second)
  BY DEF Granted
<1> HIDE DEF base, k
<1> QED
  BY <1>1, <1>6, <1>7, <1>8 DEF Clamp, Least

\* A frame that is used when the wait is over comes no sooner than the limit allows.
LEMMA UsedInTime ==
  ASSUME SkippingAssumption, IInv, NEW r \in ReadTimes, NEW t \in Nat, wait <= r, Used(r, t)
  PROVE  /\ gap' \in Nat /\ due' \in Nat /\ gap' >= due'
         /\ floor' = Granted(interval) /\ since' = Least(t, Horizon)
<1>1. /\ since \in Nat /\ wait \in Nat /\ floor \in Nat /\ Least(since + wait, Horizon) >= floor
      /\ Horizon \in Nat /\ r \in Nat
  BY DEF IInv, TypeOK, Covered, SkippingAssumption
<1> QED
  BY <1>1 DEF Used, Least

LEMMA InitIInv == SkippingAssumption /\ Init => IInv
<1> SUFFICES ASSUME SkippingAssumption, Init PROVE IInv
  OBVIOUS
<1>1. Granted(interval) \in Nat /\ Granted(interval) <= Horizon /\ Horizon \in Nat
  BY GrantedIsInRange DEF Init, SkippingAssumption
<1> QED
  BY <1>1 DEF Init, IInv, TypeOK, Covered, LimitIsObeyed, Least, MaxExponent, MaxStreak

\* What is granted depends on the loop and the interval.
LEMMA GrantedStays == loop' = loop /\ interval' = interval => Granted(interval)' = Granted(interval)
  BY DEF Granted, Whole, Second

LEMMA NextIInv ==
  ASSUME SkippingAssumption, IInv, [Next]_vars
  PROVE  IInv'
<1> DEFINE Types == /\ loop \in Loops /\ interval \in Intervals /\ floor \in Nat /\ due \in Nat
                    /\ wait \in Nat /\ ema \in Nat /\ since \in Nat /\ gap \in Nat /\ since <= Horizon
                    /\ streak \in 0 .. MaxStreak /\ vpssStreak \in 0 .. MaxStreak
                    /\ exponent \in 0 .. MaxExponent
           Numbers == /\ Intervals \subseteq Nat /\ Horizon \in Nat /\ TicksPerMs \in Nat \ {0}
                      /\ Grain \in Nat \ {0} /\ ProcTimes \subseteq Nat /\ ReadTimes \subseteq Nat
           Kept == Types' /\ floor' <= Granted(interval)' /\ Covered' /\ LimitIsObeyed'
<1>1. Types /\ Numbers
  BY DEF IInv, TypeOK, SkippingAssumption
<1>2. floor <= Granted(interval) /\ Covered /\ LimitIsObeyed
  BY DEF IInv
<1>3. SUFFICES Kept
  BY DEF IInv, TypeOK
<1>4. \A n \in 0 .. MaxStreak :
        /\ NextStreak(n) \in 0 .. MaxStreak
        /\ loop = "pipeline" =>
             PipelineCooldown(n + 1) \in Nat /\ PipelineCooldown(n + 1) >= Granted(interval)
  BY <1>1, PipelineCooldownSuffices DEF NextStreak, Least, MaxStreak
<1>5. loop = "node" => NodeCooldown \in Nat /\ NodeCooldown >= Granted(interval)
  BY <1>1, NodeCooldownSuffices
<1>6. \A i \in Intervals : Granted(i) \in Nat /\ Granted(i) <= i /\ Granted(i) <= Horizon
  BY GrantedIsInRange
<1>7. \A t \in Nat : Smooth(t) \in Nat
  <2> SUFFICES ASSUME NEW t \in Nat PROVE Smooth(t) \in Nat
    OBVIOUS
  <2>1. 4 * ema + t \in Nat /\ 5 * Grain \in Nat \ {0}
    BY <1>1
  <2>2. (4 * ema + t) \div (5 * Grain) \in Nat
    BY <2>1
  <2> QED
    BY <1>1, <2>2 DEF Smooth
<1> USE DEF Covered, LimitIsObeyed, Least, Minus, Most, Elapse, history, MaxExponent
<1>8. ASSUME NEW r \in ReadTimes, NodeNobuf(r) PROVE Kept
  <2>1. Granted(interval)' = Granted(interval)
    BY <1>8, GrantedStays DEF NodeNobuf
  <2> QED
    BY <1>1, <1>2, <1>4, <1>5, <1>6, <1>8, <2>1 DEF NodeNobuf
<1>9. ASSUME NEW r \in ReadTimes, PipelineNobuf(r) PROVE Kept
  <2>1. Granted(interval)' = Granted(interval)
    BY <1>9, GrantedStays DEF PipelineNobuf
  <2> QED
    BY <1>1, <1>2, <1>4, <1>6, <1>9, <2>1 DEF PipelineNobuf
<1>10. ASSUME NEW r \in ReadTimes, SkipFrame(r) PROVE Kept
  <2>1. Granted(interval)' = Granted(interval)
    BY <1>10, GrantedStays DEF SkipFrame
  <2> QED
    BY <1>1, <1>2, <1>6, <1>10, <2>1 DEF SkipFrame, MaxStreak
<1>11. ASSUME NEW r \in ReadTimes, ReadThrows(r) PROVE Kept
  <2>1. Granted(interval)' = Granted(interval)
    BY <1>11, GrantedStays DEF ReadThrows
  <2> QED
    BY <1>1, <1>2, <1>6, <1>11, <2>1 DEF ReadThrows
<1>12. ASSUME NEW r \in ReadTimes, NEW t \in ProcTimes, VpssNobuf(r, t) PROVE Kept
  <2>1. Granted(interval)' = Granted(interval)
    BY <1>12, GrantedStays DEF VpssNobuf
  <2> QED
    BY <1>1, <1>2, <1>4, <1>6, <1>12, <2>1 DEF VpssNobuf, MaxStreak
<1>13. ASSUME NEW r \in ReadTimes, NEW t \in ProcTimes, ProcessingThrows(r, t) PROVE Kept
  <2>1. Granted(interval)' = Granted(interval)
    BY <1>13, GrantedStays DEF ProcessingThrows
  <2> QED
    BY <1>1, <1>2, <1>6, <1>13, <2>1 DEF ProcessingThrows, MaxStreak
<1>14. ASSUME NEW r \in ReadTimes, NEW t \in ProcTimes, UseFrameNode(r, t) PROVE Kept
  <2>1. Granted(interval)' = Granted(interval)
    BY <1>14, GrantedStays DEF UseFrameNode
  <2>2. ema' \in Nat
    BY <1>1, <1>7, <1>14 DEF UseFrameNode
  <2>3. gap' \in Nat /\ due' \in Nat /\ gap' >= due' /\ floor' = Granted(interval) /\ since' = Least(0, Horizon)
    BY <1>1, <1>14, UsedInTime DEF UseFrameNode
  <2>4. wait' = Most((ema' * 6) \div 5, interval) /\ (ema' * 6) \div 5 \in Nat
    BY <1>14, <2>2 DEF UseFrameNode
  <2> QED
    BY <1>1, <1>6, <1>14, <2>1, <2>2, <2>3, <2>4 DEF UseFrameNode, MaxStreak
<1>15. ASSUME NEW r \in ReadTimes, NEW t \in ProcTimes, UseFramePipeline(r, t) PROVE Kept
  <2>1. Granted(interval)' = Granted(interval)
    BY <1>15, GrantedStays DEF UseFramePipeline
  <2>2. ema' \in Nat
    BY <1>1, <1>7, <1>15 DEF UseFramePipeline
  <2>3. gap' \in Nat /\ due' \in Nat /\ gap' >= due' /\ floor' = Granted(interval) /\ since' = Least(t, Horizon)
    BY <1>1, <1>15, UsedInTime DEF UseFramePipeline
  <2>4. wait' = Minus(Most((ema' * 6) \div 5, interval), t) /\ (ema' * 6) \div 5 \in Nat
    BY <1>15, <2>2 DEF UseFramePipeline
  <2> QED
    BY <1>1, <1>6, <1>15, <2>1, <2>2, <2>3, <2>4 DEF UseFramePipeline, MaxStreak
<1>16. CASE ReopenCamera
  <2>1. Granted(interval)' = Granted(interval)
    BY <1>16, GrantedStays DEF ReopenCamera
  <2> QED
    BY <1>1, <1>2, <1>6, <1>16, <2>1 DEF ReopenCamera, MaxStreak
<1>17. ASSUME NEW i \in Intervals, SetInterval(i) PROVE Kept
  <2>1. Granted(interval)' = Granted(i)
    BY <1>17 DEF SetInterval, Granted, Whole, Second
  <2> QED
    BY <1>1, <1>2, <1>6, <1>17, <2>1 DEF SetInterval
<1>18. CASE UNCHANGED vars
  <2>1. Granted(interval)' = Granted(interval)
    BY <1>18, GrantedStays DEF vars
  <2> QED
    BY <1>1, <1>2, <1>18, <2>1 DEF vars
<1> QED
  BY <1>8, <1>9, <1>10, <1>11, <1>12, <1>13, <1>14, <1>15, <1>16, <1>17, <1>18 DEF Next

-----------------------------------------------------------------------------

\* Types, for any of the rates and times that the assumption allows.
THEOREM TypeCorrect == ASSUME SkippingAssumption PROVE Spec => []TypeOK
<1>1. Init => IInv
  BY InitIInv
<1>2. IInv /\ [Next]_vars => IInv'
  BY NextIInv
<1>3. IInv => TypeOK
  BY DEF IInv
<1> QED
  BY <1>1, <1>2, <1>3, PTL DEF Spec

\* In either loop no frame is used sooner than the loop grants it - after an
\* interval, which the node's backoff truncates to milliseconds, at most after a
\* second - for any intervals, times and fineness of the clock, whatever mixture
\* of skipped frames, missing buffers, backoffs and failures lies between.
THEOREM LimitHolds == ASSUME SkippingAssumption PROVE Spec => []LimitIsObeyed
<1>1. Init => IInv
  BY InitIInv
<1>2. IInv /\ [Next]_vars => IInv'
  BY NextIInv
<1>3. IInv => LimitIsObeyed
  BY DEF IInv
<1> QED
  BY <1>1, <1>2, <1>3, PTL DEF Spec
=============================================================================

----------------------------- MODULE MCDevices -----------------------------
(* Devices for TLC: blocks of two sizes, a heap, a TPU, two images, three jobs. *)
EXTENDS Devices, TLC

CONSTANTS b1, b2, h1, h2, t1, i1, i2

MCBlockSize == (b1 :> 1) @@ (b2 :> 2)
MCOtherBlocks == (h1 :> "heap") @@ (h2 :> "heap") @@ (t1 :> "tpu")
MCImageSize == (i1 :> 1) @@ (i2 :> 2)
Job(i, o, c, m) == [input |-> i, output |-> o, crop |-> c, mat |-> m]
MCJobs == {Job("i1", "o1", FALSE, FALSE), Job("i1", "o2", TRUE, TRUE), Job("i2", "o3", FALSE, FALSE)}
\* Which processor, memory or variable is which makes no difference.
Alike == Permutations(Processors) \cup Permutations(Memories) \cup Permutations(FrameVariables)
=============================================================================

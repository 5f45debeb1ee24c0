---------------------------- MODULE MCFrameFlow ----------------------------
(* FrameFlow for TLC: a camera and two models, side by side or in a row.      *)
EXTENDS FrameFlow

CONSTANTS camera, m1, m2

Two == <<m1, m2>>
Parallel == [m \in {m1, m2} |-> camera]
Serial == [m \in {m1, m2} |-> IF m = m1 THEN camera ELSE m1]

Symmetry == Permutations(Frames)
=============================================================================

---------------------------- MODULE MCStreaming ----------------------------
(* Streaming for TLC: requests of different kinds. *)
EXTENDS Streaming, TLC

CONSTANTS r1, r2, r3, r4

MCActionOf == (r1 :> "create_camera") @@ (r2 :> "create_stream") @@ (r3 :> "clear") @@ (r4 :> "malformed")
=============================================================================

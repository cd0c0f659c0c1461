-------------------------- MODULE MCEncoderSession --------------------------
(* A small instance of EncoderSession: frames 1 and 2 share a timestamp.    *)
EXTENDS EncoderSession

MCPtsOf == [f \in Frames |-> IF f <= 2 THEN 0 ELSE f]

=============================================================================

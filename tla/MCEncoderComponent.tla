------------------------- MODULE MCEncoderComponent -------------------------
(* A small instance of EncoderComponent: works 1 and 2 share a timestamp.   *)
EXTENDS EncoderComponent

MCPtsOf == [f \in Works |-> IF f <= 2 THEN 0 ELSE f]

=============================================================================

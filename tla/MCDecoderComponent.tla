------------------------- MODULE MCDecoderComponent -------------------------
(* An instance of DecoderComponent; blocks are interchangeable.            *)
EXTENDS DecoderComponent, TLC

BlockSymmetry == Permutations(Blocks)
=============================================================================

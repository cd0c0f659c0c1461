-------------------------- MODULE MCDecoderSession --------------------------
(* An instance of DecoderSession; blocks are interchangeable.              *)
EXTENDS DecoderSession, TLC

BlockSymmetry == Permutations(Blocks)
=============================================================================

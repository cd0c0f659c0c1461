-------------------------- MODULE MCFrameConverter --------------------------
(* An instance of FrameConverter.  There is one buffer more than a cache   *)
(* holds, so that something is evicted, and the first one comes back with  *)
(* other strides, so that an entry goes stale.                             *)
EXTENDS FrameConverter, TLC

OverflowingBuffers(capacity) ==
    ((1 .. capacity + 1) \X {"packed"}) \cup {<<1, "padded">>}

MCSourceBuffers == OverflowingBuffers(kSourceCacheCapacity)
MCDestinationBuffers == OverflowingBuffers(kDestinationCacheCapacity)

\* Handles are interchangeable: the model only compares them.
HandleSymmetry == Permutations(SourceHandles) \cup Permutations(DestinationHandles)
=============================================================================

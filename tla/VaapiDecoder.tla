---------------------------- MODULE VaapiDecoder ----------------------------
(***************************************************************************)
(* The VA-API build of the decoder: FloralCodecComponent's process() and   *)
(* drain() around FfmpegSession, whose get_buffer2 callback lets libavcodec *)
(* decode straight into the blocks of the client's pool, and which falls   *)
(* back to private surfaces and a CPU copy.                                *)
(*                                                                         *)
(* A slot of the pool can be fetched again as soon as the client returns   *)
(* it, also while the codec still refers to the picture in its buffer.     *)
(* Work w submits the packet of picture w.                                 *)
(***************************************************************************)
EXTENDS Naturals, Sequences, FiniteSets, FiniteSetsExt

CONSTANTS
    NumSlots,    \* slots of a block pool
    NumPools,    \* pools the client goes through
    MaxRefs,     \* pictures the codec holds, the one being decoded included
    MaxWorks,
    ChangesAt,   \* works at which the stream may change its picture size
    MaxFaults,
    MaxDrains    \* drains, flushes, resets and pool changes of the client

\* kOutputConsumerSlack: the pool is larger than what the codec keeps.
ASSUME PoolAssumption ==
    /\ {NumSlots, NumPools, MaxRefs, MaxWorks} \subseteq Nat \ {0}
    /\ NumSlots > MaxRefs
    /\ ChangesAt \subseteq 1 .. (MaxWorks + 1) /\ ChangesAt # {}
    /\ {MaxFaults, MaxDrains} \subseteq Nat

VARIABLES
    inPkt, dpb, shown, ready, draining,     \* the codec
    frame,                                  \* session: frame_
    surfaces, active, pendingBlocks, pool, disabled,   \* decoder_..., direct_output_
    heap, refBuf, freedTwice,               \* the DecoderSurfaceReferences
    slot,                                   \* who has each slot of the pools
    cpc, after, caller, sending, cur, kind, target, hold, attached,  \* work thread
    status, sigErr, sigEos, errored, nextWork, clientPool, changedAt,
    faults, drains
codec == <<inPkt, dpb, shown, ready, draining>>
references == <<surfaces, active, heap, refBuf, freedTwice>>
blocks == <<pendingBlocks, pool, disabled>>
call == <<caller, sending, cur, kind>>
client == <<status, sigErr, sigEos, errored, nextWork, clientPool, changedAt>>
budget == <<faults, drains>>
vars == <<codec, frame, references, blocks, slot, cpc, after, call, target, hold, attached,
          client, budget>>

Works == 1 .. MaxWorks
NoWork == 0
Slots == (1 .. NumPools) \X (1 .. NumSlots)
Buffers == Slots \X {1, 2}      \* a slot with a render target of one of two sizes
NoBuffer == <<<<0, 0>>, 0>>
NoOutput == [work |-> NoWork, buf |-> NoBuffer]
SizeOf(w) == IF w < changedAt THEN 1 ELSE 2
\* A slot is free, with the client, kept in decoder_pending_blocks_, or dequeued
\* for a picture.
Free == <<"free", NoWork>>
Client == <<"client", NoWork>>
Kept == <<"kept", NoWork>>
For(w) == <<"picture", w>>
SlotOf(b) == b[1]
Fits(b, w) == b[2] = SizeOf(w)

Init ==
    /\ inPkt = NoWork /\ dpb = {} /\ shown = {} /\ ready = NoWork /\ draining = FALSE
    /\ frame = NoWork
    /\ surfaces = {} /\ active = [b \in Buffers |-> NoWork]
    /\ pendingBlocks = <<>> /\ pool = 0 /\ disabled = FALSE
    /\ heap = {} /\ refBuf = [w \in Works |-> NoBuffer] /\ freedTwice = FALSE
    /\ slot = [s \in Slots |-> Free]
    /\ cpc = "idle" /\ after = "none" /\ caller = "none" /\ sending = "none"
    /\ cur = NoWork /\ kind = "none" /\ target = NoBuffer
    /\ hold = NoOutput /\ attached = NoBuffer
    /\ status = [w \in Works |-> "new"]
    /\ sigErr = FALSE /\ sigEos = "no" /\ errored = FALSE
    /\ nextWork = 1 /\ clientPool = 1 /\ changedAt \in ChangesAt
    /\ faults = 0 /\ drains = 0

Idle == cpc = "idle"

-----------------------------------------------------------------------------
(* Who keeps a block alive.                                                *)

\* The pictures that an AVFrame of the codec or of the session refers to.
Live(d, r, f) == (d \cup {r, f}) \ {NoWork}
Pictures == Live(dpb, ready, frame)

InBlocks(s, q) == \E i \in 1 .. Len(q) : SlotOf(q[i]) = s

\* A slot that was dequeued for a picture, or kept aside, goes back to its pool
\* when the last handle of that block is gone: a surface reference (rb over the
\* pictures live), the output held back, the one attached to the current work,
\* the CPU target, decoder_pending_blocks_.
Settled(s, live, rb, q, locals) ==
    [x \in Slots |->
        IF \/ s[x] = Kept /\ ~InBlocks(x, q)
           \/ /\ s[x][1] = "picture"
              /\ ~(s[x][2] \in live /\ SlotOf(rb[s[x][2]]) = x)
              /\ x \notin {SlotOf(b) : b \in locals}
        THEN Free ELSE s[x]]

\* decoder_active_buffers_ without the entries of these references.
ActiveWithout(ws) == [b \in Buffers |-> IF active[b] \in ws THEN NoWork ELSE active[b]]

\* ReleaseDecoderSurfaceReference, as the free callback of the AVBuffers of these
\* pictures and by hand for others.
ReleaseDecoderSurfaceReference(freed, others) ==
    LET ws == freed \cup others
    IN  /\ surfaces' = surfaces \ ws
        /\ active' = ActiveWithout(ws)
        /\ heap' = heap \ ws
        /\ freedTwice' = (freedTwice \/ freed \cap others # {} \/ ~(ws \subseteq heap))
        /\ refBuf' = [w \in Works |-> IF w \in ws THEN NoBuffer ELSE refBuf[w]]

\* The AVBuffers whose last AVFrame goes when only those of live remain.
Direct(ws) == {w \in ws : refBuf[w] # NoBuffer}
Dropped(live) == Direct(Pictures \ live)

\* The codec and the session refer to other pictures now, the thread to other
\* outputs; s is what became of the slots otherwise.
Keeps(live, h, a, s) ==
    /\ ReleaseDecoderSurfaceReference(Dropped(live), {})
    /\ hold' = h /\ attached' = a
    /\ slot' = Settled(s, live, refBuf, pendingBlocks, {h.buf, a, target})

-----------------------------------------------------------------------------
(* Ending process() and drain().                                           *)

Rest ==
    /\ cpc' = "idle" /\ after' = "none" /\ caller' = "none" /\ sending' = "none"
    /\ cur' = NoWork /\ kind' = "none" /\ target' = NoBuffer

\* The output attached to the current work leaves with it.
WithClient(b, s) == IF b = NoBuffer THEN s ELSE [s EXCEPT ![SlotOf(b)] = Client]

EndWork(result) ==
    /\ status' = [status EXCEPT ![cur] = result]
    /\ nextWork' = cur + 1

\* session_.Flush(): the codec forgets everything, packets included.
FlushCodec ==
    /\ inPkt' = NoWork /\ dpb' = {} /\ shown' = {} /\ ready' = NoWork
    /\ draining' = FALSE /\ frame' = NoWork

\* A status that is not C2_OK.  The output held back is lost; process() closes
\* the component, a WITH_EOS drain flushes the codec all the same.
Fails(fault) ==
    /\ fault = 1 => faults < MaxFaults
    /\ faults' = faults + fault
    /\ IF cur # NoWork THEN EndWork("error") /\ sigErr' = TRUE
       ELSE UNCHANGED <<status, nextWork, sigErr>>
    /\ IF after = "drainEos" THEN FlushCodec ELSE UNCHANGED <<codec, frame>>
    /\ ReleaseDecoderSurfaceReference(IF after = "drainEos" THEN Dropped({}) ELSE {}, {})
    /\ hold' = NoOutput /\ attached' = NoBuffer
    /\ slot' = Settled(WithClient(attached, slot),
                       IF after = "drainEos" THEN {} ELSE Pictures,
                       refBuf, pendingBlocks, {})
    /\ errored' = TRUE
    /\ Rest
    /\ UNCHANGED <<blocks, sigEos, clientPool, changedAt, drains>>

-----------------------------------------------------------------------------
(* process() and drain() up to the codec.                                  *)

\* SetDecoderBlockPool: another pool makes the kept blocks useless and gives
\* direct output another chance.
SetDecoderBlockPool ==
    /\ pool' = clientPool
    /\ pendingBlocks' = IF pool = clientPool THEN pendingBlocks ELSE <<>>
    /\ disabled' = (disabled /\ pool = clientPool)
    /\ slot' = Settled(slot, Pictures, refBuf, pendingBlocks', {hold.buf, attached, target})

Process(k) ==
    /\ Idle /\ nextWork <= MaxWorks /\ ~sigErr /\ sigEos = "no"
    /\ SetDecoderBlockPool
    /\ cur' = nextWork /\ kind' = k
    /\ cpc' = "send" /\ sending' = IF k = "eos" THEN "null" ELSE "packet"
    /\ UNCHANGED <<codec, frame, references, after, caller, target, hold, attached, client,
                   budget>>

\* A work with nothing for the codec: codec configuration or an empty buffer.
ProcessNothing(eos) ==
    /\ Idle /\ nextWork <= MaxWorks /\ ~sigErr /\ sigEos = "no"
    /\ SetDecoderBlockPool
    /\ status' = [status EXCEPT ![nextWork] = "done"]
    /\ nextWork' = nextWork + 1
    /\ sigEos' = IF eos THEN "config" ELSE sigEos
    /\ UNCHANGED <<codec, frame, references, cpc, after, call, target, hold, attached, sigErr,
                   errored, clientPool, changedAt, budget>>

ProcessRefused ==
    /\ Idle /\ nextWork <= MaxWorks /\ (sigErr \/ sigEos # "no")
    /\ status' = [status EXCEPT ![nextWork] = "error"]
    /\ nextWork' = nextWork + 1
    /\ UNCHANGED <<codec, frame, references, blocks, slot, cpc, after, call, target, hold,
                   attached, sigErr, sigEos, errored, clientPool, changedAt, budget>>

\* The access unit cannot be normalized, or there is no memory for the packet.
PrepareFails ==
    /\ cpc = "send" /\ sending = "packet" /\ after = "none"
    /\ Fails(1)

ClientDrains(withEos) ==
    /\ Idle /\ drains < MaxDrains
    /\ drains' = drains + 1
    /\ IF withEos THEN cpc' = "send" /\ sending' = "null" /\ UNCHANGED after
       ELSE cpc' = "loop" /\ after' = "drain" /\ UNCHANGED sending
    /\ UNCHANGED <<codec, frame, references, blocks, slot, caller, cur, kind, target, hold,
                   attached, client, faults>>

\* avcodec_send_packet with a packet the codec has not taken yet: EAGAIN, and
\* the output is drained first.  The drain ends only when the codec has no packet
\* left, so there is no second EAGAIN.
SendAgain ==
    /\ cpc = "send" /\ inPkt # NoWork
    /\ cpc' = "loop" /\ after' = "resend"
    /\ UNCHANGED <<codec, frame, references, blocks, slot, call, target, hold, attached,
                   client, budget>>

\* The packet, or the null packet that starts the codec's drain, is taken.  The
\* codec goes to work at once, or leaves that to the next receive.  After a first
\* drain the answer is AVERROR_EOF, which counts as success.
Send ==
    /\ cpc = "send" /\ inPkt = NoWork
    /\ inPkt' = IF sending = "packet" THEN cur ELSE NoWork
    /\ draining' = (draining \/ sending = "null")
    /\ \/ ready = NoWork /\ ~draining /\ cpc' = "codec"
       \/ cpc' = "sent"
    /\ caller' = "send" /\ after' = "none"
    /\ UNCHANGED <<dpb, shown, ready, frame, references, blocks, slot, sending, cur, kind,
                   target, hold, attached, client, budget>>

Sent ==
    /\ cpc = "sent"
    /\ IF sending = "packet" /\ kind = "frameEos"
       THEN cpc' = "send" /\ sending' = "null" /\ UNCHANGED after
       ELSE /\ cpc' = "loop" /\ UNCHANGED sending
            /\ after' = IF sending = "packet" THEN "finish"
                        ELSE IF cur # NoWork THEN "eos" ELSE "drainEos"
    /\ UNCHANGED <<codec, frame, references, blocks, slot, caller, cur, kind, target, hold,
                   attached, client, budget>>

-----------------------------------------------------------------------------
(* libavcodec, called on the work thread, and its get_buffer2 callback.    *)

\* The codec gives up pictures that it has output, as many as it needs to, and
\* asks for a buffer for the picture of its packet.
CodecTakesPacket ==
    /\ cpc = "codec" /\ inPkt # NoWork
    /\ \E gone \in SUBSET (dpb \cap shown) :
        /\ Cardinality(dpb \ gone) < MaxRefs
        /\ dpb' = dpb \ gone /\ shown' = shown \ gone
        /\ Keeps(Live(dpb \ gone, ready, frame), hold, attached, slot)
    /\ cpc' = "acquire"
    /\ UNCHANGED <<inPkt, ready, draining, frame, blocks, after, call, target, client, budget>>

\* Decoding fails: the packet is gone, and the call returns an error.
CodecFails ==
    /\ cpc = "codec" /\ inPkt # NoWork /\ faults < MaxFaults
    /\ faults' = faults + 1
    /\ inPkt' = NoWork
    /\ cpc' = "failed"
    /\ UNCHANGED <<dpb, shown, ready, draining, frame, references, blocks, slot, after, call,
                   target, hold, attached, client, drains>>
CallFailed == cpc = "failed" /\ Fails(0)

\* Nothing to decode: a draining codec outputs what it still has, in its order.
CodecOutputs ==
    /\ cpc = "codec" /\ inPkt = NoWork
    /\ IF draining /\ dpb \ shown # {}
       THEN \E v \in dpb \ shown : ready' = v /\ shown' = shown \cup {v}
       ELSE UNCHANGED <<ready, shown>>
    /\ cpc' = IF caller = "send" THEN "sent" ELSE "received"
    /\ UNCHANGED <<inPkt, dpb, draining, frame, references, blocks, slot, after, call, target,
                   hold, attached, client, budget>>

\* Mutant: a block is taken although a reference picture is in its buffer.
IsActiveNever(b) == FALSE

IsActive(b) == active[b] # NoWork

\* Mutant: the blocks kept aside are not looked at again.
UsableNever == {}

\* The entries of decoder_pending_blocks_ that can be taken now.
Usable == {i \in 1 .. Len(pendingBlocks) :
              Fits(pendingBlocks[i], inPkt) /\ ~IsActive(pendingBlocks[i])}

\* The positions of a set in their order.
InOrder(ps) == CHOOSE f \in [1 .. Cardinality(ps) -> ps] :
                   \A i, j \in DOMAIN f : i < j => f[i] < f[j]

\* Blocks of another size are erased as far as the search goes.
Searched(n) ==
    LET at == InOrder({i \in 1 .. n : Fits(pendingBlocks[i], inPkt)})
    IN  [i \in DOMAIN at |-> pendingBlocks[at[i]]]

\* The slots after a search through all of them: an erased block is back in its
\* pool before the fetch.
AfterSearch ==
    Settled(slot, Pictures, refBuf, Searched(Len(pendingBlocks)), {hold.buf, attached})

\* AcquireDecoderBlock finds a kept block that both owners have released.
AcquirePending ==
    /\ cpc = "acquire" /\ ~disabled /\ Usable # {}
    /\ LET i == Min(Usable)
           b == pendingBlocks[i]
       IN  /\ target' = b
           /\ pendingBlocks' =
                Searched(i - 1) \o SubSeq(pendingBlocks, i + 1, Len(pendingBlocks))
           /\ slot' = [Settled(slot, Pictures, refBuf, pendingBlocks', {hold.buf, attached})
                          EXCEPT ![SlotOf(b)] = For(inPkt)]
    /\ cpc' = "import"
    /\ UNCHANGED <<codec, frame, references, pool, disabled, after, call, hold, attached,
                   client, budget>>

\* AcquireDecoderBlock fetches: a slot whose picture the codec still refers to
\* is kept dequeued and the loop goes on, another one is taken.  While no slot is
\* free fetchGraphicBlock returns C2_BLOCKING and the loop goes on as well.
AcquireFetch ==
    /\ cpc = "acquire" /\ ~disabled /\ Usable = {}
    /\ \E s \in Slots :
        LET b == <<s, SizeOf(inPkt)>>
            kept == Searched(Len(pendingBlocks))
        IN  /\ s[1] = pool /\ AfterSearch[s] = Free
            /\ IF IsActive(b)
               THEN /\ pendingBlocks' = Append(kept, b)
                    /\ slot' = [AfterSearch EXCEPT ![s] = Kept]
                    /\ UNCHANGED <<cpc, target>>
               ELSE /\ pendingBlocks' = kept
                    /\ slot' = [AfterSearch EXCEPT ![s] = For(inPkt)]
                    /\ target' = b /\ cpc' = "import"
    /\ UNCHANGED <<codec, frame, references, pool, disabled, after, call, hold, attached,
                   client, budget>>

\* The picture of the packet is in the codec's hands from here on.
Enters == inPkt' = NoWork /\ dpb' = dpb \cup {inPkt}

\* Direct output is off: avcodec_default_get_buffer2 provides a private surface.
AcquireDisabled ==
    /\ cpc = "acquire" /\ disabled
    /\ Enters
    /\ cpc' = "decode"
    /\ UNCHANGED <<shown, ready, draining, frame, references, blocks, slot, after, call,
                   target, hold, attached, client, budget>>

\* It goes off because the fetch fails or the block cannot be described.
AcquireFails ==
    /\ cpc = "acquire" /\ ~disabled /\ Usable = {} /\ faults < MaxFaults
    /\ faults' = faults + 1
    /\ disabled' = TRUE
    /\ pendingBlocks' = Searched(Len(pendingBlocks))
    /\ slot' = AfterSearch
    /\ Enters
    /\ cpc' = "decode"
    /\ UNCHANGED <<shown, ready, draining, frame, references, pool, after, call, target, hold,
                   attached, client, drains>>

\* The rest of AcquireDirectDecoderSurface: the surface and its reference.
Import ==
    /\ cpc = "import"
    /\ heap' = heap \cup {inPkt} /\ surfaces' = surfaces \cup {inPkt}
    /\ active' = IF IsActive(target) THEN active ELSE [active EXCEPT ![target] = inPkt]
    /\ refBuf' = [refBuf EXCEPT ![inPkt] = target]
    /\ Enters
    /\ cpc' = "decode" /\ target' = NoBuffer
    /\ UNCHANGED <<shown, ready, draining, frame, freedTwice, blocks, slot, after, call, hold,
                   attached, client, budget>>

\* vaCreateSurfaces fails, which turns direct output off, or there is no memory
\* for the reference or the AVBuffer, which does not.  The block is dropped.
ImportFails ==
    /\ cpc = "import" /\ faults < MaxFaults
    /\ faults' = faults + 1
    /\ disabled' \in {disabled, TRUE}
    /\ slot' = [slot EXCEPT ![SlotOf(target)] = Free]
    /\ Enters
    /\ cpc' = "decode" /\ target' = NoBuffer
    /\ UNCHANGED <<shown, ready, draining, frame, references, pendingBlocks, pool, after, call,
                   hold, attached, client, drains>>

\* The picture is decoded; the codec outputs one that it has not output, or none
\* if it can still reorder.
Decode ==
    /\ cpc = "decode"
    /\ \/ /\ Cardinality(dpb \ shown) < MaxRefs
          /\ UNCHANGED <<ready, shown>>
       \/ \E v \in dpb \ shown : ready' = v /\ shown' = shown \cup {v}
    /\ cpc' = IF caller = "send" THEN "sent" ELSE "received"
    /\ UNCHANGED <<inPkt, dpb, draining, frame, references, blocks, slot, after, call, target,
                   hold, attached, client, budget>>

-----------------------------------------------------------------------------
(* DrainDecoder.                                                           *)

StartLoop ==
    /\ cpc = "loop"
    /\ SetDecoderBlockPool
    /\ cpc' = "receive"
    /\ UNCHANGED <<codec, frame, references, after, call, target, hold, attached, client,
                   budget>>

\* The previous frame is let go; an output that is ready is returned, otherwise
\* the codec goes to work.
Receive ==
    /\ cpc = "receive"
    /\ frame' = NoWork
    /\ Keeps(Live(dpb, ready, NoWork), hold, attached, slot)
    /\ cpc' = IF ready # NoWork THEN "received" ELSE "codec"
    /\ caller' = "receive"
    /\ UNCHANGED <<codec, blocks, after, sending, cur, kind, target, client, budget>>

Received ==
    /\ cpc = "received"
    /\ frame' = ready /\ ready' = NoWork
    /\ cpc' = IF ready # NoWork THEN "output" ELSE "publish"
    /\ UNCHANGED <<inPkt, dpb, shown, draining, references, blocks, slot, after, call, target,
                   hold, attached, client, budget>>

\* Mutant: the output held back is replaced before it is published.
PublishesNothing == NoWork

Publishes == hold.work

\* FinishOutput publishes the output held back, to the current work or to a
\* pending one; without such a work it is dropped.  h is held next, its slot
\* marked in s.
FinishOutput(h, s) ==
    LET w == Publishes
        mine == w # NoWork /\ w = cur
        found == w # NoWork /\ w # cur /\ status[w] = "pending"
    IN  /\ status' = IF found THEN [status EXCEPT ![w] = "done"] ELSE status
        /\ attached' = IF mine THEN hold.buf ELSE attached
        /\ hold' = h
        /\ slot' = Settled(IF found THEN WithClient(hold.buf, s) ELSE s,
                           Pictures, refBuf, pendingBlocks, {h.buf, attached'})

\* GetDirectDecodedBlock: the surface is one of the session's own.
OutputDirect ==
    /\ cpc = "output" /\ frame \in surfaces
    /\ FinishOutput([work |-> frame, buf |-> refBuf[frame]], slot)
    /\ cpc' = "receive"
    /\ UNCHANGED <<codec, frame, references, blocks, after, call, target, sigErr, sigEos,
                   errored, nextWork, clientPool, changedAt, budget>>

\* A private surface, or one that vaSyncSurface fails for: the CPU copies it.
OutputByCopy ==
    /\ cpc = "output"
    /\ \/ frame \notin surfaces /\ UNCHANGED <<disabled, faults>>
       \/ /\ frame \in surfaces /\ faults < MaxFaults
          /\ faults' = faults + 1 /\ disabled' = TRUE
    /\ cpc' = "copy"
    /\ UNCHANGED <<codec, frame, references, pendingBlocks, pool, slot, after, call, target,
                   hold, attached, client, drains>>

\* DrainDecoder fetches any free slot for the copy.  It asks for CPU access, which
\* no render target has, so the pool gives the slot another buffer.
CopyFetch ==
    /\ cpc = "copy"
    /\ \E s \in Slots :
        /\ s[1] = pool /\ slot[s] = Free
        /\ target' = <<s, 0>>
        /\ slot' = [slot EXCEPT ![s] = For(frame)]
    /\ cpc' = "copying"
    /\ UNCHANGED <<codec, frame, references, blocks, after, call, hold, attached, client,
                   budget>>

\* No slot is free: here C2_BLOCKING is an error.
CopyBlocked ==
    /\ cpc = "copy" /\ \A s \in Slots : s[1] = pool => slot[s] # Free
    /\ Fails(0)

\* CopyFrameToGraphicView.
Copy ==
    /\ cpc = "copying"
    /\ FinishOutput([work |-> frame, buf |-> target], slot)
    /\ target' = NoBuffer
    /\ cpc' = "receive"
    /\ UNCHANGED <<codec, frame, references, blocks, after, call, sigErr, sigEos, errored,
                   nextWork, clientPool, changedAt, budget>>

\* The download, the fetch, the mapping, the copy or UpdateOutputSize fails.
OutputFails ==
    /\ cpc \in {"output", "copy", "copying"}
    /\ Fails(1)

\* EAGAIN or AVERROR_EOF: the last output is published, and the caller goes on.
PublishHeld ==
    /\ cpc = "publish"
    /\ FinishOutput(NoOutput, slot)
    /\ cpc' = IF after = "resend" THEN "send" ELSE "end"
    /\ UNCHANGED <<codec, frame, references, blocks, after, call, target, sigErr, sigEos,
                   errored, nextWork, clientPool, changedAt, budget>>

WorkResult == IF after = "eos" \/ attached # NoBuffer THEN "done" ELSE "pending"

\* The end of ProcessDecoder.
FinishWork ==
    /\ cpc = "end" /\ after \in {"finish", "eos"}
    /\ EndWork(WorkResult)
    /\ sigEos' = IF after = "eos" THEN "drain" ELSE sigEos
    /\ slot' = WithClient(attached, slot) /\ attached' = NoBuffer
    /\ Rest
    /\ UNCHANGED <<codec, frame, references, blocks, hold, sigErr, errored, clientPool,
                   changedAt, budget>>

\* The end of drain(): WITH_EOS flushes the codec.
DrainEnds ==
    /\ cpc = "end" /\ after \in {"drain", "drainEos"}
    /\ IF after = "drainEos" THEN FlushCodec /\ Keeps({}, hold, attached, slot)
       ELSE UNCHANGED <<codec, frame, references, hold, attached, slot>>
    /\ Rest
    /\ UNCHANGED <<blocks, client, budget>>

-----------------------------------------------------------------------------
(* onFlush_sm(), onStop() and onInit(), and the client.                    *)

Flushed == [w \in Works |-> IF status[w] = "pending" THEN "flushed" ELSE status[w]]

Reopened == sigErr' = FALSE /\ sigEos' = "no" /\ errored' = FALSE /\ status' = Flushed

Flush ==
    /\ Idle /\ drains < MaxDrains
    /\ drains' = drains + 1
    /\ FlushCodec /\ Keeps({}, hold, attached, slot)
    /\ Reopened
    /\ UNCHANGED <<blocks, cpc, after, call, target, nextWork, clientPool, changedAt, faults>>

\* Mutant: ResetDecoderOutputState comes before the codec is freed.
LeftAtResetFirst == surfaces

\* Close frees the frames and the codec first, whose AVBuffers release their
\* references; ResetDecoderOutputState releases what the map still has.
LeftAtReset == surfaces \ Dropped({})

\* onReset and the onInit after it: Close, Open.
Reset ==
    /\ Idle /\ drains < MaxDrains
    /\ drains' = drains + 1
    /\ FlushCodec
    /\ ReleaseDecoderSurfaceReference(Dropped({}), LeftAtReset)
    /\ pendingBlocks' = <<>> /\ pool' = 0 /\ disabled' = FALSE
    /\ slot' = Settled(slot, {}, refBuf, <<>>, {})
    /\ Reopened
    /\ UNCHANGED <<cpc, after, call, target, hold, attached, nextWork, clientPool, changedAt,
                   faults>>

\* The client has shown a picture and returns its slot.
ClientReturns ==
    /\ \E s \in Slots : slot[s] = Client /\ slot' = [slot EXCEPT ![s] = Free]
    /\ UNCHANGED <<codec, frame, references, blocks, cpc, after, call, target, hold, attached,
                   client, budget>>

\* The client gives the next work another block pool.
ClientChangesPool ==
    /\ Idle /\ drains < MaxDrains /\ clientPool < NumPools
    /\ drains' = drains + 1
    /\ clientPool' = clientPool + 1
    /\ UNCHANGED <<codec, frame, references, blocks, slot, cpc, after, call, target, hold,
                   attached, status, sigErr, sigEos, errored, nextWork, changedAt, faults>>

-----------------------------------------------------------------------------

Step ==
    \/ PrepareFails \/ SendAgain \/ Send \/ Sent
    \/ CodecTakesPacket \/ CodecFails \/ CallFailed \/ CodecOutputs \/ AcquirePending
    \/ AcquireFetch \/ AcquireDisabled \/ AcquireFails \/ Import \/ ImportFails \/ Decode
    \/ StartLoop \/ Receive \/ Received \/ OutputDirect \/ OutputByCopy \/ CopyFetch
    \/ CopyBlocked \/ Copy \/ OutputFails \/ PublishHeld \/ FinishWork \/ DrainEnds

Next ==
    \/ \E k \in {"frame", "frameEos", "eos"} : Process(k)
    \/ \E eos \in BOOLEAN : ProcessNothing(eos)
    \/ ProcessRefused
    \/ \E withEos \in BOOLEAN : ClientDrains(withEos)
    \/ Flush \/ Reset
    \/ Step
    \/ ClientReturns \/ ClientChangesPool

Spec == Init /\ [][Next]_vars

-----------------------------------------------------------------------------
(* Properties.                                                             *)

\* A buffer that holds a picture the codec still refers to never becomes the render
\* target of another one, although the client has returned its slot and the pool
\* hands it out again (AcquireDecoderBlock).
ReferencesKept ==
    \A v, w \in Direct(Pictures) : v # w => refBuf[v] # refBuf[w]

\* The references and both maps agree with the AVFrames that are alive, and none is
\* released twice, in particular not by a Close in the middle of a stream
\* (ReleaseDecoderSurfaceReference, ResetDecoderOutputState).
ReferencesAccounted ==
    /\ ~freedTwice
    /\ heap = Direct(Pictures) /\ surfaces = heap
    /\ \A b \in Buffers, w \in Works : active[b] = w <=> w \in heap /\ refBuf[w] = b

\* When a drained end of stream reaches the client, every work it submitted before
\* is finished (ProcessDecoder, DrainDecoder).
EosFinishesEverything ==
    sigEos = "drain" /\ ~errored => \A w \in Works : status[w] # "pending"

\* The loop of AcquireDecoderBlock has no deadline.  While it finds no block the
\* client has one to return: the pool is larger than what the codec, the blocks
\* kept aside and the output held back can keep from it.
AcquireCanEnd ==
    cpc = "acquire" /\ ~disabled /\ Usable = {} =>
        \E s \in Slots : s[1] = pool /\ AfterSearch[s] \in {Free, Client}
=============================================================================

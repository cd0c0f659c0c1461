--------------------------- MODULE DecoderSession ---------------------------
(***************************************************************************)
(* V4l2CodecSession as a decoder: QueueDecoderPacket, DequeueDecoderFrame  *)
(* and StartDecoderDrain, broken at their ioctls, beside the driver, the   *)
(* graphic block pool and the client that holds delivered blocks.          *)
(*                                                                         *)
(* Capture buffers are graphic blocks lent to the driver.  The layout of   *)
(* the stream arrives as a SOURCE_CHANGE event, on which the session       *)
(* releases its capture queue and sets it up again, block by block; the    *)
(* setup is resumed by later calls while the pool has no block.            *)
(***************************************************************************)
EXTENDS Naturals, Sequences, FiniteSets, Functions

CONSTANTS NumInputs, NumCaptures, \* buffers per queue
          Blocks, NoBlock,        \* what the pool can hand out
          MaxHeld,                \* pictures the driver keeps before it stalls
          MaxPackets, MaxFaults, MaxSkips, MaxChanges, MaxOpens

ASSUME QueueAssumption == NumInputs \in Nat \ {0} /\ NumCaptures \in Nat \ {0}
ASSUME HeldAssumption == MaxHeld \in Nat \ {0}
ASSUME BlockAssumption == NoBlock \notin Blocks
ASSUME BoundAssumption ==
    /\ MaxPackets \in Nat /\ MaxFaults \in Nat /\ MaxSkips \in Nat
    /\ MaxChanges \in Nat /\ MaxOpens \in Nat

InputSlots == 1 .. NumInputs
CaptureSlots == 1 .. NumCaptures
Packets == 1 .. MaxPackets
NoFrame == 0

VARIABLES
    opened,
    inputs,     \* decoder_inputs: the slots whose queued flag is set
    slots,      \* decoder_capture: block of each slot, <<>> when cleared
    configured, \* decoder_capture_configured
    setup,      \* decoder_capture_setup_pending
    pending,    \* decoder_pending
    draining,
    received    \* decoder_received_input
session == <<opened, inputs, slots, configured, setup, pending, draining, received>>

VARIABLES
    devIn,      \* packets queued: records of slot and frame
    devDone,    \* input slots the driver has finished with
    devHeld,    \* pictures decoded and not yet output
    devCap,     \* capture buffers queued: records of slot and block
    devOut,     \* capture buffers ready to be dequeued
    devEvents,  \* SOURCE_CHANGE events not yet dequeued
    devState    \* [parsed: the stream's layout is known, change: a new one waits
                \* for the client, stop: V4L2_DEC_CMD_STOP, last: LAST produced,
                \* short: REQBUFS gave fewer capture buffers than the minimum]
device == <<devIn, devDone, devHeld, devCap, devOut, devEvents, devState>>

VARIABLES
    pc, op, waited, blocked, ret,  \* the call in progress
    refill,     \* the slot that PumpDecoderCapture is about to refill
    out         \* the frame that the last successful dequeue handed out; during a
                \* refill, PumpDecoderCapture's local frame
call == <<pc, op, waited, blocked, ret, refill, out>>

VARIABLES
    client,     \* blocks the client has not returned
    nextPacket, accepted, delivered, discarded,
    lostSlots,  \* history: slots that were dequeued and could not be refilled
    sawLast,    \* history: a LAST buffer was taken since the queue was set up
    eos,        \* history: an end-of-stream frame was handed out since Open
    faults, skips, changes, opens
history == <<client, nextPacket, accepted, delivered, discarded, lostSlots, sawLast, eos,
             faults, skips, changes, opens>>

vars == <<session, device, call, history>>

Running == [parsed |-> FALSE, change |-> FALSE, stop |-> FALSE, last |-> FALSE,
            short |-> FALSE]
NoOutput == [frame |-> NoFrame, block |-> NoBlock, eos |-> FALSE]
Frame == [frame : Packets \cup {NoFrame}, block : Blocks \cup {NoBlock}, eos : BOOLEAN]

Init ==
    /\ opened = FALSE /\ inputs = {} /\ slots = <<>> /\ configured = FALSE
    /\ setup = FALSE /\ pending = <<>> /\ draining = FALSE /\ received = FALSE
    /\ devIn = <<>> /\ devDone = {} /\ devHeld = {} /\ devCap = <<>> /\ devOut = <<>>
    /\ devEvents = 0 /\ devState = Running
    /\ pc = "idle" /\ op = "none" /\ waited = FALSE /\ blocked = FALSE
    /\ ret = <<"none", "OK">> /\ refill = 0 /\ out = NoOutput
    /\ client = {} /\ nextPacket = 1 /\ accepted = {} /\ delivered = {}
    /\ discarded = {} /\ lostSlots = {} /\ sawLast = FALSE /\ eos = FALSE
    /\ faults = 0 /\ skips = 0 /\ changes = 0 /\ opens = 0

-----------------------------------------------------------------------------
(* Blocks, and returning from a call.                                      *)

SlotBlocks == Range(slots) \ {NoBlock}
PendingBlocks == {p.block : p \in Range(pending)} \ {NoBlock}

\* A dropped buffer's block stays with the local frame while its slot is refilled.
LocalBlock == IF pc = "refill" THEN {out.block} ELSE {}

\* fetchGraphicBlock hands out a block nobody holds, or C2_BLOCKING.
FreeBlocks == Blocks \ (SlotBlocks \cup PendingBlocks \cup client \cup LocalBlock)

Queued(i) == slots[i] # NoBlock

Returns(frame, status) ==
    /\ pc' = "idle" /\ op' = "none" /\ waited' = FALSE /\ blocked' = FALSE
    /\ refill' = 0 /\ out' = frame
    /\ ret' = <<op, status>>
Return(status) == Returns(NoOutput, status)

GoTo(label) == pc' = label /\ UNCHANGED <<op, waited, blocked, ret, refill, out>>

Fault == faults < MaxFaults /\ faults' = faults + 1
OnlyFaults == UNCHANGED <<client, nextPacket, accepted, delivered, discarded, lostSlots,
                          sawLast, eos, skips, changes, opens>>

-----------------------------------------------------------------------------
(* Open, Close and Flush.                                                  *)

\* Close drops every queue; the blocks of slots and pending frames go back to
\* the pool, those the client holds stay with it.
CloseSession ==
    /\ inputs' = {} /\ slots' = <<>> /\ configured' = FALSE /\ setup' = FALSE
    /\ pending' = <<>> /\ draining' = FALSE /\ received' = FALSE
    /\ devIn' = <<>> /\ devDone' = {} /\ devHeld' = {} /\ devCap' = <<>>
    /\ devOut' = <<>> /\ devEvents' = 0 /\ devState' = Running
    /\ accepted' = {} /\ delivered' = {} /\ discarded' = {} /\ lostSlots' = {}
    /\ sawLast' = FALSE /\ eos' = FALSE

\* Open begins with Close; Flush is Close and Open.
Open ==
    /\ pc = "idle" /\ opens < MaxOpens
    /\ CloseSession
    /\ opens' = opens + 1
    /\ \/ opened' = TRUE /\ UNCHANGED faults
       \/ opened' = FALSE /\ Fault
    /\ UNCHANGED <<call, client, nextPacket, skips, changes>>

Close ==
    /\ pc = "idle" /\ opened
    /\ CloseSession
    /\ opened' = FALSE
    /\ UNCHANGED <<call, client, nextPacket, faults, skips, changes, opens>>

-----------------------------------------------------------------------------
(* QueueDecoderPacket.                                                     *)

EnterQueueDecoderPacket ==
    /\ pc = "idle" /\ opened /\ nextPacket <= MaxPackets
    /\ op' = "queue" /\ pc' = "inputs"
    /\ out' = NoOutput
    /\ UNCHANGED <<waited, blocked, ret, refill, session, device, history>>

\* A packet that is empty or larger than the coded buffers.
RejectDecoderPacket ==
    /\ pc = "idle"
    /\ ret' = <<"queue", "BAD_VALUE">> /\ UNCHANGED <<pc, op, waited, blocked, refill, out>>
    /\ Fault /\ OnlyFaults
    /\ UNCHANGED <<session, device>>

\* DequeueDecoderInputs until EAGAIN, here and in PumpDecoder.
DequeueDecoderInputs ==
    /\ pc = "inputs"
    /\ inputs' = inputs \ devDone /\ devDone' = {}
    /\ GoTo(IF op = "queue" THEN "qbuf" ELSE "pump")
    /\ UNCHANGED <<opened, slots, configured, setup, pending, draining, received, devIn,
                   devHeld, devCap, devOut, devEvents, devState, history>>

\* Mutant: end() is taken for a free slot.
FreeInputsOrEnd == (1 .. (NumInputs + 1)) \ inputs

FreeInputs == InputSlots \ inputs

QueueBlocks ==
    /\ pc = "qbuf" /\ FreeInputs = {}
    /\ Return("BLOCKING")
    /\ UNCHANGED <<session, device, history>>

\* The packet is copied into the first free buffer and queued.
QueuePacket ==
    /\ pc = "qbuf"
    /\ \E s \in FreeInputs :
         /\ \A t \in 1 .. (s - 1) : t \in inputs
         /\ inputs' = inputs \cup {s}
         /\ devIn' = Append(devIn, [slot |-> s, frame |-> nextPacket])
    /\ received' = TRUE
    /\ accepted' = accepted \cup {nextPacket} /\ nextPacket' = nextPacket + 1
    /\ Return("OK")
    /\ UNCHANGED <<opened, slots, configured, setup, pending, draining, devDone, devHeld,
                   devCap, devOut, devEvents, devState, client, delivered, discarded,
                   lostSlots, sawLast, eos, faults, skips, changes, opens>>

-----------------------------------------------------------------------------
(* HandleDecoderEvents: the source change and the capture setup.           *)

\* STREAMOFF returns every capture buffer; what was ready in them is lost, and
\* so are the pictures of the old resolution.  short: the REQBUFS that follows
\* leaves the driver with buffers, but fewer than it requires.
ResetDecoderCapture(short) ==
    LET ready == {b.frame : b \in Range(devOut)}
        old == IF devState.change THEN devHeld ELSE {}
    IN  /\ devCap' = <<>> /\ devOut' = <<>>
        /\ devHeld' = devHeld \ old
        /\ devState' = [devState EXCEPT !.change = FALSE, !.last = FALSE,
                                        !.short = short]
        /\ discarded' = discarded \cup ((ready \cup old) \ {NoFrame})
        /\ configured' = FALSE
        /\ lostSlots' = {} /\ sawLast' = FALSE

\* A SOURCE_CHANGE event: BeginDecoderCaptureSetup.
BeginDecoderCaptureSetup ==
    /\ pc = "events" /\ devEvents > 0
    /\ devEvents' = devEvents - 1
    /\ ResetDecoderCapture(FALSE)
    /\ slots' = [i \in CaptureSlots |-> NoBlock]
    /\ setup' = TRUE
    /\ UNCHANGED <<opened, inputs, pending, draining, received, devIn, devDone, call,
                   client, nextPacket, accepted, delivered, eos, faults, skips, changes,
                   opens>>

\* Negotiation or REQBUFS fails, or REQBUFS gives too few buffers, which the driver
\* keeps.  The slots are gone, setup keeps its value.
BeginDecoderCaptureSetupFails ==
    /\ pc = "events" /\ devEvents > 0
    /\ devEvents' = devEvents - 1
    /\ \E short \in BOOLEAN : ResetDecoderCapture(short)
    /\ slots' = <<>>
    /\ Fault
    /\ Return("ERROR")
    /\ UNCHANGED <<opened, inputs, setup, pending, draining, received, devIn, devDone,
                   client, nextPacket, accepted, delivered, eos, skips, changes, opens>>

\* DQEVENT on a session that is not open.
ClosedFails ==
    /\ pc = "events" /\ ~opened
    /\ Return("ERROR")
    /\ UNCHANGED <<session, device, history>>

EventsHandled ==
    /\ pc = "events" /\ opened /\ devEvents = 0
    /\ GoTo(IF setup THEN "setup" ELSE "inputs")
    /\ UNCHANGED <<session, device, history>>

Lend(i, b) ==
    /\ slots' = [slots EXCEPT ![i] = b]
    /\ devCap' = Append(devCap, [slot |-> i, block |-> b])

\* ProgressDecoderCaptureSetup: the first slot without a buffer gets a block.
ProgressDecoderCaptureSetup ==
    /\ pc = "setup"
    /\ \E i \in DOMAIN slots, b \in FreeBlocks :
         /\ ~Queued(i) /\ \A j \in 1 .. (i - 1) : Queued(j)
         /\ Lend(i, b)
    /\ UNCHANGED <<opened, inputs, configured, setup, pending, draining, received, devIn,
                   devDone, devHeld, devOut, devEvents, devState, call, history>>

\* The pool has none: C2_BLOCKING, and a later call resumes the setup.
SetupBlocks ==
    /\ pc = "setup" /\ FreeBlocks = {}
    /\ \E i \in DOMAIN slots : ~Queued(i)
    /\ pc' = "inputs" /\ blocked' = TRUE /\ UNCHANGED <<op, waited, ret, refill, out>>
    /\ UNCHANGED <<session, device, history>>

\* Every slot is queued: STREAMON, which fails on a queue without buffers.  After a
\* shortage there is no slot to queue, and buffers for STREAMON to succeed on.
StreamOnCapture ==
    /\ pc = "setup" /\ \A i \in DOMAIN slots : Queued(i)
    /\ slots = <<>> => devState.short
    /\ setup' = FALSE /\ configured' = TRUE
    /\ GoTo("inputs")
    /\ UNCHANGED <<opened, inputs, slots, pending, draining, received, device, history>>

\* The driver refuses to stream a queue without buffers, or with too few.
StreamOnEmptyQueue ==
    /\ pc = "setup" /\ slots = <<>>
    /\ Return("ERROR")
    /\ UNCHANGED <<session, device, history>>

-----------------------------------------------------------------------------
(* PumpDecoderCapture.                                                     *)

\* After C2_BLOCKING, or before the capture queue streams, nothing is taken.
PumpSkipped ==
    /\ pc = "pump" /\ (blocked \/ ~configured)
    /\ GoTo("decide")
    /\ UNCHANGED <<session, device, history>>

\* Mutant: an empty buffer is dropped and its slot not refilled.
NeedsRefillIfFrame(b) == ~b.last /\ b.frame # NoFrame

NeedsRefill(b) == ~b.last

\* Mutant: the buffer that carries LAST is taken for an empty one.
IsFrameNotLast(b) == b.frame # NoFrame /\ ~b.last

IsFrame(b) == b.frame # NoFrame \/ b.last

\* Mutant: the block stays in its slot.
BlockAfterCopy(b) == b.block

\* std::move leaves the slot without a block.
BlockAfterMove(b) == NoBlock

\* A dequeued buffer moves its block into a frame, which is pending or stays local;
\* only LAST is not refilled.
TakeFrame ==
    /\ pc = "pump" /\ ~blocked /\ configured /\ devOut # <<>>
    /\ LET b == Head(devOut)
           f == [frame |-> b.frame, block |-> b.block, eos |-> b.last]
       IN  /\ devOut' = Tail(devOut)
           /\ slots' = [slots EXCEPT ![b.slot] = BlockAfterMove(b)]
           /\ pending' = IF IsFrame(b) THEN Append(pending, f) ELSE pending
           /\ sawLast' = (sawLast \/ b.last)
           /\ out' = IF IsFrame(b) THEN NoOutput ELSE [NoOutput EXCEPT !.block = b.block]
           /\ IF NeedsRefill(b) THEN pc' = "refill" /\ refill' = b.slot
                               ELSE UNCHANGED <<pc, refill>>
    /\ UNCHANGED <<op, waited, blocked, ret, opened, inputs, configured, setup, draining,
                   received, devIn, devDone, devHeld, devCap, devEvents, devState, client,
                   nextPacket, accepted, delivered, discarded, lostSlots, eos, faults,
                   skips, changes, opens>>

RefillDecoderCapture ==
    /\ pc = "refill"
    /\ \E b \in FreeBlocks : Lend(refill, b)
    /\ pc' = "pump" /\ refill' = 0 /\ out' = NoOutput
    /\ UNCHANGED <<op, waited, blocked, ret>>
    /\ UNCHANGED <<opened, inputs, configured, setup, pending, draining, received, devIn,
                   devDone, devHeld, devOut, devEvents, devState, history>>

\* No block, or an error: the slot stays empty and nothing will refill it.
RefillFails ==
    /\ pc = "refill"
    /\ lostSlots' = lostSlots \cup {refill}
    /\ \/ /\ FreeBlocks = {}
          /\ pc' = "decide" /\ blocked' = TRUE /\ refill' = 0 /\ out' = NoOutput
          /\ UNCHANGED <<op, waited, ret, faults>>
       \/ Fault /\ Return("ERROR")
    /\ UNCHANGED <<session, device, client, nextPacket, accepted, delivered, discarded,
                   sawLast, eos, skips, changes, opens>>

\* EAGAIN, or EPIPE after LAST while draining, ends the loop.
CaptureDrained ==
    /\ pc = "pump" /\ ~blocked /\ configured /\ devOut = <<>>
    /\ sawLast => draining
    /\ GoTo("decide")
    /\ UNCHANGED <<session, device, history>>

\* EPIPE after a LAST that no drain asked for.
CaptureBroken ==
    /\ pc = "pump" /\ ~blocked /\ configured /\ devOut = <<>>
    /\ sawLast /\ ~draining
    /\ Return("ERROR")
    /\ UNCHANGED <<session, device, history>>

\* DQEVENT, DQBUF, QBUF, STREAMON, the pool or poll fails.
IoctlFails ==
    /\ pc \in {"events", "setup", "inputs", "qbuf", "pump", "wait"}
    /\ Fault /\ OnlyFaults
    /\ Return("ERROR")
    /\ UNCHANGED <<session, device>>

-----------------------------------------------------------------------------
(* DequeueDecoderFrame.                                                    *)

EnterDequeueDecoderFrame(wait) ==
    /\ pc = "idle"
    /\ op' = (IF wait THEN "dequeueWait" ELSE "dequeue") /\ pc' = "events"
    /\ out' = NoOutput
    /\ UNCHANGED <<waited, blocked, ret, refill, session, device, history>>

\* The first pending frame is handed out, C2_BLOCKING or not.
HandOut ==
    /\ pc = "decide" /\ pending # <<>>
    /\ pending' = Tail(pending)
    /\ client' = client \cup ({Head(pending).block} \ {NoBlock})
    /\ delivered' = delivered \cup ({Head(pending).frame} \ {NoFrame})
    /\ eos' = (eos \/ Head(pending).eos)
    /\ Returns(Head(pending), "OK")
    /\ UNCHANGED <<opened, inputs, slots, configured, setup, draining, received, device,
                   nextPacket, accepted, discarded, lostSlots, sawLast, faults, skips,
                   changes, opens>>

EmptyHanded == pending = <<>>

NothingToHandOut ==
    /\ pc = "decide" /\ EmptyHanded
    /\ op = "dequeue" \/ waited
    /\ Return(IF blocked THEN "BLOCKING" ELSE "NOT_FOUND")
    /\ UNCHANGED <<session, device, history>>

WaitForFrame ==
    /\ pc = "decide" /\ pending = <<>> /\ op = "dequeueWait" /\ ~waited
    /\ GoTo("wait")
    /\ UNCHANGED <<session, device, history>>

\* poll: an output, an input or an event is ready, the stream has ended, or
\* neither queue has a buffer left to finish (POLLERR).
DeviceReady ==
    \/ devOut # <<>> \/ devDone # {} \/ devEvents > 0 \/ sawLast
    \/ devIn = <<>> /\ (~configured \/ devCap = <<>>)

WaitForDeviceReady ==
    /\ pc = "wait" /\ DeviceReady
    /\ pc' = "events" /\ waited' = TRUE /\ blocked' = FALSE
    /\ UNCHANGED <<op, ret, refill, out, session, device, history>>

\* What the driver can still do by itself.
CanDecode == devIn # <<>> /\ Cardinality(devHeld) < MaxHeld /\ ~devState.change
AtEnd == devState.change \/ (devState.stop /\ devIn = <<>>)
CanOutput ==
    /\ configured /\ devCap # <<>> /\ ~devState.last
    /\ devHeld # {} \/ AtEnd

\* The wait times out: the driver has stopped, or is too slow.
WaitForDeviceTimeout ==
    /\ pc = "wait" /\ ~DeviceReady
    /\ \/ ~CanDecode /\ ~CanOutput /\ UNCHANGED faults
       \/ (CanDecode \/ CanOutput) /\ Fault
    /\ OnlyFaults
    /\ Return("TIMED_OUT")
    /\ UNCHANGED <<session, device>>

-----------------------------------------------------------------------------
(* StartDecoderDrain.                                                      *)

\* Mutant: the end of stream is reported without waiting for the driver.
EndsAtOnceAlways == TRUE

EndsAtOnce == ~received

\* A session without input ends at once, with a frame that has no block.
StartDecoderDrain ==
    /\ pc = "idle"
    /\ IF draining THEN UNCHANGED <<draining, pending, devState>>
       ELSE /\ draining' = TRUE
            /\ devState' = [devState EXCEPT !.stop = ~EndsAtOnce]
            /\ pending' = IF EndsAtOnce
                          THEN Append(pending, [frame |-> NoFrame, block |-> NoBlock,
                                                eos |-> TRUE])
                          ELSE pending
    /\ ret' = <<"drain", "OK">> /\ UNCHANGED <<pc, op, waited, blocked, refill, out>>
    /\ UNCHANGED <<opened, inputs, slots, configured, setup, received, devIn, devDone,
                   devHeld, devCap, devOut, devEvents, history>>

StartDecoderDrainFails ==
    /\ pc = "idle" /\ opened /\ ~draining /\ received
    /\ Fault /\ OnlyFaults
    /\ ret' = <<"drain", "ERROR">> /\ UNCHANGED <<pc, op, waited, blocked, refill, out>>
    /\ UNCHANGED <<session, device>>

-----------------------------------------------------------------------------
(* The driver.                                                             *)

Took(b) == devCap' = Tail(devCap) /\ devOut' = Append(devOut, b)
Ready(f, last) ==
    [slot |-> Head(devCap).slot, block |-> Head(devCap).block, frame |-> f, last |-> last]

\* A packet becomes a picture; the first one also tells the stream's layout.
DriverDecodes ==
    /\ CanDecode
    /\ devIn' = Tail(devIn) /\ devDone' = devDone \cup {Head(devIn).slot}
    /\ devHeld' = devHeld \cup {Head(devIn).frame}
    /\ devEvents' = IF devState.parsed THEN devEvents ELSE devEvents + 1
    /\ devState' = [devState EXCEPT !.parsed = TRUE]
    /\ UNCHANGED <<session, devCap, devOut, call, history>>

\* The next packet has another resolution.
DriverChanges ==
    /\ CanDecode /\ devState.parsed /\ changes < MaxChanges
    /\ changes' = changes + 1
    /\ devEvents' = devEvents + 1
    /\ devState' = [devState EXCEPT !.change = TRUE]
    /\ UNCHANGED <<session, devIn, devDone, devHeld, devCap, devOut, call, client,
                   nextPacket, accepted, delivered, discarded, lostSlots, sawLast, eos,
                   faults, skips, opens>>

\* A picture is output, in any order; the final one may carry LAST.
DriverOutputs ==
    /\ CanOutput
    /\ \E f \in devHeld, last \in BOOLEAN :
         /\ last => AtEnd /\ devHeld = {f}
         /\ devHeld' = devHeld \ {f}
         /\ Took(Ready(f, last))
         /\ devState' = [devState EXCEPT !.last = last]
    /\ UNCHANGED <<session, devIn, devDone, devEvents, call, history>>

\* The driver drops a damaged picture and returns an empty buffer.
DriverDrops ==
    /\ CanOutput /\ skips < MaxSkips
    /\ skips' = skips + 1
    /\ \E f \in devHeld :
         /\ devHeld' = devHeld \ {f} /\ discarded' = discarded \cup {f}
         /\ Took(Ready(NoFrame, FALSE))
    /\ UNCHANGED <<session, devIn, devDone, devEvents, devState, call, client, nextPacket,
                   accepted, delivered, lostSlots, sawLast, eos, faults, changes, opens>>

\* LAST comes in an empty buffer when no picture is left to carry it.
DriverEnds ==
    /\ CanOutput /\ AtEnd /\ devHeld = {}
    /\ Took(Ready(NoFrame, TRUE))
    /\ devState' = [devState EXCEPT !.last = TRUE]
    /\ UNCHANGED <<session, devIn, devDone, devHeld, devEvents, call, history>>

ClientReturns(b) ==
    /\ b \in client
    /\ client' = client \ {b}
    /\ UNCHANGED <<session, device, call, nextPacket, accepted, delivered, discarded,
                   lostSlots, sawLast, eos, faults, skips, changes, opens>>

-----------------------------------------------------------------------------

Pump ==
    \/ DequeueDecoderInputs \/ QueueBlocks \/ QueuePacket
    \/ BeginDecoderCaptureSetup \/ BeginDecoderCaptureSetupFails
    \/ ClosedFails \/ EventsHandled
    \/ ProgressDecoderCaptureSetup \/ SetupBlocks \/ StreamOnCapture
    \/ StreamOnEmptyQueue \/ PumpSkipped \/ TakeFrame \/ RefillDecoderCapture
    \/ RefillFails \/ CaptureDrained \/ CaptureBroken \/ IoctlFails
    \/ HandOut \/ NothingToHandOut \/ WaitForFrame \/ WaitForDeviceReady
    \/ WaitForDeviceTimeout

Environment ==
    \/ DriverDecodes \/ DriverChanges \/ DriverOutputs \/ DriverDrops \/ DriverEnds
    \/ \E b \in Blocks : ClientReturns(b)

\* The component submits nothing more once the stream has ended.
MaySubmit == ~draining

Next ==
    \/ Open \/ Close
    \/ MaySubmit /\ EnterQueueDecoderPacket
    \/ RejectDecoderPacket
    \/ \E wait \in BOOLEAN : EnterDequeueDecoderFrame(wait)
    \/ StartDecoderDrain \/ StartDecoderDrainFails
    \/ Pump \/ Environment

Spec == Init /\ [][Next]_vars

-----------------------------------------------------------------------------
(* Properties.                                                             *)

Buffer == [slot : CaptureSlots, block : Blocks, frame : Packets \cup {NoFrame},
           last : BOOLEAN]

\* Every field of the session, the driver and the call has its declared type.
TypeOK ==
    /\ opened \in BOOLEAN /\ inputs \subseteq InputSlots
    /\ slots = <<>> \/ slots \in [CaptureSlots -> Blocks \cup {NoBlock}]
    /\ configured \in BOOLEAN /\ setup \in BOOLEAN
    /\ pending \in Seq(Frame) /\ draining \in BOOLEAN /\ received \in BOOLEAN
    /\ devIn \in Seq([slot : InputSlots, frame : Packets]) /\ devDone \subseteq InputSlots
    /\ devHeld \subseteq Packets
    /\ devCap \in Seq([slot : CaptureSlots, block : Blocks]) /\ devOut \in Seq(Buffer)
    /\ devEvents \in Nat
    /\ devState \in [parsed : BOOLEAN, change : BOOLEAN, stop : BOOLEAN, last : BOOLEAN,
                     short : BOOLEAN]
    /\ pc \in {"idle", "inputs", "qbuf", "events", "setup", "pump", "refill", "decide",
              "wait"}
    /\ op \in {"none", "queue", "dequeue", "dequeueWait"}
    /\ waited \in BOOLEAN /\ blocked \in BOOLEAN /\ out \in Frame
    /\ refill \in 0 .. NumCaptures
    /\ client \subseteq Blocks /\ nextPacket \in 1 .. (MaxPackets + 1)
    /\ accepted \subseteq Packets /\ delivered \subseteq Packets
    /\ discarded \subseteq Packets /\ lostSlots \subseteq CaptureSlots
    /\ sawLast \in BOOLEAN /\ eos \in BOOLEAN
    /\ faults \in 0 .. MaxFaults /\ skips \in 0 .. MaxSkips
    /\ changes \in 0 .. MaxChanges /\ opens \in 0 .. MaxOpens

DriverBuffers == {<<b.slot, b.block>> : b \in Range(devCap) \cup Range(devOut)}

\* The driver writes into a block only while its slot pins it, and no block is
\* at once with the driver, in a pending frame and with the client: a picture
\* that was handed out is never overwritten (QueueDecoderCapture,
\* PumpDecoderCapture, ResetDecoderCapture).
BlocksHaveOneHolder ==
    /\ DriverBuffers = {<<i, slots[i]>> : i \in {j \in DOMAIN slots : Queued(j)}}
    /\ Len(devCap) + Len(devOut) = Cardinality(DriverBuffers)
    /\ Cardinality(SlotBlocks) = Cardinality({i \in DOMAIN slots : Queued(i)})
    /\ SlotBlocks \cap (PendingBlocks \cup client) = {}
    /\ PendingBlocks \cap client = {}

\* Once the capture queue streams, every slot is with the driver except the
\* one being refilled, the one that carried LAST, and those whose refill
\* failed: nothing else takes a buffer out of circulation.  A queue may stream
\* without any slot only after a setup that ended in C2_NO_MEMORY, which leaves the
\* driver its buffers: whatever else fails in a setup, no later call takes the
\* queue for configured.
CaptureSlotsConserved ==
    configured =>
        /\ slots = <<>> => devState.short
        /\ LET idle == {i \in DOMAIN slots : ~Queued(i)} \ (lostSlots \cup {refill})
           IN  Cardinality(idle) <= IF sawLast THEN 1 ELSE 0

\* Every packet the driver accepted since Open is accounted for exactly once:
\* in the driver, in decoder_pending, handed out, or given up by the driver at
\* a change of resolution or for a damaged picture.
PacketsAccounted ==
    LET places == << {b.frame : b \in Range(devIn)}, devHeld,
                     {b.frame : b \in Range(devOut)} \ {NoFrame},
                     {f.frame : f \in Range(pending)} \ {NoFrame},
                     delivered, discarded >>
    IN  /\ accepted = UNION Range(places)
        /\ \A i, j \in DOMAIN places : i # j => places[i] \cap places[j] = {}

\* An end-of-stream frame that a drain asked for comes after every picture:
\* unless the resolution changed, nothing accepted is left behind it.
EosAfterEveryFrame ==
    eos /\ changes = 0 => accepted \subseteq delivered \cup discarded

=============================================================================

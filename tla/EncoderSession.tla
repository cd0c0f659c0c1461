--------------------------- MODULE EncoderSession ---------------------------
(***************************************************************************)
(* The encoder half of V4l2CodecSession: the calls that the component's    *)
(* work thread makes (Open, Close, QueueEncoderFrame, DequeueEncoderFrame, *)
(* StartEncoderDrain) and the V4L2 M2M driver that runs beside them.       *)
(*                                                                         *)
(* Every call is broken at its ioctls, because the driver takes steps      *)
(* between them: pc is the point the work thread has reached inside the    *)
(* call op.  A raw frame is a number; its payload in a capture buffer is   *)
(* that number too, so that a wrongly attributed or overwritten payload    *)
(* is visible.                                                             *)
(***************************************************************************)
EXTENDS Naturals, Sequences, FiniteSets

CONSTANTS
    NumInputs,    \* buffers VIDIOC_REQBUFS granted on the OUTPUT queue
    NumCaptures,  \* buffers granted on the CAPTURE queue
    MaxFrames,    \* bound: frames the client ever submits
    PtsOf,        \* the presentation time of each frame; repeats are legal
    MaxFaults,    \* bound: failing ioctls, allocations and conversions
    MaxSkips,     \* bound: frames the firmware's rate control skips
    MaxOpens      \* bound: calls of Open (start, flush)

InputSlots == 0 .. (NumInputs - 1)
CaptureSlots == 0 .. (NumCaptures - 1)
Frames == 1 .. MaxFrames
NoFrame == 0
Timestamps == {PtsOf[f] : f \in Frames}

ASSUME EncoderConstants ==
    /\ NumInputs \in Nat \ {0}
    /\ NumCaptures \in Nat \ {0}
    /\ MaxFrames \in Nat
    /\ PtsOf \in [Frames -> Nat]
    /\ MaxFaults \in Nat
    /\ MaxSkips \in Nat
    /\ MaxOpens \in Nat

VARIABLES
    opened,       \* fd is a V4L2 device
    configured,   \* encoder_configured
    draining,     \* draining
    inputs,       \* encoder_inputs: the frame a queued slot keeps alive
    metadata,     \* encoder_frame_metadata
    pending       \* encoder_pending
session == <<opened, configured, draining, inputs, metadata, pending>>

VARIABLES
    devIn,        \* frames the firmware has still to encode, in order
    devHold,      \* input slots the driver owns
    devDone,      \* input slots ready for DQBUF
    devCap,       \* empty capture slots the driver owns
    devOut,       \* filled capture buffers ready for DQBUF, in order
    devCmd,       \* "run", "stopping" after ENC_CMD_STOP, "stopped" after LAST
    payload       \* the bytes in each mapped capture slot: the frame they code
device == <<devIn, devHold, devDone, devCap, devOut, devCmd, payload>>

VARIABLES
    pc,           \* where the work thread is inside the call
    op,           \* the call: "queue", "dequeue", "dequeueWait" or "none"
    retried,      \* the call has already waited on the device once
    ret           \* the last returned call and its c2_status_t
call == <<pc, op, retried, ret>>

VARIABLES
    nextFrame,    \* the frame the client submits next
    delivered,    \* history: what DequeueEncoderFrame handed out since Open
    accepted,     \* history: frames queued since Open and before a drain
    failed,       \* a call has failed since Open
    faults, skips, opens
history == <<nextFrame, delivered, accepted, failed, faults, skips, opens>>

vars == <<session, device, call, history>>

Metadata == [pts : Nat, frame : Frames]
PendingFrame == [slot : CaptureSlots, frame : Frames \cup {NoFrame}, eos : BOOLEAN]
CaptureBuffer == [slot : CaptureSlots, pts : Nat, empty : BOOLEAN, last : BOOLEAN]
Delivery == [index : Frames \cup {NoFrame}, content : Frames \cup {NoFrame},
             eos : BOOLEAN]
Ops == {"queue", "dequeue", "dequeueWait"}
Statuses == {"OK", "BLOCKING", "TIMED_OUT", "NOT_FOUND", "BAD_VALUE", "NO_MEMORY",
             "ERROR"}

Init ==
    /\ opened = FALSE /\ configured = FALSE /\ draining = FALSE
    /\ inputs = [s \in InputSlots |-> NoFrame]
    /\ metadata = <<>> /\ pending = <<>>
    /\ devIn = <<>> /\ devHold = {} /\ devDone = {} /\ devCap = {}
    /\ devOut = <<>> /\ devCmd = "run"
    /\ payload = [c \in CaptureSlots |-> NoFrame]
    /\ pc = "idle" /\ op = "none" /\ retried = FALSE /\ ret = <<"none", "OK">>
    /\ nextFrame = 1 /\ delivered = <<>> /\ accepted = {} /\ failed = FALSE
    /\ faults = 0 /\ skips = 0 /\ opens = 0

-----------------------------------------------------------------------------
(* Returning from a call. *)

Return(status) ==
    /\ pc' = "idle" /\ op' = "none" /\ retried' = FALSE
    /\ ret' = <<op, status>>

GoTo(label) == pc' = label /\ UNCHANGED <<op, retried, ret>>

\* An ioctl, an allocation or a conversion may fail; the call reports it.
Fault == faults < MaxFaults /\ faults' = faults + 1
Fails ==
    /\ Fault
    /\ failed' = TRUE
    /\ UNCHANGED <<nextFrame, delivered, accepted, skips, opens>>

-----------------------------------------------------------------------------
(* Open, Close and Flush.                                                  *)

\* Close drops every queue of the session; closing the fd returns all buffers.
CloseSession ==
    /\ configured' = FALSE /\ draining' = FALSE
    /\ inputs' = [s \in InputSlots |-> NoFrame]
    /\ metadata' = <<>> /\ pending' = <<>>
    /\ devIn' = <<>> /\ devHold' = {} /\ devDone' = {} /\ devCap' = {}
    /\ devOut' = <<>> /\ devCmd' = "run"
    /\ payload' = [c \in CaptureSlots |-> NoFrame]
    /\ delivered' = <<>> /\ accepted' = {}

\* Open begins with Close; Flush is Close and Open with the same settings.
Open ==
    /\ pc = "idle" /\ opens < MaxOpens
    /\ CloseSession
    /\ opens' = opens + 1
    /\ \/ opened' = TRUE /\ failed' = FALSE /\ UNCHANGED faults
       \/ opened' = FALSE /\ failed' = TRUE /\ Fault
    /\ UNCHANGED <<call, nextFrame, skips>>

Close ==
    /\ pc = "idle" /\ opened
    /\ CloseSession
    /\ opened' = FALSE /\ failed' = FALSE
    /\ UNCHANGED <<call, nextFrame, faults, skips, opens>>

-----------------------------------------------------------------------------
(* PumpEncoder: release every finished input, then take capture buffers.   *)

\* Mutant: the slot keeps its queued flag after DQBUF.
DequeueEncoderInputsKeepsQueued ==
    /\ pc = "inputs"
    /\ devDone' = {}
    /\ GoTo("capture")
    /\ UNCHANGED <<session, devIn, devHold, devCap, devOut, devCmd, payload, history>>

\* Mutant: the work index is dropped with the image at input DQBUF.
DequeueEncoderInputsDropsIndex ==
    LET done == {inputs[s] : s \in devDone}
        Kept(entry) == entry.frame \notin done IN
    /\ pc = "inputs"
    /\ inputs' = [s \in InputSlots |-> IF s \in devDone THEN NoFrame ELSE inputs[s]]
    /\ metadata' = SelectSeq(metadata, Kept)
    /\ devDone' = {}
    /\ GoTo("capture")
    /\ UNCHANGED <<opened, configured, draining, pending, devIn, devHold,
                   devCap, devOut, devCmd, payload, history>>

DequeueEncoderInputs ==
    /\ pc = "inputs"
    /\ inputs' = [s \in InputSlots |-> IF s \in devDone THEN NoFrame ELSE inputs[s]]
    /\ devDone' = {}
    /\ GoTo("capture")
    /\ UNCHANGED <<opened, configured, draining, metadata, pending, devIn, devHold,
                   devCap, devOut, devCmd, payload, history>>

\* The first entry that carries this timestamp.
Matches(i, pts) ==
    /\ metadata[i].pts = pts
    /\ \A j \in 1 .. (i - 1) : metadata[j].pts # pts
Erase(s, i) == [j \in 1 .. (Len(s) - 1) |-> IF j < i THEN s[j] ELSE s[j + 1]]

\* Mutant: the capture slot goes back to the driver before its payload is copied.
TakePayloadRecyclesSlot ==
    LET b == Head(devOut) IN
    /\ pc = "capture" /\ devOut # <<>> /\ ~b.empty
    /\ devOut' = Tail(devOut)
    /\ devCap' = devCap \cup {b.slot}
    /\ \E i \in DOMAIN metadata :
         /\ Matches(i, b.pts)
         /\ metadata' = Erase(metadata, i)
         /\ pending' = Append(pending, [slot |-> b.slot, frame |-> metadata[i].frame,
                                        eos |-> b.last])
    /\ UNCHANGED <<opened, configured, draining, inputs, devIn, devHold, devDone,
                   devCmd, payload, call, history>>

\* A payload takes the frame index queued with its timestamp and keeps its
\* capture slot dequeued until CopyEncoderFrame has copied it out.
TakePayload ==
    LET b == Head(devOut) IN
    /\ pc = "capture" /\ devOut # <<>> /\ ~b.empty
    /\ devOut' = Tail(devOut)
    /\ \E i \in DOMAIN metadata :
         /\ Matches(i, b.pts)
         /\ metadata' = Erase(metadata, i)
         /\ pending' = Append(pending, [slot |-> b.slot, frame |-> metadata[i].frame,
                                        eos |-> b.last])
    /\ UNCHANGED <<opened, configured, draining, inputs, devIn, devHold, devDone,
                   devCap, devCmd, payload, call, history>>

TakeEmptyLast ==
    LET b == Head(devOut) IN
    /\ pc = "capture" /\ devOut # <<>> /\ b.empty /\ b.last
    /\ devOut' = Tail(devOut)
    /\ pending' = Append(pending, [slot |-> b.slot, frame |-> NoFrame, eos |-> TRUE])
    /\ UNCHANGED <<opened, configured, draining, inputs, metadata, devIn, devHold,
                   devDone, devCap, devCmd, payload, call, history>>

\* Mutant: the buffer after the dequeued one is requeued.
RequeueEmptyNextIndex ==
    LET b == Head(devOut) IN
    /\ pc = "capture" /\ devOut # <<>> /\ b.empty /\ ~b.last
    /\ devOut' = Tail(devOut)
    /\ devCap' = devCap \cup {b.slot + 1}
    /\ UNCHANGED <<session, devIn, devHold, devDone, devCmd, payload, call, history>>

RequeueEmpty ==
    LET b == Head(devOut) IN
    /\ pc = "capture" /\ devOut # <<>> /\ b.empty /\ ~b.last
    /\ devOut' = Tail(devOut)
    /\ devCap' = devCap \cup {b.slot}
    /\ UNCHANGED <<session, devIn, devHold, devDone, devCmd, payload, call, history>>

\* A payload whose timestamp no metadata entry carries.
Unmatched(b) == ~b.empty /\ \A i \in DOMAIN metadata : metadata[i].pts # b.pts

\* A malformed buffer, an unmatched timestamp or a failed requeue ends the call
\* with the slot already dequeued.
PumpLosesSlot ==
    LET unmatched == Unmatched(Head(devOut)) IN
    /\ pc = "capture" /\ devOut # <<>>
    /\ unmatched \/ faults < MaxFaults
    /\ faults' = IF unmatched THEN faults ELSE faults + 1
    /\ devOut' = Tail(devOut)
    /\ Return("ERROR")
    /\ failed' = TRUE
    /\ UNCHANGED <<session, devIn, devHold, devDone, devCap, devCmd, payload,
                   nextFrame, delivered, accepted, skips, opens>>

\* EAGAIN, or EPIPE after LAST while draining, ends the loop.
CaptureDrained ==
    /\ pc = "capture" /\ devOut = <<>>
    /\ GoTo("decide")
    /\ UNCHANGED <<session, device, history>>

IoctlFails ==
    /\ pc \in {"inputs", "capture", "wait"}
    /\ Return("ERROR") /\ Fails
    /\ UNCHANGED <<session, device>>

-----------------------------------------------------------------------------
(* QueueEncoderFrame.                                                      *)

\* Only to a session without queues that drains, which has queued its own end of
\* stream, does the component submit nothing before it has flushed or closed it.
MaySubmit == nextFrame <= MaxFrames /\ (configured \/ ~draining)

EnterQueueEncoderFrame ==
    /\ pc = "idle"
    /\ op' = "queue" /\ retried' = FALSE /\ UNCHANGED ret
    /\ pc' = IF configured THEN "inputs" ELSE "submit"
    /\ UNCHANGED <<session, device, history>>

CallQueueEncoderFrame == MaySubmit /\ EnterQueueEncoderFrame

\* A buffer that is no graphic buffer, or a negative timestamp.
RejectEncoderFrame ==
    /\ pc = "idle"
    /\ ret' = <<"queue", "BAD_VALUE">> /\ UNCHANGED <<pc, op, retried>>
    /\ UNCHANGED <<session, device, history>>

\* Mutant: only the input slots bound the submissions in flight.
MetadataNeverFull == FALSE

MetadataFull == Len(metadata) >= NumInputs
InputsFull == (\A s \in InputSlots : inputs[s] # NoFrame) \/ MetadataFull

QueueBlocks ==
    /\ pc = "decide" /\ op = "queue"
    /\ InputsFull /\ (retried \/ pending # <<>>)
    /\ Return("BLOCKING")
    /\ UNCHANGED <<session, device, history>>

\* Mutant: the call polls although outputs wait in encoder_pending.
QueueWaitsWithPending ==
    /\ pc = "decide" /\ op = "queue"
    /\ InputsFull /\ ~retried
    /\ GoTo("wait")
    /\ UNCHANGED <<session, device, history>>

QueueWaits ==
    /\ pc = "decide" /\ op = "queue"
    /\ InputsFull /\ ~retried /\ pending = <<>>
    /\ GoTo("wait")
    /\ UNCHANGED <<session, device, history>>

QueueProceeds ==
    /\ pc = "decide" /\ op = "queue" /\ ~InputsFull
    /\ GoTo("submit")
    /\ UNCHANGED <<session, device, history>>

\* WaitForDevice: POLLOUT is left out when only an output can make room.
DeviceReady ==
    \/ devOut # <<>>
    \/ devDone # {} /\ ~(op = "queue" /\ MetadataFull)

WaitForDeviceReady ==
    /\ pc = "wait" /\ DeviceReady
    /\ pc' = "inputs" /\ retried' = TRUE /\ UNCHANGED <<op, ret>>
    /\ UNCHANGED <<session, device, history>>

WaitForDeviceTimeout ==
    /\ pc = "wait" /\ ~DeviceReady
    /\ Return("TIMED_OUT")
    /\ UNCHANGED <<session, device, history>>

FreeSlot(s) ==
    /\ inputs[s] = NoFrame
    /\ \A t \in InputSlots : t < s => inputs[t] # NoFrame

\* The first frame configures the encoder: new queues, every capture buffer
\* handed to the driver, both queues streaming.
ConfigureEncoder ==
    IF configured THEN devCap' = devCap /\ UNCHANGED configured
    ELSE /\ opened
         /\ configured' = TRUE
         /\ devCap' = CaptureSlots

\* QBUF first, then the metadata entry and the owner of the slot.
SubmitFrame ==
    /\ pc = "submit"
    /\ ConfigureEncoder
    /\ \E s \in InputSlots :
         /\ FreeSlot(s)
         /\ devHold' = devHold \cup {s}
         /\ inputs' = [inputs EXCEPT ![s] = nextFrame]
    /\ devIn' = IF devCmd = "run" THEN Append(devIn, nextFrame) ELSE devIn
    /\ metadata' = Append(metadata, [pts |-> PtsOf[nextFrame], frame |-> nextFrame])
    /\ accepted' = IF draining THEN accepted ELSE accepted \cup {nextFrame}
    /\ nextFrame' = nextFrame + 1
    /\ Return("OK")
    /\ UNCHANGED <<opened, draining, pending, devDone, devOut, devCmd, payload,
                   delivered, failed, faults, skips, opens>>

\* The fence, the conversion, the configuration, a control or QBUF fails.  A
\* failure after the first ConfigureEncoder leaves the queues streaming.
SubmitFails ==
    /\ pc = "submit"
    /\ Return("ERROR")
    /\ failed' = TRUE
    /\ \/ Fault /\ UNCHANGED <<configured, devCap>>
       \/ ~opened /\ UNCHANGED <<faults, configured, devCap>>
       \/ Fault /\ ~configured /\ ConfigureEncoder
    /\ UNCHANGED <<opened, draining, inputs, metadata, pending, devIn, devHold, devDone,
                   devOut, devCmd, payload, nextFrame, delivered, accepted, skips, opens>>

-----------------------------------------------------------------------------
(* DequeueEncoderFrame and CopyEncoderFrame.                               *)

CallDequeueEncoderFrame(wait) ==
    /\ pc = "idle"
    /\ pending # <<>> \/ configured
    /\ op' = IF wait THEN "dequeueWait" ELSE "dequeue"
    /\ pc' = IF pending # <<>> THEN "copy" ELSE "inputs"
    /\ UNCHANGED <<retried, ret, session, device, history>>

DequeueUnconfigured ==
    /\ pc = "idle" /\ pending = <<>> /\ ~configured
    /\ ret' = <<"dequeue", "NOT_FOUND">>
    /\ UNCHANGED <<pc, op, retried, session, device, history>>

DequeueHasFrame ==
    /\ pc = "decide" /\ op # "queue" /\ pending # <<>>
    /\ GoTo("copy")
    /\ UNCHANGED <<session, device, history>>

DequeueWaits ==
    /\ pc = "decide" /\ op = "dequeueWait" /\ pending = <<>> /\ ~retried
    /\ GoTo("wait")
    /\ UNCHANGED <<session, device, history>>

DequeueFindsNothing ==
    /\ pc = "decide" /\ op # "queue" /\ pending = <<>>
    /\ op = "dequeue" \/ retried
    /\ Return("NOT_FOUND")
    /\ UNCHANGED <<session, device, history>>

\* Requeue the slot unless it carried LAST, and only then drop the entry.
CopyEncoderFrame ==
    LET e == Head(pending) IN
    /\ pc = "copy"
    /\ delivered' = Append(delivered,
         [index |-> e.frame, eos |-> e.eos,
          content |-> IF e.frame = NoFrame THEN NoFrame ELSE payload[e.slot]])
    /\ devCap' = IF e.eos THEN devCap ELSE devCap \cup {e.slot}
    /\ pending' = Tail(pending)
    /\ Return("OK")
    /\ UNCHANGED <<opened, configured, draining, inputs, metadata, devIn, devHold,
                   devDone, devOut, devCmd, payload, nextFrame, accepted, failed,
                   faults, skips, opens>>

\* Mutant: the slot is requeued before the copy is known to succeed.
CopyFailsAfterRequeue ==
    /\ pc = "copy"
    /\ devCap' = devCap \cup {Head(pending).slot}
    /\ Return("NO_MEMORY") /\ Fails
    /\ UNCHANGED <<session, devIn, devHold, devDone, devOut, devCmd, payload>>

\* Allocation, mapping and requeue errors leave the front entry intact.  An empty
\* end-of-stream entry needs no block and no requeue.
CopyFails ==
    /\ pc = "copy" /\ Head(pending).frame # NoFrame
    /\ Return("NO_MEMORY") /\ Fails
    /\ UNCHANGED <<session, device>>

-----------------------------------------------------------------------------
(* StartEncoderDrain.                                                      *)

\* Mutant: the session queues its own end of stream although the driver will.
StartEncoderDrainAlwaysQueuesEos ==
    /\ pc = "idle" /\ ~draining
    /\ draining' = TRUE
    /\ devCmd' = IF configured THEN "stopping" ELSE devCmd
    /\ pending' = Append(pending, [slot |-> 0, frame |-> NoFrame, eos |-> TRUE])
    /\ ret' = <<"drain", "OK">>
    /\ UNCHANGED <<opened, configured, inputs, metadata, devIn, devHold, devDone, devCap,
                   devOut, payload, pc, op, retried, history>>

StartEncoderDrain ==
    /\ pc = "idle" /\ ~draining
    /\ draining' = TRUE
    /\ IF configured
       THEN devCmd' = "stopping" /\ UNCHANGED pending
       ELSE /\ pending' = Append(pending, [slot |-> 0, frame |-> NoFrame, eos |-> TRUE])
            /\ UNCHANGED devCmd
    /\ ret' = <<"drain", "OK">>
    /\ UNCHANGED <<opened, configured, inputs, metadata, devIn, devHold, devDone, devCap,
                   devOut, payload, pc, op, retried, history>>

StartEncoderDrainFails ==
    /\ pc = "idle" /\ ~draining /\ configured
    /\ ret' = <<"drain", "ERROR">>
    /\ Fails
    /\ UNCHANGED <<pc, op, retried, session, device>>

-----------------------------------------------------------------------------
(* The driver and firmware, as V4L2 describes a stateful encoder.          *)

Filled(c, f, isEmpty, isLast) ==
    [slot |-> c, pts |-> IF f = NoFrame THEN 0 ELSE PtsOf[f],
     empty |-> isEmpty, last |-> isLast]

\* The firmware has read an image; its slot becomes ready for DQBUF.
DriverReleasesInput ==
    /\ \E s \in devHold :
         /\ devHold' = devHold \ {s}
         /\ devDone' = devDone \cup {s}
    /\ UNCHANGED <<session, devIn, devCap, devOut, devCmd, payload, call, history>>

\* The firmware codes the oldest frame into a free capture slot (B frames are
\* disabled); when it drains, the last payload may itself carry LAST.
DriverEncodes ==
    /\ devIn # <<>>
    /\ \E c \in devCap : \E isLast \in BOOLEAN :
         /\ isLast => devCmd = "stopping" /\ Len(devIn) = 1
         /\ devCap' = devCap \ {c}
         /\ devOut' = Append(devOut, Filled(c, Head(devIn), FALSE, isLast))
         /\ payload' = [payload EXCEPT ![c] = Head(devIn)]
         /\ devCmd' = IF isLast THEN "stopped" ELSE devCmd
    /\ devIn' = Tail(devIn)
    /\ UNCHANGED <<session, devHold, devDone, call, history>>

\* Rate control skips a frame: an empty capture buffer without LAST.
DriverSkipsFrame ==
    /\ devIn # <<>> /\ skips < MaxSkips
    /\ \E c \in devCap :
         /\ devCap' = devCap \ {c}
         /\ devOut' = Append(devOut, Filled(c, Head(devIn), TRUE, FALSE))
         /\ payload' = [payload EXCEPT ![c] = NoFrame]
    /\ devIn' = Tail(devIn)
    /\ skips' = skips + 1
    /\ UNCHANGED <<session, devHold, devDone, devCmd, call, nextFrame, delivered,
                   accepted, failed, faults, opens>>

DriverEndsDrain ==
    /\ devCmd = "stopping" /\ devIn = <<>>
    /\ \E c \in devCap :
         /\ devCap' = devCap \ {c}
         /\ devOut' = Append(devOut, Filled(c, NoFrame, TRUE, TRUE))
         /\ payload' = [payload EXCEPT ![c] = NoFrame]
    /\ devCmd' = "stopped"
    /\ UNCHANGED <<session, devIn, devHold, devDone, call, history>>

-----------------------------------------------------------------------------

Pump == DequeueEncoderInputs \/ TakePayload \/ TakeEmptyLast \/ RequeueEmpty
        \/ PumpLosesSlot \/ CaptureDrained \/ IoctlFails

QueueSteps == QueueBlocks \/ QueueWaits \/ QueueProceeds \/ SubmitFrame \/ SubmitFails

DequeueSteps == DequeueHasFrame \/ DequeueWaits \/ DequeueFindsNothing
                \/ CopyEncoderFrame \/ CopyFails

WaitSteps == WaitForDeviceReady \/ WaitForDeviceTimeout

\* Steps of the work thread inside a call of the session.
SessionSteps == Pump \/ QueueSteps \/ DequeueSteps \/ WaitSteps

Driver == DriverReleasesInput \/ DriverEncodes \/ DriverSkipsFrame \/ DriverEndsDrain

Calls == Open \/ Close \/ CallQueueEncoderFrame \/ (MaySubmit /\ RejectEncoderFrame)
         \/ (\E wait \in BOOLEAN : CallDequeueEncoderFrame(wait))
         \/ DequeueUnconfigured \/ StartEncoderDrain \/ StartEncoderDrainFails

Next == Calls \/ SessionSteps \/ Driver

Spec == Init /\ [][Next]_vars

-----------------------------------------------------------------------------
(* Properties.                                                             *)

SlotsOf(queue) == {queue[i].slot : i \in DOMAIN queue}
OwnsDistinctSlots(queue) ==
    \A i, j \in DOMAIN queue : queue[i].slot = queue[j].slot => i = j

TypeOK ==
    /\ opened \in BOOLEAN /\ configured \in BOOLEAN /\ draining \in BOOLEAN
    /\ inputs \in [InputSlots -> Frames \cup {NoFrame}]
    /\ metadata \in Seq(Metadata) /\ pending \in Seq(PendingFrame)
    /\ devIn \in Seq(Frames)
    /\ devHold \subseteq InputSlots /\ devDone \subseteq InputSlots
    /\ devCap \subseteq CaptureSlots /\ devOut \in Seq(CaptureBuffer)
    /\ devCmd \in {"run", "stopping", "stopped"}
    /\ payload \in [CaptureSlots -> Frames \cup {NoFrame}]
    /\ pc \in {"idle", "inputs", "capture", "decide", "wait", "submit", "copy"}
    /\ op \in Ops \cup {"none"} /\ retried \in BOOLEAN
    /\ ret \in (Ops \cup {"none", "drain"}) \X Statuses
    /\ nextFrame \in 1 .. (MaxFrames + 1)
    /\ delivered \in Seq(Delivery) /\ accepted \subseteq Frames
    /\ failed \in BOOLEAN /\ faults \in Nat /\ skips \in Nat /\ opens \in Nat

\* A capture slot is in one place only: with the driver, filled and waiting for
\* DQBUF, or held in encoder_pending until its payload is copied.  While no call
\* has failed and no LAST buffer has been copied, no slot is missing.
CaptureSlotsConserved ==
    configured =>
      /\ OwnsDistinctSlots(devOut) /\ OwnsDistinctSlots(pending)
      /\ devCap \cap SlotsOf(devOut) = {}
      /\ devCap \cap SlotsOf(pending) = {}
      /\ SlotsOf(devOut) \cap SlotsOf(pending) = {}
      /\ (~failed /\ \A i \in DOMAIN delivered : ~delivered[i].eos) =>
            devCap \cup SlotsOf(devOut) \cup SlotsOf(pending) = CaptureSlots

\* A slot's owner (the client's buffer or the converted block) is kept exactly as
\* long as the driver may read it: until its input DQBUF.
InputsPinned ==
    /\ devHold \cap devDone = {}
    /\ \A s \in InputSlots : inputs[s] # NoFrame <=> s \in devHold \cup devDone

\* The metadata vector never outgrows the input queue it was reserved for.
MetadataBounded == Len(metadata) <= NumInputs

\* The bytes handed out with a frame index were coded from a frame with that
\* index's timestamp: no slot is recycled before its payload is copied.  As long
\* as the firmware skips nothing and no call failed it is that very frame, and
\* frames leave in order.
OutputAttribution ==
    \A i \in DOMAIN delivered : delivered[i].index # NoFrame =>
        /\ delivered[i].content # NoFrame
        /\ PtsOf[delivered[i].index] = PtsOf[delivered[i].content]
        /\ (skips = 0 /\ ~failed) =>
             /\ delivered[i].index = delivered[i].content
             /\ \A j \in 1 .. (i - 1) :
                  delivered[j].index < delivered[i].index

\* Every payload the driver returns finds a metadata entry: the call never ends
\* with "unmatched PTS".
EveryOutputMatches == devOut # <<>> => ~Unmatched(Head(devOut))

\* End of stream is the last thing handed out, after every frame that was queued
\* before the drain (unless the firmware skipped one or a call failed).
EosAfterEveryFrame ==
    \A i \in DOMAIN delivered : delivered[i].eos =>
        /\ i = Len(delivered)
        /\ (skips = 0 /\ ~failed) =>
              accepted \subseteq {delivered[j].index : j \in DOMAIN delivered}

\* A queue call polls only when the device can end the wait: nothing the wait is
\* for is held in encoder_pending by the waiting caller itself.
WaitIsProductive ==
    (pc = "wait" /\ op = "queue" /\ ~failed /\ ~draining /\ skips = 0) =>
        \/ DeviceReady
        \/ devIn # <<>> /\ devCap # {}
        \/ devHold # {} /\ ~MetadataFull

\* What the comment on kEncoderInputWaitMs asks of a queue call on a full queue:
\* "must return promptly (C2_BLOCKING)".
FullQueueReturnsBlocking == ret # <<"queue", "TIMED_OUT">>

=============================================================================

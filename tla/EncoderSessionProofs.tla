------------------------ MODULE EncoderSessionProofs ------------------------
(***************************************************************************)
(* Proofs about EncoderSession, for any number of buffers and frames, any  *)
(* timestamps and any number of faults, skips and reopens: the session's   *)
(* buffers are never shared between the driver and the caller, never lost  *)
(* without an error, and the frame metadata fits its reservation.          *)
(***************************************************************************)
EXTENDS EncoderSession, SequenceTheorems, TLAPS

\* What the point inside a call tells about the session.
PointInCall ==
    /\ pc = "copy" => pending # <<>>
    /\ pc \in {"inputs", "capture", "decide", "wait"} => configured
    /\ pc # "idle" /\ op = "queue" => nextFrame <= MaxFrames
    /\ pc = "submit" => op = "queue"
    /\ pc = "submit" /\ configured => Len(metadata) < NumInputs
    /\ pc = "submit" /\ ~configured => ~draining

\* Before ConfigureEncoder only StartEncoderDrain's own end of stream exists.
UnconfiguredIsEmpty ==
    ~configured => /\ metadata = <<>> /\ devIn = <<>> /\ devOut = <<>>
                   /\ devCmd = "run"
                   /\ draining \/ pending = <<>>

IInv ==
    /\ TypeOK
    /\ PointInCall
    /\ UnconfiguredIsEmpty
    /\ InputsPinned
    /\ MetadataBounded
    /\ CaptureSlotsConserved

-----------------------------------------------------------------------------
(* Sequences of buffers.                                                   *)

\* Erase removes one entry.
LEMMA EraseShrinks ==
    ASSUME NEW S, NEW s \in Seq(S), NEW i \in DOMAIN s
    PROVE  Erase(s, i) \in Seq(S) /\ Len(Erase(s, i)) = Len(s) - 1
<1>1. Len(s) \in Nat /\ DOMAIN s = 1 .. Len(s) /\ i \in 1 .. Len(s)
  OBVIOUS
<1>2. \A j \in 1 .. (Len(s) - 1) : (IF j < i THEN s[j] ELSE s[j + 1]) \in S
  BY <1>1
<1>3. Erase(s, i) \in [1 .. (Len(s) - 1) -> S]
  BY <1>2 DEF Erase
<1>4. Len(s) - 1 \in Nat
  BY <1>1
<1>. QED
  BY <1>3, <1>4

\* Appending a buffer adds its slot.
LEMMA SlotsOfAppend ==
    ASSUME NEW S, NEW q \in Seq(S), NEW e \in S
    PROVE  SlotsOf(Append(q, e)) = SlotsOf(q) \cup {e.slot}
<1>1. DOMAIN q = 1 .. Len(q) /\ DOMAIN Append(q, e) = 1 .. (Len(q) + 1)
  OBVIOUS
<1>2. \A i \in DOMAIN q : Append(q, e)[i] = q[i]
  OBVIOUS
<1>3. Append(q, e)[Len(q) + 1] = e
  OBVIOUS
<1>. QED
  BY <1>1, <1>2, <1>3 DEF SlotsOf

\* A new slot keeps the slots distinct.
LEMMA DistinctAppend ==
    ASSUME NEW S, NEW q \in Seq(S), NEW e \in S,
           OwnsDistinctSlots(q), e.slot \notin SlotsOf(q)
    PROVE  OwnsDistinctSlots(Append(q, e))
<1>1. DOMAIN q = 1 .. Len(q) /\ DOMAIN Append(q, e) = 1 .. (Len(q) + 1)
  OBVIOUS
<1>2. \A i \in DOMAIN q : Append(q, e)[i] = q[i] /\ q[i].slot # e.slot
  BY DEF SlotsOf
<1>3. Append(q, e)[Len(q) + 1] = e
  OBVIOUS
<1>. QED
  BY <1>1, <1>2, <1>3 DEF OwnsDistinctSlots

\* Removing the first buffer removes its slot and no other.
LEMMA SlotsOfTail ==
    ASSUME NEW S, NEW q \in Seq(S), q # <<>>, OwnsDistinctSlots(q)
    PROVE  /\ Head(q) \in S /\ Tail(q) \in Seq(S)
           /\ SlotsOf(q) = SlotsOf(Tail(q)) \cup {Head(q).slot}
           /\ Head(q).slot \notin SlotsOf(Tail(q))
           /\ OwnsDistinctSlots(Tail(q))
<1>1. /\ Head(q) = q[1] /\ 1 \in DOMAIN q /\ Tail(q) \in Seq(S) /\ Head(q) \in S
      /\ DOMAIN q = 1 .. Len(q) /\ DOMAIN Tail(q) = 1 .. (Len(q) - 1) /\ Len(q) \in Nat
  OBVIOUS
<1>2. \A i \in DOMAIN Tail(q) : i + 1 \in DOMAIN q /\ i + 1 # 1 /\ Tail(q)[i] = q[i + 1]
  OBVIOUS
<1>3. \A j \in DOMAIN q : j # 1 => j - 1 \in DOMAIN Tail(q) /\ Tail(q)[j - 1] = q[j]
  <2>. TAKE j \in DOMAIN q
  <2>. HAVE j # 1
  <2>1. j - 1 \in DOMAIN Tail(q) /\ (j - 1) + 1 = j
    BY <1>1
  <2>. QED
    BY <2>1, <1>2
<1>4. SlotsOf(q) = SlotsOf(Tail(q)) \cup {Head(q).slot}
  <2>1. ASSUME NEW x \in SlotsOf(q) PROVE x \in SlotsOf(Tail(q)) \cup {Head(q).slot}
    <3>1. PICK j \in DOMAIN q : x = q[j].slot
      BY <2>1 DEF SlotsOf
    <3>2. CASE j = 1
      BY <3>1, <3>2, <1>1
    <3>3. CASE j # 1
      BY <3>1, <3>3, <1>3 DEF SlotsOf
    <3>. QED
      BY <3>2, <3>3
  <2>2. ASSUME NEW x \in SlotsOf(Tail(q)) PROVE x \in SlotsOf(q)
    <3>1. PICK i \in DOMAIN Tail(q) : x = Tail(q)[i].slot
      BY <2>2 DEF SlotsOf
    <3>. QED
      BY <3>1, <1>2 DEF SlotsOf
  <2>3. Head(q).slot \in SlotsOf(q)
    BY <1>1 DEF SlotsOf
  <2>. QED
    BY <2>1, <2>2, <2>3
<1>5. Head(q).slot \notin SlotsOf(Tail(q))
  BY <1>1, <1>2 DEF SlotsOf, OwnsDistinctSlots
<1>6. OwnsDistinctSlots(Tail(q))
  <2>1. \A i, j \in DOMAIN Tail(q) : i + 1 = j + 1 => i = j
    BY <1>1
  <2>. QED
    BY <1>2, <2>1 DEF OwnsDistinctSlots
<1>. QED
  BY <1>1, <1>4, <1>5, <1>6

-----------------------------------------------------------------------------
(* Type correctness.                                                       *)

\* The two halves of TypeOK: Zenon proves the flags, SMT the rest.
FlagsOK ==
    /\ opened \in BOOLEAN /\ configured \in BOOLEAN /\ draining \in BOOLEAN
    /\ retried \in BOOLEAN /\ failed \in BOOLEAN
DataOK ==
    /\ inputs \in [InputSlots -> Frames \cup {NoFrame}]
    /\ metadata \in Seq(Metadata) /\ pending \in Seq(PendingFrame)
    /\ devIn \in Seq(Frames)
    /\ devHold \subseteq InputSlots /\ devDone \subseteq InputSlots
    /\ devCap \subseteq CaptureSlots /\ devOut \in Seq(CaptureBuffer)
    /\ devCmd \in {"run", "stopping", "stopped"}
    /\ payload \in [CaptureSlots -> Frames \cup {NoFrame}]
    /\ pc \in {"idle", "inputs", "capture", "decide", "wait", "submit", "copy"}
    /\ op \in Ops \cup {"none"}
    /\ ret \in (Ops \cup {"none", "drain"}) \X Statuses
    /\ nextFrame \in 1 .. (MaxFrames + 1)
    /\ delivered \in Seq(Delivery) /\ accepted \subseteq Frames
    /\ faults \in Nat /\ skips \in Nat /\ opens \in Nat

\* TypeOK is the conjunction of its halves, now and after a step.
LEMMA TypeParts ==
    /\ TypeOK <=> FlagsOK /\ DataOK
    /\ TypeOK' <=> FlagsOK' /\ DataOK'
  BY DEF TypeOK, FlagsOK, DataOK

\* The initial state has the right types.
LEMMA TypeInit == Init => TypeOK
<1>. SUFFICES ASSUME Init PROVE FlagsOK /\ DataOK
  BY TypeParts
<1>1. FlagsOK
  BY Zenon DEF Init, FlagsOK
<1>2. DataOK
  BY EncoderConstants DEF Init, DataOK, Ops, Statuses
<1>. QED
  BY <1>1, <1>2

\* The flags stay Boolean.
LEMMA FlagsNext ==
    ASSUME TypeOK, [Next]_vars
    PROVE  FlagsOK'
<1>1. CASE Open
  BY <1>1 DEF TypeOK, FlagsOK, Open, Fault, CloseSession, call
<1>2. CASE Close
  BY <1>2 DEF TypeOK, FlagsOK, Close, CloseSession, call
<1>3. CASE CallQueueEncoderFrame
  BY <1>3 DEF TypeOK, FlagsOK, CallQueueEncoderFrame, EnterQueueEncoderFrame,
     MaySubmit, session, device, history
<1>4. CASE StartEncoderDrain
  BY <1>4 DEF TypeOK, FlagsOK, StartEncoderDrain, history
<1>5. CASE StartEncoderDrainFails
  BY <1>5 DEF TypeOK, FlagsOK, StartEncoderDrainFails, Fails, Fault, session, device
<1>6. CASE PumpLosesSlot
  BY <1>6 DEF TypeOK, FlagsOK, PumpLosesSlot, Return, session
<1>7. CASE IoctlFails
  BY <1>7 DEF TypeOK, FlagsOK, IoctlFails, Return, Fails, Fault, session, device
<1>8. CASE QueueBlocks
  BY <1>8 DEF TypeOK, FlagsOK, QueueBlocks, Return, InputsFull, MetadataFull,
     session, device, history
<1>9. CASE SubmitFrame
  BY <1>9 DEF TypeOK, FlagsOK, SubmitFrame, Return, ConfigureEncoder, FreeSlot
<1>10. CASE SubmitFails
  BY <1>10 DEF TypeOK, FlagsOK, SubmitFails, Return, Fault, ConfigureEncoder
<1>11. CASE DequeueFindsNothing
  BY <1>11 DEF TypeOK, FlagsOK, DequeueFindsNothing, Return, session, device,
     history
<1>12. CASE CopyEncoderFrame
  BY <1>12 DEF TypeOK, FlagsOK, CopyEncoderFrame, Return
<1>13. CASE CopyFails
  BY <1>13 DEF TypeOK, FlagsOK, CopyFails, Return, Fails, Fault, session, device
<1>14. CASE WaitForDeviceReady
  BY <1>14 DEF TypeOK, FlagsOK, WaitForDeviceReady, MetadataFull, session, device,
     history
<1>15. CASE WaitForDeviceTimeout
  BY <1>15 DEF TypeOK, FlagsOK, WaitForDeviceTimeout, Return, MetadataFull, session,
     device, history
<1>16. CASE RejectEncoderFrame \/
          (\E wait \in BOOLEAN : CallDequeueEncoderFrame(wait)) \/
          DequeueUnconfigured \/ DequeueEncoderInputs \/ TakePayload \/
          TakeEmptyLast \/ RequeueEmpty \/ CaptureDrained \/ QueueWaits \/
          QueueProceeds \/ DequeueHasFrame \/ DequeueWaits \/ DriverReleasesInput \/
          DriverEncodes \/ DriverSkipsFrame \/ DriverEndsDrain \/ UNCHANGED vars
  <2>1. UNCHANGED <<opened, configured, draining, retried, failed>>
    BY <1>16 DEF RejectEncoderFrame, CallDequeueEncoderFrame, DequeueUnconfigured,
       DequeueEncoderInputs, TakePayload, TakeEmptyLast, RequeueEmpty,
       CaptureDrained, QueueWaits, QueueProceeds, DequeueHasFrame, DequeueWaits,
       DriverReleasesInput, DriverEncodes, DriverSkipsFrame, DriverEndsDrain, GoTo,
       vars, session, device, call, history
  <2>. QED
    BY <2>1 DEF TypeOK, FlagsOK
<1>. QED
  BY <1>1, <1>2, <1>3, <1>4, <1>5, <1>6, <1>7, <1>8, <1>9, <1>10, <1>11, <1>12,
     <1>13, <1>14, <1>15, <1>16
  DEF Next, Calls, SessionSteps, Pump, QueueSteps, DequeueSteps, WaitSteps, Driver

\* Every queue, slot set and history keeps its type.
LEMMA DataNext ==
    ASSUME TypeOK, PointInCall, [Next]_vars
    PROVE  DataOK'
<1>1. CASE Open
  BY <1>1 DEF TypeOK, DataOK, Ops, Statuses, Open, Fault, CloseSession, call
<1>2. CASE Close
  BY <1>2 DEF TypeOK, DataOK, Ops, Statuses, Close, CloseSession, call
<1>3. CASE CallQueueEncoderFrame
  BY <1>3 DEF TypeOK, DataOK, Ops, Statuses, CallQueueEncoderFrame,
     EnterQueueEncoderFrame, MaySubmit, session, device, history
<1>4. CASE RejectEncoderFrame
  BY <1>4 DEF TypeOK, DataOK, Ops, Statuses, RejectEncoderFrame, MaySubmit, session,
     device, history
<1>5. CASE \E wait \in BOOLEAN : CallDequeueEncoderFrame(wait)
  BY <1>5 DEF TypeOK, DataOK, Ops, Statuses, CallDequeueEncoderFrame, session,
     device, history
<1>6. CASE DequeueUnconfigured
  BY <1>6 DEF TypeOK, DataOK, Ops, Statuses, DequeueUnconfigured, session, device,
     history
<1>7. CASE StartEncoderDrain
  <2>1. [slot |-> 0, frame |-> NoFrame, eos |-> TRUE] \in PendingFrame
    BY EncoderConstants DEF PendingFrame, CaptureSlots
  <2>2. pending' \in Seq(PendingFrame)
    <3>1. pending \in Seq(PendingFrame)
      BY DEF TypeOK
    <3>2. \/ pending' = pending
          \/ pending' = Append(pending, [slot |-> 0, frame |-> NoFrame, eos |-> TRUE])
      BY <1>7 DEF StartEncoderDrain
    <3>. QED
      BY <2>1, <3>1, <3>2, AppendProperties
  <2>. QED
    BY <1>7, <2>2 DEF TypeOK, DataOK, StartEncoderDrain, Ops, Statuses, history
<1>8. CASE StartEncoderDrainFails
  BY <1>8 DEF TypeOK, DataOK, Ops, Statuses, StartEncoderDrainFails, Fails, Fault,
     session, device
<1>9. CASE DequeueEncoderInputs
  BY <1>9 DEF TypeOK, DataOK, Ops, Statuses, DequeueEncoderInputs, GoTo, history
<1>10. CASE TakePayload
  <2>1. PICK i \in DOMAIN metadata :
           /\ metadata' = Erase(metadata, i)
           /\ pending' = Append(pending, [slot |-> Head(devOut).slot,
                                          frame |-> metadata[i].frame,
                                          eos |-> Head(devOut).last])
    BY <1>10 DEF TakePayload
  <2>2. metadata' \in Seq(Metadata)
    BY <2>1, EraseShrinks DEF TypeOK
  <2>3. devOut' \in Seq(CaptureBuffer) /\ Head(devOut) \in CaptureBuffer
    BY <1>10 DEF TypeOK, TakePayload
  <2>4. metadata[i] \in Metadata
    BY <2>1 DEF TypeOK
  <2>5. [slot |-> Head(devOut).slot, frame |-> metadata[i].frame,
         eos |-> Head(devOut).last] \in PendingFrame
    BY <2>3, <2>4 DEF CaptureBuffer, Metadata, PendingFrame
  <2>6. pending' \in Seq(PendingFrame)
    BY <2>1, <2>5 DEF TypeOK
  <2>. QED
    BY <1>10, <2>2, <2>3, <2>6 DEF TypeOK, DataOK, TakePayload, call, history
<1>11. CASE TakeEmptyLast
  <2>1. devOut' \in Seq(CaptureBuffer) /\ Head(devOut) \in CaptureBuffer
    BY <1>11 DEF TypeOK, TakeEmptyLast
  <2>2. [slot |-> Head(devOut).slot, frame |-> NoFrame, eos |-> TRUE] \in PendingFrame
    BY <2>1 DEF CaptureBuffer, PendingFrame
  <2>3. pending' \in Seq(PendingFrame)
    BY <1>11, <2>2 DEF TypeOK, TakeEmptyLast
  <2>. QED
    BY <1>11, <2>1, <2>3 DEF TypeOK, DataOK, TakeEmptyLast, call, history
<1>12. CASE RequeueEmpty
  <2>1. devOut' \in Seq(CaptureBuffer) /\ Head(devOut) \in CaptureBuffer
    BY <1>12 DEF TypeOK, RequeueEmpty
  <2>2. devCap' \subseteq CaptureSlots
    BY <1>12, <2>1 DEF TypeOK, RequeueEmpty, CaptureBuffer
  <2>. QED
    BY <1>12, <2>1, <2>2 DEF TypeOK, DataOK, RequeueEmpty, session, call, history
<1>13. CASE PumpLosesSlot
  <2>1. devOut' \in Seq(CaptureBuffer) /\ faults' \in Nat
    BY <1>13 DEF TypeOK, PumpLosesSlot
  <2>. QED
    BY <1>13, <2>1 DEF TypeOK, DataOK, PumpLosesSlot, Return, Ops, Statuses, session
<1>14. CASE CaptureDrained
  BY <1>14 DEF TypeOK, DataOK, Ops, Statuses, CaptureDrained, GoTo, session, device,
     history
<1>15. CASE IoctlFails
  BY <1>15 DEF TypeOK, DataOK, Ops, Statuses, IoctlFails, Return, Fails, Fault,
     session, device
<1>16. CASE QueueBlocks
  BY <1>16 DEF TypeOK, DataOK, Ops, Statuses, QueueBlocks, Return, InputsFull,
     MetadataFull, session, device, history
<1>17. CASE QueueWaits
  BY <1>17 DEF TypeOK, DataOK, Ops, Statuses, QueueWaits, GoTo, InputsFull,
     MetadataFull, session, device, history
<1>18. CASE QueueProceeds
  BY <1>18 DEF TypeOK, DataOK, Ops, Statuses, QueueProceeds, GoTo, InputsFull,
     MetadataFull, session, device, history
<1>19. CASE SubmitFrame
  <2>1. nextFrame \in Frames
    BY <1>19, EncoderConstants DEF TypeOK, PointInCall, SubmitFrame, Frames
  <2>2. /\ devHold' \subseteq InputSlots
        /\ inputs' \in [InputSlots -> Frames \cup {NoFrame}]
    BY <1>19, <2>1 DEF TypeOK, SubmitFrame
  <2>3. devIn' \in Seq(Frames) /\ accepted' \subseteq Frames
    BY <1>19, <2>1 DEF TypeOK, SubmitFrame
  <2>4. [pts |-> PtsOf[nextFrame], frame |-> nextFrame] \in Metadata
    BY <2>1, EncoderConstants DEF Metadata
  <2>5. metadata' \in Seq(Metadata)
    BY <1>19, <2>4 DEF TypeOK, SubmitFrame
  <2>6. devCap' \subseteq CaptureSlots
    BY <1>19 DEF TypeOK, SubmitFrame, ConfigureEncoder
  <2>7. nextFrame' \in 1 .. (MaxFrames + 1)
    BY <1>19, <2>1, EncoderConstants DEF SubmitFrame, Frames
  <2>. QED
    BY <1>19, <2>2, <2>3, <2>5, <2>6, <2>7
    DEF TypeOK, DataOK, SubmitFrame, Return, Ops, Statuses
<1>20. CASE SubmitFails
  BY <1>20 DEF TypeOK, DataOK, Ops, Statuses, SubmitFails, Return, Fault,
     ConfigureEncoder
<1>21. CASE DequeueHasFrame
  BY <1>21 DEF TypeOK, DataOK, Ops, Statuses, DequeueHasFrame, GoTo, session,
     device, history
<1>22. CASE DequeueWaits
  BY <1>22 DEF TypeOK, DataOK, Ops, Statuses, DequeueWaits, GoTo, session, device,
     history
<1>23. CASE DequeueFindsNothing
  BY <1>23 DEF TypeOK, DataOK, Ops, Statuses, DequeueFindsNothing, Return, session,
     device, history
<1>24. CASE CopyEncoderFrame
  <2>1. Head(pending) \in PendingFrame /\ pending' \in Seq(PendingFrame)
    BY <1>24 DEF TypeOK, PointInCall, CopyEncoderFrame
  <2>2. devCap' \subseteq CaptureSlots
    BY <1>24, <2>1 DEF TypeOK, CopyEncoderFrame, PendingFrame
  <2>3. PICK c \in Frames \cup {NoFrame} :
           delivered' = Append(delivered, [index |-> Head(pending).frame,
                                           eos |-> Head(pending).eos, content |-> c])
    <3>1. payload[Head(pending).slot] \in Frames \cup {NoFrame}
      BY <2>1 DEF TypeOK, PendingFrame
    <3>. QED
      BY <1>24, <3>1 DEF CopyEncoderFrame
  <2>4. [index |-> Head(pending).frame, eos |-> Head(pending).eos, content |-> c]
            \in Delivery
    BY <2>1, <2>3 DEF PendingFrame, Delivery
  <2>5. delivered' \in Seq(Delivery)
    BY <2>3, <2>4 DEF TypeOK
  <2>. QED
    BY <1>24, <2>1, <2>2, <2>5 DEF TypeOK, DataOK, CopyEncoderFrame, Return, Ops, Statuses
<1>25. CASE CopyFails
  BY <1>25 DEF TypeOK, DataOK, Ops, Statuses, CopyFails, Return, Fails, Fault,
     session, device
<1>26. CASE WaitForDeviceReady
  BY <1>26 DEF TypeOK, DataOK, Ops, Statuses, WaitForDeviceReady, MetadataFull,
     session, device, history
<1>27. CASE WaitForDeviceTimeout
  BY <1>27 DEF TypeOK, DataOK, Ops, Statuses, WaitForDeviceTimeout, Return,
     MetadataFull, session, device, history
<1>28. CASE DriverReleasesInput
  BY <1>28 DEF TypeOK, DataOK, Ops, Statuses, DriverReleasesInput, session, call,
     history
<1>29. CASE DriverEncodes
  <2>1. PICK c \in devCap, last \in BOOLEAN :
           /\ devCap' = devCap \ {c}
           /\ devOut' = Append(devOut, Filled(c, Head(devIn), FALSE, last))
           /\ payload' = [payload EXCEPT ![c] = Head(devIn)]
    BY <1>29 DEF DriverEncodes
  <2>2. Head(devIn) \in Frames /\ devIn' \in Seq(Frames) /\ skips' \in Nat
    BY <1>29 DEF TypeOK, DriverEncodes, history
  <2>3. Filled(c, Head(devIn), FALSE, last) \in CaptureBuffer
    BY <2>1, <2>2, EncoderConstants DEF TypeOK, Filled, CaptureBuffer, Frames, NoFrame
  <2>4. devOut' \in Seq(CaptureBuffer)
    <3>1. devOut \in Seq(CaptureBuffer)
      BY DEF TypeOK
    <3>. QED
      BY <2>1, <2>3, <3>1, AppendProperties
  <2>5. /\ payload' \in [CaptureSlots -> Frames \cup {NoFrame}]
        /\ devCap' \subseteq CaptureSlots
    BY <2>1, <2>2 DEF TypeOK
  <2>. QED
    BY <1>29, <2>2, <2>4, <2>5 DEF TypeOK, DataOK, DriverEncodes, session, call, history
<1>30. CASE DriverSkipsFrame
  <2>1. PICK c \in devCap :
           /\ devCap' = devCap \ {c}
           /\ devOut' = Append(devOut, Filled(c, Head(devIn), TRUE, FALSE))
           /\ payload' = [payload EXCEPT ![c] = NoFrame]
    BY <1>30 DEF DriverSkipsFrame
  <2>2. Head(devIn) \in Frames /\ devIn' \in Seq(Frames) /\ skips' \in Nat
    BY <1>30 DEF TypeOK, DriverSkipsFrame, history
  <2>3. Filled(c, Head(devIn), TRUE, FALSE) \in CaptureBuffer
    BY <2>1, <2>2, EncoderConstants DEF TypeOK, Filled, CaptureBuffer, Frames, NoFrame
  <2>4. devOut' \in Seq(CaptureBuffer)
    <3>1. devOut \in Seq(CaptureBuffer)
      BY DEF TypeOK
    <3>. QED
      BY <2>1, <2>3, <3>1, AppendProperties
  <2>5. /\ payload' \in [CaptureSlots -> Frames \cup {NoFrame}]
        /\ devCap' \subseteq CaptureSlots
    BY <2>1, <2>2 DEF TypeOK
  <2>. QED
    BY <1>30, <2>2, <2>4, <2>5 DEF TypeOK, DataOK, DriverSkipsFrame, session, call
<1>31. CASE DriverEndsDrain
  <2>1. PICK c \in devCap :
           /\ devCap' = devCap \ {c}
           /\ devOut' = Append(devOut, Filled(c, NoFrame, TRUE, TRUE))
           /\ payload' = [payload EXCEPT ![c] = NoFrame]
    BY <1>31 DEF DriverEndsDrain
  <2>2. devIn' \in Seq(Frames)
    BY <1>31 DEF TypeOK, DriverEndsDrain
  <2>3. Filled(c, NoFrame, TRUE, TRUE) \in CaptureBuffer
    BY <2>1, EncoderConstants DEF TypeOK, Filled, CaptureBuffer, Frames, NoFrame
  <2>4. devOut' \in Seq(CaptureBuffer)
    <3>1. devOut \in Seq(CaptureBuffer)
      BY DEF TypeOK
    <3>. QED
      BY <2>1, <2>3, <3>1, AppendProperties
  <2>5. /\ payload' \in [CaptureSlots -> Frames \cup {NoFrame}]
        /\ devCap' \subseteq CaptureSlots
    BY <2>1 DEF TypeOK
  <2>. QED
    BY <1>31, <2>2, <2>4, <2>5 DEF TypeOK, DataOK, DriverEndsDrain, session, call, history
<1>32. CASE UNCHANGED vars
  <2>1. UNCHANGED <<inputs, metadata, pending, devIn, devHold, devDone, devCap,
                    devOut, devCmd, payload, pc, op, ret, nextFrame, delivered,
                    accepted, faults, skips, opens>>
    BY <1>32 DEF vars, session, device, call, history
  <2>. QED
    BY <2>1 DEF TypeOK, DataOK, Ops, Statuses
<1>. QED
  BY <1>1, <1>2, <1>3, <1>4, <1>5, <1>6, <1>7, <1>8, <1>9, <1>10, <1>11, <1>12,
     <1>13, <1>14, <1>15, <1>16, <1>17, <1>18, <1>19, <1>20, <1>21, <1>22, <1>23,
     <1>24, <1>25, <1>26, <1>27, <1>28, <1>29, <1>30, <1>31, <1>32
  DEF Next, Calls, SessionSteps, Pump, QueueSteps, DequeueSteps, WaitSteps, Driver

-----------------------------------------------------------------------------
(* The inductive invariant, part by part.  The last cases of each proof are  *)
(* the actions that leave the part's variables alone.                      *)

\* The work thread reaches a point only through the checks before it.
LEMMA PointNext ==
    ASSUME TypeOK, PointInCall, UnconfiguredIsEmpty, [Next]_vars
    PROVE  PointInCall'
<1>1. CASE Open
  BY <1>1, EncoderConstants DEF TypeOK, PointInCall, UnconfiguredIsEmpty, Open,
     Fault, CloseSession, call
<1>2. CASE Close
  BY <1>2, EncoderConstants DEF TypeOK, PointInCall, UnconfiguredIsEmpty, Close,
     CloseSession, call
<1>3. CASE CallQueueEncoderFrame
  BY <1>3, EncoderConstants DEF TypeOK, PointInCall, UnconfiguredIsEmpty,
     CallQueueEncoderFrame, EnterQueueEncoderFrame, MaySubmit, session, device,
     history
<1>4. CASE \E wait \in BOOLEAN : CallDequeueEncoderFrame(wait)
  BY <1>4, EncoderConstants DEF TypeOK, PointInCall, UnconfiguredIsEmpty,
     CallDequeueEncoderFrame, session, device, history
<1>5. CASE StartEncoderDrain
  BY <1>5, EncoderConstants DEF TypeOK, PointInCall, UnconfiguredIsEmpty,
     StartEncoderDrain, history
<1>6. CASE DequeueEncoderInputs
  BY <1>6, EncoderConstants DEF TypeOK, PointInCall, UnconfiguredIsEmpty,
     DequeueEncoderInputs, GoTo, history
<1>7. CASE TakePayload
  BY <1>7, EncoderConstants DEF TypeOK, PointInCall, UnconfiguredIsEmpty,
     TakePayload, call, history
<1>8. CASE TakeEmptyLast
  BY <1>8, EncoderConstants DEF TypeOK, PointInCall, UnconfiguredIsEmpty,
     TakeEmptyLast, call, history
<1>9. CASE PumpLosesSlot
  BY <1>9, EncoderConstants DEF TypeOK, PointInCall, UnconfiguredIsEmpty,
     PumpLosesSlot, Return, session
<1>10. CASE CaptureDrained
  BY <1>10, EncoderConstants DEF TypeOK, PointInCall, UnconfiguredIsEmpty,
     CaptureDrained, GoTo, session, device, history
<1>11. CASE IoctlFails
  BY <1>11, EncoderConstants DEF TypeOK, PointInCall, UnconfiguredIsEmpty,
     IoctlFails, Return, Fails, Fault, session, device
<1>12. CASE QueueBlocks
  BY <1>12, EncoderConstants DEF TypeOK, PointInCall, UnconfiguredIsEmpty,
     QueueBlocks, Return, InputsFull, MetadataFull, session, device, history
<1>13. CASE QueueWaits
  BY <1>13, EncoderConstants DEF TypeOK, PointInCall, UnconfiguredIsEmpty,
     QueueWaits, GoTo, InputsFull, MetadataFull, session, device, history
<1>14. CASE QueueProceeds
  BY <1>14, EncoderConstants DEF TypeOK, PointInCall, UnconfiguredIsEmpty,
     QueueProceeds, GoTo, InputsFull, MetadataFull, session, device, history
<1>15. CASE SubmitFrame
  BY <1>15, EncoderConstants DEF TypeOK, PointInCall, UnconfiguredIsEmpty,
     SubmitFrame, Return, ConfigureEncoder, FreeSlot
<1>16. CASE SubmitFails
  BY <1>16, EncoderConstants DEF TypeOK, PointInCall, UnconfiguredIsEmpty,
     SubmitFails, Return, Fault, session, device
<1>17. CASE DequeueHasFrame
  BY <1>17, EncoderConstants DEF TypeOK, PointInCall, UnconfiguredIsEmpty,
     DequeueHasFrame, GoTo, session, device, history
<1>18. CASE DequeueWaits
  BY <1>18, EncoderConstants DEF TypeOK, PointInCall, UnconfiguredIsEmpty,
     DequeueWaits, GoTo, session, device, history
<1>19. CASE DequeueFindsNothing
  BY <1>19, EncoderConstants DEF TypeOK, PointInCall, UnconfiguredIsEmpty,
     DequeueFindsNothing, Return, session, device, history
<1>20. CASE CopyEncoderFrame
  BY <1>20, EncoderConstants DEF TypeOK, PointInCall, UnconfiguredIsEmpty,
     CopyEncoderFrame, Return
<1>21. CASE CopyFails
  BY <1>21, EncoderConstants DEF TypeOK, PointInCall, UnconfiguredIsEmpty,
     CopyFails, Return, Fails, Fault, session, device
<1>22. CASE WaitForDeviceReady
  BY <1>22, EncoderConstants DEF TypeOK, PointInCall, UnconfiguredIsEmpty,
     WaitForDeviceReady, MetadataFull, session, device, history
<1>23. CASE WaitForDeviceTimeout
  BY <1>23, EncoderConstants DEF TypeOK, PointInCall, UnconfiguredIsEmpty,
     WaitForDeviceTimeout, Return, MetadataFull, session, device, history
<1>24. CASE RejectEncoderFrame \/ DequeueUnconfigured \/ StartEncoderDrainFails \/
          RequeueEmpty \/ DriverReleasesInput \/ DriverEncodes \/ DriverSkipsFrame
          \/ DriverEndsDrain \/ UNCHANGED vars
  <2>1. UNCHANGED <<configured, draining, metadata, pending, pc, op, nextFrame>>
    BY <1>24 DEF RejectEncoderFrame, DequeueUnconfigured, StartEncoderDrainFails,
       RequeueEmpty, DriverReleasesInput, DriverEncodes, DriverSkipsFrame,
       DriverEndsDrain, Fails, Fault, vars, session, device, call, history
  <2>. QED
    BY <2>1 DEF TypeOK, PointInCall, UnconfiguredIsEmpty
<1>. QED
  BY <1>1, <1>2, <1>3, <1>4, <1>5, <1>6, <1>7, <1>8, <1>9, <1>10, <1>11, <1>12,
     <1>13, <1>14, <1>15, <1>16, <1>17, <1>18, <1>19, <1>20, <1>21, <1>22, <1>23,
     <1>24
  DEF Next, Calls, SessionSteps, Pump, QueueSteps, DequeueSteps, WaitSteps, Driver

\* Nothing is queued before the first frame configures the encoder.
LEMMA UnconfiguredNext ==
    ASSUME TypeOK, PointInCall, UnconfiguredIsEmpty, [Next]_vars
    PROVE  UnconfiguredIsEmpty'
<1>1. CASE Open
  BY <1>1 DEF TypeOK, PointInCall, UnconfiguredIsEmpty, Open, Fault, CloseSession,
     call
<1>2. CASE Close
  BY <1>2 DEF TypeOK, PointInCall, UnconfiguredIsEmpty, Close, CloseSession, call
<1>3. CASE StartEncoderDrain
  BY <1>3 DEF TypeOK, PointInCall, UnconfiguredIsEmpty, StartEncoderDrain, history
<1>4. CASE TakePayload
  BY <1>4 DEF TypeOK, PointInCall, UnconfiguredIsEmpty, TakePayload, call, history
<1>5. CASE TakeEmptyLast
  BY <1>5 DEF TypeOK, PointInCall, UnconfiguredIsEmpty, TakeEmptyLast, call, history
<1>6. CASE RequeueEmpty
  BY <1>6 DEF TypeOK, PointInCall, UnconfiguredIsEmpty, RequeueEmpty, session, call,
     history
<1>7. CASE PumpLosesSlot
  BY <1>7 DEF TypeOK, PointInCall, UnconfiguredIsEmpty, PumpLosesSlot, Return,
     session
<1>8. CASE SubmitFrame
  BY <1>8 DEF TypeOK, PointInCall, UnconfiguredIsEmpty, SubmitFrame, Return,
     ConfigureEncoder, FreeSlot
<1>9. CASE CopyEncoderFrame
  BY <1>9 DEF TypeOK, PointInCall, UnconfiguredIsEmpty, CopyEncoderFrame, Return
<1>10. CASE DriverEncodes
  BY <1>10 DEF TypeOK, PointInCall, UnconfiguredIsEmpty, DriverEncodes, Filled,
     session, call, history
<1>11. CASE DriverSkipsFrame
  BY <1>11 DEF TypeOK, PointInCall, UnconfiguredIsEmpty, DriverSkipsFrame, Filled,
     session, call
<1>12. CASE DriverEndsDrain
  BY <1>12 DEF TypeOK, PointInCall, UnconfiguredIsEmpty, DriverEndsDrain, Filled,
     session, call, history
<1>13. CASE SubmitFails
  BY <1>13 DEF UnconfiguredIsEmpty, SubmitFails, ConfigureEncoder
<1>14. CASE CallQueueEncoderFrame \/ RejectEncoderFrame \/
          (\E wait \in BOOLEAN : CallDequeueEncoderFrame(wait)) \/
          DequeueUnconfigured \/ StartEncoderDrainFails \/ DequeueEncoderInputs \/
          CaptureDrained \/ IoctlFails \/ QueueBlocks \/ QueueWaits \/ QueueProceeds
          \/ DequeueHasFrame \/ DequeueWaits \/ DequeueFindsNothing
          \/ CopyFails \/ WaitForDeviceReady \/ WaitForDeviceTimeout \/
          DriverReleasesInput \/ UNCHANGED vars
  <2>1. UNCHANGED <<configured, draining, metadata, pending, devIn, devOut, devCmd>>
    BY <1>14 DEF CallQueueEncoderFrame, RejectEncoderFrame, CallDequeueEncoderFrame,
       DequeueUnconfigured, StartEncoderDrainFails, DequeueEncoderInputs,
       CaptureDrained, IoctlFails, QueueBlocks, QueueWaits, QueueProceeds,
       DequeueHasFrame, DequeueWaits, DequeueFindsNothing, CopyFails,
       WaitForDeviceReady, WaitForDeviceTimeout, DriverReleasesInput,
       EnterQueueEncoderFrame, Fails, Fault, GoTo, Return, vars, session, device,
       call, history
  <2>. QED
    BY <2>1 DEF TypeOK, PointInCall, UnconfiguredIsEmpty
<1>. QED
  BY <1>1, <1>2, <1>3, <1>4, <1>5, <1>6, <1>7, <1>8, <1>9, <1>10, <1>11, <1>12,
     <1>13, <1>14
  DEF Next, Calls, SessionSteps, Pump, QueueSteps, DequeueSteps, WaitSteps, Driver

\* QBUF pins the slot that input DQBUF releases.
LEMMA InputsNext ==
    ASSUME TypeOK, PointInCall, InputsPinned, [Next]_vars
    PROVE  InputsPinned'
<1>1. CASE Open
  BY <1>1 DEF TypeOK, PointInCall, InputsPinned, NoFrame, Open, Fault, CloseSession,
     call
<1>2. CASE Close
  BY <1>2 DEF TypeOK, PointInCall, InputsPinned, NoFrame, Close, CloseSession, call
<1>3. CASE DequeueEncoderInputs
  BY <1>3 DEF TypeOK, PointInCall, InputsPinned, NoFrame, DequeueEncoderInputs,
     GoTo, history
<1>4. CASE SubmitFrame
  <2>1. PICK s \in InputSlots : /\ inputs[s] = NoFrame
                                /\ devHold' = devHold \cup {s}
                                /\ inputs' = [inputs EXCEPT ![s] = nextFrame]
    BY <1>4 DEF SubmitFrame, FreeSlot
  <2>2. devDone' = devDone
    BY <1>4 DEF SubmitFrame
  <2>3. nextFrame # NoFrame
    BY EncoderConstants DEF TypeOK, NoFrame
  <2>4. s \notin devHold \cup devDone
    BY <2>1 DEF InputsPinned
  <2>5. inputs'[s] = nextFrame /\ \A t \in InputSlots : t # s => inputs'[t] = inputs[t]
    BY <2>1 DEF TypeOK
  <2>. QED
    BY <2>1, <2>2, <2>3, <2>4, <2>5 DEF InputsPinned
<1>5. CASE DriverReleasesInput
  BY <1>5 DEF TypeOK, PointInCall, InputsPinned, NoFrame, DriverReleasesInput,
     session, call, history
<1>6. CASE CallQueueEncoderFrame \/ RejectEncoderFrame \/
          (\E wait \in BOOLEAN : CallDequeueEncoderFrame(wait)) \/
          DequeueUnconfigured \/ StartEncoderDrain \/ StartEncoderDrainFails \/
          TakePayload \/ TakeEmptyLast \/ RequeueEmpty \/ PumpLosesSlot \/
          CaptureDrained \/ IoctlFails \/ QueueBlocks \/ QueueWaits \/ QueueProceeds
          \/ SubmitFails \/ DequeueHasFrame \/ DequeueWaits \/ DequeueFindsNothing
          \/ CopyEncoderFrame \/ CopyFails \/ WaitForDeviceReady \/
          WaitForDeviceTimeout \/ DriverEncodes \/ DriverSkipsFrame \/
          DriverEndsDrain \/ UNCHANGED vars
  <2>1. UNCHANGED <<inputs, devHold, devDone>>
    BY <1>6 DEF CallQueueEncoderFrame, RejectEncoderFrame, CallDequeueEncoderFrame,
       DequeueUnconfigured, StartEncoderDrain, StartEncoderDrainFails, TakePayload,
       TakeEmptyLast, RequeueEmpty, PumpLosesSlot, CaptureDrained, IoctlFails,
       QueueBlocks, QueueWaits, QueueProceeds, SubmitFails, DequeueHasFrame,
       DequeueWaits, DequeueFindsNothing, CopyEncoderFrame, CopyFails,
       WaitForDeviceReady, WaitForDeviceTimeout, DriverEncodes, DriverSkipsFrame,
       DriverEndsDrain, EnterQueueEncoderFrame, Fails, Fault, Return, GoTo, vars,
       session, device, call, history
  <2>. QED
    BY <2>1 DEF TypeOK, PointInCall, InputsPinned, NoFrame
<1>. QED
  BY <1>1, <1>2, <1>3, <1>4, <1>5, <1>6
  DEF Next, Calls, SessionSteps, Pump, QueueSteps, DequeueSteps, WaitSteps, Driver

\* An entry is added only below the bound checked at "decide".
LEMMA MetadataNext ==
    ASSUME TypeOK, PointInCall, UnconfiguredIsEmpty, MetadataBounded, [Next]_vars
    PROVE  MetadataBounded'
<1>1. CASE Open
  BY <1>1, EncoderConstants DEF TypeOK, PointInCall, UnconfiguredIsEmpty,
     MetadataBounded, Open, Fault, CloseSession, call
<1>2. CASE Close
  BY <1>2, EncoderConstants DEF TypeOK, PointInCall, UnconfiguredIsEmpty,
     MetadataBounded, Close, CloseSession, call
<1>3. CASE TakePayload
  <2>1. PICK i \in DOMAIN metadata : metadata' = Erase(metadata, i)
    BY <1>3 DEF TakePayload
  <2>2. metadata \in Seq(Metadata)
    BY DEF TypeOK
  <2>3. Len(metadata') = Len(metadata) - 1 /\ Len(metadata) \in Nat
    BY <2>1, <2>2, EraseShrinks
  <2>. QED
    BY <2>3, EncoderConstants DEF MetadataBounded
<1>4. CASE SubmitFrame
  BY <1>4, EncoderConstants DEF TypeOK, PointInCall, UnconfiguredIsEmpty,
     MetadataBounded, SubmitFrame, Return, ConfigureEncoder, FreeSlot
<1>5. CASE CallQueueEncoderFrame \/ RejectEncoderFrame \/
          (\E wait \in BOOLEAN : CallDequeueEncoderFrame(wait)) \/
          DequeueUnconfigured \/ StartEncoderDrain \/ StartEncoderDrainFails \/
          DequeueEncoderInputs \/ TakeEmptyLast \/ RequeueEmpty \/ PumpLosesSlot \/
          CaptureDrained \/ IoctlFails \/ QueueBlocks \/ QueueWaits \/ QueueProceeds
          \/ SubmitFails \/ DequeueHasFrame \/ DequeueWaits \/ DequeueFindsNothing
          \/ CopyEncoderFrame \/ CopyFails \/ WaitForDeviceReady \/
          WaitForDeviceTimeout \/ DriverReleasesInput \/ DriverEncodes \/
          DriverSkipsFrame \/ DriverEndsDrain \/ UNCHANGED vars
  <2>1. UNCHANGED <<metadata>>
    BY <1>5 DEF CallQueueEncoderFrame, RejectEncoderFrame, CallDequeueEncoderFrame,
       DequeueUnconfigured, StartEncoderDrain, StartEncoderDrainFails,
       DequeueEncoderInputs, TakeEmptyLast, RequeueEmpty, PumpLosesSlot,
       CaptureDrained, IoctlFails, QueueBlocks, QueueWaits, QueueProceeds,
       SubmitFails, DequeueHasFrame, DequeueWaits, DequeueFindsNothing,
       CopyEncoderFrame, CopyFails, WaitForDeviceReady, WaitForDeviceTimeout,
       DriverReleasesInput, DriverEncodes, DriverSkipsFrame, DriverEndsDrain,
       EnterQueueEncoderFrame, Fails, Fault, GoTo, Return, vars, session, device,
       call, history
  <2>. QED
    BY <2>1 DEF TypeOK, PointInCall, UnconfiguredIsEmpty, MetadataBounded
<1>. QED
  BY <1>1, <1>2, <1>3, <1>4, <1>5
  DEF Next, Calls, SessionSteps, Pump, QueueSteps, DequeueSteps, WaitSteps, Driver

\* A capture slot moves, with its buffer, from one place to the next.
LEMMA CaptureNext ==
    ASSUME TypeOK, PointInCall, UnconfiguredIsEmpty, CaptureSlotsConserved,
           [Next]_vars
    PROVE  CaptureSlotsConserved'
<1>1. CASE Open
  BY <1>1 DEF CaptureSlotsConserved, Open, CloseSession
<1>2. CASE Close
  BY <1>2 DEF CaptureSlotsConserved, Close, CloseSession
<1>3. CASE StartEncoderDrain
  BY <1>3 DEF CaptureSlotsConserved, StartEncoderDrain, history
<1>4. CASE StartEncoderDrainFails
  BY <1>4 DEF CaptureSlotsConserved, StartEncoderDrainFails, Fails, Fault, session,
     device
<1>5. CASE TakePayload
  <2>1. /\ configured /\ devOut \in Seq(CaptureBuffer) /\ devOut # <<>>
        /\ pending \in Seq(PendingFrame) /\ devOut' = Tail(devOut)
        /\ UNCHANGED <<configured, devCap, failed, delivered>>
    BY <1>5 DEF TypeOK, PointInCall, TakePayload, history
  <2>2. PICK i \in DOMAIN metadata :
           pending' = Append(pending, [slot |-> Head(devOut).slot,
                                       frame |-> metadata[i].frame,
                                       eos |-> Head(devOut).last])
    BY <1>5 DEF TakePayload
  <2>. DEFINE e == [slot |-> Head(devOut).slot, frame |-> metadata[i].frame,
               eos |-> Head(devOut).last]
  <2>3. /\ OwnsDistinctSlots(devOut) /\ OwnsDistinctSlots(pending)
        /\ Head(devOut) \in CaptureBuffer
        /\ SlotsOf(devOut) = SlotsOf(devOut') \cup {Head(devOut).slot}
        /\ Head(devOut).slot \notin SlotsOf(devOut')
        /\ OwnsDistinctSlots(devOut')
    BY <2>1, SlotsOfTail DEF CaptureSlotsConserved
  <2>4. e \in PendingFrame /\ e.slot = Head(devOut).slot
    <3>1. metadata[i] \in Metadata
      BY <2>2 DEF TypeOK
    <3>. QED
      BY <2>3, <3>1 DEF CaptureBuffer, Metadata, PendingFrame
  <2>. HIDE DEF e
  <2>5. e.slot \notin SlotsOf(pending)
    BY <2>1, <2>3, <2>4 DEF CaptureSlotsConserved
  <2>6. /\ SlotsOf(pending') = SlotsOf(pending) \cup {Head(devOut).slot}
        /\ OwnsDistinctSlots(pending')
    BY <2>1, <2>2, <2>3, <2>4, <2>5, SlotsOfAppend, DistinctAppend DEF e
  <2>. QED
    BY <2>1, <2>3, <2>6 DEF CaptureSlotsConserved
<1>6. CASE TakeEmptyLast
  <2>1. /\ configured /\ devOut \in Seq(CaptureBuffer) /\ devOut # <<>>
        /\ pending \in Seq(PendingFrame) /\ devOut' = Tail(devOut)
        /\ UNCHANGED <<configured, devCap, failed, delivered>>
    BY <1>6 DEF TypeOK, PointInCall, TakeEmptyLast, history
  <2>2. pending' = Append(pending, [slot |-> Head(devOut).slot, frame |-> NoFrame,
                                    eos |-> TRUE])
    BY <1>6 DEF TakeEmptyLast
  <2>. DEFINE e == [slot |-> Head(devOut).slot, frame |-> NoFrame, eos |-> TRUE]
  <2>3. /\ OwnsDistinctSlots(devOut) /\ OwnsDistinctSlots(pending)
        /\ Head(devOut) \in CaptureBuffer
        /\ SlotsOf(devOut) = SlotsOf(devOut') \cup {Head(devOut).slot}
        /\ Head(devOut).slot \notin SlotsOf(devOut')
        /\ OwnsDistinctSlots(devOut')
    BY <2>1, SlotsOfTail DEF CaptureSlotsConserved
  <2>4. e \in PendingFrame /\ e.slot = Head(devOut).slot
    BY <2>3 DEF CaptureBuffer, PendingFrame
  <2>. HIDE DEF e
  <2>5. e.slot \notin SlotsOf(pending)
    BY <2>1, <2>3, <2>4 DEF CaptureSlotsConserved
  <2>6. /\ SlotsOf(pending') = SlotsOf(pending) \cup {Head(devOut).slot}
        /\ OwnsDistinctSlots(pending')
    BY <2>1, <2>2, <2>3, <2>4, <2>5, SlotsOfAppend, DistinctAppend DEF e
  <2>. QED
    BY <2>1, <2>3, <2>6 DEF CaptureSlotsConserved
<1>7. CASE RequeueEmpty
  <2>1. /\ configured /\ devOut \in Seq(CaptureBuffer) /\ devOut # <<>>
        /\ devOut' = Tail(devOut) /\ devCap' = devCap \cup {Head(devOut).slot}
        /\ UNCHANGED <<configured, pending, failed, delivered>>
    BY <1>7 DEF TypeOK, PointInCall, RequeueEmpty, session, history
  <2>2. /\ SlotsOf(devOut) = SlotsOf(devOut') \cup {Head(devOut).slot}
        /\ Head(devOut).slot \notin SlotsOf(devOut')
        /\ OwnsDistinctSlots(devOut')
    BY <2>1, SlotsOfTail DEF CaptureSlotsConserved
  <2>. QED
    BY <2>1, <2>2 DEF CaptureSlotsConserved
<1>8. CASE PumpLosesSlot
  <2>1. /\ configured /\ devOut \in Seq(CaptureBuffer) /\ devOut # <<>>
        /\ devOut' = Tail(devOut) /\ failed' = TRUE
        /\ UNCHANGED <<configured, devCap, pending, delivered>>
    BY <1>8 DEF TypeOK, PointInCall, PumpLosesSlot, session
  <2>2. /\ SlotsOf(devOut) = SlotsOf(devOut') \cup {Head(devOut).slot}
        /\ OwnsDistinctSlots(devOut')
    BY <2>1, SlotsOfTail DEF CaptureSlotsConserved
  <2>. QED
    BY <2>1, <2>2 DEF CaptureSlotsConserved
<1>9. CASE IoctlFails
  BY <1>9 DEF CaptureSlotsConserved, IoctlFails, Return, Fails, Fault, session,
     device
<1>10. CASE SubmitFrame
  <2>1. UNCHANGED <<pending, devOut, delivered, failed, draining>>
    BY <1>10 DEF SubmitFrame
  <2>2. CASE configured
    BY <1>10, <2>1, <2>2 DEF CaptureSlotsConserved, SubmitFrame, ConfigureEncoder
  <2>3. CASE ~configured
    <3>1. devOut = <<>> /\ pending = <<>> /\ devCap' = CaptureSlots
      BY <1>10, <2>3 DEF PointInCall, UnconfiguredIsEmpty, SubmitFrame, ConfigureEncoder
    <3>. QED
      BY <2>1, <3>1 DEF CaptureSlotsConserved, SlotsOf, OwnsDistinctSlots
  <2>. QED
    BY <2>2, <2>3
<1>11. CASE SubmitFails
  <2>1. UNCHANGED <<pending, devOut, delivered, draining>> /\ failed' = TRUE
    BY <1>11 DEF SubmitFails
  <2>2. CASE UNCHANGED <<configured, devCap>>
    BY <2>1, <2>2 DEF CaptureSlotsConserved
  <2>3. CASE ~configured /\ ConfigureEncoder
    <3>1. devOut = <<>> /\ pending = <<>>
      BY <1>11, <2>3 DEF PointInCall, UnconfiguredIsEmpty, SubmitFails
    <3>. QED
      BY <2>1, <3>1 DEF CaptureSlotsConserved, SlotsOf, OwnsDistinctSlots
  <2>. QED
    BY <1>11, <2>2, <2>3 DEF SubmitFails
<1>12. CASE CopyEncoderFrame
  <2>. SUFFICES ASSUME configured PROVE CaptureSlotsConserved'
    BY <1>12 DEF CaptureSlotsConserved, CopyEncoderFrame
  <2>1. /\ pending \in Seq(PendingFrame) /\ pending # <<>> /\ pending' = Tail(pending)
        /\ devCap' = IF Head(pending).eos THEN devCap ELSE devCap \cup {Head(pending).slot}
        /\ UNCHANGED <<configured, devOut, failed>>
    BY <1>12 DEF TypeOK, PointInCall, CopyEncoderFrame
  <2>2. /\ SlotsOf(pending) = SlotsOf(pending') \cup {Head(pending).slot}
        /\ Head(pending).slot \notin SlotsOf(pending')
        /\ OwnsDistinctSlots(pending')
    BY <2>1, SlotsOfTail DEF CaptureSlotsConserved
  <2>3. PICK d : delivered' = Append(delivered, d) /\ d \in Delivery
                 /\ d.eos = Head(pending).eos
    <3>1. Head(pending) \in PendingFrame
      BY <2>1
    <3>2. payload[Head(pending).slot] \in Frames \cup {NoFrame}
      BY <3>1 DEF TypeOK, PendingFrame
    <3>. QED
      BY <1>12, <3>1, <3>2 DEF CopyEncoderFrame, PendingFrame, Delivery
  <2>4. delivered \in Seq(Delivery)
    BY DEF TypeOK
  <2>5. ASSUME \A i \in DOMAIN delivered' : ~delivered'[i].eos
        PROVE  ~Head(pending).eos /\ \A i \in DOMAIN delivered : ~delivered[i].eos
    <3>1. /\ DOMAIN delivered' = 1 .. Len(delivered) + 1 /\ DOMAIN delivered = 1 .. Len(delivered)
          /\ Len(delivered) \in Nat
      BY <2>3, <2>4
    <3>2. /\ delivered'[Len(delivered) + 1] = d
          /\ \A i \in 1 .. Len(delivered) : delivered'[i] = delivered[i]
      BY <2>3, <2>4
    <3>3. Len(delivered) + 1 \in DOMAIN delivered' /\ DOMAIN delivered \subseteq DOMAIN delivered'
      BY <3>1
    <3>4. ~delivered'[Len(delivered) + 1].eos
      BY <2>5, <3>3
    <3>5. \A i \in DOMAIN delivered : ~delivered[i].eos
      BY <2>5, <3>1, <3>2, <3>3
    <3>. QED
      BY <2>3, <3>2, <3>4, <3>5
  <2>. QED
    BY <2>1, <2>2, <2>5 DEF CaptureSlotsConserved
<1>13. CASE CopyFails
  BY <1>13 DEF CaptureSlotsConserved, CopyFails, Return, Fails, Fault, session,
     device
<1>14. CASE DriverEncodes
  <2>1. PICK c \in devCap, last \in BOOLEAN :
           /\ devCap' = devCap \ {c}
           /\ devOut' = Append(devOut, Filled(c, Head(devIn), FALSE, last))
    BY <1>14 DEF DriverEncodes
  <2>. DEFINE b == Filled(c, Head(devIn), FALSE, last)
  <2>2. b \in CaptureBuffer /\ b.slot = c
    <3>1. Head(devIn) \in Frames
      BY <1>14 DEF TypeOK, DriverEncodes
    <3>. QED
      BY <2>1, <3>1, EncoderConstants DEF TypeOK, Filled, CaptureBuffer, Frames, NoFrame
  <2>3. devOut' = Append(devOut, b)
    BY <2>1
  <2>. HIDE DEF b
  <2>4. devOut \in Seq(CaptureBuffer) /\ UNCHANGED <<configured, pending, failed, delivered>>
    BY <1>14 DEF TypeOK, DriverEncodes, session, history
  <2>. SUFFICES ASSUME configured PROVE CaptureSlotsConserved'
    BY <2>4 DEF CaptureSlotsConserved
  <2>5. OwnsDistinctSlots(devOut) /\ c \notin SlotsOf(devOut) /\ c \notin SlotsOf(pending)
    BY <2>1 DEF CaptureSlotsConserved
  <2>6. SlotsOf(devOut') = SlotsOf(devOut) \cup {c} /\ OwnsDistinctSlots(devOut')
    BY <2>2, <2>4, <2>5, <2>3, SlotsOfAppend, DistinctAppend
  <2>. QED
    BY <2>1, <2>4, <2>5, <2>6 DEF CaptureSlotsConserved
<1>15. CASE DriverSkipsFrame
  <2>1. PICK c \in devCap :
           /\ devCap' = devCap \ {c}
           /\ devOut' = Append(devOut, Filled(c, Head(devIn), TRUE, FALSE))
    BY <1>15 DEF DriverSkipsFrame
  <2>. DEFINE b == Filled(c, Head(devIn), TRUE, FALSE)
  <2>2. b \in CaptureBuffer /\ b.slot = c
    <3>1. Head(devIn) \in Frames
      BY <1>15 DEF TypeOK, DriverSkipsFrame
    <3>. QED
      BY <2>1, <3>1, EncoderConstants DEF TypeOK, Filled, CaptureBuffer, Frames, NoFrame
  <2>3. devOut' = Append(devOut, b)
    BY <2>1
  <2>. HIDE DEF b
  <2>4. devOut \in Seq(CaptureBuffer) /\ UNCHANGED <<configured, pending, failed, delivered>>
    BY <1>15 DEF TypeOK, DriverSkipsFrame, session, history
  <2>. SUFFICES ASSUME configured PROVE CaptureSlotsConserved'
    BY <2>4 DEF CaptureSlotsConserved
  <2>5. OwnsDistinctSlots(devOut) /\ c \notin SlotsOf(devOut) /\ c \notin SlotsOf(pending)
    BY <2>1 DEF CaptureSlotsConserved
  <2>6. SlotsOf(devOut') = SlotsOf(devOut) \cup {c} /\ OwnsDistinctSlots(devOut')
    BY <2>2, <2>4, <2>5, <2>3, SlotsOfAppend, DistinctAppend
  <2>. QED
    BY <2>1, <2>4, <2>5, <2>6 DEF CaptureSlotsConserved
<1>16. CASE DriverEndsDrain
  <2>1. PICK c \in devCap :
           /\ devCap' = devCap \ {c}
           /\ devOut' = Append(devOut, Filled(c, NoFrame, TRUE, TRUE))
    BY <1>16 DEF DriverEndsDrain
  <2>. DEFINE b == Filled(c, NoFrame, TRUE, TRUE)
  <2>2. b \in CaptureBuffer /\ b.slot = c
    BY <2>1 DEF TypeOK, Filled, CaptureBuffer
  <2>3. devOut' = Append(devOut, b)
    BY <2>1
  <2>. HIDE DEF b
  <2>4. devOut \in Seq(CaptureBuffer) /\ UNCHANGED <<configured, pending, failed, delivered>>
    BY <1>16 DEF TypeOK, DriverEndsDrain, session, history
  <2>. SUFFICES ASSUME configured PROVE CaptureSlotsConserved'
    BY <2>4 DEF CaptureSlotsConserved
  <2>5. OwnsDistinctSlots(devOut) /\ c \notin SlotsOf(devOut) /\ c \notin SlotsOf(pending)
    BY <2>1 DEF CaptureSlotsConserved
  <2>6. SlotsOf(devOut') = SlotsOf(devOut) \cup {c} /\ OwnsDistinctSlots(devOut')
    BY <2>2, <2>4, <2>5, <2>3, SlotsOfAppend, DistinctAppend
  <2>. QED
    BY <2>1, <2>4, <2>5, <2>6 DEF CaptureSlotsConserved
<1>17. CASE CallQueueEncoderFrame \/ RejectEncoderFrame \/
          (\E wait \in BOOLEAN : CallDequeueEncoderFrame(wait)) \/
          DequeueUnconfigured \/ DequeueEncoderInputs \/ CaptureDrained \/
          QueueBlocks \/ QueueWaits \/ QueueProceeds \/ DequeueHasFrame \/
          DequeueWaits \/ DequeueFindsNothing \/ WaitForDeviceReady \/
          WaitForDeviceTimeout \/ DriverReleasesInput \/ UNCHANGED vars
  <2>1. UNCHANGED <<configured, pending, devCap, devOut, delivered, failed>>
    BY <1>17 DEF CallQueueEncoderFrame, RejectEncoderFrame, CallDequeueEncoderFrame,
       DequeueUnconfigured, DequeueEncoderInputs, CaptureDrained, QueueBlocks,
       QueueWaits, QueueProceeds, DequeueHasFrame, DequeueWaits,
       DequeueFindsNothing, WaitForDeviceReady, WaitForDeviceTimeout,
       DriverReleasesInput, EnterQueueEncoderFrame, GoTo, Return, vars, session,
       device, call, history
  <2>. QED
    BY <2>1 DEF CaptureSlotsConserved
<1>. QED
  BY <1>1, <1>2, <1>3, <1>4, <1>5, <1>6, <1>7, <1>8, <1>9, <1>10, <1>11, <1>12,
     <1>13, <1>14, <1>15, <1>16, <1>17
  DEF Next, Calls, SessionSteps, Pump, QueueSteps, DequeueSteps, WaitSteps, Driver

-----------------------------------------------------------------------------
(* The theorems.                                                           *)

\* A closed session satisfies the invariant.
LEMMA InvInit == Init => IInv
<1>. SUFFICES ASSUME Init PROVE IInv
  OBVIOUS
<1>1. TypeOK
  BY TypeInit
<1>2. PointInCall /\ UnconfiguredIsEmpty /\ CaptureSlotsConserved
  BY DEF Init, PointInCall, UnconfiguredIsEmpty, CaptureSlotsConserved
<1>3. InputsPinned /\ MetadataBounded
  BY EncoderConstants DEF Init, InputsPinned, MetadataBounded
<1>. QED
  BY <1>1, <1>2, <1>3 DEF IInv

\* Every step of the session and of the driver preserves it.
LEMMA InvNext == IInv /\ [Next]_vars => IInv'
<1>. SUFFICES ASSUME IInv, [Next]_vars PROVE IInv'
  OBVIOUS
<1>1. TypeOK'
  BY FlagsNext, DataNext, TypeParts DEF IInv
<1>2. PointInCall' /\ UnconfiguredIsEmpty'
  BY PointNext, UnconfiguredNext DEF IInv
<1>3. InputsPinned' /\ MetadataBounded' /\ CaptureSlotsConserved'
  BY InputsNext, MetadataNext, CaptureNext DEF IInv
<1>. QED
  BY <1>1, <1>2, <1>3 DEF IInv

\* Every reachable state satisfies the inductive invariant.
LEMMA Invariance == Spec => []IInv
  BY InvInit, InvNext, PTL DEF Spec

\* The session, the driver and the call in progress keep their types.
THEOREM TypeCorrect == Spec => []TypeOK
<1>1. IInv => TypeOK
  BY DEF IInv
<1>. QED
  BY <1>1, Invariance, PTL

\* The owner of an input buffer is held from QBUF to input DQBUF, for any queue
\* depth: the firmware never reads a released image.
THEOREM InputsStayPinned == Spec => []InputsPinned
<1>1. IInv => InputsPinned
  BY DEF IInv
<1>. QED
  BY <1>1, Invariance, PTL

\* The metadata vector never outgrows the input queue it was reserved for, even
\* when rate control skips frames and leaves entries behind.
THEOREM MetadataFits == Spec => []MetadataBounded
<1>1. IInv => MetadataBounded
  BY DEF IInv
<1>. QED
  BY <1>1, Invariance, PTL

\* A capture slot has one owner, and none is lost unless a call failed: the driver
\* never writes into a slot whose payload has still to be copied.
THEOREM CaptureSlotsSafe == Spec => []CaptureSlotsConserved
<1>1. IInv => CaptureSlotsConserved
  BY DEF IInv
<1>. QED
  BY <1>1, Invariance, PTL

=============================================================================

------------------------ MODULE DecoderSessionProofs ------------------------
(***************************************************************************)
(* Proofs about DecoderSession, for any number of buffers, blocks, packets *)
(* and faults: a graphic block has one holder at a time, no capture slot   *)
(* and no packet is lost from account, and the end of stream comes after   *)
(* every picture.  The last sections say what a caller may rely on that    *)
(* also queues packets while the session drains.                           *)
(***************************************************************************)
EXTENDS DecoderSession, FiniteSetTheorems, SequenceTheorems, TLAPS

\* What the point inside a call tells about the session.
PointInCall ==
    /\ pc = "refill" => /\ refill \in CaptureSlots /\ slots # <<>>
                        /\ configured /\ ~Queued(refill)
    /\ pc # "refill" => refill = 0
    /\ slots = <<>> => devCap = <<>> /\ devOut = <<>>
    /\ configured /\ slots = <<>> => devState.short
    /\ pc = "qbuf" => op = "queue"
    /\ pc # "idle" /\ op = "queue" =>
           pc \in {"inputs", "qbuf"} /\ nextPacket <= MaxPackets

\* The session when its caller may also queue packets while it drains, as the
\* component does after a drain that gave up: all but the order of the end holds.
AnyNext == Next \/ EnterQueueDecoderPacket

\* A caller that ends its stream queues nothing more.
SubmitsOpen == pc # "idle" /\ op = "queue" => ~draining

-----------------------------------------------------------------------------
(* Type correctness.                                                       *)

DevStates == [parsed : BOOLEAN, change : BOOLEAN, stop : BOOLEAN, last : BOOLEAN,
              short : BOOLEAN]

\* The parts of TypeOK: Zenon proves the flags, SMT the rest.
FlagsOK ==
    /\ opened \in BOOLEAN /\ configured \in BOOLEAN /\ setup \in BOOLEAN
    /\ draining \in BOOLEAN /\ received \in BOOLEAN /\ waited \in BOOLEAN
    /\ blocked \in BOOLEAN /\ sawLast \in BOOLEAN /\ eos \in BOOLEAN
    /\ devState \in DevStates
QueuesOK ==
    /\ inputs \subseteq InputSlots
    /\ slots = <<>> \/ slots \in [CaptureSlots -> Blocks \cup {NoBlock}]
    /\ pending \in Seq(Frame) /\ out \in Frame
    /\ devIn \in Seq([slot : InputSlots, frame : Packets]) /\ devDone \subseteq InputSlots
    /\ devHeld \subseteq Packets
    /\ devCap \in Seq([slot : CaptureSlots, block : Blocks]) /\ devOut \in Seq(Buffer)
    /\ client \subseteq Blocks
CountsOK ==
    /\ pc \in {"idle", "inputs", "qbuf", "events", "setup", "pump", "refill", "decide", "wait"}
    /\ op \in {"none", "queue", "dequeue", "dequeueWait"}
    /\ refill \in 0 .. NumCaptures
    /\ devEvents \in Nat /\ nextPacket \in 1 .. (MaxPackets + 1)
    /\ accepted \subseteq Packets /\ delivered \subseteq Packets
    /\ discarded \subseteq Packets /\ lostSlots \subseteq CaptureSlots
    /\ faults \in 0 .. MaxFaults /\ skips \in 0 .. MaxSkips
    /\ changes \in 0 .. MaxChanges /\ opens \in 0 .. MaxOpens

\* TypeOK is its three parts.
LEMMA TypeParts == TypeOK <=> FlagsOK /\ QueuesOK /\ CountsOK
BY DEF TypeOK, FlagsOK, QueuesOK, CountsOK, DevStates

\* Every field of the driver's state can be set by itself.
LEMMA StateFields ==
    ASSUME NEW d \in DevStates, NEW v \in BOOLEAN
    PROVE  /\ [d EXCEPT !.parsed = v] \in DevStates /\ [d EXCEPT !.change = v] \in DevStates
           /\ [d EXCEPT !.stop = v] \in DevStates /\ [d EXCEPT !.last = v] \in DevStates
           /\ [d EXCEPT !.short = v] \in DevStates
BY DEF DevStates

\* Only the capture queue's setup tells whether the driver has too few buffers.
LEMMA ShortKept ==
    ASSUME NEW d \in DevStates, NEW v \in BOOLEAN
    PROVE  /\ [d EXCEPT !.parsed = v].short = d.short /\ [d EXCEPT !.change = v].short = d.short
           /\ [d EXCEPT !.stop = v].short = d.short /\ [d EXCEPT !.last = v].short = d.short
BY DEF DevStates

\* The driver's state after STREAMOFF.
LEMMA ResetType ==
    ASSUME FlagsOK, NEW short \in BOOLEAN, ResetDecoderCapture(short)
    PROVE  devState' \in DevStates
<1>. DEFINE c == [devState EXCEPT !.change = FALSE]
            l == [c EXCEPT !.last = FALSE]
<1>1. c \in DevStates
  BY StateFields DEF FlagsOK
<1>2. l \in DevStates
  BY <1>1, StateFields
<1>3. devState' = [l EXCEPT !.short = short]
  BY DEF ResetDecoderCapture
<1>. HIDE DEF l
<1>. QED
  BY <1>2, <1>3, StateFields

\* The driver after Open.
LEMMA RunningIsState == Running \in DevStates
BY DEF DevStates, Running

\* What no buffer holds is a frame too.
LEMMA EmptyFrames ==
    NoOutput \in Frame /\ [frame |-> NoFrame, block |-> NoBlock, eos |-> TRUE] \in Frame
BY DEF NoOutput, Frame

\* A dequeued buffer becomes a frame.
LEMMA BufferToFrame ==
    ASSUME NEW b \in Buffer
    PROVE  /\ [frame |-> b.frame, block |-> b.block, eos |-> b.last] \in Frame
           /\ [NoOutput EXCEPT !.block = b.block] \in Frame
           /\ [NoOutput EXCEPT !.block = b.block].frame = NoFrame
BY DEF Buffer, Frame, NoOutput

\* The ends of a queue.
LEMMA HeadTail ==
    ASSUME NEW S, NEW q \in Seq(S), q # <<>>
    PROVE  Head(q) \in S /\ Tail(q) \in Seq(S)
OBVIOUS

\* A queue that grows keeps its type.
LEMMA AppendType ==
    ASSUME NEW S, NEW q \in Seq(S), NEW e \in S
    PROVE  Append(q, e) \in Seq(S)
OBVIOUS

\* What the driver has ready are pictures of packets.
LEMMA ReadyFrames ==
    ASSUME NEW q \in Seq(Buffer)
    PROVE  {b.frame : b \in Range(q)} \ {NoFrame} \subseteq Packets
<1>1. \A i \in DOMAIN q : q[i] \in Buffer
  OBVIOUS
<1>. QED
  BY <1>1 DEF Buffer, Range

\* Every flag stays a flag.
LEMMA FlagsStep ==
    ASSUME FlagsOK, [AnyNext]_vars
    PROVE  FlagsOK'
<1>1. CASE Open
  BY <1>1, RunningIsState DEF Open, CloseSession, Fault, call, FlagsOK
<1>2. CASE Close
  BY <1>2, RunningIsState DEF Close, CloseSession, call, FlagsOK
<1>3. CASE EnterQueueDecoderPacket
  BY <1>3 DEF EnterQueueDecoderPacket, session, device, history, FlagsOK
<1>4. CASE RejectDecoderPacket
  BY <1>4 DEF RejectDecoderPacket, Fault, OnlyFaults, session, device, FlagsOK
<1>5. CASE \E wait \in BOOLEAN : EnterDequeueDecoderFrame(wait)
  BY <1>5 DEF EnterDequeueDecoderFrame, session, device, history, FlagsOK
<1>6. CASE StartDecoderDrain
  <2>1. (~EndsAtOnce) \in BOOLEAN
    OBVIOUS
  <2>2. devState' \in DevStates
    BY <1>6, <2>1, StateFields DEF StartDecoderDrain, FlagsOK
  <2>. QED
    BY <1>6, <2>2 DEF StartDecoderDrain, FlagsOK, history
<1>7. CASE StartDecoderDrainFails
  BY <1>7 DEF StartDecoderDrainFails, Fault, OnlyFaults, session, device, FlagsOK
<1>8. CASE DequeueDecoderInputs
  BY <1>8 DEF DequeueDecoderInputs, GoTo, history, FlagsOK
<1>9. CASE QueueBlocks
  BY <1>9 DEF QueueBlocks, Return, Returns, session, device, history, FlagsOK
<1>10. CASE QueuePacket
  BY <1>10 DEF QueuePacket, Return, Returns, FlagsOK
<1>11. CASE BeginDecoderCaptureSetup
  <2>1. ResetDecoderCapture(FALSE)
    BY <1>11 DEF BeginDecoderCaptureSetup
  <2>2. devState' \in DevStates
    BY <2>1, ResetType
  <2>. QED
    BY <1>11, <2>2 DEF BeginDecoderCaptureSetup, ResetDecoderCapture, call, FlagsOK
<1>12. CASE BeginDecoderCaptureSetupFails
  <2>1. PICK short \in BOOLEAN : ResetDecoderCapture(short)
    BY <1>12 DEF BeginDecoderCaptureSetupFails
  <2>2. devState' \in DevStates
    BY <2>1, ResetType
  <2>. QED
    BY <1>12, <2>2 DEF BeginDecoderCaptureSetupFails, ResetDecoderCapture, Fault, Return, Returns,
             FlagsOK
<1>13. CASE ClosedFails
  BY <1>13 DEF ClosedFails, Return, Returns, session, device, history, FlagsOK
<1>14. CASE EventsHandled
  BY <1>14 DEF EventsHandled, GoTo, session, device, history, FlagsOK
<1>15. CASE ProgressDecoderCaptureSetup
  BY <1>15 DEF ProgressDecoderCaptureSetup, Lend, call, history, FlagsOK
<1>16. CASE SetupBlocks
  BY <1>16 DEF SetupBlocks, session, device, history, FlagsOK
<1>17. CASE StreamOnCapture
  BY <1>17 DEF StreamOnCapture, GoTo, device, history, FlagsOK
<1>18. CASE StreamOnEmptyQueue
  BY <1>18 DEF StreamOnEmptyQueue, Return, Returns, session, device, history, FlagsOK
<1>19. CASE PumpSkipped
  BY <1>19 DEF PumpSkipped, GoTo, session, device, history, FlagsOK
<1>20. CASE TakeFrame
  <2>1. sawLast' \in BOOLEAN
    BY <1>20 DEF TakeFrame
  <2>. QED
    BY <1>20, <2>1 DEF TakeFrame, FlagsOK
<1>21. CASE RefillDecoderCapture
  BY <1>21 DEF RefillDecoderCapture, Lend, history, FlagsOK
<1>22. CASE RefillFails
  BY <1>22 DEF RefillFails, Fault, Return, Returns, session, device, FlagsOK
<1>23. CASE CaptureDrained
  BY <1>23 DEF CaptureDrained, GoTo, session, device, history, FlagsOK
<1>24. CASE CaptureBroken
  BY <1>24 DEF CaptureBroken, Return, Returns, session, device, history, FlagsOK
<1>25. CASE IoctlFails
  BY <1>25 DEF IoctlFails, Fault, OnlyFaults, Return, Returns, session, device, FlagsOK
<1>26. CASE HandOut
  <2>1. eos' \in BOOLEAN
    BY <1>26 DEF HandOut
  <2>. QED
    BY <1>26, <2>1 DEF HandOut, Returns, device, FlagsOK
<1>27. CASE NothingToHandOut
  BY <1>27 DEF NothingToHandOut, Return, Returns, session, device, history, FlagsOK
<1>28. CASE WaitForFrame
  BY <1>28 DEF WaitForFrame, GoTo, session, device, history, FlagsOK
<1>29. CASE WaitForDeviceReady
  BY <1>29 DEF WaitForDeviceReady, session, device, history, FlagsOK
<1>30. CASE WaitForDeviceTimeout
  BY <1>30 DEF WaitForDeviceTimeout, Fault, OnlyFaults, Return, Returns, session, device, FlagsOK
<1>31. CASE DriverDecodes
  BY <1>31, StateFields DEF DriverDecodes, CanDecode, session, call, history, FlagsOK
<1>32. CASE DriverChanges
  BY <1>32, StateFields DEF DriverChanges, session, call, FlagsOK
<1>33. CASE DriverOutputs
  BY <1>33, StateFields DEF DriverOutputs, CanOutput, Took, Ready, session, call, history, FlagsOK
<1>34. CASE DriverDrops
  BY <1>34 DEF DriverDrops, CanOutput, Took, Ready, session, call, FlagsOK
<1>35. CASE DriverEnds
  BY <1>35, StateFields DEF DriverEnds, CanOutput, Took, Ready, session, call, history, FlagsOK
<1>36. CASE \E b \in Blocks : ClientReturns(b)
  BY <1>36 DEF ClientReturns, session, device, call, FlagsOK
<1>37. CASE UNCHANGED vars
  BY <1>37 DEF vars, session, device, call, history, FlagsOK
<1>. QED
  BY <1>1, <1>2, <1>3, <1>4, <1>5, <1>6, <1>7, <1>8, <1>9, <1>10, <1>11, <1>12, <1>13, <1>14,
     <1>15, <1>16, <1>17, <1>18, <1>19, <1>20, <1>21, <1>22, <1>23, <1>24, <1>25, <1>26, <1>27,
     <1>28, <1>29, <1>30, <1>31, <1>32, <1>33, <1>34, <1>35, <1>36, <1>37
     DEF AnyNext, Next, Pump, Environment

\* The counters stay within their bounds and the histories within the packets.
LEMMA CountsStep ==
    ASSUME QueuesOK, CountsOK, PointInCall, [AnyNext]_vars
    PROVE  CountsOK'
<1>1. CASE Open
  BY <1>1, BoundAssumption DEF Open, CloseSession, Fault, call, CountsOK
<1>2. CASE Close
  BY <1>2, BoundAssumption, QueueAssumption DEF Close, CloseSession, call, CountsOK
<1>3. CASE EnterQueueDecoderPacket
  BY <1>3, BoundAssumption, QueueAssumption DEF EnterQueueDecoderPacket, session,
           device, history, CountsOK
<1>4. CASE RejectDecoderPacket
  BY <1>4, BoundAssumption, QueueAssumption DEF RejectDecoderPacket, Fault, OnlyFaults, session,
           device, CountsOK
<1>5. CASE \E wait \in BOOLEAN : EnterDequeueDecoderFrame(wait)
  BY <1>5, BoundAssumption, QueueAssumption DEF EnterDequeueDecoderFrame, session, device, history,
           CountsOK
<1>6. CASE StartDecoderDrain
  BY <1>6, BoundAssumption, QueueAssumption DEF StartDecoderDrain, EndsAtOnce, history, CountsOK
<1>7. CASE StartDecoderDrainFails
  BY <1>7, BoundAssumption, QueueAssumption DEF StartDecoderDrainFails, Fault, OnlyFaults, session,
           device, CountsOK
<1>8. CASE DequeueDecoderInputs
  BY <1>8, BoundAssumption, QueueAssumption DEF DequeueDecoderInputs, GoTo, history, CountsOK
<1>9. CASE QueueBlocks
  BY <1>9, BoundAssumption, QueueAssumption DEF QueueBlocks, Return, Returns, session, device,
           history, CountsOK
<1>10. CASE QueuePacket
  BY <1>10, BoundAssumption, QueueAssumption DEF QueuePacket, Return, Returns, CountsOK,
           PointInCall, Packets
<1>11. CASE BeginDecoderCaptureSetup
  <2>1. {b.frame : b \in Range(devOut)} \ {NoFrame} \subseteq Packets
    BY ReadyFrames DEF QueuesOK
  <2>2. discarded' \subseteq Packets
    <3>1. discarded' \subseteq
             discarded \cup ({b.frame : b \in Range(devOut)} \ {NoFrame}) \cup devHeld
      BY <1>11 DEF BeginDecoderCaptureSetup, ResetDecoderCapture
    <3>2. discarded \subseteq Packets /\ devHeld \subseteq Packets
      BY DEF QueuesOK, CountsOK
    <3>. QED
      BY <2>1, <3>1, <3>2
  <2>3. lostSlots' = {}
    BY <1>11 DEF BeginDecoderCaptureSetup, ResetDecoderCapture
  <2>4. devEvents' \in Nat
    BY <1>11 DEF BeginDecoderCaptureSetup, CountsOK
  <2>5. UNCHANGED <<pc, op, refill, nextPacket, accepted, delivered, faults, skips, changes,
                    opens>>
    BY <1>11 DEF BeginDecoderCaptureSetup, call
  <2>. QED
    BY <2>2, <2>3, <2>4, <2>5 DEF CountsOK
<1>12. CASE BeginDecoderCaptureSetupFails
  <2>1. {b.frame : b \in Range(devOut)} \ {NoFrame} \subseteq Packets
    BY ReadyFrames DEF QueuesOK
  <2>2. discarded' \subseteq Packets
    <3>1. discarded' \subseteq
             discarded \cup ({b.frame : b \in Range(devOut)} \ {NoFrame}) \cup devHeld
      BY <1>12 DEF BeginDecoderCaptureSetupFails, ResetDecoderCapture
    <3>2. discarded \subseteq Packets /\ devHeld \subseteq Packets
      BY DEF QueuesOK, CountsOK
    <3>. QED
      BY <2>1, <3>1, <3>2
  <2>3. lostSlots' = {}
    BY <1>12 DEF BeginDecoderCaptureSetupFails, ResetDecoderCapture
  <2>4. devEvents' \in Nat
    BY <1>12 DEF BeginDecoderCaptureSetupFails, CountsOK
  <2>5. pc' = "idle" /\ op' = "none" /\ refill' = 0
    BY <1>12 DEF BeginDecoderCaptureSetupFails, Return, Returns
  <2>6. faults' \in 0 .. MaxFaults
    BY <1>12, BoundAssumption DEF BeginDecoderCaptureSetupFails, Fault, CountsOK
  <2>7. UNCHANGED <<nextPacket, accepted, delivered, skips, changes, opens>>
    BY <1>12 DEF BeginDecoderCaptureSetupFails
  <2>8. 0 \in 0 .. NumCaptures
    BY QueueAssumption
  <2>. QED
    BY <2>2, <2>3, <2>4, <2>5, <2>6, <2>7, <2>8 DEF CountsOK
<1>13. CASE ClosedFails
  BY <1>13, BoundAssumption, QueueAssumption DEF ClosedFails, Return, Returns, session, device,
           history, CountsOK
<1>14. CASE EventsHandled
  BY <1>14, BoundAssumption, QueueAssumption DEF EventsHandled, GoTo, session, device, history,
           CountsOK
<1>15. CASE ProgressDecoderCaptureSetup
  BY <1>15, BoundAssumption, QueueAssumption DEF ProgressDecoderCaptureSetup, Lend, call, history,
           CountsOK
<1>16. CASE SetupBlocks
  BY <1>16, BoundAssumption, QueueAssumption DEF SetupBlocks, session, device, history, CountsOK
<1>17. CASE StreamOnCapture
  BY <1>17, BoundAssumption, QueueAssumption DEF StreamOnCapture, GoTo, device, history, CountsOK
<1>18. CASE StreamOnEmptyQueue
  BY <1>18, BoundAssumption, QueueAssumption DEF StreamOnEmptyQueue, Return, Returns, session,
           device, history, CountsOK
<1>19. CASE PumpSkipped
  BY <1>19, BoundAssumption, QueueAssumption DEF PumpSkipped, GoTo, session, device, history,
           CountsOK
<1>20. CASE TakeFrame
  <2>1. Head(devOut) \in Buffer
    BY <1>20 DEF TakeFrame, QueuesOK
  <2>2. Head(devOut).slot \in 0 .. NumCaptures
    BY <2>1, QueueAssumption DEF Buffer, CaptureSlots
  <2>. QED
    BY <1>20, <2>2 DEF TakeFrame, CountsOK
<1>21. CASE RefillDecoderCapture
  BY <1>21, BoundAssumption, QueueAssumption DEF RefillDecoderCapture, Lend, history, CountsOK
<1>22. CASE RefillFails
  BY <1>22, BoundAssumption, QueueAssumption DEF RefillFails, Fault, Return, Returns, session,
           device, CountsOK, PointInCall
<1>23. CASE CaptureDrained
  BY <1>23, BoundAssumption, QueueAssumption DEF CaptureDrained, GoTo, session, device, history,
           CountsOK
<1>24. CASE CaptureBroken
  BY <1>24, BoundAssumption, QueueAssumption DEF CaptureBroken, Return, Returns, session, device,
           history, CountsOK
<1>25. CASE IoctlFails
  BY <1>25, BoundAssumption, QueueAssumption DEF IoctlFails, Fault, OnlyFaults, Return, Returns,
           session, device, CountsOK
<1>26. CASE HandOut
  <2>1. Head(pending) \in Frame
    BY <1>26 DEF HandOut, QueuesOK
  <2>2. delivered' \subseteq Packets
    BY <1>26, <2>1 DEF HandOut, Frame, CountsOK
  <2>. QED
    BY <1>26, <2>2, QueueAssumption DEF HandOut, Returns, device, CountsOK
<1>27. CASE NothingToHandOut
  BY <1>27, BoundAssumption, QueueAssumption DEF NothingToHandOut, Return, Returns, session, device,
           history, CountsOK
<1>28. CASE WaitForFrame
  BY <1>28, BoundAssumption, QueueAssumption DEF WaitForFrame, GoTo, session, device, history,
           CountsOK
<1>29. CASE WaitForDeviceReady
  BY <1>29, BoundAssumption, QueueAssumption DEF WaitForDeviceReady, session, device, history,
           CountsOK
<1>30. CASE WaitForDeviceTimeout
  BY <1>30, BoundAssumption, QueueAssumption DEF WaitForDeviceTimeout, Fault, OnlyFaults, Return,
           Returns, session, device, CountsOK
<1>31. CASE DriverDecodes
  <2>1. devEvents' \in Nat
    BY <1>31 DEF DriverDecodes, CountsOK
  <2>2. UNCHANGED <<pc, op, refill, nextPacket, accepted, delivered, discarded, lostSlots, faults,
                    skips, changes, opens>>
    BY <1>31 DEF DriverDecodes, call, history
  <2>. QED
    BY <2>1, <2>2 DEF CountsOK
<1>32. CASE DriverChanges
  BY <1>32, BoundAssumption, QueueAssumption DEF DriverChanges, session, call, CountsOK
<1>33. CASE DriverOutputs
  BY <1>33, BoundAssumption, QueueAssumption DEF DriverOutputs, CanOutput, Took, Ready, session,
           call, history, CountsOK
<1>34. CASE DriverDrops
  BY <1>34, BoundAssumption DEF DriverDrops, CanOutput, Took, Ready, session, call, CountsOK,
           QueuesOK
<1>35. CASE DriverEnds
  BY <1>35, BoundAssumption, QueueAssumption DEF DriverEnds, CanOutput, Took, Ready, session, call,
           history, CountsOK
<1>36. CASE \E b \in Blocks : ClientReturns(b)
  BY <1>36, BoundAssumption, QueueAssumption DEF ClientReturns, session, device, call, CountsOK
<1>37. CASE UNCHANGED vars
  BY <1>37, BoundAssumption, QueueAssumption DEF vars, session, device, call, history, CountsOK
<1>. QED
  BY <1>1, <1>2, <1>3, <1>4, <1>5, <1>6, <1>7, <1>8, <1>9, <1>10, <1>11, <1>12, <1>13, <1>14,
     <1>15, <1>16, <1>17, <1>18, <1>19, <1>20, <1>21, <1>22, <1>23, <1>24, <1>25, <1>26, <1>27,
     <1>28, <1>29, <1>30, <1>31, <1>32, <1>33, <1>34, <1>35, <1>36, <1>37
     DEF AnyNext, Next, Pump, Environment

\* The driver fills the first capture buffer.
LEMMA TookType ==
    ASSUME QueuesOK, devCap # <<>>, NEW f \in Packets \cup {NoFrame}, NEW last \in BOOLEAN,
           Took(Ready(f, last))
    PROVE  /\ devCap' \in Seq([slot : CaptureSlots, block : Blocks])
           /\ devOut' \in Seq(Buffer) /\ Ready(f, last) \in Buffer
<1>1. /\ Head(devCap) \in [slot : CaptureSlots, block : Blocks]
      /\ Tail(devCap) \in Seq([slot : CaptureSlots, block : Blocks])
  BY HeadTail DEF QueuesOK
<1>2. Ready(f, last) \in Buffer
  BY <1>1 DEF Ready, Buffer
<1>. QED
  BY <1>1, <1>2 DEF Took, QueuesOK

\* The queues hold buffers and frames of their type.
LEMMA QueuesStep ==
    ASSUME QueuesOK, CountsOK, PointInCall, [AnyNext]_vars
    PROVE  QueuesOK'
<1>1. CASE Open
  BY <1>1, EmptyFrames DEF Open, CloseSession, Fault, call, QueuesOK
<1>2. CASE Close
  BY <1>2, EmptyFrames DEF Close, CloseSession, call, QueuesOK
<1>3. CASE EnterQueueDecoderPacket
  BY <1>3, EmptyFrames DEF EnterQueueDecoderPacket, session, device, history, QueuesOK
<1>4. CASE RejectDecoderPacket
  BY <1>4, EmptyFrames DEF RejectDecoderPacket, Fault, OnlyFaults, session, device, QueuesOK
<1>5. CASE \E wait \in BOOLEAN : EnterDequeueDecoderFrame(wait)
  BY <1>5, EmptyFrames DEF EnterDequeueDecoderFrame, session, device, history, QueuesOK
<1>6. CASE StartDecoderDrain
  <2>1. pending' \in Seq(Frame)
    <3>. DEFINE end == [frame |-> NoFrame, block |-> NoBlock, eos |-> TRUE]
    <3>1. pending' = pending \/ pending' = Append(pending, end)
      BY <1>6 DEF StartDecoderDrain
    <3>2. end \in Frame /\ pending \in Seq(Frame)
      BY EmptyFrames DEF QueuesOK
    <3>. HIDE DEF end
    <3>. QED
      BY <3>1, <3>2, AppendType
  <2>2. UNCHANGED <<inputs, slots, out, devIn, devDone, devHeld, devCap, devOut, client>>
    BY <1>6 DEF StartDecoderDrain, history
  <2>. QED
    BY <2>1, <2>2 DEF QueuesOK
<1>7. CASE StartDecoderDrainFails
  BY <1>7, EmptyFrames DEF StartDecoderDrainFails, Fault, OnlyFaults, session, device, QueuesOK
<1>8. CASE DequeueDecoderInputs
  BY <1>8, EmptyFrames DEF DequeueDecoderInputs, GoTo, history, QueuesOK
<1>9. CASE QueueBlocks
  BY <1>9, EmptyFrames DEF QueueBlocks, Return, Returns, session, device, history, QueuesOK
<1>10. CASE QueuePacket
  <2>1. PICK x \in InputSlots : /\ inputs' = inputs \cup {x}
                              /\ devIn' = Append(devIn, [slot |-> x, frame |-> nextPacket])
    BY <1>10 DEF QueuePacket, FreeInputs
  <2>2. nextPacket \in Packets
    BY <1>10, BoundAssumption DEF QueuePacket, CountsOK, PointInCall, Packets
  <2>3. devIn' \in Seq([slot : InputSlots, frame : Packets])
    BY <2>1, <2>2 DEF QueuesOK
  <2>. QED
    BY <1>10, <2>1, <2>3, EmptyFrames DEF QueuePacket, Return, Returns, QueuesOK
<1>11. CASE BeginDecoderCaptureSetup
  BY <1>11, EmptyFrames DEF BeginDecoderCaptureSetup, ResetDecoderCapture, call, QueuesOK
<1>12. CASE BeginDecoderCaptureSetupFails
  BY <1>12, EmptyFrames DEF BeginDecoderCaptureSetupFails, ResetDecoderCapture, Fault, Return,
           Returns, QueuesOK
<1>13. CASE ClosedFails
  BY <1>13, EmptyFrames DEF ClosedFails, Return, Returns, session, device, history, QueuesOK
<1>14. CASE EventsHandled
  BY <1>14, EmptyFrames DEF EventsHandled, GoTo, session, device, history, QueuesOK
<1>15. CASE ProgressDecoderCaptureSetup
  <2>1. PICK i \in DOMAIN slots, b \in FreeBlocks : Lend(i, b)
    BY <1>15 DEF ProgressDecoderCaptureSetup
  <2>2. slots \in [CaptureSlots -> Blocks \cup {NoBlock}] /\ i \in CaptureSlots /\ b \in Blocks
    BY <2>1 DEF QueuesOK, FreeBlocks
  <2>3. /\ slots' \in [CaptureSlots -> Blocks \cup {NoBlock}]
        /\ devCap' \in Seq([slot : CaptureSlots, block : Blocks])
    BY <2>1, <2>2 DEF QueuesOK, Lend
  <2>. QED
    BY <1>15, <2>3 DEF ProgressDecoderCaptureSetup, call, history, QueuesOK
<1>16. CASE SetupBlocks
  BY <1>16, EmptyFrames DEF SetupBlocks, session, device, history, QueuesOK
<1>17. CASE StreamOnCapture
  BY <1>17, EmptyFrames DEF StreamOnCapture, GoTo, device, history, QueuesOK
<1>18. CASE StreamOnEmptyQueue
  BY <1>18, EmptyFrames DEF StreamOnEmptyQueue, Return, Returns, session, device, history, QueuesOK
<1>19. CASE PumpSkipped
  BY <1>19, EmptyFrames DEF PumpSkipped, GoTo, session, device, history, QueuesOK
<1>20. CASE TakeFrame
  <2>. DEFINE b == Head(devOut)
             f == [frame |-> b.frame, block |-> b.block, eos |-> b.last]
  <2>1. b \in Buffer /\ Tail(devOut) \in Seq(Buffer) /\ f \in Frame
    BY <1>20, BufferToFrame, HeadTail DEF TakeFrame, QueuesOK
  <2>2. slots \in [CaptureSlots -> Blocks \cup {NoBlock}]
    BY <1>20 DEF TakeFrame, PointInCall, QueuesOK
  <2>3. slots' \in [CaptureSlots -> Blocks \cup {NoBlock}] /\ devOut' \in Seq(Buffer)
    BY <1>20, <2>1, <2>2 DEF TakeFrame, BlockAfterMove
  <2>4. pending' \in Seq(Frame)
    <3>1. pending' = Append(pending, f) \/ pending' = pending
      BY <1>20 DEF TakeFrame
    <3>2. pending \in Seq(Frame)
      BY DEF QueuesOK
    <3>. HIDE DEF f
    <3>. QED
      BY <2>1, <3>1, <3>2
  <2>5. out' \in Frame
    BY <1>20, <2>1, BufferToFrame, EmptyFrames DEF TakeFrame
  <2>. QED
    BY <1>20, <2>3, <2>4, <2>5 DEF TakeFrame, QueuesOK
<1>21. CASE RefillDecoderCapture
  <2>1. PICK b \in FreeBlocks : Lend(refill, b)
    BY <1>21 DEF RefillDecoderCapture
  <2>2. slots \in [CaptureSlots -> Blocks \cup {NoBlock}] /\ refill \in CaptureSlots /\ b \in Blocks
    BY <1>21, <2>1 DEF RefillDecoderCapture, QueuesOK, FreeBlocks, PointInCall
  <2>3. /\ slots' \in [CaptureSlots -> Blocks \cup {NoBlock}]
        /\ devCap' \in Seq([slot : CaptureSlots, block : Blocks])
    BY <2>1, <2>2 DEF QueuesOK, Lend
  <2>. QED
    BY <1>21, <2>3, EmptyFrames DEF RefillDecoderCapture, history, QueuesOK
<1>22. CASE RefillFails
  BY <1>22, EmptyFrames DEF RefillFails, Fault, Return, Returns, session, device, QueuesOK
<1>23. CASE CaptureDrained
  BY <1>23, EmptyFrames DEF CaptureDrained, GoTo, session, device, history, QueuesOK
<1>24. CASE CaptureBroken
  BY <1>24, EmptyFrames DEF CaptureBroken, Return, Returns, session, device, history, QueuesOK
<1>25. CASE IoctlFails
  BY <1>25, EmptyFrames DEF IoctlFails, Fault, OnlyFaults, Return, Returns, session, device,
           QueuesOK
<1>26. CASE HandOut
  <2>1. Head(pending) \in Frame /\ Tail(pending) \in Seq(Frame)
    BY <1>26 DEF HandOut, QueuesOK
  <2>2. client' \subseteq Blocks
    BY <1>26, <2>1 DEF HandOut, Frame, QueuesOK
  <2>. QED
    BY <1>26, <2>1, <2>2 DEF HandOut, Returns, device, QueuesOK
<1>27. CASE NothingToHandOut
  BY <1>27, EmptyFrames DEF NothingToHandOut, Return, Returns, session, device, history, QueuesOK
<1>28. CASE WaitForFrame
  BY <1>28, EmptyFrames DEF WaitForFrame, GoTo, session, device, history, QueuesOK
<1>29. CASE WaitForDeviceReady
  BY <1>29, EmptyFrames DEF WaitForDeviceReady, session, device, history, QueuesOK
<1>30. CASE WaitForDeviceTimeout
  BY <1>30, EmptyFrames DEF WaitForDeviceTimeout, Fault, OnlyFaults, Return, Returns, session,
           device, QueuesOK
<1>31. CASE DriverDecodes
  <2>1. /\ Head(devIn) \in [slot : InputSlots, frame : Packets]
        /\ Tail(devIn) \in Seq([slot : InputSlots, frame : Packets])
    BY <1>31, HeadTail DEF DriverDecodes, CanDecode, QueuesOK
  <2>. QED
    BY <1>31, <2>1 DEF DriverDecodes, session, call, history, QueuesOK
<1>32. CASE DriverChanges
  BY <1>32, EmptyFrames DEF DriverChanges, session, call, QueuesOK
<1>33. CASE DriverOutputs
  <2>1. /\ devCap' \in Seq([slot : CaptureSlots, block : Blocks])
        /\ devOut' \in Seq(Buffer)
    BY <1>33, TookType DEF DriverOutputs, CanOutput, QueuesOK
  <2>. QED
    BY <1>33, <2>1 DEF DriverOutputs, session, call, history, QueuesOK
<1>34. CASE DriverDrops
  <2>1. /\ devCap' \in Seq([slot : CaptureSlots, block : Blocks])
        /\ devOut' \in Seq(Buffer)
    BY <1>34, TookType DEF DriverDrops, CanOutput, QueuesOK
  <2>. QED
    BY <1>34, <2>1 DEF DriverDrops, session, call, QueuesOK
<1>35. CASE DriverEnds
  <2>1. /\ devCap' \in Seq([slot : CaptureSlots, block : Blocks])
        /\ devOut' \in Seq(Buffer)
    BY <1>35, TookType DEF DriverEnds, CanOutput, QueuesOK
  <2>. QED
    BY <1>35, <2>1 DEF DriverEnds, session, call, history, QueuesOK
<1>36. CASE \E b \in Blocks : ClientReturns(b)
  BY <1>36, EmptyFrames DEF ClientReturns, session, device, call, QueuesOK
<1>37. CASE UNCHANGED vars
  BY <1>37, EmptyFrames DEF vars, session, device, call, history, QueuesOK
<1>. QED
  BY <1>1, <1>2, <1>3, <1>4, <1>5, <1>6, <1>7, <1>8, <1>9, <1>10, <1>11, <1>12, <1>13, <1>14,
     <1>15, <1>16, <1>17, <1>18, <1>19, <1>20, <1>21, <1>22, <1>23, <1>24, <1>25, <1>26, <1>27,
     <1>28, <1>29, <1>30, <1>31, <1>32, <1>33, <1>34, <1>35, <1>36, <1>37
     DEF AnyNext, Next, Pump, Environment

\* The points inside a call are reached as the code reaches them.
LEMMA PointStep ==
    ASSUME FlagsOK, QueuesOK, CountsOK, PointInCall, [AnyNext]_vars
    PROVE  PointInCall'
<1>1. CASE Open
  BY <1>1 DEF Open, CloseSession, Fault, call, PointInCall, Queued
<1>2. CASE Close
  BY <1>2 DEF Close, CloseSession, call, PointInCall, Queued
<1>3. CASE EnterQueueDecoderPacket
  BY <1>3 DEF EnterQueueDecoderPacket, session, device, history, PointInCall, Queued
<1>4. CASE RejectDecoderPacket
  BY <1>4 DEF RejectDecoderPacket, Fault, OnlyFaults, session, device, PointInCall, Queued
<1>5. CASE \E wait \in BOOLEAN : EnterDequeueDecoderFrame(wait)
  BY <1>5 DEF EnterDequeueDecoderFrame, session, device, history, PointInCall, Queued
<1>6. CASE StartDecoderDrain
  <2>1. (~EndsAtOnce) \in BOOLEAN
    OBVIOUS
  <2>2. devState'.short = devState.short
    BY <1>6, <2>1, ShortKept DEF StartDecoderDrain, FlagsOK
  <2>. QED
    BY <1>6, <2>2 DEF StartDecoderDrain, history, PointInCall, Queued
<1>7. CASE StartDecoderDrainFails
  BY <1>7 DEF StartDecoderDrainFails, Fault, OnlyFaults, session, device, PointInCall, Queued
<1>8. CASE DequeueDecoderInputs
  BY <1>8 DEF DequeueDecoderInputs, GoTo, history, PointInCall, Queued
<1>9. CASE QueueBlocks
  BY <1>9 DEF QueueBlocks, Return, Returns, session, device, history, PointInCall, Queued
<1>10. CASE QueuePacket
  BY <1>10 DEF QueuePacket, Return, Returns, PointInCall
<1>11. CASE BeginDecoderCaptureSetup
  BY <1>11 DEF BeginDecoderCaptureSetup, ResetDecoderCapture, call, PointInCall
<1>12. CASE BeginDecoderCaptureSetupFails
  BY <1>12 DEF BeginDecoderCaptureSetupFails, ResetDecoderCapture, Fault, Return, Returns,
           PointInCall, Queued
<1>13. CASE ClosedFails
  BY <1>13 DEF ClosedFails, Return, Returns, session, device, history, PointInCall, Queued
<1>14. CASE EventsHandled
  BY <1>14 DEF EventsHandled, GoTo, session, device, history, PointInCall, Queued
<1>15. CASE ProgressDecoderCaptureSetup
  <2>1. pc = "setup" /\ UNCHANGED <<pc, op, refill, configured, nextPacket, draining>>
    BY <1>15 DEF ProgressDecoderCaptureSetup, call, history
  <2>2. slots' # <<>>
    <3>1. PICK i \in DOMAIN slots, b \in FreeBlocks : slots' = [slots EXCEPT ![i] = b]
      BY <1>15 DEF ProgressDecoderCaptureSetup, Lend
    <3>2. DOMAIN slots' = DOMAIN slots /\ i \in DOMAIN slots'
      BY <3>1
    <3>. QED
      BY <3>2
  <2>. QED
    BY <2>1, <2>2 DEF PointInCall
<1>16. CASE SetupBlocks
  BY <1>16 DEF SetupBlocks, session, device, history, PointInCall, Queued
<1>17. CASE StreamOnCapture
  BY <1>17 DEF StreamOnCapture, GoTo, device, history, PointInCall, Queued
<1>18. CASE StreamOnEmptyQueue
  BY <1>18 DEF StreamOnEmptyQueue, Return, Returns, session, device, history, PointInCall, Queued
<1>19. CASE PumpSkipped
  BY <1>19 DEF PumpSkipped, GoTo, session, device, history, PointInCall, Queued
<1>20. CASE TakeFrame
  <2>. DEFINE b == Head(devOut)
  <2>1. slots \in [CaptureSlots -> Blocks \cup {NoBlock}] /\ b.slot \in CaptureSlots
    <3>1. b \in Buffer /\ slots # <<>>
      BY <1>20, HeadTail DEF TakeFrame, PointInCall, QueuesOK
    <3>. QED
      BY <3>1 DEF QueuesOK, Buffer
  <2>2. slots' = [slots EXCEPT ![b.slot] = NoBlock]
    BY <1>20 DEF TakeFrame, BlockAfterMove
  <2>3. slots' # <<>> /\ slots'[b.slot] = NoBlock
    BY <2>1, <2>2
  <2>4. /\ pc = "pump" /\ configured /\ op # "queue" /\ refill = 0
        /\ UNCHANGED <<op, configured, nextPacket, draining>>
        /\ (pc' = "refill" /\ refill' = b.slot) \/ UNCHANGED <<pc, refill>>
    BY <1>20 DEF TakeFrame, PointInCall
  <2>. QED
    BY <2>1, <2>3, <2>4 DEF PointInCall, Queued
<1>21. CASE RefillDecoderCapture
  <2>1. /\ pc' = "pump" /\ refill' = 0 /\ op # "queue"
        /\ UNCHANGED <<op, configured, nextPacket, draining>>
    BY <1>21 DEF RefillDecoderCapture, history, PointInCall
  <2>2. slots' # <<>>
    <3>1. PICK b : slots' = [slots EXCEPT ![refill] = b]
      BY <1>21 DEF RefillDecoderCapture, Lend
    <3>2. refill \in DOMAIN slots
      BY <1>21, QueueAssumption DEF RefillDecoderCapture, PointInCall, QueuesOK
    <3>3. refill \in DOMAIN slots'
      BY <3>1, <3>2
    <3>. QED
      BY <3>3
  <2>. QED
    BY <2>1, <2>2 DEF PointInCall
<1>22. CASE RefillFails
  BY <1>22 DEF RefillFails, Fault, Return, Returns, session, device, PointInCall, Queued
<1>23. CASE CaptureDrained
  BY <1>23 DEF CaptureDrained, GoTo, session, device, history, PointInCall, Queued
<1>24. CASE CaptureBroken
  BY <1>24 DEF CaptureBroken, Return, Returns, session, device, history, PointInCall, Queued
<1>25. CASE IoctlFails
  BY <1>25 DEF IoctlFails, Fault, OnlyFaults, Return, Returns, session, device, PointInCall, Queued
<1>26. CASE HandOut
  BY <1>26 DEF HandOut, Returns, device, PointInCall, Queued
<1>27. CASE NothingToHandOut
  BY <1>27 DEF NothingToHandOut, Return, Returns, session, device, history, PointInCall, Queued
<1>28. CASE WaitForFrame
  BY <1>28 DEF WaitForFrame, GoTo, session, device, history, PointInCall, Queued
<1>29. CASE WaitForDeviceReady
  BY <1>29 DEF WaitForDeviceReady, session, device, history, PointInCall, Queued
<1>30. CASE WaitForDeviceTimeout
  BY <1>30 DEF WaitForDeviceTimeout, Fault, OnlyFaults, Return, Returns, session, device,
           PointInCall, Queued
<1>31. CASE DriverDecodes
  <2>1. devState'.short = devState.short
    BY <1>31, ShortKept DEF DriverDecodes, FlagsOK
  <2>. QED
    BY <1>31, <2>1 DEF DriverDecodes, session, call, history, PointInCall, Queued
<1>32. CASE DriverChanges
  <2>1. devState'.short = devState.short
    BY <1>32, ShortKept DEF DriverChanges, FlagsOK
  <2>. QED
    BY <1>32, <2>1 DEF DriverChanges, session, call, PointInCall, Queued
<1>33. CASE DriverOutputs
  BY <1>33 DEF DriverOutputs, CanOutput, Took, Ready, session, call, history, PointInCall, Queued
<1>34. CASE DriverDrops
  BY <1>34 DEF DriverDrops, CanOutput, Took, Ready, session, call, PointInCall, Queued
<1>35. CASE DriverEnds
  BY <1>35 DEF DriverEnds, CanOutput, Took, Ready, session, call, history, PointInCall, Queued
<1>36. CASE \E b \in Blocks : ClientReturns(b)
  BY <1>36 DEF ClientReturns, session, device, call, PointInCall, Queued
<1>37. CASE UNCHANGED vars
  BY <1>37 DEF vars, session, device, call, history, PointInCall, Queued
<1>. QED
  BY <1>1, <1>2, <1>3, <1>4, <1>5, <1>6, <1>7, <1>8, <1>9, <1>10, <1>11, <1>12, <1>13, <1>14,
     <1>15, <1>16, <1>17, <1>18, <1>19, <1>20, <1>21, <1>22, <1>23, <1>24, <1>25, <1>26, <1>27,
     <1>28, <1>29, <1>30, <1>31, <1>32, <1>33, <1>34, <1>35, <1>36, <1>37
     DEF AnyNext, Next, Pump, Environment

-----------------------------------------------------------------------------
(* The inductive invariants.                                               *)

SlotsOf(q) == {q[k].slot : k \in DOMAIN q}
FramesOf(q) == {q[k].frame : k \in DOMAIN q} \ {NoFrame}
BlocksOf(q) == {q[k].block : k \in DOMAIN q} \ {NoBlock}

SlotsDistinct(q) == \A i, j \in DOMAIN q : q[i].slot = q[j].slot => i = j
FramesDistinct(q) ==
    \A i, j \in DOMAIN q : q[i].frame # NoFrame /\ q[i].frame = q[j].frame => i = j
BlocksDistinct(q) ==
    \A i, j \in DOMAIN q : q[i].block # NoBlock /\ q[i].block = q[j].block => i = j

\* Each buffer of the queue is the one its slot pins.
Pinned(q) == \A k \in DOMAIN q : q[k].slot \in DOMAIN slots /\ slots[q[k].slot] = q[k].block

\* The driver has each queued slot once, each slot its own block.
DriverHolds ==
    /\ Pinned(devCap) /\ Pinned(devOut) /\ SlotsDistinct(devCap) /\ SlotsDistinct(devOut)
    /\ SlotsOf(devCap) \cap SlotsOf(devOut) = {}
    /\ \A i \in DOMAIN slots : Queued(i) => i \in SlotsOf(devCap) \cup SlotsOf(devOut)

\* A block is in one slot, in one pending frame, or with the client.
BlocksApart ==
    /\ \A i, j \in DOMAIN slots : Queued(i) /\ slots[i] = slots[j] => i = j
    /\ BlocksDistinct(pending)
    /\ SlotBlocks \cap (BlocksOf(pending) \cup client) = {}
    /\ BlocksOf(pending) \cap client = {}

\* A packet is in one place, and there once.
Accounts ==
    /\ FramesDistinct(devIn) /\ FramesDistinct(devOut) /\ FramesDistinct(pending)
    /\ \A f \in accepted : f < nextPacket
    /\ accepted = FramesOf(devIn) \cup devHeld \cup FramesOf(devOut) \cup FramesOf(pending)
                      \cup delivered \cup discarded
    /\ FramesOf(devIn) \cap (devHeld \cup FramesOf(devOut) \cup FramesOf(pending)
                                 \cup delivered \cup discarded) = {}
    /\ devHeld \cap (FramesOf(devOut) \cup FramesOf(pending) \cup delivered \cup discarded) = {}
    /\ FramesOf(devOut) \cap (FramesOf(pending) \cup delivered \cup discarded) = {}
    /\ FramesOf(pending) \cap (delivered \cup discarded) = {}
    /\ delivered \cap discarded = {}

\* LAST ends what the driver outputs until the capture queue is set up again.
LastIsLast ==
    /\ \A i \in DOMAIN devOut : devOut[i].last => i = Len(devOut) /\ devState.last
    /\ sawLast => devState.last /\ devOut = <<>>

\* The slots that nobody will refill and that are not known to be lost.
Unaccounted == {i \in DOMAIN slots : ~Queued(i)} \ (lostSlots \cup {refill})

SlotsCirculate ==
    configured => \A x, y \in Unaccounted : sawLast /\ x = y

\* A drained session whose driver has nothing left to give.
Ended == draining /\ devIn = <<>> /\ devHeld = {} /\ FramesOf(devOut) = {}

\* Without a change of resolution only a drain ends the stream, and after its
\* end no picture follows.
EndInOrder ==
    /\ ~received => accepted = {}
    /\ changes = 0 =>
        /\ ~devState.change
        /\ devState.stop => draining
        /\ devState.last => draining /\ devIn = <<>> /\ devHeld = {}
        /\ \A i \in DOMAIN pending : pending[i].eos =>
               Ended /\ \A j \in DOMAIN pending : i < j => pending[j].frame = NoFrame
        /\ eos => Ended /\ FramesOf(pending) = {}

-----------------------------------------------------------------------------
(* Queues.                                                                 *)

\* What a queue holds.
LEMMA Elements ==
    ASSUME NEW S, NEW q \in Seq(S)
    PROVE  \A k \in DOMAIN q : q[k] \in S
OBVIOUS

\* Where the elements of a longer queue are.
LEMMA AppendIndices ==
    ASSUME NEW S, NEW q \in Seq(S), NEW e \in S
    PROVE  /\ DOMAIN Append(q, e) = DOMAIN q \cup {Len(q) + 1}
           /\ Len(q) + 1 \notin DOMAIN q
           /\ Append(q, e)[Len(q) + 1] = e
           /\ \A i \in DOMAIN q : Append(q, e)[i] = q[i]
OBVIOUS

\* Where the elements of a shorter queue were.
LEMMA TailIndices ==
    ASSUME NEW S, NEW q \in Seq(S), q # <<>>
    PROVE  /\ 1 \in DOMAIN q /\ Head(q) = q[1]
           /\ \A i \in DOMAIN Tail(q) :
                  i \in Nat /\ i + 1 \in DOMAIN q /\ i + 1 # 1 /\ Tail(q)[i] = q[i + 1]
           /\ \A j \in DOMAIN q : j = 1 \/ \E i \in DOMAIN Tail(q) : j = i + 1
<1>1. /\ Len(q) \in Nat /\ Len(q) > 0 /\ DOMAIN q = 1 .. Len(q) /\ Head(q) = q[1]
      /\ DOMAIN Tail(q) = 1 .. (Len(q) - 1)
  OBVIOUS
<1>2. \A i \in DOMAIN Tail(q) : i \in Nat /\ i + 1 \in DOMAIN q /\ i + 1 # 1
  BY <1>1
<1>3. \A i \in DOMAIN Tail(q) : Tail(q)[i] = q[i + 1]
  OBVIOUS
<1>4. \A j \in DOMAIN q : j = 1 \/ (j - 1 \in DOMAIN Tail(q) /\ j = (j - 1) + 1)
  BY <1>1
<1>. QED
  BY <1>1, <1>2, <1>3, <1>4

\* A slot more or less in a queue.
LEMMA SlotsOfAppend ==
    ASSUME NEW S, NEW q \in Seq(S), NEW e \in S
    PROVE  /\ SlotsOf(Append(q, e)) = SlotsOf(q) \cup {e.slot}
           /\ SlotsDistinct(q) /\ e.slot \notin SlotsOf(q) => SlotsDistinct(Append(q, e))
<1>1. /\ DOMAIN Append(q, e) = DOMAIN q \cup {Len(q) + 1} /\ Append(q, e)[Len(q) + 1] = e
      /\ \A i \in DOMAIN q : Append(q, e)[i] = q[i]
  BY AppendIndices
<1>2. SlotsOf(Append(q, e)) = SlotsOf(q) \cup {e.slot}
  BY <1>1 DEF SlotsOf
<1>3. ASSUME SlotsDistinct(q), e.slot \notin SlotsOf(q) PROVE SlotsDistinct(Append(q, e))
  BY <1>1, <1>3 DEF SlotsOf, SlotsDistinct
<1>. QED
  BY <1>2, <1>3

\* The slot of the first element leaves the queue with it.
LEMMA SlotsOfTail ==
    ASSUME NEW S, NEW q \in Seq(S), q # <<>>, SlotsDistinct(q)
    PROVE  /\ SlotsOf(Tail(q)) = SlotsOf(q) \ {Head(q).slot}
           /\ Head(q).slot \in SlotsOf(q)
           /\ SlotsDistinct(Tail(q))
<1>1. /\ 1 \in DOMAIN q /\ Head(q) = q[1]
      /\ \A i \in DOMAIN Tail(q) :
             i \in Nat /\ i + 1 \in DOMAIN q /\ i + 1 # 1 /\ Tail(q)[i] = q[i + 1]
      /\ \A j \in DOMAIN q : j = 1 \/ \E i \in DOMAIN Tail(q) : j = i + 1
  BY TailIndices
<1>2. Head(q).slot \in SlotsOf(q)
  BY <1>1 DEF SlotsOf
<1>3. SlotsDistinct(Tail(q))
  <2>1. \A i, j \in DOMAIN Tail(q) : i + 1 = j + 1 => i = j
    BY <1>1
  <2>. QED
    BY <1>1, <2>1 DEF SlotsDistinct
<1>4. ASSUME NEW x \in SlotsOf(Tail(q)) PROVE x \in SlotsOf(q) \ {Head(q).slot}
  <2>1. PICK i \in DOMAIN Tail(q) : x = Tail(q)[i].slot
    BY <1>4 DEF SlotsOf
  <2>2. x = q[i + 1].slot /\ i + 1 \in DOMAIN q /\ i + 1 # 1
    BY <1>1, <2>1
  <2>. QED
    BY <1>1, <1>4, <2>2 DEF SlotsOf, SlotsDistinct
<1>5. ASSUME NEW x \in SlotsOf(q), x # Head(q).slot PROVE x \in SlotsOf(Tail(q))
  <2>1. PICK j \in DOMAIN q : x = q[j].slot
    BY <1>5 DEF SlotsOf
  <2>2. PICK i \in DOMAIN Tail(q) : j = i + 1
    BY <1>1, <1>5, <2>1
  <2>. QED
    BY <1>1, <1>5, <2>1, <2>2 DEF SlotsOf
<1>. QED
  BY <1>2, <1>3, <1>4, <1>5

\* A frame more or less in a queue.
LEMMA FramesOfAppend ==
    ASSUME NEW S, NEW q \in Seq(S), NEW e \in S
    PROVE  /\ FramesOf(Append(q, e)) = FramesOf(q) \cup ({e.frame} \ {NoFrame})
           /\ FramesDistinct(q) /\ e.frame \notin FramesOf(q) => FramesDistinct(Append(q, e))
<1>1. /\ DOMAIN Append(q, e) = DOMAIN q \cup {Len(q) + 1} /\ Append(q, e)[Len(q) + 1] = e
      /\ \A i \in DOMAIN q : Append(q, e)[i] = q[i]
  BY AppendIndices
<1>2. FramesOf(Append(q, e)) = FramesOf(q) \cup ({e.frame} \ {NoFrame})
  BY <1>1 DEF FramesOf
<1>3. ASSUME FramesDistinct(q), e.frame \notin FramesOf(q) PROVE FramesDistinct(Append(q, e))
  BY <1>1, <1>3 DEF FramesOf, FramesDistinct
<1>. QED
  BY <1>2, <1>3

\* The frame of the first element leaves the queue with it.
LEMMA FramesOfTail ==
    ASSUME NEW S, NEW q \in Seq(S), q # <<>>, FramesDistinct(q)
    PROVE  /\ FramesOf(Tail(q)) = FramesOf(q) \ {Head(q).frame}
           /\ Head(q).frame \in FramesOf(q) \cup {NoFrame}
           /\ FramesDistinct(Tail(q))
<1>1. /\ 1 \in DOMAIN q /\ Head(q) = q[1]
      /\ \A i \in DOMAIN Tail(q) :
             i \in Nat /\ i + 1 \in DOMAIN q /\ i + 1 # 1 /\ Tail(q)[i] = q[i + 1]
      /\ \A j \in DOMAIN q : j = 1 \/ \E i \in DOMAIN Tail(q) : j = i + 1
  BY TailIndices
<1>2. Head(q).frame \in FramesOf(q) \cup {NoFrame}
  BY <1>1 DEF FramesOf
<1>3. FramesDistinct(Tail(q))
  <2>1. \A i, j \in DOMAIN Tail(q) : i + 1 = j + 1 => i = j
    BY <1>1
  <2>. QED
    BY <1>1, <2>1 DEF FramesDistinct
<1>4. ASSUME NEW x \in FramesOf(Tail(q)) PROVE x \in FramesOf(q) \ {Head(q).frame}
  <2>1. PICK i \in DOMAIN Tail(q) : x = Tail(q)[i].frame
    BY <1>4 DEF FramesOf
  <2>2. x = q[i + 1].frame /\ i + 1 \in DOMAIN q /\ i + 1 # 1
    BY <1>1, <2>1
  <2>. QED
    BY <1>1, <1>4, <2>2 DEF FramesOf, FramesDistinct
<1>5. ASSUME NEW x \in FramesOf(q), x # Head(q).frame PROVE x \in FramesOf(Tail(q))
  <2>1. PICK j \in DOMAIN q : x = q[j].frame
    BY <1>5 DEF FramesOf
  <2>2. PICK i \in DOMAIN Tail(q) : j = i + 1
    BY <1>1, <1>5, <2>1
  <2>. QED
    BY <1>1, <1>5, <2>1, <2>2 DEF FramesOf
<1>. QED
  BY <1>2, <1>3, <1>4, <1>5

\* A block more or less in a queue.
LEMMA BlocksOfAppend ==
    ASSUME NEW S, NEW q \in Seq(S), NEW e \in S
    PROVE  /\ BlocksOf(Append(q, e)) = BlocksOf(q) \cup ({e.block} \ {NoBlock})
           /\ BlocksDistinct(q) /\ e.block \notin BlocksOf(q) => BlocksDistinct(Append(q, e))
<1>1. /\ DOMAIN Append(q, e) = DOMAIN q \cup {Len(q) + 1} /\ Append(q, e)[Len(q) + 1] = e
      /\ \A i \in DOMAIN q : Append(q, e)[i] = q[i]
  BY AppendIndices
<1>2. BlocksOf(Append(q, e)) = BlocksOf(q) \cup ({e.block} \ {NoBlock})
  BY <1>1 DEF BlocksOf
<1>3. ASSUME BlocksDistinct(q), e.block \notin BlocksOf(q) PROVE BlocksDistinct(Append(q, e))
  BY <1>1, <1>3 DEF BlocksOf, BlocksDistinct
<1>. QED
  BY <1>2, <1>3

\* The block of the first element leaves the queue with it.
LEMMA BlocksOfTail ==
    ASSUME NEW S, NEW q \in Seq(S), q # <<>>, BlocksDistinct(q)
    PROVE  /\ BlocksOf(Tail(q)) = BlocksOf(q) \ {Head(q).block}
           /\ Head(q).block \in BlocksOf(q) \cup {NoBlock}
           /\ BlocksDistinct(Tail(q))
<1>1. /\ 1 \in DOMAIN q /\ Head(q) = q[1]
      /\ \A i \in DOMAIN Tail(q) :
             i \in Nat /\ i + 1 \in DOMAIN q /\ i + 1 # 1 /\ Tail(q)[i] = q[i + 1]
      /\ \A j \in DOMAIN q : j = 1 \/ \E i \in DOMAIN Tail(q) : j = i + 1
  BY TailIndices
<1>2. Head(q).block \in BlocksOf(q) \cup {NoBlock}
  BY <1>1 DEF BlocksOf
<1>3. BlocksDistinct(Tail(q))
  <2>1. \A i, j \in DOMAIN Tail(q) : i + 1 = j + 1 => i = j
    BY <1>1
  <2>. QED
    BY <1>1, <2>1 DEF BlocksDistinct
<1>4. ASSUME NEW x \in BlocksOf(Tail(q)) PROVE x \in BlocksOf(q) \ {Head(q).block}
  <2>1. PICK i \in DOMAIN Tail(q) : x = Tail(q)[i].block
    BY <1>4 DEF BlocksOf
  <2>2. x = q[i + 1].block /\ i + 1 \in DOMAIN q /\ i + 1 # 1
    BY <1>1, <2>1
  <2>. QED
    BY <1>1, <1>4, <2>2 DEF BlocksOf, BlocksDistinct
<1>5. ASSUME NEW x \in BlocksOf(q), x # Head(q).block PROVE x \in BlocksOf(Tail(q))
  <2>1. PICK j \in DOMAIN q : x = q[j].block
    BY <1>5 DEF BlocksOf
  <2>2. PICK i \in DOMAIN Tail(q) : j = i + 1
    BY <1>1, <1>5, <2>1
  <2>. QED
    BY <1>1, <1>5, <2>1, <2>2 DEF BlocksOf
<1>. QED
  BY <1>2, <1>3, <1>4, <1>5

\* An empty queue holds nothing.
LEMMA EmptyQueue ==
    /\ SlotsOf(<<>>) = {} /\ FramesOf(<<>>) = {} /\ BlocksOf(<<>>) = {}
    /\ SlotsDistinct(<<>>) /\ FramesDistinct(<<>>) /\ BlocksDistinct(<<>>)
    /\ Pinned(<<>>)
BY DEF SlotsOf, FramesOf, BlocksOf, SlotsDistinct, FramesDistinct, BlocksDistinct, Pinned

-----------------------------------------------------------------------------
(* Blocks and their holders.                                               *)

\* Only the buffers of the driver and the slots matter to what it holds.
LEMMA DriverHoldsUnchanged ==
    ASSUME DriverHolds, UNCHANGED <<slots, devCap, devOut>>
    PROVE  DriverHolds'
BY DEF DriverHolds, Pinned, SlotsDistinct, SlotsOf, Queued

\* Only the slots, the pending frames and the client matter to who holds a block.
LEMMA BlocksApartUnchanged ==
    ASSUME BlocksApart, UNCHANGED <<slots, pending, client>>
    PROVE  BlocksApart'
BY DEF BlocksApart, BlocksDistinct, BlocksOf, SlotBlocks, Range, Queued

\* An empty slot that is lent to the driver.
LEMMA LendHolds ==
    ASSUME QueuesOK, DriverHolds, slots # <<>>, NEW i \in DOMAIN slots, ~Queued(i),
           NEW b \in Blocks, Lend(i, b), UNCHANGED devOut
    PROVE  DriverHolds'
<1>. DEFINE e == [slot |-> i, block |-> b]
            S == [slot : CaptureSlots, block : Blocks]
<1>1. slots \in [CaptureSlots -> Blocks \cup {NoBlock}] /\ i \in CaptureSlots /\ devCap \in Seq(S)
  BY DEF QueuesOK
<1>2. e \in S /\ e.slot = i /\ e.block = b
  BY <1>1
<1>3. slots' = [slots EXCEPT ![i] = b] /\ devCap' = Append(devCap, e)
  BY DEF Lend
<1>4. \A k \in DOMAIN devCap : devCap[k].block \in Blocks
  <2>1. \A k \in DOMAIN devCap : devCap[k] \in S
    BY <1>1, Elements
  <2>. QED
    BY <2>1
<1>5. \A k \in DOMAIN devOut : devOut[k].block \in Blocks
  <2>1. \A k \in DOMAIN devOut : devOut[k] \in Buffer
    BY Elements DEF QueuesOK
  <2>. QED
    BY <2>1 DEF Buffer
<1>6. i \notin SlotsOf(devCap) /\ i \notin SlotsOf(devOut)
  BY <1>4, <1>5, BlockAssumption DEF DriverHolds, Pinned, SlotsOf, Queued
<1>. HIDE DEF e, S
<1>7. /\ SlotsOf(devCap') = SlotsOf(devCap) \cup {i} /\ SlotsDistinct(devCap')
  BY <1>1, <1>2, <1>3, <1>6, SlotsOfAppend DEF DriverHolds
<1>8. /\ DOMAIN devCap' = DOMAIN devCap \cup {Len(devCap) + 1} /\ devCap'[Len(devCap) + 1] = e
      /\ \A k \in DOMAIN devCap : devCap'[k] = devCap[k]
  BY <1>1, <1>2, <1>3, AppendIndices
<1>9. \A j \in DOMAIN slots : slots'[j] = IF j = i THEN b ELSE slots[j]
  BY <1>1, <1>3
<1>10. DOMAIN slots' = DOMAIN slots
  BY <1>3
<1>11. Pinned(devCap)' /\ Pinned(devOut)'
  <2>1. ASSUME NEW k \in DOMAIN devCap' PROVE /\ devCap'[k].slot \in DOMAIN slots'
                                             /\ slots'[devCap'[k].slot] = devCap'[k].block
    <3>1. CASE k \in DOMAIN devCap
      BY <3>1, <1>6, <1>8, <1>9, <1>10 DEF DriverHolds, Pinned, SlotsOf
    <3>2. CASE k = Len(devCap) + 1
      BY <3>2, <1>2, <1>8, <1>9, <1>10
    <3>. QED
      BY <2>1, <3>1, <3>2, <1>8
  <2>2. ASSUME NEW k \in DOMAIN devOut PROVE /\ devOut[k].slot \in DOMAIN slots'
                                            /\ slots'[devOut[k].slot] = devOut[k].block
    BY <2>2, <1>6, <1>9, <1>10 DEF DriverHolds, Pinned, SlotsOf
  <2>. QED
    BY <2>1, <2>2 DEF Pinned
<1>12. SlotsOf(devOut') = SlotsOf(devOut) /\ SlotsDistinct(devOut')
  BY DEF DriverHolds
<1>13. \A j \in DOMAIN slots' : Queued(j)' => j \in SlotsOf(devCap') \cup SlotsOf(devOut')
  BY <1>7, <1>9, <1>10, <1>12 DEF DriverHolds, Queued
<1>14. SlotsOf(devCap') \cap SlotsOf(devOut') = {}
  BY <1>6, <1>7, <1>12 DEF DriverHolds
<1>. QED
  BY <1>7, <1>11, <1>12, <1>13, <1>14 DEF DriverHolds, SlotsOf, SlotsDistinct

\* It is given a block that nobody holds.
LEMMA LendApart ==
    ASSUME QueuesOK, BlocksApart, slots # <<>>, NEW i \in DOMAIN slots, ~Queued(i),
           NEW b \in FreeBlocks, Lend(i, b), UNCHANGED <<pending, client>>
    PROVE  BlocksApart'
<1>1. /\ slots \in [CaptureSlots -> Blocks \cup {NoBlock}] /\ i \in CaptureSlots
      /\ slots' = [slots EXCEPT ![i] = b]
  BY DEF QueuesOK, Lend
<1>2. /\ \A j \in DOMAIN slots : slots'[j] = IF j = i THEN b ELSE slots[j]
      /\ DOMAIN slots' = DOMAIN slots
  BY <1>1
<1>3. /\ b # NoBlock /\ b \notin client /\ b \notin BlocksOf(pending)
      /\ \A j \in DOMAIN slots : slots[j] # b
  <2>1. BlocksOf(pending) = PendingBlocks
    BY DEF BlocksOf, PendingBlocks, Range
  <2>2. b # NoBlock
    BY BlockAssumption DEF FreeBlocks
  <2>. QED
    BY <2>1, <2>2 DEF FreeBlocks, SlotBlocks, Range
<1>4. \A j, k \in DOMAIN slots' : Queued(j)' /\ slots'[j] = slots'[k] => j = k
  BY <1>2, <1>3 DEF BlocksApart, Queued
<1>5. SlotBlocks' \subseteq SlotBlocks \cup {b}
  BY <1>2 DEF SlotBlocks, Range
<1>. QED
  BY <1>3, <1>4, <1>5 DEF BlocksApart, BlocksDistinct, BlocksOf

\* The driver fills its first capture buffer.
LEMMA TookHolds ==
    ASSUME QueuesOK, DriverHolds, devCap # <<>>, NEW f \in Packets \cup {NoFrame},
           NEW last \in BOOLEAN, Took(Ready(f, last)), UNCHANGED slots
    PROVE  DriverHolds'
<1>. DEFINE S == [slot : CaptureSlots, block : Blocks]
            e == Ready(f, last)
            h == Head(devCap)
<1>1. devCap \in Seq(S) /\ devOut \in Seq(Buffer) /\ e \in Buffer
  BY TookType DEF QueuesOK
<1>2. e.slot = h.slot /\ e.block = h.block
  BY DEF Ready
<1>3. devCap' = Tail(devCap) /\ devOut' = Append(devOut, e)
  BY DEF Took
<1>. HIDE DEF S, e
<1>4. /\ SlotsOf(Tail(devCap)) = SlotsOf(devCap) \ {h.slot} /\ h.slot \in SlotsOf(devCap)
      /\ SlotsDistinct(Tail(devCap))
  BY <1>1, SlotsOfTail DEF DriverHolds
<1>5. h.slot \notin SlotsOf(devOut)
  BY <1>4 DEF DriverHolds
<1>6. /\ SlotsOf(Append(devOut, e)) = SlotsOf(devOut) \cup {h.slot}
      /\ SlotsDistinct(Append(devOut, e))
  BY <1>1, <1>2, <1>5, SlotsOfAppend DEF DriverHolds
<1>7. Pinned(Tail(devCap))
  <2>1. \A k \in DOMAIN Tail(devCap) : k + 1 \in DOMAIN devCap /\ Tail(devCap)[k] = devCap[k + 1]
    BY <1>1, TailIndices
  <2>. QED
    BY <2>1 DEF DriverHolds, Pinned
<1>8. Pinned(Append(devOut, e))
  <2>1. 1 \in DOMAIN devCap /\ h = devCap[1]
    BY <1>1, TailIndices
  <2>2. h.slot \in DOMAIN slots /\ slots[h.slot] = h.block
    BY <2>1 DEF DriverHolds, Pinned
  <2>3. /\ DOMAIN Append(devOut, e) = DOMAIN devOut \cup {Len(devOut) + 1}
        /\ Append(devOut, e)[Len(devOut) + 1] = e
        /\ \A k \in DOMAIN devOut : Append(devOut, e)[k] = devOut[k]
    BY <1>1, AppendIndices
  <2>. QED
    BY <1>2, <2>2, <2>3 DEF DriverHolds, Pinned
<1>9. Pinned(devCap)' /\ Pinned(devOut)'
  BY <1>3, <1>7, <1>8 DEF Pinned
<1>10. \A j \in DOMAIN slots' : Queued(j)' => j \in SlotsOf(devCap') \cup SlotsOf(devOut')
  BY <1>3, <1>4, <1>6 DEF DriverHolds, Queued
<1>11. SlotsOf(devCap') \cap SlotsOf(devOut') = {}
  BY <1>3, <1>4, <1>5, <1>6 DEF DriverHolds
<1>. QED
  BY <1>3, <1>4, <1>6, <1>9, <1>10, <1>11 DEF DriverHolds, SlotsOf, SlotsDistinct

\* The session dequeues the first ready buffer, and its slot gives the block up.
LEMMA TakeHolds ==
    ASSUME QueuesOK, PointInCall, DriverHolds, TakeFrame
    PROVE  DriverHolds' /\ slots[Head(devOut).slot] = Head(devOut).block
           /\ Head(devOut).slot \in DOMAIN slots
<1>. DEFINE h == Head(devOut)
<1>1. devOut \in Seq(Buffer) /\ devOut # <<>> /\ h \in Buffer
  BY HeadTail DEF QueuesOK, TakeFrame
<1>2. slots \in [CaptureSlots -> Blocks \cup {NoBlock}] /\ h.slot \in CaptureSlots
  BY <1>1 DEF QueuesOK, TakeFrame, PointInCall, Buffer
<1>3. /\ devOut' = Tail(devOut) /\ devCap' = devCap
      /\ slots' = [slots EXCEPT ![h.slot] = NoBlock]
  BY DEF TakeFrame, BlockAfterMove
<1>4. /\ SlotsOf(Tail(devOut)) = SlotsOf(devOut) \ {h.slot} /\ h.slot \in SlotsOf(devOut)
      /\ SlotsDistinct(Tail(devOut))
  BY <1>1, SlotsOfTail DEF DriverHolds
<1>5. h.slot \notin SlotsOf(devCap)
  BY <1>4 DEF DriverHolds
<1>6. /\ \A j \in DOMAIN slots : slots'[j] = IF j = h.slot THEN NoBlock ELSE slots[j]
      /\ DOMAIN slots' = DOMAIN slots
  BY <1>2, <1>3
<1>7. Pinned(devOut)'
  <2>1. \A k \in DOMAIN Tail(devOut) : k + 1 \in DOMAIN devOut /\ Tail(devOut)[k] = devOut[k + 1]
    BY <1>1, TailIndices
  <2>2. \A k \in DOMAIN Tail(devOut) : Tail(devOut)[k].slot # h.slot
    BY <1>4 DEF SlotsOf
  <2>. QED
    BY <1>3, <1>6, <2>1, <2>2 DEF DriverHolds, Pinned
<1>8. Pinned(devCap)'
  BY <1>3, <1>5, <1>6 DEF DriverHolds, Pinned, SlotsOf
<1>9. \A j \in DOMAIN slots' : Queued(j)' => j \in SlotsOf(devCap') \cup SlotsOf(devOut')
  BY <1>3, <1>4, <1>6 DEF DriverHolds, Queued
<1>10. 1 \in DOMAIN devOut /\ h = devOut[1]
  BY <1>1, TailIndices
<1>11. slots[h.slot] = h.block /\ h.slot \in DOMAIN slots
  BY <1>10 DEF DriverHolds, Pinned
<1>12. SlotsOf(devCap') \cap SlotsOf(devOut') = {}
  BY <1>3, <1>4 DEF DriverHolds
<1>13. SlotsDistinct(devCap') /\ SlotsDistinct(devOut')
  BY <1>3, <1>4 DEF DriverHolds
<1>14. DriverHolds'
  BY <1>7, <1>8, <1>9, <1>12, <1>13 DEF DriverHolds, SlotsOf, SlotsDistinct
<1>. QED
  BY <1>11, <1>14

\* The block moves from its slot into the pending frame.
LEMMA TakeApart ==
    ASSUME QueuesOK, PointInCall, DriverHolds, BlocksApart, TakeFrame
    PROVE  BlocksApart'
<1>. DEFINE h == Head(devOut)
            f == [frame |-> h.frame, block |-> h.block, eos |-> h.last]
<1>1. devOut \in Seq(Buffer) /\ devOut # <<>> /\ h \in Buffer
  BY HeadTail DEF QueuesOK, TakeFrame
<1>2. slots \in [CaptureSlots -> Blocks \cup {NoBlock}] /\ h.slot \in CaptureSlots
  BY <1>1 DEF QueuesOK, TakeFrame, PointInCall, Buffer
<1>3. slots' = [slots EXCEPT ![h.slot] = NoBlock] /\ client' = client
  BY DEF TakeFrame, BlockAfterMove
<1>4. /\ \A j \in DOMAIN slots : slots'[j] = IF j = h.slot THEN NoBlock ELSE slots[j]
      /\ DOMAIN slots' = DOMAIN slots
  BY <1>2, <1>3
<1>5. slots[h.slot] = h.block /\ h.slot \in DOMAIN slots /\ h.block # NoBlock
  BY <1>1, TakeHolds, BlockAssumption DEF Buffer
<1>6. h.block \in SlotBlocks /\ h.block \notin BlocksOf(pending) /\ h.block \notin client
  BY <1>5 DEF BlocksApart, SlotBlocks, Range
<1>7. SlotBlocks' \subseteq SlotBlocks \ {h.block}
  BY <1>4, <1>5 DEF SlotBlocks, Range, BlocksApart, Queued
<1>8. \A j, k \in DOMAIN slots' : Queued(j)' /\ slots'[j] = slots'[k] => j = k
  BY <1>4 DEF BlocksApart, Queued
<1>9. CASE pending' = pending
  BY <1>3, <1>7, <1>8, <1>9 DEF BlocksApart
<1>10. CASE pending' = Append(pending, f)
  <2>1. f \in Frame /\ f.block = h.block /\ pending \in Seq(Frame)
    BY <1>1, BufferToFrame DEF QueuesOK
  <2>. HIDE DEF f
  <2>2. /\ BlocksOf(pending') = BlocksOf(pending) \cup {h.block}
        /\ BlocksDistinct(pending')
    BY <1>5, <1>6, <1>10, <2>1, BlocksOfAppend DEF BlocksApart
  <2>. QED
    BY <1>3, <1>6, <1>7, <1>8, <2>2 DEF BlocksApart
<1>. QED
  BY <1>9, <1>10 DEF TakeFrame

\* The block of the first pending frame goes to the client.
LEMMA HandOutApart ==
    ASSUME QueuesOK, BlocksApart, HandOut
    PROVE  BlocksApart'
<1>. DEFINE h == Head(pending)
<1>1. /\ pending \in Seq(Frame) /\ pending # <<>> /\ pending' = Tail(pending)
      /\ client' = client \cup ({h.block} \ {NoBlock}) /\ UNCHANGED slots
  BY DEF QueuesOK, HandOut
<1>2. /\ BlocksOf(pending') = BlocksOf(pending) \ {h.block} /\ BlocksDistinct(pending')
      /\ h.block \in BlocksOf(pending) \cup {NoBlock}
  BY <1>1, BlocksOfTail DEF BlocksApart
<1>3. SlotBlocks' = SlotBlocks
  BY <1>1 DEF SlotBlocks
<1>. QED
  BY <1>1, <1>2, <1>3 DEF BlocksApart, Queued

\* Every step keeps the driver's buffers pinned.
LEMMA HoldsStep ==
    ASSUME QueuesOK, PointInCall, DriverHolds, [AnyNext]_vars
    PROVE  DriverHolds'
<1>1. CASE Open
  BY <1>1, EmptyQueue DEF Open, CloseSession, Fault, call, DriverHolds, Pinned, SlotsOf,
           SlotsDistinct, Queued
<1>2. CASE Close
  BY <1>2, EmptyQueue DEF Close, CloseSession, call, DriverHolds, Pinned, SlotsOf, SlotsDistinct,
           Queued
<1>3. CASE EnterQueueDecoderPacket
  BY <1>3, DriverHoldsUnchanged DEF EnterQueueDecoderPacket, session, device, history
<1>4. CASE RejectDecoderPacket
  BY <1>4, DriverHoldsUnchanged DEF RejectDecoderPacket, Fault, OnlyFaults, session, device
<1>5. CASE \E wait \in BOOLEAN : EnterDequeueDecoderFrame(wait)
  BY <1>5, DriverHoldsUnchanged DEF EnterDequeueDecoderFrame, session, device, history
<1>6. CASE StartDecoderDrain
  BY <1>6, DriverHoldsUnchanged DEF StartDecoderDrain, EndsAtOnce, history
<1>7. CASE StartDecoderDrainFails
  BY <1>7, DriverHoldsUnchanged DEF StartDecoderDrainFails, Fault, OnlyFaults, session, device
<1>8. CASE DequeueDecoderInputs
  BY <1>8, DriverHoldsUnchanged DEF DequeueDecoderInputs, GoTo, history
<1>9. CASE QueueBlocks
  BY <1>9, DriverHoldsUnchanged DEF QueueBlocks, Return, Returns, session, device, history
<1>10. CASE QueuePacket
  BY <1>10, DriverHoldsUnchanged DEF QueuePacket, Return, Returns
<1>11. CASE BeginDecoderCaptureSetup
  BY <1>11, EmptyQueue DEF BeginDecoderCaptureSetup, ResetDecoderCapture, DriverHolds, Pinned,
           SlotsOf, SlotsDistinct, Queued
<1>12. CASE BeginDecoderCaptureSetupFails
  BY <1>12, EmptyQueue DEF BeginDecoderCaptureSetupFails, ResetDecoderCapture, DriverHolds, Pinned,
           SlotsOf, SlotsDistinct, Queued
<1>13. CASE ClosedFails
  BY <1>13, DriverHoldsUnchanged DEF ClosedFails, Return, Returns, session, device, history
<1>14. CASE EventsHandled
  BY <1>14, DriverHoldsUnchanged DEF EventsHandled, GoTo, session, device, history
<1>15. CASE ProgressDecoderCaptureSetup
  <2>1. PICK i \in DOMAIN slots, b \in FreeBlocks : ~Queued(i) /\ Lend(i, b)
    BY <1>15 DEF ProgressDecoderCaptureSetup
  <2>2. slots # <<>> /\ b \in Blocks /\ UNCHANGED devOut
    BY <1>15, <2>1 DEF ProgressDecoderCaptureSetup, FreeBlocks
  <2>. QED
    BY <2>1, <2>2, LendHolds
<1>16. CASE SetupBlocks
  BY <1>16, DriverHoldsUnchanged DEF SetupBlocks, session, device, history
<1>17. CASE StreamOnCapture
  BY <1>17, DriverHoldsUnchanged DEF StreamOnCapture, GoTo, device, history
<1>18. CASE StreamOnEmptyQueue
  BY <1>18, DriverHoldsUnchanged DEF StreamOnEmptyQueue, Return, Returns, session, device, history
<1>19. CASE PumpSkipped
  BY <1>19, DriverHoldsUnchanged DEF PumpSkipped, GoTo, session, device, history
<1>20. CASE TakeFrame
  BY <1>20, TakeHolds
<1>21. CASE RefillDecoderCapture
  <2>1. PICK b \in FreeBlocks : Lend(refill, b)
    BY <1>21 DEF RefillDecoderCapture
  <2>2. /\ slots # <<>> /\ refill \in DOMAIN slots /\ ~Queued(refill) /\ b \in Blocks
        /\ UNCHANGED <<devOut, pending, client>>
    BY <1>21, <2>1 DEF RefillDecoderCapture, PointInCall, QueuesOK, FreeBlocks, history
  <2>. QED
    BY <2>1, <2>2, LendHolds
<1>22. CASE RefillFails
  BY <1>22, DriverHoldsUnchanged DEF RefillFails, Fault, Return, Returns, session, device
<1>23. CASE CaptureDrained
  BY <1>23, DriverHoldsUnchanged DEF CaptureDrained, GoTo, session, device, history
<1>24. CASE CaptureBroken
  BY <1>24, DriverHoldsUnchanged DEF CaptureBroken, Return, Returns, session, device, history
<1>25. CASE IoctlFails
  BY <1>25, DriverHoldsUnchanged DEF IoctlFails, Fault, OnlyFaults, Return, Returns, session, device
<1>26. CASE HandOut
  BY <1>26, DriverHoldsUnchanged DEF HandOut, Returns, device
<1>27. CASE NothingToHandOut
  BY <1>27, DriverHoldsUnchanged DEF NothingToHandOut, Return, Returns, session, device, history
<1>28. CASE WaitForFrame
  BY <1>28, DriverHoldsUnchanged DEF WaitForFrame, GoTo, session, device, history
<1>29. CASE WaitForDeviceReady
  BY <1>29, DriverHoldsUnchanged DEF WaitForDeviceReady, session, device, history
<1>30. CASE WaitForDeviceTimeout
  BY <1>30, DriverHoldsUnchanged DEF WaitForDeviceTimeout, Fault, OnlyFaults, Return, Returns,
           session, device
<1>31. CASE DriverDecodes
  BY <1>31, DriverHoldsUnchanged DEF DriverDecodes, CanDecode, session, call, history
<1>32. CASE DriverChanges
  BY <1>32, DriverHoldsUnchanged DEF DriverChanges, session, call
<1>33. CASE DriverOutputs
  <2>1. PICK f \in Packets \cup {NoFrame}, last \in BOOLEAN : Took(Ready(f, last))
    BY <1>33 DEF DriverOutputs, QueuesOK
  <2>2. devCap # <<>> /\ UNCHANGED slots
    BY <1>33 DEF DriverOutputs, CanOutput, session
  <2>. QED
    BY <2>1, <2>2, TookHolds
<1>34. CASE DriverDrops
  <2>1. PICK f \in Packets \cup {NoFrame}, last \in BOOLEAN : Took(Ready(f, last))
    BY <1>34 DEF DriverDrops, QueuesOK
  <2>2. devCap # <<>> /\ UNCHANGED slots
    BY <1>34 DEF DriverDrops, CanOutput, session
  <2>. QED
    BY <2>1, <2>2, TookHolds
<1>35. CASE DriverEnds
  <2>1. PICK f \in Packets \cup {NoFrame}, last \in BOOLEAN : Took(Ready(f, last))
    BY <1>35 DEF DriverEnds, QueuesOK
  <2>2. devCap # <<>> /\ UNCHANGED slots
    BY <1>35 DEF DriverEnds, CanOutput, session
  <2>. QED
    BY <2>1, <2>2, TookHolds
<1>36. CASE \E b \in Blocks : ClientReturns(b)
  BY <1>36, DriverHoldsUnchanged DEF ClientReturns, session, device, call
<1>37. CASE UNCHANGED vars
  BY <1>37, DriverHoldsUnchanged DEF vars, session, device, call, history
<1>. QED
  BY <1>1, <1>2, <1>3, <1>4, <1>5, <1>6, <1>7, <1>8, <1>9, <1>10, <1>11, <1>12, <1>13, <1>14,
     <1>15, <1>16, <1>17, <1>18, <1>19, <1>20, <1>21, <1>22, <1>23, <1>24, <1>25, <1>26, <1>27,
     <1>28, <1>29, <1>30, <1>31, <1>32, <1>33, <1>34, <1>35, <1>36, <1>37
     DEF AnyNext, Next, Pump, Environment

\* Every step keeps the holders of the blocks apart.
LEMMA ApartStep ==
    ASSUME QueuesOK, PointInCall, DriverHolds, BlocksApart, [AnyNext]_vars
    PROVE  BlocksApart'
<1>1. CASE Open
  BY <1>1, EmptyQueue DEF Open, CloseSession, Fault, call, BlocksApart, SlotBlocks, Range, Queued
<1>2. CASE Close
  BY <1>2, EmptyQueue DEF Close, CloseSession, call, BlocksApart, SlotBlocks, Range, Queued
<1>3. CASE EnterQueueDecoderPacket
  BY <1>3, BlocksApartUnchanged DEF EnterQueueDecoderPacket, session, device, history
<1>4. CASE RejectDecoderPacket
  BY <1>4, BlocksApartUnchanged DEF RejectDecoderPacket, Fault, OnlyFaults, session, device
<1>5. CASE \E wait \in BOOLEAN : EnterDequeueDecoderFrame(wait)
  BY <1>5, BlocksApartUnchanged DEF EnterDequeueDecoderFrame, session, device, history
<1>6. CASE StartDecoderDrain
  <2>. DEFINE end == [frame |-> NoFrame, block |-> NoBlock, eos |-> TRUE]
  <2>1. UNCHANGED <<slots, client>> /\ (pending' = pending \/ pending' = Append(pending, end))
    BY <1>6 DEF StartDecoderDrain, history
  <2>2. end \in Frame /\ end.block = NoBlock /\ pending \in Seq(Frame)
    BY EmptyFrames DEF QueuesOK
  <2>. HIDE DEF end
  <2>3. CASE pending' = Append(pending, end)
    <3>1. NoBlock \notin BlocksOf(pending)
      BY DEF BlocksOf
    <3>2. BlocksOf(pending') = BlocksOf(pending) /\ BlocksDistinct(pending')
      <4>1. /\ BlocksOf(Append(pending, end)) = BlocksOf(pending) \cup ({end.block} \ {NoBlock})
            /\ BlocksDistinct(pending) /\ end.block \notin BlocksOf(pending) =>
                   BlocksDistinct(Append(pending, end))
        BY <2>2, BlocksOfAppend
      <4>. QED
        BY <2>2, <2>3, <3>1, <4>1 DEF BlocksApart
    <3>. QED
      BY <2>1, <3>2 DEF BlocksApart, SlotBlocks, Queued
  <2>. QED
    BY <2>1, <2>3, BlocksApartUnchanged
<1>7. CASE StartDecoderDrainFails
  BY <1>7, BlocksApartUnchanged DEF StartDecoderDrainFails, Fault, OnlyFaults, session, device
<1>8. CASE DequeueDecoderInputs
  BY <1>8, BlocksApartUnchanged DEF DequeueDecoderInputs, GoTo, history
<1>9. CASE QueueBlocks
  BY <1>9, BlocksApartUnchanged DEF QueueBlocks, Return, Returns, session, device, history
<1>10. CASE QueuePacket
  BY <1>10, BlocksApartUnchanged DEF QueuePacket, Return, Returns
<1>11. CASE BeginDecoderCaptureSetup
  BY <1>11 DEF BeginDecoderCaptureSetup, BlocksApart, SlotBlocks, Range, Queued, BlocksOf,
           BlocksDistinct
<1>12. CASE BeginDecoderCaptureSetupFails
  BY <1>12 DEF BeginDecoderCaptureSetupFails, BlocksApart, SlotBlocks, Range, Queued, BlocksOf,
           BlocksDistinct
<1>13. CASE ClosedFails
  BY <1>13, BlocksApartUnchanged DEF ClosedFails, Return, Returns, session, device, history
<1>14. CASE EventsHandled
  BY <1>14, BlocksApartUnchanged DEF EventsHandled, GoTo, session, device, history
<1>15. CASE ProgressDecoderCaptureSetup
  <2>1. PICK i \in DOMAIN slots, b \in FreeBlocks : ~Queued(i) /\ Lend(i, b)
    BY <1>15 DEF ProgressDecoderCaptureSetup
  <2>2. slots # <<>> /\ UNCHANGED <<pending, client>>
    BY <1>15, <2>1 DEF ProgressDecoderCaptureSetup, history
  <2>. QED
    BY <2>1, <2>2, LendApart
<1>16. CASE SetupBlocks
  BY <1>16, BlocksApartUnchanged DEF SetupBlocks, session, device, history
<1>17. CASE StreamOnCapture
  BY <1>17, BlocksApartUnchanged DEF StreamOnCapture, GoTo, device, history
<1>18. CASE StreamOnEmptyQueue
  BY <1>18, BlocksApartUnchanged DEF StreamOnEmptyQueue, Return, Returns, session, device, history
<1>19. CASE PumpSkipped
  BY <1>19, BlocksApartUnchanged DEF PumpSkipped, GoTo, session, device, history
<1>20. CASE TakeFrame
  BY <1>20, TakeApart
<1>21. CASE RefillDecoderCapture
  <2>1. PICK b \in FreeBlocks : Lend(refill, b)
    BY <1>21 DEF RefillDecoderCapture
  <2>2. /\ slots # <<>> /\ refill \in DOMAIN slots /\ ~Queued(refill) /\ b \in Blocks
        /\ UNCHANGED <<devOut, pending, client>>
    BY <1>21, <2>1 DEF RefillDecoderCapture, PointInCall, QueuesOK, FreeBlocks, history
  <2>. QED
    BY <2>1, <2>2, LendApart
<1>22. CASE RefillFails
  BY <1>22, BlocksApartUnchanged DEF RefillFails, Fault, Return, Returns, session, device
<1>23. CASE CaptureDrained
  BY <1>23, BlocksApartUnchanged DEF CaptureDrained, GoTo, session, device, history
<1>24. CASE CaptureBroken
  BY <1>24, BlocksApartUnchanged DEF CaptureBroken, Return, Returns, session, device, history
<1>25. CASE IoctlFails
  BY <1>25, BlocksApartUnchanged DEF IoctlFails, Fault, OnlyFaults, Return, Returns, session, device
<1>26. CASE HandOut
  BY <1>26, HandOutApart
<1>27. CASE NothingToHandOut
  BY <1>27, BlocksApartUnchanged DEF NothingToHandOut, Return, Returns, session, device, history
<1>28. CASE WaitForFrame
  BY <1>28, BlocksApartUnchanged DEF WaitForFrame, GoTo, session, device, history
<1>29. CASE WaitForDeviceReady
  BY <1>29, BlocksApartUnchanged DEF WaitForDeviceReady, session, device, history
<1>30. CASE WaitForDeviceTimeout
  BY <1>30, BlocksApartUnchanged DEF WaitForDeviceTimeout, Fault, OnlyFaults, Return, Returns,
           session, device
<1>31. CASE DriverDecodes
  BY <1>31, BlocksApartUnchanged DEF DriverDecodes, CanDecode, session, call, history
<1>32. CASE DriverChanges
  BY <1>32, BlocksApartUnchanged DEF DriverChanges, session, call
<1>33. CASE DriverOutputs
  BY <1>33, BlocksApartUnchanged DEF DriverOutputs, CanOutput, Took, Ready, session, call, history
<1>34. CASE DriverDrops
  BY <1>34, BlocksApartUnchanged DEF DriverDrops, CanOutput, Took, Ready, session, call
<1>35. CASE DriverEnds
  BY <1>35, BlocksApartUnchanged DEF DriverEnds, CanOutput, Took, Ready, session, call, history
<1>36. CASE \E b \in Blocks : ClientReturns(b)
  BY <1>36 DEF ClientReturns, session, BlocksApart, BlocksOf, BlocksDistinct, SlotBlocks, Range,
           Queued
<1>37. CASE UNCHANGED vars
  BY <1>37, BlocksApartUnchanged DEF vars, session, device, call, history
<1>. QED
  BY <1>1, <1>2, <1>3, <1>4, <1>5, <1>6, <1>7, <1>8, <1>9, <1>10, <1>11, <1>12, <1>13, <1>14,
     <1>15, <1>16, <1>17, <1>18, <1>19, <1>20, <1>21, <1>22, <1>23, <1>24, <1>25, <1>26, <1>27,
     <1>28, <1>29, <1>30, <1>31, <1>32, <1>33, <1>34, <1>35, <1>36, <1>37
     DEF AnyNext, Next, Pump, Environment

\* A one-to-one map of an interval or a finite set onto a set counts it.
LEMMA CountByMap ==
    ASSUME NEW S, NEW T, IsFiniteSet(S), NEW F \in [S -> T],
           \A x, y \in S : F[x] = F[y] => x = y, \A t \in T : \E x \in S : F[x] = t
    PROVE  Cardinality(T) = Cardinality(S)
<1>1. F \in Bijection(S, T)
  BY DEF Bijection, Injection, Surjection, IsInjective
<1>2. ExistsBijection(S, T)
  BY <1>1 DEF ExistsBijection
<1>. QED
  BY <1>2, FS_Bijection

\* The places of a sequence, counted.
LEMMA IntervalCount ==
    ASSUME NEW c \in Nat
    PROVE  IsFiniteSet(1 .. c) /\ Cardinality(1 .. c) = c
<1>1. /\ IsFiniteSet(1 .. c)
      /\ Cardinality(1 .. c) = IF 1 > c THEN 0 ELSE c - 1 + 1
  BY FS_Interval
<1>. QED
  BY <1>1

\* One holder for each block, counted: the driver's buffers are the queued slots
\* with their blocks, as many buffers as slots and as many blocks.
LEMMA HoldersCounted ==
    ASSUME QueuesOK, DriverHolds, BlocksApart
    PROVE  BlocksHaveOneHolder
<1>. DEFINE n == Len(devCap)
            m == Len(devOut)
            Used == {j \in DOMAIN slots : Queued(j)}
            F == [k \in 1 .. (n + m) |->
                     IF k <= n THEN <<devCap[k].slot, devCap[k].block>>
                     ELSE <<devOut[k - n].slot, devOut[k - n].block>>]
<1>1. /\ n \in Nat /\ m \in Nat /\ DOMAIN devCap = 1 .. n /\ DOMAIN devOut = 1 .. m
      /\ \A k \in 1 .. n : devCap[k].block \in Blocks
      /\ \A k \in 1 .. m : devOut[k].block \in Blocks
  <2>1. /\ \A k \in DOMAIN devCap : devCap[k] \in [slot : CaptureSlots, block : Blocks]
        /\ \A k \in DOMAIN devOut : devOut[k] \in Buffer
    BY Elements DEF QueuesOK
  <2>. QED
    BY <2>1 DEF QueuesOK, Buffer
<1>2. \A p : p \in DriverBuffers <=>
                \/ \E k \in 1 .. n : p = <<devCap[k].slot, devCap[k].block>>
                \/ \E k \in 1 .. m : p = <<devOut[k].slot, devOut[k].block>>
  BY <1>1 DEF DriverBuffers, Range
<1>3. DriverBuffers = {<<i, slots[i]>> : i \in Used}
  <2>1. ASSUME NEW p \in DriverBuffers PROVE p \in {<<i, slots[i]>> : i \in Used}
    <3>1. CASE \E k \in 1 .. n : p = <<devCap[k].slot, devCap[k].block>>
      BY <3>1, <1>1, BlockAssumption DEF DriverHolds, Pinned, Queued
    <3>2. CASE \E k \in 1 .. m : p = <<devOut[k].slot, devOut[k].block>>
      BY <3>2, <1>1, BlockAssumption DEF DriverHolds, Pinned, Queued
    <3>. QED
      BY <2>1, <1>2, <3>1, <3>2
  <2>2. ASSUME NEW i \in Used PROVE <<i, slots[i]>> \in DriverBuffers
    <3>1. i \in SlotsOf(devCap) \/ i \in SlotsOf(devOut)
      BY DEF DriverHolds
    <3>2. CASE i \in SlotsOf(devCap)
      <4>1. PICK k \in DOMAIN devCap : i = devCap[k].slot
        BY <3>2 DEF SlotsOf
      <4>2. slots[i] = devCap[k].block
        BY <4>1 DEF DriverHolds, Pinned
      <4>. QED
        BY <4>1, <4>2, <1>1, <1>2
    <3>3. CASE i \in SlotsOf(devOut)
      <4>1. PICK k \in DOMAIN devOut : i = devOut[k].slot
        BY <3>3 DEF SlotsOf
      <4>2. slots[i] = devOut[k].block
        BY <4>1 DEF DriverHolds, Pinned
      <4>. QED
        BY <4>1, <4>2, <1>1, <1>2
    <3>. QED
      BY <3>1, <3>2, <3>3
  <2>. QED
    BY <2>1, <2>2
<1>4. n + m = Cardinality(DriverBuffers)
  <2>1. /\ \A k \in 1 .. (n + m) : k <= n => k \in 1 .. n /\ F[k] = <<devCap[k].slot, devCap[k].block>>
        /\ \A k \in 1 .. (n + m) : ~(k <= n) =>
               k - n \in 1 .. m /\ F[k] = <<devOut[k - n].slot, devOut[k - n].block>>
    BY <1>1
  <2>2. F \in [1 .. (n + m) -> DriverBuffers]
    <3>1. \A k \in 1 .. (n + m) : F[k] \in DriverBuffers
      BY <1>2, <2>1
    <3>. QED
      BY <3>1
  <2>3. ASSUME NEW x \in 1 .. (n + m), NEW y \in 1 .. (n + m), F[x] = F[y] PROVE x = y
    <3>1. CASE x <= n /\ y <= n
      <4>1. x \in DOMAIN devCap /\ y \in DOMAIN devCap /\ devCap[x].slot = devCap[y].slot
        BY <2>1, <2>3, <3>1, <1>1
      <4>. QED
        BY <4>1 DEF DriverHolds, SlotsDistinct
    <3>2. CASE ~(x <= n) /\ ~(y <= n)
      <4>1. /\ x - n \in DOMAIN devOut /\ y - n \in DOMAIN devOut
            /\ devOut[x - n].slot = devOut[y - n].slot
        BY <2>1, <2>3, <3>2, <1>1
      <4>2. x - n = y - n
        BY <4>1 DEF DriverHolds, SlotsDistinct
      <4>. QED
        BY <4>2, <1>1
    <3>3. CASE x <= n /\ ~(y <= n)
      <4>1. /\ x \in DOMAIN devCap /\ y - n \in DOMAIN devOut
            /\ devCap[x].slot = devOut[y - n].slot
        BY <2>1, <2>3, <3>3, <1>1
      <4>. QED
        BY <4>1 DEF DriverHolds, SlotsOf
    <3>4. CASE ~(x <= n) /\ y <= n
      <4>1. /\ y \in DOMAIN devCap /\ x - n \in DOMAIN devOut
            /\ devCap[y].slot = devOut[x - n].slot
        BY <2>1, <2>3, <3>4, <1>1
      <4>. QED
        BY <4>1 DEF DriverHolds, SlotsOf
    <3>. QED
      BY <3>1, <3>2, <3>3, <3>4
  <2>4. ASSUME NEW p \in DriverBuffers PROVE \E k \in 1 .. (n + m) : F[k] = p
    <3>1. CASE \E k \in 1 .. n : p = <<devCap[k].slot, devCap[k].block>>
      <4>1. PICK k \in 1 .. n : p = <<devCap[k].slot, devCap[k].block>>
        BY <3>1
      <4>2. k \in 1 .. (n + m) /\ k <= n
        BY <1>1
      <4>3. F[k] = p
        BY <2>1, <4>1, <4>2
      <4>. QED
        BY <4>2, <4>3
    <3>2. CASE \E k \in 1 .. m : p = <<devOut[k].slot, devOut[k].block>>
      <4>1. PICK k \in 1 .. m : p = <<devOut[k].slot, devOut[k].block>>
        BY <3>2
      <4>2. n + k \in 1 .. (n + m) /\ ~(n + k <= n) /\ (n + k) - n = k
        BY <1>1
      <4>3. F[n + k] = p
        BY <2>1, <4>1, <4>2
      <4>. QED
        BY <4>2, <4>3
    <3>. QED
      BY <2>4, <1>2, <3>1, <3>2
  <2>5. /\ IsFiniteSet(1 .. (n + m)) /\ Cardinality(1 .. (n + m)) = n + m
    <3>1. n + m \in Nat
      BY <1>1
    <3>. QED
      BY <3>1, IntervalCount
  <2>6. \A x, y \in 1 .. (n + m) : F[x] = F[y] => x = y
    BY <2>3
  <2>7. \A p \in DriverBuffers : \E k \in 1 .. (n + m) : F[k] = p
    BY <2>4
  <2>. DEFINE S == 1 .. (n + m)
  <2>8. /\ F \in [S -> DriverBuffers] /\ IsFiniteSet(S) /\ Cardinality(S) = n + m
        /\ \A x, y \in S : F[x] = F[y] => x = y
        /\ \A p \in DriverBuffers : \E k \in S : F[k] = p
    BY <2>2, <2>5, <2>6, <2>7
  <2>. HIDE DEF F, n, m, S
  <2>9. Cardinality(DriverBuffers) = Cardinality(S)
    BY <2>8, CountByMap
  <2>. QED
    BY <2>8, <2>9
<1>5. Cardinality(SlotBlocks) = Cardinality(Used)
  <2>. DEFINE G == [i \in Used |-> slots[i]]
  <2>1. DOMAIN slots \subseteq 1 .. NumCaptures
    <3>1. CASE slots = <<>>
      <4>1. DOMAIN slots = {}
        BY <3>1
      <4>. QED
        BY <4>1
    <3>2. CASE slots \in [CaptureSlots -> Blocks \cup {NoBlock}]
      BY <3>2 DEF CaptureSlots
    <3>. QED
      BY <3>1, <3>2 DEF QueuesOK
  <2>2. IsFiniteSet(1 .. NumCaptures)
    BY QueueAssumption, FS_Interval
  <2>3. IsFiniteSet(Used)
    <3>1. Used \subseteq 1 .. NumCaptures
      BY <2>1
    <3>. QED
      BY <3>1, <2>2, FS_Subset
  <2>4. G \in [Used -> SlotBlocks] /\ \A t \in SlotBlocks : \E i \in Used : G[i] = t
    <3>1. \A i \in Used : slots[i] \in SlotBlocks
      BY DEF SlotBlocks, Range, Queued
    <3>2. \A t \in SlotBlocks : \E i \in DOMAIN slots : slots[i] = t /\ t # NoBlock
      BY DEF SlotBlocks, Range
    <3>3. \A t \in SlotBlocks : \E i \in Used : slots[i] = t
      BY <3>2 DEF Queued
    <3>4. \A i \in Used : G[i] = slots[i]
      OBVIOUS
    <3>5. G \in [Used -> SlotBlocks]
      BY <3>1
    <3>. QED
      BY <3>3, <3>4, <3>5
  <2>5. \A x, y \in Used : G[x] = G[y] => x = y
    BY DEF BlocksApart
  <2>. HIDE DEF G, Used
  <2>. QED
    BY <2>3, <2>4, <2>5, CountByMap
<1>6. PendingBlocks = BlocksOf(pending)
  BY DEF PendingBlocks, BlocksOf, Range
<1>. QED
  BY <1>3, <1>4, <1>5, <1>6 DEF BlocksHaveOneHolder, BlocksApart

-----------------------------------------------------------------------------
(* Packets and where they are.                                             *)

\* Only the queues and the sets of packets matter to the account.
LEMMA AccountsUnchanged ==
    ASSUME Accounts, UNCHANGED <<devIn, devHeld, devOut, pending, accepted, delivered,
                                 discarded, nextPacket>>
    PROVE  Accounts'
<1>1. /\ FramesOf(devIn') = FramesOf(devIn) /\ FramesOf(devOut') = FramesOf(devOut)
      /\ FramesOf(pending') = FramesOf(pending)
  OBVIOUS
<1>2. FramesDistinct(devIn') /\ FramesDistinct(devOut') /\ FramesDistinct(pending')
  BY DEF Accounts
<1>. QED
  BY <1>1, <1>2 DEF Accounts

\* An account that is empty.
LEMMA AccountsEmpty ==
    ASSUME devIn' = <<>>, devHeld' = {}, devOut' = <<>>, pending' = <<>>, accepted' = {},
           delivered' = {}, discarded' = {}
    PROVE  Accounts'
BY EmptyQueue DEF Accounts

\* A packet is never 0, the number that stands for no frame.
LEMMA PacketIsFrame == NoFrame \notin Packets
BY DEF NoFrame, Packets

\* The packet that QueuePacket numbers is a new one.
LEMMA QueueAccounts ==
    ASSUME QueuesOK, CountsOK, PointInCall, Accounts, QueuePacket
    PROVE  Accounts'
<1>. DEFINE S == [slot : InputSlots, frame : Packets]
<1>1. PICK t \in FreeInputs : devIn' = Append(devIn, [slot |-> t, frame |-> nextPacket])
  BY DEF QueuePacket
<1>. DEFINE e == [slot |-> t, frame |-> nextPacket]
<1>2. nextPacket \in Packets /\ nextPacket \in Nat
  BY DEF QueuePacket, PointInCall, CountsOK, Packets
<1>3. e \in S /\ e.frame = nextPacket /\ devIn \in Seq(S) /\ devIn' = Append(devIn, e)
  BY <1>1, <1>2 DEF FreeInputs, QueuesOK
<1>. HIDE DEF e, S
<1>4. nextPacket # NoFrame
  BY <1>2, PacketIsFrame
<1>5. nextPacket \notin accepted
  BY <1>2 DEF Accounts
<1>6. FramesOf(devIn') = FramesOf(devIn) \cup {nextPacket} /\ FramesDistinct(devIn')
  <2>1. nextPacket \notin FramesOf(devIn)
    BY <1>5 DEF Accounts
  <2>. QED
    BY <1>3, <1>4, <2>1, FramesOfAppend DEF Accounts
<1>7. /\ accepted' = accepted \cup {nextPacket} /\ nextPacket' = nextPacket + 1
      /\ UNCHANGED <<devHeld, devOut, pending, delivered, discarded>>
  BY DEF QueuePacket
<1>8. \A f \in accepted' : f < nextPacket'
  <2>1. \A f \in accepted : f \in Nat
    BY DEF CountsOK, Packets
  <2>. QED
    BY <1>2, <1>7, <2>1 DEF Accounts
<1>. QED
  BY <1>5, <1>6, <1>7, <1>8 DEF Accounts

\* The driver decodes the first packet of its queue.
LEMMA DecodeAccounts ==
    ASSUME QueuesOK, Accounts, DriverDecodes
    PROVE  Accounts'
<1>. DEFINE S == [slot : InputSlots, frame : Packets]
            h == Head(devIn).frame
<1>1. devIn \in Seq(S) /\ devIn # <<>> /\ devIn' = Tail(devIn)
  BY DEF QueuesOK, DriverDecodes, CanDecode
<1>2. h \in Packets
  <2>1. Head(devIn) \in S
    BY <1>1, HeadTail
  <2>. QED
    BY <2>1
<1>3. h # NoFrame
  BY <1>2, PacketIsFrame
<1>4. FramesDistinct(devIn)
  BY DEF Accounts
<1>. HIDE DEF S
<1>5. /\ FramesOf(devIn') = FramesOf(devIn) \ {h} /\ FramesDistinct(devIn')
      /\ h \in FramesOf(devIn)
  BY <1>1, <1>3, <1>4, FramesOfTail
<1>6. /\ devHeld' = devHeld \cup {h}
      /\ UNCHANGED <<devOut, pending, accepted, delivered, discarded, nextPacket>>
  BY DEF DriverDecodes, session, history
<1>. HIDE DEF h
<1>. QED
  BY <1>5, <1>6 DEF Accounts

\* What the driver puts into its first capture buffer.
LEMMA TookFrames ==
    ASSUME QueuesOK, devCap # <<>>, NEW f \in Packets \cup {NoFrame}, NEW last \in BOOLEAN,
           FramesDistinct(devOut), f \notin FramesOf(devOut), Took(Ready(f, last))
    PROVE  FramesOf(devOut') = FramesOf(devOut) \cup ({f} \ {NoFrame}) /\ FramesDistinct(devOut')
<1>. DEFINE e == Ready(f, last)
<1>1. devOut \in Seq(Buffer) /\ e \in Buffer
  BY TookType DEF QueuesOK
<1>2. e.frame = f /\ devOut' = Append(devOut, e)
  BY DEF Ready, Took
<1>. HIDE DEF e
<1>. QED
  BY <1>1, <1>2, FramesOfAppend

\* A picture leaves the driver, or is dropped by it, or the stream ends.
LEMMA OutputAccounts ==
    ASSUME QueuesOK, Accounts, DriverOutputs
    PROVE  Accounts'
<1>1. PICK f \in devHeld, last \in BOOLEAN : devHeld' = devHeld \ {f} /\ Took(Ready(f, last))
  BY DEF DriverOutputs
<1>2. f \in Packets /\ f # NoFrame
  BY PacketIsFrame DEF QueuesOK
<1>3. f \notin FramesOf(devOut) /\ FramesDistinct(devOut)
  BY DEF Accounts
<1>4. devCap # <<>>
  BY DEF DriverOutputs, CanOutput
<1>5. FramesOf(devOut') = FramesOf(devOut) \cup {f} /\ FramesDistinct(devOut')
  BY <1>1, <1>2, <1>3, <1>4, TookFrames
<1>6. UNCHANGED <<devIn, pending, accepted, delivered, discarded, nextPacket>>
  BY DEF DriverOutputs, session, history
<1>. QED
  BY <1>1, <1>5, <1>6 DEF Accounts

\* A damaged picture is given up.
LEMMA DropAccounts ==
    ASSUME QueuesOK, Accounts, DriverDrops
    PROVE  Accounts'
<1>1. PICK f \in devHeld : /\ devHeld' = devHeld \ {f} /\ discarded' = discarded \cup {f}
                           /\ Took(Ready(NoFrame, FALSE))
  BY DEF DriverDrops
<1>2. NoFrame \notin FramesOf(devOut) /\ FramesDistinct(devOut)
  BY DEF Accounts, FramesOf
<1>3. devCap # <<>>
  BY DEF DriverDrops, CanOutput
<1>4. FramesOf(devOut') = FramesOf(devOut) /\ FramesDistinct(devOut')
  BY <1>1, <1>2, <1>3, TookFrames
<1>5. UNCHANGED <<devIn, pending, accepted, delivered, nextPacket>>
  BY DEF DriverDrops, session
<1>. QED
  BY <1>1, <1>4, <1>5 DEF Accounts

\* The empty buffer that carries LAST.
LEMMA EndAccounts ==
    ASSUME QueuesOK, Accounts, DriverEnds
    PROVE  Accounts'
<1>1. Took(Ready(NoFrame, TRUE)) /\ devCap # <<>>
  BY DEF DriverEnds, CanOutput
<1>2. NoFrame \notin FramesOf(devOut) /\ FramesDistinct(devOut)
  BY DEF Accounts, FramesOf
<1>3. FramesOf(devOut') = FramesOf(devOut) /\ FramesDistinct(devOut')
  BY <1>1, <1>2, TookFrames
<1>4. UNCHANGED <<devIn, devHeld, pending, accepted, delivered, discarded, nextPacket>>
  BY DEF DriverEnds, session, history
<1>. QED
  BY <1>3, <1>4 DEF Accounts

\* A ready picture becomes a pending frame; an empty buffer carried none.
LEMMA TakeFrames ==
    ASSUME QueuesOK, FramesDistinct(devOut), FramesDistinct(pending),
           FramesOf(devOut) \cap FramesOf(pending) = {}, TakeFrame
    PROVE  /\ FramesOf(devOut') = FramesOf(devOut) \ {Head(devOut).frame}
           /\ FramesOf(pending') = FramesOf(pending) \cup ({Head(devOut).frame} \ {NoFrame})
           /\ FramesDistinct(devOut') /\ FramesDistinct(pending')
           /\ Head(devOut).frame \in FramesOf(devOut) \cup {NoFrame}
<1>. DEFINE h == Head(devOut)
            f == [frame |-> h.frame, block |-> h.block, eos |-> h.last]
<1>1. devOut \in Seq(Buffer) /\ devOut # <<>> /\ h \in Buffer /\ devOut' = Tail(devOut)
  BY HeadTail DEF QueuesOK, TakeFrame
<1>2. f \in Frame /\ f.frame = h.frame /\ pending \in Seq(Frame)
  BY <1>1, BufferToFrame DEF QueuesOK
<1>3. /\ FramesOf(devOut') = FramesOf(devOut) \ {h.frame} /\ FramesDistinct(devOut')
      /\ h.frame \in FramesOf(devOut) \cup {NoFrame}
  BY <1>1, FramesOfTail
<1>4. \/ pending' = Append(pending, f)
      \/ pending' = pending /\ h.frame = NoFrame
  BY DEF TakeFrame, IsFrame
<1>5. NoFrame \notin FramesOf(pending)
  BY DEF FramesOf
<1>. HIDE DEF f, h
<1>6. FramesOf(pending') = FramesOf(pending) \cup ({h.frame} \ {NoFrame}) /\ FramesDistinct(pending')
  <2>1. h.frame \notin FramesOf(pending)
    BY <1>3, <1>5
  <2>2. CASE pending' = Append(pending, f)
    BY <1>2, <2>1, <2>2, FramesOfAppend
  <2>3. CASE pending' = pending /\ h.frame = NoFrame
    BY <2>3
  <2>. QED
    BY <1>4, <2>2, <2>3
<1>. QED
  BY <1>3, <1>6 DEF h

\* The account follows the picture from the driver into decoder_pending.
LEMMA TakeAccounts ==
    ASSUME QueuesOK, Accounts, TakeFrame
    PROVE  Accounts'
<1>. DEFINE h == Head(devOut).frame
<1>1. NoFrame \notin FramesOf(devOut) /\ NoFrame \notin FramesOf(pending)
  BY DEF FramesOf
<1>2. /\ FramesDistinct(devOut) /\ FramesDistinct(pending)
      /\ FramesOf(devOut) \cap FramesOf(pending) = {}
  BY DEF Accounts
<1>3. /\ FramesOf(devOut') = FramesOf(devOut) \ {h}
      /\ FramesOf(pending') = FramesOf(pending) \cup ({h} \ {NoFrame})
      /\ FramesDistinct(devOut') /\ FramesDistinct(pending') /\ h \in FramesOf(devOut) \cup {NoFrame}
  BY <1>2, TakeFrames
<1>4. UNCHANGED <<devIn, devHeld, accepted, delivered, discarded, nextPacket>>
  BY DEF TakeFrame
<1>. HIDE DEF h
<1>. QED
  BY <1>1, <1>3, <1>4 DEF Accounts

\* The first pending frame is delivered.
LEMMA HandOutAccounts ==
    ASSUME QueuesOK, Accounts, HandOut
    PROVE  Accounts'
<1>. DEFINE h == Head(pending).frame
<1>1. /\ pending \in Seq(Frame) /\ pending # <<>> /\ pending' = Tail(pending)
      /\ delivered' = delivered \cup ({h} \ {NoFrame})
      /\ UNCHANGED <<devIn, devHeld, devOut, accepted, discarded, nextPacket>>
  BY DEF QueuesOK, HandOut, device
<1>2. FramesDistinct(pending)
  BY DEF Accounts
<1>3. /\ FramesOf(pending') = FramesOf(pending) \ {h} /\ FramesDistinct(pending')
      /\ h \in FramesOf(pending) \cup {NoFrame}
  BY <1>1, <1>2, FramesOfTail
<1>. HIDE DEF h
<1>4. NoFrame \notin FramesOf(pending)
  BY DEF FramesOf
<1>. QED
  BY <1>1, <1>3, <1>4 DEF Accounts

\* STREAMOFF gives up what was ready, a new resolution also what was held.
LEMMA ResetAccounts ==
    ASSUME QueuesOK, Accounts, NEW short \in BOOLEAN, ResetDecoderCapture(short),
           UNCHANGED <<devIn, pending, accepted, delivered, nextPacket>>
    PROVE  Accounts'
<1>. DEFINE old == IF devState.change THEN devHeld ELSE {}
<1>1. {b.frame : b \in Range(devOut)} \ {NoFrame} = FramesOf(devOut)
  BY DEF FramesOf, Range
<1>2. old \subseteq devHeld
  OBVIOUS
<1>3. /\ devOut' = <<>> /\ devHeld' = devHeld \ old
      /\ discarded' = discarded \cup (({b.frame : b \in Range(devOut)} \cup old) \ {NoFrame})
  BY DEF ResetDecoderCapture
<1>4. NoFrame \notin old
  BY <1>2, PacketIsFrame DEF QueuesOK
<1>5. FramesOf(devOut') = {} /\ FramesDistinct(devOut')
  BY <1>3, EmptyQueue
<1>. HIDE DEF old
<1>6. discarded' = discarded \cup FramesOf(devOut) \cup old
  BY <1>1, <1>3, <1>4
<1>. QED
  BY <1>2, <1>3, <1>5, <1>6 DEF Accounts

\* The frame that ends a session without input carries no packet.
LEMMA DrainFrames ==
    ASSUME QueuesOK, FramesDistinct(pending), StartDecoderDrain
    PROVE  FramesOf(pending') = FramesOf(pending) /\ FramesDistinct(pending')
<1>. DEFINE end == [frame |-> NoFrame, block |-> NoBlock, eos |-> TRUE]
<1>1. pending' = pending \/ pending' = Append(pending, end)
  BY DEF StartDecoderDrain
<1>2. end \in Frame /\ end.frame = NoFrame /\ pending \in Seq(Frame)
  BY EmptyFrames DEF QueuesOK
<1>. HIDE DEF end
<1>3. NoFrame \notin FramesOf(pending)
  BY DEF FramesOf
<1>4. CASE pending' = Append(pending, end)
  <2>1. /\ FramesOf(Append(pending, end)) = FramesOf(pending) \cup ({end.frame} \ {NoFrame})
        /\ FramesDistinct(pending) /\ end.frame \notin FramesOf(pending) =>
               FramesDistinct(Append(pending, end))
    BY <1>2, FramesOfAppend
  <2>. QED
    BY <1>2, <1>3, <1>4, <2>1
<1>5. CASE pending' = pending
  BY <1>5
<1>. QED
  BY <1>1, <1>4, <1>5

\* Every step keeps the account of the packets.
LEMMA AccountsStep ==
    ASSUME QueuesOK, CountsOK, PointInCall, Accounts, [AnyNext]_vars
    PROVE  Accounts'
<1>1. CASE Open
  BY <1>1, AccountsEmpty DEF Open, CloseSession
<1>2. CASE Close
  BY <1>2, AccountsEmpty DEF Close, CloseSession
<1>3. CASE EnterQueueDecoderPacket
  BY <1>3, AccountsUnchanged DEF EnterQueueDecoderPacket, session, device, history
<1>4. CASE RejectDecoderPacket
  BY <1>4, AccountsUnchanged DEF RejectDecoderPacket, Fault, OnlyFaults, session, device
<1>5. CASE \E wait \in BOOLEAN : EnterDequeueDecoderFrame(wait)
  BY <1>5, AccountsUnchanged DEF EnterDequeueDecoderFrame, session, device, history
<1>6. CASE StartDecoderDrain
  <2>1. FramesOf(pending') = FramesOf(pending) /\ FramesDistinct(pending')
    BY <1>6, DrainFrames DEF Accounts
  <2>2. UNCHANGED <<devIn, devHeld, devOut, accepted, delivered, discarded, nextPacket>>
    BY <1>6 DEF StartDecoderDrain, history
  <2>. QED
    BY <2>1, <2>2 DEF Accounts
<1>7. CASE StartDecoderDrainFails
  BY <1>7, AccountsUnchanged DEF StartDecoderDrainFails, Fault, OnlyFaults, session, device
<1>8. CASE DequeueDecoderInputs
  BY <1>8, AccountsUnchanged DEF DequeueDecoderInputs, GoTo, history
<1>9. CASE QueueBlocks
  BY <1>9, AccountsUnchanged DEF QueueBlocks, Return, Returns, session, device, history
<1>10. CASE QueuePacket
  BY <1>10, QueueAccounts
<1>11. CASE BeginDecoderCaptureSetup
  BY <1>11, ResetAccounts DEF BeginDecoderCaptureSetup
<1>12. CASE BeginDecoderCaptureSetupFails
  BY <1>12, ResetAccounts DEF BeginDecoderCaptureSetupFails
<1>13. CASE ClosedFails
  BY <1>13, AccountsUnchanged DEF ClosedFails, Return, Returns, session, device, history
<1>14. CASE EventsHandled
  BY <1>14, AccountsUnchanged DEF EventsHandled, GoTo, session, device, history
<1>15. CASE ProgressDecoderCaptureSetup
  BY <1>15, AccountsUnchanged DEF ProgressDecoderCaptureSetup, Lend, call, history
<1>16. CASE SetupBlocks
  BY <1>16, AccountsUnchanged DEF SetupBlocks, session, device, history
<1>17. CASE StreamOnCapture
  BY <1>17, AccountsUnchanged DEF StreamOnCapture, GoTo, device, history
<1>18. CASE StreamOnEmptyQueue
  BY <1>18, AccountsUnchanged DEF StreamOnEmptyQueue, Return, Returns, session, device, history
<1>19. CASE PumpSkipped
  BY <1>19, AccountsUnchanged DEF PumpSkipped, GoTo, session, device, history
<1>20. CASE TakeFrame
  BY <1>20, TakeAccounts
<1>21. CASE RefillDecoderCapture
  BY <1>21, AccountsUnchanged DEF RefillDecoderCapture, Lend, history
<1>22. CASE RefillFails
  BY <1>22, AccountsUnchanged DEF RefillFails, Fault, Return, Returns, session, device
<1>23. CASE CaptureDrained
  BY <1>23, AccountsUnchanged DEF CaptureDrained, GoTo, session, device, history
<1>24. CASE CaptureBroken
  BY <1>24, AccountsUnchanged DEF CaptureBroken, Return, Returns, session, device, history
<1>25. CASE IoctlFails
  BY <1>25, AccountsUnchanged DEF IoctlFails, Fault, OnlyFaults, Return, Returns, session, device
<1>26. CASE HandOut
  BY <1>26, HandOutAccounts
<1>27. CASE NothingToHandOut
  BY <1>27, AccountsUnchanged DEF NothingToHandOut, Return, Returns, session, device, history
<1>28. CASE WaitForFrame
  BY <1>28, AccountsUnchanged DEF WaitForFrame, GoTo, session, device, history
<1>29. CASE WaitForDeviceReady
  BY <1>29, AccountsUnchanged DEF WaitForDeviceReady, session, device, history
<1>30. CASE WaitForDeviceTimeout
  BY <1>30, AccountsUnchanged DEF WaitForDeviceTimeout, Fault, OnlyFaults, Return, Returns, session,
           device
<1>31. CASE DriverDecodes
  BY <1>31, DecodeAccounts
<1>32. CASE DriverChanges
  BY <1>32, AccountsUnchanged DEF DriverChanges, session, call
<1>33. CASE DriverOutputs
  BY <1>33, OutputAccounts
<1>34. CASE DriverDrops
  BY <1>34, DropAccounts
<1>35. CASE DriverEnds
  BY <1>35, EndAccounts
<1>36. CASE \E b \in Blocks : ClientReturns(b)
  BY <1>36, AccountsUnchanged DEF ClientReturns, session, device, call
<1>37. CASE UNCHANGED vars
  BY <1>37, AccountsUnchanged DEF vars, session, device, call, history
<1>. QED
  BY <1>1, <1>2, <1>3, <1>4, <1>5, <1>6, <1>7, <1>8, <1>9, <1>10, <1>11, <1>12, <1>13, <1>14,
     <1>15, <1>16, <1>17, <1>18, <1>19, <1>20, <1>21, <1>22, <1>23, <1>24, <1>25, <1>26, <1>27,
     <1>28, <1>29, <1>30, <1>31, <1>32, <1>33, <1>34, <1>35, <1>36, <1>37
     DEF AnyNext, Next, Pump, Environment

-----------------------------------------------------------------------------
(* The end of the stream.                                                  *)

\* Setting one field of the driver's state leaves the others alone.
LEMMA StateValues ==
    ASSUME NEW d \in DevStates, NEW v \in BOOLEAN
    PROVE  /\ [d EXCEPT !.parsed = v].change = d.change /\ [d EXCEPT !.parsed = v].stop = d.stop
           /\ [d EXCEPT !.parsed = v].last = d.last
           /\ [d EXCEPT !.change = v].change = v /\ [d EXCEPT !.change = v].stop = d.stop
           /\ [d EXCEPT !.change = v].last = d.last
           /\ [d EXCEPT !.stop = v].change = d.change /\ [d EXCEPT !.stop = v].stop = v
           /\ [d EXCEPT !.stop = v].last = d.last
           /\ [d EXCEPT !.last = v].change = d.change /\ [d EXCEPT !.last = v].stop = d.stop
           /\ [d EXCEPT !.last = v].last = v
           /\ [d EXCEPT !.short = v].change = d.change /\ [d EXCEPT !.short = v].stop = d.stop
           /\ [d EXCEPT !.short = v].last = d.last
BY DEF DevStates

\* A state of the driver with one field changed keeps the others.
LEMMA ParsedKept ==
    ASSUME NEW d \in DevStates, NEW v \in BOOLEAN
    PROVE  /\ [d EXCEPT !.parsed = v].parsed = v /\ [d EXCEPT !.change = v].parsed = d.parsed
           /\ [d EXCEPT !.stop = v].parsed = d.parsed /\ [d EXCEPT !.last = v].parsed = d.parsed
           /\ [d EXCEPT !.short = v].parsed = d.parsed
BY DEF DevStates

\* What STREAMOFF does to the driver's state.
LEMMA ResetState ==
    ASSUME FlagsOK, NEW short \in BOOLEAN, ResetDecoderCapture(short)
    PROVE  /\ devState'.change = FALSE /\ devState'.last = FALSE
           /\ devState'.stop = devState.stop /\ devState'.parsed = devState.parsed
<1>. DEFINE c == [devState EXCEPT !.change = FALSE]
            l == [c EXCEPT !.last = FALSE]
<1>1. /\ c \in DevStates /\ c.change = FALSE /\ c.stop = devState.stop
      /\ c.parsed = devState.parsed
  BY StateFields, StateValues, ParsedKept DEF FlagsOK
<1>2. /\ l \in DevStates /\ l.change = FALSE /\ l.last = FALSE /\ l.stop = devState.stop
      /\ l.parsed = devState.parsed
  <2>. HIDE DEF c
  <2>. QED
    BY <1>1, StateFields, StateValues, ParsedKept
<1>3. devState' = [l EXCEPT !.short = short]
  BY DEF ResetDecoderCapture
<1>. HIDE DEF l
<1>. QED
  BY <1>2, <1>3, StateValues, ParsedKept

\* Only what is ready and the driver's LAST matter to the order.
LEMMA LastIsLastUnchanged ==
    ASSUME LastIsLast, UNCHANGED <<devOut, sawLast>>, devState'.last = devState.last
    PROVE  LastIsLast'
BY DEF LastIsLast

\* The driver adds a buffer only while none with LAST is out.
LEMMA TookLast ==
    ASSUME QueuesOK, LastIsLast, devCap # <<>>, NEW f \in Packets \cup {NoFrame},
           NEW last \in BOOLEAN, Took(Ready(f, last)), ~devState.last,
           last => devState'.last, UNCHANGED sawLast
    PROVE  LastIsLast'
<1>. DEFINE e == Ready(f, last)
<1>1. devOut \in Seq(Buffer) /\ e \in Buffer
  BY TookType DEF QueuesOK
<1>2. e.last = last /\ devOut' = Append(devOut, e)
  BY DEF Ready, Took
<1>3. \A i \in DOMAIN devOut : ~devOut[i].last
  BY DEF LastIsLast
<1>. HIDE DEF e
<1>4. /\ DOMAIN devOut' = DOMAIN devOut \cup {Len(devOut) + 1} /\ devOut'[Len(devOut) + 1] = e
      /\ \A i \in DOMAIN devOut : devOut'[i] = devOut[i]
  BY <1>1, <1>2, AppendIndices
<1>5. Len(devOut') = Len(devOut) + 1
  BY <1>1, <1>2
<1>6. ASSUME NEW i \in DOMAIN devOut', devOut'[i].last
      PROVE  i = Len(devOut') /\ devState'.last
  <2>1. i = Len(devOut) + 1
    BY <1>3, <1>4, <1>6
  <2>. QED
    BY <1>2, <1>4, <1>5, <1>6, <2>1
<1>7. ~sawLast
  BY DEF LastIsLast
<1>. QED
  BY <1>6, <1>7 DEF LastIsLast

\* The session takes the buffers in order, so after LAST there is none.
LEMMA TakeLast ==
    ASSUME QueuesOK, LastIsLast, TakeFrame
    PROVE  /\ LastIsLast' /\ ~sawLast
           /\ Head(devOut).last => devOut' = <<>> /\ devState.last
<1>1. devOut \in Seq(Buffer) /\ devOut # <<>> /\ devOut' = Tail(devOut) /\ UNCHANGED devState
  BY DEF QueuesOK, TakeFrame
<1>2. /\ 1 \in DOMAIN devOut /\ Head(devOut) = devOut[1]
      /\ \A i \in DOMAIN Tail(devOut) :
             i \in Nat /\ i + 1 \in DOMAIN devOut /\ i + 1 # 1 /\ Tail(devOut)[i] = devOut[i + 1]
  BY <1>1, TailIndices
<1>3. Len(devOut') = Len(devOut) - 1 /\ Len(devOut) \in Nat
  BY <1>1
<1>4. ~sawLast
  BY <1>1 DEF LastIsLast
<1>5. ASSUME Head(devOut).last PROVE devOut' = <<>> /\ devState.last
  <2>1. Len(devOut) = 1 /\ devState.last
    BY <1>2, <1>5 DEF LastIsLast
  <2>. QED
    BY <1>1, <2>1
<1>6. \A i \in DOMAIN devOut' : devOut'[i].last => i = Len(devOut') /\ devState'.last
  BY <1>1, <1>2, <1>3 DEF LastIsLast
<1>7. sawLast' => Head(devOut).last
  BY <1>4 DEF TakeFrame
<1>. QED
  BY <1>1, <1>4, <1>5, <1>6, <1>7 DEF LastIsLast

\* Every step keeps LAST the driver's last buffer.
LEMMA LastStep ==
    ASSUME FlagsOK, QueuesOK, LastIsLast, [AnyNext]_vars
    PROVE  LastIsLast'
<1>1. CASE Open
  BY <1>1, EmptyQueue DEF Open, CloseSession, LastIsLast
<1>2. CASE Close
  BY <1>2, EmptyQueue DEF Close, CloseSession, LastIsLast
<1>3. CASE EnterQueueDecoderPacket
  BY <1>3, LastIsLastUnchanged DEF EnterQueueDecoderPacket, session, device, history
<1>4. CASE RejectDecoderPacket
  BY <1>4, LastIsLastUnchanged DEF RejectDecoderPacket, Fault, OnlyFaults, session, device
<1>5. CASE \E wait \in BOOLEAN : EnterDequeueDecoderFrame(wait)
  BY <1>5, LastIsLastUnchanged DEF EnterDequeueDecoderFrame, session, device, history
<1>6. CASE StartDecoderDrain
  <2>1. (~EndsAtOnce) \in BOOLEAN
    OBVIOUS
  <2>2. devState'.last = devState.last
    <3>1. UNCHANGED devState \/ devState' = [devState EXCEPT !.stop = ~EndsAtOnce]
      BY <1>6 DEF StartDecoderDrain
    <3>2. [devState EXCEPT !.stop = ~EndsAtOnce].last = devState.last
      BY <2>1, StateValues DEF FlagsOK
    <3>. QED
      BY <3>1, <3>2
  <2>. QED
    BY <1>6, <2>2, LastIsLastUnchanged DEF StartDecoderDrain, history
<1>7. CASE StartDecoderDrainFails
  BY <1>7, LastIsLastUnchanged DEF StartDecoderDrainFails, Fault, OnlyFaults, session, device
<1>8. CASE DequeueDecoderInputs
  BY <1>8, LastIsLastUnchanged DEF DequeueDecoderInputs, GoTo, history
<1>9. CASE QueueBlocks
  BY <1>9, LastIsLastUnchanged DEF QueueBlocks, Return, Returns, session, device, history
<1>10. CASE QueuePacket
  BY <1>10, LastIsLastUnchanged DEF QueuePacket, Return, Returns
<1>11. CASE BeginDecoderCaptureSetup
  BY <1>11 DEF BeginDecoderCaptureSetup, ResetDecoderCapture, LastIsLast
<1>12. CASE BeginDecoderCaptureSetupFails
  BY <1>12 DEF BeginDecoderCaptureSetupFails, ResetDecoderCapture, LastIsLast
<1>13. CASE ClosedFails
  BY <1>13, LastIsLastUnchanged DEF ClosedFails, Return, Returns, session, device, history
<1>14. CASE EventsHandled
  BY <1>14, LastIsLastUnchanged DEF EventsHandled, GoTo, session, device, history
<1>15. CASE ProgressDecoderCaptureSetup
  BY <1>15, LastIsLastUnchanged DEF ProgressDecoderCaptureSetup, Lend, call, history
<1>16. CASE SetupBlocks
  BY <1>16, LastIsLastUnchanged DEF SetupBlocks, session, device, history
<1>17. CASE StreamOnCapture
  BY <1>17, LastIsLastUnchanged DEF StreamOnCapture, GoTo, device, history
<1>18. CASE StreamOnEmptyQueue
  BY <1>18, LastIsLastUnchanged DEF StreamOnEmptyQueue, Return, Returns, session, device, history
<1>19. CASE PumpSkipped
  BY <1>19, LastIsLastUnchanged DEF PumpSkipped, GoTo, session, device, history
<1>20. CASE TakeFrame
  BY <1>20, TakeLast
<1>21. CASE RefillDecoderCapture
  BY <1>21, LastIsLastUnchanged DEF RefillDecoderCapture, Lend, history
<1>22. CASE RefillFails
  BY <1>22, LastIsLastUnchanged DEF RefillFails, Fault, Return, Returns, session, device
<1>23. CASE CaptureDrained
  BY <1>23, LastIsLastUnchanged DEF CaptureDrained, GoTo, session, device, history
<1>24. CASE CaptureBroken
  BY <1>24, LastIsLastUnchanged DEF CaptureBroken, Return, Returns, session, device, history
<1>25. CASE IoctlFails
  BY <1>25, LastIsLastUnchanged DEF IoctlFails, Fault, OnlyFaults, Return, Returns, session, device
<1>26. CASE HandOut
  BY <1>26, LastIsLastUnchanged DEF HandOut, Returns, device
<1>27. CASE NothingToHandOut
  BY <1>27, LastIsLastUnchanged DEF NothingToHandOut, Return, Returns, session, device, history
<1>28. CASE WaitForFrame
  BY <1>28, LastIsLastUnchanged DEF WaitForFrame, GoTo, session, device, history
<1>29. CASE WaitForDeviceReady
  BY <1>29, LastIsLastUnchanged DEF WaitForDeviceReady, session, device, history
<1>30. CASE WaitForDeviceTimeout
  BY <1>30, LastIsLastUnchanged DEF WaitForDeviceTimeout, Fault, OnlyFaults, Return, Returns,
           session, device
<1>31. CASE DriverDecodes
  <2>1. devState'.last = devState.last
    BY <1>31, StateValues DEF DriverDecodes, FlagsOK
  <2>. QED
    BY <1>31, <2>1, LastIsLastUnchanged DEF DriverDecodes, session, history
<1>32. CASE DriverChanges
  <2>1. devState'.last = devState.last
    BY <1>32, StateValues DEF DriverChanges, FlagsOK
  <2>. QED
    BY <1>32, <2>1, LastIsLastUnchanged DEF DriverChanges, session
<1>33. CASE DriverOutputs
  <2>1. PICK f \in devHeld, last \in BOOLEAN :
            Took(Ready(f, last)) /\ devState' = [devState EXCEPT !.last = last]
    BY <1>33 DEF DriverOutputs
  <2>2. devState'.last = last
    BY <2>1, StateValues DEF FlagsOK
  <2>3. f \in Packets \cup {NoFrame} /\ devCap # <<>> /\ ~devState.last /\ UNCHANGED sawLast
    BY <1>33 DEF DriverOutputs, CanOutput, QueuesOK, history
  <2>. QED
    BY <2>1, <2>2, <2>3, TookLast
<1>34. CASE DriverDrops
  <2>1. /\ Took(Ready(NoFrame, FALSE)) /\ devCap # <<>> /\ ~devState.last
        /\ UNCHANGED <<sawLast, devState>>
    BY <1>34 DEF DriverDrops, CanOutput
  <2>. QED
    BY <2>1, TookLast
<1>35. CASE DriverEnds
  <2>1. Took(Ready(NoFrame, TRUE)) /\ devCap # <<>> /\ ~devState.last /\ UNCHANGED sawLast
    BY <1>35 DEF DriverEnds, CanOutput, history
  <2>2. devState'.last
    BY <1>35, StateValues DEF DriverEnds, FlagsOK
  <2>. QED
    BY <2>1, <2>2, TookLast
<1>36. CASE \E b \in Blocks : ClientReturns(b)
  BY <1>36, LastIsLastUnchanged DEF ClientReturns, session, device, call
<1>37. CASE UNCHANGED vars
  BY <1>37, LastIsLastUnchanged DEF vars, session, device, call, history
<1>. QED
  BY <1>1, <1>2, <1>3, <1>4, <1>5, <1>6, <1>7, <1>8, <1>9, <1>10, <1>11, <1>12, <1>13, <1>14,
     <1>15, <1>16, <1>17, <1>18, <1>19, <1>20, <1>21, <1>22, <1>23, <1>24, <1>25, <1>26, <1>27,
     <1>28, <1>29, <1>30, <1>31, <1>32, <1>33, <1>34, <1>35, <1>36, <1>37
     DEF AnyNext, Next, Pump, Environment

\* Slots that are accounted for stay so.
LEMMA CirculateShrinks ==
    ASSUME SlotsCirculate, configured' => configured, sawLast => sawLast',
           Unaccounted' \subseteq Unaccounted
    PROVE  SlotsCirculate'
BY DEF SlotsCirculate

\* A step that touches no slot.
LEMMA CirculateUnchanged ==
    ASSUME SlotsCirculate, UNCHANGED <<configured, sawLast, slots, lostSlots, refill>>
    PROVE  SlotsCirculate'
BY DEF SlotsCirculate, Unaccounted, Queued

\* A slot that gets a block again.
LEMMA LendCirculates ==
    ASSUME QueuesOK, BlockAssumption, SlotsCirculate, slots # <<>>, NEW i \in DOMAIN slots,
           NEW b \in Blocks, Lend(i, b), UNCHANGED <<configured, sawLast, lostSlots>>,
           refill' = refill \/ refill = i
    PROVE  SlotsCirculate'
<1>1. slots \in [CaptureSlots -> Blocks \cup {NoBlock}] /\ slots' = [slots EXCEPT ![i] = b]
  BY DEF QueuesOK, Lend
<1>2. /\ \A j \in DOMAIN slots : slots'[j] = IF j = i THEN b ELSE slots[j]
      /\ DOMAIN slots' = DOMAIN slots /\ b # NoBlock
  BY <1>1
<1>3. Unaccounted' \subseteq Unaccounted
  BY <1>2 DEF Unaccounted, Queued
<1>. QED
  BY <1>3, CirculateShrinks

\* A dequeued buffer is refilled unless it is the LAST one.
LEMMA TakeCirculates ==
    ASSUME QueuesOK, PointInCall, LastIsLast, SlotsCirculate, TakeFrame
    PROVE  SlotsCirculate'
<1>. DEFINE h == Head(devOut)
<1>1. devOut \in Seq(Buffer) /\ devOut # <<>> /\ h \in Buffer
  BY HeadTail DEF QueuesOK, TakeFrame
<1>2. slots \in [CaptureSlots -> Blocks \cup {NoBlock}] /\ h.slot \in CaptureSlots
  BY <1>1 DEF QueuesOK, TakeFrame, PointInCall, Buffer
<1>3. slots' = [slots EXCEPT ![h.slot] = NoBlock] /\ UNCHANGED <<configured, lostSlots>>
  BY DEF TakeFrame, BlockAfterMove
<1>4. /\ \A j \in DOMAIN slots : slots'[j] = IF j = h.slot THEN NoBlock ELSE slots[j]
      /\ DOMAIN slots' = DOMAIN slots
  BY <1>2, <1>3
<1>5. ~sawLast /\ configured
  BY TakeLast DEF TakeFrame
<1>6. Unaccounted = {}
  BY <1>5 DEF SlotsCirculate
<1>7. CASE h.last
  <2>1. sawLast' /\ refill' = refill
    BY <1>7 DEF TakeFrame, NeedsRefill
  <2>2. Unaccounted' \subseteq Unaccounted \cup {h.slot}
    BY <1>3, <1>4, <2>1 DEF Unaccounted, Queued
  <2>. QED
    BY <1>6, <2>1, <2>2 DEF SlotsCirculate
<1>8. CASE ~h.last
  <2>1. refill' = h.slot
    BY <1>8 DEF TakeFrame, NeedsRefill
  <2>2. refill = 0 /\ 0 \notin DOMAIN slots
    BY <1>2 DEF PointInCall, TakeFrame, CaptureSlots
  <2>3. Unaccounted' \subseteq Unaccounted
    BY <1>3, <1>4, <2>1, <2>2 DEF Unaccounted, Queued
  <2>. QED
    BY <1>6, <2>3 DEF SlotsCirculate
<1>. QED
  BY <1>7, <1>8

\* Every step keeps the slots in circulation.
LEMMA CirculateStep ==
    ASSUME QueuesOK, PointInCall, LastIsLast, SlotsCirculate, [AnyNext]_vars
    PROVE  SlotsCirculate'
<1>1. CASE Open
  BY <1>1 DEF Open, CloseSession, SlotsCirculate
<1>2. CASE Close
  BY <1>2 DEF Close, CloseSession, SlotsCirculate
<1>3. CASE EnterQueueDecoderPacket
  BY <1>3, CirculateUnchanged DEF EnterQueueDecoderPacket, session, device, history,
           PointInCall
<1>4. CASE RejectDecoderPacket
  BY <1>4, CirculateUnchanged DEF RejectDecoderPacket, Fault, OnlyFaults, session, device,
           PointInCall
<1>5. CASE \E wait \in BOOLEAN : EnterDequeueDecoderFrame(wait)
  BY <1>5, CirculateUnchanged DEF EnterDequeueDecoderFrame, session, device, history, PointInCall
<1>6. CASE StartDecoderDrain
  BY <1>6, CirculateUnchanged DEF StartDecoderDrain, EndsAtOnce, history, PointInCall
<1>7. CASE StartDecoderDrainFails
  BY <1>7, CirculateUnchanged DEF StartDecoderDrainFails, Fault, OnlyFaults, session, device,
           PointInCall
<1>8. CASE DequeueDecoderInputs
  BY <1>8, CirculateUnchanged DEF DequeueDecoderInputs, GoTo, history, PointInCall
<1>9. CASE QueueBlocks
  BY <1>9, CirculateUnchanged DEF QueueBlocks, Return, Returns, session, device, history,
           PointInCall
<1>10. CASE QueuePacket
  BY <1>10, CirculateUnchanged DEF QueuePacket, Return, Returns, PointInCall
<1>11. CASE BeginDecoderCaptureSetup
  BY <1>11 DEF BeginDecoderCaptureSetup, ResetDecoderCapture, SlotsCirculate
<1>12. CASE BeginDecoderCaptureSetupFails
  BY <1>12 DEF BeginDecoderCaptureSetupFails, ResetDecoderCapture, SlotsCirculate
<1>13. CASE ClosedFails
  BY <1>13, CirculateUnchanged DEF ClosedFails, Return, Returns, session, device, history,
           PointInCall
<1>14. CASE EventsHandled
  BY <1>14, CirculateUnchanged DEF EventsHandled, GoTo, session, device, history, PointInCall
<1>15. CASE ProgressDecoderCaptureSetup
  <2>1. PICK i \in DOMAIN slots, b \in FreeBlocks : Lend(i, b)
    BY <1>15 DEF ProgressDecoderCaptureSetup
  <2>2. /\ slots # <<>> /\ b \in Blocks /\ UNCHANGED <<configured, sawLast, lostSlots, refill>>
    BY <1>15, <2>1 DEF ProgressDecoderCaptureSetup, FreeBlocks, call, history
  <2>. QED
    BY <2>1, <2>2, LendCirculates, BlockAssumption
<1>16. CASE SetupBlocks
  BY <1>16, CirculateUnchanged DEF SetupBlocks, session, device, history, PointInCall
<1>17. CASE StreamOnCapture
  <2>1. (\A i \in DOMAIN slots : Queued(i)) /\ UNCHANGED slots
    BY <1>17 DEF StreamOnCapture
  <2>2. Unaccounted' = {}
    BY <2>1 DEF Unaccounted, Queued
  <2>. QED
    BY <2>2 DEF SlotsCirculate
<1>18. CASE StreamOnEmptyQueue
  BY <1>18, CirculateUnchanged DEF StreamOnEmptyQueue, Return, Returns, session, device, history,
           PointInCall
<1>19. CASE PumpSkipped
  BY <1>19, CirculateUnchanged DEF PumpSkipped, GoTo, session, device, history, PointInCall
<1>20. CASE TakeFrame
  BY <1>20, TakeCirculates
<1>21. CASE RefillDecoderCapture
  <2>1. PICK b \in FreeBlocks : Lend(refill, b)
    BY <1>21 DEF RefillDecoderCapture
  <2>2. /\ slots # <<>> /\ refill \in DOMAIN slots /\ b \in Blocks
        /\ UNCHANGED <<configured, sawLast, lostSlots>>
    BY <1>21, <2>1 DEF RefillDecoderCapture, PointInCall, QueuesOK, FreeBlocks, history
  <2>. QED
    BY <2>1, <2>2, LendCirculates, BlockAssumption
<1>22. CASE RefillFails
  <2>1. /\ lostSlots' = lostSlots \cup {refill} /\ UNCHANGED <<configured, sawLast, slots>>
    BY <1>22 DEF RefillFails, session
  <2>2. Unaccounted' \subseteq Unaccounted
    BY <2>1 DEF Unaccounted, Queued
  <2>. QED
    BY <2>1, <2>2, CirculateShrinks
<1>23. CASE CaptureDrained
  BY <1>23, CirculateUnchanged DEF CaptureDrained, GoTo, session, device, history, PointInCall
<1>24. CASE CaptureBroken
  BY <1>24, CirculateUnchanged DEF CaptureBroken, Return, Returns, session, device, history,
           PointInCall
<1>25. CASE IoctlFails
  BY <1>25, CirculateUnchanged DEF IoctlFails, Fault, OnlyFaults, Return, Returns, session, device,
           PointInCall
<1>26. CASE HandOut
  BY <1>26, CirculateUnchanged DEF HandOut, Returns, device, PointInCall
<1>27. CASE NothingToHandOut
  BY <1>27, CirculateUnchanged DEF NothingToHandOut, Return, Returns, session, device, history,
           PointInCall
<1>28. CASE WaitForFrame
  BY <1>28, CirculateUnchanged DEF WaitForFrame, GoTo, session, device, history, PointInCall
<1>29. CASE WaitForDeviceReady
  BY <1>29, CirculateUnchanged DEF WaitForDeviceReady, session, device, history, PointInCall
<1>30. CASE WaitForDeviceTimeout
  BY <1>30, CirculateUnchanged DEF WaitForDeviceTimeout, Fault, OnlyFaults, Return, Returns,
           session, device, PointInCall
<1>31. CASE DriverDecodes
  BY <1>31, CirculateUnchanged DEF DriverDecodes, CanDecode, session, call, history, PointInCall
<1>32. CASE DriverChanges
  BY <1>32, CirculateUnchanged DEF DriverChanges, session, call, PointInCall
<1>33. CASE DriverOutputs
  BY <1>33, CirculateUnchanged DEF DriverOutputs, CanOutput, Took, Ready, session, call, history,
           PointInCall
<1>34. CASE DriverDrops
  BY <1>34, CirculateUnchanged DEF DriverDrops, CanOutput, Took, Ready, session, call, PointInCall
<1>35. CASE DriverEnds
  BY <1>35, CirculateUnchanged DEF DriverEnds, CanOutput, Took, Ready, session, call, history,
           PointInCall
<1>36. CASE \E b \in Blocks : ClientReturns(b)
  BY <1>36, CirculateUnchanged DEF ClientReturns, session, device, call, PointInCall
<1>37. CASE UNCHANGED vars
  BY <1>37, CirculateUnchanged DEF vars, session, device, call, history, PointInCall
<1>. QED
  BY <1>1, <1>2, <1>3, <1>4, <1>5, <1>6, <1>7, <1>8, <1>9, <1>10, <1>11, <1>12, <1>13, <1>14,
     <1>15, <1>16, <1>17, <1>18, <1>19, <1>20, <1>21, <1>22, <1>23, <1>24, <1>25, <1>26, <1>27,
     <1>28, <1>29, <1>30, <1>31, <1>32, <1>33, <1>34, <1>35, <1>36, <1>37
     DEF AnyNext, Next, Pump, Environment

\* Only these variables matter to the order of the end.
LEMMA EndUnchanged ==
    ASSUME EndInOrder, UNCHANGED <<received, accepted, changes, devState, draining, devIn,
                                   devHeld, devOut, pending, eos>>
    PROVE  EndInOrder'
BY DEF EndInOrder, Ended, FramesOf

\* While the session does not drain, or the driver has work left, nothing has ended.
LEMMA NotEnded ==
    ASSUME EndInOrder, changes = 0, ~Ended
    PROVE  ~eos /\ \A i \in DOMAIN pending : ~pending[i].eos
BY DEF EndInOrder

\* Nothing ends while nothing has ended, and the driver has not said LAST.
LEMMA StillOpen ==
    ASSUME FlagsOK, EndInOrder, ~Ended, ~devState.last,
           UNCHANGED <<changes, draining, pending, eos>>,
           devState'.change = devState.change, devState'.stop = devState.stop,
           devState'.last => draining /\ devIn' = <<>> /\ devHeld' = {},
           ~received' => accepted' = {}
    PROVE  EndInOrder'
<1>1. ASSUME changes = 0 PROVE ~eos /\ \A i \in DOMAIN pending : ~pending[i].eos
  BY <1>1, NotEnded
<1>. QED
  BY <1>1 DEF EndInOrder

\* A queue of packets without a frame is empty.
LEMMA NoPacketsQueued ==
    ASSUME QueuesOK, FramesOf(devIn) = {}
    PROVE  devIn = <<>>
<1>. DEFINE S == [slot : InputSlots, frame : Packets]
<1>1. devIn \in Seq(S)
  BY DEF QueuesOK
<1>2. ASSUME devIn # <<>> PROVE FALSE
  <2>1. 1 \in DOMAIN devIn /\ Head(devIn) = devIn[1]
    BY <1>1, <1>2, TailIndices
  <2>2. devIn[1] \in S
    BY <1>1, <2>1, Elements
  <2>3. devIn[1].frame \in Packets
    BY <2>2
  <2>. QED
    BY <2>1, <2>3, PacketIsFrame DEF FramesOf
<1>. QED
  BY <1>2

\* A packet is queued only before the drain.
LEMMA QueueEnd ==
    ASSUME FlagsOK, PointInCall, SubmitsOpen, EndInOrder, QueuePacket
    PROVE  EndInOrder'
<1>1. ~draining /\ received' /\ UNCHANGED <<changes, draining, pending, eos, devState, devOut, devHeld>>
  BY DEF QueuePacket, PointInCall, SubmitsOpen
<1>2. ~Ended
  BY <1>1 DEF Ended
<1>3. changes = 0 => ~devState.last
  BY <1>1 DEF EndInOrder
<1>4. CASE changes = 0
  BY <1>1, <1>2, <1>3, <1>4, StillOpen
<1>5. CASE changes # 0
  BY <1>1, <1>5 DEF EndInOrder
<1>. QED
  BY <1>4, <1>5

\* A packet that is still queued precedes the end.
LEMMA DecodeEnd ==
    ASSUME FlagsOK, EndInOrder, DriverDecodes
    PROVE  EndInOrder'
<1>1. /\ devIn # <<>> /\ UNCHANGED <<received, accepted, changes, draining, pending, eos>>
      /\ devState' = [devState EXCEPT !.parsed = TRUE]
  BY DEF DriverDecodes, CanDecode, session, history
<1>2. /\ devState'.change = devState.change /\ devState'.stop = devState.stop
      /\ devState'.last = devState.last
  BY <1>1, StateValues DEF FlagsOK
<1>3. ~Ended
  BY <1>1 DEF Ended
<1>4. ~received' => accepted' = {}
  BY <1>1 DEF EndInOrder
<1>5. CASE changes = 0
  <2>1. ~devState.last
    BY <1>1, <1>5 DEF EndInOrder
  <2>. QED
    BY <1>1, <1>2, <1>3, <1>4, <2>1, StillOpen
<1>6. CASE changes # 0
  BY <1>1, <1>4, <1>6 DEF EndInOrder
<1>. QED
  BY <1>5, <1>6

\* Only the final picture carries LAST, and only at the end.
LEMMA OutputEnd ==
    ASSUME FlagsOK, EndInOrder, DriverOutputs
    PROVE  EndInOrder'
<1>1. PICK f \in devHeld, last \in BOOLEAN :
          /\ last => AtEnd /\ devHeld = {f}
          /\ devHeld' = devHeld \ {f} /\ devState' = [devState EXCEPT !.last = last]
  BY DEF DriverOutputs
<1>2. /\ devState'.change = devState.change /\ devState'.stop = devState.stop
      /\ devState'.last = last
  BY <1>1, StateValues DEF FlagsOK
<1>3. ~Ended /\ ~devState.last /\ UNCHANGED <<received, accepted, changes, draining, pending, eos, devIn>>
  BY DEF Ended, DriverOutputs, CanOutput, session, history
<1>4. ~received' => accepted' = {}
  BY <1>3 DEF EndInOrder
<1>5. CASE changes = 0
  <2>1. last => draining /\ devIn' = <<>> /\ devHeld' = {}
    BY <1>1, <1>3, <1>5 DEF EndInOrder, AtEnd
  <2>. QED
    BY <1>2, <1>3, <1>4, <2>1, StillOpen
<1>6. CASE changes # 0
  BY <1>3, <1>4, <1>6 DEF EndInOrder
<1>. QED
  BY <1>5, <1>6

\* A picture that is dropped was still held.
LEMMA DropEnd ==
    ASSUME FlagsOK, EndInOrder, DriverDrops
    PROVE  EndInOrder'
<1>1. /\ ~Ended /\ ~devState.last
      /\ UNCHANGED <<received, accepted, changes, draining, pending, eos, devState>>
  BY DEF Ended, DriverDrops, CanOutput, session
<1>2. ~received' => accepted' = {}
  BY <1>1 DEF EndInOrder
<1>. QED
  BY <1>1, <1>2, StillOpen

\* An empty LAST buffer ends a stream that has ended.
LEMMA LastEnd ==
    ASSUME FlagsOK, QueuesOK, Accounts, EndInOrder, DriverEnds
    PROVE  EndInOrder'
<1>1. /\ AtEnd /\ devHeld = {} /\ devCap # <<>> /\ devState' = [devState EXCEPT !.last = TRUE]
      /\ Took(Ready(NoFrame, TRUE))
      /\ UNCHANGED <<received, accepted, changes, draining, pending, eos, devIn, devHeld>>
  BY DEF DriverEnds, CanOutput, session, history
<1>2. /\ devState'.change = devState.change /\ devState'.stop = devState.stop
  BY <1>1, StateValues DEF FlagsOK
<1>3. FramesOf(devOut') = FramesOf(devOut)
  <2>1. NoFrame \notin FramesOf(devOut) /\ FramesDistinct(devOut)
    BY DEF Accounts, FramesOf
  <2>. QED
    BY <1>1, <2>1, TookFrames
<1>4. changes = 0 => draining /\ devIn = <<>>
  BY <1>1 DEF EndInOrder, AtEnd
<1>5. Ended => Ended'
  BY <1>1, <1>3 DEF Ended
<1>6. FramesOf(pending') = FramesOf(pending)
  BY <1>1
<1>. QED
  BY <1>1, <1>2, <1>4, <1>5, <1>6 DEF EndInOrder

\* The frame that carries the end comes after every picture the driver had.
LEMMA TakeEnd ==
    ASSUME QueuesOK, LastIsLast, Accounts, EndInOrder, TakeFrame
    PROVE  EndInOrder'
<1>. DEFINE h == Head(devOut)
            f == [frame |-> h.frame, block |-> h.block, eos |-> h.last]
<1>1. /\ devOut \in Seq(Buffer) /\ devOut # <<>> /\ h \in Buffer
      /\ UNCHANGED <<received, accepted, changes, devState, draining, devIn, devHeld, eos>>
  BY HeadTail DEF QueuesOK, TakeFrame
<1>2. f \in Frame /\ f.frame = h.frame /\ f.eos = h.last /\ pending \in Seq(Frame)
  BY <1>1, BufferToFrame DEF QueuesOK
<1>3. pending' = Append(pending, f) \/ pending' = pending
  BY DEF TakeFrame
<1>4. /\ FramesOf(devOut') = FramesOf(devOut) \ {h.frame}
      /\ FramesOf(pending') = FramesOf(pending) \cup ({h.frame} \ {NoFrame})
      /\ h.frame \in FramesOf(devOut) \cup {NoFrame}
  BY TakeFrames DEF Accounts
<1>5. h.last => devOut' = <<>> /\ devState.last
  BY TakeLast
<1>. HIDE DEF f
<1>6. Ended => Ended' /\ h.frame = NoFrame
  BY <1>1, <1>4 DEF Ended
<1>7. ASSUME changes = 0, h.last PROVE Ended'
  <2>1. draining' /\ devIn' = <<>> /\ devHeld' = {}
    BY <1>1, <1>5, <1>7 DEF EndInOrder
  <2>2. FramesOf(devOut') = {}
    BY <1>5, <1>7, EmptyQueue
  <2>. QED
    BY <2>1, <2>2 DEF Ended
<1>. HIDE DEF h
<1>8. ASSUME changes = 0, NEW i \in DOMAIN pending', pending'[i].eos
      PROVE  Ended' /\ \A j \in DOMAIN pending' : i < j => pending'[j].frame = NoFrame
  <2>1. CASE pending' = pending
    <3>1. Ended /\ \A j \in DOMAIN pending : i < j => pending[j].frame = NoFrame
      BY <1>8, <2>1 DEF EndInOrder
    <3>. QED
      BY <1>6, <2>1, <3>1
  <2>2. CASE pending' = Append(pending, f)
    <3>1. /\ DOMAIN pending' = DOMAIN pending \cup {Len(pending) + 1}
          /\ pending'[Len(pending) + 1] = f
          /\ \A k \in DOMAIN pending : pending'[k] = pending[k]
      BY <1>2, <2>2, AppendIndices
    <3>2. Len(pending) \in Nat /\ DOMAIN pending = 1 .. Len(pending)
      BY <1>2
    <3>3. CASE i \in DOMAIN pending
      <4>1. Ended /\ \A j \in DOMAIN pending : i < j => pending[j].frame = NoFrame
        BY <1>8, <3>1, <3>3 DEF EndInOrder
      <4>. QED
        BY <1>2, <1>6, <3>1, <4>1
    <3>4. CASE i = Len(pending) + 1
      <4>1. h.last
        BY <1>2, <1>8, <3>1, <3>4
      <4>2. \A j \in DOMAIN pending' : ~(i < j)
        BY <3>1, <3>2, <3>4
      <4>. QED
        BY <1>7, <1>8, <4>1, <4>2
    <3>. QED
      BY <1>8, <3>1, <3>3, <3>4
  <2>. QED
    BY <1>3, <2>1, <2>2
<1>9. ASSUME changes = 0, eos PROVE Ended' /\ FramesOf(pending') = {}
  <2>1. Ended /\ FramesOf(pending) = {}
    BY <1>9 DEF EndInOrder
  <2>. QED
    BY <1>4, <1>6, <2>1
<1>. QED
  BY <1>1, <1>8, <1>9 DEF EndInOrder

\* After the frame that carries the end no picture is pending.
LEMMA HandOutEnd ==
    ASSUME QueuesOK, EndInOrder, Accounts, HandOut
    PROVE  EndInOrder'
<1>1. /\ pending \in Seq(Frame) /\ pending # <<>> /\ pending' = Tail(pending)
      /\ UNCHANGED <<received, accepted, changes, devState, draining, devIn, devHeld, devOut>>
  BY DEF QueuesOK, HandOut, device
<1>2. /\ 1 \in DOMAIN pending /\ Head(pending) = pending[1]
      /\ \A i \in DOMAIN Tail(pending) :
             i \in Nat /\ i + 1 \in DOMAIN pending /\ i + 1 # 1 /\ Tail(pending)[i] = pending[i + 1]
  BY <1>1, TailIndices
<1>3. Ended => Ended'
  BY <1>1 DEF Ended
<1>4. ASSUME changes = 0, NEW i \in DOMAIN pending', pending'[i].eos
      PROVE  Ended' /\ \A j \in DOMAIN pending' : i < j => pending'[j].frame = NoFrame
  <2>1. /\ Ended
        /\ \A j \in DOMAIN pending : i + 1 < j => pending[j].frame = NoFrame
    BY <1>1, <1>2, <1>4 DEF EndInOrder
  <2>2. ASSUME NEW j \in DOMAIN pending', i < j PROVE pending'[j].frame = NoFrame
    <3>1. i + 1 < j + 1 /\ j + 1 \in DOMAIN pending /\ pending'[j] = pending[j + 1]
      BY <1>1, <1>2, <2>2
    <3>. QED
      BY <2>1, <3>1
  <2>. QED
    BY <1>3, <2>1, <2>2
<1>5. FramesOf(pending') = FramesOf(pending) \ {Head(pending).frame}
  BY <1>1, FramesOfTail DEF Accounts
<1>6. ASSUME changes = 0, eos' PROVE Ended' /\ FramesOf(pending') = {}
  <2>1. eos \/ Head(pending).eos
    BY <1>6 DEF HandOut
  <2>2. CASE eos
    BY <1>3, <1>5, <1>6, <2>2 DEF EndInOrder
  <2>3. CASE Head(pending).eos
    <3>1. Ended /\ \A j \in DOMAIN pending : 1 < j => pending[j].frame = NoFrame
      BY <1>2, <1>6, <2>3 DEF EndInOrder
    <3>2. \A j \in DOMAIN pending' : pending'[j].frame = NoFrame
      <4>1. ASSUME NEW j \in DOMAIN pending' PROVE pending'[j].frame = NoFrame
        <5>1. j + 1 \in DOMAIN pending /\ pending'[j] = pending[j + 1] /\ j \in DOMAIN Tail(pending)
          BY <1>1, <1>2
        <5>2. 1 < j + 1
          <6>1. j \in 1 .. Len(Tail(pending)) /\ Len(Tail(pending)) \in Nat
            BY <1>1, <5>1
          <6>. QED
            BY <6>1
        <5>. QED
          BY <3>1, <5>1, <5>2
      <4>. QED
        BY <4>1
    <3>. QED
      BY <1>3, <3>1, <3>2 DEF FramesOf
  <2>. QED
    BY <2>1, <2>2, <2>3
<1>. QED
  BY <1>1, <1>4, <1>6 DEF EndInOrder

\* A session without input may end at once: nothing was accepted.
LEMMA DrainEnd ==
    ASSUME FlagsOK, QueuesOK, Accounts, EndInOrder, StartDecoderDrain
    PROVE  EndInOrder'
<1>. DEFINE end == [frame |-> NoFrame, block |-> NoBlock, eos |-> TRUE]
<1>1. UNCHANGED <<received, accepted, changes, devIn, devHeld, devOut, eos>>
  BY DEF StartDecoderDrain, history
<1>2. CASE draining
  BY <1>1, <1>2, EndUnchanged DEF StartDecoderDrain
<1>3. CASE ~draining
  <2>1. /\ draining' /\ devState' = [devState EXCEPT !.stop = ~EndsAtOnce]
        /\ pending' = IF EndsAtOnce THEN Append(pending, end) ELSE pending
    BY <1>3 DEF StartDecoderDrain
  <2>2. (~EndsAtOnce) \in BOOLEAN
    OBVIOUS
  <2>3. devState'.change = devState.change /\ devState'.last = devState.last
    <3>1. /\ [devState EXCEPT !.stop = ~EndsAtOnce].change = devState.change
          /\ [devState EXCEPT !.stop = ~EndsAtOnce].last = devState.last
      BY <2>2, StateValues DEF FlagsOK
    <3>. QED
      BY <2>1, <3>1
  <2>4. changes = 0 => ~eos /\ ~devState.last /\ \A i \in DOMAIN pending : ~pending[i].eos
    BY <1>3 DEF EndInOrder, Ended
  <2>5. CASE ~EndsAtOnce
    <3>1. pending' = pending
      BY <2>1, <2>5
    <3>. QED
      BY <1>1, <2>1, <2>3, <2>4, <3>1 DEF EndInOrder
  <2>6. CASE EndsAtOnce
    <3>1. pending' = Append(pending, end)
      BY <2>1, <2>6
    <3>2. end \in Frame /\ pending \in Seq(Frame)
      BY EmptyFrames DEF QueuesOK
    <3>. HIDE DEF end
    <3>3. /\ DOMAIN pending' = DOMAIN pending \cup {Len(pending) + 1}
          /\ \A k \in DOMAIN pending : pending'[k] = pending[k]
      BY <3>1, <3>2, AppendIndices
    <3>4. Len(pending) \in Nat /\ DOMAIN pending = 1 .. Len(pending)
      BY <3>2
    <3>5. accepted = {}
      BY <2>6 DEF EndInOrder, EndsAtOnce
    <3>6. FramesOf(devIn) = {} /\ devHeld = {} /\ FramesOf(devOut) = {}
      BY <3>5 DEF Accounts
    <3>7. Ended'
      BY <1>1, <2>1, <3>6, NoPacketsQueued DEF Ended
    <3>8. ASSUME changes = 0, NEW i \in DOMAIN pending', pending'[i].eos
          PROVE  \A j \in DOMAIN pending' : ~(i < j)
      <4>1. i = Len(pending) + 1
        BY <2>4, <3>3, <3>8
      <4>. QED
        BY <3>3, <3>4, <4>1
    <3>. QED
      BY <1>1, <2>1, <2>3, <2>4, <3>7, <3>8 DEF EndInOrder
  <2>. QED
    BY <2>5, <2>6
<1>. QED
  BY <1>2, <1>3

\* STREAMOFF takes pictures away and adds none.
LEMMA ResetEnd ==
    ASSUME FlagsOK, EndInOrder, NEW short \in BOOLEAN, ResetDecoderCapture(short),
           UNCHANGED <<received, accepted, changes, draining, devIn, pending, eos>>
    PROVE  EndInOrder'
<1>1. /\ devState'.change = FALSE /\ devState'.last = FALSE /\ devState'.stop = devState.stop
  BY ResetState
<1>2. devOut' = <<>> /\ devHeld' \subseteq devHeld
  BY DEF ResetDecoderCapture
<1>3. FramesOf(devOut') = {}
  BY <1>2, EmptyQueue
<1>4. Ended => Ended'
  BY <1>2, <1>3 DEF Ended
<1>5. FramesOf(pending') = FramesOf(pending)
  OBVIOUS
<1>. QED
  BY <1>1, <1>4, <1>5 DEF EndInOrder

\* A closed session has nothing that could end.
LEMMA CloseEnd ==
    ASSUME CloseSession
    PROVE  EndInOrder'
<1>1. /\ accepted' = {} /\ pending' = <<>> /\ eos' = FALSE /\ devState' = Running
  BY DEF CloseSession
<1>2. DOMAIN pending' = {}
  BY <1>1
<1>. QED
  BY <1>1, <1>2 DEF EndInOrder, Running

\* Between a packet's arrival and its QBUF the session does not start to drain.
LEMMA SubmitsStep ==
    ASSUME SubmitsOpen, [Next]_vars
    PROVE  SubmitsOpen'
<1>. USE DEF SubmitsOpen
<1>1. CASE Open \/ Close
  BY <1>1 DEF Open, Close, CloseSession, call
<1>2. CASE MaySubmit /\ EnterQueueDecoderPacket
  BY <1>2 DEF MaySubmit, EnterQueueDecoderPacket, session
<1>3. CASE \E wait \in BOOLEAN : EnterDequeueDecoderFrame(wait)
  BY <1>3 DEF EnterDequeueDecoderFrame
<1>4. CASE RejectDecoderPacket \/ StartDecoderDrain \/ StartDecoderDrainFails
  BY <1>4 DEF RejectDecoderPacket, StartDecoderDrain, StartDecoderDrainFails
<1>5. CASE Pump
  <2>1. draining' = draining /\ (pc' = "idle" \/ (pc # "idle" /\ op' = op))
    BY <1>5 DEF Pump, DequeueDecoderInputs, QueueBlocks, QueuePacket, BeginDecoderCaptureSetup,
       BeginDecoderCaptureSetupFails, ClosedFails, EventsHandled, ProgressDecoderCaptureSetup,
       SetupBlocks, StreamOnCapture, StreamOnEmptyQueue, PumpSkipped, TakeFrame,
       RefillDecoderCapture, RefillFails, CaptureDrained, CaptureBroken, IoctlFails, HandOut,
       NothingToHandOut, WaitForFrame, WaitForDeviceReady, WaitForDeviceTimeout, GoTo, Return,
       Returns, session, call
  <2>. QED
    BY <2>1
<1>6. CASE Environment \/ UNCHANGED vars
  BY <1>6 DEF Environment, DriverDecodes, DriverChanges, DriverOutputs, DriverDrops, DriverEnds,
     ClientReturns, vars, session, call
<1>. QED
  BY <1>1, <1>2, <1>3, <1>4, <1>5, <1>6 DEF Next

\* Every step keeps the end behind every picture.
LEMMA EndStep ==
    ASSUME FlagsOK, QueuesOK, CountsOK, PointInCall, SubmitsOpen, LastIsLast, Accounts,
           EndInOrder, [Next]_vars
    PROVE  EndInOrder'
<1>1. CASE Open
  BY <1>1, CloseEnd DEF Open
<1>2. CASE Close
  BY <1>2, CloseEnd DEF Close
<1>3. CASE MaySubmit /\ EnterQueueDecoderPacket
  BY <1>3, EndUnchanged DEF MaySubmit, EnterQueueDecoderPacket, session, device, history
<1>4. CASE RejectDecoderPacket
  BY <1>4, EndUnchanged DEF RejectDecoderPacket, Fault, OnlyFaults, session, device
<1>5. CASE \E wait \in BOOLEAN : EnterDequeueDecoderFrame(wait)
  BY <1>5, EndUnchanged DEF EnterDequeueDecoderFrame, session, device, history
<1>6. CASE StartDecoderDrain
  BY <1>6, DrainEnd
<1>7. CASE StartDecoderDrainFails
  BY <1>7, EndUnchanged DEF StartDecoderDrainFails, Fault, OnlyFaults, session, device
<1>8. CASE DequeueDecoderInputs
  BY <1>8, EndUnchanged DEF DequeueDecoderInputs, GoTo, history
<1>9. CASE QueueBlocks
  BY <1>9, EndUnchanged DEF QueueBlocks, Return, Returns, session, device, history
<1>10. CASE QueuePacket
  BY <1>10, QueueEnd
<1>11. CASE BeginDecoderCaptureSetup
  BY <1>11, ResetEnd DEF BeginDecoderCaptureSetup
<1>12. CASE BeginDecoderCaptureSetupFails
  BY <1>12, ResetEnd DEF BeginDecoderCaptureSetupFails
<1>13. CASE ClosedFails
  BY <1>13, EndUnchanged DEF ClosedFails, Return, Returns, session, device, history
<1>14. CASE EventsHandled
  BY <1>14, EndUnchanged DEF EventsHandled, GoTo, session, device, history
<1>15. CASE ProgressDecoderCaptureSetup
  BY <1>15, EndUnchanged DEF ProgressDecoderCaptureSetup, Lend, call, history
<1>16. CASE SetupBlocks
  BY <1>16, EndUnchanged DEF SetupBlocks, session, device, history
<1>17. CASE StreamOnCapture
  BY <1>17, EndUnchanged DEF StreamOnCapture, GoTo, device, history
<1>18. CASE StreamOnEmptyQueue
  BY <1>18, EndUnchanged DEF StreamOnEmptyQueue, Return, Returns, session, device, history
<1>19. CASE PumpSkipped
  BY <1>19, EndUnchanged DEF PumpSkipped, GoTo, session, device, history
<1>20. CASE TakeFrame
  BY <1>20, TakeEnd
<1>21. CASE RefillDecoderCapture
  BY <1>21, EndUnchanged DEF RefillDecoderCapture, Lend, history
<1>22. CASE RefillFails
  BY <1>22, EndUnchanged DEF RefillFails, Fault, Return, Returns, session, device
<1>23. CASE CaptureDrained
  BY <1>23, EndUnchanged DEF CaptureDrained, GoTo, session, device, history
<1>24. CASE CaptureBroken
  BY <1>24, EndUnchanged DEF CaptureBroken, Return, Returns, session, device, history
<1>25. CASE IoctlFails
  BY <1>25, EndUnchanged DEF IoctlFails, Fault, OnlyFaults, Return, Returns, session, device
<1>26. CASE HandOut
  BY <1>26, HandOutEnd
<1>27. CASE NothingToHandOut
  BY <1>27, EndUnchanged DEF NothingToHandOut, Return, Returns, session, device, history
<1>28. CASE WaitForFrame
  BY <1>28, EndUnchanged DEF WaitForFrame, GoTo, session, device, history
<1>29. CASE WaitForDeviceReady
  BY <1>29, EndUnchanged DEF WaitForDeviceReady, session, device, history
<1>30. CASE WaitForDeviceTimeout
  BY <1>30, EndUnchanged DEF WaitForDeviceTimeout, Fault, OnlyFaults, Return, Returns, session,
           device
<1>31. CASE DriverDecodes
  BY <1>31, DecodeEnd
<1>32. CASE DriverChanges
  <2>1. changes \in Nat /\ changes' = changes + 1 /\ UNCHANGED <<received, accepted>>
    BY <1>32 DEF DriverChanges, CountsOK, session
  <2>2. changes' # 0
    BY <2>1
  <2>. QED
    BY <2>1, <2>2 DEF EndInOrder
<1>33. CASE DriverOutputs
  BY <1>33, OutputEnd
<1>34. CASE DriverDrops
  BY <1>34, DropEnd
<1>35. CASE DriverEnds
  BY <1>35, LastEnd
<1>36. CASE \E b \in Blocks : ClientReturns(b)
  BY <1>36, EndUnchanged DEF ClientReturns, session, device, call
<1>37. CASE UNCHANGED vars
  BY <1>37, EndUnchanged DEF vars, session, device, call, history
<1>. QED
  BY <1>1, <1>2, <1>3, <1>4, <1>5, <1>6, <1>7, <1>8, <1>9, <1>10, <1>11, <1>12, <1>13, <1>14,
     <1>15, <1>16, <1>17, <1>18, <1>19, <1>20, <1>21, <1>22, <1>23, <1>24, <1>25, <1>26, <1>27,
     <1>28, <1>29, <1>30, <1>31, <1>32, <1>33, <1>34, <1>35, <1>36, <1>37
     DEF Next, Pump, Environment

-----------------------------------------------------------------------------
(* The theorems.                                                           *)

\* What the proofs rest on: types and control points, the buffers with the
\* driver, the holders of the blocks, the packets, LAST, the slots, the end.
SessionInv ==
    /\ TypeOK /\ PointInCall
    /\ DriverHolds /\ BlocksApart
    /\ Accounts /\ LastIsLast /\ SlotsCirculate /\ EndInOrder /\ SubmitsOpen

\* A session that was never opened.
LEMMA SessionInvInit == Init => SessionInv
<1>. SUFFICES ASSUME Init PROVE SessionInv
  OBVIOUS
<1>1. FlagsOK
  BY RunningIsState DEF Init, FlagsOK
<1>2. QueuesOK
  BY EmptyFrames DEF Init, QueuesOK
<1>3. CountsOK
  BY BoundAssumption, QueueAssumption DEF Init, CountsOK
<1>4. PointInCall
  BY DEF Init, PointInCall
<1>5. DriverHolds
  <2>1. DOMAIN slots = {} /\ devCap = <<>> /\ devOut = <<>>
    BY DEF Init
  <2>. QED
    BY <2>1, EmptyQueue DEF DriverHolds
<1>6. BlocksApart
  <2>1. DOMAIN slots = {} /\ pending = <<>> /\ client = {}
    BY DEF Init
  <2>2. SlotBlocks = {}
    BY <2>1 DEF SlotBlocks, Range
  <2>. QED
    BY <2>1, <2>2, EmptyQueue DEF BlocksApart
<1>7. Accounts
  BY EmptyQueue DEF Init, Accounts
<1>8. LastIsLast
  <2>1. DOMAIN devOut = {} /\ sawLast = FALSE
    BY DEF Init
  <2>. QED
    BY <2>1 DEF LastIsLast
<1>9. SlotsCirculate
  BY DEF Init, SlotsCirculate
<1>11. SubmitsOpen
  BY DEF Init, SubmitsOpen
<1>10. EndInOrder
  <2>1. DOMAIN pending = {} /\ eos = FALSE /\ devState = Running /\ accepted = {}
    BY DEF Init
  <2>. QED
    BY <2>1 DEF EndInOrder, Running
<1>. QED
  BY <1>1, <1>2, <1>3, <1>4, <1>5, <1>6, <1>7, <1>8, <1>9, <1>10, <1>11, TypeParts DEF SessionInv

\* Each step of the session, of the driver and of the client keeps it.
LEMMA SessionInvStep == SessionInv /\ [Next]_vars => SessionInv'
<1>. SUFFICES ASSUME SessionInv, [Next]_vars PROVE SessionInv'
  OBVIOUS
<1>1. /\ FlagsOK /\ QueuesOK /\ CountsOK /\ PointInCall
      /\ DriverHolds /\ BlocksApart /\ Accounts /\ LastIsLast /\ SlotsCirculate /\ EndInOrder
      /\ SubmitsOpen /\ [AnyNext]_vars
  BY TypeParts DEF SessionInv, AnyNext
<1>2. FlagsOK' /\ QueuesOK' /\ CountsOK' /\ PointInCall'
  BY <1>1, FlagsStep, QueuesStep, CountsStep, PointStep
<1>3. DriverHolds' /\ BlocksApart'
  BY <1>1, HoldsStep, ApartStep
<1>4. Accounts' /\ LastIsLast' /\ SlotsCirculate' /\ EndInOrder'
  BY <1>1, AccountsStep, LastStep, CirculateStep, EndStep
<1>6. SubmitsOpen'
  BY <1>1, SubmitsStep
<1>5. TypeOK'
  BY <1>2, TypeParts DEF FlagsOK, QueuesOK, CountsOK, TypeOK, DevStates
<1>. QED
  BY <1>2, <1>3, <1>4, <1>5, <1>6 DEF SessionInv

\* SessionInv is inductive, so it holds throughout.
THEOREM SessionInvariant == Spec => []SessionInv
<1>. QED
  BY SessionInvInit, SessionInvStep, PTL DEF Spec

\* Every variable keeps its declared type, whatever fails and in whatever order
\* the calls, the driver and the client interleave.
THEOREM TypeCorrect == Spec => []TypeOK
<1>1. SessionInv => TypeOK
  BY DEF SessionInv
<1>. QED
  BY <1>1, SessionInvariant, PTL

\* The driver writes only into blocks that a slot pins, one slot each, and no
\* such block is in a pending frame or with the client: a picture that was
\* handed out is never overwritten (QueueDecoderCapture, PumpDecoderCapture,
\* ResetDecoderCapture), for any number of buffers and blocks.
THEOREM OneHolderPerBlock == Spec => []BlocksHaveOneHolder
<1>1. SessionInv => BlocksHaveOneHolder
  BY HoldersCounted, TypeParts DEF SessionInv
<1>. QED
  BY <1>1, SessionInvariant, PTL

\* At most one idle slot is not accounted for, and that one carried LAST.
LEMMA IdleCounted ==
    ASSUME PointInCall, SlotsCirculate
    PROVE  CaptureSlotsConserved
<1>. SUFFICES ASSUME configured
              PROVE  /\ slots = <<>> => devState.short
                     /\ Cardinality(Unaccounted) <= IF sawLast THEN 1 ELSE 0
  BY DEF CaptureSlotsConserved, Unaccounted
<1>1. slots = <<>> => devState.short
  BY DEF PointInCall
<1>2. CASE Unaccounted = {}
  <2>1. Cardinality(Unaccounted) = 0
    BY <1>2, FS_EmptySet
  <2>. QED
    BY <1>1, <2>1
<1>3. ASSUME NEW x \in Unaccounted PROVE Cardinality(Unaccounted) = 1 /\ sawLast
  <2>1. Unaccounted = {x} /\ sawLast
    BY <1>3 DEF SlotsCirculate
  <2>2. Cardinality({x}) = 1
    BY FS_Singleton
  <2>. QED
    BY <2>1, <2>2
<1>. QED
  BY <1>1, <1>2, <1>3

\* Once the capture queue streams no slot drops out of circulation unseen: it is
\* with the driver, being refilled, known to be lost to a failed refill, or the
\* one that carried LAST (PumpDecoderCapture).
THEOREM SlotsConserved == Spec => []CaptureSlotsConserved
<1>1. SessionInv => CaptureSlotsConserved
  BY IdleCounted DEF SessionInv
<1>. QED
  BY <1>1, SessionInvariant, PTL

\* The account as the property lists it.
LEMMA PlacesApart ==
    ASSUME QueuesOK, Accounts
    PROVE  PacketsAccounted
<1>. DEFINE a == {b.frame : b \in Range(devIn)}
            c == {b.frame : b \in Range(devOut)} \ {NoFrame}
            d == {f.frame : f \in Range(pending)} \ {NoFrame}
            places == <<a, devHeld, c, d, delivered, discarded>>
<1>1. a = FramesOf(devIn)
  <2>1. \A k \in DOMAIN devIn : devIn[k] \in [slot : InputSlots, frame : Packets]
    BY Elements DEF QueuesOK
  <2>2. \A k \in DOMAIN devIn : devIn[k].frame # NoFrame
    BY <2>1, PacketIsFrame
  <2>. QED
    BY <2>2 DEF FramesOf, Range
<1>2. c = FramesOf(devOut) /\ d = FramesOf(pending)
  BY DEF FramesOf, Range
<1>. HIDE DEF a, c, d
<1>3. /\ DOMAIN places = 1 .. 6 /\ places[1] = a /\ places[2] = devHeld /\ places[3] = c
      /\ places[4] = d /\ places[5] = delivered /\ places[6] = discarded
  OBVIOUS
<1>4. \A i \in 1 .. 6 : i = 1 \/ i = 2 \/ i = 3 \/ i = 4 \/ i = 5 \/ i = 6
  OBVIOUS
<1>5. accepted = a \cup devHeld \cup c \cup d \cup delivered \cup discarded
  BY <1>1, <1>2 DEF Accounts
<1>6. \A i, j \in 1 .. 6 : i # j => places[i] \cap places[j] = {}
  <2>1. /\ a \cap devHeld = {} /\ a \cap c = {} /\ a \cap d = {} /\ a \cap delivered = {}
        /\ a \cap discarded = {} /\ devHeld \cap c = {} /\ devHeld \cap d = {}
        /\ devHeld \cap delivered = {} /\ devHeld \cap discarded = {} /\ c \cap d = {}
        /\ c \cap delivered = {} /\ c \cap discarded = {} /\ d \cap delivered = {}
        /\ d \cap discarded = {} /\ delivered \cap discarded = {}
    BY <1>1, <1>2 DEF Accounts
  <2>2. ASSUME NEW i \in 1 .. 6, NEW j \in 1 .. 6, i < j PROVE places[i] \cap places[j] = {}
    <3>. HIDE DEF places
    <3>1. CASE i = 1
      BY <3>1, <1>3, <1>4, <2>1, <2>2
    <3>2. CASE i = 2
      BY <3>2, <1>3, <1>4, <2>1, <2>2
    <3>3. CASE i = 3
      BY <3>3, <1>3, <1>4, <2>1, <2>2
    <3>4. CASE i = 4
      BY <3>4, <1>3, <1>4, <2>1, <2>2
    <3>5. CASE i = 5
      BY <3>5, <1>3, <1>4, <2>1, <2>2
    <3>6. CASE i = 6
      BY <3>6, <1>4, <2>2
    <3>. QED
      BY <1>4, <3>1, <3>2, <3>3, <3>4, <3>5, <3>6
  <2>. HIDE DEF places
  <2>3. ASSUME NEW i \in 1 .. 6, NEW j \in 1 .. 6, i # j PROVE places[i] \cap places[j] = {}
    <3>1. CASE i < j
      BY <3>1, <2>2
    <3>2. CASE j < i
      <4>1. places[j] \cap places[i] = {}
        BY <3>2, <2>2
      <4>. QED
        BY <4>1
    <3>. QED
      BY <2>3, <3>1, <3>2
  <2>. QED
    BY <2>3
<1>7. UNION Range(places) = accepted
  <2>. HIDE DEF places
  <2>1. Range(places) = {a, devHeld, c, d, delivered, discarded}
    BY <1>3, <1>4 DEF Range
  <2>. QED
    BY <1>5, <2>1
<1>. QED
  BY <1>3, <1>6, <1>7 DEF PacketsAccounted, a, c, d

\* Every packet the driver accepted since Open is in exactly one place: queued,
\* held, ready, pending, delivered, or given up by the driver.
THEOREM PacketsInOnePlace == Spec => []PacketsAccounted
<1>1. SessionInv => PacketsAccounted
  BY PlacesApart, TypeParts DEF SessionInv
<1>. QED
  BY <1>1, SessionInvariant, PTL

\* While the resolution has not changed, the end-of-stream frame is handed out
\* after every accepted packet was delivered or given up by the driver
\* (StartDecoderDrain, PumpDecoderCapture, DequeueDecoderFrame).
THEOREM EosComesLast == Spec => []EosAfterEveryFrame
<1>1. SessionInv => EosAfterEveryFrame
  <2>. SUFFICES ASSUME SessionInv, eos, changes = 0
                PROVE  accepted \subseteq delivered \cup discarded
    BY DEF EosAfterEveryFrame
  <2>1. /\ devIn = <<>> /\ devHeld = {} /\ FramesOf(devOut) = {} /\ FramesOf(pending) = {}
    BY DEF SessionInv, EndInOrder, Ended
  <2>2. FramesOf(devIn) = {}
    BY <2>1, EmptyQueue
  <2>. QED
    BY <2>1, <2>2 DEF SessionInv, Accounts
<1>. QED
  BY <1>1, SessionInvariant, PTL

-----------------------------------------------------------------------------
(* For the module that composes the session.                               *)

\* The pictures that the driver has and those that are on their way to the caller.
InDriver == FramesOf(devIn) \cup devHeld
Coming == FramesOf(devOut) \cup FramesOf(pending)

\* An end of stream is on its way: LAST, or the frame of a session without input.
EndComes ==
    \/ \E k \in DOMAIN devOut : devOut[k].last
    \/ \E k \in DOMAIN pending : pending[k].eos
IsBareEnd(f) == f.eos /\ f.block = NoBlock
BareEnd == \E k \in DOMAIN pending : IsBareEnd(pending[k])

\* The capture queue is set up or streams; only a drain ends an empty stream.
StreamState ==
    /\ setup => ~configured
    /\ ~configured => devOut = <<>>
    /\ ~received => accepted = {}
    /\ \A i \in DOMAIN pending : pending[i].block = NoBlock => pending[i].frame = NoFrame /\ draining

\* Without a change of resolution the capture queue is set up once, and LAST is the
\* last frame to come.
OneLayout ==
    changes = 0 =>
        /\ ~devState.change
        /\ ~devState.parsed => ~configured /\ ~setup /\ devEvents = 0
        /\ devEvents > 0 => devEvents = 1 /\ ~configured /\ ~setup
        /\ devState.stop => draining
        /\ devState.last => configured /\ draining
        /\ \A i \in DOMAIN pending :
               pending[i].eos /\ pending[i].block # NoBlock => i = Len(pending) /\ sawLast

\* If the driver drops nothing either, every buffer carries a picture or LAST.
NothingGivenUp ==
    skips = 0 /\ changes = 0 =>
        /\ discarded = {}
        /\ \A i \in DOMAIN devOut : devOut[i].frame # NoFrame \/ devOut[i].last

\* What a call in progress has found out.
CallState ==
    /\ blocked => pc \in {"inputs", "pump", "decide", "wait"} /\ op # "queue"
    /\ pc = "setup" => setup
    /\ out.block = NoBlock => out.frame = NoFrame
    /\ skips = 0 /\ changes = 0 =>
           /\ pc = "refill" => pending # <<>>
           /\ blocked => pending # <<>> \/ ~configured
           /\ pc = "decide" /\ pending = <<>> /\ EndComes => InDriver = {}

\* A step that leaves the stream where it is.
Quiet ==
    \/ EnterQueueDecoderPacket \/ RejectDecoderPacket
    \/ \E wait \in BOOLEAN : EnterDequeueDecoderFrame(wait)
    \/ StartDecoderDrainFails
    \/ DequeueDecoderInputs \/ QueueBlocks \/ ClosedFails \/ EventsHandled
    \/ ProgressDecoderCaptureSetup \/ SetupBlocks \/ StreamOnEmptyQueue \/ PumpSkipped
    \/ RefillDecoderCapture \/ RefillFails \/ CaptureDrained \/ CaptureBroken \/ IoctlFails
    \/ NothingToHandOut \/ WaitForFrame \/ WaitForDeviceReady \/ WaitForDeviceTimeout
    \/ \E b \in Blocks : ClientReturns(b)
    \/ UNCHANGED vars

\* It changes none of these.
LEMMA QuietStep ==
    ASSUME Quiet
    PROVE  UNCHANGED <<opened, configured, setup, pending, draining, received, devIn, devHeld,
                       devOut, devEvents, devState, accepted, delivered, discarded, sawLast,
                       eos, nextPacket, skips, changes, opens>>
BY DEF Quiet, EnterQueueDecoderPacket, RejectDecoderPacket, EnterDequeueDecoderFrame,
   StartDecoderDrainFails, DequeueDecoderInputs, QueueBlocks, ClosedFails, EventsHandled,
   ProgressDecoderCaptureSetup, SetupBlocks, StreamOnEmptyQueue, PumpSkipped,
   RefillDecoderCapture, RefillFails, CaptureDrained, CaptureBroken, IoctlFails,
   NothingToHandOut, WaitForFrame, WaitForDeviceReady, WaitForDeviceTimeout, ClientReturns,
   Fault, OnlyFaults, GoTo, Return, Returns, vars, session, device, call, history

\* The other steps.
LEMMA QuietOrNot ==
    [AnyNext]_vars =>
        \/ Quiet \/ Open \/ Close \/ StartDecoderDrain \/ QueuePacket
        \/ BeginDecoderCaptureSetup \/ BeginDecoderCaptureSetupFails \/ StreamOnCapture
        \/ TakeFrame \/ HandOut \/ DriverDecodes \/ DriverChanges \/ DriverOutputs
        \/ DriverDrops \/ DriverEnds
BY DEF AnyNext, Next, Pump, Environment, Quiet

\* What a new capture buffer or a new pending frame adds.
LEMMA TookBuffer ==
    ASSUME QueuesOK, devCap # <<>>, NEW f \in Packets \cup {NoFrame}, NEW last \in BOOLEAN,
           Took(Ready(f, last))
    PROVE  /\ DOMAIN devOut' = DOMAIN devOut \cup {Len(devOut) + 1}
           /\ devOut'[Len(devOut) + 1].frame = f /\ devOut'[Len(devOut) + 1].last = last
           /\ \A i \in DOMAIN devOut : devOut'[i] = devOut[i]
<1>1. Head(devCap) \in [slot : CaptureSlots, block : Blocks]
  BY HeadTail DEF QueuesOK
<1>2. Ready(f, last) \in Buffer /\ Ready(f, last).frame = f /\ Ready(f, last).last = last
  BY <1>1 DEF Ready, Buffer
<1>3. devOut \in Seq(Buffer) /\ devOut' = Append(devOut, Ready(f, last))
  BY DEF QueuesOK, Took
<1>. QED
  BY <1>2, <1>3, AppendIndices

\* Taking a buffer appends a frame with its block, or nothing.
LEMMA TakenFrame ==
    ASSUME QueuesOK, TakeFrame
    PROVE  \/ pending' = pending /\ ~Head(devOut).last /\ Head(devOut).frame = NoFrame
           \/ /\ DOMAIN pending' = DOMAIN pending \cup {Len(pending) + 1}
              /\ Len(pending') = Len(pending) + 1
              /\ pending'[Len(pending) + 1].frame = Head(devOut).frame
              /\ pending'[Len(pending) + 1].eos = Head(devOut).last
              /\ pending'[Len(pending) + 1].block # NoBlock
              /\ \A i \in DOMAIN pending : pending'[i] = pending[i]
<1>. DEFINE b == Head(devOut)
            f == [frame |-> b.frame, block |-> b.block, eos |-> b.last]
<1>1. b \in Buffer
  BY HeadTail DEF QueuesOK, TakeFrame
<1>2. f \in Frame /\ f.block # NoBlock /\ f.frame = b.frame /\ f.eos = b.last
  BY <1>1, BlockAssumption DEF Buffer, Frame
<1>3. pending \in Seq(Frame) /\ pending' = IF IsFrame(b) THEN Append(pending, f) ELSE pending
  BY DEF QueuesOK, TakeFrame
<1>. HIDE DEF f
<1>4. CASE IsFrame(b)
  <2>1. pending' = Append(pending, f) /\ Len(pending') = Len(pending) + 1
    BY <1>2, <1>3, <1>4
  <2>. QED
    BY <1>2, <1>3, <2>1, AppendIndices
<1>5. CASE ~IsFrame(b)
  BY <1>1, <1>3, <1>5 DEF IsFrame, Buffer
<1>. QED
  BY <1>4, <1>5

Streams == StreamState /\ OneLayout /\ NothingGivenUp

\* A new or closed session.
LEMMA ClosedStreams ==
    ASSUME CloseSession, UNCHANGED <<changes, skips>>
    PROVE  Streams'
<1>1. /\ setup' = FALSE /\ configured' = FALSE /\ devOut' = <<>> /\ accepted' = {}
      /\ pending' = <<>> /\ devEvents' = 0 /\ discarded' = {} /\ devState' = Running
  BY DEF CloseSession
<1>2. DOMAIN pending' = {} /\ DOMAIN devOut' = {}
  BY <1>1
<1>. QED
  BY <1>1, <1>2 DEF Streams, StreamState, OneLayout, NothingGivenUp, Running

\* The capture queue is reset by the first SOURCE_CHANGE event, before it holds
\* anything, or by a change of resolution.
LEMMA ResetStreams ==
    ASSUME FlagsOK, QueuesOK, CountsOK, LastIsLast, Streams, NEW short \in BOOLEAN,
           ResetDecoderCapture(short), devEvents > 0, devEvents' = devEvents - 1,
           UNCHANGED <<received, accepted, pending, draining, changes, skips>>
    PROVE  Streams'
<1>1. /\ configured' = FALSE /\ devOut' = <<>> /\ DOMAIN devOut' = {}
      /\ discarded' = discarded \cup (({b.frame : b \in Range(devOut)} \cup
                          (IF devState.change THEN devHeld ELSE {})) \ {NoFrame})
  BY DEF ResetDecoderCapture
<1>2. /\ devState'.change = FALSE /\ devState'.last = FALSE /\ devState'.stop = devState.stop
      /\ devState'.parsed = devState.parsed
  BY ResetState
<1>3. StreamState'
  BY <1>1 DEF Streams, StreamState
<1>4. ASSUME changes = 0
      PROVE  /\ ~configured /\ devEvents = 1 /\ ~devState.change /\ devState.parsed
             /\ devOut = <<>> /\ ~devState.last /\ ~sawLast
  <2>1. ~configured /\ devEvents = 1 /\ ~devState.change /\ devState.parsed
    BY <1>4 DEF Streams, OneLayout, CountsOK
  <2>. QED
    BY <1>4, <2>1 DEF Streams, StreamState, OneLayout, LastIsLast
<1>5. OneLayout'
  <2>. SUFFICES ASSUME changes = 0 PROVE OneLayout'
    BY DEF OneLayout
  <2>1. devEvents' = 0
    BY <1>4
  <2>2. \A i \in DOMAIN pending : ~(pending[i].eos /\ pending[i].block # NoBlock)
    BY <1>4 DEF Streams, OneLayout
  <2>. QED
    BY <1>1, <1>2, <1>4, <2>1, <2>2 DEF Streams, OneLayout
<1>6. NothingGivenUp'
  <2>. SUFFICES ASSUME changes = 0, skips = 0 PROVE discarded' = {}
    BY <1>1 DEF NothingGivenUp
  <2>1. Range(devOut) = {}
    BY <1>4 DEF Range
  <2>. QED
    BY <1>1, <1>4, <2>1 DEF Streams, NothingGivenUp
<1>. QED
  BY <1>3, <1>5, <1>6 DEF Streams

\* A picture or LAST is ready.
LEMMA TookStreams ==
    ASSUME QueuesOK, Streams, NEW f \in Packets \cup {NoFrame}, NEW last \in BOOLEAN,
           CanOutput, Took(Ready(f, last)), last => AtEnd,
           devState'.change = devState.change, devState'.stop = devState.stop,
           devState'.parsed = devState.parsed, devState'.last => last,
           UNCHANGED <<received, accepted, pending, draining, changes, configured, setup,
                       devEvents, sawLast>>,
           \/ skips' = skips /\ (f # NoFrame \/ last) /\ UNCHANGED discarded
           \/ skips' # 0
    PROVE  Streams'
<1>1. configured /\ devCap # <<>>
  BY DEF CanOutput
<1>3. StreamState'
  BY <1>1 DEF Streams, StreamState
<1>4. OneLayout'
  BY <1>1 DEF Streams, OneLayout, AtEnd
<1>5. NothingGivenUp'
  <2>. SUFFICES ASSUME skips' = 0, changes' = 0
                PROVE  /\ discarded' = {}
                       /\ \A i \in DOMAIN devOut' : devOut'[i].frame # NoFrame \/ devOut'[i].last
    BY DEF NothingGivenUp
  <2>1. skips = 0 /\ changes = 0 /\ discarded' = discarded /\ (f # NoFrame \/ last)
    OBVIOUS
  <2>2. /\ discarded = {}
        /\ \A i \in DOMAIN devOut : devOut[i].frame # NoFrame \/ devOut[i].last
    BY <2>1 DEF Streams, NothingGivenUp
  <2>. QED
    <3>1. DOMAIN devOut' = DOMAIN devOut \cup {Len(devOut) + 1}
      BY <1>1, TookBuffer
    <3>2. /\ devOut'[Len(devOut) + 1].frame = f /\ devOut'[Len(devOut) + 1].last = last
          /\ \A i \in DOMAIN devOut : devOut'[i] = devOut[i]
      BY <1>1, TookBuffer
    <3>. QED
      BY <2>1, <2>2, <3>1, <3>2
<1>. QED
  BY <1>3, <1>4, <1>5 DEF Streams

\* Every step keeps the capture queue's state, the one layout and, while the driver
\* gives up nothing, that nothing was given up.
LEMMA StreamStep ==
    ASSUME FlagsOK, QueuesOK, CountsOK, LastIsLast, CallState, Streams, [AnyNext]_vars
    PROVE  Streams'
<1>1. CASE Quiet
  BY <1>1, QuietStep DEF Streams, StreamState, OneLayout, NothingGivenUp
<1>2. CASE Open \/ Close
  BY <1>2, ClosedStreams DEF Open, Close
<1>3. CASE StartDecoderDrain
  <2>1. CASE draining
    BY <1>3, <2>1 DEF StartDecoderDrain, history, Streams, StreamState, OneLayout, NothingGivenUp
  <2>2. CASE ~draining
    <3>. DEFINE e == [frame |-> NoFrame, block |-> NoBlock, eos |-> TRUE]
    <3>1. /\ draining' /\ devState' = [devState EXCEPT !.stop = received]
          /\ pending' = IF received THEN pending ELSE Append(pending, e)
          /\ UNCHANGED <<setup, configured, devOut, received, accepted, changes, skips, discarded,
                         devEvents, sawLast>>
      BY <1>3, <2>2 DEF StartDecoderDrain, EndsAtOnce, history, FlagsOK
    <3>2. /\ devState'.change = devState.change /\ devState'.last = devState.last
          /\ devState'.parsed = devState.parsed
      <4>1. devState \in DevStates /\ received \in BOOLEAN
        BY DEF FlagsOK
      <4>. QED
        BY <3>1, <4>1, StateValues, ParsedKept
    <3>3. \A i \in DOMAIN pending' :
             \/ i \in DOMAIN pending /\ pending'[i] = pending[i]
             \/ pending'[i].block = NoBlock /\ pending'[i].frame = NoFrame
      <4>1. pending \in Seq(Frame) /\ e \in Frame
        BY DEF QueuesOK, Frame
      <4>. HIDE DEF e
      <4>2. pending' = pending \/ (pending' = Append(pending, e))
        BY <3>1
      <4>3. e.block = NoBlock /\ e.frame = NoFrame
        BY DEF e
      <4>. QED
        BY <4>1, <4>2, <4>3, AppendIndices
    <3>4. changes = 0 => \A i \in DOMAIN pending : ~(pending[i].eos /\ pending[i].block # NoBlock)
      BY <2>2 DEF Streams, OneLayout, LastIsLast
    <3>. HIDE DEF e
    <3>5. StreamState'
      BY <3>1, <3>3 DEF Streams, StreamState
    <3>6. OneLayout'
      BY <3>1, <3>2, <3>3, <3>4 DEF Streams, OneLayout
    <3>. QED
      BY <3>1, <3>5, <3>6 DEF Streams, NothingGivenUp
  <2>. QED
    BY <2>1, <2>2
<1>4. CASE QueuePacket
  BY <1>4 DEF QueuePacket, Streams, StreamState, OneLayout, NothingGivenUp
<1>5. CASE BeginDecoderCaptureSetup \/ BeginDecoderCaptureSetupFails
  BY <1>5, ResetStreams DEF BeginDecoderCaptureSetup, BeginDecoderCaptureSetupFails
<1>6. CASE StreamOnCapture
  <2>1. /\ setup /\ setup' = FALSE /\ configured' = TRUE
        /\ UNCHANGED <<devOut, received, accepted, pending, draining, changes, skips, devState,
                       devEvents, sawLast, discarded>>
    BY <1>6 DEF StreamOnCapture, device, history, CallState
  <2>. QED
    BY <2>1 DEF Streams, StreamState, OneLayout, NothingGivenUp, CountsOK
<1>7. CASE TakeFrame
  <2>1. /\ configured /\ devOut # <<>> /\ devOut' = Tail(devOut)
        /\ sawLast' = (sawLast \/ Head(devOut).last)
        /\ UNCHANGED <<setup, configured, received, accepted, draining, changes, skips, devState,
                       devEvents, discarded>>
    BY <1>7 DEF TakeFrame
  <2>2. ~sawLast
    BY <2>1 DEF LastIsLast
  <2>3. changes = 0 => \A i \in DOMAIN pending : ~(pending[i].eos /\ pending[i].block # NoBlock)
    BY <2>2 DEF Streams, OneLayout
  <2>4. StreamState'
    BY <1>7, <2>1, TakenFrame DEF Streams, StreamState
  <2>5. OneLayout'
    <3>. SUFFICES ASSUME changes = 0 PROVE OneLayout'
      BY <2>1 DEF OneLayout
    <3>1. \A i \in DOMAIN pending' : pending'[i].eos /\ pending'[i].block # NoBlock =>
              i = Len(pending') /\ sawLast'
      BY <1>7, <2>1, <2>3, TakenFrame
    <3>. QED
      BY <2>1, <3>1 DEF Streams, OneLayout
  <2>6. NothingGivenUp'
    <3>1. \A i \in DOMAIN Tail(devOut) : i + 1 \in DOMAIN devOut /\ Tail(devOut)[i] = devOut[i + 1]
      BY <2>1, TailIndices DEF QueuesOK
    <3>. QED
      BY <2>1, <3>1 DEF Streams, NothingGivenUp
  <2>. QED
    BY <2>4, <2>5, <2>6 DEF Streams
<1>8. CASE HandOut
  <2>1. /\ pending # <<>> /\ pending' = Tail(pending) /\ pending \in Seq(Frame)
        /\ UNCHANGED <<setup, configured, devOut, received, accepted, draining, changes, skips,
                       devState, devEvents, discarded, sawLast>>
    BY <1>8 DEF HandOut, device, QueuesOK
  <2>2. /\ Len(pending') = Len(pending) - 1
        /\ \A i \in DOMAIN pending' : i \in Nat /\ i + 1 \in DOMAIN pending /\ pending'[i] = pending[i + 1]
    BY <2>1, TailIndices
  <2>3. StreamState'
    BY <2>1, <2>2 DEF Streams, StreamState
  <2>4. OneLayout'
    <3>. SUFFICES ASSUME changes = 0 PROVE OneLayout'
      BY <2>1 DEF OneLayout
    <3>1. \A i \in DOMAIN pending' : pending'[i].eos /\ pending'[i].block # NoBlock =>
              i = Len(pending') /\ sawLast'
      <4>. SUFFICES ASSUME NEW i \in DOMAIN pending', pending'[i].eos, pending'[i].block # NoBlock
                    PROVE  i = Len(pending') /\ sawLast'
        OBVIOUS
      <4>1. i \in Nat /\ i + 1 = Len(pending) /\ sawLast
        BY <2>2 DEF Streams, OneLayout
      <4>. QED
        BY <2>1, <2>2, <4>1
    <3>. QED
      BY <2>1, <3>1 DEF Streams, OneLayout
  <2>. QED
    BY <2>1, <2>3, <2>4 DEF Streams, NothingGivenUp
<1>9. CASE DriverDecodes
  <2>1. /\ devEvents' = (IF devState.parsed THEN devEvents ELSE devEvents + 1)
        /\ devState' = [devState EXCEPT !.parsed = TRUE]
        /\ UNCHANGED <<setup, configured, devOut, received, accepted, pending, draining, changes,
                       skips, discarded, sawLast>>
    BY <1>9 DEF DriverDecodes, session, history
  <2>2. /\ devState'.change = devState.change /\ devState'.last = devState.last
        /\ devState'.stop = devState.stop /\ devState'.parsed
    <3>1. devState \in DevStates
      BY DEF FlagsOK
    <3>. QED
      BY <2>1, <3>1, StateValues, ParsedKept
  <2>3. OneLayout'
    BY <2>1, <2>2 DEF Streams, OneLayout
  <2>. QED
    BY <2>1, <2>3 DEF Streams, StreamState, NothingGivenUp
<1>10. CASE DriverChanges
  <2>1. /\ changes' # 0
        /\ UNCHANGED <<setup, configured, devOut, received, accepted, pending, draining>>
    BY <1>10 DEF DriverChanges, session, CountsOK
  <2>. QED
    BY <2>1 DEF Streams, StreamState, OneLayout, NothingGivenUp
<1>11. CASE DriverOutputs
  <2>1. PICK f \in devHeld, last \in BOOLEAN :
            /\ last => AtEnd
            /\ Took(Ready(f, last)) /\ devState' = [devState EXCEPT !.last = last]
    BY <1>11 DEF DriverOutputs
  <2>2. f \in Packets /\ f # NoFrame
    BY PacketIsFrame DEF QueuesOK
  <2>4. /\ devState'.change = devState.change /\ devState'.last = last
        /\ devState'.stop = devState.stop /\ devState'.parsed = devState.parsed
    BY <2>1, StateValues, ParsedKept DEF FlagsOK
  <2>3. CanOutput /\ UNCHANGED <<received, accepted, pending, draining, changes, configured,
                                 setup, devEvents, sawLast, skips, discarded>>
    BY <1>11 DEF DriverOutputs, session, history
  <2>. QED
    BY <2>1, <2>2, <2>3, <2>4, TookStreams
<1>12. CASE DriverDrops
  <2>1. /\ CanOutput /\ skips' = skips + 1
        /\ UNCHANGED <<received, accepted, pending, draining, changes, configured, setup,
                       devEvents, sawLast, devState>>
    BY <1>12 DEF DriverDrops, session
  <2>2. PICK f \in devHeld : Took(Ready(NoFrame, FALSE))
    BY <1>12 DEF DriverDrops
  <2>3. skips' # 0
    BY <2>1, BoundAssumption DEF CountsOK
  <2>4. PICK last \in BOOLEAN : last = FALSE
    OBVIOUS
  <2>5. Took(Ready(NoFrame, last)) /\ ~devState'.last
    BY <2>1, <2>2, <2>4 DEF CanOutput
  <2>. QED
    BY <2>1, <2>3, <2>4, <2>5, TookStreams
<1>13. CASE DriverEnds
  <2>1. PICK last \in BOOLEAN : last = TRUE
    OBVIOUS
  <2>2. /\ CanOutput /\ AtEnd /\ Took(Ready(NoFrame, last))
        /\ devState' = [devState EXCEPT !.last = last]
        /\ UNCHANGED <<received, accepted, pending, draining, changes, configured,
                       setup, devEvents, sawLast, skips, discarded>>
    BY <1>13, <2>1 DEF DriverEnds, session, history
  <2>3. /\ devState'.change = devState.change
        /\ devState'.stop = devState.stop /\ devState'.parsed = devState.parsed
    BY <2>2, StateValues, ParsedKept DEF FlagsOK
  <2>. QED
    BY <2>1, <2>2, <2>3, TookStreams
<1>. QED
  BY <1>1, <1>2, <1>3, <1>4, <1>5, <1>6, <1>7, <1>8, <1>9, <1>10, <1>11, <1>12, <1>13, QuietOrNot

\* While the layout is one, the driver only takes pictures from what it has, and an
\* end of stream comes when it has nothing left.
DriverTakes ==
    changes' = 0 =>
        /\ changes = 0 /\ InDriver' \subseteq InDriver
        /\ Coming' \subseteq Coming \cup (IF devState.last THEN {} ELSE InDriver)
        /\ devState.last => devState'.last
        /\ EndComes' => EndComes \/ InDriver' = {}

\* A buffer that becomes ready, in those terms.
LEMMA TookTakes ==
    ASSUME QueuesOK, Accounts, Streams, NEW f \in devHeld \cup {NoFrame}, NEW last \in BOOLEAN,
           CanOutput, Took(Ready(f, last)), last => AtEnd /\ devHeld \subseteq {f},
           devHeld' = devHeld \ {f} \/ devHeld' = {} \/ (~last /\ devHeld' \subseteq devHeld),
           UNCHANGED <<devIn, pending, changes>>
    PROVE  DriverTakes
<1>1. devCap # <<>> /\ ~devState.last
  BY DEF CanOutput
<1>2. f \in Packets \cup {NoFrame} /\ NoFrame \notin devHeld
  BY PacketIsFrame DEF QueuesOK
<1>3. FramesOf(devOut') = FramesOf(devOut) \cup ({f} \ {NoFrame})
  <2>1. f \notin FramesOf(devOut) /\ FramesDistinct(devOut)
    BY <1>2 DEF Accounts, FramesOf
  <2>. QED
    BY <1>1, <1>2, <2>1, TookFrames
<1>4. FramesOf(pending') = FramesOf(pending) /\ FramesOf(devIn') = FramesOf(devIn)
  BY DEF FramesOf
<1>5. EndComes' => EndComes \/ last
  BY <1>1, <1>2, TookBuffer DEF EndComes
<1>6. ASSUME changes = 0, last PROVE InDriver' = {}
  <2>1. devIn = <<>>
    BY <1>6 DEF AtEnd, Streams, OneLayout
  <2>. QED
    BY <1>4, <1>6, <2>1, EmptyQueue DEF InDriver
<1>. QED
  BY <1>1, <1>2, <1>3, <1>4, <1>5, <1>6 DEF DriverTakes, InDriver, Coming

\* The driver's steps.
LEMMA DriverStep ==
    ASSUME FlagsOK, QueuesOK, CountsOK, Accounts, Streams, Environment
    PROVE  DriverTakes /\ (skips' = 0 => skips = 0)
<1>1. CASE DriverDecodes
  <2>1. /\ devIn # <<>> /\ devIn' = Tail(devIn) /\ devHeld' = devHeld \cup {Head(devIn).frame}
        /\ devState' = [devState EXCEPT !.parsed = TRUE]
        /\ UNCHANGED <<devOut, pending, changes, skips>>
    BY <1>1 DEF DriverDecodes, CanDecode, session, history
  <2>2. /\ FramesOf(devIn') = FramesOf(devIn) \ {Head(devIn).frame}
        /\ Head(devIn).frame \in FramesOf(devIn) \cup {NoFrame}
    BY <2>1, FramesOfTail DEF QueuesOK, Accounts
  <2>3. Head(devIn).frame # NoFrame
    <3>1. Head(devIn) \in [slot : InputSlots, frame : Packets]
      BY <2>1, HeadTail DEF QueuesOK
    <3>2. Head(devIn).frame \in Packets
      BY <3>1
    <3>. QED
      BY <3>2, PacketIsFrame
  <2>4. devState'.last = devState.last
    BY <2>1, StateValues DEF FlagsOK
  <2>5. InDriver' = InDriver /\ Coming' = Coming /\ EndComes' = EndComes
    <3>1. InDriver' = InDriver
      BY <2>1, <2>2, <2>3 DEF InDriver
    <3>2. Coming' = Coming
      BY <2>1 DEF Coming
    <3>3. EndComes' = EndComes
      BY <2>1 DEF EndComes
    <3>. QED
      BY <3>1, <3>2, <3>3
  <2>. QED
    BY <2>1, <2>4, <2>5 DEF DriverTakes
<1>2. CASE DriverChanges
  BY <1>2 DEF DriverChanges, DriverTakes, CountsOK
<1>3. CASE DriverOutputs
  <2>1. PICK f \in devHeld, last \in BOOLEAN :
            /\ last => AtEnd /\ devHeld = {f}
            /\ devHeld' = devHeld \ {f} /\ Took(Ready(f, last))
    BY <1>3 DEF DriverOutputs
  <2>2. CanOutput /\ UNCHANGED <<devIn, pending, changes, skips>>
    BY <1>3 DEF DriverOutputs, session, history
  <2>. QED
    BY <2>1, <2>2, TookTakes
<1>4. CASE DriverDrops
  <2>1. PICK f \in devHeld : devHeld' = devHeld \ {f} /\ Took(Ready(NoFrame, FALSE))
    BY <1>4 DEF DriverDrops
  <2>2. CanOutput /\ UNCHANGED <<devIn, pending, changes>> /\ skips' = skips + 1
    BY <1>4 DEF DriverDrops, session
  <2>3. PICK last \in BOOLEAN : last = FALSE
    OBVIOUS
  <2>4. Took(Ready(NoFrame, last)) /\ ~last
    BY <2>1, <2>3
  <2>5. DriverTakes
    BY <2>1, <2>2, <2>4, TookTakes
  <2>. QED
    BY <2>2, <2>5, BoundAssumption DEF CountsOK
<1>5. CASE DriverEnds
  <2>1. PICK last \in BOOLEAN : last = TRUE
    OBVIOUS
  <2>2. /\ CanOutput /\ AtEnd /\ devHeld = {} /\ Took(Ready(NoFrame, last))
        /\ UNCHANGED <<devIn, devHeld, pending, changes, skips>>
    BY <1>5, <2>1 DEF DriverEnds, session, history
  <2>. QED
    BY <2>2, TookTakes
<1>6. CASE \E b \in Blocks : ClientReturns(b)
  BY <1>6 DEF ClientReturns, session, device, DriverTakes, InDriver, Coming, EndComes, FramesOf
<1>. QED
  BY <1>1, <1>2, <1>3, <1>4, <1>5, <1>6 DEF Environment

\* The driver changes nothing of the call in progress or of the session.
LEMMA DriverOutside ==
    ASSUME Environment
    PROVE  UNCHANGED <<session, call, accepted, delivered, nextPacket>>
BY DEF Environment, DriverDecodes, DriverChanges, DriverOutputs, DriverDrops, DriverEnds,
   ClientReturns, history

\* Every step keeps what a call has found out.
LEMMA CallStateStep ==
    ASSUME FlagsOK, QueuesOK, CountsOK, PointInCall, Accounts, Streams, CallState,
           [AnyNext]_vars
    PROVE  CallState'
<1>. USE DEF CallState
<1>1. pc = "idle" => ~blocked
  OBVIOUS
<1>2. CASE Open \/ Close
  BY <1>1, <1>2 DEF Open, Close, call
<1>3. CASE EnterQueueDecoderPacket \/ \E wait \in BOOLEAN : EnterDequeueDecoderFrame(wait)
  BY <1>1, <1>3 DEF EnterQueueDecoderPacket, EnterDequeueDecoderFrame, NoOutput
<1>4. CASE RejectDecoderPacket \/ StartDecoderDrain \/ StartDecoderDrainFails
  BY <1>1, <1>4 DEF RejectDecoderPacket, StartDecoderDrain, StartDecoderDrainFails
<1>5. ASSUME Return("BLOCKING") \/ Return("OK") \/ Return("ERROR") \/ Return("NOT_FOUND")
             \/ Return("TIMED_OUT")
      PROVE  CallState'
  BY <1>5 DEF Return, Returns, NoOutput
<1>6. CASE \/ QueueBlocks \/ QueuePacket \/ BeginDecoderCaptureSetupFails \/ ClosedFails
           \/ StreamOnEmptyQueue \/ CaptureBroken \/ IoctlFails \/ WaitForDeviceTimeout
  BY <1>5, <1>6 DEF QueueBlocks, QueuePacket, BeginDecoderCaptureSetupFails, ClosedFails,
     StreamOnEmptyQueue, CaptureBroken, IoctlFails, WaitForDeviceTimeout
<1>7. CASE NothingToHandOut
  BY <1>7 DEF NothingToHandOut, Return, Returns, NoOutput
<1>8. CASE HandOut
  <2>1. Head(pending) = pending[1] /\ 1 \in DOMAIN pending
    BY <1>8, TailIndices DEF HandOut, QueuesOK
  <2>. QED
    BY <1>8, <2>1 DEF HandOut, Returns, Streams, StreamState
<1>9. CASE DequeueDecoderInputs
  BY <1>9 DEF DequeueDecoderInputs, GoTo, history
<1>10. CASE BeginDecoderCaptureSetup
  BY <1>10 DEF BeginDecoderCaptureSetup, call
<1>11. CASE EventsHandled
  BY <1>11 DEF EventsHandled, GoTo, session
<1>12. CASE ProgressDecoderCaptureSetup
  BY <1>12 DEF ProgressDecoderCaptureSetup, call
<1>13. CASE SetupBlocks
  BY <1>13 DEF SetupBlocks, session, Streams, StreamState, PointInCall
<1>14. CASE StreamOnCapture
  BY <1>14 DEF StreamOnCapture, GoTo
<1>15. CASE PumpSkipped \/ CaptureDrained
  <2>1. /\ pc = "pump" /\ pc' = "decide" /\ UNCHANGED <<blocked, op, out, pending, configured>>
        /\ UNCHANGED <<devOut, skips, changes>>
        /\ blocked \/ ~configured \/ devOut = <<>>
    BY <1>15 DEF PumpSkipped, CaptureDrained, GoTo, session, device, history
  <2>2. ASSUME skips = 0, changes = 0, pending = <<>> PROVE ~EndComes'
    <3>1. devOut = <<>>
      BY <2>1, <2>2 DEF Streams, StreamState
    <3>2. DOMAIN devOut' = {} /\ DOMAIN pending' = {}
      BY <2>1, <2>2, <3>1
    <3>. QED
      BY <3>2 DEF EndComes
  <2>. QED
    BY <2>1, <2>2
<1>16. CASE TakeFrame
  <2>1. /\ pc = "pump" /\ ~blocked /\ devOut # <<>> /\ pc' \in {"pump", "refill"}
        /\ UNCHANGED <<blocked, op, skips, changes>>
        /\ pc' = "refill" => ~Head(devOut).last
    BY <1>16 DEF TakeFrame, NeedsRefill
  <2>3. out'.frame = NoFrame
    <3>1. Head(devOut) \in Buffer
      BY <2>1, HeadTail DEF QueuesOK
    <3>. QED
      BY <1>16, <3>1, BufferToFrame DEF TakeFrame, NoOutput
  <2>2. ASSUME skips = 0, changes = 0, pc' = "refill" PROVE pending' # <<>>
    <3>1. Head(devOut).frame # NoFrame
      <4>1. 1 \in DOMAIN devOut /\ Head(devOut) = devOut[1]
        BY <2>1, TailIndices DEF QueuesOK
      <4>. QED
        BY <2>1, <2>2, <4>1 DEF Streams, NothingGivenUp
    <3>2. Len(pending') = Len(pending) + 1 /\ Len(pending) \in Nat
      BY <1>16, <3>1, TakenFrame DEF QueuesOK
    <3>. QED
      BY <3>2
  <2>. QED
    BY <2>1, <2>2, <2>3
<1>17. CASE RefillDecoderCapture
  BY <1>17 DEF RefillDecoderCapture, NoOutput
<1>18. CASE RefillFails
  BY <1>5, <1>18 DEF RefillFails, PointInCall, session, NoOutput
<1>19. CASE WaitForFrame
  BY <1>19 DEF WaitForFrame, GoTo, session, history
<1>20. CASE WaitForDeviceReady
  BY <1>20 DEF WaitForDeviceReady
<1>21. CASE Environment
  BY <1>21, DriverStep, DriverOutside DEF session, call, DriverTakes
<1>22. CASE UNCHANGED vars
  BY <1>22 DEF vars, session, device, call, history, EndComes, InDriver, FramesOf
<1>. QED
  BY <1>2, <1>3, <1>4, <1>6, <1>7, <1>8, <1>9, <1>10, <1>11, <1>12, <1>13, <1>14, <1>15, <1>16,
     <1>17, <1>18, <1>19, <1>20, <1>21, <1>22 DEF AnyNext, Next, Pump

\* What a caller may rely on, also one that queues packets while it drains.
CallerInv ==
    /\ TypeOK /\ PointInCall /\ DriverHolds /\ BlocksApart /\ Accounts /\ LastIsLast
    /\ SlotsCirculate /\ Streams /\ CallState

\* A session that was never opened.
LEMMA CallerInvInit == Init => CallerInv
<1>. SUFFICES ASSUME Init PROVE CallerInv
  OBVIOUS
<1>1. /\ TypeOK /\ PointInCall /\ DriverHolds /\ BlocksApart /\ Accounts /\ LastIsLast
      /\ SlotsCirculate
  BY SessionInvInit DEF SessionInv
<1>2. Streams
  <2>1. /\ setup = FALSE /\ configured = FALSE /\ devOut = <<>> /\ accepted = {}
        /\ pending = <<>> /\ devEvents = 0 /\ discarded = {} /\ devState = Running
    BY DEF Init
  <2>2. DOMAIN pending = {} /\ DOMAIN devOut = {}
    BY <2>1
  <2>. QED
    BY <2>1, <2>2 DEF Streams, StreamState, OneLayout, NothingGivenUp, Running
<1>3. CallState
  BY DEF Init, CallState, NoOutput
<1>. QED
  BY <1>1, <1>2, <1>3 DEF CallerInv

\* The parts of its type.
LEMMA CallerTypes == CallerInv => FlagsOK /\ QueuesOK /\ CountsOK
BY TypeParts DEF CallerInv

\* Every step keeps it.
LEMMA CallerInvStep ==
    ASSUME CallerInv, [AnyNext]_vars
    PROVE  CallerInv'
<1>1. /\ FlagsOK /\ QueuesOK /\ CountsOK /\ PointInCall /\ DriverHolds /\ BlocksApart
      /\ Accounts /\ LastIsLast /\ SlotsCirculate /\ Streams /\ CallState
  BY CallerTypes DEF CallerInv
<1>2. FlagsOK' /\ QueuesOK' /\ CountsOK' /\ PointInCall'
  BY <1>1, FlagsStep, QueuesStep, CountsStep, PointStep
<1>3. DriverHolds' /\ BlocksApart'
  BY <1>1, HoldsStep, ApartStep
<1>4. Accounts' /\ LastIsLast' /\ SlotsCirculate'
  BY <1>1, AccountsStep, LastStep, CirculateStep
<1>5. Streams' /\ CallState'
  BY <1>1, StreamStep, CallStateStep
<1>6. TypeOK'
  BY <1>2, TypeParts DEF FlagsOK, QueuesOK, CountsOK, TypeOK, DevStates
<1>. QED
  BY <1>2, <1>3, <1>4, <1>5, <1>6 DEF CallerInv

\* Between two calls the caller may pass a packet's number over, or spend a fault.
LEMMA CallerInvSpends ==
    ASSUME CallerInv, pc = "idle", nextPacket' \in 1 .. (MaxPackets + 1),
           nextPacket' >= nextPacket, faults' \in 0 .. MaxFaults,
           UNCHANGED <<session, device, call, client, accepted, delivered, discarded, lostSlots,
                       sawLast, eos, skips, changes, opens>>
    PROVE  CallerInv'
<1>. USE DEF CallerInv, session, device, call
<1>1. TypeOK' /\ PointInCall'
  <2>1. TypeOK'
    BY DEF TypeOK
  <2>2. PointInCall'
    BY DEF PointInCall, Queued
  <2>. QED
    BY <2>1, <2>2
<1>2. DriverHolds' /\ BlocksApart'
  BY DriverHoldsUnchanged, BlocksApartUnchanged
<1>3. Accounts'
  <2>1. accepted \subseteq Nat /\ nextPacket \in Nat /\ nextPacket' \in Nat
    BY BoundAssumption DEF TypeOK, Packets
  <2>2. \A f \in accepted' : f < nextPacket'
    BY <2>1 DEF Accounts
  <2>. QED
    BY <2>2 DEF Accounts
<1>4. LastIsLast' /\ SlotsCirculate'
  BY DEF LastIsLast, SlotsCirculate, Unaccounted, Queued
<1>5. Streams'
  BY DEF Streams, StreamState, OneLayout, NothingGivenUp
<1>6. CallState'
  BY DEF CallState, EndComes, InDriver, FramesOf
<1>. QED
  BY <1>1, <1>2, <1>3, <1>4, <1>5, <1>6

\* It says that a block has one holder, a slot circulates and a packet is in one place.
LEMMA CallerInvImplies ==
    CallerInv => BlocksHaveOneHolder /\ CaptureSlotsConserved /\ PacketsAccounted
BY CallerTypes, HoldersCounted, IdleCounted, PlacesApart DEF CallerInv

\* The step of a call or of the driver that queues the packet ...
Submits ==
    /\ pc = "qbuf" /\ pc' = "idle" /\ ret'[2] = "OK" /\ received'
    /\ accepted' = accepted \cup {nextPacket} /\ InDriver' = InDriver \cup {nextPacket}
    /\ Coming' = Coming /\ EndComes' = EndComes
    /\ UNCHANGED <<delivered, devState, pending, changes, skips>>

\* ... the one that hands out the first frame ...
HandsOut ==
    /\ pc = "decide" /\ pc' = "idle" /\ ret'[2] = "OK" /\ pending # <<>> /\ out' = pending[1]
    /\ Coming' = Coming \ {out'.frame} /\ delivered' = delivered \cup ({out'.frame} \ {NoFrame})
    /\ out'.frame \in Coming \cup {NoFrame}
    /\ InDriver' = InDriver /\ (EndComes' => EndComes) /\ (out'.eos => EndComes)
    /\ out'.block = NoBlock => out'.frame = NoFrame
    /\ changes = 0 /\ out'.eos /\ out'.block # NoBlock =>
           Coming' = {} /\ devState.last /\ ~EndComes'
    /\ (BareEnd' => BareEnd) /\ (out'.eos /\ out'.block = NoBlock => BareEnd)
    /\ BareEnd => BareEnd' \/ out'.eos
    /\ UNCHANGED <<accepted, received, devState, changes, skips>>

\* ... and any other, which can end the call empty-handed.
Moves ==
    /\ UNCHANGED <<accepted, delivered, received>>
    /\ pc' = "idle" /\ pc # "idle" => ret'[2] # "OK"
    /\ BareEnd' = BareEnd
    /\ DriverTakes
    /\ pc' = "idle" /\ pc # "idle" /\ op # "queue" /\ ret'[2] \in {"NOT_FOUND", "BLOCKING"} =>
           /\ pc = "decide" /\ pending = <<>>
           /\ UNCHANGED <<pending, devIn, devHeld, devOut, devState, changes, skips>>

\* What a step inside a call, or of the driver, can do to the frames.
Effect ==
    /\ draining' = draining /\ opened' = opened
    /\ changes' = 0 => changes = 0
    /\ skips' = 0 => skips = 0
    /\ pc = "idle" => UNCHANGED <<pc, ret, out, pending>>
    /\ Submits \/ HandsOut \/ Moves

\* A step that leaves the stream where it is moves nothing.
LEMMA QuietMoves ==
    ASSUME Quiet, pc' = "idle" /\ pc # "idle" =>
               /\ ret'[2] # "OK"
               /\ op # "queue" /\ ret'[2] \in {"NOT_FOUND", "BLOCKING"} =>
                      pc = "decide" /\ pending = <<>>
    PROVE  Moves
BY QuietStep DEF Moves, BareEnd, DriverTakes, InDriver, Coming, EndComes, FramesOf

\* QueuePacket in those terms.
LEMMA SubmitsPacket ==
    ASSUME QueuesOK, CountsOK, PointInCall, Accounts, QueuePacket
    PROVE  Submits
<1>. DEFINE S == [slot : InputSlots, frame : Packets]
<1>1. PICK t \in FreeInputs : devIn' = Append(devIn, [slot |-> t, frame |-> nextPacket])
  BY DEF QueuePacket
<1>. DEFINE e == [slot |-> t, frame |-> nextPacket]
<1>2. nextPacket \in Packets
  BY DEF QueuePacket, PointInCall, CountsOK, Packets
<1>3. e \in S /\ e.frame = nextPacket /\ devIn \in Seq(S) /\ devIn' = Append(devIn, e)
  BY <1>1, <1>2 DEF FreeInputs, QueuesOK
<1>. HIDE DEF e, S
<1>4. nextPacket # NoFrame /\ nextPacket \notin FramesOf(devIn)
  <2>1. nextPacket \in Nat
    BY DEF CountsOK
  <2>2. nextPacket \notin accepted
    BY <2>1 DEF Accounts
  <2>. QED
    BY <1>2, <2>2, PacketIsFrame DEF Accounts
<1>5. FramesOf(devIn') = FramesOf(devIn) \cup {nextPacket}
  BY <1>3, <1>4, FramesOfAppend DEF Accounts
<1>6. /\ pc = "qbuf" /\ pc' = "idle" /\ ret' = <<op, "OK">> /\ received'
      /\ accepted' = accepted \cup {nextPacket}
      /\ UNCHANGED <<devHeld, devOut, pending, delivered, devState, changes, skips>>
  BY DEF QueuePacket, Return, Returns
<1>7. /\ InDriver' = InDriver \cup {nextPacket} /\ Coming' = Coming /\ EndComes' = EndComes
  BY <1>5, <1>6 DEF InDriver, Coming, EndComes, FramesOf
<1>. QED
  BY <1>6, <1>7 DEF Submits

\* HandOut in those terms.
LEMMA HandsOutFrame ==
    ASSUME QueuesOK, Accounts, LastIsLast, Streams, HandOut
    PROVE  HandsOut
<1>. DEFINE h == Head(pending)
<1>1. /\ pending \in Seq(Frame) /\ pending # <<>> /\ pending' = Tail(pending)
      /\ pc = "decide" /\ pc' = "idle" /\ ret' = <<op, "OK">> /\ out' = h
      /\ delivered' = delivered \cup ({h.frame} \ {NoFrame})
      /\ UNCHANGED <<devIn, devHeld, devOut, devState, accepted, received, changes, skips>>
  BY DEF QueuesOK, HandOut, Returns, device
<1>2. /\ FramesOf(pending') = FramesOf(pending) \ {h.frame}
      /\ h.frame \in FramesOf(pending) \cup {NoFrame}
  BY <1>1, FramesOfTail DEF Accounts
<1>3. h = pending[1] /\ 1 \in DOMAIN pending
      /\ \A i \in DOMAIN pending' : i + 1 \in DOMAIN pending /\ pending'[i] = pending[i + 1]
  BY <1>1, TailIndices
<1>. HIDE DEF h
<1>4. /\ Coming' = Coming \ {h.frame} /\ InDriver' = InDriver
      /\ h.frame \in Coming \cup {NoFrame}
  <2>1. FramesOf(devOut) \cap FramesOf(pending) = {} /\ NoFrame \notin FramesOf(devOut)
    BY DEF Accounts, FramesOf
  <2>2. FramesOf(devOut') = FramesOf(devOut) /\ FramesOf(devIn') = FramesOf(devIn)
    BY <1>1
  <2>. QED
    BY <1>1, <1>2, <2>1, <2>2 DEF Coming, InDriver
<1>5. (EndComes' => EndComes) /\ (h.eos => EndComes) /\ (BareEnd' => BareEnd)
  BY <1>1, <1>3 DEF EndComes, BareEnd
<1>8. BareEnd => BareEnd' \/ h.eos
  <2>1. \A i \in DOMAIN pending : i = 1 \/ (i - 1 \in DOMAIN pending' /\ pending'[i - 1] = pending[i])
    BY <1>1, TailIndices
  <2>. QED
    BY <1>3, <2>1 DEF BareEnd, IsBareEnd
<1>6. (h.block = NoBlock => h.frame = NoFrame) /\ (h.eos /\ h.block = NoBlock => BareEnd)
  BY <1>3 DEF Streams, StreamState, BareEnd, IsBareEnd
<1>7. ASSUME changes = 0, h.eos, h.block # NoBlock
      PROVE  Coming' = {} /\ devState.last /\ ~EndComes'
  <2>1. Len(pending) = 1 /\ sawLast
    BY <1>3, <1>7 DEF Streams, OneLayout
  <2>2. devState.last /\ devOut = <<>> /\ pending' = <<>>
    BY <1>1, <2>1 DEF LastIsLast
  <2>3. FramesOf(devOut') = {} /\ FramesOf(pending') = {}
    BY <1>1, <2>2, EmptyQueue
  <2>4. DOMAIN devOut' = {} /\ DOMAIN pending' = {}
    BY <1>1, <2>2
  <2>. QED
    BY <2>2, <2>3, <2>4 DEF Coming, EndComes
<1>. QED
  BY <1>1, <1>3, <1>4, <1>5, <1>6, <1>7, <1>8 DEF HandsOut

\* A dequeued buffer is on its way before and after.
LEMMA TakeMoves ==
    ASSUME QueuesOK, Accounts, TakeFrame
    PROVE  Moves
<1>1. /\ pc = "pump" /\ pc' # "idle" /\ devOut # <<>> /\ devOut' = Tail(devOut)
      /\ UNCHANGED <<accepted, delivered, received, devIn, devHeld, devState, changes, skips>>
  BY DEF TakeFrame
<1>2. /\ FramesOf(devOut') = FramesOf(devOut) \ {Head(devOut).frame}
      /\ FramesOf(pending') = FramesOf(pending) \cup ({Head(devOut).frame} \ {NoFrame})
      /\ Head(devOut).frame \in FramesOf(devOut) \cup {NoFrame}
  BY TakeFrames DEF Accounts
<1>3. Coming' \subseteq Coming /\ InDriver' = InDriver
  <2>1. Coming' \subseteq Coming
    BY <1>2 DEF Coming
  <2>2. InDriver' = InDriver
    BY <1>1 DEF InDriver
  <2>. QED
    BY <2>1, <2>2
<1>4. \A i \in DOMAIN devOut' : i + 1 \in DOMAIN devOut /\ devOut'[i] = devOut[i + 1]
  BY <1>1, TailIndices DEF QueuesOK
<1>5. 1 \in DOMAIN devOut /\ Head(devOut) = devOut[1]
  BY <1>1, TailIndices DEF QueuesOK
<1>6. EndComes' => EndComes
  BY <1>4, <1>5, TakenFrame DEF EndComes
<1>7. BareEnd' = BareEnd
  BY TakenFrame DEF BareEnd, IsBareEnd
<1>. QED
  BY <1>1, <1>3, <1>6, <1>7 DEF Moves, DriverTakes

\* The capture queue's reset loses only what was ready.
LEMMA ResetMoves ==
    ASSUME QueuesOK, CountsOK, LastIsLast, Streams,
           BeginDecoderCaptureSetup \/ BeginDecoderCaptureSetupFails
    PROVE  Moves
<1>1. /\ pc = "events" /\ (pc' = "idle" => ret'[2] = "ERROR") /\ devOut' = <<>>
      /\ devHeld' \subseteq devHeld /\ devEvents > 0
      /\ UNCHANGED <<accepted, delivered, received, devIn, pending, changes, skips>>
  <2>1. PICK short \in BOOLEAN : ResetDecoderCapture(short)
    BY DEF BeginDecoderCaptureSetup, BeginDecoderCaptureSetupFails
  <2>2. devOut' = <<>> /\ devHeld' \subseteq devHeld
    BY <2>1 DEF ResetDecoderCapture
  <2>3. /\ pc = "events" /\ (pc' = "idle" => ret'[2] = "ERROR") /\ devEvents > 0
        /\ UNCHANGED <<accepted, delivered, received, devIn, pending, changes, skips>>
    <3>1. CASE BeginDecoderCaptureSetup
      BY <3>1 DEF BeginDecoderCaptureSetup, call
    <3>2. CASE BeginDecoderCaptureSetupFails
      BY <3>2 DEF BeginDecoderCaptureSetupFails, Return, Returns
    <3>. QED
      BY <3>1, <3>2
  <2>. QED
    BY <2>2, <2>3
<1>2. FramesOf(devOut') = {} /\ FramesOf(pending') = FramesOf(pending)
      /\ FramesOf(devIn') = FramesOf(devIn)
  BY <1>1, EmptyQueue DEF FramesOf
<1>3. DOMAIN devOut' = {}
  BY <1>1
<1>4. changes = 0 => ~devState.last
  BY <1>1 DEF Streams, OneLayout
<1>. QED
  BY <1>1, <1>2, <1>3, <1>4 DEF Moves, DriverTakes, BareEnd, InDriver, Coming, EndComes

\* Every step inside a call, and every step of the driver, has one of these effects.
LEMMA StepEffect ==
    ASSUME CallerInv, Pump \/ Environment
    PROVE  Effect
<1>1. /\ FlagsOK /\ QueuesOK /\ CountsOK /\ PointInCall /\ Accounts /\ LastIsLast /\ Streams
      /\ CallState
  BY CallerTypes DEF CallerInv
<1>2. ASSUME Quiet, pc # "idle", UNCHANGED <<draining, opened>>,
             pc' # "idle" \/ ret'[2] \in {"ERROR", "TIMED_OUT"}
                \/ (op = "queue" /\ ret'[2] = "BLOCKING")
                \/ (pc = "decide" /\ pending = <<>> /\ ret'[2] \in {"NOT_FOUND", "BLOCKING"})
      PROVE  Effect
  <2>1. Moves
    BY <1>2, QuietMoves
  <2>. QED
    BY <1>2, <2>1, QuietStep DEF Effect
<1>3. CASE QueuePacket
  <2>1. Submits
    BY <1>1, <1>3, SubmitsPacket
  <2>. QED
    BY <1>3, <2>1 DEF Effect, QueuePacket
<1>4. CASE HandOut
  <2>1. HandsOut
    BY <1>1, <1>4, HandsOutFrame
  <2>. QED
    BY <1>4, <2>1 DEF Effect, HandOut
<1>5. CASE TakeFrame
  <2>1. Moves
    BY <1>1, <1>5, TakeMoves
  <2>. QED
    BY <1>5, <2>1 DEF Effect, TakeFrame
<1>6. CASE BeginDecoderCaptureSetup \/ BeginDecoderCaptureSetupFails
  <2>1. Moves
    BY <1>1, <1>6, ResetMoves
  <2>. QED
    BY <1>6, <2>1 DEF Effect, BeginDecoderCaptureSetup, BeginDecoderCaptureSetupFails
<1>7. CASE StreamOnCapture
  <2>1. /\ pc = "setup" /\ pc' = "inputs"
        /\ UNCHANGED <<accepted, delivered, received, pending, devIn, devHeld, devOut, devState,
                       changes, skips, draining, opened>>
    BY <1>7 DEF StreamOnCapture, GoTo, device, history
  <2>2. Moves
    BY <2>1 DEF Moves, BareEnd, DriverTakes, InDriver, Coming, EndComes, FramesOf
  <2>. QED
    BY <2>1, <2>2 DEF Effect
<1>8. CASE DequeueDecoderInputs \/ QueueBlocks \/ ClosedFails \/ EventsHandled
           \/ ProgressDecoderCaptureSetup \/ SetupBlocks \/ StreamOnEmptyQueue \/ PumpSkipped
           \/ RefillDecoderCapture \/ RefillFails \/ CaptureDrained \/ CaptureBroken
           \/ IoctlFails \/ NothingToHandOut \/ WaitForFrame \/ WaitForDeviceReady
           \/ WaitForDeviceTimeout
  <2>1. Quiet
    BY <1>8 DEF Quiet
  <2>2. /\ pc # "idle" /\ UNCHANGED <<draining, opened>>
        /\ \/ pc' # "idle" \/ ret'[2] \in {"ERROR", "TIMED_OUT"}
           \/ (op = "queue" /\ ret'[2] = "BLOCKING")
           \/ (pc = "decide" /\ pending = <<>> /\ ret'[2] \in {"NOT_FOUND", "BLOCKING"})
    BY <1>1, <1>8 DEF DequeueDecoderInputs, QueueBlocks, ClosedFails, EventsHandled,
       ProgressDecoderCaptureSetup, SetupBlocks, StreamOnEmptyQueue, PumpSkipped,
       RefillDecoderCapture, RefillFails, CaptureDrained, CaptureBroken, IoctlFails,
       NothingToHandOut, EmptyHanded, WaitForFrame, WaitForDeviceReady, WaitForDeviceTimeout,
       GoTo, Return, Returns, session, call, PointInCall
  <2>. QED
    BY <1>2, <2>1, <2>2
<1>9. CASE Environment
  <2>1. DriverTakes /\ (skips' = 0 => skips = 0)
    BY <1>1, <1>9, DriverStep
  <2>2. UNCHANGED <<session, call, accepted, delivered, nextPacket>>
    BY <1>9, DriverOutside
  <2>3. Moves
    BY <2>1, <2>2 DEF Moves, BareEnd, session, call
  <2>4. changes' = 0 => changes = 0
    BY <2>1 DEF DriverTakes
  <2>. QED
    BY <2>1, <2>2, <2>3, <2>4 DEF Effect, session, call
<1>. QED
  BY <1>3, <1>4, <1>5, <1>6, <1>7, <1>8, <1>9 DEF Pump

\* A drain that is asked for takes no picture from its way, and ends by itself only
\* a session that had no input.
LEMMA DrainEffect ==
    ASSUME CallerInv, StartDecoderDrain
    PROVE  /\ UNCHANGED <<pc, opened, received, accepted, delivered, nextPacket, skips, changes>>
           /\ InDriver' = InDriver /\ Coming' = Coming /\ devState'.last = devState.last
           /\ draining' /\ ret' = <<"drain", "OK">>
           /\ (draining \/ received => UNCHANGED pending)
           /\ (~draining /\ ~received => BareEnd')
           /\ (BareEnd' => BareEnd \/ ~received)
           /\ (EndComes' => EndComes \/ ~received)
<1>1. QueuesOK /\ FlagsOK /\ FramesDistinct(pending)
  BY CallerTypes DEF CallerInv, Accounts
<1>2. /\ UNCHANGED <<pc, opened, received, accepted, delivered, nextPacket, skips, changes>>
      /\ UNCHANGED <<devIn, devHeld, devOut>> /\ draining' /\ ret' = <<"drain", "OK">>
      /\ (draining \/ received => UNCHANGED pending)
  BY <1>1 DEF StartDecoderDrain, EndsAtOnce, history
<1>3. devState'.last = devState.last
  BY <1>1 DEF StartDecoderDrain, FlagsOK, DevStates
<1>4. InDriver' = InDriver /\ Coming' = Coming
  BY <1>1, <1>2, DrainFrames DEF InDriver, Coming, FramesOf
<1>5. ASSUME ~draining, ~received PROVE BareEnd'
  <2>. DEFINE end == [frame |-> NoFrame, block |-> NoBlock, eos |-> TRUE]
  <2>1. pending' = Append(pending, end) /\ pending \in Seq(Frame) /\ IsBareEnd(end)
    BY <1>1, <1>5 DEF StartDecoderDrain, EndsAtOnce, QueuesOK, IsBareEnd
  <2>. HIDE DEF end
  <2>2. Len(pending) + 1 \in DOMAIN pending' /\ pending'[Len(pending) + 1] = end
    BY <2>1
  <2>. QED
    BY <2>1, <2>2 DEF BareEnd
<1>6. (BareEnd' => BareEnd \/ ~received) /\ (EndComes' => EndComes \/ ~received)
  BY <1>2 DEF BareEnd, EndComes
<1>. QED
  BY <1>2, <1>3, <1>4, <1>5, <1>6

\* After a reset nothing is on its way.
LEMMA ClosedFrames ==
    ASSUME Open \/ Close
    PROVE  /\ InDriver' = {} /\ Coming' = {} /\ ~EndComes' /\ ~BareEnd'
           /\ accepted' = {} /\ delivered' = {} /\ ~draining' /\ pending' = <<>>
           /\ UNCHANGED <<pc, ret, out, nextPacket, skips, changes>>
<1>1. /\ devIn' = <<>> /\ devHeld' = {} /\ devOut' = <<>> /\ pending' = <<>> /\ ~draining'
      /\ accepted' = {} /\ delivered' = {}
      /\ UNCHANGED <<pc, ret, out, nextPacket, skips, changes>>
  BY DEF Open, Close, CloseSession, call
<1>2. InDriver' = {} /\ Coming' = {}
  BY <1>1, EmptyQueue DEF InDriver, Coming
<1>3. ~EndComes' /\ ~BareEnd'
  BY <1>1 DEF EndComes, BareEnd
<1>. QED
  BY <1>1, <1>2, <1>3
=============================================================================

------------------------- MODULE EncoderOutputProofs -------------------------
(***************************************************************************)
(* Proofs about what EncoderSession hands out, for any number of buffers   *)
(* and frames and for timestamps that repeat: every payload finds an entry *)
(* of encoder_frame_metadata, the bytes carry the timestamp of the frame   *)
(* they are handed out as, the end of stream comes last, and a queue call  *)
(* that polls waits for something that the device can still do.            *)
(***************************************************************************)
EXTENDS EncoderSessionProofs

-----------------------------------------------------------------------------
(* The order of the frames and what carries their payloads.                *)

Frame(i) == payload[devOut[i].slot]
Coded == {i \in DOMAIN devOut : ~devOut[i].empty}

\* The frames that the driver has still to code, those it has coded, and the
\* frames with metadata.
Uncoded == {devIn[k] : k \in DOMAIN devIn}
CodedFrames == {Frame(i) : i \in Coded}
InFlight == Uncoded \cup CodedFrames
Queued == {metadata[k].frame : k \in DOMAIN metadata}

\* The driver keeps the order of submission, before and after it has coded.
InputsOrdered ==
    /\ \A i, j \in DOMAIN devIn : i < j => devIn[i] < devIn[j]
    /\ \A k \in DOMAIN devIn : devIn[k] < nextFrame
OutputsOrdered ==
    /\ \A i, j \in Coded : i < j => Frame(i) < Frame(j)
    /\ \A i \in Coded : /\ \A k \in DOMAIN devIn : Frame(i) < devIn[k]
                        /\ Frame(i) \in Frames /\ Frame(i) < nextFrame
                        /\ devOut[i].pts = PtsOf[Frame(i)]

\* So does the metadata, which carries each frame's timestamp.
EntriesOrdered ==
    /\ \A i, j \in DOMAIN metadata : i < j => metadata[i].frame < metadata[j].frame
    /\ \A k \in DOMAIN metadata : /\ metadata[k].frame < nextFrame
                                  /\ metadata[k].pts = PtsOf[metadata[k].frame]

\* What is pending or delivered was submitted before.
TakenBefore ==
    /\ \A i \in DOMAIN pending : pending[i].frame < nextFrame
    /\ \A i \in DOMAIN delivered : delivered[i].index < nextFrame

\* What is pending or delivered has the payload of a frame with its timestamp.
PendingAttributed ==
    \A i \in DOMAIN pending : pending[i].frame # NoFrame =>
        /\ payload[pending[i].slot] # NoFrame
        /\ PtsOf[pending[i].frame] = PtsOf[payload[pending[i].slot]]
DeliveredAttributed ==
    \A i \in DOMAIN delivered : delivered[i].index # NoFrame =>
        /\ delivered[i].content # NoFrame
        /\ PtsOf[delivered[i].index] = PtsOf[delivered[i].content]

\* Every frame in flight has an entry of its own with its timestamp.
EntryFor(g) ==
    /\ \A f, h \in InFlight : g[f] = g[h] => f = h
    /\ \A f \in InFlight : PtsOf[g[f]] = PtsOf[f]
Answered == \E g \in [InFlight -> Queued] : EntryFor(g)

\* The end of stream is queued last, and nothing follows it.
Ended == devCmd = "stopped" \/ (draining /\ ~configured)
EosLast ==
    /\ \A i \in DOMAIN delivered : delivered[i].eos =>
           Ended /\ i = Len(delivered) /\ pending = <<>> /\ devOut = <<>>
    /\ \A i \in DOMAIN pending : pending[i].eos =>
           Ended /\ i = Len(pending) /\ devOut = <<>>
    /\ \A i \in DOMAIN devOut : devOut[i].last => Ended /\ i = Len(devOut)
Commanded ==
    /\ devCmd = "stopped" => devIn = <<>>
    /\ devCmd # "run" <=> draining /\ configured

\* A queue call waits only on full queues, with nothing to hand out.
WaitsOnFull == pc = "wait" /\ op = "queue" => pending = <<>> /\ InputsFull

\* Without skips and failures the metadata is what the driver holds, and the
\* frames queued after a drain's stop command come last.
Matched ==
    /\ InFlight \subseteq Queued
    /\ devCmd = "run" => Queued \subseteq InFlight
    /\ \A f \in Queued \ InFlight, h \in InFlight : h < f
    /\ \A i \in DOMAIN pending : pending[i].frame # NoFrame =>
           pending[i].frame = payload[pending[i].slot]
    /\ \A i \in DOMAIN delivered : delivered[i].index # NoFrame =>
           delivered[i].index = delivered[i].content

\* Without them frames leave in the order in which they came, and none is lost.
LeaveInOrder ==
    /\ \A i, j \in DOMAIN delivered : j < i /\ delivered[i].index # NoFrame =>
           delivered[j].index < delivered[i].index
    /\ \A i, j \in DOMAIN pending : j < i /\ pending[i].frame # NoFrame =>
           pending[j].frame < pending[i].frame
    /\ \A i \in DOMAIN pending, j \in DOMAIN delivered : pending[i].frame # NoFrame =>
           delivered[j].index < pending[i].frame
    /\ \A f \in Queued : /\ \A i \in DOMAIN pending : pending[i].frame < f
                         /\ \A j \in DOMAIN delivered : delivered[j].index < f
NoneLost ==
    accepted \subseteq {delivered[j].index : j \in DOMAIN delivered}
                           \cup {pending[i].frame : i \in DOMAIN pending} \cup InFlight

Clean == skips = 0 /\ ~failed

Ordered == InputsOrdered /\ OutputsOrdered /\ EntriesOrdered /\ TakenBefore
Attributed == PendingAttributed /\ DeliveredAttributed /\ Answered
Ending == EosLast /\ Commanded
InStep == Clean => Matched /\ LeaveInOrder /\ NoneLost

FrameInv == IInv /\ Ordered /\ Attributed /\ Ending /\ WaitsOnFull /\ InStep

-----------------------------------------------------------------------------
(* Positions in the queues.                                                *)

\* Where the entries of a queue are after one more.
LEMMA AppendPositions ==
    ASSUME NEW S, NEW q \in Seq(S), NEW e \in S
    PROVE  /\ Append(q, e) \in Seq(S) /\ Len(q) \in Nat
           /\ Len(Append(q, e)) = Len(q) + 1
           /\ DOMAIN q = 1 .. Len(q) /\ DOMAIN Append(q, e) = DOMAIN q \cup {Len(q) + 1}
           /\ \A i \in DOMAIN q : Append(q, e)[i] = q[i] /\ i < Len(q) + 1
           /\ Append(q, e)[Len(q) + 1] = e
<1>1. /\ Append(q, e) \in Seq(S) /\ Len(q) \in Nat /\ Len(Append(q, e)) = Len(q) + 1
      /\ DOMAIN q = 1 .. Len(q) /\ DOMAIN Append(q, e) = 1 .. (Len(q) + 1)
  OBVIOUS
<1>2. \A i \in DOMAIN q : Append(q, e)[i] = q[i]
  OBVIOUS
<1>3. Append(q, e)[Len(q) + 1] = e
  OBVIOUS
<1>. QED
  BY <1>1, <1>2, <1>3

\* Where they are without the first.
LEMMA TailPositions ==
    ASSUME NEW S, NEW q \in Seq(S), q # <<>>
    PROVE  /\ Head(q) = q[1] /\ 1 \in DOMAIN q /\ Head(q) \in S /\ Tail(q) \in Seq(S)
           /\ Len(q) \in Nat /\ Len(Tail(q)) = Len(q) - 1 /\ DOMAIN q \subseteq Nat
           /\ \A i \in DOMAIN Tail(q) : i \in Nat /\ 1 < i + 1 /\ i + 1 \in DOMAIN q
                                        /\ Tail(q)[i] = q[i + 1]
           /\ \A j \in DOMAIN q : j # 1 => j - 1 \in DOMAIN Tail(q)
                                           /\ Tail(q)[j - 1] = q[j] /\ 1 < j
<1>1. /\ Head(q) = q[1] /\ 1 \in DOMAIN q /\ Head(q) \in S /\ Tail(q) \in Seq(S)
      /\ Len(q) \in Nat /\ Len(Tail(q)) = Len(q) - 1
      /\ DOMAIN q = 1 .. Len(q) /\ DOMAIN Tail(q) = 1 .. (Len(q) - 1)
  OBVIOUS
<1>2. \A i \in DOMAIN Tail(q) : i \in Nat /\ 1 < i + 1 /\ i + 1 \in DOMAIN q
                                /\ Tail(q)[i] = q[i + 1]
  OBVIOUS
<1>3. ASSUME NEW j \in DOMAIN q, j # 1
      PROVE  j - 1 \in DOMAIN Tail(q) /\ Tail(q)[j - 1] = q[j] /\ 1 < j
  <2>1. j - 1 \in DOMAIN Tail(q) /\ (j - 1) + 1 = j /\ 1 < j
    BY <1>1, <1>3
  <2>. QED
    BY <2>1, <1>2
<1>. QED
  BY <1>1, <1>2, <1>3

\* Where they are without one in the middle.
LEMMA ErasePositions ==
    ASSUME NEW S, NEW s \in Seq(S), NEW i \in DOMAIN s
    PROVE  /\ DOMAIN Erase(s, i) \subseteq Nat
           /\ \A j \in DOMAIN Erase(s, i) :
                \E k \in DOMAIN s : /\ k # i /\ Erase(s, i)[j] = s[k]
                                    /\ k = (IF j < i THEN j ELSE j + 1)
           /\ \A k \in DOMAIN s : k # i =>
                \E j \in DOMAIN Erase(s, i) : Erase(s, i)[j] = s[k]
<1>1. Len(s) \in Nat /\ DOMAIN s = 1 .. Len(s) /\ i \in 1 .. Len(s)
  OBVIOUS
<1>2. /\ DOMAIN Erase(s, i) = 1 .. (Len(s) - 1)
      /\ \A j \in 1 .. (Len(s) - 1) :
           Erase(s, i)[j] = IF j < i THEN s[j] ELSE s[j + 1]
  BY <1>1 DEF Erase
<1>3. ASSUME NEW j \in DOMAIN Erase(s, i)
      PROVE  \E k \in DOMAIN s : /\ k # i /\ Erase(s, i)[j] = s[k]
                                 /\ k = (IF j < i THEN j ELSE j + 1)
  <2>. DEFINE k == IF j < i THEN j ELSE j + 1
  <2>1. k \in DOMAIN s /\ k # i
    BY <1>1, <1>2
  <2>2. Erase(s, i)[j] = s[k]
    BY <1>2
  <2>. QED
    BY <2>1, <2>2
<1>4. ASSUME NEW k \in DOMAIN s, k # i
      PROVE  \E j \in DOMAIN Erase(s, i) : Erase(s, i)[j] = s[k]
  <2>1. CASE k < i
    <3>1. k \in DOMAIN Erase(s, i) /\ Erase(s, i)[k] = s[k]
      BY <1>1, <1>2, <2>1
    <3>. QED
      BY <3>1
  <2>2. CASE ~(k < i)
    <3>1. k - 1 \in DOMAIN Erase(s, i) /\ ~(k - 1 < i) /\ (k - 1) + 1 = k
      BY <1>1, <1>2, <1>4, <2>2
    <3>2. Erase(s, i)[k - 1] = s[k]
      BY <1>2, <3>1
    <3>. QED
      BY <3>1, <3>2
  <2>. QED
    BY <2>1, <2>2
<1>. QED
  BY <1>1, <1>2, <1>3, <1>4

-----------------------------------------------------------------------------
(* What the steps do to the frames that the driver holds.                  *)

\* The first capture buffer is dequeued.
LEMMA OutTail ==
    ASSUME TypeOK, devOut # <<>>, devOut' = Tail(devOut), payload' = payload
    PROVE  /\ Head(devOut) = devOut[1] /\ 1 \in DOMAIN devOut /\ DOMAIN devOut \subseteq Nat
           /\ Head(devOut) \in CaptureBuffer
           /\ Len(devOut) \in Nat /\ Len(devOut') = Len(devOut) - 1
           /\ \A i \in DOMAIN devOut' : /\ i \in Nat /\ i + 1 \in DOMAIN devOut
                                        /\ devOut'[i] = devOut[i + 1]
           /\ \A i \in Coded' : /\ i \in Nat /\ i + 1 \in Coded /\ 1 < i + 1
                                /\ devOut'[i] = devOut[i + 1] /\ Frame(i)' = Frame(i + 1)
           /\ CodedFrames' = {Frame(i) : i \in Coded \ {1}}
<1>1. devOut \in Seq(CaptureBuffer)
  BY DEF TypeOK
<1>2. /\ Head(devOut) = devOut[1] /\ 1 \in DOMAIN devOut /\ Head(devOut) \in CaptureBuffer
      /\ Len(devOut) \in Nat /\ Len(devOut') = Len(devOut) - 1 /\ DOMAIN devOut \subseteq Nat
      /\ \A i \in DOMAIN devOut' : i \in Nat /\ 1 < i + 1 /\ i + 1 \in DOMAIN devOut
                                   /\ devOut'[i] = devOut[i + 1]
      /\ \A j \in DOMAIN devOut : j # 1 => j - 1 \in DOMAIN devOut'
                                           /\ devOut'[j - 1] = devOut[j] /\ 1 < j
  BY <1>1, TailPositions
<1>3. \A i \in Coded' : /\ i \in Nat /\ i + 1 \in Coded /\ 1 < i + 1
                        /\ devOut'[i] = devOut[i + 1] /\ Frame(i)' = Frame(i + 1)
  BY <1>2 DEF Coded, Frame
<1>4. \A j \in Coded \ {1} : j - 1 \in Coded' /\ Frame(j - 1)' = Frame(j)
  BY <1>2 DEF Coded, Frame
<1>5. ASSUME NEW f \in CodedFrames' PROVE f \in {Frame(i) : i \in Coded \ {1}}
  <2>1. PICK i \in Coded' : f = Frame(i)'
    BY <1>5 DEF CodedFrames
  <2>2. i + 1 \in Coded /\ i + 1 # 1 /\ f = Frame(i + 1)
    BY <1>3, <2>1
  <2>. QED
    BY <2>2
<1>6. ASSUME NEW f \in {Frame(i) : i \in Coded \ {1}} PROVE f \in CodedFrames'
  <2>1. PICK j \in Coded \ {1} : f = Frame(j)
    BY <1>6
  <2>2. j - 1 \in Coded' /\ f = Frame(j - 1)'
    BY <1>4, <2>1
  <2>. QED
    BY <2>2 DEF CodedFrames
<1>7. CodedFrames' = {Frame(i) : i \in Coded \ {1}}
  BY <1>5, <1>6
<1>. QED
  BY <1>2, <1>3, <1>7

\* The driver fills a capture buffer: no other buffer's bytes change.
LEMMA OutAppend ==
    ASSUME IInv, configured, NEW c \in devCap, NEW b \in CaptureBuffer, b.slot = c,
           NEW f \in Frames \cup {NoFrame},
           devOut' = Append(devOut, b), payload' = [payload EXCEPT ![c] = f]
    PROVE  /\ DOMAIN devOut' = DOMAIN devOut \cup {Len(devOut) + 1}
           /\ Len(devOut') = Len(devOut) + 1 /\ Len(devOut) \in Nat
           /\ \A i \in DOMAIN devOut : /\ i \in Nat /\ i < Len(devOut) + 1
                                       /\ devOut'[i] = devOut[i] /\ Frame(i)' = Frame(i)
           /\ \A i \in DOMAIN devOut' : i \notin DOMAIN devOut =>
                i = Len(devOut) + 1 /\ devOut'[i] = b /\ Frame(i)' = f
           /\ Coded' = IF b.empty THEN Coded ELSE Coded \cup {Len(devOut) + 1}
           /\ CodedFrames' = IF b.empty THEN CodedFrames ELSE CodedFrames \cup {f}
           /\ \A i \in DOMAIN pending : payload'[pending[i].slot] = payload[pending[i].slot]
<1>1. /\ devOut \in Seq(CaptureBuffer) /\ pending \in Seq(PendingFrame)
      /\ payload \in [CaptureSlots -> Frames \cup {NoFrame}] /\ c \in CaptureSlots
  BY DEF IInv, TypeOK
<1>2. /\ DOMAIN devOut' = DOMAIN devOut \cup {Len(devOut) + 1}
      /\ Len(devOut') = Len(devOut) + 1 /\ Len(devOut) \in Nat
      /\ DOMAIN devOut = 1 .. Len(devOut)
      /\ \A i \in DOMAIN devOut : devOut'[i] = devOut[i] /\ i < Len(devOut) + 1
      /\ devOut'[Len(devOut) + 1] = b
  BY <1>1, AppendPositions
<1>3. \A i \in DOMAIN devOut : devOut[i].slot # c /\ devOut[i].slot \in CaptureSlots
  <2>1. \A i \in DOMAIN devOut : devOut[i] \in CaptureBuffer
    BY <1>1
  <2>2. c \notin SlotsOf(devOut)
    BY DEF IInv, CaptureSlotsConserved
  <2>. QED
    BY <2>1, <2>2 DEF SlotsOf, CaptureBuffer
<1>4. \A i \in DOMAIN pending : pending[i].slot # c /\ pending[i].slot \in CaptureSlots
  <2>1. \A i \in DOMAIN pending : pending[i] \in PendingFrame
    BY <1>1
  <2>2. c \notin SlotsOf(pending)
    BY DEF IInv, CaptureSlotsConserved
  <2>. QED
    BY <2>1, <2>2 DEF SlotsOf, PendingFrame
<1>5. \A i \in DOMAIN devOut : i \in Nat /\ Frame(i)' = Frame(i)
  BY <1>1, <1>2, <1>3 DEF Frame
<1>6. \A i \in DOMAIN devOut' : i \notin DOMAIN devOut =>
           i = Len(devOut) + 1 /\ devOut'[i] = b /\ Frame(i)' = f
  BY <1>1, <1>2 DEF Frame
<1>7. Coded' = IF b.empty THEN Coded ELSE Coded \cup {Len(devOut) + 1}
  <2>1. Coded' = {i \in DOMAIN devOut \cup {Len(devOut) + 1} : ~devOut'[i].empty}
    BY <1>2 DEF Coded
  <2>2. {i \in DOMAIN devOut : ~devOut'[i].empty} = Coded
    BY <1>2 DEF Coded
  <2>3. devOut'[Len(devOut) + 1].empty = b.empty
    BY <1>2
  <2>4. {i \in DOMAIN devOut \cup {Len(devOut) + 1} : ~devOut'[i].empty}
          = {i \in DOMAIN devOut : ~devOut'[i].empty}
              \cup {i \in {Len(devOut) + 1} : ~devOut'[i].empty}
    OBVIOUS
  <2>5. {i \in {Len(devOut) + 1} : ~devOut'[i].empty}
          = IF b.empty THEN {} ELSE {Len(devOut) + 1}
    BY <2>3
  <2>. QED
    BY <2>1, <2>2, <2>4, <2>5
<1>8. \A i \in Coded : Frame(i)' = Frame(i)
  BY <1>5 DEF Coded
<1>9. CodedFrames' = IF b.empty THEN CodedFrames ELSE CodedFrames \cup {f}
  <2>1. CodedFrames' = {Frame(i)' : i \in Coded'}
    BY DEF CodedFrames
  <2>2. {Frame(i)' : i \in Coded} = CodedFrames
    BY <1>8 DEF CodedFrames
  <2>3. CASE b.empty
    BY <1>7, <2>1, <2>2, <2>3
  <2>4. CASE ~b.empty
    <3>1. CodedFrames' = {Frame(i)' : i \in Coded \cup {Len(devOut) + 1}}
      BY <1>7, <2>1, <2>4
    <3>2. \A i \in {Len(devOut) + 1} : Frame(i)' = f
      BY <1>2, <1>6
    <3>3. {Frame(i)' : i \in {Len(devOut) + 1}} = {f}
      BY <3>2
    <3>. QED
      BY <2>2, <2>4, <3>1, <3>3
  <2>. QED
    BY <2>3, <2>4
<1>10. \A i \in DOMAIN pending : payload'[pending[i].slot] = payload[pending[i].slot]
  BY <1>1, <1>4
<1>. QED
  BY <1>2, <1>5, <1>6, <1>7, <1>9, <1>10

\* The firmware takes the oldest frame.
LEMMA InTail ==
    ASSUME TypeOK, InputsOrdered, devIn # <<>>, devIn' = Tail(devIn)
    PROVE  /\ Head(devIn) = devIn[1] /\ 1 \in DOMAIN devIn /\ Head(devIn) \in Frames
           /\ Head(devIn) < nextFrame
           /\ \A k \in DOMAIN devIn' : /\ k \in Nat /\ k + 1 \in DOMAIN devIn
                                       /\ devIn'[k] = devIn[k + 1] /\ Head(devIn) < devIn'[k]
           /\ Uncoded = Uncoded' \cup {Head(devIn)}
           /\ Len(devIn') = Len(devIn) - 1 /\ Len(devIn) \in Nat
<1>1. devIn \in Seq(Frames)
  BY DEF TypeOK
<1>2. /\ Head(devIn) = devIn[1] /\ 1 \in DOMAIN devIn /\ Head(devIn) \in Frames
      /\ Len(devIn') = Len(devIn) - 1 /\ Len(devIn) \in Nat
      /\ \A k \in DOMAIN devIn' : k \in Nat /\ 1 < k + 1 /\ k + 1 \in DOMAIN devIn
                                  /\ devIn'[k] = devIn[k + 1]
      /\ \A j \in DOMAIN devIn : j # 1 => j - 1 \in DOMAIN devIn'
                                          /\ devIn'[j - 1] = devIn[j] /\ 1 < j
  BY <1>1, TailPositions
<1>3. \A k \in DOMAIN devIn' : Head(devIn) < devIn'[k]
  BY <1>2 DEF InputsOrdered
<1>4. Uncoded' \subseteq Uncoded /\ Head(devIn) \in Uncoded
  BY <1>2 DEF Uncoded
<1>5. ASSUME NEW f \in Uncoded PROVE f \in Uncoded' \cup {Head(devIn)}
  <2>1. PICK j \in DOMAIN devIn : f = devIn[j]
    BY <1>5 DEF Uncoded
  <2>2. CASE j = 1
    BY <2>1, <2>2, <1>2
  <2>3. CASE j # 1
    BY <2>1, <2>3, <1>2 DEF Uncoded
  <2>. QED
    BY <2>2, <2>3
<1>. QED
  BY <1>2, <1>3, <1>4, <1>5 DEF InputsOrdered

\* An erased entry's frame is no longer queued; every other one is.
LEMMA QueuedErase ==
    ASSUME TypeOK, EntriesOrdered, NEW i \in DOMAIN metadata, metadata' = Erase(metadata, i)
    PROVE  /\ Queued' = Queued \ {metadata[i].frame}
           /\ metadata[i].frame \in Queued
<1>1. metadata \in Seq(Metadata) /\ DOMAIN metadata \subseteq Nat
  BY DEF TypeOK
<1>2. \A k \in DOMAIN metadata : metadata[k].frame \in Nat
  <2>1. \A k \in DOMAIN metadata : metadata[k] \in Metadata
    BY <1>1
  <2>. QED
    BY <2>1, EncoderConstants DEF Metadata, Frames
<1>3. \A k \in DOMAIN metadata : k # i => metadata[k].frame # metadata[i].frame
  BY <1>1, <1>2 DEF EntriesOrdered
<1>4. /\ \A j \in DOMAIN metadata' :
           \E k \in DOMAIN metadata : k # i /\ metadata'[j] = metadata[k]
      /\ \A k \in DOMAIN metadata : k # i =>
           \E j \in DOMAIN metadata' : metadata'[j] = metadata[k]
  BY <1>1, ErasePositions
<1>5. Queued' = {metadata'[j].frame : j \in DOMAIN metadata'}
  BY DEF Queued
<1>6. ASSUME NEW f \in Queued' PROVE f \in Queued \ {metadata[i].frame}
  <2>1. PICK j \in DOMAIN metadata' : f = metadata'[j].frame
    BY <1>5, <1>6
  <2>2. PICK k \in DOMAIN metadata : k # i /\ metadata'[j] = metadata[k]
    BY <1>4
  <2>. QED
    BY <2>1, <2>2, <1>3 DEF Queued
<1>7. ASSUME NEW f \in Queued \ {metadata[i].frame} PROVE f \in Queued'
  <2>1. PICK k \in DOMAIN metadata : f = metadata[k].frame
    BY <1>7 DEF Queued
  <2>2. k # i
    BY <1>7, <2>1
  <2>3. PICK j \in DOMAIN metadata' : metadata'[j] = metadata[k]
    BY <1>4, <2>2
  <2>. QED
    BY <2>1, <2>3, <1>5
<1>. QED
  BY <1>6, <1>7 DEF Queued

-----------------------------------------------------------------------------
(* The steps, one by one.                                                  *)

Tame == Ordered /\ Attributed /\ Ending /\ InStep

\* The types of what the queues hold.
LEMMA Elements ==
    ASSUME TypeOK
    PROVE  /\ Frames \subseteq Nat /\ NoFrame \in Nat /\ NoFrame \notin Frames
           /\ \A f \in Frames : NoFrame < f
           /\ nextFrame \in Nat /\ NoFrame < nextFrame
           /\ \A k \in DOMAIN devIn : devIn[k] \in Frames
           /\ \A i \in DOMAIN devOut : devOut[i] \in CaptureBuffer
           /\ \A k \in DOMAIN metadata : metadata[k] \in Metadata /\ metadata[k].frame \in Frames
           /\ \A i \in DOMAIN pending : /\ pending[i] \in PendingFrame
                                        /\ pending[i].frame \in Frames \cup {NoFrame}
           /\ \A i \in DOMAIN delivered : delivered[i].index \in Frames \cup {NoFrame}
           /\ Uncoded \subseteq Frames /\ Queued \subseteq Frames
           /\ OutputsOrdered => CodedFrames \subseteq Frames /\ InFlight \subseteq Frames
<1>1. /\ Frames \subseteq Nat /\ NoFrame \in Nat /\ NoFrame \notin Frames
      /\ \A f \in Frames : NoFrame < f
      /\ nextFrame \in Nat /\ NoFrame < nextFrame
  BY EncoderConstants DEF TypeOK, Frames, NoFrame
<1>2. /\ \A k \in DOMAIN devIn : devIn[k] \in Frames
      /\ \A i \in DOMAIN devOut : devOut[i] \in CaptureBuffer
      /\ \A k \in DOMAIN metadata : metadata[k] \in Metadata
      /\ \A i \in DOMAIN pending : pending[i] \in PendingFrame
      /\ \A i \in DOMAIN delivered : delivered[i] \in Delivery
  BY DEF TypeOK
<1>3. /\ \A k \in DOMAIN metadata : metadata[k].frame \in Frames
      /\ \A i \in DOMAIN pending : pending[i].frame \in Frames \cup {NoFrame}
      /\ \A i \in DOMAIN delivered : delivered[i].index \in Frames \cup {NoFrame}
  BY <1>2 DEF Metadata, PendingFrame, Delivery
<1>4. Uncoded \subseteq Frames /\ Queued \subseteq Frames
  BY <1>2, <1>3 DEF Uncoded, Queued
<1>5. OutputsOrdered => CodedFrames \subseteq Frames /\ InFlight \subseteq Frames
  BY <1>4 DEF OutputsOrdered, CodedFrames, InFlight
<1>. QED
  BY <1>1, <1>2, <1>3, <1>4, <1>5

\* With fewer frames in flight and no fewer entries, each still has its own.
LEMMA AnsweredLess ==
    ASSUME Answered, InFlight' \subseteq InFlight, Queued \subseteq Queued'
    PROVE  Answered'
<1>1. PICK g \in [InFlight -> Queued] : EntryFor(g)
  BY DEF Answered
<1>. DEFINE h == [f \in InFlight' |-> g[f]]
<1>2. h \in [InFlight' -> Queued']
  OBVIOUS
<1>3. \A f \in InFlight' : h[f] = g[f] /\ f \in InFlight
  OBVIOUS
<1>. HIDE DEF h
<1>4. /\ \A f, k \in InFlight' : h[f] = h[k] => f = k
      /\ \A f \in InFlight' : PtsOf[h[f]] = PtsOf[f]
  BY <1>1, <1>3 DEF EntryFor
<1>5. \E k \in [InFlight' -> Queued'] :
         /\ \A f, e \in InFlight' : k[f] = k[e] => f = e
         /\ \A f \in InFlight' : PtsOf[k[f]] = PtsOf[f]
  BY <1>2, <1>4
<1>. QED
  BY <1>5 DEF Answered, EntryFor

\* A step that touches no queue of frames.
Quiet ==
    /\ UNCHANGED <<metadata, pending, devIn, devOut, devCmd, payload, delivered,
                   accepted, skips, nextFrame>>
    /\ failed => failed'
    /\ UNCHANGED <<configured, draining>> \/ (~configured /\ ~draining /\ UNCHANGED draining)

\* It keeps every part of the invariant.
LEMMA QuietStep ==
    ASSUME Tame, Quiet
    PROVE  Tame'
<1>1. UNCHANGED <<Coded, Uncoded, CodedFrames, InFlight, Queued>>
  BY DEF Quiet, Coded, Uncoded, CodedFrames, InFlight, Queued, Frame
<1>2. \A i : Frame(i)' = Frame(i)
  BY DEF Quiet, Frame
<1>3. Ordered'
  <2>1. InputsOrdered' /\ EntriesOrdered' /\ TakenBefore'
    BY DEF Tame, Quiet, Ordered, InputsOrdered, EntriesOrdered, TakenBefore
  <2>2. OutputsOrdered'
    BY <1>1, <1>2 DEF Tame, Quiet, Ordered, OutputsOrdered
  <2>. QED
    BY <2>1, <2>2 DEF Ordered
<1>4. Attributed'
  <2>1. Answered'
    BY <1>1, AnsweredLess DEF Tame, Attributed
  <2>. QED
    BY <2>1 DEF Tame, Quiet, Attributed, PendingAttributed, DeliveredAttributed
<1>5. Ending'
  <2>1. (Ended => Ended') /\ (draining /\ configured <=> draining' /\ configured')
    BY DEF Quiet, Ended
  <2>2. EosLast'
    BY <2>1 DEF Tame, Quiet, Ending, EosLast
  <2>3. Commanded'
    BY <2>1 DEF Tame, Quiet, Ending, Commanded
  <2>. QED
    BY <2>2, <2>3 DEF Ending
<1>6. InStep'
  <2>. SUFFICES ASSUME Clean' PROVE Matched' /\ LeaveInOrder' /\ NoneLost'
    BY DEF InStep
  <2>1. Matched /\ LeaveInOrder /\ NoneLost
    BY DEF Tame, Quiet, InStep, Clean
  <2>. QED
    BY <1>1, <2>1 DEF Quiet, Matched, LeaveInOrder, NoneLost
<1>. QED
  BY <1>3, <1>4, <1>5, <1>6 DEF Tame

\* A closed session.
Cleared ==
    /\ metadata = <<>> /\ pending = <<>> /\ devIn = <<>> /\ devOut = <<>>
    /\ delivered = <<>> /\ accepted = {} /\ devCmd = "run" /\ ~draining

\* It has no frame, and so satisfies the invariant, now and after a step.
LEMMA ClearedIsTame ==
    /\ Cleared => Tame
    /\ Cleared' => Tame'
<1>1. ASSUME Cleared PROVE Tame
  <2>1. Coded = {} /\ Uncoded = {} /\ CodedFrames = {} /\ InFlight = {} /\ Queued = {}
    BY <1>1 DEF Cleared, Coded, Uncoded, CodedFrames, InFlight, Queued
  <2>2. Ordered
    BY <1>1, <2>1 DEF Cleared, Ordered, InputsOrdered, OutputsOrdered, EntriesOrdered,
       TakenBefore
  <2>3. Answered
    <3>1. [f \in {} |-> f] \in [InFlight -> Queued] /\ EntryFor([f \in {} |-> f])
      BY <2>1 DEF EntryFor
    <3>. QED
      BY <3>1 DEF Answered
  <2>4. PendingAttributed /\ DeliveredAttributed /\ Ending
    BY <1>1 DEF Cleared, PendingAttributed, DeliveredAttributed, Ending, EosLast,
       Commanded
  <2>5. InStep
    BY <1>1, <2>1 DEF Cleared, InStep, Matched, LeaveInOrder, NoneLost
  <2>. QED
    BY <2>2, <2>3, <2>4, <2>5 DEF Tame, Attributed
<1>2. ASSUME Cleared' PROVE Tame'
  <2>1. /\ Coded' = {} /\ Uncoded' = {} /\ CodedFrames' = {} /\ InFlight' = {}
        /\ Queued' = {}
    BY <1>2 DEF Cleared, Coded, Uncoded, CodedFrames, InFlight, Queued
  <2>2. Ordered'
    BY <1>2, <2>1 DEF Cleared, Ordered, InputsOrdered, OutputsOrdered, EntriesOrdered,
       TakenBefore
  <2>3. Answered'
    <3>1. \E g \in [InFlight' -> Queued'] :
             /\ \A f, h \in InFlight' : g[f] = g[h] => f = h
             /\ \A f \in InFlight' : PtsOf[g[f]] = PtsOf[f]
      <4>1. [f \in {} |-> f] \in [InFlight' -> Queued']
        BY <2>1
      <4>. QED
        BY <2>1, <4>1
    <3>. QED
      BY <3>1 DEF Answered, EntryFor
  <2>4. PendingAttributed' /\ DeliveredAttributed' /\ Ending'
    BY <1>2 DEF Cleared, PendingAttributed, DeliveredAttributed, Ending, EosLast,
       Commanded
  <2>5. InStep'
    BY <1>2, <2>1 DEF Cleared, InStep, Matched, LeaveInOrder, NoneLost
  <2>. QED
    BY <2>2, <2>3, <2>4, <2>5 DEF Tame, Attributed
<1>. QED
  BY <1>1, <1>2

\* Dequeuing a capture buffer keeps the order, and takes the oldest frame in flight
\* if the buffer has one.
LEMMA DequeuedFrame ==
    ASSUME TypeOK, OutputsOrdered, devOut # <<>>, devOut' = Tail(devOut),
           UNCHANGED <<payload, devIn, nextFrame>>
    PROVE  /\ OutputsOrdered'
           /\ Head(devOut).empty => InFlight' = InFlight
           /\ ~Head(devOut).empty =>
                /\ Frame(1) \in InFlight /\ Head(devOut).pts = PtsOf[Frame(1)]
                /\ InFlight' = InFlight \ {Frame(1)}
                /\ \A f \in InFlight' : Frame(1) < f
           /\ InFlight' \subseteq InFlight
           /\ \A i \in DOMAIN devOut' : /\ i \in Nat /\ i + 1 \in DOMAIN devOut
                                        /\ devOut'[i] = devOut[i + 1]
           /\ 1 \in DOMAIN devOut /\ Head(devOut) = devOut[1] /\ Head(devOut) \in CaptureBuffer
           /\ Len(devOut') = Len(devOut) - 1 /\ Len(devOut) \in Nat
<1>1. /\ Head(devOut) = devOut[1] /\ 1 \in DOMAIN devOut /\ DOMAIN devOut \subseteq Nat
      /\ Head(devOut) \in CaptureBuffer
      /\ Len(devOut) \in Nat /\ Len(devOut') = Len(devOut) - 1
      /\ \A i \in DOMAIN devOut' : /\ i \in Nat /\ i + 1 \in DOMAIN devOut
                                   /\ devOut'[i] = devOut[i + 1]
      /\ \A i \in Coded' : /\ i \in Nat /\ i + 1 \in Coded /\ 1 < i + 1
                           /\ devOut'[i] = devOut[i + 1] /\ Frame(i)' = Frame(i + 1)
      /\ CodedFrames' = {Frame(i) : i \in Coded \ {1}}
  BY OutTail
<1>2. OutputsOrdered'
  <2>1. ASSUME NEW i \in Coded', NEW j \in Coded', i < j PROVE Frame(i)' < Frame(j)'
    <3>1. i + 1 < j + 1 /\ i + 1 \in Coded /\ j + 1 \in Coded
      BY <1>1, <2>1
    <3>. QED
      BY <1>1, <3>1 DEF OutputsOrdered
  <2>2. ASSUME NEW i \in Coded'
        PROVE  /\ \A k \in DOMAIN devIn' : Frame(i)' < devIn'[k]
               /\ Frame(i)' \in Frames /\ Frame(i)' < nextFrame'
               /\ devOut'[i].pts = PtsOf[Frame(i)']
    <3>1. i + 1 \in Coded /\ Frame(i)' = Frame(i + 1) /\ devOut'[i] = devOut[i + 1]
      BY <1>1
    <3>2. /\ \A k \in DOMAIN devIn : Frame(i + 1) < devIn[k]
          /\ Frame(i + 1) \in Frames /\ Frame(i + 1) < nextFrame
          /\ devOut[i + 1].pts = PtsOf[Frame(i + 1)]
      BY <3>1 DEF OutputsOrdered
    <3>. QED
      BY <3>1, <3>2
  <2>. QED
    BY <2>1, <2>2 DEF OutputsOrdered
<1>3. Uncoded' = Uncoded
  BY DEF Uncoded
<1>4. ASSUME Head(devOut).empty PROVE InFlight' = InFlight
  <2>1. 1 \notin Coded
    BY <1>1, <1>4 DEF Coded
  <2>2. CodedFrames' = CodedFrames
    BY <1>1, <2>1 DEF CodedFrames
  <2>. QED
    BY <1>3, <2>2 DEF InFlight
<1>5. ASSUME ~Head(devOut).empty
      PROVE  /\ Frame(1) \in InFlight /\ Head(devOut).pts = PtsOf[Frame(1)]
             /\ InFlight' = InFlight \ {Frame(1)}
             /\ \A f \in InFlight' : Frame(1) < f
  <2>1. 1 \in Coded
    BY <1>1, <1>5 DEF Coded
  <2>2. /\ Frame(1) \in Frames /\ Head(devOut).pts = PtsOf[Frame(1)]
        /\ \A k \in DOMAIN devIn : Frame(1) < devIn[k]
    BY <1>1, <2>1 DEF OutputsOrdered
  <2>3. \A i \in Coded \ {1} : Frame(1) < Frame(i)
    <3>1. \A i \in Coded \ {1} : 1 < i
      <4>1. \A i \in DOMAIN devOut : i \in 1 .. Len(devOut)
        BY DEF TypeOK
      <4>. QED
        BY <4>1, <1>1 DEF Coded
    <3>. QED
      BY <2>1, <3>1 DEF OutputsOrdered
  <2>4. CodedFrames = CodedFrames' \cup {Frame(1)}
    BY <1>1, <2>1 DEF CodedFrames
  <2>5. \A f \in InFlight' : Frame(1) < f
    BY <1>1, <1>3, <2>2, <2>3 DEF InFlight, Uncoded
  <2>6. Frame(1) \notin InFlight'
    BY <2>2, <2>5, Elements
  <2>7. Frame(1) \in InFlight /\ InFlight = InFlight' \cup {Frame(1)}
    BY <1>3, <2>4 DEF InFlight
  <2>. QED
    BY <2>2, <2>5, <2>6, <2>7
<1>6. InFlight' \subseteq InFlight
  BY <1>4, <1>5
<1>. QED
  BY <1>1, <1>2, <1>4, <1>5, <1>6

\* A buffer that is requeued or lost leaves the rest in order.
LEMMA DiscardStep ==
    ASSUME IInv, Tame, RequeueEmpty \/ PumpLosesSlot
    PROVE  Tame'
<1>1. /\ devOut # <<>> /\ devOut' = Tail(devOut)
      /\ UNCHANGED <<configured, draining, metadata, pending, devIn, devCmd, payload,
                     nextFrame, delivered, accepted, skips>>
      /\ failed' = TRUE \/ (failed' = failed /\ Head(devOut).empty)
  BY DEF RequeueEmpty, PumpLosesSlot, session, history
<1>2. TypeOK /\ OutputsOrdered
  BY DEF IInv, Tame, Ordered
<1>3. /\ OutputsOrdered' /\ InFlight' \subseteq InFlight
      /\ Head(devOut).empty => InFlight' = InFlight
      /\ \A i \in DOMAIN devOut' : i \in Nat /\ i + 1 \in DOMAIN devOut
                                   /\ devOut'[i] = devOut[i + 1]
      /\ Len(devOut') = Len(devOut) - 1 /\ Len(devOut) \in Nat
  BY <1>1, <1>2, DequeuedFrame
<1>4. Queued' = Queued
  BY <1>1 DEF Queued
<1>5. Ordered'
  BY <1>1, <1>3 DEF Tame, Ordered, InputsOrdered, EntriesOrdered, TakenBefore
<1>6. Attributed'
  <2>1. Answered'
    BY <1>3, <1>4, AnsweredLess DEF Tame, Attributed
  <2>. QED
    BY <1>1, <2>1 DEF Tame, Attributed, PendingAttributed, DeliveredAttributed
<1>7. Ending'
  <2>1. EosLast /\ Commanded
    BY DEF Tame, Ending
  <2>2. Ended' = Ended
    BY <1>1 DEF Ended
  <2>3. EosLast'
    <3>1. \A i \in DOMAIN devOut' : devOut'[i].last => Ended' /\ i = Len(devOut')
      BY <1>3, <2>1, <2>2 DEF EosLast
    <3>2. /\ \A i \in DOMAIN delivered : ~delivered[i].eos
          /\ \A i \in DOMAIN pending : ~pending[i].eos
      BY <1>1, <2>1 DEF EosLast
    <3>. QED
      BY <1>1, <3>1, <3>2 DEF EosLast
  <2>. QED
    BY <1>1, <2>1, <2>3 DEF Ending, Commanded
<1>8. InStep'
  <2>. SUFFICES ASSUME Clean' PROVE Matched' /\ LeaveInOrder' /\ NoneLost'
    BY DEF InStep
  <2>1. Matched /\ LeaveInOrder /\ NoneLost /\ InFlight' = InFlight
    BY <1>1, <1>3 DEF Tame, InStep, Clean
  <2>. QED
    BY <1>1, <1>4, <2>1 DEF Matched, LeaveInOrder, NoneLost
<1>. QED
  BY <1>5, <1>6, <1>7, <1>8 DEF Tame

\* An end of stream of the session's own, or an empty LAST buffer, is pended.
LEMMA EmptyEosStep ==
    ASSUME IInv, Tame, NEW e \in PendingFrame, e.frame = NoFrame, e.eos = TRUE,
           pending' = Append(pending, e), devOut' = <<>>, Ended',
           \A i \in DOMAIN delivered : ~delivered[i].eos,
           \A i \in DOMAIN pending : ~pending[i].eos,
           UNCHANGED <<configured, metadata, devIn, devCmd, payload, nextFrame, delivered,
                       accepted, skips, failed>>,
           OutputsOrdered', InFlight' = InFlight, Commanded'
    PROVE  Tame'
<1>1. pending \in Seq(PendingFrame)
  BY DEF IInv, TypeOK
<1>2. /\ DOMAIN pending' = DOMAIN pending \cup {Len(pending) + 1}
      /\ Len(pending') = Len(pending) + 1 /\ Len(pending) \in Nat
      /\ DOMAIN pending = 1 .. Len(pending)
      /\ \A i \in DOMAIN pending : pending'[i] = pending[i] /\ i < Len(pending) + 1
      /\ pending'[Len(pending) + 1] = e
  BY <1>1, AppendPositions
<1>3. /\ Frames \subseteq Nat /\ \A f \in Frames : NoFrame < f
      /\ nextFrame \in Nat /\ NoFrame < nextFrame /\ NoFrame \in Nat
      /\ Queued \subseteq Frames
  BY Elements DEF IInv
<1>4. Queued' = Queued
  BY DEF Queued
<1>5. Ordered'
  <2>1. TakenBefore'
    BY <1>2, <1>3 DEF Tame, Ordered, TakenBefore
  <2>. QED
    BY <2>1 DEF Tame, Ordered, InputsOrdered, EntriesOrdered
<1>6. Attributed'
  <2>1. Answered'
    BY <1>4, AnsweredLess DEF Tame, Attributed
  <2>2. PendingAttributed'
    BY <1>2 DEF Tame, Attributed, PendingAttributed
  <2>. QED
    BY <2>1, <2>2 DEF Tame, Attributed, DeliveredAttributed
<1>7. Ending'
  <2>1. \A i \in DOMAIN pending' : pending'[i].eos => Ended' /\ i = Len(pending') /\ devOut' = <<>>
    BY <1>2
  <2>2. \A i \in DOMAIN delivered' : ~delivered'[i].eos
    OBVIOUS
  <2>3. DOMAIN devOut' = {}
    OBVIOUS
  <2>. QED
    BY <2>1, <2>2, <2>3 DEF Ending, EosLast
<1>8. InStep'
  <2>. SUFFICES ASSUME Clean' PROVE Matched' /\ LeaveInOrder' /\ NoneLost'
    BY DEF InStep
  <2>1. Matched /\ LeaveInOrder /\ NoneLost
    BY DEF Tame, InStep, Clean
  <2>2. Matched'
    BY <1>2, <1>4, <2>1 DEF Matched
  <2>3. LeaveInOrder'
    <3>1. \A i, j \in DOMAIN pending' : j < i /\ pending'[i].frame # NoFrame =>
             pending'[j].frame < pending'[i].frame
      BY <1>2, <2>1 DEF LeaveInOrder
    <3>2. \A i \in DOMAIN pending', j \in DOMAIN delivered : pending'[i].frame # NoFrame =>
             delivered[j].index < pending'[i].frame
      BY <1>2, <2>1 DEF LeaveInOrder
    <3>3. \A f \in Queued, i \in DOMAIN pending' : pending'[i].frame < f
      BY <1>2, <1>3, <2>1 DEF LeaveInOrder
    <3>. QED
      BY <1>4, <2>1, <3>1, <3>2, <3>3 DEF LeaveInOrder
  <2>4. NoneLost'
    <3>1. {pending[i].frame : i \in DOMAIN pending} \subseteq {pending'[i].frame : i \in DOMAIN pending'}
      BY <1>2
    <3>. QED
      BY <2>1, <3>1 DEF NoneLost
  <2>. QED
    BY <2>2, <2>3, <2>4
<1>. QED
  BY <1>5, <1>6, <1>7, <1>8 DEF Tame

\* TakeEmptyLast pends the driver's own empty LAST buffer.
LEMMA TakeEmptyLastStep ==
    ASSUME IInv, Tame, TakeEmptyLast
    PROVE  Tame'
<1>1. /\ devOut # <<>> /\ devOut' = Tail(devOut) /\ Head(devOut).empty /\ Head(devOut).last
      /\ pending' = Append(pending, [slot |-> Head(devOut).slot, frame |-> NoFrame, eos |-> TRUE])
      /\ UNCHANGED <<configured, draining, metadata, devIn, devCmd, payload,
                     nextFrame, delivered, accepted, skips, failed>>
  BY DEF TakeEmptyLast, history
<1>2. TypeOK /\ OutputsOrdered /\ EosLast /\ Commanded
  BY DEF IInv, Tame, Ordered, Ending
<1>3. /\ OutputsOrdered' /\ InFlight' = InFlight
      /\ 1 \in DOMAIN devOut /\ Head(devOut) = devOut[1] /\ Head(devOut) \in CaptureBuffer
      /\ Len(devOut') = Len(devOut) - 1 /\ Len(devOut) \in Nat
  BY <1>1, <1>2, DequeuedFrame
<1>4. Ended /\ Len(devOut) = 1
  BY <1>1, <1>2, <1>3 DEF EosLast
<1>5. devOut' = <<>>
  <2>1. devOut' \in Seq(CaptureBuffer) /\ Len(devOut') = 0
    BY <1>1, <1>2, <1>3, <1>4 DEF TypeOK
  <2>. QED
    BY <2>1
<1>6. /\ \A i \in DOMAIN delivered : ~delivered[i].eos
      /\ \A i \in DOMAIN pending : ~pending[i].eos
  BY <1>1, <1>2 DEF EosLast
<1>7. Ended' /\ Commanded'
  BY <1>1, <1>2, <1>4 DEF Ended, Commanded
<1>. DEFINE e == [slot |-> Head(devOut).slot, frame |-> NoFrame, eos |-> TRUE]
<1>8. e \in PendingFrame /\ e.frame = NoFrame /\ e.eos = TRUE
  BY <1>3 DEF PendingFrame, CaptureBuffer
<1>9. pending' = Append(pending, e)
  BY <1>1
<1>. HIDE DEF e
<1>. QED
  BY <1>1, <1>3, <1>5, <1>6, <1>7, <1>8, <1>9, EmptyEosStep

\* StartEncoderDrain either stops the encoder or pends its own end of stream.
LEMMA StartDrainStep ==
    ASSUME IInv, Tame, StartEncoderDrain
    PROVE  Tame'
<1>1. /\ ~draining /\ draining' = TRUE
      /\ UNCHANGED <<configured, metadata, devIn, devOut, payload, nextFrame, delivered,
                     accepted, skips, failed>>
      /\ configured => devCmd' = "stopping" /\ pending' = pending
      /\ ~configured =>
            /\ pending' = Append(pending, [slot |-> 0, frame |-> NoFrame, eos |-> TRUE])
            /\ devCmd' = devCmd
  BY DEF StartEncoderDrain, history
<1>2. TypeOK /\ OutputsOrdered /\ EosLast /\ Commanded /\ UnconfiguredIsEmpty
  BY DEF IInv, Tame, Ordered, Ending
<1>3. ~Ended /\ devCmd = "run"
  BY <1>1, <1>2 DEF Ended, Commanded
<1>4. /\ \A i \in DOMAIN delivered : ~delivered[i].eos
      /\ \A i \in DOMAIN pending : ~pending[i].eos
      /\ \A i \in DOMAIN devOut : ~devOut[i].last
  BY <1>2, <1>3 DEF EosLast
<1>5. /\ UNCHANGED <<Coded, Uncoded, CodedFrames, InFlight, Queued>>
      /\ \A i : Frame(i)' = Frame(i)
  BY <1>1 DEF Coded, Uncoded, CodedFrames, InFlight, Queued, Frame
<1>6. OutputsOrdered'
  BY <1>1, <1>2, <1>5 DEF OutputsOrdered
<1>7. CASE configured
  <2>1. Ordered'
    BY <1>1, <1>6, <1>7 DEF Tame, Ordered, InputsOrdered, EntriesOrdered, TakenBefore
  <2>2. Attributed'
    <3>1. Answered'
      BY <1>5, AnsweredLess DEF Tame, Attributed
    <3>. QED
      BY <1>1, <1>7, <3>1 DEF Tame, Attributed, PendingAttributed, DeliveredAttributed
  <2>3. Ending'
    BY <1>1, <1>4, <1>7 DEF Ending, EosLast, Commanded
  <2>4. InStep'
    <3>. SUFFICES ASSUME Clean' PROVE Matched' /\ LeaveInOrder' /\ NoneLost'
      BY DEF InStep
    <3>1. Matched /\ LeaveInOrder /\ NoneLost
      BY <1>1 DEF Tame, InStep, Clean
    <3>. QED
      BY <1>1, <1>5, <1>7, <3>1 DEF Matched, LeaveInOrder, NoneLost
  <2>. QED
    BY <2>1, <2>2, <2>3, <2>4 DEF Tame
<1>8. CASE ~configured
  <2>. DEFINE e == [slot |-> 0, frame |-> NoFrame, eos |-> TRUE]
  <2>1. e \in PendingFrame /\ e.frame = NoFrame /\ e.eos = TRUE
    BY EncoderConstants DEF PendingFrame, CaptureSlots
  <2>2. pending' = Append(pending, e)
    BY <1>1, <1>8
  <2>. HIDE DEF e
  <2>3. devOut' = <<>> /\ Ended'
    BY <1>1, <1>2, <1>8 DEF UnconfiguredIsEmpty, Ended
  <2>4. Commanded' /\ devCmd' = devCmd
    BY <1>1, <1>3, <1>8 DEF Commanded
  <2>. QED
    BY <1>1, <1>4, <1>5, <1>6, <2>1, <2>2, <2>3, <2>4, EmptyEosStep
<1>. QED
  BY <1>7, <1>8

\* When a payload takes another frame's entry, the frame whose entry it was takes
\* the entry of the payload's own frame: both have the payload's timestamp.
LEMMA AnsweredTaken ==
    ASSUME Answered, NEW f0 \in InFlight, NEW m \in Queued, PtsOf[m] = PtsOf[f0],
           InFlight' = InFlight \ {f0}, Queued' = Queued \ {m}
    PROVE  Answered'
<1>1. PICK g \in [InFlight -> Queued] : EntryFor(g)
  BY DEF Answered
<1>. DEFINE h == [f \in InFlight' |-> IF g[f] = m THEN g[f0] ELSE g[f]]
<1>2. \A f \in InFlight' : /\ f \in InFlight /\ f # f0 /\ g[f] # g[f0]
                           /\ h[f] = IF g[f] = m THEN g[f0] ELSE g[f]
  BY <1>1 DEF EntryFor
<1>3. h \in [InFlight' -> Queued']
  <2>1. \A f \in InFlight' : (IF g[f] = m THEN g[f0] ELSE g[f]) \in Queued'
    BY <1>1, <1>2
  <2>. QED
    BY <2>1
<1>. HIDE DEF h
<1>4. \A f, k \in InFlight' : h[f] = h[k] => f = k
  BY <1>1, <1>2 DEF EntryFor
<1>5. \A f \in InFlight' : PtsOf[h[f]] = PtsOf[f]
  BY <1>1, <1>2 DEF EntryFor
<1>6. \E k \in [InFlight' -> Queued'] :
         /\ \A f, e \in InFlight' : k[f] = k[e] => f = e
         /\ \A f \in InFlight' : PtsOf[k[f]] = PtsOf[f]
  BY <1>3, <1>4, <1>5
<1>. QED
  BY <1>6 DEF Answered, EntryFor

\* Erasing an entry keeps the rest in order.
LEMMA EraseOrdered ==
    ASSUME TypeOK, EntriesOrdered, NEW i \in DOMAIN metadata,
           metadata' = Erase(metadata, i), nextFrame' = nextFrame
    PROVE  EntriesOrdered'
<1>1. metadata \in Seq(Metadata) /\ DOMAIN metadata \subseteq Nat /\ i \in Nat
  BY DEF TypeOK
<1>2. /\ DOMAIN metadata' \subseteq Nat
      /\ \A j \in DOMAIN metadata' :
           \E k \in DOMAIN metadata : /\ k # i /\ metadata'[j] = metadata[k]
                                      /\ k = (IF j < i THEN j ELSE j + 1)
  BY <1>1, ErasePositions
<1>3. ASSUME NEW a \in DOMAIN metadata', NEW b \in DOMAIN metadata', a < b
      PROVE  metadata'[a].frame < metadata'[b].frame
  <2>1. PICK k \in DOMAIN metadata : metadata'[a] = metadata[k]
                                     /\ k = (IF a < i THEN a ELSE a + 1)
    BY <1>2
  <2>2. PICK l \in DOMAIN metadata : metadata'[b] = metadata[l]
                                     /\ l = (IF b < i THEN b ELSE b + 1)
    BY <1>2
  <2>3. k < l
    BY <1>1, <1>2, <1>3, <2>1, <2>2
  <2>. QED
    BY <2>1, <2>2, <2>3 DEF EntriesOrdered
<1>4. \A j \in DOMAIN metadata' : /\ metadata'[j].frame < nextFrame'
                                  /\ metadata'[j].pts = PtsOf[metadata'[j].frame]
  BY <1>2 DEF EntriesOrdered
<1>. QED
  BY <1>3, <1>4 DEF EntriesOrdered

\* Without skips and failures the entry that a payload takes is its own.
LEMMA TakesOwnEntry ==
    ASSUME TypeOK, EntriesOrdered, OutputsOrdered, Matched, NEW i \in DOMAIN metadata,
           NEW f0 \in InFlight, Matches(i, PtsOf[f0]),
           \A f \in InFlight \ {f0} : f0 < f
    PROVE  /\ metadata[i].frame = f0
           /\ \A f \in Queued \ {f0} : f0 < f
<1>1. /\ InFlight \subseteq Nat /\ Queued \subseteq Nat /\ DOMAIN metadata \subseteq Nat
      /\ \A k \in DOMAIN metadata : k \in 1 .. Len(metadata)
  <2>1. Frames \subseteq Nat /\ InFlight \subseteq Frames /\ Queued \subseteq Frames
    BY Elements
  <2>2. metadata \in Seq(Metadata)
    BY DEF TypeOK
  <2>3. DOMAIN metadata = 1 .. Len(metadata) /\ Len(metadata) \in Nat
    BY <2>2
  <2>. QED
    BY <2>1, <2>3
<1>2. \A f \in Queued \ {f0} : f0 < f
  BY <1>1 DEF Matched
<1>3. PICK k \in DOMAIN metadata : metadata[k].frame = f0
  BY DEF Matched, Queued
<1>4. metadata[k].pts = PtsOf[f0]
  BY <1>3 DEF EntriesOrdered
<1>5. i = k \/ i < k
  BY <1>1, <1>4 DEF Matches
<1>6. ASSUME i < k PROVE FALSE
  <2>1. metadata[i].frame < f0
    BY <1>3, <1>6 DEF EntriesOrdered
  <2>2. metadata[i].frame \in Queued
    BY DEF Queued
  <2>3. metadata[i].frame \in Nat /\ f0 \in Nat
    BY <1>1, <2>2
  <2>4. metadata[i].frame # f0
    BY <2>1, <2>3
  <2>5. f0 < metadata[i].frame
    BY <1>2, <2>2, <2>4
  <2>. QED
    BY <2>1, <2>3, <2>5
<1>. QED
  BY <1>2, <1>3, <1>5, <1>6

\* A payload takes the first entry with its timestamp.
LEMMA TakePayloadStep ==
    ASSUME IInv, Tame, TakePayload
    PROVE  Tame'
<1>1. /\ devOut # <<>> /\ devOut' = Tail(devOut) /\ ~Head(devOut).empty
      /\ UNCHANGED <<configured, draining, devIn, devCmd, payload, nextFrame, delivered,
                     accepted, skips, failed>>
  BY DEF TakePayload, history
<1>2. PICK i \in DOMAIN metadata :
         /\ Matches(i, Head(devOut).pts)
         /\ metadata' = Erase(metadata, i)
         /\ pending' = Append(pending, [slot |-> Head(devOut).slot,
                                        frame |-> metadata[i].frame,
                                        eos |-> Head(devOut).last])
  BY DEF TakePayload
<1>. DEFINE f0 == Frame(1)
            m == metadata[i].frame
            e == [slot |-> Head(devOut).slot, frame |-> m, eos |-> Head(devOut).last]
<1>3. /\ TypeOK /\ EosLast /\ Commanded /\ InputsOrdered /\ OutputsOrdered
      /\ EntriesOrdered /\ TakenBefore
  BY DEF IInv, Tame, Ordered, Ending
<1>4. /\ OutputsOrdered'
      /\ f0 \in InFlight /\ Head(devOut).pts = PtsOf[f0]
      /\ InFlight' = InFlight \ {f0}
      /\ \A f \in InFlight' : f0 < f
      /\ \A k \in DOMAIN devOut' : /\ k \in Nat /\ k + 1 \in DOMAIN devOut
                                   /\ devOut'[k] = devOut[k + 1]
      /\ 1 \in DOMAIN devOut /\ Head(devOut) = devOut[1] /\ Head(devOut) \in CaptureBuffer
      /\ Len(devOut') = Len(devOut) - 1 /\ Len(devOut) \in Nat
  BY <1>1, <1>3, DequeuedFrame
<1>5. Queued' = Queued \ {m} /\ m \in Queued
  BY <1>2, <1>3, QueuedErase
<1>6. m \in Frames /\ m < nextFrame /\ PtsOf[m] = PtsOf[f0]
  BY <1>2, <1>3, <1>4, Elements DEF Matches, EntriesOrdered
<1>7. payload[e.slot] = f0 /\ e \in PendingFrame /\ f0 \in Frames
  <2>1. payload[e.slot] = f0
    BY <1>4 DEF Frame
  <2>2. e \in PendingFrame
    BY <1>4, <1>6 DEF CaptureBuffer, PendingFrame
  <2>. QED
    BY <2>1, <2>2, <1>3, <1>4, Elements
<1>. HIDE DEF f0
<1>8. /\ DOMAIN pending' = DOMAIN pending \cup {Len(pending) + 1}
      /\ Len(pending') = Len(pending) + 1 /\ Len(pending) \in Nat
      /\ \A k \in DOMAIN pending : pending'[k] = pending[k] /\ k < Len(pending) + 1 /\ k \in Nat
      /\ pending'[Len(pending) + 1] = e
  <2>1. pending \in Seq(PendingFrame) /\ pending' = Append(pending, e)
    BY <1>2, <1>3 DEF TypeOK
  <2>. HIDE DEF e
  <2>. QED
    BY <2>1, <1>7, AppendPositions
<1>9. e.frame = m /\ e.eos = Head(devOut).last
  OBVIOUS
<1>. HIDE DEF e, m
<1>10. Ordered'
  <2>1. EntriesOrdered'
    BY <1>1, <1>2, <1>3, EraseOrdered
  <2>2. TakenBefore'
    BY <1>1, <1>3, <1>6, <1>8, <1>9 DEF TakenBefore
  <2>. QED
    BY <1>1, <1>3, <1>4, <2>1, <2>2 DEF Ordered, InputsOrdered
<1>11. Attributed'
  <2>1. Answered'
    BY <1>4, <1>5, <1>6, AnsweredTaken DEF Tame, Attributed
  <2>2. PendingAttributed'
    <3>1. f0 # NoFrame
      BY <1>3, <1>7, Elements
    <3>. QED
      BY <1>1, <1>6, <1>7, <1>8, <1>9, <3>1 DEF Tame, Attributed, PendingAttributed
  <2>. QED
    BY <1>1, <2>1, <2>2 DEF Tame, Attributed, DeliveredAttributed
<1>12. Ending'
  <2>1. Ended' = Ended
    BY <1>1 DEF Ended
  <2>2. /\ \A k \in DOMAIN delivered : ~delivered[k].eos
        /\ \A k \in DOMAIN pending : ~pending[k].eos
    BY <1>1, <1>3 DEF EosLast
  <2>3. Head(devOut).last => Ended /\ devOut' = <<>>
    <3>1. Head(devOut).last => Ended /\ 1 = Len(devOut)
      BY <1>3, <1>4 DEF EosLast
    <3>2. devOut' \in Seq(CaptureBuffer)
      BY <1>1, <1>3 DEF TypeOK
    <3>. QED
      BY <1>4, <3>1, <3>2
  <2>4. \A k \in DOMAIN pending' : pending'[k].eos =>
           Ended' /\ k = Len(pending') /\ devOut' = <<>>
    BY <1>8, <1>9, <2>1, <2>2, <2>3
  <2>5. \A k \in DOMAIN devOut' : devOut'[k].last => Ended' /\ k = Len(devOut')
    BY <1>3, <1>4, <2>1 DEF EosLast
  <2>6. EosLast'
    BY <1>1, <2>2, <2>4, <2>5 DEF EosLast
  <2>. QED
    BY <1>1, <1>3, <2>6 DEF Ending, Commanded
<1>13. InStep'
  <2>. SUFFICES ASSUME Clean' PROVE Matched' /\ LeaveInOrder' /\ NoneLost'
    BY DEF InStep
  <2>1. Matched /\ LeaveInOrder /\ NoneLost
    BY <1>1 DEF Tame, InStep, Clean
  <2>2. m = f0 /\ \A f \in Queued' : f0 < f
    <3>1. Matches(i, PtsOf[f0]) /\ \A f \in InFlight \ {f0} : f0 < f
      BY <1>2, <1>4
    <3>. QED
      BY <1>3, <1>4, <1>5, <2>1, <3>1, TakesOwnEntry DEF m
  <2>3. Matched'
    <3>1. InFlight' \subseteq Queued' /\ (devCmd' = "run" => Queued' \subseteq InFlight')
      BY <1>1, <1>4, <1>5, <2>1, <2>2 DEF Matched
    <3>2. \A f \in Queued' \ InFlight', h \in InFlight' : h < f
      BY <1>4, <1>5, <2>1, <2>2 DEF Matched
    <3>3. \A k \in DOMAIN pending' : pending'[k].frame # NoFrame =>
             pending'[k].frame = payload'[pending'[k].slot]
      BY <1>1, <1>7, <1>8, <1>9, <2>1, <2>2 DEF Matched
    <3>. QED
      BY <1>1, <2>1, <3>1, <3>2, <3>3 DEF Matched
  <2>4. LeaveInOrder'
    <3>1. /\ \A k \in DOMAIN pending : pending[k].frame < f0
          /\ \A k \in DOMAIN delivered : delivered[k].index < f0
      BY <1>5, <2>1, <2>2 DEF LeaveInOrder
    <3>2. \A k, j \in DOMAIN pending' : j < k /\ pending'[k].frame # NoFrame =>
             pending'[j].frame < pending'[k].frame
      BY <1>8, <1>9, <2>1, <2>2, <3>1 DEF LeaveInOrder
    <3>3. \A k \in DOMAIN pending', j \in DOMAIN delivered : pending'[k].frame # NoFrame =>
             delivered[j].index < pending'[k].frame
      BY <1>8, <1>9, <2>1, <2>2, <3>1 DEF LeaveInOrder
    <3>4. \A f \in Queued', k \in DOMAIN pending' : pending'[k].frame < f
      BY <1>5, <1>8, <1>9, <2>1, <2>2 DEF LeaveInOrder
    <3>5. \A f \in Queued', j \in DOMAIN delivered : delivered[j].index < f
      BY <1>5, <2>1 DEF LeaveInOrder
    <3>. QED
      BY <1>1, <2>1, <3>2, <3>3, <3>4, <3>5 DEF LeaveInOrder
  <2>5. NoneLost'
    <3>. DEFINE P == {pending[k].frame : k \in DOMAIN pending}
                Q == {pending'[k].frame : k \in DOMAIN pending'}
                D == {delivered[j].index : j \in DOMAIN delivered}
    <3>1. P \cup {f0} \subseteq Q
      BY <1>8, <1>9, <2>2
    <3>2. accepted \subseteq D \cup P \cup InFlight
      BY <2>1 DEF NoneLost
    <3>3. NoneLost' <=> accepted \subseteq D \cup Q \cup InFlight'
      BY <1>1 DEF NoneLost
    <3>. HIDE DEF P, Q, D
    <3>. QED
      BY <1>4, <3>1, <3>2, <3>3
  <2>. QED
    BY <2>3, <2>4, <2>5
<1>. QED
  BY <1>10, <1>11, <1>12, <1>13 DEF Tame

\* CopyEncoderFrame hands out the oldest pending payload.
LEMMA CopyStep ==
    ASSUME IInv, Tame, CopyEncoderFrame
    PROVE  Tame'
<1>. DEFINE e == Head(pending)
            content == IF e.frame = NoFrame THEN NoFrame ELSE payload[e.slot]
            d == [index |-> e.frame, eos |-> e.eos, content |-> content]
<1>1. /\ pending # <<>> /\ pending' = Tail(pending)
      /\ delivered' = Append(delivered, d)
      /\ UNCHANGED <<configured, draining, metadata, devIn, devOut, devCmd, payload,
                     nextFrame, accepted, failed, skips>>
  BY DEF IInv, PointInCall, CopyEncoderFrame
<1>2. /\ TypeOK /\ EosLast /\ Commanded /\ OutputsOrdered /\ TakenBefore
      /\ PendingAttributed /\ DeliveredAttributed
  BY DEF IInv, Tame, Ordered, Attributed, Ending
<1>3. /\ pending \in Seq(PendingFrame) /\ delivered \in Seq(Delivery)
      /\ payload \in [CaptureSlots -> Frames \cup {NoFrame}]
  BY <1>2 DEF TypeOK
<1>4. /\ e = pending[1] /\ 1 \in DOMAIN pending /\ e \in PendingFrame
      /\ Len(pending) \in Nat /\ Len(pending') = Len(pending) - 1 /\ DOMAIN pending \subseteq Nat
      /\ \A k \in DOMAIN pending' : k \in Nat /\ 1 < k + 1 /\ k + 1 \in DOMAIN pending
                                    /\ pending'[k] = pending[k + 1]
      /\ \A k \in DOMAIN pending : k # 1 => k - 1 \in DOMAIN pending'
                                           /\ pending'[k - 1] = pending[k] /\ 1 < k
  BY <1>1, <1>3, TailPositions
<1>5. content \in Frames \cup {NoFrame} /\ d \in Delivery
  <2>1. e.slot \in CaptureSlots /\ e.frame \in Frames \cup {NoFrame} /\ e.eos \in BOOLEAN
    BY <1>4 DEF PendingFrame
  <2>2. content \in Frames \cup {NoFrame}
    BY <1>3, <2>1
  <2>. QED
    BY <2>1, <2>2 DEF Delivery
<1>6. d.index = e.frame /\ d.eos = e.eos /\ d.content = content
  OBVIOUS
<1>7. content = IF e.frame = NoFrame THEN NoFrame ELSE payload[e.slot]
  OBVIOUS
<1>. HIDE DEF d, content
<1>8. /\ DOMAIN delivered' = DOMAIN delivered \cup {Len(delivered) + 1}
      /\ Len(delivered') = Len(delivered) + 1 /\ Len(delivered) \in Nat
      /\ \A k \in DOMAIN delivered : /\ delivered'[k] = delivered[k] /\ k \in Nat
                                     /\ k < Len(delivered) + 1
      /\ delivered'[Len(delivered) + 1] = d
  BY <1>1, <1>3, <1>5, AppendPositions
<1>. HIDE DEF e
<1>9. UNCHANGED <<Coded, Uncoded, CodedFrames, InFlight, Queued>> /\ \A k : Frame(k)' = Frame(k)
  BY <1>1 DEF Coded, Uncoded, CodedFrames, InFlight, Queued, Frame
<1>10. Ordered'
  <2>1. OutputsOrdered'
    BY <1>1, <1>2, <1>9 DEF OutputsOrdered
  <2>2. TakenBefore'
    <3>1. \A k \in DOMAIN pending' : pending'[k].frame < nextFrame
      BY <1>2, <1>4 DEF TakenBefore
    <3>2. e.frame < nextFrame
      BY <1>2, <1>4 DEF TakenBefore
    <3>. QED
      BY <1>1, <1>2, <1>6, <1>8, <3>1, <3>2 DEF TakenBefore
  <2>. QED
    BY <1>1, <2>1, <2>2 DEF Tame, Ordered, InputsOrdered, EntriesOrdered
<1>11. Attributed'
  <2>1. Answered'
    BY <1>9, AnsweredLess DEF Tame, Attributed
  <2>2. PendingAttributed'
    BY <1>1, <1>2, <1>4 DEF PendingAttributed
  <2>3. DeliveredAttributed'
    <3>1. d.index # NoFrame => d.content # NoFrame /\ PtsOf[d.index] = PtsOf[d.content]
      BY <1>2, <1>4, <1>6, <1>7 DEF PendingAttributed
    <3>. QED
      BY <1>2, <1>8, <3>1 DEF DeliveredAttributed
  <2>. QED
    BY <2>1, <2>2, <2>3 DEF Attributed
<1>12. Ending'
  <2>1. Ended' = Ended
    BY <1>1 DEF Ended
  <2>2. \A k \in DOMAIN delivered : ~delivered[k].eos
    BY <1>1, <1>2 DEF EosLast
  <2>3. e.eos => Ended /\ pending' = <<>> /\ devOut = <<>>
    <3>1. e.eos => Ended /\ Len(pending) = 1 /\ devOut = <<>>
      BY <1>2, <1>4 DEF EosLast
    <3>2. pending' \in Seq(PendingFrame)
      BY <1>1, <1>3
    <3>3. Len(pending') = 0 => pending' = <<>>
      BY <3>2, EmptySeq
    <3>4. Len(pending) = 1 => pending' = <<>>
      BY <1>4, <3>3
    <3>. QED
      BY <3>1, <3>4
  <2>4. \A k \in DOMAIN delivered' : delivered'[k].eos =>
           Ended' /\ k = Len(delivered') /\ pending' = <<>> /\ devOut' = <<>>
    BY <1>1, <1>6, <1>8, <2>1, <2>2, <2>3
  <2>5. \A k \in DOMAIN pending' : pending'[k].eos =>
           Ended' /\ k = Len(pending') /\ devOut' = <<>>
    BY <1>1, <1>2, <1>4, <2>1 DEF EosLast
  <2>6. EosLast'
    BY <1>1, <1>2, <2>1, <2>4, <2>5 DEF EosLast
  <2>. QED
    BY <1>1, <1>2, <2>6 DEF Ending, Commanded
<1>13. InStep'
  <2>. SUFFICES ASSUME Clean' PROVE Matched' /\ LeaveInOrder' /\ NoneLost'
    BY DEF InStep
  <2>1. Matched /\ LeaveInOrder /\ NoneLost
    BY <1>1 DEF Tame, InStep, Clean
  <2>2. Matched'
    <3>1. \A k \in DOMAIN pending' : pending'[k].frame # NoFrame =>
             pending'[k].frame = payload[pending'[k].slot]
      BY <1>4, <2>1 DEF Matched
    <3>2. d.index # NoFrame => d.index = d.content
      BY <1>4, <1>6, <1>7, <2>1 DEF Matched
    <3>3. \A k \in DOMAIN delivered' : delivered'[k].index # NoFrame =>
             delivered'[k].index = delivered'[k].content
      BY <1>8, <2>1, <3>2 DEF Matched
    <3>. QED
      BY <1>1, <1>9, <2>1, <3>1, <3>3 DEF Matched
  <2>3. LeaveInOrder'
    <3>1. e.frame # NoFrame => \A k \in DOMAIN delivered : delivered[k].index < e.frame
      BY <1>4, <2>1 DEF LeaveInOrder
    <3>2. \A k, j \in DOMAIN delivered' : j < k /\ delivered'[k].index # NoFrame =>
             delivered'[j].index < delivered'[k].index
      BY <1>6, <1>8, <2>1, <3>1 DEF LeaveInOrder
    <3>3. \A k, j \in DOMAIN pending' : j < k /\ pending'[k].frame # NoFrame =>
             pending'[j].frame < pending'[k].frame
      <4>. TAKE k, j \in DOMAIN pending'
      <4>1. j < k => j + 1 < k + 1
        BY <1>4
      <4>. QED
        BY <1>4, <2>1, <4>1 DEF LeaveInOrder
    <3>4. \A k \in DOMAIN pending' : pending'[k].frame # NoFrame => e.frame < pending'[k].frame
      BY <1>4, <2>1 DEF LeaveInOrder
    <3>5. \A k \in DOMAIN pending', j \in DOMAIN delivered' : pending'[k].frame # NoFrame =>
             delivered'[j].index < pending'[k].frame
      BY <1>4, <1>6, <1>8, <2>1, <3>4 DEF LeaveInOrder
    <3>6. \A f \in Queued : /\ \A k \in DOMAIN pending' : pending'[k].frame < f
                            /\ \A j \in DOMAIN delivered' : delivered'[j].index < f
      <4>. TAKE f \in Queued
      <4>1. \A k \in DOMAIN pending : pending[k].frame < f
        BY <2>1 DEF LeaveInOrder
      <4>2. \A k \in DOMAIN pending' : pending'[k].frame < f
        BY <1>4, <4>1
      <4>3. d.index < f
        BY <1>4, <1>6, <4>1
      <4>4. \A j \in DOMAIN delivered : delivered[j].index < f
        BY <2>1 DEF LeaveInOrder
      <4>5. \A j \in DOMAIN delivered' : delivered'[j].index < f
        BY <1>8, <4>3, <4>4
      <4>. QED
        BY <4>2, <4>5
    <3>. QED
      BY <1>9, <3>2, <3>3, <3>5, <3>6 DEF LeaveInOrder
  <2>4. NoneLost'
    <3>. DEFINE P == {pending[k].frame : k \in DOMAIN pending}
                Q == {pending'[k].frame : k \in DOMAIN pending'}
                D == {delivered[j].index : j \in DOMAIN delivered}
                E == {delivered'[j].index : j \in DOMAIN delivered'}
    <3>1. D \cup {e.frame} \subseteq E
      BY <1>6, <1>8
    <3>2. P \subseteq Q \cup {e.frame}
      BY <1>4
    <3>3. accepted \subseteq D \cup P \cup InFlight
      BY <2>1 DEF NoneLost
    <3>4. NoneLost' <=> accepted \subseteq E \cup Q \cup InFlight
      BY <1>1, <1>9 DEF NoneLost
    <3>. HIDE DEF P, Q, D, E
    <3>. QED
      BY <3>1, <3>2, <3>3, <3>4
  <2>. QED
    BY <2>2, <2>3, <2>4
<1>. QED
  BY <1>10, <1>11, <1>12, <1>13 DEF Tame

\* SubmitFrame queues the next frame, with the driver unless it has been told to
\* stop, and with the metadata.
LEMMA SubmitStep ==
    ASSUME IInv, Tame, SubmitFrame
    PROVE  Tame'
<1>. DEFINE n == nextFrame
            e == [pts |-> PtsOf[nextFrame], frame |-> nextFrame]
<1>1. /\ devIn' = IF devCmd = "run" THEN Append(devIn, n) ELSE devIn
      /\ metadata' = Append(metadata, e)
      /\ accepted' = IF draining THEN accepted ELSE accepted \cup {n}
      /\ nextFrame' = n + 1
      /\ UNCHANGED <<draining, pending, devOut, devCmd, payload, delivered, failed, skips>>
      /\ (configured' = configured) \/ (configured' /\ ~configured)
  BY DEF SubmitFrame, ConfigureEncoder
<1>2. /\ TypeOK /\ EosLast /\ Commanded /\ InputsOrdered /\ OutputsOrdered
      /\ EntriesOrdered /\ TakenBefore
  BY DEF IInv, Tame, Ordered, Ending
<1>3. ~configured => ~draining
  BY DEF IInv, PointInCall, SubmitFrame
<1>4. n \in Frames /\ n \in Nat
  <2>1. nextFrame <= MaxFrames /\ nextFrame \in 1 .. (MaxFrames + 1)
    BY DEF IInv, PointInCall, TypeOK, SubmitFrame
  <2>. QED
    BY <2>1, EncoderConstants DEF Frames
<1>5. e \in Metadata /\ e.frame = n /\ e.pts = PtsOf[n]
  BY <1>4, EncoderConstants DEF Metadata
<1>. HIDE DEF e
<1>6. /\ DOMAIN metadata' = DOMAIN metadata \cup {Len(metadata) + 1}
      /\ Len(metadata) \in Nat
      /\ \A k \in DOMAIN metadata : /\ metadata'[k] = metadata[k] /\ k \in Nat
                                    /\ k < Len(metadata) + 1
      /\ metadata'[Len(metadata) + 1] = e
  <2>1. metadata \in Seq(Metadata)
    BY <1>2 DEF TypeOK
  <2>. QED
    BY <1>1, <1>5, <2>1, AppendPositions
<1>7. /\ \A k \in DOMAIN devIn' : \/ k \in DOMAIN devIn /\ devIn'[k] = devIn[k]
                                  \/ /\ k = Len(devIn) + 1 /\ devIn'[k] = n
                                     /\ \A j \in DOMAIN devIn : j < k
      /\ \A k \in DOMAIN devIn : k \in DOMAIN devIn' /\ devIn'[k] = devIn[k] /\ k \in Nat
                                 /\ k < Len(devIn) + 1
      /\ devCmd = "run" => Len(devIn) + 1 \in DOMAIN devIn' /\ devIn'[Len(devIn) + 1] = n
      /\ devCmd # "run" => devIn' = devIn
      /\ Len(devIn) \in Nat
  <2>1. devIn \in Seq(Frames)
    BY <1>2 DEF TypeOK
  <2>2. CASE devCmd = "run"
    <3>1. devIn' = Append(devIn, n)
      BY <1>1, <2>2
    <3>. QED
      BY <1>4, <2>1, <2>2, <3>1, AppendPositions
  <2>3. CASE devCmd # "run"
    BY <1>1, <2>1, <2>3
  <2>. QED
    BY <2>2, <2>3
<1>. HIDE DEF n
<1>8. n = nextFrame
  BY DEF n
<1>9. Queued' = Queued \cup {n}
  <2>1. Queued' = {metadata'[k].frame : k \in DOMAIN metadata \cup {Len(metadata) + 1}}
    BY <1>6 DEF Queued
  <2>2. {metadata'[k].frame : k \in DOMAIN metadata} = Queued
    BY <1>6 DEF Queued
  <2>3. metadata'[Len(metadata) + 1].frame = n
    BY <1>5, <1>6
  <2>. QED
    BY <2>1, <2>2, <2>3
<1>10. Uncoded' = IF devCmd = "run" THEN Uncoded \cup {n} ELSE Uncoded
  <2>1. CASE devCmd # "run"
    BY <1>7, <2>1 DEF Uncoded
  <2>2. CASE devCmd = "run"
    <3>1. Uncoded \subseteq Uncoded' /\ n \in Uncoded'
      BY <1>7, <2>2 DEF Uncoded
    <3>2. Uncoded' \subseteq Uncoded \cup {n}
      BY <1>7 DEF Uncoded
    <3>. QED
      BY <2>2, <3>1, <3>2
  <2>. QED
    BY <2>1, <2>2
<1>11. Coded' = Coded /\ CodedFrames' = CodedFrames /\ \A k : Frame(k)' = Frame(k)
  BY <1>1 DEF Coded, CodedFrames, Frame
<1>12. InFlight' = IF devCmd = "run" THEN InFlight \cup {n} ELSE InFlight
  BY <1>10, <1>11 DEF InFlight
<1>13. /\ \A f \in InFlight : f < n /\ f \in Nat
       /\ \A f \in Queued : f < n /\ f \in Nat
       /\ \A k \in DOMAIN pending : pending[k].frame < n /\ pending[k].frame \in Nat
       /\ \A k \in DOMAIN delivered : delivered[k].index < n /\ delivered[k].index \in Nat
  <2>1. \A f \in InFlight : f < n
    BY <1>2, <1>8 DEF InFlight, Uncoded, CodedFrames, InputsOrdered, OutputsOrdered
  <2>2. \A f \in Queued : f < n
    BY <1>2, <1>8 DEF Queued, EntriesOrdered
  <2>3. /\ \A k \in DOMAIN pending : pending[k].frame < n
        /\ \A k \in DOMAIN delivered : delivered[k].index < n
    BY <1>2, <1>8 DEF TakenBefore
  <2>. QED
    BY <1>2, <2>1, <2>2, <2>3, Elements
<1>14. Ordered'
  <2>1. InputsOrdered'
    <3>1. \A k \in DOMAIN devIn : devIn[k] < n /\ devIn[k] \in Nat
      BY <1>2, <1>8, Elements DEF InputsOrdered
    <3>2. \A k \in DOMAIN devIn' : devIn'[k] < n + 1
      BY <1>4, <1>7, <3>1
    <3>3. \A i, j \in DOMAIN devIn' : i < j => devIn'[i] < devIn'[j]
      BY <1>2, <1>7, <3>1 DEF InputsOrdered
    <3>. QED
      BY <1>1, <3>2, <3>3 DEF InputsOrdered
  <2>2. OutputsOrdered'
    <3>1. \A i \in Coded : Frame(i) \in Frames /\ Frame(i) < n /\ Frame(i) \in Nat
      BY <1>2, <1>8, Elements DEF OutputsOrdered
    <3>2. \A i \in Coded : \A k \in DOMAIN devIn' : Frame(i) < devIn'[k]
      BY <1>2, <1>7, <3>1 DEF OutputsOrdered
    <3>3. \A i \in Coded : Frame(i) < n + 1
      BY <1>4, <3>1
    <3>. QED
      BY <1>1, <1>2, <1>11, <3>2, <3>3 DEF OutputsOrdered
  <2>3. EntriesOrdered'
    <3>1. \A k \in DOMAIN metadata : metadata[k].frame < n /\ metadata[k].frame \in Nat
      BY <1>13 DEF Queued
    <3>2. \A i, j \in DOMAIN metadata' : i < j => metadata'[i].frame < metadata'[j].frame
      BY <1>2, <1>5, <1>6, <3>1 DEF EntriesOrdered
    <3>3. \A k \in DOMAIN metadata' : metadata'[k].frame < n + 1
      BY <1>4, <1>5, <1>6, <3>1
    <3>4. \A k \in DOMAIN metadata' : metadata'[k].pts = PtsOf[metadata'[k].frame]
      BY <1>2, <1>5, <1>6 DEF EntriesOrdered
    <3>. QED
      BY <1>1, <3>2, <3>3, <3>4 DEF EntriesOrdered
  <2>4. TakenBefore'
    BY <1>1, <1>4, <1>13 DEF TakenBefore
  <2>. QED
    BY <2>1, <2>2, <2>3, <2>4 DEF Ordered
<1>15. Attributed'
  <2>1. CASE devCmd # "run"
    <3>1. Answered'
      BY <1>9, <1>12, <2>1, AnsweredLess DEF Tame, Attributed
    <3>. QED
      BY <1>1, <3>1 DEF Tame, Attributed, PendingAttributed, DeliveredAttributed
  <2>2. CASE devCmd = "run"
    <3>1. PICK g \in [InFlight -> Queued] : EntryFor(g)
      BY DEF Tame, Attributed, Answered
    <3>. DEFINE h == [f \in InFlight' |-> IF f = n THEN n ELSE g[f]]
    <3>2. InFlight' = InFlight \cup {n} /\ n \notin InFlight /\ n \notin Queued
      BY <1>4, <1>12, <1>13, <2>2
    <3>3. h \in [InFlight' -> Queued']
      BY <1>9, <3>1, <3>2
    <3>4. \A f \in InFlight' : h[f] = IF f = n THEN n ELSE g[f]
      OBVIOUS
    <3>. HIDE DEF h
    <3>5. \A f, k \in InFlight' : h[f] = h[k] => f = k
      BY <3>1, <3>2, <3>4 DEF EntryFor
    <3>6. \A f \in InFlight' : PtsOf[h[f]] = PtsOf[f]
      BY <3>1, <3>2, <3>4 DEF EntryFor
    <3>7. \E k \in [InFlight' -> Queued'] :
             /\ \A f, j \in InFlight' : k[f] = k[j] => f = j
             /\ \A f \in InFlight' : PtsOf[k[f]] = PtsOf[f]
      BY <3>3, <3>5, <3>6
    <3>8. Answered'
      BY <3>7 DEF Answered, EntryFor
    <3>. QED
      BY <1>1, <3>8 DEF Tame, Attributed, PendingAttributed, DeliveredAttributed
  <2>. QED
    BY <2>1, <2>2
<1>16. Ending'
  <2>1. Ended => Ended'
    BY <1>1, <1>3 DEF Ended
  <2>2. EosLast'
    BY <1>1, <1>2, <2>1 DEF EosLast
  <2>3. Commanded'
    <3>1. devCmd = "stopped" => devIn' = <<>>
      BY <1>2, <1>7 DEF Commanded
    <3>2. draining' /\ configured' <=> draining /\ configured
      BY <1>1, <1>3
    <3>. QED
      BY <1>1, <1>2, <3>1, <3>2 DEF Commanded
  <2>. QED
    BY <2>2, <2>3 DEF Ending
<1>17. InStep'
  <2>. SUFFICES ASSUME Clean' PROVE Matched' /\ LeaveInOrder' /\ NoneLost'
    BY DEF InStep
  <2>1. Matched /\ LeaveInOrder /\ NoneLost
    BY <1>1 DEF Tame, InStep, Clean
  <2>2. Matched'
    <3>1. InFlight' \subseteq Queued' /\ (devCmd' = "run" => Queued' \subseteq InFlight')
      BY <1>1, <1>9, <1>12, <2>1 DEF Matched
    <3>2. \A f \in Queued' \ InFlight', h \in InFlight' : h < f
      <4>1. CASE devCmd = "run"
        BY <1>1, <3>1, <4>1
      <4>2. CASE devCmd # "run"
        BY <1>9, <1>12, <1>13, <2>1, <4>2 DEF Matched
      <4>. QED
        BY <4>1, <4>2
    <3>. QED
      BY <1>1, <2>1, <3>1, <3>2 DEF Matched
  <2>3. LeaveInOrder'
    <3>1. \A f \in Queued' : /\ \A k \in DOMAIN pending : pending[k].frame < f
                             /\ \A j \in DOMAIN delivered : delivered[j].index < f
      BY <1>9, <1>13, <2>1 DEF LeaveInOrder
    <3>. QED
      BY <1>1, <2>1, <3>1 DEF LeaveInOrder
  <2>4. NoneLost'
    <3>1. ~draining => devCmd = "run"
      BY <1>2 DEF Commanded
    <3>2. accepted' \subseteq accepted \cup InFlight' /\ InFlight \subseteq InFlight'
      BY <1>1, <1>12, <3>1
    <3>. QED
      BY <1>1, <2>1, <3>2 DEF NoneLost
  <2>. QED
    BY <2>2, <2>3, <2>4
<1>. QED
  BY <1>14, <1>15, <1>16, <1>17 DEF Tame

\* The driver's steps fill a free capture slot and take at most the oldest frame.
LEMMA FilledStep ==
    ASSUME IInv, Tame, configured, devCmd # "stopped",
           NEW c \in devCap, NEW b \in CaptureBuffer, b.slot = c,
           NEW f \in Frames \cup {NoFrame},
           devOut' = Append(devOut, b), payload' = [payload EXCEPT ![c] = f],
           UNCHANGED <<configured, draining, metadata, pending, nextFrame, delivered,
                       accepted, failed>>,
           InputsOrdered', Commanded', InFlight' \subseteq InFlight,
           ~b.empty => f \in Frames /\ f < nextFrame /\ b.pts = PtsOf[f],
           \A i \in Coded, k \in DOMAIN devIn' : Frame(i) < devIn'[k],
           ~b.empty => \A i \in Coded : Frame(i) < f,
           ~b.empty => \A k \in DOMAIN devIn' : f < devIn'[k],
           b.last => devCmd' = "stopped",
           devCmd' = "run" => devCmd = "run",
           skips' = skips \/ skips' # 0,
           skips' = 0 => InFlight' = InFlight
    PROVE  Tame'
<1>1. /\ DOMAIN devOut' = DOMAIN devOut \cup {Len(devOut) + 1}
      /\ Len(devOut') = Len(devOut) + 1 /\ Len(devOut) \in Nat
      /\ \A i \in DOMAIN devOut : /\ i \in Nat /\ i < Len(devOut) + 1
                                  /\ devOut'[i] = devOut[i] /\ Frame(i)' = Frame(i)
      /\ \A i \in DOMAIN devOut' : i \notin DOMAIN devOut =>
           i = Len(devOut) + 1 /\ devOut'[i] = b /\ Frame(i)' = f
      /\ Coded' = IF b.empty THEN Coded ELSE Coded \cup {Len(devOut) + 1}
      /\ \A i \in DOMAIN pending : payload'[pending[i].slot] = payload[pending[i].slot]
  BY OutAppend
<1>2. ~Ended
  BY DEF Ended
<1>3. /\ \A i \in DOMAIN delivered : ~delivered[i].eos
      /\ \A i \in DOMAIN pending : ~pending[i].eos
      /\ \A i \in DOMAIN devOut : ~devOut[i].last
  BY <1>2 DEF Tame, Ending, EosLast
<1>4. Queued' = Queued
  BY DEF Queued
<1>5. Ordered'
  <2>1. OutputsOrdered
    BY DEF Tame, Ordered
  <2>2. \A i \in Coded' : \/ i \in Coded /\ Frame(i)' = Frame(i) /\ devOut'[i] = devOut[i]
                             /\ i \in Nat /\ i < Len(devOut) + 1
                          \/ ~b.empty /\ i = Len(devOut) + 1 /\ Frame(i)' = f /\ devOut'[i] = b
    <3>. TAKE i \in Coded'
    <3>1. CASE i \in Coded
      <4>1. i \in DOMAIN devOut
        BY <3>1 DEF Coded
      <4>. QED
        BY <1>1, <3>1, <4>1
    <3>2. CASE i \notin Coded
      <4>1. ~b.empty /\ i = Len(devOut) + 1 /\ i \in DOMAIN devOut' /\ i \notin DOMAIN devOut
        BY <1>1, <3>2
      <4>. QED
        BY <1>1, <4>1
    <3>. QED
      BY <3>1, <3>2
  <2>3. \A i, j \in Coded' : i < j => Frame(i)' < Frame(j)'
    BY <1>1, <2>1, <2>2 DEF OutputsOrdered
  <2>4. \A i \in Coded' : /\ \A k \in DOMAIN devIn' : Frame(i)' < devIn'[k]
                          /\ Frame(i)' \in Frames /\ Frame(i)' < nextFrame'
                          /\ devOut'[i].pts = PtsOf[Frame(i)']
    <3>. TAKE i \in Coded'
    <3>1. CASE i \in Coded
      <4>1. Frame(i)' = Frame(i) /\ devOut'[i] = devOut[i]
        BY <1>1, <3>1 DEF Coded
      <4>. QED
        BY <2>1, <3>1, <4>1 DEF OutputsOrdered
    <3>2. CASE i \notin Coded
      BY <2>2, <3>2
    <3>. QED
      BY <3>1, <3>2
  <2>5. OutputsOrdered'
    BY <2>3, <2>4 DEF OutputsOrdered
  <2>. QED
    BY <2>5 DEF Tame, Ordered, EntriesOrdered, TakenBefore
<1>6. Attributed'
  <2>1. Answered'
    BY <1>4, AnsweredLess DEF Tame, Attributed
  <2>2. PendingAttributed'
    BY <1>1 DEF Tame, Attributed, PendingAttributed
  <2>. QED
    BY <2>1, <2>2 DEF Tame, Attributed, DeliveredAttributed
<1>7. Ending'
  <2>1. \A i \in DOMAIN devOut' : devOut'[i].last => Ended' /\ i = Len(devOut')
    BY <1>1, <1>3 DEF Ended
  <2>. QED
    BY <1>3, <2>1 DEF Ending, EosLast
<1>8. InStep'
  <2>. SUFFICES ASSUME Clean' PROVE Matched' /\ LeaveInOrder' /\ NoneLost'
    BY DEF InStep
  <2>1. Matched /\ LeaveInOrder /\ NoneLost /\ InFlight' = InFlight
    BY DEF Tame, InStep, Clean
  <2>2. Matched'
    BY <1>1, <1>4, <2>1 DEF Matched
  <2>. QED
    BY <1>4, <2>1, <2>2 DEF LeaveInOrder, NoneLost
<1>. QED
  BY <1>5, <1>6, <1>7, <1>8 DEF Tame

\* The driver codes the oldest frame, skips it, or ends the drain.
LEMMA DriverStep ==
    ASSUME IInv, Tame, DriverEncodes \/ DriverSkipsFrame \/ DriverEndsDrain
    PROVE  Tame'
<1>1. UNCHANGED <<configured, draining, metadata, pending, nextFrame, delivered, accepted,
                  failed>>
  BY DEF DriverEncodes, DriverSkipsFrame, DriverEndsDrain, session, history
<1>2. /\ TypeOK /\ Commanded /\ InputsOrdered /\ OutputsOrdered /\ UnconfiguredIsEmpty
  BY DEF IInv, Tame, Ordered, Ending
<1>3. CASE DriverEndsDrain
  <2>1. /\ devCmd = "stopping" /\ devIn = <<>> /\ devIn' = devIn /\ devCmd' = "stopped"
        /\ skips' = skips
    BY <1>3 DEF DriverEndsDrain, history
  <2>2. PICK c \in devCap :
           /\ devOut' = Append(devOut, Filled(c, NoFrame, TRUE, TRUE))
           /\ payload' = [payload EXCEPT ![c] = NoFrame]
    BY <1>3 DEF DriverEndsDrain
  <2>. DEFINE b == Filled(c, NoFrame, TRUE, TRUE)
  <2>3. b \in CaptureBuffer /\ b.slot = c /\ b.empty = TRUE /\ b.last = TRUE
    BY <1>2, <2>2 DEF TypeOK, Filled, CaptureBuffer
  <2>4. devOut' = Append(devOut, b)
    BY <2>2
  <2>. HIDE DEF b
  <2>5. configured
    BY <1>2, <2>1 DEF UnconfiguredIsEmpty
  <2>6. CodedFrames' = CodedFrames
    BY <2>2, <2>3, <2>4, <2>5, OutAppend
  <2>7. Uncoded' = Uncoded
    BY <2>1 DEF Uncoded
  <2>8. InFlight' = InFlight
    BY <2>6, <2>7 DEF InFlight
  <2>9. InputsOrdered' /\ Commanded'
    BY <1>1, <1>2, <2>1 DEF InputsOrdered, Commanded
  <2>10. \A i \in Coded, k \in DOMAIN devIn' : Frame(i) < devIn'[k]
    BY <1>2, <2>1 DEF OutputsOrdered
  <2>. QED
    BY <1>1, <2>1, <2>2, <2>3, <2>4, <2>5, <2>8, <2>9, <2>10, FilledStep
<1>4. CASE DriverEncodes \/ DriverSkipsFrame
  <2>1. devIn # <<>> /\ devIn' = Tail(devIn)
    BY <1>4 DEF DriverEncodes, DriverSkipsFrame
  <2>2. configured /\ devCmd # "stopped"
    BY <1>2, <2>1 DEF UnconfiguredIsEmpty, Commanded
  <2>3. /\ Head(devIn) = devIn[1] /\ 1 \in DOMAIN devIn /\ Head(devIn) \in Frames
        /\ Head(devIn) < nextFrame
        /\ \A k \in DOMAIN devIn' : /\ k \in Nat /\ k + 1 \in DOMAIN devIn
                                    /\ devIn'[k] = devIn[k + 1] /\ Head(devIn) < devIn'[k]
        /\ Uncoded = Uncoded' \cup {Head(devIn)}
        /\ Len(devIn') = Len(devIn) - 1 /\ Len(devIn) \in Nat
    BY <1>2, <2>1, InTail
  <2>4. InputsOrdered'
    <3>1. \A i, j \in DOMAIN devIn' : i < j => i + 1 < j + 1
      BY <2>3
    <3>. QED
      BY <1>1, <1>2, <2>3, <3>1 DEF InputsOrdered
  <2>5. \A i \in Coded : /\ Frame(i) < Head(devIn)
                         /\ \A k \in DOMAIN devIn' : Frame(i) < devIn'[k]
    BY <1>2, <2>3 DEF OutputsOrdered
  <2>6. CASE DriverSkipsFrame
    <3>1. devCmd' = devCmd /\ skips' = skips + 1 /\ skips \in Nat
      BY <1>2, <2>6 DEF DriverSkipsFrame, TypeOK
    <3>2. PICK c \in devCap :
             /\ devOut' = Append(devOut, Filled(c, Head(devIn), TRUE, FALSE))
             /\ payload' = [payload EXCEPT ![c] = NoFrame]
      BY <2>6 DEF DriverSkipsFrame
    <3>. DEFINE b == Filled(c, Head(devIn), TRUE, FALSE)
    <3>3. b \in CaptureBuffer /\ b.slot = c /\ b.empty = TRUE /\ b.last = FALSE
      BY <1>2, <2>3, <3>2, EncoderConstants DEF TypeOK, Filled, CaptureBuffer, Frames, NoFrame
    <3>4. devOut' = Append(devOut, b)
      BY <3>2
    <3>. HIDE DEF b
    <3>5. CodedFrames' = CodedFrames
      BY <2>2, <3>2, <3>3, <3>4, OutAppend
    <3>6. InFlight' \subseteq InFlight /\ skips' # 0
      BY <2>3, <3>1, <3>5 DEF InFlight
    <3>7. Commanded'
      BY <1>1, <1>2, <2>2, <3>1 DEF Commanded
    <3>. QED
      BY <1>1, <2>2, <2>4, <2>5, <3>1, <3>2, <3>3, <3>4, <3>6, <3>7, FilledStep
  <2>7. CASE DriverEncodes
    <3>1. skips' = skips
      BY <2>7 DEF DriverEncodes, history
    <3>2. PICK c \in devCap, isLast \in BOOLEAN :
             /\ isLast => devCmd = "stopping" /\ Len(devIn) = 1
             /\ devOut' = Append(devOut, Filled(c, Head(devIn), FALSE, isLast))
             /\ payload' = [payload EXCEPT ![c] = Head(devIn)]
             /\ devCmd' = IF isLast THEN "stopped" ELSE devCmd
      BY <2>7 DEF DriverEncodes
    <3>. DEFINE b == Filled(c, Head(devIn), FALSE, isLast)
    <3>3. /\ b \in CaptureBuffer /\ b.slot = c /\ b.empty = FALSE /\ b.last = isLast
          /\ b.pts = PtsOf[Head(devIn)]
      BY <1>2, <2>3, <3>2, EncoderConstants DEF TypeOK, Filled, CaptureBuffer, Frames, NoFrame
    <3>4. devOut' = Append(devOut, b)
      BY <3>2
    <3>. HIDE DEF b
    <3>5. CodedFrames' = CodedFrames \cup {Head(devIn)}
      <4>1. IInv /\ configured /\ c \in devCap /\ b \in CaptureBuffer /\ b.slot = c /\ ~b.empty
        BY <1>2, <2>2, <3>2, <3>3 DEF IInv
      <4>2. Head(devIn) \in Frames \cup {NoFrame}
        BY <2>3
      <4>3. payload' = [payload EXCEPT ![c] = Head(devIn)]
        BY <3>2
      <4>. QED
        BY <4>1, <4>2, <4>3, <3>4, OutAppend
    <3>6. InFlight' = InFlight
      BY <2>3, <3>5 DEF InFlight
    <3>7. Commanded'
      <4>1. isLast => devIn' = <<>>
        <5>1. devIn' \in Seq(Frames)
          BY <1>2, <2>1 DEF TypeOK
        <5>2. Len(devIn) = 1 => devIn' = <<>>
          BY <2>3, <5>1
        <5>. QED
          BY <3>2, <5>2
      <4>. QED
        BY <1>1, <1>2, <2>2, <3>2, <4>1 DEF Commanded
    <3>8. (b.last => devCmd' = "stopped") /\ (devCmd' = "run" => devCmd = "run")
      BY <3>2, <3>3
    <3>. QED
      BY <1>1, <2>2, <2>3, <2>4, <2>5, <3>1, <3>2, <3>3, <3>4, <3>6, <3>7, <3>8, FilledStep
  <2>. QED
    BY <1>4, <2>6, <2>7
<1>. QED
  BY <1>3, <1>4

\* Every step keeps what the session hands out in order.
LEMMA TameNext ==
    ASSUME IInv, Tame, [Next]_vars
    PROVE  Tame'
<1>1. CASE Open \/ Close
  <2>1. Cleared'
    BY <1>1 DEF Open, Close, CloseSession, Cleared
  <2>. QED
    BY <2>1, ClearedIsTame
<1>2. CASE SubmitFails
  <2>1. /\ UNCHANGED <<metadata, pending, devIn, devOut, devCmd, payload, delivered,
                       accepted, skips, nextFrame, draining>>
        /\ failed' = TRUE
        /\ ~configured => ~draining
    BY <1>2 DEF SubmitFails, ConfigureEncoder, IInv, PointInCall
  <2>2. UNCHANGED <<configured, draining>>
          \/ (~configured /\ ~draining /\ UNCHANGED draining)
    BY <1>2, <2>1 DEF SubmitFails, ConfigureEncoder
  <2>3. Quiet
    BY <2>1, <2>2 DEF Quiet
  <2>. QED
    BY <2>3, QuietStep
<1>3. CASE CallQueueEncoderFrame \/ RejectEncoderFrame \/
           (\E wait \in BOOLEAN : CallDequeueEncoderFrame(wait)) \/ DequeueUnconfigured \/
           StartEncoderDrainFails \/ DequeueEncoderInputs \/ CaptureDrained \/
           IoctlFails \/ QueueBlocks \/ QueueWaits \/ QueueProceeds \/ DequeueHasFrame \/
           DequeueWaits \/ DequeueFindsNothing \/ CopyFails \/ WaitForDeviceReady \/
           WaitForDeviceTimeout \/ DriverReleasesInput \/ UNCHANGED vars
  <2>1. /\ UNCHANGED <<metadata, pending, devIn, devOut, devCmd, payload, delivered,
                       accepted, skips, nextFrame, configured, draining>>
        /\ failed' = failed \/ failed' = TRUE
    BY <1>3 DEF CallQueueEncoderFrame, RejectEncoderFrame, CallDequeueEncoderFrame,
       DequeueUnconfigured, StartEncoderDrainFails, DequeueEncoderInputs, CaptureDrained,
       IoctlFails, QueueBlocks, QueueWaits, QueueProceeds, DequeueHasFrame, DequeueWaits,
       DequeueFindsNothing, CopyFails, WaitForDeviceReady, WaitForDeviceTimeout,
       DriverReleasesInput, EnterQueueEncoderFrame, Fails, Fault, GoTo, Return, vars,
       session, device, call, history
  <2>2. Quiet
    BY <2>1 DEF Quiet
  <2>. QED
    BY <2>2, QuietStep
<1>4. CASE RequeueEmpty \/ PumpLosesSlot
  BY <1>4, DiscardStep
<1>5. CASE DriverEncodes \/ DriverSkipsFrame \/ DriverEndsDrain
  BY <1>5, DriverStep
<1>. QED
  BY <1>1, <1>2, <1>3, <1>4, <1>5, StartDrainStep, TakePayloadStep, TakeEmptyLastStep,
     CopyStep, SubmitStep
  DEF Next, Calls, SessionSteps, Pump, QueueSteps, DequeueSteps, WaitSteps, Driver

\* Only QueueWaits enters the wait of a queue call, and nothing that the call looked
\* at changes while it waits.
LEMMA WaitsNext ==
    ASSUME WaitsOnFull, [Next]_vars
    PROVE  WaitsOnFull'
<1>1. CASE QueueWaits
  <2>1. pending' = <<>> /\ InputsFull'
    BY <1>1 DEF QueueWaits, InputsFull, MetadataFull, session
  <2>. QED
    BY <2>1 DEF WaitsOnFull
<1>2. CASE Driver \/ UNCHANGED vars
  <2>1. UNCHANGED <<pc, op, pending, inputs, metadata>>
    BY <1>2 DEF Driver, DriverReleasesInput, DriverEncodes, DriverSkipsFrame,
       DriverEndsDrain, vars, session, call
  <2>. QED
    BY <2>1 DEF WaitsOnFull, InputsFull, MetadataFull
<1>3. CASE Calls
  <2>1. pc' # "wait"
    BY <1>3 DEF Calls, Open, Close, CallQueueEncoderFrame, EnterQueueEncoderFrame,
       RejectEncoderFrame, CallDequeueEncoderFrame, DequeueUnconfigured,
       StartEncoderDrain, StartEncoderDrainFails, call
  <2>. QED
    BY <2>1 DEF WaitsOnFull
<1>4. CASE DequeueWaits
  <2>1. op' = "dequeueWait"
    BY <1>4 DEF DequeueWaits, GoTo
  <2>. QED
    BY <2>1 DEF WaitsOnFull
<1>5. CASE Pump \/ QueueBlocks \/ QueueProceeds \/ SubmitFrame \/ SubmitFails \/
           DequeueHasFrame \/ DequeueFindsNothing \/ CopyEncoderFrame \/ CopyFails \/
           WaitSteps
  <2>1. pc' # "wait"
    BY <1>5 DEF Pump, DequeueEncoderInputs, TakePayload, TakeEmptyLast, RequeueEmpty,
       PumpLosesSlot, CaptureDrained, IoctlFails, QueueBlocks, QueueProceeds, SubmitFrame,
       SubmitFails, DequeueHasFrame, DequeueFindsNothing, CopyEncoderFrame, CopyFails,
       WaitSteps, WaitForDeviceReady, WaitForDeviceTimeout, GoTo, Return, call
  <2>. QED
    BY <2>1 DEF WaitsOnFull
<1>. QED
  BY <1>1, <1>2, <1>3, <1>4, <1>5 DEF Next, SessionSteps, QueueSteps, DequeueSteps

\* The inductive invariant holds before the first call.
LEMMA FramesInit == Init => FrameInv
<1>. SUFFICES ASSUME Init PROVE FrameInv
  OBVIOUS
<1>1. Cleared /\ WaitsOnFull
  BY DEF Init, Cleared, WaitsOnFull
<1>. QED
  BY <1>1, InvInit, ClearedIsTame DEF FrameInv, Tame

\* Every step keeps it.
LEMMA FramesNext ==
    ASSUME FrameInv, [Next]_vars
    PROVE  FrameInv'
<1>1. IInv /\ Tame /\ WaitsOnFull
  BY DEF FrameInv, Tame
<1>2. IInv' /\ Tame' /\ WaitsOnFull'
  BY <1>1, InvNext, TameNext, WaitsNext
<1>. QED
  BY <1>2 DEF FrameInv, Tame

\* The inductive invariant holds in every reachable state.
THEOREM FramesInvariant == Spec => []FrameInv
<1>1. FrameInv /\ [Next]_vars => FrameInv'
  BY FramesNext
<1>. QED
  BY <1>1, FramesInit, PTL DEF Spec

\* What is handed out as a frame was coded from a frame with that timestamp, and
\* without skips and failures from that very frame, in the order of submission:
\* no capture slot is refilled before CopyEncoderFrame has copied it, although the
\* session finds the frame only by its timestamp and timestamps repeat.
THEOREM OutputsAttributed == Spec => []OutputAttribution
<1>1. FrameInv => OutputAttribution
  <2>. SUFFICES ASSUME FrameInv PROVE OutputAttribution
    OBVIOUS
  <2>1. DeliveredAttributed /\ (skips = 0 /\ ~failed => Matched /\ LeaveInOrder)
    BY DEF FrameInv, Attributed, InStep, Clean
  <2>2. ASSUME NEW i \in DOMAIN delivered, delivered[i].index # NoFrame, skips = 0, ~failed
        PROVE  /\ delivered[i].index = delivered[i].content
               /\ \A j \in 1 .. (i - 1) : delivered[j].index < delivered[i].index
    <3>1. \A j \in 1 .. (i - 1) : j \in DOMAIN delivered /\ j < i
      <4>1. delivered \in Seq(Delivery)
        BY DEF FrameInv, IInv, TypeOK
      <4>. QED
        BY <4>1
    <3>. QED
      BY <2>1, <2>2, <3>1 DEF Matched, LeaveInOrder
  <2>. QED
    BY <2>1, <2>2 DEF OutputAttribution, DeliveredAttributed
<1>. QED
  BY <1>1, FramesInvariant, PTL

\* Every payload that the driver returns finds a metadata entry, even when rate
\* control skips frames and a payload takes the entry of another frame with its
\* timestamp.
THEOREM OutputsMatch == Spec => []EveryOutputMatches
<1>1. FrameInv => EveryOutputMatches
  <2>. SUFFICES ASSUME FrameInv, devOut # <<>>, ~Head(devOut).empty
                PROVE  \E i \in DOMAIN metadata : metadata[i].pts = Head(devOut).pts
    BY DEF EveryOutputMatches, Unmatched
  <2>1. 1 \in DOMAIN devOut /\ Head(devOut) = devOut[1]
    BY DEF FrameInv, IInv, TypeOK
  <2>2. 1 \in Coded
    BY <2>1 DEF Coded
  <2>3. Frame(1) \in InFlight /\ Head(devOut).pts = PtsOf[Frame(1)]
    BY <2>1, <2>2 DEF FrameInv, Ordered, OutputsOrdered, InFlight, CodedFrames
  <2>4. PICK g \in [InFlight -> Queued] : EntryFor(g)
    BY DEF FrameInv, Attributed, Answered
  <2>5. PICK k \in DOMAIN metadata : metadata[k].frame = g[Frame(1)]
    BY <2>3, <2>4 DEF Queued
  <2>6. metadata[k].pts = PtsOf[g[Frame(1)]] /\ PtsOf[g[Frame(1)]] = PtsOf[Frame(1)]
    BY <2>3, <2>4, <2>5 DEF FrameInv, Ordered, EntriesOrdered, EntryFor
  <2>. QED
    BY <2>3, <2>6
<1>. QED
  BY <1>1, FramesInvariant, PTL

\* The end of stream is handed out last, after every frame that was queued before
\* the drain, whether the driver or StartEncoderDrain made it.
THEOREM EosComesLast == Spec => []EosAfterEveryFrame
<1>1. FrameInv => EosAfterEveryFrame
  <2>. SUFFICES ASSUME FrameInv, NEW i \in DOMAIN delivered, delivered[i].eos
                PROVE  /\ i = Len(delivered)
                       /\ (skips = 0 /\ ~failed) =>
                            accepted \subseteq {delivered[j].index : j \in DOMAIN delivered}
    BY DEF EosAfterEveryFrame
  <2>1. Ended /\ i = Len(delivered) /\ pending = <<>> /\ devOut = <<>>
    BY DEF FrameInv, Ending, EosLast
  <2>2. devIn = <<>>
    BY <2>1 DEF FrameInv, IInv, UnconfiguredIsEmpty, Ending, Commanded, Ended
  <2>3. Uncoded = {} /\ Coded = {} /\ CodedFrames = {} /\ InFlight = {}
    BY <2>1, <2>2 DEF Uncoded, Coded, CodedFrames, InFlight
  <2>4. (skips = 0 /\ ~failed) => NoneLost
    BY DEF FrameInv, InStep, Clean
  <2>5. {pending[k].frame : k \in DOMAIN pending} = {}
    BY <2>1
  <2>. QED
    BY <2>1, <2>3, <2>4, <2>5 DEF NoneLost
<1>. QED
  BY <1>1, FramesInvariant, PTL

\* A queue call that polls on full queues is never alone in making the room that it
\* waits for: a buffer is ready, or the firmware has a frame and a capture slot for
\* it, or it still owes an input buffer that would do.
THEOREM WaitsAreProductive == Spec => []WaitIsProductive
<1>1. FrameInv => WaitIsProductive
  <2>. SUFFICES ASSUME FrameInv, pc = "wait", op = "queue", ~failed, ~draining, skips = 0,
                       ~DeviceReady
                PROVE  \/ devIn # <<>> /\ devCap # {}
                       \/ devHold # {} /\ ~MetadataFull
    BY DEF WaitIsProductive
  <2>1. pending = <<>> /\ InputsFull /\ configured /\ devOut = <<>>
    BY DEF FrameInv, IInv, PointInCall, WaitsOnFull, DeviceReady
  <2>2. devCmd = "run"
    BY DEF FrameInv, Ending, Commanded
  <2>3. CASE MetadataFull
    <3>1. devCap = CaptureSlots
      <4>1. \A i \in DOMAIN delivered : ~delivered[i].eos
        BY <2>2 DEF FrameInv, Ending, EosLast, Ended
      <4>2. SlotsOf(devOut) = {} /\ SlotsOf(pending) = {}
        BY <2>1 DEF SlotsOf
      <4>. QED
        BY <2>1, <4>1, <4>2 DEF FrameInv, IInv, CaptureSlotsConserved
    <3>2. devCap # {}
      <4>1. 0 \in CaptureSlots
        BY EncoderConstants DEF CaptureSlots
      <4>. QED
        BY <3>1, <4>1
    <3>3. 1 \in DOMAIN metadata
      <4>1. metadata \in Seq(Metadata) /\ Len(metadata) >= NumInputs
        BY <2>3 DEF FrameInv, IInv, TypeOK, MetadataFull
      <4>. QED
        BY <4>1, EncoderConstants
    <3>4. metadata[1].frame \in InFlight
      BY <2>2, <3>3 DEF FrameInv, InStep, Clean, Matched, Queued
    <3>5. CodedFrames = {}
      BY <2>1 DEF CodedFrames, Coded
    <3>. QED
      BY <3>2, <3>4, <3>5 DEF InFlight, Uncoded
  <2>4. CASE ~MetadataFull
    <3>1. devDone = {} /\ 0 \in InputSlots /\ inputs[0] # NoFrame
      BY <2>1, <2>4, EncoderConstants DEF DeviceReady, InputsFull, InputSlots
    <3>2. 0 \in devHold
      BY <3>1 DEF FrameInv, IInv, InputsPinned
    <3>. QED
      BY <2>4, <3>2
  <2>. QED
    BY <2>3, <2>4
<1>. QED
  BY <1>1, FramesInvariant, PTL

-----------------------------------------------------------------------------
(* A frame is handed out at most once, whatever fails or is skipped.        *)

\* The frames whose outputs wait in encoder_pending, and those handed out.
Waiting == {pending[i].frame : i \in DOMAIN pending} \ {NoFrame}
HandedOut == {delivered[j].index : j \in DOMAIN delivered} \ {NoFrame}

\* A frame has metadata, or is pending, or was handed out, and in one place only.
Apart == /\ Queued \cap Waiting = {} /\ Queued \cap HandedOut = {}
         /\ Waiting \cap HandedOut = {}
PendingOnce == \A i, j \in DOMAIN pending :
    pending[i].frame = pending[j].frame /\ pending[i].frame # NoFrame => i = j
DeliveredOnce == \A i, j \in DOMAIN delivered :
    delivered[i].index = delivered[j].index /\ delivered[i].index # NoFrame => i = j

\* What has no frame is an end of stream.
EmptyIsEos ==
    /\ \A i \in DOMAIN pending : pending[i].frame = NoFrame => pending[i].eos
    /\ \A j \in DOMAIN delivered : delivered[j].index = NoFrame => delivered[j].eos

LeavesOnce == Apart /\ PendingOnce /\ DeliveredOnce /\ EmptyIsEos

\* One more entry in encoder_pending.
LEMMA WaitingAppend ==
    ASSUME TypeOK, LeavesOnce, NEW e \in PendingFrame, pending' = Append(pending, e),
           e.frame \notin Waiting, e.frame = NoFrame => e.eos
    PROVE  /\ Waiting' = (Waiting \cup {e.frame}) \ {NoFrame}
           /\ PendingOnce' /\ \A i \in DOMAIN pending' : pending'[i].frame = NoFrame => pending'[i].eos
<1>1. pending \in Seq(PendingFrame)
  BY DEF TypeOK
<1>2. /\ Len(pending) \in Nat /\ DOMAIN pending = 1 .. Len(pending)
      /\ DOMAIN pending' = DOMAIN pending \cup {Len(pending) + 1}
      /\ \A i \in DOMAIN pending : pending'[i] = pending[i] /\ i < Len(pending) + 1
      /\ pending'[Len(pending) + 1] = e
  BY <1>1, AppendPositions
<1>. DEFINE n == Len(pending) + 1
<1>3. /\ n \notin DOMAIN pending /\ DOMAIN pending' = DOMAIN pending \cup {n} /\ pending'[n] = e
      /\ \A i \in DOMAIN pending : pending'[i] = pending[i]
  BY <1>2
<1>. HIDE DEF n
<1>4. {pending'[i].frame : i \in DOMAIN pending'}
        = {pending[i].frame : i \in DOMAIN pending} \cup {e.frame}
  BY <1>3
<1>5. Waiting' = (Waiting \cup {e.frame}) \ {NoFrame}
  BY <1>4 DEF Waiting
<1>6. \A i \in DOMAIN pending : pending[i].frame # NoFrame => pending[i].frame # e.frame
  BY DEF Waiting
<1>7. PendingOnce'
  BY <1>3, <1>6 DEF LeavesOnce, PendingOnce
<1>8. \A i \in DOMAIN pending' : pending'[i].frame = NoFrame => pending'[i].eos
  BY <1>3 DEF LeavesOnce, EmptyIsEos
<1>. QED
  BY <1>5, <1>7, <1>8

\* A payload's frame moves from the metadata to encoder_pending.
LEMMA TakenFrame ==
    ASSUME IInv, EntriesOrdered, LeavesOnce, TakePayload
    PROVE  /\ LeavesOnce' /\ HandedOut' = HandedOut
           /\ \E f \in Queued : Queued' = Queued \ {f} /\ Waiting' = Waiting \cup {f}
<1>1. TypeOK
  BY DEF IInv
<1>2. PICK i \in DOMAIN metadata :
        /\ metadata' = Erase(metadata, i)
        /\ pending' = Append(pending, [slot |-> Head(devOut).slot, frame |-> metadata[i].frame,
                                       eos |-> Head(devOut).last])
  BY DEF TakePayload
<1>. DEFINE f == metadata[i].frame
            e == [slot |-> Head(devOut).slot, frame |-> f, eos |-> Head(devOut).last]
<1>3. f \in Queued /\ Queued' = Queued \ {f} /\ f \in Frames /\ f # NoFrame
  BY <1>1, <1>2, QueuedErase, Elements
<1>4. e \in PendingFrame /\ e.frame = f
  <2>1. Head(devOut) \in CaptureBuffer
    BY <1>1 DEF TakePayload, TypeOK
  <2>. QED
    BY <1>3, <2>1 DEF PendingFrame, CaptureBuffer
<1>5. f \notin Waiting /\ f \notin HandedOut
  BY <1>3 DEF LeavesOnce, Apart
<1>6. pending' = Append(pending, e)
  BY <1>2
<1>7. delivered' = delivered
  BY DEF TakePayload, history
<1>. HIDE DEF f, e
<1>8. /\ Waiting' = (Waiting \cup {f}) \ {NoFrame}
      /\ PendingOnce' /\ \A k \in DOMAIN pending' : pending'[k].frame = NoFrame => pending'[k].eos
  BY <1>1, <1>3, <1>4, <1>5, <1>6, WaitingAppend
<1>9. Waiting' = Waiting \cup {f} /\ HandedOut' = HandedOut
  BY <1>3, <1>7, <1>8 DEF Waiting, HandedOut
<1>10. Apart'
  BY <1>3, <1>5, <1>9 DEF LeavesOnce, Apart
<1>11. DeliveredOnce' /\ EmptyIsEos'
  BY <1>7, <1>8 DEF LeavesOnce, DeliveredOnce, EmptyIsEos
<1>. QED
  BY <1>3, <1>8, <1>9, <1>10, <1>11 DEF LeavesOnce

\* An end of stream without a payload has no frame to move.
LEMMA EosTaken ==
    ASSUME TypeOK, LeavesOnce, NEW e \in PendingFrame, pending' = Append(pending, e),
           e.frame = NoFrame, e.eos, UNCHANGED <<metadata, delivered>>
    PROVE  LeavesOnce' /\ UNCHANGED <<Queued, Waiting, HandedOut>>
<1>1. e.frame \notin Waiting
  BY DEF Waiting
<1>2. /\ Waiting' = (Waiting \cup {e.frame}) \ {NoFrame}
      /\ PendingOnce' /\ \A k \in DOMAIN pending' : pending'[k].frame = NoFrame => pending'[k].eos
  BY <1>1, WaitingAppend
<1>3. UNCHANGED <<Queued, Waiting, HandedOut>>
  BY <1>2 DEF Queued, Waiting, HandedOut
<1>4. DeliveredOnce' /\ EmptyIsEos' /\ Apart'
  BY <1>2, <1>3 DEF LeavesOnce, DeliveredOnce, EmptyIsEos, Apart
<1>. QED
  BY <1>2, <1>3, <1>4 DEF LeavesOnce

\* The frame that is submitted is new.
LEMMA SubmittedFrame ==
    ASSUME IInv, EntriesOrdered, TakenBefore, LeavesOnce, SubmitFrame
    PROVE  LeavesOnce' /\ Queued' = Queued \cup {nextFrame} /\ UNCHANGED <<Waiting, HandedOut>>
<1>1. /\ metadata \in Seq(Metadata) /\ nextFrame \in Frames /\ nextFrame \in Nat
      /\ [pts |-> PtsOf[nextFrame], frame |-> nextFrame] \in Metadata
  <2>1. TypeOK /\ nextFrame \in Frames
    BY DEF IInv, PointInCall, SubmitFrame, TypeOK, Frames
  <2>. QED
    BY <2>1, EncoderConstants DEF TypeOK, Metadata, Frames
<1>. DEFINE e == [pts |-> PtsOf[nextFrame], frame |-> nextFrame]
<1>2. metadata' = Append(metadata, e) /\ UNCHANGED <<pending, delivered>>
  BY DEF SubmitFrame
<1>3. e.frame = nextFrame /\ e \in Metadata
  BY <1>1
<1>. HIDE DEF e
<1>4. /\ DOMAIN metadata' = DOMAIN metadata \cup {Len(metadata) + 1}
      /\ \A k \in DOMAIN metadata : metadata'[k] = metadata[k]
      /\ metadata'[Len(metadata) + 1] = e
  BY <1>1, <1>2, <1>3, AppendPositions
<1>5. Queued' = Queued \cup {nextFrame}
  <2>. DEFINE n == Len(metadata) + 1
  <2>1. /\ DOMAIN metadata' = DOMAIN metadata \cup {n} /\ metadata'[n].frame = nextFrame
        /\ \A k \in DOMAIN metadata : metadata'[k] = metadata[k]
    BY <1>3, <1>4
  <2>. HIDE DEF n
  <2>. QED
    BY <2>1 DEF Queued
<1>6. UNCHANGED <<Waiting, HandedOut>>
  BY <1>2 DEF Waiting, HandedOut
<1>7. nextFrame \notin Waiting /\ nextFrame \notin HandedOut
  BY <1>1 DEF TakenBefore, Waiting, HandedOut
<1>8. Apart'
  BY <1>5, <1>6, <1>7 DEF LeavesOnce, Apart
<1>9. PendingOnce' /\ DeliveredOnce' /\ EmptyIsEos'
  BY <1>2 DEF LeavesOnce, PendingOnce, DeliveredOnce, EmptyIsEos
<1>. QED
  BY <1>5, <1>6, <1>8, <1>9 DEF LeavesOnce

\* The oldest pending output is handed out, and is the last one delivered.
LEMMA CopiedFrame ==
    ASSUME IInv, LeavesOnce, CopyEncoderFrame
    PROVE  /\ LeavesOnce' /\ Queued' = Queued
           /\ \E f \in Waiting \cup {NoFrame} :
                /\ Waiting' = Waiting \ {f} /\ HandedOut' = (HandedOut \cup {f}) \ {NoFrame}
                /\ delivered' # <<>> /\ delivered'[Len(delivered')].index = f
                /\ f = pending[1].frame
           /\ \A i \in DOMAIN delivered : i \in DOMAIN delivered' /\ delivered'[i] = delivered[i]
<1>. DEFINE h == Head(pending)
            f == h.frame
            d == [index |-> h.frame, eos |-> h.eos,
                  content |-> IF h.frame = NoFrame THEN NoFrame ELSE payload[h.slot]]
<1>1. /\ pending # <<>> /\ pending' = Tail(pending) /\ delivered' = Append(delivered, d)
      /\ metadata' = metadata
  BY DEF IInv, PointInCall, CopyEncoderFrame
<1>2. /\ pending \in Seq(PendingFrame) /\ delivered \in Seq(Delivery)
      /\ payload \in [CaptureSlots -> Frames \cup {NoFrame}]
  BY DEF IInv, TypeOK
<1>3. /\ h = pending[1] /\ 1 \in DOMAIN pending /\ h \in PendingFrame
      /\ \A k \in DOMAIN pending' : k \in Nat /\ 1 < k + 1 /\ k + 1 \in DOMAIN pending
                                    /\ pending'[k] = pending[k + 1]
      /\ \A k \in DOMAIN pending : k # 1 => k - 1 \in DOMAIN pending'
                                           /\ pending'[k - 1] = pending[k]
  BY <1>1, <1>2, TailPositions
<1>4. d \in Delivery /\ d.index = f /\ d.eos = h.eos
  <2>1. h.slot \in CaptureSlots /\ h.frame \in Frames \cup {NoFrame} /\ h.eos \in BOOLEAN
    BY <1>3 DEF PendingFrame
  <2>. QED
    BY <1>2, <2>1 DEF Delivery
<1>. HIDE DEF d
<1>5. /\ DOMAIN delivered' = DOMAIN delivered \cup {Len(delivered) + 1}
      /\ Len(delivered') = Len(delivered) + 1 /\ Len(delivered) \in Nat
      /\ DOMAIN delivered = 1 .. Len(delivered)
      /\ \A i \in DOMAIN delivered : delivered'[i] = delivered[i]
      /\ delivered'[Len(delivered) + 1] = d
  BY <1>1, <1>2, <1>4, AppendPositions
<1>6. f \in Waiting \cup {NoFrame} /\ f \notin HandedOut
  <2>1. f \in Waiting \cup {NoFrame}
    BY <1>3 DEF Waiting
  <2>. QED
    BY <2>1 DEF LeavesOnce, Apart, HandedOut
<1>7. Waiting' = Waiting \ {f}
  <2>1. \A k \in DOMAIN pending : k # 1 => pending[k].frame # f \/ f = NoFrame
    BY <1>3 DEF LeavesOnce, PendingOnce
  <2>2. ASSUME NEW g \in Waiting' PROVE g \in Waiting \ {f}
    <3>1. PICK k \in DOMAIN pending' : pending'[k].frame = g /\ g # NoFrame
      BY <2>2 DEF Waiting
    <3>2. k + 1 \in DOMAIN pending /\ k + 1 # 1 /\ pending[k + 1].frame = g
      BY <1>3, <3>1
    <3>. QED
      BY <2>1, <3>1, <3>2 DEF Waiting
  <2>3. ASSUME NEW g \in Waiting \ {f} PROVE g \in Waiting'
    <3>1. PICK k \in DOMAIN pending : pending[k].frame = g /\ g # NoFrame
      BY <2>3 DEF Waiting
    <3>2. k - 1 \in DOMAIN pending' /\ pending'[k - 1].frame = g
      BY <1>3, <2>3, <3>1
    <3>. QED
      BY <3>1, <3>2 DEF Waiting
  <2>. QED
    BY <2>2, <2>3
<1>8. HandedOut' = (HandedOut \cup {f}) \ {NoFrame}
  <2>. DEFINE n == Len(delivered) + 1
  <2>1. /\ DOMAIN delivered' = DOMAIN delivered \cup {n} /\ delivered'[n].index = f
        /\ \A i \in DOMAIN delivered : delivered'[i] = delivered[i]
    BY <1>4, <1>5
  <2>. HIDE DEF n
  <2>2. {delivered'[i].index : i \in DOMAIN delivered'}
          = {delivered[i].index : i \in DOMAIN delivered} \cup {f}
    BY <2>1
  <2>. QED
    BY <2>2 DEF HandedOut
<1>9. Queued' = Queued
  BY <1>1 DEF Queued
<1>10. Apart'
  BY <1>6, <1>7, <1>8, <1>9 DEF LeavesOnce, Apart
<1>11. PendingOnce'
  <2>1. \A i, j \in DOMAIN pending' : i + 1 = j + 1 => i = j
    BY <1>3
  <2>. QED
    BY <1>3, <2>1 DEF LeavesOnce, PendingOnce
<1>12. DeliveredOnce'
  <2>1. \A i \in DOMAIN delivered : delivered[i].index # NoFrame => delivered[i].index # f
    BY <1>6 DEF HandedOut
  <2>. QED
    BY <1>4, <1>5, <2>1 DEF LeavesOnce, DeliveredOnce
<1>13. EmptyIsEos'
  <2>1. f = NoFrame => d.eos
    BY <1>3, <1>4 DEF LeavesOnce, EmptyIsEos
  <2>. QED
    BY <1>3, <1>4, <1>5, <2>1 DEF LeavesOnce, EmptyIsEos
<1>14. delivered' # <<>> /\ delivered'[Len(delivered')].index = f /\ f = pending[1].frame
  BY <1>3, <1>4, <1>5
<1>. QED
  BY <1>5, <1>6, <1>7, <1>8, <1>9, <1>10, <1>11, <1>12, <1>13, <1>14 DEF LeavesOnce

\* Every step keeps the places of the frames apart.
LEMMA LeavesOnceNext ==
    ASSUME FrameInv, LeavesOnce, [Next]_vars
    PROVE  LeavesOnce'
<1>1. IInv /\ TypeOK /\ EntriesOrdered /\ TakenBefore
  BY DEF FrameInv, IInv, Ordered
<1>2. CASE Open \/ Close
  <2>1. metadata' = <<>> /\ pending' = <<>> /\ delivered' = <<>>
    BY <1>2 DEF Open, Close, CloseSession
  <2>. QED
    BY <2>1 DEF LeavesOnce, Apart, PendingOnce, DeliveredOnce, EmptyIsEos, Queued, Waiting, HandedOut
<1>3. CASE TakeEmptyLast
  <2>1. [slot |-> Head(devOut).slot, frame |-> NoFrame, eos |-> TRUE] \in PendingFrame
    <3>1. Head(devOut) \in CaptureBuffer
      BY <1>1, <1>3 DEF TakeEmptyLast, TypeOK
    <3>. QED
      BY <3>1 DEF PendingFrame, CaptureBuffer
  <2>. QED
    BY <1>1, <1>3, <2>1, EosTaken DEF TakeEmptyLast, history
<1>4. CASE StartEncoderDrain /\ ~configured
  <2>1. [slot |-> 0, frame |-> NoFrame, eos |-> TRUE] \in PendingFrame
    BY EncoderConstants DEF PendingFrame, CaptureSlots
  <2>. QED
    BY <1>1, <1>4, <2>1, EosTaken DEF StartEncoderDrain, history
<1>5. CASE UNCHANGED <<metadata, pending, delivered>>
  <2>1. metadata' = metadata /\ pending' = pending /\ delivered' = delivered
    BY <1>5
  <2>2. Queued' = Queued
    BY <2>1 DEF Queued
  <2>3. Waiting' = Waiting
    BY <2>1 DEF Waiting
  <2>4. HandedOut' = HandedOut
    BY <2>1 DEF HandedOut
  <2>5. Apart'
    BY <2>2, <2>3, <2>4 DEF LeavesOnce, Apart
  <2>6. PendingOnce'
    BY <2>1 DEF LeavesOnce, PendingOnce
  <2>7. DeliveredOnce'
    BY <2>1 DEF LeavesOnce, DeliveredOnce
  <2>8. EmptyIsEos'
    BY <2>1 DEF LeavesOnce, EmptyIsEos
  <2>. QED
    BY <2>5, <2>6, <2>7, <2>8 DEF LeavesOnce
<1>6. CASE CallQueueEncoderFrame \/ RejectEncoderFrame \/
           (\E wait \in BOOLEAN : CallDequeueEncoderFrame(wait)) \/ DequeueUnconfigured \/
           StartEncoderDrainFails \/ DequeueEncoderInputs \/ CaptureDrained \/
           IoctlFails \/ QueueBlocks \/ QueueWaits \/ QueueProceeds \/ DequeueHasFrame \/
           DequeueWaits \/ DequeueFindsNothing \/ CopyFails \/ WaitForDeviceReady \/
           WaitForDeviceTimeout \/ DriverReleasesInput \/ UNCHANGED vars
  <2>1. UNCHANGED <<metadata, pending, delivered>>
    BY <1>6 DEF CallQueueEncoderFrame, RejectEncoderFrame, CallDequeueEncoderFrame,
       DequeueUnconfigured, StartEncoderDrainFails, DequeueEncoderInputs, CaptureDrained,
       IoctlFails, QueueBlocks, QueueWaits, QueueProceeds, DequeueHasFrame, DequeueWaits,
       DequeueFindsNothing, CopyFails, WaitForDeviceReady, WaitForDeviceTimeout,
       DriverReleasesInput, EnterQueueEncoderFrame, Fails, Fault, GoTo, Return, vars,
       session, device, call, history
  <2>. QED
    BY <1>5, <2>1
<1>7. CASE RequeueEmpty \/ PumpLosesSlot \/ SubmitFails \/ DriverEncodes \/ DriverSkipsFrame
           \/ DriverEndsDrain \/ (StartEncoderDrain /\ configured)
  <2>1. UNCHANGED <<metadata, pending, delivered>>
    BY <1>7 DEF RequeueEmpty, PumpLosesSlot, SubmitFails, DriverEncodes, DriverSkipsFrame,
       DriverEndsDrain, StartEncoderDrain, session, history
  <2>. QED
    BY <1>5, <2>1
<1>. QED
  BY <1>1, <1>2, <1>3, <1>4, <1>6, <1>7, TakenFrame, SubmittedFrame, CopiedFrame
  DEF Next, Calls, SessionSteps, Pump, QueueSteps, DequeueSteps, WaitSteps, Driver

\* Whatever fails, and however many frames the firmware skips, no frame is handed
\* out twice: its metadata entry is used up when its payload is taken, and its entry
\* in encoder_pending is dropped only when it has been copied.
THEOREM FramesLeaveOnce == Spec => []LeavesOnce
<1>1. Init => LeavesOnce
  BY DEF Init, LeavesOnce, Apart, PendingOnce, DeliveredOnce, EmptyIsEos, Queued, Waiting, HandedOut
<1>2. FrameInv /\ LeavesOnce /\ [Next]_vars => LeavesOnce'
  BY LeavesOnceNext
<1>. QED
  BY <1>1, <1>2, FramesInvariant, PTL DEF Spec

-----------------------------------------------------------------------------
(* For the modules that compose the session.                               *)

OutInv == FrameInv /\ LeavesOnce

\* OutInv holds before the first call.
LEMMA OutInvInit == Init => OutInv
<1>. SUFFICES ASSUME Init PROVE OutInv
  OBVIOUS
<1>1. LeavesOnce
  BY DEF Init, LeavesOnce, Apart, PendingOnce, DeliveredOnce, EmptyIsEos, Queued, Waiting, HandedOut
<1>. QED
  BY <1>1, FramesInit DEF OutInv

\* Every step of the session or of its driver keeps OutInv.
LEMMA OutInvNext ==
    ASSUME OutInv, [Next]_vars
    PROVE  OutInv'
BY FramesNext, LeavesOnceNext DEF OutInv

\* A caller between two calls may pass a number over, for a work without a frame,
\* and may fail itself.
LEMMA OutInvCaller ==
    ASSUME OutInv, pc = "idle",
           nextFrame' \in 1 .. (MaxFrames + 1), nextFrame' >= nextFrame, faults' \in Nat,
           UNCHANGED <<session, device, call, delivered, accepted, failed, skips, opens>>
    PROVE  OutInv'
<1>. USE DEF session, device, call
<1>1. UNCHANGED <<Coded, Uncoded, CodedFrames, InFlight, Queued>> /\ \A i : Frame(i)' = Frame(i)
  BY DEF Coded, Uncoded, CodedFrames, InFlight, Queued, Frame
<1>2. IInv'
  <2>1. TypeOK'
    BY DEF OutInv, FrameInv, IInv, TypeOK
  <2>2. PointInCall' /\ UnconfiguredIsEmpty' /\ InputsPinned' /\ MetadataBounded'
    BY DEF OutInv, FrameInv, IInv, PointInCall, UnconfiguredIsEmpty, InputsPinned,
           MetadataBounded
  <2>3. CaptureSlotsConserved'
    BY DEF OutInv, FrameInv, IInv, CaptureSlotsConserved, OwnsDistinctSlots, SlotsOf
  <2>. QED
    BY <2>1, <2>2, <2>3 DEF IInv
<1>3. Ordered'
  <2>1. /\ TypeOK /\ nextFrame \in Nat /\ nextFrame' \in Nat
        /\ \A k \in DOMAIN devIn : devIn[k] \in Nat
        /\ \A k \in DOMAIN metadata : metadata[k].frame \in Nat
        /\ \A i \in DOMAIN pending : pending[i].frame \in Nat
        /\ \A j \in DOMAIN delivered : delivered[j].index \in Nat
        /\ \A i \in Coded : Frame(i) \in Nat
    <3>1. TypeOK /\ OutputsOrdered
      BY DEF OutInv, FrameInv, IInv, Ordered
    <3>2. /\ Frames \subseteq Nat /\ NoFrame \in Nat /\ nextFrame \in Nat
          /\ \A k \in DOMAIN devIn : devIn[k] \in Frames
          /\ \A k \in DOMAIN metadata : metadata[k].frame \in Frames
          /\ \A i \in DOMAIN pending : pending[i].frame \in Frames \cup {NoFrame}
          /\ \A j \in DOMAIN delivered : delivered[j].index \in Frames \cup {NoFrame}
      BY <3>1, Elements
    <3>3. CodedFrames \subseteq Frames
      BY <3>1, Elements
    <3>4. \A i \in Coded : Frame(i) \in CodedFrames
      BY DEF CodedFrames
    <3>5. nextFrame' \in Nat
      BY EncoderConstants
    <3>. QED
      BY <3>1, <3>2, <3>3, <3>4, <3>5
  <2>2. InputsOrdered' /\ EntriesOrdered' /\ TakenBefore'
    BY <2>1 DEF OutInv, FrameInv, Ordered, InputsOrdered, EntriesOrdered, TakenBefore
  <2>3. OutputsOrdered'
    BY <1>1, <2>1 DEF OutInv, FrameInv, Ordered, OutputsOrdered
  <2>. QED
    BY <2>2, <2>3 DEF Ordered
<1>4. Attributed'
  <2>1. Answered'
    BY <1>1 DEF OutInv, FrameInv, Attributed, Answered, EntryFor
  <2>. QED
    BY <2>1 DEF OutInv, FrameInv, Attributed, PendingAttributed, DeliveredAttributed
<1>5. Ending' /\ WaitsOnFull'
  BY DEF OutInv, FrameInv, Ending, EosLast, Ended, Commanded, WaitsOnFull
<1>6. InStep'
  BY <1>1 DEF OutInv, FrameInv, InStep, Clean, Matched, LeaveInOrder, NoneLost
<1>7. LeavesOnce'
  BY <1>1 DEF OutInv, LeavesOnce, Apart, PendingOnce, DeliveredOnce, EmptyIsEos, Waiting, HandedOut
<1>. QED
  BY <1>2, <1>3, <1>4, <1>5, <1>6, <1>7 DEF OutInv, FrameInv

\* Without skips and failures every frame that was queued before a drain is with
\* the session or was handed out, and when the end of stream was, every one was.
LEMMA AcceptedIsSomewhere ==
    ASSUME OutInv, skips = 0, ~failed
    PROVE  /\ accepted \subseteq Queued \cup Waiting \cup HandedOut
           /\ (\E j \in DOMAIN delivered : delivered[j].eos) => accepted \subseteq HandedOut
<1>1. NoneLost /\ Matched /\ EosLast /\ Commanded /\ TypeOK /\ UnconfiguredIsEmpty
  BY DEF OutInv, FrameInv, IInv, InStep, Clean, Ending
<1>2. NoFrame \notin accepted
  BY <1>1, Elements DEF TypeOK
<1>3. accepted \subseteq Queued \cup Waiting \cup HandedOut
  BY <1>1, <1>2 DEF NoneLost, Matched, Waiting, HandedOut
<1>4. ASSUME NEW j \in DOMAIN delivered, delivered[j].eos PROVE accepted \subseteq HandedOut
  <2>1. Ended /\ pending = <<>> /\ devOut = <<>>
    BY <1>1, <1>4 DEF EosLast
  <2>2. devIn = <<>>
    BY <1>1, <2>1 DEF UnconfiguredIsEmpty, Commanded, Ended
  <2>3. InFlight = {}
    BY <2>1, <2>2 DEF Uncoded, Coded, CodedFrames, InFlight
  <2>. QED
    BY <1>1, <1>2, <2>1, <2>3 DEF NoneLost, HandedOut
<1>. QED
  BY <1>3, <1>4

\* What a step inside a call, or one of the driver, does to the frames and to the
\* call: they stay where they are, one is submitted, one's payload is taken, or the
\* oldest pending output is handed out.
EosOut == \E j \in DOMAIN delivered : delivered[j].eos
Stays ==
    /\ UNCHANGED <<Queued, Waiting, HandedOut, delivered, accepted>>
    /\ pc \in {"idle", "copy"} => UNCHANGED pending
    /\ pc = "copy" => pc' = pc \/ pending[1].frame # NoFrame
    /\ pc # "idle" /\ pc' = "idle" => ret'[2] # "OK"
Submits ==
    /\ pc = "submit" /\ pc' = "idle"
    /\ Queued' = Queued \cup {nextFrame} /\ UNCHANGED <<Waiting, HandedOut, delivered>>
    /\ draining \/ accepted' = accepted \cup {nextFrame}
    /\ accepted \subseteq accepted'
Takes ==
    /\ pc = "capture" /\ pc' = pc /\ ~EosOut
    /\ \E f \in Queued : Queued' = Queued \ {f} /\ Waiting' = Waiting \cup {f}
    /\ UNCHANGED <<HandedOut, delivered, accepted>>
Copies ==
    /\ pc = "copy" /\ pc' = "idle" /\ ret' = <<op, "OK">>
    /\ Queued' = Queued /\ UNCHANGED accepted
    /\ \E f \in Waiting \cup {NoFrame} :
         /\ Waiting' = Waiting \ {f} /\ HandedOut' = (HandedOut \cup {f}) \ {NoFrame}
         /\ delivered' # <<>> /\ delivered'[Len(delivered')].index = f
         /\ f = pending[1].frame
    /\ \A j \in DOMAIN delivered : j \in DOMAIN delivered' /\ delivered'[j] = delivered[j]
Effect ==
    /\ \/ failed' = failed
       \/ failed' /\ pc # "idle" /\ pc' = "idle" /\ ret'[2] \in {"ERROR", "NO_MEMORY"}
    /\ draining' = draining /\ (configured => configured') /\ (skips' = 0 => skips = 0)
    /\ pc' = "copy" => pc = "copy" \/ op # "queue"
    /\ Stays \/ Submits \/ Takes \/ Copies

\* Every such step has one of these effects.
LEMMA StepEffect ==
    ASSUME OutInv, SessionSteps \/ Driver
    PROVE  Effect
<1>. USE DEF session, device, call, history, GoTo, Return
<1>1. /\ IInv /\ TypeOK /\ EntriesOrdered /\ TakenBefore /\ LeavesOnce /\ PointInCall
      /\ skips \in Nat
  BY DEF OutInv, FrameInv, IInv, Ordered, TypeOK
<1>2. ASSUME UNCHANGED <<metadata, pending, delivered, accepted, draining>>,
             configured => configured', skips' = 0 => skips = 0,
             \/ failed' = failed
             \/ failed' /\ pc # "idle" /\ pc' = "idle" /\ ret'[2] \in {"ERROR", "NO_MEMORY"},
             pc = "copy" => pc' = pc \/ pending[1].frame # NoFrame,
             pc # "idle" /\ pc' = "idle" => ret'[2] # "OK",
             pc' = "copy" => pc = "copy" \/ op # "queue"
      PROVE  Effect
  BY <1>2 DEF Effect, Stays, Queued, Waiting, HandedOut
<1>3. CASE DequeueEncoderInputs
  BY <1>2, <1>3 DEF DequeueEncoderInputs
<1>4. CASE TakePayload
  <2>1. ~EosOut
    BY <1>4 DEF TakePayload, OutInv, FrameInv, Ending, EosLast, EosOut
  <2>2. /\ HandedOut' = HandedOut
        /\ \E f \in Queued : Queued' = Queued \ {f} /\ Waiting' = Waiting \cup {f}
    BY <1>1, <1>4, TakenFrame
  <2>3. Takes
    BY <1>4, <2>1, <2>2 DEF TakePayload, Takes
  <2>. QED
    BY <1>4, <2>3 DEF TakePayload, Effect
<1>5. CASE TakeEmptyLast
  <2>. DEFINE e == [slot |-> Head(devOut).slot, frame |-> NoFrame, eos |-> TRUE]
  <2>1. e \in PendingFrame /\ e.frame = NoFrame /\ e.eos
    <3>1. Head(devOut) \in CaptureBuffer
      BY <1>1, <1>5 DEF TakeEmptyLast, TypeOK
    <3>. QED
      BY <3>1 DEF PendingFrame, CaptureBuffer
  <2>2. pending' = Append(pending, e) /\ UNCHANGED <<metadata, delivered, accepted>>
    BY <1>5 DEF TakeEmptyLast
  <2>. HIDE DEF e
  <2>3. UNCHANGED <<Queued, Waiting, HandedOut>>
    BY <1>1, <2>1, <2>2, EosTaken
  <2>4. Stays
    BY <1>5, <2>2, <2>3 DEF TakeEmptyLast, Stays
  <2>. QED
    BY <1>5, <2>4 DEF TakeEmptyLast, Effect
<1>6. CASE RequeueEmpty
  BY <1>2, <1>6 DEF RequeueEmpty
<1>7. CASE PumpLosesSlot
  BY <1>2, <1>7 DEF PumpLosesSlot
<1>8. CASE CaptureDrained
  BY <1>2, <1>8 DEF CaptureDrained
<1>9. CASE IoctlFails
  BY <1>2, <1>9 DEF IoctlFails, Fails
<1>10. CASE QueueBlocks
  BY <1>2, <1>10 DEF QueueBlocks
<1>11. CASE QueueWaits \/ QueueProceeds
  BY <1>2, <1>11 DEF QueueWaits, QueueProceeds
<1>12. CASE SubmitFrame
  <2>1. Queued' = Queued \cup {nextFrame} /\ UNCHANGED <<Waiting, HandedOut>>
    BY <1>1, <1>12, SubmittedFrame
  <2>2. Submits
    BY <1>12, <2>1 DEF SubmitFrame, Submits
  <2>. QED
    BY <1>12, <2>2 DEF SubmitFrame, ConfigureEncoder, Effect
<1>13. CASE SubmitFails
  BY <1>2, <1>13 DEF SubmitFails, ConfigureEncoder
<1>14. CASE DequeueHasFrame \/ DequeueWaits
  BY <1>2, <1>14 DEF DequeueHasFrame, DequeueWaits
<1>15. CASE DequeueFindsNothing
  BY <1>2, <1>15 DEF DequeueFindsNothing
<1>16. CASE CopyEncoderFrame
  <2>1. Copies
    BY <1>1, <1>16, CopiedFrame DEF CopyEncoderFrame, Copies
  <2>. QED
    BY <1>16, <2>1 DEF CopyEncoderFrame, Effect
<1>17. CASE CopyFails
  <2>1. Head(pending) = pending[1]
    BY <1>1, <1>17 DEF CopyFails, PointInCall, TypeOK
  <2>. QED
    BY <1>2, <1>17, <2>1 DEF CopyFails, Fails
<1>18. CASE WaitForDeviceReady
  BY <1>2, <1>18 DEF WaitForDeviceReady
<1>19. CASE WaitForDeviceTimeout
  BY <1>2, <1>19 DEF WaitForDeviceTimeout
<1>20. CASE DriverReleasesInput
  BY <1>2, <1>20 DEF DriverReleasesInput
<1>21. CASE DriverEncodes
  BY <1>2, <1>21 DEF DriverEncodes
<1>22. CASE DriverSkipsFrame
  <2>1. skips' = 0 => skips = 0
    BY <1>1, <1>22 DEF DriverSkipsFrame
  <2>. QED
    BY <1>2, <1>22, <2>1 DEF DriverSkipsFrame
<1>23. CASE DriverEndsDrain
  BY <1>2, <1>23 DEF DriverEndsDrain
<1>. QED
  BY <1>3, <1>4, <1>5, <1>6, <1>7, <1>8, <1>9, <1>10, <1>11, <1>12, <1>13, <1>14, <1>15, <1>16,
     <1>17, <1>18, <1>19, <1>20, <1>21, <1>22, <1>23
  DEF SessionSteps, Pump, QueueSteps, DequeueSteps, WaitSteps, Driver

=============================================================================

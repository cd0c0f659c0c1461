------------------------- MODULE VaapiDecoderProofs -------------------------
(***************************************************************************)
(* Proofs about VaapiDecoder, for any number of slots, pools, references   *)
(* and works: the surface references agree with the pictures that are      *)
(* alive and none is released twice, a buffer with a reference picture is  *)
(* never decoded into again, a drained end of stream leaves no work, and   *)
(* the pool always has a slot that can come back while a block is sought.  *)
(***************************************************************************)
EXTENDS VaapiDecoder, FiniteSetTheorems, WellFoundedInduction, TLAPS
-----------------------------------------------------------------------------
(* The inductive invariants.                                               *)

Typed ==
    /\ inPkt \in Works \cup {NoWork} /\ ready \in Works \cup {NoWork}
    /\ frame \in Works \cup {NoWork} /\ cur \in Works \cup {NoWork}
    /\ dpb \subseteq Works /\ shown \subseteq dpb
    /\ active \in [Buffers -> Works \cup {NoWork}]
    /\ refBuf \in [Works -> Buffers \cup {NoBuffer}]
    /\ heap \subseteq Works /\ surfaces \subseteq Works
    /\ pendingBlocks \in Seq(Buffers)
    /\ nextWork \in Nat \ {0}

\* The packet of the current work is still to be sent.
Waiting == sending = "packet" /\ (cpc = "send" \/ after = "resend")

\* What the control point tells about the codec and the call.
InTurn ==
    /\ cpc = "idle" => cur = NoWork /\ after = "none" /\ sending = "none"
    /\ cur # NoWork => cur = nextWork
    /\ sending = "packet" => cur # NoWork
    /\ after \in {"finish", "eos"} => cur # NoWork
    /\ after \in {"drain", "drainEos"} => cur = NoWork
    /\ cpc \in {"acquire", "import"} => inPkt # NoWork
    /\ cpc \in {"codec", "acquire", "import", "decode"} =>
           ready = NoWork /\ caller \in {"send", "receive"}
    /\ cpc \in {"codec", "acquire", "import", "decode"} /\ caller = "receive" => frame = NoWork
    /\ cpc = "received" => frame = NoWork

\* A picture belongs to a work that was submitted, and to one packet.
Numbered ==
    /\ \A p \in Pictures : p < nextWork \/ (p = cur /\ ~Waiting)
    /\ inPkt # NoWork => inPkt < nextWork \/ (inPkt = cur /\ ~Waiting)
    /\ inPkt \notin Pictures

\* A buffer that was acquired is nobody's until its surface is made.
TargetIsFree == cpc = "import" => target \in Buffers /\ active[target] = NoWork

\* A reference has a buffer, and nothing else has.
BuffersHeld == \A w \in Works : refBuf[w] # NoBuffer => w \in heap

RefInv ==
    /\ Typed /\ InTurn /\ Numbered /\ TargetIsFree /\ BuffersHeld /\ ReferencesAccounted

\* The works whose picture is still on its way to the client.
Awaited ==
    (dpb \ shown) \cup {inPkt, ready, hold.work}
        \cup (IF cpc \in {"output", "copy", "copying"} THEN {frame} ELSE {})

\* A work that was not taken yet is new.
StatusKnown ==
    /\ status \in [Works -> {"new", "pending", "done", "error", "flushed"}]
    /\ \A w \in Works : w >= nextWork => status[w] = "new"

\* What the call is about, by the point it has reached.
DrainPoint ==
    /\ after \in {"none", "resend", "finish", "eos", "drain", "drainEos"}
    /\ sending \in {"none", "packet", "null"}
    /\ cur # NoWork => sigEos = "no" /\ ~sigErr
    /\ sending = "packet" => kind # "eos"
    /\ after = "finish" => sending = "packet"
    /\ after \in {"eos", "drainEos"} => sending = "null"
    /\ after = "drain" => sending = "none"
    /\ cpc \in {"loop", "receive", "received", "output", "copy", "copying", "publish", "end"} =>
           after # "none"
    /\ cpc \in {"codec", "acquire", "import", "decode"} /\ caller = "receive" => after # "none"
    /\ cpc \in {"codec", "acquire", "import", "decode"} /\ caller = "send" =>
           after = "none" /\ sending # "none"
    /\ cpc = "sent" => after = "none" /\ sending # "none"
    /\ cpc = "send" \/ after = "resend" => sending # "none"

\* An output that is held back has its block.
HeldHasBlock ==
    /\ hold.work # NoWork => hold.buf # NoBuffer
    /\ cpc = "copying" => target # NoBuffer
    /\ cpc = "output" => frame # NoWork

\* Once the codec drains it takes no packet, and the loop ends with nothing left.
DrainsOut ==
    /\ draining => inPkt = NoWork /\ cpc \notin {"decode", "failed"} /\ after # "resend"
    /\ draining => sigEos = "drain" \/ sigErr \/ sending = "null"
    /\ sending = "null" /\ cpc # "send" /\ after # "resend" => draining
    /\ cpc \in {"publish", "end"} => ready = NoWork /\ (draining => dpb \subseteq shown)
    /\ cpc = "received" /\ draining /\ ready = NoWork => dpb \subseteq shown
    /\ cpc = "end" => hold = NoOutput

\* Without an error every pending work still has its picture on the way.
PendingAwaited ==
    ~errored /\ cpc # "failed" =>
        /\ \A w \in Works : status[w] = "pending" => w \in Awaited
        /\ cur # NoWork /\ kind # "eos" /\ ~Waiting /\ attached = NoBuffer => cur \in Awaited

EosInv ==
    /\ RefInv /\ StatusKnown /\ DrainPoint /\ HeldHasBlock /\ DrainsOut
    /\ PendingAwaited /\ EosFinishesEverything

\* A slot is in one of the states, the client has a pool, and a packet in the codec
\* has one to decode into.
SlotStates == {Free, Client, Kept} \cup {For(w) : w \in Works \cup {NoWork}}
PoolKnown ==
    /\ slot \in [Slots -> SlotStates]
    /\ clientPool \in 1 .. NumPools /\ pool \in 0 .. NumPools
    /\ cur # NoWork \/ inPkt # NoWork => pool # 0

\* The codec asks for a buffer only when it holds few enough pictures, and outside
\* of the loop no output is held back.
RoomLeft ==
    /\ cpc = "acquire" => Cardinality(dpb) < MaxRefs
    /\ cpc \in {"idle", "send", "sent", "loop"} => hold = NoOutput
    /\ cpc \in {"codec", "acquire", "import", "decode"} /\ caller = "send" => hold = NoOutput

\* The current work has an output only when the codec has its packet.
OutputAfterPacket ==
    /\ cur = NoWork => attached = NoBuffer
    /\ cur # NoWork /\ (cur \in Pictures \cup {hold.work} \/ attached # NoBuffer) =>
           inPkt = NoWork /\ ~Waiting

AcquireInv == RefInv /\ DrainPoint /\ DrainsOut /\ PoolKnown /\ RoomLeft /\ OutputAfterPacket

-----------------------------------------------------------------------------
(* Numbers and sequences.                                                  *)

Less == {p \in Nat \X Nat : p[1] < p[2]}

\* The order of the numbers is well-founded.
LEMMA LessIsWellFounded == IsWellFoundedOn(Less, Nat)
BY NatLessThanWellFounded DEF OpToRel, Less

\* So a set of numbers has a least one.
LEMMA LeastNumber ==
    ASSUME NEW T \in SUBSET Nat, T # {}
    PROVE  \E m \in T : \A k \in T : ~(k < m)
<1>1. PICK m \in T : \A k \in T : ~(<<k, m>> \in Less)
  BY LessIsWellFounded, WFMin
<1>2. ASSUME NEW k \in T, k < m PROVE FALSE
  <2>1. <<k, m>> \in Nat \X Nat /\ <<k, m>>[1] = k /\ <<k, m>>[2] = m
    OBVIOUS
  <2>2. <<k, m>> \in Less
    BY <1>2, <2>1 DEF Less
  <2>. QED
    BY <1>1, <2>2
<1>. QED
  BY <1>2

Increasing(f, ps) ==
    /\ f \in [1 .. Cardinality(ps) -> ps]
    /\ \A i, j \in DOMAIN f : i < j => f[i] < f[j]

\* The positions up to n can be listed in order: else there is a least n for
\* which some set of them cannot.
LEMMA OrderExists ==
    \A n \in Nat : \A ps \in SUBSET (1 .. n) : \E f : Increasing(f, ps)
<1>. DEFINE Bad == {n \in Nat : \E ps \in SUBSET (1 .. n) : \A f : ~Increasing(f, ps)}
<1>1. SUFFICES ASSUME Bad # {} PROVE FALSE
  OBVIOUS
<1>2. PICK n \in Bad : \A k \in Bad : ~(k < n)
  BY <1>1, LeastNumber
<1>3. PICK ps \in SUBSET (1 .. n) : \A f : ~Increasing(f, ps)
  BY <1>2
<1>4. n \in Nat
  OBVIOUS
<1>5. CASE n = 0
  <2>1. ps = {}
    BY <1>5
  <2>2. Cardinality(ps) = 0
    BY <2>1, FS_EmptySet
  <2>3. Increasing([i \in 1 .. 0 |-> i], ps)
    BY <2>2 DEF Increasing
  <2>. QED
    BY <1>3, <2>3
<1>6. CASE n # 0
  <2>. DEFINE qs == ps \ {n}
  <2>1. n - 1 \in Nat /\ n - 1 < n /\ qs \in SUBSET (1 .. (n - 1))
    BY <1>4, <1>6
  <2>2. n - 1 \notin Bad
    BY <1>2, <2>1
  <2>3. PICK g : Increasing(g, qs)
    BY <2>1, <2>2
  <2>4. CASE n \notin ps
    BY <1>3, <2>3, <2>4
  <2>5. CASE n \in ps
    <3>. DEFINE c == Cardinality(qs)
                f == [i \in 1 .. (c + 1) |-> IF i = c + 1 THEN n ELSE g[i]]
    <3>1. IsFiniteSet(1 .. (n - 1))
      BY <2>1, FS_Interval
    <3>2. IsFiniteSet(qs)
      BY <2>1, <3>1, FS_Subset
    <3>3. c \in Nat /\ Cardinality(qs \cup {n}) = c + 1
      <4>1. n \notin qs
        OBVIOUS
      <4>. HIDE DEF qs
      <4>2. Cardinality(qs) \in Nat
        BY <3>2, FS_CardinalityType
      <4>3. Cardinality(qs \cup {n}) = IF n \in qs THEN Cardinality(qs) ELSE Cardinality(qs) + 1
        BY <3>2, FS_AddElement
      <4>. QED
        BY <4>1, <4>2, <4>3
    <3>4. ps = qs \cup {n}
      BY <2>5
    <3>5. Cardinality(ps) = c + 1
      BY <3>3, <3>4
    <3>. HIDE DEF c, qs
    <3>6. g \in [1 .. c -> qs] /\ \A i, j \in 1 .. c : i < j => g[i] < g[j]
      BY <2>3 DEF Increasing, c
    <3>7. \A i \in 1 .. (c + 1) : i = c + 1 \/ i \in 1 .. c
      BY <3>3
    <3>8. \A i \in 1 .. c : g[i] \in qs /\ g[i] < n
      <4>1. \A x \in qs : x < n
        BY <1>4, <2>1
      <4>. QED
        BY <3>6, <4>1
    <3>9. f \in [1 .. (c + 1) -> ps]
      <4>1. \A i \in 1 .. (c + 1) : f[i] \in ps
        BY <3>4, <3>7, <3>8
      <4>. QED
        BY <4>1
    <3>10. \A i, j \in 1 .. (c + 1) : i < j => f[i] < f[j]
      <4>1. \A i, j \in 1 .. (c + 1) : i < j => i # c + 1
        BY <3>3
      <4>. QED
        BY <3>6, <3>7, <3>8, <4>1
    <3>11. Increasing(f, ps)
      BY <3>5, <3>9, <3>10 DEF Increasing
    <3>. QED
      BY <1>3, <3>11
  <2>. QED
    BY <2>4, <2>5
<1>. QED
  BY <1>5, <1>6

\* A buffer queued behind others leaves a queue of buffers.
LEMMA AppendedType == ASSUME NEW S, NEW s \in Seq(S), NEW b \in S PROVE Append(s, b) \in Seq(S)
OBVIOUS

\* Searching the blocks kept aside erases some and changes none.
LEMMA SearchedType ==
    ASSUME pendingBlocks \in Seq(Buffers), NEW n \in Nat, n <= Len(pendingBlocks)
    PROVE  Searched(n) \in Seq(Buffers)
<1>. DEFINE ps == {i \in 1 .. n : Fits(pendingBlocks[i], inPkt)}
            at == InOrder(ps)
<1>1. \E f \in [1 .. Cardinality(ps) -> ps] : \A i, j \in DOMAIN f : i < j => f[i] < f[j]
  <2>1. ps \in SUBSET (1 .. n)
    OBVIOUS
  <2>. HIDE DEF ps
  <2>2. PICK f : Increasing(f, ps)
    BY <2>1, OrderExists
  <2>. QED
    BY <2>2 DEF Increasing
<1>2. at \in [1 .. Cardinality(ps) -> ps]
  <2>. HIDE DEF ps
  <2>. QED
    BY <1>1 DEF InOrder
<1>3. Cardinality(ps) \in Nat
  <2>1. IsFiniteSet(1 .. n)
    BY FS_Interval
  <2>2. ps \subseteq 1 .. n
    OBVIOUS
  <2>. HIDE DEF ps
  <2>. QED
    BY <2>1, <2>2, FS_Subset, FS_CardinalityType
<1>4. \A i \in ps : pendingBlocks[i] \in Buffers
  <2>1. \A i \in DOMAIN pendingBlocks : pendingBlocks[i] \in Buffers
    OBVIOUS
  <2>2. ps \subseteq DOMAIN pendingBlocks
    OBVIOUS
  <2>. QED
    BY <2>1, <2>2
<1>. DEFINE q == [i \in DOMAIN at |-> pendingBlocks[at[i]]]
<1>5. q \in [1 .. Cardinality(ps) -> Buffers]
  <2>. HIDE DEF ps, at
  <2>. QED
    BY <1>2, <1>4
<1>6. q \in Seq(Buffers)
  <2>. HIDE DEF ps, q
  <2>. QED
    BY <1>3, <1>5
<1>. QED
  BY <1>6 DEF Searched

-----------------------------------------------------------------------------
(* The numbers of the works and the buffers.                               *)

\* Neither stands for none.
LEMMA NothingIsNone == NoWork \notin Works /\ NoBuffer \notin Buffers /\ Works \subseteq Nat
<1>1. NoBuffer \notin Buffers
  BY DEF NoBuffer, Buffers, Slots
<1>2. NoWork \notin Works /\ Works \subseteq Nat
  BY DEF NoWork, Works
<1>. QED
  BY <1>1, <1>2

\* A slot with a render target for the packet.
LEMMA FetchedBuffer ==
    ASSUME NEW x \in Slots, NEW w
    PROVE  <<x, SizeOf(w)>> \in Buffers
BY DEF SizeOf, Buffers

-----------------------------------------------------------------------------
(* The references.                                                         *)

RefTypes ==
    /\ active \in [Buffers -> Works \cup {NoWork}]
    /\ refBuf \in [Works -> Buffers \cup {NoBuffer}]
    /\ heap \subseteq Works /\ surfaces \subseteq Works

\* Pictures are works.
LEMMA PicturesAreWorks == Typed => Pictures \subseteq Works
BY NothingIsNone DEF Typed, Pictures, Live

\* When the AVFrames of some pictures go, their references go with them.
LEMMA ReleaseRefs ==
    ASSUME RefTypes, BuffersHeld, ReferencesAccounted, Pictures \subseteq Works,
           NEW live \in SUBSET Pictures, ReleaseDecoderSurfaceReference(Dropped(live), {}),
           Pictures' = live
    PROVE  RefTypes' /\ BuffersHeld' /\ ReferencesAccounted'
<1>. DEFINE ws == Dropped(live)
<1>1. ws = Direct(Pictures \ live) /\ ws \subseteq heap /\ ws \subseteq Works /\ ws \cap live = {}
  BY DEF Dropped, Direct, ReferencesAccounted
<1>2. /\ surfaces' = surfaces \ ws /\ heap' = heap \ ws
      /\ active' = [b \in Buffers |-> IF active[b] \in ws THEN NoWork ELSE active[b]]
      /\ refBuf' = [w \in Works |-> IF w \in ws THEN NoBuffer ELSE refBuf[w]]
  <2>1. ws \cup {} = ws
    OBVIOUS
  <2>. HIDE DEF ws
  <2>. QED
    BY <2>1 DEF ReleaseDecoderSurfaceReference, ActiveWithout, ws
<1>3. ~freedTwice'
  BY <1>1 DEF ReleaseDecoderSurfaceReference, ReferencesAccounted
<1>4. heap' = Direct(Pictures)'
  <2>1. heap = {w \in Pictures : refBuf[w] # NoBuffer}
    BY DEF ReferencesAccounted, Direct
  <2>2. ws = {w \in Pictures \ live : refBuf[w] # NoBuffer}
    BY <1>1 DEF Direct
  <2>3. \A w \in live : refBuf'[w] = refBuf[w]
    BY <1>1, <1>2
  <2>4. {w \in live : refBuf'[w] # NoBuffer} = {w \in live : refBuf[w] # NoBuffer}
    BY <2>3
  <2>5. heap \ ws = {w \in live : refBuf[w] # NoBuffer}
    BY <2>1, <2>2
  <2>. HIDE DEF ws
  <2>. QED
    BY <1>2, <2>4, <2>5 DEF Direct
<1>. HIDE DEF ws
<1>5. RefTypes'
  BY <1>2 DEF RefTypes
<1>6. BuffersHeld'
  BY <1>2 DEF BuffersHeld
<1>7. \A b \in Buffers, w \in Works : active'[b] = w <=> w \in heap' /\ refBuf'[w] = b
  <2>. SUFFICES ASSUME NEW b \in Buffers, NEW w \in Works
                PROVE  active'[b] = w <=> w \in heap' /\ refBuf'[w] = b
    OBVIOUS
  <2>1. active[b] = w <=> w \in heap /\ refBuf[w] = b
    BY DEF ReferencesAccounted
  <2>2. /\ active'[b] = IF active[b] \in ws THEN NoWork ELSE active[b]
        /\ refBuf'[w] = IF w \in ws THEN NoBuffer ELSE refBuf[w]
    BY <1>2
  <2>3. CASE w \in ws
    BY <1>2, <2>2, <2>3, NothingIsNone
  <2>4. CASE w \notin ws
    BY <1>2, <2>1, <2>2, <2>4, NothingIsNone
  <2>. QED
    BY <2>3, <2>4
<1>8. surfaces' = heap'
  BY <1>2 DEF ReferencesAccounted
<1>. QED
  BY <1>3, <1>4, <1>5, <1>6, <1>7, <1>8 DEF ReferencesAccounted

\* A step that leaves the references and the direct pictures alone.
LEMMA RefsUnchanged ==
    ASSUME RefTypes, BuffersHeld, ReferencesAccounted, UNCHANGED references,
           Direct(Pictures)' = Direct(Pictures)
    PROVE  RefTypes' /\ BuffersHeld' /\ ReferencesAccounted'
BY DEF RefTypes, BuffersHeld, ReferencesAccounted, references

\* The codec, the session and the references are the same.
LEMMA PicturesUnchanged ==
    ASSUME UNCHANGED <<dpb, ready, frame, refBuf>>
    PROVE  Pictures' = Pictures /\ Direct(Pictures)' = Direct(Pictures)
BY DEF Pictures, Live, Direct

\* A picture without a surface of the session enters the codec.
LEMMA EntersPrivate ==
    ASSUME Typed, Numbered, BuffersHeld, ReferencesAccounted, Enters, inPkt # NoWork,
           UNCHANGED <<ready, frame, refBuf>>
    PROVE  Pictures' = Pictures \cup {inPkt} /\ Direct(Pictures)' = Direct(Pictures)
<1>1. Pictures' = Pictures \cup {inPkt}
  BY DEF Enters, Pictures, Live
<1>2. refBuf[inPkt] = NoBuffer
  <2>1. inPkt \in Works /\ inPkt \notin heap
    BY DEF Typed, Numbered, ReferencesAccounted, Direct
  <2>. QED
    BY <2>1 DEF BuffersHeld
<1>. QED
  BY <1>1, <1>2 DEF Direct

\* The picture gets a surface of the session, in a buffer that nobody has.
LEMMA ImportRefs ==
    ASSUME Typed, InTurn, Numbered, TargetIsFree, BuffersHeld, ReferencesAccounted, Import
    PROVE  RefTypes' /\ BuffersHeld' /\ ReferencesAccounted'
<1>1. inPkt \in Works /\ inPkt \notin heap /\ inPkt \notin Pictures /\ inPkt # NoWork
  BY DEF Typed, Numbered, ReferencesAccounted, Direct, InTurn, Import
<1>2. target \in Buffers /\ active[target] = NoWork /\ target # NoBuffer
  BY NothingIsNone DEF TargetIsFree, Import
<1>3. /\ heap' = heap \cup {inPkt} /\ surfaces' = surfaces \cup {inPkt}
      /\ active' = [active EXCEPT ![target] = inPkt]
      /\ refBuf' = [refBuf EXCEPT ![inPkt] = target]
      /\ UNCHANGED freedTwice
  BY <1>2 DEF Import, IsActive
<1>4. Pictures' = Pictures \cup {inPkt}
  BY <1>1 DEF Import, Enters, Pictures, Live
<1>5. RefTypes'
  BY <1>1, <1>2, <1>3 DEF Typed, RefTypes
<1>6. /\ \A w \in Works : refBuf'[w] = IF w = inPkt THEN target ELSE refBuf[w]
      /\ \A b \in Buffers : active'[b] = IF b = target THEN inPkt ELSE active[b]
  BY <1>3 DEF Typed
<1>7. BuffersHeld'
  BY <1>3, <1>6 DEF BuffersHeld
<1>8. heap' = Direct(Pictures)'
  <2>1. heap = {w \in Pictures : refBuf[w] # NoBuffer} /\ Pictures \subseteq Works
    BY PicturesAreWorks DEF ReferencesAccounted, Direct
  <2>2. {w \in Pictures \cup {inPkt} : refBuf'[w] # NoBuffer} = heap \cup {inPkt}
    BY <1>1, <1>2, <1>6, <2>1
  <2>. QED
    BY <1>3, <1>4, <2>2 DEF Direct
<1>9. \A b \in Buffers, w \in Works : active'[b] = w <=> w \in heap' /\ refBuf'[w] = b
  <2>. SUFFICES ASSUME NEW b \in Buffers, NEW w \in Works
                PROVE  active'[b] = w <=> w \in heap' /\ refBuf'[w] = b
    OBVIOUS
  <2>1. active[b] = w <=> w \in heap /\ refBuf[w] = b
    BY DEF ReferencesAccounted
  <2>2. active[target] = w <=> w \in heap /\ refBuf[w] = target
    BY <1>2 DEF ReferencesAccounted
  <2>3. active[b] # inPkt
    BY <1>1 DEF ReferencesAccounted
  <2>. QED
    BY <1>1, <1>2, <1>3, <1>6, <2>1, <2>2, <2>3, NothingIsNone
<1>. QED
  BY <1>3, <1>5, <1>7, <1>8, <1>9 DEF ReferencesAccounted

\* A codec that is flushed or freed has no picture.
LEMMA FlushPictures ==
    ASSUME FlushCodec
    PROVE  Pictures' = {}
BY DEF FlushCodec, Pictures, Live

\* An error leaves the pictures alone, or a WITH_EOS drain flushes them.
LEMMA FailsRefs ==
    ASSUME Typed, BuffersHeld, ReferencesAccounted, NEW fault, Fails(fault)
    PROVE  RefTypes' /\ BuffersHeld' /\ ReferencesAccounted'
<1>1. RefTypes /\ Pictures \subseteq Works
  BY PicturesAreWorks DEF Typed, RefTypes
<1>2. CASE after = "drainEos"
  <2>1. ReleaseDecoderSurfaceReference(Dropped({}), {}) /\ FlushCodec
    BY <1>2 DEF Fails
  <2>. QED
    BY <1>1, <2>1, FlushPictures, ReleaseRefs
<1>3. CASE after # "drainEos"
  <2>1. ReleaseDecoderSurfaceReference({}, {}) /\ UNCHANGED <<dpb, ready, frame>>
    BY <1>3 DEF Fails, codec
  <2>2. Dropped(Pictures) = {} /\ Pictures' = Pictures
    BY <2>1 DEF Dropped, Direct, Pictures, Live
  <2>. QED
    BY <1>1, <2>1, <2>2, ReleaseRefs
<1>. QED
  BY <1>2, <1>3

\* Close releases by hand what its AVBuffers have not: nothing.
LEMMA ResetRefs ==
    ASSUME Typed, BuffersHeld, ReferencesAccounted, Reset
    PROVE  RefTypes' /\ BuffersHeld' /\ ReferencesAccounted'
<1>1. RefTypes /\ Pictures \subseteq Works
  BY PicturesAreWorks DEF Typed, RefTypes
<1>2. LeftAtReset = {}
  <2>1. Pictures \ {} = Pictures
    OBVIOUS
  <2>2. Dropped({}) = Direct(Pictures)
    BY <2>1 DEF Dropped
  <2>. QED
    BY <2>2 DEF LeftAtReset, ReferencesAccounted
<1>3. ReleaseDecoderSurfaceReference(Dropped({}), {}) /\ FlushCodec
  BY <1>2 DEF Reset
<1>. QED
  BY <1>1, <1>3, FlushPictures, ReleaseRefs

\* Every step keeps the references in agreement with the pictures.
LEMMA RefsStep ==
    ASSUME Typed, InTurn, Numbered, TargetIsFree, BuffersHeld, ReferencesAccounted, [Next]_vars
    PROVE  RefTypes' /\ BuffersHeld' /\ ReferencesAccounted'
<1>0. RefTypes /\ Pictures \subseteq Works
  BY PicturesAreWorks DEF Typed, RefTypes
<1>1. CASE \E k \in {"frame", "frameEos", "eos"} : Process(k)
  <2>1. UNCHANGED references /\ UNCHANGED <<dpb, ready, frame>>
    BY <1>1 DEF Process, Idle, SetDecoderBlockPool, codec, references, client, budget
  <2>. QED
    BY <1>0, <2>1, PicturesUnchanged, RefsUnchanged DEF references
<1>2. CASE \E eos \in BOOLEAN : ProcessNothing(eos)
  <2>1. UNCHANGED references /\ UNCHANGED <<dpb, ready, frame>>
    BY <1>2 DEF ProcessNothing, Idle, SetDecoderBlockPool, codec, references, call, budget
  <2>. QED
    BY <1>0, <2>1, PicturesUnchanged, RefsUnchanged DEF references
<1>3. CASE ProcessRefused
  <2>1. UNCHANGED references /\ UNCHANGED <<dpb, ready, frame>>
    BY <1>3 DEF ProcessRefused, Idle, codec, references, blocks, call, budget
  <2>. QED
    BY <1>0, <2>1, PicturesUnchanged, RefsUnchanged DEF references
<1>4. CASE \E withEos \in BOOLEAN : ClientDrains(withEos)
  <2>1. UNCHANGED references /\ UNCHANGED <<dpb, ready, frame>>
    BY <1>4 DEF ClientDrains, Idle, codec, references, blocks, client
  <2>. QED
    BY <1>0, <2>1, PicturesUnchanged, RefsUnchanged DEF references
<1>5. CASE Flush
  <2>1. ReleaseDecoderSurfaceReference(Dropped({}), {}) /\ FlushCodec
    BY <1>5 DEF Flush, Keeps
  <2>. QED
    BY <1>0, <2>1, FlushPictures, ReleaseRefs
<1>6. CASE Reset
  BY <1>6, ResetRefs
<1>7. CASE PrepareFails
  BY <1>7, FailsRefs DEF PrepareFails
<1>8. CASE SendAgain
  <2>1. UNCHANGED references /\ UNCHANGED <<dpb, ready, frame>>
    BY <1>8 DEF SendAgain, codec, references, blocks, call, client, budget
  <2>. QED
    BY <1>0, <2>1, PicturesUnchanged, RefsUnchanged DEF references
<1>9. CASE Send
  <2>1. UNCHANGED references /\ UNCHANGED <<dpb, ready, frame>>
    BY <1>9 DEF Send, references, blocks, client, budget
  <2>. QED
    BY <1>0, <2>1, PicturesUnchanged, RefsUnchanged DEF references
<1>10. CASE Sent
  <2>1. UNCHANGED references /\ UNCHANGED <<dpb, ready, frame>>
    BY <1>10 DEF Sent, codec, references, blocks, client, budget
  <2>. QED
    BY <1>0, <2>1, PicturesUnchanged, RefsUnchanged DEF references
<1>11. CASE CodecTakesPacket
  <2>1. PICK gone \in SUBSET (dpb \cap shown) :
            /\ dpb' = dpb \ gone
            /\ Keeps(Live(dpb \ gone, ready, frame), hold, attached, slot)
    BY <1>11 DEF CodecTakesPacket
  <2>. DEFINE live == Live(dpb \ gone, ready, frame)
  <2>2. live \in SUBSET Pictures /\ Pictures' = live
    BY <1>11, <2>1 DEF Pictures, Live, CodecTakesPacket
  <2>3. ReleaseDecoderSurfaceReference(Dropped(live), {})
    BY <2>1 DEF Keeps
  <2>. HIDE DEF live
  <2>. QED
    BY <1>0, <2>2, <2>3, ReleaseRefs
<1>12. CASE CodecFails
  <2>1. UNCHANGED references /\ UNCHANGED <<dpb, ready, frame>>
    BY <1>12 DEF CodecFails, references, blocks, call, client
  <2>. QED
    BY <1>0, <2>1, PicturesUnchanged, RefsUnchanged DEF references
<1>13. CASE CallFailed
  BY <1>13, FailsRefs DEF CallFailed
<1>14. CASE CodecOutputs
  <2>1. UNCHANGED references /\ Pictures' = Pictures
    BY <1>14 DEF CodecOutputs, Pictures, Live, InTurn, references
  <2>2. Direct(Pictures)' = Direct(Pictures)
    BY <2>1 DEF Direct, references
  <2>. QED
    BY <1>0, <2>1, <2>2, RefsUnchanged
<1>15. CASE AcquirePending
  <2>1. UNCHANGED references /\ UNCHANGED <<dpb, ready, frame>>
    BY <1>15 DEF AcquirePending, codec, references, call, client, budget
  <2>. QED
    BY <1>0, <2>1, PicturesUnchanged, RefsUnchanged DEF references
<1>16. CASE AcquireFetch
  <2>1. UNCHANGED references /\ UNCHANGED <<dpb, ready, frame>>
    BY <1>16 DEF AcquireFetch, codec, references, call, client, budget
  <2>. QED
    BY <1>0, <2>1, PicturesUnchanged, RefsUnchanged DEF references
<1>17. CASE AcquireDisabled
  <2>1. UNCHANGED references /\ UNCHANGED <<ready, frame>> /\ Enters /\ inPkt # NoWork
    BY <1>17 DEF AcquireDisabled, references, InTurn
  <2>. QED
    BY <1>0, <2>1, EntersPrivate, RefsUnchanged DEF references
<1>18. CASE AcquireFails
  <2>1. UNCHANGED references /\ UNCHANGED <<ready, frame>> /\ Enters /\ inPkt # NoWork
    BY <1>18 DEF AcquireFails, references, InTurn
  <2>. QED
    BY <1>0, <2>1, EntersPrivate, RefsUnchanged DEF references
<1>19. CASE Import
  BY <1>19, ImportRefs
<1>20. CASE ImportFails
  <2>1. UNCHANGED references /\ UNCHANGED <<ready, frame>> /\ Enters /\ inPkt # NoWork
    BY <1>20 DEF ImportFails, references, InTurn
  <2>. QED
    BY <1>0, <2>1, EntersPrivate, RefsUnchanged DEF references
<1>21. CASE Decode
  <2>1. UNCHANGED references /\ Pictures' = Pictures
    BY <1>21 DEF Decode, Pictures, Live, InTurn, references
  <2>2. Direct(Pictures)' = Direct(Pictures)
    BY <2>1 DEF Direct, references
  <2>. QED
    BY <1>0, <2>1, <2>2, RefsUnchanged
<1>22. CASE StartLoop
  <2>1. UNCHANGED references /\ UNCHANGED <<dpb, ready, frame>>
    BY <1>22 DEF StartLoop, SetDecoderBlockPool, codec, references, client, budget, call
  <2>. QED
    BY <1>0, <2>1, PicturesUnchanged, RefsUnchanged DEF references
<1>23. CASE Receive
  <2>. DEFINE live == Live(dpb, ready, NoWork)
  <2>1. live \in SUBSET Pictures /\ Pictures' = live
    BY <1>23 DEF Pictures, Live, Receive, codec
  <2>2. ReleaseDecoderSurfaceReference(Dropped(live), {})
    BY <1>23 DEF Receive, Keeps
  <2>. HIDE DEF live
  <2>. QED
    BY <1>0, <2>1, <2>2, ReleaseRefs
<1>24. CASE Received
  <2>1. UNCHANGED references /\ Pictures' = Pictures
    BY <1>24 DEF Received, Pictures, Live, InTurn, references
  <2>2. Direct(Pictures)' = Direct(Pictures)
    BY <2>1 DEF Direct, references
  <2>. QED
    BY <1>0, <2>1, <2>2, RefsUnchanged
<1>25. CASE OutputDirect
  <2>1. UNCHANGED references /\ UNCHANGED <<dpb, ready, frame>>
    BY <1>25 DEF OutputDirect, FinishOutput, codec, references, blocks, call, budget
  <2>. QED
    BY <1>0, <2>1, PicturesUnchanged, RefsUnchanged DEF references
<1>26. CASE OutputByCopy
  <2>1. UNCHANGED references /\ UNCHANGED <<dpb, ready, frame>>
    BY <1>26 DEF OutputByCopy, codec, references, call, client
  <2>. QED
    BY <1>0, <2>1, PicturesUnchanged, RefsUnchanged DEF references
<1>27. CASE CopyFetch
  <2>1. UNCHANGED references /\ UNCHANGED <<dpb, ready, frame>>
    BY <1>27 DEF CopyFetch, codec, references, blocks, call, client, budget
  <2>. QED
    BY <1>0, <2>1, PicturesUnchanged, RefsUnchanged DEF references
<1>28. CASE CopyBlocked
  BY <1>28, FailsRefs DEF CopyBlocked
<1>29. CASE Copy
  <2>1. UNCHANGED references /\ UNCHANGED <<dpb, ready, frame>>
    BY <1>29 DEF Copy, FinishOutput, codec, references, blocks, call, budget
  <2>. QED
    BY <1>0, <2>1, PicturesUnchanged, RefsUnchanged DEF references
<1>30. CASE OutputFails
  BY <1>30, FailsRefs DEF OutputFails
<1>31. CASE PublishHeld
  <2>1. UNCHANGED references /\ UNCHANGED <<dpb, ready, frame>>
    BY <1>31 DEF PublishHeld, FinishOutput, codec, references, blocks, call, budget
  <2>. QED
    BY <1>0, <2>1, PicturesUnchanged, RefsUnchanged DEF references
<1>32. CASE FinishWork
  <2>1. UNCHANGED references /\ UNCHANGED <<dpb, ready, frame>>
    BY <1>32 DEF FinishWork, EndWork, Rest, codec, references, blocks, budget
  <2>. QED
    BY <1>0, <2>1, PicturesUnchanged, RefsUnchanged DEF references
<1>33. CASE DrainEnds
  <2>1. CASE after = "drainEos"
    <3>1. ReleaseDecoderSurfaceReference(Dropped({}), {}) /\ FlushCodec
      BY <1>33, <2>1 DEF DrainEnds, Keeps
    <3>. QED
      BY <1>0, <3>1, FlushPictures, ReleaseRefs
  <2>2. CASE after # "drainEos"
    <3>1. UNCHANGED references /\ UNCHANGED <<dpb, ready, frame>>
      BY <1>33, <2>2 DEF DrainEnds, codec
    <3>. QED
      BY <1>0, <3>1, PicturesUnchanged, RefsUnchanged DEF references
  <2>. QED
    BY <2>1, <2>2
<1>34. CASE ClientReturns
  <2>1. UNCHANGED references /\ UNCHANGED <<dpb, ready, frame>>
    BY <1>34 DEF ClientReturns, codec, references, blocks, call, client, budget
  <2>. QED
    BY <1>0, <2>1, PicturesUnchanged, RefsUnchanged DEF references
<1>35. CASE ClientChangesPool
  <2>1. UNCHANGED references /\ UNCHANGED <<dpb, ready, frame>>
    BY <1>35 DEF ClientChangesPool, Idle, codec, references, blocks, call
  <2>. QED
    BY <1>0, <2>1, PicturesUnchanged, RefsUnchanged DEF references
<1>36. CASE UNCHANGED vars
  <2>1. UNCHANGED references /\ UNCHANGED <<dpb, ready, frame>>
    BY <1>36 DEF vars, codec, references, blocks, call, client, budget
  <2>. QED
    BY <1>0, <2>1, PicturesUnchanged, RefsUnchanged DEF references
<1>. QED
  BY <1>1, <1>2, <1>3, <1>4, <1>5, <1>6, <1>7, <1>8, <1>9, <1>10, <1>11, <1>12, <1>13, <1>14,
     <1>15, <1>16, <1>17, <1>18, <1>19, <1>20, <1>21, <1>22, <1>23, <1>24, <1>25, <1>26, <1>27,
     <1>28, <1>29, <1>30, <1>31, <1>32, <1>33, <1>34, <1>35, <1>36
     DEF Next, Step

-----------------------------------------------------------------------------
(* The codec and the call.                                                 *)

CodecTypes ==
    /\ inPkt \in Works \cup {NoWork} /\ ready \in Works \cup {NoWork}
    /\ frame \in Works \cup {NoWork} /\ cur \in Works \cup {NoWork}
    /\ dpb \subseteq Works /\ shown \subseteq dpb
    /\ nextWork \in Nat \ {0}

\* The types are those of the codec, of the references and of the kept blocks.
LEMMA TypedParts == Typed <=> CodecTypes /\ RefTypes /\ pendingBlocks \in Seq(Buffers)
BY DEF Typed, CodecTypes, RefTypes

\* An error ends the work and may flush the codec.
LEMMA FailsTypes ==
    ASSUME CodecTypes, NEW fault, Fails(fault)
    PROVE  CodecTypes'
<1>1. nextWork' \in Nat \ {0}
  <2>1. CASE cur # NoWork
    BY <2>1, NothingIsNone DEF Fails, EndWork, CodecTypes
  <2>2. CASE cur = NoWork
    BY <2>2 DEF Fails, CodecTypes
  <2>. QED
    BY <2>1, <2>2
<1>2. CASE after = "drainEos"
  BY <1>1, <1>2 DEF Fails, FlushCodec, Rest, CodecTypes
<1>3. CASE after # "drainEos"
  BY <1>1, <1>3 DEF Fails, codec, Rest, CodecTypes
<1>. QED
  BY <1>2, <1>3

\* Every step keeps the works in their range.
LEMMA CodecTypesStep ==
    ASSUME CodecTypes, InTurn, [Next]_vars
    PROVE  CodecTypes'
<1>1. CASE \E k \in {"frame", "frameEos", "eos"} : Process(k)
  BY <1>1, PoolAssumption DEF Process, Idle, SetDecoderBlockPool, codec, references, client,
           budget, CodecTypes, Works
<1>2. CASE \E eos \in BOOLEAN : ProcessNothing(eos)
  BY <1>2 DEF ProcessNothing, Idle, SetDecoderBlockPool, codec, references, call, budget,
           CodecTypes
<1>3. CASE ProcessRefused
  BY <1>3 DEF ProcessRefused, Idle, codec, references, blocks, call, budget, CodecTypes
<1>4. CASE \E withEos \in BOOLEAN : ClientDrains(withEos)
  BY <1>4 DEF ClientDrains, Idle, codec, references, blocks, client, CodecTypes
<1>5. CASE Flush
  BY <1>5 DEF Flush, Idle, FlushCodec, Keeps, Reopened, blocks, call, CodecTypes
<1>6. CASE Reset
  BY <1>6 DEF Reset, Idle, FlushCodec, Reopened, call, CodecTypes
<1>7. CASE PrepareFails
  BY <1>7, FailsTypes DEF PrepareFails
<1>8. CASE SendAgain
  BY <1>8 DEF SendAgain, codec, references, blocks, call, client, budget, CodecTypes
<1>9. CASE Send
  BY <1>9 DEF Send, references, blocks, client, budget, CodecTypes
<1>10. CASE Sent
  BY <1>10 DEF Sent, codec, references, blocks, client, budget, CodecTypes
<1>11. CASE CodecTakesPacket
  BY <1>11 DEF CodecTakesPacket, Keeps, blocks, call, client, budget, CodecTypes
<1>12. CASE CodecFails
  BY <1>12 DEF CodecFails, references, blocks, call, client, CodecTypes
<1>13. CASE CallFailed
  BY <1>13, FailsTypes DEF CallFailed
<1>14. CASE CodecOutputs
  BY <1>14 DEF CodecOutputs, references, blocks, call, client, budget, CodecTypes
<1>15. CASE AcquirePending
  BY <1>15 DEF AcquirePending, codec, references, call, client, budget, CodecTypes
<1>16. CASE AcquireFetch
  BY <1>16 DEF AcquireFetch, codec, references, call, client, budget, CodecTypes
<1>17. CASE AcquireDisabled
  BY <1>17 DEF AcquireDisabled, Enters, references, blocks, call, client, budget, CodecTypes, InTurn
<1>18. CASE AcquireFails
  BY <1>18 DEF AcquireFails, Enters, references, call, client, CodecTypes, InTurn
<1>19. CASE Import
  BY <1>19 DEF Import, Enters, blocks, call, client, budget, CodecTypes, InTurn
<1>20. CASE ImportFails
  BY <1>20 DEF ImportFails, Enters, references, call, client, CodecTypes, InTurn
<1>21. CASE Decode
  BY <1>21 DEF Decode, references, blocks, call, client, budget, CodecTypes
<1>22. CASE StartLoop
  BY <1>22 DEF StartLoop, SetDecoderBlockPool, codec, references, client, budget, call, CodecTypes
<1>23. CASE Receive
  BY <1>23 DEF Receive, Keeps, codec, blocks, client, budget, CodecTypes
<1>24. CASE Received
  BY <1>24 DEF Received, references, blocks, call, client, budget, CodecTypes
<1>25. CASE OutputDirect
  BY <1>25 DEF OutputDirect, FinishOutput, codec, references, blocks, call, budget, CodecTypes
<1>26. CASE OutputByCopy
  BY <1>26 DEF OutputByCopy, codec, references, call, client, CodecTypes
<1>27. CASE CopyFetch
  BY <1>27 DEF CopyFetch, codec, references, blocks, call, client, budget, CodecTypes
<1>28. CASE CopyBlocked
  BY <1>28, FailsTypes DEF CopyBlocked
<1>29. CASE Copy
  BY <1>29 DEF Copy, FinishOutput, codec, references, blocks, call, budget, CodecTypes
<1>30. CASE OutputFails
  BY <1>30, FailsTypes DEF OutputFails
<1>31. CASE PublishHeld
  BY <1>31 DEF PublishHeld, FinishOutput, codec, references, blocks, call, budget, CodecTypes
<1>32. CASE FinishWork
  BY <1>32, NothingIsNone DEF FinishWork, EndWork, Rest, codec, references, blocks, budget,
           CodecTypes, InTurn
<1>33. CASE DrainEnds
  BY <1>33 DEF DrainEnds, FlushCodec, Keeps, Rest, codec, references, blocks, client, budget,
           CodecTypes
<1>34. CASE ClientReturns
  BY <1>34 DEF ClientReturns, codec, references, blocks, call, client, budget, CodecTypes
<1>35. CASE ClientChangesPool
  BY <1>35 DEF ClientChangesPool, Idle, codec, references, blocks, call, CodecTypes
<1>36. CASE UNCHANGED vars
  BY <1>36 DEF vars, codec, references, blocks, call, client, budget, CodecTypes
<1>. QED
  BY <1>1, <1>2, <1>3, <1>4, <1>5, <1>6, <1>7, <1>8, <1>9, <1>10, <1>11, <1>12, <1>13, <1>14,
     <1>15, <1>16, <1>17, <1>18, <1>19, <1>20, <1>21, <1>22, <1>23, <1>24, <1>25, <1>26, <1>27,
     <1>28, <1>29, <1>30, <1>31, <1>32, <1>33, <1>34, <1>35, <1>36
     DEF Next, Step

\* The first usable block is one of them.
LEMMA MinIsElement ==
    ASSUME NEW T \in SUBSET Nat, T # {}
    PROVE  Min(T) \in T
<1>1. PICK m \in T : \A k \in T : ~(k < m)
  BY LeastNumber
<1>2. m \in T /\ \A k \in T : m <= k
  BY <1>1
<1>. QED
  BY <1>2 DEF Min

\* Every step keeps buffers in decoder_pending_blocks_.
LEMMA KeptStep ==
    ASSUME pendingBlocks \in Seq(Buffers), [Next]_vars
    PROVE  (pendingBlocks \in Seq(Buffers))'
<1>1. CASE \E k \in {"frame", "frameEos", "eos"} : Process(k)
  <2>1. pendingBlocks' = pendingBlocks \/ pendingBlocks' = <<>>
    BY <1>1 DEF Process, SetDecoderBlockPool
  <2>2. <<>> \in Seq(Buffers)
    OBVIOUS
  <2>. QED
    BY <2>1, <2>2
<1>2. CASE \E eos \in BOOLEAN : ProcessNothing(eos)
  <2>1. pendingBlocks' = pendingBlocks \/ pendingBlocks' = <<>>
    BY <1>2 DEF ProcessNothing, SetDecoderBlockPool
  <2>2. <<>> \in Seq(Buffers)
    OBVIOUS
  <2>. QED
    BY <2>1, <2>2
<1>3. CASE ProcessRefused
  BY <1>3 DEF ProcessRefused, Idle, codec, references, blocks, call, budget
<1>4. CASE \E withEos \in BOOLEAN : ClientDrains(withEos)
  BY <1>4 DEF ClientDrains, Idle, codec, references, blocks, client
<1>5. CASE Flush
  BY <1>5 DEF Flush, Idle, FlushCodec, Keeps, Reopened, blocks, call
<1>6. CASE Reset
  BY <1>6 DEF Reset
<1>7. CASE PrepareFails
  BY <1>7 DEF PrepareFails, Fails, EndWork, FlushCodec, Rest, codec, blocks
<1>8. CASE SendAgain
  BY <1>8 DEF SendAgain, codec, references, blocks, call, client, budget
<1>9. CASE Send
  BY <1>9 DEF Send, references, blocks, client, budget
<1>10. CASE Sent
  BY <1>10 DEF Sent, codec, references, blocks, client, budget
<1>11. CASE CodecTakesPacket
  BY <1>11 DEF CodecTakesPacket, Keeps, blocks, call, client, budget
<1>12. CASE CodecFails
  BY <1>12 DEF CodecFails, references, blocks, call, client
<1>13. CASE CallFailed
  BY <1>13 DEF CallFailed, Fails, EndWork, FlushCodec, Rest, codec, blocks
<1>14. CASE CodecOutputs
  BY <1>14 DEF CodecOutputs, references, blocks, call, client, budget
<1>15. CASE AcquirePending
  <2>1. Usable \subseteq Nat /\ Usable # {}
    <3>1. Len(pendingBlocks) \in Nat
      OBVIOUS
    <3>2. Usable \subseteq Nat
      BY <3>1 DEF Usable
    <3>. QED
      BY <1>15, <3>2 DEF AcquirePending
  <2>2. Min(Usable) \in Usable
    BY <2>1, MinIsElement
  <2>. DEFINE i == Min(Usable)
  <2>3. i \in 1 .. Len(pendingBlocks)
    BY <2>2 DEF Usable
  <2>4. pendingBlocks' = Searched(i - 1) \o SubSeq(pendingBlocks, i + 1, Len(pendingBlocks))
    BY <1>15 DEF AcquirePending
  <2>. HIDE DEF i
  <2>5. i - 1 \in Nat /\ i - 1 <= Len(pendingBlocks) /\ i + 1 \in Nat
    BY <2>3
  <2>6. Searched(i - 1) \in Seq(Buffers)
    BY <2>5, SearchedType
  <2>7. SubSeq(pendingBlocks, i + 1, Len(pendingBlocks)) \in Seq(Buffers)
    BY <2>3, <2>5
  <2>. QED
    BY <2>4, <2>6, <2>7
<1>16. CASE AcquireFetch
  <2>1. Len(pendingBlocks) \in Nat /\ Searched(Len(pendingBlocks)) \in Seq(Buffers)
    BY SearchedType
  <2>2. PICK x \in Slots :
            \/ pendingBlocks' = Append(Searched(Len(pendingBlocks)), <<x, SizeOf(inPkt)>>)
            \/ pendingBlocks' = Searched(Len(pendingBlocks))
    BY <1>16 DEF AcquireFetch
  <2>3. <<x, SizeOf(inPkt)>> \in Buffers
    BY FetchedBuffer
  <2>4. Append(Searched(Len(pendingBlocks)), <<x, SizeOf(inPkt)>>) \in Seq(Buffers)
    BY <2>1, <2>3, AppendedType
  <2>. QED
    BY <2>1, <2>2, <2>4
<1>17. CASE AcquireDisabled
  BY <1>17 DEF AcquireDisabled, Enters, references, blocks, call, client, budget
<1>18. CASE AcquireFails
  <2>1. Len(pendingBlocks) \in Nat /\ Searched(Len(pendingBlocks)) \in Seq(Buffers)
    BY SearchedType
  <2>. QED
    BY <1>18, <2>1 DEF AcquireFails
<1>19. CASE Import
  BY <1>19 DEF Import, Enters, blocks, call, client, budget
<1>20. CASE ImportFails
  BY <1>20 DEF ImportFails, Enters, references, call, client
<1>21. CASE Decode
  BY <1>21 DEF Decode, references, blocks, call, client, budget
<1>22. CASE StartLoop
  <2>1. pendingBlocks' = pendingBlocks \/ pendingBlocks' = <<>>
    BY <1>22 DEF StartLoop, SetDecoderBlockPool
  <2>2. <<>> \in Seq(Buffers)
    OBVIOUS
  <2>. QED
    BY <2>1, <2>2
<1>23. CASE Receive
  BY <1>23 DEF Receive, Keeps, codec, blocks, client, budget
<1>24. CASE Received
  BY <1>24 DEF Received, references, blocks, call, client, budget
<1>25. CASE OutputDirect
  BY <1>25 DEF OutputDirect, FinishOutput, codec, references, blocks, call, budget
<1>26. CASE OutputByCopy
  BY <1>26 DEF OutputByCopy, codec, references, call, client
<1>27. CASE CopyFetch
  BY <1>27 DEF CopyFetch, codec, references, blocks, call, client, budget
<1>28. CASE CopyBlocked
  BY <1>28 DEF CopyBlocked, Fails, EndWork, FlushCodec, Rest, codec, blocks
<1>29. CASE Copy
  BY <1>29 DEF Copy, FinishOutput, codec, references, blocks, call, budget
<1>30. CASE OutputFails
  BY <1>30 DEF OutputFails, Fails, EndWork, FlushCodec, Rest, codec, blocks
<1>31. CASE PublishHeld
  BY <1>31 DEF PublishHeld, FinishOutput, codec, references, blocks, call, budget
<1>32. CASE FinishWork
  BY <1>32 DEF FinishWork, EndWork, Rest, codec, references, blocks, budget
<1>33. CASE DrainEnds
  BY <1>33 DEF DrainEnds, FlushCodec, Keeps, Rest, codec, references, blocks, client, budget
<1>34. CASE ClientReturns
  BY <1>34 DEF ClientReturns, codec, references, blocks, call, client, budget
<1>35. CASE ClientChangesPool
  BY <1>35 DEF ClientChangesPool, Idle, codec, references, blocks, call
<1>36. CASE UNCHANGED vars
  BY <1>36 DEF vars, codec, references, blocks, call, client, budget
<1>. QED
  BY <1>1, <1>2, <1>3, <1>4, <1>5, <1>6, <1>7, <1>8, <1>9, <1>10, <1>11, <1>12, <1>13, <1>14,
     <1>15, <1>16, <1>17, <1>18, <1>19, <1>20, <1>21, <1>22, <1>23, <1>24, <1>25, <1>26, <1>27,
     <1>28, <1>29, <1>30, <1>31, <1>32, <1>33, <1>34, <1>35, <1>36
     DEF Next, Step

\* Every step leaves the call where its caller expects it.
LEMMA InTurnStep ==
    ASSUME CodecTypes, InTurn, [Next]_vars
    PROVE  InTurn'
<1>1. CASE \E k \in {"frame", "frameEos", "eos"} : Process(k)
  BY <1>1, NothingIsNone, PoolAssumption DEF Process, Idle, SetDecoderBlockPool, codec, references,
           client, budget, InTurn, CodecTypes, NoWork
<1>2. CASE \E eos \in BOOLEAN : ProcessNothing(eos)
  BY <1>2 DEF ProcessNothing, Idle, SetDecoderBlockPool, codec, references, call, budget, InTurn
<1>3. CASE ProcessRefused
  BY <1>3 DEF ProcessRefused, Idle, codec, references, blocks, call, budget, InTurn
<1>4. CASE \E withEos \in BOOLEAN : ClientDrains(withEos)
  BY <1>4 DEF ClientDrains, Idle, codec, references, blocks, client, InTurn
<1>5. CASE Flush
  BY <1>5 DEF Flush, Idle, FlushCodec, Keeps, Reopened, blocks, call, InTurn
<1>6. CASE Reset
  BY <1>6 DEF Reset, Idle, FlushCodec, Reopened, call, InTurn
<1>7. CASE PrepareFails
  <2>1. cpc' = "idle" /\ cur' = NoWork /\ after' = "none" /\ sending' = "none" /\ caller' = "none"
    BY <1>7 DEF PrepareFails, Fails, Rest
  <2>. QED
    BY <2>1 DEF InTurn
<1>8. CASE SendAgain
  BY <1>8 DEF SendAgain, codec, references, blocks, call, client, budget, InTurn
<1>9. CASE Send
  BY <1>9 DEF Send, references, blocks, client, budget, InTurn
<1>10. CASE Sent
  BY <1>10 DEF Sent, codec, references, blocks, client, budget, InTurn
<1>11. CASE CodecTakesPacket
  BY <1>11 DEF CodecTakesPacket, Keeps, blocks, call, client, budget, InTurn
<1>12. CASE CodecFails
  BY <1>12 DEF CodecFails, references, blocks, call, client, InTurn
<1>13. CASE CallFailed
  <2>1. cpc' = "idle" /\ cur' = NoWork /\ after' = "none" /\ sending' = "none" /\ caller' = "none"
    BY <1>13 DEF CallFailed, Fails, Rest
  <2>. QED
    BY <2>1 DEF InTurn
<1>14. CASE CodecOutputs
  BY <1>14 DEF CodecOutputs, references, blocks, call, client, budget, InTurn
<1>15. CASE AcquirePending
  BY <1>15 DEF AcquirePending, codec, references, call, client, budget, InTurn
<1>16. CASE AcquireFetch
  BY <1>16 DEF AcquireFetch, codec, references, call, client, budget, InTurn
<1>17. CASE AcquireDisabled
  BY <1>17 DEF AcquireDisabled, Enters, references, blocks, call, client, budget, InTurn
<1>18. CASE AcquireFails
  BY <1>18 DEF AcquireFails, Enters, references, call, client, InTurn
<1>19. CASE Import
  BY <1>19 DEF Import, Enters, blocks, call, client, budget, InTurn
<1>20. CASE ImportFails
  BY <1>20 DEF ImportFails, Enters, references, call, client, InTurn
<1>21. CASE Decode
  BY <1>21 DEF Decode, references, blocks, call, client, budget, InTurn
<1>22. CASE StartLoop
  BY <1>22 DEF StartLoop, SetDecoderBlockPool, codec, references, client, budget, call, InTurn
<1>23. CASE Receive
  BY <1>23 DEF Receive, Keeps, codec, blocks, client, budget, InTurn
<1>24. CASE Received
  BY <1>24 DEF Received, references, blocks, call, client, budget, InTurn
<1>25. CASE OutputDirect
  BY <1>25 DEF OutputDirect, FinishOutput, codec, references, blocks, call, budget, InTurn
<1>26. CASE OutputByCopy
  BY <1>26 DEF OutputByCopy, codec, references, call, client, InTurn
<1>27. CASE CopyFetch
  BY <1>27 DEF CopyFetch, codec, references, blocks, call, client, budget, InTurn
<1>28. CASE CopyBlocked
  <2>1. cpc' = "idle" /\ cur' = NoWork /\ after' = "none" /\ sending' = "none" /\ caller' = "none"
    BY <1>28 DEF CopyBlocked, Fails, Rest
  <2>. QED
    BY <2>1 DEF InTurn
<1>29. CASE Copy
  BY <1>29 DEF Copy, FinishOutput, codec, references, blocks, call, budget, InTurn
<1>30. CASE OutputFails
  <2>1. cpc' = "idle" /\ cur' = NoWork /\ after' = "none" /\ sending' = "none" /\ caller' = "none"
    BY <1>30 DEF OutputFails, Fails, Rest
  <2>. QED
    BY <2>1 DEF InTurn
<1>31. CASE PublishHeld
  BY <1>31 DEF PublishHeld, FinishOutput, codec, references, blocks, call, budget, InTurn
<1>32. CASE FinishWork
  BY <1>32 DEF FinishWork, EndWork, Rest, codec, references, blocks, budget, InTurn
<1>33. CASE DrainEnds
  BY <1>33 DEF DrainEnds, FlushCodec, Keeps, Rest, codec, references, blocks, client, budget, InTurn
<1>34. CASE ClientReturns
  BY <1>34 DEF ClientReturns, codec, references, blocks, call, client, budget, InTurn
<1>35. CASE ClientChangesPool
  BY <1>35 DEF ClientChangesPool, Idle, codec, references, blocks, call, InTurn
<1>36. CASE UNCHANGED vars
  BY <1>36 DEF vars, codec, references, blocks, call, client, budget, InTurn
<1>. QED
  BY <1>1, <1>2, <1>3, <1>4, <1>5, <1>6, <1>7, <1>8, <1>9, <1>10, <1>11, <1>12, <1>13, <1>14,
     <1>15, <1>16, <1>17, <1>18, <1>19, <1>20, <1>21, <1>22, <1>23, <1>24, <1>25, <1>26, <1>27,
     <1>28, <1>29, <1>30, <1>31, <1>32, <1>33, <1>34, <1>35, <1>36
     DEF Next, Step

\* Nobody takes the buffer between its choice and its surface.
LEMMA TargetStep ==
    ASSUME pendingBlocks \in Seq(Buffers), TargetIsFree, [Next]_vars
    PROVE  TargetIsFree'
<1>1. CASE \E k \in {"frame", "frameEos", "eos"} : Process(k)
  BY <1>1 DEF Process, Idle, SetDecoderBlockPool, codec, references, client, budget, TargetIsFree,
           Rest
<1>2. CASE \E eos \in BOOLEAN : ProcessNothing(eos)
  BY <1>2 DEF ProcessNothing, Idle, SetDecoderBlockPool, codec, references, call, budget,
           TargetIsFree, Rest
<1>3. CASE ProcessRefused
  BY <1>3 DEF ProcessRefused, Idle, codec, references, blocks, call, budget, TargetIsFree, Rest
<1>4. CASE \E withEos \in BOOLEAN : ClientDrains(withEos)
  BY <1>4 DEF ClientDrains, Idle, codec, references, blocks, client, TargetIsFree, Rest
<1>5. CASE Flush
  BY <1>5 DEF Flush, Idle, FlushCodec, Keeps, Reopened, blocks, call, TargetIsFree, Rest
<1>6. CASE Reset
  BY <1>6 DEF Reset, Idle, FlushCodec, Reopened, call, TargetIsFree, Rest
<1>7. CASE PrepareFails
  BY <1>7 DEF PrepareFails, Fails, Rest, TargetIsFree
<1>8. CASE SendAgain
  BY <1>8 DEF SendAgain, codec, references, blocks, call, client, budget, TargetIsFree, Rest
<1>9. CASE Send
  BY <1>9 DEF Send, references, blocks, client, budget, TargetIsFree, Rest
<1>10. CASE Sent
  BY <1>10 DEF Sent, codec, references, blocks, client, budget, TargetIsFree, Rest
<1>11. CASE CodecTakesPacket
  BY <1>11 DEF CodecTakesPacket, Keeps, blocks, call, client, budget, TargetIsFree, Rest
<1>12. CASE CodecFails
  BY <1>12 DEF CodecFails, references, blocks, call, client, TargetIsFree, Rest
<1>13. CASE CallFailed
  BY <1>13 DEF CallFailed, Fails, Rest, TargetIsFree
<1>14. CASE CodecOutputs
  BY <1>14 DEF CodecOutputs, references, blocks, call, client, budget, TargetIsFree, Rest
<1>15. CASE AcquirePending
  <2>1. Usable \subseteq Nat /\ Usable # {}
    <3>1. Len(pendingBlocks) \in Nat
      OBVIOUS
    <3>2. Usable \subseteq Nat
      BY <3>1 DEF Usable
    <3>. QED
      BY <1>15, <3>2 DEF AcquirePending
  <2>2. Min(Usable) \in Usable
    BY <2>1, MinIsElement
  <2>. DEFINE b == pendingBlocks[Min(Usable)]
  <2>3. b \in Buffers /\ active[b] = NoWork
    <3>1. Min(Usable) \in 1 .. Len(pendingBlocks) /\ ~IsActive(b)
      BY <2>2 DEF Usable
    <3>. QED
      BY <3>1 DEF IsActive
  <2>4. target' = b /\ UNCHANGED active
    BY <1>15 DEF AcquirePending, references
  <2>. QED
    BY <2>3, <2>4 DEF TargetIsFree
<1>16. CASE AcquireFetch
  <2>1. PICK x \in Slots :
            \/ UNCHANGED cpc
            \/ target' = <<x, SizeOf(inPkt)>> /\ ~IsActive(<<x, SizeOf(inPkt)>>)
    BY <1>16 DEF AcquireFetch
  <2>2. <<x, SizeOf(inPkt)>> \in Buffers
    BY FetchedBuffer
  <2>3. UNCHANGED active /\ cpc = "acquire"
    BY <1>16 DEF AcquireFetch, references
  <2>. QED
    BY <2>1, <2>2, <2>3 DEF TargetIsFree, IsActive
<1>17. CASE AcquireDisabled
  BY <1>17 DEF AcquireDisabled, Enters, references, blocks, call, client, budget, TargetIsFree, Rest
<1>18. CASE AcquireFails
  BY <1>18 DEF AcquireFails, Enters, references, call, client, TargetIsFree, Rest
<1>19. CASE Import
  BY <1>19 DEF Import, Enters, blocks, call, client, budget, TargetIsFree, Rest
<1>20. CASE ImportFails
  BY <1>20 DEF ImportFails, Enters, references, call, client, TargetIsFree, Rest
<1>21. CASE Decode
  BY <1>21 DEF Decode, references, blocks, call, client, budget, TargetIsFree, Rest
<1>22. CASE StartLoop
  BY <1>22 DEF StartLoop, SetDecoderBlockPool, codec, references, client, budget, call,
           TargetIsFree, Rest
<1>23. CASE Receive
  BY <1>23 DEF Receive, Keeps, codec, blocks, client, budget, TargetIsFree, Rest
<1>24. CASE Received
  BY <1>24 DEF Received, references, blocks, call, client, budget, TargetIsFree, Rest
<1>25. CASE OutputDirect
  BY <1>25 DEF OutputDirect, FinishOutput, codec, references, blocks, call, budget, TargetIsFree,
           Rest
<1>26. CASE OutputByCopy
  BY <1>26 DEF OutputByCopy, codec, references, call, client, TargetIsFree, Rest
<1>27. CASE CopyFetch
  BY <1>27 DEF CopyFetch, codec, references, blocks, call, client, budget, TargetIsFree, Rest
<1>28. CASE CopyBlocked
  BY <1>28 DEF CopyBlocked, Fails, Rest, TargetIsFree
<1>29. CASE Copy
  BY <1>29 DEF Copy, FinishOutput, codec, references, blocks, call, budget, TargetIsFree, Rest
<1>30. CASE OutputFails
  BY <1>30 DEF OutputFails, Fails, Rest, TargetIsFree
<1>31. CASE PublishHeld
  BY <1>31 DEF PublishHeld, FinishOutput, codec, references, blocks, call, budget, TargetIsFree,
           Rest
<1>32. CASE FinishWork
  BY <1>32 DEF FinishWork, EndWork, Rest, codec, references, blocks, budget, TargetIsFree
<1>33. CASE DrainEnds
  BY <1>33 DEF DrainEnds, FlushCodec, Keeps, Rest, codec, references, blocks, client, budget,
           TargetIsFree
<1>34. CASE ClientReturns
  BY <1>34 DEF ClientReturns, codec, references, blocks, call, client, budget, TargetIsFree
<1>35. CASE ClientChangesPool
  BY <1>35 DEF ClientChangesPool, Idle, codec, references, blocks, call, TargetIsFree, Rest
<1>36. CASE UNCHANGED vars
  BY <1>36 DEF vars, codec, references, blocks, call, client, budget, TargetIsFree
<1>. QED
  BY <1>1, <1>2, <1>3, <1>4, <1>5, <1>6, <1>7, <1>8, <1>9, <1>10, <1>11, <1>12, <1>13, <1>14,
     <1>15, <1>16, <1>17, <1>18, <1>19, <1>20, <1>21, <1>22, <1>23, <1>24, <1>25, <1>26, <1>27,
     <1>28, <1>29, <1>30, <1>31, <1>32, <1>33, <1>34, <1>35, <1>36
     DEF Next, Step

\* A step that adds no picture and sends nothing.
LEMMA NumberedUnchanged ==
    ASSUME Numbered, Pictures' \subseteq Pictures, inPkt' \in {inPkt, NoWork},
           UNCHANGED <<nextWork, cur>>, Waiting' => Waiting
    PROVE  Numbered'
<1>1. NoWork \notin Pictures'
  BY DEF Pictures, Live
<1>. QED
  BY <1>1 DEF Numbered

\* The picture of the packet enters the codec.
LEMMA EntersNumbered ==
    ASSUME Numbered, Enters, inPkt # NoWork, UNCHANGED <<ready, frame, nextWork, cur>>,
           Waiting' => Waiting
    PROVE  Numbered'
<1>1. Pictures' = Pictures \cup {inPkt} /\ inPkt' = NoWork
  BY DEF Enters, Pictures, Live
<1>2. NoWork \notin Pictures'
  BY DEF Pictures, Live
<1>. QED
  BY <1>1, <1>2 DEF Numbered

\* A work that ends, or none: every picture is of an earlier work.
LEMMA EndNumbered ==
    ASSUME CodecTypes, Typed, InTurn, Numbered, Pictures' \subseteq Pictures, inPkt' \in {inPkt, NoWork},
           \/ cur # NoWork /\ nextWork' = cur + 1
           \/ cur = NoWork /\ nextWork' = nextWork
    PROVE  Numbered'
<1>1. NoWork \notin Pictures' /\ Pictures \subseteq Works
  BY PicturesAreWorks DEF Pictures, Live
<1>2. \A x \in Works : x < nextWork \/ x = cur => x < nextWork'
  <2>1. Works \subseteq Nat /\ NoWork \notin Works
    BY NothingIsNone
  <2>2. nextWork \in Nat /\ cur \in Works \cup {NoWork} /\ (cur # NoWork => cur = nextWork)
    BY DEF CodecTypes, InTurn
  <2>. QED
    BY <2>1, <2>2
<1>3. \A x \in Pictures' : x < nextWork'
  BY <1>1, <1>2 DEF Numbered
<1>4. inPkt' # NoWork => inPkt' < nextWork'
  BY <1>2 DEF Numbered, CodecTypes
<1>. QED
  BY <1>1, <1>3, <1>4 DEF Numbered

\* An error ends the work.
LEMMA FailsNumbered ==
    ASSUME Typed, InTurn, Numbered, NEW fault, Fails(fault)
    PROVE  Numbered'
<1>1. CodecTypes
  BY TypedParts
<1>2. Pictures' \subseteq Pictures /\ inPkt' \in {inPkt, NoWork}
  BY DEF Fails, FlushCodec, codec, Pictures, Live
<1>3. \/ cur # NoWork /\ nextWork' = cur + 1
      \/ cur = NoWork /\ nextWork' = nextWork
  BY DEF Fails, EndWork
<1>. QED
  BY <1>1, <1>2, <1>3, EndNumbered

\* Between two works every picture is of an earlier one.
LEMMA IdleNumbered ==
    ASSUME Typed, Numbered, Pictures' = Pictures, inPkt' = inPkt, cur = NoWork,
           nextWork' \in {nextWork, nextWork + 1}
    PROVE  Numbered'
<1>1. NoWork \notin Pictures /\ Pictures \subseteq Works /\ Works \subseteq Nat /\ NoWork \notin Works
  BY PicturesAreWorks, NothingIsNone DEF Pictures, Live
<1>2. nextWork \in Nat /\ inPkt \in Works \cup {NoWork}
  BY DEF Typed
<1>3. \A x \in Works : x < nextWork => x < nextWork'
  BY <1>1, <1>2
<1>4. \A x \in Pictures : x < nextWork
  BY <1>1 DEF Numbered
<1>5. inPkt # NoWork => inPkt < nextWork
  BY DEF Numbered
<1>6. inPkt \notin Pictures
  BY DEF Numbered
<1>. QED
  BY <1>1, <1>2, <1>3, <1>4, <1>5, <1>6 DEF Numbered

\* Every step keeps one packet and one picture to a work.
LEMMA NumberedStep ==
    ASSUME Typed, InTurn, Numbered, [Next]_vars
    PROVE  Numbered'
<1>1. CASE \E k \in {"frame", "frameEos", "eos"} : Process(k)
  <2>1. Pictures' = Pictures /\ inPkt' = inPkt /\ cur = NoWork /\ nextWork' = nextWork
    BY <1>1 DEF Process, Idle, codec, client, Pictures, Live, InTurn
  <2>. QED
    BY <2>1, IdleNumbered
<1>2. CASE \E eos \in BOOLEAN : ProcessNothing(eos)
  <2>1. Pictures' = Pictures /\ inPkt' = inPkt /\ cur = NoWork /\ nextWork' = nextWork + 1
    BY <1>2 DEF ProcessNothing, Idle, codec, Pictures, Live, InTurn
  <2>. QED
    BY <2>1, IdleNumbered
<1>3. CASE ProcessRefused
  <2>1. Pictures' = Pictures /\ inPkt' = inPkt /\ cur = NoWork /\ nextWork' = nextWork + 1
    BY <1>3 DEF ProcessRefused, Idle, codec, Pictures, Live, InTurn
  <2>. QED
    BY <2>1, IdleNumbered
<1>4. CASE \E withEos \in BOOLEAN : ClientDrains(withEos)
  <2>1. UNCHANGED <<dpb, ready, frame, inPkt, nextWork, cur>> /\ (Waiting' => Waiting)
    BY <1>4 DEF ClientDrains, Idle, codec, references, blocks, client, Waiting, InTurn
  <2>2. Pictures' = Pictures
    BY <2>1 DEF Pictures, Live
  <2>. QED
    BY <2>1, <2>2, NumberedUnchanged
<1>5. CASE Flush
  <2>1. Pictures' \subseteq Pictures /\ inPkt' = NoWork /\ UNCHANGED <<nextWork, cur, cpc, after, sending>>
    BY <1>5, FlushPictures DEF Flush, FlushCodec, call
  <2>. QED
    BY <2>1, NumberedUnchanged DEF Waiting
<1>6. CASE Reset
  <2>1. Pictures' \subseteq Pictures /\ inPkt' = NoWork /\ UNCHANGED <<nextWork, cur, cpc, after, sending>>
    BY <1>6, FlushPictures DEF Reset, FlushCodec, call
  <2>. QED
    BY <2>1, NumberedUnchanged DEF Waiting
<1>7. CASE PrepareFails
  <2>1. PICK fault : Fails(fault)
    BY <1>7 DEF PrepareFails
  <2>. QED
    BY <2>1, FailsNumbered
<1>8. CASE SendAgain
  <2>1. UNCHANGED <<dpb, ready, frame, inPkt, nextWork, cur>> /\ (Waiting' => Waiting)
    BY <1>8 DEF SendAgain, codec, references, blocks, call, client, budget, Waiting, InTurn
  <2>2. Pictures' = Pictures
    BY <2>1 DEF Pictures, Live
  <2>. QED
    BY <2>1, <2>2, NumberedUnchanged
<1>9. CASE Send
  <2>1. /\ Pictures' = Pictures /\ inPkt' = (IF sending = "packet" THEN cur ELSE NoWork)
        /\ cpc' # "send" /\ after' = "none" /\ UNCHANGED <<nextWork, cur, sending>>
    BY <1>9 DEF Send, Pictures, Live, client
  <2>2. ~Waiting' /\ NoWork \notin Pictures
    BY <2>1 DEF Waiting, Pictures, Live
  <2>3. CASE sending = "packet"
    <3>1. Waiting /\ cur # NoWork
      BY <1>9, <2>3 DEF Waiting, Send, InTurn
    <3>2. cur = nextWork /\ cur \notin Pictures
      <4>1. nextWork \in Nat /\ cur = nextWork
        BY <3>1 DEF Typed, InTurn
      <4>. QED
        BY <3>1, <4>1 DEF Numbered
    <3>. QED
      BY <2>1, <2>2, <2>3, <3>2 DEF Numbered
  <2>4. CASE sending # "packet"
    BY <2>1, <2>2, <2>4 DEF Numbered
  <2>. QED
    BY <2>3, <2>4
<1>10. CASE Sent
  <2>1. UNCHANGED <<dpb, ready, frame, inPkt, nextWork, cur>> /\ (Waiting' => Waiting)
    BY <1>10 DEF Sent, codec, references, blocks, client, budget, Waiting, InTurn
  <2>2. Pictures' = Pictures
    BY <2>1 DEF Pictures, Live
  <2>. QED
    BY <2>1, <2>2, NumberedUnchanged
<1>11. CASE CodecTakesPacket
  <2>1. /\ Pictures' \subseteq Pictures
        /\ UNCHANGED <<inPkt, nextWork, cur, after, sending>> /\ cpc' = "acquire"
    BY <1>11 DEF CodecTakesPacket, Pictures, Live, call, client
  <2>. QED
    BY <2>1, NumberedUnchanged DEF Waiting
<1>12. CASE CodecFails
  <2>1. /\ Pictures' = Pictures /\ inPkt' = NoWork
        /\ UNCHANGED <<nextWork, cur, after, sending>> /\ cpc' = "failed"
    BY <1>12 DEF CodecFails, Pictures, Live, call, client
  <2>. QED
    BY <2>1, NumberedUnchanged DEF Waiting
<1>13. CASE CallFailed
  <2>1. PICK fault : Fails(fault)
    BY <1>13 DEF CallFailed
  <2>. QED
    BY <2>1, FailsNumbered
<1>14. CASE CodecOutputs
  <2>1. /\ Pictures' \subseteq Pictures
        /\ UNCHANGED <<inPkt, nextWork, cur, after, sending>> /\ cpc' # "send"
    BY <1>14 DEF CodecOutputs, Pictures, Live, call, client
  <2>. QED
    BY <2>1, NumberedUnchanged DEF Waiting
<1>15. CASE AcquirePending
  <2>1. UNCHANGED <<dpb, ready, frame, inPkt, nextWork, cur>> /\ (Waiting' => Waiting)
    BY <1>15 DEF AcquirePending, codec, references, call, client, budget, Waiting, InTurn
  <2>2. Pictures' = Pictures
    BY <2>1 DEF Pictures, Live
  <2>. QED
    BY <2>1, <2>2, NumberedUnchanged
<1>16. CASE AcquireFetch
  <2>1. UNCHANGED <<dpb, ready, frame, inPkt, nextWork, cur>> /\ (Waiting' => Waiting)
    BY <1>16 DEF AcquireFetch, codec, references, call, client, budget, Waiting, InTurn
  <2>2. Pictures' = Pictures
    BY <2>1 DEF Pictures, Live
  <2>. QED
    BY <2>1, <2>2, NumberedUnchanged
<1>17. CASE AcquireDisabled
  <2>1. /\ Enters /\ inPkt # NoWork /\ cpc' = "decode"
        /\ UNCHANGED <<ready, frame, nextWork, cur, after, sending>>
    BY <1>17 DEF AcquireDisabled, InTurn, call, client
  <2>. QED
    BY <2>1, EntersNumbered DEF Waiting
<1>18. CASE AcquireFails
  <2>1. /\ Enters /\ inPkt # NoWork /\ cpc' = "decode"
        /\ UNCHANGED <<ready, frame, nextWork, cur, after, sending>>
    BY <1>18 DEF AcquireFails, InTurn, call, client
  <2>. QED
    BY <2>1, EntersNumbered DEF Waiting
<1>19. CASE Import
  <2>1. /\ Enters /\ inPkt # NoWork /\ cpc' = "decode"
        /\ UNCHANGED <<ready, frame, nextWork, cur, after, sending>>
    BY <1>19 DEF Import, InTurn, call, client
  <2>. QED
    BY <2>1, EntersNumbered DEF Waiting
<1>20. CASE ImportFails
  <2>1. /\ Enters /\ inPkt # NoWork /\ cpc' = "decode"
        /\ UNCHANGED <<ready, frame, nextWork, cur, after, sending>>
    BY <1>20 DEF ImportFails, InTurn, call, client
  <2>. QED
    BY <2>1, EntersNumbered DEF Waiting
<1>21. CASE Decode
  <2>1. /\ Pictures' \subseteq Pictures
        /\ UNCHANGED <<inPkt, nextWork, cur, after, sending>> /\ cpc' # "send"
    BY <1>21 DEF Decode, Pictures, Live, call, client
  <2>. QED
    BY <2>1, NumberedUnchanged DEF Waiting
<1>22. CASE StartLoop
  <2>1. UNCHANGED <<dpb, ready, frame, inPkt, nextWork, cur>> /\ (Waiting' => Waiting)
    BY <1>22 DEF StartLoop, SetDecoderBlockPool, codec, references, client, budget, call, Waiting,
             InTurn
  <2>2. Pictures' = Pictures
    BY <2>1 DEF Pictures, Live
  <2>. QED
    BY <2>1, <2>2, NumberedUnchanged
<1>23. CASE Receive
  <2>1. /\ Pictures' \subseteq Pictures
        /\ UNCHANGED <<inPkt, nextWork, cur, after, sending>> /\ cpc' # "send"
    BY <1>23 DEF Receive, Pictures, Live, codec, client
  <2>. QED
    BY <2>1, NumberedUnchanged DEF Waiting
<1>24. CASE Received
  <2>1. /\ Pictures' \subseteq Pictures
        /\ UNCHANGED <<inPkt, nextWork, cur, after, sending>> /\ cpc' # "send"
    BY <1>24 DEF Received, Pictures, Live, call, client
  <2>. QED
    BY <2>1, NumberedUnchanged DEF Waiting
<1>25. CASE OutputDirect
  <2>1. UNCHANGED <<dpb, ready, frame, inPkt, nextWork, cur>> /\ (Waiting' => Waiting)
    BY <1>25 DEF OutputDirect, FinishOutput, codec, references, blocks, call, budget, Waiting,
             InTurn
  <2>2. Pictures' = Pictures
    BY <2>1 DEF Pictures, Live
  <2>. QED
    BY <2>1, <2>2, NumberedUnchanged
<1>26. CASE OutputByCopy
  <2>1. UNCHANGED <<dpb, ready, frame, inPkt, nextWork, cur>> /\ (Waiting' => Waiting)
    BY <1>26 DEF OutputByCopy, codec, references, call, client, Waiting, InTurn
  <2>2. Pictures' = Pictures
    BY <2>1 DEF Pictures, Live
  <2>. QED
    BY <2>1, <2>2, NumberedUnchanged
<1>27. CASE CopyFetch
  <2>1. UNCHANGED <<dpb, ready, frame, inPkt, nextWork, cur>> /\ (Waiting' => Waiting)
    BY <1>27 DEF CopyFetch, codec, references, blocks, call, client, budget, Waiting, InTurn
  <2>2. Pictures' = Pictures
    BY <2>1 DEF Pictures, Live
  <2>. QED
    BY <2>1, <2>2, NumberedUnchanged
<1>28. CASE CopyBlocked
  <2>1. PICK fault : Fails(fault)
    BY <1>28 DEF CopyBlocked
  <2>. QED
    BY <2>1, FailsNumbered
<1>29. CASE Copy
  <2>1. UNCHANGED <<dpb, ready, frame, inPkt, nextWork, cur>> /\ (Waiting' => Waiting)
    BY <1>29 DEF Copy, FinishOutput, codec, references, blocks, call, budget, Waiting, InTurn
  <2>2. Pictures' = Pictures
    BY <2>1 DEF Pictures, Live
  <2>. QED
    BY <2>1, <2>2, NumberedUnchanged
<1>30. CASE OutputFails
  <2>1. PICK fault : Fails(fault)
    BY <1>30 DEF OutputFails
  <2>. QED
    BY <2>1, FailsNumbered
<1>31. CASE PublishHeld
  <2>1. UNCHANGED <<dpb, ready, frame, inPkt, nextWork, cur>> /\ (Waiting' => Waiting)
    BY <1>31 DEF PublishHeld, FinishOutput, codec, references, blocks, call, budget, Waiting, InTurn
  <2>2. Pictures' = Pictures
    BY <2>1 DEF Pictures, Live
  <2>. QED
    BY <2>1, <2>2, NumberedUnchanged
<1>32. CASE FinishWork
  <2>1. Pictures' = Pictures /\ inPkt' = inPkt /\ cur # NoWork /\ nextWork' = cur + 1
    BY <1>32 DEF FinishWork, EndWork, codec, Pictures, Live, InTurn
  <2>. QED
    BY <2>1, TypedParts, EndNumbered
<1>33. CASE DrainEnds
  <2>1. Pictures' \subseteq Pictures /\ inPkt' \in {inPkt, NoWork}
    BY <1>33 DEF DrainEnds, FlushCodec, codec, Pictures, Live
  <2>2. nextWork' = nextWork /\ cpc' = "idle" /\ sending' = "none" /\ cur' = NoWork
    BY <1>33 DEF DrainEnds, Rest, client
  <2>3. CASE cur = NoWork
    BY <2>1, <2>2, <2>3, TypedParts, EndNumbered
  <2>. QED
    BY <1>33, <2>3 DEF DrainEnds, InTurn
<1>34. CASE ClientReturns
  <2>1. UNCHANGED <<dpb, ready, frame, inPkt, nextWork, cur>> /\ (Waiting' => Waiting)
    BY <1>34 DEF ClientReturns, codec, references, blocks, call, client, budget, Waiting, InTurn
  <2>2. Pictures' = Pictures
    BY <2>1 DEF Pictures, Live
  <2>. QED
    BY <2>1, <2>2, NumberedUnchanged
<1>35. CASE ClientChangesPool
  <2>1. UNCHANGED <<dpb, ready, frame, inPkt, nextWork, cur>> /\ (Waiting' => Waiting)
    BY <1>35 DEF ClientChangesPool, Idle, codec, references, blocks, call, Waiting, InTurn
  <2>2. Pictures' = Pictures
    BY <2>1 DEF Pictures, Live
  <2>. QED
    BY <2>1, <2>2, NumberedUnchanged
<1>36. CASE UNCHANGED vars
  <2>1. UNCHANGED <<dpb, ready, frame, inPkt, nextWork, cur>> /\ (Waiting' => Waiting)
    BY <1>36 DEF vars, codec, references, blocks, call, client, budget, Waiting, InTurn
  <2>2. Pictures' = Pictures
    BY <2>1 DEF Pictures, Live
  <2>. QED
    BY <2>1, <2>2, NumberedUnchanged
<1>. QED
  BY <1>1, <1>2, <1>3, <1>4, <1>5, <1>6, <1>7, <1>8, <1>9, <1>10, <1>11, <1>12, <1>13, <1>14,
     <1>15, <1>16, <1>17, <1>18, <1>19, <1>20, <1>21, <1>22, <1>23, <1>24, <1>25, <1>26, <1>27,
     <1>28, <1>29, <1>30, <1>31, <1>32, <1>33, <1>34, <1>35, <1>36
     DEF Next, Step

-----------------------------------------------------------------------------
(* The theorems about the references.                                      *)

\* A decoder that has taken no work.
LEMMA RefInvInit == Init => RefInv
<1>. SUFFICES ASSUME Init PROVE RefInv
  OBVIOUS
<1>1. Pictures = {}
  BY DEF Init, Pictures, Live
<1>2. Typed
  <2>1. CodecTypes
    BY DEF Init, CodecTypes
  <2>2. RefTypes
    BY DEF Init, RefTypes
  <2>3. pendingBlocks \in Seq(Buffers)
    BY DEF Init
  <2>. QED
    BY <2>1, <2>2, <2>3, TypedParts
<1>3. InTurn /\ TargetIsFree
  BY DEF Init, InTurn, TargetIsFree
<1>4. Numbered
  BY <1>1 DEF Init, Numbered
<1>5. BuffersHeld
  BY DEF Init, BuffersHeld
<1>6. ReferencesAccounted
  <2>1. Direct(Pictures) = {}
    BY <1>1 DEF Direct
  <2>2. \A b \in Buffers, w \in Works : active[b] # w
    BY NothingIsNone DEF Init
  <2>. QED
    BY <2>1, <2>2 DEF Init, ReferencesAccounted
<1>. QED
  BY <1>2, <1>3, <1>4, <1>5, <1>6 DEF RefInv

\* Each step of the work thread, of the codec and of the client keeps it.
LEMMA RefInvStep == RefInv /\ [Next]_vars => RefInv'
<1>. SUFFICES ASSUME RefInv, [Next]_vars PROVE RefInv'
  OBVIOUS
<1>1. /\ Typed /\ InTurn /\ Numbered /\ TargetIsFree /\ BuffersHeld /\ ReferencesAccounted
      /\ CodecTypes /\ pendingBlocks \in Seq(Buffers)
  BY TypedParts DEF RefInv
<1>2. RefTypes' /\ BuffersHeld' /\ ReferencesAccounted'
  BY <1>1, RefsStep
<1>3. CodecTypes' /\ InTurn' /\ (pendingBlocks \in Seq(Buffers))' /\ TargetIsFree'
  BY <1>1, CodecTypesStep, InTurnStep, KeptStep, TargetStep
<1>4. Numbered'
  BY <1>1, NumberedStep
<1>5. Typed'
  BY <1>2, <1>3 DEF Typed, CodecTypes, RefTypes
<1>. QED
  BY <1>2, <1>3, <1>4, <1>5 DEF RefInv

\* RefInv is inductive, so it holds throughout.
THEOREM RefInvariant == Spec => []RefInv
<1>. QED
  BY RefInvInit, RefInvStep, PTL DEF Spec

\* decoder_surfaces_, decoder_active_buffers_ and the references on the heap agree
\* with the AVFrames that are alive, and no reference is released twice, by the
\* codec or by Close, for any pool and any stream (AcquireDirectDecoderSurface,
\* ReleaseDecoderSurfaceReference, ResetDecoderOutputState).
THEOREM ReferencesAgree == Spec => []ReferencesAccounted
<1>1. RefInv => ReferencesAccounted
  BY DEF RefInv
<1>. QED
  BY <1>1, RefInvariant, PTL

\* A buffer that holds a picture the codec still refers to is not decoded into
\* again, although its slot was returned and fetched anew (AcquireDecoderBlock).
THEOREM ReferencePicturesKept == Spec => []ReferencesKept
<1>1. RefInv => ReferencesKept
  <2>. SUFFICES ASSUME RefInv, NEW v \in Direct(Pictures), NEW w \in Direct(Pictures),
                       refBuf[v] = refBuf[w]
                PROVE  v = w
    BY DEF ReferencesKept
  <2>1. v \in heap /\ w \in heap /\ v \in Works /\ w \in Works
    BY DEF RefInv, ReferencesAccounted, Typed
  <2>2. refBuf[v] \in Buffers
    BY <2>1 DEF RefInv, Typed, Direct
  <2>. QED
    BY <2>1, <2>2 DEF RefInv, ReferencesAccounted
<1>. QED
  BY <1>1, RefInvariant, PTL

-----------------------------------------------------------------------------
(* The drained end of stream.                                              *)

\* The statuses after the next work has been answered.
LEMMA NextStatus ==
    ASSUME StatusKnown, nextWork \in Works, nextWork' = nextWork + 1,
           NEW x \in {"new", "pending", "done", "error", "flushed"},
           status' = [status EXCEPT ![nextWork] = x]
    PROVE  StatusKnown'
<1>1. Works \subseteq Nat
  BY NothingIsNone
<1>2. \A w \in Works : status'[w] = IF w = nextWork THEN x ELSE status[w]
  BY DEF StatusKnown
<1>3. \A w \in Works : w >= nextWork' => w # nextWork /\ w >= nextWork
  BY <1>1
<1>4. status' \in [Works -> {"new", "pending", "done", "error", "flushed"}]
  BY DEF StatusKnown
<1>. QED
  BY <1>2, <1>3, <1>4 DEF StatusKnown

\* The statuses after an earlier one has been.
LEMMA EarlierStatus ==
    ASSUME StatusKnown, NEW n \in Works, status[n] = "pending", UNCHANGED nextWork,
           status' = [status EXCEPT ![n] = "done"]
    PROVE  StatusKnown'
<1>1. \A w \in Works : status'[w] = IF w = n THEN "done" ELSE status[w]
  BY DEF StatusKnown
<1>2. \A w \in Works : w >= nextWork => w # n
  BY DEF StatusKnown
<1>3. status' \in [Works -> {"new", "pending", "done", "error", "flushed"}]
  BY DEF StatusKnown
<1>. QED
  BY <1>1, <1>2, <1>3 DEF StatusKnown

\* A step that answers no work.
LEMMA StatusUnchanged ==
    ASSUME StatusKnown, UNCHANGED <<status, nextWork>>
    PROVE  StatusKnown'
BY DEF StatusKnown

\* The statuses after an error.
LEMMA FailsStatus ==
    ASSUME Typed, InTurn, StatusKnown, NEW fault, Fails(fault)
    PROVE  StatusKnown'
<1>1. CASE cur = NoWork
  BY <1>1, StatusUnchanged DEF Fails
<1>2. CASE cur # NoWork
  <2>1. cur \in Works /\ cur = nextWork
    BY <1>2 DEF Typed, InTurn
  <2>2. /\ status' = [status EXCEPT ![nextWork] = "error"] /\ nextWork' = nextWork + 1
    BY <1>2, <2>1 DEF Fails, EndWork
  <2>3. nextWork \in Works
    BY <2>1
  <2>. QED
    BY <2>2, <2>3, NextStatus
<1>. QED
  BY <1>1, <1>2

\* The statuses after an output was published.
LEMMA OutputStatus ==
    ASSUME Typed, StatusKnown, NEW h, NEW x, FinishOutput(h, x), UNCHANGED nextWork
    PROVE  StatusKnown'
<1>. DEFINE w == Publishes
<1>1. CASE UNCHANGED status
  BY <1>1, StatusUnchanged
<1>2. CASE w \in Works /\ status[w] = "pending" /\ status' = [status EXCEPT ![w] = "done"]
  <2>. HIDE DEF w
  <2>. QED
    BY <1>2, EarlierStatus
<1>3. CASE status' = [status EXCEPT ![w] = "done"] /\ w \notin Works
  <2>1. status' = status
    BY <1>3 DEF StatusKnown
  <2>. QED
    BY <2>1, StatusUnchanged
<1>. QED
  BY <1>1, <1>2, <1>3 DEF FinishOutput

\* Every step leaves the works that were not taken new.
LEMMA StatusStep ==
    ASSUME Typed, InTurn, StatusKnown, [Next]_vars
    PROVE  StatusKnown'
<1>1. CASE \E k \in {"frame", "frameEos", "eos"} : Process(k)
  BY <1>1, StatusUnchanged DEF Process, Idle, SetDecoderBlockPool, codec, references, client,
           budget
<1>2. CASE \E eos \in BOOLEAN : ProcessNothing(eos)
  <2>1. nextWork \in Works
    BY <1>2, PoolAssumption DEF ProcessNothing, Typed, Works
  <2>2. status' = [status EXCEPT ![nextWork] = "done"] /\ nextWork' = nextWork + 1
    BY <1>2 DEF ProcessNothing
  <2>. QED
    BY <2>1, <2>2, NextStatus
<1>3. CASE ProcessRefused
  <2>1. nextWork \in Works
    BY <1>3, PoolAssumption DEF ProcessRefused, Typed, Works
  <2>2. status' = [status EXCEPT ![nextWork] = "error"] /\ nextWork' = nextWork + 1
    BY <1>3 DEF ProcessRefused
  <2>. QED
    BY <2>1, <2>2, NextStatus
<1>4. CASE \E withEos \in BOOLEAN : ClientDrains(withEos)
  BY <1>4, StatusUnchanged DEF ClientDrains, Idle, codec, references, blocks, client
<1>5. CASE Flush
  <2>1. status' = Flushed /\ UNCHANGED nextWork
    BY <1>5 DEF Flush, Reopened
  <2>. QED
    BY <2>1 DEF StatusKnown, Flushed
<1>6. CASE Reset
  <2>1. status' = Flushed /\ UNCHANGED nextWork
    BY <1>6 DEF Reset, Reopened
  <2>. QED
    BY <2>1 DEF StatusKnown, Flushed
<1>7. CASE PrepareFails
  BY <1>7, FailsStatus DEF PrepareFails
<1>8. CASE SendAgain
  BY <1>8, StatusUnchanged DEF SendAgain, codec, references, blocks, call, client, budget
<1>9. CASE Send
  BY <1>9, StatusUnchanged DEF Send, references, blocks, client, budget
<1>10. CASE Sent
  BY <1>10, StatusUnchanged DEF Sent, codec, references, blocks, client, budget
<1>11. CASE CodecTakesPacket
  BY <1>11, StatusUnchanged DEF CodecTakesPacket, Keeps, blocks, call, client, budget
<1>12. CASE CodecFails
  BY <1>12, StatusUnchanged DEF CodecFails, references, blocks, call, client
<1>13. CASE CallFailed
  BY <1>13, FailsStatus DEF CallFailed
<1>14. CASE CodecOutputs
  BY <1>14, StatusUnchanged DEF CodecOutputs, references, blocks, call, client, budget
<1>15. CASE AcquirePending
  BY <1>15, StatusUnchanged DEF AcquirePending, codec, references, call, client, budget
<1>16. CASE AcquireFetch
  BY <1>16, StatusUnchanged DEF AcquireFetch, codec, references, call, client, budget
<1>17. CASE AcquireDisabled
  BY <1>17, StatusUnchanged DEF AcquireDisabled, Enters, references, blocks, call, client, budget
<1>18. CASE AcquireFails
  BY <1>18, StatusUnchanged DEF AcquireFails, Enters, references, call, client
<1>19. CASE Import
  BY <1>19, StatusUnchanged DEF Import, Enters, blocks, call, client, budget
<1>20. CASE ImportFails
  BY <1>20, StatusUnchanged DEF ImportFails, Enters, references, call, client
<1>21. CASE Decode
  BY <1>21, StatusUnchanged DEF Decode, references, blocks, call, client, budget
<1>22. CASE StartLoop
  BY <1>22, StatusUnchanged DEF StartLoop, SetDecoderBlockPool, codec, references, client, budget,
           call
<1>23. CASE Receive
  BY <1>23, StatusUnchanged DEF Receive, Keeps, codec, blocks, client, budget
<1>24. CASE Received
  BY <1>24, StatusUnchanged DEF Received, references, blocks, call, client, budget
<1>25. CASE OutputDirect
  BY <1>25, OutputStatus DEF OutputDirect
<1>26. CASE OutputByCopy
  BY <1>26, StatusUnchanged DEF OutputByCopy, codec, references, call, client
<1>27. CASE CopyFetch
  BY <1>27, StatusUnchanged DEF CopyFetch, codec, references, blocks, call, client, budget
<1>28. CASE CopyBlocked
  BY <1>28, FailsStatus DEF CopyBlocked
<1>29. CASE Copy
  BY <1>29, OutputStatus DEF Copy
<1>30. CASE OutputFails
  BY <1>30, FailsStatus DEF OutputFails
<1>31. CASE PublishHeld
  BY <1>31, OutputStatus DEF PublishHeld
<1>32. CASE FinishWork
  <2>1. cur \in Works /\ cur = nextWork
    BY <1>32 DEF FinishWork, Typed, InTurn
  <2>2. PICK x \in {"done", "pending"} :
            status' = [status EXCEPT ![nextWork] = x] /\ nextWork' = nextWork + 1
    BY <1>32, <2>1 DEF FinishWork, EndWork, WorkResult
  <2>3. nextWork \in Works
    BY <2>1
  <2>. QED
    BY <2>2, <2>3, NextStatus
<1>33. CASE DrainEnds
  BY <1>33, StatusUnchanged DEF DrainEnds, FlushCodec, Keeps, Rest, codec, references, blocks,
           client, budget
<1>34. CASE ClientReturns
  BY <1>34, StatusUnchanged DEF ClientReturns, codec, references, blocks, call, client, budget
<1>35. CASE ClientChangesPool
  BY <1>35, StatusUnchanged DEF ClientChangesPool, Idle, codec, references, blocks, call
<1>36. CASE UNCHANGED vars
  BY <1>36, StatusUnchanged DEF vars, codec, references, blocks, call, client, budget
<1>. QED
  BY <1>1, <1>2, <1>3, <1>4, <1>5, <1>6, <1>7, <1>8, <1>9, <1>10, <1>11, <1>12, <1>13, <1>14,
     <1>15, <1>16, <1>17, <1>18, <1>19, <1>20, <1>21, <1>22, <1>23, <1>24, <1>25, <1>26, <1>27,
     <1>28, <1>29, <1>30, <1>31, <1>32, <1>33, <1>34, <1>35, <1>36
     DEF Next, Step

\* Every step leaves the call at a point that tells what it is about.
LEMMA PointStep ==
    ASSUME InTurn, DrainPoint, [Next]_vars
    PROVE  DrainPoint'
<1>1. CASE \E k \in {"frame", "frameEos", "eos"} : Process(k)
  BY <1>1 DEF Process, Idle, SetDecoderBlockPool, codec, references, client, budget, DrainPoint,
           InTurn
<1>2. CASE \E eos \in BOOLEAN : ProcessNothing(eos)
  BY <1>2 DEF ProcessNothing, Idle, SetDecoderBlockPool, codec, references, call, budget,
           DrainPoint, InTurn
<1>3. CASE ProcessRefused
  BY <1>3 DEF ProcessRefused, Idle, codec, references, blocks, call, budget, DrainPoint, InTurn
<1>4. CASE \E withEos \in BOOLEAN : ClientDrains(withEos)
  BY <1>4 DEF ClientDrains, Idle, codec, references, blocks, client, DrainPoint, InTurn
<1>5. CASE Flush
  <2>1. cur = NoWork /\ UNCHANGED <<cpc, after, sending, caller, cur, kind>>
    BY <1>5 DEF Flush, Idle, call, InTurn
  <2>. QED
    BY <2>1 DEF DrainPoint
<1>6. CASE Reset
  <2>1. cur = NoWork /\ UNCHANGED <<cpc, after, sending, caller, cur, kind>>
    BY <1>6 DEF Reset, Idle, call, InTurn
  <2>. QED
    BY <2>1 DEF DrainPoint
<1>7. CASE PrepareFails
  <2>1. cpc' = "idle" /\ cur' = NoWork /\ after' = "none" /\ sending' = "none" /\ caller' = "none"
    BY <1>7 DEF PrepareFails, Fails, Rest
  <2>. QED
    BY <2>1 DEF DrainPoint
<1>8. CASE SendAgain
  BY <1>8 DEF SendAgain, codec, references, blocks, call, client, budget, DrainPoint, InTurn
<1>9. CASE Send
  BY <1>9 DEF Send, references, blocks, client, budget, DrainPoint, InTurn
<1>10. CASE Sent
  <2>1. /\ cpc = "sent" /\ after = "none"
        /\ UNCHANGED <<caller, cur, kind, sigEos, sigErr>>
    BY <1>10 DEF Sent, DrainPoint, client
  <2>2. CASE sending = "packet" /\ kind = "frameEos"
    <3>1. cpc' = "send" /\ sending' = "null" /\ after' = "none"
      BY <1>10, <2>1, <2>2 DEF Sent
    <3>. QED
      BY <2>1, <3>1 DEF DrainPoint
  <2>3. CASE ~(sending = "packet" /\ kind = "frameEos")
    <3>1. cpc' = "loop" /\ UNCHANGED sending
      BY <1>10, <2>3 DEF Sent
    <3>2. CASE sending = "packet"
      <4>1. after' = "finish"
        BY <1>10, <2>3, <3>2 DEF Sent
      <4>. QED
        BY <2>1, <3>1, <3>2, <4>1 DEF DrainPoint
    <3>3. CASE sending # "packet"
      <4>1. after' \in {"eos", "drainEos"}
        BY <1>10, <2>3, <3>3 DEF Sent
      <4>2. sending = "null"
        BY <2>1, <3>3 DEF DrainPoint
      <4>. QED
        BY <2>1, <3>1, <4>1, <4>2 DEF DrainPoint
    <3>. QED
      BY <3>2, <3>3
  <2>. QED
    BY <2>2, <2>3
<1>11. CASE CodecTakesPacket
  BY <1>11 DEF CodecTakesPacket, Keeps, blocks, call, client, budget, DrainPoint, InTurn
<1>12. CASE CodecFails
  BY <1>12 DEF CodecFails, references, blocks, call, client, DrainPoint, InTurn
<1>13. CASE CallFailed
  <2>1. cpc' = "idle" /\ cur' = NoWork /\ after' = "none" /\ sending' = "none" /\ caller' = "none"
    BY <1>13 DEF CallFailed, Fails, Rest
  <2>. QED
    BY <2>1 DEF DrainPoint
<1>14. CASE CodecOutputs
  BY <1>14 DEF CodecOutputs, references, blocks, call, client, budget, DrainPoint, InTurn
<1>15. CASE AcquirePending
  BY <1>15 DEF AcquirePending, codec, references, call, client, budget, DrainPoint, InTurn
<1>16. CASE AcquireFetch
  BY <1>16 DEF AcquireFetch, codec, references, call, client, budget, DrainPoint, InTurn
<1>17. CASE AcquireDisabled
  BY <1>17 DEF AcquireDisabled, Enters, references, blocks, call, client, budget, DrainPoint, InTurn
<1>18. CASE AcquireFails
  BY <1>18 DEF AcquireFails, Enters, references, call, client, DrainPoint, InTurn
<1>19. CASE Import
  BY <1>19 DEF Import, Enters, blocks, call, client, budget, DrainPoint, InTurn
<1>20. CASE ImportFails
  BY <1>20 DEF ImportFails, Enters, references, call, client, DrainPoint, InTurn
<1>21. CASE Decode
  BY <1>21 DEF Decode, references, blocks, call, client, budget, DrainPoint, InTurn
<1>22. CASE StartLoop
  BY <1>22 DEF StartLoop, SetDecoderBlockPool, codec, references, client, budget, call, DrainPoint,
           InTurn
<1>23. CASE Receive
  BY <1>23 DEF Receive, Keeps, codec, blocks, client, budget, DrainPoint, InTurn
<1>24. CASE Received
  BY <1>24 DEF Received, references, blocks, call, client, budget, DrainPoint, InTurn
<1>25. CASE OutputDirect
  BY <1>25 DEF OutputDirect, FinishOutput, codec, references, blocks, call, budget, DrainPoint,
           InTurn
<1>26. CASE OutputByCopy
  BY <1>26 DEF OutputByCopy, codec, references, call, client, DrainPoint, InTurn
<1>27. CASE CopyFetch
  BY <1>27 DEF CopyFetch, codec, references, blocks, call, client, budget, DrainPoint, InTurn
<1>28. CASE CopyBlocked
  <2>1. cpc' = "idle" /\ cur' = NoWork /\ after' = "none" /\ sending' = "none" /\ caller' = "none"
    BY <1>28 DEF CopyBlocked, Fails, Rest
  <2>. QED
    BY <2>1 DEF DrainPoint
<1>29. CASE Copy
  BY <1>29 DEF Copy, FinishOutput, codec, references, blocks, call, budget, DrainPoint, InTurn
<1>30. CASE OutputFails
  <2>1. cpc' = "idle" /\ cur' = NoWork /\ after' = "none" /\ sending' = "none" /\ caller' = "none"
    BY <1>30 DEF OutputFails, Fails, Rest
  <2>. QED
    BY <2>1 DEF DrainPoint
<1>31. CASE PublishHeld
  BY <1>31 DEF PublishHeld, FinishOutput, codec, references, blocks, call, budget, DrainPoint,
           InTurn
<1>32. CASE FinishWork
  BY <1>32 DEF FinishWork, EndWork, Rest, codec, references, blocks, budget, DrainPoint, InTurn
<1>33. CASE DrainEnds
  BY <1>33 DEF DrainEnds, FlushCodec, Keeps, Rest, codec, references, blocks, client, budget,
           DrainPoint, InTurn
<1>34. CASE ClientReturns
  BY <1>34 DEF ClientReturns, codec, references, blocks, call, client, budget, DrainPoint, InTurn
<1>35. CASE ClientChangesPool
  BY <1>35 DEF ClientChangesPool, Idle, codec, references, blocks, call, DrainPoint, InTurn
<1>36. CASE UNCHANGED vars
  BY <1>36 DEF vars, codec, references, blocks, call, client, budget, DrainPoint, InTurn
<1>. QED
  BY <1>1, <1>2, <1>3, <1>4, <1>5, <1>6, <1>7, <1>8, <1>9, <1>10, <1>11, <1>12, <1>13, <1>14,
     <1>15, <1>16, <1>17, <1>18, <1>19, <1>20, <1>21, <1>22, <1>23, <1>24, <1>25, <1>26, <1>27,
     <1>28, <1>29, <1>30, <1>31, <1>32, <1>33, <1>34, <1>35, <1>36
     DEF Next, Step

\* Every step leaves a held output with its block.
LEMMA HeldStep ==
    ASSUME ReferencesAccounted, HeldHasBlock, [Next]_vars
    PROVE  HeldHasBlock'
<1>1. CASE \E k \in {"frame", "frameEos", "eos"} : Process(k)
  BY <1>1 DEF Process, Idle, SetDecoderBlockPool, codec, references, client, budget, HeldHasBlock
<1>2. CASE \E eos \in BOOLEAN : ProcessNothing(eos)
  BY <1>2 DEF ProcessNothing, Idle, SetDecoderBlockPool, codec, references, call, budget,
           HeldHasBlock
<1>3. CASE ProcessRefused
  BY <1>3 DEF ProcessRefused, Idle, codec, references, blocks, call, budget, HeldHasBlock
<1>4. CASE \E withEos \in BOOLEAN : ClientDrains(withEos)
  BY <1>4 DEF ClientDrains, Idle, codec, references, blocks, client, HeldHasBlock
<1>5. CASE Flush
  BY <1>5 DEF Flush, Idle, FlushCodec, Keeps, Reopened, blocks, call, HeldHasBlock
<1>6. CASE Reset
  BY <1>6 DEF Reset, Idle, FlushCodec, Reopened, call, HeldHasBlock
<1>7. CASE PrepareFails
  <2>1. cpc' = "idle" /\ hold' = NoOutput
    BY <1>7 DEF PrepareFails, Fails, Rest
  <2>. QED
    BY <2>1 DEF HeldHasBlock, NoOutput
<1>8. CASE SendAgain
  BY <1>8 DEF SendAgain, codec, references, blocks, call, client, budget, HeldHasBlock
<1>9. CASE Send
  BY <1>9 DEF Send, references, blocks, client, budget, HeldHasBlock
<1>10. CASE Sent
  BY <1>10 DEF Sent, codec, references, blocks, client, budget, HeldHasBlock
<1>11. CASE CodecTakesPacket
  BY <1>11 DEF CodecTakesPacket, Keeps, blocks, call, client, budget, HeldHasBlock
<1>12. CASE CodecFails
  BY <1>12 DEF CodecFails, references, blocks, call, client, HeldHasBlock
<1>13. CASE CallFailed
  <2>1. cpc' = "idle" /\ hold' = NoOutput
    BY <1>13 DEF CallFailed, Fails, Rest
  <2>. QED
    BY <2>1 DEF HeldHasBlock, NoOutput
<1>14. CASE CodecOutputs
  BY <1>14 DEF CodecOutputs, references, blocks, call, client, budget, HeldHasBlock
<1>15. CASE AcquirePending
  BY <1>15 DEF AcquirePending, codec, references, call, client, budget, HeldHasBlock
<1>16. CASE AcquireFetch
  BY <1>16 DEF AcquireFetch, codec, references, call, client, budget, HeldHasBlock
<1>17. CASE AcquireDisabled
  BY <1>17 DEF AcquireDisabled, Enters, references, blocks, call, client, budget, HeldHasBlock
<1>18. CASE AcquireFails
  BY <1>18 DEF AcquireFails, Enters, references, call, client, HeldHasBlock
<1>19. CASE Import
  BY <1>19 DEF Import, Enters, blocks, call, client, budget, HeldHasBlock
<1>20. CASE ImportFails
  BY <1>20 DEF ImportFails, Enters, references, call, client, HeldHasBlock
<1>21. CASE Decode
  BY <1>21 DEF Decode, references, blocks, call, client, budget, HeldHasBlock
<1>22. CASE StartLoop
  BY <1>22 DEF StartLoop, SetDecoderBlockPool, codec, references, client, budget, call, HeldHasBlock
<1>23. CASE Receive
  BY <1>23 DEF Receive, Keeps, codec, blocks, client, budget, HeldHasBlock
<1>24. CASE Received
  BY <1>24 DEF Received, references, blocks, call, client, budget, HeldHasBlock
<1>25. CASE OutputDirect
  <2>1. hold' = [work |-> frame, buf |-> refBuf[frame]] /\ cpc' = "receive" /\ frame \in surfaces
    BY <1>25 DEF OutputDirect, FinishOutput
  <2>2. refBuf[frame] # NoBuffer
    BY <2>1 DEF ReferencesAccounted, Direct
  <2>. QED
    BY <2>1, <2>2 DEF HeldHasBlock
<1>26. CASE OutputByCopy
  BY <1>26 DEF OutputByCopy, codec, references, call, client, HeldHasBlock
<1>27. CASE CopyFetch
  <2>1. PICK x \in Slots : target' = <<x, 0>>
    BY <1>27 DEF CopyFetch
  <2>2. target' # NoBuffer
    BY <2>1 DEF NoBuffer, Slots
  <2>. QED
    BY <1>27, <2>2 DEF CopyFetch, HeldHasBlock
<1>28. CASE CopyBlocked
  <2>1. cpc' = "idle" /\ hold' = NoOutput
    BY <1>28 DEF CopyBlocked, Fails, Rest
  <2>. QED
    BY <2>1 DEF HeldHasBlock, NoOutput
<1>29. CASE Copy
  <2>1. hold' = [work |-> frame, buf |-> target] /\ cpc' = "receive" /\ target # NoBuffer
    BY <1>29 DEF Copy, FinishOutput, HeldHasBlock
  <2>. QED
    BY <2>1 DEF HeldHasBlock
<1>30. CASE OutputFails
  <2>1. cpc' = "idle" /\ hold' = NoOutput
    BY <1>30 DEF OutputFails, Fails, Rest
  <2>. QED
    BY <2>1 DEF HeldHasBlock, NoOutput
<1>31. CASE PublishHeld
  <2>1. hold' = NoOutput /\ cpc' \in {"send", "end"}
    BY <1>31 DEF PublishHeld, FinishOutput
  <2>. QED
    BY <2>1 DEF HeldHasBlock, NoOutput
<1>32. CASE FinishWork
  BY <1>32 DEF FinishWork, EndWork, Rest, codec, references, blocks, budget, HeldHasBlock
<1>33. CASE DrainEnds
  BY <1>33 DEF DrainEnds, FlushCodec, Keeps, Rest, codec, references, blocks, client, budget,
           HeldHasBlock
<1>34. CASE ClientReturns
  BY <1>34 DEF ClientReturns, codec, references, blocks, call, client, budget, HeldHasBlock
<1>35. CASE ClientChangesPool
  BY <1>35 DEF ClientChangesPool, Idle, codec, references, blocks, call, HeldHasBlock
<1>36. CASE UNCHANGED vars
  BY <1>36 DEF vars, codec, references, blocks, call, client, budget, HeldHasBlock
<1>. QED
  BY <1>1, <1>2, <1>3, <1>4, <1>5, <1>6, <1>7, <1>8, <1>9, <1>10, <1>11, <1>12, <1>13, <1>14,
     <1>15, <1>16, <1>17, <1>18, <1>19, <1>20, <1>21, <1>22, <1>23, <1>24, <1>25, <1>26, <1>27,
     <1>28, <1>29, <1>30, <1>31, <1>32, <1>33, <1>34, <1>35, <1>36
     DEF Next, Step

\* Every step leaves a draining codec on its way out.
LEMMA DrainStep ==
    ASSUME Typed, InTurn, DrainPoint, DrainsOut, [Next]_vars
    PROVE  DrainsOut'
<1>1. CASE \E k \in {"frame", "frameEos", "eos"} : Process(k)
  BY <1>1 DEF Process, Idle, SetDecoderBlockPool, codec, references, client, budget, DrainsOut,
           DrainPoint, InTurn, Typed
<1>2. CASE \E eos \in BOOLEAN : ProcessNothing(eos)
  BY <1>2 DEF ProcessNothing, Idle, SetDecoderBlockPool, codec, references, call, budget,
           DrainsOut, DrainPoint, InTurn, Typed
<1>3. CASE ProcessRefused
  BY <1>3 DEF ProcessRefused, Idle, codec, references, blocks, call, budget, DrainsOut, DrainPoint,
           InTurn, Typed
<1>4. CASE \E withEos \in BOOLEAN : ClientDrains(withEos)
  BY <1>4 DEF ClientDrains, Idle, codec, references, blocks, client, DrainsOut, DrainPoint, InTurn,
           Typed
<1>5. CASE Flush
  BY <1>5 DEF Flush, Idle, FlushCodec, Keeps, Reopened, blocks, call, DrainsOut, DrainPoint,
           InTurn, Typed
<1>6. CASE Reset
  BY <1>6 DEF Reset, Idle, FlushCodec, Reopened, call, DrainsOut, DrainPoint, InTurn, Typed
<1>7. CASE PrepareFails
  <2>1. cpc' = "idle" /\ after' = "none" /\ sending' = "none" /\ UNCHANGED sigEos
    BY <1>7 DEF PrepareFails, Fails, Rest
  <2>2. CASE after = "drainEos"
    <3>1. draining' = FALSE
      BY <1>7, <2>2 DEF PrepareFails, Fails, FlushCodec
    <3>. QED
      BY <2>1, <3>1 DEF DrainsOut
  <2>3. CASE after # "drainEos"
    <3>1. UNCHANGED <<draining, inPkt>>
      BY <1>7, <2>3 DEF PrepareFails, Fails, codec
    <3>2. CASE cur # NoWork
      <4>1. sigErr' = TRUE
        BY <1>7, <3>2 DEF PrepareFails, Fails
      <4>. QED
        BY <2>1, <3>1, <4>1 DEF DrainsOut
    <3>3. CASE cur = NoWork
      <4>1. UNCHANGED sigErr
        BY <1>7, <3>3 DEF PrepareFails, Fails
      <4>2. draining => sending # "null"
        BY <1>7, <2>3, <3>3 DEF PrepareFails, DrainsOut, DrainPoint, InTurn
      <4>. QED
        BY <2>1, <3>1, <4>1, <4>2 DEF DrainsOut
    <3>. QED
      BY <3>2, <3>3
  <2>. QED
    BY <2>2, <2>3
<1>8. CASE SendAgain
  BY <1>8 DEF SendAgain, codec, references, blocks, call, client, budget, DrainsOut, DrainPoint,
           InTurn, Typed
<1>9. CASE Send
  BY <1>9 DEF Send, references, blocks, client, budget, DrainsOut, DrainPoint, InTurn, Typed
<1>10. CASE Sent
  BY <1>10 DEF Sent, codec, references, blocks, client, budget, DrainsOut, DrainPoint, InTurn, Typed
<1>11. CASE CodecTakesPacket
  BY <1>11 DEF CodecTakesPacket, Keeps, blocks, call, client, budget, DrainsOut, DrainPoint, InTurn,
           Typed
<1>12. CASE CodecFails
  BY <1>12 DEF CodecFails, references, blocks, call, client, DrainsOut, DrainPoint, InTurn, Typed
<1>13. CASE CallFailed
  <2>1. cpc' = "idle" /\ after' = "none" /\ sending' = "none" /\ UNCHANGED sigEos
    BY <1>13 DEF CallFailed, Fails, Rest
  <2>2. CASE after = "drainEos"
    <3>1. draining' = FALSE
      BY <1>13, <2>2 DEF CallFailed, Fails, FlushCodec
    <3>. QED
      BY <2>1, <3>1 DEF DrainsOut
  <2>3. CASE after # "drainEos"
    <3>1. UNCHANGED <<draining, inPkt>>
      BY <1>13, <2>3 DEF CallFailed, Fails, codec
    <3>2. CASE cur # NoWork
      <4>1. sigErr' = TRUE
        BY <1>13, <3>2 DEF CallFailed, Fails
      <4>. QED
        BY <2>1, <3>1, <4>1 DEF DrainsOut
    <3>3. CASE cur = NoWork
      <4>1. UNCHANGED sigErr
        BY <1>13, <3>3 DEF CallFailed, Fails
      <4>2. draining => sending # "null"
        BY <1>13, <2>3, <3>3 DEF CallFailed, DrainsOut, DrainPoint, InTurn
      <4>. QED
        BY <2>1, <3>1, <4>1, <4>2 DEF DrainsOut
    <3>. QED
      BY <3>2, <3>3
  <2>. QED
    BY <2>2, <2>3
<1>14. CASE CodecOutputs
  BY <1>14, NothingIsNone DEF CodecOutputs, references, blocks, call, client, budget, DrainsOut,
           DrainPoint, InTurn, Typed
<1>15. CASE AcquirePending
  BY <1>15 DEF AcquirePending, codec, references, call, client, budget, DrainsOut, DrainPoint,
           InTurn, Typed
<1>16. CASE AcquireFetch
  BY <1>16 DEF AcquireFetch, codec, references, call, client, budget, DrainsOut, DrainPoint, InTurn,
           Typed
<1>17. CASE AcquireDisabled
  BY <1>17 DEF AcquireDisabled, Enters, references, blocks, call, client, budget, DrainsOut,
           DrainPoint, InTurn, Typed
<1>18. CASE AcquireFails
  BY <1>18 DEF AcquireFails, Enters, references, call, client, DrainsOut, DrainPoint, InTurn, Typed
<1>19. CASE Import
  BY <1>19 DEF Import, Enters, blocks, call, client, budget, DrainsOut, DrainPoint, InTurn, Typed
<1>20. CASE ImportFails
  BY <1>20 DEF ImportFails, Enters, references, call, client, DrainsOut, DrainPoint, InTurn, Typed
<1>21. CASE Decode
  BY <1>21, NothingIsNone DEF Decode, references, blocks, call, client, budget, DrainsOut,
           DrainPoint, InTurn, Typed
<1>22. CASE StartLoop
  BY <1>22 DEF StartLoop, SetDecoderBlockPool, codec, references, client, budget, call, DrainsOut,
           DrainPoint, InTurn, Typed
<1>23. CASE Receive
  BY <1>23 DEF Receive, Keeps, codec, blocks, client, budget, DrainsOut, DrainPoint, InTurn, Typed
<1>24. CASE Received
  BY <1>24 DEF Received, references, blocks, call, client, budget, DrainsOut, DrainPoint, InTurn,
           Typed
<1>25. CASE OutputDirect
  BY <1>25 DEF OutputDirect, FinishOutput, codec, references, blocks, call, budget, DrainsOut,
           DrainPoint, InTurn, Typed
<1>26. CASE OutputByCopy
  BY <1>26 DEF OutputByCopy, codec, references, call, client, DrainsOut, DrainPoint, InTurn, Typed
<1>27. CASE CopyFetch
  BY <1>27 DEF CopyFetch, codec, references, blocks, call, client, budget, DrainsOut, DrainPoint,
           InTurn, Typed
<1>28. CASE CopyBlocked
  <2>1. cpc' = "idle" /\ after' = "none" /\ sending' = "none" /\ UNCHANGED sigEos
    BY <1>28 DEF CopyBlocked, Fails, Rest
  <2>2. CASE after = "drainEos"
    <3>1. draining' = FALSE
      BY <1>28, <2>2 DEF CopyBlocked, Fails, FlushCodec
    <3>. QED
      BY <2>1, <3>1 DEF DrainsOut
  <2>3. CASE after # "drainEos"
    <3>1. UNCHANGED <<draining, inPkt>>
      BY <1>28, <2>3 DEF CopyBlocked, Fails, codec
    <3>2. CASE cur # NoWork
      <4>1. sigErr' = TRUE
        BY <1>28, <3>2 DEF CopyBlocked, Fails
      <4>. QED
        BY <2>1, <3>1, <4>1 DEF DrainsOut
    <3>3. CASE cur = NoWork
      <4>1. UNCHANGED sigErr
        BY <1>28, <3>3 DEF CopyBlocked, Fails
      <4>2. draining => sending # "null"
        BY <1>28, <2>3, <3>3 DEF CopyBlocked, DrainsOut, DrainPoint, InTurn
      <4>. QED
        BY <2>1, <3>1, <4>1, <4>2 DEF DrainsOut
    <3>. QED
      BY <3>2, <3>3
  <2>. QED
    BY <2>2, <2>3
<1>29. CASE Copy
  BY <1>29 DEF Copy, FinishOutput, codec, references, blocks, call, budget, DrainsOut, DrainPoint,
           InTurn, Typed
<1>30. CASE OutputFails
  <2>1. cpc' = "idle" /\ after' = "none" /\ sending' = "none" /\ UNCHANGED sigEos
    BY <1>30 DEF OutputFails, Fails, Rest
  <2>2. CASE after = "drainEos"
    <3>1. draining' = FALSE
      BY <1>30, <2>2 DEF OutputFails, Fails, FlushCodec
    <3>. QED
      BY <2>1, <3>1 DEF DrainsOut
  <2>3. CASE after # "drainEos"
    <3>1. UNCHANGED <<draining, inPkt>>
      BY <1>30, <2>3 DEF OutputFails, Fails, codec
    <3>2. CASE cur # NoWork
      <4>1. sigErr' = TRUE
        BY <1>30, <3>2 DEF OutputFails, Fails
      <4>. QED
        BY <2>1, <3>1, <4>1 DEF DrainsOut
    <3>3. CASE cur = NoWork
      <4>1. UNCHANGED sigErr
        BY <1>30, <3>3 DEF OutputFails, Fails
      <4>2. draining => sending # "null"
        BY <1>30, <2>3, <3>3 DEF OutputFails, DrainsOut, DrainPoint, InTurn
      <4>. QED
        BY <2>1, <3>1, <4>1, <4>2 DEF DrainsOut
    <3>. QED
      BY <3>2, <3>3
  <2>. QED
    BY <2>2, <2>3
<1>31. CASE PublishHeld
  BY <1>31 DEF PublishHeld, FinishOutput, codec, references, blocks, call, budget, DrainsOut,
           DrainPoint, InTurn, Typed
<1>32. CASE FinishWork
  BY <1>32 DEF FinishWork, EndWork, Rest, codec, references, blocks, budget, DrainsOut, DrainPoint,
           InTurn, Typed
<1>33. CASE DrainEnds
  BY <1>33 DEF DrainEnds, FlushCodec, Keeps, Rest, codec, references, blocks, client, budget,
           DrainsOut, DrainPoint, InTurn, Typed
<1>34. CASE ClientReturns
  BY <1>34 DEF ClientReturns, codec, references, blocks, call, client, budget, DrainsOut,
           DrainPoint, InTurn, Typed
<1>35. CASE ClientChangesPool
  BY <1>35 DEF ClientChangesPool, Idle, codec, references, blocks, call, DrainsOut, DrainPoint,
           InTurn, Typed
<1>36. CASE UNCHANGED vars
  BY <1>36 DEF vars, codec, references, blocks, call, client, budget, DrainsOut, DrainPoint, InTurn,
           Typed
<1>. QED
  BY <1>1, <1>2, <1>3, <1>4, <1>5, <1>6, <1>7, <1>8, <1>9, <1>10, <1>11, <1>12, <1>13, <1>14,
     <1>15, <1>16, <1>17, <1>18, <1>19, <1>20, <1>21, <1>22, <1>23, <1>24, <1>25, <1>26, <1>27,
     <1>28, <1>29, <1>30, <1>31, <1>32, <1>33, <1>34, <1>35, <1>36
     DEF Next, Step

\* The pictures on their way stay on it.
LEMMA AwaitedKept ==
    ASSUME PendingAwaited, UNCHANGED <<status, errored>>, cpc # "failed",
           \A w \in Works : w \in Awaited => w \in Awaited',
           cur' # NoWork => UNCHANGED <<cur, kind, attached>> /\ cur \in Works /\ (~Waiting' => ~Waiting)
    PROVE  PendingAwaited'
BY DEF PendingAwaited

\* A step of the call that answers no work and starts none.
LEMMA CallContinues ==
    ASSUME Typed, PendingAwaited, UNCHANGED <<status, errored, cur, kind, attached>>,
           cpc # "failed", \A w \in Works : w \in Awaited => w \in Awaited', ~Waiting' => ~Waiting
    PROVE  PendingAwaited'
BY AwaitedKept DEF Typed

\* The output that was held back is answered, the others are still on their way.
LEMMA OutputAnswered ==
    ASSUME Typed, InTurn, StatusKnown, HeldHasBlock, PendingAwaited, NEW h, NEW x,
           FinishOutput(h, x), UNCHANGED <<errored, cur, kind>>, cpc # "failed",
           \A w \in Works : w \in Awaited /\ w # hold.work => w \in Awaited', ~Waiting' => ~Waiting
    PROVE  PendingAwaited'
<1>. SUFFICES ASSUME ~errored
              PROVE  /\ \A w \in Works : status'[w] = "pending" => w \in Awaited'
                     /\ cur # NoWork /\ kind # "eos" /\ ~Waiting' /\ attached' = NoBuffer => cur \in Awaited'
  BY DEF PendingAwaited
<1>1. /\ \A w \in Works : status[w] = "pending" => w \in Awaited
      /\ cur # NoWork /\ kind # "eos" /\ ~Waiting /\ attached = NoBuffer => cur \in Awaited
  BY DEF PendingAwaited
<1>2. cur # NoWork => cur \in Works /\ status[cur] = "new"
  BY NothingIsNone DEF Typed, InTurn, StatusKnown
<1>3. ASSUME NEW w \in Works, status'[w] = "pending" PROVE w \in Awaited'
  <2>1. status[w] = "pending"
    BY <1>3 DEF FinishOutput, StatusKnown
  <2>2. CASE w = hold.work
    <3>1. w # NoWork /\ w # cur
      BY <1>2, <2>1, NothingIsNone
    <3>2. status' = [status EXCEPT ![w] = "done"]
      BY <2>1, <2>2, <3>1 DEF FinishOutput, Publishes
    <3>. QED
      BY <1>3, <3>2 DEF StatusKnown
  <2>3. CASE w # hold.work
    BY <1>1, <2>1, <2>3
  <2>. QED
    BY <2>2, <2>3
<1>4. ASSUME cur # NoWork, kind # "eos", ~Waiting', attached' = NoBuffer PROVE cur \in Awaited'
  <2>1. CASE cur = hold.work
    BY <1>4, <2>1 DEF FinishOutput, Publishes, HeldHasBlock
  <2>2. CASE cur # hold.work
    <3>1. attached = NoBuffer
      BY <1>4, <2>2 DEF FinishOutput, Publishes
    <3>. QED
      BY <1>1, <1>2, <1>4, <2>2, <3>1
  <2>. QED
    BY <2>1, <2>2
<1>. QED
  BY <1>3, <1>4

\* At the end of a draining loop nothing is on its way.
LEMMA NothingAwaited ==
    ASSUME DrainsOut, DrainPoint, cpc = "end", after \in {"eos", "drainEos"}
    PROVE  Awaited \subseteq {NoWork}
<1>1. draining
  BY DEF DrainsOut, DrainPoint
<1>2. inPkt = NoWork /\ ready = NoWork /\ dpb \subseteq shown /\ hold.work = NoWork
  BY <1>1 DEF DrainsOut, NoOutput
<1>. QED
  BY <1>2 DEF Awaited

\* Every step leaves the pending works with a picture on its way.
LEMMA PendingStep ==
    ASSUME Typed, InTurn, Numbered, StatusKnown, DrainPoint,
           HeldHasBlock, DrainsOut, PendingAwaited, [Next]_vars
    PROVE  PendingAwaited'
<1>1. CASE \E k \in {"frame", "frameEos", "eos"} : Process(k)
  <2>1. PICK k \in {"frame", "frameEos", "eos"} : Process(k)
    BY <1>1
  <2>2. /\ UNCHANGED <<status, errored, dpb, shown, inPkt, ready, hold>> /\ kind' = k
        /\ cpc = "idle" /\ cpc' = "send" /\ sending' = IF k = "eos" THEN "null" ELSE "packet"
    BY <2>1 DEF Process, Idle, client, codec
  <2>3. Awaited' = Awaited
    BY <2>2 DEF Awaited
  <2>4. kind' # "eos" => Waiting'
    BY <2>2 DEF Waiting
  <2>. QED
    BY <2>2, <2>3, <2>4 DEF PendingAwaited
<1>2. CASE \E eos \in BOOLEAN : ProcessNothing(eos)
  <2>1. /\ status' = [status EXCEPT ![nextWork] = "done"] /\ cpc = "idle"
        /\ UNCHANGED <<errored, dpb, shown, inPkt, ready, hold, cpc, cur>>
    BY <1>2 DEF ProcessNothing, Idle, call, codec
  <2>2. cur = NoWork
    BY <2>1 DEF InTurn
  <2>3. Awaited' = Awaited
    BY <2>1 DEF Awaited
  <2>4. \A w \in Works : status'[w] = "pending" => status[w] = "pending"
    BY <2>1 DEF StatusKnown
  <2>. QED
    BY <2>1, <2>2, <2>3, <2>4 DEF PendingAwaited
<1>3. CASE ProcessRefused
  <2>1. /\ status' = [status EXCEPT ![nextWork] = "error"] /\ cpc = "idle"
        /\ UNCHANGED <<errored, dpb, shown, inPkt, ready, hold, cpc, cur>>
    BY <1>3 DEF ProcessRefused, Idle, call, codec
  <2>2. cur = NoWork
    BY <2>1 DEF InTurn
  <2>3. Awaited' = Awaited
    BY <2>1 DEF Awaited
  <2>4. \A w \in Works : status'[w] = "pending" => status[w] = "pending"
    BY <2>1 DEF StatusKnown
  <2>. QED
    BY <2>1, <2>2, <2>3, <2>4 DEF PendingAwaited
<1>4. CASE \E withEos \in BOOLEAN : ClientDrains(withEos)
  <2>1. UNCHANGED <<status, errored, cur, kind, attached>> /\ cpc # "failed"
    BY <1>4 DEF ClientDrains, Idle, codec, references, blocks, client
  <2>2. \A w \in Works : w \in Awaited => w \in Awaited'
    BY <1>4, NothingIsNone DEF ClientDrains, Idle, codec, references, blocks, client, Awaited
  <2>3. ~Waiting' => ~Waiting
    BY <1>4 DEF ClientDrains, Idle, codec, references, blocks, client, Waiting, DrainPoint, InTurn
  <2>. QED
    BY <2>1, <2>2, <2>3, CallContinues
<1>5. CASE Flush
  <2>1. status' = Flushed /\ cur' = NoWork
    BY <1>5 DEF Flush, Reopened, Idle, call, InTurn
  <2>2. \A w \in Works : status'[w] # "pending"
    BY <2>1 DEF Flushed
  <2>. QED
    BY <2>1, <2>2 DEF PendingAwaited
<1>6. CASE Reset
  <2>1. status' = Flushed /\ cur' = NoWork
    BY <1>6 DEF Reset, Reopened, Idle, call, InTurn
  <2>2. \A w \in Works : status'[w] # "pending"
    BY <2>1 DEF Flushed
  <2>. QED
    BY <2>1, <2>2 DEF PendingAwaited
<1>7. CASE PrepareFails
  <2>1. errored' = TRUE
    BY <1>7 DEF PrepareFails, Fails
  <2>. QED
    BY <2>1 DEF PendingAwaited
<1>8. CASE SendAgain
  <2>1. UNCHANGED <<status, errored, cur, kind, attached>> /\ cpc # "failed"
    BY <1>8 DEF SendAgain, codec, references, blocks, call, client, budget
  <2>2. \A w \in Works : w \in Awaited => w \in Awaited'
    BY <1>8, NothingIsNone DEF SendAgain, codec, references, blocks, call, client, budget, Awaited
  <2>3. ~Waiting' => ~Waiting
    BY <1>8 DEF SendAgain, codec, references, blocks, call, client, budget, Waiting, DrainPoint,
             InTurn
  <2>. QED
    BY <2>1, <2>2, <2>3, CallContinues
<1>9. CASE Send
  <2>1. /\ UNCHANGED <<status, errored, dpb, shown, ready, hold, cur, kind, attached, sending>>
        /\ cpc = "send" /\ cpc' \in {"codec", "sent"} /\ inPkt = NoWork /\ after' = "none"
        /\ inPkt' = IF sending = "packet" THEN cur ELSE NoWork
    BY <1>9 DEF Send, client
  <2>2. \A w \in Works : w \in Awaited => w \in Awaited'
    BY <2>1, NothingIsNone DEF Awaited
  <2>3. CASE sending = "packet"
    <3>1. cur \in Awaited'
      BY <2>1, <2>3 DEF Awaited
    <3>. QED
      BY <2>1, <2>2, <3>1 DEF PendingAwaited
  <2>4. CASE sending # "packet"
    <3>1. ~Waiting
      BY <2>4 DEF Waiting
    <3>. QED
      BY <2>1, <2>2, <3>1, CallContinues
  <2>. QED
    BY <2>3, <2>4
<1>10. CASE Sent
  <2>1. UNCHANGED <<status, errored, cur, kind, attached>> /\ cpc # "failed"
    BY <1>10 DEF Sent, codec, references, blocks, client, budget
  <2>2. \A w \in Works : w \in Awaited => w \in Awaited'
    BY <1>10, NothingIsNone DEF Sent, codec, references, blocks, client, budget, Awaited
  <2>3. ~Waiting' => ~Waiting
    BY <1>10 DEF Sent, codec, references, blocks, client, budget, Waiting, DrainPoint, InTurn
  <2>. QED
    BY <2>1, <2>2, <2>3, CallContinues
<1>11. CASE CodecTakesPacket
  <2>1. UNCHANGED <<status, errored, cur, kind, attached>> /\ cpc # "failed"
    BY <1>11 DEF CodecTakesPacket, Keeps, blocks, call, client, budget
  <2>2. \A w \in Works : w \in Awaited => w \in Awaited'
    <3>1. PICK gone \in SUBSET (dpb \cap shown) :
              dpb' = dpb \ gone /\ shown' = shown \ gone /\ hold' = hold
      BY <1>11 DEF CodecTakesPacket, Keeps
    <3>2. UNCHANGED <<inPkt, ready>> /\ cpc = "codec"
      BY <1>11 DEF CodecTakesPacket
    <3>. QED
      BY <3>1, <3>2 DEF Awaited
  <2>3. ~Waiting' => ~Waiting
    BY <1>11 DEF CodecTakesPacket, Keeps, blocks, call, client, budget, Waiting, DrainPoint, InTurn
  <2>. QED
    BY <2>1, <2>2, <2>3, CallContinues
<1>12. CASE CodecFails
  <2>1. cpc' = "failed"
    BY <1>12 DEF CodecFails
  <2>. QED
    BY <2>1 DEF PendingAwaited
<1>13. CASE CallFailed
  <2>1. errored' = TRUE
    BY <1>13 DEF CallFailed, Fails
  <2>. QED
    BY <2>1 DEF PendingAwaited
<1>14. CASE CodecOutputs
  <2>1. UNCHANGED <<status, errored, cur, kind, attached>> /\ cpc # "failed"
    BY <1>14 DEF CodecOutputs, references, blocks, call, client, budget
  <2>2. \A w \in Works : w \in Awaited => w \in Awaited'
    <3>1. /\ UNCHANGED <<inPkt, dpb, hold>> /\ ready = NoWork /\ cpc \in {"codec", "decode"}
          /\ \/ UNCHANGED <<ready, shown>>
             \/ \E v \in dpb \ shown : ready' = v /\ shown' = shown \cup {v}
      BY <1>14 DEF CodecOutputs, InTurn
    <3>. QED
      BY <3>1, NothingIsNone DEF Awaited
  <2>3. ~Waiting' => ~Waiting
    BY <1>14 DEF CodecOutputs, references, blocks, call, client, budget, Waiting, DrainPoint, InTurn
  <2>. QED
    BY <2>1, <2>2, <2>3, CallContinues
<1>15. CASE AcquirePending
  <2>1. UNCHANGED <<status, errored, cur, kind, attached>> /\ cpc # "failed"
    BY <1>15 DEF AcquirePending, codec, references, call, client, budget
  <2>2. \A w \in Works : w \in Awaited => w \in Awaited'
    BY <1>15, NothingIsNone DEF AcquirePending, codec, references, call, client, budget, Awaited
  <2>3. ~Waiting' => ~Waiting
    BY <1>15 DEF AcquirePending, codec, references, call, client, budget, Waiting, DrainPoint, InTurn
  <2>. QED
    BY <2>1, <2>2, <2>3, CallContinues
<1>16. CASE AcquireFetch
  <2>1. UNCHANGED <<status, errored, cur, kind, attached>> /\ cpc # "failed"
    BY <1>16 DEF AcquireFetch, codec, references, call, client, budget
  <2>2. \A w \in Works : w \in Awaited => w \in Awaited'
    BY <1>16, NothingIsNone DEF AcquireFetch, codec, references, call, client, budget, Awaited
  <2>3. ~Waiting' => ~Waiting
    BY <1>16 DEF AcquireFetch, codec, references, call, client, budget, Waiting, DrainPoint, InTurn
  <2>. QED
    BY <2>1, <2>2, <2>3, CallContinues
<1>17. CASE AcquireDisabled
  <2>1. UNCHANGED <<status, errored, cur, kind, attached>> /\ cpc # "failed"
    BY <1>17 DEF AcquireDisabled, Enters, references, blocks, call, client, budget
  <2>2. \A w \in Works : w \in Awaited => w \in Awaited'
    <3>1. inPkt \notin shown
      BY <1>17, NothingIsNone DEF AcquireDisabled, Numbered, Pictures, Live, Typed, InTurn
    <3>2. /\ UNCHANGED <<shown, ready, hold>> /\ inPkt' = NoWork /\ dpb' = dpb \cup {inPkt}
          /\ cpc \in {"acquire", "import"}
      BY <1>17 DEF AcquireDisabled, Enters
    <3>. QED
      BY <3>1, <3>2, NothingIsNone DEF Awaited
  <2>3. ~Waiting' => ~Waiting
    BY <1>17 DEF AcquireDisabled, Enters, references, blocks, call, client, budget, Waiting,
           DrainPoint, InTurn
  <2>. QED
    BY <2>1, <2>2, <2>3, CallContinues
<1>18. CASE AcquireFails
  <2>1. UNCHANGED <<status, errored, cur, kind, attached>> /\ cpc # "failed"
    BY <1>18 DEF AcquireFails, Enters, references, call, client
  <2>2. \A w \in Works : w \in Awaited => w \in Awaited'
    <3>1. inPkt \notin shown
      BY <1>18, NothingIsNone DEF AcquireFails, Numbered, Pictures, Live, Typed, InTurn
    <3>2. /\ UNCHANGED <<shown, ready, hold>> /\ inPkt' = NoWork /\ dpb' = dpb \cup {inPkt}
          /\ cpc \in {"acquire", "import"}
      BY <1>18 DEF AcquireFails, Enters
    <3>. QED
      BY <3>1, <3>2, NothingIsNone DEF Awaited
  <2>3. ~Waiting' => ~Waiting
    BY <1>18 DEF AcquireFails, Enters, references, call, client, Waiting, DrainPoint, InTurn
  <2>. QED
    BY <2>1, <2>2, <2>3, CallContinues
<1>19. CASE Import
  <2>1. UNCHANGED <<status, errored, cur, kind, attached>> /\ cpc # "failed"
    BY <1>19 DEF Import, Enters, blocks, call, client, budget
  <2>2. \A w \in Works : w \in Awaited => w \in Awaited'
    <3>1. inPkt \notin shown
      BY <1>19, NothingIsNone DEF Import, Numbered, Pictures, Live, Typed, InTurn
    <3>2. /\ UNCHANGED <<shown, ready, hold>> /\ inPkt' = NoWork /\ dpb' = dpb \cup {inPkt}
          /\ cpc \in {"acquire", "import"}
      BY <1>19 DEF Import, Enters
    <3>. QED
      BY <3>1, <3>2, NothingIsNone DEF Awaited
  <2>3. ~Waiting' => ~Waiting
    BY <1>19 DEF Import, Enters, blocks, call, client, budget, Waiting, DrainPoint, InTurn
  <2>. QED
    BY <2>1, <2>2, <2>3, CallContinues
<1>20. CASE ImportFails
  <2>1. UNCHANGED <<status, errored, cur, kind, attached>> /\ cpc # "failed"
    BY <1>20 DEF ImportFails, Enters, references, call, client
  <2>2. \A w \in Works : w \in Awaited => w \in Awaited'
    <3>1. inPkt \notin shown
      BY <1>20, NothingIsNone DEF ImportFails, Numbered, Pictures, Live, Typed, InTurn
    <3>2. /\ UNCHANGED <<shown, ready, hold>> /\ inPkt' = NoWork /\ dpb' = dpb \cup {inPkt}
          /\ cpc \in {"acquire", "import"}
      BY <1>20 DEF ImportFails, Enters
    <3>. QED
      BY <3>1, <3>2, NothingIsNone DEF Awaited
  <2>3. ~Waiting' => ~Waiting
    BY <1>20 DEF ImportFails, Enters, references, call, client, Waiting, DrainPoint, InTurn
  <2>. QED
    BY <2>1, <2>2, <2>3, CallContinues
<1>21. CASE Decode
  <2>1. UNCHANGED <<status, errored, cur, kind, attached>> /\ cpc # "failed"
    BY <1>21 DEF Decode, references, blocks, call, client, budget
  <2>2. \A w \in Works : w \in Awaited => w \in Awaited'
    <3>1. /\ UNCHANGED <<inPkt, dpb, hold>> /\ ready = NoWork /\ cpc \in {"codec", "decode"}
          /\ \/ UNCHANGED <<ready, shown>>
             \/ \E v \in dpb \ shown : ready' = v /\ shown' = shown \cup {v}
      BY <1>21 DEF Decode, InTurn
    <3>. QED
      BY <3>1, NothingIsNone DEF Awaited
  <2>3. ~Waiting' => ~Waiting
    BY <1>21 DEF Decode, references, blocks, call, client, budget, Waiting, DrainPoint, InTurn
  <2>. QED
    BY <2>1, <2>2, <2>3, CallContinues
<1>22. CASE StartLoop
  <2>1. UNCHANGED <<status, errored, cur, kind, attached>> /\ cpc # "failed"
    BY <1>22 DEF StartLoop, SetDecoderBlockPool, codec, references, client, budget, call
  <2>2. \A w \in Works : w \in Awaited => w \in Awaited'
    BY <1>22, NothingIsNone DEF StartLoop, SetDecoderBlockPool, codec, references, client, budget,
             call, Awaited
  <2>3. ~Waiting' => ~Waiting
    BY <1>22 DEF StartLoop, SetDecoderBlockPool, codec, references, client, budget, call, Waiting,
             DrainPoint, InTurn
  <2>. QED
    BY <2>1, <2>2, <2>3, CallContinues
<1>23. CASE Receive
  <2>1. UNCHANGED <<status, errored, cur, kind, attached>> /\ cpc # "failed"
    BY <1>23 DEF Receive, Keeps, codec, blocks, client, budget
  <2>2. \A w \in Works : w \in Awaited => w \in Awaited'
    BY <1>23, NothingIsNone DEF Receive, Keeps, codec, blocks, client, budget, Awaited
  <2>3. ~Waiting' => ~Waiting
    BY <1>23 DEF Receive, Keeps, codec, blocks, client, budget, Waiting, DrainPoint, InTurn
  <2>. QED
    BY <2>1, <2>2, <2>3, CallContinues
<1>24. CASE Received
  <2>1. UNCHANGED <<status, errored, cur, kind, attached>> /\ cpc # "failed"
    BY <1>24 DEF Received, references, blocks, call, client, budget
  <2>2. \A w \in Works : w \in Awaited => w \in Awaited'
    <3>1. /\ UNCHANGED <<inPkt, dpb, shown, hold>> /\ cpc = "received"
          /\ frame' = ready /\ cpc' = IF ready # NoWork THEN "output" ELSE "publish"
      BY <1>24 DEF Received
    <3>. QED
      BY <3>1, NothingIsNone DEF Awaited
  <2>3. ~Waiting' => ~Waiting
    BY <1>24 DEF Received, references, blocks, call, client, budget, Waiting, DrainPoint, InTurn
  <2>. QED
    BY <2>1, <2>2, <2>3, CallContinues
<1>25. CASE OutputDirect
  <2>1. /\ FinishOutput([work |-> frame, buf |-> refBuf[frame]], slot) /\ cpc \in {"output", "copying"}
        /\ UNCHANGED <<errored, cur, kind, inPkt, dpb, shown, ready, after, sending>>
        /\ cpc' = "receive"
    BY <1>25 DEF OutputDirect, codec, call
  <2>2. hold'.work = frame
    BY <2>1 DEF FinishOutput
  <2>3. \A w \in Works : w \in Awaited /\ w # hold.work => w \in Awaited'
    BY <2>1, <2>2, NothingIsNone DEF Awaited
  <2>4. ~Waiting' => ~Waiting
    BY <2>1 DEF Waiting
  <2>. QED
    BY <2>1, <2>3, <2>4, OutputAnswered
<1>26. CASE OutputByCopy
  <2>1. UNCHANGED <<status, errored, cur, kind, attached>> /\ cpc # "failed"
    BY <1>26 DEF OutputByCopy, codec, references, call, client
  <2>2. \A w \in Works : w \in Awaited => w \in Awaited'
    BY <1>26, NothingIsNone DEF OutputByCopy, codec, references, call, client, Awaited
  <2>3. ~Waiting' => ~Waiting
    BY <1>26 DEF OutputByCopy, codec, references, call, client, Waiting, DrainPoint, InTurn
  <2>. QED
    BY <2>1, <2>2, <2>3, CallContinues
<1>27. CASE CopyFetch
  <2>1. UNCHANGED <<status, errored, cur, kind, attached>> /\ cpc # "failed"
    BY <1>27 DEF CopyFetch, codec, references, blocks, call, client, budget
  <2>2. \A w \in Works : w \in Awaited => w \in Awaited'
    BY <1>27, NothingIsNone DEF CopyFetch, codec, references, blocks, call, client, budget, Awaited
  <2>3. ~Waiting' => ~Waiting
    BY <1>27 DEF CopyFetch, codec, references, blocks, call, client, budget, Waiting, DrainPoint,
             InTurn
  <2>. QED
    BY <2>1, <2>2, <2>3, CallContinues
<1>28. CASE CopyBlocked
  <2>1. errored' = TRUE
    BY <1>28 DEF CopyBlocked, Fails
  <2>. QED
    BY <2>1 DEF PendingAwaited
<1>29. CASE Copy
  <2>1. /\ FinishOutput([work |-> frame, buf |-> target], slot) /\ cpc \in {"output", "copying"}
        /\ UNCHANGED <<errored, cur, kind, inPkt, dpb, shown, ready, after, sending>>
        /\ cpc' = "receive"
    BY <1>29 DEF Copy, codec, call
  <2>2. hold'.work = frame
    BY <2>1 DEF FinishOutput
  <2>3. \A w \in Works : w \in Awaited /\ w # hold.work => w \in Awaited'
    BY <2>1, <2>2, NothingIsNone DEF Awaited
  <2>4. ~Waiting' => ~Waiting
    BY <2>1 DEF Waiting
  <2>. QED
    BY <2>1, <2>3, <2>4, OutputAnswered
<1>30. CASE OutputFails
  <2>1. errored' = TRUE
    BY <1>30 DEF OutputFails, Fails
  <2>. QED
    BY <2>1 DEF PendingAwaited
<1>31. CASE PublishHeld
  <2>1. /\ FinishOutput(NoOutput, slot) /\ cpc = "publish"
        /\ UNCHANGED <<errored, cur, kind, inPkt, dpb, shown, ready, after, sending>>
        /\ cpc' \in {"send", "end"}
    BY <1>31 DEF PublishHeld, codec, call
  <2>2. \A w \in Works : w \in Awaited /\ w # hold.work => w \in Awaited'
    BY <2>1, NothingIsNone DEF Awaited
  <2>3. ~Waiting' => ~Waiting
    BY <2>1 DEF Waiting
  <2>. QED
    BY <2>1, <2>2, <2>3, OutputAnswered
<1>32. CASE FinishWork
  <2>1. /\ UNCHANGED <<errored, inPkt, dpb, shown, ready, hold>> /\ cpc = "end" /\ cpc' = "idle"
        /\ status' = [status EXCEPT ![cur] = WorkResult] /\ cur' = NoWork
        /\ after \in {"finish", "eos"}
    BY <1>32 DEF FinishWork, EndWork, Rest, codec
  <2>2. Awaited' = Awaited
    BY <2>1 DEF Awaited
  <2>3. cur \in Works
    BY <2>1 DEF InTurn, Typed
  <2>4. SUFFICES ASSUME ~errored, NEW w \in Works, status'[w] = "pending" PROVE w \in Awaited
    BY <2>1, <2>2 DEF PendingAwaited
  <2>5. CASE w # cur
    <3>1. status[w] = "pending"
      BY <2>1, <2>4, <2>5 DEF StatusKnown
    <3>. QED
      BY <2>1, <2>4, <3>1 DEF PendingAwaited
  <2>6. CASE w = cur
    <3>1. after = "finish" /\ attached = NoBuffer
      BY <2>1, <2>3, <2>4, <2>6 DEF StatusKnown, WorkResult
    <3>2. kind # "eos" /\ ~Waiting
      BY <2>1, <3>1 DEF DrainPoint, Waiting
    <3>. QED
      BY <2>1, <2>3, <2>4, <2>6, <3>1, <3>2, NothingIsNone DEF PendingAwaited
  <2>. QED
    BY <2>5, <2>6
<1>33. CASE DrainEnds
  <2>1. /\ UNCHANGED <<status, errored>> /\ cpc = "end" /\ cpc' = "idle" /\ cur' = NoWork
        /\ after \in {"drain", "drainEos"}
    BY <1>33 DEF DrainEnds, Rest, client
  <2>2. \A w \in Works : w \in Awaited => w \in Awaited'
    <3>1. CASE after = "drain"
      <4>1. UNCHANGED <<inPkt, dpb, shown, ready, hold>>
        BY <1>33, <3>1 DEF DrainEnds, codec
      <4>. QED
        BY <2>1, <4>1 DEF Awaited
    <3>2. CASE after = "drainEos"
      BY <2>1, <3>2, NothingAwaited, NothingIsNone
    <3>. QED
      BY <2>1, <3>1, <3>2
  <2>. QED
    BY <2>1, <2>2, AwaitedKept
<1>34. CASE ClientReturns
  <2>1. UNCHANGED <<status, errored, cur, kind, attached, dpb, shown, inPkt, ready, frame, hold,
                    cpc, after, sending>>
    BY <1>34 DEF ClientReturns, codec, references, blocks, call, client, budget
  <2>2. Awaited' = Awaited /\ Waiting' = Waiting
    BY <2>1 DEF Awaited, Waiting
  <2>. QED
    BY <2>1, <2>2 DEF PendingAwaited
<1>35. CASE ClientChangesPool
  <2>1. UNCHANGED <<status, errored, cur, kind, attached>> /\ cpc # "failed"
    BY <1>35 DEF ClientChangesPool, Idle, codec, references, blocks, call
  <2>2. \A w \in Works : w \in Awaited => w \in Awaited'
    BY <1>35, NothingIsNone DEF ClientChangesPool, Idle, codec, references, blocks, call, Awaited
  <2>3. ~Waiting' => ~Waiting
    BY <1>35 DEF ClientChangesPool, Idle, codec, references, blocks, call, Waiting, DrainPoint, InTurn
  <2>. QED
    BY <2>1, <2>2, <2>3, CallContinues
<1>36. CASE UNCHANGED vars
  <2>1. UNCHANGED <<status, errored, cur, kind, attached, dpb, shown, inPkt, ready, frame, hold,
                    cpc, after, sending>>
    BY <1>36 DEF vars, codec, references, blocks, call, client, budget
  <2>2. Awaited' = Awaited /\ Waiting' = Waiting
    BY <2>1 DEF Awaited, Waiting
  <2>. QED
    BY <2>1, <2>2 DEF PendingAwaited
<1>. QED
  BY <1>1, <1>2, <1>3, <1>4, <1>5, <1>6, <1>7, <1>8, <1>9, <1>10, <1>11, <1>12, <1>13, <1>14,
     <1>15, <1>16, <1>17, <1>18, <1>19, <1>20, <1>21, <1>22, <1>23, <1>24, <1>25, <1>26, <1>27,
     <1>28, <1>29, <1>30, <1>31, <1>32, <1>33, <1>34, <1>35, <1>36
     DEF Next, Step

\* A step that makes no work pending and does not end the stream.
LEMMA EosKept ==
    ASSUME EosFinishesEverything, UNCHANGED sigEos, errored' \in {errored, TRUE},
           \A w \in Works : status'[w] = "pending" => status[w] = "pending"
    PROVE  EosFinishesEverything'
BY DEF EosFinishesEverything

\* Every step leaves an end of stream with no pending work before it.
LEMMA EosStep ==
    ASSUME InTurn, StatusKnown, DrainPoint, DrainsOut, PendingAwaited,
           EosFinishesEverything, [Next]_vars
    PROVE  EosFinishesEverything'
<1>1. CASE \E k \in {"frame", "frameEos", "eos"} : Process(k)
  <2>1. UNCHANGED <<sigEos, errored, status>>
    BY <1>1 DEF Process, Idle, SetDecoderBlockPool, codec, references, client, budget
  <2>. QED
    BY <2>1, EosKept
<1>2. CASE \E eos \in BOOLEAN : ProcessNothing(eos)
  <2>1. sigEos' # "drain"
    BY <1>2 DEF ProcessNothing
  <2>. QED
    BY <2>1 DEF EosFinishesEverything
<1>3. CASE ProcessRefused
  <2>1. UNCHANGED <<sigEos, errored>> /\ status' = [status EXCEPT ![nextWork] = "error"]
    BY <1>3 DEF ProcessRefused
  <2>2. \A w \in Works : status'[w] = "pending" => status[w] = "pending"
    BY <2>1 DEF StatusKnown
  <2>. QED
    BY <2>1, <2>2, EosKept
<1>4. CASE \E withEos \in BOOLEAN : ClientDrains(withEos)
  <2>1. UNCHANGED <<sigEos, errored, status>>
    BY <1>4 DEF ClientDrains, Idle, codec, references, blocks, client
  <2>. QED
    BY <2>1, EosKept
<1>5. CASE Flush
  <2>1. sigEos' = "no"
    BY <1>5 DEF Flush, Reopened
  <2>. QED
    BY <2>1 DEF EosFinishesEverything
<1>6. CASE Reset
  <2>1. sigEos' = "no"
    BY <1>6 DEF Reset, Reopened
  <2>. QED
    BY <2>1 DEF EosFinishesEverything
<1>7. CASE PrepareFails
  <2>1. errored' = TRUE
    BY <1>7 DEF PrepareFails, Fails
  <2>. QED
    BY <2>1 DEF EosFinishesEverything
<1>8. CASE SendAgain
  <2>1. UNCHANGED <<sigEos, errored, status>>
    BY <1>8 DEF SendAgain, codec, references, blocks, call, client, budget
  <2>. QED
    BY <2>1, EosKept
<1>9. CASE Send
  <2>1. UNCHANGED <<sigEos, errored, status>>
    BY <1>9 DEF Send, references, blocks, client, budget
  <2>. QED
    BY <2>1, EosKept
<1>10. CASE Sent
  <2>1. UNCHANGED <<sigEos, errored, status>>
    BY <1>10 DEF Sent, codec, references, blocks, client, budget
  <2>. QED
    BY <2>1, EosKept
<1>11. CASE CodecTakesPacket
  <2>1. UNCHANGED <<sigEos, errored, status>>
    BY <1>11 DEF CodecTakesPacket, Keeps, blocks, call, client, budget
  <2>. QED
    BY <2>1, EosKept
<1>12. CASE CodecFails
  <2>1. UNCHANGED <<sigEos, errored, status>>
    BY <1>12 DEF CodecFails, references, blocks, call, client
  <2>. QED
    BY <2>1, EosKept
<1>13. CASE CallFailed
  <2>1. errored' = TRUE
    BY <1>13 DEF CallFailed, Fails
  <2>. QED
    BY <2>1 DEF EosFinishesEverything
<1>14. CASE CodecOutputs
  <2>1. UNCHANGED <<sigEos, errored, status>>
    BY <1>14 DEF CodecOutputs, references, blocks, call, client, budget
  <2>. QED
    BY <2>1, EosKept
<1>15. CASE AcquirePending
  <2>1. UNCHANGED <<sigEos, errored, status>>
    BY <1>15 DEF AcquirePending, codec, references, call, client, budget
  <2>. QED
    BY <2>1, EosKept
<1>16. CASE AcquireFetch
  <2>1. UNCHANGED <<sigEos, errored, status>>
    BY <1>16 DEF AcquireFetch, codec, references, call, client, budget
  <2>. QED
    BY <2>1, EosKept
<1>17. CASE AcquireDisabled
  <2>1. UNCHANGED <<sigEos, errored, status>>
    BY <1>17 DEF AcquireDisabled, Enters, references, blocks, call, client, budget
  <2>. QED
    BY <2>1, EosKept
<1>18. CASE AcquireFails
  <2>1. UNCHANGED <<sigEos, errored, status>>
    BY <1>18 DEF AcquireFails, Enters, references, call, client
  <2>. QED
    BY <2>1, EosKept
<1>19. CASE Import
  <2>1. UNCHANGED <<sigEos, errored, status>>
    BY <1>19 DEF Import, Enters, blocks, call, client, budget
  <2>. QED
    BY <2>1, EosKept
<1>20. CASE ImportFails
  <2>1. UNCHANGED <<sigEos, errored, status>>
    BY <1>20 DEF ImportFails, Enters, references, call, client
  <2>. QED
    BY <2>1, EosKept
<1>21. CASE Decode
  <2>1. UNCHANGED <<sigEos, errored, status>>
    BY <1>21 DEF Decode, references, blocks, call, client, budget
  <2>. QED
    BY <2>1, EosKept
<1>22. CASE StartLoop
  <2>1. UNCHANGED <<sigEos, errored, status>>
    BY <1>22 DEF StartLoop, SetDecoderBlockPool, codec, references, client, budget, call
  <2>. QED
    BY <2>1, EosKept
<1>23. CASE Receive
  <2>1. UNCHANGED <<sigEos, errored, status>>
    BY <1>23 DEF Receive, Keeps, codec, blocks, client, budget
  <2>. QED
    BY <2>1, EosKept
<1>24. CASE Received
  <2>1. UNCHANGED <<sigEos, errored, status>>
    BY <1>24 DEF Received, references, blocks, call, client, budget
  <2>. QED
    BY <2>1, EosKept
<1>25. CASE OutputDirect
  <2>1. UNCHANGED <<sigEos, errored>>
    BY <1>25 DEF OutputDirect
  <2>2. status' = status \/ \E w : status' = [status EXCEPT ![w] = "done"]
    BY <1>25 DEF OutputDirect, FinishOutput
  <2>3. \A w \in Works : status'[w] = "pending" => status[w] = "pending"
    BY <2>2 DEF StatusKnown
  <2>. QED
    BY <2>1, <2>3, EosKept
<1>26. CASE OutputByCopy
  <2>1. UNCHANGED <<sigEos, errored, status>>
    BY <1>26 DEF OutputByCopy, codec, references, call, client
  <2>. QED
    BY <2>1, EosKept
<1>27. CASE CopyFetch
  <2>1. UNCHANGED <<sigEos, errored, status>>
    BY <1>27 DEF CopyFetch, codec, references, blocks, call, client, budget
  <2>. QED
    BY <2>1, EosKept
<1>28. CASE CopyBlocked
  <2>1. errored' = TRUE
    BY <1>28 DEF CopyBlocked, Fails
  <2>. QED
    BY <2>1 DEF EosFinishesEverything
<1>29. CASE Copy
  <2>1. UNCHANGED <<sigEos, errored>>
    BY <1>29 DEF Copy
  <2>2. status' = status \/ \E w : status' = [status EXCEPT ![w] = "done"]
    BY <1>29 DEF Copy, FinishOutput
  <2>3. \A w \in Works : status'[w] = "pending" => status[w] = "pending"
    BY <2>2 DEF StatusKnown
  <2>. QED
    BY <2>1, <2>3, EosKept
<1>30. CASE OutputFails
  <2>1. errored' = TRUE
    BY <1>30 DEF OutputFails, Fails
  <2>. QED
    BY <2>1 DEF EosFinishesEverything
<1>31. CASE PublishHeld
  <2>1. UNCHANGED <<sigEos, errored>>
    BY <1>31 DEF PublishHeld
  <2>2. status' = status \/ \E w : status' = [status EXCEPT ![w] = "done"]
    BY <1>31 DEF PublishHeld, FinishOutput
  <2>3. \A w \in Works : status'[w] = "pending" => status[w] = "pending"
    BY <2>2 DEF StatusKnown
  <2>. QED
    BY <2>1, <2>3, EosKept
<1>32. CASE FinishWork
  <2>1. /\ cpc = "end" /\ after \in {"finish", "eos"} /\ UNCHANGED errored
        /\ status' = [status EXCEPT ![cur] = WorkResult]
        /\ sigEos' = IF after = "eos" THEN "drain" ELSE sigEos
    BY <1>32 DEF FinishWork, EndWork
  <2>2. CASE after = "finish"
    <3>1. sigEos' = "no"
      BY <2>1, <2>2 DEF InTurn, DrainPoint
    <3>. QED
      BY <3>1 DEF EosFinishesEverything
  <2>3. CASE after = "eos"
    <3>1. SUFFICES ASSUME ~errored, NEW w \in Works, status'[w] = "pending" PROVE FALSE
      BY <2>1 DEF EosFinishesEverything
    <3>2. status[w] = "pending"
      BY <2>1, <2>3, <3>1 DEF StatusKnown, WorkResult
    <3>3. w \in Awaited
      BY <2>1, <3>1, <3>2 DEF PendingAwaited
    <3>. QED
      BY <2>1, <2>3, <3>3, NothingAwaited, NothingIsNone
  <2>. QED
    BY <2>1, <2>2, <2>3
<1>33. CASE DrainEnds
  <2>1. UNCHANGED <<sigEos, errored, status>>
    BY <1>33 DEF DrainEnds, FlushCodec, Keeps, Rest, codec, references, blocks, client, budget
  <2>. QED
    BY <2>1, EosKept
<1>34. CASE ClientReturns
  <2>1. UNCHANGED <<sigEos, errored, status>>
    BY <1>34 DEF ClientReturns, codec, references, blocks, call, client, budget
  <2>. QED
    BY <2>1, EosKept
<1>35. CASE ClientChangesPool
  <2>1. UNCHANGED <<sigEos, errored, status>>
    BY <1>35 DEF ClientChangesPool, Idle, codec, references, blocks, call
  <2>. QED
    BY <2>1, EosKept
<1>36. CASE UNCHANGED vars
  <2>1. UNCHANGED <<sigEos, errored, status>>
    BY <1>36 DEF vars, codec, references, blocks, call, client, budget
  <2>. QED
    BY <2>1, EosKept
<1>. QED
  BY <1>1, <1>2, <1>3, <1>4, <1>5, <1>6, <1>7, <1>8, <1>9, <1>10, <1>11, <1>12, <1>13, <1>14,
     <1>15, <1>16, <1>17, <1>18, <1>19, <1>20, <1>21, <1>22, <1>23, <1>24, <1>25, <1>26, <1>27,
     <1>28, <1>29, <1>30, <1>31, <1>32, <1>33, <1>34, <1>35, <1>36
     DEF Next, Step

\* EosInv holds before the first work.
LEMMA EosInvInit == Init => EosInv
<1>. SUFFICES ASSUME Init PROVE EosInv
  OBVIOUS
<1>1. RefInv
  BY RefInvInit
<1>2. StatusKnown
  BY DEF Init, StatusKnown
<1>3. DrainPoint /\ HeldHasBlock /\ DrainsOut
  BY DEF Init, DrainPoint, HeldHasBlock, DrainsOut, NoOutput
<1>4. PendingAwaited /\ EosFinishesEverything
  BY DEF Init, PendingAwaited, EosFinishesEverything
<1>. QED
  BY <1>1, <1>2, <1>3, <1>4 DEF EosInv

\* Each step keeps it.
LEMMA EosInvStep == EosInv /\ [Next]_vars => EosInv'
<1>. SUFFICES ASSUME EosInv, [Next]_vars PROVE EosInv'
  OBVIOUS
<1>1. /\ RefInv /\ StatusKnown /\ DrainPoint /\ HeldHasBlock /\ DrainsOut
      /\ PendingAwaited /\ EosFinishesEverything
  BY DEF EosInv
<1>2. Typed /\ InTurn /\ Numbered /\ ReferencesAccounted
  BY <1>1 DEF RefInv
<1>3. RefInv' /\ StatusKnown' /\ DrainPoint' /\ HeldHasBlock' /\ DrainsOut'
  BY <1>1, <1>2, RefInvStep, StatusStep, PointStep, HeldStep, DrainStep
<1>4. PendingAwaited' /\ EosFinishesEverything'
  BY <1>1, <1>2, PendingStep, EosStep
<1>. QED
  BY <1>3, <1>4 DEF EosInv

\* When a drained end of stream reaches the client without an error before it, every
\* work submitted earlier is finished, whatever the codec reorders or holds back
\* and whichever way its pictures are output (ProcessDecoder, DrainDecoder).
THEOREM EndOfStreamIsComplete == Spec => []EosFinishesEverything
<1>1. EosInv => EosFinishesEverything
  BY DEF EosInv
<1>. QED
  BY <1>1, EosInvInit, EosInvStep, PTL DEF Spec

-----------------------------------------------------------------------------
(* A slot for the next picture.                                            *)

\* Settling frees slots and changes no other.
LEMMA SettledType ==
    ASSUME NEW x \in [Slots -> SlotStates], NEW live, NEW rb, NEW q, NEW locals
    PROVE  Settled(x, live, rb, q, locals) \in [Slots -> SlotStates]
<1>1. Free \in SlotStates
  BY DEF SlotStates
<1>. QED
  BY <1>1 DEF Settled

\* Neither does the output that leaves with its work.
LEMMA WithClientType ==
    ASSUME NEW x \in [Slots -> SlotStates], NEW b
    PROVE  WithClient(b, x) \in [Slots -> SlotStates]
BY DEF WithClient, SlotStates

\* Every step leaves each slot in one of the states.
LEMMA SlotStep ==
    ASSUME Typed, slot \in [Slots -> SlotStates], [Next]_vars
    PROVE  (slot \in [Slots -> SlotStates])'
<1>1. CASE \E k \in {"frame", "frameEos", "eos"} : Process(k)
  BY <1>1, SettledType DEF Process, SetDecoderBlockPool
<1>2. CASE \E eos \in BOOLEAN : ProcessNothing(eos)
  BY <1>2, SettledType DEF ProcessNothing, SetDecoderBlockPool
<1>3. CASE ProcessRefused
  BY <1>3 DEF ProcessRefused, Idle, codec, references, blocks, call, budget
<1>4. CASE \E withEos \in BOOLEAN : ClientDrains(withEos)
  BY <1>4 DEF ClientDrains, Idle, codec, references, blocks, client
<1>5. CASE Flush
  BY <1>5, SettledType DEF Flush, Keeps
<1>6. CASE Reset
  BY <1>6, SettledType DEF Reset
<1>7. CASE PrepareFails
  BY <1>7, SettledType, WithClientType DEF PrepareFails, Fails
<1>8. CASE SendAgain
  BY <1>8 DEF SendAgain, codec, references, blocks, call, client, budget
<1>9. CASE Send
  BY <1>9 DEF Send, references, blocks, client, budget
<1>10. CASE Sent
  BY <1>10 DEF Sent, codec, references, blocks, client, budget
<1>11. CASE CodecTakesPacket
  BY <1>11, SettledType DEF CodecTakesPacket, Keeps
<1>12. CASE CodecFails
  BY <1>12 DEF CodecFails, references, blocks, call, client
<1>13. CASE CallFailed
  BY <1>13, SettledType, WithClientType DEF CallFailed, Fails
<1>14. CASE CodecOutputs
  BY <1>14 DEF CodecOutputs, references, blocks, call, client, budget
<1>15. CASE AcquirePending
  <2>1. For(inPkt) \in SlotStates
    BY DEF SlotStates, Typed
  <2>2. PICK x, b : x \in [Slots -> SlotStates] /\ slot' = [x EXCEPT ![b] = For(inPkt)]
    BY <1>15, SettledType DEF AcquirePending
  <2>. QED
    BY <2>1, <2>2
<1>16. CASE AcquireFetch
  <2>1. For(inPkt) \in SlotStates /\ Kept \in SlotStates
    BY DEF SlotStates, Typed
  <2>2. AfterSearch \in [Slots -> SlotStates]
    BY SettledType DEF AfterSearch
  <2>3. PICK b \in Slots, v \in {Kept, For(inPkt)} : slot' = [AfterSearch EXCEPT ![b] = v]
    BY <1>16 DEF AcquireFetch
  <2>. QED
    BY <2>1, <2>2, <2>3
<1>17. CASE AcquireDisabled
  BY <1>17 DEF AcquireDisabled, Enters, references, blocks, call, client, budget
<1>18. CASE AcquireFails
  BY <1>18, SettledType DEF AcquireFails, AfterSearch
<1>19. CASE Import
  BY <1>19 DEF Import, Enters, blocks, call, client, budget
<1>20. CASE ImportFails
  BY <1>20 DEF ImportFails, SlotStates
<1>21. CASE Decode
  BY <1>21 DEF Decode, references, blocks, call, client, budget
<1>22. CASE StartLoop
  BY <1>22, SettledType DEF StartLoop, SetDecoderBlockPool
<1>23. CASE Receive
  BY <1>23, SettledType DEF Receive, Keeps
<1>24. CASE Received
  BY <1>24 DEF Received, references, blocks, call, client, budget
<1>25. CASE OutputDirect
  BY <1>25, SettledType, WithClientType DEF OutputDirect, FinishOutput
<1>26. CASE OutputByCopy
  BY <1>26 DEF OutputByCopy, codec, references, call, client
<1>27. CASE CopyFetch
  BY <1>27 DEF CopyFetch, SlotStates, Typed
<1>28. CASE CopyBlocked
  BY <1>28, SettledType, WithClientType DEF CopyBlocked, Fails
<1>29. CASE Copy
  BY <1>29, SettledType, WithClientType DEF Copy, FinishOutput
<1>30. CASE OutputFails
  BY <1>30, SettledType, WithClientType DEF OutputFails, Fails
<1>31. CASE PublishHeld
  BY <1>31, SettledType, WithClientType DEF PublishHeld, FinishOutput
<1>32. CASE FinishWork
  BY <1>32, WithClientType DEF FinishWork
<1>33. CASE DrainEnds
  BY <1>33, SettledType DEF DrainEnds, Keeps
<1>34. CASE ClientReturns
  BY <1>34 DEF ClientReturns, SlotStates
<1>35. CASE ClientChangesPool
  BY <1>35 DEF ClientChangesPool, Idle, codec, references, blocks, call
<1>36. CASE UNCHANGED vars
  BY <1>36 DEF vars, codec, references, blocks, call, client, budget
<1>. QED
  BY <1>1, <1>2, <1>3, <1>4, <1>5, <1>6, <1>7, <1>8, <1>9, <1>10, <1>11, <1>12, <1>13, <1>14,
     <1>15, <1>16, <1>17, <1>18, <1>19, <1>20, <1>21, <1>22, <1>23, <1>24, <1>25, <1>26, <1>27,
     <1>28, <1>29, <1>30, <1>31, <1>32, <1>33, <1>34, <1>35, <1>36
     DEF Next, Step

\* Every step leaves a packet in the codec with a pool.
LEMMA PoolStep ==
    ASSUME InTurn,
           clientPool \in 1 .. NumPools, pool \in 0 .. NumPools,
           cur # NoWork \/ inPkt # NoWork => pool # 0, [Next]_vars
    PROVE  (/\ clientPool \in 1 .. NumPools /\ pool \in 0 .. NumPools
            /\ cur # NoWork \/ inPkt # NoWork => pool # 0)'
<1>1. CASE \E k \in {"frame", "frameEos", "eos"} : Process(k)
  BY <1>1, PoolAssumption DEF Process, Idle, SetDecoderBlockPool, codec, references, client, budget
<1>2. CASE \E eos \in BOOLEAN : ProcessNothing(eos)
  BY <1>2, PoolAssumption DEF ProcessNothing, Idle, SetDecoderBlockPool, codec, references, call,
           budget
<1>3. CASE ProcessRefused
  BY <1>3, PoolAssumption DEF ProcessRefused, Idle, codec, references, blocks, call, budget
<1>4. CASE \E withEos \in BOOLEAN : ClientDrains(withEos)
  BY <1>4, PoolAssumption DEF ClientDrains, Idle, codec, references, blocks, client
<1>5. CASE Flush
  BY <1>5, PoolAssumption DEF Flush, Idle, FlushCodec, Keeps, Reopened, blocks, call
<1>6. CASE Reset
  BY <1>6, PoolAssumption DEF Reset, FlushCodec, Idle, call, InTurn
<1>7. CASE PrepareFails
  <2>1. cur' = NoWork /\ UNCHANGED <<clientPool, pool>> /\ inPkt' \in {inPkt, NoWork}
    BY <1>7 DEF PrepareFails, Fails, FlushCodec, Rest, blocks, codec
  <2>. QED
    BY <2>1
<1>8. CASE SendAgain
  BY <1>8, PoolAssumption DEF SendAgain, codec, references, blocks, call, client, budget
<1>9. CASE Send
  BY <1>9 DEF Send, InTurn, blocks, client
<1>10. CASE Sent
  BY <1>10, PoolAssumption DEF Sent, codec, references, blocks, client, budget
<1>11. CASE CodecTakesPacket
  BY <1>11, PoolAssumption DEF CodecTakesPacket, Keeps, blocks, call, client, budget
<1>12. CASE CodecFails
  BY <1>12, PoolAssumption DEF CodecFails, references, blocks, call, client
<1>13. CASE CallFailed
  <2>1. cur' = NoWork /\ UNCHANGED <<clientPool, pool>> /\ inPkt' \in {inPkt, NoWork}
    BY <1>13 DEF CallFailed, Fails, FlushCodec, Rest, blocks, codec
  <2>. QED
    BY <2>1
<1>14. CASE CodecOutputs
  BY <1>14, PoolAssumption DEF CodecOutputs, references, blocks, call, client, budget
<1>15. CASE AcquirePending
  BY <1>15, PoolAssumption DEF AcquirePending, codec, references, call, client, budget
<1>16. CASE AcquireFetch
  BY <1>16, PoolAssumption DEF AcquireFetch, codec, references, call, client, budget
<1>17. CASE AcquireDisabled
  BY <1>17, PoolAssumption DEF AcquireDisabled, Enters, references, blocks, call, client, budget
<1>18. CASE AcquireFails
  BY <1>18, PoolAssumption DEF AcquireFails, Enters, references, call, client
<1>19. CASE Import
  BY <1>19, PoolAssumption DEF Import, Enters, blocks, call, client, budget
<1>20. CASE ImportFails
  BY <1>20, PoolAssumption DEF ImportFails, Enters, references, call, client
<1>21. CASE Decode
  BY <1>21, PoolAssumption DEF Decode, references, blocks, call, client, budget
<1>22. CASE StartLoop
  BY <1>22, PoolAssumption DEF StartLoop, SetDecoderBlockPool, codec, references, client, budget,
           call
<1>23. CASE Receive
  BY <1>23, PoolAssumption DEF Receive, Keeps, codec, blocks, client, budget
<1>24. CASE Received
  BY <1>24, PoolAssumption DEF Received, references, blocks, call, client, budget
<1>25. CASE OutputDirect
  BY <1>25, PoolAssumption DEF OutputDirect, FinishOutput, codec, references, blocks, call, budget
<1>26. CASE OutputByCopy
  BY <1>26, PoolAssumption DEF OutputByCopy, codec, references, call, client
<1>27. CASE CopyFetch
  BY <1>27, PoolAssumption DEF CopyFetch, codec, references, blocks, call, client, budget
<1>28. CASE CopyBlocked
  <2>1. cur' = NoWork /\ UNCHANGED <<clientPool, pool>> /\ inPkt' \in {inPkt, NoWork}
    BY <1>28 DEF CopyBlocked, Fails, FlushCodec, Rest, blocks, codec
  <2>. QED
    BY <2>1
<1>29. CASE Copy
  BY <1>29, PoolAssumption DEF Copy, FinishOutput, codec, references, blocks, call, budget
<1>30. CASE OutputFails
  <2>1. cur' = NoWork /\ UNCHANGED <<clientPool, pool>> /\ inPkt' \in {inPkt, NoWork}
    BY <1>30 DEF OutputFails, Fails, FlushCodec, Rest, blocks, codec
  <2>. QED
    BY <2>1
<1>31. CASE PublishHeld
  BY <1>31, PoolAssumption DEF PublishHeld, FinishOutput, codec, references, blocks, call, budget
<1>32. CASE FinishWork
  BY <1>32, PoolAssumption DEF FinishWork, EndWork, Rest, codec, references, blocks, budget
<1>33. CASE DrainEnds
  BY <1>33, PoolAssumption DEF DrainEnds, FlushCodec, Keeps, Rest, codec, references, blocks,
           client, budget
<1>34. CASE ClientReturns
  BY <1>34, PoolAssumption DEF ClientReturns, codec, references, blocks, call, client, budget
<1>35. CASE ClientChangesPool
  BY <1>35, PoolAssumption DEF ClientChangesPool, Idle, codec, references, blocks, call
<1>36. CASE UNCHANGED vars
  BY <1>36, PoolAssumption DEF vars, codec, references, blocks, call, client, budget
<1>. QED
  BY <1>1, <1>2, <1>3, <1>4, <1>5, <1>6, <1>7, <1>8, <1>9, <1>10, <1>11, <1>12, <1>13, <1>14,
     <1>15, <1>16, <1>17, <1>18, <1>19, <1>20, <1>21, <1>22, <1>23, <1>24, <1>25, <1>26, <1>27,
     <1>28, <1>29, <1>30, <1>31, <1>32, <1>33, <1>34, <1>35, <1>36
     DEF Next, Step

\* Every step leaves room for the picture that the codec asks for.
LEMMA RoomStep ==
    ASSUME InTurn, DrainsOut, RoomLeft, [Next]_vars
    PROVE  RoomLeft'
<1>1. CASE \E k \in {"frame", "frameEos", "eos"} : Process(k)
  BY <1>1 DEF Process, Idle, SetDecoderBlockPool, codec, references, client, budget, RoomLeft,
           InTurn, DrainsOut, NoOutput
<1>2. CASE \E eos \in BOOLEAN : ProcessNothing(eos)
  BY <1>2 DEF ProcessNothing, Idle, SetDecoderBlockPool, codec, references, call, budget, RoomLeft,
           InTurn, DrainsOut, NoOutput
<1>3. CASE ProcessRefused
  BY <1>3 DEF ProcessRefused, Idle, codec, references, blocks, call, budget, RoomLeft, InTurn,
           DrainsOut, NoOutput
<1>4. CASE \E withEos \in BOOLEAN : ClientDrains(withEos)
  BY <1>4 DEF ClientDrains, Idle, codec, references, blocks, client, RoomLeft, InTurn, DrainsOut,
           NoOutput
<1>5. CASE Flush
  BY <1>5 DEF Flush, Idle, FlushCodec, Keeps, Reopened, blocks, call, RoomLeft, InTurn, DrainsOut,
           NoOutput
<1>6. CASE Reset
  BY <1>6 DEF Reset, Idle, FlushCodec, Reopened, call, RoomLeft, InTurn, DrainsOut, NoOutput
<1>7. CASE PrepareFails
  <2>1. cpc' = "idle" /\ hold' = NoOutput
    BY <1>7 DEF PrepareFails, Fails, Rest
  <2>. QED
    BY <2>1 DEF RoomLeft
<1>8. CASE SendAgain
  BY <1>8 DEF SendAgain, codec, references, blocks, call, client, budget, RoomLeft, InTurn,
           DrainsOut, NoOutput
<1>9. CASE Send
  BY <1>9 DEF Send, references, blocks, client, budget, RoomLeft, InTurn, DrainsOut, NoOutput
<1>10. CASE Sent
  BY <1>10 DEF Sent, codec, references, blocks, client, budget, RoomLeft, InTurn, DrainsOut,
           NoOutput
<1>11. CASE CodecTakesPacket
  BY <1>11 DEF CodecTakesPacket, Keeps, blocks, call, client, budget, RoomLeft, InTurn, DrainsOut,
           NoOutput
<1>12. CASE CodecFails
  BY <1>12 DEF CodecFails, references, blocks, call, client, RoomLeft, InTurn, DrainsOut, NoOutput
<1>13. CASE CallFailed
  <2>1. cpc' = "idle" /\ hold' = NoOutput
    BY <1>13 DEF CallFailed, Fails, Rest
  <2>. QED
    BY <2>1 DEF RoomLeft
<1>14. CASE CodecOutputs
  BY <1>14 DEF CodecOutputs, references, blocks, call, client, budget, RoomLeft, InTurn, DrainsOut,
           NoOutput
<1>15. CASE AcquirePending
  BY <1>15 DEF AcquirePending, codec, references, call, client, budget, RoomLeft, InTurn, DrainsOut,
           NoOutput
<1>16. CASE AcquireFetch
  BY <1>16 DEF AcquireFetch, codec, references, call, client, budget, RoomLeft, InTurn, DrainsOut,
           NoOutput
<1>17. CASE AcquireDisabled
  BY <1>17 DEF AcquireDisabled, Enters, references, blocks, call, client, budget, RoomLeft, InTurn,
           DrainsOut, NoOutput
<1>18. CASE AcquireFails
  BY <1>18 DEF AcquireFails, Enters, references, call, client, RoomLeft, InTurn, DrainsOut, NoOutput
<1>19. CASE Import
  BY <1>19 DEF Import, Enters, blocks, call, client, budget, RoomLeft, InTurn, DrainsOut, NoOutput
<1>20. CASE ImportFails
  BY <1>20 DEF ImportFails, Enters, references, call, client, RoomLeft, InTurn, DrainsOut, NoOutput
<1>21. CASE Decode
  BY <1>21 DEF Decode, references, blocks, call, client, budget, RoomLeft, InTurn, DrainsOut,
           NoOutput
<1>22. CASE StartLoop
  BY <1>22 DEF StartLoop, SetDecoderBlockPool, codec, references, client, budget, call, RoomLeft,
           InTurn, DrainsOut, NoOutput
<1>23. CASE Receive
  BY <1>23 DEF Receive, Keeps, codec, blocks, client, budget, RoomLeft, InTurn, DrainsOut, NoOutput
<1>24. CASE Received
  BY <1>24 DEF Received, references, blocks, call, client, budget, RoomLeft, InTurn, DrainsOut,
           NoOutput
<1>25. CASE OutputDirect
  <2>1. cpc' = "receive"
    BY <1>25 DEF OutputDirect
  <2>. QED
    BY <2>1 DEF RoomLeft
<1>26. CASE OutputByCopy
  BY <1>26 DEF OutputByCopy, codec, references, call, client, RoomLeft, InTurn, DrainsOut, NoOutput
<1>27. CASE CopyFetch
  BY <1>27 DEF CopyFetch, codec, references, blocks, call, client, budget, RoomLeft, InTurn,
           DrainsOut, NoOutput
<1>28. CASE CopyBlocked
  <2>1. cpc' = "idle" /\ hold' = NoOutput
    BY <1>28 DEF CopyBlocked, Fails, Rest
  <2>. QED
    BY <2>1 DEF RoomLeft
<1>29. CASE Copy
  <2>1. cpc' = "receive"
    BY <1>29 DEF Copy
  <2>. QED
    BY <2>1 DEF RoomLeft
<1>30. CASE OutputFails
  <2>1. cpc' = "idle" /\ hold' = NoOutput
    BY <1>30 DEF OutputFails, Fails, Rest
  <2>. QED
    BY <2>1 DEF RoomLeft
<1>31. CASE PublishHeld
  <2>1. cpc' \in {"send", "end"} /\ hold' = NoOutput
    BY <1>31 DEF PublishHeld, FinishOutput
  <2>. QED
    BY <2>1 DEF RoomLeft
<1>32. CASE FinishWork
  BY <1>32 DEF FinishWork, EndWork, Rest, codec, references, blocks, budget, RoomLeft, InTurn,
           DrainsOut, NoOutput
<1>33. CASE DrainEnds
  BY <1>33 DEF DrainEnds, FlushCodec, Keeps, Rest, codec, references, blocks, client, budget,
           RoomLeft, InTurn, DrainsOut, NoOutput
<1>34. CASE ClientReturns
  BY <1>34 DEF ClientReturns, codec, references, blocks, call, client, budget, RoomLeft, InTurn,
           DrainsOut, NoOutput
<1>35. CASE ClientChangesPool
  BY <1>35 DEF ClientChangesPool, Idle, codec, references, blocks, call, RoomLeft, InTurn,
           DrainsOut, NoOutput
<1>36. CASE UNCHANGED vars
  BY <1>36 DEF vars, codec, references, blocks, call, client, budget, RoomLeft, InTurn, DrainsOut,
           NoOutput
<1>. QED
  BY <1>1, <1>2, <1>3, <1>4, <1>5, <1>6, <1>7, <1>8, <1>9, <1>10, <1>11, <1>12, <1>13, <1>14,
     <1>15, <1>16, <1>17, <1>18, <1>19, <1>20, <1>21, <1>22, <1>23, <1>24, <1>25, <1>26, <1>27,
     <1>28, <1>29, <1>30, <1>31, <1>32, <1>33, <1>34, <1>35, <1>36
     DEF Next, Step

\* A step of the call that adds no picture to those of the current work.
LEMMA OutputKept ==
    ASSUME OutputAfterPacket, UNCHANGED <<cur, attached>>, inPkt' \in {inPkt, NoWork},
           Waiting' => Waiting,
           cur # NoWork /\ cur \in (Pictures \cup {hold.work})' => cur \in Pictures \cup {hold.work}
    PROVE  OutputAfterPacket'
BY DEF OutputAfterPacket

\* Without a current work nothing is attached to one.
LEMMA NoCurrentWork ==
    ASSUME cur' = NoWork, attached' = NoBuffer
    PROVE  OutputAfterPacket'
BY DEF OutputAfterPacket

\* The pictures move from the codec to the frame and to the output held back.
LEMMA OutputMoves ==
    ASSUME InTurn, OutputAfterPacket, HeldHasBlock, NEW b, NEW x,
           FinishOutput([work |-> frame, buf |-> b], x),
           UNCHANGED <<cur, inPkt, dpb, ready, frame>>, Waiting' => Waiting
    PROVE  OutputAfterPacket'
<1>1. hold'.work = frame /\ Pictures' = Pictures
  BY DEF FinishOutput, Pictures, Live
<1>2. attached' # attached => cur # NoWork /\ cur = hold.work
  BY DEF FinishOutput, Publishes
<1>3. frame # NoWork => frame \in Pictures
  BY DEF Pictures, Live
<1>. QED
  BY <1>1, <1>2, <1>3 DEF OutputAfterPacket

\* Every step leaves the outputs of the current work behind its packet.
LEMMA OutputStep ==
    ASSUME Typed, InTurn, Numbered, DrainPoint, HeldHasBlock, RoomLeft,
           OutputAfterPacket, [Next]_vars
    PROVE  OutputAfterPacket'
<1>1. CASE \E k \in {"frame", "frameEos", "eos"} : Process(k)
  <2>1. /\ cpc = "idle" /\ cur' = nextWork /\ UNCHANGED <<attached, hold, dpb, ready, frame>>
    BY <1>1 DEF Process, Idle, codec
  <2>2. cur = NoWork /\ attached = NoBuffer /\ hold = NoOutput
    BY <2>1 DEF InTurn, OutputAfterPacket, RoomLeft
  <2>3. Pictures' = Pictures /\ nextWork \notin Pictures
    <3>1. \A p \in Pictures : p # NoWork /\ p < nextWork
      BY <2>2 DEF Numbered, Pictures, Live
    <3>. QED
      BY <2>1, <3>1 DEF Pictures, Live, Typed
  <2>4. nextWork # NoWork
    BY DEF Typed, NoWork
  <2>. QED
    BY <2>1, <2>2, <2>3, <2>4 DEF OutputAfterPacket, NoOutput
<1>2. CASE \E eos \in BOOLEAN : ProcessNothing(eos)
  <2>1. cur = NoWork /\ UNCHANGED <<cur, attached>>
    BY <1>2 DEF ProcessNothing, Idle, Keeps, call, InTurn
  <2>. QED
    BY <2>1, NoCurrentWork DEF OutputAfterPacket
<1>3. CASE ProcessRefused
  <2>1. cur = NoWork /\ UNCHANGED <<cur, attached>>
    BY <1>3 DEF ProcessRefused, Idle, Keeps, call, InTurn
  <2>. QED
    BY <2>1, NoCurrentWork DEF OutputAfterPacket
<1>4. CASE \E withEos \in BOOLEAN : ClientDrains(withEos)
  <2>1. cur = NoWork /\ UNCHANGED <<cur, attached>>
    BY <1>4 DEF ClientDrains, Idle, Keeps, call, InTurn
  <2>. QED
    BY <2>1, NoCurrentWork DEF OutputAfterPacket
<1>5. CASE Flush
  <2>1. cur = NoWork /\ UNCHANGED <<cur, attached>>
    BY <1>5 DEF Flush, Idle, Keeps, call, InTurn
  <2>. QED
    BY <2>1, NoCurrentWork DEF OutputAfterPacket
<1>6. CASE Reset
  <2>1. cur = NoWork /\ UNCHANGED <<cur, attached>>
    BY <1>6 DEF Reset, Idle, Keeps, call, InTurn
  <2>. QED
    BY <2>1, NoCurrentWork DEF OutputAfterPacket
<1>7. CASE PrepareFails
  <2>1. cur' = NoWork /\ attached' = NoBuffer
    BY <1>7 DEF PrepareFails, Fails, Rest
  <2>. QED
    BY <2>1, NoCurrentWork
<1>8. CASE SendAgain
  <2>1. UNCHANGED <<cur, attached, hold>> /\ inPkt' \in {inPkt, NoWork} /\ (Waiting' => Waiting)
    BY <1>8 DEF SendAgain, codec, references, blocks, call, client, budget, Waiting, InTurn,
           DrainPoint
  <2>2. Pictures' \subseteq Pictures
    BY <1>8, NothingIsNone DEF SendAgain, codec, references, blocks, call, client, budget, Pictures,
           Live, InTurn
  <2>. QED
    BY <2>1, <2>2, OutputKept
<1>9. CASE Send
  <2>1. /\ UNCHANGED <<cur, attached, hold, dpb, ready, frame, sending>> /\ cpc = "send"
        /\ inPkt' = IF sending = "packet" THEN cur ELSE NoWork
        /\ after' = "none" /\ cpc' # "send"
    BY <1>9 DEF Send
  <2>2. Pictures' = Pictures /\ ~Waiting'
    BY <2>1 DEF Pictures, Live, Waiting
  <2>3. sending = "packet" => Waiting
    BY <2>1 DEF Waiting
  <2>. QED
    BY <2>1, <2>2, <2>3 DEF OutputAfterPacket
<1>10. CASE Sent
  <2>1. UNCHANGED <<cur, attached, hold>> /\ inPkt' \in {inPkt, NoWork} /\ (Waiting' => Waiting)
    BY <1>10 DEF Sent, codec, references, blocks, client, budget, Waiting, InTurn, DrainPoint
  <2>2. Pictures' \subseteq Pictures
    BY <1>10, NothingIsNone DEF Sent, codec, references, blocks, client, budget, Pictures, Live,
           InTurn
  <2>. QED
    BY <2>1, <2>2, OutputKept
<1>11. CASE CodecTakesPacket
  <2>1. UNCHANGED <<cur, attached, hold>> /\ inPkt' \in {inPkt, NoWork} /\ (Waiting' => Waiting)
    BY <1>11 DEF CodecTakesPacket, Keeps, blocks, call, client, budget, Waiting, InTurn, DrainPoint
  <2>2. Pictures' \subseteq Pictures
    BY <1>11, NothingIsNone DEF CodecTakesPacket, Keeps, blocks, call, client, budget, Pictures, Live,
           InTurn
  <2>. QED
    BY <2>1, <2>2, OutputKept
<1>12. CASE CodecFails
  <2>1. UNCHANGED <<cur, attached, hold>> /\ inPkt' \in {inPkt, NoWork} /\ (Waiting' => Waiting)
    BY <1>12 DEF CodecFails, references, blocks, call, client, Waiting, InTurn, DrainPoint
  <2>2. Pictures' \subseteq Pictures
    BY <1>12, NothingIsNone DEF CodecFails, references, blocks, call, client, Pictures, Live, InTurn
  <2>. QED
    BY <2>1, <2>2, OutputKept
<1>13. CASE CallFailed
  <2>1. cur' = NoWork /\ attached' = NoBuffer
    BY <1>13 DEF CallFailed, Fails, Rest
  <2>. QED
    BY <2>1, NoCurrentWork
<1>14. CASE CodecOutputs
  <2>1. UNCHANGED <<cur, attached, hold, inPkt>> /\ (Waiting' => Waiting)
    BY <1>14 DEF CodecOutputs, references, blocks, call, client, budget, Waiting
  <2>2. UNCHANGED <<dpb, frame>> /\ (ready' = ready \/ ready' \in dpb)
    BY <1>14 DEF CodecOutputs
  <2>3. Pictures' \subseteq Pictures
    BY <2>2 DEF Pictures, Live
  <2>. QED
    BY <2>1, <2>3, OutputKept
<1>15. CASE AcquirePending
  <2>1. UNCHANGED <<cur, attached, hold>> /\ inPkt' \in {inPkt, NoWork} /\ (Waiting' => Waiting)
    BY <1>15 DEF AcquirePending, codec, references, call, client, budget, Waiting, InTurn, DrainPoint
  <2>2. Pictures' \subseteq Pictures
    BY <1>15, NothingIsNone DEF AcquirePending, codec, references, call, client, budget, Pictures,
           Live, InTurn
  <2>. QED
    BY <2>1, <2>2, OutputKept
<1>16. CASE AcquireFetch
  <2>1. UNCHANGED <<cur, attached, hold>> /\ inPkt' \in {inPkt, NoWork} /\ (Waiting' => Waiting)
    BY <1>16 DEF AcquireFetch, codec, references, call, client, budget, Waiting, InTurn, DrainPoint
  <2>2. Pictures' \subseteq Pictures
    BY <1>16, NothingIsNone DEF AcquireFetch, codec, references, call, client, budget, Pictures, Live,
           InTurn
  <2>. QED
    BY <2>1, <2>2, OutputKept
<1>17. CASE AcquireDisabled
  <2>1. /\ UNCHANGED <<cur, attached, hold, ready, frame, sending, after>>
        /\ inPkt' = NoWork /\ dpb' = dpb \cup {inPkt} /\ inPkt # NoWork
        /\ cpc # "send" /\ cpc' # "send"
    BY <1>17 DEF AcquireDisabled, Enters, call, InTurn
  <2>2. Pictures' = Pictures \cup {inPkt} /\ Waiting' = Waiting
    BY <2>1 DEF Pictures, Live, Waiting
  <2>3. cur = inPkt => ~Waiting
    BY <2>1 DEF Numbered, InTurn, Typed
  <2>. QED
    BY <2>1, <2>2, <2>3 DEF OutputAfterPacket
<1>18. CASE AcquireFails
  <2>1. /\ UNCHANGED <<cur, attached, hold, ready, frame, sending, after>>
        /\ inPkt' = NoWork /\ dpb' = dpb \cup {inPkt} /\ inPkt # NoWork
        /\ cpc # "send" /\ cpc' # "send"
    BY <1>18 DEF AcquireFails, Enters, call, InTurn
  <2>2. Pictures' = Pictures \cup {inPkt} /\ Waiting' = Waiting
    BY <2>1 DEF Pictures, Live, Waiting
  <2>3. cur = inPkt => ~Waiting
    BY <2>1 DEF Numbered, InTurn, Typed
  <2>. QED
    BY <2>1, <2>2, <2>3 DEF OutputAfterPacket
<1>19. CASE Import
  <2>1. /\ UNCHANGED <<cur, attached, hold, ready, frame, sending, after>>
        /\ inPkt' = NoWork /\ dpb' = dpb \cup {inPkt} /\ inPkt # NoWork
        /\ cpc # "send" /\ cpc' # "send"
    BY <1>19 DEF Import, Enters, call, InTurn
  <2>2. Pictures' = Pictures \cup {inPkt} /\ Waiting' = Waiting
    BY <2>1 DEF Pictures, Live, Waiting
  <2>3. cur = inPkt => ~Waiting
    BY <2>1 DEF Numbered, InTurn, Typed
  <2>. QED
    BY <2>1, <2>2, <2>3 DEF OutputAfterPacket
<1>20. CASE ImportFails
  <2>1. /\ UNCHANGED <<cur, attached, hold, ready, frame, sending, after>>
        /\ inPkt' = NoWork /\ dpb' = dpb \cup {inPkt} /\ inPkt # NoWork
        /\ cpc # "send" /\ cpc' # "send"
    BY <1>20 DEF ImportFails, Enters, call, InTurn
  <2>2. Pictures' = Pictures \cup {inPkt} /\ Waiting' = Waiting
    BY <2>1 DEF Pictures, Live, Waiting
  <2>3. cur = inPkt => ~Waiting
    BY <2>1 DEF Numbered, InTurn, Typed
  <2>. QED
    BY <2>1, <2>2, <2>3 DEF OutputAfterPacket
<1>21. CASE Decode
  <2>1. UNCHANGED <<cur, attached, hold, inPkt>> /\ (Waiting' => Waiting)
    BY <1>21 DEF Decode, references, blocks, call, client, budget, Waiting
  <2>2. UNCHANGED <<dpb, frame>> /\ (ready' = ready \/ ready' \in dpb)
    BY <1>21 DEF Decode
  <2>3. Pictures' \subseteq Pictures
    BY <2>2 DEF Pictures, Live
  <2>. QED
    BY <2>1, <2>3, OutputKept
<1>22. CASE StartLoop
  <2>1. UNCHANGED <<cur, attached, hold>> /\ inPkt' \in {inPkt, NoWork} /\ (Waiting' => Waiting)
    BY <1>22 DEF StartLoop, SetDecoderBlockPool, codec, references, client, budget, call, Waiting,
           InTurn, DrainPoint
  <2>2. Pictures' \subseteq Pictures
    BY <1>22, NothingIsNone DEF StartLoop, SetDecoderBlockPool, codec, references, client, budget,
           call, Pictures, Live, InTurn
  <2>. QED
    BY <2>1, <2>2, OutputKept
<1>23. CASE Receive
  <2>1. UNCHANGED <<cur, attached, hold>> /\ inPkt' \in {inPkt, NoWork} /\ (Waiting' => Waiting)
    BY <1>23 DEF Receive, Keeps, codec, blocks, client, budget, Waiting, InTurn, DrainPoint
  <2>2. Pictures' \subseteq Pictures
    BY <1>23, NothingIsNone DEF Receive, Keeps, codec, blocks, client, budget, Pictures, Live, InTurn
  <2>. QED
    BY <2>1, <2>2, OutputKept
<1>24. CASE Received
  <2>1. UNCHANGED <<cur, attached, hold>> /\ inPkt' \in {inPkt, NoWork} /\ (Waiting' => Waiting)
    BY <1>24 DEF Received, references, blocks, call, client, budget, Waiting, InTurn, DrainPoint
  <2>2. Pictures' \subseteq Pictures
    BY <1>24, NothingIsNone DEF Received, references, blocks, call, client, budget, Pictures, Live,
           InTurn
  <2>. QED
    BY <2>1, <2>2, OutputKept
<1>25. CASE OutputDirect
  <2>1. /\ UNCHANGED <<cur, inPkt, dpb, ready, frame, sending, after>> /\ cpc' = "receive"
        /\ \E b : FinishOutput([work |-> frame, buf |-> b], slot)
    BY <1>25 DEF OutputDirect, codec, call
  <2>2. Waiting' => Waiting
    BY <2>1 DEF Waiting
  <2>. QED
    BY <2>1, <2>2, OutputMoves
<1>26. CASE OutputByCopy
  <2>1. UNCHANGED <<cur, attached, hold>> /\ inPkt' \in {inPkt, NoWork} /\ (Waiting' => Waiting)
    BY <1>26 DEF OutputByCopy, codec, references, call, client, Waiting, InTurn, DrainPoint
  <2>2. Pictures' \subseteq Pictures
    BY <1>26, NothingIsNone DEF OutputByCopy, codec, references, call, client, Pictures, Live, InTurn
  <2>. QED
    BY <2>1, <2>2, OutputKept
<1>27. CASE CopyFetch
  <2>1. UNCHANGED <<cur, attached, hold>> /\ inPkt' \in {inPkt, NoWork} /\ (Waiting' => Waiting)
    BY <1>27 DEF CopyFetch, codec, references, blocks, call, client, budget, Waiting, InTurn,
           DrainPoint
  <2>2. Pictures' \subseteq Pictures
    BY <1>27, NothingIsNone DEF CopyFetch, codec, references, blocks, call, client, budget, Pictures,
           Live, InTurn
  <2>. QED
    BY <2>1, <2>2, OutputKept
<1>28. CASE CopyBlocked
  <2>1. cur' = NoWork /\ attached' = NoBuffer
    BY <1>28 DEF CopyBlocked, Fails, Rest
  <2>. QED
    BY <2>1, NoCurrentWork
<1>29. CASE Copy
  <2>1. /\ UNCHANGED <<cur, inPkt, dpb, ready, frame, sending, after>> /\ cpc' = "receive"
        /\ \E b : FinishOutput([work |-> frame, buf |-> b], slot)
    BY <1>29 DEF Copy, codec, call
  <2>2. Waiting' => Waiting
    BY <2>1 DEF Waiting
  <2>. QED
    BY <2>1, <2>2, OutputMoves
<1>30. CASE OutputFails
  <2>1. cur' = NoWork /\ attached' = NoBuffer
    BY <1>30 DEF OutputFails, Fails, Rest
  <2>. QED
    BY <2>1, NoCurrentWork
<1>31. CASE PublishHeld
  <2>1. /\ UNCHANGED <<cur, inPkt, dpb, ready, frame, sending, after>>
        /\ FinishOutput(NoOutput, slot) /\ cpc' = IF after = "resend" THEN "send" ELSE "end"
    BY <1>31 DEF PublishHeld, codec, call
  <2>2. Waiting' => Waiting
    BY <2>1 DEF Waiting
  <2>3. hold'.work = NoWork /\ Pictures' = Pictures
    BY <2>1 DEF FinishOutput, NoOutput, Pictures, Live
  <2>4. attached' # attached => cur # NoWork /\ cur = hold.work
    BY <2>1 DEF FinishOutput, Publishes
  <2>. QED
    BY <2>1, <2>2, <2>3, <2>4 DEF OutputAfterPacket
<1>32. CASE FinishWork
  <2>1. cur' = NoWork /\ attached' = NoBuffer
    BY <1>32 DEF FinishWork, Rest
  <2>. QED
    BY <2>1, NoCurrentWork
<1>33. CASE DrainEnds
  <2>1. cur = NoWork /\ cur' = NoWork /\ attached' = attached
    BY <1>33 DEF DrainEnds, Keeps, Rest, InTurn
  <2>. QED
    BY <2>1, NoCurrentWork DEF OutputAfterPacket
<1>34. CASE ClientReturns
  <2>1. UNCHANGED <<cur, attached, hold>> /\ inPkt' \in {inPkt, NoWork} /\ (Waiting' => Waiting)
    BY <1>34 DEF ClientReturns, codec, references, blocks, call, client, budget, Waiting, InTurn,
           DrainPoint
  <2>2. Pictures' \subseteq Pictures
    BY <1>34, NothingIsNone DEF ClientReturns, codec, references, blocks, call, client, budget,
           Pictures, Live, InTurn
  <2>. QED
    BY <2>1, <2>2, OutputKept
<1>35. CASE ClientChangesPool
  <2>1. cur = NoWork /\ UNCHANGED <<cur, attached>>
    BY <1>35 DEF ClientChangesPool, Idle, Keeps, call, InTurn
  <2>. QED
    BY <2>1, NoCurrentWork DEF OutputAfterPacket
<1>36. CASE UNCHANGED vars
  <2>1. UNCHANGED <<cur, attached, hold>> /\ inPkt' \in {inPkt, NoWork} /\ (Waiting' => Waiting)
    BY <1>36 DEF vars, codec, references, blocks, call, client, budget, Waiting, InTurn, DrainPoint
  <2>2. Pictures' \subseteq Pictures
    BY <1>36, NothingIsNone DEF vars, codec, references, blocks, call, client, budget, Pictures, Live,
           InTurn
  <2>. QED
    BY <2>1, <2>2, OutputKept
<1>. QED
  BY <1>1, <1>2, <1>3, <1>4, <1>5, <1>6, <1>7, <1>8, <1>9, <1>10, <1>11, <1>12, <1>13, <1>14,
     <1>15, <1>16, <1>17, <1>18, <1>19, <1>20, <1>21, <1>22, <1>23, <1>24, <1>25, <1>26, <1>27,
     <1>28, <1>29, <1>30, <1>31, <1>32, <1>33, <1>34, <1>35, <1>36
     DEF Next, Step

\* AcquireInv holds before the first work.
LEMMA AcquireInvInit == Init => PoolKnown /\ RoomLeft /\ OutputAfterPacket
<1>. SUFFICES ASSUME Init PROVE PoolKnown /\ RoomLeft /\ OutputAfterPacket
  OBVIOUS
<1>1. PoolKnown
  BY PoolAssumption DEF Init, PoolKnown, SlotStates
<1>2. RoomLeft /\ OutputAfterPacket
  BY DEF Init, RoomLeft, OutputAfterPacket
<1>. QED
  BY <1>1, <1>2

\* Each step keeps it.
LEMMA AcquireInvStep ==
    EosInv /\ AcquireInv /\ [Next]_vars => PoolKnown' /\ RoomLeft' /\ OutputAfterPacket'
<1>. SUFFICES ASSUME EosInv, AcquireInv, [Next]_vars
              PROVE  PoolKnown' /\ RoomLeft' /\ OutputAfterPacket'
  OBVIOUS
<1>1. Typed /\ InTurn /\ Numbered /\ DrainPoint /\ DrainsOut /\ HeldHasBlock
  BY DEF EosInv, RefInv
<1>2. PoolKnown /\ RoomLeft /\ OutputAfterPacket
  BY DEF AcquireInv
<1>3. (slot \in [Slots -> SlotStates])'
  BY <1>1, <1>2, SlotStep DEF PoolKnown
<1>4. (/\ clientPool \in 1 .. NumPools /\ pool \in 0 .. NumPools
       /\ cur # NoWork \/ inPkt # NoWork => pool # 0)'
  BY <1>1, <1>2, PoolStep DEF PoolKnown
<1>5. RoomLeft' /\ OutputAfterPacket'
  BY <1>1, <1>2, RoomStep, OutputStep
<1>. QED
  BY <1>3, <1>4, <1>5 DEF PoolKnown

\* The slot that a picture, or the output held back, keeps from the pool.
Place(w) == IF w = NoWork THEN SlotOf(hold.buf) ELSE SlotOf(refBuf[w])

\* A kept block of the right size that cannot be taken is in use by a picture.
LEMMA KeptForPicture ==
    ASSUME RefInv, Usable = {}, NEW x \in Slots, InBlocks(x, Searched(Len(pendingBlocks)))
    PROVE  \E w \in Pictures : SlotOf(refBuf[w]) = x
<1>. DEFINE n == Len(pendingBlocks)
            ps == {i \in 1 .. n : Fits(pendingBlocks[i], inPkt)}
            at == InOrder(ps)
            q == [i \in DOMAIN at |-> pendingBlocks[at[i]]]
<1>1. n \in Nat /\ \A i \in 1 .. n : pendingBlocks[i] \in Buffers
  BY DEF RefInv, Typed
<1>2. Increasing(at, ps) /\ Searched(n) = q
  <2>1. ps \in SUBSET (1 .. n)
    OBVIOUS
  <2>2. \E f : Increasing(f, ps)
    BY <1>1, <2>1, OrderExists
  <2>. HIDE DEF ps
  <2>3. \E f \in [1 .. Cardinality(ps) -> ps] : \A i, j \in DOMAIN f : i < j => f[i] < f[j]
    BY <2>2 DEF Increasing
  <2>4. Increasing(at, ps)
    BY <2>3 DEF Increasing, InOrder
  <2>. QED
    BY <2>4 DEF Searched, ps
<1>3. DOMAIN at = 1 .. Cardinality(ps) /\ \A i \in DOMAIN at : at[i] \in ps
  BY <1>2 DEF Increasing
<1>4. PICK i \in DOMAIN at : SlotOf(pendingBlocks[at[i]]) = x
  <2>. HIDE DEF at, ps
  <2>1. Cardinality(ps) \in Nat
    <3>1. IsFiniteSet(1 .. n)
      BY <1>1, FS_Interval
    <3>2. IsFiniteSet(ps)
      BY <3>1, FS_Subset DEF ps
    <3>. QED
      BY <3>2, FS_CardinalityType
  <2>2. Len(q) = Cardinality(ps)
    BY <1>3, <2>1
  <2>3. PICK i \in 1 .. Len(Searched(n)) : SlotOf(Searched(n)[i]) = x
    BY DEF InBlocks
  <2>. QED
    BY <1>2, <1>3, <2>2, <2>3
<1>. DEFINE b == pendingBlocks[at[i]]
<1>5. at[i] \in 1 .. n /\ Fits(b, inPkt)
  BY <1>3, <1>4
<1>6. b \in Buffers
  BY <1>1, <1>5
<1>7. active[b] # NoWork
  BY <1>5 DEF Usable, IsActive
<1>8. PICK w \in Works : active[b] = w
  BY <1>6, <1>7 DEF RefInv, Typed
<1>. HIDE DEF b, at
<1>9. w \in heap /\ refBuf[w] = b
  BY <1>6, <1>8 DEF RefInv, ReferencesAccounted
<1>10. w \in Pictures
  BY <1>9 DEF RefInv, ReferencesAccounted, Direct
<1>. QED
  BY <1>4, <1>9, <1>10 DEF b

\* A slot that the search leaves in use is kept by a picture or by the output that
\* is held back.
LEMMA SlotInUse ==
    ASSUME AcquireInv, inPkt # NoWork, Usable = {}, NEW x \in Slots,
           AfterSearch[x] \notin {Free, Client}
    PROVE  \E w \in Pictures \cup {NoWork} : Place(w) = x
<1>1. /\ AfterSearch[x] = slot[x]
      /\ ~(slot[x] = Kept /\ ~InBlocks(x, Searched(Len(pendingBlocks))))
      /\ ~(/\ slot[x][1] = "picture"
           /\ ~(slot[x][2] \in Pictures /\ SlotOf(refBuf[slot[x][2]]) = x)
           /\ x \notin {SlotOf(b) : b \in {hold.buf, attached}})
  BY DEF AfterSearch, Settled
<1>2. NoWork \notin Pictures
  BY DEF Pictures, Live
<1>3. slot[x] = Kept \/ \E w \in Works \cup {NoWork} : slot[x] = For(w)
  BY <1>1 DEF AcquireInv, PoolKnown, SlotStates
<1>4. CASE slot[x] = Kept
  <2>1. PICK w \in Pictures : SlotOf(refBuf[w]) = x
    BY <1>1, <1>4, KeptForPicture DEF AcquireInv
  <2>. QED
    BY <1>2, <2>1 DEF Place
<1>5. CASE slot[x] # Kept
  <2>1. PICK w \in Works \cup {NoWork} : slot[x] = For(w)
    BY <1>3, <1>5
  <2>2. slot[x][1] = "picture" /\ slot[x][2] = w
    BY <2>1 DEF For
  <2>3. CASE w \in Pictures /\ SlotOf(refBuf[w]) = x
    BY <1>2, <2>3 DEF Place
  <2>4. CASE x \in {SlotOf(hold.buf), SlotOf(attached)}
    <3>1. attached = NoBuffer
      BY DEF AcquireInv, OutputAfterPacket
    <3>2. x # SlotOf(NoBuffer)
      BY DEF SlotOf, NoBuffer, Slots
    <3>. QED
      BY <2>4, <3>1, <3>2 DEF Place
  <2>. QED
    BY <1>1, <2>2, <2>3, <2>4
<1>. QED
  BY <1>4, <1>5

\* So fewer slots are in use than the pool has.
LEMMA SlotComesBack == AcquireInv => AcquireCanEnd
<1>. SUFFICES ASSUME AcquireInv, cpc = "acquire", ~disabled, Usable = {},
                     \A x \in Slots : x[1] = pool => AfterSearch[x] \notin {Free, Client}
              PROVE  FALSE
  BY DEF AcquireCanEnd
<1>1. Typed /\ InTurn /\ PoolKnown /\ RoomLeft
  BY DEF AcquireInv, RefInv
<1>2. inPkt # NoWork /\ ready = NoWork /\ caller \in {"send", "receive"}
  BY <1>1 DEF InTurn
<1>3. pool \in 1 .. NumPools
  BY <1>1, <1>2, PoolAssumption DEF PoolKnown
<1>4. {NumSlots, NumPools, MaxRefs, MaxWorks} \subseteq Nat \ {0} /\ NumSlots > MaxRefs
  BY PoolAssumption
<1>. DEFINE e == IF caller = "receive" THEN NoWork ELSE frame
            T == dpb \cup {e}
<1>5. \A i \in 1 .. NumSlots : \E w \in T : Place(w) = <<pool, i>>
  <2>. SUFFICES ASSUME NEW i \in 1 .. NumSlots PROVE \E w \in T : Place(w) = <<pool, i>>
    OBVIOUS
  <2>1. <<pool, i>> \in Slots /\ <<pool, i>>[1] = pool
    BY <1>3 DEF Slots
  <2>2. PICK w \in Pictures \cup {NoWork} : Place(w) = <<pool, i>>
    BY <1>2, <2>1, SlotInUse
  <2>3. CASE caller = "receive"
    <3>1. frame = NoWork
      BY <1>1, <2>3 DEF InTurn
    <3>2. w \in T
      BY <1>2, <2>3, <3>1 DEF Pictures, Live
    <3>. QED
      BY <2>2, <3>2
  <2>4. CASE caller = "send"
    <3>1. hold = NoOutput
      BY <1>1, <2>4 DEF RoomLeft
    <3>2. w # NoWork
      <4>1. SlotOf(NoBuffer) \notin Slots
        BY DEF SlotOf, NoBuffer, Slots
      <4>. QED
        BY <2>1, <2>2, <3>1, <4>1 DEF Place, NoOutput
    <3>3. w \in T
      BY <1>2, <2>4, <3>2 DEF Pictures, Live
    <3>. QED
      BY <2>2, <3>3
  <2>. QED
    BY <1>2, <2>3, <2>4
<1>6. IsFiniteSet(dpb) /\ Cardinality(dpb) \in Nat /\ Cardinality(dpb) < MaxRefs
  <2>1. IsFiniteSet(Works)
    BY <1>4, FS_Interval DEF Works
  <2>2. IsFiniteSet(dpb)
    BY <1>1, <2>1, FS_Subset DEF Typed
  <2>. QED
    BY <1>1, <2>2, FS_CardinalityType DEF RoomLeft
<1>. HIDE DEF e
<1>7. IsFiniteSet(T) /\ Cardinality(T) \in Nat /\ Cardinality(T) <= Cardinality(dpb) + 1
  <2>1. /\ IsFiniteSet(T)
        /\ Cardinality(T) = IF e \in dpb THEN Cardinality(dpb) ELSE Cardinality(dpb) + 1
    BY <1>6, FS_AddElement
  <2>. QED
    BY <1>6, <2>1
<1>. HIDE DEF T
<1>8. IsFiniteSet(1 .. NumSlots) /\ Cardinality(1 .. NumSlots) = NumSlots
  BY <1>4, FS_Interval
<1>9. Cardinality(T) < Cardinality(1 .. NumSlots)
  BY <1>4, <1>6, <1>7, <1>8
<1>. DEFINE f == [i \in 1 .. NumSlots |-> CHOOSE w \in T : Place(w) = <<pool, i>>]
<1>10. \A i \in 1 .. NumSlots : f[i] \in T /\ Place(f[i]) = <<pool, i>>
  BY <1>5
<1>11. f \in [1 .. NumSlots -> T]
  BY <1>10
<1>. HIDE DEF f
<1>12. PICK i, j \in 1 .. NumSlots : i # j /\ f[i] = f[j]
  BY <1>7, <1>8, <1>9, <1>11, FS_PigeonHole
<1>. QED
  BY <1>10, <1>12

\* AcquireDecoderBlock, which waits without a deadline, waits only while the client
\* has a slot of its pool to return or one is free, for any pool that is larger
\* than what the codec holds (kOutputConsumerSlack).
THEOREM AcquireNeverStarves == Spec => []AcquireCanEnd
<1>1. Init => EosInv /\ AcquireInv
  BY EosInvInit, AcquireInvInit DEF AcquireInv, EosInv
<1>2. EosInv /\ AcquireInv /\ [Next]_vars => (EosInv /\ AcquireInv)'
  <2>. SUFFICES ASSUME EosInv, AcquireInv, [Next]_vars PROVE EosInv' /\ AcquireInv'
    OBVIOUS
  <2>1. EosInv'
    BY EosInvStep
  <2>. QED
    BY <2>1, AcquireInvStep DEF AcquireInv, EosInv
<1>. QED
  BY <1>1, <1>2, SlotComesBack, PTL DEF Spec
=============================================================================

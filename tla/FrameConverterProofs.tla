------------------------ MODULE FrameConverterProofs ------------------------
(***************************************************************************)
(* Proofs about FrameConverter, for any buffers, handles and capacities: a *)
(* dispatch reads the source it was given and names the layout it is in,   *)
(* nothing leaks, the descriptor pool suffices, and the sources that were  *)
(* converted last are the ones that stay imported.                         *)
(***************************************************************************)
EXTENDS FrameConverter, FiniteSetTheorems, WellFoundedInduction, TLAPS
-----------------------------------------------------------------------------
(* The inductive invariant.                                                *)

Layouts == {"UNDEFINED", "PREINITIALIZED", "GENERAL"}
Imports == [buffer : SourceBuffers \cup DestinationBuffers \cup {NoBuffer}, serial : Nat,
            handle : Handles \cup {NoHandle}]
SourceEntries ==
    [sig : {Sig(b) : b \in SourceBuffers}, handle : SourceHandles \cup {NoHandle},
     made : SUBSET SourceKinds, layout : Layouts, last_used : Nat, generation : Nat]
DestinationEntries ==
    [sig : {Sig(b) : b \in DestinationBuffers}, handle : DestinationHandles \cup {NoHandle},
     made : SUBSET DestinationKinds, source_generation : Nat, last_used : Nat]

\* The points at which an entry is there but not complete.
SourceOpen == pc \in {"importSource", "dropSource"}
DestinationOpen == pc \in {"importDestination", "dropDestination"}
\* The points at which Convert has its source, and its destination.
SourceFound ==
    SourceOpen \/ DestinationOpen \/ pc \in {"destination", "bindSource", "dispatch", "wait"}
DestinationFound == DestinationOpen \/ pc \in {"bindSource", "dispatch", "wait"}
Converting == pc = "source" \/ SourceFound

CacheTypes ==
    /\ DOMAIN sources \subseteq SourceIds
    /\ \A i \in DOMAIN sources : sources[i] \in SourceEntries
    /\ DOMAIN destinations \subseteq DestinationIds
    /\ \A i \in DOMAIN destinations : destinations[i] \in DestinationEntries
    /\ counter \in Nat

DriverTypes ==
    /\ object \in [Handles -> Imports] /\ bound \in [Handles -> Imports]
    /\ layoutOf \in [Handles -> Layouts]
    /\ serial \in Nat

\* What the point of the call tells about its arguments and its entries.
InCall ==
    /\ pc \in {"closed", "init", "ready", "source", "importSource", "dropSource", "destination",
               "importDestination", "dropDestination", "bindSource", "dispatch", "wait"}
    /\ pc \in {"closed", "init"} => DOMAIN sources = {} /\ DOMAIN destinations = {}
    /\ pc = "init" => step \in 1 .. 10
    /\ SourceOpen => step \in 1 .. 6
    /\ DestinationOpen => step \in 1 .. 8
    /\ Converting => ~failed /\ cur.src \in SourceBuffers /\ cur.dst \in DestinationBuffers
    /\ SourceFound => Id(cur.src) \in DOMAIN sources /\ Source.sig = Sig(cur.src)
    /\ DestinationFound =>
           Id(cur.dst) \in DOMAIN destinations /\ Destination.sig = Sig(cur.dst)

\* The objects that the steps before this one have created.
MadeBy(steps, n, kinds) == {k \in kinds : \E j \in 1 .. n - 1 : steps[j] = k}

\* A complete entry has all of its objects, the one being imported those so far.
SourceParts ==
    \A i \in DOMAIN sources :
        IF SourceOpen /\ i = Id(cur.src)
        THEN /\ sources[i].made = MadeBy(SourceSteps, step, SourceKinds)
             /\ sources[i].handle = NoHandle <=> step = 1
        ELSE sources[i].made = SourceKinds /\ sources[i].handle # NoHandle
DestinationParts ==
    \A i \in DOMAIN destinations :
        IF DestinationOpen /\ i = Id(cur.dst)
        THEN /\ destinations[i].made = MadeBy(DestinationSteps, step, DestinationKinds)
             /\ destinations[i].handle = NoHandle <=> step = 1
        ELSE destinations[i].made = DestinationKinds /\ destinations[i].handle # NoHandle

\* Two entries have different handles.
Apart(entries) ==
    \A i, j \in DOMAIN entries :
        entries[i].handle = entries[j].handle /\ entries[i].handle # NoHandle => i = j
HandlesApart == Apart(sources) /\ Apart(destinations)

\* The converter's own objects, by the point it has reached.
OwnNow ==
    IF pc = "closed" THEN {}
    ELSE IF pc = "init"
         THEN ({InitSteps[j] : j \in 1 .. step - 1} \X {NoHandle})
                 \ (IF step > 8 THEN Shader ELSE {})
         ELSE OwnObjects
LiveAccounted == live = OwnNow \cup Cached

\* An import refers to the buffer of its entry once it has memory.
ImportsRefer ==
    /\ \A i \in DOMAIN sources :
           "memory" \in sources[i].made =>
               object[sources[i].handle].buffer = <<i, sources[i].sig>>
    /\ \A i \in DOMAIN destinations :
           "memory" \in destinations[i].made =>
               object[destinations[i].handle].buffer = <<i, destinations[i].sig>>

\* Generations are not used twice.
GenerationsApart ==
    /\ \A i \in DOMAIN sources : sources[i].generation \in 1 .. counter
    /\ \A i, j \in DOMAIN sources : sources[i].generation = sources[j].generation => i = j
    /\ \A d \in DOMAIN destinations : destinations[d].source_generation <= counter

\* A binding that names the generation of a source is bound to its import.
BindingsCurrent ==
    \A d \in DOMAIN destinations, i \in DOMAIN sources :
        destinations[d].source_generation = sources[i].generation =>
            /\ ~(SourceOpen /\ i = Id(cur.src)) /\ ~(DestinationOpen /\ d = Id(cur.dst))
            /\ bound[destinations[d].handle] = object[sources[i].handle]

\* What is dispatched is bound to the source.
ReadsSource ==
    pc \in {"dispatch", "wait"} => Destination.source_generation = Source.generation

\* Until a conversion fails the layouts that are tracked are the real ones.
LayoutsTracked ==
    ~failed => \A i \in DOMAIN sources :
        sources[i].layout = IF sources[i].handle = NoHandle THEN "PREINITIALIZED"
                            ELSE layoutOf[sources[i].handle]

FdsCounted ==
    fds = IF pc \in {"importSource", "importDestination"} /\ step \in {3, 4} THEN 1 ELSE 0

\* A cache does not outgrow its capacity.
Bounded(entries, capacity) ==
    IsFiniteSet(DOMAIN entries) /\ Cardinality(DOMAIN entries) <= capacity
CachesBounded ==
    /\ Bounded(sources, kSourceCacheCapacity)
    /\ Bounded(destinations, kDestinationCacheCapacity)

FaultsCounted ==
    /\ conversions \in Nat /\ faults \in Nat
    /\ failed \/ pc \in {"dropSource", "dropDestination"} => faults > 0

Shape == CacheTypes /\ DriverTypes /\ InCall /\ SourceParts /\ DestinationParts

ConverterInv ==
    /\ Shape /\ HandlesApart /\ LiveAccounted /\ ImportsRefer /\ GenerationsApart
    /\ BindingsCurrent /\ ReadsSource /\ LayoutsTracked /\ FdsCounted /\ CachesBounded
    /\ FaultsCounted


\* The sources whose last use is over.
Settled == DOMAIN sources \ (IF SourceFound THEN {Id(cur.src)} ELSE {})

ConversionsCounted ==
    /\ converted \in [SourceIds -> 0 .. conversions]
    /\ Converting => \A i \in SourceIds : converted[i] < conversions

\* They were used in the order of the conversions that read them.
UsesOrdered ==
    /\ \A i \in DOMAIN sources : sources[i].last_used <= counter
    /\ \A i \in Settled : converted[i] > 0
    /\ \A i, j \in Settled :
           /\ sources[i].last_used < sources[j].last_used <=> converted[i] < converted[j]
           /\ sources[i].last_used = sources[j].last_used => i = j
    /\ SourceFound => \A i \in Settled : sources[i].last_used < Source.last_used

\* No source that is not cached was read after one that is.
LatestCached ==
    /\ \A i \in Settled, j \in SourceIds \ DOMAIN sources : converted[j] < converted[i]
    /\ \/ Cardinality(DOMAIN sources) = kSourceCacheCapacity
       \/ \A j \in SourceIds \ DOMAIN sources : converted[j] = 0

UsesInOrder == ~failed => ConversionsCounted /\ UsesOrdered /\ LatestCached

-----------------------------------------------------------------------------
(* The lists of steps.                                                     *)

\* Their lengths and what the imports create in which order.
LEMMA StepLists ==
    /\ Len(InitSteps) = 10 /\ Len(SourceSteps) = 6 /\ Len(DestinationSteps) = 8
    /\ SourceSteps[1] = "image" /\ SourceSteps[2] = "fd" /\ SourceSteps[3] = "properties"
    /\ SourceSteps[4] = "memory" /\ SourceSteps[5] = "bind" /\ SourceSteps[6] = "view"
    /\ DestinationSteps[1] = "buffer" /\ DestinationSteps[2] = "fd"
    /\ DestinationSteps[3] = "properties" /\ DestinationSteps[4] = "memory"
    /\ DestinationSteps[5] = "bind" /\ DestinationSteps[6] = "yView"
    /\ DestinationSteps[7] = "uvView" /\ DestinationSteps[8] = "set"
BY DEF InitSteps, SourceSteps, DestinationSteps

\* A step adds its object, if it creates one.
LEMMA OneMore ==
    ASSUME NEW steps, NEW n \in Nat \ {0}, NEW kinds
    PROVE  MadeBy(steps, n + 1, kinds) = MadeBy(steps, n, kinds) \cup ({steps[n]} \cap kinds)
<1>1. 1 .. (n + 1) - 1 = (1 .. n - 1) \cup {n}
  OBVIOUS
<1>. QED
  BY <1>1 DEF MadeBy

\* No step has created nothing, and all of them everything.
LEMMA MadeAtEnds ==
    /\ \A steps, kinds : MadeBy(steps, 1, kinds) = {}
    /\ MadeBy(SourceSteps, 7, SourceKinds) = SourceKinds
    /\ MadeBy(DestinationSteps, 9, DestinationKinds) = DestinationKinds
<1>1. \A steps, kinds : MadeBy(steps, 1, kinds) = {}
  BY DEF MadeBy
<1>2. MadeBy(SourceSteps, 7, SourceKinds) = SourceKinds
  <2>1. {1, 4, 6} \subseteq 1 .. 7 - 1
    OBVIOUS
  <2>. QED
    BY <2>1, StepLists DEF MadeBy, SourceKinds
<1>3. MadeBy(DestinationSteps, 9, DestinationKinds) = DestinationKinds
  <2>1. {1, 4, 6, 7, 8} \subseteq 1 .. 9 - 1
    OBVIOUS
  <2>. QED
    BY <2>1, StepLists DEF MadeBy, DestinationKinds
<1>. QED
  BY <1>1, <1>2, <1>3

\* Which objects there are so far.
LEMMA MadeSoFar ==
    ASSUME NEW n \in Nat \ {0}
    PROVE  /\ "memory" \in MadeBy(SourceSteps, n, SourceKinds) => n > 4
           /\ "memory" \in MadeBy(DestinationSteps, n, DestinationKinds) => n > 4
           /\ n <= 8 => "set" \notin MadeBy(DestinationSteps, n, DestinationKinds)
<1>1. ASSUME NEW j \in 1 .. n - 1, SourceSteps[j] = "memory" PROVE n > 4
  <2>1. CASE j > 3
    BY <2>1
  <2>2. CASE j \in {1, 2, 3}
    BY <1>1, <2>2, StepLists
  <2>. QED
    BY <2>1, <2>2
<1>2. ASSUME NEW j \in 1 .. n - 1, DestinationSteps[j] = "memory" PROVE n > 4
  <2>1. CASE j > 3
    BY <2>1
  <2>2. CASE j \in {1, 2, 3}
    BY <1>2, <2>2, StepLists
  <2>. QED
    BY <2>1, <2>2
<1>3. ASSUME n <= 8, NEW j \in 1 .. n - 1, DestinationSteps[j] = "set" PROVE FALSE
  <2>1. j \in {1, 2, 3, 4, 5, 6, 7}
    BY <1>3
  <2>. QED
    BY <1>3, <2>1, StepLists
<1>. QED
  BY <1>1, <1>2, <1>3 DEF MadeBy

-----------------------------------------------------------------------------
(* What the steps do to the caches and to the driver.                      *)

\* The handles of complete entries.
LEMMA HandlesKnown ==
    ASSUME CacheTypes, SourceParts, DestinationParts, InCall
    PROVE  /\ NoHandle \notin Handles /\ SourceHandles \cap DestinationHandles = {}
           /\ \A i \in DOMAIN sources :
                  /\ sources[i].handle \in SourceHandles \cup {NoHandle}
                  /\ sources[i].made # {} => sources[i].handle \in SourceHandles
                  /\ ~(SourceOpen /\ i = Id(cur.src)) => sources[i].handle \in SourceHandles
           /\ \A i \in DOMAIN destinations :
                  /\ destinations[i].handle \in DestinationHandles \cup {NoHandle}
                  /\ destinations[i].made # {} => destinations[i].handle \in DestinationHandles
                  /\ ~(DestinationOpen /\ i = Id(cur.dst)) =>
                         destinations[i].handle \in DestinationHandles
<1>1. NoHandle \notin Handles /\ SourceHandles \cap DestinationHandles = {}
  BY HandleAssumption
<1>2. ASSUME NEW i \in DOMAIN sources
      PROVE  /\ sources[i].handle \in SourceHandles \cup {NoHandle}
             /\ sources[i].made # {} => sources[i].handle \in SourceHandles
             /\ ~(SourceOpen /\ i = Id(cur.src)) => sources[i].handle \in SourceHandles
  <2>1. sources[i].handle \in SourceHandles \cup {NoHandle}
    BY <1>2 DEF CacheTypes, SourceEntries
  <2>2. sources[i].made # {} => sources[i].handle # NoHandle
    BY <1>2, MadeAtEnds DEF SourceParts
  <2>3. ~(SourceOpen /\ i = Id(cur.src)) => sources[i].handle # NoHandle
    BY <1>2 DEF SourceParts
  <2>. QED
    BY <2>1, <2>2, <2>3
<1>3. ASSUME NEW i \in DOMAIN destinations
      PROVE  /\ destinations[i].handle \in DestinationHandles \cup {NoHandle}
             /\ destinations[i].made # {} => destinations[i].handle \in DestinationHandles
             /\ ~(DestinationOpen /\ i = Id(cur.dst)) =>
                    destinations[i].handle \in DestinationHandles
  <2>1. destinations[i].handle \in DestinationHandles \cup {NoHandle}
    BY <1>3 DEF CacheTypes, DestinationEntries
  <2>2. destinations[i].made # {} => destinations[i].handle # NoHandle
    BY <1>3, MadeAtEnds DEF DestinationParts
  <2>3. ~(DestinationOpen /\ i = Id(cur.dst)) => destinations[i].handle # NoHandle
    BY <1>3 DEF DestinationParts
  <2>. QED
    BY <2>1, <2>2, <2>3
<1>. QED
  BY <1>1, <1>2, <1>3

Created(h, k, kinds) == {<<x, h>> : x \in {k} \cap kinds}

\* A step of an import of a source with handle h.
SourceImported(h) ==
    LET id == Id(cur.src)
    IN  /\ pc = "importSource" /\ h \in SourceHandles /\ id \in DOMAIN sources /\ step \in 1 .. 6
        /\ IF step = 1 THEN \A o \in live : o[2] # h ELSE h = sources[id].handle
        /\ DOMAIN sources' = DOMAIN sources
        /\ \A i \in DOMAIN sources : i # id => sources'[i] = sources[i]
        /\ sources'[id] \in SourceEntries
        /\ sources'[id].handle = h
        /\ sources'[id].made = MadeBy(SourceSteps, step + 1, SourceKinds)
        /\ sources'[id].sig = sources[id].sig /\ sources'[id].layout = sources[id].layout
        /\ sources'[id].last_used = sources[id].last_used
        /\ sources'[id].generation = sources[id].generation
        /\ live' = live \cup Created(h, SourceSteps[step], SourceKinds)
        /\ layoutOf' = IF step = 1 THEN [layoutOf EXCEPT ![h] = "PREINITIALIZED"] ELSE layoutOf
        /\ object' = IF step = 4
                     THEN [object EXCEPT ![h] = [buffer |-> cur.src, serial |-> serial + 1,
                                                 handle |-> h]]
                     ELSE object
        /\ serial' = IF step = 4 THEN serial + 1 ELSE serial
        /\ fds' = IF step = 2 THEN fds + 1 ELSE IF step = 4 THEN fds - 1 ELSE fds
        /\ IF step = 6 THEN pc' = "destination" /\ step' = 1 ELSE pc' = pc /\ step' = step + 1
        /\ UNCHANGED <<cur, destinations, counter, bound, failed, conversions, faults, converted>>

\* ImportSource takes such a step.
LEMMA ImportSourceStep ==
    ASSUME CacheTypes, InCall, SourceParts, ImportSource
    PROVE  \E h : SourceImported(h)
<1>. DEFINE id == Id(cur.src)
            k == SourceSteps[step]
<1>1. id \in DOMAIN sources /\ step \in 1 .. 6 /\ pc = "importSource"
  BY DEF ImportSource, InCall, SourceFound, SourceOpen
<1>2. /\ k = "image" <=> step = 1
      /\ k = "memory" <=> step = 4
      /\ k = "fd" <=> step = 2
  <2>1. step \in {1, 2, 3, 4, 5, 6}
    BY <1>1
  <2>. QED
    BY <2>1, StepLists
<1>3. sources[id].handle = NoHandle <=> step = 1
  BY <1>1 DEF SourceParts, SourceOpen
<1>4. sources[id].made = MadeBy(SourceSteps, step, SourceKinds)
  BY <1>1 DEF SourceParts, SourceOpen
<1>5. sources[id] \in SourceEntries
  BY <1>1 DEF CacheTypes
<1>6. MadeBy(SourceSteps, step + 1, SourceKinds) = sources[id].made \cup ({k} \cap SourceKinds)
  <2>1. step \in Nat \ {0}
    BY <1>1
  <2>2. MadeBy(SourceSteps, step + 1, SourceKinds)
          = MadeBy(SourceSteps, step, SourceKinds) \cup ({SourceSteps[step]} \cap SourceKinds)
    BY <2>1, OneMore
  <2>. QED
    BY <1>4, <2>2
<1>7. PICK h \in IF k = "image" THEN Free(SourceHandles) ELSE {sources[id].handle} :
        /\ live' = live \cup ({<<k, h>>} \cap (SourceKinds \X Handles))
        /\ sources' = [sources EXCEPT ![id].handle = h,
                                      ![id].made = @ \cup ({k} \cap SourceKinds)]
        /\ layoutOf' = IF k = "image" THEN [layoutOf EXCEPT ![h] = "PREINITIALIZED"]
                                      ELSE layoutOf
        /\ FdStep(k) /\ Refer(k, h, cur.src)
  BY DEF ImportSource
<1>8. UNCHANGED <<cur, destinations, counter, bound, failed, conversions, faults, converted>>
  BY DEF ImportSource, history
<1>9. IF step = 6 THEN pc' = "destination" /\ step' = 1 ELSE pc' = pc /\ step' = step + 1
  BY StepLists DEF ImportSource
<1>. HIDE DEF id, k
<1>10. h \in SourceHandles /\ IF step = 1 THEN \A o \in live : o[2] # h ELSE h = sources[id].handle
  BY <1>2, <1>3, <1>5, <1>7 DEF Free, SourceEntries
<1>11. live' = live \cup Created(h, k, SourceKinds)
  <2>1. {<<k, h>>} \cap (SourceKinds \X Handles) = Created(h, k, SourceKinds)
    BY <1>10 DEF Created, Handles
  <2>. QED
    BY <1>7, <2>1
<1>12. /\ DOMAIN sources' = DOMAIN sources
       /\ \A i \in DOMAIN sources : i # id => sources'[i] = sources[i]
       /\ sources'[id] \in SourceEntries
       /\ sources'[id].handle = h
       /\ sources'[id].made = MadeBy(SourceSteps, step + 1, SourceKinds)
       /\ sources'[id].sig = sources[id].sig /\ sources'[id].layout = sources[id].layout
       /\ sources'[id].last_used = sources[id].last_used
       /\ sources'[id].generation = sources[id].generation
  BY <1>1, <1>5, <1>6, <1>7, <1>10 DEF SourceEntries
<1>13. fds' = IF step = 2 THEN fds + 1 ELSE IF step = 4 THEN fds - 1 ELSE fds
  BY <1>2, <1>7 DEF FdStep
<1>. QED
  BY <1>1, <1>2, <1>7, <1>8, <1>9, <1>10, <1>11, <1>12, <1>13 DEF SourceImported, Refer, id, k

\* A step of an import of a destination with handle h.
DestinationImported(h) ==
    LET id == Id(cur.dst)
    IN  /\ pc = "importDestination" /\ h \in DestinationHandles /\ id \in DOMAIN destinations /\ step \in 1 .. 8
        /\ IF step = 1 THEN \A o \in live : o[2] # h ELSE h = destinations[id].handle
        /\ DOMAIN destinations' = DOMAIN destinations
        /\ \A i \in DOMAIN destinations : i # id => destinations'[i] = destinations[i]
        /\ destinations'[id] \in DestinationEntries
        /\ destinations'[id].handle = h
        /\ destinations'[id].made = MadeBy(DestinationSteps, step + 1, DestinationKinds)
        /\ destinations'[id].sig = destinations[id].sig
        /\ destinations'[id].source_generation = destinations[id].source_generation
        /\ live' = live \cup Created(h, DestinationSteps[step], DestinationKinds)
        /\ bound' = IF step = 8 THEN [bound EXCEPT ![h] = NoObject] ELSE bound
        /\ object' = IF step = 4
                     THEN [object EXCEPT ![h] = [buffer |-> cur.dst, serial |-> serial + 1,
                                                 handle |-> h]]
                     ELSE object
        /\ serial' = IF step = 4 THEN serial + 1 ELSE serial
        /\ fds' = IF step = 2 THEN fds + 1 ELSE IF step = 4 THEN fds - 1 ELSE fds
        /\ IF step = 8 THEN pc' = "bindSource" /\ step' = 1 ELSE pc' = pc /\ step' = step + 1
        /\ UNCHANGED <<cur, sources, counter, layoutOf, failed, conversions, faults, converted>>

\* ImportDestination takes such a step.
LEMMA ImportDestinationStep ==
    ASSUME CacheTypes, InCall, DestinationParts, ImportDestination
    PROVE  \E h : DestinationImported(h)
<1>. DEFINE id == Id(cur.dst)
            k == DestinationSteps[step]
<1>1. id \in DOMAIN destinations /\ step \in 1 .. 8 /\ pc = "importDestination"
  BY DEF ImportDestination, InCall, DestinationFound, DestinationOpen
<1>2. /\ k = "buffer" <=> step = 1
      /\ k = "memory" <=> step = 4
      /\ k = "fd" <=> step = 2
      /\ k = "set" <=> step = 8
  <2>1. step \in {1, 2, 3, 4, 5, 6, 7, 8}
    BY <1>1
  <2>. QED
    BY <2>1, StepLists
<1>3. destinations[id].handle = NoHandle <=> step = 1
  BY <1>1 DEF DestinationParts, DestinationOpen
<1>4. destinations[id].made = MadeBy(DestinationSteps, step, DestinationKinds)
  BY <1>1 DEF DestinationParts, DestinationOpen
<1>5. destinations[id] \in DestinationEntries
  BY <1>1 DEF CacheTypes
<1>6. MadeBy(DestinationSteps, step + 1, DestinationKinds) =
          destinations[id].made \cup ({k} \cap DestinationKinds)
  BY <1>1, <1>4, OneMore
<1>7. PICK h \in IF k = "buffer" THEN Free(DestinationHandles) ELSE {destinations[id].handle} :
        /\ live' = live \cup ({<<k, h>>} \cap (DestinationKinds \X Handles))
        /\ destinations' = [destinations EXCEPT ![id].handle = h,
                                                ![id].made = @ \cup ({k} \cap DestinationKinds)]
        /\ bound' = IF k = "set" THEN [bound EXCEPT ![h] = NoObject] ELSE bound
        /\ FdStep(k) /\ Refer(k, h, cur.dst)
  BY DEF ImportDestination
<1>8. UNCHANGED <<cur, sources, counter, layoutOf, failed, conversions, faults, converted>>
  BY DEF ImportDestination, history
<1>9. IF step = 8 THEN pc' = "bindSource" /\ step' = 1 ELSE pc' = pc /\ step' = step + 1
  BY StepLists DEF ImportDestination
<1>. HIDE DEF id, k
<1>10. /\ h \in DestinationHandles
       /\ IF step = 1 THEN \A o \in live : o[2] # h ELSE h = destinations[id].handle
  BY <1>2, <1>3, <1>5, <1>7 DEF Free, DestinationEntries
<1>11. live' = live \cup Created(h, k, DestinationKinds)
  <2>1. {<<k, h>>} \cap (DestinationKinds \X Handles) = Created(h, k, DestinationKinds)
    BY <1>10 DEF Created, Handles
  <2>. QED
    BY <1>7, <2>1
<1>12. /\ DOMAIN destinations' = DOMAIN destinations
       /\ \A i \in DOMAIN destinations : i # id => destinations'[i] = destinations[i]
       /\ destinations'[id] \in DestinationEntries
       /\ destinations'[id].handle = h
       /\ destinations'[id].made = MadeBy(DestinationSteps, step + 1, DestinationKinds)
       /\ destinations'[id].sig = destinations[id].sig
       /\ destinations'[id].source_generation = destinations[id].source_generation
  BY <1>1, <1>5, <1>6, <1>7, <1>10 DEF DestinationEntries
<1>13. fds' = IF step = 2 THEN fds + 1 ELSE IF step = 4 THEN fds - 1 ELSE fds
  BY <1>2, <1>7 DEF FdStep
<1>. QED
  BY <1>1, <1>2, <1>7, <1>8, <1>9, <1>10, <1>11, <1>12, <1>13
     DEF DestinationImported, Refer, id, k

\* Objects of these entries are destroyed: the driver forgets nothing of other
\* handles.
OthersKept(entries, out) ==
    \A h \in Handles : (\A i \in out : entries[i].handle # h) =>
        object'[h] = object[h] /\ bound'[h] = bound[h] /\ layoutOf'[h] = layoutOf[h]

\* Destroying what some entries have.
LEMMA DestroyKeepsOthers ==
    ASSUME DriverTypes, NEW entries, NEW out, Destroy(ObjectsOf(entries, out))
    PROVE  OthersKept(entries, out)
<1>. SUFFICES ASSUME NEW h \in Handles, \A i \in out : entries[i].handle # h
              PROVE  object'[h] = object[h] /\ bound'[h] = bound[h] /\ layoutOf'[h] = layoutOf[h]
  BY DEF OthersKept
<1>1. \A k : <<k, h>> \notin ObjectsOf(entries, out)
  BY DEF ObjectsOf, Objects
<1>. QED
  BY <1>1 DEF Destroy, DriverTypes

\* A source is looked up in vain: some entries go and a new one comes.
LEMMA SourceMissStep ==
    ASSUME InCall, DriverTypes, SourceMiss
    PROVE  \E out \in SUBSET DOMAIN sources :
             LET id == Id(cur.src)
             IN  /\ out = Displaced(sources, id, kSourceCacheCapacity)
                 /\ DOMAIN sources' = (DOMAIN sources \ out) \cup {id}
                 /\ \A i \in DOMAIN sources \ out : i # id /\ sources'[i] = sources[i]
                 /\ sources'[id] = NewSource
                 /\ live' = live \ ObjectsOf(sources, out) /\ OthersKept(sources, out)
                 /\ pc = "source" /\ pc' = "importSource" /\ step' = 1 /\ counter' = counter + 1
                 /\ UNCHANGED <<cur, destinations, fds, serial, failed, conversions, faults,
                                converted>>
<1>. DEFINE id == Id(cur.src)
            out == Displaced(sources, id, kSourceCacheCapacity)
<1>1. out \in SUBSET DOMAIN sources /\ (id \in DOMAIN sources => id \in out)
  BY DEF Displaced, Oldest
<1>2. /\ sources' = With(Without(sources, out), id, NewSource)
      /\ Destroy(ObjectsOf(sources, out))
      /\ pc = "source" /\ pc' = "importSource" /\ step' = 1 /\ counter' = counter + 1
      /\ UNCHANGED <<cur, destinations, fds, serial, failed, conversions, faults, converted>>
  BY DEF SourceMiss, history
<1>. HIDE DEF id, out
<1>3. /\ DOMAIN sources' = (DOMAIN sources \ out) \cup {id}
      /\ \A i \in DOMAIN sources \ out : i # id /\ sources'[i] = sources[i]
      /\ sources'[id] = NewSource
  BY <1>1, <1>2 DEF With, Without
<1>4. live' = live \ ObjectsOf(sources, out) /\ OthersKept(sources, out)
  BY <1>2, DestroyKeepsOthers DEF Destroy
<1>. QED
  BY <1>1, <1>2, <1>3, <1>4 DEF id, out

\* The same for a destination.
LEMMA DestinationMissStep ==
    ASSUME InCall, DriverTypes, DestinationMiss
    PROVE  \E out \in SUBSET DOMAIN destinations :
             LET id == Id(cur.dst)
             IN  /\ out = Displaced(destinations, id, kDestinationCacheCapacity)
                 /\ DOMAIN destinations' = (DOMAIN destinations \ out) \cup {id}
                 /\ \A i \in DOMAIN destinations \ out :
                        i # id /\ destinations'[i] = destinations[i]
                 /\ destinations'[id] = NewDestination
                 /\ live' = live \ ObjectsOf(destinations, out)
                 /\ OthersKept(destinations, out)
                 /\ pc = "destination" /\ pc' = "importDestination" /\ step' = 1
                 /\ counter' = counter + 1
                 /\ UNCHANGED <<cur, sources, fds, serial, failed, conversions, faults,
                                converted>>
<1>. DEFINE id == Id(cur.dst)
            out == Displaced(destinations, id, kDestinationCacheCapacity)
<1>1. out \in SUBSET DOMAIN destinations /\ (id \in DOMAIN destinations => id \in out)
  BY DEF Displaced, Oldest
<1>2. /\ destinations' = With(Without(destinations, out), id, NewDestination)
      /\ Destroy(ObjectsOf(destinations, out))
      /\ pc = "destination" /\ pc' = "importDestination" /\ step' = 1
      /\ counter' = counter + 1
      /\ UNCHANGED <<cur, sources, fds, serial, failed, conversions, faults, converted>>
  BY DEF DestinationMiss, history
<1>. HIDE DEF id, out
<1>3. /\ DOMAIN destinations' = (DOMAIN destinations \ out) \cup {id}
      /\ \A i \in DOMAIN destinations \ out : i # id /\ destinations'[i] = destinations[i]
      /\ destinations'[id] = NewDestination
  BY <1>1, <1>2 DEF With, Without
<1>4. live' = live \ ObjectsOf(destinations, out) /\ OthersKept(destinations, out)
  BY <1>2, DestroyKeepsOthers DEF Destroy
<1>. QED
  BY <1>1, <1>2, <1>3, <1>4 DEF id, out

\* The entry of a failed import goes, with what it had.
LEMMA DropSourceStep ==
    ASSUME InCall, DriverTypes, DropSource
    PROVE  LET id == Id(cur.src)
           IN  /\ id \in DOMAIN sources /\ DOMAIN sources' = DOMAIN sources \ {id}
               /\ \A i \in DOMAIN sources \ {id} : sources'[i] = sources[i]
               /\ live' = live \ ObjectsOf(sources, {id}) /\ OthersKept(sources, {id})
               /\ pc = "dropSource" /\ pc' = "ready" /\ failed' = TRUE
               /\ UNCHANGED <<destinations, counter, fds, serial, conversions, faults>>
<1>. DEFINE id == Id(cur.src)
<1>1. /\ sources' = Without(sources, {id}) /\ Destroy(Objects(sources[id]))
      /\ pc = "dropSource" /\ pc' = "ready" /\ failed' = TRUE
      /\ UNCHANGED <<destinations, counter, fds, serial, conversions, faults>>
  BY DEF DropSource, ConvertFails, Leftovers
<1>2. id \in DOMAIN sources
  BY <1>1 DEF InCall, SourceFound, SourceOpen
<1>. HIDE DEF id
<1>3. ObjectsOf(sources, {id}) = Objects(sources[id])
  BY DEF ObjectsOf
<1>4. OthersKept(sources, {id}) /\ live' = live \ ObjectsOf(sources, {id})
  BY <1>1, <1>3, DestroyKeepsOthers DEF Destroy
<1>5. DOMAIN sources' = DOMAIN sources \ {id} /\ \A i \in DOMAIN sources \ {id} : sources'[i] = sources[i]
  BY <1>1 DEF Without
<1>. QED
  BY <1>1, <1>2, <1>4, <1>5 DEF id

\* The same for a destination.
LEMMA DropDestinationStep ==
    ASSUME InCall, DriverTypes, DropDestination
    PROVE  LET id == Id(cur.dst)
           IN  /\ id \in DOMAIN destinations /\ DOMAIN destinations' = DOMAIN destinations \ {id}
               /\ \A i \in DOMAIN destinations \ {id} : destinations'[i] = destinations[i]
               /\ live' = live \ ObjectsOf(destinations, {id})
               /\ OthersKept(destinations, {id})
               /\ pc = "dropDestination" /\ pc' = "ready" /\ failed' = TRUE
               /\ UNCHANGED <<sources, counter, fds, serial, conversions, faults>>
<1>. DEFINE id == Id(cur.dst)
<1>1. /\ destinations' = Without(destinations, {id}) /\ Destroy(Objects(destinations[id]))
      /\ pc = "dropDestination" /\ pc' = "ready" /\ failed' = TRUE
      /\ UNCHANGED <<sources, counter, fds, serial, conversions, faults>>
  BY DEF DropDestination, ConvertFails, Leftovers
<1>2. id \in DOMAIN destinations
  BY <1>1 DEF InCall, DestinationFound, DestinationOpen
<1>. HIDE DEF id
<1>3. ObjectsOf(destinations, {id}) = Objects(destinations[id])
  BY DEF ObjectsOf
<1>4. OthersKept(destinations, {id}) /\ live' = live \ ObjectsOf(destinations, {id})
  BY <1>1, <1>3, DestroyKeepsOthers DEF Destroy
<1>5. /\ DOMAIN destinations' = DOMAIN destinations \ {id}
      /\ \A i \in DOMAIN destinations \ {id} : destinations'[i] = destinations[i]
  BY <1>1 DEF Without
<1>. QED
  BY <1>1, <1>2, <1>4, <1>5 DEF id

-----------------------------------------------------------------------------
(* Each step keeps each part.                                              *)

\* Every step leaves the caches with entries of their kind.
LEMMA CacheTypesStep ==
    ASSUME CacheTypes, InCall, SourceParts, DestinationParts, [Next]_vars
    PROVE  CacheTypes'
<1>1. CASE Initialize
  BY <1>1 DEF Initialize, cache, driver, history, CacheTypes
<1>2. CASE InitializeStep
  BY <1>2 DEF InitializeStep, cache, history, CacheTypes
<1>3. CASE InitializeFails
  <2>1. DOMAIN sources' = {} /\ DOMAIN destinations' = {} /\ counter' = 0
    BY <1>3 DEF InitializeFails, DoReset
  <2>. QED
    BY <2>1 DEF CacheTypes
<1>4. CASE Reset
  <2>1. DOMAIN sources' = {} /\ DOMAIN destinations' = {} /\ counter' = 0
    BY <1>4 DEF Reset, DoReset
  <2>. QED
    BY <2>1 DEF CacheTypes
<1>5. CASE \E b \in SourceBuffers, d \in DestinationBuffers : Convert(b, d)
  BY <1>5 DEF Convert, cache, driver, CacheTypes
<1>6. CASE ConvertRejects
  BY <1>6 DEF ConvertRejects, Faulty, ConvertFails, cache, driver, CacheTypes
<1>7. CASE SourceHit
  <2>. DEFINE id == Id(cur.src)
  <2>1. /\ id \in DOMAIN sources /\ sources' = [sources EXCEPT ![id].last_used = counter + 1]
        /\ counter' = counter + 1 /\ UNCHANGED destinations
    BY <1>7 DEF SourceHit, Hit, Used
  <2>. HIDE DEF id
  <2>2. /\ DOMAIN sources' = DOMAIN sources
        /\ \A i \in DOMAIN sources : sources'[i] \in SourceEntries
    BY <2>1 DEF CacheTypes, SourceEntries
  <2>. QED
    BY <2>1, <2>2 DEF CacheTypes
<1>8. CASE SourceMiss
  <2>. DEFINE id == Id(cur.src)
              out == Displaced(sources, id, kSourceCacheCapacity)
  <2>1. /\ sources' = With(Without(sources, out), id, NewSource)
        /\ counter' = counter + 1 /\ UNCHANGED destinations /\ cur.src \in SourceBuffers
    BY <1>8 DEF SourceMiss, InCall, Converting
  <2>2. NewSource \in SourceEntries /\ id \in SourceIds
    BY <2>1 DEF NewSource, SourceEntries, CacheTypes, Layouts, SourceIds
  <2>. HIDE DEF id, out
  <2>. QED
    BY <2>1, <2>2 DEF CacheTypes, With, Without
<1>9. CASE ImportSource
  <2>1. PICK h : SourceImported(h)
    BY <1>9, ImportSourceStep
  <2>. QED
    BY <2>1 DEF SourceImported, CacheTypes
<1>10. CASE ImportSourceFails
  BY <1>10 DEF ImportSourceFails, Faulty, FdsClosed, cache, driver, CacheTypes
<1>11. CASE DropSource
  BY <1>11 DEF DropSource, Without, CacheTypes
<1>12. CASE DestinationHit
  <2>. DEFINE id == Id(cur.dst)
  <2>1. /\ id \in DOMAIN destinations
        /\ destinations' = [destinations EXCEPT ![id].last_used = counter + 1]
        /\ counter' = counter + 1 /\ UNCHANGED sources
    BY <1>12 DEF DestinationHit, Hit, Used
  <2>. HIDE DEF id
  <2>2. /\ DOMAIN destinations' = DOMAIN destinations
        /\ \A i \in DOMAIN destinations : destinations'[i] \in DestinationEntries
    BY <2>1 DEF CacheTypes, DestinationEntries
  <2>. QED
    BY <2>1, <2>2 DEF CacheTypes
<1>13. CASE DestinationMiss
  <2>. DEFINE id == Id(cur.dst)
              out == Displaced(destinations, id, kDestinationCacheCapacity)
  <2>1. /\ destinations' = With(Without(destinations, out), id, NewDestination)
        /\ counter' = counter + 1 /\ UNCHANGED sources /\ cur.dst \in DestinationBuffers
    BY <1>13 DEF DestinationMiss, InCall, Converting, SourceFound
  <2>2. NewDestination \in DestinationEntries /\ id \in DestinationIds
    BY <2>1 DEF NewDestination, DestinationEntries, CacheTypes, DestinationIds
  <2>. HIDE DEF id, out
  <2>. QED
    BY <2>1, <2>2 DEF CacheTypes, With, Without
<1>14. CASE ImportDestination
  <2>1. PICK h : DestinationImported(h)
    BY <1>14, ImportDestinationStep
  <2>. QED
    BY <2>1 DEF DestinationImported, CacheTypes
<1>15. CASE ImportDestinationFails
  BY <1>15 DEF ImportDestinationFails, Faulty, FdsClosed, cache, driver, CacheTypes
<1>16. CASE DropDestination
  BY <1>16 DEF DropDestination, Without, CacheTypes
<1>17. CASE BindSource
  <2>1. /\ Id(cur.src) \in DOMAIN sources /\ Id(cur.dst) \in DOMAIN destinations
        /\ UNCHANGED <<sources, counter>>
    BY <1>17 DEF BindSource, InCall, SourceFound, DestinationFound
  <2>2. CASE UNCHANGED destinations
    BY <2>1, <2>2 DEF CacheTypes
  <2>3. CASE destinations' = [destinations EXCEPT
                                ![Id(cur.dst)].source_generation = Source.generation]
    <3>1. Source.generation \in Nat
      BY <2>1 DEF CacheTypes, SourceEntries, Source
    <3>. QED
      BY <2>1, <2>3, <3>1 DEF CacheTypes, DestinationEntries
  <2>. QED
    BY <1>17, <2>2, <2>3 DEF BindSource
<1>18. CASE Dispatch
  BY <1>18 DEF Dispatch, cache, driver, history, CacheTypes
<1>19. CASE DispatchFails
  BY <1>19 DEF DispatchFails, Faulty, ConvertFails, cache, driver, CacheTypes
<1>20. CASE WaitForFence
  <2>1. /\ Id(cur.src) \in DOMAIN sources /\ UNCHANGED <<destinations, counter>>
        /\ sources' = [sources EXCEPT ![Id(cur.src)].layout = "GENERAL"]
    BY <1>20 DEF WaitForFence, InCall, SourceFound
  <2>. QED
    BY <2>1 DEF CacheTypes, SourceEntries, Layouts
<1>21. CASE WaitFails
  BY <1>21 DEF WaitFails, Faulty, ConvertFails, GpuRuns, cache, CacheTypes
<1>22. CASE UNCHANGED vars
  BY <1>22 DEF vars, cache, driver, history, CacheTypes
<1>. QED
  BY <1>1, <1>2, <1>3, <1>4, <1>5, <1>6, <1>7, <1>8, <1>9, <1>10, <1>11, <1>12, <1>13, <1>14,
     <1>15, <1>16, <1>17, <1>18, <1>19, <1>20, <1>21, <1>22
     DEF Next

\* Nothing is bound or imported.
LEMMA NoObjectType == NoObject \in Imports
BY DEF NoObject, Imports

\* Destroying objects leaves the driver with types.
LEMMA DestroyTypes ==
    ASSUME DriverTypes, NEW gone, Destroy(gone)
    PROVE  /\ object' \in [Handles -> Imports] /\ bound' \in [Handles -> Imports]
           /\ layoutOf' \in [Handles -> Layouts]
BY NoObjectType DEF DriverTypes, Destroy, Layouts

\* Every step leaves the driver with types.
LEMMA DriverTypesStep ==
    ASSUME CacheTypes, InCall, SourceParts, DestinationParts,
           DriverTypes, [Next]_vars
    PROVE  DriverTypes'
<1>1. CASE Initialize
  BY <1>1 DEF Initialize, cache, driver, history, DriverTypes
<1>2. CASE InitializeStep
  BY <1>2 DEF InitializeStep, cache, history, DriverTypes
<1>3. CASE InitializeFails
  BY <1>3, DestroyTypes DEF InitializeFails, DoReset, DriverTypes
<1>4. CASE Reset
  BY <1>4, DestroyTypes DEF Reset, DoReset, DriverTypes
<1>5. CASE \E b \in SourceBuffers, d \in DestinationBuffers : Convert(b, d)
  BY <1>5 DEF Convert, cache, driver, DriverTypes
<1>6. CASE ConvertRejects
  BY <1>6 DEF ConvertRejects, Faulty, ConvertFails, cache, driver, DriverTypes
<1>7. CASE SourceHit
  BY <1>7 DEF SourceHit, driver, history, DriverTypes
<1>8. CASE SourceMiss
  BY <1>8, DestroyTypes DEF SourceMiss, DriverTypes
<1>9. CASE ImportSource
  <2>1. PICK h : SourceImported(h)
    BY <1>9, ImportSourceStep
  <2>2. cur.src \in SourceBuffers /\ h \in Handles
    BY <1>9, <2>1 DEF ImportSource, InCall, Converting, SourceFound, SourceOpen, SourceImported, Handles
  <2>. QED
    BY <2>1, <2>2 DEF SourceImported, DriverTypes, Imports, Layouts
<1>10. CASE ImportSourceFails
  BY <1>10 DEF ImportSourceFails, Faulty, FdsClosed, cache, driver, DriverTypes
<1>11. CASE DropSource
  BY <1>11, DestroyTypes DEF DropSource, DriverTypes
<1>12. CASE DestinationHit
  BY <1>12 DEF DestinationHit, driver, history, DriverTypes
<1>13. CASE DestinationMiss
  BY <1>13, DestroyTypes DEF DestinationMiss, DriverTypes
<1>14. CASE ImportDestination
  <2>1. PICK h : DestinationImported(h)
    BY <1>14, ImportDestinationStep
  <2>2. cur.dst \in DestinationBuffers /\ h \in Handles
    BY <1>14, <2>1 DEF ImportDestination, InCall, Converting, SourceFound, DestinationOpen,
            DestinationImported, Handles
  <2>. QED
    BY <2>1, <2>2, NoObjectType DEF DestinationImported, DriverTypes, Imports
<1>15. CASE ImportDestinationFails
  BY <1>15 DEF ImportDestinationFails, Faulty, FdsClosed, cache, driver, DriverTypes
<1>16. CASE DropDestination
  BY <1>16, DestroyTypes DEF DropDestination, DriverTypes
<1>17. CASE BindSource
  <2>1. Source.handle \in Handles
    BY <1>17 DEF BindSource, InCall, SourceFound, SourceOpen, SourceParts, CacheTypes, SourceEntries,
            Source, Handles
  <2>2. object[Source.handle] \in Imports
    BY <2>1 DEF DriverTypes
  <2>. QED
    BY <1>17, <2>2 DEF BindSource, DriverTypes
<1>18. CASE Dispatch
  BY <1>18 DEF Dispatch, cache, driver, history, DriverTypes
<1>19. CASE DispatchFails
  BY <1>19 DEF DispatchFails, Faulty, ConvertFails, cache, driver, DriverTypes
<1>20. CASE WaitForFence
  BY <1>20 DEF WaitForFence, GpuRuns, DriverTypes, Layouts
<1>21. CASE WaitFails
  BY <1>21 DEF WaitFails, GpuRuns, DriverTypes, Layouts
<1>22. CASE UNCHANGED vars
  BY <1>22 DEF vars, cache, driver, history, DriverTypes
<1>. QED
  BY <1>1, <1>2, <1>3, <1>4, <1>5, <1>6, <1>7, <1>8, <1>9, <1>10, <1>11, <1>12, <1>13, <1>14,
     <1>15, <1>16, <1>17, <1>18, <1>19, <1>20, <1>21, <1>22
     DEF Next

\* Every step leaves the call with its arguments and its entries.
LEMMA InCallStep ==
    ASSUME CacheTypes, InCall, DriverTypes, SourceParts, DestinationParts, [Next]_vars
    PROVE  InCall'
<1>1. CASE Initialize
  BY <1>1 DEF Initialize, cache, driver, history, InCall, SourceFound, SourceOpen,
           DestinationFound, DestinationOpen, Converting, Source, Destination
<1>2. CASE InitializeStep
  BY <1>2, StepLists DEF InitializeStep, cache, history, InCall, SourceFound, SourceOpen,
           DestinationFound, DestinationOpen, Converting, Source, Destination
<1>3. CASE InitializeFails
  <2>1. DOMAIN sources' = {} /\ DOMAIN destinations' = {} /\ pc' = "closed"
    BY <1>3 DEF InitializeFails, DoReset
  <2>. QED
    BY <2>1 DEF InCall, SourceFound, SourceOpen, DestinationFound, DestinationOpen, Converting
<1>4. CASE Reset
  <2>1. DOMAIN sources' = {} /\ DOMAIN destinations' = {} /\ pc' = "closed"
    BY <1>4 DEF Reset, DoReset
  <2>. QED
    BY <2>1 DEF InCall, SourceFound, SourceOpen, DestinationFound, DestinationOpen, Converting
<1>5. CASE \E b \in SourceBuffers, d \in DestinationBuffers : Convert(b, d)
  <2>1. PICK b \in SourceBuffers, d \in DestinationBuffers : Convert(b, d)
    BY <1>5
  <2>2. cur'.src = b /\ cur'.dst = d /\ pc' = "source" /\ ~failed'
    BY <2>1 DEF Convert, MayConvert
  <2>. QED
    BY <2>2 DEF InCall, SourceFound, SourceOpen, DestinationFound, DestinationOpen, Converting
<1>6. CASE ConvertRejects
  <2>1. pc' = "ready"
    BY <1>6 DEF ConvertRejects, ConvertFails
  <2>. QED
    BY <2>1 DEF InCall, SourceFound, SourceOpen, DestinationFound, DestinationOpen, Converting
<1>7. CASE SourceHit
  <2>. DEFINE id == Id(cur.src)
  <2>1. /\ id \in DOMAIN sources /\ sources[id].sig = Sig(cur.src)
        /\ sources' = [sources EXCEPT ![id].last_used = counter + 1]
    BY <1>7 DEF SourceHit, Hit, Used
  <2>2. sources'[id].sig = Sig(cur.src) /\ DOMAIN sources' = DOMAIN sources
    BY <2>1 DEF CacheTypes, SourceEntries
  <2>. QED
    BY <1>7, <2>1, <2>2 DEF SourceHit, driver, history, InCall, SourceFound, SourceOpen,
           DestinationFound, DestinationOpen, Converting, Source, Destination
<1>8. CASE SourceMiss
  <2>1. PICK out \in SUBSET DOMAIN sources :
                 /\ DOMAIN sources' = (DOMAIN sources \ out) \cup {Id(cur.src)}
                 /\ sources'[Id(cur.src)] = NewSource
                 /\ pc = "source" /\ pc' = "importSource" /\ step' = 1
                 /\ UNCHANGED <<cur, failed>>
    BY <1>8, SourceMissStep
  <2>. QED
    BY <2>1 DEF InCall, SourceFound, SourceOpen, DestinationFound, DestinationOpen, Converting, Source,
            NewSource
<1>9. CASE ImportSource
  <2>1. PICK h : SourceImported(h)
    BY <1>9, ImportSourceStep
  <2>2. pc = "importSource"
    BY <1>9 DEF ImportSource
  <2>3. Source'.sig = Source.sig /\ cur' = cur
    BY <2>1 DEF SourceImported, Source
  <2>. QED
    BY <2>1, <2>2, <2>3 DEF SourceImported, InCall, SourceFound, SourceOpen, DestinationFound,
            DestinationOpen, Converting
<1>10. CASE ImportSourceFails
  BY <1>10 DEF ImportSourceFails, Faulty, FdsClosed, cache, driver, InCall, SourceFound, SourceOpen,
           DestinationFound, DestinationOpen, Converting, Source, Destination
<1>11. CASE DropSource
  <2>1. pc' = "ready" /\ failed' = TRUE
    BY <1>11 DEF DropSource, ConvertFails
  <2>. QED
    BY <2>1 DEF InCall, SourceFound, SourceOpen, DestinationFound, DestinationOpen, Converting
<1>12. CASE DestinationHit
  <2>. DEFINE id == Id(cur.dst)
  <2>1. /\ id \in DOMAIN destinations /\ destinations[id].sig = Sig(cur.dst)
        /\ destinations' = [destinations EXCEPT ![id].last_used = counter + 1]
    BY <1>12 DEF DestinationHit, Hit, Used
  <2>2. destinations'[id].sig = Sig(cur.dst) /\ DOMAIN destinations' = DOMAIN destinations
    BY <2>1 DEF CacheTypes, DestinationEntries
  <2>. QED
    BY <1>12, <2>1, <2>2 DEF DestinationHit, driver, history, InCall, SourceFound, SourceOpen,
           DestinationFound, DestinationOpen, Converting, Source, Destination
<1>13. CASE DestinationMiss
  <2>1. PICK out \in SUBSET DOMAIN destinations :
                 /\ DOMAIN destinations' = (DOMAIN destinations \ out) \cup {Id(cur.dst)}
                 /\ destinations'[Id(cur.dst)] = NewDestination
                 /\ pc = "destination" /\ pc' = "importDestination" /\ step' = 1
                 /\ UNCHANGED <<cur, sources, failed>>
    BY <1>13, DestinationMissStep
  <2>. QED
    BY <2>1 DEF InCall, SourceFound, SourceOpen, DestinationFound, DestinationOpen, Converting, Source,
            Destination, NewDestination
<1>14. CASE ImportDestination
  <2>1. PICK h : DestinationImported(h)
    BY <1>14, ImportDestinationStep
  <2>2. pc = "importDestination"
    BY <1>14 DEF ImportDestination
  <2>3. Destination'.sig = Destination.sig /\ cur' = cur
    BY <2>1 DEF DestinationImported, Destination
  <2>. QED
    BY <2>1, <2>2, <2>3 DEF DestinationImported, InCall, SourceFound, SourceOpen, DestinationFound,
            DestinationOpen, Converting, Source
<1>15. CASE ImportDestinationFails
  BY <1>15 DEF ImportDestinationFails, Faulty, FdsClosed, cache, driver, InCall, SourceFound,
           SourceOpen, DestinationFound, DestinationOpen, Converting, Source, Destination
<1>16. CASE DropDestination
  <2>1. pc' = "ready" /\ failed' = TRUE
    BY <1>16 DEF DropDestination, ConvertFails
  <2>. QED
    BY <2>1 DEF InCall, SourceFound, SourceOpen, DestinationFound, DestinationOpen, Converting
<1>17. CASE BindSource
  <2>1. /\ DOMAIN destinations' = DOMAIN destinations
        /\ destinations'[Id(cur.dst)].sig = destinations[Id(cur.dst)].sig
        /\ UNCHANGED <<cur, sources, failed>> /\ pc = "bindSource" /\ pc' = "dispatch"
    <3>1. Id(cur.dst) \in DOMAIN destinations /\ destinations[Id(cur.dst)] \in DestinationEntries
      BY <1>17 DEF BindSource, InCall, DestinationFound, CacheTypes
    <3>. QED
      BY <1>17, <3>1 DEF BindSource, DestinationEntries, history
  <2>. QED
    BY <2>1 DEF InCall, SourceFound, SourceOpen, DestinationFound, DestinationOpen, Converting, Source,
            Destination
<1>18. CASE Dispatch
  BY <1>18 DEF Dispatch, cache, driver, history, InCall, SourceFound, SourceOpen, DestinationFound,
           DestinationOpen, Converting, Source, Destination
<1>19. CASE DispatchFails
  <2>1. pc' = "ready"
    BY <1>19 DEF DispatchFails, ConvertFails
  <2>. QED
    BY <2>1 DEF InCall, SourceFound, SourceOpen, DestinationFound, DestinationOpen, Converting
<1>20. CASE WaitForFence
  <2>1. pc' = "ready"
    BY <1>20 DEF WaitForFence, ConvertFails
  <2>. QED
    BY <2>1 DEF InCall, SourceFound, SourceOpen, DestinationFound, DestinationOpen, Converting
<1>21. CASE WaitFails
  <2>1. pc' = "ready"
    BY <1>21 DEF WaitFails, ConvertFails
  <2>. QED
    BY <2>1 DEF InCall, SourceFound, SourceOpen, DestinationFound, DestinationOpen, Converting
<1>22. CASE UNCHANGED vars
  BY <1>22 DEF vars, cache, driver, history, InCall, SourceFound, SourceOpen, DestinationFound,
           DestinationOpen, Converting, Source, Destination
<1>. QED
  BY <1>1, <1>2, <1>3, <1>4, <1>5, <1>6, <1>7, <1>8, <1>9, <1>10, <1>11, <1>12, <1>13, <1>14,
     <1>15, <1>16, <1>17, <1>18, <1>19, <1>20, <1>21, <1>22
     DEF Next

\* Every step leaves the sources with the objects that their imports have created.
LEMMA SourcePartsStep ==
    ASSUME CacheTypes, InCall, DriverTypes, SourceParts, DestinationParts, [Next]_vars
    PROVE  SourceParts'
<1>1. CASE Initialize
  <2>1. UNCHANGED sources /\ ~SourceOpen /\ ~SourceOpen'
    BY <1>1 DEF Initialize, cache, driver, history, SourceOpen
  <2>. QED
    BY <2>1 DEF SourceParts
<1>2. CASE InitializeStep
  <2>1. UNCHANGED sources /\ ~SourceOpen /\ ~SourceOpen'
    BY <1>2 DEF InitializeStep, cache, history, SourceOpen
  <2>. QED
    BY <2>1 DEF SourceParts
<1>3. CASE InitializeFails
  <2>1. DOMAIN sources' = {}
    BY <1>3 DEF InitializeFails, DoReset
  <2>. QED
    BY <2>1 DEF SourceParts
<1>4. CASE Reset
  <2>1. DOMAIN sources' = {}
    BY <1>4 DEF Reset, DoReset
  <2>. QED
    BY <2>1 DEF SourceParts
<1>5. CASE \E b \in SourceBuffers, d \in DestinationBuffers : Convert(b, d)
  <2>1. UNCHANGED sources /\ ~SourceOpen /\ ~SourceOpen'
    BY <1>5 DEF Convert, cache, driver, SourceOpen
  <2>. QED
    BY <2>1 DEF SourceParts
<1>6. CASE ConvertRejects
  <2>1. UNCHANGED sources /\ ~SourceOpen /\ ~SourceOpen'
    BY <1>6 DEF ConvertRejects, Faulty, ConvertFails, cache, driver, SourceOpen
  <2>. QED
    BY <2>1 DEF SourceParts
<1>7. CASE SourceHit
  <2>. DEFINE id == Id(cur.src)
  <2>1. /\ id \in DOMAIN sources /\ sources' = [sources EXCEPT ![id].last_used = counter + 1]
        /\ ~SourceOpen /\ ~SourceOpen'
    BY <1>7 DEF SourceHit, Hit, Used, SourceOpen
  <2>2. /\ DOMAIN sources' = DOMAIN sources
        /\ \A i \in DOMAIN sources : sources'[i].made = sources[i].made /\ sources'[i].handle = sources[i].handle
    BY <2>1 DEF CacheTypes, SourceEntries
  <2>. QED
    BY <2>1, <2>2 DEF SourceParts
<1>8. CASE SourceMiss
  <2>. DEFINE id == Id(cur.src)
  <2>1. PICK out \in SUBSET DOMAIN sources :
                 /\ DOMAIN sources' = (DOMAIN sources \ out) \cup {id}
                 /\ \A i \in DOMAIN sources \ out : i # id /\ sources'[i] = sources[i]
                 /\ sources'[id] = NewSource
                 /\ pc \notin {"importSource", "dropSource"} /\ pc' = "importSource" /\ step' = 1
                 /\ cur' = cur
    BY <1>8, SourceMissStep
  <2>2. sources'[id].made = MadeBy(SourceSteps, 1, SourceKinds) /\ sources'[id].handle = NoHandle
    BY <2>1, MadeAtEnds DEF NewSource
  <2>3. \A i \in DOMAIN sources \ out : sources[i].made = SourceKinds /\ sources[i].handle # NoHandle
    BY <2>1 DEF SourceParts, SourceOpen
  <2>. QED
    BY <2>1, <2>2, <2>3 DEF SourceParts, SourceOpen
<1>9. CASE ImportSource
  <2>. DEFINE id == Id(cur.src)
  <2>1. PICK h : SourceImported(h)
    BY <1>9, ImportSourceStep
  <2>2. pc = "importSource"
    BY <1>9 DEF ImportSource
  <2>3. /\ sources'[id].made = MadeBy(SourceSteps, step + 1, SourceKinds)
        /\ sources'[id].handle # NoHandle
    BY <2>1, HandleAssumption DEF SourceImported, CacheTypes, SourceEntries, Handles
  <2>4. \A i \in DOMAIN sources : i # id => sources[i].made = SourceKinds /\ sources[i].handle # NoHandle
    BY DEF SourceParts
  <2>5. CASE step = 6
    BY <2>1, <2>3, <2>4, <2>5, MadeAtEnds DEF SourceImported, SourceParts, SourceOpen
  <2>6. CASE step # 6
    <3>1. pc' = "importSource" /\ step' = step + 1 /\ step' # 1 /\ cur' = cur
      BY <2>1, <2>2, <2>6 DEF SourceImported
    <3>. QED
      BY <2>1, <2>2, <2>3, <2>4, <3>1 DEF SourceImported, SourceParts, SourceOpen
  <2>. QED
    BY <2>5, <2>6
<1>10. CASE ImportSourceFails
  <2>1. UNCHANGED <<sources, cur, step>> /\ SourceOpen /\ SourceOpen'
    BY <1>10 DEF ImportSourceFails, SourceOpen, cache
  <2>. QED
    BY <2>1 DEF SourceParts
<1>11. CASE DropSource
  <2>. DEFINE id == Id(cur.src)
  <2>1. /\ DOMAIN sources' = DOMAIN sources \ {id} /\ \A i \in DOMAIN sources \ {id} : sources'[i] = sources[i]
        /\ pc' = "ready"
    BY <1>11, DropSourceStep
  <2>. QED
    BY <2>1 DEF SourceParts, SourceOpen
<1>12. CASE DestinationHit
  <2>1. UNCHANGED sources /\ ~SourceOpen /\ ~SourceOpen'
    BY <1>12 DEF DestinationHit, driver, history, SourceOpen
  <2>. QED
    BY <2>1 DEF SourceParts
<1>13. CASE DestinationMiss
  <2>1. UNCHANGED sources /\ ~SourceOpen /\ ~SourceOpen'
    BY <1>13 DEF DestinationMiss, Destroy, history, SourceOpen
  <2>. QED
    BY <2>1 DEF SourceParts
<1>14. CASE ImportDestination
  <2>1. UNCHANGED sources /\ ~SourceOpen /\ ~SourceOpen'
    BY <1>14 DEF ImportDestination, FdStep, Refer, history, SourceOpen
  <2>. QED
    BY <2>1 DEF SourceParts
<1>15. CASE ImportDestinationFails
  <2>1. UNCHANGED sources /\ ~SourceOpen /\ ~SourceOpen'
    BY <1>15 DEF ImportDestinationFails, Faulty, FdsClosed, cache, driver, SourceOpen
  <2>. QED
    BY <2>1 DEF SourceParts
<1>16. CASE DropDestination
  <2>1. UNCHANGED sources /\ ~SourceOpen /\ ~SourceOpen'
    BY <1>16 DEF DropDestination, Destroy, ConvertFails, SourceOpen
  <2>. QED
    BY <2>1 DEF SourceParts
<1>17. CASE BindSource
  <2>1. UNCHANGED sources /\ ~SourceOpen /\ ~SourceOpen'
    BY <1>17 DEF BindSource, history, SourceOpen
  <2>. QED
    BY <2>1 DEF SourceParts
<1>18. CASE Dispatch
  <2>1. UNCHANGED sources /\ ~SourceOpen /\ ~SourceOpen'
    BY <1>18 DEF Dispatch, cache, driver, history, SourceOpen
  <2>. QED
    BY <2>1 DEF SourceParts
<1>19. CASE DispatchFails
  <2>1. UNCHANGED sources /\ ~SourceOpen /\ ~SourceOpen'
    BY <1>19 DEF DispatchFails, Faulty, ConvertFails, cache, driver, SourceOpen
  <2>. QED
    BY <2>1 DEF SourceParts
<1>20. CASE WaitForFence
  <2>1. ~SourceOpen /\ ~SourceOpen'
    BY <1>20 DEF WaitForFence, SourceOpen
  <2>2. Id(cur.src) \in DOMAIN sources
    BY <1>20 DEF WaitForFence, InCall, SourceFound
  <2>3. /\ DOMAIN sources' = DOMAIN sources
        /\ \A i \in DOMAIN sources : sources'[i].made = sources[i].made /\ sources'[i].handle = sources[i].handle
    BY <1>20, <2>2 DEF WaitForFence, CacheTypes, SourceEntries
  <2>. QED
    BY <2>1, <2>3 DEF SourceParts
<1>21. CASE WaitFails
  <2>1. UNCHANGED sources /\ ~SourceOpen /\ ~SourceOpen'
    BY <1>21 DEF WaitFails, Faulty, ConvertFails, GpuRuns, cache, SourceOpen
  <2>. QED
    BY <2>1 DEF SourceParts
<1>22. CASE UNCHANGED vars
  <2>1. UNCHANGED <<sources, pc, step, cur>>
    BY <1>22 DEF vars, cache
  <2>. QED
    BY <2>1 DEF SourceParts, SourceOpen
<1>. QED
  BY <1>1, <1>2, <1>3, <1>4, <1>5, <1>6, <1>7, <1>8, <1>9, <1>10, <1>11, <1>12, <1>13, <1>14,
     <1>15, <1>16, <1>17, <1>18, <1>19, <1>20, <1>21, <1>22
     DEF Next

\* Every step leaves the destinations with the objects that their imports have created.
LEMMA DestinationPartsStep ==
    ASSUME CacheTypes, InCall, DriverTypes, SourceParts, DestinationParts, [Next]_vars
    PROVE  DestinationParts'
<1>1. CASE Initialize
  <2>1. UNCHANGED destinations /\ ~DestinationOpen /\ ~DestinationOpen'
    BY <1>1 DEF Initialize, cache, driver, history, DestinationOpen
  <2>. QED
    BY <2>1 DEF DestinationParts
<1>2. CASE InitializeStep
  <2>1. UNCHANGED destinations /\ ~DestinationOpen /\ ~DestinationOpen'
    BY <1>2 DEF InitializeStep, cache, history, DestinationOpen
  <2>. QED
    BY <2>1 DEF DestinationParts
<1>3. CASE InitializeFails
  <2>1. DOMAIN destinations' = {}
    BY <1>3 DEF InitializeFails, DoReset
  <2>. QED
    BY <2>1 DEF DestinationParts
<1>4. CASE Reset
  <2>1. DOMAIN destinations' = {}
    BY <1>4 DEF Reset, DoReset
  <2>. QED
    BY <2>1 DEF DestinationParts
<1>5. CASE \E b \in SourceBuffers, d \in DestinationBuffers : Convert(b, d)
  <2>1. UNCHANGED destinations /\ ~DestinationOpen /\ ~DestinationOpen'
    BY <1>5 DEF Convert, cache, driver, DestinationOpen
  <2>. QED
    BY <2>1 DEF DestinationParts
<1>6. CASE ConvertRejects
  <2>1. UNCHANGED destinations /\ ~DestinationOpen /\ ~DestinationOpen'
    BY <1>6 DEF ConvertRejects, Faulty, ConvertFails, cache, driver, DestinationOpen
  <2>. QED
    BY <2>1 DEF DestinationParts
<1>7. CASE SourceHit
  <2>1. UNCHANGED destinations /\ ~DestinationOpen /\ ~DestinationOpen'
    BY <1>7 DEF SourceHit, driver, history, DestinationOpen
  <2>. QED
    BY <2>1 DEF DestinationParts
<1>8. CASE SourceMiss
  <2>1. UNCHANGED destinations /\ ~DestinationOpen /\ ~DestinationOpen'
    BY <1>8 DEF SourceMiss, Destroy, history, DestinationOpen
  <2>. QED
    BY <2>1 DEF DestinationParts
<1>9. CASE ImportSource
  <2>1. UNCHANGED destinations /\ ~DestinationOpen /\ ~DestinationOpen'
    BY <1>9 DEF ImportSource, FdStep, Refer, history, DestinationOpen
  <2>. QED
    BY <2>1 DEF DestinationParts
<1>10. CASE ImportSourceFails
  <2>1. UNCHANGED destinations /\ ~DestinationOpen /\ ~DestinationOpen'
    BY <1>10 DEF ImportSourceFails, Faulty, FdsClosed, cache, driver, DestinationOpen
  <2>. QED
    BY <2>1 DEF DestinationParts
<1>11. CASE DropSource
  <2>1. UNCHANGED destinations /\ ~DestinationOpen /\ ~DestinationOpen'
    BY <1>11 DEF DropSource, Destroy, ConvertFails, DestinationOpen
  <2>. QED
    BY <2>1 DEF DestinationParts
<1>12. CASE DestinationHit
  <2>. DEFINE id == Id(cur.dst)
  <2>1. /\ id \in DOMAIN destinations /\ destinations' = [destinations EXCEPT ![id].last_used = counter + 1]
        /\ ~DestinationOpen /\ ~DestinationOpen'
    BY <1>12 DEF DestinationHit, Hit, Used, DestinationOpen
  <2>2. /\ DOMAIN destinations' = DOMAIN destinations
        /\ \A i \in DOMAIN destinations : destinations'[i].made = destinations[i].made /\ destinations'[i].handle = destinations[i].handle
    BY <2>1 DEF CacheTypes, DestinationEntries
  <2>. QED
    BY <2>1, <2>2 DEF DestinationParts
<1>13. CASE DestinationMiss
  <2>. DEFINE id == Id(cur.dst)
  <2>1. PICK out \in SUBSET DOMAIN destinations :
                 /\ DOMAIN destinations' = (DOMAIN destinations \ out) \cup {id}
                 /\ \A i \in DOMAIN destinations \ out : i # id /\ destinations'[i] = destinations[i]
                 /\ destinations'[id] = NewDestination
                 /\ pc \notin {"importDestination", "dropDestination"} /\ pc' = "importDestination" /\ step' = 1
                 /\ cur' = cur
    BY <1>13, DestinationMissStep
  <2>2. destinations'[id].made = MadeBy(DestinationSteps, 1, DestinationKinds) /\ destinations'[id].handle = NoHandle
    BY <2>1, MadeAtEnds DEF NewDestination
  <2>3. \A i \in DOMAIN destinations \ out : destinations[i].made = DestinationKinds /\ destinations[i].handle # NoHandle
    BY <2>1 DEF DestinationParts, DestinationOpen
  <2>. QED
    BY <2>1, <2>2, <2>3 DEF DestinationParts, DestinationOpen
<1>14. CASE ImportDestination
  <2>. DEFINE id == Id(cur.dst)
  <2>1. PICK h : DestinationImported(h)
    BY <1>14, ImportDestinationStep
  <2>2. pc = "importDestination"
    BY <1>14 DEF ImportDestination
  <2>3. /\ destinations'[id].made = MadeBy(DestinationSteps, step + 1, DestinationKinds)
        /\ destinations'[id].handle # NoHandle
    BY <2>1, HandleAssumption DEF DestinationImported, CacheTypes, DestinationEntries, Handles
  <2>4. \A i \in DOMAIN destinations : i # id => destinations[i].made = DestinationKinds /\ destinations[i].handle # NoHandle
    BY DEF DestinationParts
  <2>5. CASE step = 8
    BY <2>1, <2>3, <2>4, <2>5, MadeAtEnds DEF DestinationImported, DestinationParts, DestinationOpen
  <2>6. CASE step # 8
    <3>1. pc' = "importDestination" /\ step' = step + 1 /\ step' # 1 /\ cur' = cur
      BY <2>1, <2>2, <2>6 DEF DestinationImported
    <3>. QED
      BY <2>1, <2>2, <2>3, <2>4, <3>1 DEF DestinationImported, DestinationParts, DestinationOpen
  <2>. QED
    BY <2>5, <2>6
<1>15. CASE ImportDestinationFails
  <2>1. UNCHANGED <<destinations, cur, step>> /\ DestinationOpen /\ DestinationOpen'
    BY <1>15 DEF ImportDestinationFails, DestinationOpen, cache
  <2>. QED
    BY <2>1 DEF DestinationParts
<1>16. CASE DropDestination
  <2>. DEFINE id == Id(cur.dst)
  <2>1. /\ DOMAIN destinations' = DOMAIN destinations \ {id} /\ \A i \in DOMAIN destinations \ {id} : destinations'[i] = destinations[i]
        /\ pc' = "ready"
    BY <1>16, DropDestinationStep
  <2>. QED
    BY <2>1 DEF DestinationParts, DestinationOpen
<1>17. CASE BindSource
  <2>1. ~DestinationOpen /\ ~DestinationOpen'
    BY <1>17 DEF BindSource, DestinationOpen
  <2>2. Id(cur.dst) \in DOMAIN destinations
    BY <1>17 DEF BindSource, InCall, DestinationFound
  <2>3. /\ DOMAIN destinations' = DOMAIN destinations
        /\ \A i \in DOMAIN destinations : destinations'[i].made = destinations[i].made /\ destinations'[i].handle = destinations[i].handle
    BY <1>17, <2>2 DEF BindSource, CacheTypes, DestinationEntries
  <2>. QED
    BY <2>1, <2>3 DEF DestinationParts
<1>18. CASE Dispatch
  <2>1. UNCHANGED destinations /\ ~DestinationOpen /\ ~DestinationOpen'
    BY <1>18 DEF Dispatch, cache, driver, history, DestinationOpen
  <2>. QED
    BY <2>1 DEF DestinationParts
<1>19. CASE DispatchFails
  <2>1. UNCHANGED destinations /\ ~DestinationOpen /\ ~DestinationOpen'
    BY <1>19 DEF DispatchFails, Faulty, ConvertFails, cache, driver, DestinationOpen
  <2>. QED
    BY <2>1 DEF DestinationParts
<1>20. CASE WaitForFence
  <2>1. UNCHANGED destinations /\ ~DestinationOpen /\ ~DestinationOpen'
    BY <1>20 DEF WaitForFence, GpuRuns, DestinationOpen
  <2>. QED
    BY <2>1 DEF DestinationParts
<1>21. CASE WaitFails
  <2>1. UNCHANGED destinations /\ ~DestinationOpen /\ ~DestinationOpen'
    BY <1>21 DEF WaitFails, Faulty, ConvertFails, GpuRuns, cache, DestinationOpen
  <2>. QED
    BY <2>1 DEF DestinationParts
<1>22. CASE UNCHANGED vars
  <2>1. UNCHANGED <<destinations, pc, step, cur>>
    BY <1>22 DEF vars, cache
  <2>. QED
    BY <2>1 DEF DestinationParts, DestinationOpen
<1>. QED
  BY <1>1, <1>2, <1>3, <1>4, <1>5, <1>6, <1>7, <1>8, <1>9, <1>10, <1>11, <1>12, <1>13, <1>14,
     <1>15, <1>16, <1>17, <1>18, <1>19, <1>20, <1>21, <1>22
     DEF Next

\* Every step accounts for the duplicated descriptors.
LEMMA FdsStep ==
    ASSUME CacheTypes, InCall, SourceParts, DestinationParts, FdsCounted, [Next]_vars
    PROVE  FdsCounted'
<1>1. CASE Initialize
  BY <1>1 DEF Initialize, cache, driver, history, FdsCounted
<1>2. CASE InitializeStep
  BY <1>2 DEF InitializeStep, cache, history, FdsCounted
<1>3. CASE InitializeFails
  BY <1>3 DEF InitializeFails, DoReset, FdsCounted
<1>4. CASE Reset
  BY <1>4 DEF Reset, DoReset, FdsCounted
<1>5. CASE \E b \in SourceBuffers, d \in DestinationBuffers : Convert(b, d)
  BY <1>5 DEF Convert, cache, driver, FdsCounted
<1>6. CASE ConvertRejects
  BY <1>6 DEF ConvertRejects, Faulty, ConvertFails, cache, driver, FdsCounted
<1>7. CASE SourceHit
  BY <1>7 DEF SourceHit, driver, history, FdsCounted
<1>8. CASE SourceMiss
  BY <1>8 DEF SourceMiss, Destroy, history, FdsCounted
<1>9. CASE ImportSource
  <2>1. PICK h : SourceImported(h)
    BY <1>9, ImportSourceStep
  <2>2. pc = "importSource" /\ step \in Nat
    BY <1>9, <2>1 DEF ImportSource, SourceImported
  <2>. QED
    BY <2>1, <2>2 DEF SourceImported, FdsCounted
<1>10. CASE ImportSourceFails
  BY <1>10 DEF ImportSourceFails, Faulty, FdsClosed, cache, driver, FdsCounted
<1>11. CASE DropSource
  BY <1>11 DEF DropSource, Destroy, ConvertFails, FdsCounted
<1>12. CASE DestinationHit
  BY <1>12 DEF DestinationHit, driver, history, FdsCounted
<1>13. CASE DestinationMiss
  BY <1>13 DEF DestinationMiss, Destroy, history, FdsCounted
<1>14. CASE ImportDestination
  <2>1. PICK h : DestinationImported(h)
    BY <1>14, ImportDestinationStep
  <2>2. pc = "importDestination" /\ step \in Nat
    BY <1>14, <2>1 DEF ImportDestination, DestinationImported
  <2>. QED
    BY <2>1, <2>2 DEF DestinationImported, FdsCounted
<1>15. CASE ImportDestinationFails
  BY <1>15 DEF ImportDestinationFails, Faulty, FdsClosed, cache, driver, FdsCounted
<1>16. CASE DropDestination
  BY <1>16 DEF DropDestination, Destroy, ConvertFails, FdsCounted
<1>17. CASE BindSource
  BY <1>17 DEF BindSource, history, FdsCounted
<1>18. CASE Dispatch
  BY <1>18 DEF Dispatch, cache, driver, history, FdsCounted
<1>19. CASE DispatchFails
  BY <1>19 DEF DispatchFails, Faulty, ConvertFails, cache, driver, FdsCounted
<1>20. CASE WaitForFence
  BY <1>20 DEF WaitForFence, GpuRuns, FdsCounted
<1>21. CASE WaitFails
  BY <1>21 DEF WaitFails, Faulty, ConvertFails, GpuRuns, cache, FdsCounted
<1>22. CASE UNCHANGED vars
  BY <1>22 DEF vars, cache, driver, history, FdsCounted
<1>. QED
  BY <1>1, <1>2, <1>3, <1>4, <1>5, <1>6, <1>7, <1>8, <1>9, <1>10, <1>11, <1>12, <1>13, <1>14,
     <1>15, <1>16, <1>17, <1>18, <1>19, <1>20, <1>21, <1>22
     DEF Next

-----------------------------------------------------------------------------
(* Steps that complete no entry and remove none.                           *)

\* A source that is found is used anew.
LEMMA SourceHitStep ==
    ASSUME CacheTypes, SourceHit
    PROVE  /\ Id(cur.src) \in DOMAIN sources /\ DOMAIN sources' = DOMAIN sources
           /\ sources'[Id(cur.src)].last_used = counter + 1
           /\ \A i \in DOMAIN sources :
                  /\ sources'[i].handle = sources[i].handle /\ sources'[i].made = sources[i].made
                  /\ sources'[i].sig = sources[i].sig /\ sources'[i].layout = sources[i].layout
                  /\ sources'[i].generation = sources[i].generation
                  /\ i # Id(cur.src) => sources'[i].last_used = sources[i].last_used
<1>. DEFINE id == Id(cur.src)
<1>1. id \in DOMAIN sources /\ sources' = [sources EXCEPT ![id].last_used = counter + 1]
  BY DEF SourceHit, Hit, Used
<1>2. \A i \in DOMAIN sources : sources[i] \in SourceEntries
  BY DEF CacheTypes
<1>. HIDE DEF id
<1>3. /\ DOMAIN sources' = DOMAIN sources /\ sources'[id].last_used = counter + 1
      /\ \A i \in DOMAIN sources :
             /\ sources'[i].handle = sources[i].handle /\ sources'[i].made = sources[i].made
             /\ sources'[i].sig = sources[i].sig /\ sources'[i].layout = sources[i].layout
             /\ sources'[i].generation = sources[i].generation
             /\ i # id => sources'[i].last_used = sources[i].last_used
  BY <1>1, <1>2 DEF SourceEntries
<1>. QED
  BY <1>1, <1>3 DEF id

\* So is a destination.
LEMMA DestinationHitStep ==
    ASSUME CacheTypes, DestinationHit
    PROVE  /\ DOMAIN destinations' = DOMAIN destinations
           /\ \A i \in DOMAIN destinations :
                  /\ destinations'[i].handle = destinations[i].handle
                  /\ destinations'[i].made = destinations[i].made
                  /\ destinations'[i].sig = destinations[i].sig
                  /\ destinations'[i].source_generation = destinations[i].source_generation
<1>. DEFINE id == Id(cur.dst)
<1>1. id \in DOMAIN destinations /\ destinations' = [destinations EXCEPT ![id].last_used = counter + 1]
  BY DEF DestinationHit, Hit, Used
<1>2. \A i \in DOMAIN destinations : destinations[i] \in DestinationEntries
  BY DEF CacheTypes
<1>. HIDE DEF id
<1>. QED
  BY <1>1, <1>2 DEF DestinationEntries

\* The source that was read is in the layout that the shader leaves it in.
LEMMA WaitForFenceStep ==
    ASSUME CacheTypes, InCall, WaitForFence
    PROVE  /\ Id(cur.src) \in DOMAIN sources /\ DOMAIN sources' = DOMAIN sources
           /\ sources'[Id(cur.src)].layout = "GENERAL"
           /\ \A i \in DOMAIN sources :
                  /\ sources'[i].handle = sources[i].handle /\ sources'[i].made = sources[i].made
                  /\ sources'[i].sig = sources[i].sig
                  /\ sources'[i].generation = sources[i].generation
                  /\ sources'[i].last_used = sources[i].last_used
                  /\ i # Id(cur.src) => sources'[i].layout = sources[i].layout
<1>. DEFINE id == Id(cur.src)
<1>1. id \in DOMAIN sources /\ sources' = [sources EXCEPT ![id].layout = "GENERAL"]
  BY DEF WaitForFence, InCall, SourceFound
<1>2. \A i \in DOMAIN sources : sources[i] \in SourceEntries
  BY DEF CacheTypes
<1>. HIDE DEF id
<1>3. /\ DOMAIN sources' = DOMAIN sources /\ sources'[id].layout = "GENERAL"
      /\ \A i \in DOMAIN sources :
             /\ sources'[i].handle = sources[i].handle /\ sources'[i].made = sources[i].made
             /\ sources'[i].sig = sources[i].sig
             /\ sources'[i].generation = sources[i].generation
             /\ sources'[i].last_used = sources[i].last_used
             /\ i # id => sources'[i].layout = sources[i].layout
  BY <1>1, <1>2 DEF SourceEntries
<1>. QED
  BY <1>1, <1>3 DEF id

\* The destination's set is bound to the source, if it was not.
LEMMA BindSourceStep ==
    ASSUME CacheTypes, InCall, BindSource
    PROVE  /\ Id(cur.src) \in DOMAIN sources /\ Id(cur.dst) \in DOMAIN destinations
           /\ DOMAIN destinations' = DOMAIN destinations
           /\ Destination'.source_generation = Source.generation
           /\ \A d \in DOMAIN destinations :
                  /\ destinations'[d].handle = destinations[d].handle
                  /\ destinations'[d].made = destinations[d].made
                  /\ destinations'[d].sig = destinations[d].sig
                  /\ d # Id(cur.dst) =>
                         destinations'[d].source_generation = destinations[d].source_generation
           /\ \/ bound' = [bound EXCEPT ![Destination.handle] = object[Source.handle]]
              \/ UNCHANGED <<bound, destinations>>
<1>. DEFINE id == Id(cur.dst)
<1>1. Id(cur.src) \in DOMAIN sources /\ id \in DOMAIN destinations /\ UNCHANGED cur
  BY DEF BindSource, InCall, SourceFound, DestinationFound
<1>2. \A i \in DOMAIN destinations : destinations[i] \in DestinationEntries
  BY DEF CacheTypes
<1>3. CASE Rebind
  <2>1. /\ bound' = [bound EXCEPT ![Destination.handle] = object[Source.handle]]
        /\ destinations' = [destinations EXCEPT ![id].source_generation = Source.generation]
    BY <1>3 DEF BindSource
  <2>. HIDE DEF id
  <2>2. /\ DOMAIN destinations' = DOMAIN destinations
        /\ destinations'[id].source_generation = Source.generation
        /\ \A d \in DOMAIN destinations :
               /\ destinations'[d].handle = destinations[d].handle
               /\ destinations'[d].made = destinations[d].made
               /\ destinations'[d].sig = destinations[d].sig
               /\ d # id => destinations'[d].source_generation = destinations[d].source_generation
    BY <1>1, <1>2, <2>1 DEF DestinationEntries
  <2>. QED
    BY <1>1, <2>1, <2>2 DEF id, Destination
<1>4. CASE ~Rebind
  BY <1>1, <1>4 DEF BindSource, Rebind, Destination
<1>. QED
  BY <1>3, <1>4

-----------------------------------------------------------------------------
(* Handles and objects.                                                    *)

\* The objects of some entries, one by one.
LEMMA InObjectsOf ==
    ASSUME NEW entries, NEW ids, NEW o
    PROVE  o \in ObjectsOf(entries, ids) <=>
             \E i \in ids : \E k \in entries[i].made : o = <<k, entries[i].handle>>
<1>1. \A i : o \in Objects(entries[i]) <=>
                 \E k \in entries[i].made : o = <<k, entries[i].handle>>
  BY Zenon DEF Objects
<1>2. o \in ObjectsOf(entries, ids) <=> \E i \in ids : o \in Objects(entries[i])
  BY Zenon DEF ObjectsOf
<1>. QED
  BY <1>1, <1>2

\* The objects of all entries.
LEMMA InCached ==
    ASSUME NEW o
    PROVE  o \in Cached <=>
             \/ \E i \in DOMAIN sources : \E k \in sources[i].made : o = <<k, sources[i].handle>>
             \/ \E i \in DOMAIN destinations : \E k \in destinations[i].made :
                    o = <<k, destinations[i].handle>>
BY InObjectsOf DEF Cached

\* The objects of all entries after a step.
LEMMA InCachedAfter ==
    ASSUME NEW o
    PROVE  o \in Cached' <=>
             \/ \E i \in DOMAIN sources' : \E k \in sources'[i].made :
                    o = <<k, sources'[i].handle>>
             \/ \E i \in DOMAIN destinations' : \E k \in destinations'[i].made :
                    o = <<k, destinations'[i].handle>>
<1>1. Cached' = ObjectsOf(sources', DOMAIN sources')
                  \cup ObjectsOf(destinations', DOMAIN destinations')
  BY DEF Cached
<1>. QED
  BY <1>1, InObjectsOf

\* An object of an entry exists.
LEMMA CachedAreLive ==
    ASSUME LiveAccounted
    PROVE  /\ \A i \in DOMAIN sources : \A k \in sources[i].made :
                  <<k, sources[i].handle>> \in live
           /\ \A i \in DOMAIN destinations : \A k \in destinations[i].made :
                  <<k, destinations[i].handle>> \in live
<1>1. ASSUME NEW i \in DOMAIN sources, NEW k \in sources[i].made
      PROVE  <<k, sources[i].handle>> \in live
  BY <1>1, InCached DEF LiveAccounted
<1>2. ASSUME NEW i \in DOMAIN destinations, NEW k \in destinations[i].made
      PROVE  <<k, destinations[i].handle>> \in live
  BY <1>2, InCached DEF LiveAccounted
<1>. QED
  BY <1>1, <1>2

\* A handle that no object has is none of an entry.
LEMMA FreshHandle ==
    ASSUME Shape, LiveAccounted, NEW h, \A o \in live : o[2] # h
    PROVE  /\ \A i \in DOMAIN sources :
                  ~(SourceOpen /\ i = Id(cur.src)) => sources[i].handle # h
           /\ \A i \in DOMAIN destinations :
                  ~(DestinationOpen /\ i = Id(cur.dst)) => destinations[i].handle # h
<1>1. ASSUME NEW i \in DOMAIN sources, ~(SourceOpen /\ i = Id(cur.src)), sources[i].handle = h
      PROVE  FALSE
  <2>1. "image" \in sources[i].made
    BY <1>1 DEF Shape, SourceParts, SourceKinds
  <2>2. <<"image", h>> \in live
    BY <1>1, <2>1, CachedAreLive
  <2>. QED
    BY <2>2
<1>2. ASSUME NEW i \in DOMAIN destinations, ~(DestinationOpen /\ i = Id(cur.dst)),
             destinations[i].handle = h
      PROVE  FALSE
  <2>1. "buffer" \in destinations[i].made
    BY <1>2 DEF Shape, DestinationParts, DestinationKinds
  <2>2. <<"buffer", h>> \in live
    BY <1>2, <2>1, CachedAreLive
  <2>. QED
    BY <2>2
<1>. QED
  BY <1>1, <1>2

\* The handle that a source is imported with is no other entry's.
LEMMA SourceImportApart ==
    ASSUME Shape, LiveAccounted, HandlesApart, NEW h, SourceImported(h)
    PROVE  /\ h \in Handles /\ h # NoHandle
           /\ \A i \in DOMAIN sources : i # Id(cur.src) => sources[i].handle # h
           /\ \A d \in DOMAIN destinations : destinations[d].handle # h
<1>1. h \in Handles /\ h # NoHandle
  BY HandleAssumption DEF SourceImported, Handles
<1>2. \A i \in DOMAIN sources : i # Id(cur.src) => sources[i].handle # h
  <2>1. CASE step = 1
    BY <2>1, FreshHandle DEF SourceImported
  <2>2. CASE step # 1
    BY <1>1, <2>2 DEF SourceImported, HandlesApart, Apart
  <2>. QED
    BY <2>1, <2>2
<1>3. \A d \in DOMAIN destinations : destinations[d].handle # h
  BY <1>1, HandlesKnown DEF SourceImported, Shape
<1>. QED
  BY <1>1, <1>2, <1>3

\* Nor is the one that a destination is imported with.
LEMMA DestinationImportApart ==
    ASSUME Shape, LiveAccounted, HandlesApart, NEW h, DestinationImported(h)
    PROVE  /\ h \in Handles /\ h # NoHandle
           /\ \A d \in DOMAIN destinations : d # Id(cur.dst) => destinations[d].handle # h
           /\ \A i \in DOMAIN sources : sources[i].handle # h
<1>1. h \in Handles /\ h # NoHandle
  BY HandleAssumption DEF DestinationImported, Handles
<1>2. \A d \in DOMAIN destinations : d # Id(cur.dst) => destinations[d].handle # h
  <2>1. CASE step = 1
    BY <2>1, FreshHandle DEF DestinationImported
  <2>2. CASE step # 1
    BY <1>1, <2>2 DEF DestinationImported, HandlesApart, Apart
  <2>. QED
    BY <2>1, <2>2
<1>3. \A i \in DOMAIN sources : sources[i].handle # h
  BY <1>1, HandlesKnown DEF DestinationImported, Shape
<1>. QED
  BY <1>1, <1>2, <1>3

\* Every step leaves the entries with handles of their own.
LEMMA HandlesApartStep ==
    ASSUME Shape, LiveAccounted, HandlesApart, [Next]_vars
    PROVE  HandlesApart'
<1>1. CASE Initialize
  <2>1. UNCHANGED <<sources, destinations>>
    BY <1>1 DEF Initialize, cache, driver, history
  <2>. QED
    BY <2>1 DEF HandlesApart, Apart
<1>2. CASE InitializeStep
  <2>1. UNCHANGED <<sources, destinations>>
    BY <1>2 DEF InitializeStep, cache, history
  <2>. QED
    BY <2>1 DEF HandlesApart, Apart
<1>3. CASE InitializeFails
  <2>1. DOMAIN sources' = {} /\ DOMAIN destinations' = {}
    BY <1>3 DEF InitializeFails, DoReset
  <2>. QED
    BY <2>1 DEF HandlesApart, Apart
<1>4. CASE Reset
  <2>1. DOMAIN sources' = {} /\ DOMAIN destinations' = {}
    BY <1>4 DEF Reset, DoReset
  <2>. QED
    BY <2>1 DEF HandlesApart, Apart
<1>5. CASE \E b \in SourceBuffers, d \in DestinationBuffers : Convert(b, d)
  <2>1. UNCHANGED <<sources, destinations>>
    BY <1>5 DEF Convert, cache, driver
  <2>. QED
    BY <2>1 DEF HandlesApart, Apart
<1>6. CASE ConvertRejects
  <2>1. UNCHANGED <<sources, destinations>>
    BY <1>6 DEF ConvertRejects, Faulty, ConvertFails, cache, driver
  <2>. QED
    BY <2>1 DEF HandlesApart, Apart
<1>7. CASE SourceHit
  <2>1. UNCHANGED destinations
    BY <1>7 DEF SourceHit
  <2>. QED
    BY <1>7, <2>1, SourceHitStep DEF HandlesApart, Apart, Shape
<1>8. CASE SourceMiss
  <2>1. PICK out \in SUBSET DOMAIN sources :
                 /\ DOMAIN sources' = (DOMAIN sources \ out) \cup {Id(cur.src)}
                 /\ \A i \in DOMAIN sources \ out : i # Id(cur.src) /\ sources'[i] = sources[i]
                 /\ sources'[Id(cur.src)] = NewSource /\ UNCHANGED destinations
    BY <1>8, SourceMissStep DEF Shape
  <2>2. sources'[Id(cur.src)].handle = NoHandle
    BY <2>1 DEF NewSource
  <2>. QED
    BY <2>1, <2>2 DEF HandlesApart, Apart
<1>9. CASE ImportSource
  <2>. DEFINE id == Id(cur.src)
  <2>1. PICK h : SourceImported(h)
    BY <1>9, ImportSourceStep DEF Shape
  <2>2. \A i \in DOMAIN sources : i # id => sources[i].handle # h
    BY <2>1, SourceImportApart
  <2>3. /\ DOMAIN sources' = DOMAIN sources /\ sources'[id].handle = h /\ UNCHANGED destinations
        /\ \A i \in DOMAIN sources : i # id => sources'[i].handle = sources[i].handle
    BY <2>1 DEF SourceImported
  <2>. QED
    BY <2>2, <2>3 DEF HandlesApart, Apart
<1>10. CASE ImportSourceFails
  <2>1. UNCHANGED <<sources, destinations>>
    BY <1>10 DEF ImportSourceFails, Faulty, FdsClosed, cache, driver
  <2>. QED
    BY <2>1 DEF HandlesApart, Apart
<1>11. CASE DropSource
  <2>1. /\ DOMAIN sources' = DOMAIN sources \ {Id(cur.src)} /\ UNCHANGED destinations
        /\ \A i \in DOMAIN sources \ {Id(cur.src)} : sources'[i] = sources[i]
    BY <1>11, DropSourceStep DEF Shape
  <2>. QED
    BY <2>1 DEF HandlesApart, Apart
<1>12. CASE DestinationHit
  <2>1. UNCHANGED sources
    BY <1>12 DEF DestinationHit
  <2>. QED
    BY <1>12, <2>1, DestinationHitStep DEF HandlesApart, Apart, Shape
<1>13. CASE DestinationMiss
  <2>1. PICK out \in SUBSET DOMAIN destinations :
                 /\ DOMAIN destinations' = (DOMAIN destinations \ out) \cup {Id(cur.dst)}
                 /\ \A i \in DOMAIN destinations \ out : i # Id(cur.dst) /\ destinations'[i] = destinations[i]
                 /\ destinations'[Id(cur.dst)] = NewDestination /\ UNCHANGED sources
    BY <1>13, DestinationMissStep DEF Shape
  <2>2. destinations'[Id(cur.dst)].handle = NoHandle
    BY <2>1 DEF NewDestination
  <2>. QED
    BY <2>1, <2>2 DEF HandlesApart, Apart
<1>14. CASE ImportDestination
  <2>. DEFINE id == Id(cur.dst)
  <2>1. PICK h : DestinationImported(h)
    BY <1>14, ImportDestinationStep DEF Shape
  <2>2. \A i \in DOMAIN destinations : i # id => destinations[i].handle # h
    BY <2>1, DestinationImportApart
  <2>3. /\ DOMAIN destinations' = DOMAIN destinations /\ destinations'[id].handle = h /\ UNCHANGED sources
        /\ \A i \in DOMAIN destinations : i # id => destinations'[i].handle = destinations[i].handle
    BY <2>1 DEF DestinationImported
  <2>. QED
    BY <2>2, <2>3 DEF HandlesApart, Apart
<1>15. CASE ImportDestinationFails
  <2>1. UNCHANGED <<sources, destinations>>
    BY <1>15 DEF ImportDestinationFails, Faulty, FdsClosed, cache, driver
  <2>. QED
    BY <2>1 DEF HandlesApart, Apart
<1>16. CASE DropDestination
  <2>1. /\ DOMAIN destinations' = DOMAIN destinations \ {Id(cur.dst)} /\ UNCHANGED sources
        /\ \A i \in DOMAIN destinations \ {Id(cur.dst)} : destinations'[i] = destinations[i]
    BY <1>16, DropDestinationStep DEF Shape
  <2>. QED
    BY <2>1 DEF HandlesApart, Apart
<1>17. CASE BindSource
  <2>1. UNCHANGED sources
    BY <1>17 DEF BindSource
  <2>. QED
    BY <1>17, <2>1, BindSourceStep DEF HandlesApart, Apart, Shape
<1>18. CASE Dispatch
  <2>1. UNCHANGED <<sources, destinations>>
    BY <1>18 DEF Dispatch, cache, driver, history
  <2>. QED
    BY <2>1 DEF HandlesApart, Apart
<1>19. CASE DispatchFails
  <2>1. UNCHANGED <<sources, destinations>>
    BY <1>19 DEF DispatchFails, Faulty, ConvertFails, cache, driver
  <2>. QED
    BY <2>1 DEF HandlesApart, Apart
<1>20. CASE WaitForFence
  <2>1. UNCHANGED destinations
    BY <1>20 DEF WaitForFence
  <2>. QED
    BY <1>20, <2>1, WaitForFenceStep DEF HandlesApart, Apart, Shape
<1>21. CASE WaitFails
  <2>1. UNCHANGED <<sources, destinations>>
    BY <1>21 DEF WaitFails, Faulty, ConvertFails, GpuRuns, cache
  <2>. QED
    BY <2>1 DEF HandlesApart, Apart
<1>22. CASE UNCHANGED vars
  <2>1. UNCHANGED <<sources, destinations>>
    BY <1>22 DEF vars, cache, driver, history
  <2>. QED
    BY <2>1 DEF HandlesApart, Apart
<1>. QED
  BY <1>1, <1>2, <1>3, <1>4, <1>5, <1>6, <1>7, <1>8, <1>9, <1>10, <1>11, <1>12, <1>13, <1>14,
     <1>15, <1>16, <1>17, <1>18, <1>19, <1>20, <1>21, <1>22
     DEF Next

-----------------------------------------------------------------------------
(* The objects of the driver.                                              *)

\* The entries keep their handles and objects.
LEMMA CachedUnchanged ==
    ASSUME DOMAIN sources' = DOMAIN sources, DOMAIN destinations' = DOMAIN destinations,
           \A i \in DOMAIN sources :
               sources'[i].handle = sources[i].handle /\ sources'[i].made = sources[i].made,
           \A i \in DOMAIN destinations :
               /\ destinations'[i].handle = destinations[i].handle
               /\ destinations'[i].made = destinations[i].made
    PROVE  Cached' = Cached
<1>1. ASSUME NEW o PROVE o \in Cached' <=> o \in Cached
  <2>1. (\E i \in DOMAIN sources' : \E k \in sources'[i].made : o = <<k, sources'[i].handle>>)
          <=> (\E i \in DOMAIN sources : \E k \in sources[i].made : o = <<k, sources[i].handle>>)
    OBVIOUS
  <2>2. (\E i \in DOMAIN destinations' : \E k \in destinations'[i].made :
            o = <<k, destinations'[i].handle>>)
          <=> (\E i \in DOMAIN destinations : \E k \in destinations[i].made :
                  o = <<k, destinations[i].handle>>)
    OBVIOUS
  <2>. QED
    BY <2>1, <2>2, InCached, InCachedAfter
<1>. QED
  BY <1>1

\* Source entries go, and with them what they have.
LEMMA SourcesGone ==
    ASSUME Shape, HandlesApart, NEW out \in SUBSET DOMAIN sources, NEW id,
           DOMAIN sources' \subseteq (DOMAIN sources \ out) \cup {id},
           DOMAIN sources \ out \subseteq DOMAIN sources',
           \A i \in DOMAIN sources \ out : sources'[i] = sources[i],
           id \in DOMAIN sources' => id \in DOMAIN sources \ out \/ sources'[id].made = {},
           UNCHANGED destinations
    PROVE  /\ Cached' = Cached \ ObjectsOf(sources, out)
           /\ OwnObjects \cap ObjectsOf(sources, out) = {}
<1>1. NoHandle \notin Handles /\ SourceHandles \cap DestinationHandles = {}
  BY HandleAssumption
<1>2. \A i \in DOMAIN sources : sources[i].made # {} => sources[i].handle \in SourceHandles
  BY HandlesKnown DEF Shape
<1>3. \A i \in DOMAIN destinations : destinations[i].made # {} => destinations[i].handle \in DestinationHandles
  BY HandlesKnown DEF Shape
<1>4. \A x : x \in ObjectsOf(sources, out) <=>
                 \E i \in out : \E k \in sources[i].made : x = <<k, sources[i].handle>>
  BY InObjectsOf
<1>5. OwnObjects \cap ObjectsOf(sources, out) = {}
  <2>1. \A x \in OwnObjects : x[2] = NoHandle
    BY DEF OwnObjects
  <2>2. \A x \in ObjectsOf(sources, out) : x[2] \in SourceHandles
    BY <1>2, <1>4
  <2>. QED
    BY <1>1, <2>1, <2>2 DEF Handles
<1>6. ASSUME NEW x, x \in Cached' PROVE x \in Cached /\ x \notin ObjectsOf(sources, out)
  <2>1. CASE \E i \in DOMAIN sources' : \E k \in sources'[i].made : x = <<k, sources'[i].handle>>
    <3>1. PICK i \in DOMAIN sources \ out : \E k \in sources[i].made : x = <<k, sources[i].handle>>
      BY <2>1
    <3>2. x \in Cached
      BY <3>1, InCached
    <3>3. ASSUME NEW j \in out, NEW k \in sources[j].made, x = <<k, sources[j].handle>> PROVE FALSE
      <4>1. sources[i].handle = sources[j].handle /\ sources[i].handle # NoHandle
        BY <1>1, <1>2, <3>1, <3>3 DEF Handles
      <4>. QED
        BY <3>1, <4>1 DEF HandlesApart, Apart
    <3>. QED
      BY <1>4, <3>2, <3>3
  <2>2. CASE \E i \in DOMAIN destinations : \E k \in destinations[i].made : x = <<k, destinations[i].handle>>
    <3>1. x \in Cached /\ x[2] \in DestinationHandles
      BY <1>3, <2>2, InCached
    <3>2. x \in ObjectsOf(sources, out) => x[2] \in SourceHandles
      BY <1>2, <1>4
    <3>. QED
      BY <1>1, <3>1, <3>2
  <2>3. \/ \E i \in DOMAIN sources' : \E k \in sources'[i].made : x = <<k, sources'[i].handle>>
        \/ \E i \in DOMAIN destinations' : \E k \in destinations'[i].made : x = <<k, destinations'[i].handle>>
    BY <1>6, InCachedAfter
  <2>. QED
    BY <2>1, <2>2, <2>3
<1>7. ASSUME NEW x, x \in Cached, x \notin ObjectsOf(sources, out) PROVE x \in Cached'
  <2>1. CASE \E i \in DOMAIN sources : \E k \in sources[i].made : x = <<k, sources[i].handle>>
    <3>1. PICK i \in DOMAIN sources : \E k \in sources[i].made : x = <<k, sources[i].handle>>
      BY <2>1
    <3>2. i \in DOMAIN sources \ out
      BY <1>4, <1>7, <3>1
    <3>3. i \in DOMAIN sources' /\ sources'[i] = sources[i]
      BY <3>2
    <3>. QED
      BY <3>1, <3>3, InCachedAfter
  <2>2. CASE \E i \in DOMAIN destinations : \E k \in destinations[i].made : x = <<k, destinations[i].handle>>
    BY <2>2, InCachedAfter
  <2>. QED
    BY <1>7, <2>1, <2>2, InCached
<1>. QED
  BY <1>5, <1>6, <1>7

\* A step of an import adds what it creates.
LEMMA SourcesGrow ==
    ASSUME Shape, NEW h, SourceImported(h)
    PROVE  Cached' = Cached \cup Created(h, SourceSteps[step], SourceKinds)
<1>. DEFINE id == Id(cur.src)
            new == {SourceSteps[step]} \cap SourceKinds
<1>1. /\ DOMAIN sources' = DOMAIN sources /\ id \in DOMAIN sources /\ UNCHANGED destinations
      /\ \A i \in DOMAIN sources : i # id => sources'[i] = sources[i]
      /\ sources'[id].handle = h /\ sources'[id].made = MadeBy(SourceSteps, step + 1, SourceKinds)
      /\ step \in Nat \ {0}
  BY DEF SourceImported
<1>2. sources[id].made = IF SourceOpen THEN MadeBy(SourceSteps, step, SourceKinds) ELSE SourceKinds
  BY <1>1 DEF Shape, SourceParts
<1>3. sources'[id].made = sources[id].made \cup new
  <2>1. MadeBy(SourceSteps, step + 1, SourceKinds) = MadeBy(SourceSteps, step, SourceKinds) \cup new
    BY <1>1, OneMore
  <2>2. SourceOpen
    BY DEF SourceImported, SourceOpen
  <2>. QED
    BY <1>1, <1>2, <2>1, <2>2
<1>4. sources[id].made # {} => sources[id].handle = h
  <2>1. step = 1 => sources[id].made = {}
    BY <1>1, <1>2, MadeAtEnds DEF SourceImported, SourceOpen
  <2>. QED
    BY <2>1 DEF SourceImported
<1>. HIDE DEF id, new
<1>5. \A x : x \in Cached' <=> x \in Cached \/ \E k \in new : x = <<k, h>>
  <2>1. \A x : x \in Cached' <=>
             \/ \E i \in DOMAIN sources : \E k \in sources'[i].made : x = <<k, sources'[i].handle>>
             \/ \E i \in DOMAIN destinations : \E k \in destinations[i].made : x = <<k, destinations[i].handle>>
    BY <1>1, InCachedAfter
  <2>. QED
    BY <1>1, <1>3, <1>4, <2>1, InCached
<1>. QED
  BY <1>5 DEF Created, new

\* Destination entries go, and with them what they have.
LEMMA DestinationsGone ==
    ASSUME Shape, HandlesApart, NEW out \in SUBSET DOMAIN destinations, NEW id,
           DOMAIN destinations' \subseteq (DOMAIN destinations \ out) \cup {id},
           DOMAIN destinations \ out \subseteq DOMAIN destinations',
           \A i \in DOMAIN destinations \ out : destinations'[i] = destinations[i],
           id \in DOMAIN destinations' => id \in DOMAIN destinations \ out \/ destinations'[id].made = {},
           UNCHANGED sources
    PROVE  /\ Cached' = Cached \ ObjectsOf(destinations, out)
           /\ OwnObjects \cap ObjectsOf(destinations, out) = {}
<1>1. NoHandle \notin Handles /\ SourceHandles \cap DestinationHandles = {}
  BY HandleAssumption
<1>2. \A i \in DOMAIN destinations : destinations[i].made # {} => destinations[i].handle \in DestinationHandles
  BY HandlesKnown DEF Shape
<1>3. \A i \in DOMAIN sources : sources[i].made # {} => sources[i].handle \in SourceHandles
  BY HandlesKnown DEF Shape
<1>4. \A x : x \in ObjectsOf(destinations, out) <=>
                 \E i \in out : \E k \in destinations[i].made : x = <<k, destinations[i].handle>>
  BY InObjectsOf
<1>5. OwnObjects \cap ObjectsOf(destinations, out) = {}
  <2>1. \A x \in OwnObjects : x[2] = NoHandle
    BY DEF OwnObjects
  <2>2. \A x \in ObjectsOf(destinations, out) : x[2] \in DestinationHandles
    BY <1>2, <1>4
  <2>. QED
    BY <1>1, <2>1, <2>2 DEF Handles
<1>6. ASSUME NEW x, x \in Cached' PROVE x \in Cached /\ x \notin ObjectsOf(destinations, out)
  <2>1. CASE \E i \in DOMAIN destinations' : \E k \in destinations'[i].made : x = <<k, destinations'[i].handle>>
    <3>1. PICK i \in DOMAIN destinations \ out : \E k \in destinations[i].made : x = <<k, destinations[i].handle>>
      BY <2>1
    <3>2. x \in Cached
      BY <3>1, InCached
    <3>3. ASSUME NEW j \in out, NEW k \in destinations[j].made, x = <<k, destinations[j].handle>> PROVE FALSE
      <4>1. destinations[i].handle = destinations[j].handle /\ destinations[i].handle # NoHandle
        BY <1>1, <1>2, <3>1, <3>3 DEF Handles
      <4>. QED
        BY <3>1, <4>1 DEF HandlesApart, Apart
    <3>. QED
      BY <1>4, <3>2, <3>3
  <2>2. CASE \E i \in DOMAIN sources : \E k \in sources[i].made : x = <<k, sources[i].handle>>
    <3>1. x \in Cached /\ x[2] \in SourceHandles
      BY <1>3, <2>2, InCached
    <3>2. x \in ObjectsOf(destinations, out) => x[2] \in DestinationHandles
      BY <1>2, <1>4
    <3>. QED
      BY <1>1, <3>1, <3>2
  <2>3. \/ \E i \in DOMAIN destinations' : \E k \in destinations'[i].made : x = <<k, destinations'[i].handle>>
        \/ \E i \in DOMAIN sources' : \E k \in sources'[i].made : x = <<k, sources'[i].handle>>
    BY <1>6, InCachedAfter
  <2>. QED
    BY <2>1, <2>2, <2>3
<1>7. ASSUME NEW x, x \in Cached, x \notin ObjectsOf(destinations, out) PROVE x \in Cached'
  <2>1. CASE \E i \in DOMAIN destinations : \E k \in destinations[i].made : x = <<k, destinations[i].handle>>
    <3>1. PICK i \in DOMAIN destinations : \E k \in destinations[i].made : x = <<k, destinations[i].handle>>
      BY <2>1
    <3>2. i \in DOMAIN destinations \ out
      BY <1>4, <1>7, <3>1
    <3>3. i \in DOMAIN destinations' /\ destinations'[i] = destinations[i]
      BY <3>2
    <3>. QED
      BY <3>1, <3>3, InCachedAfter
  <2>2. CASE \E i \in DOMAIN sources : \E k \in sources[i].made : x = <<k, sources[i].handle>>
    BY <2>2, InCachedAfter
  <2>. QED
    BY <1>7, <2>1, <2>2, InCached
<1>. QED
  BY <1>5, <1>6, <1>7

\* A step of an import adds what it creates.
LEMMA DestinationsGrow ==
    ASSUME Shape, NEW h, DestinationImported(h)
    PROVE  Cached' = Cached \cup Created(h, DestinationSteps[step], DestinationKinds)
<1>. DEFINE id == Id(cur.dst)
            new == {DestinationSteps[step]} \cap DestinationKinds
<1>1. /\ DOMAIN destinations' = DOMAIN destinations /\ id \in DOMAIN destinations /\ UNCHANGED sources
      /\ \A i \in DOMAIN destinations : i # id => destinations'[i] = destinations[i]
      /\ destinations'[id].handle = h /\ destinations'[id].made = MadeBy(DestinationSteps, step + 1, DestinationKinds)
      /\ step \in Nat \ {0}
  BY DEF DestinationImported
<1>2. destinations[id].made = IF DestinationOpen THEN MadeBy(DestinationSteps, step, DestinationKinds) ELSE DestinationKinds
  BY <1>1 DEF Shape, DestinationParts
<1>3. destinations'[id].made = destinations[id].made \cup new
  <2>1. MadeBy(DestinationSteps, step + 1, DestinationKinds) = MadeBy(DestinationSteps, step, DestinationKinds) \cup new
    BY <1>1, OneMore
  <2>2. DestinationOpen
    BY DEF DestinationImported, DestinationOpen
  <2>. QED
    BY <1>1, <1>2, <2>1, <2>2
<1>4. destinations[id].made # {} => destinations[id].handle = h
  <2>1. step = 1 => destinations[id].made = {}
    BY <1>1, <1>2, MadeAtEnds DEF DestinationImported, DestinationOpen
  <2>. QED
    BY <2>1 DEF DestinationImported
<1>. HIDE DEF id, new
<1>5. \A x : x \in Cached' <=> x \in Cached \/ \E k \in new : x = <<k, h>>
  <2>1. \A x : x \in Cached' <=>
             \/ \E i \in DOMAIN destinations : \E k \in destinations'[i].made : x = <<k, destinations'[i].handle>>
             \/ \E i \in DOMAIN sources : \E k \in sources[i].made : x = <<k, sources[i].handle>>
    BY <1>1, InCachedAfter
  <2>. QED
    BY <1>1, <1>3, <1>4, <2>1, InCached
<1>. QED
  BY <1>5 DEF Created, new

\* The pipeline is created after the shader module.
LEMMA PipelineIsEighth ==
    \A n \in 1 .. 10 : (InitSteps[n] = "pipeline" <=> n = 8) /\ (InitSteps[n] = "shader" <=> n = 7)
<1>. SUFFICES ASSUME NEW n \in 1 .. 10
              PROVE  (InitSteps[n] = "pipeline" <=> n = 8) /\ (InitSteps[n] = "shader" <=> n = 7)
  OBVIOUS
<1>1. n \in {1, 2, 3, 4, 5, 6, 7, 8, 9, 10}
  OBVIOUS
<1>. QED
  BY <1>1 DEF InitSteps

Kinds == {"instance", "device", "sampler", "setLayout", "pool", "pipelineLayout", "pipeline",
          "commandPool", "fence"}

\* What Initialize has created it owns, but for the shader module.
LEMMA InitializeOwns ==
    ASSUME pc = "init", step \in 1 .. 10
    PROVE  OwnNow \subseteq OwnObjects \cup Shader /\ (step # 8 => OwnNow \subseteq OwnObjects)
<1>1. \A n \in 1 .. 10 : InitSteps[n] \in Kinds \cup {"shader"}
  <2>. SUFFICES ASSUME NEW n \in 1 .. 10 PROVE InitSteps[n] \in Kinds \cup {"shader"}
    OBVIOUS
  <2>1. n \in {1, 2, 3, 4, 5, 6, 7, 8, 9, 10}
    OBVIOUS
  <2>. QED
    BY <2>1 DEF InitSteps, Kinds
<1>2. OwnObjects = Kinds \X {NoHandle}
  BY DEF OwnObjects, Kinds
<1>3. ASSUME NEW o \in OwnNow
      PROVE  o \in OwnObjects \cup Shader /\ (step # 8 => o \in OwnObjects)
  <2>1. PICK j \in 1 .. step - 1 : o = <<InitSteps[j], NoHandle>>
    BY DEF OwnNow
  <2>2. j \in 1 .. 10
    OBVIOUS
  <2>3. CASE InitSteps[j] \in Kinds
    BY <1>2, <2>1, <2>3
  <2>4. CASE InitSteps[j] = "shader"
    <3>1. o \in Shader /\ j = 7
      BY <2>1, <2>2, <2>4, PipelineIsEighth DEF Shader
    <3>2. ~(step > 8)
      BY <3>1 DEF OwnNow
    <3>. QED
      BY <3>1, <3>2
  <2>. QED
    BY <1>1, <2>2, <2>3, <2>4
<1>. QED
  BY <1>3

\* Each step of it adds its object, the pipeline removes the shader module.
LEMMA InitializeGrows ==
    ASSUME pc = "init", step \in 1 .. 10,
           IF step = 10 THEN pc' = "ready" ELSE pc' = "init" /\ step' = step + 1
    PROVE  OwnNow' = (OwnNow \cup {<<InitSteps[step], NoHandle>>})
                       \ (IF InitSteps[step] = "pipeline" THEN Shader ELSE {})
<1>. DEFINE so(n) == {InitSteps[j] : j \in 1 .. n - 1} \X {NoHandle}
<1>1. so(step + 1) = so(step) \cup {<<InitSteps[step], NoHandle>>}
  <2>1. 1 .. (step + 1) - 1 = (1 .. step - 1) \cup {step}
    OBVIOUS
  <2>. QED
    BY <2>1
<1>2. OwnNow = so(step) \ (IF step > 8 THEN Shader ELSE {})
  BY DEF OwnNow
<1>3. InitSteps[step] = "pipeline" <=> step = 8
  BY PipelineIsEighth
<1>4. step > 8 => <<InitSteps[step], NoHandle>> \notin Shader
  BY PipelineIsEighth DEF Shader
<1>5. CASE step # 10
  <2>1. OwnNow' = so(step + 1) \ (IF step + 1 > 8 THEN Shader ELSE {})
    BY <1>5 DEF OwnNow
  <2>2. step + 1 > 8 <=> step > 8 \/ step = 8
    OBVIOUS
  <2>. HIDE DEF so
  <2>. QED
    BY <1>1, <1>2, <1>3, <1>4, <2>1, <2>2
<1>6. CASE step = 10
  <2>1. OwnNow' = OwnObjects
    BY <1>6 DEF OwnNow
  <2>2. so(11) \ Shader = OwnObjects
    <3>1. {InitSteps[j] : j \in 1 .. 11 - 1} = Kinds \cup {"shader"}
      <4>1. 1 .. 11 - 1 = {1, 2, 3, 4, 5, 6, 7, 8, 9, 10}
        OBVIOUS
      <4>. QED
        BY <4>1 DEF InitSteps, Kinds
    <3>2. OwnObjects = Kinds \X {NoHandle} /\ Shader = {<<"shader", NoHandle>>}
      BY DEF OwnObjects, Kinds, Shader
    <3>3. "shader" \notin Kinds
      BY DEF Kinds
    <3>. HIDE DEF Kinds
    <3>. QED
      BY <3>1, <3>2, <3>3
  <2>3. so(step + 1) = so(11)
    BY <1>6
  <2>. HIDE DEF so
  <2>. QED
    BY <1>1, <1>2, <1>3, <1>4, <1>6, <2>1, <2>2, <2>3
<1>. QED
  BY <1>5, <1>6

\* Every step accounts for the objects that exist.
LEMMA LiveStep ==
    ASSUME Shape, HandlesApart, LiveAccounted, [Next]_vars
    PROVE  LiveAccounted'
<1>1. CASE Initialize
  <2>1. UNCHANGED <<sources, destinations, live>> /\ OwnNow' = {} /\ OwnNow = {}
    BY <1>1 DEF Initialize, OwnNow, cache, driver
  <2>2. Cached' = Cached
    BY <2>1 DEF Cached
  <2>. QED
    BY <2>1, <2>2 DEF LiveAccounted
<1>2. CASE InitializeStep
  <2>1. /\ UNCHANGED <<sources, destinations>> /\ pc = "init" /\ step \in 1 .. 10
        /\ live' = (live \cup {<<InitSteps[step], NoHandle>>})
                     \ (IF InitSteps[step] = "pipeline" THEN Shader ELSE {})
        /\ IF step = 10 THEN pc' = "ready" ELSE pc' = "init" /\ step' = step + 1
    BY <1>2, StepLists DEF InitializeStep, cache, Shape, InCall
  <2>2. Cached' = {} /\ Cached = {}
    <3>1. DOMAIN sources = {} /\ DOMAIN destinations = {}
      BY <2>1 DEF Shape, InCall
    <3>. QED
      BY <2>1, <3>1, InCached, InCachedAfter
  <2>3. live = OwnNow
    BY <2>2 DEF LiveAccounted
  <2>. QED
    BY <2>1, <2>2, <2>3, InitializeGrows DEF LiveAccounted
<1>3. CASE InitializeFails
  <2>1. PICK shader \in {{}, Shader} : live' = live \ (OwnObjects \cup Cached \cup shader)
                                      /\ (pc = "init" /\ step = 8 => shader = Shader)
    <3>. DEFINE shader == IF InitSteps[step] = "pipeline" THEN Shader ELSE {}
    <3>1. live' = live \ (OwnObjects \cup Cached \cup shader)
      BY <1>3 DEF InitializeFails, DoReset, Destroy
    <3>2. pc = "init" /\ step = 8 => shader = Shader
      BY <1>3, PipelineIsEighth
    <3>. QED
      BY <3>1, <3>2
  <2>2. OwnNow \subseteq OwnObjects \cup shader
    BY <1>3, <2>1, InitializeOwns DEF InitializeFails, OwnNow, Shape, InCall
  <2>3. live' = {}
    BY <2>1, <2>2 DEF LiveAccounted
  <2>4. DOMAIN sources' = {} /\ DOMAIN destinations' = {} /\ pc' = "closed"
    BY <1>3 DEF InitializeFails, DoReset
  <2>5. Cached' = {} /\ OwnNow' = {}
    BY <2>4, InCachedAfter DEF OwnNow
  <2>. QED
    BY <2>3, <2>5 DEF LiveAccounted
<1>4. CASE Reset
  <2>1. PICK shader \in {{}, Shader} : live' = live \ (OwnObjects \cup Cached \cup shader)
                                      /\ (pc = "init" /\ step = 8 => shader = Shader)
    <3>. QED
      BY <1>4 DEF Reset, DoReset, Destroy
  <2>2. OwnNow \subseteq OwnObjects \cup shader
    BY <1>4, <2>1, InitializeOwns DEF Reset, OwnNow, Shape, InCall
  <2>3. live' = {}
    BY <2>1, <2>2 DEF LiveAccounted
  <2>4. DOMAIN sources' = {} /\ DOMAIN destinations' = {} /\ pc' = "closed"
    BY <1>4 DEF Reset, DoReset
  <2>5. Cached' = {} /\ OwnNow' = {}
    BY <2>4, InCachedAfter DEF OwnNow
  <2>. QED
    BY <2>3, <2>5 DEF LiveAccounted
<1>5. CASE \E b \in SourceBuffers, d \in DestinationBuffers : Convert(b, d)
  <2>1. UNCHANGED <<sources, destinations, live>> /\ OwnNow' = OwnNow
    BY <1>5 DEF Convert, cache, driver, OwnNow
  <2>2. Cached' = Cached
    BY <2>1 DEF Cached
  <2>. QED
    BY <2>1, <2>2 DEF LiveAccounted
<1>6. CASE ConvertRejects
  <2>1. UNCHANGED <<sources, destinations, live>> /\ OwnNow' = OwnNow
    BY <1>6 DEF ConvertRejects, Faulty, ConvertFails, cache, driver, OwnNow
  <2>2. Cached' = Cached
    BY <2>1 DEF Cached
  <2>. QED
    BY <2>1, <2>2 DEF LiveAccounted
<1>7. CASE SourceHit
  <2>1. UNCHANGED <<destinations, live>> /\ OwnNow' = OwnNow
    BY <1>7 DEF SourceHit, driver, OwnNow
  <2>2. Cached' = Cached
    BY <1>7, <2>1, SourceHitStep, CachedUnchanged DEF Shape
  <2>. QED
    BY <2>1, <2>2 DEF LiveAccounted
<1>8. CASE SourceMiss
  <2>1. PICK out \in SUBSET DOMAIN sources :
                 /\ DOMAIN sources' = (DOMAIN sources \ out) \cup {Id(cur.src)}
                 /\ \A i \in DOMAIN sources \ out : i # Id(cur.src) /\ sources'[i] = sources[i]
                 /\ sources'[Id(cur.src)] = NewSource /\ UNCHANGED destinations
                 /\ live' = live \ ObjectsOf(sources, out)
                 /\ pc \in {"source", "destination"}
                 /\ pc' \in {"importSource", "importDestination"}
    BY <1>8, SourceMissStep DEF Shape
  <2>2. sources'[Id(cur.src)].made = {}
    BY <2>1 DEF NewSource
  <2>3. /\ Cached' = Cached \ ObjectsOf(sources, out)
        /\ OwnObjects \cap ObjectsOf(sources, out) = {}
    BY <2>1, <2>2, SourcesGone
  <2>4. OwnNow = OwnObjects /\ OwnNow' = OwnObjects
    BY <2>1 DEF OwnNow
  <2>. QED
    BY <2>1, <2>3, <2>4 DEF LiveAccounted
<1>9. CASE ImportSource
  <2>1. PICK h : SourceImported(h)
    BY <1>9, ImportSourceStep DEF Shape
  <2>2. live' = live \cup Created(h, SourceSteps[step], SourceKinds)
    BY <2>1 DEF SourceImported
  <2>3. Cached' = Cached \cup Created(h, SourceSteps[step], SourceKinds)
    BY <2>1, SourcesGrow
  <2>4. OwnNow' = OwnNow
    BY <1>9 DEF ImportSource, OwnNow
  <2>. QED
    BY <2>2, <2>3, <2>4 DEF LiveAccounted
<1>10. CASE ImportSourceFails
  <2>1. UNCHANGED <<sources, destinations, live>> /\ OwnNow' = OwnNow
    BY <1>10 DEF ImportSourceFails, Faulty, FdsClosed, cache, driver, OwnNow
  <2>2. Cached' = Cached
    BY <2>1 DEF Cached
  <2>. QED
    BY <2>1, <2>2 DEF LiveAccounted
<1>11. CASE DropSource
  <2>1. /\ Id(cur.src) \in DOMAIN sources /\ DOMAIN sources' = DOMAIN sources \ {Id(cur.src)}
        /\ \A i \in DOMAIN sources \ {Id(cur.src)} : sources'[i] = sources[i]
        /\ live' = live \ ObjectsOf(sources, {Id(cur.src)}) /\ UNCHANGED destinations
        /\ pc \in {"dropSource", "dropDestination"} /\ pc' = "ready"
    BY <1>11, DropSourceStep DEF Shape
  <2>2. /\ Cached' = Cached \ ObjectsOf(sources, {Id(cur.src)})
        /\ OwnObjects \cap ObjectsOf(sources, {Id(cur.src)}) = {}
    BY <2>1, SourcesGone
  <2>3. OwnNow = OwnObjects /\ OwnNow' = OwnObjects
    BY <2>1 DEF OwnNow
  <2>. QED
    BY <2>1, <2>2, <2>3 DEF LiveAccounted
<1>12. CASE DestinationHit
  <2>1. UNCHANGED <<sources, live>> /\ OwnNow' = OwnNow
    BY <1>12 DEF DestinationHit, driver, OwnNow
  <2>2. Cached' = Cached
    BY <1>12, <2>1, DestinationHitStep, CachedUnchanged DEF Shape
  <2>. QED
    BY <2>1, <2>2 DEF LiveAccounted
<1>13. CASE DestinationMiss
  <2>1. PICK out \in SUBSET DOMAIN destinations :
                 /\ DOMAIN destinations' = (DOMAIN destinations \ out) \cup {Id(cur.dst)}
                 /\ \A i \in DOMAIN destinations \ out : i # Id(cur.dst) /\ destinations'[i] = destinations[i]
                 /\ destinations'[Id(cur.dst)] = NewDestination /\ UNCHANGED sources
                 /\ live' = live \ ObjectsOf(destinations, out)
                 /\ pc \in {"source", "destination"}
                 /\ pc' \in {"importSource", "importDestination"}
    BY <1>13, DestinationMissStep DEF Shape
  <2>2. destinations'[Id(cur.dst)].made = {}
    BY <2>1 DEF NewDestination
  <2>3. /\ Cached' = Cached \ ObjectsOf(destinations, out)
        /\ OwnObjects \cap ObjectsOf(destinations, out) = {}
    BY <2>1, <2>2, DestinationsGone
  <2>4. OwnNow = OwnObjects /\ OwnNow' = OwnObjects
    BY <2>1 DEF OwnNow
  <2>. QED
    BY <2>1, <2>3, <2>4 DEF LiveAccounted
<1>14. CASE ImportDestination
  <2>1. PICK h : DestinationImported(h)
    BY <1>14, ImportDestinationStep DEF Shape
  <2>2. live' = live \cup Created(h, DestinationSteps[step], DestinationKinds)
    BY <2>1 DEF DestinationImported
  <2>3. Cached' = Cached \cup Created(h, DestinationSteps[step], DestinationKinds)
    BY <2>1, DestinationsGrow
  <2>4. OwnNow' = OwnNow
    BY <1>14 DEF ImportDestination, OwnNow
  <2>. QED
    BY <2>2, <2>3, <2>4 DEF LiveAccounted
<1>15. CASE ImportDestinationFails
  <2>1. UNCHANGED <<sources, destinations, live>> /\ OwnNow' = OwnNow
    BY <1>15 DEF ImportDestinationFails, Faulty, FdsClosed, cache, driver, OwnNow
  <2>2. Cached' = Cached
    BY <2>1 DEF Cached
  <2>. QED
    BY <2>1, <2>2 DEF LiveAccounted
<1>16. CASE DropDestination
  <2>1. /\ Id(cur.dst) \in DOMAIN destinations /\ DOMAIN destinations' = DOMAIN destinations \ {Id(cur.dst)}
        /\ \A i \in DOMAIN destinations \ {Id(cur.dst)} : destinations'[i] = destinations[i]
        /\ live' = live \ ObjectsOf(destinations, {Id(cur.dst)}) /\ UNCHANGED sources
        /\ pc \in {"dropSource", "dropDestination"} /\ pc' = "ready"
    BY <1>16, DropDestinationStep DEF Shape
  <2>2. /\ Cached' = Cached \ ObjectsOf(destinations, {Id(cur.dst)})
        /\ OwnObjects \cap ObjectsOf(destinations, {Id(cur.dst)}) = {}
    BY <2>1, DestinationsGone
  <2>3. OwnNow = OwnObjects /\ OwnNow' = OwnObjects
    BY <2>1 DEF OwnNow
  <2>. QED
    BY <2>1, <2>2, <2>3 DEF LiveAccounted
<1>17. CASE BindSource
  <2>1. UNCHANGED <<sources, live>> /\ OwnNow' = OwnNow
    BY <1>17 DEF BindSource, driver, OwnNow
  <2>2. Cached' = Cached
    BY <1>17, <2>1, BindSourceStep, CachedUnchanged DEF Shape
  <2>. QED
    BY <2>1, <2>2 DEF LiveAccounted
<1>18. CASE Dispatch
  <2>1. UNCHANGED <<sources, destinations, live>> /\ OwnNow' = OwnNow
    BY <1>18 DEF Dispatch, cache, driver, history, OwnNow
  <2>2. Cached' = Cached
    BY <2>1 DEF Cached
  <2>. QED
    BY <2>1, <2>2 DEF LiveAccounted
<1>19. CASE DispatchFails
  <2>1. UNCHANGED <<sources, destinations, live>> /\ OwnNow' = OwnNow
    BY <1>19 DEF DispatchFails, Faulty, ConvertFails, cache, driver, OwnNow
  <2>2. Cached' = Cached
    BY <2>1 DEF Cached
  <2>. QED
    BY <2>1, <2>2 DEF LiveAccounted
<1>20. CASE WaitForFence
  <2>1. UNCHANGED <<destinations, live>> /\ OwnNow' = OwnNow
    BY <1>20 DEF WaitForFence, driver, OwnNow
  <2>2. Cached' = Cached
    BY <1>20, <2>1, WaitForFenceStep, CachedUnchanged DEF Shape
  <2>. QED
    BY <2>1, <2>2 DEF LiveAccounted
<1>21. CASE WaitFails
  <2>1. UNCHANGED <<sources, destinations, live>> /\ OwnNow' = OwnNow
    BY <1>21 DEF WaitFails, Faulty, ConvertFails, GpuRuns, cache, OwnNow
  <2>2. Cached' = Cached
    BY <2>1 DEF Cached
  <2>. QED
    BY <2>1, <2>2 DEF LiveAccounted
<1>22. CASE UNCHANGED vars
  <2>1. UNCHANGED <<sources, destinations, live>> /\ OwnNow' = OwnNow
    BY <1>22 DEF vars, cache, driver, history, OwnNow
  <2>2. Cached' = Cached
    BY <2>1 DEF Cached
  <2>. QED
    BY <2>1, <2>2 DEF LiveAccounted
<1>. QED
  BY <1>1, <1>2, <1>3, <1>4, <1>5, <1>6, <1>7, <1>8, <1>9, <1>10, <1>11, <1>12, <1>13, <1>14,
     <1>15, <1>16, <1>17, <1>18, <1>19, <1>20, <1>21, <1>22
     DEF Next

-----------------------------------------------------------------------------
(* What the entries say of the driver.                                     *)

\* The driver's state of a handle is left alone.
KeptAt(h) == object'[h] = object[h] /\ bound'[h] = bound[h] /\ layoutOf'[h] = layoutOf[h]

\* Destroying some sources leaves every other entry's objects alone.
LEMMA SourcesKept ==
    ASSUME Shape, HandlesApart, NEW out \in SUBSET DOMAIN sources, OthersKept(sources, out)
    PROVE  /\ \A i \in DOMAIN sources \ out :
                  sources[i].handle # NoHandle => KeptAt(sources[i].handle)
           /\ \A d \in DOMAIN destinations :
                  destinations[d].handle # NoHandle => KeptAt(destinations[d].handle)
<1>1. ASSUME NEW i \in DOMAIN sources \ out, sources[i].handle # NoHandle
      PROVE  KeptAt(sources[i].handle)
  <2>1. sources[i].handle \in Handles
    BY <1>1, HandlesKnown DEF Shape, Handles
  <2>2. \A j \in out : sources[j].handle # sources[i].handle
    BY <1>1 DEF HandlesApart, Apart
  <2>. QED
    BY <2>1, <2>2 DEF OthersKept, KeptAt
<1>2. ASSUME NEW d \in DOMAIN destinations, destinations[d].handle # NoHandle
      PROVE  KeptAt(destinations[d].handle)
  <2>1. destinations[d].handle \in DestinationHandles
    BY <1>2, HandlesKnown DEF Shape
  <2>2. \A j \in out : sources[j].handle # destinations[d].handle
    BY <1>2, <2>1, HandlesKnown DEF Shape
  <2>. QED
    BY <2>1, <2>2 DEF OthersKept, KeptAt, Handles
<1>. QED
  BY <1>1, <1>2

\* So does destroying some destinations.
LEMMA DestinationsKept ==
    ASSUME Shape, HandlesApart, NEW out \in SUBSET DOMAIN destinations,
           OthersKept(destinations, out)
    PROVE  /\ \A d \in DOMAIN destinations \ out :
                  destinations[d].handle # NoHandle => KeptAt(destinations[d].handle)
           /\ \A i \in DOMAIN sources :
                  sources[i].handle # NoHandle => KeptAt(sources[i].handle)
<1>1. ASSUME NEW d \in DOMAIN destinations \ out, destinations[d].handle # NoHandle
      PROVE  KeptAt(destinations[d].handle)
  <2>1. destinations[d].handle \in Handles
    BY <1>1, HandlesKnown DEF Shape, Handles
  <2>2. \A j \in out : destinations[j].handle # destinations[d].handle
    BY <1>1 DEF HandlesApart, Apart
  <2>. QED
    BY <2>1, <2>2 DEF OthersKept, KeptAt
<1>2. ASSUME NEW i \in DOMAIN sources, sources[i].handle # NoHandle
      PROVE  KeptAt(sources[i].handle)
  <2>1. sources[i].handle \in SourceHandles
    BY <1>2, HandlesKnown DEF Shape
  <2>2. \A j \in out : destinations[j].handle # sources[i].handle
    BY <1>2, <2>1, HandlesKnown DEF Shape
  <2>. QED
    BY <2>1, <2>2 DEF OthersKept, KeptAt, Handles
<1>. QED
  BY <1>1, <1>2

\* While no import is in progress every entry has a handle.
LEMMA AllHaveHandles ==
    ASSUME Shape
    PROVE  /\ ~SourceOpen => \A i \in DOMAIN sources : sources[i].handle # NoHandle
           /\ ~DestinationOpen => \A d \in DOMAIN destinations : destinations[d].handle # NoHandle
           /\ \A i \in DOMAIN sources : i # Id(cur.src) => sources[i].handle # NoHandle
           /\ \A d \in DOMAIN destinations :
                  d # Id(cur.dst) => destinations[d].handle # NoHandle
BY DEF Shape, SourceParts, DestinationParts

\* Every step leaves an import with the buffer of its entry.
LEMMA ImportsReferStep ==
    ASSUME Shape, LiveAccounted, HandlesApart, ImportsRefer, [Next]_vars
    PROVE  ImportsRefer'
<1>1. CASE Initialize
  <2>1. UNCHANGED <<sources, destinations, object>>
    BY <1>1 DEF Initialize, cache, driver, history
  <2>. QED
    BY <2>1 DEF ImportsRefer
<1>2. CASE InitializeStep
  <2>1. UNCHANGED <<sources, destinations, object>>
    BY <1>2 DEF InitializeStep, cache, history
  <2>. QED
    BY <2>1 DEF ImportsRefer
<1>3. CASE InitializeFails
  <2>1. DOMAIN sources' = {} /\ DOMAIN destinations' = {}
    BY <1>3 DEF InitializeFails, DoReset
  <2>. QED
    BY <2>1 DEF ImportsRefer
<1>4. CASE Reset
  <2>1. DOMAIN sources' = {} /\ DOMAIN destinations' = {}
    BY <1>4 DEF Reset, DoReset
  <2>. QED
    BY <2>1 DEF ImportsRefer
<1>5. CASE \E b \in SourceBuffers, d \in DestinationBuffers : Convert(b, d)
  <2>1. UNCHANGED <<sources, destinations, object>>
    BY <1>5 DEF Convert, cache, driver
  <2>. QED
    BY <2>1 DEF ImportsRefer
<1>6. CASE ConvertRejects
  <2>1. UNCHANGED <<sources, destinations, object>>
    BY <1>6 DEF ConvertRejects, Faulty, ConvertFails, cache, driver
  <2>. QED
    BY <2>1 DEF ImportsRefer
<1>7. CASE SourceHit
  <2>1. UNCHANGED <<destinations, object>>
    BY <1>7 DEF SourceHit, driver
  <2>. QED
    <3>1. /\ DOMAIN sources' = DOMAIN sources
          /\ \A i \in DOMAIN sources : /\ sources'[i].handle = sources[i].handle
                                       /\ sources'[i].made = sources[i].made
                                       /\ sources'[i].sig = sources[i].sig
      BY <1>7, SourceHitStep DEF Shape
    <3>. QED
      BY <2>1, <3>1 DEF ImportsRefer
<1>8. CASE SourceMiss
  <2>1. PICK out \in SUBSET DOMAIN sources :
                 /\ DOMAIN sources' = (DOMAIN sources \ out) \cup {Id(cur.src)}
                 /\ \A i \in DOMAIN sources \ out : i # Id(cur.src) /\ sources'[i] = sources[i]
                 /\ sources'[Id(cur.src)] = NewSource /\ UNCHANGED destinations
                 /\ OthersKept(sources, out) /\ pc \in {"source", "destination"}
    BY <1>8, SourceMissStep DEF Shape
  <2>2. sources'[Id(cur.src)].made = {}
    BY <2>1 DEF NewSource
  <2>3. ~SourceOpen /\ ~DestinationOpen
    BY <2>1 DEF SourceOpen, DestinationOpen
  <2>4. /\ \A i \in DOMAIN sources \ out : KeptAt(sources[i].handle)
        /\ \A i \in DOMAIN destinations : KeptAt(destinations[i].handle)
    BY <2>1, <2>3, AllHaveHandles, SourcesKept
  <2>8. ASSUME NEW i \in DOMAIN sources', "memory" \in sources'[i].made
        PROVE  object'[sources'[i].handle].buffer = <<i, sources'[i].sig>>
    <3>1. i \in DOMAIN sources \ out /\ sources'[i] = sources[i]
      BY <2>1, <2>2, <2>8
    <3>2. object'[sources[i].handle] = object[sources[i].handle]
      BY <2>4, <3>1 DEF KeptAt
    <3>. QED
      BY <2>8, <3>1, <3>2 DEF ImportsRefer
  <2>9. \A i \in DOMAIN destinations' : "memory" \in destinations'[i].made =>
            object'[destinations'[i].handle].buffer = <<i, destinations'[i].sig>>
    BY <2>1, <2>2, <2>4 DEF ImportsRefer, KeptAt
  <2>. QED
    BY <2>8, <2>9 DEF ImportsRefer
<1>9. CASE ImportSource
  <2>. DEFINE id == Id(cur.src)
  <2>1. PICK h : SourceImported(h)
    BY <1>9, ImportSourceStep DEF Shape
  <2>2. /\ h \in Handles /\ \A i \in DOMAIN sources : i # id => sources[i].handle # h
        /\ \A i \in DOMAIN destinations : destinations[i].handle # h
    BY <2>1, SourceImportApart
  <2>3. /\ DOMAIN sources' = DOMAIN sources /\ sources'[id].handle = h /\ UNCHANGED destinations
        /\ sources'[id].sig = sources[id].sig
        /\ \A i \in DOMAIN sources : i # id => sources'[i] = sources[i]
        /\ id \in DOMAIN sources /\ pc = "importSource"
    BY <2>1 DEF SourceImported
  <2>4. \A g \in Handles : g # h => object'[g] = object[g]
    BY <2>1, <2>2 DEF SourceImported, Shape, DriverTypes
  <2>5. \A i \in DOMAIN sources : i # id => sources[i].handle \in Handles
    BY HandlesKnown DEF Shape, Handles
  <2>6. \A i \in DOMAIN destinations : destinations[i].handle \in Handles
    BY <2>3, HandlesKnown DEF Shape, Handles, SourceOpen, DestinationOpen
  <2>7. ASSUME "memory" \in sources'[id].made
        PROVE  object'[h].buffer = <<id, sources[id].sig>>
    <3>1. step \in Nat \ {0} /\ sources'[id].made = MadeBy(SourceSteps, step + 1, SourceKinds)
      BY <2>1 DEF SourceImported
    <3>2. step + 1 > 4
      BY <2>7, <3>1, MadeSoFar
    <3>3. CASE step = 4
      <4>1. object' = [object EXCEPT ![h] = [buffer |-> cur.src, serial |-> serial + 1,
                                             handle |-> h]]
        BY <2>1, <3>3 DEF SourceImported
      <4>2. object'[h].buffer = cur.src
        BY <2>2, <4>1 DEF Shape, DriverTypes
      <4>3. cur.src \in SourceBuffers /\ sources[id].sig = Sig(cur.src)
        BY <2>3 DEF Shape, InCall, Converting, SourceFound, SourceOpen, DestinationFound,
                    DestinationOpen, Source, Destination
      <4>4. cur.src = <<cur.src[1], cur.src[2]>>
        BY <4>3, BufferAssumption
      <4>. QED
        BY <4>2, <4>3, <4>4 DEF Id, Sig
    <3>4. CASE step # 4
      <4>1. step > 4 /\ object' = object /\ h = sources[id].handle
        BY <2>1, <3>1, <3>2, <3>4 DEF SourceImported
      <4>2. "memory" \in sources[id].made
        <5>1. sources[id].made = MadeBy(SourceSteps, step, SourceKinds)
          BY <2>3 DEF Shape, SourceParts, SourceOpen
        <5>2. 4 \in 1 .. step - 1
          BY <3>1, <4>1
        <5>. QED
          BY <5>1, <5>2, StepLists DEF MadeBy, SourceKinds
      <4>. QED
        BY <2>3, <4>1, <4>2 DEF ImportsRefer
    <3>. QED
      BY <3>3, <3>4
  <2>8. \A i \in DOMAIN sources' : "memory" \in sources'[i].made =>
            object'[sources'[i].handle].buffer = <<i, sources'[i].sig>>
    BY <2>2, <2>3, <2>4, <2>5, <2>7 DEF ImportsRefer
  <2>9. \A i \in DOMAIN destinations' : "memory" \in destinations'[i].made =>
            object'[destinations'[i].handle].buffer = <<i, destinations'[i].sig>>
    BY <2>2, <2>3, <2>4, <2>6 DEF ImportsRefer
  <2>. QED
    BY <2>8, <2>9 DEF ImportsRefer
<1>10. CASE ImportSourceFails
  <2>1. UNCHANGED <<sources, destinations, object>>
    BY <1>10 DEF ImportSourceFails, Faulty, FdsClosed, cache, driver
  <2>. QED
    BY <2>1 DEF ImportsRefer
<1>11. CASE DropSource
  <2>1. /\ DOMAIN sources' = DOMAIN sources \ {Id(cur.src)} /\ UNCHANGED destinations
        /\ \A i \in DOMAIN sources \ {Id(cur.src)} : sources'[i] = sources[i]
        /\ OthersKept(sources, {Id(cur.src)}) /\ Id(cur.src) \in DOMAIN sources
        /\ pc = "dropSource"
    BY <1>11, DropSourceStep DEF Shape
  <2>2. ~DestinationOpen
    BY <2>1 DEF DestinationOpen
  <2>3. /\ \A i \in DOMAIN sources \ {Id(cur.src)} : KeptAt(sources[i].handle)
        /\ \A i \in DOMAIN destinations : KeptAt(destinations[i].handle)
    BY <2>1, <2>2, AllHaveHandles, SourcesKept
  <2>8. ASSUME NEW i \in DOMAIN sources', "memory" \in sources'[i].made
        PROVE  object'[sources'[i].handle].buffer = <<i, sources'[i].sig>>
    <3>1. i \in DOMAIN sources \ {Id(cur.src)} /\ sources'[i] = sources[i]
      BY <2>1, <2>8
    <3>2. object'[sources[i].handle] = object[sources[i].handle]
      BY <2>3, <3>1 DEF KeptAt
    <3>. QED
      BY <2>8, <3>1, <3>2 DEF ImportsRefer
  <2>9. \A i \in DOMAIN destinations' : "memory" \in destinations'[i].made =>
            object'[destinations'[i].handle].buffer = <<i, destinations'[i].sig>>
    BY <2>1, <2>3 DEF ImportsRefer, KeptAt
  <2>. QED
    BY <2>8, <2>9 DEF ImportsRefer
<1>12. CASE DestinationHit
  <2>1. UNCHANGED <<sources, object>>
    BY <1>12 DEF DestinationHit, driver
  <2>. QED
    <3>1. /\ DOMAIN destinations' = DOMAIN destinations
          /\ \A d \in DOMAIN destinations : /\ destinations'[d].handle = destinations[d].handle
                                            /\ destinations'[d].made = destinations[d].made
                                            /\ destinations'[d].sig = destinations[d].sig
      BY <1>12, DestinationHitStep DEF Shape
    <3>. QED
      BY <2>1, <3>1 DEF ImportsRefer
<1>13. CASE DestinationMiss
  <2>1. PICK out \in SUBSET DOMAIN destinations :
                 /\ DOMAIN destinations' = (DOMAIN destinations \ out) \cup {Id(cur.dst)}
                 /\ \A i \in DOMAIN destinations \ out : i # Id(cur.dst) /\ destinations'[i] = destinations[i]
                 /\ destinations'[Id(cur.dst)] = NewDestination /\ UNCHANGED sources
                 /\ OthersKept(destinations, out) /\ pc \in {"source", "destination"}
    BY <1>13, DestinationMissStep DEF Shape
  <2>2. destinations'[Id(cur.dst)].made = {}
    BY <2>1 DEF NewDestination
  <2>3. ~SourceOpen /\ ~DestinationOpen
    BY <2>1 DEF SourceOpen, DestinationOpen
  <2>4. /\ \A i \in DOMAIN destinations \ out : KeptAt(destinations[i].handle)
        /\ \A i \in DOMAIN sources : KeptAt(sources[i].handle)
    BY <2>1, <2>3, AllHaveHandles, DestinationsKept
  <2>8. ASSUME NEW i \in DOMAIN destinations', "memory" \in destinations'[i].made
        PROVE  object'[destinations'[i].handle].buffer = <<i, destinations'[i].sig>>
    <3>1. i \in DOMAIN destinations \ out /\ destinations'[i] = destinations[i]
      BY <2>1, <2>2, <2>8
    <3>2. object'[destinations[i].handle] = object[destinations[i].handle]
      BY <2>4, <3>1 DEF KeptAt
    <3>. QED
      BY <2>8, <3>1, <3>2 DEF ImportsRefer
  <2>9. \A i \in DOMAIN sources' : "memory" \in sources'[i].made =>
            object'[sources'[i].handle].buffer = <<i, sources'[i].sig>>
    BY <2>1, <2>2, <2>4 DEF ImportsRefer, KeptAt
  <2>. QED
    BY <2>8, <2>9 DEF ImportsRefer
<1>14. CASE ImportDestination
  <2>. DEFINE id == Id(cur.dst)
  <2>1. PICK h : DestinationImported(h)
    BY <1>14, ImportDestinationStep DEF Shape
  <2>2. /\ h \in Handles /\ \A i \in DOMAIN destinations : i # id => destinations[i].handle # h
        /\ \A i \in DOMAIN sources : sources[i].handle # h
    BY <2>1, DestinationImportApart
  <2>3. /\ DOMAIN destinations' = DOMAIN destinations /\ destinations'[id].handle = h /\ UNCHANGED sources
        /\ destinations'[id].sig = destinations[id].sig
        /\ \A i \in DOMAIN destinations : i # id => destinations'[i] = destinations[i]
        /\ id \in DOMAIN destinations /\ pc = "importDestination"
    BY <2>1 DEF DestinationImported
  <2>4. \A g \in Handles : g # h => object'[g] = object[g]
    BY <2>1, <2>2 DEF DestinationImported, Shape, DriverTypes
  <2>5. \A i \in DOMAIN destinations : i # id => destinations[i].handle \in Handles
    BY HandlesKnown DEF Shape, Handles
  <2>6. \A i \in DOMAIN sources : sources[i].handle \in Handles
    BY <2>3, HandlesKnown DEF Shape, Handles, SourceOpen, DestinationOpen
  <2>7. ASSUME "memory" \in destinations'[id].made
        PROVE  object'[h].buffer = <<id, destinations[id].sig>>
    <3>1. step \in Nat \ {0} /\ destinations'[id].made = MadeBy(DestinationSteps, step + 1, DestinationKinds)
      BY <2>1 DEF DestinationImported
    <3>2. step + 1 > 4
      BY <2>7, <3>1, MadeSoFar
    <3>3. CASE step = 4
      <4>1. object' = [object EXCEPT ![h] = [buffer |-> cur.dst, serial |-> serial + 1,
                                             handle |-> h]]
        BY <2>1, <3>3 DEF DestinationImported
      <4>2. object'[h].buffer = cur.dst
        BY <2>2, <4>1 DEF Shape, DriverTypes
      <4>3. cur.dst \in DestinationBuffers /\ destinations[id].sig = Sig(cur.dst)
        BY <2>3 DEF Shape, InCall, Converting, SourceFound, SourceOpen, DestinationFound,
                    DestinationOpen, Source, Destination
      <4>4. cur.dst = <<cur.dst[1], cur.dst[2]>>
        BY <4>3, BufferAssumption
      <4>. QED
        BY <4>2, <4>3, <4>4 DEF Id, Sig
    <3>4. CASE step # 4
      <4>1. step > 4 /\ object' = object /\ h = destinations[id].handle
        BY <2>1, <3>1, <3>2, <3>4 DEF DestinationImported
      <4>2. "memory" \in destinations[id].made
        <5>1. destinations[id].made = MadeBy(DestinationSteps, step, DestinationKinds)
          BY <2>3 DEF Shape, DestinationParts, DestinationOpen
        <5>2. 4 \in 1 .. step - 1
          BY <3>1, <4>1
        <5>. QED
          BY <5>1, <5>2, StepLists DEF MadeBy, DestinationKinds
      <4>. QED
        BY <2>3, <4>1, <4>2 DEF ImportsRefer
    <3>. QED
      BY <3>3, <3>4
  <2>8. \A i \in DOMAIN destinations' : "memory" \in destinations'[i].made =>
            object'[destinations'[i].handle].buffer = <<i, destinations'[i].sig>>
    BY <2>2, <2>3, <2>4, <2>5, <2>7 DEF ImportsRefer
  <2>9. \A i \in DOMAIN sources' : "memory" \in sources'[i].made =>
            object'[sources'[i].handle].buffer = <<i, sources'[i].sig>>
    BY <2>2, <2>3, <2>4, <2>6 DEF ImportsRefer
  <2>. QED
    BY <2>8, <2>9 DEF ImportsRefer
<1>15. CASE ImportDestinationFails
  <2>1. UNCHANGED <<sources, destinations, object>>
    BY <1>15 DEF ImportDestinationFails, Faulty, FdsClosed, cache, driver
  <2>. QED
    BY <2>1 DEF ImportsRefer
<1>16. CASE DropDestination
  <2>1. /\ DOMAIN destinations' = DOMAIN destinations \ {Id(cur.dst)} /\ UNCHANGED sources
        /\ \A i \in DOMAIN destinations \ {Id(cur.dst)} : destinations'[i] = destinations[i]
        /\ OthersKept(destinations, {Id(cur.dst)}) /\ Id(cur.dst) \in DOMAIN destinations
        /\ pc = "dropDestination"
    BY <1>16, DropDestinationStep DEF Shape
  <2>2. ~SourceOpen
    BY <2>1 DEF SourceOpen
  <2>3. /\ \A i \in DOMAIN destinations \ {Id(cur.dst)} : KeptAt(destinations[i].handle)
        /\ \A i \in DOMAIN sources : KeptAt(sources[i].handle)
    BY <2>1, <2>2, AllHaveHandles, DestinationsKept
  <2>8. ASSUME NEW i \in DOMAIN destinations', "memory" \in destinations'[i].made
        PROVE  object'[destinations'[i].handle].buffer = <<i, destinations'[i].sig>>
    <3>1. i \in DOMAIN destinations \ {Id(cur.dst)} /\ destinations'[i] = destinations[i]
      BY <2>1, <2>8
    <3>2. object'[destinations[i].handle] = object[destinations[i].handle]
      BY <2>3, <3>1 DEF KeptAt
    <3>. QED
      BY <2>8, <3>1, <3>2 DEF ImportsRefer
  <2>9. \A i \in DOMAIN sources' : "memory" \in sources'[i].made =>
            object'[sources'[i].handle].buffer = <<i, sources'[i].sig>>
    BY <2>1, <2>3 DEF ImportsRefer, KeptAt
  <2>. QED
    BY <2>8, <2>9 DEF ImportsRefer
<1>17. CASE BindSource
  <2>1. UNCHANGED <<sources, object>>
    BY <1>17 DEF BindSource, driver
  <2>. QED
    <3>1. /\ DOMAIN destinations' = DOMAIN destinations
          /\ \A d \in DOMAIN destinations : /\ destinations'[d].handle = destinations[d].handle
                                            /\ destinations'[d].made = destinations[d].made
                                            /\ destinations'[d].sig = destinations[d].sig
      BY <1>17, BindSourceStep DEF Shape
    <3>. QED
      BY <2>1, <3>1 DEF ImportsRefer
<1>18. CASE Dispatch
  <2>1. UNCHANGED <<sources, destinations, object>>
    BY <1>18 DEF Dispatch, cache, driver, history
  <2>. QED
    BY <2>1 DEF ImportsRefer
<1>19. CASE DispatchFails
  <2>1. UNCHANGED <<sources, destinations, object>>
    BY <1>19 DEF DispatchFails, Faulty, ConvertFails, cache, driver
  <2>. QED
    BY <2>1 DEF ImportsRefer
<1>20. CASE WaitForFence
  <2>1. UNCHANGED <<destinations, object>>
    BY <1>20 DEF WaitForFence, driver
  <2>. QED
    BY <1>20, <2>1, WaitForFenceStep DEF Shape, ImportsRefer
<1>21. CASE WaitFails
  <2>1. UNCHANGED <<sources, destinations, object>>
    BY <1>21 DEF WaitFails, Faulty, ConvertFails, GpuRuns, cache
  <2>. QED
    BY <2>1 DEF ImportsRefer
<1>22. CASE UNCHANGED vars
  <2>1. UNCHANGED <<sources, destinations, object>>
    BY <1>22 DEF vars, cache, driver, history
  <2>. QED
    BY <2>1 DEF ImportsRefer
<1>. QED
  BY <1>1, <1>2, <1>3, <1>4, <1>5, <1>6, <1>7, <1>8, <1>9, <1>10, <1>11, <1>12, <1>13, <1>14,
     <1>15, <1>16, <1>17, <1>18, <1>19, <1>20, <1>21, <1>22
     DEF Next

\* Every step leaves the sources with generations of their own.
LEMMA GenerationsApartStep ==
    ASSUME Shape, GenerationsApart, [Next]_vars
    PROVE  GenerationsApart'
<1>1. CASE Initialize
  <2>1. UNCHANGED <<sources, destinations, counter>>
    BY <1>1 DEF Initialize, cache, driver, history
  <2>. QED
    BY <2>1 DEF GenerationsApart
<1>2. CASE InitializeStep
  <2>1. UNCHANGED <<sources, destinations, counter>>
    BY <1>2 DEF InitializeStep, cache, history
  <2>. QED
    BY <2>1 DEF GenerationsApart
<1>3. CASE InitializeFails
  <2>1. DOMAIN sources' = {} /\ DOMAIN destinations' = {}
    BY <1>3 DEF InitializeFails, DoReset
  <2>. QED
    BY <2>1 DEF GenerationsApart
<1>4. CASE Reset
  <2>1. DOMAIN sources' = {} /\ DOMAIN destinations' = {}
    BY <1>4 DEF Reset, DoReset
  <2>. QED
    BY <2>1 DEF GenerationsApart
<1>5. CASE \E b \in SourceBuffers, d \in DestinationBuffers : Convert(b, d)
  <2>1. UNCHANGED <<sources, destinations, counter>>
    BY <1>5 DEF Convert, cache, driver
  <2>. QED
    BY <2>1 DEF GenerationsApart
<1>6. CASE ConvertRejects
  <2>1. UNCHANGED <<sources, destinations, counter>>
    BY <1>6 DEF ConvertRejects, Faulty, ConvertFails, cache, driver
  <2>. QED
    BY <2>1 DEF GenerationsApart
<1>7. CASE SourceHit
  <2>1. UNCHANGED destinations /\ counter' = counter + 1
    BY <1>7 DEF SourceHit
  <2>. QED
    BY <1>7, <2>1, SourceHitStep DEF Shape, CacheTypes, DestinationEntries, GenerationsApart
<1>8. CASE SourceMiss
  <2>1. PICK out \in SUBSET DOMAIN sources :
                 /\ DOMAIN sources' = (DOMAIN sources \ out) \cup {Id(cur.src)}
                 /\ \A i \in DOMAIN sources \ out : i # Id(cur.src) /\ sources'[i] = sources[i]
                 /\ sources'[Id(cur.src)] = NewSource /\ UNCHANGED destinations /\ counter' = counter + 1
    BY <1>8, SourceMissStep DEF Shape
  <2>2. sources'[Id(cur.src)].generation = counter + 1
    BY <2>1 DEF NewSource
  <2>3. /\ counter \in Nat
        /\ \A d \in DOMAIN destinations : destinations[d].source_generation \in Nat
    BY DEF Shape, CacheTypes, DestinationEntries
  <2>. QED
    BY <2>1, <2>2, <2>3 DEF GenerationsApart
<1>9. CASE ImportSource
  <2>1. PICK h : SourceImported(h)
    BY <1>9, ImportSourceStep DEF Shape
  <2>2. /\ DOMAIN sources' = DOMAIN sources /\ UNCHANGED <<destinations, counter>>
        /\ \A i \in DOMAIN sources : sources'[i].generation = sources[i].generation
    BY <2>1 DEF SourceImported
  <2>. QED
    BY <2>2 DEF GenerationsApart
<1>10. CASE ImportSourceFails
  <2>1. UNCHANGED <<sources, destinations, counter>>
    BY <1>10 DEF ImportSourceFails, Faulty, FdsClosed, cache, driver
  <2>. QED
    BY <2>1 DEF GenerationsApart
<1>11. CASE DropSource
  <2>1. /\ DOMAIN sources' = DOMAIN sources \ {Id(cur.src)} /\ UNCHANGED <<destinations, counter>>
        /\ \A i \in DOMAIN sources \ {Id(cur.src)} : sources'[i] = sources[i]
    BY <1>11, DropSourceStep DEF Shape
  <2>. QED
    BY <2>1 DEF GenerationsApart
<1>12. CASE DestinationHit
  <2>1. UNCHANGED sources /\ counter' = counter + 1
    BY <1>12 DEF DestinationHit
  <2>. QED
    BY <1>12, <2>1, DestinationHitStep DEF Shape, CacheTypes, DestinationEntries, GenerationsApart
<1>13. CASE DestinationMiss
  <2>1. PICK out \in SUBSET DOMAIN destinations :
                 /\ DOMAIN destinations' = (DOMAIN destinations \ out) \cup {Id(cur.dst)}
                 /\ \A i \in DOMAIN destinations \ out : i # Id(cur.dst) /\ destinations'[i] = destinations[i]
                 /\ destinations'[Id(cur.dst)] = NewDestination /\ UNCHANGED sources /\ counter' = counter + 1
    BY <1>13, DestinationMissStep DEF Shape
  <2>2. destinations'[Id(cur.dst)].source_generation = 0
    BY <2>1 DEF NewDestination
  <2>3. /\ counter \in Nat
        /\ \A d \in DOMAIN destinations : destinations[d].source_generation \in Nat
    BY DEF Shape, CacheTypes, DestinationEntries
  <2>. QED
    BY <2>1, <2>2, <2>3 DEF GenerationsApart
<1>14. CASE ImportDestination
  <2>1. PICK h : DestinationImported(h)
    BY <1>14, ImportDestinationStep DEF Shape
  <2>2. /\ DOMAIN destinations' = DOMAIN destinations /\ UNCHANGED <<sources, counter>>
        /\ \A i \in DOMAIN destinations : destinations'[i].source_generation = destinations[i].source_generation
    BY <2>1 DEF DestinationImported
  <2>. QED
    BY <2>2 DEF GenerationsApart
<1>15. CASE ImportDestinationFails
  <2>1. UNCHANGED <<sources, destinations, counter>>
    BY <1>15 DEF ImportDestinationFails, Faulty, FdsClosed, cache, driver
  <2>. QED
    BY <2>1 DEF GenerationsApart
<1>16. CASE DropDestination
  <2>1. /\ DOMAIN destinations' = DOMAIN destinations \ {Id(cur.dst)} /\ UNCHANGED <<sources, counter>>
        /\ \A i \in DOMAIN destinations \ {Id(cur.dst)} : destinations'[i] = destinations[i]
    BY <1>16, DropDestinationStep DEF Shape
  <2>. QED
    BY <2>1 DEF GenerationsApart
<1>17. CASE BindSource
  <2>1. UNCHANGED <<sources, counter, cur>>
    BY <1>17 DEF BindSource
  <2>2. Source.generation \in 1 .. counter /\ counter \in Nat
    BY <1>17, BindSourceStep DEF Shape, CacheTypes, GenerationsApart, Source
  <2>. QED
    BY <1>17, <2>1, <2>2, BindSourceStep DEF Shape, GenerationsApart, Destination
<1>18. CASE Dispatch
  <2>1. UNCHANGED <<sources, destinations, counter>>
    BY <1>18 DEF Dispatch, cache, driver, history
  <2>. QED
    BY <2>1 DEF GenerationsApart
<1>19. CASE DispatchFails
  <2>1. UNCHANGED <<sources, destinations, counter>>
    BY <1>19 DEF DispatchFails, Faulty, ConvertFails, cache, driver
  <2>. QED
    BY <2>1 DEF GenerationsApart
<1>20. CASE WaitForFence
  <2>1. UNCHANGED destinations /\ counter' = counter
    BY <1>20 DEF WaitForFence
  <2>. QED
    BY <1>20, <2>1, WaitForFenceStep DEF Shape, CacheTypes, DestinationEntries, GenerationsApart
<1>21. CASE WaitFails
  <2>1. UNCHANGED <<sources, destinations, counter>>
    BY <1>21 DEF WaitFails, Faulty, ConvertFails, GpuRuns, cache
  <2>. QED
    BY <2>1 DEF GenerationsApart
<1>22. CASE UNCHANGED vars
  <2>1. UNCHANGED <<sources, destinations, counter>>
    BY <1>22 DEF vars, cache, driver, history
  <2>. QED
    BY <2>1 DEF GenerationsApart
<1>. QED
  BY <1>1, <1>2, <1>3, <1>4, <1>5, <1>6, <1>7, <1>8, <1>9, <1>10, <1>11, <1>12, <1>13, <1>14,
     <1>15, <1>16, <1>17, <1>18, <1>19, <1>20, <1>21, <1>22
     DEF Next

\* Every step leaves the bindings that would not be rewritten current.
LEMMA BindingsCurrentStep ==
    ASSUME Shape, LiveAccounted, HandlesApart, GenerationsApart, BindingsCurrent, [Next]_vars
    PROVE  BindingsCurrent'
<1>1. CASE Initialize
  <2>1. /\ UNCHANGED <<sources, destinations, object, bound>>
        /\ SourceOpen' => SourceOpen /\ UNCHANGED cur
        /\ DestinationOpen' => DestinationOpen /\ UNCHANGED cur
    BY <1>1 DEF Initialize, cache, driver, history, SourceOpen, DestinationOpen
  <2>. QED
    BY <2>1 DEF BindingsCurrent
<1>2. CASE InitializeStep
  <2>1. /\ UNCHANGED <<sources, destinations, object, bound>>
        /\ SourceOpen' => SourceOpen /\ UNCHANGED cur
        /\ DestinationOpen' => DestinationOpen /\ UNCHANGED cur
    BY <1>2 DEF InitializeStep, cache, history, SourceOpen, DestinationOpen
  <2>. QED
    BY <2>1 DEF BindingsCurrent
<1>3. CASE InitializeFails
  <2>1. DOMAIN sources' = {} /\ DOMAIN destinations' = {}
    BY <1>3 DEF InitializeFails, DoReset
  <2>. QED
    BY <2>1 DEF BindingsCurrent
<1>4. CASE Reset
  <2>1. DOMAIN sources' = {} /\ DOMAIN destinations' = {}
    BY <1>4 DEF Reset, DoReset
  <2>. QED
    BY <2>1 DEF BindingsCurrent
<1>5. CASE \E b \in SourceBuffers, d \in DestinationBuffers : Convert(b, d)
  <2>1. /\ UNCHANGED <<sources, destinations, object, bound>>
        /\ SourceOpen' => SourceOpen /\ UNCHANGED cur
        /\ DestinationOpen' => DestinationOpen /\ UNCHANGED cur
    BY <1>5 DEF Convert, cache, driver, SourceOpen, DestinationOpen
  <2>. QED
    BY <2>1 DEF BindingsCurrent
<1>6. CASE ConvertRejects
  <2>1. /\ UNCHANGED <<sources, destinations, object, bound>>
        /\ SourceOpen' => SourceOpen /\ UNCHANGED cur
        /\ DestinationOpen' => DestinationOpen /\ UNCHANGED cur
    BY <1>6 DEF ConvertRejects, Faulty, ConvertFails, cache, driver, SourceOpen, DestinationOpen
  <2>. QED
    BY <2>1 DEF BindingsCurrent
<1>7. CASE SourceHit
  <2>1. UNCHANGED <<destinations, object, bound>> /\ ~SourceOpen' /\ ~DestinationOpen'
    BY <1>7 DEF SourceHit, driver, SourceOpen, DestinationOpen
  <2>. QED
    BY <1>7, <2>1, SourceHitStep DEF Shape, BindingsCurrent
<1>8. CASE SourceMiss
  <2>1. PICK out \in SUBSET DOMAIN sources :
                 /\ DOMAIN sources' = (DOMAIN sources \ out) \cup {Id(cur.src)}
                 /\ \A i \in DOMAIN sources \ out : i # Id(cur.src) /\ sources'[i] = sources[i]
                 /\ sources'[Id(cur.src)] = NewSource /\ UNCHANGED <<destinations, cur>>
                 /\ OthersKept(sources, out) /\ pc \in {"source", "destination"}
                 /\ pc' = "importSource"
    BY <1>8, SourceMissStep DEF Shape
  <2>2. sources'[Id(cur.src)].generation = counter + 1
    BY <2>1 DEF NewSource
  <2>3. ~SourceOpen /\ ~DestinationOpen /\ ~DestinationOpen'
    BY <2>1 DEF SourceOpen, DestinationOpen
  <2>4. /\ \A i \in DOMAIN sources \ out : KeptAt(sources[i].handle)
        /\ \A i \in DOMAIN destinations : KeptAt(destinations[i].handle)
    BY <2>1, <2>3, AllHaveHandles, SourcesKept
  <2>5. ASSUME NEW d \in DOMAIN destinations', NEW i \in DOMAIN sources',
               destinations'[d].source_generation = sources'[i].generation
        PROVE  /\ i \in DOMAIN sources \ out /\ i # Id(cur.src)
               /\ sources'[i] = sources[i] /\ destinations'[d] = destinations[d]
    <3>1. i # Id(cur.src)
      <4>1. counter \in Nat /\ \A e \in DOMAIN destinations : destinations[e].source_generation \in Nat
        BY DEF Shape, CacheTypes, DestinationEntries
      <4>. QED
        BY <2>1, <2>2, <2>5, <4>1 DEF GenerationsApart
    <3>. QED
      BY <2>1, <2>5, <3>1
  <2>6. ASSUME NEW d \in DOMAIN destinations', NEW i \in DOMAIN sources',
               destinations'[d].source_generation = sources'[i].generation
        PROVE  bound'[destinations'[d].handle] = object'[sources'[i].handle]
    <3>1. /\ i \in DOMAIN sources \ out /\ sources'[i] = sources[i]
          /\ destinations'[d] = destinations[d]
      BY <2>5, <2>6
    <3>2. bound[destinations[d].handle] = object[sources[i].handle]
      BY <2>1, <2>6, <3>1 DEF BindingsCurrent
    <3>. QED
      BY <2>1, <2>4, <3>1, <3>2 DEF KeptAt
  <2>. QED
    BY <2>1, <2>3, <2>5, <2>6 DEF BindingsCurrent
<1>9. CASE ImportSource
  <2>. DEFINE id == Id(cur.src)
  <2>1. PICK h : SourceImported(h)
    BY <1>9, ImportSourceStep DEF Shape
  <2>2. /\ h \in Handles /\ \A i \in DOMAIN sources : i # id => sources[i].handle # h
        /\ \A i \in DOMAIN destinations : destinations[i].handle # h
    BY <2>1, SourceImportApart
  <2>3. /\ DOMAIN sources' = DOMAIN sources /\ UNCHANGED <<destinations, cur>>
        /\ \A i \in DOMAIN sources : i # id => sources'[i] = sources[i]
        /\ sources'[id].generation = sources[id].generation
        /\ id \in DOMAIN sources /\ pc = "importSource"
    BY <2>1 DEF SourceImported
  <2>4. SourceOpen /\ ~DestinationOpen'
    BY <1>9, <2>3 DEF ImportSource, SourceOpen, DestinationOpen
  <2>5. \A g \in Handles : g # h => object'[g] = object[g] /\ bound'[g] = bound[g]
    BY <2>1, <2>2 DEF SourceImported, Shape, DriverTypes
  <2>6. /\ \A i \in DOMAIN sources : i # id => sources[i].handle \in Handles
        /\ \A i \in DOMAIN destinations : destinations[i].handle \in Handles
    BY <2>3, HandlesKnown DEF Shape, Handles, SourceOpen, DestinationOpen
  <2>7. ASSUME NEW d \in DOMAIN destinations', NEW i \in DOMAIN sources',
               destinations'[d].source_generation = sources'[i].generation
        PROVE  /\ i # id /\ bound'[destinations'[d].handle] = object'[sources'[i].handle]
    <3>1. d \in DOMAIN destinations /\ i \in DOMAIN sources
      BY <2>3, <2>7
    <3>2. destinations[d].source_generation = sources[i].generation
      BY <2>3, <2>7
    <3>3. i # id /\ bound[destinations[d].handle] = object[sources[i].handle]
      BY <2>4, <3>1, <3>2 DEF BindingsCurrent
    <3>4. destinations'[d] = destinations[d] /\ sources'[i] = sources[i]
      BY <2>3, <3>1, <3>3
    <3>. QED
      BY <2>2, <2>5, <2>6, <3>1, <3>3, <3>4
  <2>. QED
    BY <2>3, <2>4, <2>7 DEF BindingsCurrent
<1>10. CASE ImportSourceFails
  <2>1. /\ UNCHANGED <<sources, destinations, object, bound>>
        /\ SourceOpen' => SourceOpen /\ UNCHANGED cur
        /\ DestinationOpen' => DestinationOpen /\ UNCHANGED cur
    BY <1>10 DEF ImportSourceFails, Faulty, FdsClosed, cache, driver, SourceOpen, DestinationOpen
  <2>. QED
    BY <2>1 DEF BindingsCurrent
<1>11. CASE DropSource
  <2>1. /\ DOMAIN sources' = DOMAIN sources \ {Id(cur.src)} /\ UNCHANGED destinations
        /\ \A i \in DOMAIN sources \ {Id(cur.src)} : sources'[i] = sources[i]
        /\ OthersKept(sources, {Id(cur.src)}) /\ Id(cur.src) \in DOMAIN sources
        /\ pc = "dropSource" /\ pc' = "ready"
    BY <1>11, DropSourceStep DEF Shape
  <2>2. ~DestinationOpen /\ ~SourceOpen' /\ ~DestinationOpen'
    BY <2>1 DEF SourceOpen, DestinationOpen
  <2>3. /\ \A i \in DOMAIN sources \ {Id(cur.src)} : KeptAt(sources[i].handle)
        /\ \A i \in DOMAIN destinations : KeptAt(destinations[i].handle)
    BY <2>1, <2>2, AllHaveHandles, SourcesKept
  <2>. QED
    BY <2>1, <2>2, <2>3 DEF BindingsCurrent, KeptAt
<1>12. CASE DestinationHit
  <2>1. UNCHANGED <<sources, object, bound>> /\ ~SourceOpen' /\ ~DestinationOpen'
    BY <1>12 DEF DestinationHit, driver, SourceOpen, DestinationOpen
  <2>. QED
    BY <1>12, <2>1, DestinationHitStep DEF Shape, BindingsCurrent
<1>13. CASE DestinationMiss
  <2>1. PICK out \in SUBSET DOMAIN destinations :
                 /\ DOMAIN destinations' = (DOMAIN destinations \ out) \cup {Id(cur.dst)}
                 /\ \A i \in DOMAIN destinations \ out : i # Id(cur.dst) /\ destinations'[i] = destinations[i]
                 /\ destinations'[Id(cur.dst)] = NewDestination /\ UNCHANGED <<sources, cur>>
                 /\ OthersKept(destinations, out) /\ pc \in {"source", "destination"}
                 /\ pc' = "importDestination"
    BY <1>13, DestinationMissStep DEF Shape
  <2>2. destinations'[Id(cur.dst)].source_generation = 0
    BY <2>1 DEF NewDestination
  <2>3. ~SourceOpen /\ ~DestinationOpen /\ ~SourceOpen'
    BY <2>1 DEF SourceOpen, DestinationOpen
  <2>4. /\ \A i \in DOMAIN destinations \ out : KeptAt(destinations[i].handle)
        /\ \A i \in DOMAIN sources : KeptAt(sources[i].handle)
    BY <2>1, <2>3, AllHaveHandles, DestinationsKept
  <2>5. ASSUME NEW d \in DOMAIN destinations', NEW i \in DOMAIN sources',
               destinations'[d].source_generation = sources'[i].generation
        PROVE  /\ d \in DOMAIN destinations \ out /\ d # Id(cur.dst)
               /\ sources'[i] = sources[i] /\ destinations'[d] = destinations[d]
    <3>1. d # Id(cur.dst)
      <4>1. counter \in Nat /\ \A e \in DOMAIN destinations : destinations[e].source_generation \in Nat
        BY DEF Shape, CacheTypes, DestinationEntries
      <4>. QED
        BY <2>1, <2>2, <2>5, <4>1 DEF GenerationsApart
    <3>. QED
      BY <2>1, <2>5, <3>1
  <2>6. ASSUME NEW d \in DOMAIN destinations', NEW i \in DOMAIN sources',
               destinations'[d].source_generation = sources'[i].generation
        PROVE  bound'[destinations'[d].handle] = object'[sources'[i].handle]
    <3>1. /\ d \in DOMAIN destinations \ out /\ sources'[i] = sources[i]
          /\ destinations'[d] = destinations[d]
      BY <2>5, <2>6
    <3>2. bound[destinations[d].handle] = object[sources[i].handle]
      BY <2>1, <2>6, <3>1 DEF BindingsCurrent
    <3>. QED
      BY <2>1, <2>4, <3>1, <3>2 DEF KeptAt
  <2>. QED
    BY <2>1, <2>3, <2>5, <2>6 DEF BindingsCurrent
<1>14. CASE ImportDestination
  <2>. DEFINE id == Id(cur.dst)
  <2>1. PICK h : DestinationImported(h)
    BY <1>14, ImportDestinationStep DEF Shape
  <2>2. /\ h \in Handles /\ \A i \in DOMAIN destinations : i # id => destinations[i].handle # h
        /\ \A i \in DOMAIN sources : sources[i].handle # h
    BY <2>1, DestinationImportApart
  <2>3. /\ DOMAIN destinations' = DOMAIN destinations /\ UNCHANGED <<sources, cur>>
        /\ \A i \in DOMAIN destinations : i # id => destinations'[i] = destinations[i]
        /\ destinations'[id].source_generation = destinations[id].source_generation
        /\ id \in DOMAIN destinations /\ pc = "importDestination"
    BY <2>1 DEF DestinationImported
  <2>4. DestinationOpen /\ ~SourceOpen'
    BY <1>14, <2>3 DEF ImportDestination, SourceOpen, DestinationOpen
  <2>5. \A g \in Handles : g # h => object'[g] = object[g] /\ bound'[g] = bound[g]
    BY <2>1, <2>2 DEF DestinationImported, Shape, DriverTypes
  <2>6. /\ \A i \in DOMAIN destinations : i # id => destinations[i].handle \in Handles
        /\ \A i \in DOMAIN sources : sources[i].handle \in Handles
    BY <2>3, HandlesKnown DEF Shape, Handles, SourceOpen, DestinationOpen
  <2>7. ASSUME NEW d \in DOMAIN destinations', NEW i \in DOMAIN sources',
               destinations'[d].source_generation = sources'[i].generation
        PROVE  /\ d # id /\ bound'[destinations'[d].handle] = object'[sources'[i].handle]
    <3>1. d \in DOMAIN destinations /\ i \in DOMAIN sources
      BY <2>3, <2>7
    <3>2. destinations[d].source_generation = sources[i].generation
      BY <2>3, <2>7
    <3>3. d # id /\ bound[destinations[d].handle] = object[sources[i].handle]
      BY <2>4, <3>1, <3>2 DEF BindingsCurrent
    <3>4. destinations'[d] = destinations[d] /\ sources'[i] = sources[i]
      BY <2>3, <3>1, <3>3
    <3>. QED
      BY <2>2, <2>5, <2>6, <3>1, <3>3, <3>4
  <2>. QED
    BY <2>3, <2>4, <2>7 DEF BindingsCurrent
<1>15. CASE ImportDestinationFails
  <2>1. /\ UNCHANGED <<sources, destinations, object, bound>>
        /\ SourceOpen' => SourceOpen /\ UNCHANGED cur
        /\ DestinationOpen' => DestinationOpen /\ UNCHANGED cur
    BY <1>15 DEF ImportDestinationFails, Faulty, FdsClosed, cache, driver, SourceOpen, DestinationOpen
  <2>. QED
    BY <2>1 DEF BindingsCurrent
<1>16. CASE DropDestination
  <2>1. /\ DOMAIN destinations' = DOMAIN destinations \ {Id(cur.dst)} /\ UNCHANGED sources
        /\ \A i \in DOMAIN destinations \ {Id(cur.dst)} : destinations'[i] = destinations[i]
        /\ OthersKept(destinations, {Id(cur.dst)}) /\ Id(cur.dst) \in DOMAIN destinations
        /\ pc = "dropDestination" /\ pc' = "ready"
    BY <1>16, DropDestinationStep DEF Shape
  <2>2. ~SourceOpen /\ ~SourceOpen' /\ ~DestinationOpen'
    BY <2>1 DEF SourceOpen, DestinationOpen
  <2>3. /\ \A i \in DOMAIN destinations \ {Id(cur.dst)} : KeptAt(destinations[i].handle)
        /\ \A i \in DOMAIN sources : KeptAt(sources[i].handle)
    BY <2>1, <2>2, AllHaveHandles, DestinationsKept
  <2>. QED
    BY <2>1, <2>2, <2>3 DEF BindingsCurrent, KeptAt
<1>17. CASE BindSource
  <2>1. UNCHANGED <<sources, object, cur>> /\ pc = "bindSource" /\ pc' = "dispatch"
    BY <1>17 DEF BindSource
  <2>2. ~SourceOpen' /\ ~DestinationOpen' /\ ~SourceOpen /\ ~DestinationOpen
    BY <2>1 DEF SourceOpen, DestinationOpen
  <2>3. CASE UNCHANGED <<bound, destinations>>
    BY <2>1, <2>2, <2>3 DEF BindingsCurrent
  <2>4. CASE bound' = [bound EXCEPT ![Destination.handle] = object[Source.handle]]
    <3>. DEFINE s == Id(cur.src)
                t == Id(cur.dst)
    <3>1. /\ s \in DOMAIN sources /\ t \in DOMAIN destinations
          /\ DOMAIN destinations' = DOMAIN destinations
          /\ destinations'[t].source_generation = sources[s].generation
          /\ \A d \in DOMAIN destinations :
                 /\ destinations'[d].handle = destinations[d].handle
                 /\ d # t =>
                        destinations'[d].source_generation = destinations[d].source_generation
          /\ bound' = [bound EXCEPT ![destinations[t].handle] = object[sources[s].handle]]
      BY <1>17, <2>1, <2>4, BindSourceStep DEF Shape, Source, Destination
    <3>2. \A d \in DOMAIN destinations :
              destinations[d].handle \in Handles /\ destinations[d].handle # NoHandle
      BY <2>2, HandlesKnown, AllHaveHandles DEF Shape, Handles
    <3>. HIDE DEF s, t
    <3>3. bound'[destinations[t].handle] = object[sources[s].handle]
      BY <3>1, <3>2 DEF Shape, DriverTypes
    <3>4. \A d \in DOMAIN destinations : d # t =>
              bound'[destinations[d].handle] = bound[destinations[d].handle]
      BY <3>1, <3>2 DEF Shape, DriverTypes, HandlesApart, Apart
    <3>5. ASSUME NEW d \in DOMAIN destinations, NEW i \in DOMAIN sources,
                 destinations'[d].source_generation = sources[i].generation
          PROVE  bound'[destinations[d].handle] = object[sources[i].handle]
      <4>1. CASE d = t
        <5>1. i = s
          BY <3>1, <3>5, <4>1 DEF GenerationsApart
        <5>. QED
          BY <3>3, <4>1, <5>1
      <4>2. CASE d # t
        BY <3>1, <3>4, <3>5, <4>2 DEF BindingsCurrent
      <4>. QED
        BY <4>1, <4>2
    <3>. QED
      BY <2>1, <2>2, <3>1, <3>5 DEF BindingsCurrent
  <2>. QED
    BY <1>17, <2>3, <2>4, BindSourceStep DEF Shape
<1>18. CASE Dispatch
  <2>1. /\ UNCHANGED <<sources, destinations, object, bound>>
        /\ SourceOpen' => SourceOpen /\ UNCHANGED cur
        /\ DestinationOpen' => DestinationOpen /\ UNCHANGED cur
    BY <1>18 DEF Dispatch, cache, driver, history, SourceOpen, DestinationOpen
  <2>. QED
    BY <2>1 DEF BindingsCurrent
<1>19. CASE DispatchFails
  <2>1. /\ UNCHANGED <<sources, destinations, object, bound>>
        /\ SourceOpen' => SourceOpen /\ UNCHANGED cur
        /\ DestinationOpen' => DestinationOpen /\ UNCHANGED cur
    BY <1>19 DEF DispatchFails, Faulty, ConvertFails, cache, driver, SourceOpen, DestinationOpen
  <2>. QED
    BY <2>1 DEF BindingsCurrent
<1>20. CASE WaitForFence
  <2>1. UNCHANGED <<destinations, object, bound>> /\ ~SourceOpen' /\ ~DestinationOpen'
    BY <1>20 DEF WaitForFence, driver, SourceOpen, DestinationOpen
  <2>. QED
    BY <1>20, <2>1, WaitForFenceStep DEF Shape, BindingsCurrent
<1>21. CASE WaitFails
  <2>1. /\ UNCHANGED <<sources, destinations, object, bound>>
        /\ SourceOpen' => SourceOpen /\ UNCHANGED cur
        /\ DestinationOpen' => DestinationOpen /\ UNCHANGED cur
    BY <1>21 DEF WaitFails, Faulty, ConvertFails, GpuRuns, cache, SourceOpen, DestinationOpen
  <2>. QED
    BY <2>1 DEF BindingsCurrent
<1>22. CASE UNCHANGED vars
  <2>1. /\ UNCHANGED <<sources, destinations, object, bound>>
        /\ SourceOpen' => SourceOpen /\ UNCHANGED cur
        /\ DestinationOpen' => DestinationOpen /\ UNCHANGED cur
    BY <1>22 DEF vars, cache, driver, history, SourceOpen, DestinationOpen
  <2>. QED
    BY <2>1 DEF BindingsCurrent
<1>. QED
  BY <1>1, <1>2, <1>3, <1>4, <1>5, <1>6, <1>7, <1>8, <1>9, <1>10, <1>11, <1>12, <1>13, <1>14,
     <1>15, <1>16, <1>17, <1>18, <1>19, <1>20, <1>21, <1>22
     DEF Next

\* What is dispatched stays bound to the source.
LEMMA ReadsSourceStep ==
    ASSUME Shape, ReadsSource, [Next]_vars
    PROVE  ReadsSource'
<1>1. CASE Initialize
  <2>1. pc' \notin {"dispatch", "wait"}
    BY <1>1 DEF Initialize, cache, driver, history
  <2>. QED
    BY <2>1 DEF ReadsSource
<1>2. CASE InitializeStep
  <2>1. pc' \notin {"dispatch", "wait"}
    BY <1>2 DEF InitializeStep
  <2>. QED
    BY <2>1 DEF ReadsSource
<1>3. CASE InitializeFails
  <2>1. pc' \notin {"dispatch", "wait"}
    BY <1>3 DEF InitializeFails, Faulty, DoReset, Destroy
  <2>. QED
    BY <2>1 DEF ReadsSource
<1>4. CASE Reset
  <2>1. pc' \notin {"dispatch", "wait"}
    BY <1>4 DEF Reset, DoReset, Destroy
  <2>. QED
    BY <2>1 DEF ReadsSource
<1>5. CASE \E b \in SourceBuffers, d \in DestinationBuffers : Convert(b, d)
  <2>1. pc' \notin {"dispatch", "wait"}
    BY <1>5 DEF Convert, cache, driver
  <2>. QED
    BY <2>1 DEF ReadsSource
<1>6. CASE ConvertRejects
  <2>1. pc' \notin {"dispatch", "wait"}
    BY <1>6 DEF ConvertRejects, Faulty, ConvertFails, cache, driver
  <2>. QED
    BY <2>1 DEF ReadsSource
<1>7. CASE SourceHit
  <2>1. pc' \notin {"dispatch", "wait"}
    BY <1>7 DEF SourceHit, driver, history
  <2>. QED
    BY <2>1 DEF ReadsSource
<1>8. CASE SourceMiss
  <2>1. pc' \notin {"dispatch", "wait"}
    BY <1>8 DEF SourceMiss, Destroy, history
  <2>. QED
    BY <2>1 DEF ReadsSource
<1>9. CASE ImportSource
  <2>1. pc' \notin {"dispatch", "wait"}
    BY <1>9 DEF ImportSource, FdStep, Refer, history
  <2>. QED
    BY <2>1 DEF ReadsSource
<1>10. CASE ImportSourceFails
  <2>1. pc' \notin {"dispatch", "wait"}
    BY <1>10 DEF ImportSourceFails, Faulty, FdsClosed, cache, driver
  <2>. QED
    BY <2>1 DEF ReadsSource
<1>11. CASE DropSource
  <2>1. pc' \notin {"dispatch", "wait"}
    BY <1>11 DEF DropSource, Destroy, ConvertFails
  <2>. QED
    BY <2>1 DEF ReadsSource
<1>12. CASE DestinationHit
  <2>1. pc' \notin {"dispatch", "wait"}
    BY <1>12 DEF DestinationHit, driver, history
  <2>. QED
    BY <2>1 DEF ReadsSource
<1>13. CASE DestinationMiss
  <2>1. pc' \notin {"dispatch", "wait"}
    BY <1>13 DEF DestinationMiss, Destroy, history
  <2>. QED
    BY <2>1 DEF ReadsSource
<1>14. CASE ImportDestination
  <2>1. pc' \notin {"dispatch", "wait"}
    BY <1>14 DEF ImportDestination, FdStep, Refer, history
  <2>. QED
    BY <2>1 DEF ReadsSource
<1>15. CASE ImportDestinationFails
  <2>1. pc' \notin {"dispatch", "wait"}
    BY <1>15 DEF ImportDestinationFails, Faulty, FdsClosed, cache, driver
  <2>. QED
    BY <2>1 DEF ReadsSource
<1>16. CASE DropDestination
  <2>1. pc' \notin {"dispatch", "wait"}
    BY <1>16 DEF DropDestination, Destroy, ConvertFails
  <2>. QED
    BY <2>1 DEF ReadsSource
<1>17. CASE BindSource
  <2>1. Source' = Source /\ Destination'.source_generation = Source.generation
    BY <1>17, BindSourceStep DEF BindSource, Shape, Source
  <2>. QED
    BY <2>1 DEF ReadsSource
<1>18. CASE Dispatch
  <2>1. /\ Source' = Source /\ Destination' = Destination
        /\ pc' \in {"dispatch", "wait"} => pc \in {"bindSource", "dispatch", "wait"}
        /\ pc = "bindSource" => pc' = "bindSource"
    BY <1>18 DEF Dispatch, cache, Source, Destination
  <2>. QED
    BY <2>1 DEF ReadsSource
<1>19. CASE DispatchFails
  <2>1. pc' \notin {"dispatch", "wait"}
    BY <1>19 DEF DispatchFails, Faulty, ConvertFails, cache, driver
  <2>. QED
    BY <2>1 DEF ReadsSource
<1>20. CASE WaitForFence
  <2>1. pc' \notin {"dispatch", "wait"}
    BY <1>20 DEF WaitForFence, GpuRuns
  <2>. QED
    BY <2>1 DEF ReadsSource
<1>21. CASE WaitFails
  <2>1. pc' \notin {"dispatch", "wait"}
    BY <1>21 DEF WaitFails, Faulty, ConvertFails, GpuRuns, cache
  <2>. QED
    BY <2>1 DEF ReadsSource
<1>22. CASE UNCHANGED vars
  <2>1. /\ Source' = Source /\ Destination' = Destination
        /\ pc' \in {"dispatch", "wait"} => pc \in {"bindSource", "dispatch", "wait"}
        /\ pc = "bindSource" => pc' = "bindSource"
    BY <1>22 DEF vars, cache, Source, Destination
  <2>. QED
    BY <2>1 DEF ReadsSource
<1>. QED
  BY <1>1, <1>2, <1>3, <1>4, <1>5, <1>6, <1>7, <1>8, <1>9, <1>10, <1>11, <1>12, <1>13, <1>14,
     <1>15, <1>16, <1>17, <1>18, <1>19, <1>20, <1>21, <1>22
     DEF Next

\* Every step that does not fail keeps track of the layouts.
LEMMA LayoutsTrackedStep ==
    ASSUME Shape, LiveAccounted, HandlesApart, LayoutsTracked, [Next]_vars
    PROVE  LayoutsTracked'
<1>1. CASE Initialize
  <2>1. UNCHANGED <<sources, layoutOf, failed>>
    BY <1>1 DEF Initialize, cache, driver, history
  <2>. QED
    BY <2>1 DEF LayoutsTracked
<1>2. CASE InitializeStep
  <2>1. UNCHANGED <<sources, layoutOf, failed>>
    BY <1>2 DEF InitializeStep, cache, history
  <2>. QED
    BY <2>1 DEF LayoutsTracked
<1>3. CASE InitializeFails
  <2>1. DOMAIN sources' = {}
    BY <1>3 DEF InitializeFails, DoReset
  <2>. QED
    BY <2>1 DEF LayoutsTracked
<1>4. CASE Reset
  <2>1. DOMAIN sources' = {}
    BY <1>4 DEF Reset, DoReset
  <2>. QED
    BY <2>1 DEF LayoutsTracked
<1>5. CASE \E b \in SourceBuffers, d \in DestinationBuffers : Convert(b, d)
  <2>1. UNCHANGED <<sources, layoutOf, failed>>
    BY <1>5 DEF Convert, cache, driver
  <2>. QED
    BY <2>1 DEF LayoutsTracked
<1>6. CASE ConvertRejects
  BY <1>6 DEF ConvertRejects, ConvertFails, LayoutsTracked
<1>7. CASE SourceHit
  <2>1. UNCHANGED <<layoutOf, failed>>
    BY <1>7 DEF SourceHit, driver, history
  <2>. QED
    BY <1>7, <2>1, SourceHitStep DEF Shape, LayoutsTracked
<1>8. CASE SourceMiss
  <2>1. PICK out \in SUBSET DOMAIN sources :
                 /\ DOMAIN sources' = (DOMAIN sources \ out) \cup {Id(cur.src)}
                 /\ \A i \in DOMAIN sources \ out : i # Id(cur.src) /\ sources'[i] = sources[i]
                 /\ sources'[Id(cur.src)] = NewSource /\ UNCHANGED <<destinations, failed>>
                 /\ OthersKept(sources, out) /\ pc \in {"source", "destination"}
    BY <1>8, SourceMissStep DEF Shape
  <2>2. ~SourceOpen /\ ~DestinationOpen
    BY <2>1 DEF SourceOpen, DestinationOpen
  <2>3. \A i \in DOMAIN sources \ out : KeptAt(sources[i].handle) /\ sources[i].handle # NoHandle
    BY <2>1, <2>2, AllHaveHandles, SourcesKept
  <2>4. /\ sources'[Id(cur.src)].handle = NoHandle
        /\ sources'[Id(cur.src)].layout = "PREINITIALIZED"
    BY <2>1 DEF NewSource
  <2>. QED
    BY <2>1, <2>3, <2>4 DEF LayoutsTracked, KeptAt
<1>9. CASE ImportSource
  <2>. DEFINE id == Id(cur.src)
  <2>1. PICK h : SourceImported(h)
    BY <1>9, ImportSourceStep DEF Shape
  <2>2. h \in Handles /\ h # NoHandle /\ \A i \in DOMAIN sources : i # id => sources[i].handle # h
    BY <2>1, SourceImportApart
  <2>3. /\ DOMAIN sources' = DOMAIN sources /\ UNCHANGED failed
        /\ \A i \in DOMAIN sources : i # id => sources'[i] = sources[i]
        /\ sources'[id].handle = h /\ sources'[id].layout = sources[id].layout
        /\ id \in DOMAIN sources /\ pc = "importSource"
    BY <2>1 DEF SourceImported
  <2>4. \A i \in DOMAIN sources : i # id => sources[i].handle \in Handles
    BY HandlesKnown DEF Shape, Handles
  <2>5. /\ \A g \in Handles : g # h => layoutOf'[g] = layoutOf[g]
        /\ step = 1 => layoutOf'[h] = "PREINITIALIZED"
        /\ step # 1 => layoutOf'[h] = layoutOf[h] /\ sources[id].handle = h
    BY <2>1, <2>2 DEF SourceImported, Shape, DriverTypes
  <2>6. step = 1 => sources[id].handle = NoHandle
    BY <2>3 DEF Shape, SourceParts, SourceOpen
  <2>7. ~failed => sources'[id].layout = layoutOf'[h]
    BY <2>2, <2>3, <2>5, <2>6 DEF LayoutsTracked
  <2>. QED
    BY <2>2, <2>3, <2>4, <2>5, <2>7, AllHaveHandles DEF LayoutsTracked
<1>10. CASE ImportSourceFails
  <2>1. UNCHANGED <<sources, layoutOf, failed>>
    BY <1>10 DEF ImportSourceFails, Faulty, FdsClosed, cache, driver
  <2>. QED
    BY <2>1 DEF LayoutsTracked
<1>11. CASE DropSource
  BY <1>11 DEF DropSource, ConvertFails, LayoutsTracked
<1>12. CASE DestinationHit
  <2>1. UNCHANGED <<sources, layoutOf, failed>>
    BY <1>12 DEF DestinationHit, driver, history
  <2>. QED
    BY <2>1 DEF LayoutsTracked
<1>13. CASE DestinationMiss
  <2>1. PICK out \in SUBSET DOMAIN destinations :
                 /\ DOMAIN destinations' = (DOMAIN destinations \ out) \cup {Id(cur.dst)}
                 /\ \A i \in DOMAIN destinations \ out : i # Id(cur.dst) /\ destinations'[i] = destinations[i]
                 /\ destinations'[Id(cur.dst)] = NewDestination /\ UNCHANGED <<sources, failed>>
                 /\ OthersKept(destinations, out) /\ pc \in {"source", "destination"}
    BY <1>13, DestinationMissStep DEF Shape
  <2>2. ~SourceOpen /\ ~DestinationOpen
    BY <2>1 DEF SourceOpen, DestinationOpen
  <2>3. \A i \in DOMAIN sources : KeptAt(sources[i].handle) /\ sources[i].handle # NoHandle
    BY <2>1, <2>2, AllHaveHandles, DestinationsKept
  <2>. QED
    BY <2>1, <2>3 DEF LayoutsTracked, KeptAt
<1>14. CASE ImportDestination
  <2>1. UNCHANGED <<sources, layoutOf, failed>>
    BY <1>14 DEF ImportDestination, history
  <2>. QED
    BY <2>1 DEF LayoutsTracked
<1>15. CASE ImportDestinationFails
  <2>1. UNCHANGED <<sources, layoutOf, failed>>
    BY <1>15 DEF ImportDestinationFails, Faulty, FdsClosed, cache, driver
  <2>. QED
    BY <2>1 DEF LayoutsTracked
<1>16. CASE DropDestination
  BY <1>16 DEF DropDestination, ConvertFails, LayoutsTracked
<1>17. CASE BindSource
  <2>1. UNCHANGED <<sources, layoutOf, failed>>
    BY <1>17 DEF BindSource, history
  <2>. QED
    BY <2>1 DEF LayoutsTracked
<1>18. CASE Dispatch
  <2>1. UNCHANGED <<sources, layoutOf, failed>>
    BY <1>18 DEF Dispatch, cache, driver, history
  <2>. QED
    BY <2>1 DEF LayoutsTracked
<1>19. CASE DispatchFails
  BY <1>19 DEF DispatchFails, ConvertFails, LayoutsTracked
<1>20. CASE WaitForFence
  <2>. DEFINE id == Id(cur.src)
  <2>1. /\ layoutOf' = [layoutOf EXCEPT ![sources[id].handle] = "GENERAL"] /\ UNCHANGED failed
        /\ pc = "wait"
    BY <1>20 DEF WaitForFence, GpuRuns, Source
  <2>2. \A i \in DOMAIN sources : sources[i].handle \in Handles /\ sources[i].handle # NoHandle
    BY <2>1, HandlesKnown, AllHaveHandles DEF Shape, Handles, SourceOpen
  <2>3. /\ id \in DOMAIN sources /\ DOMAIN sources' = DOMAIN sources
        /\ sources'[id].layout = "GENERAL"
        /\ \A i \in DOMAIN sources :
               /\ sources'[i].handle = sources[i].handle
               /\ i # id => sources'[i].layout = sources[i].layout
    BY <1>20, WaitForFenceStep DEF Shape
  <2>. HIDE DEF id
  <2>4. layoutOf'[sources[id].handle] = "GENERAL"
    BY <2>1, <2>2, <2>3 DEF Shape, DriverTypes
  <2>5. \A i \in DOMAIN sources : i # id =>
            layoutOf'[sources[i].handle] = layoutOf[sources[i].handle]
    BY <2>1, <2>2, <2>3 DEF Shape, DriverTypes, HandlesApart, Apart
  <2>. QED
    BY <2>1, <2>2, <2>3, <2>4, <2>5 DEF LayoutsTracked
<1>21. CASE WaitFails
  BY <1>21 DEF WaitFails, ConvertFails, LayoutsTracked
<1>22. CASE UNCHANGED vars
  <2>1. UNCHANGED <<sources, layoutOf, failed>>
    BY <1>22 DEF vars, cache, driver, history
  <2>. QED
    BY <2>1 DEF LayoutsTracked
<1>. QED
  BY <1>1, <1>2, <1>3, <1>4, <1>5, <1>6, <1>7, <1>8, <1>9, <1>10, <1>11, <1>12, <1>13, <1>14,
     <1>15, <1>16, <1>17, <1>18, <1>19, <1>20, <1>21, <1>22
     DEF Next

-----------------------------------------------------------------------------
(* The sizes of the caches.                                                *)

Less == {ij \in Nat \X Nat : ij[1] < ij[2]}

\* No infinite descent.
LEMMA LessIsWellFounded == IsWellFoundedOn(Less, Nat)
BY NatLessThanWellFounded DEF OpToRel, Less

\* Of some entries there is one that was used first.
LEMMA OldestExists ==
    ASSUME NEW entries, NEW ids, ids # {}, \A i \in ids : entries[i].last_used \in Nat
    PROVE  Oldest(entries, ids) # {}
<1>. DEFINE uses == {entries[i].last_used : i \in ids}
<1>1. PICK m \in uses : \A k \in uses : ~(<<k, m>> \in Less)
  <2>1. uses \in SUBSET Nat /\ uses # {}
    OBVIOUS
  <2>. QED
    BY <2>1, LessIsWellFounded, WFMin
<1>2. PICK i \in ids : entries[i].last_used = m
  OBVIOUS
<1>3. ASSUME NEW j \in ids PROVE entries[i].last_used <= entries[j].last_used
  <2>1. entries[j].last_used \in uses
    OBVIOUS
  <2>2. ~(<<entries[j].last_used, m>> \in Less)
    BY <1>1, <2>1
  <2>3. entries[j].last_used \in Nat /\ m \in Nat
    BY <1>2
  <2>4. ~(entries[j].last_used < m)
    BY <2>2, <2>3 DEF Less
  <2>. QED
    BY <1>2, <2>3, <2>4
<1>. QED
  BY <1>2, <1>3 DEF Oldest

\* What is displaced makes room for one entry.
LEMMA DisplacedMakesRoom ==
    ASSUME NEW entries, NEW id, NEW capacity \in Nat \ {0}, Bounded(entries, capacity),
           \A i \in DOMAIN entries : entries[i].last_used \in Nat,
           NEW after, after = (DOMAIN entries \ Displaced(entries, id, capacity)) \cup {id}
    PROVE  IsFiniteSet(after) /\ Cardinality(after) <= capacity
<1>. DEFINE kept == DOMAIN entries \ {id}
            out == Displaced(entries, id, capacity)
<1>1. /\ IsFiniteSet(kept) /\ Cardinality(kept) \in Nat
      /\ Cardinality(kept) <= Cardinality(DOMAIN entries)
      /\ Cardinality(DOMAIN entries) \in Nat /\ Cardinality(DOMAIN entries) <= capacity
  BY FS_Subset, FS_CardinalityType DEF Bounded
<1>2. /\ DOMAIN entries \ (DOMAIN entries \cap {id}) = kept
      /\ out = (DOMAIN entries \cap {id})
                 \cup (IF Cardinality(kept) >= capacity THEN Oldest(entries, kept) ELSE {})
  <2>1. DOMAIN entries \ (DOMAIN entries \cap {id}) = kept
    OBVIOUS
  <2>. QED
    BY <2>1 DEF Displaced
<1>. HIDE DEF out
<1>3. CASE Cardinality(kept) < capacity
  <2>1. after = kept \cup {id}
    BY <1>1, <1>2, <1>3 DEF out
  <2>. HIDE DEF kept
  <2>2. /\ IsFiniteSet(kept \cup {id}) /\ Cardinality(kept \cup {id}) \in Nat
        /\ Cardinality(kept \cup {id}) <= Cardinality(kept) + 1
    <3>1. /\ IsFiniteSet(kept \cup {id})
          /\ Cardinality(kept \cup {id}) = IF id \in kept THEN Cardinality(kept)
                                                       ELSE Cardinality(kept) + 1
      BY <1>1, FS_AddElement
    <3>. QED
      BY <1>1, <3>1
  <2>3. /\ IsFiniteSet(after) /\ Cardinality(after) \in Nat
        /\ Cardinality(after) <= Cardinality(kept) + 1
    BY <2>1, <2>2, Zenon
  <2>. QED
    BY <1>1, <1>3, <2>3
<1>4. CASE Cardinality(kept) >= capacity
  <2>1. kept # {}
    BY <1>1, <1>4, FS_EmptySet
  <2>2. PICK o : o \in Oldest(entries, kept)
    BY <2>1, OldestExists
  <2>3. o \in kept
    BY <2>2 DEF Oldest
  <2>. DEFINE rest == kept \ {o}
  <2>4. IsFiniteSet(rest) /\ Cardinality(rest) = Cardinality(kept) - 1
    BY <1>1, <2>3, FS_RemoveElement
  <2>5. IsFiniteSet(rest \cup {id}) /\ Cardinality(rest \cup {id}) <= Cardinality(rest) + 1
    <3>1. Cardinality(rest) \in Nat
      BY <2>4, FS_CardinalityType
    <3>. HIDE DEF rest
    <3>2. /\ IsFiniteSet(rest \cup {id})
          /\ Cardinality(rest \cup {id}) = IF id \in rest THEN Cardinality(rest)
                                                       ELSE Cardinality(rest) + 1
      BY <2>4, FS_AddElement
    <3>. QED
      BY <3>1, <3>2
  <2>6. after \subseteq rest \cup {id}
    BY <1>2, <1>4, <2>2 DEF out
  <2>7. IsFiniteSet(after) /\ Cardinality(after) <= Cardinality(rest \cup {id})
    BY <2>5, <2>6, FS_Subset
  <2>8. Cardinality(after) \in Nat /\ Cardinality(rest \cup {id}) \in Nat
    BY <2>5, <2>7, FS_CardinalityType
  <2>. QED
    BY <1>1, <1>4, <2>4, <2>5, <2>7, <2>8
<1>. QED
  BY <1>1, <1>3, <1>4

\* No step makes a cache outgrow its capacity.
LEMMA CachesBoundedStep ==
    ASSUME Shape, CachesBounded, [Next]_vars
    PROVE  CachesBounded'
<1>1. CASE Initialize
  <2>1. UNCHANGED <<sources, destinations>>
    BY <1>1 DEF Initialize, cache, driver, history
  <2>. QED
    BY <2>1 DEF CachesBounded, Bounded
<1>2. CASE InitializeStep
  <2>1. UNCHANGED <<sources, destinations>>
    BY <1>2 DEF InitializeStep, cache, history
  <2>. QED
    BY <2>1 DEF CachesBounded, Bounded
<1>3. CASE InitializeFails
  <2>1. DOMAIN sources' = {} /\ DOMAIN destinations' = {}
    BY <1>3 DEF InitializeFails, DoReset
  <2>. QED
    BY <2>1, FS_EmptySet, CapacityAssumption DEF CachesBounded, Bounded
<1>4. CASE Reset
  <2>1. DOMAIN sources' = {} /\ DOMAIN destinations' = {}
    BY <1>4 DEF Reset, DoReset
  <2>. QED
    BY <2>1, FS_EmptySet, CapacityAssumption DEF CachesBounded, Bounded
<1>5. CASE \E b \in SourceBuffers, d \in DestinationBuffers : Convert(b, d)
  <2>1. UNCHANGED <<sources, destinations>>
    BY <1>5 DEF Convert, cache, driver
  <2>. QED
    BY <2>1 DEF CachesBounded, Bounded
<1>6. CASE ConvertRejects
  <2>1. UNCHANGED <<sources, destinations>>
    BY <1>6 DEF ConvertRejects, Faulty, ConvertFails, cache, driver
  <2>. QED
    BY <2>1 DEF CachesBounded, Bounded
<1>7. CASE SourceHit
  <2>1. UNCHANGED destinations /\ DOMAIN sources' = DOMAIN sources
    BY <1>7, SourceHitStep DEF SourceHit, Shape
  <2>. QED
    BY <2>1 DEF CachesBounded, Bounded
<1>8. CASE SourceMiss
  <2>1. /\ DOMAIN sources' = (DOMAIN sources \ Displaced(sources, Id(cur.src), kSourceCacheCapacity))
                             \cup {Id(cur.src)}
        /\ UNCHANGED destinations
    BY <1>8, SourceMissStep DEF Shape
  <2>2. \A i \in DOMAIN sources : sources[i].last_used \in Nat
    BY DEF Shape, CacheTypes, SourceEntries
  <2>3. Bounded(sources, kSourceCacheCapacity) /\ kSourceCacheCapacity \in Nat \ {0}
    BY CapacityAssumption DEF CachesBounded
  <2>4. IsFiniteSet(DOMAIN sources') /\ Cardinality(DOMAIN sources') <= kSourceCacheCapacity
    BY <2>1, <2>2, <2>3, DisplacedMakesRoom
  <2>. QED
    BY <2>1, <2>4 DEF CachesBounded, Bounded
<1>9. CASE ImportSource
  <2>1. PICK h : SourceImported(h)
    BY <1>9, ImportSourceStep DEF Shape
  <2>2. UNCHANGED destinations /\ DOMAIN sources' = DOMAIN sources
    BY <2>1 DEF SourceImported
  <2>. QED
    BY <2>2 DEF CachesBounded, Bounded
<1>10. CASE ImportSourceFails
  <2>1. UNCHANGED <<sources, destinations>>
    BY <1>10 DEF ImportSourceFails, Faulty, FdsClosed, cache, driver
  <2>. QED
    BY <2>1 DEF CachesBounded, Bounded
<1>11. CASE DropSource
  <2>1. DOMAIN sources' = DOMAIN sources \ {Id(cur.src)} /\ UNCHANGED destinations
    BY <1>11, DropSourceStep DEF Shape
  <2>2. /\ IsFiniteSet(DOMAIN sources) /\ Cardinality(DOMAIN sources) \in Nat
        /\ Cardinality(DOMAIN sources) <= kSourceCacheCapacity
    BY FS_CardinalityType DEF CachesBounded, Bounded
  <2>3. /\ IsFiniteSet(DOMAIN sources') /\ Cardinality(DOMAIN sources') \in Nat
        /\ Cardinality(DOMAIN sources') <= Cardinality(DOMAIN sources)
    BY <2>1, <2>2, FS_Subset, FS_CardinalityType
  <2>. QED
    BY <2>1, <2>2, <2>3, CapacityAssumption DEF CachesBounded, Bounded
<1>12. CASE DestinationHit
  <2>1. UNCHANGED sources /\ DOMAIN destinations' = DOMAIN destinations
    BY <1>12, DestinationHitStep DEF DestinationHit, Shape
  <2>. QED
    BY <2>1 DEF CachesBounded, Bounded
<1>13. CASE DestinationMiss
  <2>1. /\ DOMAIN destinations' = (DOMAIN destinations \ Displaced(destinations, Id(cur.dst), kDestinationCacheCapacity))
                             \cup {Id(cur.dst)}
        /\ UNCHANGED sources
    BY <1>13, DestinationMissStep DEF Shape
  <2>2. \A i \in DOMAIN destinations : destinations[i].last_used \in Nat
    BY DEF Shape, CacheTypes, DestinationEntries
  <2>3. Bounded(destinations, kDestinationCacheCapacity) /\ kDestinationCacheCapacity \in Nat \ {0}
    BY CapacityAssumption DEF CachesBounded
  <2>4. IsFiniteSet(DOMAIN destinations') /\ Cardinality(DOMAIN destinations') <= kDestinationCacheCapacity
    BY <2>1, <2>2, <2>3, DisplacedMakesRoom
  <2>. QED
    BY <2>1, <2>4 DEF CachesBounded, Bounded
<1>14. CASE ImportDestination
  <2>1. PICK h : DestinationImported(h)
    BY <1>14, ImportDestinationStep DEF Shape
  <2>2. UNCHANGED sources /\ DOMAIN destinations' = DOMAIN destinations
    BY <2>1 DEF DestinationImported
  <2>. QED
    BY <2>2 DEF CachesBounded, Bounded
<1>15. CASE ImportDestinationFails
  <2>1. UNCHANGED <<sources, destinations>>
    BY <1>15 DEF ImportDestinationFails, Faulty, FdsClosed, cache, driver
  <2>. QED
    BY <2>1 DEF CachesBounded, Bounded
<1>16. CASE DropDestination
  <2>1. DOMAIN destinations' = DOMAIN destinations \ {Id(cur.dst)} /\ UNCHANGED sources
    BY <1>16, DropDestinationStep DEF Shape
  <2>2. /\ IsFiniteSet(DOMAIN destinations) /\ Cardinality(DOMAIN destinations) \in Nat
        /\ Cardinality(DOMAIN destinations) <= kDestinationCacheCapacity
    BY FS_CardinalityType DEF CachesBounded, Bounded
  <2>3. /\ IsFiniteSet(DOMAIN destinations') /\ Cardinality(DOMAIN destinations') \in Nat
        /\ Cardinality(DOMAIN destinations') <= Cardinality(DOMAIN destinations)
    BY <2>1, <2>2, FS_Subset, FS_CardinalityType
  <2>. QED
    BY <2>1, <2>2, <2>3, CapacityAssumption DEF CachesBounded, Bounded
<1>17. CASE BindSource
  <2>1. UNCHANGED sources /\ DOMAIN destinations' = DOMAIN destinations
    BY <1>17, BindSourceStep DEF BindSource, Shape
  <2>. QED
    BY <2>1 DEF CachesBounded, Bounded
<1>18. CASE Dispatch
  <2>1. UNCHANGED <<sources, destinations>>
    BY <1>18 DEF Dispatch, cache, driver, history
  <2>. QED
    BY <2>1 DEF CachesBounded, Bounded
<1>19. CASE DispatchFails
  <2>1. UNCHANGED <<sources, destinations>>
    BY <1>19 DEF DispatchFails, Faulty, ConvertFails, cache, driver
  <2>. QED
    BY <2>1 DEF CachesBounded, Bounded
<1>20. CASE WaitForFence
  <2>1. UNCHANGED destinations /\ DOMAIN sources' = DOMAIN sources
    BY <1>20, WaitForFenceStep DEF WaitForFence, Shape
  <2>. QED
    BY <2>1 DEF CachesBounded, Bounded
<1>21. CASE WaitFails
  <2>1. UNCHANGED <<sources, destinations>>
    BY <1>21 DEF WaitFails, Faulty, ConvertFails, GpuRuns, cache
  <2>. QED
    BY <2>1 DEF CachesBounded, Bounded
<1>22. CASE UNCHANGED vars
  <2>1. UNCHANGED <<sources, destinations>>
    BY <1>22 DEF vars, cache, driver, history
  <2>. QED
    BY <2>1 DEF CachesBounded, Bounded
<1>. QED
  BY <1>1, <1>2, <1>3, <1>4, <1>5, <1>6, <1>7, <1>8, <1>9, <1>10, <1>11, <1>12, <1>13, <1>14,
     <1>15, <1>16, <1>17, <1>18, <1>19, <1>20, <1>21, <1>22
     DEF Next

-----------------------------------------------------------------------------
(* Faults.                                                                 *)

\* When a destination needs its set the pool has one: only the other entries
\* of the cache hold one, and there are fewer of them than the capacity.
LEMMA PoolSuffices ==
    ASSUME Shape, LiveAccounted, CachesBounded, pc = "importDestination",
           DestinationSteps[step] = "set"
    PROVE  ~PoolExhausted
<1>. DEFINE id == Id(cur.dst)
            others == DOMAIN destinations \ {id}
            sets == {o \in live : o[1] = "set"}
<1>1. id \in DOMAIN destinations /\ DestinationOpen /\ step \in 1 .. 8
  BY DEF Shape, InCall, DestinationFound, DestinationOpen
<1>2. "set" \notin destinations[id].made
  <2>1. destinations[id].made = MadeBy(DestinationSteps, step, DestinationKinds)
    BY <1>1 DEF Shape, DestinationParts
  <2>. QED
    BY <1>1, <2>1, MadeSoFar
<1>3. /\ IsFiniteSet(DOMAIN destinations)
      /\ Cardinality(DOMAIN destinations) <= kDestinationCacheCapacity
      /\ Cardinality(DOMAIN destinations) \in Nat
  BY FS_CardinalityType DEF CachesBounded, Bounded
<1>4. IsFiniteSet(others) /\ Cardinality(others) = Cardinality(DOMAIN destinations) - 1
  BY <1>1, <1>3, FS_RemoveElement
<1>5. \A i \in others : "set" \in destinations[i].made
  BY <1>1 DEF Shape, DestinationParts, DestinationKinds
<1>6. \A i \in others : <<"set", destinations[i].handle>> \in sets
  BY <1>5, CachedAreLive
<1>7. ASSUME NEW o \in sets
      PROVE  \E i \in others : o = <<"set", destinations[i].handle>>
  <2>1. o \in OwnNow \cup Cached /\ o[1] = "set"
    BY DEF LiveAccounted
  <2>2. o \notin OwnNow
    <3>1. \A x \in OwnObjects : x[1] # "set"
      BY DEF OwnObjects
    <3>2. OwnNow = OwnObjects
      BY DEF OwnNow
    <3>. QED
      BY <2>1, <3>1, <3>2
  <2>3. CASE \E i \in DOMAIN sources : \E k \in sources[i].made : o = <<k, sources[i].handle>>
    <3>1. \A i \in DOMAIN sources : sources[i].made \subseteq SourceKinds
      BY DEF Shape, CacheTypes, SourceEntries
    <3>. QED
      BY <2>1, <2>3, <3>1 DEF SourceKinds
  <2>4. CASE \E i \in DOMAIN destinations : \E k \in destinations[i].made :
                 o = <<k, destinations[i].handle>>
    BY <1>2, <2>1, <2>4
  <2>. QED
    BY <2>1, <2>2, <2>3, <2>4, InCached
<1>. DEFINE f == [i \in others |-> <<"set", destinations[i].handle>>]
<1>8. f \in Surjection(others, sets)
  <2>. HIDE DEF others, sets
  <2>. QED
    BY <1>6, <1>7 DEF Surjection
<1>9. Cardinality(sets) <= Cardinality(others) /\ Cardinality(sets) \in Nat
  <2>. HIDE DEF others, sets, f
  <2>. QED
    BY <1>4, <1>8, FS_Surjection, FS_CardinalityType
<1>10. Cardinality(sets) < kDestinationCacheCapacity
  <2>. HIDE DEF others, sets
  <2>. QED
    BY <1>3, <1>4, <1>9, CapacityAssumption
<1>. QED
  BY <1>9, <1>10, CapacityAssumption DEF PoolExhausted

\* Every step counts the faults.
LEMMA FaultsStep ==
    ASSUME Shape, LiveAccounted, CachesBounded, FaultsCounted, [Next]_vars
    PROVE  FaultsCounted'
<1>1. CASE Initialize
  BY <1>1 DEF Initialize, cache, driver, history, FaultsCounted
<1>2. CASE InitializeStep
  BY <1>2 DEF InitializeStep, cache, history, FaultsCounted
<1>3. CASE InitializeFails
  BY <1>3 DEF InitializeFails, Faulty, DoReset, Destroy, FaultsCounted
<1>4. CASE Reset
  BY <1>4 DEF Reset, DoReset, Destroy, FaultsCounted
<1>5. CASE \E b \in SourceBuffers, d \in DestinationBuffers : Convert(b, d)
  BY <1>5 DEF Convert, cache, driver, FaultsCounted
<1>6. CASE ConvertRejects
  BY <1>6 DEF ConvertRejects, Faulty, ConvertFails, cache, driver, FaultsCounted
<1>7. CASE SourceHit
  BY <1>7 DEF SourceHit, driver, history, FaultsCounted
<1>8. CASE SourceMiss
  BY <1>8 DEF SourceMiss, Destroy, history, FaultsCounted
<1>9. CASE ImportSource
  <2>1. pc' \notin {"dropSource", "dropDestination"} /\ UNCHANGED history
    BY <1>9 DEF ImportSource
  <2>. QED
    BY <2>1 DEF FaultsCounted, history
<1>10. CASE ImportSourceFails
  BY <1>10 DEF ImportSourceFails, Faulty, FdsClosed, cache, driver, FaultsCounted
<1>11. CASE DropSource
  BY <1>11 DEF DropSource, Destroy, ConvertFails, FaultsCounted
<1>12. CASE DestinationHit
  BY <1>12 DEF DestinationHit, driver, history, FaultsCounted
<1>13. CASE DestinationMiss
  BY <1>13 DEF DestinationMiss, Destroy, history, FaultsCounted
<1>14. CASE ImportDestination
  <2>1. pc' \notin {"dropSource", "dropDestination"} /\ UNCHANGED history
    BY <1>14 DEF ImportDestination
  <2>. QED
    BY <2>1 DEF FaultsCounted, history
<1>15. CASE ImportDestinationFails
  <2>1. Faulty
    BY <1>15, PoolSuffices DEF ImportDestinationFails
  <2>. QED
    BY <1>15, <2>1 DEF ImportDestinationFails, Faulty, FaultsCounted
<1>16. CASE DropDestination
  BY <1>16 DEF DropDestination, Destroy, ConvertFails, FaultsCounted
<1>17. CASE BindSource
  BY <1>17 DEF BindSource, history, FaultsCounted
<1>18. CASE Dispatch
  BY <1>18 DEF Dispatch, cache, driver, history, FaultsCounted
<1>19. CASE DispatchFails
  BY <1>19 DEF DispatchFails, Faulty, ConvertFails, cache, driver, FaultsCounted
<1>20. CASE WaitForFence
  BY <1>20 DEF WaitForFence, GpuRuns, FaultsCounted
<1>21. CASE WaitFails
  BY <1>21 DEF WaitFails, Faulty, ConvertFails, GpuRuns, cache, FaultsCounted
<1>22. CASE UNCHANGED vars
  BY <1>22 DEF vars, cache, driver, history, FaultsCounted
<1>. QED
  BY <1>1, <1>2, <1>3, <1>4, <1>5, <1>6, <1>7, <1>8, <1>9, <1>10, <1>11, <1>12, <1>13, <1>14,
     <1>15, <1>16, <1>17, <1>18, <1>19, <1>20, <1>21, <1>22
     DEF Next

-----------------------------------------------------------------------------
(* The invariant.                                                          *)

\* It holds at the start.
LEMMA ConverterInvInit == ASSUME Init PROVE ConverterInv
<1>1. /\ pc = "closed" /\ step = 1 /\ counter = 0 /\ fds = 0 /\ live = {} /\ serial = 0
      /\ DOMAIN sources = {} /\ DOMAIN destinations = {}
      /\ object = [h \in Handles |-> NoObject] /\ bound = [h \in Handles |-> NoObject]
      /\ layoutOf = [h \in Handles |-> "UNDEFINED"]
      /\ failed = FALSE /\ conversions = 0 /\ faults = 0
  BY DEF Init
<1>2. CacheTypes /\ DriverTypes
  BY <1>1, NoObjectType DEF CacheTypes, DriverTypes, Layouts
<1>3. InCall /\ SourceParts /\ DestinationParts
  BY <1>1 DEF InCall, SourceParts, DestinationParts, SourceOpen, DestinationOpen, Converting,
              SourceFound, DestinationFound
<1>4. HandlesApart /\ ImportsRefer /\ GenerationsApart /\ BindingsCurrent /\ LayoutsTracked
  BY <1>1 DEF HandlesApart, Apart, ImportsRefer, GenerationsApart, BindingsCurrent,
              LayoutsTracked
<1>5. LiveAccounted
  <2>1. Cached = {} /\ OwnNow = {}
    BY <1>1, InCached DEF OwnNow
  <2>. QED
    BY <1>1, <2>1 DEF LiveAccounted
<1>6. ReadsSource /\ FdsCounted /\ FaultsCounted
  BY <1>1 DEF ReadsSource, FdsCounted, FaultsCounted
<1>7. CachesBounded
  BY <1>1, FS_EmptySet, CapacityAssumption DEF CachesBounded, Bounded
<1>. QED
  BY <1>2, <1>3, <1>4, <1>5, <1>6, <1>7 DEF ConverterInv, Shape

\* Every step preserves it.
LEMMA ConverterInvStep ==
    ASSUME ConverterInv, [Next]_vars
    PROVE  ConverterInv'
<1>1. /\ Shape /\ HandlesApart /\ LiveAccounted /\ ImportsRefer /\ GenerationsApart
      /\ BindingsCurrent /\ ReadsSource /\ LayoutsTracked /\ FdsCounted /\ CachesBounded
      /\ FaultsCounted
  BY DEF ConverterInv
<1>2. CacheTypes /\ DriverTypes /\ InCall /\ SourceParts /\ DestinationParts
  BY <1>1 DEF Shape
<1>3. Shape'
  <2>1. CacheTypes' /\ DriverTypes'
    BY <1>2, CacheTypesStep, DriverTypesStep
  <2>2. InCall' /\ SourceParts' /\ DestinationParts'
    BY <1>2, InCallStep, SourcePartsStep, DestinationPartsStep
  <2>. QED
    BY <2>1, <2>2 DEF Shape
<1>4. HandlesApart' /\ LiveAccounted' /\ ImportsRefer'
  BY <1>1, HandlesApartStep, LiveStep, ImportsReferStep
<1>5. GenerationsApart' /\ BindingsCurrent' /\ ReadsSource'
  BY <1>1, GenerationsApartStep, BindingsCurrentStep, ReadsSourceStep
<1>6. LayoutsTracked' /\ FdsCounted'
  BY <1>1, <1>2, LayoutsTrackedStep, FdsStep
<1>7. CachesBounded' /\ FaultsCounted'
  BY <1>1, CachesBoundedStep, FaultsStep
<1>. QED
  BY <1>3, <1>4, <1>5, <1>6, <1>7 DEF ConverterInv

\* In every reachable state the caches, the driver's objects, the bindings
\* and the tracked layouts agree (source_resources_, destination_resources_).
THEOREM ConverterInvariant == Spec => []ConverterInv
<1>1. Init => ConverterInv
  BY ConverterInvInit
<1>2. ConverterInv /\ [Next]_vars => ConverterInv'
  BY ConverterInvStep
<1>. QED
  BY <1>1, <1>2, PTL DEF Spec

\* Whatever fails and whatever is evicted, between calls the driver holds
\* exactly what the caches reach (DestroySource, DestroyDestination, Reset).
THEOREM ObjectsAccounted == Spec => []NothingLeaks
<1>1. ConverterInv => NothingLeaks
  <2>. SUFFICES ASSUME ConverterInv PROVE NothingLeaks
    OBVIOUS
  <2>1. LiveAccounted /\ FdsCounted /\ InCall
    BY DEF ConverterInv, Shape
  <2>2. pc = "closed" => Cached = {}
    <3>1. pc = "closed" => DOMAIN sources = {} /\ DOMAIN destinations = {}
      BY <2>1 DEF InCall
    <3>. QED
      BY <3>1, InCached
  <2>. QED
    BY <2>1, <2>2 DEF LiveAccounted, FdsCounted, NothingLeaks, OwnNow
<1>. QED
  BY <1>1, ConverterInvariant, PTL

\* A dispatch reads the source that Convert was given (Convert, Dispatch).
THEOREM DispatchIsBound == Spec => []DispatchReadsSource
<1>1. ConverterInv => DispatchReadsSource
  <2>. SUFFICES ASSUME ConverterInv, pc \in {"dispatch", "wait"}
                PROVE  /\ bound[Destination.handle].buffer = cur.src
                       /\ bound[Destination.handle] = object[Source.handle]
                       /\ <<"view", Source.handle>> \in live
                       /\ object[Destination.handle].buffer = cur.dst
    BY DEF DispatchReadsSource
  <2>. DEFINE s == Id(cur.src)
              d == Id(cur.dst)
  <2>1. /\ SourceFound /\ DestinationFound /\ Converting /\ ~SourceOpen /\ ~DestinationOpen
    BY DEF SourceFound, DestinationFound, Converting, SourceOpen, DestinationOpen
  <2>2. /\ s \in DOMAIN sources /\ d \in DOMAIN destinations
        /\ sources[s].sig = Sig(cur.src) /\ destinations[d].sig = Sig(cur.dst)
        /\ cur.src \in SourceBuffers /\ cur.dst \in DestinationBuffers
    BY <2>1 DEF ConverterInv, Shape, InCall, Source, Destination
  <2>3. cur.src = <<s, sources[s].sig>> /\ cur.dst = <<d, destinations[d].sig>>
    BY <2>2, BufferAssumption DEF Id, Sig
  <2>4. /\ sources[s].made = SourceKinds /\ destinations[d].made = DestinationKinds
    BY <2>1, <2>2 DEF ConverterInv, Shape, SourceParts, DestinationParts
  <2>5. destinations[d].source_generation = sources[s].generation
    BY DEF ConverterInv, ReadsSource, Source, Destination
  <2>. HIDE DEF s, d
  <2>6. bound[destinations[d].handle] = object[sources[s].handle]
    BY <2>2, <2>5 DEF ConverterInv, BindingsCurrent
  <2>7. /\ object[sources[s].handle].buffer = cur.src
        /\ object[destinations[d].handle].buffer = cur.dst
    BY <2>2, <2>3, <2>4 DEF ConverterInv, ImportsRefer, SourceKinds, DestinationKinds
  <2>8. <<"view", sources[s].handle>> \in live
    BY <2>2, <2>4, CachedAreLive DEF ConverterInv, SourceKinds
  <2>. QED
    BY <2>6, <2>7, <2>8 DEF s, d, Source, Destination
<1>. QED
  BY <1>1, ConverterInvariant, PTL

\* The acquire barrier names the layout that the image is in (Dispatch).
THEOREM BarrierNamesLayout == Spec => []AcquireNamesLayout
<1>1. ConverterInv => AcquireNamesLayout
  <2>. SUFFICES ASSUME ConverterInv, pc = "wait"
                PROVE  Source.layout = layoutOf[Source.handle]
    BY DEF AcquireNamesLayout
  <2>1. SourceFound /\ Converting /\ ~SourceOpen
    BY DEF SourceFound, Converting, SourceOpen
  <2>2. ~failed /\ Id(cur.src) \in DOMAIN sources
    BY <2>1 DEF ConverterInv, Shape, InCall
  <2>3. Source.handle # NoHandle
    BY <2>1, <2>2, AllHaveHandles DEF ConverterInv, Source
  <2>. QED
    BY <2>2, <2>3 DEF ConverterInv, LayoutsTracked, Source
<1>. QED
  BY <1>1, ConverterInvariant, PTL

\* No conversion fails for want of a descriptor set: only the driver or the
\* input fails one (CreateDevice's pool, ImportDestination).
THEOREM PoolNeverRunsOut == Spec => []FailsOnlyOnFault
<1>1. ConverterInv => FailsOnlyOnFault
  BY DEF ConverterInv, FaultsCounted, FailsOnlyOnFault
<1>. QED
  BY <1>1, ConverterInvariant, PTL

-----------------------------------------------------------------------------
(* The order of the uses.                                                  *)

\* Steps that neither use a source nor end its conversion.
LEMMA UsesKept ==
    ASSUME Shape, UsesInOrder, DOMAIN sources' = DOMAIN sources,
           \A i \in DOMAIN sources : sources'[i].last_used = sources[i].last_used,
           UNCHANGED <<converted, conversions, failed>>, counter' \in {counter, counter + 1},
           SourceFound' <=> SourceFound, SourceFound => cur'.src = cur.src,
           Converting' => Converting
    PROVE  UsesInOrder'
<1>. SUFFICES ASSUME ~failed PROVE ConversionsCounted' /\ UsesOrdered' /\ LatestCached'
  BY DEF UsesInOrder
<1>1. ConversionsCounted /\ UsesOrdered /\ LatestCached
  BY DEF UsesInOrder
<1>2. Settled' = Settled /\ \A i \in Settled : i \in DOMAIN sources
  BY DEF Settled
<1>3. ConversionsCounted'
  BY <1>1 DEF ConversionsCounted
<1>4. UsesOrdered'
  <2>1. \A i \in DOMAIN sources' : sources'[i].last_used <= counter'
    BY <1>1 DEF UsesOrdered, Shape, CacheTypes, SourceEntries
  <2>2. SourceFound => Id(cur.src) \in DOMAIN sources /\ Source'.last_used = Source.last_used
    BY DEF Shape, InCall, Source
  <2>. QED
    BY <1>1, <1>2, <2>1, <2>2 DEF UsesOrdered
<1>5. LatestCached'
  BY <1>1, <1>2 DEF LatestCached
<1>. QED
  BY <1>3, <1>4, <1>5

\* The types of the numbers that are compared.
LEMMA UsesTyped ==
    ASSUME Shape, FaultsCounted, ConversionsCounted
    PROVE  /\ counter \in Nat /\ conversions \in Nat /\ DOMAIN sources \subseteq SourceIds
           /\ \A i \in DOMAIN sources : sources[i].last_used \in Nat
           /\ \A i \in SourceIds : converted[i] \in Nat /\ converted[i] <= conversions
<1>1. counter \in Nat /\ conversions \in Nat /\ DOMAIN sources \subseteq SourceIds
  BY DEF Shape, CacheTypes, FaultsCounted
<1>2. \A i \in DOMAIN sources : sources[i].last_used \in Nat
  BY DEF Shape, CacheTypes, SourceEntries
<1>3. ASSUME NEW i \in SourceIds PROVE converted[i] \in Nat /\ converted[i] <= conversions
  <2>1. converted[i] \in 0 .. conversions
    BY DEF ConversionsCounted
  <2>. QED
    BY <1>1, <2>1
<1>. QED
  BY <1>1, <1>2, <1>3

\* The oldest of the settled sources is one only.
LEMMA OneOldest ==
    ASSUME UsesOrdered, NEW ids \in SUBSET Settled,
           \A i \in ids : sources[i].last_used \in Nat,
           NEW o \in Oldest(sources, ids)
    PROVE  Oldest(sources, ids) = {o}
<1>1. ASSUME NEW p \in Oldest(sources, ids) PROVE p = o
  <2>1. p \in ids /\ o \in ids
    BY DEF Oldest
  <2>2. sources[p].last_used <= sources[o].last_used /\ sources[o].last_used <= sources[p].last_used
    BY <2>1 DEF Oldest
  <2>3. sources[p].last_used = sources[o].last_used
    BY <2>1, <2>2
  <2>. QED
    BY <2>1, <2>3 DEF UsesOrdered
<1>. QED
  BY <1>1

\* What a miss displaces: the entry of another layout only leaves room, a full
\* cache loses the source that was read first.
LEMMA MissDisplaces ==
    ASSUME Shape, FaultsCounted, CachesBounded, ConversionsCounted, UsesOrdered, pc = "source",
           NEW id
    PROVE  LET out == Displaced(sources, id, kSourceCacheCapacity)
           IN  \/ /\ out = DOMAIN sources \cap {id}
                  /\ id \in DOMAIN sources \/ Cardinality(DOMAIN sources) # kSourceCacheCapacity
               \/ /\ id \notin DOMAIN sources
                  /\ Cardinality(DOMAIN sources) = kSourceCacheCapacity
                  /\ \E o \in DOMAIN sources :
                        /\ out = {o}
                        /\ \A i \in DOMAIN sources \ {o} :
                               sources[o].last_used < sources[i].last_used
<1>. DEFINE kept == DOMAIN sources \ {id}
            out == Displaced(sources, id, kSourceCacheCapacity)
<1>1. /\ IsFiniteSet(DOMAIN sources) /\ Cardinality(DOMAIN sources) \in Nat
      /\ Cardinality(DOMAIN sources) <= kSourceCacheCapacity
      /\ kSourceCacheCapacity \in Nat \ {0}
  BY FS_CardinalityType, CapacityAssumption DEF CachesBounded, Bounded
<1>2. /\ IsFiniteSet(kept)
      /\ Cardinality(kept) = IF id \in DOMAIN sources THEN Cardinality(DOMAIN sources) - 1
                                                     ELSE Cardinality(DOMAIN sources)
  BY <1>1, FS_RemoveElement
<1>3. out = (DOMAIN sources \cap {id})
              \cup (IF Cardinality(kept) >= kSourceCacheCapacity THEN Oldest(sources, kept)
                                                                 ELSE {})
  <2>1. DOMAIN sources \ (DOMAIN sources \cap {id}) = kept
    OBVIOUS
  <2>. QED
    BY <2>1 DEF Displaced
<1>4. Settled = DOMAIN sources
  BY DEF Settled, SourceFound, SourceOpen, DestinationOpen
<1>5. \A i \in DOMAIN sources : sources[i].last_used \in Nat
  BY UsesTyped
<1>6. CASE id \in DOMAIN sources \/ Cardinality(DOMAIN sources) # kSourceCacheCapacity
  <2>1. ~(Cardinality(kept) >= kSourceCacheCapacity)
    <3>. HIDE DEF kept
    <3>. QED
      BY <1>1, <1>2, <1>6
  <2>. QED
    BY <1>3, <1>6, <2>1
<1>7. CASE id \notin DOMAIN sources /\ Cardinality(DOMAIN sources) = kSourceCacheCapacity
  <2>1. kept = DOMAIN sources /\ Cardinality(kept) >= kSourceCacheCapacity
    BY <1>1, <1>2, <1>7
  <2>2. DOMAIN sources # {}
    BY <1>1, <1>7, FS_EmptySet
  <2>3. PICK o : o \in Oldest(sources, DOMAIN sources)
    BY <1>5, <2>2, OldestExists
  <2>4. Oldest(sources, DOMAIN sources) = {o}
    BY <1>4, <1>5, <2>3, OneOldest
  <2>5. out = {o}
    BY <1>3, <1>7, <2>1, <2>4
  <2>6. o \in DOMAIN sources
    BY <2>3 DEF Oldest
  <2>7. ASSUME NEW i \in DOMAIN sources \ {o} PROVE sources[o].last_used < sources[i].last_used
    <3>1. sources[o].last_used <= sources[i].last_used
      BY <2>3 DEF Oldest
    <3>2. sources[o].last_used # sources[i].last_used
      BY <1>4, <2>6, <2>7 DEF UsesOrdered
    <3>. QED
      BY <1>5, <2>6, <2>7, <3>1, <3>2
  <2>. QED
    BY <1>7, <2>5, <2>6, <2>7
<1>. QED
  BY <1>6, <1>7

\* Every step that does not fail keeps the order of the uses.
LEMMA UsesStep ==
    ASSUME Shape, FaultsCounted, CachesBounded, UsesInOrder, [Next]_vars
    PROVE  UsesInOrder'
<1>1. CASE Initialize
  <2>1. UNCHANGED <<sources, counter, converted, conversions, failed>>
    BY <1>1 DEF Initialize, cache, driver, history
  <2>2. /\ SourceFound' <=> SourceFound
        /\ SourceFound => UNCHANGED cur
        /\ Converting' => Converting
    BY <1>1 DEF Initialize, driver, SourceFound, SourceOpen, DestinationOpen, Converting
  <2>. QED
    BY <2>1, <2>2, UsesKept
<1>2. CASE InitializeStep
  <2>1. /\ DOMAIN sources' = DOMAIN sources
        /\ \A i \in DOMAIN sources : sources'[i].last_used = sources[i].last_used
        /\ UNCHANGED <<converted, conversions, failed>> /\ counter' \in {counter, counter + 1}
    BY <1>2 DEF InitializeStep, cache, history
  <2>2. /\ SourceFound' <=> SourceFound
        /\ SourceFound => UNCHANGED cur
        /\ Converting' => Converting
    BY <1>2 DEF InitializeStep, SourceFound, SourceOpen, DestinationOpen, Converting
  <2>. QED
    BY <2>1, <2>2, UsesKept
<1>3. CASE InitializeFails
  <2>1. /\ DOMAIN sources' = {} /\ counter' = 0 /\ converted' = NeverConverted
        /\ UNCHANGED conversions /\ pc' = "closed"
    BY <1>3 DEF InitializeFails, DoReset
  <2>2. conversions \in Nat /\ \A i \in SourceIds : converted'[i] = 0
    BY <2>1 DEF FaultsCounted, NeverConverted
  <2>3. ~SourceFound' /\ ~Converting' /\ Settled' = {}
    BY <2>1 DEF SourceFound, SourceOpen, DestinationOpen, Converting, Settled
  <2>4. ConversionsCounted'
    BY <2>1, <2>2, <2>3 DEF ConversionsCounted, NeverConverted
  <2>5. UsesOrdered' /\ LatestCached'
    BY <2>1, <2>2, <2>3 DEF UsesOrdered, LatestCached
  <2>. QED
    BY <2>4, <2>5 DEF UsesInOrder
<1>4. CASE Reset
  <2>1. /\ DOMAIN sources' = {} /\ counter' = 0 /\ converted' = NeverConverted
        /\ UNCHANGED conversions /\ pc' = "closed"
    BY <1>4 DEF Reset, DoReset
  <2>2. conversions \in Nat /\ \A i \in SourceIds : converted'[i] = 0
    BY <2>1 DEF FaultsCounted, NeverConverted
  <2>3. ~SourceFound' /\ ~Converting' /\ Settled' = {}
    BY <2>1 DEF SourceFound, SourceOpen, DestinationOpen, Converting, Settled
  <2>4. ConversionsCounted'
    BY <2>1, <2>2, <2>3 DEF ConversionsCounted, NeverConverted
  <2>5. UsesOrdered' /\ LatestCached'
    BY <2>1, <2>2, <2>3 DEF UsesOrdered, LatestCached
  <2>. QED
    BY <2>4, <2>5 DEF UsesInOrder
<1>5. CASE \E b \in SourceBuffers, d \in DestinationBuffers : Convert(b, d)
  <2>. SUFFICES ASSUME ~failed PROVE ConversionsCounted' /\ UsesOrdered' /\ LatestCached'
    BY <1>5 DEF UsesInOrder, Convert
  <2>1. ConversionsCounted /\ UsesOrdered /\ LatestCached
    BY DEF UsesInOrder
  <2>2. /\ UNCHANGED <<sources, counter, converted>> /\ conversions' = conversions + 1
        /\ pc = "ready" /\ pc' = "source"
    BY <1>5 DEF Convert, cache
  <2>3. ~SourceFound /\ ~SourceFound' /\ Settled' = Settled
    BY <2>2 DEF SourceFound, SourceOpen, DestinationOpen, Settled
  <2>4. /\ conversions \in Nat
        /\ \A i \in SourceIds : converted[i] \in Nat /\ converted[i] <= conversions
    BY <2>1, UsesTyped
  <2>5. ConversionsCounted'
    <3>1. \A i \in SourceIds : converted[i] \in 0 .. conversions + 1 /\ converted[i] < conversions + 1
      BY <2>4
    <3>2. converted' = [i \in SourceIds |-> converted[i]]
      BY <2>1, <2>2 DEF ConversionsCounted
    <3>. QED
      BY <2>2, <3>1, <3>2 DEF ConversionsCounted
  <2>6. UsesOrdered' /\ LatestCached'
    BY <2>1, <2>2, <2>3 DEF UsesOrdered, LatestCached
  <2>. QED
    BY <2>5, <2>6
<1>6. CASE ConvertRejects
  BY <1>6 DEF ConvertRejects, ConvertFails, UsesInOrder
<1>7. CASE SourceHit
  <2>. SUFFICES ASSUME ~failed PROVE ConversionsCounted' /\ UsesOrdered' /\ LatestCached'
    BY <1>7 DEF UsesInOrder, SourceHit, history
  <2>. DEFINE id == Id(cur.src)
  <2>1. ConversionsCounted /\ UsesOrdered /\ LatestCached
    BY DEF UsesInOrder
  <2>2. /\ UNCHANGED <<converted, conversions, cur>> /\ counter' = counter + 1
        /\ pc = "source" /\ pc' = "destination"
    BY <1>7 DEF SourceHit, history
  <2>3. /\ id \in DOMAIN sources /\ DOMAIN sources' = DOMAIN sources
        /\ sources'[id].last_used = counter + 1
        /\ \A i \in DOMAIN sources : i # id => sources'[i].last_used = sources[i].last_used
    BY <1>7, SourceHitStep DEF Shape
  <2>4. SourceFound' /\ Settled' = DOMAIN sources \ {id} /\ Settled = DOMAIN sources
    BY <2>2, <2>3 DEF SourceFound, SourceOpen, DestinationOpen, Settled
  <2>5. counter \in Nat /\ \A i \in DOMAIN sources : sources[i].last_used \in Nat
    BY <2>1, UsesTyped
  <2>6. Source'.last_used = counter + 1
    BY <2>2, <2>3 DEF Source
  <2>. HIDE DEF id
  <2>7. ConversionsCounted'
    BY <2>1, <2>2 DEF ConversionsCounted, Converting
  <2>8. UsesOrdered'
    BY <2>1, <2>2, <2>3, <2>4, <2>5, <2>6 DEF UsesOrdered
  <2>9. LatestCached'
    BY <2>1, <2>2, <2>3, <2>4 DEF LatestCached
  <2>. QED
    BY <2>7, <2>8, <2>9
<1>8. CASE SourceMiss
  <2>. SUFFICES ASSUME ~failed PROVE ConversionsCounted' /\ UsesOrdered' /\ LatestCached'
    BY <1>8 DEF UsesInOrder, SourceMiss, history
  <2>. DEFINE id == Id(cur.src)
  <2>1. ConversionsCounted /\ UsesOrdered /\ LatestCached
    BY DEF UsesInOrder
  <2>2. PICK out \in SUBSET DOMAIN sources :
                 /\ out = Displaced(sources, id, kSourceCacheCapacity)
                 /\ DOMAIN sources' = (DOMAIN sources \ out) \cup {id}
                 /\ \A i \in DOMAIN sources \ out : i # id /\ sources'[i] = sources[i]
                 /\ sources'[id] = NewSource
                 /\ pc = "source" /\ pc' = "importSource" /\ counter' = counter + 1
                 /\ UNCHANGED <<cur, conversions, converted>>
    BY <1>8, SourceMissStep DEF Shape
  <2>3. Source'.last_used = counter + 1 /\ sources'[id].last_used = counter + 1
    BY <2>2 DEF NewSource, Source
  <2>4. id \in SourceIds
    BY <2>2 DEF Shape, InCall, Converting, SourceIds
  <2>5. /\ counter \in Nat /\ conversions \in Nat /\ DOMAIN sources \subseteq SourceIds
        /\ \A i \in DOMAIN sources : sources[i].last_used \in Nat
        /\ \A i \in SourceIds : converted[i] \in Nat
    BY <2>1, UsesTyped
  <2>6. SourceFound' /\ Settled' = DOMAIN sources \ out /\ Settled = DOMAIN sources
    BY <2>2 DEF SourceFound, SourceOpen, DestinationOpen, Settled
  <2>7. \/ /\ out = DOMAIN sources \cap {id}
           /\ id \in DOMAIN sources \/ Cardinality(DOMAIN sources) # kSourceCacheCapacity
        \/ /\ id \notin DOMAIN sources
           /\ Cardinality(DOMAIN sources) = kSourceCacheCapacity
           /\ \E o \in DOMAIN sources :
                 /\ out = {o}
                 /\ \A i \in DOMAIN sources \ {o} :
                        sources[o].last_used < sources[i].last_used
    <3>. HIDE DEF id
    <3>. QED
      BY <2>1, <2>2, MissDisplaces
  <2>. HIDE DEF id
  <2>8. ConversionsCounted'
    BY <2>1, <2>2 DEF ConversionsCounted, Converting
  <2>9. UsesOrdered'
    <3>1. \A i \in DOMAIN sources' : sources'[i].last_used <= counter'
      BY <2>1, <2>2, <2>3, <2>5 DEF UsesOrdered
    <3>2. \A i \in Settled' : sources'[i] = sources[i] /\ i \in Settled /\ i \in DOMAIN sources
      BY <2>2, <2>6
    <3>3. \A i \in Settled' : sources'[i].last_used < Source'.last_used
      BY <2>1, <2>3, <2>5, <3>2 DEF UsesOrdered
    <3>. QED
      BY <2>1, <2>2, <3>1, <3>2, <3>3 DEF UsesOrdered
  <2>10. LatestCached'
    <3>1. CASE /\ out = DOMAIN sources \cap {id}
               /\ id \in DOMAIN sources \/ Cardinality(DOMAIN sources) # kSourceCacheCapacity
      <4>1. DOMAIN sources' = DOMAIN sources \cup {id}
        BY <2>2, <3>1
      <4>2. \/ Cardinality(DOMAIN sources') = kSourceCacheCapacity
            \/ \A j \in SourceIds \ DOMAIN sources' : converted[j] = 0
        <5>1. CASE id \in DOMAIN sources
          <6>1. DOMAIN sources' = DOMAIN sources
            BY <4>1, <5>1
          <6>. QED
            BY <2>1, <6>1 DEF LatestCached
        <5>2. CASE Cardinality(DOMAIN sources) # kSourceCacheCapacity
          BY <2>1, <4>1, <5>2 DEF LatestCached
        <5>. QED
          BY <3>1, <5>1, <5>2
      <4>3. \A i \in Settled', j \in SourceIds \ DOMAIN sources' : converted[j] < converted[i]
        BY <2>1, <2>6, <4>1 DEF LatestCached
      <4>. QED
        BY <2>2, <4>2, <4>3 DEF LatestCached
    <3>2. ASSUME id \notin DOMAIN sources, Cardinality(DOMAIN sources) = kSourceCacheCapacity,
                 NEW o \in DOMAIN sources, out = {o},
                 \A i \in DOMAIN sources \ {o} : sources[o].last_used < sources[i].last_used
          PROVE  LatestCached'
      <4>1. Cardinality(DOMAIN sources') = kSourceCacheCapacity
        <5>1. IsFiniteSet(DOMAIN sources) /\ kSourceCacheCapacity \in Nat \ {0}
          BY CapacityAssumption DEF CachesBounded, Bounded
        <5>2. /\ IsFiniteSet(DOMAIN sources \ {o})
              /\ Cardinality(DOMAIN sources \ {o}) = kSourceCacheCapacity - 1
          BY <3>2, <5>1, FS_RemoveElement
        <5>3. id \notin DOMAIN sources \ {o}
          BY <3>2
        <5>4. Cardinality((DOMAIN sources \ {o}) \cup {id}) = kSourceCacheCapacity - 1 + 1
          BY <5>2, <5>3, FS_AddElement
        <5>. QED
          BY <2>2, <3>2, <5>1, <5>4
      <4>2. ASSUME NEW i \in Settled', NEW j \in SourceIds \ DOMAIN sources'
            PROVE  converted[j] < converted[i]
        <5>1. i \in DOMAIN sources \ {o} /\ i \in Settled
          BY <2>6, <3>2, <4>2
        <5>2. CASE j = o
          BY <2>1, <2>6, <3>2, <5>1, <5>2 DEF UsesOrdered
        <5>3. CASE j # o
          BY <2>1, <2>2, <3>2, <4>2, <5>1, <5>3 DEF LatestCached
        <5>. QED
          BY <5>2, <5>3
      <4>. QED
        BY <2>2, <4>1, <4>2 DEF LatestCached
    <3>. QED
      BY <2>7, <3>1, <3>2
  <2>. QED
    BY <2>8, <2>9, <2>10
<1>9. CASE ImportSource
  <2>1. /\ DOMAIN sources' = DOMAIN sources
        /\ \A i \in DOMAIN sources : sources'[i].last_used = sources[i].last_used
        /\ UNCHANGED <<converted, conversions, failed>> /\ counter' \in {counter, counter + 1}
    BY <1>9, ImportSourceStep DEF Shape, SourceImported
  <2>2. /\ SourceFound' <=> SourceFound
        /\ SourceFound => UNCHANGED cur
        /\ Converting' => Converting
    BY <1>9 DEF ImportSource, SourceFound, SourceOpen, DestinationOpen, Converting
  <2>. QED
    BY <2>1, <2>2, UsesKept
<1>10. CASE ImportSourceFails
  <2>1. UNCHANGED <<sources, counter, converted, conversions, failed>>
    BY <1>10 DEF ImportSourceFails, Faulty, FdsClosed, cache, driver
  <2>2. /\ SourceFound' <=> SourceFound
        /\ SourceFound => UNCHANGED cur
        /\ Converting' => Converting
    BY <1>10 DEF ImportSourceFails, Faulty, FdsClosed, driver, SourceFound, SourceOpen,
           DestinationOpen, Converting
  <2>. QED
    BY <2>1, <2>2, UsesKept
<1>11. CASE DropSource
  BY <1>11 DEF DropSource, ConvertFails, UsesInOrder
<1>12. CASE DestinationHit
  <2>1. /\ DOMAIN sources' = DOMAIN sources
        /\ \A i \in DOMAIN sources : sources'[i].last_used = sources[i].last_used
        /\ UNCHANGED <<converted, conversions, failed>> /\ counter' \in {counter, counter + 1}
    BY <1>12 DEF DestinationHit, driver, history
  <2>2. /\ SourceFound' <=> SourceFound
        /\ SourceFound => UNCHANGED cur
        /\ Converting' => Converting
    BY <1>12 DEF DestinationHit, SourceFound, SourceOpen, DestinationOpen, Converting
  <2>. QED
    BY <2>1, <2>2, UsesKept
<1>13. CASE DestinationMiss
  <2>1. /\ DOMAIN sources' = DOMAIN sources
        /\ \A i \in DOMAIN sources : sources'[i].last_used = sources[i].last_used
        /\ UNCHANGED <<converted, conversions, failed>> /\ counter' \in {counter, counter + 1}
    BY <1>13 DEF DestinationMiss, history
  <2>2. /\ SourceFound' <=> SourceFound
        /\ SourceFound => UNCHANGED cur
        /\ Converting' => Converting
    BY <1>13 DEF DestinationMiss, SourceFound, SourceOpen, DestinationOpen, Converting
  <2>. QED
    BY <2>1, <2>2, UsesKept
<1>14. CASE ImportDestination
  <2>1. /\ DOMAIN sources' = DOMAIN sources
        /\ \A i \in DOMAIN sources : sources'[i].last_used = sources[i].last_used
        /\ UNCHANGED <<converted, conversions, failed>> /\ counter' \in {counter, counter + 1}
    BY <1>14 DEF ImportDestination, history
  <2>2. /\ SourceFound' <=> SourceFound
        /\ SourceFound => UNCHANGED cur
        /\ Converting' => Converting
    BY <1>14 DEF ImportDestination, SourceFound, SourceOpen, DestinationOpen, Converting
  <2>. QED
    BY <2>1, <2>2, UsesKept
<1>15. CASE ImportDestinationFails
  <2>1. UNCHANGED <<sources, counter, converted, conversions, failed>>
    BY <1>15 DEF ImportDestinationFails, Faulty, FdsClosed, cache, driver
  <2>2. /\ SourceFound' <=> SourceFound
        /\ SourceFound => UNCHANGED cur
        /\ Converting' => Converting
    BY <1>15 DEF ImportDestinationFails, Faulty, FdsClosed, driver, SourceFound, SourceOpen,
           DestinationOpen, Converting
  <2>. QED
    BY <2>1, <2>2, UsesKept
<1>16. CASE DropDestination
  BY <1>16 DEF DropDestination, ConvertFails, UsesInOrder
<1>17. CASE BindSource
  <2>1. /\ DOMAIN sources' = DOMAIN sources
        /\ \A i \in DOMAIN sources : sources'[i].last_used = sources[i].last_used
        /\ UNCHANGED <<converted, conversions, failed>> /\ counter' \in {counter, counter + 1}
    BY <1>17 DEF BindSource, history
  <2>2. /\ SourceFound' <=> SourceFound
        /\ SourceFound => UNCHANGED cur
        /\ Converting' => Converting
    BY <1>17 DEF BindSource, SourceFound, SourceOpen, DestinationOpen, Converting
  <2>. QED
    BY <2>1, <2>2, UsesKept
<1>18. CASE Dispatch
  <2>1. UNCHANGED <<sources, counter, converted, conversions, failed>>
    BY <1>18 DEF Dispatch, cache, driver, history
  <2>2. /\ SourceFound' <=> SourceFound
        /\ SourceFound => UNCHANGED cur
        /\ Converting' => Converting
    BY <1>18 DEF Dispatch, driver, SourceFound, SourceOpen, DestinationOpen, Converting
  <2>. QED
    BY <2>1, <2>2, UsesKept
<1>19. CASE DispatchFails
  BY <1>19 DEF DispatchFails, ConvertFails, UsesInOrder
<1>20. CASE WaitForFence
  <2>. SUFFICES ASSUME ~failed PROVE ConversionsCounted' /\ UsesOrdered' /\ LatestCached'
    BY <1>20 DEF UsesInOrder, WaitForFence
  <2>. DEFINE id == Id(cur.src)
  <2>1. ConversionsCounted /\ UsesOrdered /\ LatestCached
    BY DEF UsesInOrder
  <2>2. /\ UNCHANGED <<counter, conversions>> /\ converted' = [converted EXCEPT ![id] = conversions]
        /\ pc = "wait" /\ pc' = "ready"
    BY <1>20 DEF WaitForFence
  <2>3. /\ id \in DOMAIN sources /\ DOMAIN sources' = DOMAIN sources
        /\ \A i \in DOMAIN sources : sources'[i].last_used = sources[i].last_used
    BY <1>20, WaitForFenceStep DEF Shape
  <2>4. /\ SourceFound /\ Converting /\ ~SourceFound' /\ ~Converting'
        /\ Settled = DOMAIN sources \ {id} /\ Settled' = DOMAIN sources
    BY <2>2, <2>3 DEF SourceFound, SourceOpen, DestinationOpen, Converting, Settled
  <2>5. /\ counter \in Nat /\ conversions \in Nat /\ DOMAIN sources \subseteq SourceIds
        /\ \A i \in DOMAIN sources : sources[i].last_used \in Nat
        /\ \A i \in SourceIds : converted[i] \in Nat
    BY <2>1, UsesTyped
  <2>6. \A i \in SourceIds : converted[i] < conversions
    BY <2>1, <2>4 DEF ConversionsCounted
  <2>7. \A i \in Settled : sources[i].last_used < sources[id].last_used
    BY <2>1, <2>4 DEF UsesOrdered, Source
  <2>. HIDE DEF id
  <2>8. /\ converted'[id] = conversions
        /\ \A i \in SourceIds : i # id => converted'[i] = converted[i]
    BY <2>1, <2>2, <2>3, <2>5 DEF ConversionsCounted
  <2>9. ConversionsCounted'
    <3>1. conversions \in 0 .. conversions
      BY <2>5
    <3>. QED
      BY <2>1, <2>2, <2>4, <3>1 DEF ConversionsCounted
  <2>10. conversions > 0
    BY <2>3, <2>5, <2>6
  <2>11. UsesOrdered'
    <3>1. \A i \in DOMAIN sources' : sources'[i].last_used <= counter'
      BY <2>1, <2>2, <2>3 DEF UsesOrdered
    <3>2. \A i \in Settled' : converted'[i] > 0
      BY <2>1, <2>4, <2>5, <2>8, <2>10 DEF UsesOrdered
    <3>3. ASSUME NEW i \in Settled', NEW j \in Settled'
          PROVE  /\ sources'[i].last_used < sources'[j].last_used
                        <=> converted'[i] < converted'[j]
                 /\ sources'[i].last_used = sources'[j].last_used => i = j
      <4>1. i \in DOMAIN sources /\ j \in DOMAIN sources
        BY <2>4, <3>3
      <4>2. CASE i # id /\ j # id
        BY <2>1, <2>3, <2>4, <2>5, <2>8, <4>1, <4>2 DEF UsesOrdered
      <4>3. CASE i = id /\ j # id
        BY <2>3, <2>4, <2>5, <2>6, <2>7, <2>8, <4>1, <4>3
      <4>4. CASE i # id /\ j = id
        BY <2>3, <2>4, <2>5, <2>6, <2>7, <2>8, <4>1, <4>4
      <4>5. CASE i = id /\ j = id
        BY <2>3, <2>5, <2>8, <4>1, <4>5
      <4>. QED
        BY <4>2, <4>3, <4>4, <4>5
    <3>. QED
      BY <2>4, <3>1, <3>2, <3>3 DEF UsesOrdered
  <2>12. LatestCached'
    <3>1. ASSUME NEW i \in Settled', NEW j \in SourceIds \ DOMAIN sources
          PROVE  converted'[j] < converted'[i]
      <4>1. j # id /\ converted'[j] = converted[j]
        BY <2>3, <2>8, <3>1
      <4>2. CASE i = id
        BY <2>6, <2>8, <3>1, <4>1, <4>2
      <4>3. CASE i # id
        BY <2>1, <2>4, <2>5, <2>8, <3>1, <4>1, <4>3 DEF LatestCached
      <4>. QED
        BY <4>2, <4>3
    <3>2. \A j \in SourceIds \ DOMAIN sources : converted'[j] = converted[j]
      BY <2>3, <2>8
    <3>. QED
      BY <2>1, <2>3, <3>1, <3>2 DEF LatestCached
  <2>. QED
    BY <2>9, <2>11, <2>12
<1>21. CASE WaitFails
  BY <1>21 DEF WaitFails, ConvertFails, UsesInOrder
<1>22. CASE UNCHANGED vars
  <2>1. UNCHANGED <<sources, counter, converted, conversions, failed>>
    BY <1>22 DEF vars, cache, driver, history
  <2>2. /\ SourceFound' <=> SourceFound
        /\ SourceFound => UNCHANGED cur
        /\ Converting' => Converting
    BY <1>22 DEF vars, driver, SourceFound, SourceOpen, DestinationOpen, Converting
  <2>. QED
    BY <2>1, <2>2, UsesKept
<1>. QED
  BY <1>1, <1>2, <1>3, <1>4, <1>5, <1>6, <1>7, <1>8, <1>9, <1>10, <1>11, <1>12, <1>13, <1>14,
     <1>15, <1>16, <1>17, <1>18, <1>19, <1>20, <1>21, <1>22
     DEF Next

\* The least recently used source is the one that was converted least
\* recently, so those converted last stay imported (EvictOldestSource).
THEOREM LatestSourcesStay == Spec => []RecentSourcesCached
<1>1. Init => UsesInOrder
  <2>. SUFFICES ASSUME Init PROVE ConversionsCounted /\ UsesOrdered /\ LatestCached
    BY DEF UsesInOrder
  <2>1. /\ pc = "closed" /\ DOMAIN sources = {} /\ converted = NeverConverted
        /\ conversions = 0
    BY DEF Init
  <2>2. ~SourceFound /\ ~Converting /\ Settled = {} /\ \A i \in SourceIds : converted[i] = 0
    BY <2>1 DEF SourceFound, SourceOpen, DestinationOpen, Converting, Settled, NeverConverted
  <2>. QED
    BY <2>1, <2>2 DEF ConversionsCounted, UsesOrdered, LatestCached, NeverConverted
<1>2. ConverterInv /\ UsesInOrder /\ [Next]_vars => UsesInOrder'
  BY UsesStep DEF ConverterInv
<1>3. ConverterInv /\ UsesInOrder => RecentSourcesCached
  <2>. SUFFICES ASSUME ConverterInv, UsesInOrder, pc = "ready", ~failed
                PROVE  /\ \A i \in DOMAIN sources : converted[i] > 0
                       /\ \A i \in DOMAIN sources, j \in SourceIds \ DOMAIN sources :
                              converted[j] < converted[i]
                       /\ \/ Cardinality(DOMAIN sources) = kSourceCacheCapacity
                          \/ \A j \in SourceIds \ DOMAIN sources : converted[j] = 0
    BY DEF RecentSourcesCached
  <2>1. Settled = DOMAIN sources
    BY DEF Settled, SourceFound, SourceOpen, DestinationOpen
  <2>. QED
    BY <2>1 DEF UsesInOrder, UsesOrdered, LatestCached
<1>. QED
  BY <1>1, <1>2, <1>3, ConverterInvariant, PTL DEF Spec
=============================================================================

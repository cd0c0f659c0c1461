--------------------------- MODULE FrameConverter ---------------------------
(***************************************************************************)
(* VulkanFrameConverter: the device it creates step by step, its caches of *)
(* imported RGB sources and NV12 destinations, the descriptor binding that *)
(* is rewritten only when a source's import changes, and the dispatch.     *)
(*                                                                         *)
(* The Vulkan driver is the state it keeps for the converter: the live     *)
(* objects, what DMA-BUF an import refers to, what a descriptor set is     *)
(* bound to and the layout an image is really in.  One handle names the    *)
(* objects of one import, and a freed handle may be returned again.        *)
(***************************************************************************)
EXTENDS Integers, Sequences, FiniteSets

CONSTANTS SourceBuffers, DestinationBuffers, \* <<buffer_id, signature>> pairs
          kSourceCacheCapacity, kDestinationCacheCapacity,
          SourceHandles, DestinationHandles, NoHandle,
          MaxConversions, MaxFaults

Handles == SourceHandles \cup DestinationHandles

ASSUME CapacityAssumption ==
    /\ kSourceCacheCapacity \in Nat \ {0}
    /\ kDestinationCacheCapacity \in Nat \ {0}
ASSUME BufferAssumption == \A b \in SourceBuffers \cup DestinationBuffers : b = <<b[1], b[2]>>
ASSUME HandleAssumption ==
    NoHandle \notin Handles /\ SourceHandles \cap DestinationHandles = {}
ASSUME BoundAssumption == MaxConversions \in Nat /\ MaxFaults \in Nat

VARIABLES
    pc, step,       \* the call in progress and its position in a list of steps
    cur,            \* the arguments of Convert
    sources,        \* source_resources_, by buffer_id
    destinations,   \* destination_resources_, by buffer_id
    counter,        \* cache_use_counter_
    fds,            \* duplicated descriptors neither closed nor consumed
    live,           \* driver: the objects that exist, <<kind, handle>>
    object,         \* driver: what the import of a handle refers to
    bound,          \* driver: what binding 0 of a descriptor set refers to
    layoutOf,       \* driver: the layout an image is in
    serial,         \* driver: number of imports made
    failed,         \* the component has signalled an error
    conversions, faults,
    converted       \* history: the conversion that read each source last

cache == <<sources, destinations, counter>>
driver == <<live, object, bound, layoutOf, serial>>
history == <<failed, conversions, faults, converted>>
vars == <<pc, step, cur, cache, fds, driver, history>>

Id(b) == b[1]
Sig(b) == b[2]
SourceIds == {Id(b) : b \in SourceBuffers}
DestinationIds == {Id(b) : b \in DestinationBuffers}
NoBuffer == <<0, "none">>
NoCall == [src |-> NoBuffer, dst |-> NoBuffer]
NoObject == [buffer |-> NoBuffer, serial |-> 0, handle |-> NoHandle]

(* What Initialize creates, in order; the shader module lives only while   *)
(* the pipeline is created.                                                *)
InitSteps == <<"instance", "device", "sampler", "setLayout", "pool", "pipelineLayout",
               "shader", "pipeline", "commandPool", "fence">>
(* What an import does, in order.  The steps "fd", "properties" and "bind" *)
(* create no object.                                                       *)
SourceSteps == <<"image", "fd", "properties", "memory", "bind", "view">>
DestinationSteps == <<"buffer", "fd", "properties", "memory", "bind", "yView", "uvView",
                      "set">>
SourceKinds == {"image", "memory", "view"}
DestinationKinds == {"buffer", "memory", "yView", "uvView", "set"}

NeverConverted == [i \in SourceIds |-> 0]

Init ==
    /\ pc = "closed" /\ step = 1
    /\ cur = NoCall
    /\ sources = <<>> /\ destinations = <<>> /\ counter = 0 /\ fds = 0
    /\ live = {} /\ serial = 0
    /\ object = [h \in Handles |-> NoObject]
    /\ bound = [h \in Handles |-> NoObject]
    /\ layoutOf = [h \in Handles |-> "UNDEFINED"]
    /\ failed = FALSE /\ conversions = 0 /\ faults = 0
    /\ converted = NeverConverted

Faulty == faults < MaxFaults /\ faults' = faults + 1

-----------------------------------------------------------------------------
(* Initialize and Reset.                                                   *)

Initialize ==
    /\ pc = "closed"
    /\ pc' = "init" /\ step' = 1
    /\ UNCHANGED <<cur, cache, fds, driver, history>>

Shader == {<<"shader", NoHandle>>}

\* One more object; creating the pipeline also destroys the shader module.
InitializeStep ==
    /\ pc = "init"
    /\ live' = (live \cup {<<InitSteps[step], NoHandle>>})
                 \ (IF InitSteps[step] = "pipeline" THEN Shader ELSE {})
    /\ IF step = Len(InitSteps) THEN pc' = "ready" /\ step' = 1
                                ELSE pc' = pc /\ step' = step + 1
    /\ UNCHANGED <<cur, cache, fds, object, bound, layoutOf, serial, history>>

\* DestroySource, DestroyDestination: the objects an entry has.
Objects(entry) == {<<k, entry.handle>> : k \in entry.made}
ObjectsOf(entries, ids) == UNION {Objects(entries[i]) : i \in ids}

Destroy(gone) ==
    /\ live' = live \ gone
    /\ object' = [h \in Handles |-> IF <<"memory", h>> \in gone THEN NoObject ELSE object[h]]
    /\ bound' = [h \in Handles |-> IF <<"set", h>> \in gone THEN NoObject ELSE bound[h]]
    /\ layoutOf' = [h \in Handles |-> IF <<"image", h>> \in gone THEN "UNDEFINED"
                                                             ELSE layoutOf[h]]

\* What Reset destroys: both caches, then the converter's own objects.
OwnObjects == {"instance", "device", "sampler", "setLayout", "pool", "pipelineLayout",
               "pipeline", "commandPool", "fence"} \X {NoHandle}
Cached == ObjectsOf(sources, DOMAIN sources) \cup ObjectsOf(destinations, DOMAIN destinations)

DoReset(shader) ==
    /\ Destroy(OwnObjects \cup Cached \cup shader)
    /\ sources' = <<>> /\ destinations' = <<>> /\ counter' = 0
    /\ pc' = "closed" /\ step' = 1
    /\ failed' = FALSE /\ converted' = NeverConverted
    /\ cur' = NoCall /\ serial' = 0
    /\ UNCHANGED <<fds, conversions>>

\* A step of Initialize fails; a failed pipeline still destroys the shader.
InitializeFails ==
    /\ pc = "init" /\ Faulty
    /\ DoReset(IF InitSteps[step] = "pipeline" THEN Shader ELSE {})

\* The session closes: Close, Flush, stop, or the converter's destructor.
Reset ==
    /\ pc = "ready"
    /\ DoReset({})
    /\ UNCHANGED faults

-----------------------------------------------------------------------------
(* Convert, called by QueueEncoderFrame for one source and destination.    *)

\* Convert returns an error; process() signals it and takes no more work.
ConvertFails ==
    /\ pc' = "ready" /\ step' = 1 /\ cur' = NoCall /\ failed' = TRUE

\* Mutant: the component goes on converting after an error.
MayConvertAlways == TRUE

MayConvert == ~failed

Convert(s, d) ==
    /\ pc = "ready" /\ MayConvert /\ conversions < MaxConversions
    /\ cur' = [src |-> s, dst |-> d] /\ conversions' = conversions + 1
    /\ pc' = "source"
    /\ UNCHANGED <<step, cache, fds, driver, failed, faults, converted>>

\* The source is not single-plane RGB, or ValidateDestination refuses.
ConvertRejects ==
    /\ pc = "source" /\ Faulty
    /\ ConvertFails
    /\ UNCHANGED <<cache, fds, driver, conversions, converted>>

\* EvictOldestSource, EvictOldestDestination: the entry used longest ago.
Oldest(entries, ids) ==
    {i \in ids : \A j \in ids : entries[i].last_used <= entries[j].last_used}

\* What leaves a cache before id is inserted: the entry of another layout,
\* then the oldest one when the cache is full.
Displaced(entries, id, capacity) ==
    LET stale == DOMAIN entries \cap {id}
        kept == DOMAIN entries \ stale
    IN  stale \cup (IF Cardinality(kept) >= capacity THEN Oldest(entries, kept) ELSE {})

Without(entries, ids) == [i \in DOMAIN entries \ ids |-> entries[i]]
With(entries, id, entry) ==
    [i \in DOMAIN entries \cup {id} |-> IF i = id THEN entry ELSE entries[i]]
Hit(entries, b) == Id(b) \in DOMAIN entries /\ entries[Id(b)].sig = Sig(b)

\* Mutant: a cache hit does not count as a use.
UsedKeepsAge(entries, id) == entries

Used(entries, id) == [entries EXCEPT ![id].last_used = counter + 1]

SourceHit ==
    /\ pc = "source" /\ Hit(sources, cur.src)
    /\ counter' = counter + 1
    /\ sources' = Used(sources, Id(cur.src))
    /\ pc' = "destination"
    /\ UNCHANGED <<step, cur, destinations, fds, driver, history>>

NewSource ==
    [sig |-> Sig(cur.src), handle |-> NoHandle, made |-> {}, layout |-> "PREINITIALIZED",
     last_used |-> counter + 1, generation |-> counter + 1]

SourceMiss ==
    /\ pc = "source" /\ ~Hit(sources, cur.src)
    /\ LET out == Displaced(sources, Id(cur.src), kSourceCacheCapacity)
       IN  /\ Destroy(ObjectsOf(sources, out))
           /\ sources' = With(Without(sources, out), Id(cur.src), NewSource)
    /\ counter' = counter + 1
    /\ pc' = "importSource" /\ step' = 1
    /\ UNCHANGED <<cur, destinations, fds, serial, history>>

DestinationHit ==
    /\ pc = "destination" /\ Hit(destinations, cur.dst)
    /\ counter' = counter + 1
    /\ destinations' = Used(destinations, Id(cur.dst))
    /\ pc' = "bindSource"
    /\ UNCHANGED <<step, cur, sources, fds, driver, history>>

NewDestination ==
    [sig |-> Sig(cur.dst), handle |-> NoHandle, made |-> {},
     source_generation |-> 0, last_used |-> counter + 1]

DestinationMiss ==
    /\ pc = "destination" /\ ~Hit(destinations, cur.dst)
    /\ LET out == Displaced(destinations, Id(cur.dst), kDestinationCacheCapacity)
       IN  /\ Destroy(ObjectsOf(destinations, out))
           /\ destinations' = With(Without(destinations, out), Id(cur.dst), NewDestination)
    /\ counter' = counter + 1
    /\ pc' = "importDestination" /\ step' = 1
    /\ UNCHANGED <<cur, sources, fds, serial, history>>

-----------------------------------------------------------------------------
(* ImportSource and ImportDestination, one call into the driver at a time. *)

Free(handles) == {h \in handles : \A o \in live : o[2] # h}

\* The descriptor of the DMA-BUF is duplicated, then consumed by the import.
FdStep(s) == fds' = CASE s = "fd" -> fds + 1
                      [] s = "memory" -> fds - 1
                      [] OTHER -> fds

\* An import refers to the DMA-BUF itself once its memory is allocated.
Refer(s, h, b) ==
    /\ object' = IF s = "memory"
                 THEN [object EXCEPT ![h] = [buffer |-> b, serial |-> serial + 1,
                                                handle |-> h]]
                 ELSE object
    /\ serial' = IF s = "memory" THEN serial + 1 ELSE serial

ImportSource ==
    /\ pc = "importSource"
    /\ LET s == SourceSteps[step]
           id == Id(cur.src)
       IN  \E h \in IF s = "image" THEN Free(SourceHandles) ELSE {sources[id].handle} :
             /\ live' = live \cup ({<<s, h>>} \cap (SourceKinds \X Handles))
             /\ sources' = [sources EXCEPT
                              ![id].handle = h,
                              ![id].made = @ \cup ({s} \cap SourceKinds)]
             /\ layoutOf' = IF s = "image" THEN [layoutOf EXCEPT ![h] = "PREINITIALIZED"]
                                           ELSE layoutOf
             /\ FdStep(s) /\ Refer(s, h, cur.src)
    /\ IF step = Len(SourceSteps) THEN pc' = "destination" /\ step' = 1
                                  ELSE pc' = pc /\ step' = step + 1
    /\ UNCHANGED <<cur, destinations, counter, bound, history>>

\* Mutant: the pool is one set short of the cache.
PoolOneShort == Cardinality({o \in live : o[1] = "set"}) >= kDestinationCacheCapacity - 1

\* The pool has one descriptor set for each entry of the cache.
PoolExhausted == Cardinality({o \in live : o[1] = "set"}) >= kDestinationCacheCapacity

ImportDestination ==
    /\ pc = "importDestination"
    /\ LET s == DestinationSteps[step]
           id == Id(cur.dst)
       IN  /\ s = "set" => ~PoolExhausted
           /\ \E h \in IF s = "buffer" THEN Free(DestinationHandles)
                                       ELSE {destinations[id].handle} :
                /\ live' = live \cup ({<<s, h>>} \cap (DestinationKinds \X Handles))
                /\ destinations' = [destinations EXCEPT
                                      ![id].handle = h,
                                      ![id].made = @ \cup ({s} \cap DestinationKinds)]
                /\ bound' = IF s = "set" THEN [bound EXCEPT ![h] = NoObject] ELSE bound
                /\ FdStep(s) /\ Refer(s, h, cur.dst)
    /\ IF step = Len(DestinationSteps) THEN pc' = "bindSource" /\ step' = 1
                                       ELSE pc' = pc /\ step' = step + 1
    /\ UNCHANGED <<cur, sources, counter, layoutOf, history>>

\* The descriptor of a failed import is closed, if it was duplicated: by
\* unique_fd, or by close() when the import had taken it over.
FdsClosed == 0

\* A call of the import fails.
ImportSourceFails ==
    /\ pc = "importSource" /\ Faulty
    /\ fds' = FdsClosed
    /\ pc' = "dropSource"
    /\ UNCHANGED <<step, cur, cache, driver, failed, conversions, converted>>

ImportDestinationFails ==
    /\ pc = "importDestination"
    /\ \/ Faulty
       \/ DestinationSteps[step] = "set" /\ PoolExhausted /\ UNCHANGED faults
    /\ fds' = FdsClosed
    /\ pc' = "dropDestination"
    /\ UNCHANGED <<step, cur, cache, driver, failed, conversions, converted>>

\* Mutant: the entry is erased but what it had created is not destroyed.
LeftoversForgotten(entries, id) == {}

Leftovers(entries, id) == Objects(entries[id])

\* The entry of a failed import is destroyed and erased.
DropSource ==
    /\ pc = "dropSource"
    /\ Destroy(Leftovers(sources, Id(cur.src)))
    /\ sources' = Without(sources, {Id(cur.src)})
    /\ ConvertFails
    /\ UNCHANGED <<destinations, counter, fds, serial, conversions, faults, converted>>

DropDestination ==
    /\ pc = "dropDestination"
    /\ Destroy(Leftovers(destinations, Id(cur.dst)))
    /\ destinations' = Without(destinations, {Id(cur.dst)})
    /\ ConvertFails
    /\ UNCHANGED <<sources, counter, fds, serial, conversions, faults, converted>>

-----------------------------------------------------------------------------
(* The descriptor update and Dispatch.                                     *)

Source == sources[Id(cur.src)]
Destination == destinations[Id(cur.dst)]

\* Mutant: the binding is rewritten when the view's handle changes, and
\* handles are recycled.
RebindByHandle == bound[Destination.handle].handle # Source.handle

Rebind == Destination.source_generation # Source.generation

BindSource ==
    /\ pc = "bindSource"
    /\ IF Rebind
       THEN /\ bound' = [bound EXCEPT ![Destination.handle] = object[Source.handle]]
            /\ destinations' = [destinations EXCEPT
                                  ![Id(cur.dst)].source_generation = Source.generation]
       ELSE UNCHANGED <<bound, destinations>>
    /\ pc' = "dispatch"
    /\ UNCHANGED <<step, cur, sources, counter, fds, live, object, layoutOf, serial, history>>

\* Resetting, recording or submitting the command buffer fails: nothing ran.
DispatchFails ==
    /\ pc = "dispatch" /\ Faulty
    /\ ConvertFails
    /\ UNCHANGED <<cache, fds, driver, conversions, converted>>

\* vkQueueSubmit: the recorded acquire barrier names the tracked layout.
Dispatch ==
    /\ pc = "dispatch"
    /\ pc' = "wait"
    /\ UNCHANGED <<step, cur, cache, fds, driver, history>>

\* The shader runs; its release barrier leaves the source in GENERAL.
GpuRuns == layoutOf' = [layoutOf EXCEPT ![Source.handle] = "GENERAL"]

WaitForFence ==
    /\ pc = "wait"
    /\ GpuRuns
    /\ sources' = [sources EXCEPT ![Id(cur.src)].layout = "GENERAL"]
    /\ converted' = [converted EXCEPT ![Id(cur.src)] = conversions]
    /\ pc' = "ready" /\ step' = 1 /\ cur' = NoCall
    /\ UNCHANGED <<destinations, counter, fds, live, object, bound, serial, failed,
                   conversions, faults>>

\* The wait fails; the device is waited for and may have run the commands.
WaitFails ==
    /\ pc = "wait" /\ Faulty
    /\ GpuRuns \/ UNCHANGED layoutOf
    /\ ConvertFails
    /\ UNCHANGED <<cache, fds, live, object, bound, serial, conversions, converted>>

-----------------------------------------------------------------------------

Next ==
    \/ Initialize \/ InitializeStep \/ InitializeFails \/ Reset
    \/ \E s \in SourceBuffers, d \in DestinationBuffers : Convert(s, d)
    \/ ConvertRejects
    \/ SourceHit \/ SourceMiss \/ ImportSource \/ ImportSourceFails \/ DropSource
    \/ DestinationHit \/ DestinationMiss \/ ImportDestination
    \/ ImportDestinationFails \/ DropDestination
    \/ BindSource \/ Dispatch \/ DispatchFails \/ WaitForFence \/ WaitFails

Spec == Init /\ [][Next]_vars

-----------------------------------------------------------------------------
(* Properties.                                                             *)

\* A dispatch reads the source that Convert was given: the binding of the
\* destination's descriptor set refers to the live import of that buffer, not
\* to an evicted one whose view handle was recycled (Convert, Dispatch).
DispatchReadsSource ==
    pc \in {"dispatch", "wait"} =>
        LET read == bound[Destination.handle]
        IN  /\ read.buffer = cur.src
            /\ read = object[Source.handle]
            /\ <<"view", Source.handle>> \in live
            /\ object[Destination.handle].buffer = cur.dst

\* The acquire barrier of a submitted dispatch names the layout the image is
\* in, although a failed wait leaves the two apart (Dispatch's source.layout).
AcquireNamesLayout ==
    pc = "wait" => Source.layout = layoutOf[Source.handle]

\* Between calls the driver holds exactly the objects the converter can still
\* reach, and no duplicated descriptor: evictions, layout changes and imports
\* that fail half-way leak nothing and destroy nothing that is in use.
NothingLeaks ==
    /\ pc = "ready" => live = OwnObjects \cup Cached /\ fds = 0
    /\ pc = "closed" => live = {} /\ fds = 0

\* The source buffers converted most recently are the ones still imported, so
\* a stream that cycles through at most the capacity never imports again.
RecentSourcesCached ==
    pc = "ready" /\ ~failed =>
        /\ \A i \in DOMAIN sources : converted[i] > 0
        /\ \A i \in DOMAIN sources, j \in SourceIds \ DOMAIN sources :
               converted[j] < converted[i]
        /\ \/ Cardinality(DOMAIN sources) = kSourceCacheCapacity
           \/ \A j \in SourceIds \ DOMAIN sources : converted[j] = 0

\* A conversion fails only because the driver or the input did: the
\* descriptor pool, sized for the cache, never runs out of sets.
FailsOnlyOnFault == failed => faults > 0

=============================================================================

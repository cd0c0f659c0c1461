# A TLA+ model of the Floral hardware codecs

This directory holds a specification of `hardware_floral_codec`, the Codec2
vendor components that drive V4L2 M2M (Qualcomm Venus) and VA-API video codecs.
It models the concurrent core of the program, checks it with TLC on small
instances and proves its main safety properties with TLAPS for every instance.
`PROJECT.json` maps each definition to the source lines it stands for and lists
runs, mutants, hazards, findings and theorems. It names files with the
repository's directory in front (`src/src/V4l2CodecSession.cpp`); the text below
names them from the repository root.

## The system

| Part | State it keeps | Operations |
| --- | --- | --- |
| V4L2 encoder session (`V4l2CodecSession.cpp`) | device fd, input slots with the image each keeps alive, timestamp metadata, dequeued capture slots not yet copied (`encoder_pending`), `draining` | Open, Close, Flush, QueueEncoderFrame, DequeueEncoderFrame, StartEncoderDrain |
| Timestamp metadata (`V4l2EncoderMetadata.h`) | one (timestamp, work index) pair per frame in flight | make a timestamp, take the first match |
| Output monitor (`V4l2OutputMonitor.h`) | a thread, a duplicated device fd, an eventfd, `stopping_`, `error_` | Start, Rearm, Stop, the thread's loop |
| Codec2 component, encoder (`FloralCodecComponent.cpp`) | `signalled_error_`, `signalled_eos_`, the output held back by a drain; SimpleC2Component keeps queued and pending works | process, drain, onFlush_sm, onStop, onReset |
| V4L2 decoder session | input slots, capture slots with their graphic blocks, setup flags, pending frames | QueueDecoderPacket, capture setup on a source change, refill, DequeueDecoderFrame, WaitForDecoderProgress, StartDecoderDrain |
| Codec2 component, decoder | codec configuration to send, postponed Open, the picture held back by a drain | process, drain, onFlush_sm, onStop, onReset |
| Decoder geometry | none | negotiate the capture format and visible rectangle |
| Parameter interface | Codec2 parameters, the sync-frame request | setters, GetEncoderSettings, ClearSyncRequest, UpdateOutputSize |
| VAAPI path (`FfmpegSession`) | libavcodec contexts, VA surfaces over the client's blocks, blocks kept aside, the frame converter | the same Codec2 handlers in the x86_64 build, the get_buffer2 callback |
| Vulkan converter (`VulkanFrameConverter.cpp`) | caches of imported sources and destinations, descriptor bindings, image layouts | Convert, the imports, eviction, dispatch |
| minigbm access | none | read DMA-BUF layout from a handle |
| Bitstream utilities, H.264 level | none | Annex-B conversion, parameter sets, level from size, rate and bitrate |
| Capability probe, specs, store | the probed list of codecs | probe devices, list and create components |
| Service | SELinux state, sandbox mode | choose and install the sandbox, register the store |

How they interact. Codec2 calls `queue_nb`, `drain_nb`, `flush_sm` and `stop` on
its own threads; SimpleC2Component turns them into items of one work thread,
which runs `process()`, `drain()`, `onFlush_sm()` and `onStop()`. The work thread
calls the session; the session makes ioctls on the device, whose firmware runs
beside it. The monitor thread polls the device and calls `drain_nb`, that is, it
writes into the queue of the thread that will one day join it. Works whose
output has not come when `process()` returns stay pending in SimpleC2Component
until `FinishOutput` finds them by index.

What is hard. Four parties run at once: firmware, monitor, work thread, client.
A capture buffer is dequeued in one call and copied in a later one; an input
buffer is released before or after its output arrives; a poll result is stale
when it is used; calls fail halfway; a wait ends early or times out; flush and
stop cut everything short. Unit tests reach the metadata helper and a few
schedules of the monitor (`tests/V4l2OutputMonitorTest.cpp`) and none of the
session. The hazards are listed, each at its line, in `PROJECT.json`.

What makes each part correct:
- session: no capture slot in two places, no image released while the driver
  reads it, every output attributed to its own work, end of stream last, a wait
  that the device can end;
- monitor: no lost readiness, at most one outstanding notification, no
  descriptor closed under the thread, a Stop that returns, errors reported;
- component: every output finds its work, every pending work finishes, nothing is
  left behind at end of stream;
- decoder: no capture slot lost, blocks owned once, every packet accounted for,
  end of stream last, configuration sent before the first access unit, a session
  opened with the client's picture size;
- converter: a dispatch reads the buffer it was given, barriers name the layout
  the image is in, nothing leaks, the caches never make a conversion fail;
- VA-API decoder: no reference picture overwritten, every surface freed once, a
  wait for a block that the client can end.

## The modules

**`EncoderSession`** models the session as the work thread sees it. Each call is
broken at its ioctls: `op` is the call, `pc` the point it has reached
(`inputs`, `capture`, `decide`, `wait`, `submit`, `copy`), and the driver's
actions may happen at every point. `inputs` is `encoder_inputs` (the frame a
queued slot keeps alive), `metadata` is `encoder_frame_metadata`, `pending` is
`encoder_pending`. Frames are numbers, and so are payloads: `payload[c]` is the
frame whose code is in mapped capture slot `c`, so that reading a recycled slot
shows. Repeated timestamps are legal and the instance has them. `Flush` is `Close`
followed by `Open`, and `Open` begins with `Close`, so `Open` stands for both.
The driver (external) codes frames in order, releases inputs in any order, may
return an empty buffer for a frame it skips, and marks the end of a drain with
LAST on the last payload or on an empty buffer. The client's discipline
(`MaySubmit`) is what the component keeps, and the proof about the component shows
that it does: only to a session that drains without ever having been configured
is nothing submitted until it is reopened. `delivered`, `accepted` and `failed` are
history variables.

**`OutputMonitor`** models `V4l2OutputMonitor` with its work thread, driver and
client. The thread's poll is an action of its own and leaves a snapshot
(`revents`) that the dispatch uses later. `Stop` is broken into the flag, the
wake-up, the join and the close. The component's work queue is a sequence of
items; a drain request of the running monitor is `"ready"` or `"error"`, one left
over from a monitor that was stopped since is `"stale"`. Encoding is counted
only (`coded`, `ready`); `stream` is the session's own state, from new and coding to
stopped by `V4L2_ENC_CMD_STOP` and ended. An end of stream that a work or a WITH_EOS
drain asks for stops the monitor first. It then ends well (`EosDrained`), fails
(`EosFails`), or is given up (`EosGivesUp`), because the draining wait also polls
POLLOUT and a returned input ends it with C2_NOT_FOUND: an EOS work then fails, while a
WITH_EOS drain returns C2_OK and leaves the session stopped, its output undrained and
the monitor ended. A work for such a session is refused a monitor
(`StartMonitorFails`). `reported` is a failure the client was told of; a monitor
started or rearmed, or a reset, answers it. A reset that fails to open the session
again is left to `EncoderComponent`. After `onStop` the client may call `start` again.

**`EncoderComponent`** composes the component with `EncoderSession` (an INSTANCE
with the same variables): the component's actions call the session's, wait until
its `pc` is idle again, and read the status in `ret`. Work `w` carries frame `w`.
`hold` is the output that `DrainV4l2Encoder` keeps one behind, `status` what
happened to each work. The monitor is reduced to what `OutputMonitor` shows of
it: armed, notified, and rearmed by a drain. `onInit` and `onFlush_sm` are `Reset`;
`onStop` and `onReset` are `Stop`.

**`DecoderSession`** models the decoder half of the session the same way. A
capture slot is empty or pins the graphic block lent to the driver; the blocks
move from the pool to the driver, into `decoder_pending`, to the client and back.
A source change makes the next call release the capture queue and set it up
again; the setup takes one block per slot, stops when the pool is empty and is
resumed by a later call (`setup`). `refill` is the slot between DQBUF and the QBUF
of its new block, and `out` then holds the block that was dequeued: an empty buffer's
block is in a local of `PumpDecoderCapture` and returns to the pool only after the
refill (`LocalBlock`). A setup that fails leaves `slots` empty and the other flags as they
were. When it fails because REQBUFS gave fewer buffers than the driver's minimum, these
stay allocated (`short`), and a setup still pending from an earlier change then streams
on with no slot of its own (`StreamOnCapture`); otherwise STREAMON is refused
(`StreamOnEmptyQueue`). The driver (external) decodes packets in order, outputs up to
`MaxHeld` pictures behind and in any order, may drop a damaged picture, changes
the resolution between packets and ends a drain or a resolution with LAST.
`lostSlots`, `accepted`, `delivered`, `discarded` and `sawLast` are history.

**`DecoderComponent`** composes the component with `DecoderSession`. It has the
Open put off to the first work (`sessionPending`), the codec configuration that
travels with the next access unit and again after a flush (`configPending`),
`QueueV4l2DecoderPacket` with its loop and its deadline, and the picture that
`DrainV4l2Decoder` holds one behind (`hold`). Packet `w` belongs to work `w`.

**`WorkLifecycle`** is the abstract specification of both: works are taken in the
order they were queued, each leaves the component once, finished, failed or
flushed, and after an error or an end of stream no work is taken until a reset.
The refinement mapping sends the `status` of a work to the client's view of it
and `signalled_error_` or `signalled_eos_` to `closed`; TLC checks
`WorksKeepLifecycle`, that is `Lifecycle!Spec`, in both component runs.

**`FrameConverter`** models `VulkanFrameConverter`: the device created step by
step, the two caches with their counter and eviction, the imports broken at each
Vulkan call so that every one of them can fail, the descriptor binding that is
rewritten only for another import, and dispatch, submission and fence wait. The
Vulkan driver is the state it keeps: live objects, what an import refers to, what
a descriptor set is bound to, the layout an image is in. Freed handles are
returned again, so that a comparison by handle shows. `converted` is history: the
number of the last conversion that read a source, against which
`RecentSourcesCached` holds the eviction.

**`VaapiDecoder`** models the decoder of the VA-API build: `ProcessDecoder` and
`DrainDecoder` around `FfmpegSession`. libavcodec (external) is called on the work
thread: it takes a packet, gives up pictures it has shown, asks `get_buffer2` for
a buffer, decodes and outputs in its own order. `AcquireDecoderBlock` is one
action per fetched block. Each slot of the client's pool is free, with the
client, kept in `decoder_pending_blocks_` or dequeued for a picture; a slot goes
back to its pool when the last handle of its block is gone (`Settled`). A search
that erased blocks from `decoder_pending_blocks_` has given their slots back before
the next fetch (`AfterSearch`). The client may return a slot while the codec still
refers to the picture in it. `Reset` is `Close` followed by `Open`.

`MCEncoderSession` and `MCEncoderComponent` give the timestamps of the small
instances: frames 1 and 2 share one. `MCDecoderSession` and `MCDecoderComponent`
add that blocks are interchangeable, `MCFrameConverter` that handles are, and the
buffers: one more of each kind than a cache holds, one of them with two signatures.
The proofs about a module are in the module with `Proofs` after its name, those
about what the encoder session hands out in `EncoderOutputProofs`.

Operators whose comment begins with "Mutant:" are deliberately wrong variants of
the definition that follows them. No specification uses them; each is there to
show that a property notices that mistake.

## The runs

| Run | Instance | Shows |
| --- | --- | --- |
| `encoder_session` | 2 input and 2 capture slots, 3 frames, 1 fault, 1 skip, 2 opens | `CaptureSlotsConserved`, `InputsPinned`, `MetadataBounded`, `OutputAttribution`, `EveryOutputMatches`, `EosAfterEveryFrame` |
| `encoder_backpressure` | 1 input and 1 capture slot, 4 frames, 1 skip | `WaitIsProductive`: the call never polls for what its own caller holds |
| `output_monitor` | 3 works, 1 client drain, 1 flush or stop, 1 fault, hang-up | safety and the three liveness properties of the monitor |
| `encoder_component` | 1 and 1 slots, 3 works, 1 fault, 2 opens | `EveryOutputFindsItsWork`, `EosFinishesEverything`, `PendingWorkHasFrame`, and the refinement `WorksKeepLifecycle` |
| `encoder_progress` | 2 and 1 slots, 2 works, 2 opens, fairness | `PendingWorkFinishes` |
| `encoder_queue_timeout` | 2 and 2 slots, 3 frames, no faults | violation: a full queue answers C2_TIMED_OUT |
| `drain_retry` | 2 and 1 slots, 2 works, 1 fault | violation: an output is lost after a failed allocation |
| `decoder_session` | 2 input and 2 capture slots, 3 blocks, 3 packets, 1 fault, 1 damaged picture, 1 source change, 2 opens | `BlocksHaveOneHolder`, `CaptureSlotsConserved`, `PacketsAccounted`, `EosAfterEveryFrame` |
| `decoder_component` | 1 and 1 slots, 2 blocks, 3 works, 1 fault, 3 opens, 2 drains or flushes | `EveryOutputFindsItsWork`, `EosFinishesEverything`, `PendingWorkHasFrame`, `ParameterSetsSent`, `SizedBeforeInput`, and the refinement `WorksKeepLifecycle` |
| `decoder_stall` | 1 and 1 slots, 2 blocks, 5 works, no faults | violation: a full input queue is fatal once a refill was blocked |
| `frame_converter` | 2 cache entries of each kind, 4 conversions, 1 fault | `DispatchReadsSource`, `AcquireNamesLayout`, `NothingLeaks`, `RecentSourcesCached`, `FailsOnlyOnFault` |
| `vaapi_decoder` | 2 pools of 3 slots, 2 references, 4 works, a change of size or none, 1 fault, 1 drain, flush, reset or pool change | `ReferencesKept`, `ReferencesAccounted`, `AcquireCanEnd`, `EosFinishesEverything` |

Bounds. Two slots per queue are the smallest number that lets slots be confused,
returned out of order and exhausted; three frames against two slots reach
backpressure, reuse of a slot and a repeated timestamp behind a different one.
With one slot per queue every wait is at its limit. One fault reaches every
error path, and a second open every path through Close with work in flight. In
the monitor three works allow one output to be coded while another's
notification is queued and a third is being drained; one reset of each kind
crosses each of these. In the decoder one block more than capture slots lets a
refill succeed while the client holds a picture, and fail while it holds two; the
second open is needed to see what a flush leaves behind, the third to see a
flush after a failure. The converter needs one buffer more than a cache holds to
evict, and four conversions to come back to an evicted one. Three slots against
two references are the smallest pool that satisfies the slack
`kOutputConsumerSlack` gives it; four works fill it, return to a slot that is
still a reference and change the size in between. The constants bound only what
the environment does: `MaxFrames`, `MaxPackets`, `MaxFaults`, `MaxSkips`,
`MaxChanges`, `MaxOpens`, `MaxWorks`, `MaxConversions`, `MaxDrains`,
`MaxClientDrains`, `MaxResets`. The proofs hold for all values.

Deadlock. Runs turn the deadlock check off where the environment's bound ends
the behaviour: the client may stop submitting at any time.

Fairness. `OutputMonitor` assumes weak fairness of the monitor thread, of the
work thread and of the firmware's output: both threads are ordinary scheduled
threads that never wait on a lock of each other, and a started V4L2 job ends
unless the device hangs up (a separate, unfair action). A failing poll is not
part of the fair step. `ReadyOutputIsDrained` excuses a component in error, a failure that
the client was told of and has not answered, and a session that a WITH_EOS drain left
stopped. After a NO_EOS drain that fails the monitor stays disarmed; the property then
asks that the next drain which succeeds puts it back to work. `EncoderComponent` assumes the same of the work thread's
steps inside and outside the session, of the firmware and of the monitor. Nothing
is assumed of the client. `PendingWorkFinishes` excuses works once an error was
reported, a WITH_EOS drain gave up early (the component then neither flushes nor
drains on its own) or the firmware skipped a frame.

## What the runs found

1. *A full queue may answer C2_TIMED_OUT* (`encoder_queue_timeout`). The comment
   on `kEncoderInputWaitMs` asks for C2_BLOCKING; after 20 ms without progress the
   call returns the poll's C2_TIMED_OUT, and `ProcessV4l2Encoder`, which retries
   only C2_BLOCKING, puts the component in error.
2. *A failed output allocation in a drain loses a frame* (`drain_retry`).
   `DrainV4l2Encoder` keeps one output back and drops it on its error returns; the
   session has already handed it out, so the retry promised by the comment in
   `CopyEncoderFrame` cannot bring it back.
3. *A blocked refill costs the decoder a capture buffer* (`decoder_stall`).
   `PumpDecoderCapture` dequeues a picture and refills its slot from the block
   pool. When the client holds every block the refill answers C2_BLOCKING, the
   slot stays empty, and no later call tries it again; only a new capture setup
   does. Once the last slot is gone the input queue stays full and
   `QueueV4l2DecoderPacket`, whose comment says that a full queue is not fatal,
   fails after five seconds with C2_TIMED_OUT although the client has returned
   every picture.

The models also show behaviours that contradict no statement of the repository
as it is written:
- a skipped frame leaves its metadata entry behind until the next flush;
- the wait of a draining dequeue is ended by a finished input, so an EOS work may
  fail with C2_TIMED_OUT while the firmware still works, and a WITH_EOS drain may
  return C2_OK without having seen the end of stream. In the decoder such a drain
  leaves the session draining, and the slot of LAST is not refilled, so works
  submitted without a flush stall;
- a WITH_EOS drain of the decoder flushes the session without marking the
  parameter sets for resending; only `onFlush_sm` does (`ParameterSetsSent` exempts
  it);
- after such a give-up the encoder's monitor is stopped and its session refuses a new
  one, so that no output is drained unless the client asks for it;
- a capture setup for which REQBUFS gives too few buffers leaves them with the driver and
  `decoder_capture` empty. If a setup was still pending, the next call streams on and
  takes the queue for configured although no buffer will ever be queued to it
  (`CaptureSlotsConserved` names this case and shows that there is no other);
- a failing drain of the decoder loses the picture held back, as in the encoder;
- a codec-configuration work with the EOS flag ends the stream without draining;
- `DequeueDecoderFrame` reports the LAST of a change of resolution as it reports the
  LAST of a drain, so that a drain that meets it signals the end of stream early: an
  EOS work is finished before its own picture has come, and the picture then finds
  no work. `EveryOutputFindsItsWork` says nothing once the resolution has changed
  (`changes = 0`);
- a drain of the client rearms the monitor while the monitor's own request is
  still queued, so that two notifications are outstanding. The second drain finds
  nothing. While only the monitor's requests are acknowledged there is at most
  one, which is proved;
- in the VA-API decoder the blocks kept aside stay dequeued while direct output is
  disabled, and the CPU path, unlike `AcquireDecoderBlock`, takes C2_BLOCKING for
  an error.

## What is proved

All proofs are for arbitrary constants that satisfy the named assumptions of their
module: positive queue and cache sizes, natural bounds, a pool
with the slack that the component asks for (`PoolAssumption`), a null block, buffer
and handle that are none (`BlockAssumption`, `HandleAssumption`), and buffers that
are pairs (`BufferAssumption`); the constants of `DecoderComponent` are those of its
session (`SessionAssumption`). None of the theorems depends on a bound of the
environment. Each module of proofs begins with its inductive invariant, split into
named parts; TLC checked the parts on the instance of the run before they were
proved.

`OutputMonitorProofs`: `TypeCorrect`, `DescriptorsSafe`, `DeadThreadNoticed`,
`OneOutstandingNotification`. The last is not inductive. The argument is about a
token, the right to notify: while the thread runs and nobody else acknowledges,
it is in one place: the thread is armed, or about to notify, or its notification
is queued or being served, or the acknowledgement is in the eventfd
(`TokenInOnePlace`). To carry that through the stale poll snapshot, `IInv` adds
that what the snapshot saw armed or signalled still is (`SnapshotHolds`), which
item the work thread can be handling at each point (`ItemHandled`), that an error
request is the last one of its thread (`ErrorEndsThread`), and that a halted
component has no monitor (`HaltedIsIdle`).

Three further theorems are the safety halves of the monitor's liveness properties:
the states they exclude are those in which everyone waits for someone else.
`NoWakeupLost`: a monitor that works is armed, or about to notify, or an
acknowledgement is in the eventfd, or its request is queued or being served. Unlike
the token it holds with foreign acknowledgements too. `JoinedThreadIsWoken`: when Stop
joins a thread that is in poll, the eventfd has been written. `RecordedErrorIsRequested`:
from the error flag to the request to the failing drain the error is always on its
way, and no drain takes it for an acknowledgement. Each is inductive relative to `IInv`.

`EncoderSessionProofs`: `TypeCorrect`, `InputsStayPinned`, `MetadataFits`,
`CaptureSlotsSafe`. The invariant adds where in which call `pc` can be and what is
known there (`PointInCall`: a call that copies has a pending entry; one that
submits to a configured encoder has room for a metadata entry) and that an
unconfigured session has nothing in flight but its own end of stream
(`UnconfiguredIsEmpty`). Slot conservation rests on lemmas about the slots of a
queue under Append and Tail; they need the entries to be distinct, which is part of
the property.

`EncoderOutputProofs`, on top of it: `OutputsAttributed`, `OutputsMatch`,
`EosComesLast`, `WaitsAreProductive`, that is the remaining invariants of the
session. The difficulty is that a payload finds its work by timestamp only, and
timestamps repeat. With skips the payload may take the entry of an earlier frame;
what is invariant is that every frame still in the driver has an entry of its own
with its timestamp, an injection from the frames in flight to the queued ones
(`Answered`). When a payload of frame f takes the entry of another frame, that
frame takes over the entry of f (`AnsweredTaken`). Without skips and failures the
injection is the identity (`Matched`), and the entry taken is the payload's own
because the payload's frame is the oldest in flight and the first match is the
oldest entry (`TakesOwnEntry`); from that follows that frames leave in the order
in which they came and none is lost (`LeaveInOrder`, `NoneLost`). That no slot is
refilled before it was copied enters through `CaptureSlotsConserved`: the driver
writes only into slots that no queue holds (`OutAppend`). The end of stream is
last because it ends the driver or an unconfigured session (`EosLast`).
`FramesLeaveOnce` needs no such case distinction: the frames with a metadata entry,
those in `encoder_pending` and those handed out are always three disjoint sets
(`Apart`), whatever fails and whatever the firmware skips.

`DecoderSessionProofs`: `TypeCorrect`, `OneHolderPerBlock`, `SlotsConserved`,
`PacketsInOnePlace`, `EosComesLast`, from one invariant `SessionInv`. Its parts say
which buffers the driver has (`DriverHolds`, from which the two cardinalities of
`BlocksHaveOneHolder` follow by counting), that the holders of blocks are disjoint
(`BlocksApart`), that no place has a packet twice (`Accounts`), that
nothing follows LAST (`LastIsLast`), which slots are idle and why (`SlotsCirculate`)
and what is still to come before an end of stream (`EndInOrder`). That a packet is
queued only before a drain (`SubmitsOpen`) is needed for the last part alone. The
component does not keep to that after a drain that gave up, so what a caller may rely on
in any case is a second invariant, `CallerInv`: it keeps the other parts and adds what
the capture queue and the calls are at (`StreamState`, `CallState`), that without a
change of resolution the queue is set up once and LAST is the last frame to come
(`OneLayout`), and that without skips nothing is given up (`NothingGivenUp`).
`StepEffect` then says in a few words what a step of a call or of the driver does to
the packets: it queues one (`Submits`), hands one out (`HandsOut`) or moves them on
(`Moves`).

`EncoderComponentProofs` and `DecoderComponentProofs`: `EncoderKeepsLifecycle` and
`DecoderKeepsLifecycle`, the refinement of `WorkLifecycle`. The initial states map
to initial states, and every step maps to a step or a stutter under `WorkInv`: the
works before the current one, and only they, have been answered (`WorksInOrder`); a
component that works is neither in error nor at its end (`WorkIsOpen`); the
session's counter of frames or packets follows the works (`FrameOfWork`,
`PacketOfWork`), through the retry of a full queue as well; and what the control
points of component and session say about each other (`PointInWork`). `AnswersStay`
draws the client's conclusion from the refinement: no step changes the answer of a
work that was answered, and a closed component answers with errors only. The decoder's
module also has `InputIsSized` and `ParameterSetsFollowFlush`, from `SetupInv`,
which adds that the postponed Open has been made by the time anything is queued
(`OpenedForWork`).

`EncoderComponentProofs` then composes the two halves of the encoder.
`SessionKeptInComponent`: every invariant of `EncoderOutputProofs` holds of the
session inside the component too. The component's steps are the session's calls
(`SameCalls`, `SameSteps`, `SameDriver`), it never makes one that `MaySubmit` excludes
(`ComponentMaySubmit`), and what it changes of the session's variables between calls
disturbs nothing (`Out!OutInvCaller`). `OutputsFindTheirWorks`,
`PendingWorksHaveFrames` and `EosFinishesAll` follow from `StreamInv`, which relates
works to frames. Without an error, what the session or the drain loop holds belongs
to a work that is pending or current (`FramesHaveWorks`). Without errors and skips, a
pending work's frame was accepted before any drain (`PendingAccepted`), and a frame
that was handed out is in the hand of the drain loop or its work is no longer pending
(`Published`). The session's invariant says that an accepted frame is queued, waiting
or handed out (`AcceptedIsSomewhere`), so that a pending work's frame is inside the
component, and that an end of stream means all were handed out, so that no work is
left pending (`EosLeavesNothing`). A call that fails leaves the frames where they are
and its error is reported by the component's next step (`FailuresReported`), after
which the properties promise nothing until the next reset.

`PendingWorksAreWatched` is the safety half of `PendingWorkFinishes`: between two calls,
errors, skips and a WITH_EOS drain that gave up apart, a pending work needs no further
call of the client, because the monitor is armed or its request is queued. Its invariant is `MonitorWatches`: the monitor is off only when no
work is pending or while an end of stream is drained, and once it has notified, its
request is queued or the drain that rearms it is under way. The two ends of stream are
where `StreamInv` is needed: they stop the monitor, and leave no work behind.

`DecoderComponentProofs` does the same for the decoder: `SessionKeptInComponent`,
`OutputsFindTheirWorks`, `PendingWorksHaveFrames`, `EosFinishesAll`, from a `StreamInv`
of its own. Two things make it harder than in the encoder. The driver outputs pictures
in any order, so that nothing follows from their order: the sets of packets in the
driver (`InDriver`), on their way out (`Coming`) and handed out are followed through
every step. And LAST may be on its way when a packet is queued, because a drain that
gave up leaves the session draining. `Late` says that the driver can then have no
packet but the current work's, and none when the drain loop comes to its end;
`EosLeft` that nothing is on its way behind an end of stream that was handed out. An
end of stream without a picture is the session's own: it is there only when the
session had no input, and the drain loop takes it before the next work is processed
(`BareIsOwn`, `OwnEos`). With that, a work that ends the stream leaves no other
pending (`NothingAfterEos`), and neither does a WITH_EOS drain (`EndLeavesNothing`), so
that the flush which follows it loses no work.

`VaapiDecoderProofs`: `ReferencesAgree`, `ReferencePicturesKept`,
`EndOfStreamIsComplete`, `AcquireNeverStarves`. `RefInv` ties the pictures to works
that were submitted (`Numbered`) and the buffers to references (`BuffersHeld`); the
sets of surfaces, references and active buffers then move together. `EosInv` says
where a pending work's picture still is (`PendingAwaited`) and that a draining codec
takes no packet and its loop ends empty (`DrainsOut`). `AcquireNeverStarves` is a
pigeonhole argument: the references, the output held back and the picture to come
are fewer than the slots of the pool, so that some slot is not among the blocks set
aside; the fetched blocks are searched in their order and the oldest is found by the
well-ordering of the naturals.

`FrameConverterProofs`: `DispatchIsBound`, `BarrierNamesLayout`, `ObjectsAccounted`,
`PoolNeverRunsOut`, `LatestSourcesStay`. `ConverterInv` says of every entry which
objects it has at which step of an import (`SourceParts`, `DestinationParts`), that
handles are apart, that the live objects are the converter's own and the cached ones
(`LiveAccounted`), that no generation is used twice (`GenerationsApart`) so that a
descriptor binding which names a generation is bound to that import
(`BindingsCurrent`), and that the tracked layouts are the real ones until a
conversion fails (`LayoutsTracked`). The descriptor pool suffices because the sets in
use are the image of the other cached destinations (`PoolSuffices`), and an entry
has been evicted before a further one is imported (`DisplacedMakesRoom`, by the
well-foundedness of `last_used`). `LatestSourcesStay` needs an invariant of its own
(`UsesInOrder`): the order of `last_used` is the order of the conversions that read
the sources, and no source outside the cache was read after one inside.

Only model-checked:
- all liveness properties (`ReadyOutputIsDrained`, `StopReturns`, `HangUpIsReported`,
  `PendingWorkFinishes`): TLAPS does not reason about fairness or ENABLED here; the
  invariants they rest on are proved (`NoWakeupLost`, `JoinedThreadIsWoken`,
  `RecordedErrorIsRequested`, `PendingWorksAreWatched`);
- the three violations, which are counterexamples.

## Abstractions

Kept: every state change, guard, early return and error path of the mapped
code, in its order. Abstracted: format and control negotiation, pixel
conversion, fences and mappings are steps that succeed or fail; a timeout may
happen at any moment at which the device is not ready; statuses other than
C2_BLOCKING, C2_TIMED_OUT and C2_NOT_FOUND that the component treats alike are
one `ERROR`; codec configuration data on the first output is left out. Buffers
with an impossible index or length count as faults.

Assumptions about what is not in the repository:
- the V4L2 driver handles buffers as the kernel's interface says; a poll is ready
  when a buffer or an event is;
- the decoder's access units are AVC or HEVC, for which configuration is stored
  and sent by the component. After a change of resolution, or when the driver drops a
  damaged picture, the driver may give up pictures; the properties about works
  exempt that (`changes = 0`, `skips = 0`);
- a buffer id (`GetMinigbmDmaBufImage`, `GetMinigbmVaDescriptor`) names one buffer;
- libavcodec runs single-threaded, so that `get_buffer2` is called on the work
  thread, and gives up a picture only after outputting it;
- a pool asked for CPU access replaces a slot's buffer rather than handing out a
  render target: the CPU path does not consult `decoder_active_buffers_`.

## Not modelled

The VA-API encoder and `VaapiFrameConverter` run to completion on one thread; its
import cache is the smaller sibling of the Vulkan converter's. The parameter
interface keeps one value per parameter; its race between a sync-frame request
and `ClearSyncRequest` is listed as a hazard. Decoder geometry, bitstream
rewriting and level selection are stateless arithmetic on bytes and integers;
capability probe, store and service start-up are straight-line code that reads the
platform. Pixel work, minigbm metadata and the policy files have no behaviour a
model checker would explore.
Whether the base class calls onInit when a stopped component is started again is
not in the repository. `DecoderComponent` has both: its stop may or may not be
followed by onInit. In `EncoderComponent` a stop leaves the session closed until a
reset, so that works queued in between fail. In `VaapiDecoder` a reset is Close and
Open.

## Plan

1. `EncoderSession`, `OutputMonitor`, `EncoderComponent` and their first proofs
   (done).
2. `DecoderSession`, `DecoderComponent`, `WorkLifecycle` with its two refinements,
   `FrameConverter`, `VaapiDecoder` (done).
3. Proofs: every invariant of the sessions, of the converter, of the VA-API decoder,
   and the two refinements (done).
4. The invariants of the compositions (`EveryOutputFindsItsWork`,
   `PendingWorkHasFrame`, `EosFinishesEverything`) of both codecs (done). With them every
   safety property that a passing run checks is also proved.
5. The sync-request race of the parameter interface; geometry and level selection
   as operators against reference definitions.

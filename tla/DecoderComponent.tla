-------------------------- MODULE DecoderComponent --------------------------
(***************************************************************************)
(* FloralCodecComponent as a decoder on the V4L2 session: process(),       *)
(* drain(), onFlush_sm(), onStop() and onInit() on the work thread, the    *)
(* session that is opened by the first work, the codec configuration that  *)
(* travels with the first access unit, and the session and driver of       *)
(* DecoderSession, whose calls the work thread makes step by step.         *)
(*                                                                         *)
(* Work w submits packet w, so nextPacket is also the next work.           *)
(***************************************************************************)
EXTENDS Naturals, Sequences, FiniteSets

CONSTANTS NumInputs, NumCaptures, Blocks, NoBlock, MaxHeld,
          MaxPackets, MaxFaults, MaxSkips, MaxChanges, MaxOpens,
          MaxDrains               \* drains and flushes the client asks for

ASSUME PacketAssumption == MaxPackets \in Nat

VARIABLES opened, inputs, slots, configured, setup, pending, draining, received,
          devIn, devDone, devHeld, devCap, devOut, devEvents, devState,
          pc, op, waited, blocked, ret, refill, out,
          client, nextPacket, accepted, delivered, discarded, lostSlots, sawLast, eos,
          faults, skips, changes, opens

Session == INSTANCE DecoderSession

\* The constants are a session's.
ASSUME SessionAssumption ==
    /\ Session!QueueAssumption /\ Session!HeldAssumption
    /\ Session!BlockAssumption /\ Session!BoundAssumption

VARIABLES
    cpc, after,  \* the work thread's program point, what follows a drain loop
    cur, kind,   \* the work being processed and what it carries
    done,        \* its workletsProcessed
    hold,        \* DrainV4l2Decoder's pending output, one behind
    sawEos,      \* DrainV4l2Decoder's *sawEos
    status,      \* of every work, as the client sees it
    sigErr,      \* signalled_error_
    sigEos,      \* signalled_eos_: "no", or what set it, "drain" or "config"
    sessionPending,   \* decoder_session_pending_
    settings,    \* the session's decoder_settings have a value
    sized,       \* the session was opened with the client's picture size
    config,      \* decoder_config_ is not empty
    configPending,    \* decoder_config_pending_
    primed,      \* history: this open session was given the configuration
    drainFlushed,     \* history: a WITH_EOS drain flushed the session
    errored,     \* history: an error was reported since the last reset
    stray,       \* history: without an error, a picture found no waiting work
    drains
component == <<cpc, after, cur, kind, done, hold, sawEos, status, sigErr, sigEos,
               sessionPending, settings, sized, config, configPending, primed,
               drainFlushed, errored, stray, drains>>
sessionVars ==
    <<opened, inputs, slots, configured, setup, pending, draining, received,
      devIn, devDone, devHeld, devCap, devOut, devEvents, devState,
      pc, op, waited, blocked, ret, refill, out,
      client, nextPacket, accepted, delivered, discarded, lostSlots, sawLast, eos,
      faults, skips, changes, opens>>
vars == <<sessionVars, component>>
setting == <<sessionPending, settings, sized>>
parameters == <<config, configPending, primed>>

Works == 1 .. MaxPackets
NoWork == 0
\* A work carries codec configuration, an access unit, both (configuration as
\* a parameter), nothing, each with or without the EOS flag.
Kinds == {"config", "configEos", "frame", "frameEos", "configFrame", "eos", "empty"}
IsEos(k) == k \in {"configEos", "frameEos", "eos"}
HasConfig(k) == k \in {"config", "configEos", "configFrame"}
HasFrame(k) == k \in {"frame", "frameEos", "configFrame"}

Init ==
    /\ Session!Init
    /\ cpc = "idle" /\ after = "none" /\ cur = NoWork /\ kind = "empty"
    /\ done = FALSE /\ hold = NoWork /\ sawEos = FALSE
    /\ status = [w \in Works |-> "new"]
    /\ sigErr = FALSE /\ sigEos = "no"
    /\ sessionPending = TRUE /\ settings = FALSE /\ sized = FALSE
    /\ config = FALSE /\ configPending = FALSE /\ primed = FALSE
    /\ drainFlushed = FALSE /\ errored = FALSE /\ stray = FALSE /\ drains = 0

InSession == pc # "idle"
Idle == cpc = "idle" /\ ~InSession

-----------------------------------------------------------------------------
(* Ending process() and drain().                                           *)

\* Of the session, only the work counter and the fault budget change here.
Spends(n, fault) ==
    /\ nextPacket' = n
    /\ fault = 1 => faults < MaxFaults
    /\ faults' = faults + fault
    /\ UNCHANGED <<opened, inputs, slots, configured, setup, pending, draining, received,
                   devIn, devDone, devHeld, devCap, devOut, devEvents, devState,
                   pc, op, waited, blocked, ret, refill, out, client, accepted, delivered,
                   discarded, lostSlots, sawLast, eos, skips, changes, opens>>

Rest ==
    /\ cpc' = "idle" /\ after' = "none" /\ cur' = NoWork /\ kind' = "empty"
    /\ done' = FALSE /\ hold' = NoWork /\ sawEos' = FALSE

\* The work leaves the component with a result or joins the pending works.
EndWork(result, fault) ==
    /\ status' = [status EXCEPT ![cur] = result]
    /\ Rest
    /\ Spends(IF nextPacket = cur THEN cur + 1 ELSE nextPacket, fault)

\* Mutant: a failed work is reported and the component goes on.
SignalledAfterFailureKept == sigErr

SignalledAfterFailure == TRUE

\* process() got a status that is not C2_OK; drain() only reports it.
Fails(fault) ==
    /\ IF cur # NoWork THEN EndWork("error", fault) /\ sigErr' = SignalledAfterFailure
       ELSE Rest /\ Spends(nextPacket, fault) /\ UNCHANGED <<status, sigErr>>
    /\ errored' = TRUE
    /\ UNCHANGED <<sigEos, setting, parameters, drainFlushed, stray, drains>>

-----------------------------------------------------------------------------
(* process() and ProcessV4l2Decoder.                                       *)

Process(k) ==
    /\ Idle /\ nextPacket <= MaxPackets /\ ~sigErr /\ sigEos = "no"
    /\ sessionPending => opens < MaxOpens
    /\ cur' = nextPacket /\ kind' = k /\ cpc' = "ensure"
    /\ UNCHANGED <<sessionVars, after, done, hold, sawEos, status, sigErr, sigEos, setting,
                   parameters, drainFlushed, errored, stray, drains>>

ProcessRefused ==
    /\ Idle /\ nextPacket <= MaxPackets /\ (sigErr \/ sigEos # "no")
    /\ status' = [status EXCEPT ![nextPacket] = "error"]
    /\ Spends(nextPacket + 1, 0)
    /\ UNCHANGED <<cpc, after, cur, kind, done, hold, sawEos, sigErr, sigEos, setting,
                   parameters, drainFlushed, errored, stray, drains>>

NextAfterEnsure ==
    CASE HasConfig(kind) -> "config"
      [] kind = "frame" \/ kind = "frameEos" -> "queue"
      [] kind = "eos" -> "eosStart"
      [] OTHER -> "finish"

\* EnsureDecoderSession: the first work opens the session with the size the
\* client has configured by then.
EnsureDecoderSession ==
    /\ cpc = "ensure"
    /\ \/ /\ ~sessionPending
          /\ cpc' = NextAfterEnsure
          /\ UNCHANGED <<sessionVars, setting, primed>>
       \/ /\ sessionPending /\ Session!Open
          /\ settings' = TRUE /\ sized' = TRUE /\ primed' = FALSE
          /\ sessionPending' = ~opened'
          /\ cpc' = IF opened' THEN NextAfterEnsure ELSE "failed"
    /\ UNCHANGED <<after, cur, kind, done, hold, sawEos, status, sigErr, sigEos, config,
                   configPending, drainFlushed, errored, stray, drains>>

\* The session's call ended in an error, or the one before this step did.
CallFailed == cpc = "failed" /\ Fails(0)

\* A configuration, in the work's buffer or among its parameters.  A work that
\* carries nothing else is finished here, and ends the stream if it says so.
StoreDecoderConfig ==
    /\ cpc = "config"
    /\ config' = TRUE /\ configPending' = TRUE
    /\ IF kind = "configFrame"
       THEN /\ cpc' = "queue"
            /\ UNCHANGED <<sessionVars, after, cur, kind, done, hold, sawEos, status, sigEos>>
       ELSE /\ EndWork("done", 0)
            /\ sigEos' = IF IsEos(kind) THEN "config" ELSE sigEos
    /\ UNCHANGED <<sigErr, setting, primed, drainFlushed, errored, stray, drains>>

\* NormalizeCodecConfig or NormalizeAccessUnit refuses the data, or the packet
\* is larger than the session's coded buffers.
NormalizeFails ==
    /\ cpc \in {"config", "queue"} /\ ~InSession
    /\ Fails(1)

\* QueueV4l2DecoderPacket; a closed session has no coded size to fit into.
QueuePacket ==
    /\ cpc = "queue" /\ ~InSession
    /\ \/ opened /\ Session!EnterQueueDecoderPacket /\ cpc' = "queued"
       \/ ~opened /\ cpc' = "failed" /\ UNCHANGED sessionVars
    /\ UNCHANGED <<after, cur, kind, done, hold, sawEos, status, sigErr, sigEos, setting,
                   parameters, drainFlushed, errored, stray, drains>>

\* The configuration went out with this packet.
PacketQueued ==
    /\ cpc = "queued" /\ ~InSession /\ ret[2] = "OK"
    /\ primed' = (primed \/ (configPending /\ config))
    /\ configPending' = FALSE
    /\ cpc' = IF IsEos(kind) THEN "eosStart" ELSE "drain"
    /\ after' = IF IsEos(kind) THEN after ELSE "finish"
    /\ UNCHANGED <<sessionVars, cur, kind, done, hold, sawEos, status, sigErr, sigEos,
                   setting, config, drainFlushed, errored, stray, drains>>

\* The input queue is full: output must progress first.  The first time there
\* is no wait before the drain.
PacketBlocked ==
    /\ cpc = "queued" /\ ~InSession /\ ret[2] = "BLOCKING"
    /\ cpc' = IF after = "retry" THEN "progress" ELSE "drain"
    /\ after' = "retry"
    /\ UNCHANGED <<sessionVars, cur, kind, done, hold, sawEos, status, sigErr, sigEos,
                   setting, parameters, drainFlushed, errored, stray, drains>>

\* The driver can do nothing more by itself and has nothing to take.
Stalled ==
    /\ ~Session!CanDecode /\ ~Session!CanOutput
    /\ devOut = <<>> /\ devDone = {} /\ devEvents = 0

\* WaitForDecoderProgress: something is ready before the deadline.  A full
\* input queue has buffers, so poll reports no error of its own.
WaitForDecoderProgress ==
    /\ cpc = "progress" /\ Session!DeviceReady /\ ~Stalled
    /\ cpc' = "drain"
    /\ UNCHANGED <<sessionVars, after, cur, kind, done, hold, sawEos, status, sigErr, sigEos,
                   setting, parameters, drainFlushed, errored, stray, drains>>

\* The deadline passes because the driver has stopped or, as a fault, is slow;
\* or, as a fault, poll fails.
WaitForDecoderProgressFails ==
    /\ cpc = "progress"
    /\ Fails(IF Stalled THEN 0 ELSE 1)

-----------------------------------------------------------------------------
(* DrainV4l2Decoder.                                                       *)

Waiting == after \in {"eos", "drainEos"}

DequeueFrame ==
    /\ cpc = "drain" /\ ~InSession
    /\ Session!EnterDequeueDecoderFrame(Waiting /\ ~sawEos)
    /\ cpc' = "dequeued"
    /\ UNCHANGED <<after, cur, kind, done, hold, sawEos, status, sigErr, sigEos, setting,
                   parameters, drainFlushed, errored, stray, drains>>

IsCurrent(f) == cur # NoWork /\ f = cur

\* FinishOutput: the current work's output, or a pending work's, which finish()
\* looks up; an output whose work is not pending is dropped.
FinishOutput(f) ==
    /\ done' = (done \/ IsCurrent(f))
    /\ status' = IF f # cur /\ f \in Works /\ status[f] = "pending"
                 THEN [status EXCEPT ![f] = "done"] ELSE status
    /\ stray' = (stray \/ (f \in Works /\ f # cur /\ status[f] # "pending" /\ ~errored))

\* Mutant: the held output is replaced before it is published.
PublishesNothing == NoWork

Publishes == hold

\* A frame with a block: the output held so far is published, this one held.
\* An empty LAST buffer has a block too, and the index of no work.
TakeFrame ==
    /\ cpc = "dequeued" /\ ~InSession /\ ret[2] = "OK" /\ out.block # NoBlock
    /\ FinishOutput(Publishes)
    /\ hold' = out.frame
    /\ sawEos' = (sawEos \/ out.eos)
    /\ cpc' = IF sawEos' THEN "publish" ELSE "drain"
    /\ UNCHANGED <<sessionVars, after, cur, kind, sigErr, sigEos, setting, parameters,
                   drainFlushed, errored, drains>>

\* UpdateOutputSize fails: this frame and the held one are dropped.
TakeFrameFails ==
    /\ cpc = "dequeued" /\ ~InSession /\ ret[2] = "OK" /\ out.block # NoBlock
    /\ Fails(1)

\* The end of a session that had no input: a frame without a block.
TakeEnd ==
    /\ cpc = "dequeued" /\ ~InSession /\ ret[2] = "OK" /\ out.block = NoBlock
    /\ sawEos' = (sawEos \/ out.eos)
    /\ cpc' = IF sawEos' THEN "publish" ELSE "drain"
    /\ UNCHANGED <<sessionVars, after, cur, kind, done, hold, status, sigErr, sigEos,
                   setting, parameters, drainFlushed, errored, stray, drains>>

NoMoreFrames ==
    /\ cpc = "dequeued" /\ ~InSession /\ ret[2] \in {"NOT_FOUND", "BLOCKING"}
    /\ cpc' = "publish"
    /\ UNCHANGED <<sessionVars, after, cur, kind, done, hold, sawEos, status, sigErr, sigEos,
                   setting, parameters, drainFlushed, errored, stray, drains>>

SessionCallFails ==
    /\ cpc \in {"dequeued", "queued"} /\ ~InSession
    /\ ret[2] \in {"ERROR", "TIMED_OUT"}
    /\ Fails(0)

\* The last held output is published; then the caller goes on.
PublishHeld ==
    /\ cpc = "publish"
    /\ FinishOutput(hold)
    /\ hold' = NoWork
    /\ cpc' = IF after = "retry" THEN "queue" ELSE "end"
    /\ sawEos' = (sawEos /\ Waiting)
    /\ UNCHANGED <<sessionVars, after, cur, kind, sigErr, sigEos, setting, parameters,
                   drainFlushed, errored, drains>>

\* Mutant: process() completes every work that it has queued.
WorkResultAtOnce == "done"

WorkResult == IF done \/ cpc = "finish" THEN "done" ELSE "pending"

\* Ends of process(): without EOS the work is finished or left pending.
FinishFrame ==
    /\ (cpc = "end" /\ after = "finish") \/ cpc = "finish"
    /\ EndWork(WorkResult, 0)
    /\ UNCHANGED <<sigErr, sigEos, setting, parameters, drainFlushed, errored, stray, drains>>

StartDrain ==
    /\ cpc = "eosStart" /\ ~InSession
    /\ \/ /\ Session!StartDecoderDrain
          /\ cpc' = "drain" /\ after' = IF cur = NoWork THEN "drainEos" ELSE "eos"
       \/ /\ Session!StartDecoderDrainFails
          /\ cpc' = "failed" /\ UNCHANGED after
    /\ UNCHANGED <<cur, kind, done, hold, sawEos, status, sigErr, sigEos, setting,
                   parameters, drainFlushed, errored, stray, drains>>

\* Mutant: the end of stream is signalled although LAST has not come.
EndSeenAlways == TRUE

EndSeen == sawEos

FinishEos ==
    /\ cpc = "end" /\ after = "eos" /\ EndSeen
    /\ EndWork("done", 0)
    /\ sigEos' = "drain"
    /\ UNCHANGED <<sigErr, setting, parameters, drainFlushed, errored, stray, drains>>

\* The device was woken but produced nothing: C2_TIMED_OUT.
EosNotSeen ==
    /\ cpc = "end" /\ after = "eos" /\ ~EndSeen
    /\ Fails(0)

-----------------------------------------------------------------------------
(* drain(), onFlush_sm(), onStop() and onInit().                           *)

ClientDrains(withEos) ==
    /\ Idle /\ drains < MaxDrains
    /\ drains' = drains + 1
    /\ cpc' = IF withEos THEN "eosStart" ELSE "drain"
    /\ after' = IF withEos THEN after ELSE "drain"
    /\ UNCHANGED <<sessionVars, cur, kind, done, hold, sawEos, status, sigErr, sigEos,
                   setting, parameters, drainFlushed, errored, stray>>

DrainEnds ==
    /\ cpc = "end" /\ (after = "drain" \/ (after = "drainEos" /\ ~sawEos))
    /\ Rest
    /\ UNCHANGED <<sessionVars, status, sigErr, sigEos, setting, parameters, drainFlushed,
                   errored, stray, drains>>

\* A WITH_EOS drain that saw the end flushes the session, and only that.
DrainFlushes ==
    /\ cpc = "end" /\ after = "drainEos" /\ sawEos
    /\ Session!Open
    /\ sized' = settings /\ primed' = FALSE /\ drainFlushed' = TRUE
    /\ errored' = (errored \/ ~opened')
    /\ Rest
    /\ UNCHANGED <<status, sigErr, sigEos, sessionPending, settings, config, configPending,
                   stray, drains>>

Flushed == [w \in Works |-> IF status[w] = "pending" THEN "flushed" ELSE status[w]]

\* Mutant: the flush takes the session it opened for the one that was put off.
PendingAfterFlushNever == FALSE

SessionPendingAfterFlush == sessionPending

\* Mutant: the configuration counts as sent after a flush.
ConfigPendingKept == configPending

ConfigPendingAfterFlush == configPending \/ config

\* onFlush_sm; when the session cannot be reopened the flags stay.
Flush ==
    /\ Idle /\ drains < MaxDrains
    /\ drains' = drains + 1
    /\ Session!Open
    /\ sized' = settings /\ primed' = FALSE
    /\ sessionPending' = SessionPendingAfterFlush
    /\ status' = Flushed
    /\ IF opened' THEN /\ configPending' = ConfigPendingAfterFlush
                       /\ sigErr' = FALSE /\ sigEos' = "no" /\ errored' = FALSE
                       /\ drainFlushed' = FALSE
       ELSE errored' = TRUE /\ UNCHANGED <<configPending, sigErr, sigEos, drainFlushed>>
    /\ UNCHANGED <<cpc, after, cur, kind, done, hold, sawEos, settings, config, stray>>

\* onStop, or onReset and the onInit that follows it: only onInit puts the Open
\* off again.  The session keeps decoder_settings when it is closed.
Stop(init) ==
    /\ Idle /\ drains < MaxDrains
    /\ drains' = drains + 1
    /\ \/ Session!Close
       \/ ~opened /\ UNCHANGED sessionVars
    /\ sized' = FALSE /\ primed' = FALSE /\ sessionPending' = (sessionPending \/ init)
    /\ config' = FALSE /\ configPending' = FALSE
    /\ sigErr' = FALSE /\ sigEos' = "no" /\ errored' = FALSE /\ drainFlushed' = FALSE
    /\ status' = Flushed
    /\ UNCHANGED <<cpc, after, cur, kind, done, hold, sawEos, settings, stray>>

-----------------------------------------------------------------------------

\* The session's steps within a call, and what goes on around it.
SessionStep ==
    /\ Session!Pump
    /\ UNCHANGED component
DriverStep ==
    /\ Session!Environment
    /\ UNCHANGED component

Step ==
    \/ EnsureDecoderSession \/ CallFailed \/ StoreDecoderConfig \/ NormalizeFails
    \/ QueuePacket \/ PacketQueued \/ PacketBlocked \/ WaitForDecoderProgress
    \/ WaitForDecoderProgressFails \/ DequeueFrame \/ TakeFrame \/ TakeFrameFails
    \/ TakeEnd \/ NoMoreFrames \/ SessionCallFails \/ PublishHeld \/ FinishFrame
    \/ StartDrain \/ FinishEos \/ EosNotSeen \/ DrainEnds \/ DrainFlushes

Next ==
    \/ \E k \in Kinds : Process(k)
    \/ ProcessRefused
    \/ \E withEos \in BOOLEAN : ClientDrains(withEos)
    \/ Flush
    \/ \E init \in BOOLEAN : Stop(init)
    \/ Step \/ SessionStep \/ DriverStep

Spec == Init /\ [][Next]_vars

-----------------------------------------------------------------------------
(* Properties.                                                             *)

\* The works of a decoder, as its client sees them.
Outcome(s) == CASE s = "done" -> "finished" [] s = "error" -> "failed" [] OTHER -> s
Lifecycle == INSTANCE WorkLifecycle WITH
    MaxWorks <- MaxPackets,
    work <- [w \in Works |-> Outcome(status[w])],
    closed <- (sigErr \/ sigEos # "no")

\* process(), drain(), the flushes and the stops of the decoder keep the promise
\* of WorkLifecycle: each work is taken in turn, ends once, and none is taken
\* after signalled_error_ or signalled_eos_ until a reset.
WorksKeepLifecycle == Lifecycle!Spec

\* Every picture finds its work, pending or current, although pictures come in
\* another order than works and are published one behind (FinishOutput).  LAST
\* of a change of resolution passes for the end of stream: the work that waits
\* for it is finished before its own picture comes.
EveryOutputFindsItsWork == changes = 0 => ~stray

\* When a drained end of stream reaches the client, every work it submitted
\* before is finished; only the driver can have given up its picture.
EosFinishesEverything ==
    sigEos = "drain" /\ ~errored /\ skips = 0 /\ changes = 0 =>
        \A w \in Works : status[w] # "pending"

\* A work that process() left pending is accounted for: its packet is in the
\* session or the driver, or its picture is in the drain loop.
PendingWorkHasFrame ==
    ~errored /\ skips = 0 /\ changes = 0 =>
        \A w \in Works : status[w] = "pending" =>
            \/ w \in accepted \ delivered
            \/ w = hold
            \/ cpc = "dequeued" /\ w = out.frame

\* A reopened decoder knows nothing: whenever an open session was not given the
\* codec configuration yet, the next access unit carries it (onFlush_sm,
\* StoreDecoderConfig), a flush by a WITH_EOS drain apart.
ParameterSetsSent ==
    opened /\ config /\ ~configPending /\ ~drainFlushed => primed

\* No input reaches a session opened without the client's picture size: a flush
\* before the first work does not take the place of the Open that was put off
\* (onInit, EnsureDecoderSession).
SizedBeforeInput == accepted # {} => sized

\* The comment in QueueV4l2DecoderPacket: "a full queue is not fatal".  With no
\* failure and no drain, and with every picture returned by the client, the driver
\* can still end the wait for an input slot.
FullQueueIsNotFatal ==
    cpc = "progress" /\ faults = 0 /\ changes = 0 /\ ~draining /\ client = {} => ~Stalled

=============================================================================

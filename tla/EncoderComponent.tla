-------------------------- MODULE EncoderComponent --------------------------
(***************************************************************************)
(* FloralCodecComponent as an encoder on the V4L2 session: process(),      *)
(* drain(), onFlush_sm() and onStop() on the work thread, the works that   *)
(* SimpleC2Component keeps pending between process() and finish(), and     *)
(* the session and driver of EncoderSession, whose calls the work thread   *)
(* makes step by step.                                                     *)
(*                                                                         *)
(* Work w carries frame w, so nextFrame is also the next work.  The output *)
(* monitor is abstracted to what OutputMonitor establishes: while armed it *)
(* asks for one drain once output is readable.                             *)
(***************************************************************************)
EXTENDS Naturals, Sequences, FiniteSets

CONSTANTS NumInputs, NumCaptures, MaxFrames, PtsOf, MaxFaults, MaxSkips, MaxOpens

ASSUME FrameAssumption == MaxFrames \in Nat

VARIABLES opened, configured, draining, inputs, metadata, pending,
          devIn, devHold, devDone, devCap, devOut, devCmd, payload,
          pc, op, retried, ret,
          nextFrame, delivered, accepted, failed, faults, skips, opens

Session == INSTANCE EncoderSession

ASSUME SessionAssumption == Session!EncoderConstants

VARIABLES
    cpc,        \* the work thread's program point in the component
    after,      \* what follows the drain loop
    cur, kind,  \* the work being processed and what it carries
    done,       \* its workletsProcessed
    tries,      \* QueueEncoderFrame calls made for it
    hold,       \* DrainV4l2Encoder's pending output, one behind
    sawEos,     \* DrainV4l2Encoder's *sawEos
    status,     \* of every work, as the client sees it
    sigErr, sigEos, \* signalled_error_, signalled_eos_
    mon,        \* "off", "armed", "notified"
    request,    \* the monitor's drain is in the work queue
    errored,    \* history: an error was reported since the last reset
    gaveUp,     \* history: a WITH_EOS drain returned before end of stream
    stray       \* history: an output found neither its work nor an error
component == <<cpc, after, cur, kind, done, tries, hold, sawEos, status, sigErr,
               sigEos, mon, request, errored, gaveUp, stray>>

sessionVars == <<opened, configured, draining, inputs, metadata, pending,
                 devIn, devHold, devDone, devCap, devOut, devCmd, payload,
                 pc, op, retried, ret,
                 nextFrame, delivered, accepted, failed, faults, skips, opens>>
vars == <<sessionVars, component>>

Works == 1 .. MaxFrames
NoWork == 0
\* A work carries a frame, a frame and the EOS flag, only the flag, or nothing.
Kinds == {"frame", "frameEos", "eos", "empty"}
Eos(k) == k \in {"frameEos", "eos"}

Init ==
    /\ Session!Init
    /\ cpc = "idle" /\ after = "none" /\ cur = NoWork /\ kind = "empty"
    /\ done = FALSE /\ tries = 0 /\ hold = NoWork /\ sawEos = FALSE
    /\ status = [w \in Works |-> "new"]
    /\ sigErr = FALSE /\ sigEos = FALSE /\ mon = "off" /\ request = FALSE
    /\ errored = FALSE /\ gaveUp = FALSE /\ stray = FALSE

InSession == pc # "idle"
Idle == cpc = "idle" /\ ~InSession

-----------------------------------------------------------------------------
(* Ending process() and drain().                                           *)

\* Of the session, only the work counter and the fault budget change here.
Spends(n, fault) ==
    /\ nextFrame' = n
    /\ fault = 1 => faults < MaxFaults
    /\ faults' = faults + fault
    /\ UNCHANGED <<opened, configured, draining, inputs, metadata, pending,
                   devIn, devHold, devDone, devCap, devOut, devCmd, payload,
                   pc, op, retried, ret, delivered, accepted, failed, skips, opens>>

\* The work leaves the component with a result or joins the pending works.
EndWork(result, fault) ==
    /\ status' = [status EXCEPT ![cur] = result]
    /\ cpc' = "idle" /\ after' = "none" /\ cur' = NoWork
    /\ done' = FALSE /\ tries' = 0 /\ hold' = NoWork /\ sawEos' = FALSE
    /\ UNCHANGED kind
    /\ Spends(IF nextFrame = cur THEN cur + 1 ELSE nextFrame, fault)

\* Mutant: a failed work is reported and the component goes on.
SignalledAfterFailureKept == sigErr

SignalledAfterFailure == TRUE

\* process() got a status that is not C2_OK: the work fails, the component too.
ProcessFails(fault) ==
    /\ EndWork("error", fault)
    /\ sigErr' = SignalledAfterFailure /\ errored' = TRUE
    /\ UNCHANGED <<sigEos, mon, request, gaveUp, stray>>

\* drain() got one: the client is told, the component goes on.
DrainCallFails(fault) ==
    /\ cpc' = "idle" /\ after' = "none" /\ hold' = NoWork /\ sawEos' = FALSE
    /\ errored' = TRUE
    /\ Spends(nextFrame, fault)
    /\ UNCHANGED <<cur, kind, done, tries, status, sigErr, sigEos, mon, request, gaveUp,
                   stray>>

Fails(fault) == IF cur # NoWork THEN ProcessFails(fault) ELSE DrainCallFails(fault)

-----------------------------------------------------------------------------
(* process().                                                              *)

\* SimpleC2Component calls process() with the next queued work.
Process(k) ==
    /\ Idle /\ nextFrame <= MaxFrames
    /\ ~sigErr /\ ~sigEos
    /\ cur' = nextFrame /\ kind' = k
    /\ cpc' = CASE k \in {"frame", "frameEos"} -> "queue"
                [] k = "eos" -> "eosStart"
                [] OTHER -> "finish"
    /\ UNCHANGED <<sessionVars, after, done, tries, hold, sawEos, status, sigErr, sigEos,
                   mon, request, errored, gaveUp, stray>>

ProcessRefused ==
    /\ Idle /\ nextFrame <= MaxFrames
    /\ sigErr \/ sigEos
    /\ status' = [status EXCEPT ![nextFrame] = "error"]
    /\ Spends(nextFrame + 1, 0)
    /\ UNCHANGED <<cpc, after, cur, kind, done, tries, hold, sawEos, sigErr, sigEos, mon,
                   request, errored, gaveUp, stray>>

\* ProcessV4l2Encoder: the first QueueEncoderFrame, and the one retry after
\* C2_BLOCKING has drained the output.
QueueFrame ==
    /\ cpc = "queue" /\ ~InSession
    /\ Session!EnterQueueEncoderFrame \/ Session!RejectEncoderFrame
    /\ cpc' = "queued" /\ tries' = tries + 1
    /\ UNCHANGED <<after, cur, kind, done, hold, sawEos, status, sigErr, sigEos, mon,
                   request, errored, gaveUp, stray>>

QueueReturned ==
    /\ cpc = "queued" /\ ~InSession
    /\ \/ /\ ret[2] = "OK"
          /\ cpc' = IF Eos(kind) THEN "eosStart" ELSE "startMonitor"
          /\ UNCHANGED after
       \/ /\ ret[2] = "BLOCKING" /\ tries = 1
          /\ cpc' = "drain" /\ after' = "retry"
    /\ UNCHANGED <<sessionVars, cur, kind, done, tries, hold, sawEos, status, sigErr,
                   sigEos, mon, request, errored, gaveUp, stray>>

QueueFailed ==
    /\ cpc = "queued" /\ ~InSession
    /\ ~(ret[2] = "OK" \/ (ret[2] = "BLOCKING" /\ tries = 1))
    /\ ProcessFails(0)

\* StartEncoderOutputMonitor refuses a session that drains.
StartMonitor ==
    /\ cpc = "startMonitor" /\ configured /\ ~draining
    /\ mon' = IF mon = "off" THEN "armed" ELSE mon
    /\ cpc' = "drain" /\ after' = "end"
    /\ UNCHANGED <<sessionVars, cur, kind, done, tries, hold, sawEos, status, sigErr,
                   sigEos, request, errored, gaveUp, stray>>

StartMonitorFails ==
    /\ cpc = "startMonitor"
    /\ draining \/ ~configured
    /\ ProcessFails(0)

\* StartEncoderDrain, for an EOS work or a WITH_EOS drain; it stops the monitor.
StartDrain ==
    /\ cpc = "eosStart" /\ ~InSession
    /\ mon' = "off"
    /\ \/ ~draining /\ Session!StartEncoderDrain
       \/ draining /\ UNCHANGED sessionVars
    /\ cpc' = "drain"
    /\ after' = IF cur # NoWork THEN "eosEnd" ELSE "drainEosEnd"
    /\ UNCHANGED <<cur, kind, done, tries, hold, sawEos, status, sigErr, sigEos, request,
                   errored, gaveUp, stray>>

StartDrainFails ==
    /\ cpc = "eosStart" /\ ~InSession /\ ~draining /\ configured
    /\ Fails(1)

-----------------------------------------------------------------------------
(* DrainV4l2Encoder.                                                       *)

Draining == after \in {"eosEnd", "drainEosEnd"}

Dequeue ==
    /\ cpc = "drain" /\ ~InSession
    /\ \/ Session!CallDequeueEncoderFrame(Draining /\ ~sawEos)
       \/ Session!DequeueUnconfigured
    /\ cpc' = "dequeued"
    /\ UNCHANGED <<after, cur, kind, done, tries, hold, sawEos, status, sigErr, sigEos,
                   mon, request, errored, gaveUp, stray>>

\* FinishOutput: the current work is completed in place, a pending one through
\* finish(), which drops an output whose work is not pending.
FinishOutput(f) ==
    /\ done' = (done \/ (f = cur /\ f # NoWork))
    /\ status' = IF f # cur /\ f # NoWork /\ status[f] = "pending"
                 THEN [status EXCEPT ![f] = "ok"] ELSE status
    /\ stray' = (stray \/ (f # cur /\ f # NoWork /\ status[f] # "pending" /\ ~errored))

\* Mutant: the output held back is replaced without being published.
TakeOutputForgetsHeld ==
    LET e == delivered[Len(delivered)] IN
    /\ cpc = "dequeued" /\ ~InSession /\ ret[2] = "OK" /\ e.index # NoWork
    /\ hold' = e.index
    /\ sawEos' = (sawEos \/ e.eos)
    /\ cpc' = IF sawEos' THEN "drained" ELSE "drain"
    /\ UNCHANGED <<sessionVars, after, cur, kind, done, tries, status, sigErr, sigEos, mon,
                   request, errored, gaveUp, stray>>

\* An output with a payload: publish the one held back and hold this one.
TakeOutput ==
    LET e == delivered[Len(delivered)] IN
    /\ cpc = "dequeued" /\ ~InSession /\ ret[2] = "OK" /\ e.index # NoWork
    /\ FinishOutput(hold)
    /\ hold' = e.index
    /\ sawEos' = (sawEos \/ e.eos)
    /\ cpc' = IF sawEos' THEN "drained" ELSE "drain"
    /\ UNCHANGED <<sessionVars, after, cur, kind, tries, sigErr, sigEos, mon, request,
                   errored, gaveUp>>

\* MakeEncodedBuffer cannot map the block or finds no codec configuration.
OutputCorrupted ==
    /\ cpc = "dequeued" /\ ~InSession /\ ret[2] = "OK"
    /\ delivered[Len(delivered)].index # NoWork
    /\ Fails(1)

TakeEos ==
    LET e == delivered[Len(delivered)] IN
    /\ cpc = "dequeued" /\ ~InSession /\ ret[2] = "OK" /\ e.index = NoWork
    /\ sawEos' = TRUE
    /\ cpc' = "drained"
    /\ UNCHANGED <<sessionVars, after, cur, kind, done, tries, hold, status, sigErr,
                   sigEos, mon, request, errored, gaveUp, stray>>

NoMoreOutput ==
    /\ cpc = "dequeued" /\ ~InSession /\ ret[2] \in {"NOT_FOUND", "BLOCKING"}
    /\ cpc' = "drained"
    /\ UNCHANGED <<sessionVars, after, cur, kind, done, tries, hold, sawEos, status,
                   sigErr, sigEos, mon, request, errored, gaveUp, stray>>

DequeueFailed ==
    /\ cpc = "dequeued" /\ ~InSession
    /\ ret[2] \notin {"OK", "NOT_FOUND", "BLOCKING"}
    /\ Fails(0)

\* The loop is over: the last output is published, with EOS if it was seen.
PublishHeld ==
    /\ cpc = "drained"
    /\ FinishOutput(hold)
    /\ hold' = NoWork
    /\ cpc' = CASE after = "retry" -> "queue"
                [] after = "end" -> "finish"
                [] after = "eosEnd" -> "eosEnd"
                [] after = "drainEosEnd" -> "drainEosEnd"
                [] OTHER -> "rearm"
    /\ after' = "none"
    /\ UNCHANGED <<sessionVars, cur, kind, tries, sawEos, sigErr, sigEos, mon, request,
                   errored, gaveUp>>

-----------------------------------------------------------------------------
(* The ends of the handlers.                                               *)

\* Mutant: process() completes every work it has queued.
FinishFrameAtOnce ==
    /\ cpc = "finish"
    /\ EndWork("ok", 0)
    /\ UNCHANGED <<sigErr, sigEos, mon, request, errored, gaveUp, stray>>

\* A frame whose output has not come yet leaves process() pending.
FinishFrame ==
    /\ cpc = "finish"
    /\ EndWork(IF done \/ kind = "empty" THEN "ok" ELSE "pending", 0)
    /\ UNCHANGED <<sigErr, sigEos, mon, request, errored, gaveUp, stray>>

\* Mutant: the end of stream is signalled although the driver has not sent LAST.
FinishEosUnchecked ==
    /\ cpc = "eosEnd"
    /\ EndWork("eos", 0)
    /\ sigEos' = TRUE
    /\ UNCHANGED <<sigErr, mon, request, errored, gaveUp, stray>>

FinishEos ==
    /\ cpc = "eosEnd" /\ sawEos
    /\ EndWork("eos", 0)
    /\ sigEos' = TRUE
    /\ UNCHANGED <<sigErr, mon, request, errored, gaveUp, stray>>

EosNotSeen ==
    /\ cpc = "eosEnd" /\ ~sawEos
    /\ ProcessFails(0)

\* drain(DRAIN_COMPONENT_WITH_EOS): the session is flushed only after EOS.
DrainEosFlushes ==
    /\ cpc = "drainEosEnd" /\ sawEos
    /\ Session!Open
    /\ cpc' = "idle" /\ sawEos' = FALSE
    /\ errored' = (errored \/ ~opened')
    /\ UNCHANGED <<after, cur, kind, done, tries, hold, status, sigErr, sigEos, mon,
                   request, gaveUp, stray>>

DrainEosReturnsEarly ==
    /\ cpc = "drainEosEnd" /\ ~sawEos
    /\ cpc' = "idle"
    /\ gaveUp' = TRUE
    /\ UNCHANGED <<sessionVars, after, cur, kind, done, tries, hold, sawEos, status,
                   sigErr, sigEos, mon, request, errored, stray>>

\* Mutant: the drain does not acknowledge the monitor's request.
RearmForgotten ==
    /\ cpc = "rearm"
    /\ cpc' = "idle" /\ sawEos' = FALSE
    /\ UNCHANGED <<sessionVars, after, cur, kind, done, tries, hold, status, sigErr,
                   sigEos, mon, request, errored, gaveUp, stray>>

Rearm ==
    /\ cpc = "rearm"
    /\ mon' = IF mon = "off" THEN "off" ELSE "armed"
    /\ cpc' = "idle" /\ sawEos' = FALSE
    /\ UNCHANGED <<sessionVars, after, cur, kind, done, tries, hold, status, sigErr,
                   sigEos, request, errored, gaveUp, stray>>

-----------------------------------------------------------------------------
(* drain() and the resets.                                                 *)

MonitorNotifies ==
    /\ mon = "armed" /\ devOut # <<>>
    /\ mon' = "notified"
    /\ request' = TRUE
    /\ UNCHANGED <<sessionVars, cpc, after, cur, kind, done, tries, hold, sawEos, status,
                   sigErr, sigEos, errored, gaveUp, stray>>

\* The drain that the monitor asked for.
DrainRequested ==
    /\ Idle /\ request
    /\ request' = FALSE
    /\ cpc' = "drain" /\ after' = "rearm" /\ sawEos' = FALSE
    /\ UNCHANGED <<sessionVars, cur, kind, done, tries, hold, status, sigErr, sigEos, mon,
                   errored, gaveUp, stray>>

ClientDrains ==
    /\ Idle
    /\ cpc' = "drain" /\ after' = "rearm" /\ sawEos' = FALSE
    /\ UNCHANGED <<sessionVars, cur, kind, done, tries, hold, status, sigErr, sigEos, mon,
                   request, errored, gaveUp, stray>>

ClientDrainsWithEos ==
    /\ Idle /\ opens < MaxOpens
    /\ cpc' = "eosStart" /\ after' = "none" /\ sawEos' = FALSE
    /\ UNCHANGED <<sessionVars, cur, kind, done, tries, hold, status, sigErr, sigEos, mon,
                   request, errored, gaveUp, stray>>

\* SimpleC2Component returns the pending works when it flushes or stops.
Flushed == [w \in Works |-> IF status[w] = "pending" THEN "flushed" ELSE status[w]]

\* onStop: the session is closed; a later start() does not open it again.
Stop ==
    /\ Idle
    /\ Session!Close
    /\ status' = Flushed
    /\ mon' = "off" /\ request' = FALSE
    /\ sigErr' = FALSE /\ sigEos' = FALSE
    /\ errored' = FALSE /\ gaveUp' = FALSE
    /\ UNCHANGED <<cpc, after, cur, kind, done, tries, hold, sawEos, stray>>

\* onInit, onFlush_sm: a fresh session; if it cannot be opened a flush leaves the
\* flags as they were.
Reset ==
    /\ Idle
    /\ Session!Open
    /\ status' = Flushed
    /\ mon' = "off" /\ request' = FALSE
    /\ IF opened' THEN /\ sigErr' = FALSE /\ sigEos' = FALSE
                       /\ errored' = FALSE /\ gaveUp' = FALSE
       ELSE errored' = TRUE /\ UNCHANGED <<sigErr, sigEos, gaveUp>>
    /\ UNCHANGED <<cpc, after, cur, kind, done, tries, hold, sawEos, stray>>

-----------------------------------------------------------------------------

InSessionCall == Session!SessionSteps /\ UNCHANGED component
DriverStep == Session!Driver /\ UNCHANGED component

Component ==
    \/ QueueFrame \/ QueueReturned \/ QueueFailed \/ StartMonitor \/ StartMonitorFails
    \/ StartDrain \/ StartDrainFails \/ Dequeue \/ TakeOutput \/ OutputCorrupted \/ TakeEos
    \/ NoMoreOutput \/ DequeueFailed \/ PublishHeld \/ FinishFrame \/ FinishEos
    \/ EosNotSeen \/ DrainEosFlushes \/ DrainEosReturnsEarly \/ Rearm \/ DrainRequested

Client == (\E k \in Kinds : Process(k)) \/ ProcessRefused \/ ClientDrains
          \/ ClientDrainsWithEos \/ Stop \/ Reset

Next == InSessionCall \/ DriverStep \/ Component \/ MonitorNotifies \/ Client

\* The work thread runs, the firmware codes and returns what it was given, the
\* monitor thread runs; the client need do nothing.
Fairness ==
    /\ WF_vars(InSessionCall) /\ WF_vars(Component) /\ WF_vars(MonitorNotifies)
    /\ WF_vars(DriverStep)

Spec == Init /\ [][Next]_vars
FairSpec == Spec /\ Fairness

-----------------------------------------------------------------------------
(* Properties.                                                             *)

\* The works of an encoder, as its client sees them.
Outcome(s) == CASE s \in {"ok", "eos"} -> "finished" [] s = "error" -> "failed" [] OTHER -> s
Lifecycle == INSTANCE WorkLifecycle WITH
    MaxWorks <- MaxFrames,
    work <- [w \in Works |-> Outcome(status[w])],
    closed <- (sigErr \/ sigEos)

\* process(), drain(), the flushes and the stops of the encoder keep the promise
\* of WorkLifecycle: each work is taken in turn, ends once, and none is taken
\* after signalled_error_ or signalled_eos_ until a reset.
WorksKeepLifecycle == Lifecycle!Spec

\* Every output finds its work, pending or current: the drain that the monitor
\* requests never overtakes the process() call that leaves the work pending.
EveryOutputFindsItsWork == ~stray

\* When the end of stream reaches the client nothing it submitted before is left
\* inside: every earlier work is finished.
EosFinishesEverything ==
    (sigEos /\ ~errored /\ skips = 0) => \A w \in Works : status[w] # "pending"

\* The driver, the session or the drain loop still has the frame of work w.
HasFrame(w) ==
    \/ w = hold
    \/ \E i \in DOMAIN metadata : metadata[i].frame = w
    \/ \E i \in DOMAIN pending : pending[i].frame = w
    \/ cpc = "dequeued" /\ ret[2] = "OK" /\ ~InSession
       /\ delivered[Len(delivered)].index = w

\* A work that process() left pending is accounted for: no drain, retry or end of
\* stream loses its frame.
PendingWorkHasFrame ==
    (~errored /\ skips = 0) => \A w \in Works : status[w] = "pending" => HasFrame(w)

\* What the comment in CopyEncoderFrame promises the caller: after a failed output
\* allocation "a caller retry cannot lose a frame".  drain() has just returned
\* that error, the first fault of the run, and the component is not in error.
RetryLosesNoFrame ==
    (Idle /\ ~sigErr /\ faults = 1 /\ skips = 0 /\ ret[2] = "NO_MEMORY") =>
        \A w \in Works : status[w] = "pending" => HasFrame(w)

\* Once process() has left a work pending, its output is published without any
\* further call of the client, or an error is reported.
PendingWorkFinishes ==
    \A w \in Works :
      (status[w] = "pending") ~> (status[w] # "pending" \/ errored \/ gaveUp \/ skips > 0)

=============================================================================

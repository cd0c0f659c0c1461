----------------------- MODULE EncoderComponentProofs -----------------------
(***************************************************************************)
(* Proofs about EncoderComponent, for any number of works, buffers and     *)
(* faults and any timestamps: through the retry of a full queue, the drain *)
(* that the monitor asks for, failures, flushes and stops the encoder      *)
(* keeps the promise of WorkLifecycle to its client, every output finds    *)
(* its work, and the end of stream leaves no work behind.                  *)
(***************************************************************************)
EXTENDS EncoderComponent, TLAPS

\* The first work that the component has not answered.
Front == IF cur = NoWork THEN nextFrame ELSE cur

\* The works before it, and only they, have been answered.
WorksInOrder == \A w \in Works : status[w] = "new" <=> w >= Front

WorksOK ==
    /\ nextFrame \in 1 .. (MaxFrames + 1)
    /\ cur \in Works \cup {NoWork}
    /\ status \in [Works -> {"new", "pending", "ok", "eos", "error", "flushed"}]

\* Only an open component works on something.
WorkIsOpen == cur # NoWork => ~sigErr /\ ~sigEos

\* The current work is the one whose frame is queued next, or was just queued.
FrameOfWork ==
    /\ cur # NoWork => nextFrame \in {cur, cur + 1}
    /\ cpc = "queue" => nextFrame = cur
    /\ cpc = "queued" /\ (pc # "idle" \/ ret[2] # "OK") => nextFrame = cur
    /\ after = "retry" => nextFrame = cur

\* What the work thread's program point tells about the work and the call.
PointInWork ==
    /\ cpc \in {"queue", "queued", "startMonitor", "finish", "eosEnd"} => cur # NoWork
    /\ cpc \in {"idle", "drainEosEnd", "rearm"} => cur = NoWork
    /\ after \in {"retry", "end", "eosEnd"} => cur # NoWork
    /\ cpc \in {"drain", "dequeued", "drained"} /\ after \notin {"retry", "end", "eosEnd"} =>
           cur = NoWork
    /\ cpc \notin {"drain", "dequeued", "drained"} => after = "none"
    /\ cpc \notin {"queued", "dequeued"} => pc = "idle"
    /\ cpc = "queued" /\ pc # "idle" => op = "queue"
    /\ cpc = "dequeued" /\ pc # "idle" => op # "queue" /\ pc # "submit"

WorkInv == WorksOK /\ WorksInOrder /\ WorkIsOpen /\ FrameOfWork /\ PointInWork

-----------------------------------------------------------------------------
(* A step of the session, as the work thread sees it.                      *)

CallStep ==
    /\ \/ UNCHANGED nextFrame
       \/ /\ pc = "submit" /\ pc' = "idle" /\ ret' = <<op, "OK">>
          /\ nextFrame' = nextFrame + 1
    /\ pc = "idle" => UNCHANGED <<pc, op, ret>>
    /\ pc' # "idle" => op' = op
    /\ pc' = "submit" => pc = "submit" \/ op = "queue"

\* Only the step that submits the frame, which ends the call, counts it.
LEMMA SessionIsCallStep ==
    ASSUME Session!SessionSteps
    PROVE  CallStep
<1>1. CASE Session!DequeueEncoderInputs
  BY <1>1 DEF Session!DequeueEncoderInputs, CallStep, Session!Return, Session!GoTo, Session!Fails,
              Session!call, Session!history
<1>2. CASE Session!TakePayload
  BY <1>2 DEF Session!TakePayload, CallStep, Session!Return, Session!GoTo, Session!Fails,
              Session!call, Session!history
<1>3. CASE Session!TakeEmptyLast
  BY <1>3 DEF Session!TakeEmptyLast, CallStep, Session!Return, Session!GoTo, Session!Fails,
              Session!call, Session!history
<1>4. CASE Session!RequeueEmpty
  BY <1>4 DEF Session!RequeueEmpty, CallStep, Session!Return, Session!GoTo, Session!Fails,
              Session!call, Session!history
<1>5. CASE Session!PumpLosesSlot
  BY <1>5 DEF Session!PumpLosesSlot, CallStep, Session!Return, Session!GoTo, Session!Fails,
              Session!call, Session!history
<1>6. CASE Session!CaptureDrained
  BY <1>6 DEF Session!CaptureDrained, CallStep, Session!Return, Session!GoTo, Session!Fails,
              Session!call, Session!history
<1>7. CASE Session!IoctlFails
  BY <1>7 DEF Session!IoctlFails, CallStep, Session!Return, Session!GoTo, Session!Fails,
              Session!call, Session!history
<1>8. CASE Session!QueueBlocks
  BY <1>8 DEF Session!QueueBlocks, CallStep, Session!Return, Session!GoTo, Session!Fails,
              Session!call, Session!history
<1>9. CASE Session!QueueWaits
  BY <1>9 DEF Session!QueueWaits, CallStep, Session!Return, Session!GoTo, Session!Fails,
              Session!call, Session!history
<1>10. CASE Session!QueueProceeds
  BY <1>10 DEF Session!QueueProceeds, CallStep, Session!Return, Session!GoTo, Session!Fails,
              Session!call, Session!history
<1>11. CASE Session!SubmitFrame
  BY <1>11 DEF Session!SubmitFrame, CallStep, Session!Return, Session!GoTo, Session!Fails,
              Session!call, Session!history
<1>12. CASE Session!SubmitFails
  BY <1>12 DEF Session!SubmitFails, CallStep, Session!Return, Session!GoTo, Session!Fails,
              Session!call, Session!history
<1>13. CASE Session!DequeueHasFrame
  BY <1>13 DEF Session!DequeueHasFrame, CallStep, Session!Return, Session!GoTo, Session!Fails,
              Session!call, Session!history
<1>14. CASE Session!DequeueWaits
  BY <1>14 DEF Session!DequeueWaits, CallStep, Session!Return, Session!GoTo, Session!Fails,
              Session!call, Session!history
<1>15. CASE Session!DequeueFindsNothing
  BY <1>15 DEF Session!DequeueFindsNothing, CallStep, Session!Return, Session!GoTo, Session!Fails,
              Session!call, Session!history
<1>16. CASE Session!CopyEncoderFrame
  BY <1>16 DEF Session!CopyEncoderFrame, CallStep, Session!Return, Session!GoTo, Session!Fails,
              Session!call, Session!history
<1>17. CASE Session!CopyFails
  BY <1>17 DEF Session!CopyFails, CallStep, Session!Return, Session!GoTo, Session!Fails,
              Session!call, Session!history
<1>18. CASE Session!WaitForDeviceReady
  BY <1>18 DEF Session!WaitForDeviceReady, CallStep, Session!Return, Session!GoTo, Session!Fails,
              Session!call, Session!history
<1>19. CASE Session!WaitForDeviceTimeout
  BY <1>19 DEF Session!WaitForDeviceTimeout, CallStep, Session!Return, Session!GoTo, Session!Fails,
              Session!call, Session!history
<1>. QED
  BY <1>1, <1>2, <1>3, <1>4, <1>5, <1>6, <1>7, <1>8, <1>9, <1>10, <1>11, <1>12, <1>13, <1>14, <1>15, <1>16, <1>17, <1>18, <1>19
     DEF Session!SessionSteps, Session!Pump, Session!QueueSteps, Session!DequeueSteps, Session!WaitSteps

\* The driver does not touch the call.
LEMMA DriverIsCallStep ==
    ASSUME Session!Driver
    PROVE  CallStep
<1>1. CASE Session!DriverReleasesInput
  BY <1>1 DEF Session!DriverReleasesInput, CallStep, Session!call, Session!history
<1>2. CASE Session!DriverEncodes
  BY <1>2 DEF Session!DriverEncodes, CallStep, Session!call, Session!history
<1>3. CASE Session!DriverSkipsFrame
  BY <1>3 DEF Session!DriverSkipsFrame, CallStep, Session!call, Session!history
<1>4. CASE Session!DriverEndsDrain
  BY <1>4 DEF Session!DriverEndsDrain, CallStep, Session!call, Session!history
<1>. QED
  BY <1>1, <1>2, <1>3, <1>4 DEF Session!Driver

-----------------------------------------------------------------------------
(* The works and the work thread's program point.                          *)

\* A work that ends is answered, and the next one is at the front.
LEMMA EndWorkAnswers ==
    ASSUME WorkInv, cur # NoWork, pc = "idle",
           NEW r \in {"ok", "eos", "pending", "error"}, NEW f, EndWork(r, f)
    PROVE  WorkInv'
<1>1. cur \in Works /\ cur' = NoWork /\ nextFrame' = cur + 1
  BY DEF WorkInv, WorksOK, FrameOfWork, EndWork, Spends
<1>2. MaxFrames \in Nat /\ nextFrame' \in 1 .. (MaxFrames + 1)
  BY <1>1, FrameAssumption DEF Works
<1>3. WorksOK'
  BY <1>1, <1>2 DEF WorkInv, WorksOK, EndWork
<1>4. WorksInOrder'
  BY <1>1, <1>2 DEF WorkInv, WorksOK, WorksInOrder, Front, EndWork, Works, NoWork
<1>5. WorkIsOpen' /\ FrameOfWork' /\ PointInWork'
  BY <1>1 DEF WorkIsOpen, FrameOfWork, PointInWork, EndWork, Spends
<1>. QED
  BY <1>3, <1>4, <1>5 DEF WorkInv

\* A step that leaves the works alone keeps what was answered.
LEMMA WorksUnchanged ==
    ASSUME WorkInv, UNCHANGED <<cur, status, sigErr, sigEos, nextFrame>>
    PROVE  WorksOK' /\ WorksInOrder' /\ WorkIsOpen'
BY DEF WorkInv, WorksOK, WorksInOrder, Front, WorkIsOpen

\* A failure answers the current work; a drain has none.
LEMMA FailsAnswers ==
    ASSUME WorkInv, pc = "idle", NEW f, Fails(f)
    PROVE  WorkInv'
<1>1. CASE cur # NoWork
  BY <1>1, EndWorkAnswers DEF Fails, ProcessFails
<1>2. CASE cur = NoWork
  <2>1. /\ UNCHANGED <<cur, status, sigErr, sigEos, nextFrame, pc, op, ret>>
        /\ cpc' = "idle" /\ after' = "none"
    BY <1>2 DEF Fails, DrainCallFails, Spends
  <2>2. FrameOfWork' /\ PointInWork'
    BY <1>2, <2>1 DEF FrameOfWork, PointInWork
  <2>. QED
    BY <2>1, <2>2, WorksUnchanged DEF WorkInv
<1>. QED
  BY <1>1, <1>2

\* An output finishes a work that was answered before.
LEMMA FinishKeepsOrder ==
    ASSUME WorkInv, NEW f, FinishOutput(f), UNCHANGED <<cur, sigErr, sigEos, nextFrame>>
    PROVE  WorksOK' /\ WorksInOrder' /\ WorkIsOpen'
<1>1. CASE f \in Works /\ f # cur /\ status[f] = "pending"
  <2>1. status' \in {[status EXCEPT ![f] = "ok"], status}
    BY DEF FinishOutput
  <2>. QED
    BY <1>1, <2>1 DEF WorkInv, WorksOK, WorksInOrder, Front, WorkIsOpen
<1>2. CASE ~(f \in Works /\ f # cur /\ status[f] = "pending")
  <2>1. status' = status
    BY <1>2 DEF FinishOutput, WorkInv, WorksOK
  <2>. QED
    BY <2>1, WorksUnchanged
<1>. QED
  BY <1>1, <1>2

\* A call of the session submits at most the frame of the current work.
LEMMA CallKeepsOrder ==
    ASSUME WorkInv, CallStep, UNCHANGED <<cpc, after, cur, status, sigErr, sigEos>>
    PROVE  WorkInv'
<1>1. CASE UNCHANGED nextFrame
  <2>1. FrameOfWork' /\ PointInWork'
    BY <1>1 DEF WorkInv, CallStep, FrameOfWork, PointInWork
  <2>. QED
    BY <1>1, <2>1, WorksUnchanged DEF WorkInv
<1>2. CASE pc = "submit" /\ pc' = "idle" /\ ret' = <<op, "OK">> /\ nextFrame' = nextFrame + 1
  <2>1. cpc = "queued" /\ cur \in Works /\ nextFrame = cur /\ after # "retry"
    BY <1>2 DEF WorkInv, WorksOK, FrameOfWork, PointInWork
  <2>2. WorksOK' /\ WorksInOrder' /\ WorkIsOpen'
    BY <1>2, <2>1, FrameAssumption DEF WorkInv, WorksOK, WorksInOrder, Front, WorkIsOpen, Works,
                                       NoWork
  <2>3. FrameOfWork' /\ PointInWork'
    BY <1>2, <2>1 DEF WorkInv, CallStep, FrameOfWork, PointInWork
  <2>. QED
    BY <2>2, <2>3 DEF WorkInv
<1>. QED
  BY <1>1, <1>2 DEF CallStep

\* WorkInv holds before the first work.
LEMMA WorkInvInit == Init => WorkInv
<1>. SUFFICES ASSUME Init PROVE WorkInv
  OBVIOUS
<1>1. WorksOK /\ WorksInOrder
  BY FrameAssumption DEF Init, Session!Init, WorksOK, WorksInOrder, Front, Works, NoWork
<1>2. WorkIsOpen /\ FrameOfWork /\ PointInWork
  BY DEF Init, Session!Init, WorkIsOpen, FrameOfWork, PointInWork
<1>. QED
  BY <1>1, <1>2 DEF WorkInv

\* Every step of the component, the client, the driver and the session keeps
\* WorkInv.
LEMMA WorkInvStep ==
    ASSUME WorkInv, [Next]_vars
    PROVE  WorkInv'
<1>1. CASE InSessionCall
  <2>1. CallStep /\ UNCHANGED component
    BY <1>1, SessionIsCallStep DEF InSessionCall
  <2>2. UNCHANGED <<cpc, after, cur, status, sigErr, sigEos>>
    BY <2>1 DEF component
  <2>. QED
    BY <2>1, <2>2, CallKeepsOrder
<1>2. CASE DriverStep
  <2>1. CallStep /\ UNCHANGED component
    BY <1>2, DriverIsCallStep DEF DriverStep
  <2>2. UNCHANGED <<cpc, after, cur, status, sigErr, sigEos>>
    BY <2>1 DEF component
  <2>. QED
    BY <2>1, <2>2, CallKeepsOrder
<1>3. CASE QueueFrame
  <2>1. UNCHANGED <<cur, status, sigErr, sigEos, nextFrame>>
    BY <1>3 DEF QueueFrame, Session!EnterQueueEncoderFrame, Session!RejectEncoderFrame, Session!history, sessionVars
  <2>2. FrameOfWork' /\ PointInWork'
    BY <1>3 DEF QueueFrame, Session!EnterQueueEncoderFrame, Session!RejectEncoderFrame, Session!history, sessionVars, InSession, Idle, WorkInv, FrameOfWork, PointInWork
  <2>. QED
    BY <2>1, <2>2, WorksUnchanged DEF WorkInv
<1>4. CASE QueueReturned
  <2>1. UNCHANGED <<cur, status, sigErr, sigEos, nextFrame>>
    BY <1>4 DEF QueueReturned, sessionVars
  <2>2. FrameOfWork' /\ PointInWork'
    BY <1>4 DEF QueueReturned, sessionVars, InSession, Idle, WorkInv, FrameOfWork, PointInWork
  <2>. QED
    BY <2>1, <2>2, WorksUnchanged DEF WorkInv
<1>5. CASE QueueFailed
  <2>1. pc = "idle" /\ \E f : Fails(f)
    BY <1>5 DEF QueueFailed, InSession, WorkInv, PointInWork, Fails
  <2>. QED
    BY <2>1, FailsAnswers
<1>6. CASE StartMonitor
  <2>1. UNCHANGED <<cur, status, sigErr, sigEos, nextFrame>>
    BY <1>6 DEF StartMonitor, sessionVars
  <2>2. FrameOfWork' /\ PointInWork'
    BY <1>6 DEF StartMonitor, sessionVars, InSession, Idle, WorkInv, FrameOfWork, PointInWork
  <2>. QED
    BY <2>1, <2>2, WorksUnchanged DEF WorkInv
<1>7. CASE StartMonitorFails
  <2>1. pc = "idle" /\ \E f : Fails(f)
    BY <1>7 DEF StartMonitorFails, InSession, WorkInv, PointInWork, Fails
  <2>. QED
    BY <2>1, FailsAnswers
<1>8. CASE StartDrain
  <2>1. UNCHANGED <<cur, status, sigErr, sigEos, nextFrame>>
    BY <1>8 DEF StartDrain, Session!StartEncoderDrain, Session!history, sessionVars
  <2>2. FrameOfWork' /\ PointInWork'
    BY <1>8 DEF StartDrain, Session!StartEncoderDrain, Session!history, sessionVars, InSession, Idle, WorkInv, FrameOfWork, PointInWork
  <2>. QED
    BY <2>1, <2>2, WorksUnchanged DEF WorkInv
<1>9. CASE StartDrainFails
  <2>1. pc = "idle" /\ \E f : Fails(f)
    BY <1>9 DEF StartDrainFails, InSession, WorkInv, PointInWork, Fails
  <2>. QED
    BY <2>1, FailsAnswers
<1>10. CASE Dequeue
  <2>1. UNCHANGED <<cur, status, sigErr, sigEos, nextFrame>>
    BY <1>10 DEF Dequeue, Session!CallDequeueEncoderFrame, Session!DequeueUnconfigured, Session!history, sessionVars
  <2>2. FrameOfWork' /\ PointInWork'
    BY <1>10 DEF Dequeue, Session!CallDequeueEncoderFrame, Session!DequeueUnconfigured, Session!history, sessionVars, InSession, Idle, WorkInv, FrameOfWork, PointInWork
  <2>. QED
    BY <2>1, <2>2, WorksUnchanged DEF WorkInv
<1>11. CASE TakeOutput
  <2>1. \E f : FinishOutput(f)
    BY <1>11 DEF TakeOutput
  <2>2. WorksOK' /\ WorksInOrder' /\ WorkIsOpen'
    BY <1>11, <2>1, FinishKeepsOrder DEF TakeOutput, sessionVars
  <2>3. FrameOfWork' /\ PointInWork'
    BY <1>11 DEF TakeOutput, sessionVars, InSession, WorkInv, FrameOfWork, PointInWork
  <2>. QED
    BY <2>2, <2>3 DEF WorkInv
<1>12. CASE OutputCorrupted
  <2>1. pc = "idle" /\ \E f : Fails(f)
    BY <1>12 DEF OutputCorrupted, InSession, WorkInv, PointInWork, Fails
  <2>. QED
    BY <2>1, FailsAnswers
<1>13. CASE TakeEos
  <2>1. UNCHANGED <<cur, status, sigErr, sigEos, nextFrame>>
    BY <1>13 DEF TakeEos, sessionVars
  <2>2. FrameOfWork' /\ PointInWork'
    BY <1>13 DEF TakeEos, sessionVars, InSession, Idle, WorkInv, FrameOfWork, PointInWork
  <2>. QED
    BY <2>1, <2>2, WorksUnchanged DEF WorkInv
<1>14. CASE NoMoreOutput
  <2>1. UNCHANGED <<cur, status, sigErr, sigEos, nextFrame>>
    BY <1>14 DEF NoMoreOutput, sessionVars
  <2>2. FrameOfWork' /\ PointInWork'
    BY <1>14 DEF NoMoreOutput, sessionVars, InSession, Idle, WorkInv, FrameOfWork, PointInWork
  <2>. QED
    BY <2>1, <2>2, WorksUnchanged DEF WorkInv
<1>15. CASE DequeueFailed
  <2>1. pc = "idle" /\ \E f : Fails(f)
    BY <1>15 DEF DequeueFailed, InSession, WorkInv, PointInWork, Fails
  <2>. QED
    BY <2>1, FailsAnswers
<1>16. CASE PublishHeld
  <2>1. \E f : FinishOutput(f)
    BY <1>16 DEF PublishHeld
  <2>2. WorksOK' /\ WorksInOrder' /\ WorkIsOpen'
    BY <1>16, <2>1, FinishKeepsOrder DEF PublishHeld, sessionVars
  <2>3. FrameOfWork' /\ PointInWork'
    BY <1>16 DEF PublishHeld, sessionVars, InSession, WorkInv, FrameOfWork, PointInWork
  <2>. QED
    BY <2>2, <2>3 DEF WorkInv
<1>17. CASE FinishFrame
  <2>1. PICK r \in {"ok", "eos", "pending", "error"} : EndWork(r, 0)
    BY <1>17 DEF FinishFrame
  <2>2. cur # NoWork /\ pc = "idle"
    BY <1>17 DEF FinishFrame, WorkInv, PointInWork
  <2>. QED
    BY <2>1, <2>2, EndWorkAnswers
<1>18. CASE FinishEos
  <2>1. EndWork("eos", 0) /\ cur # NoWork /\ pc = "idle"
    BY <1>18 DEF FinishEos, WorkInv, PointInWork
  <2>. QED
    BY <2>1, EndWorkAnswers
<1>19. CASE EosNotSeen
  <2>1. pc = "idle" /\ \E f : Fails(f)
    BY <1>19 DEF EosNotSeen, InSession, WorkInv, PointInWork, Fails
  <2>. QED
    BY <2>1, FailsAnswers
<1>20. CASE DrainEosFlushes
  <2>1. UNCHANGED <<cur, status, sigErr, sigEos, nextFrame>>
    BY <1>20 DEF DrainEosFlushes, Session!Open, Session!call, sessionVars
  <2>2. FrameOfWork' /\ PointInWork'
    BY <1>20 DEF DrainEosFlushes, Session!Open, Session!call, sessionVars, InSession, Idle, WorkInv, FrameOfWork, PointInWork
  <2>. QED
    BY <2>1, <2>2, WorksUnchanged DEF WorkInv
<1>21. CASE DrainEosReturnsEarly
  <2>1. UNCHANGED <<cur, status, sigErr, sigEos, nextFrame>>
    BY <1>21 DEF DrainEosReturnsEarly, sessionVars
  <2>2. FrameOfWork' /\ PointInWork'
    BY <1>21 DEF DrainEosReturnsEarly, sessionVars, InSession, Idle, WorkInv, FrameOfWork, PointInWork
  <2>. QED
    BY <2>1, <2>2, WorksUnchanged DEF WorkInv
<1>22. CASE Rearm
  <2>1. UNCHANGED <<cur, status, sigErr, sigEos, nextFrame>>
    BY <1>22 DEF Rearm, sessionVars
  <2>2. FrameOfWork' /\ PointInWork'
    BY <1>22 DEF Rearm, sessionVars, InSession, Idle, WorkInv, FrameOfWork, PointInWork
  <2>. QED
    BY <2>1, <2>2, WorksUnchanged DEF WorkInv
<1>23. CASE DrainRequested
  <2>1. UNCHANGED <<cur, status, sigErr, sigEos, nextFrame>>
    BY <1>23 DEF DrainRequested, sessionVars
  <2>2. FrameOfWork' /\ PointInWork'
    BY <1>23 DEF DrainRequested, sessionVars, InSession, Idle, WorkInv, FrameOfWork, PointInWork
  <2>. QED
    BY <2>1, <2>2, WorksUnchanged DEF WorkInv
<1>24. CASE MonitorNotifies
  <2>1. UNCHANGED <<cur, status, sigErr, sigEos, nextFrame>>
    BY <1>24 DEF MonitorNotifies, sessionVars
  <2>2. FrameOfWork' /\ PointInWork'
    BY <1>24 DEF MonitorNotifies, sessionVars, InSession, Idle, WorkInv, FrameOfWork, PointInWork
  <2>. QED
    BY <2>1, <2>2, WorksUnchanged DEF WorkInv
<1>25. CASE \E k \in Kinds : Process(k)
  <2>1. /\ cur = NoWork /\ after = "none" /\ pc = "idle" /\ nextFrame <= MaxFrames
        /\ ~sigErr /\ ~sigEos /\ cur' = nextFrame
        /\ UNCHANGED <<sessionVars, status, sigErr, sigEos, after>>
    BY <1>25 DEF Process, Idle, InSession, WorkInv, PointInWork
  <2>2. cpc' \in {"queue", "eosStart", "finish"}
    BY <1>25 DEF Process
  <2>3. nextFrame \in Works /\ UNCHANGED <<nextFrame, pc, op, ret>>
    BY <2>1, FrameAssumption DEF WorkInv, WorksOK, Works, sessionVars
  <2>4. WorksOK' /\ WorksInOrder' /\ WorkIsOpen'
    BY <2>1, <2>3 DEF WorkInv, WorksOK, WorksInOrder, Front, WorkIsOpen, Works, NoWork
  <2>5. FrameOfWork' /\ PointInWork'
    BY <2>1, <2>2, <2>3 DEF FrameOfWork, PointInWork, Works, NoWork
  <2>. QED
    BY <2>4, <2>5 DEF WorkInv
<1>26. CASE ProcessRefused
  <2>1. /\ cur = NoWork /\ nextFrame \in Works /\ nextFrame' = nextFrame + 1
        /\ status' = [status EXCEPT ![nextFrame] = "error"]
        /\ UNCHANGED <<cpc, after, cur, sigErr, sigEos, pc, op, ret>>
    BY <1>26, FrameAssumption DEF ProcessRefused, Idle, InSession, Spends, Works, WorkInv, WorksOK,
                                 PointInWork
  <2>2. WorksOK' /\ WorksInOrder'
    BY <2>1, FrameAssumption DEF WorkInv, WorksOK, WorksInOrder, Front, Works, NoWork
  <2>3. WorkIsOpen' /\ FrameOfWork' /\ PointInWork'
    BY <1>26, <2>1 DEF ProcessRefused, Idle, InSession, WorkInv, WorkIsOpen, FrameOfWork, PointInWork
  <2>. QED
    BY <2>2, <2>3 DEF WorkInv
<1>27. CASE ClientDrains
  <2>1. UNCHANGED <<cur, status, sigErr, sigEos, nextFrame>>
    BY <1>27 DEF ClientDrains, sessionVars
  <2>2. FrameOfWork' /\ PointInWork'
    BY <1>27 DEF ClientDrains, sessionVars, InSession, Idle, WorkInv, FrameOfWork, PointInWork
  <2>. QED
    BY <2>1, <2>2, WorksUnchanged DEF WorkInv
<1>28. CASE ClientDrainsWithEos
  <2>1. UNCHANGED <<cur, status, sigErr, sigEos, nextFrame>>
    BY <1>28 DEF ClientDrainsWithEos, sessionVars
  <2>2. FrameOfWork' /\ PointInWork'
    BY <1>28 DEF ClientDrainsWithEos, sessionVars, InSession, Idle, WorkInv, FrameOfWork, PointInWork
  <2>. QED
    BY <2>1, <2>2, WorksUnchanged DEF WorkInv
<1>29. CASE Stop
  <2>1. /\ status' = Flushed /\ cur = NoWork /\ cpc = "idle" /\ pc = "idle"
        /\ UNCHANGED <<cpc, after, cur, nextFrame, pc, op, ret>>
    BY <1>29 DEF Stop, Session!Close, Session!call, Idle, InSession, WorkInv, PointInWork
  <2>2. WorksOK' /\ WorksInOrder'
    BY <2>1 DEF WorkInv, WorksOK, WorksInOrder, Front, Flushed
  <2>3. WorkIsOpen' /\ FrameOfWork' /\ PointInWork'
    BY <2>1 DEF WorkInv, WorkIsOpen, FrameOfWork, PointInWork
  <2>. QED
    BY <2>2, <2>3 DEF WorkInv
<1>30. CASE Reset
  <2>1. /\ status' = Flushed /\ cur = NoWork /\ cpc = "idle" /\ pc = "idle"
        /\ UNCHANGED <<cpc, after, cur, nextFrame, pc, op, ret>>
    BY <1>30 DEF Reset, Session!Open, Session!call, Idle, InSession, WorkInv, PointInWork
  <2>2. WorksOK' /\ WorksInOrder'
    BY <2>1 DEF WorkInv, WorksOK, WorksInOrder, Front, Flushed
  <2>3. WorkIsOpen' /\ FrameOfWork' /\ PointInWork'
    BY <2>1 DEF WorkInv, WorkIsOpen, FrameOfWork, PointInWork
  <2>. QED
    BY <2>2, <2>3 DEF WorkInv
<1>31. CASE UNCHANGED vars
  <2>1. UNCHANGED <<cpc, after, cur, status, sigErr, sigEos, nextFrame, pc, op, ret>>
    BY <1>31 DEF vars, sessionVars, component
  <2>2. FrameOfWork' /\ PointInWork'
    BY <2>1 DEF WorkInv, FrameOfWork, PointInWork
  <2>. QED
    BY <2>1, <2>2, WorksUnchanged DEF WorkInv
<1>. QED
  BY <1>1, <1>2, <1>3, <1>4, <1>5, <1>6, <1>7, <1>8, <1>9, <1>10, <1>11, <1>12, <1>13, <1>14, <1>15, <1>16, <1>17, <1>18, <1>19, <1>20, <1>21, <1>22, <1>23, <1>24, <1>25, <1>26, <1>27, <1>28, <1>29, <1>30, <1>31
     DEF Next, Component, Client

-----------------------------------------------------------------------------
(* The promise of WorkLifecycle.                                           *)

\* Outcome tells the states of a work apart.
LEMMA OutcomeOf ==
    /\ \A s \in {"new", "pending", "ok", "eos", "error", "flushed"} :
           /\ Outcome(s) = "new" <=> s = "new"
           /\ Outcome(s) = "pending" <=> s = "pending"
    /\ Outcome("ok") = "finished" /\ Outcome("eos") = "finished"
    /\ Outcome("error") = "failed"
    /\ Outcome("pending") = "pending" /\ Outcome("flushed") = "flushed"
BY DEF Outcome

\* The work at the front is the next one of the abstract component.
LEMMA FrontIsNext ==
    ASSUME WorkInv, NEW w \in Works, w = Front
    PROVE  Lifecycle!IsNext(w)
<1>1. status[w] = "new" /\ \A v \in 1 .. (w - 1) : v \in Works /\ status[v] # "new"
  BY FrameAssumption DEF WorkInv, WorksOK, WorksInOrder, Works
<1>. QED
  BY <1>1, OutcomeOf DEF Lifecycle!IsNext, WorkInv, WorksOK

\* A new status of one work is a new outcome of it.
LEMMA StatusBecomes ==
    ASSUME WorkInv, NEW w \in Works, NEW r, status' = [status EXCEPT ![w] = r]
    PROVE  Lifecycle!Becomes(w, Outcome(r))
BY DEF Lifecycle!Becomes, WorkInv, WorksOK

\* A step that leaves every status and the signals alone is a stutter.
LEMMA Stutters ==
    ASSUME UNCHANGED <<status, sigErr, sigEos>>
    PROVE  UNCHANGED Lifecycle!vars
BY DEF Lifecycle!vars

\* A work that process() answers without an error was next, and was taken.
LEMMA EndWorkTakes ==
    ASSUME WorkInv, cur # NoWork, NEW r \in {"ok", "eos", "pending"}, NEW f, EndWork(r, f),
           sigErr' = sigErr, r = "pending" => sigEos' = sigEos
    PROVE  Lifecycle!Next
<1>1. cur \in Works /\ cur = Front /\ ~sigErr /\ ~sigEos
  BY DEF WorkInv, WorksOK, WorkIsOpen, Front
<1>2. Lifecycle!IsNext(cur) /\ Lifecycle!Becomes(cur, Outcome(r))
  BY <1>1, FrontIsNext, StatusBecomes DEF EndWork
<1>3. Lifecycle!Take(cur)
  <2>1. CASE r = "pending"
    BY <1>1, <1>2, <2>1, OutcomeOf DEF Lifecycle!Take
  <2>2. CASE r \in {"ok", "eos"}
    BY <1>1, <1>2, <2>2, OutcomeOf DEF Lifecycle!Take
  <2>. QED
    BY <2>1, <2>2
<1>. QED
  BY <1>1, <1>3 DEF Lifecycle!Next, Lifecycle!Works, Works

\* A failure closes the component on the current work; a drain changes nothing.
LEMMA FailsImplements ==
    ASSUME WorkInv, NEW f, Fails(f)
    PROVE  [Lifecycle!Next]_(Lifecycle!vars)
<1>1. CASE cur # NoWork
  <2>1. cur \in Works /\ cur = Front /\ EndWork("error", f) /\ sigErr' = TRUE
    BY <1>1 DEF WorkInv, WorksOK, Front, Fails, ProcessFails, SignalledAfterFailure
  <2>2. Lifecycle!IsNext(cur) /\ Lifecycle!Becomes(cur, "failed")
    BY <2>1, FrontIsNext, StatusBecomes, OutcomeOf DEF EndWork
  <2>3. Lifecycle!Fail(cur)
    BY <2>1, <2>2 DEF Lifecycle!Fail
  <2>. QED
    BY <2>1, <2>3 DEF Lifecycle!Next, Lifecycle!Works, Works
<1>2. CASE cur = NoWork
  BY <1>2, Stutters DEF Fails, DrainCallFails
<1>. QED
  BY <1>1, <1>2

\* A published output finishes a pending work, or nothing.
LEMMA FinishImplements ==
    ASSUME WorkInv, NEW f, FinishOutput(f), UNCHANGED <<sigErr, sigEos>>
    PROVE  [Lifecycle!Next]_(Lifecycle!vars)
<1>1. CASE f \in Works /\ f # cur /\ f # NoWork /\ status[f] = "pending"
  <2>1. Lifecycle!Becomes(f, "finished")
    BY <1>1, StatusBecomes, OutcomeOf DEF FinishOutput
  <2>2. [w \in Works |-> Outcome(status[w])][f] = "pending"
    BY <1>1, OutcomeOf
  <2>3. Lifecycle!Finish(f)
    BY <2>1, <2>2 DEF Lifecycle!Finish
  <2>. QED
    BY <1>1, <2>3 DEF Lifecycle!Next, Lifecycle!Works, Works
<1>2. CASE ~(f \in Works /\ f # cur /\ f # NoWork /\ status[f] = "pending")
  <2>1. status' = status
    BY <1>2 DEF FinishOutput, WorkInv, WorksOK
  <2>. QED
    BY <2>1, Stutters
<1>. QED
  BY <1>1, <1>2

\* A flush or a stop gives back the pending works, and opens the component or not.
LEMMA FlushedImplements ==
    ASSUME WorkInv, status' = Flushed,
           (sigErr' = FALSE /\ sigEos' = FALSE) \/ UNCHANGED <<sigErr, sigEos>>
    PROVE  Lifecycle!Next
<1>1. \A w \in Works : Outcome(status'[w]) = IF Outcome(status[w]) = "pending" THEN "flushed"
                                             ELSE Outcome(status[w])
  BY OutcomeOf DEF Flushed, WorkInv, WorksOK
<1>2. [w \in Works |-> Outcome(status[w])]' =
          [w \in Lifecycle!Works |->
              IF [v \in Works |-> Outcome(status[v])][w] = "pending" THEN "flushed"
              ELSE [v \in Works |-> Outcome(status[v])][w]]
  BY <1>1 DEF Lifecycle!Works, Works
<1>3. (sigErr \/ sigEos)' \in {sigErr \/ sigEos, FALSE}
  <2>1. CASE sigErr' = FALSE /\ sigEos' = FALSE
    <3>1. (sigErr \/ sigEos)' = FALSE
      BY <2>1
    <3>. QED
      BY <3>1
  <2>2. CASE UNCHANGED <<sigErr, sigEos>>
    BY <2>2
  <2>. QED
    BY <2>1, <2>2
<1>. QED
  BY <1>2, <1>3 DEF Lifecycle!Next, Lifecycle!Reset

\* Every step of the encoder is a step of WorkLifecycle or leaves it alone.
LEMMA StepImplements ==
    ASSUME WorkInv, [Next]_vars
    PROVE  [Lifecycle!Next]_(Lifecycle!vars)
<1>1. CASE InSessionCall
  BY <1>1, Stutters DEF InSessionCall, component
<1>2. CASE DriverStep
  BY <1>2, Stutters DEF DriverStep, component
<1>3. CASE QueueFrame
  BY <1>3, Stutters DEF QueueFrame
<1>4. CASE QueueReturned
  BY <1>4, Stutters DEF QueueReturned
<1>5. CASE QueueFailed
  <2>1. cur # NoWork /\ ProcessFails(0)
    BY <1>5 DEF QueueFailed, WorkInv, PointInWork
  <2>. QED
    BY <2>1, FailsImplements DEF Fails
<1>6. CASE StartMonitor
  BY <1>6, Stutters DEF StartMonitor
<1>7. CASE StartMonitorFails
  <2>1. cur # NoWork /\ ProcessFails(0)
    BY <1>7 DEF StartMonitorFails, WorkInv, PointInWork
  <2>. QED
    BY <2>1, FailsImplements DEF Fails
<1>8. CASE StartDrain
  BY <1>8, Stutters DEF StartDrain
<1>9. CASE StartDrainFails
  BY <1>9, FailsImplements DEF StartDrainFails
<1>10. CASE Dequeue
  BY <1>10, Stutters DEF Dequeue
<1>11. CASE TakeOutput
  BY <1>11, FinishImplements DEF TakeOutput
<1>12. CASE OutputCorrupted
  BY <1>12, FailsImplements DEF OutputCorrupted
<1>13. CASE TakeEos
  BY <1>13, Stutters DEF TakeEos
<1>14. CASE NoMoreOutput
  BY <1>14, Stutters DEF NoMoreOutput
<1>15. CASE DequeueFailed
  BY <1>15, FailsImplements DEF DequeueFailed
<1>16. CASE PublishHeld
  BY <1>16, FinishImplements DEF PublishHeld
<1>17. CASE FinishFrame
  <2>1. PICK r \in {"ok", "eos", "pending"} : EndWork(r, 0)
    BY <1>17 DEF FinishFrame
  <2>2. cur # NoWork /\ UNCHANGED <<sigErr, sigEos>>
    BY <1>17 DEF FinishFrame, WorkInv, PointInWork
  <2>. QED
    BY <2>1, <2>2, EndWorkTakes
<1>18. CASE FinishEos
  <2>1. EndWork("eos", 0) /\ cur # NoWork /\ sigErr' = sigErr
    BY <1>18 DEF FinishEos, WorkInv, PointInWork
  <2>. QED
    BY <2>1, EndWorkTakes
<1>19. CASE EosNotSeen
  <2>1. cur # NoWork /\ ProcessFails(0)
    BY <1>19 DEF EosNotSeen, WorkInv, PointInWork
  <2>. QED
    BY <2>1, FailsImplements DEF Fails
<1>20. CASE DrainEosFlushes
  BY <1>20, Stutters DEF DrainEosFlushes
<1>21. CASE DrainEosReturnsEarly
  BY <1>21, Stutters DEF DrainEosReturnsEarly
<1>22. CASE Rearm
  BY <1>22, Stutters DEF Rearm
<1>23. CASE DrainRequested
  BY <1>23, Stutters DEF DrainRequested
<1>24. CASE MonitorNotifies
  BY <1>24, Stutters DEF MonitorNotifies
<1>25. CASE \E k \in Kinds : Process(k)
  BY <1>25, Stutters DEF Process
<1>26. CASE ProcessRefused
  <2>1. cur = NoWork /\ nextFrame \in Works /\ nextFrame = Front
    BY <1>26, FrameAssumption DEF ProcessRefused, Idle, WorkInv, WorksOK, PointInWork, Works, Front
  <2>2. Lifecycle!IsNext(nextFrame) /\ Lifecycle!Becomes(nextFrame, "failed")
    BY <1>26, <2>1, FrontIsNext, StatusBecomes, OutcomeOf DEF ProcessRefused
  <2>3. Lifecycle!Fail(nextFrame)
    BY <1>26, <2>2 DEF ProcessRefused, Lifecycle!Fail
  <2>. QED
    BY <2>1, <2>3 DEF Lifecycle!Next, Lifecycle!Works, Works
<1>27. CASE ClientDrains
  BY <1>27, Stutters DEF ClientDrains
<1>28. CASE ClientDrainsWithEos
  BY <1>28, Stutters DEF ClientDrainsWithEos
<1>29. CASE Stop
  BY <1>29, FlushedImplements DEF Stop
<1>30. CASE Reset
  BY <1>30, FlushedImplements DEF Reset
<1>31. CASE UNCHANGED vars
  BY <1>31, Stutters DEF vars, component
<1>. QED
  BY <1>1, <1>2, <1>3, <1>4, <1>5, <1>6, <1>7, <1>8, <1>9, <1>10, <1>11, <1>12, <1>13, <1>14, <1>15, <1>16, <1>17, <1>18, <1>19, <1>20, <1>21, <1>22, <1>23, <1>24, <1>25, <1>26, <1>27, <1>28, <1>29, <1>30, <1>31
     DEF Next, Component, Client

\* The encoder's works start where those of WorkLifecycle do.
LEMMA InitImplements == Init => Lifecycle!Init
BY OutcomeOf DEF Init, Lifecycle!Init, Lifecycle!Works, Works, Outcome

\* The works of the encoder are answered one after another, in the order they
\* were queued, and the frame counter follows them: process() with its retry, its
\* failures and its end of stream, the drains, the flushes and the stops.
THEOREM WorksAnsweredInOrder == Spec => []WorkInv
<1>1. Init => WorkInv
  BY WorkInvInit
<1>2. WorkInv /\ [Next]_vars => WorkInv'
  BY WorkInvStep
<1>. QED
  BY <1>1, <1>2, PTL DEF Spec

\* The encoder implements WorkLifecycle: whatever the session, the driver, the
\* monitor and the client do, each work is taken in turn and leaves the component
\* exactly once, and after signalled_error_ or signalled_eos_ none is taken until
\* a reset (process, FinishOutput, drain, onFlush_sm, onStop).
THEOREM EncoderKeepsLifecycle == Spec => WorksKeepLifecycle
<1>1. Init => Lifecycle!Init
  BY InitImplements
<1>2. WorkInv /\ [Next]_vars => [Lifecycle!Next]_(Lifecycle!vars)
  BY StepImplements
<1>. QED
  BY <1>1, <1>2, WorksAnsweredInOrder, PTL DEF Spec, WorksKeepLifecycle, Lifecycle!Spec

\* What that promise means to a client that remembers its last answer: a work that was
\* answered keeps its answer, and a closed component answers the next works with an
\* error only.
AnswersAreFinal ==
    /\ \A w \in Works : status[w] \notin {"new", "pending"} =>
                            Outcome(status'[w]) = Outcome(status[w])
    /\ (sigErr \/ sigEos) =>
         \A w \in Works : status[w] = "new" /\ status'[w] # "new" => status'[w] = "error"

\* A step of WorkLifecycle changes no answer.
LEMMA LifecycleIsFinal ==
    ASSUME WorkInv, WorkInv', [Lifecycle!Next]_(Lifecycle!vars)
    PROVE  AnswersAreFinal
<1>. DEFINE work == [w \in Works |-> Outcome(status[w])]
<1>. DEFINE closed == (sigErr \/ sigEos)
<1>1. /\ Lifecycle!Works = Works
      /\ \A w \in Works : work[w] = Outcome(status[w]) /\ work'[w] = Outcome(status'[w])
      /\ \A w \in Works : /\ work[w] = "new" <=> status[w] = "new"
                          /\ work[w] = "pending" <=> status[w] = "pending"
                          /\ work'[w] = "new" <=> status'[w] = "new"
                          /\ work'[w] = "failed" => status'[w] = "error"
  BY OutcomeOf DEF Lifecycle!Works, Works, WorkInv, WorksOK
<1>2. SUFFICES /\ \A w \in Works : work[w] \notin {"new", "pending"} => work'[w] = work[w]
               /\ closed => \A w \in Works : work[w] = "new" /\ work'[w] # "new" =>
                                                 work'[w] = "failed"
  BY <1>1 DEF AnswersAreFinal
<1>3. CASE \E v \in Works : Lifecycle!Take(v)
  BY <1>1, <1>3 DEF Lifecycle!Take, Lifecycle!IsNext, Lifecycle!Becomes
<1>4. CASE \E v \in Works : Lifecycle!Fail(v)
  BY <1>1, <1>4 DEF Lifecycle!Fail, Lifecycle!IsNext, Lifecycle!Becomes
<1>5. CASE \E v \in Works : Lifecycle!Finish(v)
  BY <1>1, <1>5 DEF Lifecycle!Finish, Lifecycle!Becomes
<1>6. CASE Lifecycle!Reset
  BY <1>1, <1>6 DEF Lifecycle!Reset
<1>7. CASE UNCHANGED Lifecycle!vars
  BY <1>7 DEF Lifecycle!vars
<1>. QED
  BY <1>1, <1>3, <1>4, <1>5, <1>6, <1>7 DEF Lifecycle!Next

\* Each work leaves the encoder once: no output, failure, flush or stop answers it again,
\* and after signalled_error_ or signalled_eos_ no later work is taken before a reset.
THEOREM AnswersStay == Spec => [][AnswersAreFinal]_vars
<1>1. WorkInv /\ WorkInv' /\ [Next]_vars => [AnswersAreFinal]_vars
  BY StepImplements, LifecycleIsFinal
<1>. QED
  BY <1>1, WorksAnsweredInOrder, PTL DEF Spec

-----------------------------------------------------------------------------
(* The session under the component.                                        *)

\* What EncoderOutputProofs shows of a session; Session and Out have the same
\* variables, and their definitions say the same.
Out == INSTANCE EncoderOutputProofs

\* The constants are a session's.
LEMMA SameConstants == Out!EncoderConstants
BY SessionAssumption DEF Session!EncoderConstants, Out!EncoderConstants, Session!Frames, Out!Frames

\* The calls that the component makes are the session's own.
LEMMA SameCalls ==
    /\ Session!Open => Out!Open
    /\ Session!Close => Out!Close
    /\ Session!EnterQueueEncoderFrame => Out!EnterQueueEncoderFrame
    /\ Session!RejectEncoderFrame => Out!RejectEncoderFrame
    /\ Session!DequeueUnconfigured => Out!DequeueUnconfigured
    /\ Session!StartEncoderDrain => Out!StartEncoderDrain
    /\ \A wait : Session!CallDequeueEncoderFrame(wait) => Out!CallDequeueEncoderFrame(wait)
<1>1. Session!Open => Out!Open
  BY DEF Session!Open, Session!CaptureSlots, Session!CloseSession, Session!Fault,
     Session!InputSlots, Session!NoFrame, Session!call, Out!Open, Out!CaptureSlots,
     Out!CloseSession, Out!Fault, Out!InputSlots, Out!NoFrame, Out!call
<1>2. Session!Close => Out!Close
  BY DEF Session!Close, Session!CaptureSlots, Session!CloseSession, Session!InputSlots,
     Session!NoFrame, Session!call, Out!Close, Out!CaptureSlots, Out!CloseSession,
     Out!InputSlots, Out!NoFrame, Out!call
<1>3. Session!EnterQueueEncoderFrame => Out!EnterQueueEncoderFrame
  BY DEF Session!EnterQueueEncoderFrame, Session!device, Session!history, Session!session,
     Out!EnterQueueEncoderFrame, Out!device, Out!history, Out!session
<1>4. Session!RejectEncoderFrame => Out!RejectEncoderFrame
  BY DEF Session!RejectEncoderFrame, Session!device, Session!history, Session!session,
     Out!RejectEncoderFrame, Out!device, Out!history, Out!session
<1>5. Session!DequeueUnconfigured => Out!DequeueUnconfigured
  BY DEF Session!DequeueUnconfigured, Session!device, Session!history, Session!session,
     Out!DequeueUnconfigured, Out!device, Out!history, Out!session
<1>6. Session!StartEncoderDrain => Out!StartEncoderDrain
  BY DEF Session!StartEncoderDrain, Session!NoFrame, Session!history, Out!StartEncoderDrain,
     Out!NoFrame, Out!history
<1>7. \A wait : Session!CallDequeueEncoderFrame(wait) => Out!CallDequeueEncoderFrame(wait)
  BY DEF Session!CallDequeueEncoderFrame, Session!device, Session!history, Session!session,
     Out!CallDequeueEncoderFrame, Out!device, Out!history, Out!session
<1>. QED
  BY <1>1, <1>2, <1>3, <1>4, <1>5, <1>6, <1>7

\* The steps inside a call are the session's own.
LEMMA SameSteps ==
    /\ Session!DequeueEncoderInputs => Out!DequeueEncoderInputs
    /\ Session!TakePayload => Out!TakePayload
    /\ Session!TakeEmptyLast => Out!TakeEmptyLast
    /\ Session!RequeueEmpty => Out!RequeueEmpty
    /\ Session!PumpLosesSlot => Out!PumpLosesSlot
    /\ Session!CaptureDrained => Out!CaptureDrained
    /\ Session!IoctlFails => Out!IoctlFails
    /\ Session!QueueBlocks => Out!QueueBlocks
    /\ Session!QueueWaits => Out!QueueWaits
    /\ Session!QueueProceeds => Out!QueueProceeds
    /\ Session!SubmitFrame => Out!SubmitFrame
    /\ Session!SubmitFails => Out!SubmitFails
    /\ Session!DequeueHasFrame => Out!DequeueHasFrame
    /\ Session!DequeueWaits => Out!DequeueWaits
    /\ Session!DequeueFindsNothing => Out!DequeueFindsNothing
    /\ Session!CopyEncoderFrame => Out!CopyEncoderFrame
    /\ Session!CopyFails => Out!CopyFails
    /\ Session!WaitForDeviceReady => Out!WaitForDeviceReady
    /\ Session!WaitForDeviceTimeout => Out!WaitForDeviceTimeout
<1>1. Session!DequeueEncoderInputs => Out!DequeueEncoderInputs
  BY DEF Session!DequeueEncoderInputs, Session!GoTo, Session!InputSlots, Session!NoFrame,
     Session!history, Out!DequeueEncoderInputs, Out!GoTo, Out!InputSlots, Out!NoFrame, Out!history
<1>2. Session!TakePayload => Out!TakePayload
  BY DEF Session!TakePayload, Session!Erase, Session!Matches, Session!call, Session!history,
     Out!TakePayload, Out!Erase, Out!Matches, Out!call, Out!history
<1>3. Session!TakeEmptyLast => Out!TakeEmptyLast
  BY DEF Session!TakeEmptyLast, Session!NoFrame, Session!call, Session!history,
     Out!TakeEmptyLast, Out!NoFrame, Out!call, Out!history
<1>4. Session!RequeueEmpty => Out!RequeueEmpty
  BY DEF Session!RequeueEmpty, Session!call, Session!history, Session!session, Out!RequeueEmpty,
     Out!call, Out!history, Out!session
<1>5. Session!PumpLosesSlot => Out!PumpLosesSlot
  BY DEF Session!PumpLosesSlot, Session!Return, Session!Unmatched, Session!session,
     Out!PumpLosesSlot, Out!Return, Out!Unmatched, Out!session
<1>6. Session!CaptureDrained => Out!CaptureDrained
  BY DEF Session!CaptureDrained, Session!GoTo, Session!device, Session!history, Session!session,
     Out!CaptureDrained, Out!GoTo, Out!device, Out!history, Out!session
<1>7. Session!IoctlFails => Out!IoctlFails
  BY DEF Session!IoctlFails, Session!Fails, Session!Fault, Session!Return, Session!device,
     Session!session, Out!IoctlFails, Out!Fails, Out!Fault, Out!Return, Out!device, Out!session
<1>8. Session!QueueBlocks => Out!QueueBlocks
  BY DEF Session!QueueBlocks, Session!InputSlots, Session!InputsFull, Session!MetadataFull,
     Session!NoFrame, Session!Return, Session!device, Session!history, Session!session,
     Out!QueueBlocks, Out!InputSlots, Out!InputsFull, Out!MetadataFull, Out!NoFrame, Out!Return,
     Out!device, Out!history, Out!session
<1>9. Session!QueueWaits => Out!QueueWaits
  BY DEF Session!QueueWaits, Session!GoTo, Session!InputSlots, Session!InputsFull,
     Session!MetadataFull, Session!NoFrame, Session!device, Session!history, Session!session,
     Out!QueueWaits, Out!GoTo, Out!InputSlots, Out!InputsFull, Out!MetadataFull, Out!NoFrame,
     Out!device, Out!history, Out!session
<1>10. Session!QueueProceeds => Out!QueueProceeds
  BY DEF Session!QueueProceeds, Session!GoTo, Session!InputSlots, Session!InputsFull,
     Session!MetadataFull, Session!NoFrame, Session!device, Session!history, Session!session,
     Out!QueueProceeds, Out!GoTo, Out!InputSlots, Out!InputsFull, Out!MetadataFull, Out!NoFrame,
     Out!device, Out!history, Out!session
<1>11. Session!SubmitFrame => Out!SubmitFrame
  BY DEF Session!SubmitFrame, Session!CaptureSlots, Session!ConfigureEncoder, Session!FreeSlot,
     Session!InputSlots, Session!NoFrame, Session!Return, Out!SubmitFrame, Out!CaptureSlots,
     Out!ConfigureEncoder, Out!FreeSlot, Out!InputSlots, Out!NoFrame, Out!Return
<1>12. Session!SubmitFails => Out!SubmitFails
  BY DEF Session!SubmitFails, Session!CaptureSlots, Session!ConfigureEncoder, Session!Fault,
     Session!Return, Out!SubmitFails, Out!CaptureSlots, Out!ConfigureEncoder, Out!Fault,
     Out!Return
<1>13. Session!DequeueHasFrame => Out!DequeueHasFrame
  BY DEF Session!DequeueHasFrame, Session!GoTo, Session!device, Session!history, Session!session,
     Out!DequeueHasFrame, Out!GoTo, Out!device, Out!history, Out!session
<1>14. Session!DequeueWaits => Out!DequeueWaits
  BY DEF Session!DequeueWaits, Session!GoTo, Session!device, Session!history, Session!session,
     Out!DequeueWaits, Out!GoTo, Out!device, Out!history, Out!session
<1>15. Session!DequeueFindsNothing => Out!DequeueFindsNothing
  BY DEF Session!DequeueFindsNothing, Session!Return, Session!device, Session!history,
     Session!session, Out!DequeueFindsNothing, Out!Return, Out!device, Out!history, Out!session
<1>16. Session!CopyEncoderFrame => Out!CopyEncoderFrame
  BY DEF Session!CopyEncoderFrame, Session!NoFrame, Session!Return, Out!CopyEncoderFrame,
     Out!NoFrame, Out!Return
<1>17. Session!CopyFails => Out!CopyFails
  BY DEF Session!CopyFails, Session!Fails, Session!Fault, Session!NoFrame, Session!Return,
     Session!device, Session!session, Out!CopyFails, Out!Fails, Out!Fault, Out!NoFrame,
     Out!Return, Out!device, Out!session
<1>18. Session!WaitForDeviceReady => Out!WaitForDeviceReady
  BY DEF Session!WaitForDeviceReady, Session!DeviceReady, Session!MetadataFull, Session!device,
     Session!history, Session!session, Out!WaitForDeviceReady, Out!DeviceReady, Out!MetadataFull,
     Out!device, Out!history, Out!session
<1>19. Session!WaitForDeviceTimeout => Out!WaitForDeviceTimeout
  BY DEF Session!WaitForDeviceTimeout, Session!DeviceReady, Session!MetadataFull, Session!Return,
     Session!device, Session!history, Session!session, Out!WaitForDeviceTimeout, Out!DeviceReady,
     Out!MetadataFull, Out!Return, Out!device, Out!history, Out!session
<1>. QED
  BY <1>1, <1>2, <1>3, <1>4, <1>5, <1>6, <1>7, <1>8, <1>9, <1>10, <1>11, <1>12, <1>13, <1>14,
     <1>15, <1>16, <1>17, <1>18, <1>19

\* The driver's steps are those of the session's driver.
LEMMA SameDriver ==
    /\ Session!DriverReleasesInput => Out!DriverReleasesInput
    /\ Session!DriverEncodes => Out!DriverEncodes
    /\ Session!DriverSkipsFrame => Out!DriverSkipsFrame
    /\ Session!DriverEndsDrain => Out!DriverEndsDrain
<1>1. Session!DriverReleasesInput => Out!DriverReleasesInput
  BY DEF Session!DriverReleasesInput, Session!call, Session!history, Session!session,
     Out!DriverReleasesInput, Out!call, Out!history, Out!session
<1>2. Session!DriverEncodes => Out!DriverEncodes
  BY DEF Session!DriverEncodes, Session!Filled, Session!NoFrame, Session!call, Session!history,
     Session!session, Out!DriverEncodes, Out!Filled, Out!NoFrame, Out!call, Out!history,
     Out!session
<1>3. Session!DriverSkipsFrame => Out!DriverSkipsFrame
  BY DEF Session!DriverSkipsFrame, Session!Filled, Session!NoFrame, Session!call,
     Session!session, Out!DriverSkipsFrame, Out!Filled, Out!NoFrame, Out!call, Out!session
<1>4. Session!DriverEndsDrain => Out!DriverEndsDrain
  BY DEF Session!DriverEndsDrain, Session!Filled, Session!NoFrame, Session!call, Session!history,
     Session!session, Out!DriverEndsDrain, Out!Filled, Out!NoFrame, Out!call, Out!history,
     Out!session
<1>. QED
  BY <1>1, <1>2, <1>3, <1>4

\* An output that DequeueEncoderFrame has just returned to the drain loop.
JustOut == cpc = "dequeued" /\ pc = "idle" /\ ret[2] = "OK"
Latest == delivered[Len(delivered)].index

\* A session that drains without having been configured has queued its own end of
\* stream, which the drain loop hands out before process() is called again.
OwnEos ==
    draining /\ ~configured /\ ~sigEos =>
      \/ /\ cpc \in {"drain", "dequeued"} /\ Draining
         /\ \/ /\ Len(pending) = 1 /\ pending[1].frame = NoWork
               /\ pc = (IF cpc = "drain" THEN "idle" ELSE "copy")
            \/ JustOut /\ Latest = NoWork
      \/ cpc = "drained" /\ Draining /\ sawEos
      \/ cpc \in {"eosEnd", "drainEosEnd"} /\ sawEos

\* The component never calls the session as EncoderSession's callers may not.
LEMMA ComponentMaySubmit ==
    ASSUME WorkInv, OwnEos, cpc = "queue"
    PROVE  Out!MaySubmit
<1>1. nextFrame = cur /\ cur \in Works /\ ~sigEos
  BY DEF WorkInv, FrameOfWork, PointInWork, WorksOK, WorkIsOpen
<1>2. nextFrame <= MaxFrames
  BY <1>1, FrameAssumption DEF Works
<1>. QED
  BY <1>1, <1>2 DEF OwnEos, Out!MaySubmit

\* What is unchanged for the component is unchanged for the session.
LEMMA SameVars == UNCHANGED sessionVars => UNCHANGED Out!vars
BY DEF sessionVars, Out!vars, Out!session, Out!device, Out!call, Out!history

\* A handler that ends passes a number over, or spends a fault.
LEMMA SpendsKeepsSession ==
    ASSUME WorkInv', Out!OutInv, pc = "idle", NEW n, n = nextFrame \/ n = nextFrame + 1,
           NEW f \in {0, 1}, Spends(n, f)
    PROVE  Out!OutInv'
<1>1. nextFrame \in Nat /\ faults \in Nat
  BY FrameAssumption DEF Out!OutInv, Out!FrameInv, Out!IInv, Out!TypeOK
<1>2. /\ nextFrame' \in 1 .. (MaxFrames + 1) /\ nextFrame' >= nextFrame /\ faults' \in Nat
  BY <1>1 DEF Spends, WorkInv, WorksOK
<1>3. UNCHANGED <<Out!session, Out!device, Out!call, delivered, accepted, failed, skips, opens>>
  BY DEF Spends, Out!session, Out!device, Out!call
<1>. QED
  BY <1>2, <1>3, Out!OutInvCaller, SameConstants

\* A work that ends, or a drain that fails.
LEMMA EndKeepsSession ==
    ASSUME WorkInv, WorkInv', Out!OutInv, pc = "idle", NEW f \in {0, 1},
           Fails(f) \/ (cur # NoWork /\ \E r : EndWork(r, f))
    PROVE  Out!OutInv'
<1>1. CASE cur # NoWork /\ \E r : EndWork(r, f)
  <2>. DEFINE n == IF nextFrame = cur THEN cur + 1 ELSE nextFrame
  <2>1. Spends(n, f) /\ (n = nextFrame \/ n = nextFrame + 1)
    BY <1>1 DEF EndWork
  <2>. HIDE DEF n
  <2>. QED
    BY <2>1, SpendsKeepsSession
<1>2. CASE cur = NoWork /\ Fails(f)
  BY <1>2, SpendsKeepsSession DEF Fails, DrainCallFails
<1>. QED
  BY <1>1, <1>2 DEF Fails, ProcessFails

\* Every step of the composition keeps what EncoderOutputProofs shows of the session:
\* the component calls it as it may be called, and between its calls leaves it alone.
LEMMA SessionKept ==
    ASSUME WorkInv, WorkInv', OwnEos, Out!OutInv, [Next]_vars
    PROVE  Out!OutInv'
<1>1. ASSUME [Out!Next]_(Out!vars) PROVE Out!OutInv'
  BY <1>1, Out!OutInvNext, SameConstants
<1>2. CASE InSessionCall
  <2>1. Out!SessionSteps
    BY <1>2, SameSteps DEF InSessionCall, Session!SessionSteps, Session!Pump, Session!QueueSteps,
       Session!DequeueSteps, Session!WaitSteps, Out!SessionSteps, Out!Pump, Out!QueueSteps,
       Out!DequeueSteps, Out!WaitSteps
  <2>. QED
    BY <1>1, <2>1 DEF Out!Next
<1>3. CASE DriverStep
  <2>1. Out!Driver
    BY <1>3, SameDriver DEF DriverStep, Session!Driver, Out!Driver
  <2>. QED
    BY <1>1, <2>1 DEF Out!Next
<1>4. CASE QueueFrame
  <2>1. Out!MaySubmit
    BY <1>4, ComponentMaySubmit DEF QueueFrame
  <2>2. Out!CallQueueEncoderFrame \/ (Out!MaySubmit /\ Out!RejectEncoderFrame)
    BY <1>4, <2>1, SameCalls DEF QueueFrame, Out!CallQueueEncoderFrame
  <2>. QED
    BY <1>1, <2>2 DEF Out!Next, Out!Calls
<1>5. CASE StartDrain
  BY <1>1, <1>5, SameCalls, SameVars DEF StartDrain, Out!Next, Out!Calls
<1>6. CASE Dequeue
  <2>1. (Draining /\ ~sawEos) \in BOOLEAN
    OBVIOUS
  <2>2. Session!CallDequeueEncoderFrame(Draining /\ ~sawEos) \/ Session!DequeueUnconfigured
    BY <1>6 DEF Dequeue
  <2>3. (\E wait \in BOOLEAN : Out!CallDequeueEncoderFrame(wait)) \/ Out!DequeueUnconfigured
    BY <2>1, <2>2, SameCalls
  <2>. QED
    BY <1>1, <2>3 DEF Out!Next, Out!Calls
<1>7. CASE DrainEosFlushes \/ Reset \/ Stop
  <2>1. Out!Open \/ Out!Close
    BY <1>7, SameCalls DEF DrainEosFlushes, Reset, Stop
  <2>. QED
    BY <1>1, <2>1 DEF Out!Next, Out!Calls
<1>8. CASE QueueFailed \/ StartMonitorFails \/ StartDrainFails \/ OutputCorrupted \/ DequeueFailed
           \/ EosNotSeen
  <2>1. pc = "idle" /\ \E f \in {0, 1} : Fails(f) \/ (cur # NoWork /\ \E r : EndWork(r, f))
    BY <1>8 DEF QueueFailed, StartMonitorFails, StartDrainFails, OutputCorrupted, DequeueFailed,
       EosNotSeen, InSession, WorkInv, PointInWork, ProcessFails
  <2>. QED
    BY <2>1, EndKeepsSession
<1>9. CASE FinishFrame \/ FinishEos
  <2>1. pc = "idle" /\ cur # NoWork /\ \E r : EndWork(r, 0)
    BY <1>9 DEF FinishFrame, FinishEos, WorkInv, PointInWork
  <2>. QED
    BY <2>1, EndKeepsSession
<1>10. CASE ProcessRefused
  <2>1. pc = "idle" /\ Spends(nextFrame + 1, 0)
    BY <1>10 DEF ProcessRefused, Idle, InSession
  <2>. QED
    BY <2>1, SpendsKeepsSession
<1>11. CASE QueueReturned \/ StartMonitor \/ TakeOutput \/ TakeEos \/ NoMoreOutput \/ PublishHeld
            \/ DrainEosReturnsEarly \/ Rearm \/ DrainRequested \/ MonitorNotifies
            \/ (\E k \in Kinds : Process(k)) \/ ClientDrains \/ ClientDrainsWithEos
            \/ UNCHANGED vars
  <2>1. UNCHANGED sessionVars
    BY <1>11 DEF QueueReturned, StartMonitor, TakeOutput, TakeEos, NoMoreOutput, PublishHeld,
       DrainEosReturnsEarly, Rearm, DrainRequested, MonitorNotifies, Process, ClientDrains,
       ClientDrainsWithEos, vars
  <2>. QED
    BY <1>1, <2>1, SameVars
<1>. QED
  BY <1>2, <1>3, <1>4, <1>5, <1>6, <1>7, <1>8, <1>9, <1>10, <1>11 DEF Next, Component, Client

-----------------------------------------------------------------------------
(* Outputs and their works.                                                *)

\* The drain loop: what it holds was handed out and is not what it has just got, it
\* has seen the end of stream only if there was one, and a work without a frame is
\* not drained for.
LoopOK ==
    /\ hold # NoWork => /\ cpc \in {"drain", "dequeued", "drained"}
                        /\ hold \in Out!HandedOut /\ (JustOut => hold # Latest)
    /\ JustOut => delivered # <<>>
    /\ pc = "copy" => cpc = "dequeued"
    /\ sawEos => Out!EosOut
    /\ cpc = "idle" => ~sawEos
    /\ done => cur \in Out!HandedOut
    /\ kind = "empty" /\ cur # NoWork => cpc = "finish" /\ nextFrame = cur

\* Unless an error was reported, what the session holds, has just handed out or had
\* handed out before belongs to a work that is pending or current.  After the end of
\* stream the metadata of a frame queued during the drain may be left over.
HasWork(w) == w = cur \/ status[w] = "pending"
FramesHaveWorks ==
    ~errored => /\ hold # NoWork => HasWork(hold)
                /\ JustOut /\ Latest # NoWork => HasWork(Latest)
                /\ \A w \in Out!Waiting : HasWork(w)
                /\ ~Out!EosOut => \A w \in Out!Queued : HasWork(w)

\* A failed call of the session is reported as soon as it has returned.
CallFailed == /\ cpc \in {"queued", "dequeued"} /\ pc = "idle"
              /\ ret[2] \notin {"OK", "BLOCKING", "NOT_FOUND"}
FailuresReported == failed => errored \/ CallFailed

\* Without errors and skips a pending work was queued before any drain, its output
\* is published when it leaves the drain loop, and the end of stream leaves none.
Sound == ~errored /\ skips = 0
CurrentAccepted ==
    /\ (cpc = "queued" /\ pc = "idle" /\ ret[2] = "OK") \/ cpc = "startMonitor" =>
           draining \/ cur \in accepted
    /\ after = "end" \/ (cpc = "finish" /\ kind # "empty") => cur \in accepted
PendingAccepted == Sound => \A w \in Works : status[w] = "pending" => w \in accepted
Published ==
    Sound => \A w \in Out!HandedOut :
                \/ w = hold
                \/ JustOut /\ w = Latest
                \/ (w = cur => done) /\ status[w] # "pending"
NothingAfterEos == Sound /\ sigEos => \A w \in Works : status[w] # "pending"

\* A pending work's frame is inside the component.
Inside(w) == w = hold \/ w \in Out!Queued \/ w \in Out!Waiting \/ (JustOut /\ w = Latest)
PendingInside == Sound => \A w \in Works : status[w] = "pending" => Inside(w)

Loop == OwnEos /\ LoopOK /\ FailuresReported /\ CurrentAccepted
Outputs == FramesHaveWorks /\ PendingAccepted /\ Published /\ NothingAfterEos /\ ~stray

StreamInv == WorkInv /\ Out!OutInv /\ Loop /\ Outputs /\ PendingInside

\* What the session's invariant says of its frames.
LEMMA FramesOfSession ==
    ASSUME Out!OutInv
    PROVE  /\ Out!Queued \subseteq Works /\ Out!Waiting \subseteq Works
           /\ Out!HandedOut \subseteq Works /\ NoWork \notin Works
           /\ Out!Queued \cap Out!Waiting = {} /\ Out!Queued \cap Out!HandedOut = {}
           /\ Out!Waiting \cap Out!HandedOut = {}
           /\ delivered # <<>> =>
                /\ Len(delivered) \in DOMAIN delivered /\ Latest \in Out!HandedOut \cup {NoWork}
                /\ Latest = NoWork => delivered[Len(delivered)].eos
           /\ nextFrame \notin Out!Queued \cup Out!Waiting \cup Out!HandedOut
           /\ Out!EosOut => Out!Waiting = {}
           /\ skips \in Nat
<1>1. Out!TypeOK /\ Out!LeavesOnce /\ Out!TakenBefore /\ Out!EntriesOrdered
  BY DEF Out!OutInv, Out!FrameInv, Out!IInv, Out!Ordered
<1>2. Works = Out!Frames /\ NoWork = Out!NoFrame
  BY DEF Works, NoWork, Out!Frames, Out!NoFrame
<1>3. /\ Out!Frames \subseteq Nat /\ Out!NoFrame \notin Out!Frames /\ nextFrame \in Nat
      /\ \A k \in DOMAIN metadata : metadata[k].frame \in Out!Frames
      /\ \A i \in DOMAIN pending : pending[i].frame \in Out!Frames \cup {Out!NoFrame}
      /\ \A i \in DOMAIN delivered : delivered[i].index \in Out!Frames \cup {Out!NoFrame}
  BY <1>1, Out!Elements, SameConstants
<1>4. /\ Out!Queued \subseteq Works /\ Out!Waiting \subseteq Works
      /\ Out!HandedOut \subseteq Works /\ NoWork \notin Works
  BY <1>2, <1>3 DEF Out!Queued, Out!Waiting, Out!HandedOut
<1>5. /\ Out!Queued \cap Out!Waiting = {} /\ Out!Queued \cap Out!HandedOut = {}
      /\ Out!Waiting \cap Out!HandedOut = {}
  BY <1>1 DEF Out!LeavesOnce, Out!Apart
<1>6. ASSUME delivered # <<>>
      PROVE  /\ Len(delivered) \in DOMAIN delivered /\ Latest \in Out!HandedOut \cup {NoWork}
             /\ Latest = NoWork => delivered[Len(delivered)].eos
  <2>1. Len(delivered) \in DOMAIN delivered
    BY <1>1, <1>6 DEF Out!TypeOK
  <2>. QED
    BY <1>1, <1>2, <2>1 DEF Latest, Out!HandedOut, Out!LeavesOnce, Out!EmptyIsEos
<1>7. nextFrame \notin Out!Queued \cup Out!Waiting \cup Out!HandedOut
  <2>1. /\ \A k \in DOMAIN metadata : metadata[k].frame # nextFrame
        /\ \A i \in DOMAIN pending : pending[i].frame # nextFrame
        /\ \A i \in DOMAIN delivered : delivered[i].index # nextFrame
    BY <1>1, <1>3 DEF Out!TakenBefore, Out!EntriesOrdered, Out!NoFrame
  <2>. QED
    BY <2>1 DEF Out!Queued, Out!Waiting, Out!HandedOut
<1>8. Out!EosOut => Out!Waiting = {}
  <2>1. Out!EosOut => pending = <<>>
    BY DEF Out!OutInv, Out!FrameInv, Out!Ending, Out!EosLast, Out!EosOut
  <2>. QED
    BY <2>1 DEF Out!Waiting
<1>. QED
  BY <1>1, <1>4, <1>5, <1>6, <1>7, <1>8 DEF Out!TypeOK

\* A step inside a call, or of the driver, in the component's terms.
LEMMA CallEffect ==
    ASSUME StreamInv, InSessionCall \/ DriverStep
    PROVE  /\ Out!Effect /\ CallStep /\ UNCHANGED component
           /\ pc = "submit" => cpc = "queued" /\ nextFrame = cur /\ cur \in Works
           /\ pc = "copy" => cpc = "dequeued"
           /\ pc' = "copy" => cpc = "dequeued"
           /\ ~Out!Copies /\ JustOut' => JustOut /\ UNCHANGED delivered
           /\ JustOut /\ ~Out!Copies => JustOut'
           /\ UNCHANGED <<Out!EosOut>> \/ Out!Copies
<1>1. Out!SessionSteps \/ Out!Driver
  <2>1. CASE InSessionCall
    BY <2>1, SameSteps DEF InSessionCall, Session!SessionSteps, Session!Pump, Session!QueueSteps,
       Session!DequeueSteps, Session!WaitSteps, Out!SessionSteps, Out!Pump, Out!QueueSteps,
       Out!DequeueSteps, Out!WaitSteps
  <2>2. CASE DriverStep
    BY <2>2, SameDriver DEF DriverStep, Session!Driver, Out!Driver
  <2>. QED
    BY <2>1, <2>2
<1>2. Out!Effect
  BY <1>1, Out!StepEffect, SameConstants DEF StreamInv
<1>3. CallStep /\ UNCHANGED component
  BY SessionIsCallStep, DriverIsCallStep DEF InSessionCall, DriverStep
<1>4. (cpc' = cpc /\ cpc \in {"queued", "dequeued"}) \/ pc = "idle"
  BY <1>3 DEF StreamInv, WorkInv, PointInWork, component
<1>5. pc = "submit" => cpc = "queued" /\ nextFrame = cur /\ cur \in Works
  BY <1>4 DEF StreamInv, WorkInv, PointInWork, FrameOfWork, WorksOK
<1>6. pc = "copy" => cpc = "dequeued"
  BY DEF StreamInv, Loop, LoopOK
<1>7. pc' = "copy" => cpc = "dequeued"
  BY <1>2, <1>3, <1>4, <1>6 DEF Out!Effect, CallStep, StreamInv, WorkInv, PointInWork
<1>8. /\ ~Out!Copies /\ JustOut' => JustOut /\ UNCHANGED delivered
      /\ JustOut /\ ~Out!Copies => JustOut'
  BY <1>2, <1>3, <1>4, <1>5 DEF Out!Effect, Out!Stays, Out!Submits, Out!Takes, CallStep, JustOut,
     component
<1>9. UNCHANGED <<Out!EosOut>> \/ Out!Copies
  BY <1>2 DEF Out!Effect, Out!Stays, Out!Submits, Out!Takes, Out!EosOut
<1>. QED
  BY <1>2, <1>3, <1>5, <1>6, <1>7, <1>8, <1>9


-----------------------------------------------------------------------------
(* Steps inside a call of the session.                                     *)

\* A step inside a call, or of the driver, keeps the drain loop's part.
LEMMA CallKeepsLoop ==
    ASSUME StreamInv, WorkInv', InSessionCall \/ DriverStep
    PROVE  Loop'
<1>1. Out!Effect /\ CallStep /\ UNCHANGED component
  BY CallEffect
<1>2. /\ pc = "submit" => cpc = "queued" /\ nextFrame = cur /\ cur \in Works
      /\ pc' = "copy" => cpc = "dequeued"
      /\ ~Out!Copies /\ JustOut' => JustOut /\ UNCHANGED delivered
      /\ JustOut /\ ~Out!Copies => JustOut' /\ UNCHANGED delivered
      /\ ~Out!Copies => UNCHANGED Out!EosOut
  BY CallEffect DEF JustOut, Out!Effect, Out!Stays, Out!Submits, Out!Takes
<1>3. Out!Copies => /\ pc = "copy" /\ pc' = "idle" /\ ret'[2] = "OK" /\ cpc = "dequeued"
                    /\ ~JustOut /\ JustOut' /\ delivered' # <<>>
                    /\ Latest' = pending[1].frame /\ Latest' \in Out!Waiting \cup {NoWork}
                    /\ (Out!EosOut => Out!EosOut')
  BY <1>1, CallEffect DEF Out!Copies, Out!NoFrame, NoWork, JustOut, Latest, Out!EosOut, component
<1>4. /\ Out!Waiting \cap Out!HandedOut = {} /\ NoWork \notin Works
      /\ Out!HandedOut \subseteq Works /\ Out!Waiting \subseteq Works
      /\ Out!HandedOut \subseteq Out!HandedOut' /\ accepted \subseteq accepted'
  BY <1>1, FramesOfSession DEF StreamInv, Out!Effect, Out!Stays, Out!Submits, Out!Takes,
     Out!Copies, Out!NoFrame, NoWork
<1>5. OwnEos'
  <2>. SUFFICES ASSUME draining', ~configured', ~sigEos'
                PROVE  OwnEos'
    BY DEF OwnEos
  <2>1. draining /\ ~configured /\ ~sigEos
    BY <1>1 DEF Out!Effect, component
  <2>2. CASE cpc \in {"drain", "dequeued"} /\ Draining /\ Len(pending) = 1
             /\ pending[1].frame = NoWork /\ pc = (IF cpc = "drain" THEN "idle" ELSE "copy")
    <3>1. CASE Out!Copies
      BY <1>1, <1>3, <2>2, <3>1 DEF OwnEos, Draining, component
    <3>2. CASE Out!Stays
      BY <1>1, <2>2, <3>2 DEF OwnEos, Draining, component, CallStep, Out!Stays, Out!NoFrame, NoWork
    <3>. QED
      BY <1>1, <2>2, <3>1, <3>2 DEF Out!Effect, Out!Submits, Out!Takes
  <2>3. CASE cpc \in {"drain", "dequeued"} /\ Draining /\ JustOut /\ Latest = NoWork
    <3>1. JustOut' /\ Latest' = Latest
      BY <1>2, <1>3, <2>3 DEF Latest
    <3>. QED
      BY <1>1, <2>3, <3>1 DEF OwnEos, Draining, component
  <2>4. CASE (cpc = "drained" /\ Draining /\ sawEos)
             \/ (cpc \in {"eosEnd", "drainEosEnd"} /\ sawEos)
    BY <1>1, <2>4 DEF OwnEos, Draining, component
  <2>. QED
    BY <2>1, <2>2, <2>3, <2>4 DEF StreamInv, Loop, OwnEos
<1>6. LoopOK'
  <2>1. hold' # NoWork => /\ cpc' \in {"drain", "dequeued", "drained"}
                          /\ hold' \in Out!HandedOut' /\ (JustOut' => hold' # Latest')
    BY <1>1, <1>2, <1>3, <1>4 DEF StreamInv, Loop, LoopOK, Latest, component
  <2>2. (JustOut' => delivered' # <<>>) /\ (pc' = "copy" => cpc' = "dequeued")
    BY <1>1, <1>2, <1>3 DEF StreamInv, Loop, LoopOK, component
  <2>3. /\ sawEos' => Out!EosOut'
        /\ cpc' = "idle" => ~sawEos'
        /\ done' => cur' \in Out!HandedOut'
    BY <1>1, <1>2, <1>3, <1>4 DEF StreamInv, Loop, LoopOK, component
  <2>4. kind' = "empty" /\ cur' # NoWork => cpc' = "finish" /\ nextFrame' = cur'
    BY <1>1, <1>2 DEF StreamInv, Loop, LoopOK, component, CallStep
  <2>. QED
    BY <2>1, <2>2, <2>3, <2>4 DEF LoopOK
<1>7. FailuresReported'
  <2>1. pc # "idle" => cpc \in {"queued", "dequeued"}
    BY DEF StreamInv, WorkInv, PointInWork
  <2>2. CASE UNCHANGED failed
    BY <1>1, <2>2 DEF StreamInv, Loop, FailuresReported, CallFailed, CallStep, component
  <2>3. CASE failed' /\ pc # "idle" /\ pc' = "idle" /\ ret'[2] \in {"ERROR", "NO_MEMORY"}
    BY <1>1, <2>1, <2>3 DEF FailuresReported, CallFailed, component
  <2>. QED
    BY <1>1, <2>2, <2>3 DEF Out!Effect
<1>8. CurrentAccepted'
  <2>1. CASE pc = "idle"
    BY <1>1, <1>4, <2>1 DEF StreamInv, Loop, CurrentAccepted, CallStep, Out!Effect, component
  <2>2. CASE pc # "idle"
    <3>1. ASSUME cpc = "queued", pc' = "idle", ret'[2] = "OK"
          PROVE  draining' \/ cur \in accepted'
      BY <1>1, <1>2, <1>3, <2>2, <3>1 DEF Out!Effect, Out!Stays, Out!Submits, Out!Takes
    <3>2. cpc \in {"queued", "dequeued"}
      BY <2>2 DEF StreamInv, WorkInv, PointInWork
    <3>. QED
      BY <1>1, <1>4, <3>1, <3>2 DEF StreamInv, Loop, CurrentAccepted, component
  <2>. QED
    BY <2>1, <2>2
<1>. QED
  BY <1>5, <1>6, <1>7, <1>8 DEF Loop

\* It keeps the frames with their works.
LEMMA CallKeepsOutputs ==
    ASSUME StreamInv, WorkInv', InSessionCall \/ DriverStep
    PROVE  Outputs'
<1>1. Out!Effect /\ CallStep /\ UNCHANGED component
  BY CallEffect
<1>2. /\ pc = "submit" => cpc = "queued" /\ nextFrame = cur /\ cur \in Works
      /\ ~Out!Copies /\ JustOut' => JustOut /\ UNCHANGED Latest
      /\ ~Out!Copies /\ JustOut => JustOut' /\ UNCHANGED Latest
      /\ ~Out!Copies => UNCHANGED Out!EosOut
  BY CallEffect DEF JustOut, Latest, Out!Effect, Out!Stays, Out!Submits, Out!Takes
<1>3. Out!Copies => /\ ~JustOut /\ JustOut' /\ Out!Queued' = Out!Queued
                    /\ Latest' \in Out!Waiting \cup {NoWork} /\ Out!Waiting' \subseteq Out!Waiting
                    /\ Out!HandedOut' \subseteq Out!HandedOut \cup {Latest'}
                    /\ (Out!EosOut => Out!EosOut')
  BY <1>1, CallEffect DEF Out!Copies, Out!NoFrame, NoWork, JustOut, Latest, Out!EosOut, component
<1>4. accepted \subseteq accepted' /\ (skips' = 0 => skips = 0)
  BY <1>1 DEF Out!Effect, Out!Stays, Out!Submits, Out!Takes, Out!Copies
<1>5. ASSUME ~errored PROVE FramesHaveWorks'
  <2>1. hold' # NoWork => HasWork(hold)'
    BY <1>1, <1>5 DEF StreamInv, Outputs, FramesHaveWorks, HasWork, component
  <2>2. CASE Out!Stays \/ Out!Submits \/ Out!Takes
    <3>1. ~Out!Copies \/ (JustOut' /\ Latest' \in Out!Waiting \cup {NoWork})
      BY <1>3
    <3>2. JustOut' /\ Latest' # NoWork => HasWork(Latest)'
      BY <1>1, <1>2, <1>5, <3>1 DEF StreamInv, Outputs, FramesHaveWorks, HasWork, component
    <3>3. /\ Out!Waiting' \subseteq Out!Waiting \cup (IF Out!EosOut THEN {} ELSE Out!Queued)
          /\ Out!Queued' \subseteq Out!Queued \cup {cur}
      BY <1>2, <2>2 DEF Out!Stays, Out!Submits, Out!Takes
    <3>4. ~Out!EosOut' => ~Out!EosOut
      BY <1>2, <1>3
    <3>. QED
      BY <1>1, <1>5, <2>1, <3>2, <3>3, <3>4
      DEF StreamInv, Outputs, FramesHaveWorks, HasWork, component
  <2>3. CASE Out!Copies
    BY <1>1, <1>3, <1>5, <2>1, <2>3 DEF StreamInv, Outputs, FramesHaveWorks, HasWork, component
  <2>. QED
    BY <1>1, <2>2, <2>3 DEF Out!Effect
<1>6. FramesHaveWorks'
  BY <1>1, <1>5 DEF FramesHaveWorks, component
<1>7. PendingAccepted' /\ NothingAfterEos' /\ ~stray'
  BY <1>1, <1>4 DEF StreamInv, Outputs, PendingAccepted, NothingAfterEos, Sound, component
<1>8. Published'
  <2>. SUFFICES ASSUME Sound', NEW w \in Out!HandedOut'
                PROVE  \/ w = hold'
                       \/ JustOut' /\ w = Latest'
                       \/ (w = cur' => done') /\ status'[w] # "pending"
    BY DEF Published
  <2>1. Sound
    BY <1>1, <1>4 DEF Sound, component
  <2>2. CASE Out!Copies
    BY <1>1, <1>3, <2>1, <2>2 DEF StreamInv, Outputs, Published, component
  <2>3. CASE ~Out!Copies
    <3>1. Out!HandedOut' = Out!HandedOut
      BY <1>1, <2>3 DEF Out!Effect, Out!Stays, Out!Submits, Out!Takes
    <3>. QED
      BY <1>1, <1>2, <2>1, <2>3, <3>1 DEF StreamInv, Outputs, Published, component
  <2>. QED
    BY <2>2, <2>3
<1>. QED
  BY <1>6, <1>7, <1>8 DEF Outputs

-----------------------------------------------------------------------------
(* Steps of the component that leave the session alone.                    *)

\* Where the frames are, and what the last call told.
LEMMA SessionAlone ==
    ASSUME UNCHANGED sessionVars
    PROVE  /\ UNCHANGED <<Out!Queued, Out!Waiting, Out!HandedOut, Out!EosOut, Latest>>
           /\ UNCHANGED <<draining, configured, pending, delivered, pc, op, ret, nextFrame,
                          accepted, failed, skips>>
BY DEF sessionVars, Out!Queued, Out!Waiting, Out!HandedOut, Out!EosOut, Latest

\* The component moves on inside process() or drain().
LEMMA MoveKeepsStream ==
    ASSUME StreamInv, WorkInv',
           QueueReturned \/ StartMonitor \/ NoMoreOutput \/ DrainEosReturnsEarly \/ Rearm
    PROVE  Loop' /\ Outputs'
<1>1. UNCHANGED sessionVars /\ UNCHANGED <<cur, kind, done, hold, status, sigEos, errored, stray>>
  BY DEF QueueReturned, StartMonitor, NoMoreOutput, DrainEosReturnsEarly, Rearm
<1>2. /\ UNCHANGED <<Out!Queued, Out!Waiting, Out!HandedOut, Out!EosOut, Latest>>
      /\ UNCHANGED <<draining, configured, pending, delivered, pc, op, ret, nextFrame,
                     accepted, failed, skips>>
  BY <1>1, SessionAlone
<1>3. pc = "idle" /\ ~JustOut /\ ~JustOut' /\ ~CallFailed
  BY <1>2 DEF QueueReturned, StartMonitor, NoMoreOutput, DrainEosReturnsEarly, Rearm, JustOut,
     CallFailed, InSession, StreamInv, WorkInv, PointInWork
<1>4. OwnEos'
  BY <1>1, <1>2, <1>3 DEF StreamInv, Loop, OwnEos, QueueReturned, StartMonitor, NoMoreOutput,
     DrainEosReturnsEarly, Rearm, Draining, InSession
<1>5. LoopOK'
  BY <1>1, <1>2, <1>3 DEF StreamInv, Loop, LoopOK, QueueReturned, StartMonitor, NoMoreOutput,
     DrainEosReturnsEarly, Rearm, WorkInv, PointInWork
<1>6. FailuresReported'
  BY <1>1, <1>2, <1>3 DEF StreamInv, Loop, FailuresReported
<1>7. CurrentAccepted'
  BY <1>1, <1>2, <1>3 DEF StreamInv, Loop, CurrentAccepted, QueueReturned, StartMonitor,
     NoMoreOutput, DrainEosReturnsEarly, Rearm, WorkInv, PointInWork
<1>8. Outputs'
  BY <1>1, <1>2, <1>3 DEF StreamInv, Outputs, FramesHaveWorks, HasWork, PendingAccepted,
     Published, NothingAfterEos, Sound
<1>. QED
  BY <1>4, <1>5, <1>6, <1>7, <1>8 DEF Loop

\* The driver's empty LAST buffer ends the drain loop.
LEMMA EosKeepsStream ==
    ASSUME StreamInv, WorkInv', TakeEos
    PROVE  Loop' /\ Outputs'
<1>1. UNCHANGED sessionVars /\ UNCHANGED <<after, cur, kind, done, hold, status, sigEos, errored, stray>>
  BY DEF TakeEos
<1>2. /\ UNCHANGED <<Out!Queued, Out!Waiting, Out!HandedOut, Out!EosOut, Latest>>
      /\ UNCHANGED <<draining, configured, pending, delivered, pc, op, ret, nextFrame,
                     accepted, failed, skips>>
  BY <1>1, SessionAlone
<1>3. JustOut /\ Latest = NoWork /\ ~JustOut' /\ ~CallFailed /\ cpc' = "drained" /\ sawEos'
  BY <1>2 DEF TakeEos, JustOut, Latest, CallFailed, InSession
<1>4. Out!EosOut /\ NoWork \notin Works /\ Out!HandedOut \subseteq Works
  <2>1. delivered # <<>>
    BY <1>3 DEF StreamInv, Loop, LoopOK
  <2>. QED
    BY <1>3, <2>1, FramesOfSession DEF StreamInv, Out!EosOut
<1>5. OwnEos'
  BY <1>1, <1>2, <1>3 DEF StreamInv, Loop, OwnEos, Draining, JustOut
<1>6. LoopOK' /\ FailuresReported' /\ CurrentAccepted'
  BY <1>1, <1>2, <1>3, <1>4 DEF StreamInv, Loop, LoopOK, FailuresReported, CurrentAccepted, JustOut
<1>7. Outputs'
  BY <1>1, <1>2, <1>3, <1>4 DEF StreamInv, Outputs, FramesHaveWorks, HasWork, PendingAccepted,
     Published, NothingAfterEos, Sound
<1>. QED
  BY <1>5, <1>6, <1>7 DEF Loop

\* An output that is published finds its work, which is no longer pending.
LEMMA HeldIsPublished ==
    ASSUME StreamInv, FinishOutput(hold), UNCHANGED <<cur, errored, skips>>
    PROVE  /\ ~stray'
           /\ hold # NoWork => (hold = cur => done') /\ status'[hold] # "pending"
           /\ \A w \in Works : status'[w] = "pending" => status[w] = "pending"
           /\ \A w \in Works : w # hold => status'[w] = status[w]
           /\ done' <=> done \/ (hold = cur /\ hold # NoWork)
           /\ hold # NoWork => hold \in Out!HandedOut /\ hold \in Works
<1>1. hold # NoWork => hold \in Out!HandedOut /\ hold \in Works
  BY FramesOfSession DEF StreamInv, Loop, LoopOK
<1>2. \/ status' = status
      \/ hold \in Works /\ status' = [status EXCEPT ![hold] = "ok"]
  BY <1>1 DEF FinishOutput
<1>3. ~stray'
  BY <1>1 DEF FinishOutput, StreamInv, Outputs, FramesHaveWorks, HasWork
<1>4. hold # NoWork => status'[hold] # "pending"
  <2>1. CASE hold # NoWork /\ hold = cur
    <3>1. hold >= Front /\ status' = status
      BY <1>1, <2>1 DEF FinishOutput, Front, Works
    <3>. QED
      BY <1>1, <2>1, <3>1 DEF StreamInv, WorkInv, WorksInOrder
  <2>2. CASE hold # NoWork /\ hold # cur
    BY <1>1, <2>2 DEF FinishOutput, StreamInv, WorkInv, WorksOK
  <2>. QED
    BY <2>1, <2>2
<1>5. done' <=> done \/ (hold = cur /\ hold # NoWork)
  BY DEF FinishOutput
<1>. QED
  BY <1>1, <1>2, <1>3, <1>4, <1>5 DEF StreamInv, WorkInv, WorksOK

\* The drain loop keeps an output one behind.
LEMMA TakeKeepsStream ==
    ASSUME StreamInv, WorkInv', TakeOutput
    PROVE  Loop' /\ Outputs'
<1>1. /\ UNCHANGED sessionVars /\ UNCHANGED <<after, cur, kind, sigEos, errored>>
      /\ FinishOutput(hold)
  BY DEF TakeOutput
<1>2. /\ UNCHANGED <<Out!Queued, Out!Waiting, Out!HandedOut, Out!EosOut, Latest>>
      /\ UNCHANGED <<draining, configured, pending, delivered, pc, op, ret, nextFrame,
                     accepted, failed, skips>>
  BY <1>1, SessionAlone
<1>3. /\ JustOut /\ Latest # NoWork /\ hold' = Latest /\ ~JustOut' /\ ~CallFailed
      /\ cpc' \in {"drain", "drained"} /\ delivered # <<>>
      /\ sawEos' = (sawEos \/ delivered[Len(delivered)].eos)
  BY <1>2 DEF TakeOutput, JustOut, Latest, CallFailed, InSession, StreamInv, Loop, LoopOK
<1>4. /\ Latest \in Out!HandedOut /\ Len(delivered) \in DOMAIN delivered
      /\ NoWork \notin Works /\ Out!HandedOut \subseteq Works
      /\ Out!Waiting \subseteq Works /\ Out!Queued \subseteq Works
      /\ Out!Waiting \cap Out!HandedOut = {} /\ Out!Queued \cap Out!HandedOut = {}
  BY <1>3, FramesOfSession DEF StreamInv
<1>5. /\ ~stray' /\ hold # Latest
      /\ \A w \in Works : w # hold => status'[w] = status[w]
      /\ hold # NoWork => (hold = cur => done') /\ status'[hold] # "pending"
      /\ \A w \in Works : status'[w] = "pending" => status[w] = "pending"
      /\ done' <=> done \/ (hold = cur /\ hold # NoWork)
      /\ hold # NoWork => hold \in Out!HandedOut /\ hold \in Works
  BY <1>1, <1>2, <1>3, <1>4, HeldIsPublished DEF StreamInv, Loop, LoopOK
<1>6. OwnEos'
  BY <1>1, <1>2, <1>3 DEF StreamInv, Loop, OwnEos, Draining, JustOut
<1>7. LoopOK'
  <2>1. sawEos' => Out!EosOut'
    BY <1>2, <1>3, <1>4 DEF StreamInv, Loop, LoopOK, Out!EosOut
  <2>2. done' => cur' \in Out!HandedOut'
    BY <1>1, <1>2, <1>5 DEF StreamInv, Loop, LoopOK
  <2>3. hold' \in Out!HandedOut' /\ cpc' # "idle" /\ pc' # "copy"
    BY <1>2, <1>3, <1>4 DEF JustOut
  <2>4. kind' = "empty" /\ cur' # NoWork => cpc' = "finish" /\ nextFrame' = cur'
    BY <1>1, <1>2, <1>3 DEF StreamInv, Loop, LoopOK, JustOut
  <2>. QED
    BY <1>3, <2>1, <2>2, <2>3, <2>4 DEF LoopOK
<1>8. FailuresReported' /\ CurrentAccepted'
  BY <1>1, <1>2, <1>3 DEF StreamInv, Loop, FailuresReported, CurrentAccepted
<1>9. FramesHaveWorks'
  <2>1. ASSUME NEW w \in Out!Waiting \cup Out!Queued \cup {Latest}, HasWork(w)
        PROVE  HasWork(w)'
    <3>1. w \in Works /\ w # hold
      BY <1>4, <1>5
    <3>. QED
      BY <1>1, <1>5, <2>1, <3>1 DEF HasWork
  <2>. QED
    BY <1>1, <1>2, <1>3, <2>1 DEF StreamInv, Outputs, FramesHaveWorks, HasWork
<1>10. PendingAccepted' /\ NothingAfterEos'
  BY <1>1, <1>2, <1>5 DEF StreamInv, Outputs, PendingAccepted, NothingAfterEos, Sound
<1>11. Published'
  <2>. SUFFICES ASSUME Sound', NEW w \in Out!HandedOut'
                PROVE  w = Latest \/ ((w = cur => done') /\ status'[w] # "pending")
    BY <1>1, <1>3 DEF Published
  <2>1. w \in Works /\ Sound
    BY <1>1, <1>2, <1>4 DEF Sound
  <2>2. CASE w = hold
    BY <1>4, <1>5, <2>1, <2>2
  <2>3. CASE w # hold
    BY <1>1, <1>2, <1>3, <1>5, <2>1, <2>3 DEF StreamInv, Outputs, Published
  <2>. QED
    BY <2>2, <2>3
<1>. QED
  BY <1>5, <1>6, <1>7, <1>8, <1>9, <1>10, <1>11 DEF Loop, Outputs

\* The last output is published when the drain loop is over.
LEMMA PublishKeepsStream ==
    ASSUME StreamInv, WorkInv', PublishHeld
    PROVE  Loop' /\ Outputs'
<1>1. /\ UNCHANGED sessionVars /\ UNCHANGED <<cur, kind, sawEos, sigEos, errored>>
      /\ FinishOutput(hold) /\ hold' = NoWork /\ after' = "none" /\ cpc = "drained"
      /\ cpc' \in {"queue", "finish", "eosEnd", "drainEosEnd", "rearm"}
      /\ cpc' = "finish" => after = "end"
      /\ after = "eosEnd" => cpc' = "eosEnd"
      /\ after = "drainEosEnd" => cpc' = "drainEosEnd"
  BY DEF PublishHeld
<1>2. /\ UNCHANGED <<Out!Queued, Out!Waiting, Out!HandedOut, Out!EosOut, Latest>>
      /\ UNCHANGED <<draining, configured, pending, delivered, pc, op, ret, nextFrame,
                     accepted, failed, skips>>
  BY <1>1, SessionAlone
<1>3. pc = "idle" /\ ~JustOut /\ ~JustOut' /\ ~CallFailed
  BY <1>1, <1>2 DEF JustOut, CallFailed, StreamInv, WorkInv, PointInWork
<1>4. /\ NoWork \notin Works /\ Out!HandedOut \subseteq Works
      /\ Out!Waiting \subseteq Works /\ Out!Queued \subseteq Works
      /\ Out!Waiting \cap Out!HandedOut = {} /\ Out!Queued \cap Out!HandedOut = {}
  BY FramesOfSession DEF StreamInv
<1>5. /\ ~stray'
      /\ \A w \in Works : w # hold => status'[w] = status[w]
      /\ hold # NoWork => (hold = cur => done') /\ status'[hold] # "pending"
      /\ \A w \in Works : status'[w] = "pending" => status[w] = "pending"
      /\ done' <=> done \/ (hold = cur /\ hold # NoWork)
      /\ hold # NoWork => hold \in Out!HandedOut /\ hold \in Works
  BY <1>1, <1>2, HeldIsPublished
<1>6. OwnEos'
  BY <1>1, <1>2, <1>3 DEF StreamInv, Loop, OwnEos, Draining
<1>7. LoopOK'
  BY <1>1, <1>2, <1>3, <1>5 DEF StreamInv, Loop, LoopOK
<1>8. FailuresReported' /\ CurrentAccepted'
  BY <1>1, <1>2, <1>3 DEF StreamInv, Loop, FailuresReported, CurrentAccepted
<1>9. FramesHaveWorks'
  <2>1. ASSUME NEW w \in Out!Waiting \cup Out!Queued, HasWork(w)
        PROVE  HasWork(w)'
    <3>1. w \in Works /\ w # hold
      BY <1>4, <1>5
    <3>. QED
      BY <1>1, <1>5, <2>1, <3>1 DEF HasWork
  <2>. QED
    BY <1>1, <1>2, <1>3, <2>1 DEF StreamInv, Outputs, FramesHaveWorks
<1>10. PendingAccepted' /\ NothingAfterEos'
  BY <1>1, <1>2, <1>5 DEF StreamInv, Outputs, PendingAccepted, NothingAfterEos, Sound
<1>11. Published'
  <2>. SUFFICES ASSUME Sound', NEW w \in Out!HandedOut'
                PROVE  (w = cur => done') /\ status'[w] # "pending"
    BY <1>1 DEF Published
  <2>1. w \in Works /\ Sound
    BY <1>1, <1>2, <1>4 DEF Sound
  <2>2. CASE w = hold
    BY <1>4, <1>5, <2>1, <2>2
  <2>3. CASE w # hold
    BY <1>1, <1>2, <1>3, <1>5, <2>1, <2>3 DEF StreamInv, Outputs, Published
  <2>. QED
    BY <2>2, <2>3
<1>. QED
  BY <1>5, <1>6, <1>7, <1>8, <1>9, <1>10, <1>11 DEF Loop, Outputs

\* A work or a drain begins.
LEMMA BeginKeepsStream ==
    ASSUME StreamInv, WorkInv',
           \/ \E k \in Kinds : Process(k)
           \/ DrainRequested \/ ClientDrains \/ ClientDrainsWithEos
    PROVE  Loop' /\ Outputs'
<1>1. /\ UNCHANGED sessionVars /\ UNCHANGED <<done, hold, status, sigEos, errored, stray>>
      /\ cpc = "idle" /\ pc = "idle"
  BY DEF Process, DrainRequested, ClientDrains, ClientDrainsWithEos, Idle, InSession
<1>2. /\ UNCHANGED <<Out!Queued, Out!Waiting, Out!HandedOut, Out!EosOut, Latest>>
      /\ UNCHANGED <<draining, configured, pending, delivered, pc, op, ret, nextFrame,
                     accepted, failed, skips>>
  BY <1>1, SessionAlone
<1>3. /\ ~JustOut /\ ~JustOut' /\ ~CallFailed /\ cur = NoWork /\ hold = NoWork /\ ~sawEos
      /\ after = "none" /\ ~sawEos'
  BY <1>1, <1>2 DEF JustOut, CallFailed, StreamInv, WorkInv, PointInWork, Loop, LoopOK,
     Process, DrainRequested, ClientDrains, ClientDrainsWithEos
<1>4. /\ NoWork \notin Works /\ Out!HandedOut \subseteq Works
      /\ Out!Waiting \subseteq Works /\ Out!Queued \subseteq Works
      /\ nextFrame \notin Out!HandedOut
  BY FramesOfSession DEF StreamInv
<1>5. OwnEos'
  BY <1>1, <1>2, <1>3 DEF StreamInv, Loop, OwnEos
<1>6. /\ UNCHANGED <<hold, status, sigEos, errored, stray, done>> /\ ~done
      /\ cur' \in {NoWork, nextFrame}
      /\ kind' = "empty" /\ cur' # NoWork => cpc' = "finish" /\ cur' = nextFrame
      /\ cpc' = "finish" => kind' = "empty"
      /\ cpc' \in {"queue", "eosStart", "finish", "drain"} /\ after' \in {"none", "rearm"}
  BY <1>1, <1>3, <1>4 DEF StreamInv, Loop, LoopOK, Process, Kinds, DrainRequested, ClientDrains,
     ClientDrainsWithEos
<1>7. LoopOK' /\ FailuresReported' /\ CurrentAccepted'
  BY <1>1, <1>2, <1>3, <1>6 DEF StreamInv, Loop, LoopOK, FailuresReported, CurrentAccepted
<1>8. FramesHaveWorks'
  BY <1>2, <1>3, <1>4, <1>6 DEF StreamInv, Outputs, FramesHaveWorks, HasWork
<1>9. PendingAccepted' /\ NothingAfterEos' /\ ~stray'
  BY <1>2, <1>6 DEF StreamInv, Outputs, PendingAccepted, NothingAfterEos, Sound
<1>10. Published'
  BY <1>2, <1>3, <1>4, <1>6 DEF StreamInv, Outputs, Published, Sound
<1>. QED
  BY <1>5, <1>7, <1>8, <1>9, <1>10 DEF Loop, Outputs

\* The monitor touches neither the session nor the works.
LEMMA MonitorKeepsStream ==
    ASSUME StreamInv, MonitorNotifies \/ UNCHANGED vars
    PROVE  StreamInv'
<1>1. /\ UNCHANGED sessionVars
      /\ UNCHANGED <<cpc, after, cur, kind, done, tries, hold, sawEos, status, sigErr, sigEos,
                     errored, stray>>
  BY DEF MonitorNotifies, vars, component
<1>2. /\ UNCHANGED <<Out!Queued, Out!Waiting, Out!HandedOut, Out!EosOut, Latest>>
      /\ UNCHANGED <<draining, configured, pending, delivered, pc, op, ret, nextFrame,
                     accepted, failed, skips>>
  BY <1>1, SessionAlone
<1>3. WorkInv' /\ Out!OutInv'
  BY WorkInvStep, SessionKept DEF StreamInv, Loop, Next
<1>4. Loop'
  BY <1>1, <1>2 DEF StreamInv, Loop, OwnEos, Draining, JustOut, LoopOK, FailuresReported,
     CallFailed, CurrentAccepted
<1>5. Outputs' /\ PendingInside'
  BY <1>1, <1>2 DEF StreamInv, Outputs, FramesHaveWorks, HasWork, PendingAccepted, Published,
     NothingAfterEos, Sound, PendingInside, Inside, JustOut
<1>. QED
  BY <1>3, <1>4, <1>5 DEF StreamInv

-----------------------------------------------------------------------------
(* The component calls the session.                                        *)

\* A call that begins, or returns at once, moves no frame.
LEMMA EnterKeepsStream ==
    ASSUME StreamInv, WorkInv', QueueFrame \/ Dequeue
    PROVE  Loop' /\ Outputs' /\ PendingInside'
<1>1. /\ UNCHANGED <<after, cur, kind, done, hold, sawEos, status, sigEos, errored, stray>>
      /\ UNCHANGED <<draining, configured, metadata, pending, delivered, nextFrame, accepted,
                     failed, skips>>
      /\ cpc \in {"queue", "drain"} /\ pc = "idle"
  BY DEF QueueFrame, Dequeue, InSession, Session!EnterQueueEncoderFrame,
     Session!RejectEncoderFrame, Session!CallDequeueEncoderFrame, Session!DequeueUnconfigured,
     Session!session, Session!history
<1>2. UNCHANGED <<Out!Queued, Out!Waiting, Out!HandedOut, Out!EosOut, Latest>>
  BY <1>1 DEF Out!Queued, Out!Waiting, Out!HandedOut, Out!EosOut, Latest
<1>3. /\ ~JustOut /\ ~JustOut' /\ ~CallFailed
      /\ cpc' = "queued" => pc' # "copy" /\ ~(pc' = "idle" /\ ret'[2] = "OK")
      /\ cpc = "queue" => cpc' = "queued"
      /\ cpc = "drain" => /\ cpc' = "dequeued"
                          /\ pending # <<>> => pc' = "copy"
  BY <1>1 DEF QueueFrame, Dequeue, JustOut, CallFailed, InSession, Session!EnterQueueEncoderFrame,
     Session!RejectEncoderFrame, Session!CallDequeueEncoderFrame, Session!DequeueUnconfigured
<1>4. OwnEos'
  <2>1. Len(pending) = 1 => pending # <<>>
    <3>. SUFFICES ASSUME pending = <<>> PROVE Len(pending) # 1
      OBVIOUS
    <3>1. Len(pending) = 0
      OBVIOUS
    <3>. QED
      BY <3>1
  <2>. QED
    BY <1>1, <1>3, <2>1 DEF StreamInv, Loop, OwnEos, Draining
<1>5. LoopOK' /\ FailuresReported' /\ CurrentAccepted'
  BY <1>1, <1>2, <1>3 DEF StreamInv, Loop, LoopOK, FailuresReported, CurrentAccepted
<1>6. Outputs'
  BY <1>1, <1>2, <1>3 DEF StreamInv, Outputs, FramesHaveWorks, HasWork, PendingAccepted,
     Published, NothingAfterEos, Sound
<1>7. PendingInside'
  BY <1>1, <1>2, <1>3 DEF StreamInv, PendingInside, Inside, Sound
<1>. QED
  BY <1>4, <1>5, <1>6, <1>7 DEF Loop

\* A session without queues hands out its own end of stream when it is drained.
LEMMA DrainKeepsStream ==
    ASSUME StreamInv, WorkInv', StartDrain
    PROVE  Loop' /\ Outputs'
<1>1. /\ UNCHANGED <<cur, kind, done, hold, sawEos, status, sigEos, errored, stray>>
      /\ UNCHANGED <<configured, metadata, delivered, pc, nextFrame, accepted, failed, skips>>
      /\ cpc = "eosStart" /\ pc = "idle" /\ cpc' = "drain"
      /\ after' \in {"eosEnd", "drainEosEnd"}
      /\ draining \/ configured => UNCHANGED pending
      /\ ~draining /\ ~configured =>
           pending' = Append(pending, [slot |-> 0, frame |-> NoWork, eos |-> TRUE])
  BY DEF StartDrain, InSession, Session!StartEncoderDrain, Session!NoFrame, NoWork, sessionVars,
     Session!history
<1>2. UNCHANGED <<Out!Queued, Out!Waiting, Out!HandedOut, Out!EosOut, Latest>>
  <2>1. Out!Queued' = Out!Queued /\ Out!HandedOut' = Out!HandedOut /\ Out!EosOut' = Out!EosOut
        /\ Latest' = Latest
    BY <1>1 DEF Out!Queued, Out!HandedOut, Out!EosOut, Latest
  <2>2. CASE UNCHANGED pending
    BY <2>1, <2>2 DEF Out!Waiting
  <2>3. CASE ~draining /\ ~configured
    <3>1. pending = <<>>
      BY <2>3 DEF StreamInv, Out!OutInv, Out!FrameInv, Out!IInv, Out!UnconfiguredIsEmpty
    <3>2. DOMAIN pending' = {1} /\ pending'[1].frame = NoWork
      BY <1>1, <2>3, <3>1
    <3>. QED
      BY <2>1, <3>1, <3>2 DEF Out!Waiting, Out!NoFrame, NoWork
  <2>. QED
    BY <1>1, <2>2, <2>3
<1>3. ~JustOut /\ ~JustOut' /\ ~CallFailed
  BY <1>1 DEF JustOut, CallFailed
<1>4. OwnEos'
  <2>1. ~draining /\ ~configured => Len(pending') = 1 /\ pending'[1].frame = NoWork
    <3>1. ~draining /\ ~configured => pending = <<>>
      BY DEF StreamInv, Out!OutInv, Out!FrameInv, Out!IInv, Out!UnconfiguredIsEmpty
    <3>. QED
      BY <1>1, <3>1
  <2>. QED
    BY <1>1, <1>3, <2>1 DEF StreamInv, Loop, OwnEos, Draining
<1>5. LoopOK' /\ FailuresReported' /\ CurrentAccepted'
  BY <1>1, <1>2, <1>3 DEF StreamInv, Loop, LoopOK, FailuresReported, CurrentAccepted
<1>6. Outputs'
  BY <1>1, <1>2, <1>3 DEF StreamInv, Outputs, FramesHaveWorks, HasWork, PendingAccepted,
     Published, NothingAfterEos, Sound
<1>. QED
  BY <1>4, <1>5, <1>6 DEF Loop

\* After a failure only what was published before counts.
LEMMA FailKeepsStream ==
    ASSUME StreamInv, WorkInv',
           \/ QueueFailed \/ StartMonitorFails \/ StartDrainFails
           \/ OutputCorrupted \/ DequeueFailed \/ EosNotSeen
    PROVE  Loop' /\ Outputs'
<1>1. /\ UNCHANGED <<draining, configured, delivered, accepted, failed, pc, ret, kind, sigEos, stray>>
      /\ pc = "idle" /\ hold' = NoWork /\ cpc' = "idle" /\ after' = "none" /\ ~sawEos'
      /\ errored' /\ cur' = NoWork
      /\ ~done' \/ (cur = NoWork /\ UNCHANGED done)
  BY DEF QueueFailed, StartMonitorFails, StartDrainFails, OutputCorrupted, DequeueFailed,
     EosNotSeen, Fails, ProcessFails, DrainCallFails, EndWork, Spends, InSession, StreamInv,
     WorkInv, PointInWork
<1>2. NoWork \notin Out!HandedOut
  BY FramesOfSession DEF StreamInv
<1>3. OwnEos'
  <2>1. ~(draining /\ ~configured /\ ~sigEos)
    BY <1>1 DEF StreamInv, Loop, OwnEos, QueueFailed, StartMonitorFails, StartDrainFails,
       OutputCorrupted, DequeueFailed, EosNotSeen, JustOut, Latest
  <2>. QED
    BY <1>1, <2>1 DEF OwnEos
<1>4. LoopOK' /\ FailuresReported' /\ CurrentAccepted'
  BY <1>1, <1>2 DEF StreamInv, Loop, LoopOK, FailuresReported, CurrentAccepted, JustOut
<1>5. Outputs'
  BY <1>1 DEF StreamInv, Outputs, FramesHaveWorks, PendingAccepted, Published, NothingAfterEos,
     Sound
<1>. QED
  BY <1>3, <1>4, <1>5 DEF Loop

-----------------------------------------------------------------------------
(* The ends of the handlers, and the resets.                               *)

\* Once the drain loop has seen the end of stream and published what it held, no
\* work is pending: what was queued before the drain was handed out.
LEMMA EosLeavesNothing ==
    ASSUME StreamInv, Sound, sawEos, hold = NoWork, cpc \notin {"queued", "dequeued"}
    PROVE  \A w \in Works : status[w] # "pending"
<1>1. skips = 0 /\ ~failed /\ Out!EosOut /\ ~JustOut
  BY DEF StreamInv, Loop, LoopOK, FailuresReported, CallFailed, Sound, JustOut
<1>2. accepted \subseteq Out!HandedOut
  BY <1>1, Out!AcceptedIsSomewhere, SameConstants DEF StreamInv, Out!EosOut
<1>. QED
  BY <1>1, <1>2 DEF StreamInv, Outputs, PendingAccepted, Published, NoWork, Works

\* A work that leaves process() leaves no frame without its work.
LEMMA FinishKeepsStream ==
    ASSUME StreamInv, WorkInv', FinishFrame \/ FinishEos \/ ProcessRefused
    PROVE  Loop' /\ Outputs'
<1>. DEFINE old == IF cur = NoWork THEN nextFrame ELSE cur
<1>1. /\ UNCHANGED <<draining, configured, metadata, pending, delivered, accepted, failed, skips, pc, ret>>
      /\ UNCHANGED <<errored, stray, kind>>
      /\ pc = "idle" /\ hold' = NoWork /\ hold = NoWork /\ cpc' = "idle" /\ after' = "none"
      /\ ~sawEos' /\ cur' = NoWork /\ ~done' /\ cpc \notin {"queued", "dequeued"}
      /\ old \in Works
  <2>1. CASE FinishFrame \/ FinishEos
    BY <2>1 DEF FinishFrame, FinishEos, EndWork, Spends, StreamInv, WorkInv, WorksOK,
       PointInWork, Loop, LoopOK
  <2>2. CASE ProcessRefused
    <3>1. cur = NoWork /\ cpc = "idle" /\ pc = "idle" /\ nextFrame \in Works
      BY <2>2, FrameAssumption DEF ProcessRefused, Idle, InSession, StreamInv, WorkInv, WorksOK,
         PointInWork, Works
    <3>2. ~done
      BY <3>1, FramesOfSession DEF StreamInv, Loop, LoopOK
    <3>. QED
      BY <2>2, <3>1, <3>2 DEF ProcessRefused, Spends, StreamInv, WorkInv, PointInWork, Loop, LoopOK
  <2>. QED
    BY <2>1, <2>2
<1>2. UNCHANGED <<Out!Queued, Out!Waiting, Out!HandedOut, Out!EosOut, Latest>>
  BY <1>1 DEF Out!Queued, Out!Waiting, Out!HandedOut, Out!EosOut, Latest
<1>3. ~JustOut /\ ~JustOut' /\ ~CallFailed
  BY <1>1 DEF JustOut, CallFailed
<1>4. /\ NoWork \notin Works /\ Out!HandedOut \subseteq Works
      /\ Out!Waiting \subseteq Works /\ Out!Queued \subseteq Works
      /\ Out!Waiting \cap Out!HandedOut = {} /\ Out!Queued \cap Out!HandedOut = {}
      /\ nextFrame \notin Out!Queued \cup Out!Waiting \cup Out!HandedOut
      /\ Out!EosOut => Out!Waiting = {}
  BY FramesOfSession DEF StreamInv
<1>5. /\ status' \in {[status EXCEPT ![old] = r] : r \in {"ok", "pending", "eos", "error"}}
      /\ status[old] = "new"
      /\ status'[old] = "pending" => old \in accepted /\ ~done /\ old = cur /\ ~sigEos'
      /\ FinishEos => sawEos
      /\ FinishFrame => (status'[old] = "pending" \/ done \/ nextFrame = old)
      /\ ProcessRefused => nextFrame = old
      /\ ~FinishEos => UNCHANGED sigEos
  <2>1. CASE FinishFrame
    <3>1. /\ cpc = "finish" /\ cur # NoWork /\ ~sigEos /\ UNCHANGED sigEos
          /\ status' = [status EXCEPT ![cur] = IF done \/ kind = "empty" THEN "ok" ELSE "pending"]
          /\ ~ProcessRefused
      BY <2>1 DEF FinishFrame, EndWork, StreamInv, WorkInv, PointInWork, WorkIsOpen,
         ProcessRefused, Idle
    <3>2. cur >= Front
      BY <1>1, <3>1 DEF Front, Works
    <3>3. cpc # "eosEnd"
      BY <3>1
    <3>. QED
      BY <1>1, <3>1, <3>2, <3>3 DEF StreamInv, WorkInv, WorksOK, WorksInOrder, Loop,
         CurrentAccepted, LoopOK, FinishEos
  <2>2. CASE FinishEos
    <3>1. /\ cpc = "eosEnd" /\ cur # NoWork /\ sawEos
          /\ status' = [status EXCEPT ![cur] = "eos"] /\ ~ProcessRefused
      BY <2>2 DEF FinishEos, EndWork, StreamInv, WorkInv, PointInWork, ProcessRefused, Idle
    <3>2. cur >= Front
      BY <1>1, <3>1 DEF Front, Works
    <3>3. cpc # "finish"
      BY <3>1
    <3>. QED
      BY <1>1, <2>2, <3>1, <3>2, <3>3 DEF StreamInv, WorkInv, WorksOK, WorksInOrder, FinishFrame
  <2>3. CASE ProcessRefused
    <3>1. cpc = "idle" /\ cur = NoWork /\ status' = [status EXCEPT ![nextFrame] = "error"]
          /\ UNCHANGED sigEos
      BY <2>3 DEF ProcessRefused, Idle, StreamInv, WorkInv, PointInWork
    <3>2. nextFrame >= Front
      BY <1>1, <3>1 DEF Front, Works
    <3>3. cpc # "finish" /\ cpc # "eosEnd"
      BY <3>1
    <3>. QED
      BY <1>1, <3>1, <3>2, <3>3 DEF StreamInv, WorkInv, WorksOK, WorksInOrder, FinishFrame,
         FinishEos
  <2>. QED
    BY <2>1, <2>2, <2>3
<1>6. /\ \A w \in Works : w # old => status'[w] = status[w]
      /\ status'[old] # "new"
  BY <1>1, <1>5 DEF StreamInv, WorkInv, WorksOK
<1>. HIDE DEF old
<1>7. Loop'
  <2>1. ~(draining /\ ~configured /\ ~sigEos /\ ~FinishEos)
    BY <1>3 DEF StreamInv, Loop, OwnEos, FinishFrame, ProcessRefused, Idle
  <2>2. FinishEos => sigEos'
    BY DEF FinishEos
  <2>3. OwnEos'
    BY <1>1, <1>5, <2>1, <2>2 DEF OwnEos
  <2>4. LoopOK' /\ FailuresReported' /\ CurrentAccepted'
    BY <1>1, <1>2, <1>3 DEF StreamInv, Loop, LoopOK, FailuresReported, CurrentAccepted
  <2>. QED
    BY <2>3, <2>4 DEF Loop
<1>8. FramesHaveWorks'
  <2>1. ASSUME NEW w \in Out!Waiting \cup Out!Queued, HasWork(w),
               w \in Out!Queued => ~Out!EosOut
        PROVE  HasWork(w)'
    <3>1. CASE w # old
      BY <1>4, <1>6, <2>1, <3>1 DEF HasWork, old
    <3>2. CASE w = old
      <4>1. status'[old] = "pending"
        BY <1>1, <1>4, <1>5, <2>1, <3>2 DEF StreamInv, Loop, LoopOK, old
      <4>. QED
        BY <3>2, <4>1 DEF HasWork
    <3>. QED
      BY <3>1, <3>2
  <2>. QED
    BY <1>1, <1>2, <1>3, <1>4, <2>1 DEF StreamInv, Outputs, FramesHaveWorks
<1>9. PendingAccepted' /\ ~stray'
  BY <1>1, <1>5, <1>6 DEF StreamInv, Outputs, PendingAccepted, Sound
<1>10. NothingAfterEos'
  <2>. SUFFICES ASSUME Sound', sigEos', NEW w \in Works PROVE status'[w] # "pending"
    BY DEF NothingAfterEos
  <2>1. Sound /\ (sawEos \/ sigEos)
    BY <1>1, <1>5 DEF Sound
  <2>2. status[w] # "pending"
    BY <1>1, <2>1, EosLeavesNothing DEF StreamInv, Outputs, NothingAfterEos
  <2>. QED
    BY <1>5, <1>6, <2>2
<1>11. Published'
  <2>. SUFFICES ASSUME Sound', NEW w \in Out!HandedOut' PROVE status'[w] # "pending"
    BY <1>1, <1>4, <1>2 DEF Published
  <2>1. Sound /\ w \in Works /\ w \in Out!HandedOut
    BY <1>1, <1>2, <1>4 DEF Sound
  <2>2. (w = cur => done) /\ status[w] # "pending"
    BY <1>1, <1>3, <1>4, <2>1 DEF StreamInv, Outputs, Published
  <2>. QED
    BY <1>5, <1>6, <2>1, <2>2
<1>. QED
  BY <1>7, <1>8, <1>9, <1>10, <1>11 DEF Outputs

\* A fresh session holds nothing, and no work is left pending with it.
LEMMA ResetKeepsStream ==
    ASSUME StreamInv, WorkInv', DrainEosFlushes \/ Stop \/ Reset
    PROVE  Loop' /\ Outputs'
<1>1. /\ UNCHANGED <<after, cur, kind, done, hold, stray, pc, nextFrame, skips>>
      /\ pc = "idle" /\ cpc' = "idle" /\ cpc \in {"idle", "drainEosEnd"} /\ ~sawEos'
      /\ ~draining' /\ metadata' = <<>> /\ pending' = <<>> /\ delivered' = <<>>
      /\ accepted' = {} /\ (failed' => errored')
  <2>1. CASE DrainEosFlushes
    BY <2>1 DEF DrainEosFlushes, Session!Open, Session!CloseSession, Session!call
  <2>2. CASE Stop
    BY <2>2 DEF Stop, Idle, InSession, Session!Close, Session!CloseSession, Session!call,
       StreamInv, Loop, LoopOK
  <2>3. CASE Reset
    BY <2>3 DEF Reset, Idle, InSession, Session!Open, Session!CloseSession, Session!call,
       StreamInv, Loop, LoopOK
  <2>. QED
    BY <2>1, <2>2, <2>3
<1>2. cur = NoWork /\ hold = NoWork /\ after = "none" /\ ~done /\ ~JustOut'
  BY <1>1, FramesOfSession DEF StreamInv, WorkInv, PointInWork, Loop, LoopOK, JustOut
<1>3. Out!Queued' = {} /\ Out!Waiting' = {} /\ Out!HandedOut' = {} /\ ~Out!EosOut'
  BY <1>1 DEF Out!Queued, Out!Waiting, Out!HandedOut, Out!EosOut
<1>4. Loop'
  BY <1>1, <1>2 DEF Loop, OwnEos, LoopOK, FailuresReported, CurrentAccepted
<1>5. ASSUME Sound', NEW w \in Works PROVE status'[w] # "pending"
  <2>1. CASE DrainEosFlushes
    <3>1. Sound /\ sawEos /\ cpc = "drainEosEnd" /\ status' = status
      BY <1>1, <1>5, <2>1 DEF DrainEosFlushes, Sound
    <3>. QED
      BY <1>2, <3>1, EosLeavesNothing
  <2>2. CASE Stop \/ Reset
    BY <2>2 DEF Stop, Reset, Flushed
  <2>. QED
    BY <2>1, <2>2
<1>6. Outputs'
  BY <1>1, <1>2, <1>3, <1>5 DEF StreamInv, Outputs, FramesHaveWorks, PendingAccepted, Published,
     NothingAfterEos
<1>. QED
  BY <1>4, <1>6

-----------------------------------------------------------------------------
(* The invariant of the composition.                                       *)

\* As long as the session reports no failure, what it knows of its frames puts
\* every pending work's frame inside the component.
LEMMA InsideUntilFailure ==
    Out!OutInv /\ PendingAccepted /\ Published /\ ~failed => PendingInside
<1>. SUFFICES ASSUME Out!OutInv, PendingAccepted, Published, ~failed, Sound,
                     NEW w \in Works, status[w] = "pending"
              PROVE  Inside(w)
  BY DEF PendingInside
<1>1. skips = 0 /\ w \in accepted
  BY DEF Sound, PendingAccepted
<1>2. w \in Out!Queued \cup Out!Waiting \cup Out!HandedOut
  BY <1>1, Out!AcceptedIsSomewhere, SameConstants
<1>. QED
  BY <1>2 DEF Published, Inside

\* A failed session is reported at once; the call that failed moved no frame.
LEMMA InsideKept ==
    ASSUME StreamInv, [Next]_vars, Out!OutInv', Loop', Outputs'
    PROVE  PendingInside'
<1>1. CASE ~failed'
  <2>1. (Out!OutInv /\ PendingAccepted /\ Published /\ ~failed => PendingInside)'
    BY InsideUntilFailure, PTL
  <2>. QED
    BY <1>1, <2>1 DEF Outputs
<1>2. CASE errored'
  BY <1>2 DEF PendingInside, Sound
<1>3. CASE CallFailed' /\ (InSessionCall \/ DriverStep)
  <2>1. Out!Effect /\ UNCHANGED component
    BY <1>3, CallEffect
  <2>2. ~Out!Copies
    BY <1>3 DEF CallFailed, Out!Copies
  <2>3. JustOut => JustOut' /\ UNCHANGED Latest
    BY <1>3, <2>1, <2>2, CallEffect DEF Latest, Out!Effect, Out!Stays, Out!Submits, Out!Takes
  <2>4. ~Out!Takes
    BY <1>3 DEF CallFailed, Out!Takes
  <2>5. Out!Queued \subseteq Out!Queued' /\ Out!Waiting' = Out!Waiting /\ (skips' = 0 => skips = 0)
    BY <2>1, <2>2, <2>4 DEF Out!Effect, Out!Stays, Out!Submits
  <2>. QED
    BY <2>1, <2>3, <2>5 DEF StreamInv, PendingInside, Sound, Inside, component
<1>4. CASE MonitorNotifies \/ UNCHANGED vars
  BY <1>4, MonitorKeepsStream DEF StreamInv
<1>5. CASE QueueFrame \/ Dequeue
  <2>1. WorkInv'
    BY WorkInvStep DEF StreamInv
  <2>. QED
    BY <1>5, <2>1, EnterKeepsStream
<1>6. CASE cpc' \notin {"queued", "dequeued"} /\ failed' /\ ~errored'
  BY <1>6 DEF Loop, FailuresReported, CallFailed
<1>7. \/ InSessionCall \/ DriverStep \/ MonitorNotifies \/ UNCHANGED vars \/ QueueFrame \/ Dequeue
      \/ cpc' \notin {"queued", "dequeued"}
  BY DEF Next, Component, Client, QueueReturned, QueueFailed, StartMonitor, StartMonitorFails,
     StartDrain, StartDrainFails, TakeOutput, OutputCorrupted, TakeEos, NoMoreOutput,
     DequeueFailed, PublishHeld, FinishFrame, FinishEos, EosNotSeen, DrainEosFlushes,
     DrainEosReturnsEarly, Rearm, DrainRequested, Process, ProcessRefused, ClientDrains,
     ClientDrainsWithEos, Stop, Reset, Fails, ProcessFails, DrainCallFails, EndWork, Idle
<1>. QED
  BY <1>1, <1>2, <1>3, <1>4, <1>5, <1>6, <1>7 DEF Loop, FailuresReported

\* StreamInv holds before the first work.
LEMMA StreamInvInit == Init => StreamInv
<1>. SUFFICES ASSUME Init PROVE StreamInv
  OBVIOUS
<1>1. Out!Init
  BY DEF Init, Session!Init, Session!InputSlots, Session!CaptureSlots, Session!NoFrame,
     Out!Init, Out!InputSlots, Out!CaptureSlots, Out!NoFrame
<1>2. Out!OutInv
  BY <1>1, Out!OutInvInit, SameConstants
<1>3. Out!Queued = {} /\ Out!Waiting = {} /\ Out!HandedOut = {} /\ ~Out!EosOut
  BY <1>1 DEF Out!Init, Out!Queued, Out!Waiting, Out!HandedOut, Out!EosOut
<1>4. Loop
  BY <1>1 DEF Init, Out!Init, Loop, OwnEos, LoopOK, FailuresReported, CurrentAccepted, JustOut
<1>5. Outputs /\ PendingInside
  BY <1>1, <1>3 DEF Init, Out!Init, Outputs, FramesHaveWorks, JustOut, PendingAccepted,
     Published, NothingAfterEos, PendingInside
<1>. QED
  BY <1>2, <1>4, <1>5, WorkInvInit DEF StreamInv

\* Every step of the component, the client, the driver and the session keeps
\* StreamInv.
LEMMA StreamInvNext == StreamInv /\ [Next]_vars => StreamInv'
<1>. SUFFICES ASSUME StreamInv, [Next]_vars PROVE StreamInv'
  OBVIOUS
<1>1. WorkInv'
  BY WorkInvStep DEF StreamInv
<1>2. Out!OutInv'
  BY <1>1, SessionKept DEF StreamInv, Loop
<1>3. Loop' /\ Outputs'
  <2>1. CASE InSessionCall \/ DriverStep
    BY <1>1, <2>1, CallKeepsLoop, CallKeepsOutputs
  <2>2. CASE QueueReturned \/ StartMonitor \/ NoMoreOutput \/ DrainEosReturnsEarly \/ Rearm
    BY <1>1, <2>2, MoveKeepsStream
  <2>3. CASE TakeEos \/ TakeOutput \/ PublishHeld
    BY <1>1, <2>3, EosKeepsStream, TakeKeepsStream, PublishKeepsStream
  <2>4. CASE (\E k \in Kinds : Process(k)) \/ DrainRequested \/ ClientDrains \/ ClientDrainsWithEos
    BY <1>1, <2>4, BeginKeepsStream
  <2>5. CASE MonitorNotifies \/ UNCHANGED vars
    BY <2>5, MonitorKeepsStream DEF StreamInv
  <2>6. CASE QueueFrame \/ Dequeue \/ StartDrain
    BY <1>1, <2>6, EnterKeepsStream, DrainKeepsStream
  <2>7. CASE \/ QueueFailed \/ StartMonitorFails \/ StartDrainFails
             \/ OutputCorrupted \/ DequeueFailed \/ EosNotSeen
    BY <1>1, <2>7, FailKeepsStream
  <2>8. CASE FinishFrame \/ FinishEos \/ ProcessRefused
    BY <1>1, <2>8, FinishKeepsStream
  <2>9. CASE DrainEosFlushes \/ Stop \/ Reset
    BY <1>1, <2>9, ResetKeepsStream
  <2>. QED
    BY <2>1, <2>2, <2>3, <2>4, <2>5, <2>6, <2>7, <2>8, <2>9 DEF Next, Component, Client
<1>4. PendingInside'
  BY <1>2, <1>3, InsideKept
<1>. QED
  BY <1>1, <1>2, <1>3, <1>4 DEF StreamInv

\* In the component the session keeps what EncoderOutputProofs shows of it alone: the
\* component's calls come only when they may, through every retry, drain, flush and
\* failure.
THEOREM SessionKeptInComponent == Spec => [](Out!FrameInv /\ Out!LeavesOnce)
<1>1. StreamInv => Out!FrameInv /\ Out!LeavesOnce
  BY DEF StreamInv, Out!OutInv
<1>. QED
  BY <1>1, StreamInvInit, StreamInvNext, PTL DEF Spec

\* Every output finds its work, pending or current, whatever the monitor, the
\* client and the firmware do between process() and finish().
THEOREM OutputsFindTheirWorks == Spec => []EveryOutputFindsItsWork
<1>1. StreamInv => EveryOutputFindsItsWork
  BY DEF StreamInv, Outputs, EveryOutputFindsItsWork
<1>. QED
  BY <1>1, StreamInvInit, StreamInvNext, PTL DEF Spec

\* When the end of stream reaches the client every work before it is finished.
THEOREM EosFinishesAll == Spec => []EosFinishesEverything
<1>1. StreamInv => EosFinishesEverything
  BY DEF StreamInv, Outputs, NothingAfterEos, Sound, EosFinishesEverything
<1>. QED
  BY <1>1, StreamInvInit, StreamInvNext, PTL DEF Spec

\* A work that process() left pending has its frame in the driver, the session or
\* the drain loop.
THEOREM PendingWorksHaveFrames == Spec => []PendingWorkHasFrame
<1>1. StreamInv => PendingWorkHasFrame
  <2>. SUFFICES ASSUME StreamInv, Sound, NEW w \in Works, status[w] = "pending"
                PROVE  HasFrame(w)
    BY DEF PendingWorkHasFrame, Sound
  <2>1. Inside(w)
    BY DEF StreamInv, PendingInside
  <2>2. w \in Out!Queued => \E i \in DOMAIN metadata : metadata[i].frame = w
    BY DEF Out!Queued
  <2>3. w \in Out!Waiting => \E i \in DOMAIN pending : pending[i].frame = w
    BY DEF Out!Waiting
  <2>. QED
    BY <2>1, <2>2, <2>3 DEF Inside, HasFrame, JustOut, Latest, InSession
<1>. QED
  BY <1>1, StreamInvInit, StreamInvNext, PTL DEF Spec

-----------------------------------------------------------------------------
(* A pending work and the monitor: the safety half of PendingWorkFinishes.    *)

SomePending == \E w \in Works : status[w] = "pending"

\* The work thread is in the handling of an end of stream, or in a drain whose last
\* step rearms the monitor.
Ending == cpc \in {"eosEnd", "drainEosEnd"} \/ Draining
Rearming == after = "rearm" \/ cpc = "rearm"

\* The monitor is off only when no work waits for output, or while the end of stream
\* drains it; once it has notified, its request is queued or being handled.
MonitorWatches ==
    /\ mon \in {"off", "armed", "notified"}
    /\ mon = "notified" => request \/ Rearming \/ errored
    /\ (after = "end" \/ cpc = "finish") /\ kind # "empty" => mon # "off"
    /\ (mon = "off" /\ SomePending /\ Sound /\ ~gaveUp) => Ending

\* Between two calls nobody has to call again for a pending work: the monitor waits for
\* its output, or has already asked for the drain that publishes it.
PendingWorkIsWatched ==
    (Idle /\ SomePending /\ Sound /\ ~gaveUp) =>
        mon = "armed" \/ (mon = "notified" /\ request)

\* A step that leaves no further work pending and keeps where it stands.
LEMMA WatchKept ==
    ASSUME MonitorWatches, UNCHANGED <<mon, request, kind, errored, gaveUp>>,
           SomePending' => SomePending, skips' = 0 => skips = 0,
           Rearming => Rearming', Ending => Ending',
           after' = "end" \/ cpc' = "finish" => after = "end" \/ cpc = "finish"
    PROVE  MonitorWatches'
  BY DEF MonitorWatches, Sound

\* An output that is published leaves no further work pending.
LEMMA FinishLeavesFewer ==
    ASSUME WorksOK, NEW f, FinishOutput(f)
    PROVE  SomePending' => SomePending
<1>1. CASE f # cur /\ f # NoWork /\ status[f] = "pending"
  <2>1. ASSUME NEW w \in Works, status'[w] = "pending" PROVE status[w] = "pending"
    BY <1>1, <2>1 DEF FinishOutput, WorksOK
  <2>. QED
    BY <2>1 DEF SomePending
<1>2. CASE ~(f # cur /\ f # NoWork /\ status[f] = "pending")
  BY <1>2 DEF FinishOutput, SomePending
<1>. QED
  BY <1>1, <1>2

\* A failure is reported, and its call is over.
LEMMA FailsWatched ==
    ASSUME MonitorWatches, NEW f, Fails(f)
    PROVE  MonitorWatches'
<1>1. /\ cpc' = "idle" /\ after' = "none" /\ errored' = TRUE
      /\ UNCHANGED <<mon, request>>
  BY DEF Fails, ProcessFails, DrainCallFails, EndWork
<1>. QED
  BY <1>1 DEF MonitorWatches, Sound

\* The drain for the end of stream is the one place that stops the monitor while works
\* are pending, and it leaves none behind unless it gives up or fails.
LEMMA WatchesNext ==
    ASSUME StreamInv, StreamInv', MonitorWatches, [Next]_vars
    PROVE  MonitorWatches'
<1>1. /\ WorksOK /\ PointInWork
  BY DEF StreamInv, WorkInv
<1>2. CASE InSessionCall \/ DriverStep
  <2>1. UNCHANGED component /\ (skips' = 0 => skips = 0)
    BY <1>2, CallEffect DEF Out!Effect
  <2>. QED
    BY <2>1, WatchKept DEF component, SomePending, Rearming, Ending, Draining
<1>3. CASE QueueFrame \/ Dequeue
  <2>1. skips' = skips
    BY <1>3 DEF QueueFrame, Dequeue, Session!EnterQueueEncoderFrame,
       Session!RejectEncoderFrame, Session!CallDequeueEncoderFrame,
       Session!DequeueUnconfigured, Session!history
  <2>2. /\ UNCHANGED <<mon, request, kind, errored, gaveUp, status, after>>
        /\ cpc \in {"queue", "drain"} /\ cpc' \in {"queued", "dequeued"}
    BY <1>3 DEF QueueFrame, Dequeue
  <2>. QED
    BY <2>1, <2>2, WatchKept DEF SomePending, Rearming, Ending, Draining
<1>4. CASE QueueReturned
  <2>1. /\ UNCHANGED <<mon, request, kind, errored, gaveUp, status, skips>>
        /\ cpc = "queued" /\ cpc' \in {"eosStart", "startMonitor", "drain"}
        /\ after' \in {after, "retry"}
    BY <1>4 DEF QueueReturned, sessionVars
  <2>2. after = "none"
    BY <1>1, <2>1 DEF PointInWork
  <2>. QED
    BY <2>1, <2>2, WatchKept DEF SomePending, Rearming, Ending, Draining
<1>5. CASE \/ QueueFailed \/ StartMonitorFails \/ StartDrainFails
           \/ OutputCorrupted \/ DequeueFailed \/ EosNotSeen
  <2>1. \E f \in {0, 1} : Fails(f)
    BY <1>1, <1>5 DEF QueueFailed, StartMonitorFails, StartDrainFails, OutputCorrupted,
       DequeueFailed, EosNotSeen, Fails, PointInWork
  <2>. QED
    BY <2>1, FailsWatched
<1>6. CASE StartMonitor
  <2>1. /\ UNCHANGED <<request, errored>> /\ cpc = "startMonitor"
        /\ mon' = IF mon = "off" THEN "armed" ELSE mon
    BY <1>6 DEF StartMonitor
  <2>2. ~Rearming
    BY <1>1, <2>1 DEF PointInWork, Rearming
  <2>. QED
    BY <2>1, <2>2 DEF MonitorWatches
<1>7. CASE StartDrain
  <2>1. mon' = "off" /\ cpc' = "drain" /\ after' \in {"eosEnd", "drainEosEnd"}
    BY <1>7 DEF StartDrain
  <2>. QED
    BY <2>1 DEF MonitorWatches, Ending, Draining
<1>8. CASE TakeOutput
  <2>1. /\ UNCHANGED <<mon, request, kind, errored, gaveUp, skips, after>>
        /\ cpc = "dequeued" /\ cpc' \in {"drained", "drain"} /\ FinishOutput(hold)
    BY <1>8 DEF TakeOutput, sessionVars
  <2>2. SomePending' => SomePending
    BY <1>1, <2>1, FinishLeavesFewer
  <2>. QED
    BY <2>1, <2>2, WatchKept DEF Rearming, Ending, Draining
<1>9. CASE TakeEos \/ NoMoreOutput
  <2>1. /\ UNCHANGED <<mon, request, kind, errored, gaveUp, skips, after, status>>
        /\ cpc = "dequeued" /\ cpc' = "drained"
    BY <1>9 DEF TakeEos, NoMoreOutput, sessionVars
  <2>. QED
    BY <2>1, WatchKept DEF SomePending, Rearming, Ending, Draining
<1>10. CASE PublishHeld
  <2>1. /\ UNCHANGED <<mon, request, kind, errored, gaveUp, skips>>
        /\ cpc = "drained" /\ FinishOutput(hold)
    BY <1>10 DEF PublishHeld, sessionVars
  <2>2. SomePending' => SomePending
    BY <1>1, <2>1, FinishLeavesFewer
  <2>3. /\ after = "rearm" => cpc' = "rearm"
        /\ Draining => cpc' \in {"eosEnd", "drainEosEnd"}
        /\ cpc' = "finish" => after = "end"
        /\ after' = "none"
    BY <1>10 DEF PublishHeld, Draining
  <2>. QED
    BY <2>1, <2>2, <2>3, WatchKept DEF Rearming, Ending
<1>11. CASE FinishFrame
  <2>1. /\ UNCHANGED <<mon, request, kind, errored, gaveUp, skips>>
        /\ cpc = "finish" /\ cpc' = "idle" /\ after' = "none"
        /\ status' = [status EXCEPT ![cur] =
                          IF done \/ kind = "empty" THEN "ok" ELSE "pending"]
    BY <1>11 DEF FinishFrame, EndWork, Spends
  <2>2. after = "none" /\ ~Rearming /\ ~Ending
    BY <1>1, <2>1 DEF PointInWork, Rearming, Ending, Draining
  <2>3. kind = "empty" => (SomePending' => SomePending)
    <3>1. ASSUME kind = "empty", NEW w \in Works, status'[w] = "pending"
          PROVE  status[w] = "pending"
      BY <1>1, <2>1, <3>1 DEF WorksOK
    <3>. QED
      BY <3>1 DEF SomePending
  <2>. QED
    BY <2>1, <2>2, <2>3 DEF MonitorWatches, Sound
<1>12. CASE FinishEos
  <2>1. /\ UNCHANGED <<mon, request, errored>> /\ sigEos'
        /\ cpc = "eosEnd" /\ cpc' = "idle" /\ after' = "none"
    BY <1>12 DEF FinishEos, EndWork, Spends
  <2>2. ~Rearming
    BY <1>1, <2>1 DEF PointInWork, Rearming
  <2>3. Sound' => ~SomePending'
    BY <2>1 DEF StreamInv, Outputs, NothingAfterEos, SomePending
  <2>. QED
    BY <2>1, <2>2, <2>3 DEF MonitorWatches
<1>13. CASE DrainEosFlushes
  <2>1. /\ UNCHANGED <<mon, request>> /\ (errored => errored')
        /\ cpc = "drainEosEnd" /\ cpc' = "idle" /\ after' = after
        /\ metadata' = <<>> /\ pending' = <<>>
    BY <1>13 DEF DrainEosFlushes, Session!Open, Session!CloseSession
  <2>2. ~Rearming /\ after = "none"
    BY <1>1, <2>1 DEF PointInWork, Rearming
  <2>3. Sound' => ~SomePending'
    <3>1. ASSUME Sound', NEW w \in Works, status'[w] = "pending" PROVE FALSE
      <4>1. Inside(w)'
        BY <3>1 DEF StreamInv, PendingInside
      <4>2. w \notin Out!Queued' /\ w \notin Out!Waiting'
        BY <2>1 DEF Out!Queued, Out!Waiting
      <4>3. ~JustOut' /\ hold' = NoWork
        BY <2>1 DEF JustOut, StreamInv, Loop, LoopOK
      <4>4. w # NoWork
        BY DEF Works, NoWork
      <4>. QED
        BY <4>1, <4>2, <4>3, <4>4 DEF Inside
    <3>. QED
      BY <3>1 DEF SomePending
  <2>. QED
    BY <2>1, <2>2, <2>3 DEF MonitorWatches
<1>14. CASE DrainEosReturnsEarly
  <2>1. /\ UNCHANGED <<mon, request, errored, after>> /\ gaveUp'
        /\ cpc = "drainEosEnd" /\ cpc' = "idle"
    BY <1>14 DEF DrainEosReturnsEarly
  <2>2. ~Rearming /\ after = "none"
    BY <1>1, <2>1 DEF PointInWork, Rearming
  <2>. QED
    BY <2>1, <2>2 DEF MonitorWatches
<1>15. CASE Rearm
  <2>1. /\ UNCHANGED <<errored, gaveUp, skips, status, after>>
        /\ cpc = "rearm" /\ cpc' = "idle"
        /\ mon' = IF mon = "off" THEN "off" ELSE "armed"
    BY <1>15 DEF Rearm, sessionVars
  <2>2. after = "none" /\ ~Ending
    BY <1>1, <2>1 DEF PointInWork, Ending, Draining
  <2>. QED
    BY <2>1, <2>2 DEF MonitorWatches, Sound, SomePending
<1>16. CASE MonitorNotifies
  <2>1. /\ mon' = "notified" /\ request'
    BY <1>16 DEF MonitorNotifies
  <2>. QED
    BY <2>1 DEF MonitorWatches
<1>17. CASE DrainRequested \/ ClientDrains
  <2>1. /\ UNCHANGED <<mon, errored, gaveUp, skips, status>>
        /\ cpc = "idle" /\ cpc' = "drain" /\ after' = "rearm"
    BY <1>17 DEF DrainRequested, ClientDrains, Idle, sessionVars
  <2>2. after = "none" /\ ~Ending
    BY <1>1, <2>1 DEF PointInWork, Ending, Draining
  <2>. QED
    BY <2>1, <2>2 DEF MonitorWatches, Sound, SomePending, Rearming
<1>18. CASE ClientDrainsWithEos \/ \E k \in Kinds : Process(k)
  <2>1. /\ UNCHANGED <<mon, request, errored, gaveUp, skips, status>>
        /\ cpc = "idle" /\ after' \in {after, "none"} /\ cpc' # "idle"
        /\ cpc' = "finish" => kind' = "empty"
    BY <1>18 DEF ClientDrainsWithEos, Process, Idle, Kinds, sessionVars
  <2>2. after = "none" /\ ~Ending /\ ~Rearming
    BY <1>1, <2>1 DEF PointInWork, Ending, Draining, Rearming
  <2>. QED
    BY <2>1, <2>2 DEF MonitorWatches, Sound, SomePending
<1>19. CASE ProcessRefused
  <2>1. /\ UNCHANGED <<mon, request, kind, errored, gaveUp, skips, after, cpc>>
        /\ status' = [status EXCEPT ![nextFrame] = "error"]
    BY <1>19 DEF ProcessRefused, Spends
  <2>2. ASSUME NEW w \in Works, status'[w] = "pending" PROVE status[w] = "pending"
    BY <1>1, <2>1, <2>2 DEF WorksOK
  <2>3. SomePending' => SomePending
    BY <2>2 DEF SomePending
  <2>. QED
    BY <2>1, <2>3, WatchKept DEF Rearming, Ending, Draining
<1>20. CASE Stop \/ Reset
  <2>1. /\ mon' = "off" /\ status' = Flushed /\ UNCHANGED <<cpc, after>> /\ cpc = "idle"
    BY <1>20 DEF Stop, Reset, Idle
  <2>2. after = "none"
    BY <1>1, <2>1 DEF PointInWork
  <2>3. ~SomePending'
    BY <2>1 DEF SomePending, Flushed
  <2>. QED
    BY <2>1, <2>2, <2>3 DEF MonitorWatches
<1>21. CASE UNCHANGED vars
  BY <1>21, WatchKept DEF vars, component, sessionVars, SomePending, Rearming, Ending,
     Draining
<1>. QED
  BY <1>2, <1>3, <1>4, <1>5, <1>6, <1>7, <1>8, <1>9, <1>10, <1>11, <1>12, <1>13, <1>14,
     <1>15, <1>16, <1>17, <1>18, <1>19, <1>20, <1>21 DEF Next, Component, Client

\* Between two calls a pending work needs no further call of the client: the monitor
\* waits for its output or has asked for the drain that publishes it.
THEOREM PendingWorksAreWatched == Spec => []PendingWorkIsWatched
<1>1. Init => MonitorWatches
  BY DEF Init, MonitorWatches, SomePending
<1>2. StreamInv /\ StreamInv' /\ MonitorWatches /\ [Next]_vars => MonitorWatches'
  BY WatchesNext
<1>3. StreamInv /\ MonitorWatches => PendingWorkIsWatched
  <2>. SUFFICES ASSUME StreamInv, MonitorWatches, Idle, SomePending, Sound, ~gaveUp
                PROVE  mon = "armed" \/ (mon = "notified" /\ request)
    BY DEF PendingWorkIsWatched
  <2>1. cpc = "idle" /\ after = "none"
    BY DEF Idle, StreamInv, WorkInv, PointInWork
  <2>. QED
    BY <2>1 DEF MonitorWatches, Ending, Draining, Rearming, Sound
<1>. QED
  BY <1>1, <1>2, <1>3, StreamInvInit, StreamInvNext, PTL DEF Spec

=============================================================================

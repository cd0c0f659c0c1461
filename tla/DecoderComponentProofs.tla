----------------------- MODULE DecoderComponentProofs -----------------------
(***************************************************************************)
(* Proofs about DecoderComponent, for any number of works, buffers, blocks *)
(* and faults: the decoder keeps the promise of WorkLifecycle to its       *)
(* client, gives the session no input before it was opened with the        *)
(* client's picture size, and never forgets the parameter sets; every      *)
(* picture finds its work, a pending work has a picture to come, and the   *)
(* end of stream leaves no work behind.                                    *)
(***************************************************************************)
EXTENDS DecoderComponent, TLAPS

\* The first work that the component has not answered.
Front == IF cur = NoWork THEN nextPacket ELSE cur

\* The works before it, and only they, have been answered.
WorksInOrder == \A w \in Works : status[w] = "new" <=> w >= Front

WorksOK ==
    /\ nextPacket \in 1 .. (MaxPackets + 1)
    /\ cur \in Works \cup {NoWork}
    /\ status \in [Works -> {"new", "pending", "done", "error", "flushed"}]

\* Only an open component works on something.
WorkIsOpen == cur # NoWork => ~sigErr /\ sigEos = "no"

\* The current work is the one whose packet is queued next, or was just queued.
PacketOfWork ==
    /\ cur # NoWork => nextPacket \in {cur, cur + 1}
    /\ cpc \in {"ensure", "config", "queue"} => nextPacket = cur
    /\ cpc = "queued" /\ (pc # "idle" \/ ret[2] = "BLOCKING") => nextPacket = cur
    /\ after = "retry" /\ cpc \in {"drain", "dequeued", "publish", "progress"} =>
           nextPacket = cur

\* What the work thread's program point tells about the work and the call.
PointInWork ==
    /\ cpc \in {"ensure", "config", "queue", "queued", "progress", "finish"} => cur # NoWork
    /\ after \in {"finish", "eos", "retry"} => cur # NoWork
    /\ after \in {"drain", "drainEos"} => cur = NoWork
    /\ cpc = "idle" => cur = NoWork /\ after = "none"
    /\ cpc \notin {"queued", "dequeued"} => pc = "idle"
    /\ cpc = "queued" /\ pc # "idle" => op = "queue"
    /\ cpc = "dequeued" /\ pc # "idle" => op # "queue" /\ pc # "qbuf"

WorkInv == WorksOK /\ WorksInOrder /\ WorkIsOpen /\ PacketOfWork /\ PointInWork

-----------------------------------------------------------------------------
(* A step of the session, as the work thread sees it.                      *)

CallStep ==
    /\ opened' = opened
    /\ \/ UNCHANGED <<nextPacket, accepted>>
       \/ /\ pc = "qbuf" /\ pc' = "idle" /\ ret' = <<op, "OK">>
          /\ nextPacket' = nextPacket + 1 /\ accepted' = accepted \cup {nextPacket}
    /\ pc = "idle" => UNCHANGED <<pc, op, ret>>
    /\ pc' # "idle" => op' = op
    /\ pc' = "qbuf" => pc = "qbuf" \/ op = "queue"

\* A step inside a call opens and closes nothing, and only the step that queues
\* the packet, which ends the call, counts it.
LEMMA PumpIsCallStep ==
    ASSUME Session!Pump
    PROVE  CallStep
<1>1. CASE Session!DequeueDecoderInputs
  BY <1>1 DEF Session!DequeueDecoderInputs, CallStep, Session!Return, Session!Returns, Session!GoTo,
              Session!session, Session!device, Session!call, Session!history, Session!OnlyFaults
<1>2. CASE Session!QueueBlocks
  BY <1>2 DEF Session!QueueBlocks, CallStep, Session!Return, Session!Returns, Session!GoTo,
              Session!session, Session!device, Session!call, Session!history, Session!OnlyFaults
<1>3. CASE Session!QueuePacket
  BY <1>3 DEF Session!QueuePacket, CallStep, Session!Return, Session!Returns, Session!GoTo,
              Session!session, Session!device, Session!call, Session!history, Session!OnlyFaults
<1>4. CASE Session!BeginDecoderCaptureSetup
  BY <1>4 DEF Session!BeginDecoderCaptureSetup, CallStep, Session!Return, Session!Returns, Session!GoTo,
              Session!session, Session!device, Session!call, Session!history, Session!OnlyFaults
<1>5. CASE Session!BeginDecoderCaptureSetupFails
  BY <1>5 DEF Session!BeginDecoderCaptureSetupFails, CallStep, Session!Return, Session!Returns, Session!GoTo,
              Session!session, Session!device, Session!call, Session!history, Session!OnlyFaults
<1>6. CASE Session!ClosedFails
  BY <1>6 DEF Session!ClosedFails, CallStep, Session!Return, Session!Returns, Session!GoTo,
              Session!session, Session!device, Session!call, Session!history, Session!OnlyFaults
<1>7. CASE Session!EventsHandled
  BY <1>7 DEF Session!EventsHandled, CallStep, Session!Return, Session!Returns, Session!GoTo,
              Session!session, Session!device, Session!call, Session!history, Session!OnlyFaults
<1>8. CASE Session!ProgressDecoderCaptureSetup
  BY <1>8 DEF Session!ProgressDecoderCaptureSetup, CallStep, Session!Return, Session!Returns, Session!GoTo,
              Session!session, Session!device, Session!call, Session!history, Session!OnlyFaults
<1>9. CASE Session!SetupBlocks
  BY <1>9 DEF Session!SetupBlocks, CallStep, Session!Return, Session!Returns, Session!GoTo,
              Session!session, Session!device, Session!call, Session!history, Session!OnlyFaults
<1>10. CASE Session!StreamOnCapture
  BY <1>10 DEF Session!StreamOnCapture, CallStep, Session!Return, Session!Returns, Session!GoTo,
              Session!session, Session!device, Session!call, Session!history, Session!OnlyFaults
<1>11. CASE Session!StreamOnEmptyQueue
  BY <1>11 DEF Session!StreamOnEmptyQueue, CallStep, Session!Return, Session!Returns, Session!GoTo,
              Session!session, Session!device, Session!call, Session!history, Session!OnlyFaults
<1>12. CASE Session!PumpSkipped
  BY <1>12 DEF Session!PumpSkipped, CallStep, Session!Return, Session!Returns, Session!GoTo,
              Session!session, Session!device, Session!call, Session!history, Session!OnlyFaults
<1>13. CASE Session!TakeFrame
  BY <1>13 DEF Session!TakeFrame, CallStep, Session!Return, Session!Returns, Session!GoTo,
              Session!session, Session!device, Session!call, Session!history, Session!OnlyFaults
<1>14. CASE Session!RefillDecoderCapture
  BY <1>14 DEF Session!RefillDecoderCapture, CallStep, Session!Return, Session!Returns, Session!GoTo,
              Session!session, Session!device, Session!call, Session!history, Session!OnlyFaults
<1>15. CASE Session!RefillFails
  BY <1>15 DEF Session!RefillFails, CallStep, Session!Return, Session!Returns, Session!GoTo,
              Session!session, Session!device, Session!call, Session!history, Session!OnlyFaults
<1>16. CASE Session!CaptureDrained
  BY <1>16 DEF Session!CaptureDrained, CallStep, Session!Return, Session!Returns, Session!GoTo,
              Session!session, Session!device, Session!call, Session!history, Session!OnlyFaults
<1>17. CASE Session!CaptureBroken
  BY <1>17 DEF Session!CaptureBroken, CallStep, Session!Return, Session!Returns, Session!GoTo,
              Session!session, Session!device, Session!call, Session!history, Session!OnlyFaults
<1>18. CASE Session!IoctlFails
  BY <1>18 DEF Session!IoctlFails, CallStep, Session!Return, Session!Returns, Session!GoTo,
              Session!session, Session!device, Session!call, Session!history, Session!OnlyFaults
<1>19. CASE Session!HandOut
  BY <1>19 DEF Session!HandOut, CallStep, Session!Return, Session!Returns, Session!GoTo,
              Session!session, Session!device, Session!call, Session!history, Session!OnlyFaults
<1>20. CASE Session!NothingToHandOut
  BY <1>20 DEF Session!NothingToHandOut, CallStep, Session!Return, Session!Returns, Session!GoTo,
              Session!session, Session!device, Session!call, Session!history, Session!OnlyFaults
<1>21. CASE Session!WaitForFrame
  BY <1>21 DEF Session!WaitForFrame, CallStep, Session!Return, Session!Returns, Session!GoTo,
              Session!session, Session!device, Session!call, Session!history, Session!OnlyFaults
<1>22. CASE Session!WaitForDeviceReady
  BY <1>22 DEF Session!WaitForDeviceReady, CallStep, Session!Return, Session!Returns, Session!GoTo,
              Session!session, Session!device, Session!call, Session!history, Session!OnlyFaults
<1>23. CASE Session!WaitForDeviceTimeout
  BY <1>23 DEF Session!WaitForDeviceTimeout, CallStep, Session!Return, Session!Returns, Session!GoTo,
              Session!session, Session!device, Session!call, Session!history, Session!OnlyFaults
<1>. QED
  BY <1>1, <1>2, <1>3, <1>4, <1>5, <1>6, <1>7, <1>8, <1>9, <1>10, <1>11, <1>12, <1>13, <1>14, <1>15, <1>16, <1>17, <1>18, <1>19, <1>20, <1>21, <1>22, <1>23 DEF Session!Pump

\* Neither the driver nor the client touches the call.
LEMMA EnvironmentIsCallStep ==
    ASSUME Session!Environment
    PROVE  CallStep /\ UNCHANGED <<pc, op, ret, nextPacket, accepted>>
<1>1. CASE Session!DriverDecodes
  BY <1>1 DEF Session!DriverDecodes, CallStep, Session!session, Session!call, Session!history
<1>2. CASE Session!DriverChanges
  BY <1>2 DEF Session!DriverChanges, CallStep, Session!session, Session!call, Session!history
<1>3. CASE Session!DriverOutputs
  BY <1>3 DEF Session!DriverOutputs, CallStep, Session!session, Session!call, Session!history
<1>4. CASE Session!DriverDrops
  BY <1>4 DEF Session!DriverDrops, CallStep, Session!session, Session!call, Session!history
<1>5. CASE Session!DriverEnds
  BY <1>5 DEF Session!DriverEnds, CallStep, Session!session, Session!call, Session!history
<1>6. CASE \E b \in Blocks : Session!ClientReturns(b)
  BY <1>6 DEF Session!ClientReturns, CallStep, Session!session, Session!call
<1>. QED
  BY <1>1, <1>2, <1>3, <1>4, <1>5, <1>6 DEF Session!Environment

-----------------------------------------------------------------------------
(* The works and the work thread's program point.                          *)

\* A work that ends is answered, and the next one is at the front.
LEMMA EndWorkAnswers ==
    ASSUME WorkInv, cur # NoWork, pc = "idle",
           NEW r \in {"done", "pending", "error"}, NEW f, EndWork(r, f)
    PROVE  WorkInv'
<1>1. cur \in Works /\ cur' = NoWork /\ nextPacket' = cur + 1
  BY DEF WorkInv, WorksOK, PacketOfWork, EndWork, Rest, Spends
<1>2. MaxPackets \in Nat /\ nextPacket' \in 1 .. (MaxPackets + 1)
  BY <1>1, PacketAssumption DEF Works
<1>3. WorksOK'
  BY <1>1, <1>2 DEF WorkInv, WorksOK, EndWork
<1>4. WorksInOrder'
  BY <1>1, <1>2 DEF WorkInv, WorksOK, WorksInOrder, Front, EndWork, Works, NoWork
<1>5. WorkIsOpen' /\ PacketOfWork' /\ PointInWork'
  BY <1>1 DEF WorkIsOpen, PacketOfWork, PointInWork, EndWork, Rest, Spends
<1>. QED
  BY <1>3, <1>4, <1>5 DEF WorkInv

\* A failure answers the current work; a drain has none.
LEMMA FailsAnswers ==
    ASSUME WorkInv, pc = "idle", NEW f, Fails(f)
    PROVE  WorkInv'
<1>1. CASE cur # NoWork
  BY <1>1, EndWorkAnswers DEF Fails
<1>2. CASE cur = NoWork
  <2>1. /\ Rest /\ UNCHANGED <<status, nextPacket, pc, op, ret>>
    BY <1>2 DEF Fails, Spends
  <2>. QED
    BY <1>2, <2>1 DEF WorkInv, WorksOK, WorksInOrder, Front, WorkIsOpen, PacketOfWork,
                      PointInWork, Rest
<1>. QED
  BY <1>1, <1>2

\* A step that leaves the works alone keeps what was answered.
LEMMA WorksUnchanged ==
    ASSUME WorkInv, UNCHANGED <<cur, status, sigErr, sigEos, nextPacket>>
    PROVE  WorksOK' /\ WorksInOrder' /\ WorkIsOpen'
BY DEF WorkInv, WorksOK, WorksInOrder, Front, WorkIsOpen

\* An output finishes a work that was answered before.
LEMMA FinishKeepsOrder ==
    ASSUME WorkInv, NEW f, FinishOutput(f), UNCHANGED <<cur, sigErr, sigEos, nextPacket>>
    PROVE  WorksOK' /\ WorksInOrder' /\ WorkIsOpen'
<1>1. CASE f # cur /\ f \in Works /\ status[f] = "pending"
  <2>1. status' = [status EXCEPT ![f] = "done"]
    BY <1>1 DEF FinishOutput
  <2>. QED
    BY <1>1, <2>1 DEF WorkInv, WorksOK, WorksInOrder, Front, WorkIsOpen
<1>2. CASE ~(f # cur /\ f \in Works /\ status[f] = "pending")
  BY <1>2, WorksUnchanged DEF FinishOutput
<1>. QED
  BY <1>1, <1>2

\* A call of the session queues at most the packet of the current work.
LEMMA CallKeepsOrder ==
    ASSUME WorkInv, CallStep, UNCHANGED <<cpc, after, cur, status, sigErr, sigEos>>
    PROVE  WorkInv'
<1>1. CASE UNCHANGED nextPacket
  <2>1. PacketOfWork' /\ PointInWork'
    BY <1>1 DEF WorkInv, CallStep, PacketOfWork, PointInWork
  <2>. QED
    BY <1>1, <2>1, WorksUnchanged DEF WorkInv
<1>2. CASE pc = "qbuf" /\ pc' = "idle" /\ ret' = <<op, "OK">> /\ nextPacket' = nextPacket + 1
  <2>1. cpc = "queued" /\ cur \in Works /\ nextPacket = cur
    BY <1>2 DEF WorkInv, WorksOK, PacketOfWork, PointInWork
  <2>2. WorksOK' /\ WorksInOrder' /\ WorkIsOpen'
    BY <1>2, <2>1, PacketAssumption DEF WorkInv, WorksOK, WorksInOrder, Front, WorkIsOpen, Works,
                                        NoWork
  <2>3. PacketOfWork' /\ PointInWork'
    BY <1>2, <2>1 DEF WorkInv, CallStep, PacketOfWork, PointInWork
  <2>. QED
    BY <2>2, <2>3 DEF WorkInv
<1>. QED
  BY <1>1, <1>2 DEF CallStep

\* Process, drain and the resets keep the works in order.
LEMMA WorkInvInit == Init => WorkInv
<1>. SUFFICES ASSUME Init PROVE WorkInv
  OBVIOUS
<1>1. WorksOK /\ WorksInOrder
  BY PacketAssumption DEF Init, Session!Init, WorksOK, WorksInOrder, Front, Works, NoWork
<1>2. WorkIsOpen /\ PacketOfWork /\ PointInWork
  BY DEF Init, Session!Init, WorkIsOpen, PacketOfWork, PointInWork
<1>. QED
  BY <1>1, <1>2 DEF WorkInv

\* Every step of the component, the client, the driver and the session keeps
\* WorkInv.
LEMMA WorkInvStep ==
    ASSUME WorkInv, [Next]_vars
    PROVE  WorkInv'
<1>1. CASE \E k \in Kinds : Process(k)
  <2>1. /\ cur = NoWork /\ after = "none" /\ pc = "idle" /\ nextPacket <= MaxPackets
        /\ ~sigErr /\ sigEos = "no" /\ cur' = nextPacket /\ cpc' = "ensure"
        /\ UNCHANGED <<sessionVars, status, sigErr, sigEos, after>>
    BY <1>1 DEF Process, Idle, InSession, WorkInv, PointInWork
  <2>2. nextPacket \in Works /\ UNCHANGED <<nextPacket, pc, op, ret>>
    BY <2>1, PacketAssumption DEF WorkInv, WorksOK, Works, sessionVars
  <2>3. WorksOK' /\ WorksInOrder' /\ WorkIsOpen'
    BY <2>1, <2>2 DEF WorkInv, WorksOK, WorksInOrder, Front, WorkIsOpen, Works, NoWork
  <2>4. PacketOfWork' /\ PointInWork'
    BY <2>1, <2>2 DEF PacketOfWork, PointInWork, Works, NoWork
  <2>. QED
    BY <2>3, <2>4 DEF WorkInv
<1>2. CASE ProcessRefused
  <2>1. /\ cur = NoWork /\ nextPacket \in Works /\ nextPacket' = nextPacket + 1
        /\ status' = [status EXCEPT ![nextPacket] = "error"]
        /\ UNCHANGED <<cpc, after, cur, sigErr, sigEos, pc, op, ret>>
    BY <1>2, PacketAssumption DEF ProcessRefused, Idle, InSession, Spends, Works, WorkInv, WorksOK,
                                  PointInWork
  <2>2. WorksOK' /\ WorksInOrder'
    BY <2>1, PacketAssumption DEF WorkInv, WorksOK, WorksInOrder, Front, Works, NoWork
  <2>3. WorkIsOpen' /\ PacketOfWork' /\ PointInWork'
    BY <1>2, <2>1 DEF ProcessRefused, Idle, InSession, WorkInv, WorkIsOpen, PacketOfWork, PointInWork
  <2>. QED
    BY <2>2, <2>3 DEF WorkInv
<1>3. CASE \E withEos \in BOOLEAN : ClientDrains(withEos)
  <2>1. UNCHANGED <<cur, status, sigErr, sigEos, nextPacket>>
    BY <1>3 DEF ClientDrains, sessionVars
  <2>2. PacketOfWork' /\ PointInWork'
    BY <1>3 DEF ClientDrains, sessionVars, InSession, Idle, WorkInv, PacketOfWork, PointInWork
  <2>. QED
    BY <2>1, <2>2, WorksUnchanged DEF WorkInv
<1>4. CASE Flush
  <2>1. /\ status' = Flushed /\ cur = NoWork /\ UNCHANGED <<cpc, after, cur, nextPacket, pc>>
    BY <1>4 DEF Flush, Session!Open, Session!call, Idle, WorkInv, PointInWork
  <2>2. WorksOK' /\ WorksInOrder'
    BY <2>1 DEF WorkInv, WorksOK, WorksInOrder, Front, Flushed
  <2>3. WorkIsOpen' /\ PacketOfWork' /\ PointInWork'
    BY <1>4, <2>1 DEF Flush, Idle, WorkInv, WorkIsOpen, PacketOfWork, PointInWork
  <2>. QED
    BY <2>2, <2>3 DEF WorkInv
<1>5. CASE \E init \in BOOLEAN : Stop(init)
  <2>1. /\ status' = Flushed /\ cur = NoWork /\ UNCHANGED <<cpc, after, cur, nextPacket, pc>>
    BY <1>5 DEF Stop, Session!Close, Session!call, sessionVars, Idle, WorkInv, PointInWork
  <2>2. WorksOK' /\ WorksInOrder'
    BY <2>1 DEF WorkInv, WorksOK, WorksInOrder, Front, Flushed
  <2>3. WorkIsOpen' /\ PacketOfWork' /\ PointInWork'
    BY <1>5, <2>1 DEF Stop, Idle, WorkInv, WorkIsOpen, PacketOfWork, PointInWork
  <2>. QED
    BY <2>2, <2>3 DEF WorkInv
<1>6. CASE EnsureDecoderSession
  <2>1. UNCHANGED <<cur, status, sigErr, sigEos, nextPacket>>
    BY <1>6 DEF EnsureDecoderSession, Session!Open, Session!call, NextAfterEnsure, HasConfig, sessionVars
  <2>2. PacketOfWork' /\ PointInWork'
    BY <1>6 DEF EnsureDecoderSession, Session!Open, Session!call, NextAfterEnsure, HasConfig, sessionVars, InSession, Idle, WorkInv, PacketOfWork, PointInWork
  <2>. QED
    BY <2>1, <2>2, WorksUnchanged DEF WorkInv
<1>7. CASE CallFailed
  <2>1. pc = "idle" /\ \E f : Fails(f)
    BY <1>7 DEF CallFailed, InSession, WorkInv, PointInWork
  <2>. QED
    BY <2>1, FailsAnswers
<1>8. CASE StoreDecoderConfig
  <2>1. CASE kind = "configFrame"
    <3>1. UNCHANGED <<cur, status, sigErr, sigEos, nextPacket, pc, after>> /\ cpc' = "queue"
      BY <1>8, <2>1 DEF StoreDecoderConfig, sessionVars
    <3>2. PacketOfWork' /\ PointInWork'
      BY <1>8, <3>1 DEF StoreDecoderConfig, WorkInv, PacketOfWork, PointInWork
    <3>. QED
      BY <3>1, <3>2, WorksUnchanged DEF WorkInv
  <2>2. CASE kind # "configFrame"
    <3>1. EndWork("done", 0) /\ cur # NoWork /\ pc = "idle"
      BY <1>8, <2>2 DEF StoreDecoderConfig, WorkInv, PointInWork
    <3>. QED
      BY <3>1, EndWorkAnswers
  <2>. QED
    BY <2>1, <2>2
<1>9. CASE NormalizeFails
  <2>1. pc = "idle" /\ \E f : Fails(f)
    BY <1>9 DEF NormalizeFails, InSession, WorkInv, PointInWork
  <2>. QED
    BY <2>1, FailsAnswers
<1>10. CASE QueuePacket
  <2>1. UNCHANGED <<cur, status, sigErr, sigEos, nextPacket>>
    BY <1>10 DEF QueuePacket, Session!EnterQueueDecoderPacket, Session!history, sessionVars
  <2>2. PacketOfWork' /\ PointInWork'
    BY <1>10 DEF QueuePacket, Session!EnterQueueDecoderPacket, Session!history, sessionVars, InSession, Idle, WorkInv, PacketOfWork, PointInWork
  <2>. QED
    BY <2>1, <2>2, WorksUnchanged DEF WorkInv
<1>11. CASE PacketQueued
  <2>1. UNCHANGED <<cur, status, sigErr, sigEos, nextPacket>>
    BY <1>11 DEF PacketQueued, sessionVars
  <2>2. PacketOfWork' /\ PointInWork'
    BY <1>11 DEF PacketQueued, sessionVars, InSession, Idle, WorkInv, PacketOfWork, PointInWork
  <2>. QED
    BY <2>1, <2>2, WorksUnchanged DEF WorkInv
<1>12. CASE PacketBlocked
  <2>1. UNCHANGED <<cur, status, sigErr, sigEos, nextPacket>>
    BY <1>12 DEF PacketBlocked, sessionVars
  <2>2. PacketOfWork' /\ PointInWork'
    BY <1>12 DEF PacketBlocked, sessionVars, InSession, Idle, WorkInv, PacketOfWork, PointInWork
  <2>. QED
    BY <2>1, <2>2, WorksUnchanged DEF WorkInv
<1>13. CASE WaitForDecoderProgress
  <2>1. UNCHANGED <<cur, status, sigErr, sigEos, nextPacket>>
    BY <1>13 DEF WaitForDecoderProgress, sessionVars
  <2>2. PacketOfWork' /\ PointInWork'
    BY <1>13 DEF WaitForDecoderProgress, sessionVars, InSession, Idle, WorkInv, PacketOfWork, PointInWork
  <2>. QED
    BY <2>1, <2>2, WorksUnchanged DEF WorkInv
<1>14. CASE WaitForDecoderProgressFails
  <2>1. pc = "idle" /\ \E f : Fails(f)
    BY <1>14 DEF WaitForDecoderProgressFails, InSession, WorkInv, PointInWork
  <2>. QED
    BY <2>1, FailsAnswers
<1>15. CASE DequeueFrame
  <2>1. UNCHANGED <<cur, status, sigErr, sigEos, nextPacket>>
    BY <1>15 DEF DequeueFrame, Session!EnterDequeueDecoderFrame, Session!history, sessionVars
  <2>2. PacketOfWork' /\ PointInWork'
    BY <1>15 DEF DequeueFrame, Session!EnterDequeueDecoderFrame, Session!history, sessionVars, InSession, Idle, WorkInv, PacketOfWork, PointInWork
  <2>. QED
    BY <2>1, <2>2, WorksUnchanged DEF WorkInv
<1>16. CASE TakeFrame
  <2>1. \E f : FinishOutput(f)
    BY <1>16 DEF TakeFrame
  <2>2. WorksOK' /\ WorksInOrder' /\ WorkIsOpen'
    BY <1>16, <2>1, FinishKeepsOrder DEF TakeFrame, sessionVars
  <2>3. PacketOfWork' /\ PointInWork'
    BY <1>16 DEF TakeFrame, sessionVars, InSession, WorkInv, PacketOfWork, PointInWork
  <2>. QED
    BY <2>2, <2>3 DEF WorkInv
<1>17. CASE TakeFrameFails
  <2>1. pc = "idle" /\ \E f : Fails(f)
    BY <1>17 DEF TakeFrameFails, InSession, WorkInv, PointInWork
  <2>. QED
    BY <2>1, FailsAnswers
<1>18. CASE TakeEnd
  <2>1. UNCHANGED <<cur, status, sigErr, sigEos, nextPacket>>
    BY <1>18 DEF TakeEnd, sessionVars
  <2>2. PacketOfWork' /\ PointInWork'
    BY <1>18 DEF TakeEnd, sessionVars, InSession, Idle, WorkInv, PacketOfWork, PointInWork
  <2>. QED
    BY <2>1, <2>2, WorksUnchanged DEF WorkInv
<1>19. CASE NoMoreFrames
  <2>1. UNCHANGED <<cur, status, sigErr, sigEos, nextPacket>>
    BY <1>19 DEF NoMoreFrames, sessionVars
  <2>2. PacketOfWork' /\ PointInWork'
    BY <1>19 DEF NoMoreFrames, sessionVars, InSession, Idle, WorkInv, PacketOfWork, PointInWork
  <2>. QED
    BY <2>1, <2>2, WorksUnchanged DEF WorkInv
<1>20. CASE SessionCallFails
  <2>1. pc = "idle" /\ \E f : Fails(f)
    BY <1>20 DEF SessionCallFails, InSession, WorkInv, PointInWork
  <2>. QED
    BY <2>1, FailsAnswers
<1>21. CASE PublishHeld
  <2>1. \E f : FinishOutput(f)
    BY <1>21 DEF PublishHeld
  <2>2. WorksOK' /\ WorksInOrder' /\ WorkIsOpen'
    BY <1>21, <2>1, FinishKeepsOrder DEF PublishHeld, sessionVars
  <2>3. PacketOfWork' /\ PointInWork'
    BY <1>21 DEF PublishHeld, sessionVars, InSession, WorkInv, PacketOfWork, PointInWork
  <2>. QED
    BY <2>2, <2>3 DEF WorkInv
<1>22. CASE FinishFrame
  <2>1. EndWork(WorkResult, 0) /\ WorkResult \in {"done", "pending", "error"}
    BY <1>22 DEF FinishFrame, WorkResult
  <2>2. cur # NoWork /\ pc = "idle"
    BY <1>22 DEF FinishFrame, WorkInv, PointInWork
  <2>. QED
    BY <2>1, <2>2, EndWorkAnswers
<1>23. CASE StartDrain
  <2>1. UNCHANGED <<cur, status, sigErr, sigEos, nextPacket>>
    BY <1>23 DEF StartDrain, Session!StartDecoderDrain, Session!StartDecoderDrainFails, Session!OnlyFaults, Session!history, sessionVars
  <2>2. PacketOfWork' /\ PointInWork'
    BY <1>23 DEF StartDrain, Session!StartDecoderDrain, Session!StartDecoderDrainFails, Session!OnlyFaults, Session!history, sessionVars, InSession, Idle, WorkInv, PacketOfWork, PointInWork
  <2>. QED
    BY <2>1, <2>2, WorksUnchanged DEF WorkInv
<1>24. CASE FinishEos
  <2>1. EndWork("done", 0) /\ cur # NoWork /\ pc = "idle"
    BY <1>24 DEF FinishEos, WorkInv, PointInWork
  <2>. QED
    BY <2>1, EndWorkAnswers
<1>25. CASE EosNotSeen
  <2>1. pc = "idle" /\ \E f : Fails(f)
    BY <1>25 DEF EosNotSeen, InSession, WorkInv, PointInWork
  <2>. QED
    BY <2>1, FailsAnswers
<1>26. CASE DrainEnds
  <2>1. /\ Rest /\ cur = NoWork /\ pc = "idle"
        /\ UNCHANGED <<status, sigErr, sigEos, nextPacket, pc>>
    BY <1>26 DEF DrainEnds, sessionVars, WorkInv, PointInWork
  <2>2. cur' = cur
    BY <2>1 DEF Rest
  <2>3. PacketOfWork' /\ PointInWork'
    BY <2>1 DEF Rest, PacketOfWork, PointInWork
  <2>. QED
    BY <2>1, <2>2, <2>3, WorksUnchanged DEF WorkInv
<1>27. CASE DrainFlushes
  <2>1. /\ Rest /\ cur = NoWork /\ pc = "idle"
        /\ UNCHANGED <<status, sigErr, sigEos, nextPacket, pc>>
    BY <1>27 DEF DrainFlushes, Session!Open, Session!call, sessionVars, WorkInv, PointInWork
  <2>2. cur' = cur
    BY <2>1 DEF Rest
  <2>3. PacketOfWork' /\ PointInWork'
    BY <2>1 DEF Rest, PacketOfWork, PointInWork
  <2>. QED
    BY <2>1, <2>2, <2>3, WorksUnchanged DEF WorkInv
<1>28. CASE SessionStep
  <2>1. CallStep /\ UNCHANGED component
    BY <1>28, PumpIsCallStep DEF SessionStep
  <2>2. UNCHANGED <<cpc, after, cur, status, sigErr, sigEos>>
    BY <2>1 DEF component
  <2>. QED
    BY <2>1, <2>2, CallKeepsOrder
<1>29. CASE DriverStep
  <2>1. CallStep /\ UNCHANGED component
    BY <1>29, EnvironmentIsCallStep DEF DriverStep
  <2>2. UNCHANGED <<cpc, after, cur, status, sigErr, sigEos>>
    BY <2>1 DEF component
  <2>. QED
    BY <2>1, <2>2, CallKeepsOrder
<1>30. CASE UNCHANGED vars
  <2>1. UNCHANGED <<cpc, after, cur, status, sigErr, sigEos, nextPacket, pc, op, ret>>
    BY <1>30 DEF vars, sessionVars, component
  <2>2. PacketOfWork' /\ PointInWork'
    BY <2>1 DEF WorkInv, PacketOfWork, PointInWork
  <2>. QED
    BY <2>1, <2>2, WorksUnchanged DEF WorkInv
<1>. QED
  BY <1>1, <1>2, <1>3, <1>4, <1>5, <1>6, <1>7, <1>8, <1>9, <1>10, <1>11, <1>12, <1>13, <1>14, <1>15, <1>16, <1>17, <1>18, <1>19, <1>20, <1>21, <1>22, <1>23, <1>24, <1>25, <1>26, <1>27, <1>28, <1>29, <1>30
     DEF Next, Step

-----------------------------------------------------------------------------
(* The promise of WorkLifecycle.                                           *)

\* Outcome tells the states of a work apart.
LEMMA OutcomeOf ==
    /\ \A s \in {"new", "pending", "done", "error", "flushed"} :
           /\ Outcome(s) = "new" <=> s = "new"
           /\ Outcome(s) = "pending" <=> s = "pending"
    /\ Outcome("done") = "finished" /\ Outcome("error") = "failed"
    /\ Outcome("pending") = "pending" /\ Outcome("flushed") = "flushed"
BY DEF Outcome

\* The work at the front is the next one of the abstract component.
LEMMA FrontIsNext ==
    ASSUME WorkInv, NEW w \in Works, w = Front
    PROVE  Lifecycle!IsNext(w)
<1>1. status[w] = "new" /\ \A v \in 1 .. (w - 1) : v \in Works /\ status[v] # "new"
  BY PacketAssumption DEF WorkInv, WorksOK, WorksInOrder, Works
<1>. QED
  BY <1>1, OutcomeOf DEF Lifecycle!IsNext, WorkInv, WorksOK

\* A new status of one work is a new outcome of it.
LEMMA StatusBecomes ==
    ASSUME WorkInv, NEW w \in Works, NEW r, status' = [status EXCEPT ![w] = r]
    PROVE  Lifecycle!Becomes(w, Outcome(r))
BY DEF Lifecycle!Becomes, WorkInv, WorksOK

\* A step that leaves every status and the signals alone is a stutter.
LEMMA Stutters ==
    ASSUME UNCHANGED <<status, sigErr, sigEos>>
    PROVE  UNCHANGED Lifecycle!vars
BY DEF Lifecycle!vars

\* A work that process() answers without an error was next, and was taken.
LEMMA EndWorkTakes ==
    ASSUME WorkInv, cur # NoWork, NEW r \in {"done", "pending"}, NEW f, EndWork(r, f),
           sigErr' = sigErr, r = "pending" => sigEos' = sigEos
    PROVE  Lifecycle!Next
<1>1. cur \in Works /\ cur = Front /\ ~sigErr /\ sigEos = "no"
  BY DEF WorkInv, WorksOK, WorkIsOpen, Front
<1>2. Lifecycle!IsNext(cur) /\ Lifecycle!Becomes(cur, Outcome(r))
  BY <1>1, FrontIsNext, StatusBecomes DEF EndWork
<1>3. Lifecycle!Take(cur)
  <2>1. CASE r = "pending"
    BY <1>1, <1>2, <2>1, OutcomeOf DEF Lifecycle!Take
  <2>2. CASE r = "done"
    BY <1>1, <1>2, <2>2, OutcomeOf DEF Lifecycle!Take
  <2>. QED
    BY <2>1, <2>2
<1>. QED
  BY <1>1, <1>3 DEF Lifecycle!Next, Lifecycle!Works, Works

\* A failure closes the component on the current work; a drain changes nothing.
LEMMA FailsImplements ==
    ASSUME WorkInv, NEW f, Fails(f)
    PROVE  [Lifecycle!Next]_(Lifecycle!vars)
<1>1. CASE cur # NoWork
  <2>1. cur \in Works /\ cur = Front /\ EndWork("error", f) /\ sigErr' = TRUE
    BY <1>1 DEF WorkInv, WorksOK, Front, Fails, SignalledAfterFailure
  <2>2. Lifecycle!IsNext(cur) /\ Lifecycle!Becomes(cur, "failed")
    BY <2>1, FrontIsNext, StatusBecomes, OutcomeOf DEF EndWork
  <2>3. Lifecycle!Fail(cur)
    BY <2>1, <2>2 DEF Lifecycle!Fail
  <2>. QED
    BY <2>1, <2>3 DEF Lifecycle!Next, Lifecycle!Works, Works
<1>2. CASE cur = NoWork
  BY <1>2, Stutters DEF Fails
<1>. QED
  BY <1>1, <1>2

\* A published output finishes a pending work, or nothing.
LEMMA FinishImplements ==
    ASSUME WorkInv, NEW f, FinishOutput(f), UNCHANGED <<sigErr, sigEos>>
    PROVE  [Lifecycle!Next]_(Lifecycle!vars)
<1>1. CASE f # cur /\ f \in Works /\ status[f] = "pending"
  <2>1. Lifecycle!Becomes(f, "finished")
    BY <1>1, StatusBecomes, OutcomeOf DEF FinishOutput
  <2>2. [w \in Works |-> Outcome(status[w])][f] = "pending"
    BY <1>1, OutcomeOf
  <2>3. Lifecycle!Finish(f)
    BY <2>1, <2>2 DEF Lifecycle!Finish
  <2>. QED
    BY <1>1, <2>3 DEF Lifecycle!Next, Lifecycle!Works, Works
<1>2. CASE ~(f # cur /\ f \in Works /\ status[f] = "pending")
  BY <1>2, Stutters DEF FinishOutput
<1>. QED
  BY <1>1, <1>2

\* A flush or a stop gives back the pending works, and opens the component or not.
LEMMA FlushedImplements ==
    ASSUME WorkInv, status' = Flushed,
           (sigErr' = FALSE /\ sigEos' = "no") \/ UNCHANGED <<sigErr, sigEos>>
    PROVE  Lifecycle!Next
<1>1. \A w \in Works : Outcome(status'[w]) = IF Outcome(status[w]) = "pending" THEN "flushed"
                                             ELSE Outcome(status[w])
  BY OutcomeOf DEF Flushed, WorkInv, WorksOK
<1>2. [w \in Works |-> Outcome(status[w])]' =
          [w \in Lifecycle!Works |->
              IF [v \in Works |-> Outcome(status[v])][w] = "pending" THEN "flushed"
              ELSE [v \in Works |-> Outcome(status[v])][w]]
  BY <1>1 DEF Lifecycle!Works, Works
<1>3. (sigErr \/ sigEos # "no")' \in {sigErr \/ sigEos # "no", FALSE}
  <2>1. CASE sigErr' = FALSE /\ sigEos' = "no"
    <3>1. (sigErr \/ sigEos # "no")' = FALSE
      BY <2>1
    <3>. QED
      BY <3>1
  <2>2. CASE UNCHANGED <<sigErr, sigEos>>
    BY <2>2
  <2>. QED
    BY <2>1, <2>2
<1>. QED
  BY <1>2, <1>3 DEF Lifecycle!Next, Lifecycle!Reset

\* Every step of the decoder is a step of WorkLifecycle or leaves it alone.
LEMMA StepImplements ==
    ASSUME WorkInv, [Next]_vars
    PROVE  [Lifecycle!Next]_(Lifecycle!vars)
<1>1. CASE \E k \in Kinds : Process(k)
  BY <1>1, Stutters DEF Process
<1>2. CASE ProcessRefused
  <2>1. cur = NoWork /\ nextPacket \in Works /\ nextPacket = Front
    BY <1>2, PacketAssumption DEF ProcessRefused, Idle, WorkInv, WorksOK, PointInWork, Works, Front
  <2>2. Lifecycle!IsNext(nextPacket) /\ Lifecycle!Becomes(nextPacket, "failed")
    BY <1>2, <2>1, FrontIsNext, StatusBecomes, OutcomeOf DEF ProcessRefused
  <2>3. Lifecycle!Fail(nextPacket)
    BY <1>2, <2>2 DEF ProcessRefused, Lifecycle!Fail
  <2>. QED
    BY <2>1, <2>3 DEF Lifecycle!Next, Lifecycle!Works, Works
<1>3. CASE \E withEos \in BOOLEAN : ClientDrains(withEos)
  BY <1>3, Stutters DEF ClientDrains
<1>4. CASE Flush
  BY <1>4, FlushedImplements DEF Flush
<1>5. CASE \E init \in BOOLEAN : Stop(init)
  BY <1>5, FlushedImplements DEF Stop
<1>6. CASE EnsureDecoderSession
  BY <1>6, Stutters DEF EnsureDecoderSession
<1>7. CASE CallFailed
  BY <1>7, FailsImplements DEF CallFailed
<1>8. CASE StoreDecoderConfig
  <2>1. CASE kind = "configFrame"
    BY <1>8, <2>1, Stutters DEF StoreDecoderConfig
  <2>2. CASE kind # "configFrame"
    <3>1. EndWork("done", 0) /\ cur # NoWork /\ sigErr' = sigErr
      BY <1>8, <2>2 DEF StoreDecoderConfig, WorkInv, PointInWork
    <3>. QED
      BY <3>1, EndWorkTakes
  <2>. QED
    BY <2>1, <2>2
<1>9. CASE NormalizeFails
  BY <1>9, FailsImplements DEF NormalizeFails
<1>10. CASE QueuePacket
  BY <1>10, Stutters DEF QueuePacket
<1>11. CASE PacketQueued
  BY <1>11, Stutters DEF PacketQueued
<1>12. CASE PacketBlocked
  BY <1>12, Stutters DEF PacketBlocked
<1>13. CASE WaitForDecoderProgress
  BY <1>13, Stutters DEF WaitForDecoderProgress
<1>14. CASE WaitForDecoderProgressFails
  BY <1>14, FailsImplements DEF WaitForDecoderProgressFails
<1>15. CASE DequeueFrame
  BY <1>15, Stutters DEF DequeueFrame
<1>16. CASE TakeFrame
  BY <1>16, FinishImplements DEF TakeFrame
<1>17. CASE TakeFrameFails
  BY <1>17, FailsImplements DEF TakeFrameFails
<1>18. CASE TakeEnd
  BY <1>18, Stutters DEF TakeEnd
<1>19. CASE NoMoreFrames
  BY <1>19, Stutters DEF NoMoreFrames
<1>20. CASE SessionCallFails
  BY <1>20, FailsImplements DEF SessionCallFails
<1>21. CASE PublishHeld
  BY <1>21, FinishImplements DEF PublishHeld
<1>22. CASE FinishFrame
  <2>1. EndWork(WorkResult, 0) /\ WorkResult \in {"done", "pending"}
    BY <1>22 DEF FinishFrame, WorkResult
  <2>2. cur # NoWork /\ UNCHANGED <<sigErr, sigEos>>
    BY <1>22 DEF FinishFrame, WorkInv, PointInWork
  <2>. QED
    BY <2>1, <2>2, EndWorkTakes
<1>23. CASE StartDrain
  BY <1>23, Stutters DEF StartDrain
<1>24. CASE FinishEos
  <2>1. EndWork("done", 0) /\ cur # NoWork /\ sigErr' = sigErr
    BY <1>24 DEF FinishEos, WorkInv, PointInWork
  <2>. QED
    BY <2>1, EndWorkTakes
<1>25. CASE EosNotSeen
  BY <1>25, FailsImplements DEF EosNotSeen
<1>26. CASE DrainEnds
  BY <1>26, Stutters DEF DrainEnds
<1>27. CASE DrainFlushes
  BY <1>27, Stutters DEF DrainFlushes
<1>28. CASE SessionStep
  BY <1>28, Stutters DEF SessionStep, component
<1>29. CASE DriverStep
  BY <1>29, Stutters DEF DriverStep, component
<1>30. CASE UNCHANGED vars
  BY <1>30, Stutters DEF vars, component
<1>. QED
  BY <1>1, <1>2, <1>3, <1>4, <1>5, <1>6, <1>7, <1>8, <1>9, <1>10, <1>11, <1>12, <1>13, <1>14, <1>15, <1>16, <1>17, <1>18, <1>19, <1>20, <1>21, <1>22, <1>23, <1>24, <1>25, <1>26, <1>27, <1>28, <1>29, <1>30
     DEF Next, Step

\* The decoder's works start where those of WorkLifecycle do.
LEMMA InitImplements == Init => Lifecycle!Init
BY OutcomeOf DEF Init, Lifecycle!Init, Lifecycle!Works, Works, Outcome

\* The works of the decoder are answered one after another, in the order they
\* were queued, and the packet counter follows them: process() with its retry, its
\* failures and its end of stream, drain(), the flushes and the stops.
THEOREM WorksAnsweredInOrder == Spec => []WorkInv
<1>1. Init => WorkInv
  BY WorkInvInit
<1>2. WorkInv /\ [Next]_vars => WorkInv'
  BY WorkInvStep
<1>. QED
  BY <1>1, <1>2, PTL DEF Spec

\* The decoder implements WorkLifecycle: whatever the session, the driver and
\* the client do, each work is taken in turn and leaves the component exactly
\* once, and after signalled_error_ or signalled_eos_ none is taken until a
\* reset (process, FinishOutput, drain, onFlush_sm, onStop).
THEOREM DecoderKeepsLifecycle == Spec => WorksKeepLifecycle
<1>1. Init => Lifecycle!Init
  BY InitImplements
<1>2. WorkInv /\ [Next]_vars => [Lifecycle!Next]_(Lifecycle!vars)
  BY StepImplements
<1>. QED
  BY <1>1, <1>2, WorksAnsweredInOrder, PTL DEF Spec, WorksKeepLifecycle, Lifecycle!Spec

\* What that promise means to a client that remembers its last answer: a work that was
\* answered keeps its answer, and a closed component answers the next works with an
\* error only.
AnswersAreFinal ==
    /\ \A w \in Works : status[w] \notin {"new", "pending"} =>
                            Outcome(status'[w]) = Outcome(status[w])
    /\ (sigErr \/ sigEos # "no") =>
         \A w \in Works : status[w] = "new" /\ status'[w] # "new" => status'[w] = "error"

\* A step of WorkLifecycle changes no answer.
LEMMA LifecycleIsFinal ==
    ASSUME WorkInv, WorkInv', [Lifecycle!Next]_(Lifecycle!vars)
    PROVE  AnswersAreFinal
<1>. DEFINE work == [w \in Works |-> Outcome(status[w])]
<1>. DEFINE closed == (sigErr \/ sigEos # "no")
<1>1. /\ Lifecycle!Works = Works
      /\ \A w \in Works : work[w] = Outcome(status[w]) /\ work'[w] = Outcome(status'[w])
      /\ \A w \in Works : /\ work[w] = "new" <=> status[w] = "new"
                          /\ work[w] = "pending" <=> status[w] = "pending"
                          /\ work'[w] = "new" <=> status'[w] = "new"
                          /\ work'[w] = "failed" => status'[w] = "error"
  BY OutcomeOf DEF Lifecycle!Works, Works, WorkInv, WorksOK
<1>2. SUFFICES /\ \A w \in Works : work[w] \notin {"new", "pending"} => work'[w] = work[w]
               /\ closed => \A w \in Works : work[w] = "new" /\ work'[w] # "new" =>
                                                 work'[w] = "failed"
  BY <1>1 DEF AnswersAreFinal
<1>3. CASE \E v \in Works : Lifecycle!Take(v)
  BY <1>1, <1>3 DEF Lifecycle!Take, Lifecycle!IsNext, Lifecycle!Becomes
<1>4. CASE \E v \in Works : Lifecycle!Fail(v)
  BY <1>1, <1>4 DEF Lifecycle!Fail, Lifecycle!IsNext, Lifecycle!Becomes
<1>5. CASE \E v \in Works : Lifecycle!Finish(v)
  BY <1>1, <1>5 DEF Lifecycle!Finish, Lifecycle!Becomes
<1>6. CASE Lifecycle!Reset
  BY <1>1, <1>6 DEF Lifecycle!Reset
<1>7. CASE UNCHANGED Lifecycle!vars
  BY <1>7 DEF Lifecycle!vars
<1>. QED
  BY <1>1, <1>3, <1>4, <1>5, <1>6, <1>7 DEF Lifecycle!Next

\* Each work leaves the decoder once: no output, failure, flush or stop answers it again,
\* and after signalled_error_ or signalled_eos_ no later work is taken before a reset.
THEOREM AnswersStay == Spec => [][AnswersAreFinal]_vars
<1>1. WorkInv /\ WorkInv' /\ [Next]_vars => [AnswersAreFinal]_vars
  BY StepImplements, LifecycleIsFinal
<1>. QED
  BY <1>1, WorksAnsweredInOrder, PTL DEF Spec

-----------------------------------------------------------------------------
(* The postponed Open and the parameter sets.                              *)

SetupTypeOK ==
    /\ opened \in BOOLEAN /\ sessionPending \in BOOLEAN /\ settings \in BOOLEAN
    /\ sized \in BOOLEAN /\ config \in BOOLEAN /\ configPending \in BOOLEAN
    /\ primed \in BOOLEAN /\ drainFlushed \in BOOLEAN

\* The Open that was put off has been made before anything is stored or queued.
OpenedForWork ==
    /\ cpc \in {"config", "queue", "queued", "progress"} \/ after = "retry" => ~sessionPending
    /\ cpc = "queued" /\ pc # "idle" => opened
    /\ sessionPending => ~config
    /\ ~sessionPending => settings
    /\ opened /\ ~sessionPending => sized
    /\ ~opened => accepted = {}

SetupInv == SetupTypeOK /\ OpenedForWork /\ ParameterSetsSent /\ SizedBeforeInput

\* A step that leaves the settings, the parameters and the session's input alone.
LEMMA SetupUnchanged ==
    ASSUME SetupInv, UNCHANGED <<opened, accepted, setting, parameters, drainFlushed>>
    PROVE  SetupTypeOK' /\ ParameterSetsSent' /\ SizedBeforeInput'
BY DEF SetupInv, SetupTypeOK, ParameterSetsSent, SizedBeforeInput, setting, parameters

\* The work thread rests after a step that leaves those alone.
LEMMA SetupAtRest ==
    ASSUME SetupInv, Rest, UNCHANGED <<opened, accepted, setting, parameters, drainFlushed>>
    PROVE  SetupInv'
<1>1. OpenedForWork'
  BY DEF SetupInv, OpenedForWork, Rest, setting, parameters
<1>. QED
  BY <1>1, SetupUnchanged DEF SetupInv

\* A step that puts the component in error keeps SetupInv.
LEMMA SetupAfterFailure ==
    ASSUME SetupInv, NEW f, Fails(f)
    PROVE  SetupInv'
BY SetupAtRest DEF Fails, EndWork, Spends

\* A new component has nothing to set up.
LEMMA SetupInvInit == Init => SetupInv
BY DEF Init, Session!Init, SetupInv, SetupTypeOK, OpenedForWork, ParameterSetsSent, SizedBeforeInput

\* Within a call, input reaches the session only in QueueDecoderPacket.
LEMMA SetupInCall ==
    ASSUME WorkInv, SetupInv, CallStep, UNCHANGED component
    PROVE  SetupInv'
<1>1. /\ opened' = opened /\ UNCHANGED <<cpc, after, drainFlushed, sessionPending, settings, sized>>
      /\ UNCHANGED <<config, configPending, primed>>
  BY DEF CallStep, component
<1>2. CASE UNCHANGED accepted
  <2>1. OpenedForWork'
    BY <1>1, <1>2 DEF SetupInv, OpenedForWork, CallStep
  <2>. QED
    BY <1>1, <1>2, <2>1, SetupUnchanged DEF SetupInv, setting, parameters
<1>3. CASE pc = "qbuf" /\ pc' = "idle"
  <2>1. cpc = "queued"
    BY <1>3 DEF WorkInv, PointInWork
  <2>2. opened /\ sized
    BY <1>3, <2>1 DEF SetupInv, OpenedForWork
  <2>. QED
    BY <1>1, <1>3, <2>2 DEF SetupInv, SetupTypeOK, OpenedForWork, ParameterSetsSent,
                            SizedBeforeInput
<1>. QED
  BY <1>2, <1>3 DEF CallStep

\* Every step keeps SetupInv.
LEMMA SetupInvStep ==
    ASSUME WorkInv, SetupInv, [Next]_vars
    PROVE  SetupInv'
<1>1. CASE \E k \in Kinds : Process(k)
  <2>1. UNCHANGED <<opened, accepted, setting, parameters, drainFlushed>>
    BY <1>1 DEF Process, sessionVars
  <2>2. OpenedForWork'
    BY <1>1, <2>1 DEF Process, sessionVars, SetupInv, OpenedForWork, InSession, Idle,
                     setting, parameters, WorkInv, PointInWork
  <2>. QED
    BY <2>1, <2>2, SetupUnchanged DEF SetupInv
<1>2. CASE ProcessRefused
  <2>1. UNCHANGED <<opened, accepted, cpc, after, pc, setting, parameters, drainFlushed>>
    BY <1>2 DEF ProcessRefused, Spends
  <2>2. OpenedForWork'
    BY <2>1 DEF SetupInv, OpenedForWork, setting, parameters
  <2>. QED
    BY <2>1, <2>2, SetupUnchanged DEF SetupInv
<1>3. CASE \E withEos \in BOOLEAN : ClientDrains(withEos)
  <2>1. UNCHANGED <<opened, accepted, setting, parameters, drainFlushed>>
    BY <1>3 DEF ClientDrains, sessionVars
  <2>2. OpenedForWork'
    BY <1>3, <2>1 DEF ClientDrains, sessionVars, SetupInv, OpenedForWork, InSession, Idle,
                     setting, parameters, WorkInv, PointInWork
  <2>. QED
    BY <2>1, <2>2, SetupUnchanged DEF SetupInv
<1>4. CASE Flush
  <2>1. /\ opened' \in BOOLEAN /\ accepted' = {} /\ sized' = settings /\ primed' = FALSE
        /\ pc' = pc /\ UNCHANGED <<cpc, after, sessionPending, settings, config>>
    BY <1>4 DEF Flush, Session!Open, Session!CloseSession, Session!call, SessionPendingAfterFlush
  <2>2. opened' => configPending' = (configPending \/ config) /\ drainFlushed' = FALSE
    BY <1>4 DEF Flush, ConfigPendingAfterFlush
  <2>3. ~opened' => UNCHANGED <<configPending, drainFlushed>>
    BY <1>4 DEF Flush
  <2>4. cpc = "idle" /\ SetupTypeOK /\ OpenedForWork
    BY <1>4 DEF Flush, Idle, SetupInv
  <2>5. SetupTypeOK'
    <3>1. CASE opened'
      BY <2>1, <2>2, <2>4, <3>1 DEF SetupTypeOK
    <3>2. CASE ~opened'
      BY <2>1, <2>3, <2>4, <3>2 DEF SetupTypeOK
    <3>. QED
      BY <3>1, <3>2
  <2>6. OpenedForWork'
    BY <2>1, <2>4 DEF OpenedForWork, SetupTypeOK
  <2>7. ParameterSetsSent' /\ SizedBeforeInput'
    BY <2>1, <2>2 DEF ParameterSetsSent, SizedBeforeInput
  <2>. QED
    BY <2>5, <2>6, <2>7 DEF SetupInv
<1>5. CASE \E init \in BOOLEAN : Stop(init)
  <2>1. /\ opened' = FALSE /\ accepted' = {} /\ pc' = pc /\ pc = "idle" /\ cpc = "idle"
        /\ after = "none" /\ UNCHANGED <<cpc, after, settings>>
    BY <1>5 DEF Stop, Idle, InSession, Session!Close, Session!CloseSession, Session!call, sessionVars,
             WorkInv, PointInWork, SetupInv, SetupTypeOK, OpenedForWork
  <2>2. /\ sized' = FALSE /\ primed' = FALSE /\ config' = FALSE /\ configPending' = FALSE
        /\ drainFlushed' = FALSE /\ sessionPending' \in {sessionPending, TRUE}
    BY <1>5 DEF Stop, SetupInv, SetupTypeOK
  <2>. QED
    BY <2>1, <2>2 DEF SetupInv, SetupTypeOK, OpenedForWork, ParameterSetsSent, SizedBeforeInput
<1>6. CASE EnsureDecoderSession
  <2>1. CASE ~sessionPending /\ UNCHANGED <<sessionVars, setting, primed>>
    <3>1. UNCHANGED <<opened, accepted, pc, setting, parameters, drainFlushed, after>>
      BY <1>6, <2>1 DEF EnsureDecoderSession, sessionVars, parameters
    <3>2. cpc' # "queued"
      BY <1>6 DEF EnsureDecoderSession, NextAfterEnsure
    <3>3. OpenedForWork'
      BY <1>6, <2>1, <3>1, <3>2 DEF EnsureDecoderSession, SetupInv, OpenedForWork, setting, parameters
    <3>. QED
      BY <3>1, <3>3, SetupUnchanged DEF SetupInv
  <2>2. CASE sessionPending /\ Session!Open
    <3>1. /\ settings' = TRUE /\ sized' = TRUE /\ primed' = FALSE /\ sessionPending' = ~opened'
          /\ cpc' = IF opened' THEN NextAfterEnsure ELSE "failed"
          /\ UNCHANGED <<after, config, configPending, drainFlushed>>
      BY <1>6, <2>2 DEF EnsureDecoderSession
    <3>2. opened' \in BOOLEAN /\ accepted' = {} /\ cpc' # "queued" /\ config = FALSE
      BY <2>2, <3>1 DEF Session!Open, Session!CloseSession, Session!call, NextAfterEnsure, SetupInv, SetupTypeOK, OpenedForWork
    <3>3. after # "retry"
      BY <2>2 DEF SetupInv, OpenedForWork
    <3>4. sessionPending' \in BOOLEAN /\ (opened' <=> ~sessionPending')
      BY <3>1, <3>2
    <3>5. cpc' \in {"config", "queue", "queued", "progress"} => ~sessionPending'
      BY <3>1, <3>4
    <3>. QED
      BY <3>1, <3>2, <3>3, <3>4, <3>5 DEF SetupInv, SetupTypeOK, OpenedForWork, ParameterSetsSent, SizedBeforeInput
  <2>. QED
    BY <1>6, <2>1, <2>2 DEF EnsureDecoderSession
<1>7. CASE CallFailed
  BY <1>7, SetupAfterFailure DEF CallFailed
<1>8. CASE StoreDecoderConfig
  <2>1. /\ config' = TRUE /\ configPending' = TRUE /\ ~sessionPending
        /\ UNCHANGED <<opened, accepted, setting, primed, drainFlushed, pc>>
        /\ cpc' \in {"queue", "idle"} /\ after' \in {after, "none"}
    BY <1>8 DEF StoreDecoderConfig, EndWork, Rest, Spends, sessionVars, SetupInv, OpenedForWork
  <2>. QED
    BY <2>1 DEF SetupInv, SetupTypeOK, OpenedForWork, ParameterSetsSent, SizedBeforeInput, setting
<1>9. CASE NormalizeFails
  BY <1>9, SetupAfterFailure DEF NormalizeFails
<1>10. CASE QueuePacket
  <2>1. UNCHANGED <<opened, accepted, setting, parameters, drainFlushed>>
    BY <1>10 DEF QueuePacket, Session!EnterQueueDecoderPacket, Session!session, Session!history, sessionVars
  <2>2. OpenedForWork'
    BY <1>10, <2>1 DEF QueuePacket, Session!EnterQueueDecoderPacket, Session!session, Session!history, sessionVars, SetupInv, OpenedForWork, InSession, Idle,
                     setting, parameters, WorkInv, PointInWork
  <2>. QED
    BY <2>1, <2>2, SetupUnchanged DEF SetupInv
<1>11. CASE PacketQueued
  <2>1. /\ primed' = (primed \/ (configPending /\ config)) /\ configPending' = FALSE
        /\ UNCHANGED <<opened, accepted, pc, setting, config, drainFlushed>>
        /\ cpc' \in {"eosStart", "drain"} /\ after' \in {after, "finish"}
    BY <1>11 DEF PacketQueued, sessionVars
  <2>. QED
    BY <2>1 DEF SetupInv, SetupTypeOK, OpenedForWork, ParameterSetsSent, SizedBeforeInput, setting
<1>12. CASE PacketBlocked
  <2>1. UNCHANGED <<opened, accepted, setting, parameters, drainFlushed>>
    BY <1>12 DEF PacketBlocked, sessionVars
  <2>2. OpenedForWork'
    BY <1>12, <2>1 DEF PacketBlocked, sessionVars, SetupInv, OpenedForWork, InSession, Idle,
                     setting, parameters, WorkInv, PointInWork
  <2>. QED
    BY <2>1, <2>2, SetupUnchanged DEF SetupInv
<1>13. CASE WaitForDecoderProgress
  <2>1. UNCHANGED <<opened, accepted, setting, parameters, drainFlushed>>
    BY <1>13 DEF WaitForDecoderProgress, sessionVars
  <2>2. OpenedForWork'
    BY <1>13, <2>1 DEF WaitForDecoderProgress, sessionVars, SetupInv, OpenedForWork, InSession, Idle,
                     setting, parameters, WorkInv, PointInWork
  <2>. QED
    BY <2>1, <2>2, SetupUnchanged DEF SetupInv
<1>14. CASE WaitForDecoderProgressFails
  BY <1>14, SetupAfterFailure DEF WaitForDecoderProgressFails
<1>15. CASE DequeueFrame
  <2>1. UNCHANGED <<opened, accepted, setting, parameters, drainFlushed>>
    BY <1>15 DEF DequeueFrame, Session!EnterDequeueDecoderFrame, Session!session, Session!history, sessionVars
  <2>2. OpenedForWork'
    BY <1>15, <2>1 DEF DequeueFrame, Session!EnterDequeueDecoderFrame, Session!session, Session!history, sessionVars, SetupInv, OpenedForWork, InSession, Idle,
                     setting, parameters, WorkInv, PointInWork
  <2>. QED
    BY <2>1, <2>2, SetupUnchanged DEF SetupInv
<1>16. CASE TakeFrame
  <2>1. UNCHANGED <<opened, accepted, setting, parameters, drainFlushed>>
    BY <1>16 DEF TakeFrame, sessionVars
  <2>2. OpenedForWork'
    BY <1>16, <2>1 DEF TakeFrame, sessionVars, SetupInv, OpenedForWork, InSession, Idle,
                     setting, parameters, WorkInv, PointInWork
  <2>. QED
    BY <2>1, <2>2, SetupUnchanged DEF SetupInv
<1>17. CASE TakeFrameFails
  BY <1>17, SetupAfterFailure DEF TakeFrameFails
<1>18. CASE TakeEnd
  <2>1. UNCHANGED <<opened, accepted, setting, parameters, drainFlushed>>
    BY <1>18 DEF TakeEnd, sessionVars
  <2>2. OpenedForWork'
    BY <1>18, <2>1 DEF TakeEnd, sessionVars, SetupInv, OpenedForWork, InSession, Idle,
                     setting, parameters, WorkInv, PointInWork
  <2>. QED
    BY <2>1, <2>2, SetupUnchanged DEF SetupInv
<1>19. CASE NoMoreFrames
  <2>1. UNCHANGED <<opened, accepted, setting, parameters, drainFlushed>>
    BY <1>19 DEF NoMoreFrames, sessionVars
  <2>2. OpenedForWork'
    BY <1>19, <2>1 DEF NoMoreFrames, sessionVars, SetupInv, OpenedForWork, InSession, Idle,
                     setting, parameters, WorkInv, PointInWork
  <2>. QED
    BY <2>1, <2>2, SetupUnchanged DEF SetupInv
<1>20. CASE SessionCallFails
  BY <1>20, SetupAfterFailure DEF SessionCallFails
<1>21. CASE PublishHeld
  <2>1. UNCHANGED <<opened, accepted, setting, parameters, drainFlushed>>
    BY <1>21 DEF PublishHeld, sessionVars
  <2>2. OpenedForWork'
    BY <1>21, <2>1 DEF PublishHeld, sessionVars, SetupInv, OpenedForWork, InSession, Idle,
                     setting, parameters, WorkInv, PointInWork
  <2>. QED
    BY <2>1, <2>2, SetupUnchanged DEF SetupInv
<1>22. CASE FinishFrame
  BY <1>22, SetupAtRest DEF FinishFrame, EndWork, Spends, sessionVars, parameters
<1>23. CASE StartDrain
  <2>1. UNCHANGED <<opened, accepted, setting, parameters, drainFlushed>>
    BY <1>23 DEF StartDrain, Session!StartDecoderDrain, Session!StartDecoderDrainFails, Session!OnlyFaults,
                     Session!session, Session!history, sessionVars
  <2>2. OpenedForWork'
    BY <1>23, <2>1 DEF StartDrain, Session!StartDecoderDrain, Session!StartDecoderDrainFails, Session!OnlyFaults,
                     Session!session, Session!history, sessionVars, SetupInv, OpenedForWork, InSession, Idle,
                     setting, parameters, WorkInv, PointInWork
  <2>. QED
    BY <2>1, <2>2, SetupUnchanged DEF SetupInv
<1>24. CASE FinishEos
  BY <1>24, SetupAtRest DEF FinishEos, EndWork, Spends, sessionVars, parameters
<1>25. CASE EosNotSeen
  BY <1>25, SetupAfterFailure DEF EosNotSeen
<1>26. CASE DrainEnds
  BY <1>26, SetupAtRest DEF DrainEnds, EndWork, Spends, sessionVars, parameters
<1>27. CASE DrainFlushes
  <2>1. /\ opened' \in BOOLEAN /\ accepted' = {} /\ sized' = settings /\ primed' = FALSE
        /\ drainFlushed' = TRUE /\ Rest /\ UNCHANGED <<sessionPending, settings, config, configPending>>
    BY <1>27 DEF DrainFlushes, Session!Open, Session!CloseSession, Session!call
  <2>. QED
    BY <2>1 DEF Rest, SetupInv, SetupTypeOK, OpenedForWork, ParameterSetsSent, SizedBeforeInput
<1>28. CASE SessionStep
  BY <1>28, PumpIsCallStep, SetupInCall DEF SessionStep
<1>29. CASE DriverStep
  BY <1>29, EnvironmentIsCallStep, SetupInCall DEF DriverStep
<1>30. CASE UNCHANGED vars
  <2>1. UNCHANGED <<opened, accepted, pc, component>>
    BY <1>30 DEF vars, sessionVars
  <2>2. UNCHANGED <<cpc, after, setting, parameters, drainFlushed>>
    BY <2>1 DEF component, setting, parameters
  <2>3. OpenedForWork'
    BY <2>1, <2>2 DEF SetupInv, OpenedForWork, setting, parameters
  <2>. QED
    BY <2>1, <2>2, <2>3, SetupUnchanged DEF SetupInv
<1>. QED
  BY <1>1, <1>2, <1>3, <1>4, <1>5, <1>6, <1>7, <1>8, <1>9, <1>10, <1>11, <1>12, <1>13, <1>14, <1>15, <1>16, <1>17, <1>18, <1>19, <1>20, <1>21, <1>22, <1>23, <1>24, <1>25, <1>26, <1>27, <1>28, <1>29, <1>30
     DEF Next, Step

\* What holds of the setup holds in every state.
LEMMA SetupHolds == Spec => []SetupInv
<1>1. Init => SetupInv
  BY SetupInvInit
<1>2. WorkInv /\ SetupInv /\ [Next]_vars => SetupInv'
  BY SetupInvStep
<1>. QED
  BY <1>1, <1>2, WorksAnsweredInOrder, PTL DEF Spec

\* No packet reaches a session that was opened without the client's picture
\* size: not after a flush that comes before the first work, not after a stop
\* without onInit, not after a failed Open (onInit, EnsureDecoderSession).
THEOREM InputIsSized == Spec => []SizedBeforeInput
<1>1. SetupInv => SizedBeforeInput
  BY DEF SetupInv
<1>. QED
  BY <1>1, SetupHolds, PTL

\* An open session that was not given the stored codec configuration gets it
\* with the next access unit, a flush by a WITH_EOS drain apart (onFlush_sm,
\* StoreDecoderConfig, QueueV4l2DecoderPacket).
THEOREM ParameterSetsFollowFlush == Spec => []ParameterSetsSent
<1>1. SetupInv => ParameterSetsSent
  BY DEF SetupInv
<1>. QED
  BY <1>1, SetupHolds, PTL

-----------------------------------------------------------------------------
(* The session under the component.                                        *)

\* What DecoderSessionProofs shows of a session; Session and Dec have the same
\* variables, and their definitions say the same.
Dec == INSTANCE DecoderSessionProofs

\* The constants are a session's.
LEMMA SameConstants ==
    /\ Dec!QueueAssumption /\ Dec!HeldAssumption /\ Dec!BlockAssumption /\ Dec!BoundAssumption
BY SessionAssumption
DEF Session!QueueAssumption, Session!HeldAssumption, Session!BlockAssumption,
    Session!BoundAssumption, Dec!QueueAssumption, Dec!HeldAssumption, Dec!BlockAssumption,
    Dec!BoundAssumption

\* A session begins as one.
LEMMA SameInit == Session!Init => Dec!Init
BY DEF Session!Init, Session!NoFrame, Session!NoOutput, Session!Running, Dec!Init, Dec!NoFrame,
   Dec!NoOutput, Dec!Running

\* The calls that the component makes are the session's own.
LEMMA SameCalls ==
    /\ Session!Open => Dec!Open
    /\ Session!Close => Dec!Close
    /\ Session!EnterQueueDecoderPacket => Dec!EnterQueueDecoderPacket
    /\ \A wait : Session!EnterDequeueDecoderFrame(wait) => Dec!EnterDequeueDecoderFrame(wait)
    /\ Session!StartDecoderDrain => Dec!StartDecoderDrain
    /\ Session!StartDecoderDrainFails => Dec!StartDecoderDrainFails
<1>1. Session!Open => Dec!Open
  BY DEF Session!Open, Session!CloseSession, Session!Fault, Session!Running, Session!call,
     Dec!Open, Dec!CloseSession, Dec!Fault, Dec!Running, Dec!call
<1>2. Session!Close => Dec!Close
  BY DEF Session!Close, Session!CloseSession, Session!Running, Session!call, Dec!Close,
     Dec!CloseSession, Dec!Running, Dec!call
<1>3. Session!EnterQueueDecoderPacket => Dec!EnterQueueDecoderPacket
  BY DEF Session!EnterQueueDecoderPacket, Session!NoFrame, Session!NoOutput, Session!device,
     Session!history, Session!session, Dec!EnterQueueDecoderPacket, Dec!NoFrame, Dec!NoOutput,
     Dec!device, Dec!history, Dec!session
<1>4. \A wait : Session!EnterDequeueDecoderFrame(wait) => Dec!EnterDequeueDecoderFrame(wait)
  BY DEF Session!EnterDequeueDecoderFrame, Session!NoFrame, Session!NoOutput, Session!device,
     Session!history, Session!session, Dec!EnterDequeueDecoderFrame, Dec!NoFrame, Dec!NoOutput,
     Dec!device, Dec!history, Dec!session
<1>5. Session!StartDecoderDrain => Dec!StartDecoderDrain
  BY DEF Session!StartDecoderDrain, Session!EndsAtOnce, Session!NoFrame, Session!history,
     Dec!StartDecoderDrain, Dec!EndsAtOnce, Dec!NoFrame, Dec!history
<1>6. Session!StartDecoderDrainFails => Dec!StartDecoderDrainFails
  BY DEF Session!StartDecoderDrainFails, Session!Fault, Session!OnlyFaults, Session!device,
     Session!session, Dec!StartDecoderDrainFails, Dec!Fault, Dec!OnlyFaults, Dec!device,
     Dec!session
<1>. QED
  BY <1>1, <1>2, <1>3, <1>4, <1>5, <1>6

\* The steps inside a call are the session's own.
LEMMA SameSteps ==
    /\ Session!DequeueDecoderInputs => Dec!DequeueDecoderInputs
    /\ Session!QueueBlocks => Dec!QueueBlocks
    /\ Session!QueuePacket => Dec!QueuePacket
    /\ Session!BeginDecoderCaptureSetup => Dec!BeginDecoderCaptureSetup
    /\ Session!BeginDecoderCaptureSetupFails => Dec!BeginDecoderCaptureSetupFails
    /\ Session!ClosedFails => Dec!ClosedFails
    /\ Session!EventsHandled => Dec!EventsHandled
    /\ Session!ProgressDecoderCaptureSetup => Dec!ProgressDecoderCaptureSetup
    /\ Session!SetupBlocks => Dec!SetupBlocks
    /\ Session!StreamOnCapture => Dec!StreamOnCapture
    /\ Session!StreamOnEmptyQueue => Dec!StreamOnEmptyQueue
    /\ Session!PumpSkipped => Dec!PumpSkipped
    /\ Session!TakeFrame => Dec!TakeFrame
    /\ Session!RefillDecoderCapture => Dec!RefillDecoderCapture
    /\ Session!RefillFails => Dec!RefillFails
    /\ Session!CaptureDrained => Dec!CaptureDrained
    /\ Session!CaptureBroken => Dec!CaptureBroken
    /\ Session!IoctlFails => Dec!IoctlFails
    /\ Session!HandOut => Dec!HandOut
    /\ Session!NothingToHandOut => Dec!NothingToHandOut
    /\ Session!WaitForFrame => Dec!WaitForFrame
    /\ Session!WaitForDeviceReady => Dec!WaitForDeviceReady
    /\ Session!WaitForDeviceTimeout => Dec!WaitForDeviceTimeout
<1>1. Session!DequeueDecoderInputs => Dec!DequeueDecoderInputs
  BY DEF Session!DequeueDecoderInputs, Session!GoTo, Session!history, Dec!DequeueDecoderInputs,
     Dec!GoTo, Dec!history
<1>2. Session!QueueBlocks => Dec!QueueBlocks
  BY DEF Session!QueueBlocks, Session!FreeInputs, Session!InputSlots, Session!NoFrame,
     Session!NoOutput, Session!Return, Session!Returns, Session!device, Session!history,
     Session!session, Dec!QueueBlocks, Dec!FreeInputs, Dec!InputSlots, Dec!NoFrame, Dec!NoOutput,
     Dec!Return, Dec!Returns, Dec!device, Dec!history, Dec!session
<1>3. Session!QueuePacket => Dec!QueuePacket
  BY DEF Session!QueuePacket, Session!FreeInputs, Session!InputSlots, Session!NoFrame,
     Session!NoOutput, Session!Return, Session!Returns, Dec!QueuePacket, Dec!FreeInputs,
     Dec!InputSlots, Dec!NoFrame, Dec!NoOutput, Dec!Return, Dec!Returns
<1>4. Session!BeginDecoderCaptureSetup => Dec!BeginDecoderCaptureSetup
  BY DEF Session!BeginDecoderCaptureSetup, Session!CaptureSlots, Session!NoFrame, Session!Range,
     Session!ResetDecoderCapture, Session!call, Dec!BeginDecoderCaptureSetup, Dec!CaptureSlots,
     Dec!NoFrame, Dec!Range, Dec!ResetDecoderCapture, Dec!call
<1>5. Session!BeginDecoderCaptureSetupFails => Dec!BeginDecoderCaptureSetupFails
  BY DEF Session!BeginDecoderCaptureSetupFails, Session!Fault, Session!NoFrame, Session!NoOutput,
     Session!Range, Session!ResetDecoderCapture, Session!Return, Session!Returns,
     Dec!BeginDecoderCaptureSetupFails, Dec!Fault, Dec!NoFrame, Dec!NoOutput, Dec!Range,
     Dec!ResetDecoderCapture, Dec!Return, Dec!Returns
<1>6. Session!ClosedFails => Dec!ClosedFails
  BY DEF Session!ClosedFails, Session!NoFrame, Session!NoOutput, Session!Return, Session!Returns,
     Session!device, Session!history, Session!session, Dec!ClosedFails, Dec!NoFrame, Dec!NoOutput,
     Dec!Return, Dec!Returns, Dec!device, Dec!history, Dec!session
<1>7. Session!EventsHandled => Dec!EventsHandled
  BY DEF Session!EventsHandled, Session!GoTo, Session!device, Session!history, Session!session,
     Dec!EventsHandled, Dec!GoTo, Dec!device, Dec!history, Dec!session
<1>8. Session!ProgressDecoderCaptureSetup => Dec!ProgressDecoderCaptureSetup
  BY DEF Session!ProgressDecoderCaptureSetup, Session!FreeBlocks, Session!LocalBlock,
     Session!Lend, Session!PendingBlocks, Session!Queued, Session!Range, Session!SlotBlocks,
     Session!call, Session!history, Dec!ProgressDecoderCaptureSetup, Dec!FreeBlocks,
     Dec!LocalBlock, Dec!Lend, Dec!PendingBlocks, Dec!Queued, Dec!Range, Dec!SlotBlocks,
     Dec!call, Dec!history
<1>9. Session!SetupBlocks => Dec!SetupBlocks
  BY DEF Session!SetupBlocks, Session!FreeBlocks, Session!LocalBlock, Session!PendingBlocks,
     Session!Queued, Session!Range, Session!SlotBlocks, Session!device, Session!history,
     Session!session, Dec!SetupBlocks, Dec!FreeBlocks, Dec!LocalBlock, Dec!PendingBlocks,
     Dec!Queued, Dec!Range, Dec!SlotBlocks, Dec!device, Dec!history, Dec!session
<1>10. Session!StreamOnCapture => Dec!StreamOnCapture
  BY DEF Session!StreamOnCapture, Session!GoTo, Session!Queued, Session!device,
     Session!history, Dec!StreamOnCapture, Dec!GoTo, Dec!Queued, Dec!device, Dec!history
<1>11. Session!StreamOnEmptyQueue => Dec!StreamOnEmptyQueue
  BY DEF Session!StreamOnEmptyQueue, Session!NoFrame, Session!NoOutput, Session!Return,
     Session!Returns, Session!device, Session!history, Session!session, Dec!StreamOnEmptyQueue,
     Dec!NoFrame, Dec!NoOutput, Dec!Return, Dec!Returns, Dec!device, Dec!history, Dec!session
<1>12. Session!PumpSkipped => Dec!PumpSkipped
  BY DEF Session!PumpSkipped, Session!GoTo, Session!device, Session!history, Session!session,
     Dec!PumpSkipped, Dec!GoTo, Dec!device, Dec!history, Dec!session
<1>13. Session!TakeFrame => Dec!TakeFrame
  BY DEF Session!TakeFrame, Session!BlockAfterMove, Session!IsFrame, Session!NeedsRefill,
     Session!NoFrame, Session!NoOutput, Dec!TakeFrame, Dec!BlockAfterMove, Dec!IsFrame,
     Dec!NeedsRefill, Dec!NoFrame, Dec!NoOutput
<1>14. Session!RefillDecoderCapture => Dec!RefillDecoderCapture
  BY DEF Session!RefillDecoderCapture, Session!FreeBlocks, Session!LocalBlock, Session!Lend,
     Session!PendingBlocks, Session!Range, Session!SlotBlocks, Session!history, Session!NoFrame,
     Session!NoOutput, Dec!RefillDecoderCapture, Dec!FreeBlocks, Dec!LocalBlock, Dec!Lend,
     Dec!PendingBlocks, Dec!Range, Dec!SlotBlocks, Dec!history, Dec!NoFrame, Dec!NoOutput
<1>15. Session!RefillFails => Dec!RefillFails
  BY DEF Session!RefillFails, Session!Fault, Session!FreeBlocks, Session!LocalBlock,
     Session!NoFrame, Session!NoOutput, Session!PendingBlocks, Session!Range, Session!Return,
     Session!Returns, Session!SlotBlocks, Session!device, Session!session, Dec!RefillFails,
     Dec!Fault, Dec!FreeBlocks, Dec!LocalBlock, Dec!NoFrame, Dec!NoOutput, Dec!PendingBlocks,
     Dec!Range, Dec!Return, Dec!Returns, Dec!SlotBlocks, Dec!device, Dec!session
<1>16. Session!CaptureDrained => Dec!CaptureDrained
  BY DEF Session!CaptureDrained, Session!GoTo, Session!device, Session!history, Session!session,
     Dec!CaptureDrained, Dec!GoTo, Dec!device, Dec!history, Dec!session
<1>17. Session!CaptureBroken => Dec!CaptureBroken
  BY DEF Session!CaptureBroken, Session!NoFrame, Session!NoOutput, Session!Return,
     Session!Returns, Session!device, Session!history, Session!session, Dec!CaptureBroken,
     Dec!NoFrame, Dec!NoOutput, Dec!Return, Dec!Returns, Dec!device, Dec!history, Dec!session
<1>18. Session!IoctlFails => Dec!IoctlFails
  BY DEF Session!IoctlFails, Session!Fault, Session!NoFrame, Session!NoOutput, Session!OnlyFaults,
     Session!Return, Session!Returns, Session!device, Session!session, Dec!IoctlFails, Dec!Fault,
     Dec!NoFrame, Dec!NoOutput, Dec!OnlyFaults, Dec!Return, Dec!Returns, Dec!device, Dec!session
<1>19. Session!HandOut => Dec!HandOut
  BY DEF Session!HandOut, Session!NoFrame, Session!Returns, Session!device, Dec!HandOut,
     Dec!NoFrame, Dec!Returns, Dec!device
<1>20. Session!NothingToHandOut => Dec!NothingToHandOut
  BY DEF Session!NothingToHandOut, Session!EmptyHanded, Session!NoFrame, Session!NoOutput,
     Session!Return, Session!Returns, Session!device, Session!history, Session!session,
     Dec!NothingToHandOut, Dec!EmptyHanded, Dec!NoFrame, Dec!NoOutput, Dec!Return, Dec!Returns,
     Dec!device, Dec!history, Dec!session
<1>21. Session!WaitForFrame => Dec!WaitForFrame
  BY DEF Session!WaitForFrame, Session!GoTo, Session!device, Session!history, Session!session,
     Dec!WaitForFrame, Dec!GoTo, Dec!device, Dec!history, Dec!session
<1>22. Session!WaitForDeviceReady => Dec!WaitForDeviceReady
  BY DEF Session!WaitForDeviceReady, Session!DeviceReady, Session!device, Session!history,
     Session!session, Dec!WaitForDeviceReady, Dec!DeviceReady, Dec!device, Dec!history,
     Dec!session
<1>23. Session!WaitForDeviceTimeout => Dec!WaitForDeviceTimeout
  BY DEF Session!WaitForDeviceTimeout, Session!AtEnd, Session!CanDecode, Session!CanOutput,
     Session!Cardinality, Session!DeviceReady, Session!Fault, Session!IsFiniteSet,
     Session!NoFrame, Session!NoOutput, Session!OnlyFaults, Session!Return, Session!Returns,
     Session!device, Session!session, Dec!WaitForDeviceTimeout, Dec!AtEnd, Dec!CanDecode,
     Dec!CanOutput, Dec!Cardinality, Dec!DeviceReady, Dec!Fault, Dec!IsFiniteSet, Dec!NoFrame,
     Dec!NoOutput, Dec!OnlyFaults, Dec!Return, Dec!Returns, Dec!device, Dec!session
<1>. QED
  BY <1>1, <1>2, <1>3, <1>4, <1>5, <1>6, <1>7, <1>8, <1>9, <1>10, <1>11, <1>12, <1>13, <1>14,
     <1>15, <1>16, <1>17, <1>18, <1>19, <1>20, <1>21, <1>22, <1>23

\* So are those of the driver and of its client.
LEMMA SameDriver ==
    /\ Session!DriverDecodes => Dec!DriverDecodes
    /\ Session!DriverChanges => Dec!DriverChanges
    /\ Session!DriverOutputs => Dec!DriverOutputs
    /\ Session!DriverDrops => Dec!DriverDrops
    /\ Session!DriverEnds => Dec!DriverEnds
    /\ \A b : Session!ClientReturns(b) => Dec!ClientReturns(b)
<1>1. Session!DriverDecodes => Dec!DriverDecodes
  BY DEF Session!DriverDecodes, Session!CanDecode, Session!Cardinality, Session!IsFiniteSet,
     Session!call, Session!history, Session!session, Dec!DriverDecodes, Dec!CanDecode,
     Dec!Cardinality, Dec!IsFiniteSet, Dec!call, Dec!history, Dec!session
<1>2. Session!DriverChanges => Dec!DriverChanges
  BY DEF Session!DriverChanges, Session!CanDecode, Session!Cardinality, Session!IsFiniteSet,
     Session!call, Session!session, Dec!DriverChanges, Dec!CanDecode, Dec!Cardinality,
     Dec!IsFiniteSet, Dec!call, Dec!session
<1>3. Session!DriverOutputs => Dec!DriverOutputs
  BY DEF Session!DriverOutputs, Session!AtEnd, Session!CanOutput, Session!Ready, Session!Took,
     Session!call, Session!history, Session!session, Dec!DriverOutputs, Dec!AtEnd, Dec!CanOutput,
     Dec!Ready, Dec!Took, Dec!call, Dec!history, Dec!session
<1>4. Session!DriverDrops => Dec!DriverDrops
  BY DEF Session!DriverDrops, Session!AtEnd, Session!CanOutput, Session!NoFrame, Session!Ready,
     Session!Took, Session!call, Session!session, Dec!DriverDrops, Dec!AtEnd, Dec!CanOutput,
     Dec!NoFrame, Dec!Ready, Dec!Took, Dec!call, Dec!session
<1>5. Session!DriverEnds => Dec!DriverEnds
  BY DEF Session!DriverEnds, Session!AtEnd, Session!CanOutput, Session!NoFrame, Session!Ready,
     Session!Took, Session!call, Session!history, Session!session, Dec!DriverEnds, Dec!AtEnd,
     Dec!CanOutput, Dec!NoFrame, Dec!Ready, Dec!Took, Dec!call, Dec!history, Dec!session
<1>6. \A b : Session!ClientReturns(b) => Dec!ClientReturns(b)
  BY DEF Session!ClientReturns, Session!call, Session!device, Session!session, Dec!ClientReturns,
     Dec!call, Dec!device, Dec!session
<1>. QED
  BY <1>1, <1>2, <1>3, <1>4, <1>5, <1>6

\* What is unchanged for the component is unchanged for the session.
LEMMA SameVars == UNCHANGED sessionVars => UNCHANGED Dec!vars
BY DEF sessionVars, Dec!vars, Dec!session, Dec!device, Dec!call, Dec!history

\* A handler that ends passes a number over, or spends a fault.
LEMMA SpendsKeepsSession ==
    ASSUME WorkInv', Dec!CallerInv, pc = "idle", NEW n, n = nextPacket \/ n = nextPacket + 1,
           NEW f \in {0, 1}, Spends(n, f)
    PROVE  Dec!CallerInv'
<1>1. nextPacket \in Nat /\ faults \in 0 .. MaxFaults /\ MaxFaults \in Nat
  BY SameConstants DEF Dec!CallerInv, Dec!TypeOK, Dec!BoundAssumption
<1>2. /\ nextPacket' \in 1 .. (MaxPackets + 1) /\ nextPacket' >= nextPacket
      /\ faults' \in 0 .. MaxFaults
  BY <1>1 DEF Spends, WorkInv, WorksOK
<1>3. UNCHANGED <<Dec!session, Dec!device, Dec!call, client, accepted, delivered, discarded,
                  lostSlots, sawLast, eos, skips, changes, opens>>
  BY DEF Spends, Dec!session, Dec!device, Dec!call
<1>. QED
  BY <1>2, <1>3, Dec!CallerInvSpends, SameConstants

\* A work that ends, or a drain that fails.
LEMMA EndKeepsSession ==
    ASSUME WorkInv', Dec!CallerInv, pc = "idle", NEW f \in {0, 1},
           Fails(f) \/ (WorkInv /\ cur # NoWork /\ \E r : EndWork(r, f))
    PROVE  Dec!CallerInv'
<1>1. \E n \in {nextPacket, nextPacket + 1} : Spends(n, f)
  BY DEF Fails, EndWork, WorkInv, PacketOfWork
<1>. QED
  BY <1>1, SpendsKeepsSession

\* A step inside a call, or of the driver, is one of the session.
LEMMA SessionSteps ==
    SessionStep \/ DriverStep => Dec!Pump \/ Dec!Environment
BY SameSteps, SameDriver
DEF SessionStep, DriverStep, Session!Pump, Session!Environment, Dec!Pump, Dec!Environment

\* Every step of the composition keeps what DecoderSessionProofs shows of the session:
\* between its calls the component leaves it alone.
LEMMA SessionKept ==
    ASSUME WorkInv, WorkInv', Dec!CallerInv, [Next]_vars
    PROVE  Dec!CallerInv'
<1>1. ASSUME [Dec!AnyNext]_(Dec!vars) PROVE Dec!CallerInv'
  BY <1>1, Dec!CallerInvStep, SameConstants
<1>2. CASE SessionStep \/ DriverStep
  BY <1>1, <1>2, SessionSteps DEF Dec!AnyNext, Dec!Next
<1>3. CASE QueuePacket
  BY <1>1, <1>3, SameCalls, SameVars DEF QueuePacket, Dec!AnyNext
<1>4. CASE DequeueFrame
  <2>1. (Waiting /\ ~sawEos) \in BOOLEAN
    BY DEF Waiting
  <2>2. \E wait \in BOOLEAN : Dec!EnterDequeueDecoderFrame(wait)
    BY <1>4, <2>1, SameCalls DEF DequeueFrame
  <2>. QED
    BY <1>1, <2>2 DEF Dec!AnyNext, Dec!Next
<1>5. CASE StartDrain
  BY <1>1, <1>5, SameCalls DEF StartDrain, Dec!AnyNext, Dec!Next
<1>6. CASE EnsureDecoderSession \/ DrainFlushes \/ Flush \/ \E init \in BOOLEAN : Stop(init)
  <2>1. Dec!Open \/ Dec!Close \/ UNCHANGED sessionVars
    BY <1>6, SameCalls DEF EnsureDecoderSession, DrainFlushes, Flush, Stop
  <2>. QED
    BY <1>1, <2>1, SameVars DEF Dec!AnyNext, Dec!Next
<1>7. CASE CallFailed \/ NormalizeFails \/ WaitForDecoderProgressFails \/ TakeFrameFails
           \/ SessionCallFails \/ EosNotSeen
  <2>1. pc = "idle" /\ \E f \in {0, 1} : Fails(f)
    BY <1>7 DEF CallFailed, NormalizeFails, WaitForDecoderProgressFails, TakeFrameFails,
       SessionCallFails, EosNotSeen, InSession, WorkInv, PointInWork
  <2>. QED
    BY <2>1, EndKeepsSession
<1>8. CASE FinishFrame \/ FinishEos
  <2>1. pc = "idle" /\ cur # NoWork /\ \E r : EndWork(r, 0)
    BY <1>8 DEF FinishFrame, FinishEos, WorkInv, PointInWork
  <2>. QED
    BY <2>1, EndKeepsSession
<1>9. CASE StoreDecoderConfig
  <2>1. CASE UNCHANGED sessionVars
    BY <1>1, <2>1, SameVars
  <2>2. CASE EndWork("done", 0)
    <3>1. pc = "idle" /\ cur # NoWork /\ \E r : EndWork(r, 0)
      BY <1>9, <2>2 DEF StoreDecoderConfig, WorkInv, PointInWork
    <3>. QED
      BY <3>1, EndKeepsSession
  <2>. QED
    BY <1>9, <2>1, <2>2 DEF StoreDecoderConfig
<1>10. CASE ProcessRefused
  <2>1. pc = "idle" /\ Spends(nextPacket + 1, 0)
    BY <1>10 DEF ProcessRefused, Idle, InSession
  <2>. QED
    BY <2>1, SpendsKeepsSession
<1>11. CASE PacketQueued \/ PacketBlocked \/ WaitForDecoderProgress \/ TakeFrame \/ TakeEnd
            \/ NoMoreFrames \/ PublishHeld \/ DrainEnds \/ (\E k \in Kinds : Process(k))
            \/ (\E withEos \in BOOLEAN : ClientDrains(withEos)) \/ UNCHANGED vars
  <2>1. UNCHANGED sessionVars
    BY <1>11 DEF PacketQueued, PacketBlocked, WaitForDecoderProgress, TakeFrame, TakeEnd,
       NoMoreFrames, PublishHeld, DrainEnds, Process, ClientDrains, vars
  <2>. QED
    BY <1>1, <2>1, SameVars
<1>. QED
  BY <1>2, <1>3, <1>4, <1>5, <1>6, <1>7, <1>8, <1>9, <1>10, <1>11 DEF Next, Step

\* What that says of the packets.
LEMMA FramesOfSession ==
    ASSUME Dec!CallerInv
    PROVE  /\ Dec!InDriver \subseteq Works /\ Dec!Coming \subseteq Works
           /\ delivered \subseteq Works /\ NoWork \notin Works
           /\ Dec!InDriver \cap Dec!Coming = {} /\ Dec!InDriver \cap delivered = {}
           /\ Dec!Coming \cap delivered = {}
           /\ accepted = Dec!InDriver \cup Dec!Coming \cup delivered \cup discarded
           /\ \A w \in accepted : w < nextPacket
           /\ ~received => accepted = {}
           /\ skips = 0 /\ changes = 0 => discarded = {}
           /\ Dec!BareEnd => draining /\ pending # <<>>
           /\ skips \in Nat /\ changes \in Nat /\ nextPacket \in Nat
<1>1. Dec!TypeOK /\ Dec!Accounts /\ Dec!StreamState /\ Dec!NothingGivenUp
  BY DEF Dec!CallerInv, Dec!Streams
<1>2. Works = Dec!Packets /\ NoWork = Dec!NoFrame /\ NoWork \notin Works
  BY DEF Works, NoWork, Dec!Packets, Dec!NoFrame
<1>3. accepted = Dec!InDriver \cup Dec!Coming \cup delivered \cup discarded
  BY <1>1 DEF Dec!Accounts, Dec!InDriver, Dec!Coming
<1>4. accepted \subseteq Works /\ delivered \subseteq Works
  BY <1>1, <1>2 DEF Dec!TypeOK
<1>5. /\ Dec!InDriver \cap Dec!Coming = {} /\ Dec!InDriver \cap delivered = {}
      /\ Dec!Coming \cap delivered = {} /\ \A w \in accepted : w < nextPacket
  BY <1>1 DEF Dec!Accounts, Dec!InDriver, Dec!Coming
<1>6. /\ ~received => accepted = {}
      /\ skips = 0 /\ changes = 0 => discarded = {}
      /\ Dec!BareEnd => draining
  BY <1>1 DEF Dec!StreamState, Dec!NothingGivenUp, Dec!BareEnd, Dec!IsBareEnd
<1>7. Dec!BareEnd => pending # <<>>
  BY DEF Dec!BareEnd
<1>8. skips \in Nat /\ changes \in Nat /\ nextPacket \in Nat
  BY <1>1, SameConstants DEF Dec!TypeOK, Dec!BoundAssumption
<1>. QED
  BY <1>2, <1>3, <1>4, <1>5, <1>6, <1>7, <1>8

-----------------------------------------------------------------------------
(* Pictures and their works.                                               *)

\* What DequeueDecoderFrame has just returned to the drain loop.
JustOut == cpc = "dequeued" /\ pc = "idle" /\ ret[2] = "OK"
EmptyHanded == cpc = "dequeued" /\ pc = "idle" /\ ret[2] \in {"NOT_FOUND", "BLOCKING"}
EosOut == sawEos \/ (JustOut /\ out.eos)

\* The drain loop: what it holds was handed out and is not what it has just got; the
\* end of stream ends it; a work without a packet does not get there.
LoopOK ==
    /\ hold # NoWork => /\ cpc \in {"drain", "dequeued", "publish"} /\ hold \in delivered
                        /\ JustOut => out.frame # hold
    /\ JustOut => out.frame \in delivered \cup {NoWork}
    /\ done => cur \in delivered /\ cur # hold /\ (JustOut => out.frame # cur)
    /\ sawEos => cpc \in {"publish", "end"}
    /\ cpc = "end" /\ sawEos => Waiting
    /\ cpc = "ensure" => after = "none" /\ ~done
    /\ cpc = "finish" => nextPacket = cur
    /\ EmptyHanded => pending = <<>>

\* A session that drains without input has queued its own end of stream, which the
\* drain loop sees before process() is called again.
OwnEos ==
    draining /\ ~received /\ opened /\ ~errored /\ sigEos = "no" =>
        /\ cpc \in {"drain", "dequeued", "publish", "end"} /\ Waiting
        /\ sawEos \/ (cpc \in {"drain", "dequeued"} /\ ((JustOut /\ out.eos) \/ Dec!BareEnd))
BareIsOwn == ~errored /\ Dec!BareEnd => ~received

\* What is queued belongs to the session that the first work opened.
CurrentAccepted ==
    /\ after = "finish" \/ (cpc = "queued" /\ pc = "idle" /\ ret[2] = "OK") => cur \in accepted
    /\ sessionPending => accepted = {}
    /\ ~opened => ~received

Loop == LoopOK /\ OwnEos /\ BareIsOwn /\ CurrentAccepted

\* No failure was reported and the resolution did not change; nor was a picture dropped.
Calm == ~errored /\ changes = 0
Sound == Calm /\ skips = 0

\* The end of stream comes behind every picture on its way, and the driver keeps only
\* pictures that it will not output before the next Open.
EosLeft ==
    Calm /\ EosOut => /\ Dec!Coming = {} /\ (devState.last \/ Dec!InDriver = {})
                      /\ Dec!EndComes => Dec!InDriver = {}

\* What the session holds, has just handed out or had handed out before belongs to a
\* work that is pending or current.
HasWork(w) == w = cur \/ status[w] = "pending"
FramesHaveWorks ==
    Calm => /\ hold # NoWork => HasWork(hold)
            /\ JustOut /\ out.frame # NoWork => HasWork(out.frame)
            /\ \A w \in Dec!Coming : HasWork(w)
            /\ ~devState.last => \A w \in Dec!InDriver : HasWork(w)

Outputs == EosLeft /\ FramesHaveWorks /\ (changes = 0 => ~stray)

\* A pending work's packet was accepted, and what was handed out is published.
PendingAccepted == Sound => \A w \in Works : status[w] = "pending" => w \in accepted
Published ==
    Sound => \A w \in delivered :
                \/ w = hold
                \/ JustOut /\ w = out.frame
                \/ (w = cur => done) /\ status[w] # "pending"

\* Once LAST is on its way the driver can only have the current work's packet, which
\* was queued behind it, and it has none when the drain loop came to its end.
Over == cpc \in {"publish", "end"} \/ EmptyHanded
Late ==
    Sound => /\ Dec!EndComes \/ EosOut => Dec!InDriver \subseteq {cur}
             /\ Dec!EndComes /\ Over => Dec!InDriver = {}
NothingAfterEos == Sound /\ sigEos = "drain" => \A w \in Works : status[w] # "pending"

Ends == PendingAccepted /\ Published /\ Late /\ NothingAfterEos

StreamInv == WorkInv /\ SetupInv /\ Dec!CallerInv /\ Loop /\ Outputs /\ Ends

-----------------------------------------------------------------------------
(* Steps inside a call of the session, and of the driver.                  *)

\* Such a step queues the current work's packet, hands a frame to the drain loop, or
\* does neither and at most ends the call empty-handed.
QueuesWork ==
    /\ Dec!Submits /\ cpc = "queued" /\ nextPacket = cur /\ cur \in Works /\ opened
    /\ ~JustOut /\ ~JustOut' /\ ~EmptyHanded /\ ~EmptyHanded'
HandsToLoop ==
    /\ Dec!HandsOut /\ cpc = "dequeued"
    /\ ~JustOut /\ JustOut' /\ ~EmptyHanded /\ ~EmptyHanded'
GoesOn ==
    /\ Dec!Moves
    /\ (JustOut' <=> JustOut) /\ (JustOut => UNCHANGED out)
    /\ cpc = "queued" /\ pc' = "idle" /\ ret'[2] = "OK" => pc = "idle" /\ ret[2] = "OK"
    /\ EmptyHanded' =>
           \/ EmptyHanded /\ UNCHANGED pending
           \/ /\ pc = "decide" /\ pending = <<>>
              /\ UNCHANGED <<pending, devIn, devHeld, devOut, devState, changes, skips>>

\* A step inside a call, or of the driver, in the component's terms.
LEMMA CallEffect ==
    ASSUME StreamInv, SessionStep \/ DriverStep
    PROVE  /\ UNCHANGED component /\ UNCHANGED <<draining, opened>>
           /\ (changes' = 0 => changes = 0) /\ (skips' = 0 => skips = 0)
           /\ QueuesWork \/ HandsToLoop \/ GoesOn
<1>1. Dec!Effect
  BY SessionSteps, Dec!StepEffect, SameConstants DEF StreamInv
<1>2. CallStep /\ UNCHANGED component
  BY PumpIsCallStep, EnvironmentIsCallStep DEF SessionStep, DriverStep
<1>3. UNCHANGED <<cpc, cur, sawEos>>
  BY <1>2 DEF component
<1>4. /\ pc # "idle" => cpc \in {"queued", "dequeued"} /\ ~JustOut /\ ~EmptyHanded
      /\ pc = "qbuf" => cpc = "queued" /\ nextPacket = cur /\ cur \in Works /\ opened
      /\ pc = "decide" => cpc = "dequeued"
  <2>1. Dec!PointInCall
    BY DEF StreamInv, Dec!CallerInv
  <2>. QED
    BY <2>1 DEF StreamInv, WorkInv, PointInWork, PacketOfWork, WorksOK, SetupInv, OpenedForWork,
       Dec!PointInCall, JustOut, EmptyHanded
<1>5. CASE Dec!Submits
  <2>1. QueuesWork
    BY <1>3, <1>4, <1>5 DEF QueuesWork, Dec!Submits, JustOut, EmptyHanded
  <2>. QED
    BY <1>1, <1>2, <2>1 DEF Dec!Effect
<1>6. CASE Dec!HandsOut
  <2>1. HandsToLoop
    BY <1>3, <1>4, <1>6 DEF HandsToLoop, Dec!HandsOut, JustOut, EmptyHanded
  <2>. QED
    BY <1>1, <1>2, <2>1 DEF Dec!Effect
<1>7. CASE Dec!Moves
  <2>1. CASE pc = "idle"
    <3>1. UNCHANGED <<pc, ret, out, pending>>
      BY <1>1, <2>1 DEF Dec!Effect
    <3>2. GoesOn
      BY <1>3, <1>7, <2>1, <3>1 DEF GoesOn, JustOut, EmptyHanded
    <3>. QED
      BY <1>1, <1>2, <3>2 DEF Dec!Effect
  <2>2. CASE pc # "idle"
    <3>1. pc' = "idle" => ret'[2] # "OK"
      BY <1>7, <2>2 DEF Dec!Moves
    <3>2. ~JustOut /\ ~JustOut' /\ ~EmptyHanded
      BY <1>3, <1>4, <2>2, <3>1 DEF JustOut
    <3>3. EmptyHanded' =>
              /\ pc = "decide" /\ pending = <<>>
              /\ UNCHANGED <<pending, devIn, devHeld, devOut, devState, changes, skips>>
      <4>. SUFFICES ASSUME EmptyHanded'
                    PROVE  /\ pc = "decide" /\ pending = <<>>
                           /\ UNCHANGED <<pending, devIn, devHeld, devOut, devState, changes, skips>>
        OBVIOUS
      <4>1. pc' = "idle" /\ cpc = "dequeued" /\ ret'[2] \in {"NOT_FOUND", "BLOCKING"}
        BY <1>3 DEF EmptyHanded
      <4>2. op # "queue"
        BY <2>2, <4>1 DEF StreamInv, WorkInv, PointInWork
      <4>. QED
        BY <1>7, <2>2, <4>1, <4>2 DEF Dec!Moves
    <3>4. GoesOn
      BY <1>7, <2>2, <3>1, <3>2, <3>3 DEF GoesOn
    <3>. QED
      BY <1>1, <1>2, <3>4 DEF Dec!Effect
  <2>. QED
    BY <2>1, <2>2
<1>. QED
  BY <1>1, <1>5, <1>6, <1>7 DEF Dec!Effect

\* It keeps the drain loop's part.
LEMMA CallKeepsLoop ==
    ASSUME StreamInv, SessionStep \/ DriverStep
    PROVE  Loop'
<1>1. UNCHANGED component /\ UNCHANGED <<draining, opened>>
  BY CallEffect
<1>2. /\ UNCHANGED <<cpc, after, cur, done, hold, sawEos, status, sigEos, sessionPending>>
      /\ UNCHANGED <<errored, stray>>
  BY <1>1 DEF component
<1>3. /\ LoopOK /\ OwnEos /\ BareIsOwn /\ CurrentAccepted
      /\ cpc = "queued" => ~sessionPending /\ cur # NoWork
      /\ cur # NoWork => sigEos = "no"
  BY DEF StreamInv, Loop, SetupInv, OpenedForWork, WorkInv, PointInWork, WorkIsOpen
<1>4. /\ Dec!Coming \cap delivered = {} /\ NoWork \notin Works
      /\ Dec!Coming \subseteq Works /\ (Dec!BareEnd => draining) /\ (Dec!BareEnd => pending # <<>>)
      /\ nextPacket \in Nat
  BY FramesOfSession DEF StreamInv
<1>5. CASE QueuesWork
  <2>1. /\ cpc = "queued" /\ cur = nextPacket /\ opened /\ ~JustOut' /\ ~EmptyHanded' /\ received'
        /\ accepted' = accepted \cup {nextPacket} /\ UNCHANGED <<delivered, pending>>
    BY <1>5 DEF QueuesWork, Dec!Submits
  <2>2. Dec!BareEnd' <=> Dec!BareEnd
    BY <2>1 DEF Dec!BareEnd
  <2>3. LoopOK'
    <3>1. cpc' # "finish"
      BY <1>2, <2>1
    <3>. QED
      BY <1>2, <1>3, <2>1, <3>1 DEF LoopOK, Waiting
  <2>4. OwnEos'
    BY <2>1 DEF OwnEos
  <2>5. ~errored => ~Dec!BareEnd
    BY <1>3, <1>4, <2>1 DEF OwnEos, BareIsOwn
  <2>6. BareIsOwn'
    BY <1>2, <2>2, <2>5 DEF BareIsOwn
  <2>7. CurrentAccepted'
    BY <1>1, <1>2, <1>3, <2>1 DEF CurrentAccepted
  <2>. QED
    BY <2>3, <2>4, <2>6, <2>7 DEF Loop
<1>6. CASE HandsToLoop
  <2>1. /\ cpc = "dequeued" /\ pc' = "idle" /\ JustOut' /\ ~JustOut /\ ~EmptyHanded'
        /\ out'.frame \in Dec!Coming \cup {NoWork}
        /\ delivered' = delivered \cup ({out'.frame} \ {NoWork})
        /\ (Dec!BareEnd' => Dec!BareEnd) /\ (Dec!BareEnd => Dec!BareEnd' \/ out'.eos)
        /\ UNCHANGED <<accepted, received>>
    BY <1>6 DEF HandsToLoop, Dec!HandsOut, Dec!NoFrame, NoWork
  <2>2. done => cur # NoWork
    BY <1>3, FramesOfSession DEF LoopOK, StreamInv
  <2>3. LoopOK'
    BY <1>2, <1>3, <1>4, <2>1, <2>2 DEF LoopOK, Waiting
  <2>4. OwnEos'
    BY <1>1, <1>2, <1>3, <2>1 DEF OwnEos, Waiting
  <2>5. BareIsOwn'
    BY <1>2, <1>3, <2>1 DEF BareIsOwn
  <2>6. CurrentAccepted'
    BY <1>1, <1>2, <1>3, <2>1 DEF CurrentAccepted
  <2>. QED
    BY <2>3, <2>4, <2>5, <2>6 DEF Loop
<1>7. CASE GoesOn
  <2>1. /\ (JustOut' <=> JustOut) /\ (JustOut => UNCHANGED out) /\ (Dec!BareEnd' <=> Dec!BareEnd)
        /\ UNCHANGED <<accepted, delivered, received>>
        /\ EmptyHanded' => (EmptyHanded /\ pending' = pending) \/ pending' = <<>>
        /\ cpc = "queued" /\ pc' = "idle" /\ ret'[2] = "OK" => pc = "idle" /\ ret[2] = "OK"
    BY <1>7 DEF GoesOn, Dec!Moves
  <2>2. cpc = "finish" => UNCHANGED nextPacket
    <3>1. cpc = "finish" => pc = "idle"
      BY DEF StreamInv, WorkInv, PointInWork
    <3>2. CallStep
      BY PumpIsCallStep, EnvironmentIsCallStep DEF SessionStep, DriverStep
    <3>. QED
      BY <3>1, <3>2 DEF CallStep
  <2>3. LoopOK'
    BY <1>2, <1>3, <2>1, <2>2 DEF LoopOK, Waiting
  <2>4. OwnEos'
    BY <1>1, <1>2, <1>3, <2>1 DEF OwnEos, Waiting
  <2>5. BareIsOwn'
    BY <1>2, <1>3, <2>1 DEF BareIsOwn
  <2>6. CurrentAccepted'
    BY <1>1, <1>2, <1>3, <2>1 DEF CurrentAccepted
  <2>. QED
    BY <2>3, <2>4, <2>5, <2>6 DEF Loop
<1>. QED
  BY <1>5, <1>6, <1>7, CallEffect

\* It keeps the frames with their works.
LEMMA CallKeepsOutputs ==
    ASSUME StreamInv, SessionStep \/ DriverStep
    PROVE  Outputs'
<1>1. UNCHANGED component /\ (changes' = 0 => changes = 0)
  BY CallEffect
<1>2. UNCHANGED <<cpc, after, cur, done, hold, sawEos, status, sigEos, errored, stray>>
  BY <1>1 DEF component
<1>3. /\ LoopOK /\ BareIsOwn /\ EosLeft /\ FramesHaveWorks /\ (changes = 0 => ~stray)
  BY DEF StreamInv, Loop, Outputs
<1>4. changes' = 0 => ~stray'
  BY <1>1, <1>2, <1>3
<1>5. CASE QueuesWork
  <2>1. /\ cpc = "queued" /\ cur = nextPacket /\ ~JustOut' /\ Dec!Coming' = Dec!Coming
        /\ Dec!InDriver' = Dec!InDriver \cup {cur} /\ UNCHANGED <<devState, changes>>
    BY <1>5 DEF QueuesWork, Dec!Submits
  <2>2. EosLeft'
    BY <1>2, <1>3, <2>1 DEF EosLeft, EosOut, LoopOK
  <2>3. FramesHaveWorks'
    BY <1>2, <1>3, <2>1 DEF FramesHaveWorks, Calm, HasWork
  <2>. QED
    BY <1>4, <2>2, <2>3 DEF Outputs
<1>6. CASE HandsToLoop
  <2>1. /\ cpc = "dequeued" /\ JustOut'
        /\ out'.frame \in Dec!Coming \cup {NoWork} /\ Dec!Coming' \subseteq Dec!Coming
        /\ Dec!InDriver' = Dec!InDriver /\ UNCHANGED <<devState, changes>>
        /\ out'.eos /\ out'.block = NoBlock => Dec!BareEnd
        /\ changes = 0 /\ out'.eos /\ out'.block # NoBlock =>
               Dec!Coming' = {} /\ devState.last /\ ~Dec!EndComes'
    BY <1>6 DEF HandsToLoop, Dec!HandsOut, Dec!NoFrame, NoWork
  <2>2. ASSUME Calm, out'.eos, out'.block = NoBlock
        PROVE  Dec!Coming' = {} /\ Dec!InDriver' = {}
    <3>1. ~received
      BY <1>3, <2>1, <2>2 DEF BareIsOwn, Calm
    <3>2. Dec!Coming = {} /\ Dec!InDriver = {}
      BY <3>1, FramesOfSession DEF StreamInv
    <3>. QED
      BY <2>1, <3>2
  <2>3. EosLeft'
    BY <1>2, <1>3, <2>1, <2>2 DEF EosLeft, EosOut, LoopOK, Calm
  <2>4. FramesHaveWorks'
    BY <1>2, <1>3, <2>1 DEF FramesHaveWorks, Calm, HasWork
  <2>. QED
    BY <1>4, <2>3, <2>4 DEF Outputs
<1>7. CASE GoesOn
  <2>1. /\ (JustOut' <=> JustOut) /\ (JustOut => UNCHANGED out)
        /\ changes' = 0 =>
               /\ changes = 0 /\ Dec!InDriver' \subseteq Dec!InDriver
               /\ Dec!Coming' \subseteq Dec!Coming \cup (IF devState.last THEN {} ELSE Dec!InDriver)
               /\ devState.last => devState'.last
               /\ Dec!EndComes' => Dec!EndComes \/ Dec!InDriver' = {}
    BY <1>7 DEF GoesOn, Dec!Moves, Dec!DriverTakes
  <2>2. EosOut' <=> EosOut
    BY <1>2, <2>1 DEF EosOut
  <2>3. EosLeft'
    BY <1>2, <1>3, <2>1, <2>2 DEF EosLeft, Calm
  <2>4. FramesHaveWorks'
    BY <1>2, <1>3, <2>1 DEF FramesHaveWorks, Calm, HasWork
  <2>. QED
    BY <1>4, <2>3, <2>4 DEF Outputs
<1>. QED
  BY <1>5, <1>6, <1>7, CallEffect

\* It keeps the end of stream behind the works.
LEMMA CallKeepsEnds ==
    ASSUME StreamInv, SessionStep \/ DriverStep
    PROVE  Ends'
<1>1. UNCHANGED component /\ (changes' = 0 => changes = 0) /\ (skips' = 0 => skips = 0)
  BY CallEffect
<1>2. UNCHANGED <<cpc, after, cur, done, hold, sawEos, status, sigEos, errored>>
  BY <1>1 DEF component
<1>3. Sound' => Sound
  BY <1>1, <1>2 DEF Sound, Calm
<1>4. /\ LoopOK /\ EosLeft /\ PendingAccepted /\ Published /\ Late /\ NothingAfterEos
  BY DEF StreamInv, Loop, Outputs, Ends
<1>5. NothingAfterEos'
  BY <1>2, <1>3, <1>4 DEF NothingAfterEos
<1>6. CASE QueuesWork
  <2>1. /\ cpc = "queued" /\ cur = nextPacket /\ ~JustOut /\ ~JustOut' /\ ~EmptyHanded'
        /\ Dec!EndComes' = Dec!EndComes /\ Dec!InDriver' = Dec!InDriver \cup {cur}
        /\ accepted' = accepted \cup {nextPacket} /\ UNCHANGED delivered
    BY <1>6 DEF QueuesWork, Dec!Submits
  <2>2. PendingAccepted' /\ Published'
    BY <1>2, <1>3, <1>4, <2>1 DEF PendingAccepted, Published
  <2>3. Late'
    BY <1>2, <1>3, <1>4, <2>1 DEF Late, EosOut, Over, LoopOK
  <2>. QED
    BY <1>5, <2>2, <2>3 DEF Ends
<1>7. CASE HandsToLoop
  <2>1. /\ cpc = "dequeued" /\ JustOut' /\ ~JustOut /\ ~EmptyHanded'
        /\ delivered' = delivered \cup ({out'.frame} \ {NoWork})
        /\ Dec!InDriver' = Dec!InDriver /\ (Dec!EndComes' => Dec!EndComes)
        /\ (out'.eos => Dec!EndComes) /\ UNCHANGED accepted
    BY <1>7 DEF HandsToLoop, Dec!HandsOut, Dec!NoFrame, NoWork
  <2>2. PendingAccepted' /\ Published'
    BY <1>2, <1>3, <1>4, <2>1 DEF PendingAccepted, Published
  <2>3. Late'
    BY <1>2, <1>3, <1>4, <2>1 DEF Late, EosOut, Over, LoopOK
  <2>. QED
    BY <1>5, <2>2, <2>3 DEF Ends
<1>8. CASE GoesOn
  <2>1. /\ (JustOut' <=> JustOut) /\ (JustOut => UNCHANGED out)
        /\ UNCHANGED <<accepted, delivered>>
        /\ changes' = 0 =>
               /\ Dec!InDriver' \subseteq Dec!InDriver
               /\ Dec!EndComes' => Dec!EndComes \/ Dec!InDriver' = {}
        /\ EmptyHanded' => \/ EmptyHanded
                           \/ /\ pc = "decide" /\ pending = <<>>
                              /\ UNCHANGED <<pending, devIn, devHeld, devOut>>
    BY <1>8 DEF GoesOn, Dec!Moves, Dec!DriverTakes
  <2>2. PendingAccepted' /\ Published'
    BY <1>2, <1>3, <1>4, <2>1 DEF PendingAccepted, Published
  <2>3. EosOut' <=> EosOut
    BY <1>2, <2>1 DEF EosOut
  <2>4. Late'
    <3>. SUFFICES ASSUME Sound'
                  PROVE  /\ Dec!EndComes' \/ EosOut' => Dec!InDriver' \subseteq {cur'}
                         /\ Dec!EndComes' /\ Over' => Dec!InDriver' = {}
      BY DEF Late
    <3>1. Sound /\ changes' = 0 /\ changes = 0 /\ skips = 0
      BY <1>3 DEF Sound, Calm
    <3>2. CASE Over' => Over
      BY <1>2, <1>4, <2>1, <2>3, <3>1, <3>2 DEF Late
    <3>3. CASE pc = "decide" /\ pending = <<>> /\ UNCHANGED <<pending, devIn, devHeld, devOut>>
      <4>1. Dec!EndComes' = Dec!EndComes /\ Dec!InDriver' = Dec!InDriver
        BY <3>3 DEF Dec!EndComes, Dec!InDriver, Dec!FramesOf
      <4>2. Dec!EndComes => Dec!InDriver = {}
        BY <3>1, <3>3 DEF StreamInv, Dec!CallerInv, Dec!CallState
      <4>. QED
        BY <1>2, <1>4, <2>3, <3>1, <4>1, <4>2 DEF Late
    <3>. QED
      BY <1>2, <2>1, <3>2, <3>3 DEF Over
  <2>. QED
    BY <1>5, <2>2, <2>4 DEF Ends
<1>. QED
  BY <1>6, <1>7, <1>8, CallEffect

-----------------------------------------------------------------------------
(* Steps of the component that leave the session alone.                    *)

\* Where the packets are, and what the last call told.
LEMMA SessionAlone ==
    ASSUME UNCHANGED sessionVars
    PROVE  /\ UNCHANGED <<Dec!InDriver, Dec!Coming, Dec!EndComes, Dec!BareEnd>>
           /\ UNCHANGED <<opened, pending, draining, received, devState, pc, op, ret, out>>
           /\ UNCHANGED <<nextPacket, accepted, delivered, skips, changes>>
BY DEF sessionVars, Dec!InDriver, Dec!Coming, Dec!EndComes, Dec!BareEnd, Dec!FramesOf

\* The work thread moves on inside process() or drain().
LEMMA MoveKeepsStream ==
    ASSUME StreamInv,
           \/ PacketQueued \/ PacketBlocked \/ WaitForDecoderProgress \/ NoMoreFrames
           \/ \E withEos \in BOOLEAN : ClientDrains(withEos)
           \/ EnsureDecoderSession /\ UNCHANGED <<sessionVars, sessionPending>>
    PROVE  Loop' /\ Outputs' /\ Ends'
<1>1. /\ UNCHANGED sessionVars
      /\ UNCHANGED <<cur, done, hold, sawEos, status, sigEos, errored, stray, sessionPending>>
  BY DEF PacketQueued, PacketBlocked, WaitForDecoderProgress, NoMoreFrames, ClientDrains,
     EnsureDecoderSession, setting
<1>2. /\ UNCHANGED <<Dec!InDriver, Dec!Coming, Dec!EndComes, Dec!BareEnd>>
      /\ UNCHANGED <<opened, pending, draining, received, devState, pc, op, ret, out>>
      /\ UNCHANGED <<nextPacket, accepted, delivered, skips, changes>>
  BY <1>1, SessionAlone
<1>3. /\ LoopOK /\ OwnEos /\ BareIsOwn /\ CurrentAccepted /\ EosLeft /\ FramesHaveWorks
      /\ (changes = 0 => ~stray) /\ PendingAccepted /\ Published /\ Late /\ NothingAfterEos
  BY DEF StreamInv, Loop, Outputs, Ends
<1>4. /\ cpc' \notin {"dequeued", "queued", "ensure", "end"} /\ ~JustOut /\ ~sawEos
      /\ (cpc' = "publish" => EmptyHanded)
      /\ (EmptyHanded \/ cpc \notin {"drain", "dequeued", "publish", "end"})
      /\ (EmptyHanded => cpc' = "publish")
      /\ (cpc' \in {"finish"} => cpc = "ensure")
  BY <1>3 DEF PacketQueued, PacketBlocked, WaitForDecoderProgress, NoMoreFrames, ClientDrains,
     EnsureDecoderSession, NextAfterEnsure, LoopOK, JustOut, EmptyHanded, Idle, InSession
<1>5. ~JustOut' /\ ~EmptyHanded' /\ (Over' => Over)
  BY <1>4 DEF JustOut, EmptyHanded, Over
<1>6. LoopOK'
  BY <1>1, <1>2, <1>3, <1>4, <1>5 DEF LoopOK, EmptyHanded, StreamInv, WorkInv, PacketOfWork
<1>7. ~Dec!BareEnd \/ ~EmptyHanded
  BY <1>3, FramesOfSession DEF LoopOK, StreamInv
<1>8. OwnEos'
  <2>. SUFFICES ASSUME draining, ~received, opened, ~errored, sigEos = "no"
                PROVE  FALSE
    BY <1>1, <1>2 DEF OwnEos
  <2>. QED
    BY <1>3, <1>4, <1>7 DEF OwnEos
<1>9. CurrentAccepted'
  <2>1. after' = "finish" => after = "finish" \/ (cpc = "queued" /\ pc = "idle" /\ ret[2] = "OK")
    BY DEF PacketQueued, PacketBlocked, WaitForDecoderProgress, NoMoreFrames, ClientDrains,
       EnsureDecoderSession, InSession
  <2>. QED
    BY <1>1, <1>2, <1>3, <1>4, <2>1 DEF CurrentAccepted
<1>10. BareIsOwn'
  BY <1>1, <1>2, <1>3 DEF BareIsOwn
<1>11. EosLeft' /\ FramesHaveWorks' /\ (changes' = 0 => ~stray')
  BY <1>1, <1>2, <1>3, <1>4, <1>5 DEF EosLeft, FramesHaveWorks, HasWork, Calm, EosOut
<1>12. PendingAccepted' /\ Published' /\ NothingAfterEos'
  BY <1>1, <1>2, <1>3, <1>4, <1>5 DEF PendingAccepted, Published, NothingAfterEos, Sound, Calm
<1>13. Late'
  BY <1>1, <1>2, <1>3, <1>4, <1>5 DEF Late, EosOut, Sound, Calm
<1>. QED
  BY <1>6, <1>8, <1>9, <1>10, <1>11, <1>12, <1>13 DEF Loop, Outputs, Ends

\* process() takes a work.
LEMMA ProcessKeepsStream ==
    ASSUME StreamInv, NEW k, Process(k)
    PROVE  Loop' /\ Outputs' /\ Ends'
<1>1. /\ UNCHANGED sessionVars /\ cpc = "idle" /\ pc = "idle" /\ cur' = nextPacket
      /\ cpc' = "ensure"
      /\ UNCHANGED <<after, done, hold, sawEos, status, sigEos, errored, stray, sessionPending>>
  BY DEF Process, Idle, InSession, setting
<1>2. /\ UNCHANGED <<Dec!InDriver, Dec!Coming, Dec!EndComes, Dec!BareEnd>>
      /\ UNCHANGED <<opened, pending, draining, received, devState, pc, op, ret, out>>
      /\ UNCHANGED <<nextPacket, accepted, delivered, skips, changes>>
  BY <1>1, SessionAlone
<1>3. /\ LoopOK /\ OwnEos /\ BareIsOwn /\ CurrentAccepted /\ EosLeft /\ FramesHaveWorks
      /\ (changes = 0 => ~stray) /\ PendingAccepted /\ Published /\ Late /\ NothingAfterEos
  BY DEF StreamInv, Loop, Outputs, Ends
<1>4. cur = NoWork /\ after = "none" /\ hold = NoWork /\ ~sawEos
  BY <1>1, <1>3 DEF StreamInv, WorkInv, PointInWork, LoopOK
<1>5. /\ Dec!InDriver \subseteq Works /\ Dec!Coming \subseteq Works /\ delivered \subseteq Works
      /\ NoWork \notin Works /\ \A w \in accepted : w < nextPacket
      /\ nextPacket \notin delivered
  <2>1. /\ Dec!InDriver \subseteq Works /\ Dec!Coming \subseteq Works /\ delivered \subseteq Works
        /\ NoWork \notin Works /\ \A w \in accepted : w < nextPacket
        /\ delivered \subseteq accepted /\ nextPacket \in Nat
    BY FramesOfSession DEF StreamInv
  <2>. QED
    BY <2>1
<1>6. ~done /\ ~JustOut /\ ~JustOut' /\ ~EmptyHanded' /\ ~Over' /\ ~EosOut'
  BY <1>1, <1>3, <1>4, <1>5 DEF LoopOK, JustOut, EmptyHanded, Over, EosOut
<1>7. LoopOK' /\ OwnEos' /\ BareIsOwn' /\ CurrentAccepted'
  BY <1>1, <1>2, <1>3, <1>4, <1>6 DEF LoopOK, OwnEos, BareIsOwn, CurrentAccepted
<1>8. EosLeft' /\ FramesHaveWorks' /\ (changes' = 0 => ~stray')
  BY <1>1, <1>2, <1>3, <1>4, <1>5, <1>6 DEF EosLeft, FramesHaveWorks, HasWork, Calm
<1>9. PendingAccepted' /\ Published' /\ NothingAfterEos'
  BY <1>1, <1>2, <1>3, <1>4, <1>5, <1>6
  DEF PendingAccepted, Published, NothingAfterEos, Sound, Calm
<1>10. Late'
  BY <1>1, <1>2, <1>3, <1>4, <1>5, <1>6 DEF Late, Sound, Calm
<1>. QED
  BY <1>7, <1>8, <1>9, <1>10 DEF Loop, Outputs, Ends

\* A drain without an end of stream, or that gives up, returns.
LEMMA DrainEndsKeepsStream ==
    ASSUME StreamInv, DrainEnds
    PROVE  Loop' /\ Outputs' /\ Ends'
<1>1. /\ UNCHANGED sessionVars /\ cpc = "end" /\ after \in {"drain", "drainEos"}
      /\ (after = "drainEos" => ~sawEos) /\ Rest
      /\ UNCHANGED <<status, sigEos, errored, stray, sessionPending>>
  BY DEF DrainEnds, setting
<1>2. /\ UNCHANGED <<Dec!InDriver, Dec!Coming, Dec!EndComes, Dec!BareEnd>>
      /\ UNCHANGED <<opened, pending, draining, received, devState, pc, op, ret, out>>
      /\ UNCHANGED <<nextPacket, accepted, delivered, skips, changes>>
  BY <1>1, SessionAlone
<1>3. /\ LoopOK /\ OwnEos /\ BareIsOwn /\ CurrentAccepted /\ EosLeft /\ FramesHaveWorks
      /\ (changes = 0 => ~stray) /\ PendingAccepted /\ Published /\ Late /\ NothingAfterEos
  BY DEF StreamInv, Loop, Outputs, Ends
<1>4. /\ cur = NoWork /\ hold = NoWork /\ ~JustOut
      /\ cur' = NoWork /\ hold' = NoWork /\ done' = FALSE /\ sawEos' = FALSE /\ cpc' = "idle"
      /\ after' = "none"
  BY <1>1, <1>3 DEF StreamInv, WorkInv, PointInWork, LoopOK, JustOut, Rest
<1>5. ~JustOut' /\ ~EmptyHanded' /\ ~Over' /\ ~EosOut'
  BY <1>4 DEF JustOut, EmptyHanded, Over, EosOut
<1>6. LoopOK' /\ BareIsOwn' /\ CurrentAccepted'
  BY <1>1, <1>2, <1>3, <1>4, <1>5 DEF LoopOK, BareIsOwn, CurrentAccepted
<1>7. OwnEos'
  BY <1>1, <1>2, <1>3 DEF OwnEos, Waiting
<1>8. EosLeft' /\ FramesHaveWorks' /\ (changes' = 0 => ~stray')
  BY <1>1, <1>2, <1>3, <1>4, <1>5 DEF EosLeft, FramesHaveWorks, HasWork, Calm
<1>9. PendingAccepted' /\ Published' /\ NothingAfterEos'
  BY <1>1, <1>2, <1>3, <1>4, <1>5
  DEF PendingAccepted, Published, NothingAfterEos, Sound, Calm
<1>10. Late'
  BY <1>1, <1>2, <1>3, <1>4, <1>5 DEF Late, Sound, Calm
<1>. QED
  BY <1>6, <1>7, <1>8, <1>9, <1>10 DEF Loop, Outputs, Ends

\* Publishing what is held finishes its work, unless that is the current one.
LEMMA OutputFinished ==
    ASSUME StreamInv, FinishOutput(hold), UNCHANGED <<cur, errored, changes>>
    PROVE  /\ done' => done \/ (cur # NoWork /\ hold = cur)
           /\ done => done'
           /\ hold # NoWork /\ hold = cur => done'
           /\ \A w \in Works : /\ w # hold => status'[w] = status[w]
                               /\ w = hold => status'[w] # "pending"
                               /\ status'[w] = "pending" => status[w] = "pending"
           /\ changes' = 0 => ~stray'
<1>1. WorksOK /\ WorksInOrder /\ FramesHaveWorks /\ (changes = 0 => ~stray) /\ LoopOK
  BY DEF StreamInv, WorkInv, Loop, Outputs
<1>2. hold \in Works \cup {NoWork}
  BY <1>1, FramesOfSession DEF StreamInv, LoopOK
<1>3. hold = cur /\ hold # NoWork => status[hold] = "new"
  BY <1>1, <1>2 DEF WorksOK, WorksInOrder, Front, Works
<1>4. \A w \in Works : /\ w # hold => status'[w] = status[w]
                       /\ w = hold => status'[w] # "pending"
                       /\ status'[w] = "pending" => status[w] = "pending"
  <2>1. NoWork \notin Works
    BY DEF Works, NoWork
  <2>2. CASE hold # cur /\ hold \in Works /\ status[hold] = "pending"
    <3>1. status' = [status EXCEPT ![hold] = "done"] /\ DOMAIN status = Works
      BY <1>1, <2>2 DEF FinishOutput, WorksOK
    <3>. QED
      BY <2>2, <3>1
  <2>3. CASE ~(hold # cur /\ hold \in Works /\ status[hold] = "pending")
    BY <1>3, <2>1, <2>3 DEF FinishOutput
  <2>. QED
    BY <2>2, <2>3
<1>5. ASSUME changes' = 0 PROVE ~stray'
  <2>1. changes = 0 /\ ~stray
    BY <1>1, <1>5
  <2>2. hold \in Works /\ ~errored => hold = cur \/ status[hold] = "pending"
    BY <1>1, <2>1 DEF FramesHaveWorks, HasWork, Calm, Works, NoWork
  <2>. QED
    BY <2>1, <2>2 DEF FinishOutput
<1>. QED
  BY <1>4, <1>5 DEF FinishOutput, IsCurrent

\* A picture is taken from the session; the one before it is published.
LEMMA TakeFrameKeepsStream ==
    ASSUME StreamInv, TakeFrame
    PROVE  Loop' /\ Outputs' /\ Ends'
<1>1. /\ UNCHANGED sessionVars /\ JustOut /\ FinishOutput(hold) /\ hold' = out.frame
      /\ sawEos' = (sawEos \/ out.eos) /\ cpc' = (IF sawEos' THEN "publish" ELSE "drain")
      /\ UNCHANGED <<cur, after, sigEos, errored, sessionPending>>
  BY DEF TakeFrame, Publishes, setting, JustOut, InSession
<1>2. /\ UNCHANGED <<Dec!InDriver, Dec!Coming, Dec!EndComes, Dec!BareEnd>>
      /\ UNCHANGED <<opened, pending, draining, received, devState, pc, op, ret, out>>
      /\ UNCHANGED <<nextPacket, accepted, delivered, skips, changes>>
  BY <1>1, SessionAlone
<1>3. /\ LoopOK /\ OwnEos /\ BareIsOwn /\ CurrentAccepted /\ EosLeft /\ FramesHaveWorks
      /\ PendingAccepted /\ Published /\ Late /\ NothingAfterEos
  BY DEF StreamInv, Loop, Outputs, Ends
<1>4. cpc = "dequeued" /\ ~sawEos
  BY <1>1, <1>3 DEF JustOut, LoopOK
<1>5. /\ done' => done \/ (cur # NoWork /\ hold = cur)
      /\ done => done'
      /\ hold # NoWork /\ hold = cur => done'
      /\ \A w \in Works : /\ w # hold => status'[w] = status[w]
                          /\ w = hold => status'[w] # "pending"
                          /\ status'[w] = "pending" => status[w] = "pending"
      /\ changes' = 0 => ~stray'
  BY <1>1, <1>2, OutputFinished
<1>6. ~JustOut' /\ ~EmptyHanded' /\ (EosOut' => EosOut) /\ (Over' => EosOut)
  BY <1>1, <1>4 DEF JustOut, EmptyHanded, EosOut, Over
<1>7. /\ delivered \subseteq Works /\ Dec!Coming \subseteq Works /\ Dec!InDriver \subseteq Works
      /\ NoWork \notin Works
      /\ Dec!InDriver \cap delivered = {} /\ Dec!Coming \cap delivered = {}
  BY FramesOfSession DEF StreamInv
<1>8. LoopOK'
  BY <1>1, <1>2, <1>3, <1>4, <1>5, <1>6, <1>7 DEF LoopOK, Waiting
<1>9. OwnEos' /\ BareIsOwn' /\ CurrentAccepted'
  BY <1>1, <1>2, <1>3, <1>4 DEF OwnEos, BareIsOwn, CurrentAccepted, Waiting
<1>10. EosLeft'
  BY <1>1, <1>2, <1>3, <1>6 DEF EosLeft, Calm
<1>11. FramesHaveWorks'
  <2>. SUFFICES ASSUME Calm' PROVE FramesHaveWorks'
    BY DEF FramesHaveWorks
  <2>1. Calm
    BY <1>1, <1>2 DEF Calm
  <2>2. \A w \in Works : w # hold /\ HasWork(w) => HasWork(w)'
    BY <1>1, <1>5 DEF HasWork
  <2>3. hold' # NoWork => HasWork(hold)'
    <3>. SUFFICES ASSUME hold' # NoWork PROVE HasWork(hold)'
      OBVIOUS
    <3>1. out.frame \in Works /\ out.frame # hold /\ HasWork(out.frame)
      BY <1>1, <1>3, <1>7, <2>1 DEF LoopOK, FramesHaveWorks
    <3>. QED
      BY <1>1, <1>5, <3>1 DEF HasWork
  <2>4. \A w \in Dec!Coming' : HasWork(w)'
    BY <1>2, <1>3, <1>7, <2>1, <2>2 DEF LoopOK, FramesHaveWorks
  <2>5. ~devState'.last => \A w \in Dec!InDriver' : HasWork(w)'
    BY <1>2, <1>3, <1>7, <2>1, <2>2 DEF LoopOK, FramesHaveWorks
  <2>. QED
    BY <1>6, <2>3, <2>4, <2>5 DEF FramesHaveWorks
<1>12. PendingAccepted' /\ NothingAfterEos'
  BY <1>1, <1>2, <1>3, <1>5 DEF PendingAccepted, NothingAfterEos, Sound, Calm
<1>13. Published'
  <2>. SUFFICES ASSUME Sound', NEW w \in delivered, w # out.frame
                PROVE  (w = cur => done') /\ status'[w] # "pending"
    BY <1>1, <1>2 DEF Published
  <2>1. Sound
    BY <1>1, <1>2 DEF Sound, Calm
  <2>. QED
    BY <1>3, <1>5, <1>7, <2>1 DEF Published
<1>14. Late'
  <2>. SUFFICES ASSUME Sound'
                PROVE  /\ Dec!EndComes' \/ EosOut' => Dec!InDriver' \subseteq {cur'}
                       /\ Dec!EndComes' /\ Over' => Dec!InDriver' = {}
    BY DEF Late
  <2>1. Sound /\ Calm
    BY <1>1, <1>2 DEF Sound, Calm
  <2>. QED
    BY <1>1, <1>2, <1>3, <1>6, <2>1 DEF Late, EosLeft
<1>. QED
  BY <1>5, <1>8, <1>9, <1>10, <1>11, <1>12, <1>13, <1>14 DEF Loop, Outputs, Ends

\* The end of a session that had no input is taken from it.
LEMMA TakeEndKeepsStream ==
    ASSUME StreamInv, TakeEnd
    PROVE  Loop' /\ Outputs' /\ Ends'
<1>1. /\ UNCHANGED sessionVars /\ JustOut /\ out.block = NoBlock
      /\ sawEos' = (sawEos \/ out.eos) /\ cpc' = (IF sawEos' THEN "publish" ELSE "drain")
      /\ UNCHANGED <<cur, after, done, hold, status, sigEos, errored, stray, sessionPending>>
  BY DEF TakeEnd, setting, JustOut, InSession
<1>2. /\ UNCHANGED <<Dec!InDriver, Dec!Coming, Dec!EndComes, Dec!BareEnd>>
      /\ UNCHANGED <<opened, pending, draining, received, devState, pc, op, ret, out>>
      /\ UNCHANGED <<nextPacket, accepted, delivered, skips, changes>>
  BY <1>1, SessionAlone
<1>3. /\ LoopOK /\ OwnEos /\ BareIsOwn /\ CurrentAccepted /\ EosLeft /\ FramesHaveWorks
      /\ (changes = 0 => ~stray) /\ PendingAccepted /\ Published /\ Late /\ NothingAfterEos
  BY DEF StreamInv, Loop, Outputs, Ends
<1>4. cpc = "dequeued" /\ ~sawEos
  BY <1>1, <1>3 DEF JustOut, LoopOK
<1>5. out.frame \notin delivered
  <2>1. out.frame = NoWork
    BY <1>1 DEF StreamInv, Dec!CallerInv, Dec!CallState, Dec!NoFrame, NoWork
  <2>. QED
    BY <2>1, FramesOfSession DEF StreamInv
<1>6. ~JustOut' /\ ~EmptyHanded' /\ (EosOut' => EosOut) /\ (Over' => EosOut)
  BY <1>1, <1>4 DEF JustOut, EmptyHanded, EosOut, Over
<1>7. LoopOK'
  BY <1>1, <1>2, <1>3, <1>4, <1>6 DEF LoopOK, Waiting
<1>8. OwnEos' /\ BareIsOwn' /\ CurrentAccepted'
  BY <1>1, <1>2, <1>3, <1>4 DEF OwnEos, BareIsOwn, CurrentAccepted, Waiting
<1>9. EosLeft' /\ FramesHaveWorks' /\ (changes' = 0 => ~stray')
  BY <1>1, <1>2, <1>3, <1>6 DEF EosLeft, FramesHaveWorks, HasWork, Calm
<1>10. PendingAccepted' /\ Published' /\ NothingAfterEos'
  BY <1>1, <1>2, <1>3, <1>5, <1>6
  DEF PendingAccepted, Published, NothingAfterEos, Sound, Calm
<1>11. Late'
  <2>. SUFFICES ASSUME Sound'
                PROVE  /\ Dec!EndComes' \/ EosOut' => Dec!InDriver' \subseteq {cur'}
                       /\ Dec!EndComes' /\ Over' => Dec!InDriver' = {}
    BY DEF Late
  <2>1. Sound /\ Calm
    BY <1>1, <1>2 DEF Sound, Calm
  <2>. QED
    BY <1>1, <1>2, <1>3, <1>6, <2>1 DEF Late, EosLeft
<1>. QED
  BY <1>7, <1>8, <1>9, <1>10, <1>11 DEF Loop, Outputs, Ends

\* The drain loop publishes the last picture it holds.
LEMMA PublishKeepsStream ==
    ASSUME StreamInv, PublishHeld
    PROVE  Loop' /\ Outputs' /\ Ends'
<1>1. /\ UNCHANGED sessionVars /\ cpc = "publish" /\ FinishOutput(hold) /\ hold' = NoWork
      /\ cpc' = (IF after = "retry" THEN "queue" ELSE "end") /\ sawEos' = (sawEos /\ Waiting)
      /\ UNCHANGED <<cur, after, sigEos, errored, sessionPending>>
  BY DEF PublishHeld, setting
<1>2. /\ UNCHANGED <<Dec!InDriver, Dec!Coming, Dec!EndComes, Dec!BareEnd>>
      /\ UNCHANGED <<opened, pending, draining, received, devState, pc, op, ret, out>>
      /\ UNCHANGED <<nextPacket, accepted, delivered, skips, changes>>
  BY <1>1, SessionAlone
<1>3. /\ LoopOK /\ OwnEos /\ BareIsOwn /\ CurrentAccepted /\ EosLeft /\ FramesHaveWorks
      /\ PendingAccepted /\ Published /\ Late /\ NothingAfterEos
  BY DEF StreamInv, Loop, Outputs, Ends
<1>5. /\ done' => done \/ (cur # NoWork /\ hold = cur)
      /\ done => done'
      /\ hold # NoWork /\ hold = cur => done'
      /\ \A w \in Works : /\ w # hold => status'[w] = status[w]
                          /\ w = hold => status'[w] # "pending"
                          /\ status'[w] = "pending" => status[w] = "pending"
      /\ changes' = 0 => ~stray'
  BY <1>1, <1>2, OutputFinished
<1>4. cpc' \in {"queue", "end"}
  BY <1>1
<1>6. ~JustOut /\ ~JustOut' /\ ~EmptyHanded' /\ (EosOut' => EosOut) /\ Over
  <2>1. ~JustOut /\ ~JustOut' /\ ~EmptyHanded' /\ Over
    BY <1>1, <1>4 DEF JustOut, EmptyHanded, Over
  <2>2. sawEos' => sawEos
    <3>1. sawEos' = (sawEos /\ Waiting)
      BY DEF PublishHeld
    <3>. QED
      BY ONLY <3>1, Zenon
  <2>. QED
    BY <2>1, <2>2 DEF EosOut
<1>7. /\ delivered \subseteq Works /\ Dec!Coming \subseteq Works /\ Dec!InDriver \subseteq Works
      /\ NoWork \notin Works
      /\ Dec!InDriver \cap delivered = {} /\ Dec!Coming \cap delivered = {}
  BY FramesOfSession DEF StreamInv
<1>8. LoopOK'
  BY <1>1, <1>2, <1>3, <1>5, <1>6, <1>7 DEF LoopOK, Waiting
<1>9. OwnEos' /\ BareIsOwn' /\ CurrentAccepted'
  BY <1>1, <1>2, <1>3 DEF OwnEos, BareIsOwn, CurrentAccepted, Waiting
<1>10. EosLeft'
  BY <1>1, <1>2, <1>3, <1>6 DEF EosLeft, Calm
<1>11. FramesHaveWorks'
  <2>. SUFFICES ASSUME Calm' PROVE FramesHaveWorks'
    BY DEF FramesHaveWorks
  <2>1. Calm
    BY <1>1, <1>2 DEF Calm
  <2>2. \A w \in Works : w # hold /\ HasWork(w) => HasWork(w)'
    BY <1>1, <1>5 DEF HasWork
  <2>4. \A w \in Dec!Coming' : HasWork(w)'
    BY <1>2, <1>3, <1>7, <2>1, <2>2 DEF LoopOK, FramesHaveWorks
  <2>5. ~devState'.last => \A w \in Dec!InDriver' : HasWork(w)'
    BY <1>2, <1>3, <1>7, <2>1, <2>2 DEF LoopOK, FramesHaveWorks
  <2>. QED
    BY <1>1, <1>6, <2>4, <2>5 DEF FramesHaveWorks
<1>12. PendingAccepted' /\ NothingAfterEos'
  BY <1>1, <1>2, <1>3, <1>5 DEF PendingAccepted, NothingAfterEos, Sound, Calm
<1>13. Published'
  <2>. SUFFICES ASSUME Sound', NEW w \in delivered
                PROVE  (w = cur => done') /\ status'[w] # "pending"
    BY <1>1, <1>2 DEF Published
  <2>1. Sound
    BY <1>1, <1>2 DEF Sound, Calm
  <2>. QED
    BY <1>3, <1>5, <1>6, <1>7, <2>1 DEF Published
<1>14. Late'
  BY <1>1, <1>2, <1>3, <1>6 DEF Late, Sound, Calm
<1>. QED
  BY <1>5, <1>8, <1>9, <1>10, <1>11, <1>12, <1>13, <1>14 DEF Loop, Outputs, Ends

-----------------------------------------------------------------------------
(* Calls that begin.                                                       *)

\* A packet is given to the session, or a frame is asked of it.
LEMMA CallBeginsKeepsStream ==
    ASSUME StreamInv, QueuePacket \/ DequeueFrame
    PROVE  Loop' /\ Outputs' /\ Ends'
<1>1. /\ UNCHANGED <<opened, pending, draining, received, devIn, devHeld, devOut, devState>>
      /\ UNCHANGED <<accepted, delivered, nextPacket, skips, changes>>
  <2>1. CASE UNCHANGED sessionVars
    BY <2>1 DEF sessionVars
  <2>2. CASE ~UNCHANGED sessionVars
    <3>1. (Waiting /\ ~sawEos) \in BOOLEAN
      BY DEF Waiting
    <3>2. Dec!EnterQueueDecoderPacket \/ \E wait \in BOOLEAN : Dec!EnterDequeueDecoderFrame(wait)
      BY <2>2, <3>1, SameCalls DEF QueuePacket, DequeueFrame
    <3>. QED
      BY <3>2, Dec!QuietStep, SameConstants DEF Dec!Quiet
  <2>. QED
    BY <2>1, <2>2
<1>2. UNCHANGED <<Dec!InDriver, Dec!Coming, Dec!EndComes, Dec!BareEnd>>
  BY <1>1 DEF Dec!InDriver, Dec!Coming, Dec!EndComes, Dec!BareEnd, Dec!FramesOf
<1>3. /\ UNCHANGED <<after, cur, done, hold, sawEos, status, sigEos, errored, stray>>
      /\ UNCHANGED sessionPending /\ pc = "idle"
      /\ \/ cpc = "queue" /\ cpc' \in {"queued", "failed"} /\ (cpc' = "queued" => pc' # "idle")
         \/ cpc = "drain" /\ cpc' = "dequeued" /\ pc' # "idle"
  BY DEF QueuePacket, DequeueFrame, InSession, setting, Session!EnterQueueDecoderPacket,
     Session!EnterDequeueDecoderFrame
<1>4. /\ LoopOK /\ OwnEos /\ BareIsOwn /\ CurrentAccepted /\ EosLeft /\ FramesHaveWorks
      /\ (changes = 0 => ~stray) /\ PendingAccepted /\ Published /\ Late /\ NothingAfterEos
  BY DEF StreamInv, Loop, Outputs, Ends
<1>5. ~JustOut /\ ~JustOut' /\ ~EmptyHanded' /\ ~Over' /\ ~sawEos /\ (EosOut' <=> EosOut)
  BY <1>3, <1>4 DEF JustOut, EmptyHanded, Over, EosOut, LoopOK
<1>6. LoopOK' /\ BareIsOwn'
  BY <1>1, <1>2, <1>3, <1>4, <1>5 DEF LoopOK, BareIsOwn
<1>7. OwnEos'
  BY <1>1, <1>2, <1>3, <1>4, <1>5 DEF OwnEos, Waiting
<1>8. CurrentAccepted'
  BY <1>1, <1>3, <1>4 DEF CurrentAccepted
<1>9. EosLeft' /\ FramesHaveWorks' /\ (changes' = 0 => ~stray')
  BY <1>1, <1>2, <1>3, <1>4, <1>5 DEF EosLeft, FramesHaveWorks, HasWork, Calm
<1>10. PendingAccepted' /\ Published' /\ NothingAfterEos'
  BY <1>1, <1>2, <1>3, <1>4, <1>5
  DEF PendingAccepted, Published, NothingAfterEos, Sound, Calm
<1>11. Late'
  BY <1>1, <1>2, <1>3, <1>4, <1>5 DEF Late, Sound, Calm
<1>. QED
  BY <1>6, <1>7, <1>8, <1>9, <1>10, <1>11 DEF Loop, Outputs, Ends

\* The end of stream is asked of the session: a session without input has it at once.
LEMMA StartDrainKeepsStream ==
    ASSUME StreamInv, StartDrain
    PROVE  Loop' /\ Outputs' /\ Ends'
<1>1. /\ UNCHANGED <<cur, done, hold, sawEos, status, sigEos, errored, stray, sessionPending>>
      /\ cpc = "eosStart" /\ pc = "idle"
      /\ \/ Dec!StartDecoderDrain /\ cpc' = "drain" /\ after' \in {"eos", "drainEos"}
         \/ Dec!StartDecoderDrainFails /\ cpc' = "failed" /\ after' = after
  BY SameCalls DEF StartDrain, InSession, setting
<1>2. /\ LoopOK /\ OwnEos /\ BareIsOwn /\ CurrentAccepted /\ EosLeft /\ FramesHaveWorks
      /\ (changes = 0 => ~stray) /\ PendingAccepted /\ Published /\ Late /\ NothingAfterEos
  BY DEF StreamInv, Loop, Outputs, Ends
<1>3. /\ UNCHANGED <<opened, received, accepted, delivered, nextPacket, skips, changes>>
      /\ Dec!InDriver' = Dec!InDriver /\ Dec!Coming' = Dec!Coming
      /\ devState'.last = devState.last
      /\ Dec!StartDecoderDrain => /\ (draining => UNCHANGED pending)
                                  /\ (~draining /\ ~received => Dec!BareEnd')
      /\ Dec!StartDecoderDrainFails => draining' = draining
      /\ (Dec!BareEnd' => Dec!BareEnd \/ ~received)
      /\ (Dec!EndComes' => Dec!EndComes \/ ~received)
  <2>1. CASE Dec!StartDecoderDrainFails
    <3>1. /\ UNCHANGED <<opened, received, accepted, delivered, nextPacket, skips, changes>>
          /\ UNCHANGED <<devIn, devHeld, devOut, pending, draining, devState>> /\ ~draining
          /\ received
      BY <2>1, Dec!QuietStep, SameConstants DEF Dec!Quiet, Dec!StartDecoderDrainFails
    <3>. QED
      BY <3>1 DEF Dec!InDriver, Dec!Coming, Dec!EndComes, Dec!BareEnd, Dec!FramesOf
  <2>2. CASE Dec!StartDecoderDrain /\ ~Dec!StartDecoderDrainFails
    <3>1. Dec!CallerInv
      BY DEF StreamInv
    <3>. QED
      BY <2>2, <3>1, Dec!DrainEffect, SameConstants
  <2>. QED
    BY <1>1, <2>1, <2>2
<1>4. ~JustOut /\ ~JustOut' /\ ~EmptyHanded' /\ ~Over' /\ ~sawEos /\ hold = NoWork
      /\ (EosOut' <=> EosOut)
  BY <1>1, <1>2 DEF JustOut, EmptyHanded, Over, EosOut, LoopOK
<1>5. LoopOK' /\ BareIsOwn'
  BY <1>1, <1>2, <1>3, <1>4 DEF LoopOK, BareIsOwn
<1>6. OwnEos'
  <2>. SUFFICES ASSUME draining', ~received, opened, ~errored, sigEos = "no"
                PROVE  cpc' = "drain" /\ after' \in {"eos", "drainEos"} /\ Dec!BareEnd'
    BY <1>1, <1>3 DEF OwnEos, Waiting
  <2>1. ~draining
    BY <1>1, <1>2 DEF OwnEos
  <2>. QED
    BY <1>1, <1>3, <2>1
<1>7. CurrentAccepted'
  BY <1>1, <1>2, <1>3 DEF CurrentAccepted
<1>8. EosLeft' /\ FramesHaveWorks' /\ (changes' = 0 => ~stray')
  BY <1>1, <1>2, <1>3, <1>4 DEF EosLeft, FramesHaveWorks, HasWork, Calm, EosOut
<1>9. PendingAccepted' /\ Published' /\ NothingAfterEos'
  BY <1>1, <1>2, <1>3, <1>4
  DEF PendingAccepted, Published, NothingAfterEos, Sound, Calm
<1>10. Late'
  <2>1. ~received => Dec!InDriver = {}
    BY FramesOfSession DEF StreamInv
  <2>. QED
    BY <1>1, <1>2, <1>3, <1>4, <2>1 DEF Late, Sound, Calm
<1>. QED
  BY <1>5, <1>6, <1>7, <1>8, <1>9, <1>10 DEF Loop, Outputs, Ends

-----------------------------------------------------------------------------
(* A work is answered.                                                     *)

\* The handler that ends leaves the session alone but for the number it passes over.
LEMMA SessionSpent ==
    ASSUME NEW n, NEW f, Spends(n, f)
    PROVE  /\ UNCHANGED <<Dec!InDriver, Dec!Coming, Dec!EndComes, Dec!BareEnd>>
           /\ UNCHANGED <<opened, pending, draining, received, devState, pc, op, ret, out>>
           /\ UNCHANGED <<accepted, delivered, skips, changes>>
BY DEF Spends, Dec!InDriver, Dec!Coming, Dec!EndComes, Dec!BareEnd, Dec!FramesOf

\* After a failure the work thread rests, and little is promised until a reset.
LEMMA FailsKeepsStream ==
    ASSUME StreamInv, NEW f, Fails(f)
    PROVE  Loop' /\ Outputs' /\ Ends'
<1>1. /\ \E n : Spends(n, f)
      /\ cpc' = "idle" /\ after' = "none" /\ hold' = NoWork /\ ~done' /\ ~sawEos' /\ errored'
      /\ UNCHANGED <<stray, sessionPending>>
  BY DEF Fails, EndWork, Rest, setting
<1>2. UNCHANGED <<opened, received, accepted, changes>>
  BY <1>1, SessionSpent
<1>3. CurrentAccepted /\ (changes = 0 => ~stray)
  BY DEF StreamInv, Loop, Outputs
<1>4. ~JustOut' /\ ~EmptyHanded'
  BY <1>1 DEF JustOut, EmptyHanded
<1>5. Loop'
  BY <1>1, <1>2, <1>3, <1>4 DEF Loop, LoopOK, OwnEos, BareIsOwn, CurrentAccepted
<1>6. Outputs' /\ Ends'
  BY <1>1, <1>2, <1>3
  DEF Outputs, EosLeft, FramesHaveWorks, Ends, PendingAccepted, Published, Late, NothingAfterEos,
      Sound, Calm
<1>. QED
  BY <1>5, <1>6

\* A work whose picture is still to come stays pending; a work is finished that has no
\* packet, whose picture was published, or that ends the stream.
LEMMA AnswerKeepsStream ==
    ASSUME StreamInv, cur # NoWork, NEW r \in {"done", "pending"}, EndWork(r, 0),
           UNCHANGED <<errored, stray, sessionPending>>,
           cpc = "end" \/ (cpc \in {"config", "finish"} /\ nextPacket = cur),
           r = "pending" => after = "finish" /\ ~done,
           r = "done" => nextPacket = cur \/ done \/ sigEos' = "drain",
           sigEos' = "no" => cpc # "end" \/ ~Waiting,
           sigEos' = "drain" => cpc = "end" /\ sawEos
    PROVE  Loop' /\ Outputs' /\ Ends'
<1>1. /\ status' = [status EXCEPT ![cur] = r] /\ \E n : Spends(n, 0)
      /\ cur' = NoWork /\ cpc' = "idle" /\ after' = "none" /\ hold' = NoWork /\ ~done' /\ ~sawEos'
  BY DEF EndWork, Rest
<1>2. /\ UNCHANGED <<Dec!InDriver, Dec!Coming, Dec!EndComes, Dec!BareEnd>>
      /\ UNCHANGED <<opened, pending, draining, received, devState, pc, op, ret, out>>
      /\ UNCHANGED <<accepted, delivered, skips, changes>>
  BY <1>1, SessionSpent
<1>3. /\ LoopOK /\ OwnEos /\ BareIsOwn /\ CurrentAccepted /\ EosLeft /\ FramesHaveWorks
      /\ (changes = 0 => ~stray) /\ PendingAccepted /\ Published /\ Late
  BY DEF StreamInv, Loop, Outputs, Ends
<1>4. /\ Dec!InDriver \subseteq Works /\ Dec!Coming \subseteq Works /\ delivered \subseteq Works
      /\ NoWork \notin Works /\ Dec!Coming \cap delivered = {} /\ Dec!InDriver \cap delivered = {}
      /\ accepted = Dec!InDriver \cup Dec!Coming \cup delivered \cup discarded
      /\ \A w \in accepted : w < nextPacket
      /\ skips = 0 /\ changes = 0 => discarded = {}
      /\ nextPacket \in Nat
  BY FramesOfSession DEF StreamInv
<1>5. /\ ~JustOut /\ hold = NoWork
      /\ ~JustOut' /\ ~EmptyHanded' /\ ~Over' /\ ~EosOut'
  BY <1>1, <1>3 DEF JustOut, EmptyHanded, Over, EosOut, LoopOK
<1>6. nextPacket = cur => cur \notin accepted
  BY <1>4
<1>7. /\ cur \in Works /\ DOMAIN status = Works
      /\ \A w \in Works : status'[w] = IF w = cur THEN r ELSE status[w]
  <2>1. cur \in Works /\ DOMAIN status = Works
    BY DEF StreamInv, WorkInv, WorksOK
  <2>. QED
    BY <1>1, <2>1
<1>8. LoopOK' /\ BareIsOwn' /\ CurrentAccepted'
  BY <1>1, <1>2, <1>3, <1>5 DEF LoopOK, BareIsOwn, CurrentAccepted
<1>9. OwnEos'
  <2>1. sigEos = "no"
    BY DEF StreamInv, WorkInv, WorkIsOpen
  <2>. QED
    BY <1>2, <1>3, <2>1 DEF OwnEos
<1>10. FramesHaveWorks'
  <2>. SUFFICES ASSUME Calm'
                PROVE  /\ \A w \in Dec!Coming : status'[w] = "pending"
                       /\ ~devState.last => \A w \in Dec!InDriver : status'[w] = "pending"
    BY <1>1, <1>2, <1>5 DEF FramesHaveWorks, HasWork
  <2>1. Calm
    BY <1>2 DEF Calm
  <2>2. CASE r = "pending"
    BY <1>3, <1>4, <1>7, <2>1, <2>2 DEF FramesHaveWorks, HasWork
  <2>3. CASE sigEos' = "drain"
    BY <1>3, <2>1, <2>3 DEF EosLeft, EosOut
  <2>4. CASE nextPacket = cur \/ done
    <3>1. cur \notin Dec!Coming /\ cur \notin Dec!InDriver
      BY <1>3, <1>4, <1>6, <2>4 DEF LoopOK
    <3>. QED
      BY <1>3, <1>4, <1>7, <2>1, <3>1 DEF FramesHaveWorks, HasWork
  <2>. QED
    BY <2>2, <2>3, <2>4
<1>11. EosLeft' /\ (changes' = 0 => ~stray')
  BY <1>2, <1>3, <1>5 DEF EosLeft
<1>12. PendingAccepted'
  BY <1>2, <1>3, <1>7 DEF PendingAccepted, CurrentAccepted, Sound, Calm
<1>13. Published'
  <2>. SUFFICES ASSUME Sound', NEW w \in delivered PROVE status'[w] # "pending"
    BY <1>1, <1>2, <1>4 DEF Published
  <2>1. Sound
    BY <1>2 DEF Sound, Calm
  <2>2. (w = cur => done) /\ status[w] # "pending"
    BY <1>3, <1>4, <1>5, <2>1 DEF Published
  <2>. QED
    BY <1>4, <1>7, <2>2
<1>14. Late'
  <2>. SUFFICES ASSUME Sound', Dec!EndComes PROVE Dec!InDriver = {}
    BY <1>1, <1>2, <1>5 DEF Late
  <2>1. Sound
    BY <1>2 DEF Sound, Calm
  <2>. QED
    BY <1>3, <1>4, <1>6, <2>1 DEF Late, Over
<1>15. NothingAfterEos'
  <2>. SUFFICES ASSUME Sound', sigEos' = "drain", NEW w \in Works, status'[w] = "pending"
                PROVE  FALSE
    BY DEF NothingAfterEos
  <2>1. Sound /\ Calm /\ skips = 0 /\ changes = 0 /\ EosOut
    BY <1>2 DEF Sound, Calm, EosOut
  <2>2. r = "done"
    <3>1. sigEos' = "drain" => Waiting \/ after # "finish"
      BY <1>3 DEF LoopOK
    <3>. QED
      BY <3>1 DEF Waiting
  <2>3. w # cur /\ status[w] = "pending" /\ w \in accepted
    BY <1>3, <1>7, <2>1, <2>2 DEF PendingAccepted
  <2>4. Dec!Coming = {} /\ Dec!InDriver \subseteq {cur} /\ discarded = {}
    BY <1>3, <1>4, <2>1 DEF EosLeft, Late
  <2>5. w \in delivered
    BY <1>4, <2>3, <2>4
  <2>. QED
    BY <1>4, <1>3, <1>5, <2>1, <2>3, <2>5 DEF Published
<1>. QED
  BY <1>8, <1>9, <1>10, <1>11, <1>12, <1>13, <1>14, <1>15 DEF Loop, Outputs, Ends

\* The ends of process().
LEMMA WorkEndsKeepsStream ==
    ASSUME StreamInv, FinishFrame \/ FinishEos \/ (StoreDecoderConfig /\ kind # "configFrame")
    PROVE  Loop' /\ Outputs' /\ Ends'
<1>1. /\ cur # NoWork => sigEos = "no"
      /\ cpc = "config" => nextPacket = cur
      /\ cpc \in {"config", "finish"} \/ after \in {"finish", "eos"} => cur # NoWork
      /\ cpc = "finish" => nextPacket = cur
  BY DEF StreamInv, WorkInv, WorkIsOpen, PacketOfWork, PointInWork, Loop, LoopOK
<1>2. CASE FinishFrame
  <2>1. /\ cur # NoWork /\ WorkResult \in {"done", "pending"} /\ EndWork(WorkResult, 0)
        /\ UNCHANGED <<errored, stray, sessionPending>> /\ sigEos' = "no"
        /\ (cpc = "end" /\ after = "finish") \/ cpc = "finish"
        /\ WorkResult = "pending" => after = "finish" /\ ~done
        /\ WorkResult = "done" => done \/ nextPacket = cur
    BY <1>1, <1>2 DEF FinishFrame, WorkResult, setting
  <2>2. cpc = "end" => ~Waiting
    BY <2>1 DEF Waiting
  <2>. QED
    BY <1>1, <2>1, <2>2, AnswerKeepsStream
<1>3. CASE FinishEos
  <2>1. /\ cur # NoWork /\ EndWork("done", 0) /\ UNCHANGED <<errored, stray, sessionPending>>
        /\ sigEos' = "drain" /\ cpc = "end" /\ sawEos
    BY <1>1, <1>3 DEF FinishEos, EndSeen, setting
  <2>. QED
    BY <2>1, AnswerKeepsStream
<1>4. CASE StoreDecoderConfig /\ kind # "configFrame"
  <2>1. /\ cur # NoWork /\ EndWork("done", 0) /\ UNCHANGED <<errored, stray, sessionPending>>
        /\ sigEos' # "drain" /\ cpc = "config" /\ nextPacket = cur
    BY <1>1, <1>4 DEF StoreDecoderConfig, setting
  <2>. QED
    BY <2>1, AnswerKeepsStream
<1>. QED
  BY <1>2, <1>3, <1>4

\* A configuration that comes with an access unit is kept for its packet.
LEMMA ConfigKeepsStream ==
    ASSUME StreamInv, StoreDecoderConfig, kind = "configFrame"
    PROVE  Loop' /\ Outputs' /\ Ends'
<1>1. /\ UNCHANGED sessionVars /\ cpc = "config" /\ cpc' = "queue"
      /\ UNCHANGED <<after, cur, done, hold, sawEos, status, sigEos, errored, stray>>
      /\ UNCHANGED sessionPending
  BY DEF StoreDecoderConfig, setting
<1>2. /\ UNCHANGED <<Dec!InDriver, Dec!Coming, Dec!EndComes, Dec!BareEnd>>
      /\ UNCHANGED <<opened, pending, draining, received, devState, pc, op, ret, out>>
      /\ UNCHANGED <<nextPacket, accepted, delivered, skips, changes>>
  BY <1>1, SessionAlone
<1>3. /\ LoopOK /\ OwnEos /\ BareIsOwn /\ CurrentAccepted /\ EosLeft /\ FramesHaveWorks
      /\ (changes = 0 => ~stray) /\ PendingAccepted /\ Published /\ Late /\ NothingAfterEos
  BY DEF StreamInv, Loop, Outputs, Ends
<1>4. ~JustOut /\ ~JustOut' /\ ~EmptyHanded' /\ ~Over' /\ (EosOut' <=> EosOut)
  BY <1>1 DEF JustOut, EmptyHanded, Over, EosOut
<1>5. Loop'
  BY <1>1, <1>2, <1>3, <1>4 DEF Loop, LoopOK, OwnEos, BareIsOwn, CurrentAccepted
<1>6. EosLeft' /\ FramesHaveWorks' /\ (changes' = 0 => ~stray')
  BY <1>1, <1>2, <1>3, <1>4 DEF EosLeft, FramesHaveWorks, HasWork, Calm
<1>7. PendingAccepted' /\ Published' /\ NothingAfterEos' /\ Late'
  BY <1>1, <1>2, <1>3, <1>4
  DEF PendingAccepted, Published, NothingAfterEos, Late, Sound, Calm
<1>. QED
  BY <1>5, <1>6, <1>7 DEF Outputs, Ends

\* A work is refused.
LEMMA RefusedKeepsStream ==
    ASSUME StreamInv, ProcessRefused
    PROVE  Loop' /\ Outputs' /\ Ends'
<1>1. /\ cpc = "idle" /\ nextPacket \in Works /\ status' = [status EXCEPT ![nextPacket] = "error"]
      /\ \E n : Spends(n, 0)
      /\ UNCHANGED <<cpc, after, cur, done, hold, sawEos, sigEos, errored, stray>>
      /\ UNCHANGED sessionPending
  BY DEF ProcessRefused, Idle, setting, StreamInv, WorkInv, WorksOK, Works
<1>2. /\ UNCHANGED <<Dec!InDriver, Dec!Coming, Dec!EndComes, Dec!BareEnd>>
      /\ UNCHANGED <<opened, pending, draining, received, devState, pc, op, ret, out>>
      /\ UNCHANGED <<accepted, delivered, skips, changes>>
  BY <1>1, SessionSpent
<1>3. /\ LoopOK /\ OwnEos /\ BareIsOwn /\ CurrentAccepted /\ EosLeft /\ FramesHaveWorks
      /\ (changes = 0 => ~stray) /\ PendingAccepted /\ Published /\ Late /\ NothingAfterEos
  BY DEF StreamInv, Loop, Outputs, Ends
<1>4. /\ ~JustOut /\ ~JustOut' /\ ~EmptyHanded' /\ ~Over' /\ (EosOut' <=> EosOut)
      /\ hold = NoWork
  BY <1>1, <1>3 DEF JustOut, EmptyHanded, Over, EosOut, LoopOK
<1>5. \A w \in Works : /\ w # nextPacket => status'[w] = status[w]
                       /\ status'[w] = "pending" => status[w] = "pending"
  <2>1. DOMAIN status = Works
    BY DEF StreamInv, WorkInv, WorksOK
  <2>. QED
    BY <1>1, <2>1
<1>6. /\ delivered \subseteq Works
      /\ \A w \in Dec!Coming \cup Dec!InDriver : w \in Works /\ w # nextPacket
  <2>1. /\ Dec!InDriver \subseteq Works /\ Dec!Coming \subseteq Works /\ delivered \subseteq Works
        /\ Dec!InDriver \cup Dec!Coming \subseteq accepted
        /\ \A w \in accepted : w < nextPacket
        /\ nextPacket \in Nat
    BY FramesOfSession DEF StreamInv
  <2>. QED
    BY <2>1
<1>7. Loop'
  BY <1>1, <1>2, <1>3, <1>4 DEF Loop, LoopOK, OwnEos, BareIsOwn, CurrentAccepted
<1>8. EosLeft' /\ FramesHaveWorks' /\ (changes' = 0 => ~stray')
  BY <1>1, <1>2, <1>3, <1>4, <1>5, <1>6 DEF EosLeft, FramesHaveWorks, HasWork, Calm
<1>9. PendingAccepted' /\ Published' /\ NothingAfterEos' /\ Late'
  BY <1>1, <1>2, <1>3, <1>4, <1>5, <1>6
  DEF PendingAccepted, Published, NothingAfterEos, Late, Sound, Calm
<1>. QED
  BY <1>7, <1>8, <1>9 DEF Outputs, Ends

-----------------------------------------------------------------------------
(* Resets of the session.                                                  *)

\* Nothing is on its way in a session that was just reset; one that is closed already
\* had no input.
LEMMA ResetFrames ==
    ASSUME StreamInv, Session!Open \/ Session!Close \/ (~opened /\ UNCHANGED sessionVars)
    PROVE  /\ Dec!InDriver' = {} /\ Dec!Coming' = {} /\ accepted' = {} /\ delivered' = {}
           /\ \/ ~Dec!EndComes' /\ ~Dec!BareEnd' /\ ~draining'
              \/ ~opened' /\ (Dec!EndComes' <=> Dec!EndComes)
           /\ (Dec!BareEnd' => ~received') /\ (~opened' => ~received')
           /\ UNCHANGED <<pc, ret, out, nextPacket, skips, changes>>
<1>1. CASE Session!Open \/ Session!Close
  <2>1. Dec!Open \/ Dec!Close
    BY <1>1, SameCalls
  <2>2. ~received'
    BY <2>1 DEF Dec!Open, Dec!Close, Dec!CloseSession
  <2>. QED
    BY <2>1, <2>2, Dec!ClosedFrames, SameConstants
<1>2. CASE ~opened /\ UNCHANGED sessionVars
  <2>1. /\ UNCHANGED <<Dec!InDriver, Dec!Coming, Dec!EndComes, Dec!BareEnd>>
        /\ UNCHANGED <<opened, received, pc, ret, out, nextPacket, accepted, delivered, skips,
                       changes>>
    BY <1>2, SessionAlone
  <2>2. accepted = {} /\ ~received
    BY <1>2 DEF StreamInv, SetupInv, OpenedForWork, Loop, CurrentAccepted
  <2>3. Dec!InDriver = {} /\ Dec!Coming = {} /\ delivered = {}
    BY <2>2, FramesOfSession DEF StreamInv
  <2>. QED
    BY <1>2, <2>1, <2>2, <2>3
<1>. QED
  BY <1>1, <1>2

\* No work waits for a picture once the end of stream was seen and no work is current.
LEMMA EndLeavesNothing ==
    ASSUME StreamInv, Sound, cpc = "end", sawEos, cur = NoWork
    PROVE  \A w \in Works : status[w] # "pending"
<1>. SUFFICES ASSUME NEW w \in Works, status[w] = "pending" PROVE FALSE
  OBVIOUS
<1>1. /\ LoopOK /\ EosLeft /\ PendingAccepted /\ Published /\ Late
      /\ Calm /\ skips = 0 /\ changes = 0 /\ EosOut
  BY DEF StreamInv, Loop, Outputs, Ends, Sound, Calm, EosOut
<1>2. /\ Dec!InDriver \subseteq Works /\ NoWork \notin Works
      /\ accepted = Dec!InDriver \cup Dec!Coming \cup delivered \cup discarded
      /\ discarded = {}
  BY <1>1, FramesOfSession DEF StreamInv
<1>3. w \in delivered
  BY <1>1, <1>2 DEF EosLeft, Late, PendingAccepted, Sound
<1>. QED
  BY <1>1, <1>2, <1>3 DEF Published, LoopOK, JustOut

\* After a reset no work waits, but in a component that has failed.
LEMMA ResetKeepsStream ==
    ASSUME StreamInv, Session!Open \/ Session!Close \/ (~opened /\ UNCHANGED sessionVars),
           hold' = NoWork, ~done', ~sawEos', after' = "none", UNCHANGED stray,
           cpc' \in {"idle", "config", "queue", "eosStart", "finish", "failed"},
           cpc' = "finish" => nextPacket = cur',
           Sound' => \A w \in Works : status'[w] # "pending"
    PROVE  Loop' /\ Outputs' /\ Ends'
<1>1. /\ Dec!InDriver' = {} /\ Dec!Coming' = {} /\ accepted' = {} /\ delivered' = {}
      /\ \/ ~Dec!EndComes' /\ ~Dec!BareEnd' /\ ~draining'
         \/ ~opened' /\ (Dec!EndComes' <=> Dec!EndComes)
      /\ (Dec!BareEnd' => ~received') /\ (~opened' => ~received')
      /\ UNCHANGED <<pc, ret, out, nextPacket, skips, changes>>
  BY ResetFrames
<1>2. ~JustOut' /\ ~EmptyHanded' /\ ~EosOut'
  BY DEF JustOut, EmptyHanded, EosOut
<1>3. Loop'
  BY <1>1, <1>2 DEF Loop, LoopOK, OwnEos, BareIsOwn, CurrentAccepted
<1>4. changes' = 0 => ~stray'
  BY <1>1 DEF StreamInv, Outputs
<1>5. Outputs' /\ Ends'
  BY <1>1, <1>2, <1>4
  DEF Outputs, EosLeft, FramesHaveWorks, Ends, PendingAccepted, Published, Late, NothingAfterEos
<1>. QED
  BY <1>3, <1>5

\* The first work opens the session.
LEMMA FirstOpenKeepsStream ==
    ASSUME StreamInv, EnsureDecoderSession, sessionPending, Session!Open
    PROVE  Loop' /\ Outputs' /\ Ends'
<1>1. /\ cpc = "ensure" /\ UNCHANGED <<after, cur, done, hold, sawEos, status, stray, errored>>
      /\ cpc' \in {"config", "queue", "eosStart", "finish", "failed"}
  BY DEF EnsureDecoderSession, NextAfterEnsure
<1>2. /\ after = "none" /\ ~done /\ hold = NoWork /\ ~sawEos /\ nextPacket = cur
      /\ accepted = {} /\ PendingAccepted
  BY <1>1 DEF StreamInv, Loop, LoopOK, CurrentAccepted, Ends, WorkInv, PacketOfWork
<1>3. UNCHANGED <<skips, changes>>
  BY ResetFrames
<1>4. Sound' => \A w \in Works : status'[w] # "pending"
  BY <1>1, <1>2, <1>3 DEF PendingAccepted, Sound, Calm
<1>. QED
  BY <1>1, <1>2, <1>4, ResetKeepsStream

\* drain() flushes the session when it has seen the end of the stream.
LEMMA DrainFlushKeepsStream ==
    ASSUME StreamInv, DrainFlushes
    PROVE  Loop' /\ Outputs' /\ Ends'
<1>1. /\ cpc = "end" /\ after = "drainEos" /\ sawEos /\ Session!Open
      /\ cpc' = "idle" /\ after' = "none" /\ hold' = NoWork /\ ~done' /\ ~sawEos'
      /\ UNCHANGED <<status, stray>>
  BY DEF DrainFlushes, Rest
<1>2. cur = NoWork
  BY <1>1 DEF StreamInv, WorkInv, PointInWork
<1>3. UNCHANGED <<skips, changes>>
  BY <1>1, ResetFrames
<1>4. errored => errored'
  <2>1. errored' = (errored \/ ~opened')
    BY DEF DrainFlushes
  <2>. QED
    BY ONLY <2>1, Zenon
<1>5. Sound' => \A w \in Works : status'[w] # "pending"
  BY <1>1, <1>2, <1>3, <1>4, EndLeavesNothing DEF Sound, Calm
<1>. QED
  BY <1>1, <1>5, ResetKeepsStream

\* onFlush_sm() and onStop() give the works that wait back to the client.
LEMMA FlushKeepsStream ==
    ASSUME StreamInv, Flush \/ \E init \in BOOLEAN : Stop(init)
    PROVE  Loop' /\ Outputs' /\ Ends'
<1>1. /\ cpc = "idle" /\ status' = Flushed
      /\ Session!Open \/ Session!Close \/ (~opened /\ UNCHANGED sessionVars)
      /\ UNCHANGED <<cpc, after, cur, done, hold, sawEos, stray>>
  BY DEF Flush, Stop, Idle
<1>2. /\ after = "none" /\ hold = NoWork /\ ~sawEos /\ cur = NoWork /\ ~done
  <2>1. /\ after = "none" /\ hold = NoWork /\ ~sawEos /\ cur = NoWork /\ LoopOK
    BY <1>1 DEF StreamInv, WorkInv, PointInWork, Loop, LoopOK
  <2>. QED
    BY <2>1, FramesOfSession DEF StreamInv, LoopOK
<1>3. \A w \in Works : status'[w] # "pending"
  BY <1>1 DEF Flushed
<1>. QED
  BY <1>1, <1>2, <1>3, ResetKeepsStream

-----------------------------------------------------------------------------
(* Every step.                                                             *)

\* A component that was just created.
LEMMA StreamInvInit == Init => StreamInv
<1>. SUFFICES ASSUME Init PROVE StreamInv
  OBVIOUS
<1>1. WorkInv /\ SetupInv
  BY WorkInvInit, SetupInvInit
<1>2. Dec!Init
  BY SameInit DEF Init
<1>3. Dec!CallerInv
  BY <1>2, Dec!CallerInvInit, SameConstants
<1>4. /\ cpc = "idle" /\ after = "none" /\ hold = NoWork /\ ~done /\ ~sawEos
      /\ status = [w \in Works |-> "new"] /\ sigEos = "no" /\ ~stray
      /\ ~opened /\ ~received /\ pending = <<>> /\ accepted = {}
  BY <1>2 DEF Init, Dec!Init
<1>5. Dec!InDriver = {} /\ Dec!Coming = {} /\ delivered = {}
  BY <1>3, <1>4, FramesOfSession
<1>6. ~JustOut /\ ~EmptyHanded /\ ~EosOut /\ ~Over /\ ~Dec!BareEnd
  BY <1>4 DEF JustOut, EmptyHanded, EosOut, Over, Dec!BareEnd
<1>7. Loop
  BY <1>4, <1>6 DEF Loop, LoopOK, OwnEos, BareIsOwn, CurrentAccepted
<1>8. Outputs /\ Ends
  BY <1>4, <1>5, <1>6
  DEF Outputs, EosLeft, FramesHaveWorks, Ends, PendingAccepted, Published, Late, NothingAfterEos
<1>. QED
  BY <1>1, <1>3, <1>7, <1>8 DEF StreamInv

\* Nothing changes.
LEMMA StutterKeepsStream ==
    ASSUME StreamInv, UNCHANGED vars
    PROVE  Loop' /\ Outputs' /\ Ends'
<1>1. UNCHANGED sessionVars /\ UNCHANGED component
  BY DEF vars
<1>2. /\ UNCHANGED <<Dec!InDriver, Dec!Coming, Dec!EndComes, Dec!BareEnd>>
      /\ UNCHANGED <<opened, pending, draining, received, devState, pc, op, ret, out>>
      /\ UNCHANGED <<nextPacket, accepted, delivered, skips, changes>>
  BY <1>1, SessionAlone
<1>3. /\ UNCHANGED <<cpc, after, cur, done, hold, sawEos, status, sigEos, errored, stray>>
      /\ UNCHANGED sessionPending
  BY <1>1 DEF component
<1>4. /\ UNCHANGED <<JustOut, EmptyHanded, EosOut, Over, Calm, Sound>>
  BY <1>2, <1>3 DEF JustOut, EmptyHanded, EosOut, Over, Calm, Sound
<1>5. Loop'
  BY <1>2, <1>3, <1>4
  DEF StreamInv, Loop, LoopOK, OwnEos, BareIsOwn, CurrentAccepted, Waiting
<1>6. Outputs'
  BY <1>2, <1>3, <1>4 DEF StreamInv, Outputs, EosLeft, FramesHaveWorks, HasWork
<1>7. Ends'
  BY <1>2, <1>3, <1>4 DEF StreamInv, Ends, PendingAccepted, Published, Late, NothingAfterEos
<1>. QED
  BY <1>5, <1>6, <1>7

\* Every step of the component, the client, the session and the driver.
LEMMA StreamInvStep ==
    ASSUME StreamInv, [Next]_vars
    PROVE  StreamInv'
<1>1. WorkInv' /\ SetupInv' /\ Dec!CallerInv'
  BY WorkInvStep, SetupInvStep, SessionKept DEF StreamInv
<1>2. CASE \E k \in Kinds : Process(k)
  BY <1>1, <1>2, ProcessKeepsStream DEF StreamInv
<1>3. CASE ProcessRefused
  BY <1>1, <1>3, RefusedKeepsStream DEF StreamInv
<1>4. CASE Flush \/ \E init \in BOOLEAN : Stop(init)
  BY <1>1, <1>4, FlushKeepsStream DEF StreamInv
<1>5. CASE EnsureDecoderSession
  <2>1. CASE sessionPending /\ Session!Open
    BY <1>1, <1>5, <2>1, FirstOpenKeepsStream DEF StreamInv
  <2>2. CASE UNCHANGED <<sessionVars, sessionPending>>
    BY <1>1, <1>5, <2>2, MoveKeepsStream DEF StreamInv
  <2>. QED
    BY <1>5, <2>1, <2>2 DEF EnsureDecoderSession, setting
<1>6. CASE PacketQueued \/ PacketBlocked \/ WaitForDecoderProgress \/ NoMoreFrames
           \/ \E withEos \in BOOLEAN : ClientDrains(withEos)
  BY <1>1, <1>6, MoveKeepsStream DEF StreamInv
<1>7. CASE CallFailed \/ NormalizeFails \/ WaitForDecoderProgressFails \/ TakeFrameFails
           \/ SessionCallFails \/ EosNotSeen
  <2>1. \E f : Fails(f)
    BY <1>7 DEF CallFailed, NormalizeFails, WaitForDecoderProgressFails, TakeFrameFails,
       SessionCallFails, EosNotSeen
  <2>. QED
    BY <1>1, <2>1, FailsKeepsStream DEF StreamInv
<1>8. CASE StoreDecoderConfig /\ kind = "configFrame"
  BY <1>1, <1>8, ConfigKeepsStream DEF StreamInv
<1>9. CASE FinishFrame \/ FinishEos \/ (StoreDecoderConfig /\ kind # "configFrame")
  BY <1>1, <1>9, WorkEndsKeepsStream DEF StreamInv
<1>10. CASE QueuePacket \/ DequeueFrame
  BY <1>1, <1>10, CallBeginsKeepsStream DEF StreamInv
<1>11. CASE StartDrain
  BY <1>1, <1>11, StartDrainKeepsStream DEF StreamInv
<1>12. CASE TakeFrame
  BY <1>1, <1>12, TakeFrameKeepsStream DEF StreamInv
<1>13. CASE TakeEnd
  BY <1>1, <1>13, TakeEndKeepsStream DEF StreamInv
<1>14. CASE PublishHeld
  BY <1>1, <1>14, PublishKeepsStream DEF StreamInv
<1>15. CASE DrainEnds
  BY <1>1, <1>15, DrainEndsKeepsStream DEF StreamInv
<1>16. CASE DrainFlushes
  BY <1>1, <1>16, DrainFlushKeepsStream DEF StreamInv
<1>17. CASE SessionStep \/ DriverStep
  BY <1>1, <1>17, CallKeepsLoop, CallKeepsOutputs, CallKeepsEnds DEF StreamInv
<1>18. CASE UNCHANGED vars
  BY <1>1, <1>18, StutterKeepsStream DEF StreamInv
<1>. QED
  BY <1>2, <1>3, <1>4, <1>5, <1>6, <1>7, <1>8, <1>9, <1>10, <1>11, <1>12, <1>13, <1>14, <1>15,
     <1>16, <1>17, <1>18 DEF Next, Step

-----------------------------------------------------------------------------
(* The theorems about pictures and works.                                  *)

\* Every packet is where the component takes it to be, in every state.
THEOREM StreamHolds == Spec => []StreamInv
<1>1. Init => StreamInv
  BY StreamInvInit
<1>2. StreamInv /\ [Next]_vars => StreamInv'
  BY StreamInvStep
<1>. QED
  BY <1>1, <1>2, PTL DEF Spec

\* What the session promises its caller holds under this one, which queues packets
\* also while the session drains and after it has failed: no block has two holders, no
\* capture slot is lost unless the driver has told of a shortage, and each accepted
\* packet is in one place.
THEOREM SessionKeptInComponent ==
    Spec => [](Dec!BlocksHaveOneHolder /\ Dec!CaptureSlotsConserved /\ Dec!PacketsAccounted)
<1>1. StreamInv =>
          Dec!BlocksHaveOneHolder /\ Dec!CaptureSlotsConserved /\ Dec!PacketsAccounted
  BY Dec!CallerInvImplies, SameConstants DEF StreamInv
<1>. QED
  BY <1>1, StreamHolds, PTL

\* Every picture that the drain loop publishes finds its work pending or current,
\* although pictures are published one behind and in the driver's order
\* (FinishOutput), as long as the resolution does not change.
THEOREM OutputsFindTheirWorks == Spec => []EveryOutputFindsItsWork
<1>1. StreamInv => EveryOutputFindsItsWork
  BY DEF StreamInv, Outputs, EveryOutputFindsItsWork
<1>. QED
  BY <1>1, StreamHolds, PTL

\* When a drained end of stream reaches the client, no work it submitted before is
\* still pending (DrainV4l2Decoder, ProcessV4l2Decoder).
THEOREM EosFinishesAll == Spec => []EosFinishesEverything
<1>1. StreamInv => EosFinishesEverything
  BY DEF StreamInv, Ends, NothingAfterEos, Sound, Calm, EosFinishesEverything
<1>. QED
  BY <1>1, StreamHolds, PTL

\* A pending work's packet is in the session or the driver, or its picture is in the
\* drain loop's hands.
THEOREM PendingWorksHaveFrames == Spec => []PendingWorkHasFrame
<1>1. StreamInv => PendingWorkHasFrame
  BY DEF StreamInv, Ends, PendingAccepted, Published, Sound, Calm, JustOut, PendingWorkHasFrame
<1>. QED
  BY <1>1, StreamHolds, PTL
=============================================================================

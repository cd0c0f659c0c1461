------------------------- MODULE OutputMonitorProofs -------------------------
(***************************************************************************)
(* Proofs about OutputMonitor, for any number of works, drains, resets and *)
(* faults.  The argument is about one token: the right to notify.  While   *)
(* the monitor runs the token is in exactly one place: the thread is       *)
(* armed, or it is about to notify, or its notification is outstanding, or *)
(* the acknowledgement is on its way in the eventfd.                       *)
(***************************************************************************)
EXTENDS OutputMonitor, SequenceTheorems, TLAPS

Looping == mon \in {"loop", "poll", "polled"}

\* The poll's snapshot may be stale, but only in one direction: what it saw armed
\* or signalled still is.
SnapshotHolds ==
    mon = "polled" => /\ revents.wake => wake > 0
                      /\ revents.input => armed

\* Where the work thread can be with which item.
ItemHandled ==
    /\ wpc = "start" => cur = "work"
    /\ wpc = "drain" => cur \in Drains \cup {"work"}
    /\ wpc = "rearm" => cur \in Drains
    /\ wpc = "closed" => mon = "none"
    /\ wpc \in {"wakeup", "join"} => stopping

\* Only an ended thread has left an error request behind.
ErrorRequested ==
    \/ cur = "error" /\ wpc \in {"drain", "rearm"}
    \/ \E i \in DOMAIN queue : queue[i] = "error"
ErrorEndsThread ==
    /\ ErrorRequested => mon = "exited"
    /\ mon = "fail" => error

\* A component that is neither running nor about to stop has no monitor.
HaltedIsIdle == (~running /\ request = "none") => (wpc = "idle" /\ mon = "none")

\* The token.
TokenInOnePlace ==
    ~foreignAck =>
      /\ mon = "none" => ~Notified
      /\ mon = "notify" => ~Notified /\ ~armed /\ (stopping \/ wake = 0)
      /\ (Looping /\ ~stopping /\ Notified) => ~armed /\ wake = 0
      /\ (Looping /\ ~stopping /\ armed) => wake = 0

IInv ==
    /\ TypeOK
    /\ DescriptorsOutliveThread
    /\ SnapshotHolds
    /\ ItemHandled
    /\ ErrorEndsThread
    /\ HaltedIsIdle
    /\ DeadThreadIsKnown
    /\ AtMostOneNotification
    /\ TokenInOnePlace

-----------------------------------------------------------------------------
(* Sequences.                                                              *)

\* Outdated renames messages in place.
LEMMA OutdatedRenames ==
    ASSUME NEW q \in Seq(Messages)
    PROVE  /\ Outdated(q) \in Seq(Messages)
           /\ DOMAIN Outdated(q) = DOMAIN q
           /\ \A i \in DOMAIN q : Outdated(q)[i] \notin {"ready", "error"}
  BY DEF Outdated, Messages, Drains

\* Taking the head of the work queue.
LEMMA HeadAndTail ==
    ASSUME NEW q \in Seq(Messages), q # <<>>
    PROVE  /\ Head(q) \in Messages /\ Tail(q) \in Seq(Messages)
           /\ 1 \in DOMAIN q /\ Head(q) = q[1]
           /\ DOMAIN Tail(q) = 1 .. (Len(q) - 1) /\ DOMAIN q = 1 .. Len(q)
           /\ \A i \in DOMAIN Tail(q) : i + 1 \in DOMAIN q /\ Tail(q)[i] = q[i + 1]
           /\ \A i, j \in DOMAIN Tail(q) : i + 1 = j + 1 => i = j
           /\ \A i \in DOMAIN Tail(q) : i + 1 # 1
  OBVIOUS

\* Queueing a request.
LEMMA AppendToQueue ==
    ASSUME NEW q \in Seq(Messages), NEW m \in Messages
    PROVE  /\ Append(q, m) \in Seq(Messages)
           /\ DOMAIN q = 1 .. Len(q) /\ DOMAIN Append(q, m) = 1 .. (Len(q) + 1)
           /\ Len(q) \in Nat /\ Append(q, m)[Len(q) + 1] = m
           /\ \A i \in DOMAIN q : i # Len(q) + 1 /\ Append(q, m)[i] = q[i]
           /\ \A i \in DOMAIN Append(q, m) : i \in DOMAIN q \/ i = Len(q) + 1
  OBVIOUS

-----------------------------------------------------------------------------
(* Type correctness.                                                       *)

\* The two halves of TypeOK: Zenon proves the flags, SMT the rest.
FlagsOK ==
    /\ armed \in BOOLEAN /\ stopping \in BOOLEAN /\ error \in BOOLEAN
    /\ revents \in [wake : BOOLEAN, input : BOOLEAN, bad : BOOLEAN]
    /\ fds \in BOOLEAN /\ hup \in BOOLEAN
    /\ running \in BOOLEAN /\ signalled \in BOOLEAN /\ reported \in BOOLEAN
    /\ foreignAck \in BOOLEAN
DataOK ==
    /\ mon \in {"none", "loop", "poll", "polled", "notify", "fail", "exited"}
    /\ wake \in Nat /\ coded \in Nat /\ ready \in Nat
    /\ queue \in Seq(Messages)
    /\ stream \in {"new", "coding", "stopped", "ended"}
    /\ wpc \in {"idle", "start", "drain", "rearm", "stop", "wakeup", "join", "eosStart",
                "eosDrain", "closed"}
    /\ cur \in Messages \cup {"none", "flush", "halt"}
    /\ request \in {"none", "flush", "halt"}
    /\ works \in Nat /\ drains \in Nat /\ resets \in Nat /\ faults \in Nat

\* TypeOK is the conjunction of its two halves, before and after a step.
LEMMA TypeParts ==
    /\ TypeOK <=> FlagsOK /\ DataOK
    /\ TypeOK' <=> FlagsOK' /\ DataOK'
  BY DEF TypeOK, FlagsOK, DataOK

\* The state of a newly constructed, unstarted monitor is well typed.
LEMMA TypeInit == Init => TypeOK
<1>. SUFFICES ASSUME Init PROVE FlagsOK /\ DataOK
  BY TypeParts
<1>1. FlagsOK
  BY Zenon DEF Init, FlagsOK, Quiet
<1>2. DataOK
  BY DEF Init, DataOK, Messages, Drains
<1>. QED
  BY <1>1, <1>2

\* Every step of the monitor, the work thread, the driver and the client keeps the types.
LEMMA TypeNext == ASSUME TypeOK, [Next]_vars PROVE TypeOK'
<1>1. CASE MonitorLoop
  BY <1>1 DEF TypeOK, MonitorLoop, Messages, Drains, driver, component, bounds
<1>2. CASE MonitorPoll
  BY <1>2 DEF TypeOK, MonitorPoll, Quiet, Messages, Drains, driver, component,
     bounds
<1>3. CASE MonitorPollFails
  BY <1>3 DEF TypeOK, MonitorPollFails, Messages, Drains, driver, component
<1>4. CASE MonitorDispatch
  <2>1. FlagsOK'
    BY <1>4, TypeParts, Zenon DEF FlagsOK, MonitorDispatch, Quiet, monitor, driver,
       component, bounds
  <2>2. DataOK'
    BY <1>4, TypeParts DEF DataOK, MonitorDispatch, monitor, driver, component, bounds
  <2>. QED
    BY <2>1, <2>2, TypeParts
<1>5. CASE MonitorNotify
  BY <1>5, AppendToQueue DEF TypeOK, MonitorNotify, Messages, Drains, driver, bounds
<1>6. CASE MonitorFail
  BY <1>6, AppendToQueue DEF TypeOK, MonitorFail, Messages, Drains, driver, bounds
<1>7. CASE TakeItem
  BY <1>7, HeadAndTail DEF TypeOK, TakeItem, Messages, Drains, monitor, bounds
<1>8. CASE StartMonitor
  <2>1. FlagsOK'
    <3>1. CASE mon # "none"
      BY <1>8, <3>1, TypeParts DEF FlagsOK, StartMonitor, monitor, driver, bounds
    <3>2. CASE mon = "none"
      <4>1. /\ armed' = TRUE /\ stopping' = FALSE /\ error' = FALSE /\ fds' = TRUE
            /\ revents' = Quiet /\ reported' = FALSE
        BY <1>8, <3>2, Zenon DEF StartMonitor
      <4>2. UNCHANGED <<hup, running, signalled, foreignAck>>
        BY <1>8 DEF StartMonitor, driver, bounds
      <4>3. Quiet \in [wake : BOOLEAN, input : BOOLEAN, bad : BOOLEAN]
        BY Zenon DEF Quiet
      <4>. QED
        BY <4>1, <4>2, <4>3, TypeParts, Zenon DEF FlagsOK
    <3>. QED
      BY <3>1, <3>2
  <2>2. DataOK'
    BY <1>8, TypeParts DEF DataOK, StartMonitor, monitor, driver, component, bounds
  <2>. QED
    BY <2>1, <2>2, TypeParts
<1>9. CASE StartMonitorFails
  BY <1>9 DEF TypeOK, StartMonitorFails, Messages, Drains, monitor, driver
<1>10. CASE DrainOutput
  BY <1>10 DEF TypeOK, DrainOutput, TakesOutput, Messages, Drains, monitor, bounds
<1>11. CASE DrainFails
  BY <1>11 DEF TypeOK, DrainFails, TakesOutput, Messages, Drains, monitor, driver
<1>12. CASE Rearm
  BY <1>12 DEF TypeOK, Rearm, Messages, Drains, driver
<1>13. CASE StopSetsFlag
  BY <1>13 DEF TypeOK, StopSetsFlag, Messages, Drains, driver, bounds
<1>14. CASE StopWakes
  BY <1>14 DEF TypeOK, StopWakes, Messages, Drains, driver, bounds
<1>15. CASE StopJoins
  <2>1. FlagsOK'
    <3>1. armed' = FALSE /\ error' = FALSE /\ fds' = FALSE /\ revents' = Quiet
      BY <1>15, Zenon DEF StopJoins
    <3>2. UNCHANGED <<stopping, hup, running, signalled, reported, foreignAck>>
      BY <1>15 DEF StopJoins, driver, bounds
    <3>3. Quiet \in [wake : BOOLEAN, input : BOOLEAN, bad : BOOLEAN]
      BY Zenon DEF Quiet
    <3>. QED
      BY <3>1, <3>2, <3>3, TypeParts, Zenon DEF FlagsOK
  <2>2. DataOK'
    <3>1. mon' = "none" /\ wake' = 0 /\ wpc' \in {"eosStart", "closed"}
      BY <1>15 DEF StopJoins
    <3>2. queue' \in Seq(Messages)
      BY <1>15, TypeParts, OutdatedRenames DEF StopJoins, DataOK
    <3>3. UNCHANGED <<coded, ready, stream, cur, request, works, drains, resets,
       faults>>
      BY <1>15 DEF StopJoins, driver, bounds
    <3>. QED
      BY <3>1, <3>2, <3>3, TypeParts DEF DataOK
  <2>. QED
    BY <2>1, <2>2, TypeParts
<1>16. CASE EosSteps
  <2>. USE DEF EosSteps, StartEosDrain, StartEosDrainFails, EosDrained, EosGivesUp,
               EosFails, TakesOutput, monitor, driver, bounds
  <2>1. /\ UNCHANGED <<armed, stopping, error, revents, fds, running, foreignAck>>
        /\ hup' \in {hup, FALSE} /\ signalled' \in BOOLEAN /\ reported' \in BOOLEAN
    <3>1. CASE StartEosDrain \/ StartEosDrainFails
      BY <3>1, TypeParts, Zenon DEF FlagsOK
    <3>2. CASE EosDrained
      BY <3>2, TypeParts, Zenon DEF FlagsOK
    <3>3. CASE EosGivesUp \/ EosFails
      BY <3>3, TypeParts, Zenon DEF FlagsOK
    <3>. QED
      BY <1>16, <3>1, <3>2, <3>3
  <2>2. FlagsOK'
    BY <2>1, TypeParts, Zenon DEF FlagsOK
  <2>3. DataOK'
    BY <1>16, TypeParts DEF DataOK
  <2>. QED
    BY <2>2, <2>3, TypeParts
<1>17. CASE SessionReset
  <2>1. FlagsOK'
    BY <1>17, TypeParts, Zenon DEF FlagsOK, SessionReset, Quiet, monitor, driver,
       component, bounds
  <2>2. DataOK'
    BY <1>17, TypeParts DEF DataOK, SessionReset, monitor, driver, component, bounds
  <2>. QED
    BY <2>1, <2>2, TypeParts
<1>18. CASE TakeRequest
  BY <1>18 DEF TypeOK, TakeRequest, Messages, Drains, monitor, driver, bounds
<1>19. CASE DriverOutputs
  BY <1>19 DEF TypeOK, DriverOutputs, Messages, Drains, monitor, component, bounds
<1>20. CASE DriverHangsUp
  BY <1>20 DEF TypeOK, DriverHangsUp, Messages, Drains, monitor, component, bounds
<1>21. CASE ClientSubmits
  BY <1>21, AppendToQueue DEF TypeOK, ClientSubmits, Enqueue, Messages, Drains,
     monitor, driver
<1>22. CASE ClientDrains
  BY <1>22, AppendToQueue DEF TypeOK, ClientDrains, Enqueue, Messages, Drains,
     monitor, driver
<1>23. CASE ClientResets
  BY <1>23 DEF TypeOK, ClientResets, Messages, Drains, monitor, driver
<1>24. CASE ClientStarts
  BY <1>24 DEF TypeOK, ClientStarts, Messages, Drains, monitor, driver, bounds
<1>25. CASE UNCHANGED vars
  BY <1>25 DEF TypeOK, vars, monitor, driver, component, bounds
<1>. QED
  BY <1>1, <1>2, <1>3, <1>4, <1>5, <1>6, <1>7, <1>8, <1>9, <1>10, <1>11, <1>12,
     <1>13, <1>14, <1>15, <1>16, <1>17, <1>18, <1>19, <1>20, <1>21, <1>22, <1>23,
     <1>24, <1>25 DEF Next, MonitorThread, WorkThread
-----------------------------------------------------------------------------
(* The inductive invariant, part by part.  The last cases of each proof are  *)
(* the actions that leave the part's variables alone.                      *)

\* Stop closes the descriptors in the step that gives the thread up.
LEMMA DescriptorsNext ==
    ASSUME TypeOK, DescriptorsOutliveThread, [Next]_vars
    PROVE  DescriptorsOutliveThread'
<1>1. CASE MonitorLoop
  BY <1>1 DEF TypeOK, DescriptorsOutliveThread, MonitorLoop, driver, component,
     bounds
<1>2. CASE MonitorPoll
  BY <1>2 DEF TypeOK, DescriptorsOutliveThread, MonitorPoll, driver, component,
     bounds
<1>3. CASE MonitorPollFails
  BY <1>3 DEF TypeOK, DescriptorsOutliveThread, MonitorPollFails, driver, component
<1>4. CASE MonitorDispatch
  BY <1>4 DEF TypeOK, DescriptorsOutliveThread, MonitorDispatch, driver, component,
     bounds
<1>5. CASE MonitorNotify
  BY <1>5 DEF TypeOK, DescriptorsOutliveThread, MonitorNotify, driver, bounds
<1>6. CASE MonitorFail
  BY <1>6 DEF TypeOK, DescriptorsOutliveThread, MonitorFail, driver, bounds
<1>7. CASE StartMonitor
  BY <1>7 DEF TypeOK, DescriptorsOutliveThread, StartMonitor, monitor, driver,
     bounds
<1>8. CASE StopJoins
  BY <1>8 DEF TypeOK, DescriptorsOutliveThread, StopJoins, driver, bounds
<1>9. CASE TakeItem \/ StartMonitorFails \/ DrainOutput \/ DrainFails \/ Rearm \/
          StopSetsFlag \/ StopWakes \/ EosSteps \/ SessionReset \/ TakeRequest \/
          DriverOutputs \/ DriverHangsUp \/ ClientSubmits \/ ClientDrains \/
          ClientResets \/ ClientStarts \/ UNCHANGED vars
  <2>1. UNCHANGED <<mon, fds>>
    BY <1>9 DEF TakeItem, StartMonitorFails, DrainOutput, DrainFails, Rearm,
       StopSetsFlag, StopWakes, EosSteps, StartEosDrain, StartEosDrainFails,
       EosDrained, EosGivesUp, EosFails, TakesOutput, SessionReset, TakeRequest,
       DriverOutputs, DriverHangsUp, ClientSubmits, ClientDrains, ClientResets,
       ClientStarts, Enqueue, vars, monitor, driver, component, bounds
  <2>. QED
    BY <2>1 DEF DescriptorsOutliveThread
<1>. QED
  BY <1>1, <1>2, <1>3, <1>4, <1>5, <1>6, <1>7, <1>8, <1>9
  DEF Next, MonitorThread, WorkThread

\* Only the thread itself disarms, and only it reads the eventfd while it runs.
LEMMA SnapshotNext ==
    ASSUME TypeOK, SnapshotHolds, [Next]_vars
    PROVE  SnapshotHolds'
<1>1. CASE MonitorLoop
  BY <1>1 DEF TypeOK, SnapshotHolds, Quiet, MonitorLoop, driver, component, bounds
<1>2. CASE MonitorPoll
  BY <1>2 DEF TypeOK, SnapshotHolds, Quiet, MonitorPoll, driver, component, bounds
<1>3. CASE MonitorPollFails
  BY <1>3 DEF TypeOK, SnapshotHolds, Quiet, MonitorPollFails, driver, component
<1>4. CASE MonitorDispatch
  BY <1>4 DEF TypeOK, SnapshotHolds, Quiet, MonitorDispatch, driver, component,
     bounds
<1>5. CASE MonitorNotify
  BY <1>5 DEF TypeOK, SnapshotHolds, Quiet, MonitorNotify, driver, bounds
<1>6. CASE MonitorFail
  BY <1>6 DEF TypeOK, SnapshotHolds, Quiet, MonitorFail, driver, bounds
<1>7. CASE StartMonitor
  BY <1>7 DEF TypeOK, SnapshotHolds, Quiet, StartMonitor, monitor, driver, bounds
<1>8. CASE Rearm
  BY <1>8 DEF TypeOK, SnapshotHolds, Quiet, Rearm, driver
<1>9. CASE StopWakes
  BY <1>9 DEF TypeOK, SnapshotHolds, Quiet, StopWakes, driver, bounds
<1>10. CASE StopJoins
  BY <1>10 DEF TypeOK, SnapshotHolds, Quiet, StopJoins, driver, bounds
<1>11. CASE TakeItem \/ StartMonitorFails \/ DrainOutput \/ DrainFails \/
          StopSetsFlag \/ EosSteps \/ SessionReset \/ TakeRequest \/ DriverOutputs
          \/ DriverHangsUp \/ ClientSubmits \/ ClientDrains \/ ClientResets \/
          ClientStarts \/ UNCHANGED vars
  <2>1. UNCHANGED <<mon, revents, wake, armed>>
    BY <1>11 DEF TakeItem, StartMonitorFails, DrainOutput, DrainFails, StopSetsFlag,
       EosSteps, StartEosDrain, StartEosDrainFails, EosDrained, EosGivesUp,
       EosFails, TakesOutput, SessionReset, TakeRequest, DriverOutputs,
       DriverHangsUp,
       ClientSubmits, ClientDrains, ClientResets, ClientStarts, Enqueue, vars,
       monitor, driver, component, bounds
  <2>. QED
    BY <2>1 DEF SnapshotHolds
<1>. QED
  BY <1>1, <1>2, <1>3, <1>4, <1>5, <1>6, <1>7, <1>8, <1>9, <1>10, <1>11
  DEF Next, MonitorThread, WorkThread

\* The work thread is sequential: its point determines the item.
LEMMA ItemsNext ==
    ASSUME TypeOK, ItemHandled, [Next]_vars
    PROVE  ItemHandled'
<1>1. CASE MonitorLoop
  BY <1>1 DEF TypeOK, ItemHandled, Drains, Messages, MonitorLoop, driver, component,
     bounds
<1>2. CASE MonitorPoll
  BY <1>2 DEF TypeOK, ItemHandled, Drains, Messages, MonitorPoll, driver, component,
     bounds
<1>3. CASE MonitorPollFails
  BY <1>3 DEF TypeOK, ItemHandled, Drains, Messages, MonitorPollFails, driver,
     component
<1>4. CASE MonitorDispatch
  BY <1>4 DEF TypeOK, ItemHandled, Drains, Messages, MonitorDispatch, driver,
     component, bounds
<1>5. CASE MonitorNotify
  BY <1>5 DEF TypeOK, ItemHandled, Drains, Messages, MonitorNotify, driver, bounds
<1>6. CASE MonitorFail
  BY <1>6 DEF TypeOK, ItemHandled, Drains, Messages, MonitorFail, driver, bounds
<1>7. CASE TakeItem
  BY <1>7, HeadAndTail DEF TypeOK, ItemHandled, Drains, Messages, TakeItem, monitor,
     bounds
<1>8. CASE StartMonitor
  BY <1>8 DEF TypeOK, ItemHandled, Drains, Messages, StartMonitor, monitor, driver,
     bounds
<1>9. CASE StartMonitorFails
  BY <1>9 DEF TypeOK, ItemHandled, Drains, Messages, StartMonitorFails, monitor,
     driver
<1>10. CASE DrainOutput
  BY <1>10 DEF TypeOK, ItemHandled, Drains, Messages, DrainOutput, TakesOutput,
     monitor, bounds
<1>11. CASE DrainFails
  BY <1>11 DEF TypeOK, ItemHandled, Drains, Messages, DrainFails, TakesOutput,
     monitor, driver
<1>12. CASE Rearm
  BY <1>12 DEF TypeOK, ItemHandled, Drains, Messages, Rearm, driver
<1>13. CASE StopSetsFlag
  BY <1>13 DEF TypeOK, ItemHandled, Drains, Messages, StopSetsFlag, driver, bounds
<1>14. CASE StopWakes
  BY <1>14 DEF TypeOK, ItemHandled, Drains, Messages, StopWakes, driver, bounds
<1>15. CASE StopJoins
  BY <1>15 DEF TypeOK, ItemHandled, Drains, Messages, StopJoins, driver, bounds
<1>16. CASE EosSteps
  BY <1>16 DEF TypeOK, ItemHandled, Drains, Messages, EosSteps, StartEosDrain,
     StartEosDrainFails, EosDrained, EosGivesUp, EosFails, TakesOutput, monitor,
     bounds
<1>17. CASE SessionReset
  BY <1>17 DEF TypeOK, ItemHandled, Drains, Messages, SessionReset, monitor, bounds
<1>18. CASE TakeRequest
  BY <1>18 DEF TypeOK, ItemHandled, Drains, Messages, TakeRequest, monitor, driver,
     bounds
<1>19. CASE DriverOutputs \/ DriverHangsUp \/ ClientSubmits \/ ClientDrains \/
          ClientResets \/ ClientStarts \/ UNCHANGED vars
  <2>1. UNCHANGED <<wpc, cur, mon, stopping>>
    BY <1>19 DEF DriverOutputs, DriverHangsUp, ClientSubmits, ClientDrains,
       ClientResets, ClientStarts, Enqueue, vars, monitor, driver, component, bounds
  <2>. QED
    BY <2>1 DEF ItemHandled
<1>. QED
  BY <1>1, <1>2, <1>3, <1>4, <1>5, <1>6, <1>7, <1>8, <1>9, <1>10, <1>11, <1>12,
     <1>13, <1>14, <1>15, <1>16, <1>17, <1>18, <1>19
  DEF Next, MonitorThread, WorkThread

\* An error request is the last thing a thread queues; the join renames it.
LEMMA ErrorRequestsNext ==
    ASSUME TypeOK, ErrorEndsThread, ItemHandled, [Next]_vars
    PROVE  ErrorEndsThread'
<1>1. CASE MonitorLoop
  BY <1>1 DEF TypeOK, ErrorEndsThread, ItemHandled, ErrorRequested, Drains,
     Messages, MonitorLoop, driver, component, bounds
<1>2. CASE MonitorPoll
  BY <1>2 DEF TypeOK, ErrorEndsThread, ItemHandled, ErrorRequested, Drains,
     Messages, MonitorPoll, driver, component, bounds
<1>3. CASE MonitorPollFails
  BY <1>3 DEF TypeOK, ErrorEndsThread, ItemHandled, ErrorRequested, Drains,
     Messages, MonitorPollFails, driver, component
<1>4. CASE MonitorDispatch
  BY <1>4 DEF TypeOK, ErrorEndsThread, ItemHandled, ErrorRequested, Drains,
     Messages, MonitorDispatch, driver, component, bounds
<1>5. CASE MonitorNotify
  BY <1>5, AppendToQueue DEF TypeOK, ErrorEndsThread, ItemHandled, ErrorRequested,
     Drains, Messages, MonitorNotify, driver, bounds
<1>6. CASE MonitorFail
  BY <1>6, AppendToQueue DEF TypeOK, ErrorEndsThread, ItemHandled, ErrorRequested,
     Drains, Messages, MonitorFail, driver, bounds
<1>7. CASE TakeItem
  BY <1>7, HeadAndTail DEF TypeOK, ErrorEndsThread, ItemHandled, ErrorRequested,
     Drains, Messages, TakeItem, monitor, bounds
<1>8. CASE StartMonitor
  BY <1>8 DEF TypeOK, ErrorEndsThread, ItemHandled, ErrorRequested, Drains,
     Messages, StartMonitor, monitor, driver, bounds
<1>9. CASE StartMonitorFails
  BY <1>9 DEF TypeOK, ErrorEndsThread, ItemHandled, ErrorRequested, Drains,
     Messages, StartMonitorFails, monitor, driver
<1>10. CASE DrainOutput
  BY <1>10 DEF TypeOK, ErrorEndsThread, ItemHandled, ErrorRequested, Drains,
     Messages, DrainOutput, TakesOutput, monitor, bounds
<1>11. CASE DrainFails
  BY <1>11 DEF TypeOK, ErrorEndsThread, ItemHandled, ErrorRequested, Drains,
     Messages, DrainFails, TakesOutput, monitor, driver
<1>12. CASE Rearm
  BY <1>12 DEF TypeOK, ErrorEndsThread, ItemHandled, ErrorRequested, Drains,
     Messages, Rearm, driver
<1>13. CASE StopSetsFlag
  BY <1>13 DEF TypeOK, ErrorEndsThread, ItemHandled, ErrorRequested, Drains,
     Messages, StopSetsFlag, driver, bounds
<1>14. CASE StopWakes
  BY <1>14 DEF TypeOK, ErrorEndsThread, ItemHandled, ErrorRequested, Drains,
     Messages, StopWakes, driver, bounds
<1>15. CASE StopJoins
  BY <1>15, OutdatedRenames DEF TypeOK, ErrorEndsThread, ItemHandled,
     ErrorRequested, Drains, Messages, StopJoins, driver, bounds
<1>16. CASE EosSteps
  BY <1>16 DEF TypeOK, ErrorEndsThread, ItemHandled, ErrorRequested, Drains,
     Messages, EosSteps, StartEosDrain, StartEosDrainFails, EosDrained,
     EosGivesUp, EosFails, TakesOutput, monitor, bounds
<1>17. CASE SessionReset
  BY <1>17 DEF TypeOK, ErrorEndsThread, ItemHandled, ErrorRequested, Drains,
     Messages, SessionReset, monitor, bounds
<1>18. CASE TakeRequest
  BY <1>18 DEF TypeOK, ErrorEndsThread, ItemHandled, ErrorRequested, Drains,
     Messages, TakeRequest, monitor, driver, bounds
<1>19. CASE ClientSubmits
  BY <1>19, AppendToQueue DEF TypeOK, ErrorEndsThread, ItemHandled, ErrorRequested,
     Drains, Messages, ClientSubmits, Enqueue, monitor, driver
<1>20. CASE ClientDrains
  BY <1>20, AppendToQueue DEF TypeOK, ErrorEndsThread, ItemHandled, ErrorRequested,
     Drains, Messages, ClientDrains, Enqueue, monitor, driver
<1>21. CASE ClientResets
  BY <1>21 DEF TypeOK, ErrorEndsThread, ItemHandled, ErrorRequested, Drains,
     Messages, ClientResets, monitor, driver
<1>22. CASE DriverOutputs \/ DriverHangsUp \/ ClientStarts \/ UNCHANGED vars
  <2>1. UNCHANGED <<cur, wpc, queue, mon, error>>
    BY <1>22 DEF DriverOutputs, DriverHangsUp, ClientStarts, vars, monitor, driver,
       component, bounds
  <2>. QED
    BY <2>1 DEF ErrorEndsThread, ErrorRequested
<1>. QED
  BY <1>1, <1>2, <1>3, <1>4, <1>5, <1>6, <1>7, <1>8, <1>9, <1>10, <1>11, <1>12,
     <1>13, <1>14, <1>15, <1>16, <1>17, <1>18, <1>19, <1>20, <1>21, <1>22
  DEF Next, MonitorThread, WorkThread

\* A stop request is cleared only after the join.
LEMMA HaltedNext ==
    ASSUME TypeOK, HaltedIsIdle, ItemHandled, [Next]_vars
    PROVE  HaltedIsIdle'
<1>1. CASE MonitorLoop
  BY <1>1 DEF TypeOK, HaltedIsIdle, ItemHandled, MonitorLoop, driver, component,
     bounds
<1>2. CASE MonitorPoll
  BY <1>2 DEF TypeOK, HaltedIsIdle, ItemHandled, MonitorPoll, driver, component,
     bounds
<1>3. CASE MonitorPollFails
  BY <1>3 DEF TypeOK, HaltedIsIdle, ItemHandled, MonitorPollFails, driver, component
<1>4. CASE MonitorDispatch
  BY <1>4 DEF TypeOK, HaltedIsIdle, ItemHandled, MonitorDispatch, driver, component,
     bounds
<1>5. CASE MonitorNotify
  BY <1>5 DEF TypeOK, HaltedIsIdle, ItemHandled, MonitorNotify, driver, bounds
<1>6. CASE MonitorFail
  BY <1>6 DEF TypeOK, HaltedIsIdle, ItemHandled, MonitorFail, driver, bounds
<1>7. CASE TakeItem
  BY <1>7 DEF TypeOK, HaltedIsIdle, ItemHandled, TakeItem, monitor, bounds
<1>8. CASE StartMonitor
  BY <1>8 DEF TypeOK, HaltedIsIdle, ItemHandled, StartMonitor, monitor, driver,
     bounds
<1>9. CASE StartMonitorFails
  BY <1>9 DEF TypeOK, HaltedIsIdle, ItemHandled, StartMonitorFails, monitor, driver
<1>10. CASE DrainOutput
  BY <1>10 DEF TypeOK, HaltedIsIdle, ItemHandled, DrainOutput, TakesOutput,
     monitor, bounds
<1>11. CASE DrainFails
  BY <1>11 DEF TypeOK, HaltedIsIdle, ItemHandled, DrainFails, TakesOutput,
     monitor, driver
<1>12. CASE Rearm
  BY <1>12 DEF TypeOK, HaltedIsIdle, ItemHandled, Rearm, driver
<1>13. CASE StopSetsFlag
  BY <1>13 DEF TypeOK, HaltedIsIdle, ItemHandled, StopSetsFlag, driver, bounds
<1>14. CASE StopWakes
  BY <1>14 DEF TypeOK, HaltedIsIdle, ItemHandled, StopWakes, driver, bounds
<1>15. CASE StopJoins
  BY <1>15 DEF TypeOK, HaltedIsIdle, ItemHandled, StopJoins, driver, bounds
<1>16. CASE EosSteps
  BY <1>16 DEF TypeOK, HaltedIsIdle, ItemHandled, EosSteps, StartEosDrain,
     StartEosDrainFails, EosDrained, EosGivesUp, EosFails, TakesOutput, monitor,
     bounds
<1>17. CASE SessionReset
  BY <1>17 DEF TypeOK, HaltedIsIdle, ItemHandled, SessionReset, monitor, bounds
<1>18. CASE TakeRequest
  BY <1>18 DEF TypeOK, HaltedIsIdle, ItemHandled, TakeRequest, monitor, driver,
     bounds
<1>19. CASE ClientResets
  BY <1>19 DEF TypeOK, HaltedIsIdle, ItemHandled, ClientResets, monitor, driver
<1>20. CASE ClientStarts
  BY <1>20 DEF TypeOK, HaltedIsIdle, ItemHandled, ClientStarts, monitor, driver,
     bounds
<1>21. CASE DriverOutputs \/ DriverHangsUp \/ ClientSubmits \/ ClientDrains \/
          UNCHANGED vars
  <2>1. UNCHANGED <<running, request, wpc, mon>>
    BY <1>21 DEF DriverOutputs, DriverHangsUp, ClientSubmits, ClientDrains, Enqueue,
       vars, monitor, driver, component, bounds
  <2>. QED
    BY <2>1 DEF HaltedIsIdle
<1>. QED
  BY <1>1, <1>2, <1>3, <1>4, <1>5, <1>6, <1>7, <1>8, <1>9, <1>10, <1>11, <1>12,
     <1>13, <1>14, <1>15, <1>16, <1>17, <1>18, <1>19, <1>20, <1>21
  DEF Next, MonitorThread, WorkThread

\* A failed notification means the component has left RUNNING.
LEMMA DeadNext ==
    ASSUME TypeOK, DeadThreadIsKnown, ErrorEndsThread, HaltedIsIdle, ItemHandled,
           [Next]_vars
    PROVE  DeadThreadIsKnown'
<1>1. CASE MonitorLoop
  BY <1>1 DEF TypeOK, DeadThreadIsKnown, ErrorEndsThread, HaltedIsIdle, ItemHandled,
     MonitorLoop, driver, component, bounds
<1>2. CASE MonitorPoll
  BY <1>2 DEF TypeOK, DeadThreadIsKnown, ErrorEndsThread, HaltedIsIdle, ItemHandled,
     MonitorPoll, driver, component, bounds
<1>3. CASE MonitorPollFails
  BY <1>3 DEF TypeOK, DeadThreadIsKnown, ErrorEndsThread, HaltedIsIdle, ItemHandled,
     MonitorPollFails, driver, component
<1>4. CASE MonitorDispatch
  BY <1>4 DEF TypeOK, DeadThreadIsKnown, ErrorEndsThread, HaltedIsIdle, ItemHandled,
     MonitorDispatch, driver, component, bounds
<1>5. CASE MonitorNotify
  BY <1>5 DEF TypeOK, DeadThreadIsKnown, ErrorEndsThread, HaltedIsIdle, ItemHandled,
     MonitorNotify, driver, bounds
<1>6. CASE MonitorFail
  BY <1>6 DEF TypeOK, DeadThreadIsKnown, ErrorEndsThread, HaltedIsIdle, ItemHandled,
     MonitorFail, driver, bounds
<1>7. CASE StartMonitor
  BY <1>7 DEF TypeOK, DeadThreadIsKnown, ErrorEndsThread, HaltedIsIdle, ItemHandled,
     StartMonitor, monitor, driver, bounds
<1>8. CASE StopSetsFlag
  BY <1>8 DEF TypeOK, DeadThreadIsKnown, ErrorEndsThread, HaltedIsIdle, ItemHandled,
     StopSetsFlag, driver, bounds
<1>9. CASE StopJoins
  BY <1>9 DEF TypeOK, DeadThreadIsKnown, ErrorEndsThread, HaltedIsIdle, ItemHandled,
     StopJoins, driver, bounds
<1>10. CASE SessionReset
  BY <1>10 DEF TypeOK, DeadThreadIsKnown, ErrorEndsThread, HaltedIsIdle,
     ItemHandled, SessionReset, monitor, bounds
<1>11. CASE ClientResets
  BY <1>11 DEF TypeOK, DeadThreadIsKnown, ErrorEndsThread, HaltedIsIdle,
     ItemHandled, ClientResets, monitor, driver
<1>12. CASE TakeItem \/ StartMonitorFails \/ DrainOutput \/ DrainFails \/ Rearm \/
          StopWakes \/ EosSteps \/ TakeRequest \/ DriverOutputs \/ DriverHangsUp
          \/ ClientSubmits \/ ClientDrains \/ ClientStarts \/ UNCHANGED vars
  <2>1. UNCHANGED <<mon, stopping, error, request>>
    BY <1>12 DEF TakeItem, StartMonitorFails, DrainOutput, DrainFails, Rearm,
       StopWakes, EosSteps, StartEosDrain, StartEosDrainFails, EosDrained,
       EosGivesUp, EosFails, TakesOutput, TakeRequest, DriverOutputs,
       DriverHangsUp,
       ClientSubmits, ClientDrains, ClientStarts, Enqueue, vars, monitor, driver,
       component, bounds
  <2>. QED
    BY <2>1 DEF DeadThreadIsKnown
<1>. QED
  BY <1>1, <1>2, <1>3, <1>4, <1>5, <1>6, <1>7, <1>8, <1>9, <1>10, <1>11, <1>12
  DEF Next, MonitorThread, WorkThread

\* The token moves: armed, notify, notification, acknowledgement, armed.
LEMMA TokenNext ==
    ASSUME TypeOK, AtMostOneNotification, TokenInOnePlace, DescriptorsOutliveThread,
           SnapshotHolds, ItemHandled, ErrorEndsThread, [Next]_vars
    PROVE  (AtMostOneNotification /\ TokenInOnePlace)'
<1>1. CASE MonitorLoop
  BY <1>1 DEF TypeOK, AtMostOneNotification, TokenInOnePlace,
     DescriptorsOutliveThread, SnapshotHolds, ItemHandled, ErrorEndsThread,
     OneNotification, Notified, Acknowledging, Looping, ErrorRequested, Drains,
     Messages, Quiet, MonitorLoop, driver, component, bounds
<1>2. CASE MonitorPoll
  BY <1>2 DEF TypeOK, AtMostOneNotification, TokenInOnePlace,
     DescriptorsOutliveThread, SnapshotHolds, ItemHandled, ErrorEndsThread,
     OneNotification, Notified, Acknowledging, Looping, ErrorRequested, Drains,
     Messages, Quiet, MonitorPoll, driver, component, bounds
<1>3. CASE MonitorPollFails
  BY <1>3 DEF TypeOK, AtMostOneNotification, TokenInOnePlace,
     DescriptorsOutliveThread, SnapshotHolds, ItemHandled, ErrorEndsThread,
     OneNotification, Notified, Acknowledging, Looping, ErrorRequested, Drains,
     Messages, Quiet, MonitorPollFails, driver, component
<1>4. CASE MonitorDispatch
  BY <1>4 DEF TypeOK, AtMostOneNotification, TokenInOnePlace,
     DescriptorsOutliveThread, SnapshotHolds, ItemHandled, ErrorEndsThread,
     OneNotification, Notified, Acknowledging, Looping, ErrorRequested, Drains,
     Messages, Quiet, MonitorDispatch, driver, component, bounds
<1>5. CASE MonitorNotify
  BY <1>5, AppendToQueue DEF TypeOK, AtMostOneNotification, TokenInOnePlace,
     DescriptorsOutliveThread, SnapshotHolds, ItemHandled, ErrorEndsThread,
     OneNotification, Notified, Acknowledging, Looping, ErrorRequested, Drains,
     Messages, Quiet, MonitorNotify, driver, bounds
<1>6. CASE MonitorFail
  BY <1>6, AppendToQueue DEF TypeOK, AtMostOneNotification, TokenInOnePlace,
     DescriptorsOutliveThread, SnapshotHolds, ItemHandled, ErrorEndsThread,
     OneNotification, Notified, Acknowledging, Looping, ErrorRequested, Drains,
     Messages, Quiet, MonitorFail, driver, bounds
<1>7. CASE TakeItem
  BY <1>7, HeadAndTail DEF TypeOK, AtMostOneNotification, TokenInOnePlace,
     DescriptorsOutliveThread, SnapshotHolds, ItemHandled, ErrorEndsThread,
     OneNotification, Notified, Acknowledging, Looping, ErrorRequested, Drains,
     Messages, Quiet, TakeItem, monitor, bounds
<1>8. CASE StartMonitor
  BY <1>8 DEF TypeOK, AtMostOneNotification, TokenInOnePlace,
     DescriptorsOutliveThread, SnapshotHolds, ItemHandled, ErrorEndsThread,
     OneNotification, Notified, Acknowledging, Looping, ErrorRequested, Drains,
     Messages, Quiet, StartMonitor, monitor, driver, bounds
<1>9. CASE StartMonitorFails
  BY <1>9 DEF TypeOK, AtMostOneNotification, TokenInOnePlace,
     DescriptorsOutliveThread, SnapshotHolds, ItemHandled, ErrorEndsThread,
     OneNotification, Notified, Acknowledging, Looping, ErrorRequested, Drains,
     Messages, Quiet, StartMonitorFails, monitor, driver
<1>10. CASE DrainOutput
  BY <1>10 DEF TypeOK, AtMostOneNotification, TokenInOnePlace,
     DescriptorsOutliveThread, SnapshotHolds, ItemHandled, ErrorEndsThread,
     OneNotification, Notified, Acknowledging, Looping, ErrorRequested, Drains,
     Messages, Quiet, DrainOutput, TakesOutput, monitor, bounds
<1>11. CASE DrainFails
  BY <1>11 DEF TypeOK, AtMostOneNotification, TokenInOnePlace,
     DescriptorsOutliveThread, SnapshotHolds, ItemHandled, ErrorEndsThread,
     OneNotification, Notified, Acknowledging, Looping, ErrorRequested, Drains,
     Messages, Quiet, DrainFails, TakesOutput, monitor, driver
<1>12. CASE Rearm
  BY <1>12 DEF TypeOK, AtMostOneNotification, TokenInOnePlace,
     DescriptorsOutliveThread, SnapshotHolds, ItemHandled, ErrorEndsThread,
     OneNotification, Notified, Acknowledging, Looping, ErrorRequested, Drains,
     Messages, Quiet, Rearm, driver
<1>13. CASE StopSetsFlag
  BY <1>13 DEF TypeOK, AtMostOneNotification, TokenInOnePlace,
     DescriptorsOutliveThread, SnapshotHolds, ItemHandled, ErrorEndsThread,
     OneNotification, Notified, Acknowledging, Looping, ErrorRequested, Drains,
     Messages, Quiet, StopSetsFlag, driver, bounds
<1>14. CASE StopWakes
  BY <1>14 DEF TypeOK, AtMostOneNotification, TokenInOnePlace,
     DescriptorsOutliveThread, SnapshotHolds, ItemHandled, ErrorEndsThread,
     OneNotification, Notified, Acknowledging, Looping, ErrorRequested, Drains,
     Messages, Quiet, StopWakes, driver, bounds
<1>15. CASE StopJoins
  BY <1>15, OutdatedRenames DEF TypeOK, AtMostOneNotification, TokenInOnePlace,
     DescriptorsOutliveThread, SnapshotHolds, ItemHandled, ErrorEndsThread,
     OneNotification, Notified, Acknowledging, Looping, ErrorRequested, Drains,
     Messages, Quiet, StopJoins, driver, bounds
<1>16. CASE EosSteps
  <2>1. CASE StartEosDrain
    BY <2>1 DEF TypeOK, AtMostOneNotification, TokenInOnePlace,
       DescriptorsOutliveThread, SnapshotHolds, ItemHandled, ErrorEndsThread,
       OneNotification, Notified, Acknowledging, Looping, ErrorRequested, Drains,
       Messages, Quiet, monitor, bounds, StartEosDrain
  <2>2. CASE StartEosDrainFails
    BY <2>2 DEF TypeOK, AtMostOneNotification, TokenInOnePlace,
       DescriptorsOutliveThread, SnapshotHolds, ItemHandled, ErrorEndsThread,
       OneNotification, Notified, Acknowledging, Looping, ErrorRequested, Drains,
       Messages, Quiet, monitor, bounds, StartEosDrainFails
  <2>3. CASE EosDrained
    BY <2>3 DEF TypeOK, AtMostOneNotification, TokenInOnePlace,
       DescriptorsOutliveThread, SnapshotHolds, ItemHandled, ErrorEndsThread,
       OneNotification, Notified, Acknowledging, Looping, ErrorRequested, Drains,
       Messages, Quiet, monitor, bounds, EosDrained
  <2>4. CASE EosGivesUp
    BY <2>4 DEF TypeOK, AtMostOneNotification, TokenInOnePlace,
       DescriptorsOutliveThread, SnapshotHolds, ItemHandled, ErrorEndsThread,
       OneNotification, Notified, Acknowledging, Looping, ErrorRequested, Drains,
       Messages, Quiet, monitor, bounds, EosGivesUp
  <2>5. CASE EosFails
    BY <2>5 DEF TypeOK, AtMostOneNotification, TokenInOnePlace,
       DescriptorsOutliveThread, SnapshotHolds, ItemHandled, ErrorEndsThread,
       OneNotification, Notified, Acknowledging, Looping, ErrorRequested, Drains,
       Messages, Quiet, monitor, bounds, EosFails, TakesOutput
  <2>. QED
    BY <1>16, <2>1, <2>2, <2>3, <2>4, <2>5 DEF EosSteps
<1>17. CASE SessionReset
  BY <1>17 DEF TypeOK, AtMostOneNotification, TokenInOnePlace,
     DescriptorsOutliveThread, SnapshotHolds, ItemHandled, ErrorEndsThread,
     OneNotification, Notified, Acknowledging, Looping, ErrorRequested, Drains,
     Messages, Quiet, SessionReset, monitor, bounds
<1>18. CASE TakeRequest
  BY <1>18 DEF TypeOK, AtMostOneNotification, TokenInOnePlace,
     DescriptorsOutliveThread, SnapshotHolds, ItemHandled, ErrorEndsThread,
     OneNotification, Notified, Acknowledging, Looping, ErrorRequested, Drains,
     Messages, Quiet, TakeRequest, monitor, driver, bounds
<1>19. CASE ClientSubmits
  BY <1>19, AppendToQueue DEF TypeOK, AtMostOneNotification, TokenInOnePlace,
     DescriptorsOutliveThread, SnapshotHolds, ItemHandled, ErrorEndsThread,
     OneNotification, Notified, Acknowledging, Looping, ErrorRequested, Drains,
     Messages, Quiet, ClientSubmits, Enqueue, monitor, driver
<1>20. CASE ClientDrains
  BY <1>20, AppendToQueue DEF TypeOK, AtMostOneNotification, TokenInOnePlace,
     DescriptorsOutliveThread, SnapshotHolds, ItemHandled, ErrorEndsThread,
     OneNotification, Notified, Acknowledging, Looping, ErrorRequested, Drains,
     Messages, Quiet, ClientDrains, Enqueue, monitor, driver
<1>21. CASE ClientResets
  BY <1>21 DEF TypeOK, AtMostOneNotification, TokenInOnePlace,
     DescriptorsOutliveThread, SnapshotHolds, ItemHandled, ErrorEndsThread,
     OneNotification, Notified, Acknowledging, Looping, ErrorRequested, Drains,
     Messages, Quiet, ClientResets, monitor, driver
<1>22. CASE DriverOutputs \/ DriverHangsUp \/ ClientStarts \/ UNCHANGED vars
  <2>1. UNCHANGED <<foreignAck, mon, queue, cur, wpc, armed, stopping, wake>>
    BY <1>22 DEF DriverOutputs, DriverHangsUp, ClientStarts, vars, monitor, driver,
       component, bounds
  <2>. QED
    BY <2>1 DEF AtMostOneNotification, TokenInOnePlace, OneNotification, Notified,
       Acknowledging, Looping, ErrorRequested
<1>. QED
  BY <1>1, <1>2, <1>3, <1>4, <1>5, <1>6, <1>7, <1>8, <1>9, <1>10, <1>11, <1>12,
     <1>13, <1>14, <1>15, <1>16, <1>17, <1>18, <1>19, <1>20, <1>21, <1>22
  DEF Next, MonitorThread, WorkThread

-----------------------------------------------------------------------------
(* The theorems.                                                           *)

\* A newly constructed monitor satisfies the inductive invariant: there is no thread.
LEMMA InvInit == Init => IInv
<1>. SUFFICES ASSUME Init PROVE IInv
  OBVIOUS
<1>1. TypeOK
  BY TypeInit
<1>2. DOMAIN queue = {}
  BY DEF Init
<1>. QED
  BY <1>1, <1>2 DEF Init, IInv, DescriptorsOutliveThread, SnapshotHolds, ItemHandled,
     ErrorEndsThread, ErrorRequested, HaltedIsIdle, DeadThreadIsKnown,
     AtMostOneNotification, OneNotification, TokenInOnePlace, Notified, Acknowledging,
     Looping

\* The inductive invariant is preserved: one lemma above per conjunct.
LEMMA InvNext == IInv /\ [Next]_vars => IInv'
  BY TypeNext, DescriptorsNext, SnapshotNext, ItemsNext, ErrorRequestsNext, HaltedNext,
     DeadNext, TokenNext DEF IInv

\* Every reachable state satisfies the inductive invariant.
LEMMA Invariance == Spec => []IInv
  BY InvInit, InvNext, PTL DEF Spec

\* The monitor's and the work thread's state keeps its types, whatever the bounds.
THEOREM TypeCorrect == Spec => []TypeOK
<1>1. IInv => TypeOK
  BY DEF IInv
<1>. QED
  BY <1>1, Invariance, PTL

\* V4l2OutputMonitor::Stop never closes a descriptor under the running thread.
THEOREM DescriptorsSafe == Spec => []DescriptorsOutliveThread
<1>1. IInv => DescriptorsOutliveThread
  BY DEF IInv
<1>. QED
  BY <1>1, Invariance, PTL

\* A thread that ended is told apart from a working one: by the stop flag, by the
\* recorded error, or because the component is leaving RUNNING.
THEOREM DeadThreadNoticed == Spec => []DeadThreadIsKnown
<1>1. IInv => DeadThreadIsKnown
  BY DEF IInv
<1>. QED
  BY <1>1, Invariance, PTL

\* Every acknowledgement answering a request of the running monitor, the monitor
\* has at most one notification outstanding.
THEOREM OneOutstandingNotification == Spec => []AtMostOneNotification
<1>1. IInv => AtMostOneNotification
  BY DEF IInv
<1>. QED
  BY <1>1, Invariance, PTL

-----------------------------------------------------------------------------
(* The safety halves of the liveness properties: the monitor never waits for  *)
(* something that nobody is going to do.                                      *)

Notifying == mon \in {"loop", "poll", "polled", "notify"}

\* While the monitor works and nobody stops it, readiness cannot go unnoticed: it is
\* armed, an acknowledgement that rearms it is in the eventfd, it is about to ask for
\* a drain, or one it asked for is queued or under way.
ReadinessKept ==
    (Notifying /\ ~stopping /\ request = "none" /\ ~reported) =>
        armed \/ wake > 0 \/ mon = "notify" \/ Notified

\* The thread that Stop joins is not asleep in poll with nothing to wake it.
JoinIsWoken == (wpc = "join" /\ mon = "poll") => wake > 0

\* A recorded error is asked to be reported, and the drain that is asked for it
\* always fails: it is not taken for an acknowledgement.
ErrorIsRequested ==
    /\ mon = "none" => ~error
    /\ ErrorRequested => error
    /\ ~(cur = "error" /\ wpc = "rearm")
    /\ (error /\ (~reported \/ wpc = "rearm") /\ request = "none") =>
          mon = "fail" \/ ErrorRequested

\* The item the work thread takes leaves the queue; the others keep their order.
LEMMA ItemTaken ==
    ASSUME TypeOK, TakeItem
    PROVE  /\ wpc = "idle" /\ 1 \in DOMAIN queue /\ cur' = queue[1]
           /\ cur' \in Drains => wpc' = "drain"
           /\ wpc' # "rearm"
           /\ \A i \in DOMAIN queue :
                 i = 1 \/ (i - 1 \in DOMAIN queue' /\ queue'[i - 1] = queue[i])
           /\ \A i \in DOMAIN queue' :
                 i + 1 \in DOMAIN queue /\ queue'[i] = queue[i + 1]
           /\ UNCHANGED <<request, reported, mon, armed, stopping, error, wake>>
<1>1. queue \in Seq(Messages) /\ queue # <<>> /\ queue' = Tail(queue)
  BY DEF TypeOK, TakeItem
<1>2. /\ wpc = "idle" /\ cur' = queue[1] /\ wpc' # "rearm"
      /\ cur' \in Drains => wpc' = "drain"
  <2>1. Head(queue) = queue[1]
    BY <1>1, HeadAndTail
  <2>. QED
    BY <2>1 DEF TakeItem, Drains
<1>3. 1 \in DOMAIN queue
  BY <1>1, HeadAndTail
<1>4. ASSUME NEW i \in DOMAIN queue, i # 1
      PROVE  i - 1 \in DOMAIN queue' /\ queue'[i - 1] = queue[i]
  BY <1>1, <1>4
<1>5. ASSUME NEW i \in DOMAIN queue'
      PROVE  i + 1 \in DOMAIN queue /\ queue'[i] = queue[i + 1]
  BY <1>1, <1>5
<1>6. UNCHANGED <<request, reported, mon, armed, stopping, error, wake>>
  BY DEF TakeItem, monitor
<1>. QED
  BY <1>2, <1>3, <1>4, <1>5, <1>6

\* No step of the monitor, the work thread or the client loses the right to notify.
LEMMA ReadinessNext ==
    ASSUME TypeOK, DescriptorsOutliveThread, ItemHandled, ReadinessKept, [Next]_vars
    PROVE  ReadinessKept'
<1>1. CASE MonitorLoop
  BY <1>1 DEF ReadinessKept, Notifying, Notified, Acknowledging, MonitorLoop, driver,
     component, bounds
<1>2. CASE MonitorPoll
  BY <1>2 DEF ReadinessKept, Notifying, Notified, Acknowledging, MonitorPoll, driver,
     component, bounds
<1>3. CASE MonitorPollFails
  BY <1>3 DEF ReadinessKept, Notifying, Notified, Acknowledging, MonitorPollFails,
     driver, component
<1>4. CASE MonitorDispatch
  BY <1>4 DEF ReadinessKept, Notifying, Notified, Acknowledging, MonitorDispatch,
     driver, component, bounds
<1>5. CASE MonitorNotify
  BY <1>5, AppendToQueue DEF ReadinessKept, Notifying, Notified, Acknowledging,
     MonitorNotify, TypeOK, Messages, Drains
<1>6. CASE MonitorFail
  BY <1>6 DEF ReadinessKept, Notifying, Notified, Acknowledging, MonitorFail, driver,
     bounds
<1>7. CASE TakeItem
  <2>1. ~Acknowledging
    BY <1>7 DEF TakeItem, Acknowledging
  <2>2. ASSUME NEW i \in DOMAIN queue, queue[i] = "ready"
        PROVE  Notified'
    <3>1. CASE i = 1
      BY <1>7, <2>2, <3>1, ItemTaken DEF Notified, Acknowledging, Drains
    <3>2. CASE i # 1
      BY <1>7, <2>2, <3>2, ItemTaken DEF Notified
    <3>. QED
      BY <3>1, <3>2
  <2>3. Notified => Notified'
    BY <2>1, <2>2 DEF Notified
  <2>. QED
    BY <1>7, <2>3, ItemTaken DEF ReadinessKept, Notifying
<1>8. CASE StartMonitor
  BY <1>8 DEF ReadinessKept, Notifying, Notified, Acknowledging, StartMonitor,
     ItemHandled, monitor
<1>9. CASE StartMonitorFails
  BY <1>9 DEF ReadinessKept, Notifying, Notified, Acknowledging, StartMonitorFails
<1>10. CASE DrainOutput
  BY <1>10 DEF ReadinessKept, Notifying, Notified, Acknowledging, DrainOutput,
     TakesOutput, monitor
<1>11. CASE DrainFails
  BY <1>11 DEF ReadinessKept, Notifying, Notified, Acknowledging, DrainFails,
     TakesOutput
<1>12. CASE Rearm
  BY <1>12 DEF ReadinessKept, Notifying, Notified, Acknowledging, Rearm, TypeOK,
     DescriptorsOutliveThread
<1>13. CASE StopSetsFlag \/ StopWakes
  BY <1>13 DEF ReadinessKept, Notifying, Notified, Acknowledging, StopSetsFlag,
     StopWakes, ItemHandled
<1>14. CASE StopJoins
  BY <1>14 DEF ReadinessKept, Notifying, Notified, Acknowledging, StopJoins
<1>15. CASE EosSteps
  BY <1>15 DEF ReadinessKept, Notifying, Notified, Acknowledging, EosSteps,
     StartEosDrain, StartEosDrainFails, EosDrained, EosGivesUp, EosFails,
     TakesOutput, monitor,
     TypeOK
<1>16. CASE SessionReset
  BY <1>16 DEF ReadinessKept, Notifying, Notified, Acknowledging, SessionReset,
     ItemHandled, monitor
<1>17. CASE TakeRequest
  BY <1>17 DEF ReadinessKept, Notifying, Notified, Acknowledging, TakeRequest
<1>18. CASE ClientSubmits \/ ClientDrains
  <2>1. UNCHANGED <<mon, stopping, request, reported, armed, wake, cur, wpc>>
    BY <1>18 DEF ClientSubmits, ClientDrains, Enqueue, monitor
  <2>2. PICK m \in {"work", "eos", "client", "drainEos"} : queue' = Append(queue, m)
    BY <1>18 DEF ClientSubmits, ClientDrains, Enqueue
  <2>3. \A i \in DOMAIN queue : i \in DOMAIN queue' /\ queue'[i] = queue[i]
    BY <2>2 DEF TypeOK
  <2>4. Notified => Notified'
    BY <2>1, <2>3 DEF Notified, Acknowledging
  <2>. QED
    BY <2>1, <2>4 DEF ReadinessKept, Notifying
<1>19. CASE ClientResets
  BY <1>19 DEF ReadinessKept, Notifying, Notified, Acknowledging, ClientResets
<1>20. CASE DriverOutputs \/ DriverHangsUp \/ ClientStarts \/ UNCHANGED vars
  <2>1. UNCHANGED <<mon, stopping, request, reported, armed, wake, cur, wpc, queue>>
    BY <1>20 DEF DriverOutputs, DriverHangsUp, ClientStarts, vars, monitor, driver,
       component, bounds
  <2>. QED
    BY <2>1 DEF ReadinessKept, Notifying, Notified, Acknowledging
<1>. QED
  BY <1>1, <1>2, <1>3, <1>4, <1>5, <1>6, <1>7, <1>8, <1>9, <1>10, <1>11, <1>12, <1>13,
     <1>14, <1>15, <1>16, <1>17, <1>18, <1>19, <1>20
  DEF Next, MonitorThread, WorkThread

\* Stop wakes the thread before it joins it, and a woken thread leaves.
LEMMA JoinNext ==
    ASSUME TypeOK, DescriptorsOutliveThread, ItemHandled, JoinIsWoken, [Next]_vars
    PROVE  JoinIsWoken'
<1>1. CASE MonitorLoop
  BY <1>1 DEF JoinIsWoken, MonitorLoop, ItemHandled, component, bounds
<1>2. CASE MonitorPoll \/ MonitorPollFails \/ MonitorNotify \/ MonitorFail
  BY <1>2 DEF JoinIsWoken, MonitorPoll, MonitorPollFails, MonitorNotify, MonitorFail
<1>3. CASE MonitorDispatch
  BY <1>3 DEF JoinIsWoken, MonitorDispatch, ItemHandled, component
<1>4. CASE TakeItem
  BY <1>4 DEF JoinIsWoken, TakeItem
<1>5. CASE StartMonitor
  BY <1>5 DEF JoinIsWoken, StartMonitor
<1>6. CASE StartMonitorFails
  BY <1>6 DEF JoinIsWoken, StartMonitorFails
<1>7. CASE DrainOutput \/ DrainFails \/ Rearm \/ StopSetsFlag
  BY <1>7 DEF JoinIsWoken, DrainOutput, TakesOutput, DrainFails, Rearm, StopSetsFlag
<1>8. CASE StopWakes
  BY <1>8 DEF JoinIsWoken, StopWakes, TypeOK, DescriptorsOutliveThread
<1>9. CASE StopJoins \/ EosSteps \/ SessionReset \/ TakeRequest
  BY <1>9 DEF JoinIsWoken, StopJoins, EosSteps, StartEosDrain,
     StartEosDrainFails, EosDrained, EosGivesUp, EosFails, TakesOutput,
     SessionReset, TakeRequest
<1>10. CASE DriverOutputs \/ DriverHangsUp \/ ClientSubmits \/ ClientDrains \/
          ClientResets \/ ClientStarts \/ UNCHANGED vars
  <2>1. UNCHANGED <<mon, wpc, wake>>
    BY <1>10 DEF DriverOutputs, DriverHangsUp, ClientSubmits, ClientDrains,
       ClientResets, ClientStarts, Enqueue, vars, monitor, driver, component, bounds
  <2>. QED
    BY <2>1 DEF JoinIsWoken
<1>. QED
  BY <1>1, <1>2, <1>3, <1>4, <1>5, <1>6, <1>7, <1>8, <1>9, <1>10
  DEF Next, MonitorThread, WorkThread

\* From the error flag to the queued request to the failing drain.
LEMMA ErrorNext ==
    ASSUME TypeOK, ItemHandled, ErrorEndsThread, HaltedIsIdle, ErrorIsRequested,
           [Next]_vars
    PROVE  ErrorIsRequested'
<1>1. CASE MonitorLoop \/ MonitorPoll \/ MonitorPollFails
  BY <1>1 DEF ErrorIsRequested, ErrorRequested, MonitorLoop, MonitorPoll,
     MonitorPollFails, component
<1>2. CASE MonitorDispatch
  BY <1>2 DEF ErrorIsRequested, ErrorRequested, MonitorDispatch, ErrorEndsThread,
     component
<1>3. CASE MonitorNotify
  BY <1>3, AppendToQueue DEF ErrorIsRequested, ErrorRequested, MonitorNotify, TypeOK,
     Messages, Drains, ErrorEndsThread
<1>4. CASE MonitorFail
  BY <1>4, AppendToQueue DEF ErrorIsRequested, ErrorRequested, MonitorFail, TypeOK,
     Messages, Drains, ErrorEndsThread, HaltedIsIdle
<1>5. CASE TakeItem
  <2>1. ASSUME NEW i \in DOMAIN queue, queue[i] = "error"
        PROVE  ErrorRequested'
    <3>1. CASE i = 1
      BY <1>5, <2>1, <3>1, ItemTaken DEF ErrorRequested, Drains
    <3>2. CASE i # 1
      BY <1>5, <2>1, <3>2, ItemTaken DEF ErrorRequested
    <3>. QED
      BY <3>1, <3>2
  <2>2. ErrorRequested => ErrorRequested'
    BY <1>5, <2>1, ItemTaken DEF ErrorRequested
  <2>3. ErrorRequested' => ErrorRequested
    BY <1>5, ItemTaken DEF ErrorRequested
  <2>. QED
    BY <1>5, <2>2, <2>3, ItemTaken DEF ErrorIsRequested
<1>6. CASE StartMonitor
  BY <1>6 DEF ErrorIsRequested, ErrorRequested, StartMonitor, ItemHandled,
     ErrorEndsThread, monitor
<1>7. CASE StartMonitorFails
  BY <1>7 DEF ErrorIsRequested, ErrorRequested, StartMonitorFails, ItemHandled,
     monitor
<1>8. CASE DrainOutput
  BY <1>8 DEF ErrorIsRequested, ErrorRequested, DrainOutput, TakesOutput,
     monitor, TypeOK
<1>9. CASE DrainFails
  BY <1>9 DEF ErrorIsRequested, ErrorRequested, DrainFails, TakesOutput, monitor
<1>10. CASE Rearm
  BY <1>10 DEF ErrorIsRequested, ErrorRequested, Rearm
<1>11. CASE StopSetsFlag \/ StopWakes
  BY <1>11 DEF ErrorIsRequested, ErrorRequested, StopSetsFlag, StopWakes
<1>12. CASE StopJoins
  BY <1>12, OutdatedRenames DEF ErrorIsRequested, ErrorRequested, StopJoins, TypeOK
<1>13. CASE EosSteps
  BY <1>13 DEF ErrorIsRequested, ErrorRequested, EosSteps, StartEosDrain,
     StartEosDrainFails, EosDrained, EosGivesUp, EosFails, TakesOutput, TypeOK,
     monitor
<1>14. CASE SessionReset
  BY <1>14 DEF ErrorIsRequested, ErrorRequested, SessionReset, ItemHandled, monitor
<1>15. CASE TakeRequest
  BY <1>15 DEF ErrorIsRequested, ErrorRequested, TakeRequest, monitor
<1>16. CASE ClientSubmits \/ ClientDrains
  <2>1. PICK m \in {"work", "eos", "client", "drainEos"} : queue' = Append(queue, m)
    BY <1>16 DEF ClientSubmits, ClientDrains, Enqueue
  <2>2. UNCHANGED <<mon, error, request, reported, cur, wpc>>
    BY <1>16 DEF ClientSubmits, ClientDrains, Enqueue, monitor
  <2>3. /\ Len(queue) \in Nat
        /\ \A i \in DOMAIN queue : i \in DOMAIN queue' /\ queue'[i] = queue[i]
        /\ \A i \in DOMAIN queue' : i \in DOMAIN queue \/ queue'[i] = m
    BY <2>1 DEF TypeOK
  <2>4. ErrorRequested' <=> ErrorRequested
    BY <2>2, <2>3 DEF ErrorRequested
  <2>. QED
    BY <2>2, <2>4 DEF ErrorIsRequested
<1>17. CASE ClientResets
  BY <1>17 DEF ErrorIsRequested, ErrorRequested, ClientResets, TypeOK, monitor
<1>18. CASE DriverOutputs \/ DriverHangsUp \/ ClientStarts \/ UNCHANGED vars
  <2>1. UNCHANGED <<mon, error, request, reported, cur, wpc, queue>>
    BY <1>18 DEF DriverOutputs, DriverHangsUp, ClientStarts, vars, monitor, driver,
       component, bounds
  <2>. QED
    BY <2>1 DEF ErrorIsRequested, ErrorRequested
<1>. QED
  BY <1>1, <1>2, <1>3, <1>4, <1>5, <1>6, <1>7, <1>8, <1>9, <1>10, <1>11, <1>12, <1>13,
     <1>14, <1>15, <1>16, <1>17, <1>18
  DEF Next, MonitorThread, WorkThread

\* No wake-up is lost: a monitor that is neither stopped nor given up on is armed, will
\* be rearmed, or has asked for a drain.  It is what ReadyOutputIsDrained rests on.
THEOREM NoWakeupLost == Spec => []ReadinessKept
<1>1. Init => ReadinessKept
  BY DEF Init, ReadinessKept, Notifying
<1>2. IInv /\ ReadinessKept /\ [Next]_vars => ReadinessKept'
  BY ReadinessNext DEF IInv
<1>. QED
  BY <1>1, <1>2, Invariance, PTL DEF Spec

\* V4l2OutputMonitor::Stop never joins a thread that sleeps with nothing to wake it: the
\* deadlock that StopReturns excludes.
THEOREM JoinedThreadIsWoken == Spec => []JoinIsWoken
<1>1. Init => JoinIsWoken
  BY DEF Init, JoinIsWoken
<1>2. IInv /\ JoinIsWoken /\ [Next]_vars => JoinIsWoken'
  BY JoinNext DEF IInv
<1>. QED
  BY <1>1, <1>2, Invariance, PTL DEF Spec

\* An error the monitor records is on its way to the client until it is reported or a
\* flush or stop overtakes it.  It is what HangUpIsReported rests on.
THEOREM RecordedErrorIsRequested == Spec => []ErrorIsRequested
<1>1. Init => ErrorIsRequested
  <2>. SUFFICES ASSUME Init PROVE ErrorIsRequested
    OBVIOUS
  <2>1. DOMAIN queue = {}
    BY DEF Init
  <2>. QED
    BY <2>1 DEF Init, ErrorIsRequested, ErrorRequested
<1>2. IInv /\ ErrorIsRequested /\ [Next]_vars => ErrorIsRequested'
  BY ErrorNext DEF IInv
<1>. QED
  BY <1>1, <1>2, Invariance, PTL DEF Spec

=============================================================================

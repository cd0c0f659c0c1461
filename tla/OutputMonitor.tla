---------------------------- MODULE OutputMonitor ----------------------------
(***************************************************************************)
(* V4l2OutputMonitor: the thread that waits for encoded output and asks    *)
(* the component's work thread to drain it, together with the three        *)
(* parties it meets: the work thread that starts, rearms and stops it      *)
(* (FloralCodecComponent on SimpleC2Component's looper), the driver that   *)
(* makes the capture fd readable, and the client that submits, drains,     *)
(* flushes and stops.                                                      *)
(*                                                                         *)
(* The monitor and the work thread share an eventfd counter (wake) and two *)
(* atomics (stopping, error); the monitor's poll is a snapshot (revents)   *)
(* that may be stale when it is used.                                      *)
(***************************************************************************)
EXTENDS Naturals, Sequences

CONSTANTS
    MaxWorks,         \* bound: frames the client submits
    MaxClientDrains,  \* bound: drain_nb calls of the client
    MaxResets,        \* bound: flushes and stops of the client
    MaxFaults,        \* bound: failing polls, starts, output allocations
    MayHangUp         \* the device may report POLLERR or POLLHUP

ASSUME MonitorConstants ==
    /\ MaxWorks \in Nat /\ MaxClientDrains \in Nat
    /\ MaxResets \in Nat /\ MaxFaults \in Nat
    /\ MayHangUp \in BOOLEAN

VARIABLES
    mon,       \* thread_: "none" when not joinable, else its program point
    armed,     \* the thread's local flag: the device is in its poll set
    revents,   \* what its last poll returned
    stopping, error, \* stopping_, error_
    wake,      \* the eventfd's counter
    fds        \* device_ and wake_ are open
monitor == <<mon, armed, revents, stopping, error, wake, fds>>

VARIABLES
    coded,     \* frames the firmware has still to output
    ready,     \* capture buffers that DQBUF would return
    hup,       \* the device fd reports an error
    stream     \* the session: "new" before its first frame, "coding", "stopped" by
               \* V4L2_ENC_CMD_STOP, "ended" when it has taken its end of stream
driver == <<coded, ready, hup, stream>>

VARIABLES
    queue,     \* the component's work queue, drain requests included
    wpc, cur,  \* the work thread's program point and the item it handles
    request,   \* a flush or stop the looper has still to handle
    running,   \* the component's state is RUNNING: drain_nb succeeds
    signalled, \* signalled_error_ or signalled_eos_
    reported   \* an error was reported to the client and no start, rearm or reset
               \* has got the monitor going since
component == <<queue, wpc, cur, request, running, signalled, reported>>

VARIABLES
    foreignAck, \* history: a drain this monitor did not ask for rearmed it
    works, drains, resets, faults
bounds == <<foreignAck, works, drains, resets, faults>>

vars == <<monitor, driver, component, bounds>>

Quiet == [wake |-> FALSE, input |-> FALSE, bad |-> FALSE]

\* Drain requests: "ready" and "error" come from the running monitor, "stale"
\* from one that was stopped since, "client" from the client.
Drains == {"ready", "error", "stale", "client"}
Messages == Drains \cup {"work", "eos", "drainEos"}

Init ==
    /\ mon = "none" /\ armed = FALSE /\ revents = Quiet
    /\ stopping = FALSE /\ error = FALSE /\ wake = 0 /\ fds = FALSE
    /\ coded = 0 /\ ready = 0 /\ hup = FALSE /\ stream = "new"
    /\ queue = <<>> /\ wpc = "idle" /\ cur = "none" /\ request = "none"
    /\ running = TRUE /\ signalled = FALSE /\ reported = FALSE
    /\ foreignAck = FALSE /\ works = 0 /\ drains = 0 /\ resets = 0 /\ faults = 0

-----------------------------------------------------------------------------
(* The monitor thread.                                                     *)

MonitorLoop ==
    /\ mon = "loop"
    /\ mon' = IF stopping THEN "exited" ELSE "poll"
    /\ UNCHANGED <<armed, revents, stopping, error, wake, fds, driver, component, bounds>>

\* poll(-1) blocks until the eventfd or, while armed, the device is ready.
MonitorPoll ==
    LET events == [wake |-> wake > 0, input |-> armed /\ ready > 0,
                   bad |-> armed /\ hup] IN
    /\ mon = "poll" /\ events # Quiet
    /\ revents' = events
    /\ mon' = "polled"
    /\ UNCHANGED <<armed, stopping, error, wake, fds, driver, component, bounds>>

MonitorPollFails ==
    /\ mon = "poll" /\ faults < MaxFaults
    /\ faults' = faults + 1
    /\ mon' = "polled"
    /\ revents' = [wake |-> FALSE, input |-> FALSE, bad |-> TRUE]
    /\ UNCHANGED <<armed, stopping, error, wake, fds, driver, component,
                   foreignAck, works, drains, resets>>

\* Mutant: every pass takes one count off the eventfd, signalled or not.
MonitorDispatchCountsDown ==
    /\ mon = "polled"
    /\ IF stopping THEN mon' = "exited" /\ UNCHANGED <<armed, error, wake>>
       ELSE IF revents.bad THEN mon' = "fail" /\ error' = TRUE /\ UNCHANGED <<armed, wake>>
       ELSE /\ wake' = wake - 1
            /\ armed' = ((armed \/ revents.wake) /\ ~revents.input)
            /\ mon' = IF revents.input THEN "notify" ELSE "loop"
            /\ UNCHANGED error
    /\ revents' = Quiet
    /\ UNCHANGED <<stopping, fds, driver, component, bounds>>

\* Mutant: the monitor stays armed after it has asked for a drain.
MonitorDispatchStaysArmed ==
    /\ mon = "polled"
    /\ IF stopping THEN mon' = "exited" /\ UNCHANGED <<armed, error, wake>>
       ELSE IF revents.bad THEN mon' = "fail" /\ error' = TRUE /\ UNCHANGED <<armed, wake>>
       ELSE /\ wake' = IF revents.wake THEN 0 ELSE wake
            /\ armed' = (armed \/ revents.wake)
            /\ mon' = IF revents.input THEN "notify" ELSE "loop"
            /\ UNCHANGED error
    /\ revents' = Quiet
    /\ UNCHANGED <<stopping, fds, driver, component, bounds>>

\* After the poll: leave if stopping, record an error, else consume the wake-up
\* (which rearms) and then disarm and notify if the device was readable.
MonitorDispatch ==
    /\ mon = "polled"
    /\ IF stopping THEN mon' = "exited" /\ UNCHANGED <<armed, error, wake>>
       ELSE IF revents.bad THEN mon' = "fail" /\ error' = TRUE /\ UNCHANGED <<armed, wake>>
       ELSE /\ wake' = IF revents.wake THEN 0 ELSE wake
            /\ armed' = ((armed \/ revents.wake) /\ ~revents.input)
            /\ mon' = IF revents.input THEN "notify" ELSE "loop"
            /\ UNCHANGED error
    /\ revents' = Quiet
    /\ UNCHANGED <<stopping, fds, driver, component, bounds>>

\* Mutant: the thread ends when requestDrain succeeds.
MonitorNotifyInverted ==
    /\ mon = "notify"
    /\ mon' = IF running THEN "exited" ELSE "loop"
    /\ queue' = IF running THEN Append(queue, "ready") ELSE queue
    /\ UNCHANGED <<armed, revents, stopping, error, wake, fds, driver, wpc, cur, request,
                   running, signalled, reported, bounds>>

\* requestDrain is drain_nb(DRAIN_COMPONENT_NO_EOS): it queues a drain while the
\* component runs and fails otherwise, and a failure ends the thread.
MonitorNotify ==
    /\ mon = "notify"
    /\ mon' = IF running THEN "loop" ELSE "exited"
    /\ queue' = IF running THEN Append(queue, "ready") ELSE queue
    /\ UNCHANGED <<armed, revents, stopping, error, wake, fds, driver, wpc, cur, request,
                   running, signalled, reported, bounds>>

\* Mutant: the thread ends on an error without telling the work thread.
MonitorFailSilently ==
    /\ mon = "fail"
    /\ mon' = "exited"
    /\ UNCHANGED <<armed, revents, stopping, error, wake, fds, driver, component, bounds>>

MonitorFail ==
    /\ mon = "fail"
    /\ mon' = "exited"
    /\ queue' = IF running THEN Append(queue, "error") ELSE queue
    /\ UNCHANGED <<armed, revents, stopping, error, wake, fds, driver, wpc, cur, request,
                   running, signalled, reported, bounds>>

MonitorThread == MonitorLoop \/ MonitorPoll \/ MonitorPollFails \/ MonitorDispatch
                 \/ MonitorNotify \/ MonitorFail

-----------------------------------------------------------------------------
(* The work thread.                                                        *)

\* process() and drain() begin.  A failed or ended session refuses work.
TakeItem ==
    /\ wpc = "idle" /\ queue # <<>> /\ running /\ request = "none"
    /\ cur' = Head(queue)
    /\ queue' = Tail(queue)
    /\ LET m == Head(queue)
           refused == m \in {"work", "eos"} /\ signalled IN
       /\ \/ refused /\ wpc' = "idle"
          \/ ~refused /\ m = "work" /\ wpc' = "start"
          \/ ~refused /\ m \in {"eos", "drainEos"} /\ wpc' = "stop"
          \/ m \in Drains /\ wpc' = "drain"
       /\ IF m = "work" /\ ~refused
          THEN /\ coded' = coded + 1
               /\ stream' = IF stream = "new" THEN "coding" ELSE stream
          ELSE UNCHANGED <<coded, stream>>
    /\ UNCHANGED <<ready, hup, request, running, signalled, reported, monitor, bounds>>

\* StartEncoderDrain has been called on the session since it was opened.
Draining == stream \in {"stopped", "ended"}

\* V4l2OutputMonitor::Start: a joinable thread, running or not, is left alone.
StartMonitor ==
    /\ wpc = "start" /\ ~Draining
    /\ wpc' = "drain"
    /\ IF mon # "none" THEN UNCHANGED <<monitor, reported>>
       ELSE /\ fds' = TRUE /\ wake' = 0
            /\ stopping' = FALSE /\ error' = FALSE
            /\ mon' = "loop" /\ armed' = TRUE /\ revents' = Quiet
            /\ reported' = FALSE
    /\ UNCHANGED <<driver, queue, cur, request, running, signalled, bounds>>

\* A session that drains is refused; or the thread or its descriptors cannot be had.
StartMonitorFails ==
    /\ wpc = "start"
    /\ \/ Draining /\ UNCHANGED faults
       \/ mon = "none" /\ faults < MaxFaults /\ faults' = faults + 1
    /\ wpc' = "idle"
    /\ signalled' = TRUE /\ reported' = TRUE
    /\ UNCHANGED <<monitor, driver, queue, cur, request, running,
                   foreignAck, works, drains, resets>>

\* DQBUF takes part of what is ready, and after the last frame of a stopped stream
\* perhaps its LAST buffer.
TakesOutput ==
    /\ ready' \in 0 .. ready
    /\ \/ UNCHANGED stream
       \/ stream = "stopped" /\ coded = 0 /\ ready' = 0 /\ stream' = "ended"
    /\ UNCHANGED <<coded, hup>>

\* DrainV4l2Encoder without waiting: DQBUF until EAGAIN, publish.  A recorded
\* monitor error or a failed allocation ends process() or drain() instead.
DrainOutput ==
    /\ wpc = "drain" /\ ~error
    /\ TakesOutput /\ ready' = 0
    /\ wpc' = IF cur = "work" THEN "idle" ELSE "rearm"
    /\ UNCHANGED <<monitor, queue, cur, request, running, signalled, reported, bounds>>

DrainFails ==
    /\ wpc = "drain"
    /\ error \/ faults < MaxFaults
    /\ faults' = IF error THEN faults ELSE faults + 1
    /\ TakesOutput
    /\ wpc' = "idle"
    /\ signalled' = (signalled \/ cur = "work")
    /\ reported' = TRUE
    /\ UNCHANGED <<monitor, queue, cur, request, running,
                   foreignAck, works, drains, resets>>

\* Mutant: the acknowledgement is only written while output is left over.
RearmIfReady ==
    /\ wpc = "rearm"
    /\ wpc' = "idle"
    /\ wake' = IF fds /\ ready > 0 THEN wake + 1 ELSE wake
    /\ reported' = (reported /\ ~fds)
    /\ foreignAck' = (foreignAck \/ (fds /\ cur \in {"client", "stale"}))
    /\ UNCHANGED <<mon, armed, revents, stopping, error, fds, driver, queue, cur, request,
                   running, signalled, works, drains, resets, faults>>

\* RearmEncoderOutputMonitor, the last step of every NO_EOS drain.
Rearm ==
    /\ wpc = "rearm"
    /\ wpc' = "idle"
    /\ wake' = IF fds THEN wake + 1 ELSE wake
    /\ reported' = (reported /\ ~fds)
    /\ foreignAck' = (foreignAck \/ (fds /\ cur \in {"client", "stale"}))
    /\ UNCHANGED <<mon, armed, revents, stopping, error, fds, driver, queue, cur, request,
                   running, signalled, works, drains, resets, faults>>

\* V4l2OutputMonitor::Stop: the flag, the wake-up, the join, the close.
StopSetsFlag ==
    /\ wpc = "stop"
    /\ stopping' = TRUE
    /\ wpc' = "wakeup"
    /\ UNCHANGED <<mon, armed, revents, error, wake, fds, driver, queue, cur, request,
                   running, signalled, reported, bounds>>

\* Mutant: the thread is left to notice the flag by itself.
StopDoesNotWake ==
    /\ wpc = "wakeup"
    /\ wpc' = "join"
    /\ UNCHANGED <<monitor, driver, queue, cur, request, running, signalled, reported,
                   bounds>>

\* Mutant: the descriptors are closed before the thread has ended.
StopClosesEarly ==
    /\ wpc = "wakeup"
    /\ wake' = IF fds THEN wake + 1 ELSE wake
    /\ fds' = FALSE
    /\ wpc' = "join"
    /\ UNCHANGED <<mon, armed, revents, stopping, error, driver, queue, cur, request,
                   running, signalled, reported, bounds>>

StopWakes ==
    /\ wpc = "wakeup"
    /\ wake' = IF fds THEN wake + 1 ELSE wake
    /\ wpc' = "join"
    /\ UNCHANGED <<mon, armed, revents, stopping, error, fds, driver, queue, cur, request,
                   running, signalled, reported, bounds>>

\* Requests of the ended monitor stay queued; the next one did not make them.
Outdated(q) == [i \in DOMAIN q |-> IF q[i] \in {"ready", "error"} THEN "stale" ELSE q[i]]

StopJoins ==
    /\ wpc = "join" /\ mon \in {"none", "exited"}
    /\ mon' = "none" /\ armed' = FALSE /\ revents' = Quiet
    /\ fds' = FALSE /\ wake' = 0 /\ error' = FALSE
    /\ queue' = Outdated(queue)
    /\ wpc' = IF cur \in {"eos", "drainEos"} THEN "eosStart" ELSE "closed"
    /\ UNCHANGED <<stopping, driver, cur, request, running, signalled, reported, bounds>>

\* StartEncoderDrain, the monitor being stopped: V4L2_ENC_CMD_STOP, once.
StartEosDrain ==
    /\ wpc = "eosStart"
    /\ wpc' = "eosDrain"
    /\ stream' = IF stream = "coding" THEN "stopped" ELSE stream
    /\ UNCHANGED <<monitor, coded, ready, hup, queue, cur, request, running, signalled,
                   reported, bounds>>

StartEosDrainFails ==
    /\ wpc = "eosStart" /\ stream = "coding" /\ faults < MaxFaults
    /\ faults' = faults + 1
    /\ wpc' = "idle"
    /\ signalled' = (signalled \/ cur = "eos")
    /\ reported' = TRUE
    /\ UNCHANGED <<monitor, driver, queue, cur, request, running,
                   foreignAck, works, drains, resets>>

\* The end of stream is reached, at once if the session never had a frame.  A
\* WITH_EOS drain flushes the session, an EOS work item ends the component.
EosDrained ==
    /\ wpc = "eosDrain"
    /\ stream = "new" \/ (stream = "stopped" /\ coded = 0)
    /\ coded' = 0 /\ ready' = 0
    /\ \/ cur = "drainEos" /\ stream' = "new" /\ hup' = FALSE /\ UNCHANGED signalled
       \/ cur = "eos" /\ stream' = "ended" /\ signalled' = TRUE /\ UNCHANGED hup
    /\ wpc' = "idle"
    /\ UNCHANGED <<monitor, queue, cur, request, running, reported, bounds>>

\* The wait also polls POLLOUT: an input the driver returns ends it, and the end of
\* stream is given up with C2_NOT_FOUND; so does a poll after LAST, or POLLERR.  The
\* EOS work item times out, the WITH_EOS drain returns C2_OK and flushes nothing.
EosGivesUp ==
    /\ wpc = "eosDrain" /\ Draining
    /\ ready' = 0
    /\ signalled' = (signalled \/ cur = "eos")
    /\ reported' = (reported \/ cur = "eos")
    /\ wpc' = "idle"
    /\ UNCHANGED <<monitor, coded, hup, stream, queue, cur, request, running, bounds>>

\* The wait times out, or DQBUF or the output allocation fails.
EosFails ==
    /\ wpc = "eosDrain" /\ Draining
    /\ \/ hup /\ UNCHANGED faults
       \/ faults < MaxFaults /\ faults' = faults + 1
    /\ TakesOutput
    /\ signalled' = (signalled \/ cur = "eos")
    /\ reported' = TRUE
    /\ wpc' = "idle"
    /\ UNCHANGED <<monitor, queue, cur, request, running,
                   foreignAck, works, drains, resets>>

\* The rest of onFlush_sm and onStop: the session is closed, and after a flush
\* open again.  A stopped component stays stopped until the client starts it.
SessionReset ==
    /\ wpc = "closed"
    /\ coded' = 0 /\ ready' = 0 /\ hup' = FALSE /\ stream' = "new"
    /\ signalled' = FALSE /\ reported' = FALSE
    /\ request' = "none"
    /\ wpc' = "idle"
    /\ UNCHANGED <<monitor, queue, cur, running, bounds>>

TakeRequest ==
    /\ wpc = "idle" /\ request # "none"
    /\ cur' = request
    /\ wpc' = "stop"
    /\ UNCHANGED <<monitor, driver, queue, request, running, signalled, reported, bounds>>

EosSteps == StartEosDrain \/ StartEosDrainFails \/ EosDrained \/ EosGivesUp \/ EosFails

WorkThread ==
    \/ TakeItem \/ StartMonitor \/ StartMonitorFails \/ DrainOutput \/ DrainFails
    \/ Rearm \/ StopSetsFlag \/ StopWakes \/ StopJoins \/ EosSteps \/ SessionReset
    \/ TakeRequest

-----------------------------------------------------------------------------
(* The driver and the client.                                              *)

DriverOutputs ==
    /\ coded > 0 /\ ~hup
    /\ coded' = coded - 1 /\ ready' = ready + 1
    /\ UNCHANGED <<monitor, hup, stream, component, bounds>>

DriverHangsUp ==
    /\ MayHangUp /\ ~hup /\ mon # "none"
    /\ hup' = TRUE
    /\ UNCHANGED <<monitor, coded, ready, stream, component, bounds>>

Enqueue(m) ==
    /\ running /\ request = "none"
    /\ queue' = Append(queue, m)
    /\ UNCHANGED <<wpc, cur, request, running, signalled, reported>>

ClientSubmits ==
    /\ works < MaxWorks
    /\ \E m \in {"work", "eos"} : Enqueue(m)
    /\ works' = works + 1
    /\ UNCHANGED <<monitor, driver, foreignAck, drains, resets, faults>>

ClientDrains ==
    /\ drains < MaxClientDrains
    /\ \E m \in {"client", "drainEos"} : Enqueue(m)
    /\ drains' = drains + 1
    /\ UNCHANGED <<monitor, driver, foreignAck, works, resets, faults>>

\* flush_sm and stop empty the queue before the looper handles them; stop
\* leaves RUNNING at once.
ClientResets ==
    /\ resets < MaxResets /\ running /\ request = "none"
    /\ resets' = resets + 1
    /\ \E r \in {"flush", "halt"} :
         /\ request' = r
         /\ running' = (r = "flush")
    /\ queue' = <<>>
    /\ UNCHANGED <<monitor, driver, wpc, cur, signalled, reported, foreignAck, works,
                   drains, faults>>

ClientStarts ==
    /\ ~running /\ request = "none" /\ wpc = "idle"
    /\ running' = TRUE
    /\ UNCHANGED <<monitor, driver, queue, wpc, cur, request, signalled, reported, bounds>>

Next == MonitorThread \/ WorkThread \/ DriverOutputs \/ DriverHangsUp
        \/ ClientSubmits \/ ClientDrains \/ ClientResets \/ ClientStarts

\* The two threads run and the firmware codes what it is given; the client may
\* stop at any time and nothing forces a fault.
Fairness ==
    /\ WF_vars(MonitorLoop \/ MonitorPoll \/ MonitorDispatch \/ MonitorNotify \/ MonitorFail)
    /\ WF_vars(WorkThread)
    /\ WF_vars(DriverOutputs)

Spec == Init /\ [][Next]_vars
FairSpec == Spec /\ Fairness

-----------------------------------------------------------------------------
(* Properties.                                                             *)

TypeOK ==
    /\ mon \in {"none", "loop", "poll", "polled", "notify", "fail", "exited"}
    /\ armed \in BOOLEAN /\ stopping \in BOOLEAN /\ error \in BOOLEAN
    /\ revents \in [wake : BOOLEAN, input : BOOLEAN, bad : BOOLEAN]
    /\ wake \in Nat /\ fds \in BOOLEAN
    /\ coded \in Nat /\ ready \in Nat /\ hup \in BOOLEAN
    /\ stream \in {"new", "coding", "stopped", "ended"}
    /\ queue \in Seq(Messages)
    /\ wpc \in {"idle", "start", "drain", "rearm", "stop", "wakeup", "join", "eosStart",
                "eosDrain", "closed"}
    /\ cur \in Messages \cup {"none", "flush", "halt"}
    /\ request \in {"none", "flush", "halt"}
    /\ running \in BOOLEAN /\ signalled \in BOOLEAN /\ reported \in BOOLEAN
    /\ foreignAck \in BOOLEAN
    /\ works \in Nat /\ drains \in Nat /\ resets \in Nat /\ faults \in Nat

\* The work thread is handling a readiness notification of the running monitor.
Acknowledging == cur = "ready" /\ wpc \in {"drain", "rearm"}
Notified == Acknowledging \/ \E i \in DOMAIN queue : queue[i] = "ready"
OneNotification ==
    /\ \A i, j \in DOMAIN queue : (queue[i] = "ready" /\ queue[j] = "ready") => i = j
    /\ \A i \in DOMAIN queue : queue[i] = "ready" => ~Acknowledging

\* Header comment on the readable branch: the monitor keeps at most one readiness
\* notification outstanding.  It holds as long as every acknowledgement answers a
\* request of the running monitor.
AtMostOneNotification == ~foreignAck => OneNotification

\* Stop closes the descriptors only after the thread has ended: no poll, read or
\* dup is ever made on a closed descriptor.
DescriptorsOutliveThread == mon \notin {"none", "exited"} => fds

\* Start takes a joinable thread for a working one.  A thread that has ended is
\* never mistaken for one: it was told to stop, reported an error, or the
\* component has left RUNNING and will stop it.
DeadThreadIsKnown == mon = "exited" => (stopping \/ error \/ request # "none")

\* Output that becomes readable is drained without a further call of the client; a
\* readiness edge during a callback is not lost, and after a failed drain the next
\* that succeeds puts the monitor back to work.  Left alone are a component in error,
\* a failure the client was told of and has not answered, and the session of a
\* WITH_EOS drain that gave up: it stays stopped and without a monitor.
ReadyOutputIsDrained ==
    (ready > 0) ~> (ready = 0 \/ signalled \/ reported \/ stream = "stopped")

\* Stop always returns: the join is never waited for by a thread that waits for
\* the joining one.
StopReturns == (wpc = "join") ~> (wpc # "join")

\* A hang-up that the monitor lives to see reaches the client.
HangUpIsReported == (hup /\ mon # "none") ~> (reported \/ mon = "none")

=============================================================================

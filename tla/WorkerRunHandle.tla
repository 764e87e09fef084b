-------------------------- MODULE WorkerRunHandle --------------------------
(***************************************************************************)
(* One WorkerRunHandle of belief/validation/worker/process.py: the parent  *)
(* threads that wait for, cancel or close one isolated worker, the child   *)
(* process, and the hard deadline.  A section under _state_lock never      *)
(* blocks on another lock of the handle (start() included), so it is one   *)
(* step; _wait_lock and _process_lock are modelled, and so is every gap    *)
(* between two reads of the child's state that no lock covers.             *)
(***************************************************************************)
EXTENDS Naturals

CONSTANTS
  Threads,   \* threads of the parent that use the handle
  Messages,  \* what the child may send: a subset of {"valid", "bad", "big", "double"}
  Nobody     \* holder of a free lock

ASSUME HandleAssumption ==
  /\ Messages \subseteq {"valid", "bad", "big", "double"}
  /\ Nobody \notin Threads

VARIABLES
  started,        \* _started
  done,           \* _done
  event,          \* _cancellation_event
  response,       \* the worker_status of _response, or "none"
  waitLock,       \* holder of _wait_lock
  processLock,    \* holder of _process_lock
  pipesClosed,    \* the response pipe of the parent is closed
  processClosed,  \* the Process object is closed
  expired,        \* the hard deadline has passed
  child,          \* the child process
  exitcode,       \* its exit code: "none", "zero" or "nonzero"
  pipe,           \* the unread content of the response pipe
  sent,           \* history: what the child sent
  pc,             \* pc[t]: where thread t is
  closing,        \* closing[t]: t is inside close()
  received,       \* response_message of the thread that holds _wait_lock
  verdict,        \* the status that this thread has decided on
  result          \* result[t]: what t's last call returned or raised

handle == <<started, done, event, response>>
resources == <<pipesClosed, processClosed>>
process == <<child, exitcode, pipe, sent>>
locals == <<received, verdict>>
vars == <<started, done, event, response, waitLock, processLock, pipesClosed,
          processClosed, expired, child, exitcode, pipe, sent, pc, closing,
          received, verdict, result>>

Statuses == {"completed", "cancelled", "timed_out", "crashed", "inconclusive"}
Waiting == {"start", "loop", "poll", "receive", "exit", "decide", "grace", "consume",
            "joining", "joined", "alive", "validated", "terminate",
            "connections", "process", "finish", "answer"}
Cancelling == {"cancel", "lock_process", "join", "killed"}
Places == {"idle", "begin", "wait"} \cup Waiting \cup Cancelling

Alive == child \in {"running", "closing"}

Init ==
  /\ started = FALSE
  /\ done = FALSE
  /\ event = FALSE
  /\ response = "none"
  /\ waitLock = Nobody
  /\ processLock = Nobody
  /\ pipesClosed = FALSE
  /\ processClosed = FALSE
  /\ expired = FALSE
  /\ child = "unborn"
  /\ exitcode = "none"
  /\ pipe = "empty"
  /\ sent = "nothing"
  /\ pc = [t \in Threads |-> "idle"]
  /\ closing = [t \in Threads |-> FALSE]
  /\ received = "nothing"
  /\ verdict = "none"
  /\ result = [t \in Threads |-> "none"]

Goto(t, place) ==
  /\ pc' = [pc EXCEPT ![t] = place]
  /\ UNCHANGED <<closing, result>>

Return(t, value) ==
  /\ pc' = [pc EXCEPT ![t] = "idle"]
  /\ closing' = [closing EXCEPT ![t] = FALSE]
  /\ result' = [result EXCEPT ![t] = value]

-----------------------------------------------------------------------------
(* The calls, and cancel().                                                *)

CallStart(t) ==
  /\ pc[t] = "idle"
  /\ Goto(t, "begin")
  /\ UNCHANGED <<handle, waitLock, processLock, resources, expired, process, locals>>

CallWait(t) ==
  /\ pc[t] = "idle"
  /\ Goto(t, "wait")
  /\ UNCHANGED <<handle, waitLock, processLock, resources, expired, process, locals>>

CallCancel(t) ==
  /\ pc[t] = "idle"
  /\ Goto(t, "cancel")
  /\ UNCHANGED <<handle, waitLock, processLock, resources, expired, process, locals>>

CallClose(t) ==
  /\ pc[t] = "idle"
  /\ pc' = [pc EXCEPT ![t] = IF done THEN "wait" ELSE "cancel"]
  /\ closing' = [closing EXCEPT ![t] = TRUE]
  /\ UNCHANGED <<handle, waitLock, processLock, resources, expired, process, locals,
                 result>>

\* close() goes on to wait() whatever cancel() answered
Answer(t, value) ==
  IF closing[t] THEN Goto(t, "wait") ELSE Return(t, value)

TooLate(t) ==
  /\ pc[t] = "cancel"
  /\ done
  /\ Answer(t, "false")
  /\ UNCHANGED <<handle, waitLock, processLock, resources, expired, process, locals>>

\* mutant: cancel() does not look at _done
SignalFinished(t) ==
  /\ pc[t] = "cancel"
  /\ event' = TRUE
  /\ IF started THEN Goto(t, "lock_process") ELSE Answer(t, "true")
  /\ UNCHANGED <<started, done, response, waitLock, processLock, resources, expired,
                 process, locals>>

\* mutant: cancel() leaves a started child to its own devices
SignalUnstarted(t) ==
  /\ pc[t] = "cancel"
  /\ ~done
  /\ event' = TRUE
  /\ Answer(t, "true")
  /\ UNCHANGED <<started, done, response, waitLock, processLock, resources, expired,
                 process, locals>>

Signal(t) ==
  /\ pc[t] = "cancel"
  /\ ~done
  /\ event' = TRUE
  /\ IF started THEN Goto(t, "lock_process") ELSE Answer(t, "true")
  /\ UNCHANGED <<started, done, response, waitLock, processLock, resources, expired,
                 process, locals>>

\* under _process_lock: every method of a closed Process raises ValueError
Lock(t) ==
  /\ pc[t] = "lock_process"
  /\ processLock = Nobody
  /\ processLock' = t
  /\ Goto(t, "join")
  /\ UNCHANGED <<handle, waitLock, resources, expired, process, locals>>

Raise(t) ==
  /\ pc[t] \in {"join", "killed"}
  /\ processClosed
  /\ processLock' = Nobody
  /\ Return(t, "error")
  /\ UNCHANGED <<handle, waitLock, resources, expired, process, locals>>

\* the join of 50 ms runs out, and the child is still there
Kill(t) ==
  /\ pc[t] = "join"
  /\ ~processClosed
  /\ Alive
  /\ child' = "exited"
  /\ exitcode' = "nonzero"
  /\ Goto(t, "killed")
  /\ UNCHANGED <<handle, waitLock, processLock, resources, expired, pipe, sent, locals>>

Cancelled(t) ==
  /\ pc[t] \in {"join", "killed"}
  /\ ~processClosed
  /\ ~Alive
  /\ processLock' = Nobody
  /\ Answer(t, "true")
  /\ UNCHANGED <<handle, waitLock, resources, expired, process, locals>>

-----------------------------------------------------------------------------
(* start(), and wait(): start, poll until something ends the loop, decide. *)

EnterWait(t) ==
  /\ pc[t] = "wait"
  /\ waitLock = Nobody
  /\ waitLock' = t
  /\ Goto(t, "start")
  /\ UNCHANGED <<handle, processLock, resources, expired, process, locals>>

\* mutant: a cancelled handle answers by its event and not by its response
AnswerByEvent(t) ==
  /\ pc[t] = "start"
  /\ response # "none"
  /\ waitLock' = Nobody
  /\ Return(t, IF event THEN "cancelled" ELSE response)
  /\ UNCHANGED <<handle, processLock, resources, expired, process, locals>>

\* a response that is there already is handed out again
AlreadyAnswered(t) ==
  /\ pc[t] = "start"
  /\ response # "none"
  /\ waitLock' = Nobody
  /\ Return(t, response)
  /\ UNCHANGED <<handle, processLock, resources, expired, process, locals>>

\* start() finds the work done, by itself or on behalf of wait()
AlreadyStarted(t) ==
  /\ \/ pc[t] = "start" /\ started /\ response = "none" /\ Goto(t, "loop")
     \/ pc[t] = "begin" /\ (started \/ done) /\ Return(t, "handle")
  /\ UNCHANGED <<handle, waitLock, processLock, resources, expired, process, locals>>

\* start() gives up: cancelled before, the spawn failed, or the child died
\* before it read its request; all of it under _state_lock
FailStart(t, status) ==
  /\ ~started
  /\ ~done
  /\ response' = status
  /\ done' = TRUE
  /\ pipesClosed' = TRUE
  /\ \/ pc[t] = "start" /\ waitLock' = Nobody /\ Return(t, status)
     \/ pc[t] = "begin" /\ UNCHANGED waitLock /\ Return(t, "handle")
  /\ UNCHANGED <<event, processLock, expired, pipe, sent, locals>>

StartCancelled(t) ==
  /\ event
  /\ FailStart(t, "cancelled")
  /\ UNCHANGED <<started, processClosed, child, exitcode>>

SpawnFails(t) ==
  /\ ~event
  /\ FailStart(t, "crashed")
  /\ UNCHANGED <<started, processClosed, child, exitcode>>

SendFails(t) ==
  /\ ~event
  /\ FailStart(t, "crashed")
  /\ started' = TRUE
  /\ processClosed' = TRUE
  /\ child' = "exited"
  /\ exitcode' = "nonzero"

Spawn(t) ==
  /\ ~started
  /\ ~done
  /\ started' = TRUE
  /\ child' = "running"
  /\ \/ pc[t] = "start" /\ Goto(t, "loop")
     \/ pc[t] = "begin" /\ Return(t, "handle")
  /\ UNCHANGED <<done, event, response, waitLock, processLock, resources, expired,
                 exitcode, pipe, sent, locals>>

Start(t) ==
  /\ ~event
  /\ Spawn(t)

Loop(t) ==
  /\ pc[t] = "loop"
  /\ Goto(t, IF event \/ expired THEN "decide" ELSE "poll")
  /\ UNCHANGED <<handle, waitLock, processLock, resources, expired, process, locals>>

\* poll() is true for the first byte of a message as it is for the end of the pipe
PollFinds(t) ==
  /\ pc[t] = "poll"
  /\ pipe # "empty" \/ child # "running"
  /\ Goto(t, "receive")
  /\ UNCHANGED <<handle, waitLock, processLock, resources, expired, process, locals>>

\* recv_bytes takes one message of at most MAX_WORKER_RESPONSE_BYTES; it has no
\* timeout, and waits for the rest of a message of which a part has come
Receive(t) ==
  /\ pc[t] = "receive"
  /\ pipe \in Messages
  /\ received' = pipe
  /\ pipe' = IF pipe = "double" THEN "extra" ELSE "empty"
  /\ verdict' = IF pipe = "big" THEN "inconclusive" ELSE verdict
  /\ Goto(t, "decide")
  /\ UNCHANGED <<handle, waitLock, processLock, resources, expired, child, exitcode, sent>>

\* the child has closed its end without a message (EOFError), or in the middle of
\* one (EOFError after the header, OSError elsewhere)
ReceiveEnd(t) ==
  /\ pc[t] = "receive"
  /\ pipe \in {"empty", "part"}
  /\ child # "running"
  /\ verdict' \in IF pipe = "empty" THEN {"crashed"} ELSE {"crashed", "inconclusive"}
  /\ Goto(t, "decide")
  /\ UNCHANGED <<handle, waitLock, processLock, resources, expired, process, received>>

PollTimesOut(t) ==
  /\ pc[t] = "poll"
  /\ pipe = "empty"
  /\ child = "running"
  /\ Goto(t, "exit")
  /\ UNCHANGED <<handle, waitLock, processLock, resources, expired, process, locals>>

CheckExit(t) ==
  /\ pc[t] = "exit"
  /\ Goto(t, IF Alive THEN "loop" ELSE "decide")
  /\ UNCHANGED <<handle, waitLock, processLock, resources, expired, process, locals>>

Settle(t, status, place) ==
  /\ verdict' = status
  /\ Goto(t, place)
  /\ UNCHANGED received

DecideCancelled(t) ==
  /\ pc[t] = "decide"
  /\ event
  /\ Settle(t, "cancelled", "terminate")
  /\ UNCHANGED <<handle, waitLock, processLock, resources, expired, process>>

\* mutant: the loop's end is not taken as an end when nothing arrived
KeepPolling(t) ==
  /\ pc[t] = "decide"
  /\ ~event
  /\ received = "nothing"
  /\ verdict = "none"
  /\ Goto(t, "poll")
  /\ UNCHANGED <<handle, waitLock, processLock, resources, expired, process, locals>>

DecideSilent(t) ==
  /\ pc[t] = "decide"
  /\ ~event
  /\ received = "nothing"
  /\ verdict = "none"
  /\ event' = TRUE
  /\ Goto(t, "grace")
  /\ UNCHANGED <<started, done, response, waitLock, processLock, resources, expired,
                 process, locals>>

DecideError(t) ==
  /\ pc[t] = "decide"
  /\ ~event
  /\ verdict # "none"
  /\ Goto(t, "terminate")
  /\ UNCHANGED <<handle, waitLock, processLock, resources, expired, process, locals>>

DecideMessage(t) ==
  /\ pc[t] = "decide"
  /\ ~event
  /\ received # "nothing"
  /\ verdict = "none"
  /\ Goto(t, "consume")
  /\ UNCHANGED <<handle, waitLock, processLock, resources, expired, process, locals>>

\* the join of 50 ms under _process_lock, and the look at the child after it
Grace(t) ==
  /\ pc[t] = "grace"
  /\ processLock = Nobody
  /\ IF Alive THEN Settle(t, "timed_out", "terminate")
              ELSE Settle(t, "crashed", "connections")
  /\ UNCHANGED <<handle, waitLock, processLock, resources, expired, process>>

-----------------------------------------------------------------------------
(* _consume_response: wait for the exit of a child that has answered.      *)

JoinChild(t) ==
  /\ pc[t] = "consume"
  /\ processLock = Nobody
  /\ processLock' = t
  /\ Goto(t, "joining")
  /\ UNCHANGED <<handle, waitLock, resources, expired, process, locals>>

\* mutant: the join has no timeout
JoinedForever(t) ==
  /\ pc[t] = "joining"
  /\ ~Alive
  /\ processLock' = Nobody
  /\ Goto(t, "joined")
  /\ UNCHANGED <<handle, waitLock, resources, expired, process, locals>>

Joined(t) ==
  /\ pc[t] = "joining"
  /\ ~Alive \/ expired
  /\ processLock' = Nobody
  /\ Goto(t, "joined")
  /\ UNCHANGED <<handle, waitLock, resources, expired, process, locals>>

CheckCancelled(t) ==
  /\ pc[t] = "joined"
  /\ IF event THEN Settle(t, "cancelled", "terminate")
              ELSE Goto(t, "alive") /\ UNCHANGED locals
  /\ UNCHANGED <<handle, waitLock, processLock, resources, expired, process>>

StillAlive(t) ==
  /\ pc[t] = "alive"
  /\ Alive
  /\ event' = TRUE
  /\ Settle(t, "timed_out", "terminate")
  /\ UNCHANGED <<started, done, response, waitLock, processLock, resources, expired,
                 process>>

\* mutant: the exit code is not looked at
AcceptAnyExit == "zero"

CleanExit == exitcode

Exited(t) ==
  /\ pc[t] = "alive"
  /\ ~Alive
  /\ \/ CleanExit # "zero" /\ Settle(t, "crashed", "connections")
     \/ /\ CleanExit = "zero"
        /\ pipe = "extra" \/ received = "bad"
        /\ Settle(t, "inconclusive", "connections")
     \/ /\ CleanExit = "zero"
        /\ pipe # "extra" /\ received # "bad"
        /\ Goto(t, "validated")
        /\ UNCHANGED locals
  /\ UNCHANGED <<handle, waitLock, processLock, resources, expired, process>>

Validated(t) ==
  /\ pc[t] = "validated"
  /\ Settle(t, IF event THEN "cancelled" ELSE "completed", "connections")
  /\ UNCHANGED <<handle, waitLock, processLock, resources, expired, process>>

-----------------------------------------------------------------------------
(* _terminate and the release of everything before the answer is published. *)

Terminate(t) ==
  /\ pc[t] = "terminate"
  /\ processLock = Nobody
  /\ child' = "exited"
  /\ exitcode' = IF Alive THEN "nonzero" ELSE exitcode
  /\ Goto(t, "connections")
  /\ UNCHANGED <<handle, waitLock, processLock, resources, expired, pipe, sent, locals>>

\* mutant: _done is set before the resources are released
CloseWhenDone(t) ==
  /\ pc[t] = "connections"
  /\ done' = TRUE
  /\ pipesClosed' = TRUE
  /\ Goto(t, "process")
  /\ UNCHANGED <<started, event, response, waitLock, processLock, processClosed,
                 expired, process, locals>>

\* a started child that is still there is terminated once more, under _process_lock
CloseConnections(t) ==
  /\ pc[t] = "connections"
  /\ Alive => processLock = Nobody
  /\ child' = IF Alive THEN "exited" ELSE child
  /\ exitcode' = IF Alive THEN "nonzero" ELSE exitcode
  /\ pipesClosed' = TRUE
  /\ Goto(t, "process")
  /\ UNCHANGED <<handle, waitLock, processLock, processClosed, expired, pipe, sent,
                 locals>>

\* without _process_lock; Process.close() of a running child raises, and that
\* error is swallowed
CloseProcess(t) ==
  /\ pc[t] = "process"
  /\ processClosed' = (processClosed \/ ~Alive)
  /\ Goto(t, "finish")
  /\ UNCHANGED <<handle, waitLock, processLock, pipesClosed, expired, process, locals>>

Finish(t) ==
  /\ pc[t] = "finish"
  /\ done' = TRUE
  /\ Goto(t, "answer")
  /\ UNCHANGED <<started, event, response, waitLock, processLock, resources, expired,
                 process, locals>>

Publish(t) ==
  /\ pc[t] = "answer"
  /\ response' = verdict
  /\ waitLock' = Nobody
  /\ Return(t, verdict)
  /\ UNCHANGED <<started, done, event, processLock, resources, expired, process, locals>>

-----------------------------------------------------------------------------
(* The child: it may crash at any instant, in the middle of its answer too, *)
(* hang, close its end without an answer, or answer once and then exit.    *)

parent == <<started, done, event, response, waitLock, processLock, pipesClosed,
            processClosed, pc, closing, received, verdict, result>>

\* a message beyond the atomic write of a pipe arrives in portions
ChildBegins ==
  /\ child = "running"
  /\ pipe = "empty"
  /\ pipe' = "part"
  /\ UNCHANGED <<parent, expired, child, exitcode, sent>>

ChildSends ==
  /\ child = "running"
  /\ \E m \in Messages : pipe' = m /\ sent' = m
  /\ child' = "closing"
  /\ UNCHANGED <<parent, expired, exitcode>>

ChildCloses ==
  /\ child = "running"
  /\ child' = "closing"
  /\ UNCHANGED <<parent, expired, exitcode, pipe, sent>>

ChildExits ==
  /\ Alive
  /\ child' = "exited"
  /\ exitcode' \in IF child = "closing" THEN {"zero", "nonzero"} ELSE {"nonzero"}
  /\ UNCHANGED <<parent, expired, pipe, sent>>

Deadline ==
  /\ started
  /\ ~expired
  /\ expired' = TRUE
  /\ UNCHANGED <<parent, process>>

-----------------------------------------------------------------------------

Calling(t) == CallStart(t) \/ CallWait(t) \/ CallCancel(t) \/ CallClose(t)

CancelStep(t) ==
  TooLate(t) \/ Signal(t) \/ Lock(t) \/ Raise(t) \/ Kill(t) \/ Cancelled(t)

WaitStep(t) ==
  \/ EnterWait(t) \/ AlreadyAnswered(t) \/ AlreadyStarted(t)
  \/ StartCancelled(t) \/ SpawnFails(t) \/ SendFails(t) \/ Start(t)
  \/ Loop(t) \/ PollFinds(t) \/ Receive(t) \/ ReceiveEnd(t) \/ PollTimesOut(t)
  \/ CheckExit(t)
  \/ DecideCancelled(t) \/ DecideSilent(t) \/ DecideError(t) \/ DecideMessage(t)
  \/ Grace(t) \/ JoinChild(t) \/ Joined(t) \/ CheckCancelled(t) \/ StillAlive(t)
  \/ Exited(t) \/ Validated(t)
  \/ Terminate(t) \/ CloseConnections(t) \/ CloseProcess(t) \/ Finish(t) \/ Publish(t)

Next ==
  \/ \E t \in Threads : Calling(t) \/ CancelStep(t) \/ WaitStep(t)
  \/ ChildBegins \/ ChildSends \/ ChildCloses \/ ChildExits \/ Deadline

Spec == Init /\ [][Next]_vars

\* A thread inside a call goes on when it can, is granted a lock that is free
\* again and again, and the deadline comes.  Nothing is assumed of the child here;
\* that the request fits the pipe, so that start() ends, is part of Start.
FairSpec ==
  /\ Spec
  /\ \A t \in Threads : SF_vars(CancelStep(t) \/ WaitStep(t))
  /\ WF_vars(Deadline)

-----------------------------------------------------------------------------
(* Properties.                                                             *)

\* Every variable has its type, and a thread inside wait() holds _wait_lock.
TypeOK ==
  /\ started \in BOOLEAN /\ done \in BOOLEAN /\ event \in BOOLEAN
  /\ response \in Statuses \cup {"none"}
  /\ waitLock \in Threads \cup {Nobody}
  /\ processLock \in Threads \cup {Nobody}
  /\ pipesClosed \in BOOLEAN /\ processClosed \in BOOLEAN /\ expired \in BOOLEAN
  /\ child \in {"unborn", "running", "closing", "exited"}
  /\ exitcode \in {"none", "zero", "nonzero"}
  /\ pipe \in Messages \cup {"empty", "part", "extra"}
  /\ sent \in Messages \cup {"nothing"}
  /\ pc \in [Threads -> Places]
  /\ closing \in [Threads -> BOOLEAN]
  /\ received \in Messages \cup {"nothing"}
  /\ verdict \in Statuses \cup {"none"}
  /\ result \in [Threads -> Statuses \cup {"none", "handle", "true", "false", "error"}]
  /\ \A t \in Threads : pc[t] \in Waiting => waitLock = t

\* Once the handle says it is done, and before anybody has the answer, the
\* child is gone and every resource of the run is closed: "Every terminal path
\* closes all four pipe endpoints, closes the process handle".
ReleasedWhenDone ==
  done => /\ ~Alive
          /\ pipesClosed
          /\ started => processClosed

\* A completed run is one whose child sent exactly one well-bound response and
\* then exited by itself with code zero.
CompletedIsEvidence ==
  response = "completed" => sent = "valid" /\ exitcode = "zero"

\* What other components see of a handle: AbstractWorkerHandle with this stage.
Stage ==
  IF done THEN "done" ELSE IF processClosed THEN "closed"
  ELSE IF child = "exited" THEN "exited" ELSE IF started THEN "running" ELSE "fresh"

Promise == INSTANCE AbstractWorkerHandle WITH stage <- Stage, event <- event

\* Whatever the threads and the child do, the handle goes through one life:
\* never started once its event is set, closed only after the child is gone,
\* done only after it is closed, and silent from then on.
ImplementsHandle == Promise!Spec

\* Everybody who waits is told the same, whatever happens between two waits.
OneAnswer ==
  \A t \in Threads : result[t] \in Statuses => result[t] = response

\* When cancel() has answered True the child is not running, and never will be.
CancelStops ==
  \A t \in Threads : result[t] = "true" => ~Alive /\ (pc[t] = "idle" => event)

\* A cancellation that came back before anybody waited decides the outcome: the
\* run is not started and no later wait() reports anything but "cancelled".
EarlyCancelDecides ==
  [][event /\ ~started => ~started' /\ response' \in {response, "cancelled"}]_vars

\* The child is alive and has stopped in the middle of its answer.
Stalled == child = "running" /\ pipe = "part"

\* wait() and close() return, although the child hangs, dies or answers at the
\* deadline: the timeout is hard for every child that, once it has begun to answer,
\* gets to the end of its message or dies.  The untimed recv_bytes makes the
\* hypothesis necessary; a cancel() fulfils it, for it ends the child.
WaitEnds == []<>~Stalled => \A t \in Threads : pc[t] = "wait" ~> pc[t] = "idle"

\* cancel() returns, even against a waiter that joins the child or is caught in
\* the middle of its answer.
CancelEnds == \A t \in Threads : pc[t] = "cancel" ~> pc[t] \in {"idle", "wait"}
=============================================================================

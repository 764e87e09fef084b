------------------------ MODULE WorkerRunHandleProofs ------------------------
(***************************************************************************)
(* Proofs about WorkerRunHandle, for any number of threads and whatever    *)
(* the child does.                                                         *)
(***************************************************************************)
EXTENDS WorkerRunHandle, TLAPS

\* The places of the thread that has left the polling loop.
Deciding == {"decide", "grace", "consume", "joining", "joined", "alive", "validated",
             "terminate", "connections", "process", "finish", "answer"}
\* ... and of the one that has an answer of the child to judge.
Judging == {"consume", "joining", "joined", "alive", "validated"}
\* ... and of the one that has decided.
Decided == {"terminate", "connections", "process", "finish", "answer"}
Releasing == {"connections", "process", "finish", "answer"}

Evidence == sent = "valid" /\ exitcode = "zero" /\ child = "exited"

\* The child and what it says.
ChildInv ==
  /\ started <=> child # "unborn"
  /\ processClosed => child = "exited"
  /\ child \in {"unborn", "running"} => sent = "nothing"
  /\ sent = "nothing" => pipe \in {"empty", "part"} /\ received = "nothing"
  /\ sent # "nothing" /\ received = "nothing" => pipe = sent
  /\ received # "nothing" =>
       received = sent /\ pipe = (IF sent = "double" THEN "extra" ELSE "empty")
  /\ verdict = "completed" \/ response = "completed" => Evidence

\* What a thread has established by the time it is at a place.
PlaceInv ==
  \A t \in Threads :
    /\ pc[t] \in Waiting \ {"start"} => started /\ response = "none"
    /\ pc[t] \in Waiting \ {"start", "answer"} => ~done
    /\ pc[t] \in {"lock_process", "join", "killed"} => started /\ event
    /\ pc[t] \in {"validated"} \cup Releasing => child = "exited"
    /\ pc[t] = "validated" => Evidence
    /\ pc[t] \in {"process", "finish", "answer"} => pipesClosed
    /\ pc[t] \in {"finish", "answer"} => processClosed
    /\ pc[t] = "answer" => done
    /\ pc[t] = "decide" /\ received = "big" => verdict # "none"
    /\ pc[t] \in Judging => received \notin {"nothing", "big"} /\ verdict = "none"
    /\ pc[t] \in Decided => verdict # "none"

\* The end of the run, and the time before anything is decided.
EndInv ==
  /\ ReleasedWhenDone
  /\ response # "none" => done
  /\ done /\ response = "none" => \E t \in Threads : pc[t] = "answer"
  /\ \/ done
     \/ \E t \in Threads : pc[t] \in Deciding
     \/ received = "nothing" /\ verdict = "none"

\* What callers have been told.
ToldInv ==
  \A t \in Threads :
    /\ result[t] \in Statuses => result[t] = response
    /\ result[t] = "true" => child \notin {"running", "closing"} /\ event

Inv == TypeOK /\ ChildInv /\ PlaceInv /\ EndInv /\ ToldInv

USE DEF Places, Waiting, Cancelling, Statuses, Alive, Deciding, Judging, Decided, Releasing

Results == Statuses \cup {"none", "handle", "true", "false", "error"}

\* The variables that the type of no thread depends on.
OtherTypes ==
  /\ started \in BOOLEAN /\ done \in BOOLEAN /\ event \in BOOLEAN
  /\ response \in Statuses \cup {"none"}
  /\ processLock \in Threads \cup {Nobody}
  /\ pipesClosed \in BOOLEAN /\ processClosed \in BOOLEAN /\ expired \in BOOLEAN
  /\ child \in {"unborn", "running", "closing", "exited"}
  /\ exitcode \in {"none", "zero", "nonzero"}
  /\ pipe \in Messages \cup {"empty", "part", "extra"}
  /\ sent \in Messages \cup {"nothing"}
  /\ received \in Messages \cup {"nothing"}
  /\ verdict \in Statuses \cup {"none"}

LEMMA ResultNames ==
  {"cancelled", "crashed", "handle", "true", "false", "error"} \subseteq Results
BY DEF Results

LEMMA ReturnTypes ==
  ASSUME TypeOK, NEW t \in Threads, NEW value \in Results, Return(t, value),
         OtherTypes',
         \/ waitLock' = waitLock
         \/ waitLock = t /\ waitLock' = Nobody
  PROVE  TypeOK'
<1>1. /\ pc' = [pc EXCEPT ![t] = "idle"] /\ pc' \in [Threads -> Places]
      /\ closing' \in [Threads -> BOOLEAN] /\ result' \in [Threads -> Results]
  BY DEF TypeOK, Results, Return
<1>2. /\ waitLock' \in Threads \cup {Nobody}
      /\ \A u \in Threads : pc'[u] \in Waiting => waitLock' = u
  BY <1>1, HandleAssumption DEF TypeOK
<1> QED BY <1>1, <1>2 DEF TypeOK, OtherTypes, Results

LEMMA GotoTypes ==
  ASSUME TypeOK, NEW t \in Threads, NEW place \in Places, Goto(t, place), OtherTypes',
         \/ waitLock' = waitLock /\ (place \in Waiting => waitLock = t)
         \/ waitLock = Nobody /\ waitLock' = t
  PROVE  TypeOK'
<1>1. /\ pc' = [pc EXCEPT ![t] = place] /\ pc' \in [Threads -> Places]
      /\ closing' \in [Threads -> BOOLEAN] /\ result' \in [Threads -> Results]
  BY DEF TypeOK, Results, Goto
<1>2. /\ waitLock' \in Threads \cup {Nobody}
      /\ \A u \in Threads : pc'[u] \in Waiting => waitLock' = u
  BY <1>1, HandleAssumption DEF TypeOK
<1> QED BY <1>1, <1>2 DEF TypeOK, OtherTypes, Results

LEMMA AnswerTypes ==
  ASSUME TypeOK, NEW t \in Threads, NEW value \in Results, Answer(t, value), OtherTypes',
         UNCHANGED waitLock
  PROVE  TypeOK'
BY GotoTypes, ReturnTypes DEF Answer

LEMMA FailTypes ==
  ASSUME TypeOK, NEW t \in Threads, NEW status \in {"cancelled", "crashed"},
         FailStart(t, status), OtherTypes'
  PROVE  TypeOK'
<1>1. CASE pc[t] = "start"
  <2>1. waitLock = t
    BY <1>1 DEF TypeOK
  <2> QED BY <1>1, <2>1, ReturnTypes, ResultNames DEF FailStart
<1>2. CASE pc[t] = "begin"
  BY <1>2, ReturnTypes, ResultNames DEF FailStart
<1> QED BY <1>1, <1>2 DEF FailStart

\* Each step keeps the types; the places of the threads last.
LEMMA TypeStep ==
  ASSUME Inv, Next
  PROVE  TypeOK'
<1> TypeOK
  BY DEF Inv
<1> OtherTypes
  BY DEF TypeOK, OtherTypes
<1> USE DEF handle, resources, process, locals
<1>1. OtherTypes'
  <2>1. ASSUME NEW t \in Threads, Calling(t) PROVE OtherTypes'
    BY <2>1 DEF OtherTypes, Calling, CallStart, CallWait, CallCancel, CallClose
  <2>2. ASSUME NEW t \in Threads, TooLate(t) \/ Cancelled(t) PROVE OtherTypes'
    <3>1. CASE TooLate(t)
      BY <3>1 DEF OtherTypes, TooLate
    <3>2. CASE Cancelled(t)
      BY <3>2 DEF OtherTypes, Cancelled
    <3> QED BY <2>2, <3>1, <3>2
  <2>3. ASSUME NEW t \in Threads, Signal(t) PROVE OtherTypes'
    BY <2>3 DEF OtherTypes, Signal
  <2>4. ASSUME NEW t \in Threads, Lock(t) \/ Raise(t) \/ Kill(t) PROVE OtherTypes'
    <3>1. CASE Lock(t)
      BY <3>1 DEF OtherTypes, Lock
    <3>2. CASE Raise(t)
      BY <3>2 DEF OtherTypes, Raise
    <3>3. CASE Kill(t)
      BY <3>3 DEF OtherTypes, Kill
    <3> QED BY <2>4, <3>1, <3>2, <3>3
  <2>5. ASSUME NEW t \in Threads, EnterWait(t) \/ AlreadyAnswered(t) \/ AlreadyStarted(t)
          \/ StartCancelled(t) \/ SpawnFails(t) \/ SendFails(t) \/ Start(t)
        PROVE OtherTypes'
    <3>1. CASE EnterWait(t) \/ AlreadyAnswered(t) \/ AlreadyStarted(t)
      BY <3>1 DEF OtherTypes, EnterWait, AlreadyAnswered, AlreadyStarted
    <3>2. CASE StartCancelled(t)
      BY <3>2 DEF OtherTypes, StartCancelled, FailStart
    <3>3. CASE SpawnFails(t)
      BY <3>3 DEF OtherTypes, SpawnFails, FailStart
    <3>4. CASE SendFails(t)
      BY <3>4 DEF OtherTypes, SendFails, FailStart, Spawn
    <3>5. CASE Start(t)
      BY <3>5 DEF OtherTypes, Start, Spawn
    <3> QED BY <2>5, <3>1, <3>2, <3>3, <3>4, <3>5
  <2>6. ASSUME NEW t \in Threads, Receive(t) PROVE OtherTypes'
    <3>1. pipe \in Messages
      BY <2>6 DEF Inv, TypeOK, ChildInv, PlaceInv, EndInv, Receive
    <3> QED BY <2>6, <3>1 DEF OtherTypes, Receive
  <2>7. ASSUME NEW t \in Threads,
               Loop(t) \/ ReceiveEnd(t) \/ PollFinds(t) \/ PollTimesOut(t) \/ CheckExit(t)
        PROVE OtherTypes'
    <3>1. CASE Loop(t)
      BY <3>1 DEF OtherTypes, Loop
    <3>2. CASE ReceiveEnd(t)
      BY <3>2 DEF OtherTypes, ReceiveEnd
    <3>3. CASE PollFinds(t) \/ PollTimesOut(t)
      BY <3>3 DEF OtherTypes, PollFinds, PollTimesOut
    <3>4. CASE CheckExit(t)
      BY <3>4 DEF OtherTypes, CheckExit
    <3> QED BY <2>7, <3>1, <3>2, <3>3, <3>4
  <2>8. ASSUME NEW t \in Threads, DecideCancelled(t) \/ Grace(t) PROVE OtherTypes'
    <3>1. CASE DecideCancelled(t)
      BY <3>1 DEF OtherTypes, Settle, DecideCancelled
    <3>2. CASE Grace(t)
      BY <3>2 DEF OtherTypes, Settle, Grace
    <3> QED BY <2>8, <3>1, <3>2
  <2>9. ASSUME NEW t \in Threads, DecideSilent(t) \/ DecideError(t) \/ DecideMessage(t)
         PROVE OtherTypes'
    <3>1. CASE DecideSilent(t)
      BY <3>1 DEF OtherTypes, DecideSilent
    <3>2. CASE DecideError(t)
      BY <3>2 DEF OtherTypes, DecideError
    <3>3. CASE DecideMessage(t)
      BY <3>3 DEF OtherTypes, DecideMessage
    <3> QED BY <2>9, <3>1, <3>2, <3>3
  <2>10. ASSUME NEW t \in Threads, JoinChild(t) \/ Joined(t) \/ CheckCancelled(t)
          \/ StillAlive(t)
        PROVE OtherTypes'
    <3>1. CASE JoinChild(t)
      BY <3>1 DEF OtherTypes, JoinChild
    <3>2. CASE Joined(t)
      BY <3>2 DEF OtherTypes, Joined
    <3>3. CASE CheckCancelled(t)
      BY <3>3 DEF OtherTypes, Settle, CheckCancelled
    <3>4. CASE StillAlive(t)
      BY <3>4 DEF OtherTypes, Settle, StillAlive
    <3> QED BY <2>10, <3>1, <3>2, <3>3, <3>4
  <2>11. ASSUME NEW t \in Threads, Exited(t) \/ Validated(t) PROVE OtherTypes'
    <3>1. CASE Exited(t)
      BY <3>1 DEF OtherTypes, Settle, Exited
    <3>2. CASE Validated(t)
      BY <3>2 DEF OtherTypes, Settle, Validated
    <3> QED BY <2>11, <3>1, <3>2
  <2>12. ASSUME NEW t \in Threads, Terminate(t) \/ CloseConnections(t) \/ CloseProcess(t)
          \/ Finish(t) \/ Publish(t)
        PROVE OtherTypes'
    <3>1. CASE Terminate(t)
      BY <3>1 DEF OtherTypes, Terminate
    <3>2. CASE CloseConnections(t)
      BY <3>2 DEF OtherTypes, CloseConnections
    <3>3. CASE CloseProcess(t)
      BY <3>3 DEF OtherTypes, CloseProcess
    <3>4. CASE Finish(t)
      BY <3>4 DEF OtherTypes, Finish
    <3>5. CASE Publish(t)
      BY <3>5 DEF OtherTypes, Publish
    <3> QED BY <2>12, <3>1, <3>2, <3>3, <3>4, <3>5
  <2>13. CASE ChildBegins \/ ChildSends \/ ChildCloses
    <3>1. CASE ChildSends
      BY <3>1 DEF OtherTypes, parent, ChildSends
    <3>2. CASE ChildBegins \/ ChildCloses
      BY <3>2 DEF OtherTypes, parent, ChildBegins, ChildCloses
    <3> QED BY <2>13, <3>1, <3>2
  <2>14. CASE ChildExits \/ Deadline
    <3>1. CASE ChildExits
      BY <3>1 DEF OtherTypes, parent, ChildExits
    <3>2. CASE Deadline
      BY <3>2 DEF OtherTypes, parent, Deadline
    <3> QED BY <2>14, <3>1, <3>2
  <2> QED BY <2>1, <2>2, <2>3, <2>4, <2>5, <2>6, <2>7, <2>8, <2>9,
           <2>10, <2>11, <2>12, <2>13, <2>14
         DEF Next, CancelStep, WaitStep
<1>2. ASSUME NEW t \in Threads, CallStart(t) \/ CallWait(t) \/ CallCancel(t) PROVE TypeOK'
  BY <1>1, <1>2, GotoTypes DEF CallStart, CallWait, CallCancel
<1>3. ASSUME NEW t \in Threads, CallClose(t) PROVE TypeOK'
  BY <1>1, <1>3 DEF TypeOK, OtherTypes, CallClose
<1>4. ASSUME NEW t \in Threads, CancelStep(t) PROVE TypeOK'
  <2>1. CASE TooLate(t) \/ Cancelled(t)
    BY <1>1, <2>1, AnswerTypes, ResultNames DEF TooLate, Cancelled
  <2>2. CASE Signal(t)
    BY <1>1, <2>2, GotoTypes, AnswerTypes, ResultNames DEF Signal
  <2>3. CASE Raise(t)
    BY <1>1, <2>3, ReturnTypes, ResultNames DEF Raise
  <2>4. CASE Lock(t) \/ Kill(t)
    BY <1>1, <2>4, GotoTypes DEF Lock, Kill
  <2> QED BY <1>4, <2>1, <2>2, <2>3, <2>4 DEF CancelStep
<1>5. ASSUME NEW t \in Threads, EnterWait(t) PROVE TypeOK'
  BY <1>1, <1>5, GotoTypes DEF EnterWait
<1>6. ASSUME NEW t \in Threads, StartCancelled(t) \/ SpawnFails(t) \/ SendFails(t)
      PROVE  TypeOK'
  BY <1>1, <1>6, FailTypes DEF StartCancelled, SpawnFails, SendFails
<1>7. ASSUME NEW t \in Threads, AlreadyStarted(t) \/ Start(t) PROVE TypeOK'
  <2>1. CASE pc[t] = "start"
    <3>1. waitLock = t /\ waitLock' = waitLock /\ Goto(t, "loop")
      BY <1>7, <2>1 DEF TypeOK, AlreadyStarted, Start, Spawn
    <3> QED BY <1>1, <3>1, GotoTypes
  <2>2. CASE pc[t] = "begin"
    <3>1. waitLock' = waitLock /\ Return(t, "handle")
      BY <1>7, <2>2 DEF AlreadyStarted, Start, Spawn
    <3> QED BY <1>1, <3>1, ReturnTypes, ResultNames
  <2> QED BY <1>7, <2>1, <2>2 DEF AlreadyStarted, Start, Spawn
<1>8. ASSUME NEW t \in Threads, AlreadyAnswered(t) \/ Publish(t) PROVE TypeOK'
  <2>1. waitLock = t /\ waitLock' = Nobody
    BY <1>8 DEF TypeOK, AlreadyAnswered, Publish
  <2>2. \E value \in Results : Return(t, value)
    BY <1>8 DEF TypeOK, Results, AlreadyAnswered, Publish
  <2> QED BY <1>1, <2>1, <2>2, ReturnTypes
<1>9. ASSUME NEW t \in Threads, pc[t] \in Waiting, NEW place \in Places, Goto(t, place),
             UNCHANGED waitLock
      PROVE  TypeOK'
  <2>1. waitLock = t
    BY <1>9 DEF TypeOK
  <2> QED BY <1>1, <1>9, <2>1, GotoTypes
<1>10. ASSUME NEW t \in Threads,
              \/ Loop(t) \/ Receive(t) \/ ReceiveEnd(t) \/ PollFinds(t) \/
                  PollTimesOut(t) \/ CheckExit(t)
              \/ DecideCancelled(t) \/ DecideSilent(t) \/ DecideError(t)
              \/ DecideMessage(t) \/ Grace(t)
       PROVE  TypeOK'
  BY <1>9, <1>10
     DEF Settle, Loop, Receive, ReceiveEnd, PollFinds, PollTimesOut, CheckExit,
         DecideCancelled, DecideSilent, DecideError, DecideMessage, Grace
<1>11. ASSUME NEW t \in Threads,
              \/ JoinChild(t) \/ Joined(t) \/ CheckCancelled(t) \/ StillAlive(t)
              \/ Exited(t) \/ Validated(t) \/ Terminate(t) \/ CloseConnections(t)
              \/ CloseProcess(t) \/ Finish(t)
       PROVE  TypeOK'
  BY <1>9, <1>11
     DEF Settle, JoinChild, Joined, CheckCancelled, StillAlive, Exited, Validated,
         Terminate, CloseConnections, CloseProcess, Finish
<1>12. CASE ChildBegins \/ ChildSends \/ ChildCloses \/ ChildExits \/ Deadline
  BY <1>1, <1>12
     DEF TypeOK, OtherTypes, parent, ChildSends, ChildBegins, ChildCloses, ChildExits,
        Deadline
<1> QED BY <1>2, <1>3, <1>4, <1>5, <1>6, <1>7, <1>8, <1>10, <1>11, <1>12
        DEF Next, Calling, WaitStep

\* The child speaks once, and only a clean exit after a valid response is evidence.
LEMMA ChildStep ==
  ASSUME Inv, Next
  PROVE  ChildInv'
<1> USE DEF handle, resources, process, locals, Goto, Return
<1>1. ASSUME NEW t \in Threads, CallStart(t) \/ CallWait(t) \/ CallCancel(t) \/ CallClose(t)
      PROVE ChildInv'
  BY <1>1 DEF Inv, TypeOK, ChildInv, PlaceInv, Evidence, CallStart, CallWait, CallCancel,
        CallClose
<1>2. ASSUME NEW t \in Threads, TooLate(t) \/ Signal(t) PROVE ChildInv'
  BY <1>2 DEF Inv, TypeOK, ChildInv, PlaceInv, Evidence, Answer, TooLate, Signal
<1>3. ASSUME NEW t \in Threads, Lock(t) \/ Raise(t) \/ Kill(t) PROVE ChildInv'
  BY <1>3 DEF Inv, TypeOK, ChildInv, PlaceInv, Evidence, Lock, Raise, Kill
<1>4. ASSUME NEW t \in Threads, Cancelled(t) PROVE ChildInv'
  BY <1>4 DEF Inv, TypeOK, ChildInv, PlaceInv, Evidence, Answer, Cancelled
<1>5. ASSUME NEW t \in Threads, EnterWait(t) \/ AlreadyAnswered(t) PROVE ChildInv'
  BY <1>5 DEF Inv, TypeOK, ChildInv, PlaceInv, Evidence, EnterWait, AlreadyAnswered
<1>6. ASSUME NEW t \in Threads, AlreadyStarted(t) PROVE ChildInv'
  BY <1>6 DEF Inv, TypeOK, ChildInv, PlaceInv, Evidence, AlreadyStarted
<1>7. ASSUME NEW t \in Threads, StartCancelled(t) PROVE ChildInv'
  BY <1>7 DEF Inv, TypeOK, ChildInv, PlaceInv, Evidence, FailStart, StartCancelled
<1>8. ASSUME NEW t \in Threads, SpawnFails(t) PROVE ChildInv'
  BY <1>8 DEF Inv, TypeOK, ChildInv, PlaceInv, Evidence, FailStart, SpawnFails
<1>9. ASSUME NEW t \in Threads, SendFails(t) PROVE ChildInv'
  BY <1>9 DEF Inv, TypeOK, ChildInv, PlaceInv, Evidence, FailStart, SendFails
<1>10. ASSUME NEW t \in Threads, Start(t) PROVE ChildInv'
  BY <1>10 DEF Inv, TypeOK, ChildInv, PlaceInv, Evidence, Spawn, Start
<1>11. ASSUME NEW t \in Threads, Loop(t) \/ ReceiveEnd(t) \/ PollFinds(t) \/
        PollTimesOut(t) \/ CheckExit(t)
      PROVE ChildInv'
  BY <1>11 DEF Inv, TypeOK, ChildInv, PlaceInv, Evidence, Loop, ReceiveEnd, PollFinds,
        PollTimesOut,
        CheckExit
<1>12. ASSUME NEW t \in Threads, Receive(t) PROVE ChildInv'
  BY <1>12, HandleAssumption DEF Inv, TypeOK, ChildInv, PlaceInv, Evidence, EndInv, Receive
<1>13. ASSUME NEW t \in Threads, DecideCancelled(t) \/ DecideSilent(t) \/ DecideError(t) \/
      DecideMessage(t) \/ Grace(t) PROVE ChildInv'
  BY <1>13 DEF Inv, TypeOK, ChildInv, PlaceInv, Evidence, Settle, DecideCancelled,
        DecideSilent, DecideError, DecideMessage, Grace
<1>14. ASSUME NEW t \in Threads, JoinChild(t) \/ Joined(t) \/ CheckCancelled(t) \/
      StillAlive(t) PROVE ChildInv'
  BY <1>14 DEF Inv, TypeOK, ChildInv, PlaceInv, Evidence, Settle, JoinChild, Joined,
        CheckCancelled, StillAlive
<1>15. ASSUME NEW t \in Threads, Exited(t) PROVE ChildInv'
  BY <1>15 DEF Inv, TypeOK, ChildInv, PlaceInv, Evidence, CleanExit, Settle, Exited
<1>16. ASSUME NEW t \in Threads, Validated(t) PROVE ChildInv'
  BY <1>16 DEF Inv, TypeOK, ChildInv, PlaceInv, Evidence, Settle, Validated
<1>17. ASSUME NEW t \in Threads, Terminate(t) \/ CloseConnections(t) \/ CloseProcess(t)
      PROVE ChildInv'
  BY <1>17 DEF Inv, TypeOK, ChildInv, PlaceInv, Evidence, Terminate, CloseConnections,
        CloseProcess
<1>18. ASSUME NEW t \in Threads, Finish(t) \/ Publish(t) PROVE ChildInv'
  BY <1>18 DEF Inv, TypeOK, ChildInv, PlaceInv, Evidence, Finish, Publish
<1>19. CASE ChildSends
  BY <1>19, HandleAssumption DEF Inv, TypeOK, ChildInv, PlaceInv, Evidence, parent,
        ChildSends
<1>20. CASE ChildBegins \/ ChildCloses
  BY <1>20 DEF Inv, TypeOK, ChildInv, PlaceInv, Evidence, parent, ChildBegins, ChildCloses
<1>21. CASE ChildExits
  BY <1>21 DEF Inv, TypeOK, ChildInv, PlaceInv, Evidence, parent, ChildExits
<1>22. CASE Deadline
  BY <1>22 DEF Inv, TypeOK, ChildInv, PlaceInv, Evidence, parent, Deadline
<1> QED BY <1>1, <1>2, <1>3, <1>4, <1>5, <1>6, <1>7, <1>8, <1>9, <1>10, <1>11, <1>12, <1>13,
        <1>14, <1>15, <1>16, <1>17, <1>18, <1>19, <1>20, <1>21, <1>22 DEF Next, Calling,
        CancelStep, WaitStep

\* What a thread has established stays true while the others run.
LEMMA PlaceStep ==
  ASSUME Inv, Next
  PROVE  PlaceInv'
<1> USE DEF handle, resources, process, locals, Goto, Return
<1>1. ASSUME NEW t \in Threads, CallStart(t) \/ CallWait(t) \/ CallCancel(t) \/ CallClose(t)
      PROVE PlaceInv'
  BY <1>1 DEF Inv, TypeOK, ChildInv, PlaceInv, EndInv, Evidence, CallStart, CallWait,
        CallCancel, CallClose
<1>2. ASSUME NEW t \in Threads, TooLate(t) \/ Signal(t) PROVE PlaceInv'
  BY <1>2 DEF Inv, TypeOK, ChildInv, PlaceInv, EndInv, Evidence, Answer, TooLate, Signal
<1>3. ASSUME NEW t \in Threads, Lock(t) \/ Raise(t) \/ Kill(t) PROVE PlaceInv'
  BY <1>3 DEF Inv, TypeOK, ChildInv, PlaceInv, EndInv, Evidence, Lock, Raise, Kill
<1>4. ASSUME NEW t \in Threads, Cancelled(t) PROVE PlaceInv'
  BY <1>4 DEF Inv, TypeOK, ChildInv, PlaceInv, EndInv, Evidence, Answer, Cancelled
<1>5. ASSUME NEW t \in Threads, EnterWait(t) \/ AlreadyAnswered(t) PROVE PlaceInv'
  BY <1>5 DEF Inv, TypeOK, ChildInv, PlaceInv, EndInv, Evidence, EnterWait, AlreadyAnswered
<1>6. ASSUME NEW t \in Threads, AlreadyStarted(t) PROVE PlaceInv'
  BY <1>6 DEF Inv, TypeOK, ChildInv, PlaceInv, EndInv, Evidence, AlreadyStarted
<1>7. ASSUME NEW t \in Threads, StartCancelled(t) PROVE PlaceInv'
  BY <1>7 DEF Inv, TypeOK, ChildInv, PlaceInv, EndInv, Evidence, FailStart, StartCancelled
<1>8. ASSUME NEW t \in Threads, SpawnFails(t) PROVE PlaceInv'
  BY <1>8 DEF Inv, TypeOK, ChildInv, PlaceInv, EndInv, Evidence, FailStart, SpawnFails
<1>9. ASSUME NEW t \in Threads, SendFails(t) PROVE PlaceInv'
  BY <1>9 DEF Inv, TypeOK, ChildInv, PlaceInv, EndInv, Evidence, FailStart, SendFails
<1>10. ASSUME NEW t \in Threads, Start(t) PROVE PlaceInv'
  BY <1>10 DEF Inv, TypeOK, ChildInv, PlaceInv, EndInv, Evidence, Spawn, Start
<1>11. ASSUME NEW t \in Threads, Loop(t) \/ ReceiveEnd(t) \/ PollFinds(t) \/
        PollTimesOut(t) \/ CheckExit(t)
      PROVE PlaceInv'
  BY <1>11 DEF Inv, TypeOK, ChildInv, PlaceInv, EndInv, Evidence, Loop, ReceiveEnd,
        PollFinds, PollTimesOut, CheckExit
<1>12. ASSUME NEW t \in Threads, Receive(t) PROVE PlaceInv'
  BY <1>12 DEF Inv, TypeOK, ChildInv, PlaceInv, EndInv, Evidence, Receive
<1>13. ASSUME NEW t \in Threads, DecideCancelled(t) \/ DecideSilent(t) \/ DecideError(t) \/
      DecideMessage(t) \/ Grace(t) PROVE PlaceInv'
  BY <1>13 DEF Inv, TypeOK, ChildInv, PlaceInv, EndInv, Evidence, Settle, DecideCancelled,
        DecideSilent, DecideError, DecideMessage, Grace
<1>14. ASSUME NEW t \in Threads, JoinChild(t) \/ Joined(t) \/ CheckCancelled(t) \/
      StillAlive(t) PROVE PlaceInv'
  BY <1>14 DEF Inv, TypeOK, ChildInv, PlaceInv, EndInv, Evidence, Settle, JoinChild, Joined,
        CheckCancelled, StillAlive
<1>15. ASSUME NEW t \in Threads, Exited(t) PROVE PlaceInv'
  BY <1>15, HandleAssumption DEF Inv, TypeOK, ChildInv, PlaceInv, EndInv, Evidence,
        CleanExit, Settle, Exited
<1>16. ASSUME NEW t \in Threads, Validated(t) PROVE PlaceInv'
  BY <1>16 DEF Inv, TypeOK, ChildInv, PlaceInv, EndInv, Evidence, Settle, Validated
<1>17. ASSUME NEW t \in Threads, Terminate(t) \/ CloseConnections(t) \/ CloseProcess(t)
      PROVE PlaceInv'
  BY <1>17 DEF Inv, TypeOK, ChildInv, PlaceInv, EndInv, Evidence, Terminate,
        CloseConnections, CloseProcess
<1>18. ASSUME NEW t \in Threads, Finish(t) \/ Publish(t) PROVE PlaceInv'
  BY <1>18 DEF Inv, TypeOK, ChildInv, PlaceInv, EndInv, Evidence, Finish, Publish
<1>19. CASE ChildSends
  BY <1>19 DEF Inv, TypeOK, ChildInv, PlaceInv, EndInv, Evidence, parent, ChildSends
<1>20. CASE ChildBegins \/ ChildCloses
  BY <1>20 DEF Inv, TypeOK, ChildInv, PlaceInv, EndInv, Evidence, parent, ChildBegins,
        ChildCloses
<1>21. CASE ChildExits
  BY <1>21 DEF Inv, TypeOK, ChildInv, PlaceInv, EndInv, Evidence, parent, ChildExits
<1>22. CASE Deadline
  BY <1>22 DEF Inv, TypeOK, ChildInv, PlaceInv, EndInv, Evidence, parent, Deadline
<1> QED BY <1>1, <1>2, <1>3, <1>4, <1>5, <1>6, <1>7, <1>8, <1>9, <1>10, <1>11, <1>12, <1>13,
        <1>14, <1>15, <1>16, <1>17, <1>18, <1>19, <1>20, <1>21, <1>22 DEF Next, Calling,
        CancelStep, WaitStep

\* The end of the run.
LEMMA EndStep ==
  ASSUME Inv, Next
  PROVE  EndInv'
<1> USE DEF handle, resources, process, locals, Goto, Return
<1>1. ASSUME NEW t \in Threads, CallStart(t) \/ CallWait(t) \/ CallCancel(t) \/ CallClose(t)
      PROVE EndInv'
  BY <1>1 DEF Inv, TypeOK, ChildInv, PlaceInv, EndInv, ReleasedWhenDone, CallStart,
        CallWait, CallCancel, CallClose
<1>2. ASSUME NEW t \in Threads, TooLate(t) \/ Signal(t) PROVE EndInv'
  BY <1>2 DEF Inv, TypeOK, ChildInv, PlaceInv, EndInv, ReleasedWhenDone, Answer, TooLate,
        Signal
<1>3. ASSUME NEW t \in Threads, Lock(t) \/ Raise(t) \/ Kill(t) PROVE EndInv'
  BY <1>3 DEF Inv, TypeOK, ChildInv, PlaceInv, EndInv, ReleasedWhenDone, Lock, Raise, Kill
<1>4. ASSUME NEW t \in Threads, Cancelled(t) PROVE EndInv'
  BY <1>4 DEF Inv, TypeOK, ChildInv, PlaceInv, EndInv, ReleasedWhenDone, Answer, Cancelled
<1>5. ASSUME NEW t \in Threads, EnterWait(t) \/ AlreadyAnswered(t) PROVE EndInv'
  BY <1>5 DEF Inv, TypeOK, ChildInv, PlaceInv, EndInv, ReleasedWhenDone, EnterWait,
        AlreadyAnswered
<1>6. ASSUME NEW t \in Threads, AlreadyStarted(t) PROVE EndInv'
  BY <1>6 DEF Inv, TypeOK, ChildInv, PlaceInv, EndInv, ReleasedWhenDone, AlreadyStarted
<1>7. ASSUME NEW t \in Threads, StartCancelled(t) PROVE EndInv'
  BY <1>7 DEF Inv, TypeOK, ChildInv, PlaceInv, EndInv, ReleasedWhenDone, FailStart,
        StartCancelled
<1>8. ASSUME NEW t \in Threads, SpawnFails(t) PROVE EndInv'
  BY <1>8 DEF Inv, TypeOK, ChildInv, PlaceInv, EndInv, ReleasedWhenDone, FailStart,
        SpawnFails
<1>9. ASSUME NEW t \in Threads, SendFails(t) PROVE EndInv'
  BY <1>9 DEF Inv, TypeOK, ChildInv, PlaceInv, EndInv, ReleasedWhenDone, FailStart,
        SendFails
<1>10. ASSUME NEW t \in Threads, Start(t) PROVE EndInv'
  BY <1>10 DEF Inv, TypeOK, ChildInv, PlaceInv, EndInv, ReleasedWhenDone, Spawn, Start
<1>11. ASSUME NEW t \in Threads, Loop(t) \/ ReceiveEnd(t) \/ PollFinds(t) \/
        PollTimesOut(t) \/ CheckExit(t)
      PROVE EndInv'
  BY <1>11 DEF Inv, TypeOK, ChildInv, PlaceInv, EndInv, ReleasedWhenDone, Loop, ReceiveEnd,
        PollFinds, PollTimesOut, CheckExit
<1>12. ASSUME NEW t \in Threads, Receive(t) PROVE EndInv'
  BY <1>12 DEF Inv, TypeOK, ChildInv, PlaceInv, EndInv, ReleasedWhenDone, Receive
<1>13. ASSUME NEW t \in Threads, DecideCancelled(t) \/ DecideSilent(t) \/ DecideError(t) \/
      DecideMessage(t) \/ Grace(t) PROVE EndInv'
  BY <1>13 DEF Inv, TypeOK, ChildInv, PlaceInv, EndInv, ReleasedWhenDone, Settle,
        DecideCancelled, DecideSilent, DecideError, DecideMessage, Grace
<1>14. ASSUME NEW t \in Threads, JoinChild(t) \/ Joined(t) \/ CheckCancelled(t) \/
      StillAlive(t) PROVE EndInv'
  BY <1>14 DEF Inv, TypeOK, ChildInv, PlaceInv, EndInv, ReleasedWhenDone, Settle, JoinChild,
        Joined, CheckCancelled, StillAlive
<1>15. ASSUME NEW t \in Threads, Exited(t) PROVE EndInv'
  BY <1>15 DEF Inv, TypeOK, ChildInv, PlaceInv, EndInv, ReleasedWhenDone, CleanExit, Settle,
        Exited
<1>16. ASSUME NEW t \in Threads, Validated(t) PROVE EndInv'
  BY <1>16 DEF Inv, TypeOK, ChildInv, PlaceInv, EndInv, ReleasedWhenDone, Settle, Validated
<1>17. ASSUME NEW t \in Threads, Terminate(t) \/ CloseConnections(t) \/ CloseProcess(t)
      PROVE EndInv'
  BY <1>17 DEF Inv, TypeOK, ChildInv, PlaceInv, EndInv, ReleasedWhenDone, Terminate,
        CloseConnections, CloseProcess
<1>18. ASSUME NEW t \in Threads, Finish(t) \/ Publish(t) PROVE EndInv'
  BY <1>18 DEF Inv, TypeOK, ChildInv, PlaceInv, EndInv, ReleasedWhenDone, Finish, Publish
<1>19. CASE ChildSends
  BY <1>19 DEF Inv, TypeOK, ChildInv, PlaceInv, EndInv, ReleasedWhenDone, parent, ChildSends
<1>20. CASE ChildBegins \/ ChildCloses
  BY <1>20 DEF Inv, TypeOK, ChildInv, PlaceInv, EndInv, ReleasedWhenDone, parent,
        ChildBegins, ChildCloses
<1>21. CASE ChildExits
  BY <1>21 DEF Inv, TypeOK, ChildInv, PlaceInv, EndInv, ReleasedWhenDone, parent, ChildExits
<1>22. CASE Deadline
  BY <1>22 DEF Inv, TypeOK, ChildInv, PlaceInv, EndInv, ReleasedWhenDone, parent, Deadline
<1> QED BY <1>1, <1>2, <1>3, <1>4, <1>5, <1>6, <1>7, <1>8, <1>9, <1>10, <1>11, <1>12, <1>13,
        <1>14, <1>15, <1>16, <1>17, <1>18, <1>19, <1>20, <1>21, <1>22 DEF Next, Calling,
        CancelStep, WaitStep

\* What was told stays told.
LEMMA ToldStep ==
  ASSUME Inv, Next
  PROVE  ToldInv'
<1> USE DEF handle, resources, process, locals, Goto, Return
<1>1. ASSUME NEW t \in Threads, CallStart(t) \/ CallWait(t) \/ CallCancel(t) \/ CallClose(t)
      PROVE ToldInv'
  BY <1>1 DEF Inv, TypeOK, PlaceInv, ChildInv, EndInv, ToldInv, Evidence, CallStart,
        CallWait, CallCancel, CallClose
<1>2. ASSUME NEW t \in Threads, TooLate(t) \/ Signal(t) PROVE ToldInv'
  BY <1>2 DEF Inv, TypeOK, PlaceInv, ChildInv, EndInv, ToldInv, Evidence, Answer, TooLate,
        Signal
<1>3. ASSUME NEW t \in Threads, Lock(t) \/ Raise(t) \/ Kill(t) PROVE ToldInv'
  BY <1>3 DEF Inv, TypeOK, PlaceInv, ChildInv, EndInv, ToldInv, Evidence, Lock, Raise, Kill
<1>4. ASSUME NEW t \in Threads, Cancelled(t) PROVE ToldInv'
  BY <1>4 DEF Inv, TypeOK, PlaceInv, ChildInv, EndInv, ToldInv, Evidence, Answer, Cancelled
<1>5. ASSUME NEW t \in Threads, EnterWait(t) \/ AlreadyAnswered(t) PROVE ToldInv'
  BY <1>5 DEF Inv, TypeOK, PlaceInv, ChildInv, EndInv, ToldInv, Evidence, EnterWait,
        AlreadyAnswered
<1>6. ASSUME NEW t \in Threads, AlreadyStarted(t) PROVE ToldInv'
  BY <1>6 DEF Inv, TypeOK, PlaceInv, ChildInv, EndInv, ToldInv, Evidence, AlreadyStarted
<1>7. ASSUME NEW t \in Threads, StartCancelled(t) PROVE ToldInv'
  BY <1>7 DEF Inv, TypeOK, PlaceInv, ChildInv, EndInv, ToldInv, Evidence, FailStart,
        StartCancelled
<1>8. ASSUME NEW t \in Threads, SpawnFails(t) PROVE ToldInv'
  BY <1>8 DEF Inv, TypeOK, PlaceInv, ChildInv, EndInv, ToldInv, Evidence, FailStart,
        SpawnFails
<1>9. ASSUME NEW t \in Threads, SendFails(t) PROVE ToldInv'
  BY <1>9 DEF Inv, TypeOK, PlaceInv, ChildInv, EndInv, ToldInv, Evidence, FailStart,
        SendFails
<1>10. ASSUME NEW t \in Threads, Start(t) PROVE ToldInv'
  BY <1>10 DEF Inv, TypeOK, PlaceInv, ChildInv, EndInv, ToldInv, Evidence, Spawn, Start
<1>11. ASSUME NEW t \in Threads, Loop(t) \/ ReceiveEnd(t) \/ PollFinds(t) \/
        PollTimesOut(t) \/ CheckExit(t)
      PROVE ToldInv'
  BY <1>11 DEF Inv, TypeOK, PlaceInv, ChildInv, EndInv, ToldInv, Evidence, Loop, ReceiveEnd,
        PollFinds, PollTimesOut, CheckExit
<1>12. ASSUME NEW t \in Threads, Receive(t) PROVE ToldInv'
  BY <1>12 DEF Inv, TypeOK, PlaceInv, ChildInv, EndInv, ToldInv, Evidence, Receive
<1>13. ASSUME NEW t \in Threads, DecideCancelled(t) \/ DecideSilent(t) \/ DecideError(t) \/
      DecideMessage(t) \/ Grace(t) PROVE ToldInv'
  BY <1>13 DEF Inv, TypeOK, PlaceInv, ChildInv, EndInv, ToldInv, Evidence, Settle,
        DecideCancelled, DecideSilent, DecideError, DecideMessage, Grace
<1>14. ASSUME NEW t \in Threads, JoinChild(t) \/ Joined(t) \/ CheckCancelled(t) \/
      StillAlive(t) PROVE ToldInv'
  BY <1>14 DEF Inv, TypeOK, PlaceInv, ChildInv, EndInv, ToldInv, Evidence, Settle,
        JoinChild, Joined, CheckCancelled, StillAlive
<1>15. ASSUME NEW t \in Threads, Exited(t) PROVE ToldInv'
  BY <1>15 DEF Inv, TypeOK, PlaceInv, ChildInv, EndInv, ToldInv, Evidence, CleanExit,
        Settle, Exited
<1>16. ASSUME NEW t \in Threads, Validated(t) PROVE ToldInv'
  BY <1>16 DEF Inv, TypeOK, PlaceInv, ChildInv, EndInv, ToldInv, Evidence, Settle, Validated
<1>17. ASSUME NEW t \in Threads, Terminate(t) \/ CloseConnections(t) \/ CloseProcess(t)
      PROVE ToldInv'
  BY <1>17 DEF Inv, TypeOK, PlaceInv, ChildInv, EndInv, ToldInv, Evidence, Terminate,
        CloseConnections, CloseProcess
<1>18. ASSUME NEW t \in Threads, Finish(t) \/ Publish(t) PROVE ToldInv'
  BY <1>18 DEF Inv, TypeOK, PlaceInv, ChildInv, EndInv, ToldInv, Evidence, Finish, Publish
<1>19. CASE ChildSends
  BY <1>19 DEF Inv, TypeOK, PlaceInv, ChildInv, EndInv, ToldInv, Evidence, parent,
        ChildSends
<1>20. CASE ChildBegins \/ ChildCloses
  BY <1>20 DEF Inv, TypeOK, PlaceInv, ChildInv, EndInv, ToldInv, Evidence, parent,
        ChildBegins, ChildCloses
<1>21. CASE ChildExits
  BY <1>21 DEF Inv, TypeOK, PlaceInv, ChildInv, EndInv, ToldInv, Evidence, parent,
        ChildExits
<1>22. CASE Deadline
  BY <1>22 DEF Inv, TypeOK, PlaceInv, ChildInv, EndInv, ToldInv, Evidence, parent, Deadline
<1> QED BY <1>1, <1>2, <1>3, <1>4, <1>5, <1>6, <1>7, <1>8, <1>9, <1>10, <1>11, <1>12, <1>13,
        <1>14, <1>15, <1>16, <1>17, <1>18, <1>19, <1>20, <1>21, <1>22 DEF Next, Calling,
        CancelStep, WaitStep

-----------------------------------------------------------------------------

LEMMA InitInv == Init => Inv
BY HandleAssumption
   DEF Init, Inv, TypeOK, ChildInv, PlaceInv, EndInv, ToldInv, Evidence, ReleasedWhenDone

LEMMA NextInv == Inv /\ [Next]_vars => Inv'
<1>1. CASE UNCHANGED vars
  BY <1>1
     DEF vars, Inv, TypeOK, ChildInv, PlaceInv, EndInv, ToldInv, Evidence,
         ReleasedWhenDone
<1> QED BY <1>1, TypeStep, ChildStep, PlaceStep, EndStep, ToldStep DEF Inv

\* The invariant holds in every reachable state.
THEOREM HandleInvariant == Spec => []Inv
BY InitInv, NextInv, PTL DEF Spec

\* Every variable of the handle keeps its type, and wait() is serialised.
THEOREM HandleTypes == Spec => []TypeOK
BY HandleInvariant, PTL DEF Inv

\* "Every terminal path closes all four pipe endpoints, closes the process handle": a handle
\* that says it is done has no child and holds no resource, whatever its threads did.
THEOREM DoneIsReleased == Spec => []ReleasedWhenDone
<1>1. Inv => ReleasedWhenDone
  BY DEF Inv, EndInv
<1> QED BY <1>1, HandleInvariant, PTL

\* A completed run is one whose child sent exactly one valid response and exited with zero.
THEOREM CompletionIsEvidence == Spec => []CompletedIsEvidence
<1>1. Inv => CompletedIsEvidence
  BY DEF Inv, ChildInv, Evidence, CompletedIsEvidence
<1> QED BY <1>1, HandleInvariant, PTL

\* Everybody who waits, starts or closes is told the one outcome of the run.
THEOREM AnswersAgree == Spec => []OneAnswer
<1>1. Inv => OneAnswer
  BY DEF Inv, ToldInv, OneAnswer
<1> QED BY <1>1, HandleInvariant, PTL

\* When cancel() has answered True, no child runs and none ever will.
THEOREM CancellationStops == Spec => []CancelStops
<1>1. Inv => CancelStops
  BY DEF Inv, ToldInv, CancelStops
<1> QED BY <1>1, HandleInvariant, PTL

-----------------------------------------------------------------------------
(* The action property and the refinement.                                 *)

LEMMA EarlyStep ==
  ASSUME Inv, Next, event, ~started
  PROVE  ~started' /\ response' \in {response, "cancelled"}
<1> USE DEF handle, resources, process, locals
<1>0. ASSUME UNCHANGED <<started, response>>
      PROVE  ~started' /\ response' \in {response, "cancelled"}
  BY <1>0
<1>1. ASSUME NEW t \in Threads, CallStart(t) \/ CallWait(t) \/ CallCancel(t) \/ CallClose(t)
      PROVE ~started' /\ response' \in {response, "cancelled"}
  BY <1>0, <1>1 DEF CallStart, CallWait, CallCancel, CallClose
<1>2. ASSUME NEW t \in Threads, TooLate(t) \/ Cancelled(t) PROVE ~started' /\ response' \in
      {response, "cancelled"}
  BY <1>0, <1>2 DEF TooLate, Cancelled
<1>3. ASSUME NEW t \in Threads, Signal(t) PROVE ~started' /\ response' \in {response,
      "cancelled"}
  BY <1>3 DEF Signal
<1>4. ASSUME NEW t \in Threads, Lock(t) \/ Raise(t) \/ Kill(t) PROVE ~started' /\ response'
      \in {response, "cancelled"}
  BY <1>4 DEF Inv, PlaceInv, Lock, Raise, Kill
<1>5. ASSUME NEW t \in Threads, EnterWait(t) \/ AlreadyAnswered(t) \/ AlreadyStarted(t)
      PROVE ~started' /\ response' \in {response, "cancelled"}
  BY <1>0, <1>5 DEF EnterWait, AlreadyAnswered, AlreadyStarted
<1>6. ASSUME NEW t \in Threads, StartCancelled(t) \/ SpawnFails(t) \/ SendFails(t) \/
      Start(t) PROVE ~started' /\ response' \in {response, "cancelled"}
  BY <1>6 DEF FailStart, Spawn, StartCancelled, SpawnFails, SendFails, Start
<1>7. ASSUME NEW t \in Threads, Loop(t) \/ Receive(t) \/ ReceiveEnd(t) \/
        PollFinds(t) \/ PollTimesOut(t) \/
      CheckExit(t) PROVE ~started' /\ response' \in {response, "cancelled"}
  BY <1>7 DEF Inv, PlaceInv, Loop, Receive, ReceiveEnd, PollFinds, PollTimesOut, CheckExit
<1>8. ASSUME NEW t \in Threads, DecideCancelled(t) \/ DecideSilent(t) \/ DecideError(t) \/
      DecideMessage(t) \/ Grace(t) PROVE ~started' /\ response' \in {response, "cancelled"}
  BY <1>8 DEF Inv, PlaceInv, DecideCancelled, DecideSilent, DecideError, DecideMessage,
        Grace
<1>9. ASSUME NEW t \in Threads, JoinChild(t) \/ Joined(t) \/ CheckCancelled(t) \/
      StillAlive(t) \/ Exited(t) \/ Validated(t) PROVE ~started' /\ response' \in {response,
      "cancelled"}
  BY <1>9 DEF Inv, PlaceInv, JoinChild, Joined, CheckCancelled, StillAlive, Exited,
        Validated
<1>10. ASSUME NEW t \in Threads, Terminate(t) \/ CloseConnections(t) \/ CloseProcess(t) \/
      Finish(t) \/ Publish(t) PROVE ~started' /\ response' \in {response, "cancelled"}
  BY <1>10 DEF Inv, PlaceInv, Terminate, CloseConnections, CloseProcess, Finish, Publish
<1>11. CASE ChildBegins \/ ChildSends \/ ChildCloses
  BY <1>0, <1>11 DEF parent, ChildSends, ChildBegins, ChildCloses
<1>12. CASE ChildExits \/ Deadline
  BY <1>0, <1>12 DEF parent, ChildExits, Deadline
<1> QED BY <1>1, <1>2, <1>3, <1>4, <1>5, <1>6, <1>7, <1>8, <1>9, <1>10, <1>11, <1>12 DEF
        Next, Calling, CancelStep, WaitStep

\* A run that was cancelled before it started is not started and ends as cancelled.
THEOREM EarlyCancellationDecides == Spec => EarlyCancelDecides
<1>1. Inv /\ [Next]_vars =>
        [event /\ ~started => ~started' /\ response' \in {response, "cancelled"}]_vars
  BY EarlyStep
<1> QED BY <1>1, HandleInvariant, PTL DEF Spec, EarlyCancelDecides

\* A step of the handle is a step of the abstract one or none at all.
Mapped == Promise!Next \/ UNCHANGED <<Stage, event>>

LEMMA MappedStep ==
  ASSUME Inv, Next
  PROVE  Mapped
<1> USE DEF handle, resources, process, locals, Inv, PlaceInv, ChildInv, EndInv,
            ReleasedWhenDone, Mapped, Stage, Promise!Next
<1>1. ASSUME NEW t \in Threads, CallStart(t) \/ CallWait(t) \/ CallCancel(t) \/ CallClose(t)
      \/ TooLate(t) PROVE Mapped
  BY <1>1 DEF CallStart, CallWait, CallCancel, CallClose, TooLate
<1>2. ASSUME NEW t \in Threads, Signal(t) PROVE Mapped
  BY <1>2 DEF Promise!Signal, Signal
<1>3. ASSUME NEW t \in Threads, Lock(t) \/ Raise(t) \/ Cancelled(t) PROVE Mapped
  BY <1>3 DEF Lock, Raise, Cancelled
<1>4. ASSUME NEW t \in Threads, Kill(t) PROVE Mapped
  BY <1>4 DEF Promise!End, Kill
<1>5. ASSUME NEW t \in Threads, EnterWait(t) \/ AlreadyAnswered(t) \/ AlreadyStarted(t)
      PROVE Mapped
  BY <1>5 DEF EnterWait, AlreadyAnswered, AlreadyStarted
<1>6. ASSUME NEW t \in Threads, StartCancelled(t) \/ SpawnFails(t) PROVE Mapped
  BY <1>6 DEF Promise!Refuse, FailStart, StartCancelled, SpawnFails
<1>7. ASSUME NEW t \in Threads, SendFails(t) PROVE Mapped
  BY <1>7 DEF Promise!Refuse, FailStart, SendFails
<1>8. ASSUME NEW t \in Threads, Start(t) PROVE Mapped
  BY <1>8 DEF Promise!Start, Spawn, Start
<1>9. ASSUME NEW t \in Threads, Loop(t) \/ Receive(t) \/ ReceiveEnd(t) \/
        PollFinds(t) \/ PollTimesOut(t) \/
      CheckExit(t) PROVE Mapped
  BY <1>9 DEF Loop, Receive, ReceiveEnd, PollFinds, PollTimesOut, CheckExit
<1>10. ASSUME NEW t \in Threads, DecideCancelled(t) \/ DecideError(t) \/ DecideMessage(t) \/
      Grace(t) PROVE Mapped
  BY <1>10 DEF DecideCancelled, DecideError, DecideMessage, Grace
<1>11. ASSUME NEW t \in Threads, DecideSilent(t) \/ StillAlive(t) PROVE Mapped
  BY <1>11 DEF Promise!Signal, DecideSilent, StillAlive
<1>12. ASSUME NEW t \in Threads, JoinChild(t) \/ Joined(t) \/ CheckCancelled(t) PROVE Mapped
  BY <1>12 DEF JoinChild, Joined, CheckCancelled
<1>13. ASSUME NEW t \in Threads, Exited(t) \/ Validated(t) PROVE Mapped
  BY <1>13 DEF Exited, Validated
<1>14. ASSUME NEW t \in Threads, Terminate(t) PROVE Mapped
  BY <1>14 DEF Promise!End, Terminate
<1>15. ASSUME NEW t \in Threads, CloseConnections(t) \/ Publish(t) PROVE Mapped
  BY <1>15 DEF CloseConnections, Publish
<1>16. ASSUME NEW t \in Threads, CloseProcess(t) PROVE Mapped
  BY <1>16 DEF Promise!Close, CloseProcess
<1>17. ASSUME NEW t \in Threads, Finish(t) PROVE Mapped
  BY <1>17 DEF Promise!Finish, Finish
<1>18. CASE ChildBegins \/ ChildSends \/ ChildCloses \/ ChildExits \/ Deadline
  BY <1>18 DEF Promise!End, parent, ChildSends, ChildBegins, ChildCloses, ChildExits,
        Deadline
<1> QED BY <1>1, <1>2, <1>3, <1>4, <1>5, <1>6, <1>7, <1>8, <1>9, <1>10, <1>11, <1>12, <1>13,
        <1>14, <1>15, <1>16, <1>17, <1>18 DEF Next, Calling, CancelStep, WaitStep

\* The threads, locks and processes of the handle implement AbstractWorkerHandle, which is
\* all that McpRequests relies on.
THEOREM HandleImplemented == Spec => ImplementsHandle
<1>1. Init => Promise!Init
  BY DEF Init, Promise!Init, Stage
<1>2. Inv /\ [Next]_vars => [Promise!Next]_<<Stage, event>>
  <2>1. CASE Next
    BY <2>1, MappedStep DEF Mapped
  <2>2. CASE UNCHANGED vars
    BY <2>2 DEF vars, Stage
  <2> QED BY <2>1, <2>2
<1> QED BY <1>1, <1>2, HandleInvariant, PTL DEF Spec, ImplementsHandle, Promise!Spec

==============================================================================

------------------------ MODULE AbstractWorkerHandle ------------------------
(***************************************************************************)
(* What the rest of belief may rely on about one isolated worker: the life *)
(* of its process as seen through start(), wait() and cancel() of          *)
(* belief/validation/worker/process.py.  WorkerRunHandle implements it;    *)
(* McpRequests uses its workers in no other way.                           *)
(***************************************************************************)
VARIABLES
  stage,  \* life of the worker: see Stages
  event   \* _cancellation_event

\* fresh: not started; running: the child may be alive; exited: it is not;
\* closed: the Process object is closed; done: _done, the handle is finished
Stages == {"fresh", "running", "exited", "closed", "done"}

Init == stage = "fresh" /\ event = FALSE

\* start(), which a set event forbids
Start == stage = "fresh" /\ ~event /\ stage' = "running" /\ UNCHANGED event

\* start() ends the run instead
Refuse == stage = "fresh" /\ stage' = "done" /\ UNCHANGED event

\* the child exits, or is terminated
End == stage = "running" /\ stage' = "exited" /\ UNCHANGED event

Close == stage = "exited" /\ stage' = "closed" /\ UNCHANGED event

Finish == stage = "closed" /\ stage' = "done" /\ UNCHANGED event

\* cancel(), or wait() on its own behalf
Signal == stage # "done" /\ event' = TRUE /\ UNCHANGED stage

Next == Start \/ Refuse \/ End \/ Close \/ Finish \/ Signal

Spec == Init /\ [][Next]_<<stage, event>>
=============================================================================

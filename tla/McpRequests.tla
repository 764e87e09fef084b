----------------------------- MODULE McpRequests -----------------------------
(***************************************************************************)
(* The stdio runtime of belief/mcp/server.py with the request executions   *)
(* of belief/mcp/execution.py and the publishing tools of                  *)
(* belief/mcp/tools.py: one reader thread that admits, cancels and shuts   *)
(* down, a pool of threads that handle what was admitted, and one          *)
(* isolated worker at a time.  A section under a lock that waits for       *)
(* nothing is one step; worker handles are those of AbstractWorkerHandle.  *)
(***************************************************************************)
EXTENDS Naturals, FiniteSets

CONSTANTS
  Requests,      \* the requests that the client sends, once each, when they can be admitted
  Keys,          \* JSON-RPC ids
  KeyOf,         \* KeyOf[r]: the id of request r; ids may be reused
  Validations,   \* requests that call belief_validate_plan
  Publications,  \* requests that scan, prepare or plan: they store without a worker
  MaxInFlight,   \* MCP_MAX_IN_FLIGHT_REQUESTS, also the size of the pool
  None

ASSUME RequestsAssumption ==
  /\ IsFiniteSet(Requests)
  /\ KeyOf \in [Requests -> Keys]
  /\ Validations \subseteq Requests
  /\ Publications \subseteq Requests
  /\ Validations \cap Publications = {}
  /\ MaxInFlight \in Nat \ {0}
  /\ None \notin Requests

VARIABLES
  lifecycle,   \* _state of the dispatcher
  reader,      \* where the reader thread is
  target,      \* the request whose execution it is cancelling, or None
  left,        \* the executions that shutdown() has yet to cancel
  stdout,      \* the pipe to the client: takes a response, is full, or is broken
  closing,     \* _closed of the runtime
  active,      \* active[k]: the request registered under id k
  slots,       \* value of the semaphore _capacity
  validating,  \* holder of the validation semaphore
  pc,          \* pc[r]: where request r is
  cancelled,   \* executions whose cancellation event is set
  completed,   \* executions that are completed
  bound,       \* executions with a registered worker
  stage,       \* stage[r]: life of the worker of r
  events,      \* workers whose cancellation event is set
  answered,    \* admitted requests whose response was written to the client
  store        \* requests whose publication is in the run store

reading == <<lifecycle, reader, target, left, stdout, closing>>
table == <<active, slots>>
execution == <<cancelled, completed, bound>>
workers == <<stage, events>>
vars == <<lifecycle, reader, target, left, stdout, closing, active, slots,
          validating, pc, cancelled, completed, bound, stage, events, answered,
          store>>

Workers(r) == INSTANCE AbstractWorkerHandle
                WITH stage <- stage[r], event <- r \in events

ReaderPlaces == {"reading", "write", "cancel", "signal", "kill", "ending", "shutdown",
                 "stopped", "failed"}
\* places of a validation that holds the validation semaphore
Validating == {"recheck", "register", "worker", "worked", "release"}
Handling == Validating \cup {"handle", "check", "acquire", "commit", "answer"}
Busy == Handling \cup {"write"}
Places == {"unsent", "refused", "queued", "done"} \cup Busy

OnThread == {r \in Requests : pc[r] \in Busy}

Init ==
  /\ lifecycle = "new"
  /\ reader = "reading" /\ target = None /\ left = {}
  /\ stdout = "open" /\ closing = FALSE
  /\ active = [k \in Keys |-> None]
  /\ slots = MaxInFlight
  /\ validating = None
  /\ pc = [r \in Requests |-> "unsent"]
  /\ cancelled = {} /\ completed = {} /\ bound = {}
  /\ stage = [r \in Requests |-> "fresh"]
  /\ events = {}
  /\ answered = {}
  /\ store = {}

Goto(r, place) == pc' = [pc EXCEPT ![r] = place]

-----------------------------------------------------------------------------
(* The reader: lines of the client, until its stdin ends.                  *)

\* _write, under _write_lock: write() and flush() wait while the pipe is full, and
\* raise once the client is gone
Send(rs) ==
  /\ stdout # "full"
  /\ answered' = IF stdout = "open" THEN answered \cup rs ELSE answered

\* the reader has an answer of its own to write
Answer ==
  /\ reader = "reading"
  /\ reader' = "write"
  /\ UNCHANGED <<target, left, stdout, closing, table, validating, execution, workers,
                 answered, store>>

\* a write that raises in the reader ends its loop
ReaderWrites ==
  /\ reader = "write"
  /\ Send({})
  /\ reader' = IF stdout = "broken" THEN "ending" ELSE "reading"
  /\ UNCHANGED <<lifecycle, target, left, stdout, closing, table, validating, pc,
                 execution, workers, store>>

Initialize ==
  /\ lifecycle = "new"
  /\ lifecycle' = "initialize_responded"
  /\ Answer
  /\ UNCHANGED pc

Initialized ==
  /\ reader = "reading"
  /\ lifecycle = "initialize_responded"
  /\ lifecycle' = "ready"
  /\ UNCHANGED <<reader, target, left, stdout, closing, table, validating, pc,
                 execution, workers, answered, store>>

\* a line that is not admitted gets an error at once
Refuse == Answer /\ UNCHANGED <<lifecycle, pc>>

RefuseDuplicate(k) == active[k] # None /\ Refuse

RefuseBusy(k) == active[k] = None /\ slots = 0 /\ Refuse

\* executor.submit() raises: what was taken is given back under the same lock
SubmitFails(r) ==
  /\ reader = "reading"
  /\ pc[r] = "unsent"
  /\ active[KeyOf[r]] = None
  /\ slots > 0
  /\ completed' = completed \cup {r}
  /\ Goto(r, "refused")
  /\ reader' = "write"
  /\ UNCHANGED <<lifecycle, target, left, stdout, closing, table, validating, cancelled,
                 bound, workers, answered, store>>

Admit(r) ==
  /\ reader = "reading"
  /\ pc[r] = "unsent"
  /\ slots > 0
  /\ slots' = slots - 1
  /\ active' = [active EXCEPT ![KeyOf[r]] = r]
  /\ Goto(r, "queued")
  /\ UNCHANGED <<reading, validating, execution, workers, answered, store>>

Submit(r) ==
  /\ active[KeyOf[r]] = None
  /\ Admit(r)

\* notifications/cancelled: the execution is looked up under _active_lock and
\* cancelled without it
Cancel(k) ==
  /\ reader = "reading"
  /\ active[k] # None
  /\ target' = active[k]
  /\ reader' = "cancel"
  /\ UNCHANGED <<lifecycle, left, stdout, closing, table, validating, pc, execution,
                 workers, answered, store>>

Eof ==
  /\ reader = "reading"
  /\ reader' = "ending"
  /\ UNCHANGED <<lifecycle, target, left, stdout, closing, table, validating, pc,
                 execution, workers, answered, store>>

-----------------------------------------------------------------------------
(* MCPRequestExecution.cancel, and cancel() of the worker that it found.   *)

reader_only == <<lifecycle, left, stdout, closing, table, validating, pc, completed,
                 bound, answered, store>>

\* back to the loop of run(), or to that of shutdown()
Resume ==
  /\ reader' = IF closing THEN "shutdown" ELSE "reading"
  /\ target' = None

CancelTooLate ==
  /\ reader = "cancel"
  /\ target \in completed \cup cancelled
  /\ Resume
  /\ UNCHANGED <<reader_only, cancelled, workers>>

MarkCancelled ==
  /\ reader = "cancel"
  /\ target \notin completed \cup cancelled
  /\ cancelled' = cancelled \cup {target}
  /\ IF target \in bound THEN reader' = "signal" /\ UNCHANGED target ELSE Resume
  /\ UNCHANGED <<reader_only, workers>>

\* worker.cancel(): under _state_lock
SignalWorker ==
  /\ reader = "signal"
  /\ IF stage[target] = "done"
       THEN Resume /\ UNCHANGED events
       ELSE /\ events' = events \cup {target}
            /\ IF stage[target] = "fresh"
                 THEN Resume
                 ELSE reader' = "kill" /\ UNCHANGED target
  /\ UNCHANGED <<reader_only, cancelled, stage>>

\* mutant: the child is killed whatever became of its Process object
KillAnyway ==
  /\ reader = "kill"
  /\ stage' = [stage EXCEPT ![target] = "exited"]
  /\ Resume
  /\ UNCHANGED <<reader_only, cancelled, events>>

\* worker.cancel(): under _process_lock
KillWorker ==
  /\ reader = "kill"
  /\ stage[target] \in {"running", "exited"}
  /\ stage' = [stage EXCEPT ![target] = "exited"]
  /\ Resume
  /\ UNCHANGED <<reader_only, cancelled, events>>

\* the Process object is closed: ValueError, which nobody catches
KillRaises ==
  /\ reader = "kill"
  /\ stage[target] \in {"closed", "done"}
  /\ reader' = IF closing THEN "failed" ELSE "ending"
  /\ target' = None
  /\ UNCHANGED <<reader_only, cancelled, workers>>

-----------------------------------------------------------------------------
(* shutdown().                                                             *)

Shutdown ==
  /\ reader = "ending"
  /\ closing' = TRUE
  /\ left' = {active[k] : k \in Keys} \ {None}
  /\ reader' = "shutdown"
  /\ UNCHANGED <<lifecycle, target, stdout, table, validating, pc, execution,
                 workers, answered, store>>

CancelNext(r) ==
  /\ reader = "shutdown"
  /\ r \in left
  /\ left' = left \ {r}
  /\ target' = r
  /\ reader' = "cancel"
  /\ UNCHANGED <<lifecycle, stdout, closing, table, validating, pc, execution,
                 workers, answered, store>>

\* every execution that was found is cancelled: the executor shuts down
Draining == reader = "shutdown" /\ left = {}

\* executor.shutdown(cancel_futures=True): a future that never ran completes
\* with CancelledError
CancelQueued(r) ==
  /\ Draining
  /\ pc[r] = "queued"
  /\ Goto(r, "answer")
  /\ UNCHANGED <<reading, table, validating, execution, workers, answered, store>>

\* mutant: executor.shutdown(wait=False)
CloseWithoutWaiting ==
  /\ Draining
  /\ lifecycle' = "closed"
  /\ store' = {}
  /\ reader' = "stopped"
  /\ UNCHANGED <<target, left, stdout, closing, table, validating, pc, execution,
                 workers, answered>>

\* mutant: the dispatcher waits for the end of the handshake before it closes
CloseWhenReady ==
  /\ Draining
  /\ lifecycle = "ready"
  /\ lifecycle' = "closed"
  /\ store' = {}
  /\ reader' = "stopped"
  /\ UNCHANGED <<target, left, stdout, closing, table, validating, pc, execution,
                 workers, answered>>

\* wait=True, then the dispatcher closes and clears the sessions
Close ==
  /\ Draining
  /\ \A r \in Requests : pc[r] \in {"unsent", "refused", "done"}
  /\ lifecycle' = "closed"
  /\ store' = {}
  /\ reader' = "stopped"
  /\ UNCHANGED <<target, left, stdout, closing, table, validating, pc, execution,
                 workers, answered>>

-----------------------------------------------------------------------------
(* A pool thread: BeliefMCPServer.handle, the tool, and _complete.         *)

\* the handler returns an answer or an error, through the finally clause when
\* it holds the semaphore
Return(r) == Goto(r, IF validating = r THEN "release" ELSE "answer")

Take(r) ==
  /\ pc[r] = "queued"
  /\ Cardinality(OnThread) < MaxInFlight
  /\ Goto(r, "handle")
  /\ UNCHANGED <<reading, table, validating, execution, workers, answered, store>>

\* the lifecycle or the arguments do not allow it, or the run is not there
RejectRequest(r) ==
  /\ pc[r] = "handle"
  /\ Return(r)
  /\ UNCHANGED <<reading, table, validating, execution, workers, answered, store>>

Dispatch(r) ==
  /\ pc[r] = "handle"
  /\ lifecycle = "ready"
  /\ Goto(r, CASE r \in Validations -> "check"
               [] r \in Publications -> "commit"
               [] OTHER -> "answer")
  /\ UNCHANGED <<reading, table, validating, execution, workers, answered, store>>

\* execution.cancelled is read before the semaphore, after it, and after the worker
CheckCancelled(r) ==
  /\ pc[r] \in {"check", "recheck", "worked"}
  /\ r \in cancelled
  /\ Return(r)
  /\ UNCHANGED <<reading, table, validating, execution, workers, answered, store>>

PassCheck(r) ==
  /\ pc[r] \in {"check", "recheck"}
  /\ r \notin cancelled
  /\ Goto(r, IF pc[r] = "check" THEN "acquire" ELSE "register")
  /\ UNCHANGED <<reading, table, validating, execution, workers, answered, store>>

CapacityBusy(r) ==
  /\ pc[r] = "acquire"
  /\ validating # None
  /\ Return(r)
  /\ UNCHANGED <<reading, table, validating, execution, workers, answered, store>>

AcquireCapacity(r) ==
  /\ pc[r] = "acquire"
  /\ validating = None
  /\ validating' = r
  /\ Goto(r, "recheck")
  /\ UNCHANGED <<reading, table, execution, workers, answered, store>>

\* the handle could not be built: a failure response without a worker
HandleFails(r) ==
  /\ pc[r] = "register"
  /\ Goto(r, "worked")
  /\ UNCHANGED <<reading, table, validating, execution, workers, answered, store>>

\* mutant: register_worker does not look at the cancellation
RegisterBlindly(r) ==
  /\ pc[r] = "register"
  /\ bound' = bound \cup {r}
  /\ Goto(r, "worker")
  /\ UNCHANGED <<reading, table, validating, cancelled, completed, workers, answered,
                 store>>

RegisterWorker(r) ==
  /\ pc[r] = "register"
  /\ r \notin completed \cup cancelled
  /\ bound' = bound \cup {r}
  /\ Goto(r, "worker")
  /\ UNCHANGED <<reading, table, validating, cancelled, completed, workers, answered,
                 store>>

\* the cancellation came first: register_worker cancels the new handle itself,
\* after its lock, where no other thread can reach the handle yet
RegisterLate(r) ==
  /\ pc[r] = "register"
  /\ r \in completed \cup cancelled
  /\ events' = events \cup {r}
  /\ Goto(r, "worker")
  /\ UNCHANGED <<reading, table, validating, execution, stage, answered, store>>

\* wait(): what it does itself on the way to "done".  The event that it sets at its
\* deadline is left out: nobody in the server reads it.
StepWorker(r) ==
  /\ pc[r] = "worker"
  /\ \/ stage[r] = "fresh" /\ r \notin events /\ stage' = [stage EXCEPT ![r] = "running"]
     \/ stage[r] = "fresh" /\ stage' = [stage EXCEPT ![r] = "done"]
     \/ stage[r] = "exited" /\ stage' = [stage EXCEPT ![r] = "closed"]
     \/ stage[r] = "closed" /\ stage' = [stage EXCEPT ![r] = "done"]
  /\ UNCHANGED <<reading, table, validating, pc, execution, events, answered,
                 store>>

\* the child ends, or wait() ends it at its deadline
WorkerEnds(r) ==
  /\ pc[r] = "worker"
  /\ stage[r] = "running"
  /\ stage' = [stage EXCEPT ![r] = "exited"]
  /\ UNCHANGED <<reading, table, validating, pc, execution, events, answered, store>>

WorkerAnswers(r) ==
  /\ pc[r] = "worker"
  /\ stage[r] = "done"
  /\ Goto(r, "worked")
  /\ UNCHANGED <<reading, table, validating, execution, workers, answered, store>>

\* no storable outcome, or one that does not fit its binding
RejectOutcome(r) ==
  /\ pc[r] = "worked"
  /\ r \notin cancelled
  /\ Return(r)
  /\ UNCHANGED <<reading, table, validating, execution, workers, answered, store>>

AcceptOutcome(r) ==
  /\ pc[r] = "worked"
  /\ r \notin cancelled
  /\ Goto(r, "commit")
  /\ UNCHANGED <<reading, table, validating, execution, workers, answered, store>>

\* commit_if_active under _lock: cancelled before, or the store refuses
CommitFails(r) ==
  /\ pc[r] = "commit"
  /\ Return(r)
  /\ UNCHANGED <<reading, table, validating, execution, workers, answered, store>>

\* mutant: the result is published without a look at the cancellation
CommitAnyway(r) ==
  /\ pc[r] = "commit"
  /\ store' = store \cup {r}
  /\ completed' = completed \cup {r}
  /\ bound' = bound \ {r}
  /\ Return(r)
  /\ UNCHANGED <<reading, table, validating, cancelled, workers, answered>>

Commit(r) ==
  /\ pc[r] = "commit"
  /\ r \notin completed \cup cancelled
  /\ store' = store \cup {r}
  /\ completed' = completed \cup {r}
  /\ bound' = bound \ {r}
  /\ Return(r)
  /\ UNCHANGED <<reading, table, validating, cancelled, workers, answered>>

\* finally: release_worker, and the semaphore
Release(r) ==
  /\ pc[r] = "release"
  /\ bound' = bound \ {r}
  /\ validating' = None
  /\ Goto(r, "answer")
  /\ UNCHANGED <<reading, table, cancelled, completed, workers, answered, store>>

\* mutant: the id is freed without the slot
CompleteKeepSlot(r) ==
  /\ pc[r] = "answer"
  /\ active' = [active EXCEPT ![KeyOf[r]] = IF @ = r THEN None ELSE @]
  /\ completed' = completed \cup {r}
  /\ bound' = bound \ {r}
  /\ Goto(r, IF r \in cancelled THEN "done" ELSE "write")
  /\ UNCHANGED <<reading, slots, validating, cancelled, workers, answered, store>>

\* mutant: nothing is answered any more once the shutdown has begun
CompleteQuietly(r) ==
  /\ pc[r] = "answer"
  /\ active' = [active EXCEPT ![KeyOf[r]] = IF @ = r THEN None ELSE @]
  /\ completed' = completed \cup {r}
  /\ bound' = bound \ {r}
  /\ slots' = slots + 1
  /\ Goto(r, IF r \in cancelled \/ closing THEN "done" ELSE "write")
  /\ UNCHANGED <<reading, validating, cancelled, workers, answered, store>>

\* _complete: unregister, seal and release under _active_lock, before the write
Complete(r) ==
  /\ pc[r] = "answer"
  /\ active' = [active EXCEPT ![KeyOf[r]] = IF @ = r THEN None ELSE @]
  /\ completed' = completed \cup {r}
  /\ bound' = bound \ {r}
  /\ slots' = slots + 1
  /\ Goto(r, IF r \in cancelled THEN "done" ELSE "write")
  /\ UNCHANGED <<reading, validating, cancelled, workers, answered, store>>

\* mutant: a write that raises is tried again
WriteAgain(r) ==
  /\ pc[r] = "write"
  /\ stdout = "open"
  /\ Send({r})
  /\ Goto(r, "done")
  /\ UNCHANGED <<reading, table, validating, execution, workers, store>>

Write(r) ==
  /\ pc[r] = "write"
  /\ Send({r})
  /\ Goto(r, "done")
  /\ UNCHANGED <<reading, table, validating, execution, workers, store>>

-----------------------------------------------------------------------------
(* The client at the other end of stdout.  What it does shows in a write.  *)

Writing == reader = "write" \/ \E r \in Requests : pc[r] = "write"

client_only == <<lifecycle, reader, target, left, closing, table, validating, pc,
                 execution, workers, answered, store>>

\* it does not read, and the pipe takes no more
ClientStalls ==
  Writing /\ stdout = "open" /\ stdout' = "full" /\ UNCHANGED client_only

ClientReads ==
  stdout = "full" /\ stdout' = "open" /\ UNCHANGED client_only

ClientLeaves ==
  Writing /\ stdout # "broken" /\ stdout' = "broken" /\ UNCHANGED client_only

-----------------------------------------------------------------------------

Line ==
  \/ Initialize \/ Initialized \/ Eof
  \/ \E r \in Requests : SubmitFails(r) \/ Submit(r)
  \/ \E k \in Keys : RefuseDuplicate(k) \/ RefuseBusy(k) \/ Cancel(k)

Cancelling ==
  CancelTooLate \/ MarkCancelled \/ SignalWorker \/ KillWorker \/ KillRaises

ShuttingDown ==
  \/ Shutdown \/ Close
  \/ \E r \in Requests : CancelNext(r) \/ CancelQueued(r)

Thread(r) ==
  \/ Take(r) \/ RejectRequest(r) \/ Dispatch(r) \/ CheckCancelled(r) \/ PassCheck(r)
  \/ CapacityBusy(r) \/ AcquireCapacity(r) \/ HandleFails(r) \/ RegisterWorker(r)
  \/ RegisterLate(r) \/ StepWorker(r) \/ WorkerAnswers(r)
  \/ RejectOutcome(r) \/ AcceptOutcome(r) \/ CommitFails(r) \/ Commit(r) \/ Release(r)
  \/ Complete(r) \/ Write(r)

Client == ClientStalls \/ ClientReads \/ ClientLeaves

Next ==
  \/ Client
  \/ Line \/ ReaderWrites \/ Cancelling \/ ShuttingDown
  \/ \E r \in Requests : Thread(r) \/ WorkerEnds(r)

Spec == Init /\ [][Next]_vars

\* The reader goes on with a cancellation or a shutdown it has begun, and the pool
\* threads with their requests; no request takes infinitely many steps, so fairness to
\* all threads is fairness to each.  It is strong because a pipe that fills and empties
\* again and again takes every response all the same, in portions.  Nothing is assumed
\* here of the client or of the child: see ClientListens and WorkersEnd.
FairSpec ==
  /\ Spec
  /\ WF_vars(Cancelling \/ ShuttingDown)
  /\ SF_vars(\E r \in Requests : Thread(r))

-----------------------------------------------------------------------------
(* Properties.                                                             *)

\* Every variable has its type.
TypeOK ==
  /\ lifecycle \in {"new", "initialize_responded", "ready", "closed"}
  /\ reader \in ReaderPlaces
  /\ target \in Requests \cup {None}
  /\ left \subseteq Requests
  /\ stdout \in {"open", "full", "broken"} /\ closing \in BOOLEAN
  /\ active \in [Keys -> Requests \cup {None}]
  /\ slots \in 0 .. MaxInFlight
  /\ validating \in Requests \cup {None}
  /\ pc \in [Requests -> Places]
  /\ cancelled \subseteq Requests /\ completed \subseteq Requests
  /\ bound \subseteq Requests
  /\ stage \in [Requests -> {"fresh", "running", "exited", "closed", "done"}]
  /\ events \subseteq Requests
  /\ answered \subseteq Requests
  /\ store \subseteq Requests

\* "Completion and cancellation are serialized so only one wins": a request
\* whose cancellation was accepted publishes nothing and is not answered.
OnlyOneWins ==
  \A r \in cancelled : r \notin store \cup answered

\* A request whose publication is in the store is never suppressed: it gets an
\* answer unless the client is gone, however late a cancellation came.
StoredIsAnswered ==
  \A r \in store : pc[r] = "done" => r \in answered \/ stdout = "broken"

\* The table of active ids, the semaphore and the threads agree: every admitted
\* request holds one slot and is the one registered under its id until its
\* completion, so that a cancellation reaches it and nobody else.
TableMatchesSlots ==
  /\ Cardinality({k \in Keys : active[k] # None}) + slots = MaxInFlight
  /\ \A r \in Requests :
       pc[r] \in Handling \cup {"queued"} <=> active[KeyOf[r]] = r

\* A cancellation stops the worker of its request, whether it was registered
\* before or after: once cancel() has returned, no child runs for a cancelled
\* request and none is started.
CancelReachesWorker ==
  \A r \in cancelled :
    stage[r] = "running" =>
      target = r /\ reader \in {"signal", "kill"}

\* When shutdown() has returned, no request is running, no worker is alive, no
\* slot or semaphore is taken, and nothing is retained.
StoppedIsQuiet ==
  reader = "stopped" =>
    /\ OnThread = {} /\ store = {} /\ slots = MaxInFlight /\ validating = None
    /\ \A r \in Requests : stage[r] # "running"

\* Reader and pool thread together use a worker in no other way than its handle
\* allows: each step maps to a step of AbstractWorkerHandle or changes nothing.
WorkersAsPromised ==
  /\ \A r \in Requests : Workers(r)!Init
  /\ [][\A r \in Requests :
          Workers(r)!Next \/ UNCHANGED <<stage[r], r \in events>>]_workers

\* A client that never leaves the pipe full for good, by reading or by going away.
ClientListens == []<>(stdout # "full")

\* No worker runs for ever: what WaitEnds of WorkerRunHandle says of a child that does
\* not stop for good in the middle of its message.
WorkersEnd == \A r \in Requests : []<>(stage[r] # "running")

\* Every admitted request ends, even when the reader is gone: the client sends
\* finitely many, so from some point on none is in flight.
AdmittedEnds ==
  ClientListens /\ WorkersEnd =>
    <>[](\A r \in Requests : pc[r] \in {"unsent", "refused", "done"})

\* A shutdown comes to its end, whatever the children do: those it finds are killed.
\* Once it has begun it stays begun, so that to end is to have ended from some point on.
ShutdownEnds ==
  ClientListens =>
    <>[](reader = "ending" \/ closing => reader \in {"stopped", "failed"})

\* "Server shutdown cancels every remaining active worker": when the reader is
\* gone, every execution that shutdown() found has been completed or cancelled.
ShutdownCancelsAll == reader \in {"stopped", "failed"} => left \subseteq completed
=============================================================================

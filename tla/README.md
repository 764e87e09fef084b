# TLA+ models of belief

belief is a local application-security tool: it extracts facts from source trees, scores
what it finds, and, for a narrow set of registered fixtures, validates a finding by
running code in an isolated worker and keeping the outcome as a durable proof. Most of
its code is sequential and stateless (parsers, rules, scoring) or vendored. What can go
wrong in ways a test hardly reaches sits in a core that is concurrent, persistent, or
talks to parties nobody controls. This directory models that core.

Paths are relative to `src/belief/`; `docs/` is `src/docs/`.

## 1. The system

| Component | Source | State it keeps | Operations | What makes it correct |
|---|---|---|---|---|
| Validation proof ledger | `validation/ledger.py` | `authority.json`, `inventory.json`, `attempts/`, `terminals/`, `pending/`, a content-addressed store; a file lock | `register_scope`, `begin_attempt`, `finish_attempt`, `resume_attempt`, `load_scope`, recovery | what was acknowledged survives; one terminal per attempt; every interrupted publication can be completed; a damaged scope does not load |
| Isolated worker handle | `validation/worker/process.py` | `_started`, `_done`, `_response`, the cancellation event, three locks, pipes, a `Process` | `start`, `wait`, `cancel`, `close` from any thread | one outcome; nothing left running or open; `completed` means evidence; every call ends, unless the child stops in mid-answer |
| Worker child | `validation/worker/bootstrap.py`, `entrypoint.py` | its own process | receive one request, send at most one response, exit | bounded by its parent |
| MCP request execution | `mcp/execution.py` | per request: cancelled, completed, its worker | `register_worker`, `release_worker`, `cancel`, `commit_if_active`, `mark_completed` | a cancellation wins before the publication or comes too late, never both |
| MCP stdio runtime | `mcp/server.py` | lifecycle, active requests, a semaphore, a pool of threads | read a line, submit, complete, cancel, shut down | every admitted request ends as long as the client reads; nothing outlives a shutdown |
| MCP sessions | `mcp/session.py` | a tools instance per session, a validation semaphore | `resolve`, `close_session`, `close_all` | isolation, capacity |
| MCP tools and run store | `mcp/tools.py` | runs in access order, results in global order, byte totals | `put`, `get`, plans, results, `atomic`, eviction | totals match contents, bounds hold, a failed publication leaves no trace |
| PDX evidence store | `pdx/attestation_store.py` | engagement registry, receipts, a file lock | `register_engagement`, `import_attestation_bytes` | one receipt for the same bytes; no two accepted receipts disagree on a capture |
| Groq key pool | `llm_key_pool.py`, `llm_client.py` | position in the cycle, cooldown per key | `get`, `penalize`, the retry loop | not modelled (section 10) |
| External intelligence collection | `intelligence/collection.py`, `adapters.py` | pages fetched so far | plan a page, fetch, validate the chain | ends, and is marked complete only when it is |
| Source snapshot | `source_snapshot.py` | lists of eligible, excluded, truncated, failed and scanned files | walk, select, read once, account | no file is lost from the account; no text mixes two versions |
| Validation runner, plans, proof, policy | `validation/*.py` | none | pure | decision tables |
| Reportability, run plan executor, feedback store, static pipeline, cognitive loop, cycle detector, belief cache | see `PROJECT.json` | none shared | sequential | not modelled (section 10) |

How they interact. A client line reaches the stdio runtime, which admits the request and
hands it to a pool thread; the thread resolves the tools of its session;
`belief_validate_plan` takes the one validation slot, builds a `WorkerRunHandle`,
registers it with the request's `MCPRequestExecution` and waits for it, while the reader
thread may deliver a cancellation to that same handle. The result is stored in the run
store under the request's lock. `belief_scan` builds a source snapshot and publishes a
run. The ledger brackets a worker run by `begin_attempt` and `finish_attempt` (an API,
not part of the server); any number of processes may share it. The evidence store is
shared by processes in the same way. Collection and snapshot meet the outside world: a
provider, a tree that somebody edits.

The hard behaviours: processes killed between two durable writes; racing finishers;
retries after a lost answer; a bound that is met when it is too late to refuse; threads
that cancel, close and wait for one handle; a deadline against an answer; cancellation
against publication; sessions closed under requests that still use them; eviction under
several bounds; peers that stop in the middle of a message, or stop reading; providers
that change their mind; files that change while they are read.
`PROJECT.json` lists each at its line, with the properties that are about it.

## 2. Modules

| Module | Models | Checked by | Proved in |
|---|---|---|---|
| `AbstractLedger` | what one scope promises | through `ValidationLedger` | |
| `ValidationLedger` | the journal, write by write; implements `AbstractLedger` | `ledger_race`, `ledger_loss`, `ledger_capacity` | `ValidationLedgerProofs` |
| `AbstractWorkerHandle` | the life of one worker as others see it | through the next two | |
| `WorkerRunHandle` | threads, child and deadline of one handle; implements `AbstractWorkerHandle` | `worker_handle` | `WorkerRunHandleProofs` |
| `McpRequests` | the runtime, its executions and its workers; uses `AbstractWorkerHandle` | `mcp_requests`, `mcp_shutdown` | `McpRequestsProofs` |
| `McpSessions` | sessions and the instances requests hold | `mcp_sessions` | `McpSessionsProofs` |
| `RunStore` | the store of one tools instance | `run_store` | `RunStoreProofs` |
| `AbstractEvidence` | what the evidence store promises | through `PdxEvidenceStore` | |
| `PdxEvidenceStore` | its files, its lock and its failures; implements `AbstractEvidence` | `pdx_evidence` | `PdxEvidenceStoreProofs` |
| `Collection` | the pagination loop against any provider | `collection` | `CollectionProofs` |
| `SourceSnapshot` | the build against a writer | `snapshot`, `snapshot_blind` | `SourceSnapshotProofs` |

`MC*.tla` only give the constants their values. Two compositions matter. `McpRequests`
uses a worker through `AbstractWorkerHandle`, which `WorkerRunHandle` implements, so a
run of the server over real handles is a run of `McpRequests`: `WorkersAsPromised` says
the server uses a handle in no other way, `ImplementsHandle` that a handle does nothing
else. Both are proved. And `McpRequests` and `RunStore` share the publication: one step
of the first (`Commit`) is a publication under `atomic()` of the second, which keeps
other users of the store out until it has succeeded or left no trace.

A definition marked "mutant" in a comment is a faulty variant of the definition that
follows it: a dropped guard, a swapped order, a missing reset. No specification uses it;
put in the place of the original it makes the property that `PROJECT.json` names fail,
which shows that the property depends on that piece of code.

No module uses a RECURSIVE operator.

## 3. ValidationLedger

One registered scope. A durable write (`_atomic_write`, `_atomic_replace`,
`_remove_durable_file`) is a temporary file, fsynced, and then one link, rename or
unlink, so it is one step. Each step re-reads what the code re-reads at that point:
`InventoryLoads` are the checks of `_load_scope_inventory`, `AttemptRegistered` is
`_load_attempt_path` followed by `_require_scope_inventory_entry`, and so on.

| Variable | Code |
|---|---|
| `manifest`, `inventoried`, `revision`, `entries` | `authority.json`; `inventory.json`, its revision and its entries |
| `records[f][a]`, `pending[f][a]` | `<f>/<a>.json`, `pending/<f>/<a>.json` for f in attempts, terminals |
| `cas` | objects present under `cas/sha256` |
| `lock` | holder of the file lock and of `_lock` (`_exclusive`) |
| `call`, `phase`, `outcome`, `handles` | what each process is doing, how its last call ended, the `AttemptHandle`s it holds |
| `acked`, `pin` | history: what callers were told; the last snapshot given out |
| `faults`, `losses` | counters of injected faults, bounded by `MaxFaults`, `MaxLosses` |

A record is a content and a stamp. Two records are equal when both are; they are the
same attempt when the content is (`_attempt_semantic` and `_terminal_semantic` drop the
timestamp and the integrity block). A digest identifies its record, so `entries` holds
the record itself. `Evidence` says which store objects a content refers to.

A call enters, checks the manifest (`finish_attempt` does not read it), recovers
(`WriteRecord`, `AppendEntry`, `ClearPending` for each intent, attempts first), then
decides (`RejectConflict`, `Replay`, `Adopt`, `RejectLimit`, `StartPublication`), stores
evidence, declares the intent, rolls it forward with the very same three actions, and
answers. `Kill` and `WriteFails` can come at any point of a call: a killed process loses
its handles and the lock; an `OSError` gives the lock back and is reported. `Lose`
deletes one file between calls: it stands for damage from outside.

| Run | Instance | Shows |
|---|---|---|
| `ledger_race` | 2 processes, 2 ids in a scope for 1, 2 contents each, 2 stamps, 2 faults | one winner, nothing acknowledged lost, every crash prefix recoverable, `ImplementsLedger` |
| `ledger_loss` | 1 process, 2 stamps, 1 fault, 2 lost files, fair | `FailClosed`, every call gives the lock back, interrupted publications are completed |
| `ledger_capacity` | an inventory of 3 entries for 2 attempts | finds `PendingRollsForward` violated |

Why the bounds are enough. The lock serialises calls, so a race is a sequence of calls
with crashes in between; two processes show every pair of caller and recoverer, and two
ids against a bound of one show the scope full with an intent outstanding. Two stamps
make a replay differ from its original byte for byte. Two faults interrupt a publication
and then the recovery of it. In `ledger_loss` a damaged file is met by one process as by
any other, since all it knows is on disk. For the safety properties of both runs the
bounds do not matter, except that of two lost files: they are proved without them.

Fairness (`FairSpec`). A process inside a call keeps running (weak fairness per process:
it is ordinary sequential code). Somebody loads the scope, unpinned, again and again
(strong fairness, as the lock comes and goes): that is the documented recovery path, and
without it an intent may wait for ever. `LockReleased` needs only the first. Faults are
bounded, so they stop.

Finding (`ledger_capacity`). `begin_attempt` admits attempts by number (10 000) while
the inventory is bounded by bytes (2 MiB, about 14 700 entries of 142 bytes), and the
byte bound is only met when the intent is already durable. From then on each call of the
scope fails in recovery. `CapacityCovers` (two entries per admitted attempt fit) is the
condition under which `PendingRollsForward` and `NeverRefused` hold; the default
configuration does not meet it.

Divergence, not a run. `begin_attempt` and `_finish_attempt` append a stored record to
the inventory on a replay whether or not an intent preceded it (`ledger.py` 493), while
`docs/VALIDATION_PROOF_V1.md` 141-142 says that a plain record is never adopted. It
takes a damaged scope to get there: with intact files no such record exists
(`JournalConsistent`).

Proofs. `ValidationLedgerProofs` proves `TypeOK`, strengthened by `CallShape` (the
fields a call record has determine what its phase may read), and then `SafeInv`.
`JournalConsistent` is not inductive: that recovery will accept an intent depends on the
attempt bound having been checked when it was declared, and that a publication may
append depends on what its own process saw before. `SafeInv` adds `DiskInv`, the disk
between any two steps (per file a prefix of record, entry, intent; at most one intent in
the scope; a terminal only after a listed attempt; revision, bound, and room for a
declared attempt), and `CallInv`, what the process inside a call has established in each
phase. Both are claimed while no file is lost (`Intact`). `Grows` says what every step
of an intact ledger preserves of durable records. From it follow
`AcknowledgedIsDurable`, `AcknowledgementsAgree`, `JournalIsConsistent`,
`IntentsRollForward` (assuming `CapacityCovers`), `IntactNeverRefused` and
`PublishedIsImmutable`.

Nothing of `SafeInv` is left after a loss, so what holds then has an invariant of its
own. `SureInv` is what a call knows whether the scope is damaged or not: a pinned load
past its check has no intent before it (`PinnedLoadWritesNothing`), and a publication
that is about to answer has its record and its inventory entry. A call never takes
either back (`OnlyAdds`), so only losses matter for `FailClosed`: `Damage` says that all
acknowledgements survive in the inventory, or all in the records, or the inventory is
gone while the manifest forbids a new one. `TwoLossesFailClosed` assumes
`MaxLosses <= 2`, and that is exact: without the manifest, the inventory and a record,
the scope registers again as a new one and loads without the attempt (TLC finds it with
`MaxLosses = 3`; nothing that is left on disk could tell). `InventoryFailsClosed` needs
no bound, but a behaviour in which the inventory is never lost.

The last part proves `LedgerRefinement`: with `MaxLosses = 0` every behaviour implements
`AbstractLedger`, under the mapping that takes a record for begun or ended from the
instant its intent is on disk (`Promised`). Only `CreateManifest`, `Declare`, the
answers and `LoadScope` are steps of the abstract ledger; all others stutter.

Assumptions: `ConstantsAssumption` (finitely many attempt ids, typed bounds, `None`
distinct) and those just named. Only model-checked: both liveness properties.

## 4. WorkerRunHandle and AbstractWorkerHandle

The threads of the parent that share one handle, its child, and the deadline.

| Variable | Code |
|---|---|
| `started`, `done`, `event`, `response` | `_started`, `_done`, `_cancellation_event`, `worker_status` of `_response` |
| `waitLock`, `processLock` | `_wait_lock`, `_process_lock`; sections under `_state_lock` are single steps |
| `pipesClosed`, `processClosed` | the parent's pipe ends, the `Process` object |
| `expired` | `deadline` has passed |
| `child`, `exitcode`, `pipe`, `sent` | the child: running, closing (it has sent or closed its end), exited; its exit code; the unread pipe (`part`: so far only a part of a message); history |
| `pc`, `closing`, `received`, `verdict`, `result` | where a thread is, whether it is inside `close()`, what `_wait_once` has in its locals, what a call returned |

`Messages`: `valid` decodes and is bound to the request, `bad` does not decode or is
bound to something else, `big` is beyond the response bound, `double` is one valid
message followed by another. The child sends in two steps (`ChildBegins`, `ChildSends`):
`poll()` is true after the first, and `recv_bytes`, which has no timeout, returns only
after the second or when the child is gone. `AbstractWorkerHandle` has one variable for the life
(fresh, running, exited, closed, done) and one for the event; `Stage` maps the detailed
state to it.

Abstractions. The join of 50 ms is instantaneous: a child that is gone, or still there.
`_terminate_process` succeeds (terminate, then kill), and `Process.start()` returns. The
request is at most 16 KiB (`contracts.py` 37) and fits the pipe, so `send_bytes` does
not block. Time is one event, the deadline. Removal of the temporary root, and its
attestation, are not modelled.

Run `worker_handle`: two threads, all four messages. Any two of start, wait, cancel and
close meet in every order, and a thread may call as often as it likes, so one that waits
twice and one that closes in between is covered. It checks `ReleasedWhenDone`,
`CompletedIsEvidence`, `OneAnswer`, `CancelStops`, `ImplementsHandle`, and with fairness
`WaitEnds` and `CancelEnds`.

Fairness. A thread inside a call moves on when it can, and is granted a lock that
becomes free again and again (strong fairness: what `threading.Lock` gives finitely many
threads in practice), and the deadline comes (`time.monotonic`). Of the child nothing is
assumed: it may hang for ever, in the middle of its answer too. `CancelEnds` holds for
every child. `WaitEnds` cannot: it is claimed of the children that are not for ever
`Stalled`, that is, that get to the end of a message they have begun, or die, or are
cancelled.

Divergences, not runs. `run_worker_request` promises a "hard-timeout spawn process"
(`process.py` 426), `docs/MCP_DYNAMIC_VALIDATION_SECURITY.md` (127) that the runner
"enforces a hard timeout", and the loop of `wait()` does not: `poll()` is true as soon as
a part of a message is there, and `recv_bytes` (264) then waits for the rest for as long
as the child lives. TLC refutes `WaitEnds` as soon as its hypothesis is dropped; the
hypothesis is the record of it. `cancel()` and `close()` may end in `ValueError`:
`_release_resources` closes the `Process` without `_process_lock` and before `_done` is
set, so a `cancel()` that has seen the run started meets a closed `Process`
(`process.py` 233; the action `Raise`). The abstract handle allows it as well, so it is
only seen where it does harm, in the finding of section 5. The loop leaves on `exitcode`
without a last poll (276), so an answer that arrived in between is dropped and reported
as "exited without valid evidence": a completed run may be lost, none is invented
(`CompletedIsEvidence`). No property is about the loss, since no document promises the
contrary.

Proofs (`WorkerRunHandleProofs`, any number of threads). The inductive invariant is
`TypeOK` with `ChildInv` (the child, its exit code and the pipe are those of one
history), `PlaceInv` (what the thread that holds `_wait_lock` has established by each
place of `_wait_once`: who decides, what was received, that the child is gone before the
pipes and the `Process` are closed), `EndInv` (what `done` and `response` stand for, and
that nothing is decided before) and `ToldInv` (what callers were told). It gives
`HandleTypes`, `DoneIsReleased`, `CompletionIsEvidence`, `AnswersAgree`,
`CancellationStops`, `EarlyCancellationDecides` (an action property that no run
repeats), and `HandleImplemented`: each step is one of the abstract handle or a stutter.
No assumption but that `Nobody` is not a thread. Only model-checked: `WaitEnds`,
`CancelEnds`.

## 5. McpRequests

One reader thread, a pool of threads, and the executions, the tables and the workers
they share.

| Variable | Code |
|---|---|
| `lifecycle`, `closing` | `_state` of the dispatcher, `_closed` of the runtime |
| `stdout` | what a write meets: `open`, `full` (the client does not read), `broken` (it has gone) |
| `reader`, `target`, `left` | where the reader is; the execution it is cancelling; those that `shutdown()` has yet to cancel |
| `active`, `slots` | `_active`; the value of the semaphore `_capacity` |
| `validating` | who holds the validation semaphore |
| `pc[r]` | where the request is: queued, on a thread, answered |
| `cancelled`, `completed`, `bound` | the fields of `MCPRequestExecution` |
| `stage`, `events` | each request's worker, as in `AbstractWorkerHandle` |
| `answered`, `store` | history of the answers written; what the run store got |

A section under a lock that waits for nothing else is one step; whatever happens between
two locks can be interleaved. So `Cancel` looks the execution up under `_active_lock`,
`MarkCancelled` decides under the lock of the execution, `SignalWorker` and `KillWorker`
are the two halves of `cancel()` of the handle; and `Commit` is the whole of
`commit_if_active`. `Complete` unregisters, seals and frees the slot before `Write`. A
request is sent once, ids are reused.

`_write` writes and flushes under `_write_lock`. As long as stdout is `full`, whoever is
in it waits with the lock in hand, and everybody else who has something to write waits
for the lock: no write step is possible, of a pool thread or of the reader, which answers
refused requests itself and reads no cancellation meanwhile. The client may fill the pipe,
read again or go away whenever somebody writes (what it does at other times shows in the
next write only). `Complete` and `Write` are a callback of the request's future: it runs
in the pool thread, or, for a future that `shutdown` cancels in the queue, in the reader's
thread; the model has them as the request's own steps in both cases.

Run `mcp_requests`: two validations and a publication that reuses the id of the first,
in two slots, with a third id that nobody uses (so that "server busy" happens with a
free id). Two slots show the semaphore full while the pool is busy, two validations the
validation semaphore taken, the shared id the duplicate and the reuse; the client may
cancel either id, end its input, stop reading or go away at any point. Safety: `OnlyOneWins`,
`StoredIsAnswered`, `TableMatchesSlots`, `CancelReachesWorker`, `StoppedIsQuiet`,
`WorkersAsPromised`. Liveness: `AdmittedEnds`, `ShutdownEnds`.

Fairness: a reader that is cancelling or shutting down goes on (weak), and so do the pool
threads. The second is strong, because a thread at a write or at the validation semaphore
can go on only now and then, and it is stated for all threads together: a request takes
finitely many steps, so no thread can starve another for ever. The reader's own answers
need none. Nothing is assumed of the client or of the children in `FairSpec`; what the
liveness properties need of them they say themselves. `ClientListens`: the client does not
leave stdout full for good, it reads again or goes away; without it a pool thread stays in
`_write` (`server.py` 621) and `shutdown` waits for it (482) for ever, which no code
prevents and no document excludes. `WorkersEnd`: no worker runs for ever, which is what
`WaitEnds` of section 4 says of a child that does not stall. `AdmittedEnds` needs both,
`ShutdownEnds` only the first, since a shutdown kills the children it finds. The reader
stops after a shutdown, so deadlock is not checked.

Finding (`mcp_shutdown`). `shutdown()` cancels the active executions in a loop without
protection. `cancel()` of a handle may end in `ValueError` (section 4), and then the
executions after it are not cancelled, the executor is not shut down, the dispatcher is
not closed, and `_closed` is already true. `docs/MCP_SERVER.md` 296-297 says that
shutdown cancels every remaining active worker and waits for cleanup. The same error in
the reading loop is not caught either (`server.py` 583): one cancellation that comes at
the wrong moment ends the session of the client.

Proofs (`McpRequestsProofs`, any number of requests, ids and slots). The inductive
invariant `Inv` says which request each id stands for (`Registered`), that taken ids and
free slots add up (`Counted`), who holds the validation semaphore (`Exclusive`), what a
cancellation in flight has done and has still to do (`Signalled`,
`CancelReachesWorker`), what a completed execution implies (`Sealed`, `OnlyOneWins`,
`StoredIsAnswered`), and that nothing is left when the reader has stopped (`Quiet`).
`TableMatchesSlots` follows by counting; `WorkersPromised` needs one more fact, that a
request on its way to its worker has not started it (`Unstarted`). Assumption:
`RequestsAssumption`. Only model-checked: `AdmittedEnds`, `ShutdownEnds`.

## 6. McpSessions

A dispatcher that several callers share. An instance of the tools is known by the
request for which the registry built it; `runs[i]` are the runs it retains, `registry`
the instance of each session, `busy` the validation semaphore that all instances share,
`gone` (history) the instances that were let go, `late` (history) the requests that had
not published yet when what they use was closed. A request resolves its session and uses
the instance in two steps; `close_session` pops under the registry lock and clears
outside it, `close` marks the dispatcher closed and then clears instance by instance.

Run `mcp_sessions`: three requests of any kind and session, three ids in two slots, one
closer. Two requests give every pair of a user and a builder of a session, the third one
publishes into an instance that is being dropped, and the third id meets the full
registry. The dispatcher is closed at any moment and waits for nobody: `server.py`, the
one transport of the repository, shuts its executor down before it closes, but
`BeliefMCPServer` is usable without it, and `close` does not wait. It checks `Isolation`,
`OneValidation` and `RetainedIsLate`.

Divergences, not runs. `docs/MCP_SERVER.md` says that "Server shutdown clears every
session" and that closing one drops its retained state. For requests that are under way
the code does not keep it: they hold the instance, publish into it after it was cleared
(`server.py` 285, `session.py` 182), and the run stays there. `RetainedIsLate` is what
is left: these runs and no others. And while `close_session` clears an instance, a new
instance of that session may exist, so for that time the process holds more stores than
`max_sessions` (`session.py` 178).

Proofs (`McpSessionsProofs`). `Inv` = `TypeOK` with `Owned` and `Placed` (the session of
an instance, and of the runs in it, is that of its builder), `Current` and `GoneOnce`
(an instance held by a request is the registered one or gone for good), `Holder` (the
semaphore and the places), `HasTools`, `WithinCapacity`. From it follow
`SessionsAreIsolated`, `ValidationsAreSingle`, and three results that no run repeats:
one store per session, no dropped store comes back, the bound on sessions.
`RetainedAreLate` proves `RetainedIsLate`, with an invariant of its own, `ClosingInv`: after
the dispatcher is closed whoever has still to publish was foreseen (`Foreseen`), and an
instance that was let go, or cleared by the server, has only late runs and late users
(`Left`, `Swept`).

## 7. RunStore

The store of one tools instance. Its record `store` has the fields of `_RunStore`: runs
in access order, plans, bindings and results per run, sizes, the global order of
results, the total, and `room`, what `_deep_memory_size` sees of tables that do not
shrink. A plan, a binding and a result count one each; `BaseSize` is the rest of a run.
Each method holds `_lock` and is a step; `atomic()` copies four fields (`saved`) and its
publication is a step per method (`Begin`, `PublishPlan`, then `Publish` or `RollBack`)
during which nobody else gets in. `belief_validate_plan` reads its plan
(`StartValidation`), works without the lock, and stores its result if the binding still
allows it (`FinishValidation`).

Run `run_store`: four runs of three kinds and sizes in a store for three, three results
in total and two per run, sizes such that the bounds on a run, on the store and on
memory each refuse or evict in some state. `Consistent` is the equality of totals and
content, the exact global order, and every bound whenever the lock is free;
`ResultsAreBound` relates results to plans across evictions, rebuilds and rollbacks;
`EvictsOldest` is the documented eviction order.

Divergences, not runs. Memory that only the tables take can evict the run that is being
published (`tools.py` 496). Building the plan of a project case again drops its binding
(`tools.py` 350). Neither contradicts the properties: both only lose what can be built
again.

Proofs (`RunStoreProofs`, any number of runs, plans and results, any bounds). The
invariant `Inv` says of the store, and of the copy that `atomic()` has made while a
publication is going on, that it is `Sound` (the order of runs and the order of results
are free of repetitions and list what there is, the sizes and the total are those of the
content, an id that is not stored has left nothing behind, each run is within its
bounds), that it `Fits`, and that every fixture it holds has the binding of its seed
plan (`Bindings`), except the one whose publication has not come to that plan yet
(`Pending`). Neither half stands alone: `ResultsAreBound` is true after a rollback only
because the copy satisfied it, and the total after an eviction only because the sizes of
the evicted runs were right. A lemma per method says what it does to each part
(`Touched`, `Added`, `Planned`, `Obtained`, `Trimmed`, `Forgotten`, `Evicted`), and one
for each action puts them together. `StoreConsistent`, `ResultsBound` and
`OldestEvicted` are the three properties of the run.

The totals are sums over sets and the order of results is thinned out in the middle, so
the lemmas about `Drop` and `SumFunctionOnSet` need inductions. They go over sets that
are built inside the proof (the lengths for which the claim holds), to which the library's
induction for the natural numbers applies.

Assumptions (`RunStoreAssumption`): finitely many runs and plans; the kinds of runs are
disjoint; a seed plan is not a plan of a case of the same run, since the id of a plan
is a digest over its subject; what the tables keep of entries that are gone
(`TableRoom`) fits into the memory bound. Without the last one an empty store can be
over capacity, and `_evict_over_capacity` (`tools.py` 496) would raise `KeyError` from
`popitem`; the default bound is far above it.

## 8. PdxEvidenceStore and AbstractEvidence

Processes that share one directory. `receipts` and `engagements` are the files,
`damaged` those that cannot be read, `unsynced` those whose directory entry was not
synced, `temps` temporary files, `lock` the `.import.lock`; `pc`, `job` and `plan` are
what a process is doing, `told` what callers were told. An import takes the lock,
replays or judges (`Judge` reads every receipt: any that cannot be read refuses it,
`ReadFails`), writes a temporary file, links it to its final name, removes the
temporary, and answers. A process may fail or die between any two of these, and starts
again; a file may be damaged; with `PowerLoss`, unsynced entries may be written back at
any time or lost together with all processes.

Run `pdx_evidence`: two processes, an engagement with two possible contents, two
attestations that agree on one capture and disagree on another, and an invalid one. Two
processes give every pair of importer and interrupted importer; two attestations every
order of a conflict; the content decides which of them is authorised. `ClaimsUnique`,
`ReplayIsOriginal` and the refinement `ImplementsEvidence` are checked; a process may
stop, so deadlock is not.

Divergence, not a run. A receipt's file is synced, its directory is not
(`attestation_store.py` 434), so a power loss can take a receipt that a caller was told
of; a later import may then accept what conflicts with it. `AbstractEvidence` says so
(`Forget`), and `ReplayIsOriginal` holds for the receipts that were not lost. With
`PowerLoss` false `Forget` never happens.

Proofs (`PdxEvidenceStoreProofs`, any number of processes, attestations and versions).
`Inv` = `TypeOK`, `Mutex` (who is inside holds the lock), `Working` (what a process
between two steps has established about the journal under the lock), `TemporaryKept`,
`OwnRefs` (an accepted receipt claims the captures of its attestation), `ClaimsUnique`,
`RegisteredOnce` (of the registrations that are there at one moment; one that a loss of
power has taken may be made again). `Working` is what makes it inductive: that a new
receipt conflicts with none is known when it is judged and used when it is linked.
Results: `ClaimsAreUnique`, `RegistrationsAreUnique`, `TemporariesAreKept`,
`ReplaysAreOriginal` and the refinement `EvidenceImplemented`. Assumptions:
`PdxAssumption` and `CapturesUnique` (the parser refuses an attestation that names a
capture twice).

## 9. Collection, SourceSnapshot

`Collection`: both loops, `mode` tells them apart. A provider either serves a fixed
list, in pages as short as it likes, or answers anything (any ids, any total that may
change from page to page, any cursor, any quota, any length). Run `collection`: limits
of three pages, three records and six bytes, lists of zero to four records: below, at
and above the limits, so every limit is met first in some behaviour. `Sound` is what no
provider can do: forge a complete collection, exceed the limits, or make the report of
an incomplete one misleading. `HonestIsServed` is what an honest one can rely on, `Ends`
that the loop ends: each fetch has a timeout, hence weak fairness, and a finished run
stays in `Done`. The validator also compares the times at which pages were retrieved,
which the collector itself takes from a wall clock (`transport.py` 373): an honest
provider is served as long as that clock does not step back between two pages.

`SourceSnapshot`: the walk lists directory after directory, each selected file goes
through stat, open, two portions of the read and a second fstat, and a writer may
rewrite, create or remove a file at any point. Run `snapshot`: four files in two
directories, one generated, two to be selected, one write; the second directory is
listed, excluded or unlistable (`access`, chosen once). One write at any of these
points is every case the code tells apart: it looks at a file at three instants and a
second write to it only moves the change to another of them. `Consistent` is the account
of the eligible files, `OneVersion` that a text never mixes versions,
`ConclusionCoversListed` that a conclusion about the project is allowed only when each
file that was there throughout was scanned, those below an unlistable directory excepted.

Finding (`snapshot_blind`). Without that exception the property fails. `os.walk` is called
without `onerror` (`source_snapshot.py` 724), so a directory that cannot be listed is
passed over without a trace, the inventory counts as complete and a conclusion about the
project is allowed, while `SourceCoverage` claims "Exact known scan coverage plus explicit
inventory blind spots" (102).

Divergences, not runs. That every write gets its own timestamp (`FineClock`) is an
assumption about the platform: a rewrite of the same length within one tick of the clock,
or one that puts the old time back, is not noticed (813), although the module promises
immutable text that was read once (3-4). The byte budget is checked against the size from
`stat`, so a file that grows before it is opened can overrun it (304).

Proofs (`SourceSnapshotProofs`, any number of files, directories and writes, any
limits). `Inv` adds to the account (`Accounted`) what the place in the build says about
the files that are left (`Staged`), that a file that was there all the time was found in
its directory or the directory is on record (`Found`), and that the versions and
timestamps that one read meets do not go back (`Clocked`, `Forward`). `AccountAddsUp` is
`Consistent` and `ConclusionIsCovered` is `ConclusionCoversListed`, both without any
hypothesis; `NoTornText` has the platform condition `FineClock`.

Proofs (`CollectionProofs`, any limits, any set of page sizes, any provider; the one
assumption is `CollectionAssumption`, the ranges of `CollectionLimits`). `Collected` is
a recursive function over the chain, so the proofs have two inductions of their own
first, over the naturals and over sequences, from the library's well-foundedness of `<`,
and from them what one page more does to a chain (`CollectedAppend`). `Inv` says:
every page stands where the records before it end (`AllPlaced`), an honest provider's
records come in order (`Numbered`), what is held and what is about to be asked for fits
the limits (`Limited`), the next request goes on from a chain that passed (`Planned`),
an honest provider's page always makes a chain (`Judged`), and an outcome says of the
pages what it should (`Concluded`). `Judged` is the hard part: the planner shrinks the
last requests, the validator accepts a shorter request only as `_is_bounded_offset_resize`
computes it, and `HonestChain` shows that the two never disagree.

## 10. Not modelled, and what is only model-checked

The mapped lines are a small share of the repository, by its nature: rule data, vendored
and adapted third-party packages (`tools_bundled/`, `api_server/`) and stateless
parsers, extractors and scorers are most of its lines.

- Pure functions of their input, which unit tests reach: validation plans, runner and
  policy, MCP contracts and publication, PDX parsing and mapping, reportability, the
  static pipeline, the cycle detector. Where a modelled component uses one, the model
  has its verdict as a choice of the environment.
- Sequential code with no second actor and nothing to recover: run plan executor,
  feedback store, cognitive loop, belief cache.
- The key pool of the optional model provider (`llm_key_pool.py`): one lock, a rotating
  index and a table of cooldowns. Which key is next depends on a wall clock that may step
  either way (119, 142), and then nothing is promised but that some key is returned.
- The sandbox of the worker: interpreter hooks and OS limits are properties of the
  platform. The child is whatever its parent can see of it.
- Directory entries of the ledger under power loss (`ledger.py` 1533, 1892): a durable
  write of `ValidationLedger` is one step, so whether an entry that no fsync covers
  survives cannot be told.
- Inside modelled components: the derivation of proof material, the removal of the
  worker's temporary root, JSON-RPC parsing and schemas, network transport, decoding and
  digests of sources.

Out of reach of the proof system, and so only model-checked: liveness under fairness and
`ENABLED` (`LockReleased`, `PendingResolved`, `WaitEnds`, `CancelEnds`, `AdmittedEnds`,
`ShutdownEnds`, `Ends`). Every safety property of the passing runs is
proved, under the assumptions named with each module. Bounds of the runs count only for
what is not proved.

## 11. Running

```
tlc -workers 2 -config LedgerRace.cfg MCValidationLedger
tlc -workers 2 -config McpRequests.cfg MCMcpRequests
tlapm McpRequestsProofs.tla
```

`PROJECT.json` lists each run with its module and configuration (`LedgerCapacity.cfg`,
`McpShutdown.cfg` and `SnapshotBlind.cfg` end in the counterexample of their finding), the mutants, the
lines that each definition models, and the theorems. The slowest run, `mcp_requests`,
takes about two minutes; the proofs take a few minutes together.

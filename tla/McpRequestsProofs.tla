-------------------------- MODULE McpRequestsProofs --------------------------
(***************************************************************************)
(* Proofs about McpRequests, for any number of requests, of ids and of     *)
(* slots.                                                                  *)
(***************************************************************************)
EXTENDS McpRequests, FiniteSetTheorems, TLAPS

Idle == {"unsent", "refused"}
Held == Handling \cup {"queued"}
Occupied == {k \in Keys : active[k] # None}

\* TypeOK but for the bound on slots, which needs Counted.
Typed ==
  /\ lifecycle \in {"new", "initialize_responded", "ready", "closed"}
  /\ reader \in ReaderPlaces
  /\ target \in Requests \cup {None}
  /\ left \subseteq Requests
  /\ stdout \in {"open", "full", "broken"} /\ closing \in BOOLEAN
  /\ active \in [Keys -> Requests \cup {None}]
  /\ slots \in Nat
  /\ validating \in Requests \cup {None}
  /\ pc \in [Requests -> Places]
  /\ cancelled \subseteq Requests /\ completed \subseteq Requests /\ bound \subseteq Requests
  /\ stage \in [Requests -> {"fresh", "running", "exited", "closed", "done"}]
  /\ events \subseteq Requests
  /\ answered \subseteq Requests
  /\ store \subseteq Requests

\* A request is in the table exactly from its admission to its completion.
Registered ==
  /\ \A r \in Requests : pc[r] \in Held <=> active[KeyOf[r]] = r
  /\ \A k \in Keys : active[k] # None => KeyOf[active[k]] = k

Counted == IsFiniteSet(Occupied) /\ Cardinality(Occupied) + slots = MaxInFlight

\* What the reader cancels, or has cancelled, was admitted.
Admitted ==
  /\ \A r \in cancelled \cup left : pc[r] \notin Idle
  /\ target # None => pc[target] \notin Idle
  /\ reader \in {"cancel", "signal", "kill"} => target # None

\* Once sealed, an execution is not cancelled any more; its answer comes later.
Sealed ==
  /\ store \subseteq completed
  /\ \A r \in Requests :
       /\ pc[r] \in {"write", "done"} => r \in completed
       /\ pc[r] = "write" => r \notin cancelled
       /\ r \in answered => pc[r] \in {"refused", "done"}

\* The validation semaphore is held by the request that is at it.
Exclusive ==
  \A r \in Requests :
    /\ validating = r => pc[r] \in Validating \cup {"commit"}
    /\ pc[r] \in Validating => validating = r

\* A worker lives only while its request waits for it, and what a cancellation could
\* not find registered was signalled before it started.
Signalled ==
  \A r \in Requests :
    /\ stage[r] \in {"running", "exited", "closed"} => pc[r] = "worker"
    /\ pc[r] = "worker" /\ r \notin bound => r \in events /\ stage[r] \in {"fresh", "done"}
    /\ pc[r] = "worker" /\ r \in cancelled /\ stage[r] = "fresh" =>
         r \in events \/ (target = r /\ reader = "signal")

Quiet ==
  reader = "stopped" =>
    store = {} /\ \A r \in Requests : pc[r] \in {"unsent", "refused", "done"}

Inv ==
  /\ Typed /\ Registered /\ Counted /\ Admitted /\ Sealed /\ OnlyOneWins
  /\ StoredIsAnswered /\ Exclusive /\ Signalled /\ CancelReachesWorker /\ Quiet

USE DEF Idle, Held, Handling, Validating, Busy, Places, ReaderPlaces

LEMMA KeysOfRequests == \A r \in Requests : KeyOf[r] \in Keys /\ r # None
BY RequestsAssumption

LEMMA InitInv == Init => Inv
<1> SUFFICES ASSUME Init PROVE Inv
  OBVIOUS
<1>1. Occupied = {}
  BY DEF Init, Occupied
<1>2. Counted
  BY <1>1, FS_EmptySet, RequestsAssumption DEF Init, Counted
<1>3. Typed
  BY RequestsAssumption DEF Init, Typed
<1>4. Registered /\ Admitted /\ Sealed /\ Exclusive /\ Signalled
  BY RequestsAssumption DEF Init, Registered, Admitted, Sealed, Exclusive, Signalled
<1>5. OnlyOneWins /\ StoredIsAnswered /\ CancelReachesWorker /\ Quiet
  BY DEF Init, OnlyOneWins, StoredIsAnswered, CancelReachesWorker, Quiet
<1> QED BY <1>2, <1>3, <1>4, <1>5 DEF Inv

\* A step that leaves the table alone keeps its count.
LEMMA SameCount == ASSUME Inv, UNCHANGED table PROVE Counted'
BY DEF Inv, Counted, Occupied, table

\* A pool thread, or the executor, moves one admitted request on.
LEMMA MoveInv ==
  ASSUME Inv, NEW r \in Requests, NEW place \in Held \ {"worker"}, Goto(r, place),
         UNCHANGED <<reading, table, validating, execution, workers, answered, store>>,
         pc[r] \in Held,
         pc[r] = "worker" => stage[r] = "done",
         validating = r => place \in Validating \cup {"commit"},
         place \in Validating => validating = r
  PROVE  Inv'
<1> USE DEF reading, table, execution, workers
<1>1. \A q \in Requests : pc'[q] = IF q = r THEN place ELSE pc[q]
  BY DEF Inv, Typed, Goto
<1>2. Typed'
  BY DEF Inv, Typed, Goto
<1>3. Registered' /\ Counted'
  BY <1>1, SameCount DEF Inv, Registered
<1>4. Admitted' /\ Sealed'
  BY <1>1 DEF Inv, Typed, Admitted, Sealed
<1>5. Exclusive'
  BY <1>1 DEF Inv, Exclusive
<1>6. Signalled'
  BY <1>1 DEF Inv, Signalled
<1>7. OnlyOneWins' /\ StoredIsAnswered' /\ CancelReachesWorker' /\ Quiet'
  BY <1>1 DEF Inv, Typed, OnlyOneWins, StoredIsAnswered, CancelReachesWorker, Quiet
<1> QED BY <1>2, <1>3, <1>4, <1>5, <1>6, <1>7 DEF Inv

\* Where a returning handler goes.
LEMMA ReturnInv ==
  ASSUME Inv, NEW r \in Requests, Return(r),
         UNCHANGED <<reading, table, validating, execution, workers, answered, store>>,
         pc[r] \in Handling \ {"worker"}
  PROVE  Inv'
<1>1. CASE validating = r
  BY <1>1, MoveInv DEF Return
<1>2. CASE validating # r
  BY <1>2, MoveInv DEF Return
<1> QED BY <1>1, <1>2

LEMMA ThreadMoves ==
  ASSUME Inv, NEW r \in Requests,
         \/ CancelQueued(r) \/ Take(r) \/ RejectRequest(r) \/ Dispatch(r)
         \/ CheckCancelled(r) \/ PassCheck(r) \/ CapacityBusy(r) \/ HandleFails(r)
         \/ WorkerAnswers(r) \/ RejectOutcome(r) \/ AcceptOutcome(r) \/ CommitFails(r)
  PROVE  Inv'
<1>0. Exclusive
  BY DEF Inv
<1>1. CASE CancelQueued(r)
  BY <1>0, <1>1, MoveInv DEF CancelQueued, Exclusive
<1>2. CASE Take(r)
  BY <1>0, <1>2, MoveInv DEF Take, Exclusive
<1>3. CASE RejectRequest(r)
  BY <1>3, ReturnInv DEF RejectRequest
<1>4. CASE Dispatch(r)
  BY <1>0, <1>4, MoveInv DEF Dispatch, Exclusive
<1>5. CASE CheckCancelled(r)
  BY <1>5, ReturnInv DEF CheckCancelled
<1>6. CASE PassCheck(r)
  BY <1>0, <1>6, MoveInv DEF PassCheck, Exclusive
<1>7. CASE CapacityBusy(r)
  BY <1>7, ReturnInv DEF CapacityBusy
<1>8. CASE HandleFails(r)
  BY <1>0, <1>8, MoveInv DEF HandleFails, Exclusive
<1>9. CASE WorkerAnswers(r)
  BY <1>0, <1>9, MoveInv DEF WorkerAnswers, Exclusive
<1>10. CASE RejectOutcome(r)
  BY <1>10, ReturnInv DEF RejectOutcome
<1>11. CASE AcceptOutcome(r)
  BY <1>0, <1>11, MoveInv DEF AcceptOutcome, Exclusive
<1>12. CASE CommitFails(r)
  BY <1>12, ReturnInv DEF CommitFails
<1> QED BY <1>1, <1>2, <1>3, <1>4, <1>5, <1>6, <1>7, <1>8, <1>9, <1>10, <1>11, <1>12

\* Steps of the reader that leave the requests and their executions alone.
LEMMA ReaderInv ==
  ASSUME Inv, reader # "stopped", reader' \in ReaderPlaces \ {"stopped", "signal", "kill"},
         reader \notin {"signal", "kill"},
         lifecycle' \in {"new", "initialize_responded", "ready", "closed"},
         target' \in Requests \cup {None}, left' \subseteq Requests,
         stdout' = stdout, closing' \in BOOLEAN,
         \A r \in left' : pc[r] \notin Idle,
         target' # None => pc[target'] \notin Idle,
         reader' = "cancel" => target' # None,
         UNCHANGED <<table, validating, pc, execution, workers, answered, store>>
  PROVE  Inv'
<1> USE DEF table, execution, workers
<1>1. Typed' /\ Registered' /\ Counted'
  BY SameCount DEF Inv, Typed, Registered
<1>2. Admitted' /\ Sealed' /\ Exclusive' /\ Signalled'
  BY DEF Inv, Admitted, Sealed, Exclusive, Signalled
<1>3. OnlyOneWins' /\ StoredIsAnswered' /\ CancelReachesWorker' /\ Quiet'
  BY DEF Inv, OnlyOneWins, StoredIsAnswered, CancelReachesWorker, Quiet
<1> QED BY <1>1, <1>2, <1>3 DEF Inv

\* What stands in the table was admitted and is not complete.
LEMMA InTable ==
  ASSUME Inv, NEW k \in Keys, active[k] # None
  PROVE  active[k] \in Requests /\ KeyOf[active[k]] = k /\ pc[active[k]] \in Held
BY DEF Inv, Typed, Registered

LEMMA ReaderMoves ==
  ASSUME Inv,
         \/ Initialize \/ Initialized \/ ReaderWrites \/ Eof \/ Shutdown
         \/ \E k \in Keys : RefuseDuplicate(k) \/ RefuseBusy(k) \/ Cancel(k)
         \/ \E r \in Requests : CancelNext(r)
  PROVE  Inv'
<1>0. Typed /\ Admitted
  BY DEF Inv
<1>1. CASE Initialize
  BY <1>0, <1>1, ReaderInv DEF Initialize, Answer, Typed, Admitted
<1>2. CASE Initialized
  BY <1>0, <1>2, ReaderInv DEF Initialized, Typed, Admitted
<1>3. CASE Eof
  BY <1>0, <1>3, ReaderInv DEF Eof, Typed, Admitted
<1>4. CASE Shutdown
  <2>1. /\ left' \subseteq Requests
        /\ \A r \in left' : pc[r] \notin Idle
    BY <1>0, <1>4, InTable DEF Shutdown
  <2> QED BY <1>0, <1>4, <2>1, ReaderInv DEF Shutdown, Typed, Admitted
<1>5. ASSUME NEW k \in Keys, RefuseDuplicate(k) \/ RefuseBusy(k) PROVE Inv'
  <2>1. Refuse
    BY <1>5 DEF RefuseDuplicate, RefuseBusy
  <2> QED BY <1>0, <2>1, ReaderInv DEF Refuse, Answer, Typed, Admitted
<1>6. ASSUME NEW k \in Keys, Cancel(k) PROVE Inv'
  <2>1. target' \in Requests /\ pc[target'] \notin Idle /\ target' # None
    BY <1>6, InTable, RequestsAssumption DEF Cancel
  <2> QED BY <1>0, <1>6, <2>1, ReaderInv DEF Cancel, Typed, Admitted
<1>7. ASSUME NEW r \in Requests, CancelNext(r) PROVE Inv'
  BY <1>0, <1>7, KeysOfRequests, ReaderInv DEF CancelNext, Typed, Admitted
<1>8. CASE ReaderWrites
  <2>1. answered' = answered
    BY <1>8 DEF ReaderWrites, Send
  <2> QED BY <1>0, <1>8, <2>1, ReaderInv DEF ReaderWrites, Typed, Admitted
<1> QED BY <1>1, <1>2, <1>3, <1>4, <1>5, <1>6, <1>7, <1>8

LEMMA SubmitFailsInv == ASSUME Inv, NEW r \in Requests, SubmitFails(r) PROVE Inv'
<1> USE DEF table, workers, SubmitFails
<1>2. \A q \in Requests : pc'[q] = IF q = r THEN "refused" ELSE pc[q]
  BY DEF Inv, Typed, Goto
<1>3. Typed'
  BY DEF Inv, Typed, Goto
<1>4. Registered' /\ Counted'
  BY <1>2, SameCount DEF Inv, Registered
<1>5. r \notin cancelled \cup left /\ target # r /\ pc[r] = "unsent"
  BY KeysOfRequests DEF Inv, Admitted, Typed
<1>6. Admitted'
  BY <1>2, <1>5 DEF Inv, Typed, Admitted
<1>7. Sealed'
  BY <1>2, <1>5 DEF Inv, Typed, Sealed
<1>8. Exclusive' /\ Signalled'
  BY <1>2 DEF Inv, Exclusive, Signalled
<1>9. OnlyOneWins' /\ CancelReachesWorker' /\ Quiet'
  BY <1>2, <1>5 DEF Inv, Typed, OnlyOneWins, CancelReachesWorker, Quiet
<1>10. StoredIsAnswered'
  BY <1>2 DEF Inv, Typed, StoredIsAnswered
<1> QED BY <1>3, <1>4, <1>6, <1>7, <1>8, <1>9, <1>10 DEF Inv

LEMMA SubmitInv == ASSUME Inv, NEW r \in Requests, Submit(r) PROVE Inv'
<1> USE DEF reading, execution, workers, Submit, Admit
<1>1. KeyOf[r] \in Keys /\ r # None /\ active[KeyOf[r]] = None /\ pc[r] = "unsent"
  BY KeysOfRequests
<1>2. \A q \in Requests : pc'[q] = IF q = r THEN "queued" ELSE pc[q]
  BY DEF Inv, Typed, Goto
<1>3. \A k \in Keys : active'[k] = IF k = KeyOf[r] THEN r ELSE active[k]
  BY DEF Inv, Typed
<1>4. Typed'
  BY <1>1 DEF Inv, Typed, Goto
<1>5. Registered'
  BY <1>1, <1>2, <1>3, KeysOfRequests DEF Inv, Registered
<1>6. Counted'
  <2>1. Occupied' = Occupied \cup {KeyOf[r]} /\ KeyOf[r] \notin Occupied
    BY <1>1, <1>3 DEF Occupied
  <2>2. IsFiniteSet(Occupied) /\ Cardinality(Occupied) \in Nat
    BY FS_CardinalityType DEF Inv, Counted
  <2>3. IsFiniteSet(Occupied') /\ Cardinality(Occupied') = Cardinality(Occupied) + 1
    BY <2>1, <2>2, FS_AddElement
  <2>4. slots \in Nat /\ slots > 0 /\ slots' = slots - 1
    BY DEF Inv, Typed
  <2> QED BY <2>2, <2>3, <2>4, RequestsAssumption DEF Inv, Counted
<1>7. Admitted' /\ Sealed' /\ Exclusive' /\ Signalled'
  BY <1>1, <1>2 DEF Inv, Typed, Admitted, Sealed, Exclusive, Signalled
<1>8. OnlyOneWins' /\ StoredIsAnswered' /\ CancelReachesWorker' /\ Quiet'
  BY <1>1, <1>2 DEF Inv, Typed, OnlyOneWins, StoredIsAnswered, CancelReachesWorker, Quiet
<1> QED BY <1>4, <1>5, <1>6, <1>7, <1>8 DEF Inv

\* The steps of a cancellation leave the requests where they are.
LEMMA CancellingInv == ASSUME Inv, Cancelling PROVE Inv'
<1> USE DEF reader_only, table, execution, workers
<1>1. /\ reader \in {"cancel", "signal", "kill"} /\ target \in Requests
      /\ pc[target] \notin Idle
  BY DEF Cancelling, CancelTooLate, MarkCancelled, SignalWorker, KillWorker, KillRaises,
         Inv, Typed, Admitted
<1>2. /\ UNCHANGED <<lifecycle, left, stdout, closing, table, validating, pc, completed,
                     bound, answered, store>>
      /\ reader' \in ReaderPlaces \ {"stopped", "cancel"}
      /\ target' \in {target, None}
      /\ reader' \in {"signal", "kill"} => target' = target
  BY DEF Cancelling, CancelTooLate, MarkCancelled, SignalWorker, KillWorker, KillRaises,
         Resume
<1>3. /\ \/ cancelled' = cancelled
         \/ cancelled' = cancelled \cup {target} /\ target \notin completed
      /\ events' \in {events, events \cup {target}}
      /\ \A q \in Requests :
           \/ stage'[q] = stage[q]
           \/ q = target /\ stage[q] \in {"running", "exited"} /\ stage'[q] = "exited"
      /\ stage' \in [Requests -> {"fresh", "running", "exited", "closed", "done"}]
  BY <1>1 DEF Cancelling, CancelTooLate, MarkCancelled, SignalWorker, KillWorker,
              KillRaises, Inv, Typed
<1>4. Typed'
  BY <1>1, <1>2, <1>3, KeysOfRequests DEF Inv, Typed
<1>5. Registered' /\ Counted'
  BY <1>2, SameCount DEF Inv, Registered
<1>6. Admitted' /\ Sealed' /\ Exclusive'
  BY <1>1, <1>2, <1>3, KeysOfRequests DEF Inv, Typed, Admitted, Sealed, Exclusive
<1>7. OnlyOneWins'
  BY <1>1, <1>2, <1>3 DEF Inv, Sealed, Typed, OnlyOneWins
<1>8. StoredIsAnswered' /\ Quiet'
  BY <1>2 DEF Inv, StoredIsAnswered, Quiet
<1>9. ASSUME NEW r \in Requests
      PROVE  /\ stage'[r] \in {"running", "exited", "closed"} => pc[r] = "worker"
             /\ pc[r] = "worker" /\ r \notin bound =>
                  r \in events' /\ stage'[r] \in {"fresh", "done"}
  BY <1>3 DEF Inv, Signalled
<1>10. ASSUME NEW r \in Requests
       PROVE  /\ pc[r] = "worker" /\ r \in cancelled' /\ stage'[r] = "fresh" =>
                   r \in events' \/ (target' = r /\ reader' = "signal")
              /\ r \in cancelled' /\ stage'[r] = "running" =>
                   target' = r /\ reader' \in {"signal", "kill"}
  <2> USE DEF Inv, Typed, Signalled, CancelReachesWorker
  <2>1. CASE CancelTooLate
    BY <1>1, <2>1 DEF CancelTooLate, Resume
  <2>2. CASE MarkCancelled
    BY <1>1, <2>2 DEF MarkCancelled, Resume
  <2>3. CASE SignalWorker
    BY <1>1, <2>3 DEF SignalWorker, Resume
  <2>4. CASE KillWorker
    BY <1>1, <2>4 DEF KillWorker, Resume
  <2>5. CASE KillRaises
    BY <1>1, <2>5 DEF KillRaises
  <2> QED BY <2>1, <2>2, <2>3, <2>4, <2>5 DEF Cancelling
<1>11. Signalled' /\ CancelReachesWorker'
  BY <1>2, <1>4, <1>9, <1>10 DEF Signalled, CancelReachesWorker, Typed
<1> QED BY <1>4, <1>5, <1>6, <1>7, <1>8, <1>11 DEF Inv

LEMMA CloseInv == ASSUME Inv, Close PROVE Inv'
<1> USE DEF table, execution, workers, Close
<1>1. Typed' /\ Registered' /\ Counted'
  BY SameCount DEF Inv, Typed, Registered
<1>2. Admitted' /\ Sealed' /\ Exclusive' /\ Signalled'
  BY DEF Inv, Admitted, Sealed, Exclusive, Signalled
<1>3. OnlyOneWins' /\ StoredIsAnswered' /\ CancelReachesWorker' /\ Quiet'
  BY DEF Inv, Typed, OnlyOneWins, StoredIsAnswered, CancelReachesWorker, Signalled, Quiet
<1> QED BY <1>1, <1>2, <1>3 DEF Inv

LEMMA AcquireInv == ASSUME Inv, NEW r \in Requests, AcquireCapacity(r) PROVE Inv'
<1> USE DEF reading, table, execution, workers, AcquireCapacity
<1>1. \A q \in Requests : pc'[q] = IF q = r THEN "recheck" ELSE pc[q]
  BY DEF Inv, Typed, Goto
<1>2. Typed'
  BY DEF Inv, Typed, Goto
<1>3. Registered' /\ Counted'
  BY <1>1, SameCount DEF Inv, Registered
<1>4. Admitted' /\ Sealed' /\ Signalled'
  BY <1>1 DEF Inv, Typed, Admitted, Sealed, Signalled
<1>5. Exclusive'
  BY <1>1, KeysOfRequests DEF Inv, Exclusive
<1>6. OnlyOneWins' /\ StoredIsAnswered' /\ CancelReachesWorker' /\ Quiet'
  BY <1>1 DEF Inv, Typed, OnlyOneWins, StoredIsAnswered, CancelReachesWorker, Quiet
<1> QED BY <1>2, <1>3, <1>4, <1>5, <1>6 DEF Inv

LEMMA RegisterInv ==
  ASSUME Inv, NEW r \in Requests, RegisterWorker(r) \/ RegisterLate(r)
  PROVE  Inv'
<1> USE DEF reading, table, execution, workers
<1>1. /\ pc[r] = "register" /\ pc' = [pc EXCEPT ![r] = "worker"]
      /\ UNCHANGED <<reading, table, validating, cancelled, completed, stage, answered,
                     store>>
      /\ \/ bound' = bound \cup {r} /\ r \notin cancelled /\ events' = events
         \/ bound' = bound /\ events' = events \cup {r}
  BY DEF RegisterWorker, RegisterLate, Goto
<1>2. \A q \in Requests : pc'[q] = IF q = r THEN "worker" ELSE pc[q]
  BY <1>1 DEF Inv, Typed
<1>3. Typed'
  BY <1>1 DEF Inv, Typed
<1>4. Registered' /\ Counted'
  BY <1>1, <1>2, SameCount DEF Inv, Registered
<1>5. Admitted' /\ Sealed' /\ Exclusive'
  BY <1>1, <1>2 DEF Inv, Typed, Admitted, Sealed, Exclusive
<1>6. Signalled'
  BY <1>1, <1>2 DEF Inv, Typed, Signalled
<1>7. OnlyOneWins' /\ StoredIsAnswered' /\ CancelReachesWorker' /\ Quiet'
  BY <1>1, <1>2
     DEF Inv, Typed, OnlyOneWins, StoredIsAnswered, CancelReachesWorker, Quiet
<1> QED BY <1>3, <1>4, <1>5, <1>6, <1>7 DEF Inv

LEMMA StepWorkerInv ==
  ASSUME Inv, NEW r \in Requests, StepWorker(r) \/ WorkerEnds(r)
  PROVE  Inv'
<1> USE DEF reading, table, execution
<1>1. /\ pc[r] = "worker"
      /\ UNCHANGED <<reading, table, validating, pc, execution, events, answered, store>>
      /\ \/ stage[r] = "fresh" /\ r \notin events /\ stage' = [stage EXCEPT ![r] = "running"]
         \/ stage[r] = "fresh" /\ stage' = [stage EXCEPT ![r] = "done"]
         \/ /\ stage[r] \in {"running", "exited", "closed"}
            /\ \E s \in {"exited", "closed", "done"} : stage' = [stage EXCEPT ![r] = s]
  BY DEF StepWorker, WorkerEnds
<1>2. Typed'
  BY <1>1 DEF Inv, Typed
<1>3. Registered' /\ Counted' /\ Admitted' /\ Sealed' /\ Exclusive'
  BY <1>1, SameCount DEF Inv, Registered, Admitted, Sealed, Exclusive
<1>4. Signalled'
  BY <1>1 DEF Inv, Typed, Signalled
<1>5. CancelReachesWorker'
  BY <1>1 DEF Inv, Typed, Signalled, CancelReachesWorker
<1>6. OnlyOneWins' /\ StoredIsAnswered' /\ Quiet'
  BY <1>1 DEF Inv, OnlyOneWins, StoredIsAnswered, Quiet
<1> QED BY <1>2, <1>3, <1>4, <1>5, <1>6 DEF Inv

LEMMA CommitInv == ASSUME Inv, NEW r \in Requests, Commit(r) PROVE Inv'
<1> USE DEF reading, table, workers, Commit
<1>1. PICK place \in {"release", "answer"} :
        /\ pc' = [pc EXCEPT ![r] = place]
        /\ place = "release" <=> validating = r
  BY DEF Return, Goto
<1>2. \A q \in Requests : pc'[q] = IF q = r THEN place ELSE pc[q]
  BY <1>1 DEF Inv, Typed
<1>3. Typed'
  BY <1>1 DEF Inv, Typed
<1>4. Registered' /\ Counted'
  BY <1>2, SameCount DEF Inv, Registered
<1>5. Admitted' /\ Sealed'
  BY <1>2 DEF Inv, Typed, Admitted, Sealed
<1>6. Exclusive' /\ Signalled'
  BY <1>1, <1>2 DEF Inv, Typed, Exclusive, Signalled
<1>7. OnlyOneWins'
  BY DEF Inv, Sealed, Typed, OnlyOneWins
<1>8. StoredIsAnswered' /\ CancelReachesWorker' /\ Quiet'
  BY <1>2 DEF Inv, Typed, StoredIsAnswered, CancelReachesWorker, Quiet
<1> QED BY <1>3, <1>4, <1>5, <1>6, <1>7, <1>8 DEF Inv

LEMMA ReleaseInv == ASSUME Inv, NEW r \in Requests, Release(r) PROVE Inv'
<1> USE DEF reading, table, workers, Release
<1>1. \A q \in Requests : pc'[q] = IF q = r THEN "answer" ELSE pc[q]
  BY DEF Inv, Typed, Goto
<1>2. Typed'
  BY DEF Inv, Typed, Goto
<1>3. Registered' /\ Counted'
  BY <1>1, SameCount DEF Inv, Registered
<1>4. Admitted' /\ Sealed' /\ Signalled'
  BY <1>1 DEF Inv, Typed, Admitted, Sealed, Signalled
<1>5. Exclusive'
  BY <1>1, KeysOfRequests DEF Inv, Exclusive
<1>6. OnlyOneWins' /\ StoredIsAnswered' /\ CancelReachesWorker' /\ Quiet'
  BY <1>1 DEF Inv, Typed, OnlyOneWins, StoredIsAnswered, CancelReachesWorker, Quiet
<1> QED BY <1>2, <1>3, <1>4, <1>5, <1>6 DEF Inv

LEMMA CompleteInv == ASSUME Inv, NEW r \in Requests, Complete(r) PROVE Inv'
<1> USE DEF reading, workers, Complete
<1>1. KeyOf[r] \in Keys /\ r # None /\ active[KeyOf[r]] = r
  BY KeysOfRequests DEF Inv, Registered
<1>2. PICK place \in {"done", "write"} :
        /\ pc' = [pc EXCEPT ![r] = place]
        /\ place = "done" <=> r \in cancelled
  BY DEF Goto
<1>3. \A q \in Requests : pc'[q] = IF q = r THEN place ELSE pc[q]
  BY <1>2 DEF Inv, Typed
<1>4. \A k \in Keys : active'[k] = IF k = KeyOf[r] THEN None ELSE active[k]
  BY <1>1 DEF Inv, Typed
<1>5. Typed'
  <2>1. active' \in [Keys -> Requests \cup {None}]
    BY DEF Inv, Typed
  <2>2. slots' \in Nat /\ completed' \subseteq Requests /\ bound' \subseteq Requests
    BY DEF Inv, Typed
  <2>3. pc' \in [Requests -> Places]
    BY <1>2 DEF Inv, Typed
  <2> QED BY <2>1, <2>2, <2>3 DEF Inv, Typed
<1>6. Registered'
  BY <1>1, <1>3, <1>4, KeysOfRequests DEF Inv, Registered
<1>7. Counted'
  <2>1. Occupied' = Occupied \ {KeyOf[r]} /\ KeyOf[r] \in Occupied
    BY <1>1, <1>4 DEF Occupied
  <2>2. IsFiniteSet(Occupied) /\ Cardinality(Occupied) \in Nat
    BY FS_CardinalityType DEF Inv, Counted
  <2>3. IsFiniteSet(Occupied') /\ Cardinality(Occupied') = Cardinality(Occupied) - 1
    BY <2>1, <2>2, FS_RemoveElement
  <2>4. slots \in Nat /\ slots' = slots + 1
    BY DEF Inv, Typed
  <2> QED BY <2>2, <2>3, <2>4, RequestsAssumption DEF Inv, Counted
<1>8. Admitted' /\ Sealed' /\ Signalled'
  BY <1>2, <1>3 DEF Inv, Typed, Admitted, Sealed, Signalled
<1>9. Exclusive'
  BY <1>3 DEF Inv, Exclusive
<1>10. StoredIsAnswered'
  BY <1>2, <1>3 DEF Inv, Typed, StoredIsAnswered, OnlyOneWins
<1>11. OnlyOneWins' /\ CancelReachesWorker' /\ Quiet'
  BY <1>3 DEF Inv, Typed, OnlyOneWins, CancelReachesWorker, Quiet
<1> QED BY <1>5, <1>6, <1>7, <1>8, <1>9, <1>10, <1>11 DEF Inv

LEMMA WriteInv == ASSUME Inv, NEW r \in Requests, Write(r) PROVE Inv'
<1> USE DEF reading, table, execution, workers, Write
<1>1. answered' = IF stdout = "open" THEN answered \cup {r} ELSE answered
  BY DEF Send
<1>2. \A q \in Requests : pc'[q] = IF q = r THEN "done" ELSE pc[q]
  BY DEF Inv, Typed, Goto
<1>3. Typed'
  BY <1>1 DEF Inv, Typed, Goto
<1>4. Registered' /\ Counted'
  BY <1>2, SameCount DEF Inv, Registered
<1>5. Admitted' /\ Sealed'
  BY <1>1, <1>2 DEF Inv, Typed, Admitted, Sealed
<1>6. Exclusive' /\ Signalled'
  BY <1>2 DEF Inv, Exclusive, Signalled
<1>7. OnlyOneWins'
  BY <1>1 DEF Inv, Sealed, Typed, OnlyOneWins
<1>8. CancelReachesWorker' /\ Quiet'
  BY <1>1, <1>2 DEF Inv, Typed, CancelReachesWorker, Quiet
<1>9. StoredIsAnswered'
  <2>1. stdout # "open" => stdout = "broken"
    BY DEF Send, Inv, Typed
  <2> QED BY <1>1, <1>2, <2>1 DEF Inv, Typed, StoredIsAnswered
<1> QED BY <1>3, <1>4, <1>5, <1>6, <1>7, <1>8, <1>9 DEF Inv

\* The client changes the pipe only, and does not come back once it is gone.
LEMMA ClientInv == ASSUME Inv, Client PROVE Inv'
<1> USE DEF client_only, table, execution, workers
<1>1. /\ UNCHANGED client_only
      /\ stdout' \in {"open", "full", "broken"}
      /\ stdout = "broken" => stdout' = "broken"
  BY DEF Client, ClientStalls, ClientReads, ClientLeaves, Inv, Typed
<1>2. Typed' /\ Registered' /\ Counted'
  BY <1>1, SameCount DEF Inv, Typed, Registered
<1>3. Admitted' /\ Sealed' /\ Exclusive' /\ Signalled'
  BY <1>1 DEF Inv, Admitted, Sealed, Exclusive, Signalled
<1>4. OnlyOneWins' /\ StoredIsAnswered' /\ CancelReachesWorker' /\ Quiet'
  BY <1>1 DEF Inv, OnlyOneWins, StoredIsAnswered, CancelReachesWorker, Quiet
<1> QED BY <1>2, <1>3, <1>4 DEF Inv

LEMMA NextInv == Inv /\ [Next]_vars => Inv'
<1> SUFFICES ASSUME Inv, [Next]_vars PROVE Inv'
  OBVIOUS
<1>1. CASE Line
  BY <1>1, ReaderMoves, SubmitFailsInv, SubmitInv DEF Line
<1>2. CASE Cancelling
  BY <1>2, CancellingInv
<1>6. CASE Client \/ ReaderWrites
  BY <1>6, ClientInv, ReaderMoves
<1>7. ASSUME NEW r \in Requests, WorkerEnds(r) PROVE Inv'
  BY <1>7, StepWorkerInv
<1>3. CASE ShuttingDown
  BY <1>3, ReaderMoves, ThreadMoves, CloseInv DEF ShuttingDown
<1>4. ASSUME NEW r \in Requests, Thread(r) PROVE Inv'
  BY <1>4, ThreadMoves, AcquireInv, RegisterInv, StepWorkerInv, CommitInv, ReleaseInv,
     CompleteInv, WriteInv DEF Thread
<1>5. CASE UNCHANGED vars
  BY <1>5, SameCount DEF vars, table, Inv, Typed, Registered, Admitted, Sealed, OnlyOneWins,
     StoredIsAnswered, Exclusive, Signalled, CancelReachesWorker, Quiet
<1> QED BY <1>1, <1>2, <1>3, <1>4, <1>5, <1>6, <1>7 DEF Next

THEOREM Invariance == Spec => []Inv
BY InitInv, NextInv, PTL DEF Spec

-----------------------------------------------------------------------------

LEMMA SlotsBounded ==
  ASSUME Inv
  PROVE  slots \in 0 .. MaxInFlight
<1>1. Cardinality(Occupied) \in Nat
  BY FS_CardinalityType DEF Inv, Counted
<1> QED BY <1>1, RequestsAssumption DEF Inv, Typed, Counted

\* Every variable has its type: in particular the semaphore stays between none and
\* all of its slots.
THEOREM RequestTypes == Spec => []TypeOK
<1>1. Inv => TypeOK
  BY SlotsBounded DEF Inv, Typed, TypeOK
<1> QED BY <1>1, Invariance, PTL

\* A cancellation and a publication never both win, and a cancelled request is not
\* answered, however many requests race.
THEOREM OneWins == Spec => []OnlyOneWins
<1>1. Inv => OnlyOneWins
  BY DEF Inv
<1> QED BY <1>1, Invariance, PTL

\* What was published is answered unless the client is gone.
THEOREM StoredAreAnswered == Spec => []StoredIsAnswered
<1>1. Inv => StoredIsAnswered
  BY DEF Inv
<1> QED BY <1>1, Invariance, PTL

\* The table of active ids, the semaphore and the requests agree, for every number of
\* slots and every reuse of ids.
THEOREM TableAndSlots == Spec => []TableMatchesSlots
<1>1. Inv => TableMatchesSlots
  BY DEF Inv, Counted, Occupied, Registered, TableMatchesSlots
<1> QED BY <1>1, Invariance, PTL

\* No child runs for a cancelled request once cancel() has returned.
THEOREM CancellationReaches == Spec => []CancelReachesWorker
<1>1. Inv => CancelReachesWorker
  BY DEF Inv
<1> QED BY <1>1, Invariance, PTL

\* After the shutdown nothing runs and nothing is held.
THEOREM StoppedQuiet == Spec => []StoppedIsQuiet
<1>1. Inv => StoppedIsQuiet
  <2> SUFFICES ASSUME Inv, reader = "stopped"
               PROVE  /\ OnThread = {} /\ store = {} /\ slots = MaxInFlight
                      /\ validating = None /\ \A r \in Requests : stage[r] # "running"
    BY DEF StoppedIsQuiet
  <2>1. store = {} /\ \A r \in Requests : pc[r] \in {"unsent", "refused", "done"}
    BY DEF Inv, Quiet
  <2>2. OnThread = {} /\ validating = None /\ \A r \in Requests : stage[r] # "running"
    BY <2>1 DEF Inv, Typed, Exclusive, Signalled, OnThread
  <2>3. Occupied = {}
    BY <2>1 DEF Inv, Typed, Registered, Occupied
  <2>4. slots = MaxInFlight
    BY <2>3, FS_EmptySet, RequestsAssumption DEF Inv, Counted, Typed
  <2> QED BY <2>1, <2>2, <2>4
<1> QED BY <1>1, Invariance, PTL

-----------------------------------------------------------------------------
(* The handles are used as AbstractWorkerHandle allows.                    *)

Before == {"unsent", "queued", "handle", "check", "acquire", "recheck", "register"}

\* A worker is as it was built until its request waits for it.
Unstarted == \A r \in Requests : pc[r] \in Before => stage[r] = "fresh"

\* Only five actions touch a worker.
LEMMA WorkerSteps ==
  ASSUME [Next]_vars
  PROVE  \/ UNCHANGED workers
         \/ SignalWorker
         \/ KillWorker
         \/ \E r \in Requests : RegisterLate(r) \/ StepWorker(r) \/ WorkerEnds(r)
<1>1. CASE Line
  BY <1>1, Zenon
     DEF Line, Initialize, Initialized, Eof, SubmitFails, Submit, Admit, RefuseDuplicate,
         RefuseBusy, Refuse, Answer, Cancel, execution, workers
<1>2. CASE Cancelling
  BY <1>2, Zenon DEF Cancelling, CancelTooLate, MarkCancelled, KillRaises
<1>3. CASE ShuttingDown
  BY <1>3, Zenon DEF ShuttingDown, Shutdown, Close, CancelNext, CancelQueued
<1>4. ASSUME NEW r \in Requests, Thread(r), ~RegisterLate(r), ~StepWorker(r)
      PROVE  UNCHANGED workers
  BY <1>4, Zenon
     DEF Thread, Take, RejectRequest, Dispatch, CheckCancelled, PassCheck, CapacityBusy,
         AcquireCapacity, HandleFails, RegisterWorker, WorkerAnswers, RejectOutcome,
         AcceptOutcome, CommitFails, Commit, Release, Complete, Write
<1>5. CASE UNCHANGED vars
  BY <1>5 DEF vars, workers
<1>6. CASE Client \/ ReaderWrites
  BY <1>6, Zenon DEF Client, ClientStalls, ClientReads, ClientLeaves, client_only,
                     ReaderWrites, workers
<1> QED BY <1>1, <1>2, <1>3, <1>4, <1>5, <1>6, Zenon DEF Next

\* No request comes back to where it has no worker yet.
LEMMA PcSteps ==
  ASSUME Inv, [Next]_vars, NEW q \in Requests, pc'[q] \in Before
  PROVE  pc[q] \in Before
<1> USE DEF Before
<1>1. CASE Line
  BY <1>1
     DEF Inv, Typed, Goto, Line, Initialize, Initialized, Eof, SubmitFails, Submit, Admit,
         RefuseDuplicate, RefuseBusy, Refuse, Answer, Cancel
<1>2. CASE Cancelling
  BY <1>2 DEF Cancelling, CancelTooLate, MarkCancelled, SignalWorker, KillWorker, KillRaises,
              reader_only
<1>3. CASE ShuttingDown
  BY <1>3 DEF Inv, Typed, Goto, ShuttingDown, Shutdown, Close, CancelNext, CancelQueued
<1>4. ASSUME NEW r \in Requests, Thread(r) PROVE pc[q] \in Before
  <2> USE DEF Inv, Typed, Goto, Return
  <2>1. CASE Take(r) \/ RejectRequest(r) \/ Dispatch(r) \/ CheckCancelled(r)
             \/ PassCheck(r) \/ CapacityBusy(r) \/ AcquireCapacity(r)
    BY <2>1 DEF Take, RejectRequest, Dispatch, CheckCancelled, PassCheck, CapacityBusy,
                AcquireCapacity
  <2>2. CASE HandleFails(r) \/ RegisterWorker(r) \/ RegisterLate(r) \/ StepWorker(r)
             \/ WorkerAnswers(r)
    BY <2>2 DEF HandleFails, RegisterWorker, RegisterLate, StepWorker, WorkerAnswers
  <2>3. CASE RejectOutcome(r) \/ AcceptOutcome(r) \/ CommitFails(r) \/ Commit(r)
             \/ Release(r) \/ Complete(r) \/ Write(r)
    BY <2>3 DEF RejectOutcome, AcceptOutcome, CommitFails, Commit, Release, Complete, Write
  <2> QED BY <1>4, <2>1, <2>2, <2>3 DEF Thread
<1>5. CASE UNCHANGED vars
  BY <1>5 DEF vars
<1>6. CASE Client \/ ReaderWrites \/ \E r \in Requests : WorkerEnds(r)
  BY <1>6 DEF Client, ClientStalls, ClientReads, ClientLeaves, client_only, ReaderWrites,
              WorkerEnds
<1> QED BY <1>1, <1>2, <1>3, <1>4, <1>5, <1>6 DEF Next

LEMMA UnstartedInv == Inv /\ Unstarted /\ [Next]_vars => Unstarted'
<1> SUFFICES ASSUME Inv, Unstarted, [Next]_vars, NEW q \in Requests, pc'[q] \in Before
             PROVE  stage'[q] = "fresh"
  BY DEF Unstarted
<1>1. pc[q] \in Before /\ stage[q] = "fresh"
  BY PcSteps DEF Unstarted
<1>2. CASE UNCHANGED workers
  BY <1>1, <1>2 DEF workers
<1>3. CASE SignalWorker
  BY <1>1, <1>3 DEF SignalWorker
<1>4. CASE KillWorker
  BY <1>1, <1>4 DEF KillWorker, Inv, Typed
<1>5. ASSUME NEW r \in Requests, RegisterLate(r) \/ StepWorker(r) \/ WorkerEnds(r)
      PROVE  stage'[q] = "fresh"
  BY <1>1, <1>5 DEF RegisterLate, StepWorker, WorkerEnds, Before, Inv, Typed
<1> QED BY <1>2, <1>3, <1>4, <1>5, WorkerSteps

LEMMA StepPromised ==
  ASSUME Inv, Unstarted, [Next]_vars, NEW q \in Requests
  PROVE  Workers(q)!Next \/ UNCHANGED <<stage[q], q \in events>>
<1> USE DEF Workers!Next
<1>1. CASE UNCHANGED workers
  BY <1>1 DEF workers
<1>2. CASE SignalWorker
  BY <1>2 DEF SignalWorker, Workers!Signal, Inv, Typed, Admitted
<1>3. CASE KillWorker
  BY <1>3 DEF KillWorker, Workers!End, Inv, Typed, Admitted
<1>4. ASSUME NEW r \in Requests, RegisterLate(r)
      PROVE  Workers(q)!Next \/ UNCHANGED <<stage[q], q \in events>>
  BY <1>4 DEF RegisterLate, Workers!Signal, Unstarted, Before
<1>5. ASSUME NEW r \in Requests, StepWorker(r) \/ WorkerEnds(r)
      PROVE  Workers(q)!Next \/ UNCHANGED <<stage[q], q \in events>>
  <2>1. events' = events /\ \A p \in Requests : p # r => stage'[p] = stage[p]
    BY <1>5 DEF StepWorker, WorkerEnds, Inv, Typed
  <2>2. CASE q # r
    BY <2>1, <2>2
  <2>3. CASE q = r
    BY <1>5, <2>1, <2>3
       DEF StepWorker, WorkerEnds, Inv, Typed, Workers!Start, Workers!Refuse, Workers!End, Workers!Close,
           Workers!Finish
  <2> QED BY <2>2, <2>3
<1> QED BY <1>1, <1>2, <1>3, <1>4, <1>5, WorkerSteps

\* Reader and pool threads use every worker in no other way than its handle allows.
THEOREM WorkersPromised == Spec => WorkersAsPromised
<1>1. Init => Unstarted /\ \A r \in Requests : Workers(r)!Init
  BY DEF Init, Unstarted, Workers!Init
<1>2. Spec => []Unstarted
  BY <1>1, UnstartedInv, Invariance, PTL DEF Spec
<1>3. Inv /\ Unstarted /\ [Next]_vars
      => [\A r \in Requests :
            Workers(r)!Next \/ UNCHANGED <<stage[r], r \in events>>]_workers
  BY StepPromised, Zenon
<1> QED BY <1>1, <1>2, <1>3, Invariance, PTL DEF Spec, WorkersAsPromised
=============================================================================

----------------------- MODULE ValidationLedgerProofs -----------------------
(***************************************************************************)
(* Proofs about ValidationLedger, for every value of its constants: any    *)
(* number of processes, attempts, contents and faults.  Its types; then    *)
(* its safety: as long as no file is lost, nothing acknowledged is lost or *)
(* rewritten, and every interrupted publication can be completed; then     *)
(* what stays true when files are lost; at the end, that it implements     *)
(* AbstractLedger when no file is lost.                                    *)
(***************************************************************************)
EXTENDS ValidationLedger, FiniteSetTheorems, TLAPS

(* Who is inside a call, and what its call can be in each phase.           *)
CallShape(p) ==
  /\ phase[p] # "idle" => lock = p /\ call[p] \in Calls
  /\ phase[p] = "enter" => Kind(p) # "finish"
  /\ phase[p] \in {"store", "publish"} => Publishes(p)
  /\ phase[p] = "return" => Publishes(p) \/ Kind(p) = "register"

TypeInv == TypeOK /\ \A p \in Procs : CallShape(p)

USE DEF Fields, Phases, Outcomes

\* What a call in each kind carries.
LEMMA CallFields ==
  ASSUME NEW c \in Calls
  PROVE  /\ c.kind \in {"register", "begin", "finish", "resume", "load"}
         /\ c.kind # "finish" => c.authority \in Authorities
         /\ c.kind \in {"begin", "finish", "resume"} => c.id \in AttemptIds
         /\ c.kind = "begin" => c.record \in AttemptRecords
         /\ c.kind = "finish" => /\ c.record \in TerminalRecords
                                 /\ c.handle \in AttemptContents
         /\ c.kind = "load" => c.pinned \in BOOLEAN
BY DEF Calls

\* "Nothing there" is none of the values that can be there.
LEMMA NoneIsNothing ==
  /\ None \notin Procs
  /\ None \notin Authorities
  /\ None \notin AttemptRecords
  /\ None \notin TerminalRecords
BY ConstantsAssumption DEF Records

-----------------------------------------------------------------------------
(* Type correctness.                                                       *)

LEMMA InitFiles == FilesOK(NoFiles)
BY DEF FilesOK, NoFiles, NoRecords, RecordsOf

LEMMA InitTypeInv == Init => TypeInv
<1> SUFFICES ASSUME Init PROVE TypeInv
  OBVIOUS
<1>1. FilesOK(NoFiles)
  BY InitFiles
<1>2. 0 \in 0..MaxFaults /\ 0 \in 0..MaxLosses
  BY ConstantsAssumption
<1>3. handles \in [Procs -> SUBSET (AttemptIds \X AttemptContents)]
  BY DEF Init
<1>4. acked \in [Fields -> SUBSET (AttemptIds \X Contents)]
  BY DEF Init
<1>5. call \in [Procs -> Calls \cup {None}]
  BY DEF Init
<1>6. TypeOK
  BY <1>1, <1>2, <1>3, <1>4, <1>5 DEF Init, TypeOK
<1>7. ASSUME NEW p \in Procs PROVE CallShape(p)
  BY DEF Init, CallShape
<1> QED BY <1>6, <1>7 DEF TypeInv

\* Calls begin under a free lock, so no other process is inside one.
LEMMA InvokeTypeInv ==
  ASSUME TypeInv, NEW p \in Procs, NEW c \in Calls, NEW at \in Phases,
         Invoke(p, c, at), at # "idle",
         at \in {"enter", "recover"},
         at = "enter" => c.kind # "finish"
  PROVE  TypeInv'
<1>1. TypeOK'
  BY DEF TypeInv, TypeOK, Invoke, disk, history, FilesOK
<1>2. ASSUME NEW q \in Procs PROVE CallShape(q)'
  BY NoneIsNothing DEF TypeInv, TypeOK, CallShape, Invoke, Kind, Publishes
<1> QED BY <1>1, <1>2 DEF TypeInv

\* Leaving keeps the type; the caller shows the rest of the state well typed.
LEMMA LeaveShape ==
  ASSUME TypeInv, NEW p \in Procs, NEW how \in Outcomes, lock = p, Leave(p, how)
  PROVE  /\ lock' \in Procs \cup {None}
         /\ call' \in [Procs -> Calls \cup {None}]
         /\ phase' \in [Procs -> Phases]
         /\ outcome' \in [Procs -> Outcomes]
         /\ \A q \in Procs : CallShape(q)'
BY NoneIsNothing DEF TypeInv, TypeOK, CallShape, Leave, Kind, Publishes

LEMMA RejectTypeInv ==
  ASSUME TypeInv, NEW p \in Procs, NEW how \in Outcomes, lock = p, Reject(p, how)
  PROVE  TypeInv'
BY LeaveShape DEF TypeInv, TypeOK, Reject, disk, history, FilesOK

LEMMA MoveShape ==
  ASSUME TypeInv, NEW p \in Procs, NEW at \in Phases, MoveTo(p, at),
         phase[p] # "idle",
         at \in {"enter", "recover"} \/ Publishes(p)
           \/ (at = "return" /\ Kind(p) = "register"),
         at = "enter" => Kind(p) # "finish"
  PROVE  /\ lock' \in Procs \cup {None}
         /\ call' \in [Procs -> Calls \cup {None}]
         /\ phase' \in [Procs -> Phases]
         /\ outcome' \in [Procs -> Outcomes]
         /\ handles' \in [Procs -> SUBSET (AttemptIds \X AttemptContents)]
         /\ acked' \in [Fields -> SUBSET (AttemptIds \X Contents)]
         /\ faults' \in 0..MaxFaults
         /\ losses' \in 0..MaxLosses
         /\ \A q \in Procs : CallShape(q)'
BY DEF TypeInv, TypeOK, CallShape, MoveTo, history, Kind, Publishes

\* A directory with one file written, replaced or removed is still one.
LEMMA FilesUpdate ==
  ASSUME NEW F, FilesOK(F), NEW f \in Fields, NEW a \in AttemptIds,
         NEW r \in RecordsOf(f) \cup {None}
  PROVE  FilesOK([F EXCEPT ![f][a] = r])
<1>1. RecordsOf(f) \subseteq Records
  BY DEF RecordsOf, Records
<1> QED BY <1>1 DEF FilesOK

\* A file found in a directory is a record of its kind.
LEMMA FileFound ==
  ASSUME NEW F, FilesOK(F), NEW f \in Fields, NEW a \in AttemptIds, F[f][a] # None
  PROVE  F[f][a] \in RecordsOf(f) /\ F[f][a] \in Records
BY DEF FilesOK, RecordsOf, Records

\* A call that writes a record is about an attempt, with a record of its kind.
LEMMA PublisherShape ==
  ASSUME TypeInv, NEW p \in Procs, phase[p] # "idle", Publishes(p)
  PROVE  /\ Field(p) \in Fields
         /\ call[p].id \in AttemptIds
         /\ call[p].record \in RecordsOf(Field(p))
         /\ Kind(p) = "begin" => Field(p) = "attempts"
         /\ Kind(p) = "finish" => Field(p) = "terminals"
<1>1. call[p] \in Calls
  BY DEF TypeInv, CallShape
<1> QED BY <1>1, CallFields DEF Publishes, Kind, Field, RecordsOf

LEMMA CallingTypeInv ==
  ASSUME TypeInv, NEW p \in Procs, Calling(p)
  PROVE  TypeInv'
<1>1. CASE Register(p)
  <2>1. PICK g \in Authorities :
          Invoke(p, [kind |-> "register", authority |-> g], "enter")
    BY <1>1 DEF Register
  <2>2. [kind |-> "register", authority |-> g] \in Calls
    BY DEF Calls
  <2> QED BY <2>1, <2>2, InvokeTypeInv
<1>2. CASE Begin(p)
  <2>1. PICK g \in Authorities, a \in AttemptIds, r \in AttemptRecords :
          Invoke(p, [kind |-> "begin", authority |-> g, id |-> a, record |-> r],
                 "enter")
    BY <1>2 DEF Begin
  <2>2. [kind |-> "begin", authority |-> g, id |-> a, record |-> r] \in Calls
    BY DEF Calls
  <2> QED BY <2>1, <2>2, InvokeTypeInv
<1>3. CASE Finish(p)
  <2>1. PICK h \in handles[p], r \in TerminalRecords :
          Invoke(p, [kind |-> "finish", id |-> h[1], handle |-> h[2], record |-> r],
                 "recover")
    BY <1>3 DEF Finish
  <2>2. h[1] \in AttemptIds /\ h[2] \in AttemptContents
    BY DEF TypeInv, TypeOK
  <2>3. [kind |-> "finish", id |-> h[1], handle |-> h[2], record |-> r] \in Calls
    BY <2>2 DEF Calls
  <2> QED BY <2>1, <2>3, InvokeTypeInv
<1>4. CASE Resume(p)
  <2>1. PICK g \in Authorities, a \in AttemptIds :
          Invoke(p, [kind |-> "resume", authority |-> g, id |-> a], "enter")
    BY <1>4 DEF Resume
  <2>2. [kind |-> "resume", authority |-> g, id |-> a] \in Calls
    BY DEF Calls
  <2> QED BY <2>1, <2>2, InvokeTypeInv
<1>5. CASE Load(p)
  <2>1. PICK g \in Authorities, pinned \in BOOLEAN :
          Invoke(p, [kind |-> "load", authority |-> g, pinned |-> pinned], "enter")
    BY <1>5 DEF Load
  <2>2. [kind |-> "load", authority |-> g, pinned |-> pinned] \in Calls
    BY DEF Calls
  <2> QED BY <2>1, <2>2, InvokeTypeInv
<1> QED BY <1>1, <1>2, <1>3, <1>4, <1>5 DEF Calling

\* Whatever moves the lock holder on and leaves the disk well typed is fine.
LEMMA MoveTypeInv ==
  ASSUME TypeInv, NEW p \in Procs, NEW at \in Phases, MoveTo(p, at),
         phase[p] # "idle",
         at \in {"enter", "recover"} \/ Publishes(p)
           \/ (at = "return" /\ Kind(p) = "register"),
         at = "enter" => Kind(p) # "finish",
         manifest' \in Authorities \cup {None}, inventoried' \in BOOLEAN,
         revision' \in Nat, FilesOK(entries'), FilesOK(records'),
         FilesOK(pending'), cas' \subseteq Objects
  PROVE  TypeInv'
BY MoveShape DEF TypeInv, TypeOK, FilesOK

LEMMA ContinueTypeInv ==
  ASSUME TypeInv, Continue,
         manifest' \in Authorities \cup {None}, inventoried' \in BOOLEAN,
         revision' \in Nat, FilesOK(entries'), FilesOK(records'),
         FilesOK(pending'), cas' \subseteq Objects
  PROVE  TypeInv'
BY DEF TypeInv, TypeOK, FilesOK, CallShape, Continue, history, Kind, Publishes

LEMMA AppendTyped ==
  ASSUME TypeInv, NEW f \in Fields, NEW a \in AttemptIds,
         NEW r \in RecordsOf(f), Append(f, a, r)
  PROVE  /\ manifest' \in Authorities \cup {None} /\ inventoried' \in BOOLEAN
         /\ revision' \in Nat /\ FilesOK(entries') /\ FilesOK(records')
         /\ FilesOK(pending') /\ cas' \subseteq Objects
<1>1. FilesOK([entries EXCEPT ![f][a] = r])
  BY FilesUpdate DEF TypeInv, TypeOK
<1> QED BY <1>1 DEF TypeInv, TypeOK, Append

\* An answer adds a handle or an acknowledgement and leaves the disk alone.
LEMMA ToldTypeInv ==
  ASSUME TypeInv, NEW p \in Procs, lock = p, Leave(p, "ok"),
         NEW f \in Fields, NEW a \in AttemptIds, NEW c \in Contents,
         Told(f, a, c), UNCHANGED <<disk, handles, pin, faults, losses>>
  PROVE  TypeInv'
<1>1. acked' \in [Fields -> SUBSET (AttemptIds \X Contents)]
  BY DEF Told, TypeInv, TypeOK
<1> QED BY <1>1, LeaveShape DEF disk, TypeInv, TypeOK, FilesOK

LEMMA AnswerTypeInv ==
  ASSUME TypeInv, NEW p \in Procs, lock = p, Leave(p, "ok"),
         NEW a, NEW c, <<a, c>> \in AttemptIds \X AttemptContents,
         handles' = [handles EXCEPT ![p] = @ \cup {<<a, c>>}],
         Told("attempts", a, c), UNCHANGED <<disk, pin, faults, losses>>
  PROVE  TypeInv'
<1>1. handles' \in [Procs -> SUBSET (AttemptIds \X AttemptContents)]
  BY DEF TypeInv, TypeOK
<1>2. <<a, c>> \in AttemptIds \X Contents
  BY DEF Contents
<1>3. acked' \in [Fields -> SUBSET (AttemptIds \X Contents)]
  BY <1>2 DEF Told, TypeInv, TypeOK
<1> QED BY <1>1, <1>3, LeaveShape DEF disk, TypeInv, TypeOK, FilesOK

LEMMA StepTypeInv ==
  ASSUME TypeInv, NEW p \in Procs, Step(p)
  PROVE  TypeInv'
<1> DEFINE DiskTyped ==
             /\ manifest' \in Authorities \cup {None} /\ inventoried' \in BOOLEAN
             /\ revision' \in Nat /\ FilesOK(entries') /\ FilesOK(records')
             /\ FilesOK(pending') /\ cas' \subseteq Objects
<1>0. UNCHANGED disk => DiskTyped
  BY DEF TypeInv, TypeOK, disk
<1>c. phase[p] # "idle" => call[p] \in Calls
  BY DEF TypeInv, CallShape
<1>1. CASE CreateInventory(p)
  <2>1. DiskTyped
    BY <1>1 DEF CreateInventory, TypeInv, TypeOK
  <2> QED BY <1>1, <2>1, MoveTypeInv DEF CreateInventory, Unregistered, In
<1>2. CASE CreateManifest(p)
  <2>1. DiskTyped
    BY <1>2, <1>c, CallFields
       DEF CreateManifest, Unregistered, In, Kind, inventory, TypeInv, TypeOK
  <2> QED BY <1>2, <2>1, MoveTypeInv DEF CreateManifest, Unregistered, In
<1>3. CASE RefuseInventory(p)
  BY <1>3, RejectTypeInv DEF RefuseInventory, Unregistered, In
<1>4. CASE RejectAuthority(p)
  BY <1>4, RejectTypeInv DEF RejectAuthority, Checked, In
<1>5. CASE RejectPending(p)
  BY <1>5, RejectTypeInv DEF RejectPending, Checked, In
<1>6. CASE Accept(p)
  BY <1>6, <1>0, MoveTypeInv DEF Accept, Checked, In
<1>7. CASE RollForward(p)
  <2>1. PICK f \in Fields, a \in AttemptIds :
          WriteRecord(p, f, a) \/ AppendEntry(p, f, a) \/ ClearPending(p, f, a)
    BY <1>7 DEF RollForward
  <2>2. pending[f][a] # None
    BY <2>1 DEF WriteRecord, AppendEntry, ClearPending, Rolls, Recovering, Publishing
  <2>3. pending[f][a] \in RecordsOf(f)
    BY <2>2, FileFound DEF TypeInv, TypeOK
  <2>4. CASE WriteRecord(p, f, a)
    <3>1. FilesOK([records EXCEPT ![f][a] = pending[f][a]])
      BY <2>3, FilesUpdate DEF TypeInv, TypeOK
    <3>2. DiskTyped
      BY <2>4, <3>1 DEF WriteRecord, inventory, TypeInv, TypeOK
    <3> QED BY <2>4, <3>2, ContinueTypeInv DEF WriteRecord
  <2>5. CASE AppendEntry(p, f, a)
    <3>1. DiskTyped
      BY <2>3, <2>5, AppendTyped DEF AppendEntry
    <3> QED BY <2>5, <3>1, ContinueTypeInv DEF AppendEntry
  <2>6. CASE ClearPending(p, f, a)
    <3>1. FilesOK([pending EXCEPT ![f][a] = None])
      BY FilesUpdate DEF TypeInv, TypeOK
    <3>2. DiskTyped
      BY <2>6, <3>1 DEF ClearPending, inventory, TypeInv, TypeOK
    <3> QED BY <2>6, <3>2, ContinueTypeInv DEF ClearPending
  <2> QED BY <2>1, <2>4, <2>5, <2>6
<1>8. CASE RecoveryRefused(p)
  BY <1>8, RejectTypeInv DEF RecoveryRefused, Recovering, In
<1>9. CASE PublicationRefused(p)
  BY <1>9, RejectTypeInv DEF PublicationRefused, Publishing, In
<1>10. CASE RefusePublication(p)
  BY <1>10, RejectTypeInv DEF RefusePublication, Recovered, In
<1>11. CASE RejectConflict(p)
  BY <1>11, RejectTypeInv DEF RejectConflict, Undecided, Recovered, In
<1>12. CASE Replay(p)
  BY <1>12, <1>0, MoveTypeInv DEF Replay, Replayed, Undecided, Recovered, In
<1>13. CASE Adopt(p)
  <2>1. phase[p] # "idle" /\ Publishes(p) /\ Target(p) # None
    BY <1>13 DEF Adopt, Replayed, Undecided, Recovered, In
  <2>2. Field(p) \in Fields /\ call[p].id \in AttemptIds
    BY <2>1, PublisherShape
  <2>3. Target(p) \in RecordsOf(Field(p))
    BY <2>1, <2>2, FileFound DEF Target, TypeInv, TypeOK
  <2>4. DiskTyped
    BY <1>13, <2>2, <2>3, AppendTyped DEF Adopt
  <2> QED BY <1>13, <2>1, <2>4, MoveTypeInv DEF Adopt
<1>14. CASE RefuseReplay(p)
  BY <1>14, RejectTypeInv DEF RefuseReplay, Replayed, Undecided, Recovered, In
<1>15. CASE RejectLimit(p)
  BY <1>15, RejectTypeInv DEF RejectLimit, Undecided, Recovered, In
<1>16. CASE StartPublication(p)
  BY <1>16, <1>0, MoveTypeInv DEF StartPublication, Undecided, Recovered, In
<1>17. CASE StoreEvidence(p)
  <2>1. phase[p] # "idle" /\ Publishes(p)
    BY <1>17 DEF StoreEvidence, In, TypeInv, CallShape
  <2>2. call[p].record \in RecordsOf(Field(p))
    BY <2>1, PublisherShape
  <2>3. call[p].record.content \in Contents
    BY <2>2 DEF RecordsOf, AttemptRecords, TerminalRecords, Contents
  <2>4. Evidence[call[p].record.content] \subseteq Objects
    BY <2>3, ConstantsAssumption
  <2>5. DiskTyped
    BY <1>17, <2>4 DEF StoreEvidence, inventory, TypeInv, TypeOK
  <2> QED BY <1>17, <2>5, ContinueTypeInv DEF StoreEvidence
<1>18. CASE Declare(p)
  <2>1. phase[p] # "idle" /\ Publishes(p)
    BY <1>18 DEF Declare, In, TypeInv, CallShape
  <2>2. FilesOK([pending EXCEPT ![Field(p)][call[p].id] = call[p].record])
    BY <2>1, PublisherShape, FilesUpdate DEF TypeInv, TypeOK
  <2>3. DiskTyped
    BY <1>18, <2>2 DEF Declare, inventory, TypeInv, TypeOK
  <2> QED BY <1>18, <2>1, <2>3, MoveTypeInv DEF Declare
<1>19. CASE Published(p)
  BY <1>19, <1>0, MoveTypeInv DEF Published, In, TypeInv, CallShape
<1>20. CASE ReturnAttempt(p)
  <2>1. phase[p] # "idle" /\ lock = p /\ Publishes(p) /\ Kind(p) = "begin"
    BY <1>20 DEF ReturnAttempt, In, Publishes
  <2>2. call[p].id \in AttemptIds /\ call[p].record \in AttemptRecords
    BY <2>1, PublisherShape DEF RecordsOf
  <2>3. call[p].record.content \in AttemptContents
    BY <2>2 DEF AttemptRecords
  <2>4. <<call[p].id, call[p].record.content>> \in AttemptIds \X AttemptContents
    BY <2>2, <2>3
  <2> QED BY <1>20, <2>1, <2>4, AnswerTypeInv DEF ReturnAttempt
<1>21. CASE ReturnTerminal(p)
  <2>1. phase[p] # "idle" /\ lock = p /\ Publishes(p) /\ Kind(p) = "finish"
    BY <1>21 DEF ReturnTerminal, In, Publishes
  <2>2. call[p].id \in AttemptIds /\ call[p].record \in TerminalRecords
    BY <2>1, PublisherShape DEF RecordsOf
  <2>3. call[p].record.content \in Contents
    BY <2>2 DEF TerminalRecords, Contents
  <2> QED BY <1>21, <2>1, <2>2, <2>3, ToldTypeInv DEF ReturnTerminal
<1>22. CASE ReturnScope(p)
  BY <1>22, RejectTypeInv DEF ReturnScope, Reject, Recovered, In
<1>23. CASE ResumeAttempt(p)
  <2>1. lock = p /\ call[p].id \in AttemptIds
    BY <1>23, <1>c, CallFields DEF ResumeAttempt, Recovered, In, Kind
  <2>2. records["attempts"][call[p].id] \in AttemptRecords
    BY <1>23, <2>1, FileFound
       DEF ResumeAttempt, AttemptRegistered, RecordsOf, TypeInv, TypeOK
  <2>3. records["attempts"][call[p].id].content \in AttemptContents
    BY <2>2 DEF AttemptRecords
  <2>4. <<call[p].id, records["attempts"][call[p].id].content>>
          \in AttemptIds \X AttemptContents
    BY <2>1, <2>3
  <2> QED BY <1>23, <2>1, <2>4, AnswerTypeInv DEF ResumeAttempt
<1>24. CASE RejectUnknown(p)
  BY <1>24, RejectTypeInv DEF RejectUnknown, Recovered, In
<1>25. CASE LoadScope(p)
  BY <1>25, LeaveShape DEF LoadScope, Recovered, In, disk, TypeInv, TypeOK
<1>26. CASE RejectPin(p)
  BY <1>26, RejectTypeInv DEF RejectPin, Recovered, In
<1>27. CASE RefuseScope(p)
  BY <1>27, RejectTypeInv DEF RefuseScope, Recovered, In
<1> QED BY <1>1, <1>2, <1>3, <1>4, <1>5, <1>6, <1>7, <1>8, <1>9, <1>10, <1>11,
           <1>12, <1>13, <1>14, <1>15, <1>16, <1>17, <1>18, <1>19, <1>20, <1>21,
           <1>22, <1>23, <1>24, <1>25, <1>26, <1>27 DEF Step

\* A fault ends the call that meets it; a loss takes a file, or an object.
LEMMA FaultTypeInv ==
  ASSUME TypeInv, NEW p \in Procs, Kill(p) \/ WriteFails(p)
  PROVE  TypeInv'
<1>1. faults' \in 0..MaxFaults
  BY ConstantsAssumption DEF TypeInv, TypeOK, Kill, WriteFails
<1>2. CASE Kill(p)
  <2>1. TypeOK'
    BY <1>1, <1>2 DEF Kill, TypeInv, TypeOK, disk, FilesOK
  <2>2. ASSUME NEW q \in Procs PROVE CallShape(q)'
    BY <1>2 DEF Kill, TypeInv, TypeOK, CallShape, Kind, Publishes
  <2> QED BY <2>1, <2>2 DEF TypeInv
<1>3. CASE WriteFails(p)
  <2>1. lock = p
    BY <1>3 DEF WriteFails, TypeInv, CallShape
  <2> QED BY <1>1, <1>3, <2>1, LeaveShape
          DEF WriteFails, TypeInv, TypeOK, disk, FilesOK
<1> QED BY <1>2, <1>3

LEMMA LossTypeInv ==
  ASSUME TypeInv, Lose
  PROVE  TypeInv'
<1>1. losses' \in 0..MaxLosses
  BY ConstantsAssumption DEF TypeInv, TypeOK, Lose
<1>2. \A q \in Procs : CallShape(q)'
  BY DEF Lose, TypeInv, CallShape, Kind, Publishes
<1>3. FilesOK(NoFiles)
  BY InitFiles
<1>4. ASSUME NEW f \in Fields, NEW a \in AttemptIds
      PROVE  /\ FilesOK([records EXCEPT ![f][a] = None])
             /\ FilesOK([pending EXCEPT ![f][a] = None])
  BY FilesUpdate DEF TypeInv, TypeOK
<1>5. FilesOK(entries') /\ revision' \in Nat
  BY <1>3 DEF Lose, TypeInv, TypeOK, inventory
<1>6. FilesOK(records')
  <2>1. \/ records' = records
        \/ \E f \in Fields, a \in AttemptIds :
             records' = [records EXCEPT ![f][a] = None]
    BY DEF Lose
  <2> QED BY <2>1, <1>4 DEF TypeInv, TypeOK
<1>7. FilesOK(pending')
  <2>1. \/ pending' = pending
        \/ \E f \in Fields, a \in AttemptIds :
             pending' = [pending EXCEPT ![f][a] = None]
    BY DEF Lose
  <2> QED BY <2>1, <1>4 DEF TypeInv, TypeOK
<1>8. /\ manifest' \in Authorities \cup {None} /\ inventoried' \in BOOLEAN
      /\ cas' \subseteq Objects
  BY DEF Lose, TypeInv, TypeOK, inventory
<1> QED BY <1>1, <1>2, <1>5, <1>6, <1>7, <1>8 DEF Lose, TypeInv, TypeOK, FilesOK

LEMMA NextTypeInv == TypeInv /\ [Next]_vars => TypeInv'
<1> SUFFICES ASSUME TypeInv, [Next]_vars PROVE TypeInv'
  OBVIOUS
<1>1. ASSUME NEW p \in Procs, Calling(p) \/ Step(p) \/ Kill(p) \/ WriteFails(p)
      PROVE  TypeInv'
  BY <1>1, CallingTypeInv, StepTypeInv, FaultTypeInv
<1>2. CASE Lose
  BY <1>2, LossTypeInv
<1>3. CASE UNCHANGED vars
  BY <1>3 DEF vars, TypeInv, TypeOK, FilesOK, CallShape, Kind, Publishes
<1> QED BY <1>1, <1>2, <1>3 DEF Next

\* TypeOK holds in every state of every behaviour, for any number of processes,
\* attempts, faults and losses.
THEOREM TypeCorrect == Spec => []TypeOK
<1>1. TypeInv => TypeOK
  BY DEF TypeInv
<1> QED BY <1>1, InitTypeInv, NextTypeInv, PTL DEF Spec

-----------------------------------------------------------------------------
(* The safety invariant.  As long as no file is lost, the disk is one of   *)
(* the prefixes of a publication, and the lock holder knows which.         *)

\* one record, its inventory entry and its intent
SlotInv(f, a) ==
  /\ records[f][a] \in {None, entries[f][a], pending[f][a]}
  /\ entries[f][a] # None => records[f][a] = entries[f][a]
  /\ pending[f][a] # None => records[f][a] \in {None, pending[f][a]}
  /\ records[f][a] # None => Stored(records[f][a])
  /\ pending[f][a] # None => Stored(pending[f][a])

OneIntent ==
  \A f, g \in Fields, a, b \in AttemptIds :
    pending[f][a] # None /\ pending[g][b] # None => f = g /\ a = b

\* a terminal, declared or listed, follows a listed attempt
TerminalsFollow ==
  \A a \in AttemptIds :
    pending["terminals"][a] # None \/ entries["terminals"][a] # None =>
      entries["attempts"][a] # None

Registered ==
  /\ ~inventoried => manifest = None
  /\ manifest = None => entries = NoFiles /\ pending = NoFiles

Counted ==
  /\ revision = Cardinality(Listed("attempts")) + Cardinality(Listed("terminals"))
  /\ Cardinality(Listed("attempts")) <= MaxScopeAttempts

\* the attempt that is declared was counted against the bound
RoomDeclared ==
  \A a \in AttemptIds :
    pending["attempts"][a] # None /\ entries["attempts"][a] = None =>
      Cardinality(Listed("attempts")) < MaxScopeAttempts

DiskInv ==
  /\ \A f \in Fields, a \in AttemptIds : SlotInv(f, a)
  /\ OneIntent
  /\ TerminalsFollow
  /\ Registered
  /\ Counted
  /\ RoomDeclared

\* what the process inside a call has already made sure of
CallInv(p) ==
  /\ phase[p] \notin {"idle", "enter"} => manifest # None
  /\ phase[p] # "idle" /\ Kind(p) = "finish" =>
       Durable("attempts", call[p].id, call[p].handle)
  /\ phase[p] = "store" =>
       /\ NoPending
       /\ records[Field(p)][call[p].id] = None
       /\ Kind(p) = "begin" =>
            Cardinality(Listed("attempts")) < MaxScopeAttempts
  /\ phase[p] = "publish" =>
       \/ pending[Field(p)][call[p].id] = call[p].record
       \/ Durable(Field(p), call[p].id, call[p].record.content)
  /\ phase[p] = "return" /\ Publishes(p) =>
       Durable(Field(p), call[p].id, call[p].record.content)

SafeInv ==
  /\ TypeInv
  /\ Intact => DiskInv /\ \A p \in Procs : CallInv(p)
  /\ AckedDurable
  /\ NeverRefused

-----------------------------------------------------------------------------
(* The inventory and its bounds.                                           *)

LEMMA InitSafeInv == Init => SafeInv
<1> SUFFICES ASSUME Init PROVE SafeInv
  OBVIOUS
<1>1. TypeInv
  BY InitTypeInv
<1>2. \A f \in Fields : Listed(f) = {}
  BY DEF Init, Listed, NoFiles, NoRecords
<1>3. Cardinality(Listed("attempts")) = 0 /\ Cardinality(Listed("terminals")) = 0
  BY <1>2, FS_EmptySet
<1>4. DiskInv
  BY <1>3, ConstantsAssumption
     DEF Init, DiskInv, SlotInv, OneIntent, TerminalsFollow, Registered, Counted,
         RoomDeclared, NoFiles, NoRecords
<1>5. \A p \in Procs : CallInv(p)
  BY DEF Init, CallInv
<1>6. AckedDurable /\ NeverRefused
  BY DEF Init, AckedDurable, NeverRefused
<1> QED BY <1>1, <1>4, <1>5, <1>6 DEF SafeInv

LEMMA ListedFinite ==
  ASSUME NEW f \in Fields
  PROVE  /\ IsFiniteSet(Listed(f))
         /\ Cardinality(Listed(f)) \in Nat
BY ConstantsAssumption, FS_Subset, FS_CardinalityType DEF Listed

\* There are no more terminals than attempts, and fewer when one is missing.
LEMMA TerminalsBounded ==
  ASSUME DiskInv
  PROVE  /\ Listed("terminals") \subseteq Listed("attempts")
         /\ Cardinality(Listed("terminals")) <= Cardinality(Listed("attempts"))
         /\ Listed("terminals") # Listed("attempts") =>
              Cardinality(Listed("terminals")) < Cardinality(Listed("attempts"))
<1>1. Listed("terminals") \subseteq Listed("attempts")
  BY DEF DiskInv, TerminalsFollow, Listed
<1>2. /\ IsFiniteSet(Listed("attempts")) /\ IsFiniteSet(Listed("terminals"))
      /\ Cardinality(Listed("attempts")) \in Nat
      /\ Cardinality(Listed("terminals")) \in Nat
  BY ListedFinite
<1>3. Cardinality(Listed("terminals")) <= Cardinality(Listed("attempts"))
  BY <1>1, <1>2, FS_Subset
<1>4. Cardinality(Listed("terminals")) = Cardinality(Listed("attempts"))
        => Listed("terminals") = Listed("attempts")
  BY <1>1, <1>2, FS_Subset
<1> QED BY <1>1, <1>2, <1>3, <1>4

\* A registered scope has an inventory that loads.
LEMMA RegisteredLoads ==
  ASSUME TypeInv, DiskInv, manifest # None
  PROVE  InventoryLoads
<1>1. /\ Cardinality(Listed("attempts")) \in Nat
      /\ Cardinality(Listed("terminals")) \in Nat
  BY ListedFinite
<1>2. /\ Cardinality(Listed("attempts")) <= MaxScopeAttempts
      /\ Cardinality(Listed("terminals")) <= Cardinality(Listed("attempts"))
      /\ Listed("terminals") \subseteq Listed("attempts")
  BY TerminalsBounded DEF DiskInv, Counted
<1>3. inventoried
  BY DEF TypeInv, TypeOK, DiskInv, Registered
<1> QED BY <1>1, <1>2, <1>3, ConstantsAssumption DEF InventoryLoads, DiskInv, Counted

-----------------------------------------------------------------------------
(* What the writes do to the disk.                                         *)

\* what is published stays
Grows ==
  /\ \A f \in Fields, a \in AttemptIds :
       /\ records[f][a] # None => records'[f][a] = records[f][a]
       /\ entries[f][a] # None => entries'[f][a] = entries[f][a]
  /\ cas \subseteq cas'
  /\ manifest # None => manifest' = manifest

LEMMA QuietDisk ==
  ASSUME DiskInv, UNCHANGED disk
  PROVE  DiskInv' /\ Grows
<1>1. DiskInv'
  BY DEF disk, DiskInv, SlotInv, Stored, OneIntent, TerminalsFollow, Registered,
         Counted, RoomDeclared, Listed
<1>2. Grows
  BY DEF disk, Grows
<1> QED BY <1>1, <1>2

LEMMA RegisterDisk ==
  ASSUME TypeInv, DiskInv, NEW p \in Procs, CreateInventory(p) \/ CreateManifest(p)
  PROVE  DiskInv' /\ Grows
<1>1. CASE CreateInventory(p)
  BY <1>1 DEF CreateInventory, Unregistered, Grows, DiskInv, SlotInv, Stored, OneIntent,
              TerminalsFollow, Registered, Counted, RoomDeclared, Listed
<1>2. CASE CreateManifest(p)
  <2>1. inventoried /\ manifest = None
    BY <1>2 DEF CreateManifest, Unregistered, InventoryLoads
  <2>2. manifest' # None
    <3>1. call[p] \in Calls /\ Kind(p) = "register"
      BY <1>2 DEF CreateManifest, Unregistered, In, TypeInv, CallShape
    <3> QED BY <1>2, <3>1, CallFields, NoneIsNothing DEF CreateManifest, Kind
  <2> QED BY <1>2, <2>1, <2>2
          DEF CreateManifest, inventory, Grows, DiskInv, SlotInv, Stored, OneIntent,
              TerminalsFollow, Registered, Counted, RoomDeclared, Listed
<1> QED BY <1>1, <1>2

LEMMA WriteRecordDisk ==
  ASSUME TypeInv, DiskInv, NEW p \in Procs, NEW f \in Fields, NEW a \in AttemptIds,
         WriteRecord(p, f, a)
  PROVE  DiskInv' /\ Grows
<1>1. /\ pending[f][a] # None
      /\ records[f][a] = None
      /\ records' = [records EXCEPT ![f][a] = pending[f][a]]
      /\ UNCHANGED <<manifest, inventory, pending, cas>>
  BY DEF WriteRecord, Rolls, Recovering, Publishing
<1>2. entries[f][a] = None
  BY <1>1 DEF DiskInv, SlotInv
<1>3. ASSUME NEW g \in Fields, NEW b \in AttemptIds PROVE SlotInv(g, b)'
  BY <1>1, <1>2 DEF TypeInv, TypeOK, FilesOK, DiskInv, SlotInv, Stored, inventory
<1>4. OneIntent' /\ TerminalsFollow' /\ Registered' /\ Counted' /\ RoomDeclared'
  BY <1>1 DEF inventory, DiskInv, OneIntent, TerminalsFollow, Registered, Counted,
              RoomDeclared, Listed
<1>5. Grows
  BY <1>1 DEF TypeInv, TypeOK, FilesOK, inventory, Grows
<1> QED BY <1>3, <1>4, <1>5 DEF DiskInv

\* The only write that adds to the inventory when the scope is intact.
LEMMA AppendEntryDisk ==
  ASSUME TypeInv, DiskInv, NEW p \in Procs, NEW f \in Fields, NEW a \in AttemptIds,
         AppendEntry(p, f, a)
  PROVE  DiskInv' /\ Grows
<1>1. /\ pending[f][a] # None
      /\ records[f][a] = pending[f][a]
      /\ entries[f][a] = None
      /\ Appendable(f, a)
      /\ entries' = [entries EXCEPT ![f][a] = pending[f][a]]
      /\ revision' = revision + 1
      /\ UNCHANGED <<manifest, inventoried, records, pending, cas>>
  BY DEF AppendEntry, Append, Rolls, Recovering, Publishing
<1>2. \A g \in Fields, b \in AttemptIds :
        entries'[g][b] = IF g = f /\ b = a THEN pending[f][a] ELSE entries[g][b]
  BY <1>1 DEF TypeInv, TypeOK, FilesOK
<1>3. /\ Listed(f)' = Listed(f) \cup {a}
      /\ a \notin Listed(f)
      /\ \A g \in Fields : g # f => Listed(g)' = Listed(g)
  BY <1>1, <1>2 DEF Listed
<1>4. /\ Cardinality(Listed(f)') = Cardinality(Listed(f)) + 1
      /\ \A g \in Fields : Cardinality(Listed(g)) \in Nat
  BY <1>3, ListedFinite, FS_AddElement
<1>5. ASSUME NEW g \in Fields, NEW b \in AttemptIds PROVE SlotInv(g, b)'
  BY <1>1, <1>2 DEF DiskInv, SlotInv, Stored
<1>6. OneIntent' /\ Registered'
  BY <1>1, <1>2 DEF DiskInv, OneIntent, Registered, NoFiles, NoRecords
<1>7. TerminalsFollow'
  BY <1>1, <1>2 DEF DiskInv, TerminalsFollow, Appendable, Listed
<1>8. Counted'
  <2>1. Cardinality(Listed(f)) < MaxScopeAttempts
    BY <1>1 DEF Appendable, Room
  <2>2. revision \in Nat
    BY DEF TypeInv, TypeOK
  <2>3. /\ Cardinality(Listed("attempts")) \in Nat
        /\ Cardinality(Listed("terminals")) \in Nat
    BY ListedFinite
  <2>4. /\ revision = Cardinality(Listed("attempts")) + Cardinality(Listed("terminals"))
        /\ Cardinality(Listed("attempts")) <= MaxScopeAttempts
    BY DEF DiskInv, Counted
  <2>5. CASE f = "attempts"
    <3>1. /\ Cardinality(Listed("attempts")') = Cardinality(Listed("attempts")) + 1
          /\ Cardinality(Listed("terminals")') = Cardinality(Listed("terminals"))
      BY <1>3, <1>4, <2>5
    <3> QED BY <1>1, <2>1, <2>3, <2>4, <2>5, <3>1, ConstantsAssumption DEF Counted
  <2>6. CASE f = "terminals"
    <3>1. /\ Cardinality(Listed("terminals")') = Cardinality(Listed("terminals")) + 1
          /\ Cardinality(Listed("attempts")') = Cardinality(Listed("attempts"))
      BY <1>3, <1>4, <2>6
    <3> QED BY <1>1, <2>3, <2>4, <3>1 DEF Counted
  <2> QED BY <2>5, <2>6
<1>9. RoomDeclared'
  BY <1>1, <1>2 DEF DiskInv, OneIntent, RoomDeclared
<1>10. Grows
  BY <1>1, <1>2 DEF Grows
<1> QED BY <1>5, <1>6, <1>7, <1>8, <1>9, <1>10 DEF DiskInv

LEMMA ClearPendingDisk ==
  ASSUME TypeInv, DiskInv, NEW p \in Procs, NEW f \in Fields, NEW a \in AttemptIds,
         ClearPending(p, f, a)
  PROVE  DiskInv' /\ Grows
<1>1. /\ pending[f][a] # None
      /\ records[f][a] = pending[f][a]
      /\ entries[f][a] = pending[f][a]
      /\ pending' = [pending EXCEPT ![f][a] = None]
      /\ UNCHANGED <<manifest, inventory, records, cas>>
  BY DEF ClearPending, Rolls, Recovering, Publishing
<1>2. \A g \in Fields, b \in AttemptIds :
        pending'[g][b] = IF g = f /\ b = a THEN None ELSE pending[g][b]
  BY <1>1 DEF TypeInv, TypeOK, FilesOK
<1>3. ASSUME NEW g \in Fields, NEW b \in AttemptIds PROVE SlotInv(g, b)'
  BY <1>1, <1>2 DEF DiskInv, SlotInv, Stored, inventory
<1>4. OneIntent' /\ TerminalsFollow' /\ RoomDeclared' /\ Counted'
  BY <1>1, <1>2 DEF inventory, DiskInv, OneIntent, TerminalsFollow, Counted,
                    RoomDeclared, Listed
<1>5. Registered'
  BY <1>1 DEF inventory, DiskInv, Registered, NoFiles, NoRecords
<1>6. Grows
  BY <1>1 DEF inventory, Grows
<1> QED BY <1>3, <1>4, <1>5, <1>6 DEF DiskInv

LEMMA StoreEvidenceDisk ==
  ASSUME TypeInv, DiskInv, NEW p \in Procs, StoreEvidence(p)
  PROVE  DiskInv' /\ Grows
<1>1. /\ cas \subseteq cas'
      /\ UNCHANGED <<manifest, inventory, records, pending>>
  BY DEF StoreEvidence
<1>2. ASSUME NEW g \in Fields, NEW b \in AttemptIds PROVE SlotInv(g, b)'
  BY <1>1 DEF DiskInv, SlotInv, Stored, inventory
<1>3. OneIntent' /\ TerminalsFollow' /\ RoomDeclared' /\ Counted' /\ Registered'
  BY <1>1 DEF inventory, DiskInv, OneIntent, TerminalsFollow, Counted, Registered,
              RoomDeclared, Listed
<1> QED BY <1>1, <1>2, <1>3 DEF DiskInv, Grows, inventory

LEMMA DeclareDisk ==
  ASSUME TypeInv, DiskInv, NEW p \in Procs, CallInv(p), Declare(p)
  PROVE  DiskInv' /\ Grows
<1> DEFINE f == Field(p)
           a == call[p].id
           r == call[p].record
<1>1. /\ phase[p] = "store" /\ phase[p] # "idle" /\ Publishes(p)
      /\ Stored(r)
      /\ pending' = [pending EXCEPT ![f][a] = r]
      /\ UNCHANGED <<manifest, inventory, records, cas>>
  BY DEF Declare, In, TypeInv, CallShape
<1>2. /\ f \in Fields /\ a \in AttemptIds /\ r \in RecordsOf(f)
      /\ Kind(p) = "begin" <=> f = "attempts"
  BY <1>1, PublisherShape DEF Publishes
<1>3. r # None
  BY <1>2, NoneIsNothing DEF RecordsOf
<1>4. /\ NoPending /\ records[f][a] = None /\ manifest # None
      /\ f = "attempts" => Cardinality(Listed("attempts")) < MaxScopeAttempts
      /\ f = "terminals" => entries["attempts"][a] # None
  BY <1>1, <1>2 DEF CallInv, Durable, Publishes
<1>5. \A g \in Fields, b \in AttemptIds :
        pending'[g][b] = IF g = f /\ b = a THEN r ELSE None
  BY <1>1, <1>2, <1>4 DEF NoPending, NoFiles, NoRecords
<1>6. entries[f][a] = None
  BY <1>2, <1>4 DEF DiskInv, SlotInv
<1>7. \A g \in Fields, b \in AttemptIds : pending[g][b] = None
  BY <1>4 DEF NoPending, NoFiles, NoRecords
<1>8. ASSUME NEW g \in Fields, NEW b \in AttemptIds PROVE SlotInv(g, b)'
  <2> HIDE DEF f, a, r
  <2> QED BY <1>1, <1>3, <1>4, <1>5, <1>6, <1>7 DEF DiskInv, SlotInv, Stored, inventory
<1>9. OneIntent'
  <2> HIDE DEF f, a, r
  <2> QED BY <1>5 DEF OneIntent
<1>10. TerminalsFollow'
  <2> HIDE DEF f, a, r
  <2> QED BY <1>1, <1>4, <1>5 DEF DiskInv, TerminalsFollow, inventory
<1>11. Counted' /\ Registered' /\ RoomDeclared'
  <2> HIDE DEF f, a, r
  <2> QED BY <1>1, <1>4, <1>5
          DEF DiskInv, Counted, Registered, RoomDeclared, Listed, inventory
<1>12. Grows
  BY <1>1 DEF Grows, inventory
<1> QED BY <1>8, <1>9, <1>10, <1>11, <1>12 DEF DiskInv

-----------------------------------------------------------------------------
(* What a step of a call leaves true about the call.                       *)

\* Nothing is adopted in an intact scope: every record has an entry or an intent.
LEMMA NoAdoption ==
  ASSUME TypeInv, DiskInv, NEW p \in Procs, phase[p] # "idle", Publishes(p),
         NoPending, Target(p) # None
  PROVE  /\ entries[Field(p)][call[p].id] = Target(p)
         /\ Stored(Target(p))
BY PublisherShape DEF DiskInv, SlotInv, Target, NoPending, NoFiles, NoRecords

LEMMA ReplaySafe ==
  ASSUME TypeInv, DiskInv, NEW p \in Procs, Replay(p)
  PROVE  Durable(Field(p), call[p].id, call[p].record.content)
<1>1. phase[p] # "idle" /\ Publishes(p) /\ NoPending /\ Target(p) # None
  BY DEF Replay, Replayed, Undecided, Recovered, In
<1> QED BY <1>1, NoAdoption
        DEF Replay, Replayed, Durable, Target, SameContent, Stored

\* The last write of a publication makes its record durable.
LEMMA PublishedSafe ==
  ASSUME TypeInv, DiskInv, NEW p \in Procs, phase[p] = "publish",
         NEW f \in Fields, NEW a \in AttemptIds, ClearPending(p, f, a), CallInv(p)
  PROVE  Durable(Field(p), call[p].id, call[p].record.content)'
<1>1. /\ f = Field(p) /\ a = call[p].id
      /\ pending[f][a] # None
      /\ records[f][a] = pending[f][a] /\ entries[f][a] = pending[f][a]
      /\ records' = records /\ entries' = entries /\ cas' = cas /\ call' = call
  BY DEF ClearPending, Rolls, Recovering, Publishing, In, Continue, inventory
<1>2. records[f][a].content = call[p].record.content
  BY <1>1 DEF CallInv, Durable
<1>3. Stored(records[f][a])
  BY <1>1 DEF DiskInv, SlotInv
<1> QED BY <1>1, <1>2, <1>3 DEF Durable, Stored, Field, Kind

\* What was durable is still durable when the disk has only grown.
LEMMA DurableGrows ==
  ASSUME Grows, NEW f \in Fields, NEW a \in AttemptIds, NEW c, Durable(f, a, c)
  PROVE  Durable(f, a, c)'
BY DEF Grows, Durable, Stored

LEMMA CallGrows ==
  ASSUME TypeInv, Grows, NEW p \in Procs, CallInv(p), phase[p] # "idle",
         call' = call
  PROVE  /\ manifest # None => manifest' # None
         /\ Kind(p) = "finish" =>
              Durable("attempts", call[p].id, call[p].handle)'
         /\ Publishes(p) /\ Durable(Field(p), call[p].id, call[p].record.content) =>
              Durable(Field(p), call[p].id, call[p].record.content)'
<1>1. manifest # None => manifest' # None
  BY DEF Grows
<1>2. ASSUME Kind(p) = "finish"
      PROVE  Durable("attempts", call[p].id, call[p].handle)'
  <2>1. call[p].id \in AttemptIds
    BY <1>2, PublisherShape DEF Publishes
  <2>2. Durable("attempts", call[p].id, call[p].handle)
    BY <1>2 DEF CallInv
  <2>3. "attempts" \in Fields
    BY DEF Fields
  <2> QED BY <2>1, <2>2, <2>3, DurableGrows
<1>3. ASSUME Publishes(p), Durable(Field(p), call[p].id, call[p].record.content)
      PROVE  Durable(Field(p), call[p].id, call[p].record.content)'
  <2>1. call[p].id \in AttemptIds /\ Field(p) \in Fields /\ Field(p)' = Field(p)
    BY <1>3, PublisherShape DEF Field, Kind
  <2>2. PICK f \in Fields, a \in AttemptIds : f = Field(p) /\ a = call[p].id
    BY <2>1
  <2>3. Durable(f, a, call[p].record.content)'
    BY <1>3, <2>2, DurableGrows
  <2> QED BY <2>1, <2>2, <2>3
<1> QED BY <1>1, <1>2, <1>3

LEMMA IdleCall ==
  ASSUME NEW p \in Procs, phase'[p] = "idle"
  PROVE  CallInv(p)'
BY DEF CallInv

\* A call that moves on keeps what it knew, if the new phase asks nothing more.
LEMMA MoveSafe ==
  ASSUME TypeInv, Grows, NEW p \in Procs, NEW at \in Phases, CallInv(p),
         phase[p] # "idle", MoveTo(p, at),
         at # "enter" => manifest' # None,
         at \in {"enter", "recover"} \/ (at = "return" /\ Kind(p) = "register")
           \/ (/\ at = "return" /\ Publishes(p)
               /\ Durable(Field(p), call[p].id, call[p].record.content))
  PROVE  CallInv(p)'
<1>1. call' = call /\ phase'[p] = at
  BY DEF MoveTo, TypeInv, TypeOK
<1> QED BY <1>1, CallGrows DEF CallInv, Kind, Publishes

\* Steps that end a call without touching the disk.
Ends(p) ==
  /\ UNCHANGED disk
  /\ phase' = [phase EXCEPT ![p] = "idle"]

LEMMA EndSafe ==
  ASSUME TypeInv, DiskInv, NEW p \in Procs, Ends(p)
  PROVE  DiskInv' /\ Grows /\ CallInv(p)'
<1>1. phase'[p] = "idle"
  BY DEF Ends, TypeInv, TypeOK
<1> QED BY <1>1, QuietDisk, IdleCall DEF Ends

LEMMA RollForwardSafe ==
  ASSUME TypeInv, DiskInv, NEW p \in Procs, CallInv(p), RollForward(p)
  PROVE  DiskInv' /\ Grows /\ CallInv(p)'
<1>1. PICK f \in Fields, a \in AttemptIds :
        WriteRecord(p, f, a) \/ AppendEntry(p, f, a) \/ ClearPending(p, f, a)
  BY DEF RollForward
<1>2. DiskInv' /\ Grows
  BY <1>1, WriteRecordDisk, AppendEntryDisk, ClearPendingDisk
<1>3. /\ phase[p] \in {"recover", "publish"}
      /\ call' = call /\ phase' = phase
  BY <1>1 DEF WriteRecord, AppendEntry, ClearPending, Rolls, Recovering, Publishing, In,
              Continue
<1>4. /\ manifest # None => manifest' # None
      /\ Kind(p) = "finish" => Durable("attempts", call[p].id, call[p].handle)'
      /\ Publishes(p) /\ Durable(Field(p), call[p].id, call[p].record.content) =>
           Durable(Field(p), call[p].id, call[p].record.content)'
  BY <1>2, <1>3, CallGrows
<1>5. CASE phase[p] = "recover"
  <2>1. phase'[p] = "recover" /\ manifest' # None /\ Kind(p)' = Kind(p)
    BY <1>3, <1>4, <1>5 DEF CallInv, Kind
  <2> QED BY <1>2, <1>4, <2>1 DEF CallInv
<1>6. CASE phase[p] = "publish"
  <2>1. Publishes(p)
    BY <1>6 DEF TypeInv, CallShape
  <2>2. \/ (pending[Field(p)][call[p].id] = call[p].record)'
        \/ Durable(Field(p), call[p].id, call[p].record.content)'
    <3>1. CASE ClearPending(p, f, a)
      BY <1>6, <3>1, PublishedSafe
    <3>2. CASE WriteRecord(p, f, a) \/ AppendEntry(p, f, a)
      <4>1. pending' = pending
        BY <3>2 DEF WriteRecord, AppendEntry, Append
      <4> QED BY <1>3, <1>4, <1>6, <2>1, <4>1 DEF CallInv, Field, Kind
    <3> QED BY <1>1, <3>1, <3>2
  <2>3. phase'[p] = "publish" /\ manifest' # None /\ Kind(p)' = Kind(p)
    BY <1>3, <1>4, <1>6 DEF CallInv, Kind
  <2> QED BY <1>2, <1>4, <2>2, <2>3 DEF CallInv
<1> QED BY <1>3, <1>5, <1>6

LEMMA StepSafe ==
  ASSUME TypeInv, DiskInv, NEW p \in Procs, CallInv(p), Step(p)
  PROVE  DiskInv' /\ Grows /\ CallInv(p)'
<1> DEFINE Safe == DiskInv' /\ Grows /\ CallInv(p)'
<1>c. phase[p] # "idle" => call[p] \in Calls
  BY DEF TypeInv, CallShape
<1>1. CASE CreateInventory(p) \/ CreateManifest(p)
  <2>1. /\ DiskInv' /\ Grows
        /\ phase[p] = "enter" /\ Kind(p) = "register"
        /\ \/ MoveTo(p, "enter")
           \/ MoveTo(p, "return") /\ manifest' = call[p].authority
    BY <1>1, RegisterDisk DEF CreateInventory, CreateManifest, Unregistered, In
  <2>2. call[p].authority # None
    BY <2>1, <1>c, CallFields, NoneIsNothing DEF Kind
  <2> QED BY <2>1, <2>2, MoveSafe
<1>2. CASE Accept(p)
  <2>1. /\ phase[p] = "enter" /\ MoveTo(p, "recover") /\ UNCHANGED disk
        /\ manifest = call[p].authority
    BY <1>2 DEF Accept, Checked, In
  <2>2. manifest' # None
    BY <2>1, <1>c, CallFields, NoneIsNothing DEF TypeInv, CallShape, Kind, disk
  <2> QED BY <2>1, <2>2, MoveSafe, QuietDisk
<1>3. CASE RollForward(p)
  BY <1>3, RollForwardSafe
<1>4. CASE Replay(p)
  <2>1. /\ phase[p] = "recover" /\ Publishes(p) /\ MoveTo(p, "return")
        /\ UNCHANGED disk /\ manifest' # None
    BY <1>4 DEF Replay, Replayed, Undecided, Recovered, In, CallInv, disk
  <2> QED BY <1>4, <2>1, MoveSafe, QuietDisk, ReplaySafe
<1>5. CASE Adopt(p)
  <2>1. /\ phase[p] # "idle" /\ Publishes(p) /\ NoPending
        /\ Target(p) # None /\ entries[Field(p)][call[p].id] = None
    BY <1>5 DEF Adopt, Replayed, Undecided, Recovered, In
  <2> QED BY <2>1, NoAdoption
<1>6. CASE StartPublication(p)
  <2>1. /\ phase[p] = "recover" /\ Publishes(p) /\ MoveTo(p, "store")
        /\ UNCHANGED disk /\ manifest # None
        /\ NoPending /\ records[Field(p)][call[p].id] = None
        /\ ~ScopeFull(p)
    BY <1>6 DEF StartPublication, Undecided, Recovered, In, CallInv, Target
  <2>2. Kind(p) = "begin" => Cardinality(Listed("attempts")) < MaxScopeAttempts
    BY <2>1, ListedFinite, ConstantsAssumption DEF ScopeFull
  <2>3. DiskInv' /\ Grows
    BY <2>1, QuietDisk
  <2>4. /\ call' = call /\ phase'[p] = "store"
    BY <2>1 DEF MoveTo, TypeInv, TypeOK
  <2>5. /\ Kind(p) = "finish" => Durable("attempts", call[p].id, call[p].handle)'
        /\ manifest' # None
    BY <2>1, <2>3, <2>4, CallGrows
  <2>6. NoPending' /\ records' = records /\ \A f \in Fields : Listed(f)' = Listed(f)
    BY <2>1 DEF NoPending, disk, Listed
  <2>7. CallInv(p)'
    BY <2>1, <2>2, <2>4, <2>5, <2>6 DEF CallInv, Kind, Field
  <2> QED BY <2>3, <2>7
<1>7. CASE StoreEvidence(p)
  <2>1. DiskInv' /\ Grows
    BY <1>7, StoreEvidenceDisk
  <2>2. /\ phase[p] = "store" /\ UNCHANGED <<call, phase, inventory, records, pending>>
    BY <1>7 DEF StoreEvidence, In, Continue
  <2>3. /\ manifest' # None
        /\ Kind(p) = "finish" => Durable("attempts", call[p].id, call[p].handle)'
    BY <2>1, <2>2, CallGrows DEF CallInv
  <2>4. NoPending' = NoPending /\ \A f \in Fields : Listed(f)' = Listed(f)
    BY <2>2 DEF NoPending, inventory, Listed
  <2>5. CallInv(p)'
    BY <2>2, <2>3, <2>4 DEF CallInv, Kind, Field
  <2> QED BY <2>1, <2>5
<1>8. CASE Declare(p)
  <2>1. DiskInv' /\ Grows
    BY <1>8, DeclareDisk
  <2>2. /\ phase[p] = "store" /\ Publishes(p) /\ MoveTo(p, "publish")
        /\ pending' = [pending EXCEPT ![Field(p)][call[p].id] = call[p].record]
    BY <1>8 DEF Declare, In, TypeInv, CallShape
  <2>3. /\ call' = call /\ phase'[p] = "publish"
    BY <2>2 DEF MoveTo, TypeInv, TypeOK
  <2>4. /\ manifest' # None
        /\ Kind(p) = "finish" => Durable("attempts", call[p].id, call[p].handle)'
    BY <2>1, <2>2, <2>3, CallGrows DEF CallInv
  <2>5. Field(p) \in Fields /\ call[p].id \in AttemptIds
    BY <2>2, PublisherShape
  <2>6. pending'[Field(p)][call[p].id] = call[p].record
    BY <2>2, <2>5 DEF TypeInv, TypeOK, FilesOK
  <2>7. CallInv(p)'
    BY <2>3, <2>4, <2>6 DEF CallInv, Kind, Field
  <2> QED BY <2>1, <2>7
<1>9. CASE Published(p)
  <2>1. /\ phase[p] = "publish" /\ Publishes(p) /\ MoveTo(p, "return")
        /\ UNCHANGED disk /\ manifest' # None
        /\ pending[Field(p)][call[p].id] = None
    BY <1>9 DEF Published, In, TypeInv, CallShape, CallInv, disk
  <2>2. call[p].record # None
    BY <2>1, PublisherShape, NoneIsNothing DEF RecordsOf
  <2>3. Durable(Field(p), call[p].id, call[p].record.content)
    BY <2>1, <2>2 DEF CallInv
  <2> QED BY <2>1, <2>3, MoveSafe, QuietDisk
<1>10. CASE \/ RefuseInventory(p) \/ RejectAuthority(p) \/ RejectPending(p)
            \/ RecoveryRefused(p) \/ PublicationRefused(p) \/ RefusePublication(p)
            \/ RejectConflict(p) \/ RefuseReplay(p) \/ RejectLimit(p)
            \/ RejectUnknown(p) \/ RejectPin(p) \/ RefuseScope(p)
  <2>1. Reject(p, "refused") \/ Reject(p, "rejected")
    BY <1>10 DEF RefuseInventory, RejectAuthority, RejectPending, RecoveryRefused,
         PublicationRefused, RefusePublication, RejectConflict, RefuseReplay,
         RejectLimit, RejectUnknown, RejectPin, RefuseScope
  <2> QED BY <2>1, EndSafe DEF Reject, Leave, Ends
<1>11. CASE \/ ReturnAttempt(p) \/ ReturnTerminal(p) \/ ReturnScope(p)
            \/ ResumeAttempt(p) \/ LoadScope(p)
  <2>1. Ends(p)
    BY <1>11 DEF ReturnAttempt, ReturnTerminal, ReturnScope, ResumeAttempt, LoadScope,
         Leave, Ends
  <2> QED BY <2>1, EndSafe
<1> HIDE DEF Safe
<1> QED BY <1>1, <1>2, <1>3, <1>4, <1>5, <1>6, <1>7, <1>8, <1>9, <1>10, <1>11
        DEF Step, Safe

-----------------------------------------------------------------------------
(* What the ledger never has to refuse.                                    *)

LEMMA DeclaredMeansRegistered ==
  ASSUME DiskInv, NEW f \in Fields, NEW a \in AttemptIds,
         pending[f][a] # None \/ entries[f][a] # None
  PROVE  manifest # None
BY DEF DiskInv, Registered, NoFiles, NoRecords

\* An attempt that is durable passes the loader and the inventory check.
LEMMA DurableRegistered ==
  ASSUME TypeInv, DiskInv, NEW a \in AttemptIds, entries["attempts"][a] # None
  PROVE  AttemptRegistered(a)
<1>1. InventoryLoads
  BY DeclaredMeansRegistered, RegisteredLoads
<1> QED BY <1>1 DEF DiskInv, SlotInv, AttemptRegistered

\* There is room in the inventory for what has been declared.
LEMMA DeclaredFits ==
  ASSUME TypeInv, DiskInv, CapacityCovers, NEW f \in Fields, NEW a \in AttemptIds,
         pending[f][a] # None, entries[f][a] = None
  PROVE  Appendable(f, a)
<1> DEFINE A == Cardinality(Listed("attempts"))
           T == Cardinality(Listed("terminals"))
<1>1. A \in Nat /\ T \in Nat /\ MaxScopeAttempts \in Nat /\ InventoryCapacity \in Nat
  BY ListedFinite, ConstantsAssumption
<1>2. A <= MaxScopeAttempts /\ T <= A
  BY TerminalsBounded DEF DiskInv, Counted
<1>3. InventoryLoads
  BY DeclaredMeansRegistered, RegisteredLoads
<1>4. CASE f = "attempts"
  <2>1. A < MaxScopeAttempts
    BY <1>4 DEF DiskInv, RoomDeclared
  <2>2. A + T < InventoryCapacity
    <3> HIDE DEF A, T
    <3> QED BY <1>1, <1>2, <2>1 DEF CapacityCovers
  <2> QED BY <1>3, <1>4, <2>1, <2>2 DEF Appendable, Room
<1>5. CASE f = "terminals"
  <2>1. a \in Listed("attempts") /\ a \notin Listed("terminals")
    BY <1>5 DEF DiskInv, TerminalsFollow, Listed
  <2>2. T < A
    BY <2>1, TerminalsBounded
  <2>3. T < MaxScopeAttempts /\ A + T < InventoryCapacity
    <3> HIDE DEF A, T
    <3> QED BY <1>1, <1>2, <2>2 DEF CapacityCovers
  <2> QED BY <1>3, <1>5, <2>1, <2>3 DEF Appendable, Room
<1> QED BY <1>4, <1>5

\* Every intent on disk can be rolled forward, whatever was already written.
LEMMA IntentAccepted ==
  ASSUME TypeInv, DiskInv, CapacityCovers, NEW f \in Fields, NEW a \in AttemptIds,
         pending[f][a] # None
  PROVE  Reloads(f, a) /\ ~Contradicted(f, a)
<1>1. f = "terminals" => AttemptRegistered(a)
  BY DurableRegistered DEF DiskInv, TerminalsFollow
<1>2. Stored(pending[f][a])
  BY DEF DiskInv, SlotInv
<1>3. InventoryLoads
  BY DeclaredMeansRegistered, RegisteredLoads
<1>4. entries[f][a] = None => Appendable(f, a)
  BY DeclaredFits
<1>5. records[f][a] \in {None, pending[f][a]} /\ entries[f][a] \in {None, pending[f][a]}
  BY DEF DiskInv, SlotInv
<1> QED BY <1>1, <1>2, <1>3, <1>4, <1>5 DEF Reloads, Contradicted

LEMMA NoRefusal ==
  ASSUME TypeInv, DiskInv, CapacityCovers, NEW p \in Procs, CallInv(p)
  PROVE  /\ ~RefuseInventory(p) /\ ~RecoveryRefused(p) /\ ~PublicationRefused(p)
         /\ ~RefusePublication(p) /\ ~RefuseReplay(p) /\ ~RefuseScope(p)
         /\ RejectUnknown(p) => Reject(p, "rejected")
<1>1. ~RefuseInventory(p)
  <2> SUFFICES ASSUME manifest = None, inventoried
               PROVE  InventoryLoads /\ Listed("attempts") = {}
    BY DEF RefuseInventory, Unregistered
  <2>1. Listed("attempts") = {} /\ Listed("terminals") = {}
    BY DEF DiskInv, Registered, Listed, NoFiles, NoRecords
  <2> QED BY <2>1, FS_EmptySet, ConstantsAssumption DEF InventoryLoads, DiskInv, Counted
<1>2. ~RecoveryRefused(p)
  BY IntentAccepted DEF RecoveryRefused, Recovering
<1>3. ~PublicationRefused(p)
  BY IntentAccepted DEF PublicationRefused, Publishing
<1>4. ASSUME Recovered(p) PROVE NoPending /\ phase[p] = "recover" /\ InventoryLoads
  BY <1>4, RegisteredLoads DEF Recovered, In, CallInv
<1>5. ASSUME Recovered(p), Publishes(p), Target(p) # None
      PROVE  entries[Field(p)][call[p].id] = Target(p) /\ Stored(Target(p))
  BY <1>4, <1>5, NoAdoption
<1>6. ~RefusePublication(p)
  <2> SUFFICES ASSUME Recovered(p), Publishes(p) PROVE Admissible(p)
    BY <1>5 DEF RefusePublication
  <2>1. CASE Kind(p) = "begin"
    BY <1>4, <2>1 DEF Admissible
  <2>2. CASE Kind(p) = "finish"
    <3>1. /\ call[p].id \in AttemptIds
          /\ Durable("attempts", call[p].id, call[p].handle)
      BY <1>4, <2>2, PublisherShape DEF CallInv
    <3>2. AttemptRegistered(call[p].id)
      BY <3>1, DurableRegistered DEF Durable
    <3> QED BY <2>2, <3>1, <3>2 DEF Admissible, Durable
  <2> QED BY <2>1, <2>2 DEF Publishes
<1>7. ~RefuseReplay(p)
  BY <1>5 DEF RefuseReplay, Replayed, Undecided, Recovered
<1>8. ~RefuseScope(p)
  <2> SUFFICES ASSUME Recovered(p) PROVE ScopeLoads
    BY <1>4 DEF RefuseScope
  <2>1. \A f \in Fields, a \in AttemptIds :
          records[f][a] = entries[f][a] /\ (records[f][a] # None => Stored(records[f][a]))
    BY <1>4 DEF DiskInv, SlotInv, NoPending, NoFiles, NoRecords
  <2>2. records = entries
    BY <2>1 DEF TypeInv, TypeOK, FilesOK
  <2> QED BY <1>4, <2>1, <2>2 DEF ScopeLoads, Listed
<1>9. RejectUnknown(p) => Reject(p, "rejected")
  <2> SUFFICES ASSUME RejectUnknown(p)
               PROVE  /\ records["attempts"][call[p].id] = None
                      /\ entries["attempts"][call[p].id] = None
    BY DEF RejectUnknown
  <2>1. NoPending /\ call[p].id \in AttemptIds
    BY <1>4, CallFields DEF RejectUnknown, Kind, TypeInv, CallShape
  <2>2. entries["attempts"][call[p].id] = None
    BY <2>1, DurableRegistered DEF RejectUnknown
  <2> QED BY <2>1, <2>2 DEF DiskInv, SlotInv, NoPending, NoFiles, NoRecords
<1> QED BY <1>1, <1>2, <1>3, <1>6, <1>7, <1>8, <1>9

\* How a step of a call can change the answer its process has seen last.
LEMMA StepOutcome ==
  ASSUME TypeInv, NEW p \in Procs, Step(p)
  PROVE  \/ outcome' = outcome
         \/ outcome' = [outcome EXCEPT ![p] = "ok"]
         \/ outcome' = [outcome EXCEPT ![p] = "rejected"]
         \/ RefuseInventory(p) \/ RecoveryRefused(p) \/ PublicationRefused(p)
         \/ RefusePublication(p) \/ RefuseReplay(p) \/ RefuseScope(p)
         \/ RejectUnknown(p)
<1>1. CASE \/ CreateInventory(p) \/ CreateManifest(p) \/ Accept(p) \/ Replay(p)
           \/ Adopt(p) \/ StartPublication(p) \/ Declare(p) \/ Published(p)
  BY <1>1 DEF CreateInventory, CreateManifest, Accept, Replay, Adopt,
              StartPublication, Declare, Published, MoveTo
<1>2. CASE RollForward(p) \/ StoreEvidence(p)
  BY <1>2 DEF RollForward, WriteRecord, AppendEntry, ClearPending, StoreEvidence,
              Continue
<1>3. CASE \/ RejectAuthority(p) \/ RejectPending(p) \/ RejectConflict(p)
           \/ RejectLimit(p) \/ RejectPin(p)
  BY <1>3 DEF RejectAuthority, RejectPending, RejectConflict, RejectLimit, RejectPin,
              Reject, Leave
<1>4. CASE \/ ReturnAttempt(p) \/ ReturnTerminal(p) \/ ReturnScope(p)
           \/ ResumeAttempt(p) \/ LoadScope(p)
  BY <1>4 DEF ReturnAttempt, ReturnTerminal, ReturnScope, ResumeAttempt, LoadScope,
              Leave
<1> QED BY <1>1, <1>2, <1>3, <1>4 DEF Step

\* What a step of a call acknowledges is durable.
LEMMA StepAcknowledges ==
  ASSUME TypeInv, DiskInv, NEW p \in Procs, CallInv(p), Step(p)
  PROVE  /\ \A f \in Fields : \A t \in acked'[f] :
              t \in acked[f] \/ Durable(f, t[1], t[2])
         /\ \A q \in Procs : \A h \in handles'[q] :
              h \in handles[q] \/ Durable("attempts", h[1], h[2])
<1>1. CASE UNCHANGED <<acked, handles>>
  BY <1>1
<1>2. CASE ReturnAttempt(p)
  <2>1. /\ handles' = [handles EXCEPT ![p] =
                         @ \cup {<<call[p].id, call[p].record.content>>}]
        /\ acked' = [acked EXCEPT !["attempts"] =
                       @ \cup {<<call[p].id, call[p].record.content>>}]
    BY <1>2 DEF ReturnAttempt, Told
  <2>2. Durable("attempts", call[p].id, call[p].record.content)
    BY <1>2 DEF ReturnAttempt, In, CallInv, Publishes, Field
  <2> QED BY <2>1, <2>2 DEF TypeInv, TypeOK
<1>3. CASE ReturnTerminal(p)
  <2>1. /\ handles' = handles
        /\ acked' = [acked EXCEPT !["terminals"] =
                       @ \cup {<<call[p].id, call[p].record.content>>}]
    BY <1>3 DEF ReturnTerminal, Told
  <2>2. Durable("terminals", call[p].id, call[p].record.content)
    BY <1>3 DEF ReturnTerminal, In, CallInv, Publishes, Field
  <2> QED BY <2>1, <2>2 DEF TypeInv, TypeOK
<1>4. CASE ResumeAttempt(p)
  <2> DEFINE c == records["attempts"][call[p].id].content
  <2>1. /\ handles' = [handles EXCEPT ![p] = @ \cup {<<call[p].id, c>>}]
        /\ acked' = [acked EXCEPT !["attempts"] = @ \cup {<<call[p].id, c>>}]
    BY <1>4 DEF ResumeAttempt, Told
  <2>2. Durable("attempts", call[p].id, c)
    BY <1>4 DEF ResumeAttempt, AttemptRegistered, Durable
  <2> HIDE DEF c
  <2> QED BY <2>1, <2>2 DEF TypeInv, TypeOK
<1>5. CASE \/ CreateInventory(p) \/ CreateManifest(p) \/ Accept(p) \/ Replay(p)
           \/ Adopt(p) \/ StartPublication(p) \/ Declare(p) \/ Published(p)
           \/ RollForward(p) \/ StoreEvidence(p)
  <2>1. UNCHANGED <<acked, handles>>
    BY <1>5 DEF CreateInventory, CreateManifest, Accept, Replay, Adopt,
         StartPublication, Declare, Published, MoveTo, RollForward, WriteRecord,
         AppendEntry, ClearPending, StoreEvidence, Continue, history
  <2> QED BY <1>1, <2>1
<1>6. CASE \/ RefuseInventory(p) \/ RejectAuthority(p) \/ RejectPending(p)
           \/ RecoveryRefused(p) \/ PublicationRefused(p) \/ RefusePublication(p)
           \/ RejectConflict(p) \/ RefuseReplay(p) \/ RejectLimit(p)
           \/ RejectUnknown(p) \/ RejectPin(p) \/ RefuseScope(p)
           \/ ReturnScope(p) \/ LoadScope(p)
  <2>1. UNCHANGED <<acked, handles>>
    BY <1>6 DEF RefuseInventory, RejectAuthority, RejectPending, RecoveryRefused,
         PublicationRefused, RefusePublication, RejectConflict, RefuseReplay,
         RejectLimit, RejectUnknown, RejectPin, RefuseScope, Reject, ReturnScope,
         LoadScope, history
  <2> QED BY <1>1, <2>1
<1> QED BY <1>2, <1>3, <1>4, <1>5, <1>6 DEF Step

-----------------------------------------------------------------------------
(* The invariant is kept by every step, of a call or of the environment.   *)

LEMMA AcknowledgedStays ==
  ASSUME Intact, AckedDurable, Grows,
         \A f \in Fields : \A t \in acked'[f] : t \in acked[f] \/ Durable(f, t[1], t[2]),
         \A q \in Procs : \A h \in handles'[q] :
           h \in handles[q] \/ Durable("attempts", h[1], h[2]),
         TypeInv, TypeInv'
  PROVE  AckedDurable'
<1>1. ASSUME NEW f \in Fields, NEW t \in acked'[f] PROVE Durable(f, t[1], t[2])'
  <2>1. t[1] \in AttemptIds
    BY <1>1 DEF TypeInv, TypeOK
  <2>2. Durable(f, t[1], t[2])
    BY <1>1 DEF AckedDurable
  <2> QED BY <2>1, <2>2, DurableGrows
<1>2. ASSUME NEW q \in Procs, NEW h \in handles'[q]
      PROVE  Durable("attempts", h[1], h[2])'
  <2>1. h[1] \in AttemptIds
    BY <1>2 DEF TypeInv, TypeOK
  <2>2. Durable("attempts", h[1], h[2])
    BY <1>2 DEF AckedDurable
  <2> QED BY <2>1, <2>2, DurableGrows
<1> QED BY <1>1, <1>2 DEF AckedDurable

\* Only a loss changes the count of losses, and it leaves the scope damaged.
LEMMA StepKeepsLosses ==
  ASSUME NEW p \in Procs, Step(p)
  PROVE  losses' = losses
<1>1. CASE \/ CreateInventory(p) \/ CreateManifest(p) \/ Accept(p) \/ Replay(p)
           \/ Adopt(p) \/ StartPublication(p) \/ Declare(p) \/ Published(p)
           \/ RollForward(p) \/ StoreEvidence(p)
  BY <1>1 DEF CreateInventory, CreateManifest, Accept, Replay, Adopt,
       StartPublication, Declare, Published, MoveTo, RollForward, WriteRecord,
       AppendEntry, ClearPending, StoreEvidence, Continue, history
<1>2. CASE \/ RefuseInventory(p) \/ RejectAuthority(p) \/ RejectPending(p)
           \/ RecoveryRefused(p) \/ PublicationRefused(p) \/ RefusePublication(p)
           \/ RejectConflict(p) \/ RefuseReplay(p) \/ RejectLimit(p)
           \/ RejectUnknown(p) \/ RejectPin(p) \/ RefuseScope(p)
  BY <1>2 DEF RefuseInventory, RejectAuthority, RejectPending, RecoveryRefused,
       PublicationRefused, RefusePublication, RejectConflict, RefuseReplay,
       RejectLimit, RejectUnknown, RejectPin, RefuseScope, Reject, history
<1>3. CASE \/ ReturnAttempt(p) \/ ReturnTerminal(p) \/ ReturnScope(p)
           \/ ResumeAttempt(p) \/ LoadScope(p)
  BY <1>3 DEF ReturnAttempt, ReturnTerminal, ReturnScope, ResumeAttempt, LoadScope,
       history
<1> QED BY <1>1, <1>2, <1>3 DEF Step

\* A step of p leaves every other process where it was, outside any call.
LEMMA StepInside ==
  ASSUME TypeInv, NEW p \in Procs, Step(p)
  PROVE  /\ lock = p
         /\ \A q \in Procs : q # p => phase[q] = "idle" /\ phase'[q] = "idle"
<1>1. lock = p
  BY DEF Step, CreateInventory, CreateManifest, RefuseInventory, Unregistered,
     RejectAuthority, RejectPending, Accept, Checked, RollForward, WriteRecord,
     AppendEntry, ClearPending, Rolls, Recovering, Publishing, RecoveryRefused,
     PublicationRefused, RefusePublication, RejectConflict, Replay, Adopt, RefuseReplay,
     RejectLimit, StartPublication, Replayed, Undecided, Recovered, StoreEvidence,
     Declare, Published, ReturnAttempt, ReturnTerminal, ReturnScope, ResumeAttempt,
     RejectUnknown, LoadScope, RejectPin, RefuseScope, In
<1>2. ASSUME NEW q \in Procs, q # p PROVE phase[q] = "idle"
  BY <1>1, <1>2 DEF TypeInv, CallShape
<1>3. phase' = phase \/ \E at \in Phases : phase' = [phase EXCEPT ![p] = at]
  <2>1. CASE \/ CreateInventory(p) \/ CreateManifest(p) \/ Accept(p) \/ Replay(p)
             \/ Adopt(p) \/ StartPublication(p) \/ Declare(p) \/ Published(p)
             \/ RollForward(p) \/ StoreEvidence(p)
    BY <2>1 DEF CreateInventory, CreateManifest, Accept, Replay, Adopt,
         StartPublication, Declare, Published, MoveTo, RollForward, WriteRecord,
         AppendEntry, ClearPending, StoreEvidence, Continue
  <2>2. CASE \/ RefuseInventory(p) \/ RejectAuthority(p) \/ RejectPending(p)
             \/ RecoveryRefused(p) \/ PublicationRefused(p) \/ RefusePublication(p)
             \/ RejectConflict(p) \/ RefuseReplay(p) \/ RejectLimit(p)
             \/ RejectUnknown(p) \/ RejectPin(p) \/ RefuseScope(p)
    BY <2>2 DEF RefuseInventory, RejectAuthority, RejectPending, RecoveryRefused,
         PublicationRefused, RefusePublication, RejectConflict, RefuseReplay,
         RejectLimit, RejectUnknown, RejectPin, RefuseScope, Reject, Leave
  <2>3. CASE \/ ReturnAttempt(p) \/ ReturnTerminal(p) \/ ReturnScope(p)
             \/ ResumeAttempt(p) \/ LoadScope(p)
    BY <2>3 DEF ReturnAttempt, ReturnTerminal, ReturnScope, ResumeAttempt, LoadScope,
         Leave
  <2> QED BY <2>1, <2>2, <2>3 DEF Step
<1> QED BY <1>1, <1>2, <1>3 DEF TypeInv, TypeOK

\* Under an unchanged disk a call that stays where it is keeps what it knew.
LEMMA CallStays ==
  ASSUME UNCHANGED disk, NEW q \in Procs, CallInv(q),
         call'[q] = call[q], phase'[q] = phase[q]
  PROVE  CallInv(q)'
<1>1. /\ Kind(q)' = Kind(q) /\ Field(q)' = Field(q)
      /\ Publishes(q)' <=> Publishes(q)
  BY DEF Kind, Field, Publishes
<1>2. /\ NoPending' <=> NoPending
      /\ Listed("attempts")' = Listed("attempts")
      /\ \A f, a, c : Durable(f, a, c)' <=> Durable(f, a, c)
  BY DEF disk, Durable, Stored, NoPending, Listed
<1> QED BY <1>1, <1>2 DEF disk, CallInv

LEMMA CallingSafe ==
  ASSUME SafeInv, NEW p \in Procs, Calling(p)
  PROVE  SafeInv'
<1>1. TypeInv'
  BY CallingTypeInv DEF SafeInv
<1>2. /\ UNCHANGED <<disk, outcome, handles, history>>
      /\ lock = None /\ lock' = p
      /\ \A q \in Procs : q # p => call'[q] = call[q] /\ phase'[q] = phase[q]
  BY DEF Calling, Register, Begin, Finish, Resume, Load, Invoke, SafeInv, TypeInv, TypeOK
<1>3. Intact' <=> Intact
  BY <1>2 DEF Intact, history
<1>4. AckedDurable' /\ NeverRefused'
  BY <1>2, <1>3 DEF SafeInv, AckedDurable, NeverRefused, Durable, Stored, history, disk
<1>5. ASSUME Intact PROVE DiskInv' /\ \A q \in Procs : CallInv(q)'
  <2>1. DiskInv'
    BY <1>2, <1>5, QuietDisk DEF SafeInv
  <2>2. ASSUME NEW q \in Procs, q # p PROVE CallInv(q)'
    BY <1>2, <1>5, <2>2, CallStays DEF SafeInv
  <2>3. ASSUME phase'[p] = "enter", Kind(p)' # "finish" PROVE CallInv(p)'
    BY <2>3 DEF CallInv
  <2>4. CASE Finish(p)
    <3>1. PICK h \in handles[p], r \in TerminalRecords :
            Invoke(p, [kind |-> "finish", id |-> h[1], handle |-> h[2], record |-> r],
                   "recover")
      BY <2>4 DEF Finish
    <3>2. h[1] \in AttemptIds /\ Durable("attempts", h[1], h[2])
      BY <1>5 DEF SafeInv, AckedDurable, TypeInv, TypeOK
    <3>3. /\ call'[p] = [kind |-> "finish", id |-> h[1], handle |-> h[2], record |-> r]
          /\ phase'[p] = "recover"
      BY <3>1 DEF Invoke, SafeInv, TypeInv, TypeOK
    <3>4. manifest' # None
      BY <1>2, <1>5, <3>2, DeclaredMeansRegistered DEF SafeInv, Durable, disk
    <3>5. Durable("attempts", call[p].id, call[p].handle)'
      BY <1>2, <3>2, <3>3 DEF Durable, Stored, disk
    <3> QED BY <2>1, <2>2, <3>3, <3>4, <3>5 DEF CallInv
  <2>5. CASE Register(p) \/ Begin(p) \/ Resume(p) \/ Load(p)
    <3>1. phase'[p] = "enter" /\ Kind(p)' # "finish"
      BY <2>5 DEF Register, Begin, Resume, Load, Invoke, Kind, SafeInv, TypeInv, TypeOK
    <3> QED BY <2>1, <2>2, <2>3, <3>1
  <2> QED BY <2>4, <2>5 DEF Calling
<1> QED BY <1>1, <1>3, <1>4, <1>5 DEF SafeInv

LEMMA StepSafeInv ==
  ASSUME SafeInv, NEW p \in Procs, Step(p)
  PROVE  SafeInv'
<1>1. TypeInv /\ TypeInv'
  BY StepTypeInv DEF SafeInv
<1>2. Intact' <=> Intact
  BY StepKeepsLosses DEF Intact
<1>3. CASE ~Intact
  BY <1>1, <1>2, <1>3 DEF SafeInv, AckedDurable, NeverRefused
<1>4. CASE Intact
  <2>1. DiskInv /\ \A q \in Procs : CallInv(q)
    BY <1>4 DEF SafeInv
  <2>2. DiskInv' /\ Grows /\ CallInv(p)'
    BY <1>1, <2>1, StepSafe
  <2>3. ASSUME NEW q \in Procs, q # p PROVE CallInv(q)'
    BY <1>1, <2>3, StepInside, IdleCall
  <2>4. AckedDurable'
    <3>1. /\ \A f \in Fields : \A t \in acked'[f] :
               t \in acked[f] \/ Durable(f, t[1], t[2])
          /\ \A q \in Procs : \A h \in handles'[q] :
               h \in handles[q] \/ Durable("attempts", h[1], h[2])
      BY <1>1, <2>1, StepAcknowledges
    <3> QED BY <1>1, <1>4, <2>2, <3>1, AcknowledgedStays DEF SafeInv
  <2>5. NeverRefused'
    <3> SUFFICES ASSUME CapacityCovers, NEW q \in Procs PROVE outcome'[q] # "refused"
      BY DEF NeverRefused
    <3>1. outcome[q] # "refused" /\ outcome \in [Procs -> Outcomes]
      BY <1>1, <1>4 DEF SafeInv, NeverRefused, TypeInv, TypeOK
    <3>2. /\ ~RefuseInventory(p) /\ ~RecoveryRefused(p) /\ ~PublicationRefused(p)
          /\ ~RefusePublication(p) /\ ~RefuseReplay(p) /\ ~RefuseScope(p)
          /\ RejectUnknown(p) => Reject(p, "rejected")
      BY <1>1, <2>1, NoRefusal
    <3>3. \/ outcome' = outcome
          \/ outcome' = [outcome EXCEPT ![p] = "ok"]
          \/ outcome' = [outcome EXCEPT ![p] = "rejected"]
      BY <1>1, <3>2, StepOutcome DEF Reject, Leave
    <3> QED BY <3>1, <3>3
  <2> QED BY <1>1, <1>4, <2>2, <2>3, <2>4, <2>5 DEF SafeInv
<1> QED BY <1>3, <1>4

\* A kill or an OSError leaves the disk as it was.
LEMMA FaultSafe ==
  ASSUME SafeInv, NEW p \in Procs, Kill(p) \/ WriteFails(p)
  PROVE  SafeInv'
<1>1. TypeInv'
  BY FaultTypeInv DEF SafeInv
<1>2. /\ UNCHANGED <<disk, acked, losses>>
      /\ phase'[p] = "idle"
      /\ \A q \in Procs : q # p => call'[q] = call[q] /\ phase'[q] = phase[q]
      /\ \A q \in Procs : handles'[q] \subseteq handles[q]
      /\ \A q \in Procs : outcome'[q] \in {outcome[q], "none", "fault"}
  BY DEF Kill, WriteFails, Leave, SafeInv, TypeInv, TypeOK
<1>3. Intact' <=> Intact
  BY <1>2 DEF Intact
<1>4. AckedDurable'
  BY <1>2, <1>3 DEF SafeInv, AckedDurable, Durable, Stored, disk
<1>5. NeverRefused'
  BY <1>2, <1>3 DEF SafeInv, NeverRefused
<1>6. ASSUME Intact PROVE DiskInv' /\ \A q \in Procs : CallInv(q)'
  <2>1. DiskInv'
    BY <1>2, <1>6, QuietDisk DEF SafeInv
  <2>2. CallInv(p)'
    BY <1>2, IdleCall
  <2>3. ASSUME NEW q \in Procs, q # p PROVE CallInv(q)'
    BY <1>2, <1>6, <2>3, CallStays DEF SafeInv
  <2> QED BY <2>1, <2>2, <2>3
<1> QED BY <1>1, <1>3, <1>4, <1>5, <1>6 DEF SafeInv

\* After a loss nothing is claimed any more.
LEMMA LossSafe ==
  ASSUME SafeInv, Lose
  PROVE  SafeInv'
<1>1. TypeInv'
  BY LossTypeInv DEF SafeInv
<1>2. ~Intact'
  BY DEF Lose, Intact, SafeInv, TypeInv, TypeOK
<1> QED BY <1>1, <1>2 DEF SafeInv, AckedDurable, NeverRefused

LEMMA StutterSafe ==
  ASSUME SafeInv, UNCHANGED vars
  PROVE  SafeInv'
<1>1. TypeInv'
  BY NextTypeInv DEF SafeInv
<1>2. UNCHANGED disk /\ (Intact' <=> Intact)
  BY DEF vars, disk, Intact
<1>3. AckedDurable' /\ NeverRefused'
  BY <1>2 DEF vars, SafeInv, AckedDurable, NeverRefused, Durable, Stored
<1>4. ASSUME Intact PROVE DiskInv' /\ \A q \in Procs : CallInv(q)'
  <2>1. UNCHANGED <<call, phase>>
    BY DEF vars
  <2> QED BY <1>2, <1>4, <2>1, QuietDisk, CallStays DEF SafeInv
<1> QED BY <1>1, <1>2, <1>3, <1>4 DEF SafeInv

LEMMA NextSafeInv == SafeInv /\ [Next]_vars => SafeInv'
<1> SUFFICES ASSUME SafeInv, [Next]_vars PROVE SafeInv'
  OBVIOUS
<1>1. ASSUME NEW p \in Procs, Calling(p) \/ Step(p) \/ Kill(p) \/ WriteFails(p)
      PROVE  SafeInv'
  BY <1>1, CallingSafe, StepSafeInv, FaultSafe
<1>2. CASE Lose
  BY <1>2, LossSafe
<1>3. CASE UNCHANGED vars
  BY <1>3, StutterSafe
<1> QED BY <1>1, <1>2, <1>3 DEF Next

LEMMA SafeInvariant == Spec => []SafeInv
BY InitSafeInv, NextSafeInv, PTL DEF Spec

-----------------------------------------------------------------------------
(* The theorems.                                                           *)

\* What a caller was told is durable stays durable, with its evidence and its
\* inventory entry, and a handle is only held for a durable attempt.
THEOREM AcknowledgedIsDurable == Spec => []AckedDurable
<1>1. SafeInv => AckedDurable
  BY DEF SafeInv
<1> QED BY <1>1, SafeInvariant, PTL

\* Two callers are never told different contents for one attempt or terminal.
THEOREM AcknowledgementsAgree == Spec => []AckAgreement
<1>1. AckedDurable /\ TypeInv => AckAgreement
  <2> SUFFICES ASSUME AckedDurable, TypeInv, Intact, NEW f \in Fields,
                      NEW s \in acked[f], NEW t \in acked[f], s[1] = t[1]
               PROVE  s = t
    BY DEF AckAgreement
  <2>1. s[2] = t[2]
    BY DEF AckedDurable, Durable
  <2>2. s \in AttemptIds \X Contents /\ t \in AttemptIds \X Contents
    BY DEF TypeInv, TypeOK
  <2> QED BY <2>1, <2>2
<1>2. SafeInv => AckedDurable /\ TypeInv
  BY DEF SafeInv
<1> QED BY <1>1, <1>2, SafeInvariant, PTL

\* The inventory and the files agree up to the one intent that is on disk, and
\* evidence precedes the records that cite it.
THEOREM JournalIsConsistent == Spec => []JournalConsistent
<1>1. SafeInv => JournalConsistent
  <2> SUFFICES ASSUME SafeInv, Intact PROVE JournalConsistent
    BY DEF JournalConsistent
  <2>1. DiskInv
    BY DEF SafeInv
  <2>2. ASSUME NEW a \in AttemptIds, records["terminals"][a] # None
        PROVE  entries["attempts"][a] # None
    BY <2>1, <2>2 DEF DiskInv, SlotInv, TerminalsFollow
  <2> QED BY <2>1, <2>2 DEF DiskInv, SlotInv, OneIntent, JournalConsistent
<1> QED BY <1>1, SafeInvariant, PTL

\* With an inventory that can hold two entries per admitted attempt, the intent
\* of every interrupted publication is accepted by the recovery that finds it.
THEOREM IntentsRollForward ==
  ASSUME CapacityCovers
  PROVE  Spec => []PendingRollsForward
<1>1. SafeInv => PendingRollsForward
  BY IntentAccepted DEF SafeInv, PendingRollsForward
<1> QED BY <1>1, SafeInvariant, PTL

\* And then no crash and no interleaving makes the ledger refuse its own state.
THEOREM IntactNeverRefused == Spec => []NeverRefused
<1>1. SafeInv => NeverRefused
  BY DEF SafeInv
<1> QED BY <1>1, SafeInvariant, PTL

\* Published records and inventory entries are never rewritten nor removed.
THEOREM PublishedIsImmutable == Spec => Immutable
<1>1. SafeInv /\ [Next]_vars => [Intact' => Grows]_vars
  <2> SUFFICES ASSUME SafeInv, Next, Intact' PROVE Grows
    BY DEF vars
  <2>1. ASSUME NEW p \in Procs, Step(p) PROVE Grows
    <3>1. Intact
      BY <2>1, StepKeepsLosses DEF Intact
    <3> QED BY <2>1, <3>1, StepSafe DEF SafeInv
  <2>2. ASSUME NEW p \in Procs, Calling(p) \/ Kill(p) \/ WriteFails(p) PROVE Grows
    <3>1. UNCHANGED disk
      BY <2>2 DEF Calling, Register, Begin, Finish, Resume, Load, Invoke, Kill, WriteFails
    <3> QED BY <3>1 DEF Grows, disk
  <2>3. CASE Lose
    BY <2>3 DEF Lose, Intact, SafeInv, TypeInv, TypeOK
  <2> QED BY <2>1, <2>2, <2>3 DEF Next
<1>2. [Intact' => Grows]_vars =>
        [Intact' => \A f \in Fields, a \in AttemptIds :
           /\ records[f][a] # None => records'[f][a] = records[f][a]
           /\ entries[f][a] # None => entries'[f][a] = entries[f][a]]_vars
  BY DEF Grows
<1> QED BY <1>1, <1>2, SafeInvariant, PTL DEF Spec, Immutable

-----------------------------------------------------------------------------
(* When files are lost.  What a process inside a call has made sure of     *)
(* does not depend on them, since nothing is lost during a call.  What     *)
(* survives of an acknowledgement is its inventory entry, or its record,   *)
(* or neither: and then the inventory is gone for good.                    *)

Held(f, a, c) == entries[f][a] # None /\ entries[f][a].content = c

Kept(f, a, c) ==
  /\ records[f][a] # None /\ records[f][a].content = c
  /\ entries[f][a] \in {None, records[f][a]}

Sure(p) ==
  /\ phase[p] = "recover" /\ PinnedLoad(p) => NoPending
  /\ phase[p] \in {"publish", "return"} /\ Publishes(p) =>
       \/ /\ Held(Field(p), call[p].id, call[p].record.content)
          /\ Kept(Field(p), call[p].id, call[p].record.content)
       \/ phase[p] = "publish" /\ pending[Field(p)][call[p].id] = call[p].record

SureInv == TypeInv /\ \A p \in Procs : Sure(p)

AllHeld == \A f \in Fields : \A t \in acked[f] : Held(f, t[1], t[2])
AllKept == \A f \in Fields : \A t \in acked[f] : Kept(f, t[1], t[2])

Damage ==
  \/ AllHeld /\ AllKept
  \/ AllKept /\ (losses = 2 \/ (~inventoried /\ manifest # None))
  \/ AllHeld /\ (losses = 2 \/ manifest # None)
  \/ losses = 2 /\ ~inventoried /\ manifest # None

\* What a call does to the disk never takes an entry or a record back.
OnlyAdds ==
  /\ \A f \in Fields, a \in AttemptIds :
       /\ records[f][a] # None => records'[f][a] = records[f][a]
       /\ entries'[f][a] \in {entries[f][a], records'[f][a]}
       /\ entries[f][a] # None => entries'[f][a] = entries[f][a]
  /\ manifest # None => manifest' # None /\ inventoried' = inventoried

LEMMA QuietAdds == UNCHANGED disk => OnlyAdds
BY DEF disk, OnlyAdds

LEMMA RollForwardAdds ==
  ASSUME TypeInv, NEW p \in Procs, NEW f \in Fields, NEW a \in AttemptIds,
         WriteRecord(p, f, a) \/ AppendEntry(p, f, a) \/ ClearPending(p, f, a)
  PROVE  OnlyAdds
<1>1. CASE WriteRecord(p, f, a)
  <2>1. /\ records[f][a] = None
        /\ records' = [records EXCEPT ![f][a] = pending[f][a]]
        /\ UNCHANGED <<manifest, inventoried, entries>>
    BY <1>1 DEF WriteRecord, inventory
  <2> QED BY <2>1 DEF OnlyAdds, TypeInv, TypeOK, FilesOK
<1>2. CASE AppendEntry(p, f, a)
  <2>1. /\ records[f][a] = pending[f][a] /\ entries[f][a] = None
        /\ entries' = [entries EXCEPT ![f][a] = pending[f][a]]
        /\ UNCHANGED <<manifest, inventoried, records>>
    BY <1>2 DEF AppendEntry, Append
  <2> QED BY <2>1 DEF OnlyAdds, TypeInv, TypeOK, FilesOK
<1>3. CASE ClearPending(p, f, a)
  BY <1>3 DEF ClearPending, inventory, OnlyAdds
<1> QED BY <1>1, <1>2, <1>3

LEMMA AdoptAdds ==
  ASSUME TypeInv, NEW p \in Procs, Adopt(p)
  PROVE  OnlyAdds
<1>1. /\ entries[Field(p)][call[p].id] = None
      /\ entries' = [entries EXCEPT ![Field(p)][call[p].id] = records[Field(p)][call[p].id]]
      /\ UNCHANGED <<manifest, inventoried, records>>
  BY DEF Adopt, Append, Target
<1> QED BY <1>1 DEF OnlyAdds, TypeInv, TypeOK, FilesOK

LEMMA StepAdds ==
  ASSUME TypeInv, NEW p \in Procs, Step(p)
  PROVE  OnlyAdds
<1>1. CASE CreateInventory(p)
  BY <1>1 DEF CreateInventory, Unregistered, OnlyAdds
<1>2. CASE CreateManifest(p)
  BY <1>2 DEF CreateManifest, Unregistered, inventory, OnlyAdds
<1>3. CASE RollForward(p)
  BY <1>3, RollForwardAdds DEF RollForward
<1>4. CASE Adopt(p)
  BY <1>4, AdoptAdds
<1>5. CASE StoreEvidence(p)
  BY <1>5 DEF StoreEvidence, inventory, OnlyAdds
<1>6. CASE Declare(p)
  BY <1>6 DEF Declare, inventory, OnlyAdds
<1>7. CASE \/ Accept(p) \/ Replay(p) \/ StartPublication(p) \/ Published(p)
           \/ ReturnAttempt(p) \/ ReturnTerminal(p) \/ ReturnScope(p)
           \/ ResumeAttempt(p) \/ LoadScope(p)
  <2>1. UNCHANGED disk
    BY <1>7 DEF Accept, Replay, StartPublication, Published, ReturnAttempt,
         ReturnTerminal, ReturnScope, ResumeAttempt, LoadScope
  <2> QED BY <2>1, QuietAdds
<1>8. CASE \/ RefuseInventory(p) \/ RejectAuthority(p) \/ RejectPending(p)
           \/ RecoveryRefused(p) \/ PublicationRefused(p) \/ RefusePublication(p)
           \/ RejectConflict(p) \/ RefuseReplay(p) \/ RejectLimit(p)
           \/ RejectUnknown(p) \/ RejectPin(p) \/ RefuseScope(p)
  <2>1. UNCHANGED disk
    BY <1>8 DEF RefuseInventory, RejectAuthority, RejectPending, RecoveryRefused,
         PublicationRefused, RefusePublication, RejectConflict, RefuseReplay,
         RejectLimit, RejectUnknown, RejectPin, RefuseScope, Reject
  <2> QED BY <2>1, QuietAdds
<1> QED BY <1>1, <1>2, <1>3, <1>4, <1>5, <1>6, <1>7, <1>8 DEF Step

LEMMA AddsKeeps ==
  ASSUME OnlyAdds, NEW f \in Fields, NEW a \in AttemptIds, NEW c
  PROVE  /\ Held(f, a, c) => Held(f, a, c)'
         /\ Kept(f, a, c) => Kept(f, a, c)'
BY DEF OnlyAdds, Held, Kept

\* What p was sure of stays true while it stays where it is and only adds.
LEMMA SureStays ==
  ASSUME TypeInv, NEW p \in Procs, Sure(p), OnlyAdds,
         call'[p] = call[p], phase'[p] = phase[p],
         phase[p] # "idle" =>
           pending' = pending \/ (phase[p] = "recover" /\ ~NoPending)
  PROVE  Sure(p)'
<1>1. /\ Kind(p)' = Kind(p) /\ Field(p)' = Field(p)
      /\ Publishes(p)' <=> Publishes(p)
      /\ PinnedLoad(p)' <=> PinnedLoad(p)
  BY DEF Kind, Field, Publishes, PinnedLoad
<1>2. CASE phase[p] = "recover"
  BY <1>1, <1>2 DEF Sure, NoPending
<1>3. CASE phase[p] \in {"publish", "return"} /\ Publishes(p)
  <2>1. Field(p) \in Fields /\ call[p].id \in AttemptIds
    BY <1>3, PublisherShape
  <2>2. pending' = pending
    BY <1>3
  <2>3. CASE /\ Held(Field(p), call[p].id, call[p].record.content)
             /\ Kept(Field(p), call[p].id, call[p].record.content)
    <3>1. /\ Held(Field(p), call[p].id, call[p].record.content)'
          /\ Kept(Field(p), call[p].id, call[p].record.content)'
      <4> DEFINE f == Field(p)  a == call[p].id  c == call[p].record.content
      <4>1. Held(f, a, c)' /\ Kept(f, a, c)'
        BY <1>1, <2>1, <2>3 DEF OnlyAdds, Held, Kept
      <4> QED BY <4>1
    <3> QED BY <1>3, <3>1 DEF Sure
  <2>4. CASE phase[p] = "publish" /\ pending[Field(p)][call[p].id] = call[p].record
    BY <1>1, <1>3, <2>2, <2>4 DEF Sure
  <2> QED BY <1>3, <2>3, <2>4 DEF Sure
<1>4. CASE /\ phase[p] # "recover"
           /\ ~(phase[p] \in {"publish", "return"} /\ Publishes(p))
  BY <1>1, <1>4 DEF Sure
<1> QED BY <1>2, <1>3, <1>4


\* A step of p itself: the rest of the call knows what the step has found out.
LEMMA MovesSure ==
  ASSUME TypeInv, NEW p \in Procs, NEW at \in Phases, MoveTo(p, at),
         at = "recover" /\ PinnedLoad(p) => NoPending',
         at = "publish" \/ (at = "return" /\ Publishes(p)) =>
           \/ /\ Held(Field(p), call[p].id, call[p].record.content)'
              /\ Kept(Field(p), call[p].id, call[p].record.content)'
           \/ at = "publish" /\ pending'[Field(p)][call[p].id] = call[p].record
  PROVE  Sure(p)'
<1>1. /\ Kind(p)' = Kind(p) /\ Field(p)' = Field(p) /\ call' = call
      /\ Publishes(p)' <=> Publishes(p)
      /\ PinnedLoad(p)' <=> PinnedLoad(p)
      /\ phase'[p] = at
  BY DEF MoveTo, Kind, Field, Publishes, PinnedLoad, TypeInv, TypeOK
<1>2. CASE at \notin {"publish", "return"} \/ ~Publishes(p)
  BY <1>1, <1>2 DEF Sure
<1>3. CASE at \in {"publish", "return"} /\ Publishes(p)
  <2>1. CASE /\ Held(Field(p), call[p].id, call[p].record.content)'
             /\ Kept(Field(p), call[p].id, call[p].record.content)'
    BY <1>1, <1>3, <2>1 DEF Sure
  <2>2. CASE at = "publish" /\ pending'[Field(p)][call[p].id] = call[p].record
    BY <1>1, <1>3, <2>2 DEF Sure
  <2> QED BY <1>3, <2>1, <2>2
<1> QED BY <1>2, <1>3

LEMMA RollForwardSure ==
  ASSUME SureInv, NEW p \in Procs, NEW f \in Fields, NEW a \in AttemptIds,
         WriteRecord(p, f, a) \/ AppendEntry(p, f, a) \/ ClearPending(p, f, a)
  PROVE  Sure(p)'
<1>1. /\ OnlyAdds /\ TypeInv /\ Sure(p)
      /\ call' = call /\ phase' = phase
  BY RollForwardAdds DEF SureInv, WriteRecord, AppendEntry, ClearPending, Continue
<1>2. Rolls(p, f, a)
  BY DEF WriteRecord, AppendEntry, ClearPending
<1>3. CASE phase[p] = "recover"
  <2>1. pending[f][a] # None
    BY <1>2 DEF Rolls, Recovering, Publishing
  <2>2. ~NoPending
    BY <2>1 DEF NoPending, NoFiles, NoRecords
  <2> QED BY <1>1, <1>3, <2>2, SureStays
<1>4. CASE Publishing(p, f, a) /\ ClearPending(p, f, a)
  <2>1. /\ phase[p] = "publish" /\ f = Field(p) /\ a = call[p].id
        /\ pending[f][a] # None
        /\ records[f][a] = pending[f][a] /\ entries[f][a] = pending[f][a]
        /\ records' = records /\ entries' = entries
    BY <1>4 DEF Publishing, In, ClearPending, inventory
  <2>2. Publishes(p)
    BY <1>1, <2>1 DEF TypeInv, CallShape
  <2>3. /\ Held(f, a, call[p].record.content)
        /\ Kept(f, a, call[p].record.content)
    <3>1. CASE pending[f][a] = call[p].record
      BY <2>1, <3>1 DEF Held, Kept
    <3>2. CASE pending[f][a] # call[p].record
      BY <1>1, <2>1, <2>2, <3>2 DEF Sure
    <3> QED BY <3>1, <3>2
  <2>4. /\ Kind(p)' = Kind(p) /\ Field(p)' = Field(p)
        /\ call'[p] = call[p] /\ phase'[p] = "publish"
    BY <1>1, <2>1 DEF Kind, Field
  <2>5. /\ Held(Field(p), call[p].id, call[p].record.content)'
        /\ Kept(Field(p), call[p].id, call[p].record.content)'
    BY <2>1, <2>3, <2>4 DEF Held, Kept
  <2> QED BY <2>4, <2>5 DEF Sure
<1>5. CASE WriteRecord(p, f, a) \/ AppendEntry(p, f, a)
  <2>1. pending' = pending
    BY <1>5 DEF WriteRecord, AppendEntry, Append
  <2> QED BY <1>1, <2>1, SureStays
<1>6. phase[p] = "recover" \/ Publishing(p, f, a)
  BY <1>2 DEF Rolls, Recovering, In
<1> QED BY <1>3, <1>4, <1>5, <1>6

\* A replay finds its record, and has it in the inventory.
LEMMA ReplaySure ==
  ASSUME SureInv, NEW p \in Procs, Replay(p) \/ Adopt(p)
  PROVE  Sure(p)'
<1>1. /\ TypeInv /\ phase[p] = "recover" /\ Publishes(p) /\ MoveTo(p, "return")
      /\ Target(p) # None /\ Target(p).content = call[p].record.content
  BY DEF SureInv, Replay, Adopt, Replayed, Undecided, Recovered, In, SameContent
<1>2. Field(p) \in Fields /\ call[p].id \in AttemptIds
  BY <1>1, PublisherShape
<1>3. /\ records'[Field(p)][call[p].id] = Target(p)
      /\ entries'[Field(p)][call[p].id] = Target(p)
  BY <1>1, <1>2 DEF Replay, Adopt, Append, Target, disk, TypeInv, TypeOK, FilesOK
<1>4. call' = call /\ Field(p)' = Field(p)
  BY <1>1 DEF MoveTo, Field, Kind
<1>5. /\ Held(Field(p), call[p].id, call[p].record.content)'
      /\ Kept(Field(p), call[p].id, call[p].record.content)'
  BY <1>1, <1>3, <1>4 DEF Held, Kept
<1> QED BY <1>1, <1>5, MovesSure

LEMMA LeftSure ==
  ASSUME NEW p \in Procs, phase'[p] = "idle"
  PROVE  Sure(p)'
BY DEF Sure

LEMMA StepSure ==
  ASSUME SureInv, NEW p \in Procs, Step(p)
  PROVE  SureInv'
<1>1. TypeInv /\ Sure(p) /\ OnlyAdds
  BY StepAdds DEF SureInv
<1>2. Sure(p)'
  <2>1. CASE RollForward(p)
    BY <2>1, RollForwardSure DEF RollForward
  <2>2. CASE Replay(p) \/ Adopt(p)
    BY <2>2, ReplaySure
  <2>3. CASE CreateInventory(p)
    <3>1. MoveTo(p, "enter")
      BY <2>3 DEF CreateInventory
    <3> QED BY <1>1, <3>1, MovesSure
  <2>4. CASE CreateManifest(p)
    <3>1. MoveTo(p, "return") /\ ~Publishes(p)
      BY <2>4 DEF CreateManifest, Unregistered, Publishes
    <3> QED BY <1>1, <3>1, MovesSure
  <2>5. CASE Accept(p)
    <3>1. /\ MoveTo(p, "recover") /\ (PinnedLoad(p) => NoPending)
          /\ pending' = pending
      BY <2>5 DEF Accept, disk
    <3>2. PinnedLoad(p) => NoPending'
      BY <3>1 DEF NoPending
    <3> QED BY <1>1, <3>1, <3>2, MovesSure
  <2>6. CASE StartPublication(p)
    <3>1. MoveTo(p, "store")
      BY <2>6 DEF StartPublication
    <3> QED BY <1>1, <3>1, MovesSure
  <2>7. CASE StoreEvidence(p)
    <3>1. pending' = pending /\ call' = call /\ phase' = phase
      BY <2>7 DEF StoreEvidence, Continue
    <3> QED BY <1>1, <3>1, SureStays
  <2>8. CASE Declare(p)
    <3>1. /\ MoveTo(p, "publish") /\ phase[p] = "store"
          /\ pending' = [pending EXCEPT ![Field(p)][call[p].id] = call[p].record]
      BY <2>8 DEF Declare, In
    <3>2. Field(p) \in Fields /\ call[p].id \in AttemptIds
      BY <1>1, <3>1, PublisherShape DEF TypeInv, CallShape
    <3>3. pending'[Field(p)][call[p].id] = call[p].record
      BY <1>1, <3>1, <3>2 DEF TypeInv, TypeOK, FilesOK
    <3> QED BY <1>1, <3>1, <3>3, MovesSure
  <2>9. CASE Published(p)
    <3>1. /\ MoveTo(p, "return") /\ phase[p] = "publish" /\ UNCHANGED disk
          /\ pending[Field(p)][call[p].id] = None
      BY <2>9 DEF Published, In
    <3>2. Publishes(p)
      BY <1>1, <3>1 DEF TypeInv, CallShape
    <3>3. /\ Field(p) \in Fields /\ call[p].id \in AttemptIds
          /\ call[p].record \in RecordsOf(Field(p))
      BY <1>1, <3>1, <3>2, PublisherShape
    <3>4. call[p].record # None
      BY <3>3, NoneIsNothing DEF RecordsOf
    <3>5. /\ Held(Field(p), call[p].id, call[p].record.content)
          /\ Kept(Field(p), call[p].id, call[p].record.content)
      BY <1>1, <3>1, <3>2, <3>4 DEF Sure
    <3>6. call' = call /\ Field(p)' = Field(p)
      BY <3>1 DEF MoveTo, Field, Kind
    <3>7. /\ Held(Field(p), call[p].id, call[p].record.content)'
          /\ Kept(Field(p), call[p].id, call[p].record.content)'
      BY <3>1, <3>5, <3>6 DEF Held, Kept, disk
    <3> QED BY <1>1, <3>1, <3>7, MovesSure
  <2>10. CASE \/ ReturnAttempt(p) \/ ReturnTerminal(p) \/ ReturnScope(p)
              \/ ResumeAttempt(p) \/ LoadScope(p)
    <3>1. phase'[p] = "idle"
      BY <1>1, <2>10 DEF ReturnAttempt, ReturnTerminal, ReturnScope, ResumeAttempt,
           LoadScope, Leave, TypeInv, TypeOK
    <3> QED BY <3>1, LeftSure
  <2>11. CASE \/ RefuseInventory(p) \/ RejectAuthority(p) \/ RejectPending(p)
              \/ RecoveryRefused(p) \/ PublicationRefused(p) \/ RefusePublication(p)
              \/ RejectConflict(p) \/ RefuseReplay(p) \/ RejectLimit(p)
              \/ RejectUnknown(p) \/ RejectPin(p) \/ RefuseScope(p)
    <3>1. phase'[p] = "idle"
      BY <1>1, <2>11 DEF RefuseInventory, RejectAuthority, RejectPending,
           RecoveryRefused, PublicationRefused, RefusePublication, RejectConflict,
           RefuseReplay, RejectLimit, RejectUnknown, RejectPin, RefuseScope, Reject,
           Leave, TypeInv, TypeOK
    <3> QED BY <3>1, LeftSure
  <2> QED BY <2>1, <2>2, <2>3, <2>4, <2>5, <2>6, <2>7, <2>8, <2>9, <2>10, <2>11
          DEF Step
<1>3. ASSUME NEW q \in Procs, q # p PROVE Sure(q)'
  BY <1>1, <1>3, StepInside, LeftSure
<1>4. TypeInv'
  BY <1>1, StepTypeInv
<1> QED BY <1>2, <1>3, <1>4 DEF SureInv

LEMMA NextSure == SureInv /\ [Next]_vars => SureInv'
<1> SUFFICES ASSUME SureInv, [Next]_vars PROVE SureInv'
  OBVIOUS
<1>1. TypeInv /\ TypeInv'
  BY NextTypeInv DEF SureInv
<1>2. ASSUME NEW p \in Procs, Step(p) PROVE SureInv'
  BY <1>2, StepSure
<1>3. ASSUME NEW p \in Procs, Calling(p) PROVE \A q \in Procs : Sure(q)'
  <2>1. ASSUME NEW q \in Procs, q # p PROVE phase'[q] = "idle"
    <3>1. lock' = p
      BY <1>3 DEF Calling, Register, Begin, Finish, Resume, Load, Invoke
    <3> QED BY <1>1, <2>1, <3>1 DEF TypeInv, CallShape, TypeOK
  <2>2. Sure(p)'
    <3>1. CASE phase'[p] = "enter"
      BY <3>1 DEF Sure
    <3>2. CASE Finish(p)
      <4>1. PICK h \in handles[p], r \in TerminalRecords :
              Invoke(p, [kind |-> "finish", id |-> h[1], handle |-> h[2],
                         record |-> r], "recover")
        BY <3>2 DEF Finish
      <4>2. phase'[p] = "recover" /\ Kind(p)' = "finish"
        BY <1>1, <4>1 DEF Invoke, Kind, TypeInv, TypeOK
      <4> QED BY <4>2 DEF Sure, PinnedLoad
    <3>3. Finish(p) \/ phase'[p] = "enter"
      BY <1>1, <1>3 DEF Calling, Register, Begin, Resume, Load, Invoke, TypeInv, TypeOK
    <3> QED BY <3>1, <3>2, <3>3
  <2> QED BY <2>1, <2>2, LeftSure
<1>4. ASSUME NEW p \in Procs, Kill(p) \/ WriteFails(p) PROVE \A q \in Procs : Sure(q)'
  <2>1. /\ UNCHANGED disk /\ phase'[p] = "idle"
        /\ \A q \in Procs : q # p => call'[q] = call[q] /\ phase'[q] = phase[q]
    BY <1>1, <1>4 DEF Kill, WriteFails, Leave, TypeInv, TypeOK
  <2>2. OnlyAdds /\ pending' = pending
    BY <2>1, QuietAdds DEF disk
  <2>3. ASSUME NEW q \in Procs, q # p PROVE Sure(q)'
    BY <1>1, <2>1, <2>2, <2>3, SureStays DEF SureInv
  <2> QED BY <2>1, <2>3, LeftSure
<1>5. CASE Lose
  <2>1. \A q \in Procs : phase'[q] = "idle"
    BY <1>1, <1>5, NoneIsNothing DEF Lose, TypeInv, TypeOK, CallShape
  <2> QED BY <1>1, <2>1, LeftSure DEF SureInv
<1>6. CASE UNCHANGED vars
  <2>1. OnlyAdds /\ pending' = pending /\ call' = call /\ phase' = phase
    BY <1>6, QuietAdds DEF vars, disk
  <2>2. \A q \in Procs : Sure(q)'
    BY <1>1, <2>1, SureStays DEF SureInv
  <2> QED BY <1>1, <2>2 DEF SureInv
<1> QED BY <1>1, <1>2, <1>3, <1>4, <1>5, <1>6 DEF Next, SureInv

LEMMA SureInvariant == Spec => []SureInv
<1>1. Init => SureInv
  BY InitTypeInv DEF Init, SureInv, Sure
<1> QED BY <1>1, NextSure, PTL DEF Spec

\* A load that pins a snapshot writes nothing, whatever it finds and whatever was lost:
\* it is only let in when there is no intent to roll forward ("pinned" in load_scope).
THEOREM PinnedLoadWritesNothing == Spec => PinnedLoadReadsOnly
<1>1. SureInv /\ [Next]_vars =>
        [\A p \in Procs : lock = p /\ PinnedLoad(p) => UNCHANGED disk]_vars
  <2> SUFFICES ASSUME SureInv, Next, NEW p \in Procs, lock = p, PinnedLoad(p)
               PROVE  UNCHANGED disk
    BY DEF vars
  <2>1. ASSUME NEW q \in Procs, Step(q) PROVE UNCHANGED disk
    <3>1. q = p /\ Kind(p) = "load" /\ ~Publishes(p) /\ TypeInv
      BY <2>1, StepInside DEF SureInv, PinnedLoad, Publishes
    <3>2. phase[p] \notin {"store", "publish"} /\ (phase[p] = "recover" => NoPending)
      BY <3>1 DEF SureInv, TypeInv, CallShape, Sure
    <3>3. \A f \in Fields, a \in AttemptIds : ~Rolls(p, f, a)
      BY <3>2 DEF Rolls, Recovering, Publishing, In, NoPending, NoFiles, NoRecords
    <3>4. ~RollForward(p)
      BY <3>3 DEF RollForward, WriteRecord, AppendEntry, ClearPending
    <3>5. /\ ~CreateInventory(p) /\ ~CreateManifest(p) /\ ~Adopt(p)
          /\ ~StoreEvidence(p) /\ ~Declare(p)
      BY <3>1, <3>2 DEF CreateInventory, CreateManifest, Unregistered, Adopt, Replayed,
         Undecided, StoreEvidence, Declare, In
    <3>6. CASE \/ Accept(p) \/ Replay(p) \/ StartPublication(p) \/ Published(p)
               \/ ReturnAttempt(p) \/ ReturnTerminal(p) \/ ReturnScope(p)
               \/ ResumeAttempt(p) \/ LoadScope(p)
      BY <3>6 DEF Accept, Replay, StartPublication, Published, ReturnAttempt,
         ReturnTerminal, ReturnScope, ResumeAttempt, LoadScope
    <3>7. CASE \/ RefuseInventory(p) \/ RejectAuthority(p) \/ RejectPending(p)
               \/ RecoveryRefused(p) \/ PublicationRefused(p) \/ RefusePublication(p)
               \/ RejectConflict(p) \/ RefuseReplay(p) \/ RejectLimit(p)
               \/ RejectUnknown(p) \/ RejectPin(p) \/ RefuseScope(p)
      BY <3>7 DEF RefuseInventory, RejectAuthority, RejectPending, RecoveryRefused,
         PublicationRefused, RefusePublication, RejectConflict, RefuseReplay,
         RejectLimit, RejectUnknown, RejectPin, RefuseScope, Reject
    <3> QED BY <2>1, <3>1, <3>4, <3>5, <3>6, <3>7 DEF Step
  <2>2. ASSUME NEW q \in Procs, Calling(q) \/ Kill(q) \/ WriteFails(q)
        PROVE  UNCHANGED disk
    BY <2>2 DEF Calling, Register, Begin, Finish, Resume, Load, Invoke, Kill, WriteFails
  <2>3. ~Lose
    BY NoneIsNothing DEF Lose
  <2> QED BY <2>1, <2>2, <2>3 DEF Next
<1> QED BY <1>1, SureInvariant, PTL DEF Spec, PinnedLoadReadsOnly


\* What a call acknowledges has both a record and its inventory entry.
LEMMA StepTells ==
  ASSUME SureInv, NEW p \in Procs, Step(p),
         NEW f \in Fields, NEW t \in acked'[f], t \notin acked[f]
  PROVE  Held(f, t[1], t[2])' /\ Kept(f, t[1], t[2])'
<1>1. TypeInv /\ Sure(p) /\ OnlyAdds
  BY StepAdds DEF SureInv
<1>2. acked' # acked
  OBVIOUS
<1>3. CASE ReturnAttempt(p)
  <2>1. /\ acked' = [acked EXCEPT !["attempts"] =
                       @ \cup {<<call[p].id, call[p].record.content>>}]
        /\ phase[p] = "return" /\ Field(p) = "attempts" /\ Publishes(p)
    BY <1>3 DEF ReturnAttempt, Told, In, Field, Publishes
  <2>2. /\ f = "attempts" /\ t = <<call[p].id, call[p].record.content>>
        /\ call[p].id \in AttemptIds
    BY <1>1, <2>1, PublisherShape DEF TypeInv, TypeOK
  <2>3. Held(f, t[1], t[2]) /\ Kept(f, t[1], t[2])
    BY <1>1, <2>1, <2>2 DEF Sure
  <2> QED BY <1>1, <2>2, <2>3, AddsKeeps
<1>4. CASE ReturnTerminal(p)
  <2>1. /\ acked' = [acked EXCEPT !["terminals"] =
                       @ \cup {<<call[p].id, call[p].record.content>>}]
        /\ phase[p] = "return" /\ Field(p) = "terminals" /\ Publishes(p)
    BY <1>4 DEF ReturnTerminal, Told, In, Field, Publishes
  <2>2. /\ f = "terminals" /\ t = <<call[p].id, call[p].record.content>>
        /\ call[p].id \in AttemptIds
    BY <1>1, <2>1, PublisherShape DEF TypeInv, TypeOK
  <2>3. Held(f, t[1], t[2]) /\ Kept(f, t[1], t[2])
    BY <1>1, <2>1, <2>2 DEF Sure
  <2> QED BY <1>1, <2>2, <2>3, AddsKeeps
<1>5. CASE ResumeAttempt(p)
  <2> DEFINE c == records["attempts"][call[p].id].content
  <2>1. /\ acked' = [acked EXCEPT !["attempts"] = @ \cup {<<call[p].id, c>>}]
        /\ records["attempts"][call[p].id] # None
        /\ entries["attempts"][call[p].id] = records["attempts"][call[p].id]
        /\ phase[p] = "recover" /\ lock = p /\ Kind(p) = "resume"
    BY <1>5 DEF ResumeAttempt, Told, AttemptRegistered, Recovered, In
  <2>2. call[p].id \in AttemptIds
    BY <1>1, <2>1, CallFields DEF TypeInv, CallShape, Kind
  <2>3. Held("attempts", call[p].id, c) /\ Kept("attempts", call[p].id, c)
    BY <2>1 DEF Held, Kept
  <2> HIDE DEF c
  <2>4. f = "attempts" /\ t = <<call[p].id, c>>
    BY <1>1, <2>1 DEF TypeInv, TypeOK
  <2> QED BY <1>1, <2>2, <2>3, <2>4, AddsKeeps
<1>6. CASE \/ CreateInventory(p) \/ CreateManifest(p) \/ Accept(p) \/ Replay(p)
           \/ Adopt(p) \/ StartPublication(p) \/ Declare(p) \/ Published(p)
           \/ RollForward(p) \/ StoreEvidence(p)
  <2>1. acked' = acked
    BY <1>6 DEF CreateInventory, CreateManifest, Accept, Replay, Adopt,
         StartPublication, Declare, Published, MoveTo, RollForward, WriteRecord,
         AppendEntry, ClearPending, StoreEvidence, Continue, history
  <2> QED BY <1>2, <2>1
<1>7. CASE \/ RefuseInventory(p) \/ RejectAuthority(p) \/ RejectPending(p)
           \/ RecoveryRefused(p) \/ PublicationRefused(p) \/ RefusePublication(p)
           \/ RejectConflict(p) \/ RefuseReplay(p) \/ RejectLimit(p)
           \/ RejectUnknown(p) \/ RejectPin(p) \/ RefuseScope(p)
           \/ ReturnScope(p) \/ LoadScope(p)
  <2>1. acked' = acked
    BY <1>7 DEF RefuseInventory, RejectAuthority, RejectPending, RecoveryRefused,
         PublicationRefused, RefusePublication, RejectConflict, RefuseReplay,
         RejectLimit, RejectUnknown, RejectPin, RefuseScope, Reject, ReturnScope,
         LoadScope, history
  <2> QED BY <1>2, <2>1
<1> QED BY <1>3, <1>4, <1>5, <1>6, <1>7 DEF Step

\* Only a loss damages the scope.
LEMMA CallsDoNoDamage ==
  ASSUME SureInv, [Next]_vars, ~Lose
  PROVE  /\ OnlyAdds /\ losses' = losses
         /\ AllHeld => AllHeld'
         /\ AllKept => AllKept'
<1>1. /\ OnlyAdds /\ losses' = losses
      /\ \A f \in Fields : \A t \in acked'[f] :
           t \in acked[f] \/ (Held(f, t[1], t[2])' /\ Kept(f, t[1], t[2])')
  <2>1. ASSUME NEW p \in Procs, Step(p) PROVE <1>1!:
    BY <2>1, StepAdds, StepTells, StepKeepsLosses DEF SureInv
  <2>2. ASSUME NEW p \in Procs, Calling(p) \/ Kill(p) \/ WriteFails(p) PROVE <1>1!:
    <3>1. UNCHANGED <<disk, acked, losses>>
      BY <2>2 DEF Calling, Register, Begin, Finish, Resume, Load, Invoke, history,
         Kill, WriteFails
    <3> QED BY <3>1, QuietAdds
  <2>3. CASE UNCHANGED vars
    <3>1. UNCHANGED <<disk, acked, losses>>
      BY <2>3 DEF vars, disk
    <3> QED BY <3>1, QuietAdds
  <2> QED BY <2>1, <2>2, <2>3 DEF Next
<1>2. ASSUME NEW f \in Fields, NEW t \in acked'[f] PROVE t[1] \in AttemptIds
  BY <1>2, NextTypeInv DEF SureInv, TypeInv, TypeOK
<1>3. AllHeld => AllHeld'
  <2> SUFFICES ASSUME AllHeld, NEW f \in Fields, NEW t \in acked'[f]
               PROVE  Held(f, t[1], t[2])'
    BY DEF AllHeld
  <2>1. t \in acked[f] => Held(f, t[1], t[2])
    BY DEF AllHeld
  <2> QED BY <1>1, <1>2, <2>1, AddsKeeps
<1>4. AllKept => AllKept'
  <2> SUFFICES ASSUME AllKept, NEW f \in Fields, NEW t \in acked'[f]
               PROVE  Kept(f, t[1], t[2])'
    BY DEF AllKept
  <2>1. t \in acked[f] => Kept(f, t[1], t[2])
    BY DEF AllKept
  <2> QED BY <1>1, <1>2, <2>1, AddsKeeps
<1> QED BY <1>1, <1>3, <1>4

\* What each kind of loss leaves.
LEMMA LossLeaves ==
  ASSUME SureInv, Lose
  PROVE  /\ losses' = losses + 1 /\ acked' = acked
         /\ \/ /\ manifest' = None /\ manifest # None
               /\ UNCHANGED <<inventoried, entries, records>>
            \/ /\ inventoried /\ ~inventoried' /\ entries' = NoFiles
               /\ UNCHANGED <<manifest, records>>
            \/ /\ \E f \in Fields, a \in AttemptIds : records[f][a] # None
               /\ UNCHANGED <<manifest, inventoried, entries>>
            \/ UNCHANGED <<manifest, inventoried, entries, records>>
BY DEF Lose, inventory

\* Two files are lost at most: what an acknowledgement left survives in one place.
LEMMA DamageStays ==
  ASSUME SafeInv, SureInv, Damage, [Next]_vars, MaxLosses <= 2
  PROVE  Damage'
<1>1. CASE ~Lose
  BY <1>1, CallsDoNoDamage DEF Damage, OnlyAdds
<1>2. CASE Lose
  <2>1. /\ losses' = losses + 1 /\ acked' = acked /\ losses \in Nat /\ losses + 1 <= 2
    BY <1>2, LossLeaves, ConstantsAssumption DEF Lose, SureInv, TypeInv, TypeOK
  <2>7. losses = 0 => AllHeld /\ AllKept
    BY DEF SafeInv, Intact, AckedDurable, Durable, AllHeld, AllKept, Held, Kept
  <2>2. losses = 0 /\ AllHeld /\ manifest = None =>
          /\ \A f \in Fields : acked[f] = {}
          /\ \A f \in Fields, a \in AttemptIds : records[f][a] = None
    <3> SUFFICES ASSUME losses = 0, AllHeld, manifest = None
                 PROVE  /\ \A f \in Fields : acked[f] = {}
                        /\ \A f \in Fields, a \in AttemptIds : records[f][a] = None
      OBVIOUS
    <3>1. DiskInv /\ entries = NoFiles /\ pending = NoFiles
      BY DEF SafeInv, Intact, DiskInv, Registered
    <3>2. \A f \in Fields, a \in AttemptIds : records[f][a] = None
      BY <3>1 DEF DiskInv, SlotInv, NoFiles, NoRecords
    <3>3. ASSUME NEW f \in Fields, NEW t \in acked[f] PROVE FALSE
      <4>1. t[1] \in AttemptIds /\ Held(f, t[1], t[2])
        BY DEF AllHeld, SureInv, TypeInv, TypeOK
      <4> QED BY <3>1, <4>1 DEF Held, NoFiles, NoRecords
    <3> QED BY <3>2, <3>3
  <2>3. CASE /\ manifest' = None /\ manifest # None
             /\ UNCHANGED <<inventoried, entries, records>>
    <3>1. (AllHeld' <=> AllHeld) /\ (AllKept' <=> AllKept)
      BY <2>1, <2>3 DEF AllHeld, AllKept, Held, Kept
    <3> QED BY <2>1, <2>3, <2>7, <3>1 DEF Damage
  <2>4. CASE /\ inventoried /\ ~inventoried' /\ entries' = NoFiles
             /\ UNCHANGED <<manifest, records>>
    <3>1. AllKept => AllKept'
      <4> SUFFICES ASSUME AllKept, NEW f \in Fields, NEW t \in acked[f]
                   PROVE  Kept(f, t[1], t[2])'
        BY <2>1 DEF AllKept
      <4>1. t[1] \in AttemptIds /\ Kept(f, t[1], t[2])
        BY DEF AllKept, SureInv, TypeInv, TypeOK
      <4> QED BY <2>4, <4>1 DEF Kept, NoFiles, NoRecords
    <3>2. CASE losses = 0 /\ AllHeld /\ manifest = None
      <4>1. \A f \in Fields : acked'[f] = {}
        BY <2>1, <2>2, <3>2
      <4> QED BY <4>1 DEF Damage, AllHeld, AllKept
    <3>3. CASE losses = 1 \/ manifest # None
      BY <2>1, <2>4, <2>7, <3>1, <3>3 DEF Damage
    <3> QED BY <2>1, <2>7, <3>2, <3>3
  <2>5. CASE /\ \E f \in Fields, a \in AttemptIds : records[f][a] # None
             /\ UNCHANGED <<manifest, inventoried, entries>>
    <3>1. AllHeld' <=> AllHeld
      BY <2>1, <2>5 DEF AllHeld, Held
    <3> QED BY <2>1, <2>2, <2>5, <2>7, <3>1 DEF Damage
  <2>6. CASE UNCHANGED <<manifest, inventoried, entries, records>>
    <3>1. (AllHeld' <=> AllHeld) /\ (AllKept' <=> AllKept)
      BY <2>1, <2>6 DEF AllHeld, AllKept, Held, Kept
    <3> QED BY <2>1, <2>6, <3>1 DEF Damage
  <2> QED BY <1>2, <2>3, <2>4, <2>5, <2>6, LossLeaves
<1> QED BY <1>1, <1>2

\* A snapshot is only given out when the records are those of the inventory.
LEMMA SnapshotHasAll ==
  ASSUME SureInv, [Next]_vars, pin' # pin, AllHeld \/ AllKept \/ ~inventoried
  PROVE  \A f \in Fields : \A t \in acked[f] :
           /\ pin'[f][t[1]] # None
           /\ pin'[f][t[1]].content = t[2]
<1>1. PICK p \in Procs : LoadScope(p)
  <2>1. ASSUME NEW p \in Procs, Calling(p) \/ Kill(p) \/ WriteFails(p) PROVE pin' = pin
    BY <2>1 DEF Calling, Register, Begin, Finish, Resume, Load, Invoke, history, Kill,
       WriteFails
  <2>2. ASSUME NEW p \in Procs, Step(p), ~LoadScope(p) PROVE pin' = pin
    <3>1. CASE \/ CreateInventory(p) \/ CreateManifest(p) \/ Accept(p) \/ Replay(p)
               \/ Adopt(p) \/ StartPublication(p) \/ Declare(p) \/ Published(p)
               \/ RollForward(p) \/ StoreEvidence(p)
      BY <3>1 DEF CreateInventory, CreateManifest, Accept, Replay, Adopt,
         StartPublication, Declare, Published, MoveTo, RollForward, WriteRecord,
         AppendEntry, ClearPending, StoreEvidence, Continue, history
    <3>2. CASE \/ RefuseInventory(p) \/ RejectAuthority(p) \/ RejectPending(p)
               \/ RecoveryRefused(p) \/ PublicationRefused(p) \/ RefusePublication(p)
               \/ RejectConflict(p) \/ RefuseReplay(p) \/ RejectLimit(p)
               \/ RejectUnknown(p) \/ RejectPin(p) \/ RefuseScope(p)
      BY <3>2 DEF RefuseInventory, RejectAuthority, RejectPending, RecoveryRefused,
         PublicationRefused, RefusePublication, RejectConflict, RefuseReplay,
         RejectLimit, RejectUnknown, RejectPin, RefuseScope, Reject, history
    <3>3. CASE ReturnAttempt(p) \/ ReturnTerminal(p) \/ ReturnScope(p) \/ ResumeAttempt(p)
      BY <3>3 DEF ReturnAttempt, ReturnTerminal, ReturnScope, ResumeAttempt, history
    <3> QED BY <2>2, <3>1, <3>2, <3>3 DEF Step
  <2>3. Lose \/ UNCHANGED vars => pin' = pin
    BY DEF Lose, vars
  <2> QED BY <2>1, <2>2, <2>3 DEF Next
<1>2. inventoried /\ records = entries
  BY <1>1 DEF LoadScope, ScopeLoads, InventoryLoads
<1>3. ASSUME NEW f \in Fields PROVE pin'[f] = records[f]
  BY <1>1 DEF LoadScope, Snapshot
<1> QED BY <1>2, <1>3 DEF AllHeld, AllKept, Held, Kept

\* "restart reconstruction fails closed on missing or modified material": with up to two
\* files missing, whichever they are, no snapshot lacks what was acknowledged. Three can
\* go unnoticed: the manifest, the inventory and a record leave a scope that was never.
THEOREM TwoLossesFailClosed ==
  ASSUME MaxLosses <= 2
  PROVE  Spec => FailClosed
<1>1. Init => Damage
  BY DEF Init, Damage, AllHeld, AllKept
<1>2. SafeInv /\ SureInv /\ Damage /\ [Next]_vars => Damage'
  BY DamageStays
<1>3. SureInv /\ Damage /\ [Next]_vars =>
        [pin' # pin =>
           \A f \in Fields : \A t \in acked[f] :
             /\ pin'[f][t[1]] # None
             /\ pin'[f][t[1]].content = t[2]]_vars
  BY SnapshotHasAll DEF Damage
<1> QED BY <1>1, <1>2, <1>3, SafeInvariant, SureInvariant, PTL DEF Spec, FailClosed

\* And as long as the inventory itself is never lost, any number of other files can be.
THEOREM InventoryFailsClosed ==
  Spec /\ [][inventoried => inventoried']_vars => FailClosed
<1>1. Init => AllHeld
  BY DEF Init, AllHeld
<1>2. SureInv /\ AllHeld /\ [Next]_vars /\ [inventoried => inventoried']_vars => AllHeld'
  <2> SUFFICES ASSUME SureInv, AllHeld, [Next]_vars, [inventoried => inventoried']_vars
               PROVE  AllHeld'
    OBVIOUS
  <2>1. CASE ~Lose
    BY <2>1, CallsDoNoDamage
  <2>2. CASE Lose
    <3>1. inventoried => inventoried'
      BY DEF vars
    <3>2. acked' = acked /\ entries' = entries
      BY <2>2, <3>1, LossLeaves
    <3> QED BY <3>2 DEF AllHeld, Held
  <2> QED BY <2>1, <2>2
<1>3. SureInv /\ AllHeld /\ [Next]_vars =>
        [pin' # pin =>
           \A f \in Fields : \A t \in acked[f] :
             /\ pin'[f][t[1]] # None
             /\ pin'[f][t[1]].content = t[2]]_vars
  BY SnapshotHasAll
<1> QED BY <1>1, <1>2, <1>3, SureInvariant, PTL DEF Spec, FailClosed
-----------------------------------------------------------------------------
(* The refinement: every initial state maps to an initial state, and every *)
(* step to a step or to a stutter.  An attempt begins, and ends, when its  *)
(* intent is declared.                                                     *)

\* The instance counts as this module does: both expand to one definition.
LEMMA SameCardinality ==
  ASSUME NEW S
  PROVE  Ledger!Cardinality(S) = Cardinality(S)
BY DEF Ledger!Cardinality, Cardinality

LEMMA InitRefines == Init => Ledger!Init
<1> SUFFICES ASSUME Init PROVE Ledger!Init
  OBVIOUS
<1>1. \A f \in Fields : Promised(f) = [a \in AttemptIds |-> None]
  BY DEF Init, Promised, NoFiles, NoRecords
<1>2. acked = [attempts |-> {}, terminals |-> {}]
  BY DEF Init
<1> QED BY <1>1, <1>2 DEF Init, Ledger!Init, Ledger!Empty

\* Between publications the promised journal is the inventory.
LEMMA PromisedIsListed ==
  ASSUME TypeInv, DiskInv, NoPending
  PROVE  /\ \A f \in Fields : Promised(f) = records[f] /\ Promised(f) = entries[f]
         /\ {b \in AttemptIds : Promised("attempts")[b] # None} = Listed("attempts")
<1>1. \A f \in Fields, a \in AttemptIds :
        pending[f][a] = None /\ records[f][a] = entries[f][a]
  BY DEF DiskInv, SlotInv, NoPending, NoFiles, NoRecords
<1>2. \A f \in Fields : Promised(f) = records[f] /\ Promised(f) = entries[f]
  BY <1>1 DEF Promised, TypeInv, TypeOK, FilesOK
<1> QED BY <1>2 DEF Listed

\* The promise changes with the intent only, not with the files that follow it.
LEMMA RollForwardStutters ==
  ASSUME TypeInv, NEW p \in Procs, RollForward(p)
  PROVE  /\ \A f \in Fields : Promised(f)' = Promised(f)
         /\ UNCHANGED <<manifest, acked, pin>>
<1>1. PICK f \in Fields, a \in AttemptIds :
        WriteRecord(p, f, a) \/ AppendEntry(p, f, a) \/ ClearPending(p, f, a)
  BY DEF RollForward
<1>2. UNCHANGED <<manifest, acked, pin>>
  BY <1>1 DEF WriteRecord, AppendEntry, ClearPending, Append, Continue, history
<1>3. pending[f][a] # None
  BY <1>1 DEF WriteRecord, AppendEntry, ClearPending, Rolls, Recovering, Publishing
<1>4. CASE WriteRecord(p, f, a)
  <2>1. \A g \in Fields, b \in AttemptIds :
          records'[g][b] = IF g = f /\ b = a THEN pending[f][a] ELSE records[g][b]
    BY <1>4 DEF WriteRecord, TypeInv, TypeOK, FilesOK
  <2>2. pending' = pending /\ records[f][a] = None
    BY <1>4 DEF WriteRecord
  <2> QED BY <1>2, <1>3, <2>1, <2>2 DEF Promised
<1>5. CASE AppendEntry(p, f, a)
  BY <1>2, <1>5 DEF AppendEntry, Append, Promised
<1>6. CASE ClearPending(p, f, a)
  <2>1. \A g \in Fields, b \in AttemptIds :
          pending'[g][b] = IF g = f /\ b = a THEN None ELSE pending[g][b]
    BY <1>6 DEF ClearPending, TypeInv, TypeOK, FilesOK
  <2>2. records' = records /\ records[f][a] = pending[f][a]
    BY <1>6 DEF ClearPending
  <2> QED BY <1>2, <1>3, <2>1, <2>2 DEF Promised
<1> QED BY <1>1, <1>4, <1>5, <1>6

\* Declaring an intent is where an attempt begins or ends.
LEMMA DeclareRefines ==
  ASSUME TypeInv, DiskInv, NEW p \in Procs, CallInv(p), Declare(p)
  PROVE  Ledger!Next
<1>1. phase[p] = "store" /\ phase[p] # "idle" /\ Publishes(p)
  BY DEF Declare, In, TypeInv, CallShape
<1>2. PICK f \in Fields, a \in AttemptIds, r \in Records :
        f = Field(p) /\ a = call[p].id /\ r = call[p].record /\ r \in RecordsOf(f)
  BY <1>1, PublisherShape DEF RecordsOf, Records
<1>3. /\ pending' = [pending EXCEPT ![f][a] = r]
      /\ UNCHANGED <<manifest, records, acked, pin>>
  BY <1>2 DEF Declare, MoveTo, history
<1>4. /\ NoPending /\ records[f][a] = None /\ manifest # None
      /\ f = "attempts" => Cardinality(Listed("attempts")) < MaxScopeAttempts
      /\ f = "terminals" => entries["attempts"][a] # None
  BY <1>1, <1>2, PublisherShape DEF CallInv, Durable, Publishes
<1>5. /\ \A g \in Fields : Promised(g) = records[g] /\ Promised(g) = entries[g]
      /\ {b \in AttemptIds : Promised("attempts")[b] # None} = Listed("attempts")
  BY <1>4, PromisedIsListed
<1>6. r # None
  BY <1>2, NoneIsNothing DEF RecordsOf
<1>7. \A g \in Fields, b \in AttemptIds :
        /\ pending[g][b] = None
        /\ pending'[g][b] = IF g = f /\ b = a THEN r ELSE None
  BY <1>2, <1>3, <1>4 DEF NoPending, NoFiles, NoRecords
<1>8. \A g \in Fields :
        Promised(g)' = [b \in AttemptIds |->
                          IF g = f /\ b = a THEN r ELSE Promised(g)[b]]
  BY <1>3, <1>4, <1>6, <1>7 DEF Promised
<1>9. /\ Promised(f)' = [Promised(f) EXCEPT ![a] = r]
      /\ \A g \in Fields : g # f => Promised(g)' = Promised(g)
  <2>1. \A g \in Fields : Promised(g) = [b \in AttemptIds |-> Promised(g)[b]]
    BY DEF Promised
  <2> QED BY <1>2, <1>8, <2>1
<1>10. CASE f = "attempts"
  <2>1. r \in AttemptRecords
    BY <1>2, <1>10 DEF RecordsOf
  <2>2. Ledger!Begin(a, r)
    <3>1. Cardinality({b \in AttemptIds : Promised("attempts")[b] # None})
            < MaxScopeAttempts
      BY <1>4, <1>5, <1>10
    <3>2. Promised("attempts")[a] = None /\ Promised("terminals")' = Promised("terminals")
      BY <1>4, <1>5, <1>9, <1>10
    <3> QED BY <1>3, <1>4, <1>9, <1>10, <3>1, <3>2, SameCardinality DEF Ledger!Begin
  <2> QED BY <1>2, <2>1, <2>2 DEF Ledger!Next
<1>11. CASE f = "terminals"
  <2>1. r \in TerminalRecords
    BY <1>2, <1>11 DEF RecordsOf
  <2>2. Ledger!End(a, r)
    BY <1>2, <1>3, <1>4, <1>5, <1>9, <1>11 DEF Ledger!End
  <2> QED BY <1>2, <2>1, <2>2 DEF Ledger!Next
<1> QED BY <1>2, <1>10, <1>11

\* A durable record is one the journal has promised.
LEMMA DurablePromised ==
  ASSUME TypeInv, NEW f \in Fields, NEW a \in AttemptIds, NEW c, Durable(f, a, c)
  PROVE  Promised(f)[a] # None /\ Promised(f)[a].content = c
BY DEF Durable, Promised

LEMMA AttemptAnswerRefines ==
  ASSUME TypeInv, NEW a \in AttemptIds, NEW c, Durable("attempts", a, c),
         Told("attempts", a, c), UNCHANGED <<disk, pin>>
  PROVE  Ledger!Next
<1>1. Promised("attempts")[a] # None /\ Promised("attempts")[a].content = c
  BY DurablePromised
<1>2. UNCHANGED manifest /\ \A f \in Fields : Promised(f)' = Promised(f)
  BY DEF disk, Promised
<1>3. Ledger!AcknowledgeAttempt(a)
  BY <1>1, <1>2 DEF Ledger!AcknowledgeAttempt, Told
<1> QED BY <1>3 DEF Ledger!Next

LEMMA TerminalAnswerRefines ==
  ASSUME TypeInv, NEW a \in AttemptIds, NEW c, Durable("terminals", a, c),
         Told("terminals", a, c), UNCHANGED <<disk, pin>>
  PROVE  Ledger!Next
<1>1. Promised("terminals")[a] # None /\ Promised("terminals")[a].content = c
  BY DurablePromised
<1>2. UNCHANGED manifest /\ \A f \in Fields : Promised(f)' = Promised(f)
  BY DEF disk, Promised
<1>3. Ledger!AcknowledgeTerminal(a)
  BY <1>1, <1>2 DEF Ledger!AcknowledgeTerminal, Told
<1> QED BY <1>3 DEF Ledger!Next

LEMMA QuietStutters ==
  ASSUME UNCHANGED <<disk, acked, pin>>
  PROVE  UNCHANGED Ledger!vars
BY DEF disk, Promised, Ledger!vars

LEMMA StepRefines ==
  ASSUME TypeInv, DiskInv, NEW p \in Procs, CallInv(p), Step(p)
  PROVE  Ledger!Next \/ UNCHANGED Ledger!vars
<1>c. phase[p] # "idle" => call[p] \in Calls
  BY DEF TypeInv, CallShape
<1>1. CASE CreateInventory(p) \/ StoreEvidence(p)
  BY <1>1 DEF CreateInventory, StoreEvidence, MoveTo, Continue, history, Promised,
       Ledger!vars
<1>2. CASE CreateManifest(p)
  <2>1. /\ manifest = None /\ manifest' = call[p].authority
        /\ UNCHANGED <<records, pending, acked, pin>>
        /\ phase[p] = "enter" /\ Kind(p) = "register"
    BY <1>2 DEF CreateManifest, Unregistered, In, MoveTo, history
  <2>2. call[p].authority \in Authorities
    BY <2>1, <1>c, CallFields DEF Kind
  <2>3. Ledger!Register(call[p].authority)
    BY <2>1 DEF Ledger!Register, Promised
  <2> QED BY <2>2, <2>3 DEF Ledger!Next
<1>3. CASE RollForward(p)
  BY <1>3, RollForwardStutters DEF Ledger!vars
<1>4. CASE Declare(p)
  BY <1>4, DeclareRefines
<1>5. CASE Adopt(p)
  <2>1. /\ phase[p] # "idle" /\ Publishes(p) /\ NoPending
        /\ Target(p) # None /\ entries[Field(p)][call[p].id] = None
    BY <1>5 DEF Adopt, Replayed, Undecided, Recovered, In
  <2> QED BY <2>1, NoAdoption
<1>6. CASE ReturnAttempt(p)
  <2>1. phase[p] = "return" /\ Kind(p) = "begin"
    BY <1>6 DEF ReturnAttempt, In
  <2>2. /\ call[p].id \in AttemptIds
        /\ Durable("attempts", call[p].id, call[p].record.content)
    BY <2>1, PublisherShape DEF CallInv, Publishes, Field
  <2> QED BY <1>6, <2>2, AttemptAnswerRefines DEF ReturnAttempt
<1>7. CASE ReturnTerminal(p)
  <2>1. phase[p] = "return" /\ Kind(p) = "finish"
    BY <1>7 DEF ReturnTerminal, In
  <2>2. /\ call[p].id \in AttemptIds
        /\ Durable("terminals", call[p].id, call[p].record.content)
    BY <2>1, PublisherShape DEF CallInv, Publishes, Field
  <2> QED BY <1>7, <2>2, TerminalAnswerRefines DEF ReturnTerminal
<1>8. CASE ResumeAttempt(p)
  <2> DEFINE c == records["attempts"][call[p].id].content
  <2>1. phase[p] = "recover" /\ Kind(p) = "resume"
    BY <1>8 DEF ResumeAttempt, Recovered, In
  <2>2. /\ call[p].id \in AttemptIds
        /\ Durable("attempts", call[p].id, c)
    BY <1>8, <2>1, <1>c, CallFields
       DEF ResumeAttempt, AttemptRegistered, Durable, Kind
  <2>3. Told("attempts", call[p].id, c) /\ UNCHANGED <<disk, pin>>
    BY <1>8 DEF ResumeAttempt
  <2> HIDE DEF c
  <2> QED BY <2>2, <2>3, AttemptAnswerRefines
<1>9. CASE LoadScope(p)
  <2>1. /\ manifest # None /\ pin' = Snapshot /\ UNCHANGED <<disk, acked>>
        /\ NoPending
    BY <1>9 DEF LoadScope, Recovered, In, CallInv
  <2>2. /\ UNCHANGED manifest
        /\ \A f \in Fields : Promised(f)' = Promised(f) /\ Promised(f) = records[f]
    BY <2>1, PromisedIsListed DEF disk, Promised
  <2>3. Ledger!Snapshot
    BY <2>1, <2>2 DEF Ledger!Snapshot, Snapshot
  <2> QED BY <2>3 DEF Ledger!Next
<1>10. CASE \/ Accept(p) \/ Replay(p) \/ StartPublication(p) \/ Published(p)
            \/ ReturnScope(p) \/ RefuseInventory(p) \/ RejectAuthority(p)
            \/ RejectPending(p) \/ RecoveryRefused(p) \/ PublicationRefused(p)
            \/ RefusePublication(p) \/ RejectConflict(p) \/ RefuseReplay(p)
            \/ RejectLimit(p) \/ RejectUnknown(p) \/ RejectPin(p) \/ RefuseScope(p)
  <2>1. UNCHANGED <<disk, acked, pin>>
    BY <1>10 DEF Accept, Replay, StartPublication, Published, MoveTo, ReturnScope,
         RefuseInventory, RejectAuthority, RejectPending, RecoveryRefused,
         PublicationRefused, RefusePublication, RejectConflict, RefuseReplay,
         RejectLimit, RejectUnknown, RejectPin, RefuseScope, Reject, history
  <2> QED BY <2>1, QuietStutters
<1> QED BY <1>1, <1>2, <1>3, <1>4, <1>5, <1>6, <1>7, <1>8, <1>9, <1>10 DEF Step

LEMMA NextRefines ==
  ASSUME SafeInv, Intact, [Next]_vars, MaxLosses = 0
  PROVE  [Ledger!Next]_Ledger!vars
<1>1. ASSUME NEW p \in Procs, Step(p) PROVE Ledger!Next \/ UNCHANGED Ledger!vars
  BY <1>1, StepRefines DEF SafeInv
<1>2. ASSUME NEW p \in Procs, Calling(p) \/ Kill(p) \/ WriteFails(p)
      PROVE  UNCHANGED Ledger!vars
  <2>1. UNCHANGED <<disk, acked, pin>>
    BY <1>2 DEF Calling, Register, Begin, Finish, Resume, Load, Invoke, Kill, WriteFails,
         history
  <2> QED BY <2>1, QuietStutters
<1>3. ~Lose
  BY DEF Lose, Intact
<1>4. CASE UNCHANGED vars
  <2>1. UNCHANGED <<disk, acked, pin>>
    BY <1>4 DEF vars, disk
  <2> QED BY <2>1, QuietStutters
<1> QED BY <1>1, <1>2, <1>3, <1>4 DEF Next

\* To its callers the ledger is the journal of AbstractLedger: one record per
\* attempt and per terminal, a bound on the attempts, and snapshots of an instant.
THEOREM LedgerRefinement ==
  ASSUME MaxLosses = 0
  PROVE  Spec => ImplementsLedger
<1>1. SafeInv => Intact
  BY DEF SafeInv, TypeInv, TypeOK, Intact
<1>2. SafeInv /\ [Next]_vars => [Ledger!Next]_Ledger!vars
  BY <1>1, NextRefines
<1> QED BY <1>2, InitRefines, SafeInvariant, PTL DEF Spec, ImplementsLedger, Ledger!Spec

=============================================================================

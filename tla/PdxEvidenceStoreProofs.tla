----------------------- MODULE PdxEvidenceStoreProofs -----------------------
(***************************************************************************)
(* Proofs about PdxEvidenceStore, for any number of processes,             *)
(* attestations, captures, engagement versions and contents.               *)
(***************************************************************************)
EXTENDS PdxEvidenceStore, TLAPS

Busy == {"register", "import", "write", "link", "unlink"}

\* The lock is held by the one process that is inside a call.
Mutex == \A p \in Processes : pc[p] \in Busy <=> lock = p

Granted(r) == \E c \in Matches[r] : engagements[Version[r]] = {c}

\* A receipt that may be published for r as the journal is now.
Fits(r, receipt) ==
  \/ receipt \in [status : {"REJECT", "QUARANTINE"}, refs : {{}}]
  \/ receipt = [status |-> "ACCEPT", refs |-> Captures[r]] /\ Granted(r) /\ NoConflict(r)

\* What a process inside a call works on; what it judged is true until it is linked.
Working ==
  \A p \in Processes :
    /\ pc[p] = "register" => job[p] \in Versions /\ plan[p] \in Contents
    /\ pc[p] = "import" => job[p] \in Raws
    /\ pc[p] \in {"write", "link"} =>
         \/ job[p] \in Raws /\ receipts[job[p]] = None /\ Fits(job[p], plan[p])
         \/ job[p] \in Versions /\ engagements[job[p]] = {} /\ plan[p] \in Contents
    /\ pc[p] = "unlink" =>
         \/ job[p] \in Raws /\ receipts[job[p]] = plan[p] /\ plan[p] \in Receipts
         \/ job[p] \in Versions

\* A receipt claims nothing but the captures of its attestation.
OwnRefs == \A r \in Stored : receipts[r].refs \subseteq Captures[r]

Inv ==
  /\ TypeOK /\ Mutex /\ Working /\ TemporaryKept
  /\ OwnRefs /\ ClaimsUnique /\ RegisteredOnce

USE DEF Places, Busy

\* "Nothing there" is none of the values that can be there.
LEMMA NoneIsNothing ==
  /\ None \notin Processes /\ None \notin Raws /\ None \notin Versions
  /\ None \notin Contents /\ None \notin Receipts
BY PdxAssumption DEF Receipts

\* A receipt that fits is a receipt, and claims captures of its attestation only.
LEMMA FitsIsReceipt ==
  ASSUME NEW r \in Raws, NEW receipt, Fits(r, receipt)
  PROVE  receipt \in Receipts /\ receipt.refs \subseteq Captures[r]
<1>1. Captures[r] \in SUBSET Pairs
  BY PdxAssumption
<1> QED BY <1>1 DEF Fits, Receipts

LEMMA InitInv == Init => Inv
BY NoneIsNothing
   DEF Init, Inv, TypeOK, Mutex, Working, TemporaryKept, OwnRefs, ClaimsUnique,
       RegisteredOnce, Stored

\* A step that leaves the files alone disturbs nothing that is said of them.
LEMMA FilesAlone ==
  ASSUME Inv, UNCHANGED <<receipts, engagements>>
  PROVE  /\ Stored' = Stored
         /\ (OwnRefs /\ ClaimsUnique /\ RegisteredOnce)'
         /\ \A r \in Raws : \A receipt : Fits(r, receipt)' <=> Fits(r, receipt)
BY DEF Inv, Stored, OwnRefs, ClaimsUnique, RegisteredOnce, Fits, Granted, NoConflict

\* Giving the lock back.
LEMMA LeaveInv ==
  ASSUME Inv, NEW p \in Processes, pc[p] \in Busy, Leave(p),
         UNCHANGED <<receipts, engagements, damaged, unsynced>>,
         temps' \in SUBSET Processes, temps \ {p} \subseteq temps',
         told' \in SUBSET (Raws \X Receipts)
  PROVE  Inv'
<1>1. \A q \in Processes : q # p => pc[q] \notin Busy /\ pc'[q] = pc[q]
  BY DEF Inv, Mutex, TypeOK, Leave
<1>2. TypeOK'
  BY DEF Inv, TypeOK, Leave
<1>3. pc'[p] = "idle"
  BY DEF Inv, TypeOK, Leave
<1>4. Mutex' /\ Working' /\ TemporaryKept'
  BY <1>1, <1>3, NoneIsNothing DEF Mutex, Working, TemporaryKept, Leave
<1> QED BY <1>2, <1>4, FilesAlone DEF Inv

\* Inside a call from one step to the next, with the files left alone.
LEMMA AdvanceInv ==
  ASSUME Inv, NEW p \in Processes, pc[p] \in Busy,
         NEW place \in Busy, pc' = [pc EXCEPT ![p] = place],
         NEW value \in Receipts \cup Contents \cup {None},
         plan' = [plan EXCEPT ![p] = value],
         place = "write" \/ place = "link",
         \/ job[p] \in Raws /\ receipts[job[p]] = None /\ Fits(job[p], value)
         \/ job[p] \in Versions /\ engagements[job[p]] = {} /\ value \in Contents,
         UNCHANGED <<receipts, engagements, damaged, unsynced, lock, job, told>>,
         temps' \in SUBSET Processes, temps \subseteq temps',
         place = "link" => p \in temps'
  PROVE  Inv'
<1>1. \A q \in Processes : q # p => pc[q] \notin Busy /\ pc'[q] = pc[q]
  BY DEF Inv, Mutex, TypeOK
<1>2. TypeOK'
  BY DEF Inv, TypeOK
<1>3. pc'[p] = place /\ plan'[p] = value
  BY DEF Inv, TypeOK
<1>4. Mutex' /\ TemporaryKept'
  BY <1>1, <1>3 DEF Inv, Mutex, TemporaryKept
<1>5. Working'
  BY <1>1, <1>3, FilesAlone DEF Working
<1> QED BY <1>2, <1>4, <1>5, FilesAlone DEF Inv

-----------------------------------------------------------------------------
(* The steps.                                                              *)

\* A call begins under a free lock, so nobody else is inside one.
LEMMA EnterInv ==
  ASSUME Inv, NEW p \in Processes, NEW what \in Raws \cup Versions,
         NEW place \in {"register", "import"}, Enter(p, place, what),
         UNCHANGED <<disk, temps, told>>,
         \/ place = "import" /\ what \in Raws /\ UNCHANGED plan
         \/ /\ place = "register" /\ what \in Versions
            /\ \E c \in Contents : plan' = [plan EXCEPT ![p] = c]
  PROVE  Inv'
<1>1. \A q \in Processes : pc[q] \notin Busy
  BY NoneIsNothing DEF Inv, Mutex, Enter
<1>2. TypeOK'
  BY DEF Inv, TypeOK, Enter, disk
<1>3. pc'[p] = place /\ job'[p] = what
  BY DEF Inv, TypeOK, Enter
<1>4. place = "register" => plan'[p] \in Contents
  BY DEF Inv, TypeOK
<1>5. \A q \in Processes : q # p => pc'[q] = pc[q]
  BY DEF Inv, TypeOK, Enter
<1>6. Mutex' /\ Working' /\ TemporaryKept'
  BY <1>1, <1>3, <1>4, <1>5 DEF Mutex, Working, TemporaryKept, Enter
<1> QED BY <1>2, <1>6, FilesAlone DEF Inv, disk

LEMMA RegisterNewInv ==
  ASSUME Inv, NEW p \in Processes, RegisterNew(p)
  PROVE  Inv'
<1>1. job[p] \in Versions /\ plan[p] \in Contents /\ engagements[job[p]] = {}
  BY DEF Inv, Working, RegisterNew
<1>2. plan' = [plan EXCEPT ![p] = plan[p]]
  BY DEF Inv, TypeOK, RegisterNew, Goto
<1> QED BY <1>1, <1>2, AdvanceInv DEF Inv, TypeOK, RegisterNew, Goto, disk

LEMMA RejectInv ==
  ASSUME Inv, NEW p \in Processes, Reject(p)
  PROVE  Inv'
<1> DEFINE value == [status |-> "REJECT", refs |-> {}]
<1>1. job[p] \in Raws
  BY DEF Inv, Working, Reject
<1>2. Fits(job[p], value)
  BY DEF Fits
<1>3. value \in Receipts
  BY <1>1, <1>2, FitsIsReceipt
<1> QED BY <1>1, <1>2, <1>3, AdvanceInv DEF Inv, TypeOK, Reject, Prepare, disk

LEMMA JudgeInv ==
  ASSUME Inv, NEW p \in Processes, Judge(p)
  PROVE  Inv'
<1>1. job[p] \in Raws
  BY DEF Inv, Working, Judge
<1>2. CASE Authorised(job[p]) /\ NoConflict(job[p])
  <2> DEFINE value == [status |-> "ACCEPT", refs |-> Captures[job[p]]]
  <2>1. Fits(job[p], value)
    BY <1>2 DEF Fits, Granted, Authorised
  <2>2. value \in Receipts
    BY <1>1, <2>1, FitsIsReceipt
  <2>3. Prepare(p, value)
    BY <1>2 DEF Judge
  <2> QED BY <1>1, <2>1, <2>2, <2>3, AdvanceInv DEF Inv, TypeOK, Judge, Prepare, disk
<1>3. CASE ~(Authorised(job[p]) /\ NoConflict(job[p]))
  <2> DEFINE value == [status |-> "QUARANTINE", refs |-> {}]
  <2>1. Fits(job[p], value)
    BY DEF Fits
  <2>2. value \in Receipts
    BY <1>1, <2>1, FitsIsReceipt
  <2>3. Prepare(p, value)
    BY <1>3 DEF Judge
  <2> QED BY <1>1, <2>1, <2>2, <2>3, AdvanceInv DEF Inv, TypeOK, Judge, Prepare, disk
<1> QED BY <1>2, <1>3

LEMMA WriteTemporaryInv ==
  ASSUME Inv, NEW p \in Processes, WriteTemporary(p)
  PROVE  Inv'
<1>1. plan' = [plan EXCEPT ![p] = plan[p]]
  BY DEF Inv, TypeOK, WriteTemporary, Goto
<1>2. plan[p] \in Receipts \cup Contents \cup {None}
  BY DEF Inv, TypeOK
<1>3. \/ job[p] \in Raws /\ receipts[job[p]] = None /\ Fits(job[p], plan[p])
      \/ job[p] \in Versions /\ engagements[job[p]] = {} /\ plan[p] \in Contents
  BY DEF Inv, Working, WriteTemporary
<1>4. temps' \in SUBSET Processes /\ temps \subseteq temps' /\ p \in temps'
  BY DEF Inv, TypeOK, WriteTemporary
<1>5. pc[p] \in Busy /\ pc' = [pc EXCEPT ![p] = "link"]
  BY DEF WriteTemporary, Goto
<1>6. UNCHANGED <<receipts, engagements, damaged, unsynced, lock, job, told>>
  BY DEF WriteTemporary, Goto, disk
<1> QED BY <1>1, <1>2, <1>3, <1>4, <1>5, <1>6, AdvanceInv

\* The one step that changes the files of the journal and of the registry.
LEMMA LinkInv ==
  ASSUME Inv, NEW p \in Processes, Link(p)
  PROVE  Inv'
<1>1. \A q \in Processes : q # p => pc[q] \notin Busy /\ pc'[q] = pc[q]
  BY DEF Inv, Mutex, TypeOK, Link, Goto
<1>2. pc'[p] = "unlink" /\ job' = job /\ plan' = plan
  BY DEF Inv, TypeOK, Link, Goto
<1>3. Mutex' /\ TemporaryKept'
  BY <1>1, <1>2 DEF Inv, Mutex, TemporaryKept, Link, Goto
<1>4. CASE job[p] \in Raws
  <2> DEFINE r == job[p]
             value == plan[p]
  <2>1. receipts[r] = None /\ Fits(r, value)
    BY <1>4, PdxAssumption DEF Inv, Working, Link
  <2>2. value \in Receipts /\ value.refs \subseteq Captures[r]
    BY <1>4, <2>1, FitsIsReceipt
  <2>3. receipts' = [receipts EXCEPT ![r] = value] /\ engagements' = engagements
    BY <1>4 DEF Link
  <2>4. receipts'[r] = value /\ \A q \in Raws : q # r => receipts'[q] = receipts[q]
    BY <1>4, <2>3 DEF Inv, TypeOK
  <2>5. Stored' = Stored \cup {r}
    BY <1>4, <2>2, <2>4, NoneIsNothing DEF Stored
  <2>6. TypeOK'
    BY <1>4, <2>2, <2>3 DEF Inv, TypeOK, Link, Goto
  <2>7. OwnRefs'
    BY <2>2, <2>4, <2>5 DEF Inv, OwnRefs, Stored
  <2>8. \A q \in Stored : \A x \in value.refs, y \in receipts[q].refs : Agree(x, y)
    BY <2>1 DEF Fits, NoConflict
  <2>9. ClaimsUnique'
    <3> SUFFICES ASSUME NEW a \in Stored', NEW b \in Stored',
                        NEW x \in receipts'[a].refs, NEW y \in receipts'[b].refs
                 PROVE  Agree(x, y)
      BY DEF ClaimsUnique, Agree
    <3>1. CASE a = r /\ b = r
      BY <1>4, <2>2, <2>4, <3>1, CapturesUnique DEF Agree
    <3>2. CASE a = r /\ b # r
      BY <2>4, <2>5, <2>8, <3>2 DEF Stored
    <3>3. CASE a # r /\ b = r
      <4>1. Agree(y, x)
        BY <2>4, <2>5, <2>8, <3>3 DEF Stored
      <4> QED BY <4>1 DEF Agree
    <3>4. CASE a # r /\ b # r
      BY <2>4, <2>5, <3>4 DEF Inv, ClaimsUnique, Stored
    <3> QED BY <3>1, <3>2, <3>3, <3>4
  <2>10. RegisteredOnce'
    BY <2>3 DEF Inv, RegisteredOnce
  <2>11. Working'
    BY <1>1, <1>2, <1>4, <2>2, <2>4 DEF Working
  <2> QED BY <1>3, <2>6, <2>7, <2>9, <2>10, <2>11 DEF Inv
<1>5. CASE job[p] \notin Raws
  <2> DEFINE v == job[p]
  <2>1. v \in Versions /\ engagements[v] = {} /\ plan[p] \in Contents
    BY <1>5 DEF Inv, Working, Link
  <2>2. engagements' = [engagements EXCEPT ![v] = @ \cup {plan[p]}] /\ receipts' = receipts
    BY <1>5 DEF Link
  <2>3. TypeOK'
    BY <2>1, <2>2 DEF Inv, TypeOK, Link, Goto
  <2>4. Stored' = Stored /\ OwnRefs' /\ ClaimsUnique'
    BY <2>2 DEF Inv, OwnRefs, ClaimsUnique, Stored
  <2>5. engagements'[v] = {plan[p]} /\ \A w \in Versions : w # v => engagements'[w] = engagements[w]
    BY <2>1, <2>2 DEF Inv, TypeOK
  <2>6. RegisteredOnce'
    BY <2>5 DEF Inv, RegisteredOnce
  <2>7. Working'
    BY <1>1, <1>2, <2>1 DEF Working
  <2> QED BY <1>3, <2>3, <2>4, <2>6, <2>7 DEF Inv
<1> QED BY <1>4, <1>5

\* A process that dies gives the lock back and leaves its temporary file behind.
LEMMA CrashInv ==
  ASSUME Inv, NEW p \in Processes, Crash(p)
  PROVE  Inv'
<1>1. TypeOK'
  BY DEF Inv, TypeOK, Crash, disk
<1>2. pc'[p] = "down" /\ \A q \in Processes : q # p => pc'[q] = pc[q]
  BY DEF Inv, TypeOK, Crash
<1>3. \A q \in Processes : q # p => job'[q] = job[q] /\ plan'[q] = plan[q]
  BY DEF Inv, TypeOK, Crash
<1>4. Mutex' /\ TemporaryKept'
  BY <1>2, NoneIsNothing DEF Inv, Mutex, TemporaryKept, Crash
<1>5. Working'
  BY <1>2, <1>3, FilesAlone DEF Inv, Working, Crash, disk
<1> QED BY <1>1, <1>4, <1>5, FilesAlone DEF Inv, Crash, disk

LEMMA RestartInv ==
  ASSUME Inv, NEW p \in Processes, Restart(p)
  PROVE  Inv'
<1>1. \A q \in Processes : pc[q] \notin Busy
  BY NoneIsNothing DEF Inv, Mutex, Restart
<1>2. TypeOK'
  BY DEF Inv, TypeOK, Restart, Goto, disk
<1>3. \A q \in Processes : pc'[q] \notin Busy
  BY <1>1 DEF Inv, TypeOK, Restart, Goto
<1>4. Mutex' /\ Working' /\ TemporaryKept'
  BY <1>3, NoneIsNothing DEF Mutex, Working, TemporaryKept, Restart, Goto
<1> QED BY <1>2, <1>4, FilesAlone DEF Inv, Restart, Goto, disk

LEMMA LosePowerInv ==
  ASSUME Inv, NEW lost \in SUBSET unsynced, LosePower(lost)
  PROVE  Inv'
<1>1. \A q \in Processes : pc'[q] = "down"
  BY DEF LosePower
<1>2. \A r \in Raws : receipts'[r] = receipts[r] \/ receipts'[r] = None
  BY DEF LosePower
<1>3. \A v \in Versions : engagements'[v] = engagements[v] \/ engagements'[v] = {}
  BY DEF LosePower
<1>4. TypeOK'
  BY DEF Inv, TypeOK, LosePower
<1>5. Mutex' /\ Working' /\ TemporaryKept'
  BY <1>1, NoneIsNothing DEF Mutex, Working, TemporaryKept, LosePower
<1>6. OwnRefs' /\ ClaimsUnique'
  BY <1>2 DEF Inv, OwnRefs, ClaimsUnique, Stored
<1>7. RegisteredOnce'
  BY <1>3 DEF Inv, RegisteredOnce
<1> QED BY <1>4, <1>5, <1>6, <1>7 DEF Inv

\* Damage and write-back change nothing that a call relies on.
LEMMA AsideInv ==
  ASSUME Inv, UNCHANGED <<receipts, engagements, temps, lock, pc, job, plan, told>>,
         damaged' \subseteq Raws \cup Versions, unsynced' \subseteq Raws \cup Versions
  PROVE  Inv'
<1>1. TypeOK'
  BY DEF Inv, TypeOK
<1>2. Mutex' /\ TemporaryKept'
  BY DEF Inv, Mutex, TemporaryKept
<1>3. Working'
  BY FilesAlone DEF Inv, Working
<1> QED BY <1>1, <1>2, <1>3, FilesAlone DEF Inv

LEMMA AnswersTyped ==
  ASSUME Inv, NEW p \in Processes, Replay(p) \/ Answer(p)
  PROVE  told' \in SUBSET (Raws \X Receipts)
<1>1. CASE Replay(p)
  BY <1>1, NoneIsNothing DEF Inv, TypeOK, Working, Replay
<1>2. CASE Answer(p)
  <2>1. job[p] \in Raws => plan[p] \in Receipts
    BY <1>2, PdxAssumption DEF Inv, Working, Answer
  <2> QED BY <1>2, <2>1 DEF Inv, TypeOK, Answer
<1> QED BY <1>1, <1>2

LEMMA StepInv ==
  ASSUME Inv, NEW p \in Processes, Step(p)
  PROVE  Inv'
<1>1. CASE \E v \in Versions, c \in Contents : Register(p, v, c)
  BY <1>1, EnterInv DEF Register
<1>2. CASE \E r \in Raws : Import(p, r)
  BY <1>2, EnterInv DEF Import
<1>3. CASE RegisterAnswered(p) \/ ReadFails(p) \/ UnlinkFails(p)
  BY <1>3, LeaveInv DEF RegisterAnswered, ReadFails, UnlinkFails, disk, Inv, TypeOK
<1>4. CASE WriteFails(p)
  BY <1>4, LeaveInv DEF WriteFails, disk, Inv, TypeOK
<1>5. CASE Replay(p)
  BY <1>5, AnswersTyped, LeaveInv DEF Replay, disk, Inv, TypeOK
<1>6. CASE Answer(p)
  BY <1>6, AnswersTyped, LeaveInv DEF Answer, disk, Inv, TypeOK
<1> QED BY <1>1, <1>2, <1>3, <1>4, <1>5, <1>6, RegisterNewInv, RejectInv, JudgeInv,
           WriteTemporaryInv, LinkInv, CrashInv, RestartInv DEF Step
LEMMA NextInv == Inv /\ [Next]_vars => Inv'
<1> SUFFICES ASSUME Inv, [Next]_vars PROVE Inv'
  OBVIOUS
<1>1. CASE \E p \in Processes : Step(p)
  BY <1>1, StepInv
<1>2. CASE Damages
  BY <1>2, AsideInv DEF Damages, Damage, Inv, TypeOK
<1>3. CASE \E x \in unsynced : WriteBack(x)
  BY <1>3, AsideInv DEF WriteBack, Inv, TypeOK
<1>4. CASE \E lost \in SUBSET unsynced : LosePower(lost)
  BY <1>4, LosePowerInv
<1>5. CASE UNCHANGED vars
  BY <1>5, AsideInv DEF vars, Inv, TypeOK
<1> QED BY <1>1, <1>2, <1>3, <1>4, <1>5 DEF Next

\* The inductive invariant holds in every behaviour, power losses included.
THEOREM StoreInvariant == Spec => []Inv
BY InitInv, NextInv, PTL DEF Spec

\* Every variable of the evidence store keeps its type.
THEOREM StoreTypes == Spec => []TypeOK
<1>1. Inv => TypeOK
  BY DEF Inv
<1> QED BY <1>1, StoreInvariant, PTL

\* No two accepted receipts of the journal ever disagree on a capture
\* (_accepted_capture_claims under the import lock), even after a loss of power.
THEOREM ClaimsAreUnique == Spec => []ClaimsUnique
<1>1. Inv => ClaimsUnique
  BY DEF Inv
<1> QED BY <1>1, StoreInvariant, PTL

\* The store never holds two registrations of one engagement version with different
\* contents (register_engagement).  This is about what is there at one moment: when a
\* loss of power has taken a registration, the version may be registered again.
THEOREM RegistrationsAreUnique == Spec => []RegisteredOnce
<1>1. Inv => RegisteredOnce
  BY DEF Inv
<1> QED BY <1>1, StoreInvariant, PTL

\* Nobody cleans up the temporary file that another process is about to link.
THEOREM TemporariesAreKept == Spec => []TemporaryKept
<1>1. Inv => TemporaryKept
  BY DEF Inv
<1> QED BY <1>1, StoreInvariant, PTL

-----------------------------------------------------------------------------
(* Replays.                                                                *)

LEMMA StepKinds ==
  ASSUME [Next]_vars
  PROVE  \/ \E p \in Processes : Step(p)
         \/ \E lost \in SUBSET unsynced : LosePower(lost)
         \/ UNCHANGED <<receipts, engagements, told>>
BY DEF Next, Damages, Damage, WriteBack, vars

\* A step of a process leaves the journal and the registry alone, or it is a link.
LEMMA OnlyLinkWrites ==
  ASSUME NEW p \in Processes, Step(p)
  PROVE  Link(p) \/ UNCHANGED <<receipts, engagements>>
BY DEF Step, Register, Import, RegisterAnswered, RegisterNew, Replay, Reject, ReadFails,
       Judge, WriteTemporary, WriteFails, Answer, UnlinkFails, Crash, Restart, disk

LEMMA ReceiptsStay ==
  ASSUME Inv, NEW p \in Processes, Step(p), NEW r \in Raws, receipts[r] # None
  PROVE  receipts'[r] = receipts[r]
<1>1. ASSUME Link(p) PROVE receipts'[r] = receipts[r]
  <2>1. CASE job[p] \in Raws
    <3>1. receipts[job[p]] = None
      BY <1>1, <2>1, PdxAssumption DEF Inv, Working, Link
    <3> QED BY <1>1, <2>1, <3>1 DEF Inv, TypeOK, Link
  <2>2. CASE job[p] \notin Raws
    BY <1>1, <2>2 DEF Link
  <2> QED BY <2>1, <2>2
<1> QED BY <1>1, OnlyLinkWrites

\* What a step adds to the answers is what the journal holds.
LEMMA AnswersAreStored ==
  ASSUME Inv, NEW p \in Processes, Step(p), NEW t \in told', t \notin told
  PROVE  t[1] \in Raws /\ receipts[t[1]] = t[2] /\ t[2] # None
<1>1. Replay(p) \/ Answer(p)
  BY DEF Step, Register, Import, RegisterAnswered, RegisterNew, Reject, ReadFails,
       Judge, WriteTemporary, WriteFails, Link, UnlinkFails, Crash, Restart
<1>2. CASE Replay(p)
  BY <1>2 DEF Inv, Working, Replay
<1>3. CASE Answer(p)
  BY <1>3, NoneIsNothing, PdxAssumption DEF Inv, Working, Answer
<1> QED BY <1>1, <1>2, <1>3

\* Importing the same bytes again returns the original receipt, across any number of
\* crashes, restarts and damaged files, unless a loss of power took the receipt.
THEOREM ReplaysAreOriginal == Spec => []ReplayIsOriginal
<1>1. Init => ReplayIsOriginal
  BY DEF Init, ReplayIsOriginal
<1>2. Inv /\ ReplayIsOriginal /\ [Next]_vars => ReplayIsOriginal'
  <2> SUFFICES ASSUME Inv, ReplayIsOriginal, [Next]_vars, NEW t \in told'
               PROVE  receipts'[t[1]] = t[2]
    BY DEF ReplayIsOriginal
  <2>1. ASSUME t \in told
        PROVE  t[1] \in Raws /\ receipts[t[1]] = t[2] /\ t[2] # None
    BY <2>1, NoneIsNothing DEF Inv, TypeOK, ReplayIsOriginal
  <2>2. CASE \E p \in Processes : Step(p)
    <3>1. PICK p \in Processes : Step(p)
      BY <2>2
    <3>2. t[1] \in Raws /\ receipts[t[1]] = t[2] /\ t[2] # None
      BY <2>1, <3>1, AnswersAreStored
    <3> QED BY <3>1, <3>2, ReceiptsStay
  <2>3. ASSUME NEW lost \in SUBSET unsynced, LosePower(lost)
        PROVE  receipts'[t[1]] = t[2]
    <3>1. t \in told /\ t[1] \notin lost
      BY <2>3 DEF LosePower
    <3> QED BY <2>1, <2>3, <3>1 DEF LosePower
  <2>4. CASE UNCHANGED <<receipts, engagements, told>>
    BY <2>1, <2>4
  <2> QED BY <2>2, <2>3, <2>4, StepKinds
<1> QED BY <1>1, <1>2, StoreInvariant, PTL DEF Spec

-----------------------------------------------------------------------------
(* The store implements AbstractEvidence.                                  *)

LEMMA RegistryHolds ==
  ASSUME NEW v \in Versions, NEW c \in Contents, engagements[v] = {c}
  PROVE  Registry[v] = c
BY DEF Registry, Registered

LEMMA LinkImplements ==
  ASSUME Inv, NEW p \in Processes, Link(p)
  PROVE  Promise!Next
<1>1. CASE job[p] \in Raws
  <2> DEFINE r == job[p]
             value == plan[p]
  <2>1. receipts[r] = None /\ Fits(r, value)
    BY <1>1, PdxAssumption DEF Inv, Working, Link
  <2>2. receipts' = [receipts EXCEPT ![r] = value] /\ engagements' = engagements
    BY <1>1 DEF Link
  <2>3. Registry' = Registry
    BY <2>2 DEF Registry
  <2>4. CASE value \in [status : {"REJECT", "QUARANTINE"}, refs : {{}}]
    <3>1. Promise!RecordNothing(r)
      BY <2>1, <2>2, <2>3, <2>4 DEF Promise!RecordNothing
    <3> QED BY <1>1, <3>1 DEF Promise!Next
  <2>5. CASE /\ value = [status |-> "ACCEPT", refs |-> Captures[r]]
             /\ Granted(r) /\ NoConflict(r)
    <3>1. PICK c \in Matches[r] : engagements[Version[r]] = {c}
      BY <2>5 DEF Granted
    <3>2. Registry[Version[r]] \in Matches[r]
      BY <1>1, <3>1, RegistryHolds, PdxAssumption
    <3>3. \A q \in Raws : receipts[q] # None =>
            \A x \in Captures[r], y \in receipts[q].refs : Promise!Agree(x, y)
      BY <2>5 DEF NoConflict, Stored, Agree, Promise!Agree
    <3>4. Promise!Accept(r)
      BY <2>1, <2>2, <2>3, <2>5, <3>2, <3>3 DEF Promise!Accept
    <3> QED BY <1>1, <3>4 DEF Promise!Next
  <2> QED BY <2>1, <2>4, <2>5 DEF Fits
<1>2. CASE job[p] \notin Raws
  <2> DEFINE v == job[p]
             c == plan[p]
  <2>1. v \in Versions /\ engagements[v] = {} /\ c \in Contents
    BY <1>2 DEF Inv, Working, Link
  <2>2. engagements' = [engagements EXCEPT ![v] = {c}] /\ receipts' = receipts
    BY <1>2, <2>1 DEF Inv, TypeOK, Link
  <2>3. Registry[v] = None
    BY <2>1 DEF Registry, Registered
  <2>4. Registry' = [Registry EXCEPT ![v] = c]
    <3>1. \A w \in Versions : w # v => Registry'[w] = Registry[w]
      BY <2>1, <2>2 DEF Inv, TypeOK, Registry
    <3>2. engagements'[v] = {c}
      BY <2>1, <2>2 DEF Inv, TypeOK
    <3>3. Registry'[v] = c
      BY <2>1, <3>2 DEF Registry, Registered
    <3>4. /\ Registry = [w \in Versions |-> Registry[w]]
          /\ Registry' = [w \in Versions |-> Registry'[w]]
      BY DEF Registry
    <3> QED BY <2>1, <3>1, <3>3, <3>4
  <2>5. Promise!Register(v, c)
    BY <2>2, <2>3, <2>4 DEF Promise!Register
  <2> QED BY <2>1, <2>5 DEF Promise!Next
<1> QED BY <1>1, <1>2

\* What is lost with the power is forgotten in the promise too.
LEMMA LosePowerImplements ==
  ASSUME Inv, NEW lost \in SUBSET unsynced, LosePower(lost)
  PROVE  Promise!Next
<1>1. lost \in SUBSET (Raws \cup Versions)
  BY DEF Inv, TypeOK
<1>2. Registry' = [v \in Versions |-> IF v \in lost THEN None ELSE Registry[v]]
  <2>1. ASSUME NEW v \in Versions
        PROVE  Registry'[v] = IF v \in lost THEN None ELSE Registry[v]
    <3>1. CASE v \in lost
      <4>1. engagements'[v] = {}
        BY <3>1 DEF LosePower
      <4> QED BY <3>1, <4>1 DEF Registry, Registered
    <3>2. CASE v \notin lost
      <4>1. engagements'[v] = engagements[v]
        BY <3>2 DEF LosePower
      <4> QED BY <3>2, <4>1 DEF Registry
    <3> QED BY <3>1, <3>2
  <2>2. Registry' = [v \in Versions |-> Registry'[v]]
    BY DEF Registry
  <2> QED BY <2>1, <2>2
<1>3. Promise!Forget(lost)
  BY <1>2 DEF LosePower, Promise!Forget
<1> QED BY <1>1, <1>3 DEF Promise!Next

\* Whatever processes, crashes and damaged files do, the store only registers once and
\* only records receipts that accept what is authorised and free of conflicts.
THEOREM EvidenceImplemented == Spec => ImplementsEvidence
<1>1. Init => Promise!Init
  BY DEF Init, Promise!Init, Registry, Registered
<1>2. Inv /\ [Next]_vars => [Promise!Next]_<<Registry, receipts>>
  <2> SUFFICES ASSUME Inv, [Next]_vars PROVE [Promise!Next]_<<Registry, receipts>>
    OBVIOUS
  <2>1. CASE UNCHANGED <<receipts, engagements>>
    BY <2>1 DEF Registry
  <2>2. ASSUME NEW p \in Processes, Link(p) PROVE Promise!Next
    BY <2>2, LinkImplements
  <2> QED BY <2>1, <2>2, LosePowerImplements, StepKinds, OnlyLinkWrites
<1> QED BY <1>1, <1>2, StoreInvariant, PTL DEF Spec, ImplementsEvidence, Promise!Spec
=============================================================================

-------------------------- MODULE PdxEvidenceStore --------------------------
(***************************************************************************)
(* PDXEvidenceStore of belief/pdx/attestation_store.py: processes that     *)
(* register engagements and import attestations into one directory, under  *)
(* a file lock, and may fail or die between any two of its durable steps.  *)
(* An attestation is known by the hash of its bytes.                       *)
(***************************************************************************)
EXTENDS FiniteSets

CONSTANTS
  Processes,
  Raws,       \* attestations, by the hash of their bytes
  Valid,      \* those that parse_attestation accepts
  Captures,   \* Captures[r]: pairs of capture id and observation hash
  Versions,   \* engagement id and version
  Version,    \* Version[r]: the engagement that r names
  Contents,   \* contents of a registration
  Matches,    \* Matches[r]: contents that authorise r
  PowerLoss,  \* the machine may lose power
  None

Pairs == UNION {Captures[r] : r \in Raws}

ASSUME PdxAssumption ==
  /\ Valid \subseteq Raws
  /\ Version \in [Raws -> Versions]
  /\ Matches \in [Raws -> SUBSET Contents]
  /\ Captures \in [Raws -> SUBSET Pairs]
  /\ PowerLoss \in BOOLEAN
  /\ Raws \cap Versions = {}
  /\ None \notin Processes \cup Contents \cup Raws \cup Versions
  /\ None \notin [status : {"ACCEPT", "QUARANTINE", "REJECT"}, refs : SUBSET Pairs]

\* attestation.observations are unique by capture id
ASSUME CapturesUnique ==
  \A r \in Raws : \A x, y \in Captures[r] : x[1] = y[1] => x[2] = y[2]

VARIABLES
  receipts,     \* receipts[r]: the content of the receipt file of r
  engagements,  \* engagements[v]: the contents that have a file for version v
  damaged,      \* receipts and versions whose files cannot be read any more
  unsynced,     \* those whose directory entries a power loss can take (PowerLoss)
  temps,        \* processes whose temporary file is in a directory
  lock,         \* holder of .import.lock
  pc, job,      \* pc[p], job[p]: what process p does, and for which raw or version
  plan,         \* plan[p]: the receipt or content that p is going to publish
  told          \* history: what callers were told of receipts that no power loss took

disk == <<receipts, engagements, damaged, unsynced>>
vars == <<receipts, engagements, damaged, unsynced, temps, lock, pc, job, plan, told>>

Receipts == [status : {"ACCEPT", "QUARANTINE", "REJECT"}, refs : SUBSET Pairs]

Agree(x, y) == x[1] = y[1] => x[2] = y[2]

Init ==
  /\ receipts = [r \in Raws |-> None]
  /\ engagements = [v \in Versions |-> {}]
  /\ damaged = {} /\ unsynced = {} /\ temps = {}
  /\ lock = None
  /\ pc = [p \in Processes |-> "idle"]
  /\ job = [p \in Processes |-> None]
  /\ plan = [p \in Processes |-> None]
  /\ told = {}

\* what follows the publication of p, and the failure of a step
Goto(p, place) == pc' = [pc EXCEPT ![p] = place] /\ UNCHANGED <<lock, job, plan>>

Leave(p) ==
  /\ lock' = None
  /\ pc' = [pc EXCEPT ![p] = "idle"]
  /\ job' = [job EXCEPT ![p] = None]
  /\ plan' = [plan EXCEPT ![p] = None]

Prepare(p, value) ==
  /\ pc' = [pc EXCEPT ![p] = "write"]
  /\ plan' = [plan EXCEPT ![p] = value]
  /\ UNCHANGED <<lock, job>>

Enter(p, place, what) ==
  /\ pc[p] = "idle"
  /\ lock = None
  /\ lock' = p
  /\ pc' = [pc EXCEPT ![p] = place]
  /\ job' = [job EXCEPT ![p] = what]

-----------------------------------------------------------------------------
(* register_engagement.                                                    *)

Register(p, v, c) ==
  /\ Enter(p, "register", v)
  /\ plan' = [plan EXCEPT ![p] = c]
  /\ UNCHANGED <<disk, temps, told>>

\* already present, different, ambiguous or unreadable: nothing is written
RegisterAnswered(p) ==
  /\ pc[p] = "register"
  /\ engagements[job[p]] # {}
  /\ Leave(p)
  /\ UNCHANGED <<disk, temps, told>>

RegisterNew(p) ==
  /\ pc[p] = "register"
  /\ engagements[job[p]] = {}
  /\ Goto(p, "write")
  /\ UNCHANGED <<disk, temps, told>>

-----------------------------------------------------------------------------
(* import_attestation_bytes.                                               *)

Import(p, r) ==
  /\ Enter(p, "import", r)
  /\ UNCHANGED <<plan, disk, temps, told>>

Replay(p) ==
  /\ pc[p] = "import"
  /\ receipts[job[p]] # None
  /\ job[p] \notin damaged
  /\ told' = told \cup {<<job[p], receipts[job[p]]>>}
  /\ Leave(p)
  /\ UNCHANGED <<disk, temps>>

Reject(p) ==
  /\ pc[p] = "import"
  /\ receipts[job[p]] = None
  /\ job[p] \notin Valid
  /\ Prepare(p, [status |-> "REJECT", refs |-> {}])
  /\ UNCHANGED <<disk, temps, told>>

Stored == {r \in Raws : receipts[r] # None}

\* the receipt cannot be read, or another one that _accepted_capture_claims reads
ReadFails(p) ==
  /\ pc[p] = "import"
  /\ IF receipts[job[p]] # None
       THEN job[p] \in damaged
       ELSE job[p] \in Valid /\ Stored \cap damaged # {}
  /\ Leave(p)
  /\ UNCHANGED <<disk, temps, told>>

\* mutant: an engagement that nobody registered mismatches nothing
AuthorisedUnlessMismatch(r) ==
  /\ Version[r] \notin damaged
  /\ engagements[Version[r]] \subseteq Matches[r]

\* a registration that cannot be read or is not unique authorises nothing
Authorised(r) ==
  /\ Version[r] \notin damaged
  /\ \E c \in Matches[r] : engagements[Version[r]] = {c}

NoConflict(r) ==
  \A q \in Stored : \A x \in Captures[r], y \in receipts[q].refs : Agree(x, y)

\* mutant: receipts that cannot be read are passed over
JudgeReadable(p) ==
  /\ pc[p] = "import"
  /\ receipts[job[p]] = None
  /\ job[p] \in Valid
  /\ IF /\ Authorised(job[p])
        /\ \A q \in Stored \ damaged :
             \A x \in Captures[job[p]], y \in receipts[q].refs : Agree(x, y)
       THEN Prepare(p, [status |-> "ACCEPT", refs |-> Captures[job[p]]])
       ELSE Prepare(p, [status |-> "QUARANTINE", refs |-> {}])
  /\ UNCHANGED <<disk, temps, told>>

Judge(p) ==
  /\ pc[p] = "import"
  /\ receipts[job[p]] = None
  /\ job[p] \in Valid
  /\ Stored \cap damaged = {}
  /\ IF Authorised(job[p]) /\ NoConflict(job[p])
       THEN Prepare(p, [status |-> "ACCEPT", refs |-> Captures[job[p]]])
       ELSE Prepare(p, [status |-> "QUARANTINE", refs |-> {}])
  /\ UNCHANGED <<disk, temps, told>>

-----------------------------------------------------------------------------
(* _atomic_write: a synced temporary file, a link, and the unlink.         *)

WriteTemporary(p) ==
  /\ pc[p] = "write"
  /\ temps' = temps \cup {p}
  /\ Goto(p, "link")
  /\ UNCHANGED <<disk, told>>

\* the disk is full, or the link is refused
WriteFails(p) ==
  /\ pc[p] \in {"write", "link"}
  /\ temps' = temps \ {p}
  /\ Leave(p)
  /\ UNCHANGED <<disk, told>>

\* os.link fails when its source is gone
Link(p) ==
  /\ pc[p] = "link"
  /\ p \in temps
  /\ IF job[p] \in Raws
       THEN /\ receipts' = [receipts EXCEPT ![job[p]] = plan[p]]
            /\ UNCHANGED engagements
       ELSE /\ engagements' = [engagements EXCEPT ![job[p]] = @ \cup {plan[p]}]
            /\ UNCHANGED receipts
  /\ unsynced' = IF PowerLoss THEN unsynced \cup {job[p]} ELSE unsynced
  /\ Goto(p, "unlink")
  /\ UNCHANGED <<damaged, temps, told>>

\* mutant: the caller is answered before the receipt is linked
AnswerEarly(p) ==
  /\ pc[p] \in {"link", "unlink"}
  /\ temps' = temps \ {p}
  /\ told' = IF job[p] \in Raws THEN told \cup {<<job[p], plan[p]>>} ELSE told
  /\ Leave(p)
  /\ UNCHANGED disk

Answer(p) ==
  /\ pc[p] = "unlink"
  /\ temps' = temps \ {p}
  /\ told' = IF job[p] \in Raws THEN told \cup {<<job[p], plan[p]>>} ELSE told
  /\ Leave(p)
  /\ UNCHANGED disk

\* the unlink raises: an error for what has been published
UnlinkFails(p) ==
  /\ pc[p] = "unlink"
  /\ Leave(p)
  /\ UNCHANGED <<disk, temps, told>>

-----------------------------------------------------------------------------
(* Crashes, restarts, damage and power.                                    *)

Crash(p) ==
  /\ pc[p] # "down"
  /\ pc' = [pc EXCEPT ![p] = "down"]
  /\ lock' = IF lock = p THEN None ELSE lock
  /\ job' = [job EXCEPT ![p] = None]
  /\ plan' = [plan EXCEPT ![p] = None]
  /\ UNCHANGED <<disk, temps, told>>

\* __init__, with _cleanup_temporary_files under the lock
Restart(p) ==
  /\ pc[p] = "down"
  /\ lock = None
  /\ temps' = {}
  /\ Goto(p, "idle")
  /\ UNCHANGED <<disk, told>>

Damage(x) ==
  /\ damaged' = damaged \cup {x}
  /\ UNCHANGED <<receipts, engagements, unsynced, temps, lock, pc, job, plan, told>>

Damages ==
  \/ \E r \in Raws : receipts[r] # None /\ Damage(r)
  \/ \E v \in Versions : engagements[v] # {} /\ Damage(v)

\* the kernel writes a directory back, in its own time
WriteBack(x) ==
  /\ x \in unsynced
  /\ unsynced' = unsynced \ {x}
  /\ UNCHANGED <<receipts, engagements, damaged, temps, lock, pc, job, plan, told>>

\* every process dies, and any set of entries not written back is gone
LosePower(lost) ==
  /\ PowerLoss
  /\ lost \subseteq unsynced
  /\ receipts' = [r \in Raws |-> IF r \in lost THEN None ELSE receipts[r]]
  /\ engagements' = [v \in Versions |-> IF v \in lost THEN {} ELSE engagements[v]]
  /\ unsynced' = {}
  /\ lock' = None
  /\ pc' = [p \in Processes |-> "down"]
  /\ job' = [p \in Processes |-> None]
  /\ plan' = [p \in Processes |-> None]
  /\ damaged' = damaged \ lost
  /\ told' = {t \in told : t[1] \notin lost}
  /\ UNCHANGED temps

-----------------------------------------------------------------------------

Step(p) ==
  \/ \E v \in Versions, c \in Contents : Register(p, v, c)
  \/ \E r \in Raws : Import(p, r)
  \/ RegisterAnswered(p) \/ RegisterNew(p)
  \/ Replay(p) \/ Reject(p) \/ ReadFails(p) \/ Judge(p)
  \/ WriteTemporary(p) \/ WriteFails(p) \/ Link(p) \/ Answer(p) \/ UnlinkFails(p)
  \/ Crash(p) \/ Restart(p)

Next ==
  \/ \E p \in Processes : Step(p)
  \/ Damages
  \/ \E x \in unsynced : WriteBack(x)
  \/ \E lost \in SUBSET unsynced : LosePower(lost)

Spec == Init /\ [][Next]_vars

-----------------------------------------------------------------------------
(* Properties.                                                             *)

Places == {"idle", "register", "import", "write", "link", "unlink", "down"}

\* Every variable has its type.
TypeOK ==
  /\ receipts \in [Raws -> Receipts \cup {None}]
  /\ engagements \in [Versions -> SUBSET Contents]
  /\ damaged \subseteq Raws \cup Versions
  /\ unsynced \subseteq Raws \cup Versions
  /\ temps \subseteq Processes
  /\ lock \in Processes \cup {None}
  /\ pc \in [Processes -> Places]
  /\ job \in [Processes -> Raws \cup Versions \cup {None}]
  /\ plan \in [Processes -> Receipts \cup Contents \cup {None}]
  /\ told \subseteq Raws \X Receipts

\* "The same capture id with a different observation hash is quarantined": no two
\* accepted receipts disagree on a capture, in whatever order and by however many
\* processes they were imported, and although some of them cannot be read any more.
ClaimsUnique ==
  \A r, q \in Stored : \A x \in receipts[r].refs, y \in receipts[q].refs : Agree(x, y)

\* "One id/version pair is create-only": at no moment does a version have two contents.
RegisteredOnce ==
  \A v \in Versions : \A c, d \in engagements[v] : c = d

\* "Re-importing the same bytes after restart returns the original receipt": no two
\* callers, before or after a crash, are told different receipts for the same bytes,
\* and what they are told is what the journal holds, unless the directory entry of
\* the receipt was lost with the power.
ReplayIsOriginal == \A t \in told : receipts[t[1]] = t[2]

\* A process that is going to link its temporary file still has it: no other
\* process cleans it up.
TemporaryKept == \A p \in Processes : pc[p] \in {"link", "unlink"} => p \in temps

\* the content that a set of at most one registration stands for
Registered(files) == IF files = {} THEN None ELSE CHOOSE c \in Contents : c \in files

Registry == [v \in Versions |-> Registered(engagements[v])]

Promise == INSTANCE AbstractEvidence WITH registry <- Registry, journal <- receipts

\* Seen through its files, and whatever fails in between, the store does nothing but
\* register once, record receipts that accept only what is authorised and free of
\* conflicts at that moment, and lose with the power what was not written back.
ImplementsEvidence == Promise!Spec
=============================================================================

-------------------------- MODULE ValidationLedger --------------------------
(***************************************************************************)
(* The durable proof ledger of belief/validation/ledger.py, one scope of   *)
(* it, at the granularity of its durable file operations.  Every write is  *)
(* a temporary file that is fsynced and then linked or renamed into place, *)
(* so one write is one step, and a process can be killed, or get an        *)
(* OSError, between any two of them.  The ledger lock is held from the     *)
(* first read of a call to its last write; a kill releases it.             *)
(*                                                                         *)
(* Both kinds of record, attempts and terminals, go through the same code  *)
(* with a field_name, so the files are functions of a field and an id.     *)
(***************************************************************************)
EXTENDS Integers, FiniteSets

CONSTANTS
  Procs,              \* processes (or threads) that share the ledger root
  AttemptIds,
  AttemptContents,    \* an attempt record without started_at and integrity
  TerminalContents,   \* a terminal record without finished_at and integrity
  Stamps,             \* values of started_at and finished_at
  Objects,            \* objects of the content-addressed store
  Evidence,           \* the objects a content refers to
  Authorities,
  None,
  MaxScopeAttempts,   \* max_scope_attempts
  InventoryCapacity,  \* entries that fit an inventory of max_record_bytes
  MaxFaults,          \* bound: kills and OSErrors
  MaxLosses           \* bound: files lost while no call is running

Contents == AttemptContents \cup TerminalContents
AttemptRecords == [content : AttemptContents, stamp : Stamps]
TerminalRecords == [content : TerminalContents, stamp : Stamps]
Records == AttemptRecords \cup TerminalRecords
RecordsOf(f) == IF f = "attempts" THEN AttemptRecords ELSE TerminalRecords

ASSUME ConstantsAssumption ==
  /\ IsFiniteSet(AttemptIds)
  /\ Evidence \in [Contents -> SUBSET Objects]
  /\ MaxScopeAttempts \in Nat \ {0}
  /\ InventoryCapacity \in Nat
  /\ MaxFaults \in Nat
  /\ MaxLosses \in Nat
  /\ None \notin Records \cup Authorities \cup Procs

VARIABLES
  manifest,     \* authority.json: the registered authority, or None
  inventoried,  \* inventory.json exists
  revision,     \* its revision
  entries,      \* its entries: entries[f][a] is the record digest, or None
  records,      \* <field>/<id>.json
  pending,      \* pending/<field>/<id>.json
  cas,          \* objects present in cas/sha256
  lock,         \* holder of .ledger.lock, or None
  call,         \* call[p]: the call p is executing, or None
  phase,        \* phase[p]: how far it has come
  outcome,      \* outcome[p]: how p's last call ended
  handles,      \* handles[p]: the attempt handles p holds in memory
  acked,        \* history: contents that callers were told are durable
  pin,          \* the last snapshot a caller was given, kept outside the ledger
  faults, losses

inventory == <<inventoried, revision, entries>>
disk == <<manifest, inventoried, revision, entries, records, pending, cas>>
history == <<acked, pin, faults, losses>>
vars == <<manifest, inventoried, revision, entries, records, pending, cas,
          lock, call, phase, outcome, handles, acked, pin, faults, losses>>

Fields == {"attempts", "terminals"}
NoRecords == [a \in AttemptIds |-> None]
NoFiles == [f \in Fields |-> NoRecords]

Listed(f) == {a \in AttemptIds : entries[f][a] # None}
NoPending == pending = NoFiles

Calls ==
  [kind : {"register"}, authority : Authorities]
    \cup [kind : {"begin"}, authority : Authorities, id : AttemptIds,
          record : AttemptRecords]
    \cup [kind : {"finish"}, id : AttemptIds, handle : AttemptContents,
          record : TerminalRecords]
    \cup [kind : {"resume"}, authority : Authorities, id : AttemptIds]
    \cup [kind : {"load"}, authority : Authorities, pinned : BOOLEAN]

Phases == {"idle", "enter", "recover", "store", "publish", "return"}

\* "rejected": the caller asked for something the ledger does not allow;
\* "refused": the ledger found its own durable state invalid
Outcomes == {"none", "ok", "rejected", "refused", "fault"}

Init ==
  /\ manifest = None
  /\ inventoried = FALSE
  /\ revision = 0
  /\ entries = NoFiles
  /\ records = NoFiles
  /\ pending = NoFiles
  /\ cas = {}
  /\ lock = None
  /\ call = [p \in Procs |-> None]
  /\ phase = [p \in Procs |-> "idle"]
  /\ outcome = [p \in Procs |-> "none"]
  /\ handles = [p \in Procs |-> {}]
  /\ acked = [f \in Fields |-> {}]
  /\ pin = None
  /\ faults = 0
  /\ losses = 0

-----------------------------------------------------------------------------
(* Entering and leaving a call, under the ledger lock.                     *)

Invoke(p, c, at) ==
  /\ lock = None
  /\ lock' = p
  /\ call' = [call EXCEPT ![p] = c]
  /\ phase' = [phase EXCEPT ![p] = at]
  /\ UNCHANGED <<disk, outcome, handles, history>>

Leave(p, how) ==
  /\ lock' = None
  /\ call' = [call EXCEPT ![p] = None]
  /\ phase' = [phase EXCEPT ![p] = "idle"]
  /\ outcome' = [outcome EXCEPT ![p] = how]

Reject(p, why) ==
  /\ Leave(p, why)
  /\ UNCHANGED <<disk, handles, history>>

\* the call goes on, in the same phase
Continue == UNCHANGED <<lock, call, phase, outcome, handles, history>>

MoveTo(p, at) ==
  /\ phase' = [phase EXCEPT ![p] = at]
  /\ UNCHANGED <<lock, call, outcome, handles, history>>

Kind(p) == call[p].kind
In(p, at) == lock = p /\ phase[p] = at
Publishes(p) == Kind(p) \in {"begin", "finish"}
Field(p) == IF Kind(p) = "begin" THEN "attempts" ELSE "terminals"

-----------------------------------------------------------------------------
(* What a record needs before the loader accepts it.                       *)

Stored(r) == Evidence[r.content] \subseteq cas

InventoryLoads ==
  /\ inventoried
  /\ Cardinality(Listed("attempts")) <= MaxScopeAttempts
  /\ Cardinality(Listed("terminals")) <= MaxScopeAttempts
  /\ revision = Cardinality(Listed("attempts"))
                  + Cardinality(Listed("terminals"))
  /\ Listed("terminals") \subseteq Listed("attempts")

\* load of attempts/<id>.json followed by the inventory check on it
AttemptRegistered(a) ==
  /\ records["attempts"][a] # None
  /\ Stored(records["attempts"][a])
  /\ InventoryLoads
  /\ entries["attempts"][a] = records["attempts"][a]

\* room for one more inventory entry, in number and in bytes
Room(f) ==
  /\ Cardinality(Listed(f)) < MaxScopeAttempts
  /\ Cardinality(Listed("attempts")) + Cardinality(Listed("terminals"))
       < InventoryCapacity

Appendable(f, a) ==
  /\ InventoryLoads
  /\ Room(f)
  /\ f = "terminals" => a \in Listed("attempts")

SameContent(r, s) == r.content = s.content

-----------------------------------------------------------------------------
(* register_scope before the manifest exists: inventory first, then the    *)
(* manifest, so a crash between the two leaves an unregistered inventory.  *)

Register(p) ==
  \E g \in Authorities : Invoke(p, [kind |-> "register", authority |-> g], "enter")

Unregistered(p) ==
  /\ In(p, "enter")
  /\ Kind(p) = "register"
  /\ manifest = None

CreateInventory(p) ==
  /\ Unregistered(p)
  /\ ~inventoried
  /\ inventoried' = TRUE
  /\ UNCHANGED <<manifest, revision, entries, records, pending, cas>>
  /\ MoveTo(p, "enter")

CreateManifest(p) ==
  /\ Unregistered(p)
  /\ InventoryLoads
  /\ Listed("attempts") = {}
  /\ manifest' = call[p].authority
  /\ UNCHANGED <<inventory, records, pending, cas>>
  /\ MoveTo(p, "return")

RefuseInventory(p) ==
  /\ Unregistered(p)
  /\ inventoried
  /\ ~(InventoryLoads /\ Listed("attempts") = {})
  /\ Reject(p, "refused")

-----------------------------------------------------------------------------
(* Every other call: the manifest must carry the caller's authority.  Only *)
(* finish_attempt does not look at it.                                     *)

Begin(p) ==
  \E g \in Authorities, a \in AttemptIds, r \in AttemptRecords :
    Invoke(p, [kind |-> "begin", authority |-> g, id |-> a, record |-> r], "enter")

Finish(p) ==
  \E h \in handles[p], r \in TerminalRecords :
    Invoke(p, [kind |-> "finish", id |-> h[1], handle |-> h[2], record |-> r],
           "recover")

Resume(p) ==
  \E g \in Authorities, a \in AttemptIds :
    Invoke(p, [kind |-> "resume", authority |-> g, id |-> a], "enter")

Load(p) ==
  \E g \in Authorities, pinned \in BOOLEAN :
    /\ pinned => pin # None
    /\ Invoke(p, [kind |-> "load", authority |-> g, pinned |-> pinned], "enter")

Checked(p) ==
  /\ In(p, "enter")
  /\ Kind(p) = "register" => manifest # None

RejectAuthority(p) ==
  /\ Checked(p)
  /\ manifest # call[p].authority
  /\ Reject(p, "rejected")

PinnedLoad(p) == Kind(p) = "load" /\ call[p].pinned

\* a pinned load never rolls anything forward
RejectPending(p) ==
  /\ Checked(p)
  /\ manifest = call[p].authority
  /\ PinnedLoad(p)
  /\ ~NoPending
  /\ Reject(p, "rejected")

\* mutant: a pinned load recovers like any other
AcceptAnyPin(p) ==
  /\ Checked(p)
  /\ manifest = call[p].authority
  /\ MoveTo(p, "recover")
  /\ UNCHANGED disk

Accept(p) ==
  /\ Checked(p)
  /\ manifest = call[p].authority
  /\ PinnedLoad(p) => NoPending
  /\ MoveTo(p, "recover")
  /\ UNCHANGED disk

-----------------------------------------------------------------------------
(* Rolling a pending record forward, in recovery or in the call that       *)
(* declared it: the record, then its inventory entry, then the intent.     *)

\* recovery takes the pending attempts before the pending terminals
Recovering(p, f, a) ==
  /\ In(p, "recover")
  /\ pending[f][a] # None
  /\ f = "terminals" => pending["attempts"] = NoRecords

Publishing(p, f, a) ==
  /\ In(p, "publish")
  /\ f = Field(p)
  /\ a = call[p].id
  /\ pending[f][a] # None

\* mutant: recovery wants the attempt in the inventory before its intent
ReloadsRegistered(f, a) ==
  /\ Stored(pending[f][a])
  /\ AttemptRegistered(a)

\* recovery reloads the intent and, for a terminal, its attempt
Reloads(f, a) ==
  /\ Stored(pending[f][a])
  /\ f = "terminals" => AttemptRegistered(a)

Rolls(p, f, a) ==
  \/ Recovering(p, f, a) /\ Reloads(f, a)
  \/ Publishing(p, f, a)

WriteRecord(p, f, a) ==
  /\ Rolls(p, f, a)
  /\ records[f][a] = None
  /\ records' = [records EXCEPT ![f][a] = pending[f][a]]
  /\ UNCHANGED <<manifest, inventory, pending, cas>>
  /\ Continue

Append(f, a, r) ==
  /\ entries' = [entries EXCEPT ![f][a] = r]
  /\ revision' = revision + 1
  /\ UNCHANGED <<manifest, inventoried, records, pending, cas>>

AppendEntry(p, f, a) ==
  /\ Rolls(p, f, a)
  /\ records[f][a] = pending[f][a]
  /\ entries[f][a] = None
  /\ Appendable(f, a)
  /\ Append(f, a, pending[f][a])
  /\ Continue

\* mutant: the intent is removed before the inventory entry is there
ClearPendingEarly(p, f, a) ==
  /\ Rolls(p, f, a)
  /\ records[f][a] = pending[f][a]
  /\ pending' = [pending EXCEPT ![f][a] = None]
  /\ UNCHANGED <<manifest, inventory, records, cas>>
  /\ Continue

ClearPending(p, f, a) ==
  /\ Rolls(p, f, a)
  /\ records[f][a] = pending[f][a]
  /\ InventoryLoads
  /\ entries[f][a] = pending[f][a]
  /\ pending' = [pending EXCEPT ![f][a] = None]
  /\ UNCHANGED <<manifest, inventory, records, cas>>
  /\ Continue

\* the checks of the roll-forward on what is already published
Contradicted(f, a) ==
  \/ records[f][a] \notin {None, pending[f][a]}
  \/ /\ records[f][a] = pending[f][a]
     /\ \/ ~InventoryLoads
        \/ entries[f][a] \notin {None, pending[f][a]}
        \/ entries[f][a] = None /\ ~Appendable(f, a)

\* mutant: recovery starts again when it refuses an intent
RetryRefused(p) ==
  /\ \E f \in Fields, a \in AttemptIds :
       /\ Recovering(p, f, a)
       /\ ~Reloads(f, a) \/ Contradicted(f, a)
  /\ MoveTo(p, "recover")
  /\ UNCHANGED disk

RecoveryRefused(p) ==
  /\ \E f \in Fields, a \in AttemptIds :
       /\ Recovering(p, f, a)
       /\ ~Reloads(f, a) \/ Contradicted(f, a)
  /\ Reject(p, "refused")

PublicationRefused(p) ==
  /\ \E f \in Fields, a \in AttemptIds :
       Publishing(p, f, a) /\ Contradicted(f, a)
  /\ Reject(p, "refused")

-----------------------------------------------------------------------------
(* begin_attempt and _finish_attempt once recovery has nothing left to do. *)

\* mutant: a call goes on without recovery
Unrecovered(p) == In(p, "recover")

Recovered(p) == In(p, "recover") /\ NoPending

Target(p) == records[Field(p)][call[p].id]

\* what begin and finish require before they look at their own record
Admissible(p) ==
  IF Kind(p) = "begin"
  THEN InventoryLoads
  ELSE /\ AttemptRegistered(call[p].id)
       /\ records["attempts"][call[p].id].content = call[p].handle

Undecided(p) ==
  /\ Recovered(p)
  /\ Publishes(p)
  /\ Admissible(p)

RefusePublication(p) ==
  /\ Recovered(p)
  /\ Publishes(p)
  /\ \/ ~Admissible(p)
     \/ /\ Target(p) # None
        /\ ~Stored(Target(p))
  /\ Reject(p, "refused")

RejectConflict(p) ==
  /\ Undecided(p)
  /\ Target(p) # None
  /\ Stored(Target(p))
  /\ ~SameContent(Target(p), call[p].record)
  /\ Reject(p, "rejected")

Replayed(p) ==
  /\ Undecided(p)
  /\ Target(p) # None
  /\ Stored(Target(p))
  /\ SameContent(Target(p), call[p].record)

Replay(p) ==
  /\ Replayed(p)
  /\ entries[Field(p)][call[p].id] = Target(p)
  /\ MoveTo(p, "return")
  /\ UNCHANGED disk

\* a published record that the inventory does not list is appended to it
Adopt(p) ==
  /\ Replayed(p)
  /\ entries[Field(p)][call[p].id] = None
  /\ Appendable(Field(p), call[p].id)
  /\ Append(Field(p), call[p].id, Target(p))
  /\ MoveTo(p, "return")

RefuseReplay(p) ==
  /\ Replayed(p)
  /\ \/ entries[Field(p)][call[p].id] \notin {None, Target(p)}
     \/ /\ entries[Field(p)][call[p].id] = None
        /\ ~Appendable(Field(p), call[p].id)
  /\ Reject(p, "refused")

\* mutant: the attempt bound is not checked before the intent is written
NeverFull(p) == FALSE

ScopeFull(p) ==
  /\ Kind(p) = "begin"
  /\ Cardinality(Listed("attempts")) >= MaxScopeAttempts

RejectLimit(p) ==
  /\ Undecided(p)
  /\ Target(p) = None
  /\ ScopeFull(p)
  /\ Reject(p, "rejected")

StartPublication(p) ==
  /\ Undecided(p)
  /\ Target(p) = None
  /\ ~ScopeFull(p)
  /\ MoveTo(p, "store")
  /\ UNCHANGED disk

\* the evidence first, object by object; an object already there is not rewritten
StoreEvidence(p) ==
  /\ In(p, "store")
  /\ \E o \in Evidence[call[p].record.content] \ cas : cas' = cas \cup {o}
  /\ UNCHANGED <<manifest, inventory, records, pending>>
  /\ Continue

\* mutant: the intent is written before the evidence
DeclareFirst(p) ==
  /\ In(p, "store")
  /\ pending' = [pending EXCEPT ![Field(p)][call[p].id] = call[p].record]
  /\ UNCHANGED <<manifest, inventory, records, cas>>
  /\ MoveTo(p, "publish")

Declare(p) ==
  /\ In(p, "store")
  /\ Stored(call[p].record)
  /\ pending' = [pending EXCEPT ![Field(p)][call[p].id] = call[p].record]
  /\ UNCHANGED <<manifest, inventory, records, cas>>
  /\ MoveTo(p, "publish")

Published(p) ==
  /\ In(p, "publish")
  /\ pending[Field(p)][call[p].id] = None
  /\ MoveTo(p, "return")
  /\ UNCHANGED disk

-----------------------------------------------------------------------------
(* The answers.  A handle is what authorises its holder to run the work.   *)

Told(f, a, c) == acked' = [acked EXCEPT ![f] = @ \cup {<<a, c>>}]

ReturnAttempt(p) ==
  /\ In(p, "return")
  /\ Kind(p) = "begin"
  /\ handles' = [handles EXCEPT ![p] = @ \cup {<<call[p].id, call[p].record.content>>}]
  /\ Told("attempts", call[p].id, call[p].record.content)
  /\ Leave(p, "ok")
  /\ UNCHANGED <<disk, pin, faults, losses>>

ReturnTerminal(p) ==
  /\ In(p, "return")
  /\ Kind(p) = "finish"
  /\ Told("terminals", call[p].id, call[p].record.content)
  /\ Leave(p, "ok")
  /\ UNCHANGED <<disk, handles, pin, faults, losses>>

ReturnScope(p) ==
  /\ \/ In(p, "return") /\ Kind(p) = "register"
     \/ Recovered(p) /\ Kind(p) = "register" /\ InventoryLoads
  /\ Leave(p, "ok")
  /\ UNCHANGED <<disk, handles, history>>

\* after a restart a handle is rebuilt from the durable attempt alone
ResumeAttempt(p) ==
  /\ Recovered(p)
  /\ Kind(p) = "resume"
  /\ AttemptRegistered(call[p].id)
  /\ LET c == records["attempts"][call[p].id].content
     IN  /\ handles' = [handles EXCEPT ![p] = @ \cup {<<call[p].id, c>>}]
         /\ Told("attempts", call[p].id, c)
  /\ Leave(p, "ok")
  /\ UNCHANGED <<disk, pin, faults, losses>>

RejectUnknown(p) ==
  /\ Recovered(p)
  /\ Kind(p) = "resume"
  /\ ~AttemptRegistered(call[p].id)
  /\ LET a == call[p].id
     IN  IF records["attempts"][a] = None /\ entries["attempts"][a] = None
         THEN Reject(p, "rejected")
         ELSE Reject(p, "refused")

\* mutant: the load does not look for listed records that are missing
ListedScopeLoads ==
  /\ InventoryLoads
  /\ \A f \in Fields, a \in AttemptIds : records[f][a] \in {None, entries[f][a]}
  /\ \A f \in Fields : \A a \in Listed(f) :
       records[f][a] # None => Stored(records[f][a])

ScopeLoads ==
  /\ InventoryLoads
  /\ records = entries
  /\ \A f \in Fields : \A a \in Listed(f) : Stored(records[f][a])

Snapshot == [authority |-> manifest, attempts |-> records["attempts"],
             terminals |-> records["terminals"]]

LoadScope(p) ==
  /\ Recovered(p)
  /\ Kind(p) = "load"
  /\ ScopeLoads
  /\ call[p].pinned => pin = Snapshot
  /\ pin' = Snapshot
  /\ Leave(p, "ok")
  /\ UNCHANGED <<disk, handles, acked, faults, losses>>

RejectPin(p) ==
  /\ Recovered(p)
  /\ Kind(p) = "load"
  /\ ScopeLoads
  /\ call[p].pinned
  /\ pin # Snapshot
  /\ Reject(p, "rejected")

RefuseScope(p) ==
  /\ Recovered(p)
  /\ Kind(p) \in {"load", "register"}
  /\ IF Kind(p) = "load" THEN ~ScopeLoads ELSE ~InventoryLoads
  /\ Reject(p, "refused")

-----------------------------------------------------------------------------
(* The environment: a process is killed, an OSError ends a call, a file of *)
(* the scope disappears while no call is running.                          *)

Kill(p) ==
  /\ faults < MaxFaults
  /\ phase[p] # "idle" \/ handles[p] # {}
  /\ faults' = faults + 1
  /\ lock' = IF lock = p THEN None ELSE lock
  /\ call' = [call EXCEPT ![p] = None]
  /\ phase' = [phase EXCEPT ![p] = "idle"]
  /\ outcome' = [outcome EXCEPT ![p] = "none"]
  /\ handles' = [handles EXCEPT ![p] = {}]
  /\ UNCHANGED <<disk, acked, pin, losses>>

WriteFails(p) ==
  /\ faults < MaxFaults
  /\ phase[p] # "idle"
  /\ faults' = faults + 1
  /\ Leave(p, "fault")
  /\ UNCHANGED <<disk, handles, acked, pin, losses>>

Lose ==
  /\ lock = None
  /\ losses < MaxLosses
  /\ losses' = losses + 1
  /\ \/ /\ manifest # None
        /\ manifest' = None
        /\ UNCHANGED <<inventory, records, pending, cas>>
     \/ /\ inventoried
        /\ inventoried' = FALSE
        /\ revision' = 0
        /\ entries' = NoFiles
        /\ UNCHANGED <<manifest, records, pending, cas>>
     \/ \E f \in Fields, a \in AttemptIds :
          /\ records[f][a] # None
          /\ records' = [records EXCEPT ![f][a] = None]
          /\ UNCHANGED <<manifest, inventory, pending, cas>>
     \/ \E f \in Fields, a \in AttemptIds :
          /\ pending[f][a] # None
          /\ pending' = [pending EXCEPT ![f][a] = None]
          /\ UNCHANGED <<manifest, inventory, records, cas>>
     \/ \E o \in cas :
          /\ cas' = cas \ {o}
          /\ UNCHANGED <<manifest, inventory, records, pending>>
  /\ UNCHANGED <<lock, call, phase, outcome, handles, acked, pin, faults>>

-----------------------------------------------------------------------------

Calling(p) == Register(p) \/ Begin(p) \/ Finish(p) \/ Resume(p) \/ Load(p)

RollForward(p) ==
  \E f \in Fields, a \in AttemptIds :
    WriteRecord(p, f, a) \/ AppendEntry(p, f, a) \/ ClearPending(p, f, a)

\* one step of the call that p is executing
Step(p) ==
  \/ CreateInventory(p) \/ CreateManifest(p) \/ RefuseInventory(p)
  \/ RejectAuthority(p) \/ RejectPending(p) \/ Accept(p)
  \/ RollForward(p) \/ RecoveryRefused(p) \/ PublicationRefused(p)
  \/ RefusePublication(p) \/ RejectConflict(p) \/ Replay(p) \/ Adopt(p)
  \/ RefuseReplay(p) \/ RejectLimit(p) \/ StartPublication(p)
  \/ StoreEvidence(p) \/ Declare(p) \/ Published(p)
  \/ ReturnAttempt(p) \/ ReturnTerminal(p) \/ ReturnScope(p)
  \/ ResumeAttempt(p) \/ RejectUnknown(p)
  \/ LoadScope(p) \/ RejectPin(p) \/ RefuseScope(p)

Next ==
  \/ \E p \in Procs : Calling(p) \/ Step(p) \/ Kill(p) \/ WriteFails(p)
  \/ Lose

Spec == Init /\ [][Next]_vars

-----------------------------------------------------------------------------
(* Properties.                                                             *)

FilesOK(F) ==
  /\ F \in [Fields -> [AttemptIds -> Records \cup {None}]]
  /\ \A f \in Fields, a \in AttemptIds : F[f][a] \in RecordsOf(f) \cup {None}

\* Every variable has its type: one authority, and in each directory only
\* records of its own kind.
TypeOK ==
  /\ manifest \in Authorities \cup {None}
  /\ inventoried \in BOOLEAN
  /\ revision \in Nat
  /\ FilesOK(entries)
  /\ FilesOK(records)
  /\ FilesOK(pending)
  /\ cas \subseteq Objects
  /\ lock \in Procs \cup {None}
  /\ call \in [Procs -> Calls \cup {None}]
  /\ phase \in [Procs -> Phases]
  /\ outcome \in [Procs -> Outcomes]
  /\ handles \in [Procs -> SUBSET (AttemptIds \X AttemptContents)]
  /\ acked \in [Fields -> SUBSET (AttemptIds \X Contents)]
  /\ faults \in 0..MaxFaults
  /\ losses \in 0..MaxLosses

\* as long as no file has been lost, and the inventory of a full scope fits
Intact == losses = 0
CapacityCovers == 2 * MaxScopeAttempts <= InventoryCapacity

Durable(f, a, c) ==
  /\ entries[f][a] # None
  /\ records[f][a] = entries[f][a]
  /\ records[f][a].content = c
  /\ Stored(records[f][a])

\* Whatever a caller was told is durable stays durable, with its evidence and
\* its inventory entry, through every kill, OSError and concurrent call; and a
\* process that holds a handle, the permission to execute, holds it only for a
\* durable attempt ("Attempts become durable before execution").
AckedDurable ==
  Intact =>
    /\ \A f \in Fields : \A t \in acked[f] : Durable(f, t[1], t[2])
    /\ \A p \in Procs : \A h \in handles[p] : Durable("attempts", h[1], h[2])

\* Two callers are never told different contents for one attempt or for its
\* terminal: racing finishers have exactly one winner.
AckAgreement ==
  Intact => \A f \in Fields : \A s, t \in acked[f] : s[1] = t[1] => s = t

\* Between two calls the files and the inventory agree, except for records
\* whose intent is still on disk; there is at most one intent in the scope, and
\* every record's evidence is in the store before the record can be seen.
JournalConsistent ==
  Intact =>
    /\ \A f, g \in Fields, a, b \in AttemptIds :
         pending[f][a] # None /\ pending[g][b] # None => f = g /\ a = b
    /\ \A f \in Fields, a \in AttemptIds :
         /\ entries[f][a] # None => records[f][a] = entries[f][a]
         /\ records[f][a] # None =>
              records[f][a] \in {entries[f][a], pending[f][a]}
         /\ records[f][a] # None => Stored(records[f][a])
    /\ \A a \in AttemptIds :
         records["terminals"][a] # None => entries["attempts"][a] # None

\* Whatever the instant of the interruption, the next call finds every intent
\* acceptable and rolls it forward: "restart loading rolls that declared
\* transaction forward".
PendingRollsForward ==
  Intact /\ lock = None =>
    \A f \in Fields, a \in AttemptIds :
      pending[f][a] # None => Reloads(f, a) /\ ~Contradicted(f, a)

\* No interruption and no interleaving ever makes the ledger refuse its own
\* durable state: fail-closed loading only triggers on lost or changed files.
NeverRefused ==
  Intact /\ CapacityCovers => \A p \in Procs : outcome[p] # "refused"

\* A published record is never rewritten and never disappears, and neither does
\* its inventory entry; terminals are single-assignment.
Immutable ==
  [][Intact' => \A f \in Fields, a \in AttemptIds :
       /\ records[f][a] # None => records'[f][a] = records[f][a]
       /\ entries[f][a] # None => entries'[f][a] = entries[f][a]]_vars

\* A load that pins a snapshot changes nothing on disk, whatever it finds there.
PinnedLoadReadsOnly ==
  [][\A p \in Procs : lock = p /\ PinnedLoad(p) =>
       UNCHANGED disk]_vars

\* Every snapshot handed out holds all that has been acknowledged so far, even
\* after up to two files were lost, or any number beside the inventory: the load
\* fails instead ("restart reconstruction fails closed on missing or modified
\* material").
FailClosed ==
  [][pin' # pin =>
       \A f \in Fields : \A t \in acked[f] :
         /\ pin'[f][t[1]] # None
         /\ pin'[f][t[1]].content = t[2]]_vars

\* The scheduling the code relies on: a process inside a call keeps running, and
\* some process reopens the ledger and loads the scope, unpinned, when the lock
\* is free (a restart; flock grants it eventually).
UnpinnedLoad(p) ==
  \E g \in Authorities :
    /\ g = manifest
    /\ Invoke(p, [kind |-> "load", authority |-> g, pinned |-> FALSE], "enter")

FairSpec ==
  /\ Spec
  /\ \A p \in Procs : WF_vars(Step(p))
  /\ SF_vars(\E p \in Procs : UnpinnedLoad(p))

\* Every call ends and gives the ledger lock back: recovery and publication are
\* finite whatever they find.
LockReleased == \A p \in Procs : lock = p ~> lock # p

\* An interrupted publication is completed once somebody loads the scope again,
\* as long as no file is lost.
PendingResolved ==
  \A f \in Fields, a \in AttemptIds :
    pending[f][a] # None ~>
      (entries[f][a] # None /\ pending[f][a] = None) \/ ~Intact

-----------------------------------------------------------------------------
(* The journal promised to callers: an intent on disk already counts.      *)

Promised(f) == [a \in AttemptIds |->
                  IF records[f][a] # None THEN records[f][a] ELSE pending[f][a]]

Ledger == INSTANCE AbstractLedger WITH
            authority <- manifest,
            begun <- Promised("attempts"),
            ended <- Promised("terminals")

ImplementsLedger == Ledger!Spec
=============================================================================

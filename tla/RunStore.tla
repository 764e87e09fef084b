------------------------------ MODULE RunStore ------------------------------
(***************************************************************************)
(* _RunStore of belief/mcp/tools.py with the tools that change it: runs in *)
(* the order of their last access, their plans and bindings, their results *)
(* and the order of all results, under bounds on number and size, with     *)
(* publications of several steps that succeed or leave no trace.  Every    *)
(* method holds _lock, so it is one step; a publication under atomic() is  *)
(* a step for each method it calls, and keeps the others out.              *)
(***************************************************************************)
EXTENDS Naturals, Sequences, SequencesExt, FiniteSets, FiniteSetsExt, Functions

CONSTANTS
  Scans,          \* runs published by belief_scan
  Fixtures,       \* runs published by belief_prepare_validation_fixture
  Projects,       \* runs published by the authorized project pilot
  CasePlans,      \* CasePlans[r]: plans that the audit cases of run r give rise to
  SeedPlan,       \* SeedPlan[r]: the plan of the contract seed of fixture run r
  Results,        \* ids of validation results
  BaseSize,       \* BaseSize[r]: size of run r without plans and results
  MaxRuns, MaxResultsPerRun, MaxTotalResults, MaxRunBytes, MaxStoreBytes, MaxMemory,
  TableRoom,      \* what the tables of the store may keep of entries that are gone
  None

Runs == Scans \cup Fixtures \cup Projects
Plans == (UNION {CasePlans[r] : r \in Runs}) \cup {SeedPlan[r] : r \in Fixtures}

ASSUME RunStoreAssumption ==
  /\ IsFiniteSet(Runs) /\ IsFiniteSet(Plans)
  /\ Fixtures \cap (Scans \cup Projects) = {}
  /\ \A r \in Fixtures : SeedPlan[r] \notin CasePlans[r]
  /\ BaseSize \in [Runs -> Nat]
  /\ {MaxRuns, MaxResultsPerRun, MaxTotalResults} \subseteq Nat \ {0}
  /\ {MaxRunBytes, MaxStoreBytes, MaxMemory, TableRoom} \subseteq Nat
  /\ MaxRunBytes <= MaxStoreBytes
  /\ TableRoom <= MaxMemory   \* an empty store is never over capacity
  /\ None \notin Runs

VARIABLES
  store,       \* the fields of _RunStore
  saved,       \* what atomic() has copied, while a publication is going on
  publishing,  \* its run
  todo,        \* the plans that it has still to store; None before put()
  validating   \* the run that belief_validate_plan has read its plan from

vars == <<store, saved, publishing, todo, validating>>

\* order: _runs, oldest access first; size: serialized_bytes of each run
Empty ==
  [order |-> <<>>,
   plans |-> [r \in Runs |-> {}],
   bound |-> [r \in Runs |-> {}],
   results |-> [r \in Runs |-> <<>>],
   size |-> [r \in Runs |-> 0],
   resultOrder |-> <<>>,
   total |-> 0,
   room |-> 0]

-----------------------------------------------------------------------------
(* Sizes.  A plan, a binding and a result count one each.                  *)

Stored(s) == ToSet(s.order)

RunSize(s, r) ==
  BaseSize[r] + Cardinality(s.plans[r]) + Cardinality(s.bound[r]) + Len(s.results[r])

RunMemory(s, r) == RunSize(s, r) + Len(s.results[r])

Content(s) == SumFunctionOnSet([r \in Runs |-> RunSize(s, r)], Stored(s))

\* _deep_memory_size sees the tables too, and those do not shrink with their content
Memory(s) == Content(s) + Len(s.resultOrder) + s.room

RunFits(s, r) == RunSize(s, r) <= MaxRunBytes /\ RunMemory(s, r) <= MaxMemory

Fits(s) ==
  Len(s.order) <= MaxRuns /\ s.total <= MaxStoreBytes /\ Memory(s) <= MaxMemory

-----------------------------------------------------------------------------
(* The methods, on the fields of the store.                                *)

\* pop() of keys of an OrderedDict (SelectSeq, as a function that can be reasoned about)
Drop(seq, gone) ==
  LET kept[i \in 0 .. Len(seq)] ==
        IF i = 0 THEN <<>>
        ELSE IF seq[i] \in gone THEN kept[i - 1]
        ELSE Append(kept[i - 1], seq[i])
  IN kept[Len(seq)]

\* move_to_end
Touch(s, r) == [s EXCEPT !.order = Append(Drop(s.order, {r}), r)]

\* mutant: evicted runs leave their keys in the global order
KeepKeys(s, gone) == s.resultOrder

\* _discard_result_keys for each run in gone
DiscardKeys(s, gone) ==
  Drop(s.resultOrder, {k \in gone \X Results : k[2] \in ToSet(s.results[k[1]])})

Forget(s, gone) ==
  [s EXCEPT
     !.order = Drop(s.order, gone),
     !.plans = [r \in Runs |-> IF r \in gone THEN {} ELSE s.plans[r]],
     !.bound = [r \in Runs |-> IF r \in gone THEN {} ELSE s.bound[r]],
     !.results = [r \in Runs |-> IF r \in gone THEN <<>> ELSE s.results[r]],
     !.size = [r \in Runs |-> IF r \in gone THEN 0 ELSE s.size[r]],
     !.resultOrder = DiscardKeys(s, gone),
     !.total = s.total - SumFunctionOnSet(s.size, gone)]

Oldest(s, k) == ToSet(SubSeq(s.order, 1, k))

\* mutant: the newest runs go first
EvictNewest(s) ==
  LET Newest(k) == ToSet(SubSeq(s.order, Len(s.order) - k + 1, Len(s.order)))
      k == Min({i \in 0 .. Len(s.order) : Fits(Forget(s, Newest(i)))})
  IN Forget(s, Newest(k))

\* _evict_over_capacity: from the oldest on, until everything fits
Evict(s) ==
  LET k == Min({i \in 0 .. Len(s.order) : Fits(Forget(s, Oldest(s, i)))})
  IN Forget(s, Oldest(s, k))

NewRun(s, r) ==
  [s EXCEPT !.order = Append(s.order, r), !.size[r] = BaseSize[r],
            !.total = s.total + BaseSize[r]]

\* put() raises before it changes anything
CanPut(s, r) == r \in Stored(s) \/ RunFits(s, r)

\* _resize_run, and the end of _replace_run
Resize(s, r) ==
  [s EXCEPT !.size[r] = RunSize(s, r), !.total = s.total + RunSize(s, r) - s.size[r]]

WithPlan(s, r, p, binding) ==
  [s EXCEPT !.plans[r] = s.plans[r] \cup {p},
            !.bound[r] = IF binding THEN s.bound[r] \cup {p} ELSE s.bound[r] \ {p}]

CanPlan(s, r, p, binding) ==
  r \in Stored(s) /\ RunFits(WithPlan(s, r, p, binding), r)

StorePlan(s, r, p, binding) == Evict(Touch(Resize(WithPlan(s, r, p, binding), r), r))

\* results[result_id] = snapshot keeps the place of an id that is there already
WithResult(s, r, id) ==
  LET all == IF Contains(s.results[r], id) THEN s.results[r] ELSE Append(s.results[r], id)
      extra == IF Len(all) > MaxResultsPerRun THEN Len(all) - MaxResultsPerRun ELSE 0
  IN [s EXCEPT !.results[r] = SubSeq(all, extra + 1, Len(all))]

CanStoreResult(s, r, id) == r \in Stored(s) /\ RunFits(WithResult(s, r, id), r)

\* the keys of results that the bound of the run has evicted go; a new one is last
Listed(s, t, r, id) ==
  LET kept == Drop(s.resultOrder, {r} \X (ToSet(s.results[r]) \ ToSet(t.results[r])))
  IN IF Contains(s.results[r], id) THEN kept ELSE Append(kept, <<r, id>>)

\* the keys that the global bound takes from the front of the order
Surplus(s) ==
  IF Len(s.resultOrder) > MaxTotalResults
  THEN ToSet(SubSeq(s.resultOrder, 1, Len(s.resultOrder) - MaxTotalResults)) ELSE {}

\* the runs that they belong to shrink, and _resize_run follows
DropResults(s) ==
  LET lost(r) == {id \in Results : <<r, id>> \in Surplus(s)}
      shrunk == {r \in Stored(s) : lost(r) # {}}
      t == [s EXCEPT !.resultOrder = Drop(s.resultOrder, Surplus(s)),
                     !.results = [r \in Runs |-> Drop(s.results[r], lost(r))]]
      size == [r \in Runs |-> IF r \in shrunk THEN RunSize(t, r) ELSE s.size[r]]
  IN [t EXCEPT !.size = size,
               !.total = s.total + SumFunctionOnSet(size, shrunk)
                           - SumFunctionOnSet(s.size, shrunk)]

StoreResult(s, r, id) ==
  LET t == Resize(WithResult(s, r, id), r)
      u == [t EXCEPT !.resultOrder = Listed(s, t, r, id)]
  IN Evict(Touch(DropResults(u), r))

\* a new entry may leave the tables with room of earlier ones, at most TableRoom
Rooms(s) ==
  {[s EXCEPT !.room = n] : n \in 0 .. IF s.order = <<>> THEN s.room ELSE TableRoom}

\* put() of a run that is there only moves it to the end
Puts(s, r) == IF r \in Stored(s) THEN {Touch(s, r)} ELSE {Evict(NewRun(t, r)) : t \in Rooms(s)}

-----------------------------------------------------------------------------

Init ==
  /\ store = Empty
  /\ saved = None /\ publishing = None /\ todo = {}
  /\ validating = None

\* no publication holds the lock
Free == publishing = None

Transaction == <<saved, publishing, todo>>

\* belief_scan
Scan(r) ==
  /\ Free
  /\ CanPut(store, r)
  /\ store' \in Puts(store, r)
  /\ UNCHANGED <<Transaction, validating>>

\* get(): every tool and resource that reads a run
Get(r) ==
  /\ Free
  /\ r \in Stored(store)
  /\ store' = Touch(store, r)
  /\ UNCHANGED <<Transaction, validating>>

\* belief_build_validation_plan
BuildPlan(r, p) ==
  /\ Free
  /\ p \in CasePlans[r]
  /\ CanPlan(store, r, p, FALSE)
  /\ store' = StorePlan(store, r, p, FALSE)
  /\ UNCHANGED <<Transaction, validating>>

\* atomic(): copies, and the publication of a fixture or of the project
Begin(r) ==
  /\ Free
  /\ saved' = store
  /\ publishing' = r
  /\ todo' = IF r \in Fixtures THEN {SeedPlan[r]} ELSE CasePlans[r]
  /\ IF CanPut(store, r)
       THEN store' \in Puts(store, r)
       ELSE UNCHANGED store
  /\ UNCHANGED validating

PublishPlan(p) ==
  /\ ~Free
  /\ p \in todo
  /\ CanPlan(store, publishing, p, TRUE)
  /\ store' = StorePlan(store, publishing, p, TRUE)
  /\ todo' = todo \ {p}
  /\ UNCHANGED <<saved, publishing, validating>>

\* mutant: an exception of the publication goes through
KeepPart ==
  /\ ~Free
  /\ saved' = None /\ publishing' = None /\ todo' = {}
  /\ UNCHANGED <<store, validating>>

\* any step of the publication raises
RollBack ==
  /\ ~Free
  /\ store' = saved
  /\ saved' = None /\ publishing' = None /\ todo' = {}
  /\ UNCHANGED validating

Publish ==
  /\ ~Free
  /\ publishing \in Stored(store)
  /\ todo = {}
  /\ saved' = None /\ publishing' = None
  /\ UNCHANGED <<store, todo, validating>>

\* belief_validate_plan reads its plan and binding, and works without the lock
StartValidation(r) ==
  /\ Free
  /\ validating = None
  /\ r \in Fixtures \cap Stored(store)
  /\ SeedPlan[r] \in store.bound[r]
  /\ store' = Touch(store, r)
  /\ validating' = r
  /\ UNCHANGED Transaction

FinishValidation(id) ==
  /\ Free
  /\ validating # None
  /\ validating' = None
  /\ IF CanStoreResult(store, validating, id)
       THEN store' \in {StoreResult(s, validating, id) : s \in Rooms(store)}
       ELSE UNCHANGED store
  /\ UNCHANGED Transaction

\* close()
Clear ==
  /\ Free
  /\ store.order # <<>>
  /\ store' = Empty
  /\ UNCHANGED <<Transaction, validating>>

Next ==
  \/ \E r \in Scans : Scan(r)
  \/ \E r \in Runs : Get(r) \/ \E p \in CasePlans[r] : BuildPlan(r, p)
  \/ \E r \in Fixtures \cup Projects : Begin(r)
  \/ \E p \in Plans : PublishPlan(p)
  \/ RollBack \/ Publish
  \/ \E r \in Runs : StartValidation(r)
  \/ \E id \in Results : FinishValidation(id)
  \/ Clear

Spec == Init /\ [][Next]_vars

-----------------------------------------------------------------------------
(* Properties.                                                             *)

\* Every variable has its type.
TypeOK ==
  /\ ToSet(store.order) \subseteq Runs
  /\ store.plans \in [Runs -> SUBSET Plans] /\ store.bound \in [Runs -> SUBSET Plans]
  /\ \A r \in Runs : ToSet(store.results[r]) \subseteq Results
  /\ store.total \in Nat /\ store.room \in 0 .. TableRoom
  /\ publishing \in Runs \cup {None} /\ todo \subseteq Plans
  /\ validating \in Fixtures \cup {None}

\* The byte totals that the bounds are checked against are those of the content,
\* after any mix of replacements, evictions and rollbacks.
TotalsExact ==
  /\ \A r \in Stored(store) : store.size[r] = RunSize(store, r)
  /\ store.total = Content(store)

\* The keys of results of run r.
Keyed(r, ids) == [i \in DOMAIN ids |-> <<r, ids[i]>>]

\* The global order lists each stored result once, in the order in which its run
\* has it, and nothing else.
ResultOrderExact ==
  /\ IsInjective(store.order) /\ IsInjective(store.resultOrder)
  /\ \A r \in Runs :
       Drop(store.resultOrder, (Runs \ {r}) \X Results) = Keyed(r, store.results[r])

\* Whenever the lock is free every bound of the store holds, those on sizes by
\* what the content really takes.
WithinBounds ==
  Free => /\ Fits(store)
          /\ Len(store.resultOrder) <= MaxTotalResults
          /\ \A r \in Stored(store) :
               RunSize(store, r) <= MaxRunBytes /\ Len(store.results[r]) <= MaxResultsPerRun

\* The four fields and two counters that every method changes one after the other,
\* and that atomic() copies back, describe one store that is within its bounds.
Consistent == TypeOK /\ TotalsExact /\ ResultOrderExact /\ WithinBounds

\* Results are obtained for the seed plan of a fixture.  A run that holds some is a
\* fixture that has this plan bound, whatever was evicted, prepared again or rolled back
\* while the worker ran.
ResultsAreBound ==
  Free => \A r \in Runs :
            store.results[r] # <<>> => r \in Fixtures /\ SeedPlan[r] \in store.bound[r]

\* "runs use deterministic least-recently-accessed eviction": no step removes a
\* run and keeps one that was accessed before it.
EvictsOldest ==
  [][\A i, j \in DOMAIN store.order :
       /\ i < j
       /\ Free /\ Free'
       /\ store.order[j] \notin Stored(store')
       => \/ store.order[i] \notin Stored(store')
          \/ store.order[i] = Last(store'.order)]_vars

=============================================================================

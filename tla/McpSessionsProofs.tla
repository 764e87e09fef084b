-------------------------- MODULE McpSessionsProofs --------------------------
(***************************************************************************)
(* Proofs about McpSessions, for any number of requests, of sessions and   *)
(* of calls that close them.                                               *)
(***************************************************************************)
EXTENDS McpSessions, FiniteSetTheorems, TLAPS

Working == {"scan", "validate", "read", "publish", "release"}

\* A request has tools exactly from the time it resolved its session.
HasTools ==
  \A r \in Requests :
    /\ pc[r] \in {"idle", "resolve"} => tools[r] = None
    /\ pc[r] \in Working => tools[r] # None

\* An instance belongs to the session it was built for.
Belongs(i, s) == IF i = Boot THEN s = Default ELSE session[i] = s /\ tools[i] = i

Owned ==
  \A s \in Sessions, i \in Instances :
    /\ registry[s] = i => Belongs(i, s)
    /\ \A r \in Requests : tools[r] = i /\ session[r] = s => Belongs(i, s)

\* Runs are found and read where the request that published them works.
Placed ==
  /\ \A i \in Instances : \A q \in runs[i] : tools[q] = i
  /\ \A r \in Requests : \A q \in seen[r] : tools[q] = tools[r] /\ tools[r] # None

\* An instance that has not been let go is the one of its session.
Current == \A r \in Requests : tools[r] # None /\ tools[r] \notin gone =>
                                 registry[session[r]] = tools[r]

GoneOnce == \A i \in gone : i # Boot /\ tools[i] = i

\* The holder of the semaphore is the one request that validates.
Holder == \A r \in Requests : pc[r] \in {"publish", "release"} => busy = r

Inv ==
  /\ TypeOK /\ HasTools /\ Owned /\ Placed /\ Current /\ GoneOnce /\ Holder
  /\ DroppedForGood /\ WithinCapacity

USE DEF Places, Working, Kinds, dropped

LEMMA Names ==
  /\ Boot \in Instances /\ Boot \notin Requests /\ None \notin Instances
  /\ Requests \subseteq Instances /\ Default \in Sessions
  /\ \A r \in Requests : r \in Calls /\ r \notin Closers \cup {Server}
  /\ Server \in Calls
BY SessionsAssumption DEF Instances, Calls

LEMMA FewerOpen ==
  ASSUME NEW A, NEW B, A \subseteq Sessions, B \subseteq A, Cardinality(A) <= MaxSessions
  PROVE  Cardinality(B) <= MaxSessions
<1>1. IsFiniteSet(A)
  BY FS_Subset, SessionsAssumption
<1>2. Cardinality(B) <= Cardinality(A) /\ Cardinality(A) \in Nat /\ Cardinality(B) \in Nat
  BY <1>1, FS_Subset, FS_CardinalityType
<1> QED BY <1>2, SessionsAssumption

LEMMA InitInv == Init => Inv
<1> SUFFICES ASSUME Init PROVE Inv
  OBVIOUS
<1>1. TypeOK
  BY Names DEF Init, TypeOK
<1>2. Open = {Default}
  BY Names DEF Init, Open
<1>3. WithinCapacity
  <2>1. Cardinality(Open) = 1
    BY <1>2, FS_Singleton
  <2> QED BY <2>1, SessionsAssumption DEF WithinCapacity
<1>4. HasTools /\ Owned /\ Placed /\ Current /\ GoneOnce /\ Holder /\ DroppedForGood
  BY Names
     DEF Init, HasTools, Owned, Belongs, Placed, Current, GoneOnce, Holder, DroppedForGood
<1> QED BY <1>1, <1>3, <1>4 DEF Inv

\* Steps that move a call and leave the registry, the stores and the tools alone.
LEMMA MoveInv ==
  ASSUME Inv, NEW c \in Calls, NEW place \in Places, Goto(c, place),
         UNCHANGED <<registry, runs, busy, about, dropped>>,
         c \in Requests => pc[c] # "idle" /\ place \notin {"idle", "resolve"},
         c \in Requests /\ place \in Working => tools[c] # None,
         c \in Requests /\ place \in {"publish", "release"} => busy = c,
         closed' \in BOOLEAN,
         clearing' \in [Closers \cup {Server} -> SUBSET Instances]
  PROVE  Inv'
<1>1. TypeOK'
  BY DEF Inv, TypeOK, Goto, about
<1>2. \A r \in Requests : pc'[r] = (IF r = c THEN place ELSE pc[r])
  BY Names DEF Inv, TypeOK, Goto
<1>3. HasTools' /\ Holder'
  BY <1>2 DEF Inv, HasTools, Holder, about
<1>4. Owned' /\ Placed' /\ Current' /\ GoneOnce' /\ DroppedForGood' /\ WithinCapacity'
  BY DEF Inv, Owned, Belongs, Placed, Current, GoneOnce, DroppedForGood, WithinCapacity,
         Open, about
<1> QED BY <1>1, <1>3, <1>4 DEF Inv

LEMMA HandleInv ==
  ASSUME Inv, NEW r \in Requests, NEW s \in Sessions, NEW k \in Kinds, Handle(r, s, k)
  PROVE  Inv'
<1>1. TypeOK'
  BY Names DEF Inv, TypeOK, Handle, Goto, held
<1>2. tools[r] = None
  BY DEF Inv, HasTools, Handle
<1>3. \A q \in Requests : pc'[q] = (IF q = r THEN "resolve" ELSE pc[q])
  BY Names DEF Inv, TypeOK, Handle, Goto
<1>4. \A q \in Requests : q # r => session'[q] = session[q]
  BY DEF Inv, TypeOK, Handle
<1>5. HasTools' /\ Holder'
  BY <1>2, <1>3 DEF Inv, HasTools, Holder, Handle, held
<1>6. ASSUME NEW i \in Instances, NEW t \in Sessions, Belongs(i, t) PROVE Belongs(i, t)'
  BY <1>2, <1>4, <1>6, Names DEF Belongs, Handle, Instances
<1>7. Owned'
  <2> SUFFICES ASSUME NEW t \in Sessions, NEW i \in Instances,
                      \/ registry'[t] = i
                      \/ \E q \in Requests : tools'[q] = i /\ session'[q] = t
               PROVE  Belongs(i, t)'
    BY DEF Owned
  <2>1. CASE registry'[t] = i
    BY <1>6, <2>1 DEF Inv, Owned, Handle, held
  <2>2. ASSUME NEW q \in Requests, tools'[q] = i, session'[q] = t PROVE Belongs(i, t)'
    <3>1. q # r /\ tools[q] = i /\ session[q] = t
      BY <1>2, <1>4, <2>2, Names DEF Handle
    <3> QED BY <1>6, <3>1 DEF Inv, Owned
  <2> QED BY <2>1, <2>2
<1>8. Placed' /\ GoneOnce'
  BY DEF Inv, Placed, GoneOnce, Handle, held
<1>9. Current' /\ DroppedForGood' /\ WithinCapacity'
  BY <1>2, <1>4 DEF Inv, Current, DroppedForGood, WithinCapacity, Open, Handle, held
<1> QED BY <1>1, <1>5, <1>7, <1>8, <1>9 DEF Inv

\* What both ways of resolving a session have in common.
LEMMA ResolvedInv ==
  ASSUME Inv, NEW r \in Requests, NEW i \in Instances, Resolved(r, i),
         pc[r] = "resolve", i = r \/ registry[session[r]] = i,
         registry' \in [Sessions -> Instances \cup {None}],
         registry' = [registry EXCEPT ![session[r]] = i],
         registry[session[r]] # None => registry[session[r]] = i,
         Cardinality(Open') <= MaxSessions
  PROVE  Inv'
<1> DEFINE s == session[r]
<1>1. s \in Sessions /\ tools[r] = None /\ i # None
  BY Names DEF Inv, TypeOK, HasTools
<1>2. registry'[s] = i /\ \A t \in Sessions : t # s => registry'[t] = registry[t]
  BY <1>1 DEF Inv, TypeOK
<1>3. tools'[r] = i /\ \A q \in Requests : q # r => tools'[q] = tools[q]
  BY DEF Inv, TypeOK, Resolved
<1>4. pc'[r] \in Kinds /\ \A q \in Requests : q # r => pc'[q] = pc[q]
  BY Names DEF Inv, TypeOK, Resolved, Goto
<1>5. registry'[Default] = Boot
  BY <1>1, <1>2, Names DEF Inv, TypeOK
<1>6. TypeOK'
  BY <1>5, Names DEF Inv, TypeOK, Resolved, Goto
<1>7. HasTools' /\ Holder'
  BY <1>1, <1>3, <1>4 DEF Inv, HasTools, Holder, Resolved
<1>8. Belongs(i, s)'
  <2>1. CASE i = r
    BY <1>3, <2>1, Names DEF Belongs, Resolved
  <2>2. CASE registry[s] = i /\ i # r
    <3>1. Belongs(i, s)
      BY <1>1, <2>2 DEF Inv, Owned
    <3> QED BY <1>3, <2>2, <3>1, Names DEF Belongs, Resolved, Instances
  <2> QED BY <2>1, <2>2
<1>9. ASSUME NEW j \in Instances, NEW t \in Sessions, Belongs(j, t) PROVE Belongs(j, t)'
  <2>1. j # r
    BY <1>1, <1>9, Names DEF Belongs
  <2> QED BY <1>3, <1>9, <2>1, Names DEF Belongs, Resolved, Instances
<1>10. Owned'
  <2> SUFFICES ASSUME NEW t \in Sessions, NEW j \in Instances,
                      \/ registry'[t] = j
                      \/ \E q \in Requests : tools'[q] = j /\ session'[q] = t
               PROVE  Belongs(j, t)'
    BY DEF Owned
  <2>1. session' = session
    BY DEF Resolved
  <2>2. CASE t = s /\ j = i
    BY <1>8, <2>1, <2>2 DEF Belongs
  <2>3. CASE registry'[t] = j /\ t # s
    BY <1>2, <1>9, <2>3 DEF Inv, Owned
  <2>4. ASSUME NEW q \in Requests, tools'[q] = j, session'[q] = t, q # r
        PROVE  Belongs(j, t)'
    BY <1>3, <1>9, <2>1, <2>4 DEF Inv, Owned
  <2> QED BY <1>2, <1>3, <2>1, <2>2, <2>3, <2>4
<1>11. Placed'
  BY <1>1, <1>3, Names DEF Inv, TypeOK, Placed, Resolved
<1>12. i \notin gone
  <2>1. CASE i = r
    BY <1>1, <2>1, Names DEF Inv, GoneOnce
  <2>2. CASE registry[s] = i
    BY <1>1, <2>2 DEF Inv, DroppedForGood
  <2> QED BY <2>1, <2>2
<1>13. Current'
  <2> SUFFICES ASSUME NEW q \in Requests, tools'[q] # None, tools'[q] \notin gone
               PROVE  registry'[session[q]] = tools'[q]
    BY DEF Current, Resolved
  <2>1. CASE q = r
    BY <1>2, <1>3, <2>1
  <2>2. CASE q # r /\ session[q] = s
    <3>1. registry[s] = tools[q] /\ tools[q] # None
      BY <1>3, <2>2 DEF Inv, Current
    <3> QED BY <1>2, <1>3, <2>2, <3>1
  <2>3. CASE q # r /\ session[q] # s
    BY <1>2, <1>3, <2>3 DEF Inv, TypeOK, Current
  <2> QED BY <2>1, <2>2, <2>3
<1>14. GoneOnce'
  BY <1>1, <1>3, Names DEF Inv, TypeOK, GoneOnce, Resolved, Instances
<1>15. DroppedForGood'
  BY <1>2, <1>12 DEF Inv, DroppedForGood, Resolved
<1> QED BY <1>6, <1>7, <1>10, <1>11, <1>13, <1>14, <1>15 DEF Inv, WithinCapacity

LEMMA ResolveInv ==
  ASSUME Inv, NEW r \in Requests, ResolveExisting(r) \/ ResolveNew(r)
  PROVE  Inv'
<1>1. session[r] \in Sessions
  BY DEF Inv, TypeOK
<1>2. CASE ResolveExisting(r)
  <2>1. registry' = [registry EXCEPT ![session[r]] = registry[session[r]]]
    BY <1>2 DEF Inv, TypeOK, ResolveExisting
  <2>2. registry[session[r]] \in Instances
    BY <1>1, <1>2 DEF Inv, TypeOK, ResolveExisting
  <2>3. Cardinality(Open') <= MaxSessions
    BY <1>2 DEF Inv, WithinCapacity, ResolveExisting, Open
  <2>4. Resolved(r, registry[session[r]]) /\ pc[r] = "resolve" /\ registry' = registry
    BY <1>2 DEF ResolveExisting
  <2> QED BY <2>1, <2>2, <2>3, <2>4, ResolvedInv DEF Inv, TypeOK
<1>3. CASE ResolveNew(r)
  <2>1. Open' = Open \cup {session[r]} /\ session[r] \notin Open
    BY <1>1, <1>3, Names DEF Inv, TypeOK, ResolveNew, Open
  <2>2. IsFiniteSet(Open)
    BY FS_Subset, SessionsAssumption DEF Open
  <2>3. Cardinality(Open') = Cardinality(Open) + 1 /\ Cardinality(Open) \in Nat
    BY <2>1, <2>2, FS_AddElement, FS_CardinalityType
  <2>4. Cardinality(Open') <= MaxSessions
    BY <1>3, <2>3, SessionsAssumption DEF ResolveNew
  <2>5. /\ Resolved(r, r) /\ pc[r] = "resolve" /\ registry[session[r]] = None
        /\ registry' = [registry EXCEPT ![session[r]] = r]
    BY <1>3 DEF ResolveNew
  <2>6. registry' \in [Sessions -> Instances \cup {None}]
    BY <1>1, <2>5, Names DEF Inv, TypeOK
  <2> QED BY <2>4, <2>5, <2>6, ResolvedInv, Names
<1> QED BY <1>2, <1>3

LEMMA PublishInv ==
  ASSUME Inv, NEW r \in Requests, Publish(r)
  PROVE  Inv'
<1>1. tools[r] \in Instances
  BY DEF Inv, TypeOK, HasTools, Publish
<1>2. \A q \in Requests : q # r => pc'[q] = pc[q]
  BY Names DEF Inv, TypeOK, Publish, Goto
<1>3. pc'[r] \in {"done", "release"} /\ (pc'[r] = "release" => pc[r] = "publish")
  BY Names DEF Inv, TypeOK, Publish, Goto
<1>4. TypeOK'
  BY <1>1, Names DEF Inv, TypeOK, Publish, Goto, about
<1>5. HasTools' /\ Holder'
  BY <1>1, <1>2, <1>3, Names DEF Inv, HasTools, Holder, Publish, about
<1>6. Placed'
  BY <1>1 DEF Inv, TypeOK, Placed, Publish, about
<1>7. Owned' /\ Current' /\ GoneOnce' /\ DroppedForGood' /\ WithinCapacity'
  BY DEF Inv, Owned, Belongs, Current, GoneOnce, DroppedForGood, WithinCapacity, Open,
         Publish, about
<1> QED BY <1>4, <1>5, <1>6, <1>7 DEF Inv

LEMMA ReadInv ==
  ASSUME Inv, NEW r \in Requests, Read(r)
  PROVE  Inv'
<1>1. tools[r] \in Instances
  BY DEF Inv, TypeOK, HasTools, Read
<1>2. \A q \in Requests : pc'[q] = (IF q = r THEN "done" ELSE pc[q])
  BY Names DEF Inv, TypeOK, Read, Goto
<1>3. TypeOK'
  BY <1>1, Names DEF Inv, TypeOK, Read, Goto, held
<1>4. HasTools' /\ Holder'
  BY <1>2 DEF Inv, HasTools, Holder, Read, held
<1>5. Placed'
  BY <1>1, Names DEF Inv, TypeOK, Placed, Read, held
<1>6. Owned' /\ Current' /\ GoneOnce' /\ DroppedForGood' /\ WithinCapacity'
  BY DEF Inv, Owned, Belongs, Current, GoneOnce, DroppedForGood, WithinCapacity, Open,
         Read, held
<1> QED BY <1>3, <1>4, <1>5, <1>6 DEF Inv

\* Taking and giving back the semaphore.
LEMMA CapacityInv ==
  ASSUME Inv, NEW r \in Requests, Validate(r) \/ ReleaseCapacity(r)
  PROVE  Inv'
<1>1. tools[r] # None
  BY DEF Inv, HasTools, Validate, ReleaseCapacity
<1>2. \A q \in Requests : q # r => pc'[q] = pc[q]
  BY Names DEF Inv, TypeOK, Validate, ReleaseCapacity, Goto
<1>3. pc'[r] = (IF Validate(r) THEN "publish" ELSE "done")
  BY Names DEF Inv, TypeOK, Validate, ReleaseCapacity, Goto
<1>4. TypeOK'
  BY Names DEF Inv, TypeOK, Validate, ReleaseCapacity, Goto, about
<1>5. HasTools'
  BY <1>1, <1>2, <1>3 DEF Inv, HasTools, Validate, ReleaseCapacity, about
<1>6. Holder'
  BY <1>2, <1>3, Names DEF Inv, Holder, Validate, ReleaseCapacity
<1>7. Owned' /\ Placed' /\ Current' /\ GoneOnce' /\ DroppedForGood' /\ WithinCapacity'
  BY DEF Inv, Owned, Belongs, Placed, Current, GoneOnce, DroppedForGood, WithinCapacity,
         Open, Validate, ReleaseCapacity, about
<1> QED BY <1>4, <1>5, <1>6, <1>7 DEF Inv

\* Clearing an instance, whoever does it.
LEMMA ClearInv ==
  ASSUME Inv, NEW i \in Instances, runs' = [runs EXCEPT ![i] = {}],
         UNCHANGED <<closed, registry, busy, about, dropped>>,
         pc' \in [Calls -> Places], \A r \in Requests : pc'[r] = pc[r],
         clearing' \in [Closers \cup {Server} -> SUBSET Instances]
  PROVE  Inv'
<1>1. TypeOK' /\ HasTools' /\ Holder' /\ Placed'
  BY DEF Inv, TypeOK, HasTools, Holder, Placed, about
<1>2. Owned' /\ Current' /\ GoneOnce' /\ DroppedForGood' /\ WithinCapacity'
  BY DEF Inv, Owned, Belongs, Current, GoneOnce, DroppedForGood, WithinCapacity, Open,
         about
<1> QED BY <1>1, <1>2 DEF Inv

\* Letting go of instances: some sessions lose theirs, and those are gone.
LEMMA LetGoInv ==
  ASSUME Inv, NEW Lost \in SUBSET (Open \ {Default}),
         registry' = [s \in Sessions |-> IF s \in Lost THEN None ELSE registry[s]],
         gone' = gone \cup {registry[s] : s \in Lost}, late' \in SUBSET Requests,
         UNCHANGED <<closed, runs, busy, about>>,
         pc' \in [Calls -> Places], \A r \in Requests : pc'[r] = pc[r],
         clearing' \in [Closers \cup {Server} -> SUBSET Instances]
  PROVE  Inv'
<1>1. \A s \in Lost : /\ s \in Sessions /\ s # Default
                      /\ registry[s] \in Requests /\ tools[registry[s]] = registry[s]
                      /\ session[registry[s]] = s
  BY Names DEF Inv, TypeOK, Owned, Belongs, Open, Instances
<1>2. TypeOK'
  BY <1>1, Names DEF Inv, TypeOK, about
<1>3. HasTools' /\ Holder' /\ Placed'
  BY DEF Inv, HasTools, Holder, Placed, about
<1>4. Owned'
  BY Names DEF Inv, Owned, Belongs, about
<1>5. GoneOnce'
  BY <1>1, Names DEF Inv, GoneOnce, about
<1>6. Current'
  BY <1>1 DEF Inv, TypeOK, Current, about
<1>7. DroppedForGood'
  <2> SUFFICES ASSUME NEW s \in Sessions, registry'[s] \in gone' PROVE FALSE
    BY DEF DroppedForGood
  <2>1. registry'[s] # None
    BY <1>2, Names DEF TypeOK
  <2>2. s \notin Lost /\ registry'[s] = registry[s]
    BY <2>1
  <2>3. PICK t \in Lost : registry[s] = registry[t]
    BY <2>2 DEF Inv, DroppedForGood
  <2>4. Belongs(registry[s], s)
    BY <2>1, <2>2, <1>2 DEF Inv, TypeOK, Owned
  <2>5. s = t
    BY <1>1, <2>3, <2>4, Names DEF Belongs
  <2> QED BY <2>2, <2>5
<1>8. WithinCapacity'
  <2>1. Open' \subseteq Open /\ Open \subseteq Sessions
    BY DEF Open
  <2> QED BY <2>1, FewerOpen DEF Inv, WithinCapacity
<1> QED BY <1>2, <1>3, <1>4, <1>5, <1>6, <1>7, <1>8 DEF Inv

LEMMA RequestInv ==
  ASSUME Inv, NEW r \in Requests, Request(r)
  PROVE  Inv'
<1> USE Names
<1>1. CASE \E s \in Sessions, k \in Kinds : Handle(r, s, k)
  BY <1>1, HandleInv
<1>2. CASE HandleClosed(r) \/ ResolveRefused(r) \/ BuildFails(r) \/ ValidateBusy(r)
  <2>1. Goto(r, "done") /\ UNCHANGED <<closed, registry, runs, busy, about, dropped, clearing>>
    BY <1>2 DEF HandleClosed, ResolveRefused, BuildFails, ValidateBusy, held
  <2>2. TypeOK'
    BY <2>1 DEF Inv, TypeOK, Goto, about
  <2>3. \A q \in Requests : pc'[q] = (IF q = r THEN "done" ELSE pc[q])
    BY <2>1 DEF Inv, TypeOK, Goto
  <2>4. HasTools' /\ Holder'
    BY <2>1, <2>3 DEF Inv, HasTools, Holder, about
  <2>5. Owned' /\ Placed' /\ Current' /\ GoneOnce' /\ DroppedForGood' /\ WithinCapacity'
    BY <2>1 DEF Inv, Owned, Belongs, Placed, Current, GoneOnce, DroppedForGood,
                WithinCapacity, Open, about
  <2> QED BY <2>2, <2>4, <2>5 DEF Inv
<1>3. CASE ValidateFails(r)
  BY <1>3, MoveInv DEF ValidateFails, held, Inv, TypeOK, HasTools, Holder
<1> QED BY <1>1, <1>2, <1>3, ResolveInv, PublishInv, ReadInv, CapacityInv DEF Request

LEMMA CloseInv ==
  ASSUME Inv, NEW c \in Closers, Close(c)
  PROVE  Inv'
<1> USE Names
<1>0. c \in Calls /\ c \in Closers \cup {Server} /\ (c \in Requests => FALSE)
  BY SessionsAssumption DEF Calls
<1>1. CASE CloseDefault(c)
  BY <1>0, <1>1, ClearInv DEF CloseDefault, Goto, Inv, TypeOK
<1>2. ASSUME NEW s \in Sessions, Pop(c, s) PROVE Inv'
  <2>1. {s} \in SUBSET (Open \ {Default})
    BY <1>2 DEF Pop, Open
  <2>2. registry' = [t \in Sessions |-> IF t \in {s} THEN None ELSE registry[t]]
    BY <1>2 DEF Pop, LetGo, Inv, TypeOK
  <2>3. gone' = gone \cup {registry[t] : t \in {s}}
    BY <1>2 DEF Pop, LetGo
  <2>4. pc' \in [Calls -> Places] /\ \A r \in Requests : pc'[r] = pc[r]
    BY <1>0, <1>2 DEF Pop, Goto, Inv, TypeOK
  <2>5. clearing' \in [Closers \cup {Server} -> SUBSET Instances]
    BY <1>0, <1>2 DEF Pop, Inv, TypeOK
  <2>6. UNCHANGED <<closed, runs, busy, about>>
    BY <1>2 DEF Pop
  <2>7. late' \in SUBSET Requests
    BY <1>2 DEF Pop, LetGo, Ahead, Inv, TypeOK
  <2> QED BY <2>1, <2>2, <2>3, <2>4, <2>5, <2>6, <2>7, LetGoInv
<1>3. CASE PopNothing(c)
  BY <1>0, <1>3, MoveInv DEF PopNothing, held, Inv, TypeOK
<1> QED BY <1>1, <1>2, <1>3 DEF Close

LEMMA ServerInv ==
  ASSUME Inv, CloseServer \/ CloseAll
  PROVE  Inv'
<1> USE Names
<1>0. Server \in Calls /\ Server \in Closers \cup {Server} /\ Server \notin Requests
  BY SessionsAssumption DEF Calls
<1>1. CASE CloseServer
  BY <1>0, <1>1, MoveInv DEF CloseServer, held, Inv, TypeOK
<1>2. CASE CloseAll
  <2> DEFINE Lost == Open \ {Default}
  <2>1. Lost \in SUBSET (Open \ {Default})
    OBVIOUS
  <2>2. registry' = [s \in Sessions |-> IF s \in Lost THEN None ELSE registry[s]]
    BY <1>2 DEF CloseAll, Open
  <2>3. gone' = gone \cup {registry[s] : s \in Lost}
    BY <1>2 DEF CloseAll
  <2>4. pc' \in [Calls -> Places] /\ \A r \in Requests : pc'[r] = pc[r]
    BY <1>0, <1>2 DEF CloseAll, Goto, Inv, TypeOK
  <2>5. {registry[s] : s \in Open} \subseteq Instances
    BY DEF Inv, TypeOK, Open
  <2>6. clearing' \in [Closers \cup {Server} -> SUBSET Instances]
    BY <1>0, <1>2, <2>5 DEF CloseAll, Inv, TypeOK
  <2>7. UNCHANGED <<closed, runs, busy, about>>
    BY <1>2 DEF CloseAll
  <2>8. late' \in SUBSET Requests
    BY <1>2 DEF CloseAll, Ahead, Inv, TypeOK
  <2> QED BY <2>1, <2>2, <2>3, <2>4, <2>6, <2>7, <2>8, LetGoInv
<1> QED BY <1>1, <1>2

LEMMA NextInv == Inv /\ [Next]_vars => Inv'
<1> SUFFICES ASSUME Inv, [Next]_vars PROVE Inv'
  OBVIOUS
<1> USE Names
<1>1. ASSUME NEW c \in Closers \cup {Server}, Cleared(c) PROVE Inv'
  <2>1. c \in Calls /\ (c \in Requests => FALSE)
    BY SessionsAssumption DEF Calls
  <2> QED BY <1>1, <2>1, MoveInv DEF Cleared, held, Inv, TypeOK
<1>2. ASSUME NEW c \in Closers \cup {Server}, NEW i \in Instances, Clear(c, i) PROVE Inv'
  BY <1>2, ClearInv DEF Clear, Inv, TypeOK
<1>3. CASE UNCHANGED vars
  <2>1. TypeOK' /\ HasTools' /\ Holder'
    BY <1>3 DEF vars, Inv, TypeOK, HasTools, Holder
  <2>2. Owned' /\ Placed' /\ Current' /\ GoneOnce' /\ DroppedForGood' /\ WithinCapacity'
    BY <1>3 DEF vars, Inv, Owned, Belongs, Placed, Current, GoneOnce, DroppedForGood,
                WithinCapacity, Open
  <2> QED BY <2>1, <2>2 DEF Inv
<1> QED BY <1>1, <1>2, <1>3, RequestInv, CloseInv, ServerInv DEF Next

\* The inductive invariant: who owns an instance, who holds it, and what is gone.
THEOREM SessionsInvariant == Spec => []Inv
BY InitInv, NextInv, PTL DEF Spec

\* Every variable of the session registry keeps its type, and the default session the
\* instance that the constructor built.
THEOREM SessionsTypes == Spec => []TypeOK
<1>1. Inv => TypeOK
  BY DEF Inv
<1> QED BY <1>1, SessionsInvariant, PTL

\* No request reads a run that another session published (MCPSessionRegistry.resolve),
\* whatever is closed and opened in between.
THEOREM SessionsAreIsolated == Spec => []Isolation
<1>1. Inv => Isolation
  <2> SUFFICES ASSUME Inv, NEW r \in Requests,
                      NEW q \in seen[r] \cup (IF tools[r] = None THEN {} ELSE runs[tools[r]])
               PROVE  session[q] = session[r]
    BY DEF Isolation
  <2>1. q \in Requests /\ tools[q] = tools[r] /\ tools[r] \in Instances
    BY DEF Inv, TypeOK, Placed
  <2>2. Belongs(tools[r], session[q]) /\ Belongs(tools[r], session[r])
    BY <2>1 DEF Inv, TypeOK, Owned
  <2> QED BY <2>2 DEF Belongs
<1> QED BY <1>1, SessionsInvariant, PTL

\* Two requests of a session share its store unless the registry let one of them go.
THEOREM SessionsHaveOneStore == Spec => []OneStorePerSession
<1>1. Inv => OneStorePerSession
  BY DEF Inv, Current, OneStorePerSession
<1> QED BY <1>1, SessionsInvariant, PTL

\* An instance that was dropped by close_session or close_all never comes back.
THEOREM DroppedStaysDropped == Spec => []DroppedForGood
<1>1. Inv => DroppedForGood
  BY DEF Inv
<1> QED BY <1>1, SessionsInvariant, PTL

\* The registry never holds more than max_sessions sessions.
THEOREM SessionsAreBounded == Spec => []WithinCapacity
<1>1. Inv => WithinCapacity
  BY DEF Inv
<1> QED BY <1>1, SessionsInvariant, PTL

\* One validation at a time in the process, over all sessions, open or dropped.
THEOREM ValidationsAreSingle == Spec => []OneValidation
<1>1. Inv => OneValidation
  BY DEF Inv, Holder, OneValidation
<1> QED BY <1>1, SessionsInvariant, PTL

-----------------------------------------------------------------------------
(* What closing leaves behind: only the requests that were under way when  *)
(* an instance was taken off the registry can still publish into it, and   *)
(* nobody is let in after close_all.                                       *)

Swept == pc[Server] \in {"clear", "done"}

Pending(i) == \E c \in Closers \cup {Server} : i \in clearing[c]

\* Each call that closes clears what it has taken, and the dispatcher is closed first.
Closing ==
  /\ pc[Server] \in {"idle", "close_all", "clear", "done"}
  /\ closed <=> pc[Server] # "idle"
  /\ \A c \in Closers \cup {Server} : pc[c] # "clear" => clearing[c] = {}

\* Who can still publish into an instance that was closed is known as late.
Foreseen ==
  \A r \in Ahead : Swept \/ tools[r] \in gone => r \in late

Left ==
  \A i \in Instances : (i \in gone \/ Swept) /\ ~Pending(i) => runs[i] \subseteq late

ClosingInv == Closing /\ Foreseen /\ Left

LEMMA RequestClosing ==
  ASSUME Inv, ClosingInv, NEW r \in Requests, Request(r)
  PROVE  ClosingInv'
<1> USE DEF held, about
<1>1. /\ UNCHANGED <<closed, clearing, dropped>>
      /\ \A c \in Calls : c # r => pc'[c] = pc[c]
  BY DEF Request, Handle, HandleClosed, ResolveExisting, ResolveNew, ResolveRefused,
         BuildFails, Resolved, Publish, Read, Validate, ValidateBusy, ValidateFails,
         ReleaseCapacity, Goto, Inv, TypeOK
<1>2. \A c \in Closers \cup {Server} : c \in Calls /\ c # r
  BY Names DEF Calls
<1>3. Closing' /\ Swept' = Swept /\ \A i \in Instances : Pending(i)' = Pending(i)
  BY <1>1, <1>2 DEF ClosingInv, Closing, Swept, Pending
<1>4. r \in Ahead' =>
        \/ r \in Ahead /\ tools'[r] = tools[r]
        \/ ~closed /\ tools'[r] = None
        \/ r \in Ahead /\ tools'[r] \notin gone
  <2>1. CASE \E s \in Sessions, k \in Kinds : Handle(r, s, k)
    <3>1. ~closed /\ tools' = tools /\ pc[r] = "idle"
      BY <2>1 DEF Handle
    <3> QED BY <3>1 DEF Inv, HasTools
  <2>2. CASE ResolveExisting(r)
    <3>1. session[r] \in Sessions /\ tools'[r] = registry[session[r]] /\ r \in Ahead
      BY <2>2 DEF ResolveExisting, Resolved, Ahead, Inv, TypeOK
    <3> QED BY <3>1 DEF Inv, DroppedForGood
  <2>3. CASE ResolveNew(r)
    <3>1. tools'[r] = r /\ tools[r] = None /\ r \in Ahead
      BY <2>3 DEF ResolveNew, Resolved, Ahead, Inv, TypeOK, HasTools
    <3> QED BY <3>1, Names DEF Inv, GoneOnce
  <2>4. CASE HandleClosed(r) \/ ResolveRefused(r) \/ BuildFails(r) \/ Publish(r) \/ Read(r)
             \/ ValidateBusy(r) \/ ValidateFails(r) \/ ReleaseCapacity(r)
    <3>1. PICK place \in {"done", "release"} : Goto(r, place)
      BY <2>4
         DEF HandleClosed, ResolveRefused, BuildFails, Publish, Read, ValidateBusy,
             ValidateFails, ReleaseCapacity
    <3>2. pc'[r] = place
      BY <3>1, Names DEF Goto, Inv, TypeOK
    <3> QED BY <3>2 DEF Ahead
  <2>5. CASE Validate(r)
    BY <2>5 DEF Validate, Ahead
  <2> QED BY <2>1, <2>2, <2>3, <2>4, <2>5 DEF Request
<1>5. \A q \in Requests : q # r => /\ q \in Ahead' <=> q \in Ahead
                                   /\ tools'[q] = tools[q]
  BY <1>1, Names
     DEF Ahead, Request, Handle, HandleClosed, ResolveExisting, ResolveNew, ResolveRefused,
         BuildFails, Resolved, Publish, Read, Validate, ValidateBusy, ValidateFails,
         ReleaseCapacity, Inv, TypeOK
<1>6. None \notin gone
  BY Names DEF Inv, TypeOK
<1>7. ~closed => ~Swept
  BY DEF ClosingInv, Closing, Swept
<1>8. Foreseen'
  <2> SUFFICES ASSUME NEW q \in Ahead', Swept \/ tools'[q] \in gone
               PROVE  q \in late
    BY <1>1, <1>3 DEF Foreseen
  <2>1. q \in Requests
    BY DEF Ahead
  <2>2. CASE q # r
    BY <1>5, <2>1, <2>2 DEF ClosingInv, Foreseen
  <2>3. CASE q = r
    BY <1>4, <1>6, <1>7, <2>3 DEF ClosingInv, Foreseen
  <2> QED BY <2>2, <2>3
<1>9. Left'
  <2>1. CASE runs' = runs
    BY <1>1, <1>3, <2>1 DEF ClosingInv, Left
  <2>2. CASE Publish(r)
    <3>1. r \in Ahead /\ tools[r] \in Instances
      BY <2>2 DEF Publish, Ahead, Inv, TypeOK, HasTools
    <3>2. \A i \in Instances : runs'[i] = IF i = tools[r] THEN runs[i] \cup {r} ELSE runs[i]
      BY <2>2, <3>1 DEF Publish, Inv, TypeOK
    <3>3. Swept \/ tools[r] \in gone => r \in late
      BY <3>1 DEF ClosingInv, Foreseen
    <3> QED BY <1>1, <1>3, <3>2, <3>3 DEF ClosingInv, Left
  <2>3. CASE ~Publish(r)
    BY <2>1, <2>3
       DEF Request, Handle, HandleClosed, ResolveExisting, ResolveNew, ResolveRefused,
           BuildFails, Resolved, Read, Validate, ValidateBusy, ValidateFails,
           ReleaseCapacity
  <2> QED BY <2>2, <2>3
<1> QED BY <1>3, <1>8, <1>9 DEF ClosingInv

\* A call that closes moves no request.
LEMMA CloserSteps ==
  ASSUME Inv, NEW c \in Closers \cup {Server}, NEW place \in Places, Goto(c, place)
  PROVE  /\ \A d \in Calls : pc'[d] = IF d = c THEN place ELSE pc[d]
         /\ Ahead' = Ahead
<1>1. c \in Calls /\ c \notin Requests
  BY Names DEF Calls
<1> QED BY <1>1, Names DEF Goto, Ahead, Inv, TypeOK

LEMMA CloseClosing ==
  ASSUME Inv, ClosingInv, NEW c \in Closers, Close(c)
  PROVE  ClosingInv'
<1> USE DEF held, about
<1>0. /\ c \in Calls /\ c # Server /\ c \in Closers \cup {Server}
      /\ \A d \in Closers \cup {Server} : d \in Calls
  BY Names, SessionsAssumption DEF Calls
<1>1. CASE CloseDefault(c)
  <2>1. /\ \A d \in Calls : pc'[d] = IF d = c THEN "done" ELSE pc[d]
        /\ Ahead' = Ahead
    BY <1>0, <1>1, CloserSteps DEF CloseDefault
  <2>2. \A i \in Instances : runs'[i] \subseteq runs[i]
    BY <1>1 DEF CloseDefault, Inv, TypeOK
  <2>3. UNCHANGED <<closed, clearing, tools, dropped>> /\ pc[c] = "idle"
    BY <1>1 DEF CloseDefault
  <2> QED BY <1>0, <2>1, <2>2, <2>3
          DEF ClosingInv, Closing, Foreseen, Left, Swept, Pending
<1>2. ASSUME NEW s \in Sessions, Pop(c, s) PROVE ClosingInv'
  <2>1. /\ \A d \in Calls : pc'[d] = IF d = c THEN "clear" ELSE pc[d]
        /\ Ahead' = Ahead
    BY <1>0, <1>2, CloserSteps DEF Pop
  <2>2. /\ UNCHANGED <<closed, runs, tools>> /\ pc[c] = "idle"
        /\ gone' = gone \cup {registry[s]}
        /\ late' = late \cup {r \in Ahead : tools[r] = registry[s]}
    BY <1>2 DEF Pop, LetGo
  <2>3. \A d \in Closers \cup {Server} :
          clearing'[d] = IF d = c THEN {registry[s]} ELSE clearing[d]
    BY <1>0, <1>2 DEF Pop, Inv, TypeOK
  <2>4. clearing[c] = {}
    BY <1>0, <2>2 DEF ClosingInv, Closing
  <2>5. \A i \in Instances : Pending(i)' <=> Pending(i) \/ i = registry[s]
    BY <1>0, <2>3, <2>4 DEF Pending
  <2>6. Closing' /\ Swept' = Swept
    BY <1>0, <2>1, <2>2, <2>3 DEF ClosingInv, Closing, Swept
  <2>7. Foreseen'
    BY <2>1, <2>2, <2>6 DEF ClosingInv, Foreseen
  <2>8. Left'
    BY <2>2, <2>5, <2>6 DEF ClosingInv, Left
  <2> QED BY <2>6, <2>7, <2>8 DEF ClosingInv
<1>3. CASE PopNothing(c)
  <2>1. /\ \A d \in Calls : pc'[d] = IF d = c THEN "done" ELSE pc[d]
        /\ Ahead' = Ahead
    BY <1>0, <1>3, CloserSteps DEF PopNothing
  <2>2. UNCHANGED <<closed, runs, clearing, tools, dropped>> /\ pc[c] = "idle"
    BY <1>3 DEF PopNothing
  <2> QED BY <1>0, <2>1, <2>2 DEF ClosingInv, Closing, Foreseen, Left, Swept, Pending
<1> QED BY <1>1, <1>2, <1>3 DEF Close

LEMMA ClearClosing ==
  ASSUME Inv, ClosingInv, NEW c \in Closers \cup {Server},
         Cleared(c) \/ \E i \in Instances : Clear(c, i)
  PROVE  ClosingInv'
<1> USE DEF held, about
<1>0. c \in Calls /\ \A d \in Closers \cup {Server} : d \in Calls
  BY Names DEF Calls
<1>1. ASSUME NEW i \in Instances, Clear(c, i) PROVE ClosingInv'
  <2>1. /\ UNCHANGED <<closed, pc, tools, dropped>> /\ pc[c] = "clear" /\ Ahead' = Ahead
    BY <1>1 DEF Clear, Ahead
  <2>2. \A j \in Instances : runs'[j] = IF j = i THEN {} ELSE runs[j]
    BY <1>1 DEF Clear, Inv, TypeOK
  <2>3. \A d \in Closers \cup {Server} :
          clearing'[d] = IF d = c THEN clearing[d] \ {i} ELSE clearing[d]
    BY <1>1 DEF Clear, Inv, TypeOK
  <2>4. Closing' /\ Foreseen' /\ Swept' = Swept
    BY <2>1, <2>3 DEF ClosingInv, Closing, Foreseen, Swept
  <2>5. ASSUME NEW j \in Instances, j # i PROVE Pending(j)' = Pending(j)
    BY <2>3, <2>5 DEF Pending
  <2>6. Left'
    BY <2>1, <2>2, <2>4, <2>5 DEF ClosingInv, Left
  <2> QED BY <2>4, <2>6 DEF ClosingInv
<1>2. CASE Cleared(c)
  <2>1. /\ \A d \in Calls : pc'[d] = IF d = c THEN "done" ELSE pc[d]
        /\ Ahead' = Ahead
    BY <1>2, CloserSteps DEF Cleared
  <2>2. /\ UNCHANGED <<closed, runs, clearing, tools, dropped>>
        /\ pc[c] = "clear" /\ clearing[c] = {}
    BY <1>2 DEF Cleared
  <2>3. Swept' = Swept /\ Closing'
    BY <1>0, <2>1, <2>2, Names DEF ClosingInv, Closing, Swept
  <2> QED BY <2>1, <2>2, <2>3 DEF ClosingInv, Foreseen, Left, Pending
<1> QED BY <1>1, <1>2

LEMMA ServerClosing ==
  ASSUME Inv, ClosingInv, CloseServer \/ CloseAll
  PROVE  ClosingInv'
<1> USE DEF held, about
<1>0. \A d \in Closers : d \in Calls /\ d # Server
  BY SessionsAssumption DEF Calls
<1>1. CASE CloseServer
  <2>1. /\ \A d \in Calls : pc'[d] = IF d = Server THEN "close_all" ELSE pc[d]
        /\ Ahead' = Ahead
    BY <1>1, CloserSteps DEF CloseServer
  <2>2. UNCHANGED <<runs, clearing, tools, dropped>> /\ pc[Server] = "idle" /\ closed'
    BY <1>1 DEF CloseServer
  <2> QED BY <1>0, <2>1, <2>2, Names
          DEF ClosingInv, Closing, Foreseen, Left, Swept, Pending
<1>2. CASE CloseAll
  <2>1. /\ \A d \in Calls : pc'[d] = IF d = Server THEN "clear" ELSE pc[d]
        /\ Ahead' = Ahead
    BY <1>2, CloserSteps DEF CloseAll
  <2>2. /\ UNCHANGED <<closed, runs, tools>> /\ pc[Server] = "close_all"
        /\ gone' = gone \cup {registry[s] : s \in Open \ {Default}}
        /\ late' = late \cup Ahead
    BY <1>2 DEF CloseAll
  <2>3. \A d \in Closers \cup {Server} :
          clearing'[d] = IF d = Server THEN {registry[s] : s \in Open} ELSE clearing[d]
    BY <1>2 DEF CloseAll, Inv, TypeOK
  <2>4. clearing[Server] = {}
    BY <2>2 DEF ClosingInv, Closing
  <2>5. Closing'
    BY <1>0, <2>1, <2>2, <2>3, Names DEF ClosingInv, Closing
  <2>6. Foreseen'
    BY <2>1, <2>2 DEF Foreseen
  <2>7. ASSUME NEW i \in Instances, ~Pending(i)' PROVE runs'[i] \subseteq late'
    <3>1. ~Pending(i) /\ i \notin {registry[s] : s \in Open}
      BY <2>3, <2>4, <2>7 DEF Pending
    <3>2. CASE i \in gone
      BY <2>2, <3>1, <3>2 DEF ClosingInv, Left
    <3>3. ASSUME i \notin gone, NEW q \in runs[i] PROVE FALSE
      <4>1. q \in Requests /\ tools[q] = i /\ i # None /\ session[q] \in Sessions
        BY <3>3, Names DEF Inv, TypeOK, Placed
      <4>2. registry[session[q]] = i
        BY <3>3, <4>1 DEF Inv, Current
      <4> QED BY <3>1, <4>1, <4>2 DEF Open
    <3> QED BY <2>2, <3>2, <3>3
  <2> QED BY <2>5, <2>6, <2>7 DEF ClosingInv, Left
<1> QED BY <1>1, <1>2

\* "Closing a session drops its retained state" (close_session, close_all and
\* BeliefMCPServer.close) as far as it goes: however requests and closing calls
\* interleave, what an instance holds after it was closed and cleared was published by a
\* request that was already under way then.
THEOREM RetainedAreLate == Spec => []RetainedIsLate
<1>1. Init => ClosingInv
  BY Names DEF Init, ClosingInv, Closing, Foreseen, Left, Swept, Ahead
<1>2. Inv /\ ClosingInv /\ [Next]_vars => ClosingInv'
  <2>1. ClosingInv /\ UNCHANGED vars => ClosingInv'
    BY DEF ClosingInv, Closing, Foreseen, Left, Swept, Pending, Ahead, vars
  <2> QED BY <2>1, RequestClosing, CloseClosing, ClearClosing, ServerClosing DEF Next
<1>3. ClosingInv => RetainedIsLate
  BY DEF ClosingInv, Left, Swept, Pending, RetainedIsLate
<1> QED BY <1>1, <1>2, <1>3, SessionsInvariant, PTL DEF Spec
=============================================================================

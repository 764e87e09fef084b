------------------------ MODULE SourceSnapshotProofs ------------------------
(***************************************************************************)
(* Proofs about SourceSnapshot, for any tree, any limits and any number of *)
(* writes while the snapshot is built.                                     *)
(***************************************************************************)
EXTENDS SourceSnapshot, FiniteSetTheorems, WellFoundedInduction, TLAPS

\* The next file is a selected one.
LEMMA MinOfNaturals ==
  ASSUME NEW S \in SUBSET Nat, S # {}
  PROVE  Min(S) \in S
<1> DEFINE U(n) == 0 .. n
           T == {U(n) : n \in S}
<1>1. PICK k \in S : TRUE
  OBVIOUS
<1>2. PICK I \in {U(n) : n \in {m \in S : m <= k}} :
        \A J \in {U(n) : n \in {m \in S : m <= k}} :
          ~ (<<J, I>> \in StrictSubsetOrdering(U(k)))
  <2> DEFINE V == {U(n) : n \in {m \in S : m <= k}}
  <2>1. V # {}
    BY <1>1
  <2>2. V \subseteq FiniteSubsetsOf(U(k))
    <3>1. ASSUME NEW n \in S, n <= k
          PROVE  U(n) \in FiniteSubsetsOf(U(k))
      <4>1. n \in Nat /\ k \in Nat
        OBVIOUS
      <4>2. U(n) \subseteq U(k)
        BY <3>1, <4>1
      <4>3. IsFiniteSet(U(n))
        BY <4>1, FS_Interval
      <4> QED BY <4>2, <4>3 DEF FiniteSubsetsOf
    <3> HIDE DEF U
    <3> QED BY <3>1
  <2> HIDE DEF V
  <2>3. \E I \in V : \A J \in V : ~ (<<J, I>> \in StrictSubsetOrdering(U(k)))
    BY <2>1, <2>2, FS_StrictSubsetOrderingWellFounded, WFMin
  <2> QED BY <2>3 DEF V
<1>3. PICK m \in S : m <= k /\ I = U(m)
  BY <1>2
<1>4. ASSUME NEW n \in S, n < m PROVE FALSE
  <2>1. n <= k /\ U(n) \subseteq U(m) /\ U(n) # U(m) /\ U(m) \subseteq U(k)
    BY <1>1, <1>3, <1>4
  <2>2. <<U(n), I>> \in StrictSubsetOrdering(U(k))
    BY <2>1, <1>3 DEF StrictSubsetOrdering
  <2> QED BY <2>1, <2>2, <1>2
<1>5. \A n \in S : m <= n
  BY <1>4
<1> QED BY <1>3, <1>5 DEF Min

-----------------------------------------------------------------------------
(* The inductive invariant.                                                *)

Entries ==
  [state : {"absent", "present", "new", "removed"}, size : Sizes, kind : Kinds,
   version : 0 .. MaxWrites, mtime : 0 .. MaxWrites]

Handles ==
  [file : Files \cup {None}, size : Nat \cup {None}, mtime : Nat \cup {None},
   first : Nat \cup {None}, second : Nat \cup {None}, kind : Kinds \cup {None},
   length : Nat \cup {None}, cut : BOOLEAN]

Reading == {"read", "rest", "fstat"}

\* What the place in the build says about the files that are left.
Staged ==
  /\ pc = "walk" => queue = {} /\ truncated = {} /\ failed = {} /\ documents = {}
  /\ pc # "walk" => listed = Len(Dirs)
  /\ pc \in Reading \cup {"open"} => queue # {}
  /\ pc = "done" => queue = {}
  /\ handle \in Handles
  /\ pc \in Reading => handle.file = file
  /\ pc \notin Reading => handle = Closed

\* A timestamp never runs ahead of the version it was given to, and is that of the
\* version if the clock is fine.
Clocked ==
  \A f \in Files :
    /\ disk[f].mtime <= disk[f].version /\ disk[f].version <= writes
    /\ FineClock => disk[f].mtime = disk[f].version

\* The versions that a read meets one after the other do not go back.
Forward ==
  /\ pc \in Reading => handle.mtime \in Nat /\ handle.mtime <= disk[file].mtime
  /\ pc \in {"rest", "fstat"} =>
       handle.first \in Nat /\ handle.mtime <= handle.first
         /\ handle.first <= disk[file].version
  /\ pc = "fstat" =>
       handle.second \in Nat /\ handle.first <= handle.second
         /\ handle.second <= disk[file].version

\* A file that has been there all the time was found in its directory, unless that was
\* excluded or could not be listed.
Found ==
  \A f \in Files, i \in 1 .. listed :
    disk[f].state = "present" /\ Place[f] = Dirs[i] =>
      \/ Dirs[i] \in subtrees
      \/ access[Dirs[i]] = "unlistable"
      \/ f \in eligible \cup excluded

Inv == TypeOK /\ Accounted /\ Staged /\ Clocked /\ Forward /\ Found

USE DEF Kinds, Accesses, Reading

LEMMA DirsType == Len(Dirs) \in Nat /\ \A i \in 1 .. Len(Dirs) : Dirs[i] \in ToSet(Dirs)
<1>1. Len(Dirs) \in Nat /\ DOMAIN Dirs = 1 .. Len(Dirs)
  BY SnapshotAssumption
<1> QED BY <1>1 DEF ToSet

LEMMA EntryType ==
  ASSUME NEW e \in Entries
  PROVE  /\ e.version \in Nat /\ e.mtime \in Nat
         /\ e.size \in Nat /\ e.kind \in Kinds
<1>1. /\ e.size \in Sizes /\ e.kind \in Kinds
      /\ e.version \in 0 .. MaxWrites /\ e.mtime \in 0 .. MaxWrites
  BY DEF Entries
<1>2. e.size \in Nat
  BY <1>1, SnapshotAssumption
<1>3. e.version \in Nat
  BY <1>1, SnapshotAssumption
<1>4. e.mtime \in Nat
  BY <1>1, SnapshotAssumption
<1> QED BY <1>1, <1>2, <1>3, <1>4

LEMMA NextFile == ASSUME Inv, queue # {} PROVE file \in queue /\ file \in Files
BY MinOfNaturals, SnapshotAssumption DEF Inv, TypeOK, file

LEMMA InitInv == Init => Inv
<1> SUFFICES ASSUME Init PROVE Inv
  OBVIOUS
<1> USE SnapshotAssumption, DirsType DEF Init
<1>1. disk \in [Files -> Entries]
  BY DEF Entries
<1>2. TypeOK
  BY <1>1 DEF TypeOK, Entries, Closed
<1>3. Accounted /\ Staged /\ Found
  BY DEF Accounted, Staged, Found, Handles, Closed
<1>4. Clocked /\ Forward
  BY DEF Clocked, Forward
<1> QED BY <1>2, <1>3, <1>4 DEF Inv

\* The writer leaves the build alone, and moves versions and timestamps forward.
LEMMA ChangeInv ==
  ASSUME Inv, NEW f \in Files, NEW e \in Entries, Change(f, e),
         e.version \in {disk[f].version, writes + 1},
         e.mtime <= e.version, disk[f].mtime <= e.mtime,
         FineClock => e.mtime = e.version,
         e.state = "present" => disk[f].state = "present"
  PROVE  Inv'
<1> USE DEF Change, inventory, scan
<1>1. /\ \A g \in Files : disk'[g] = IF g = f THEN e ELSE disk[g]
      /\ \A g \in Files : disk[g] \in Entries
      /\ disk' \in [Files -> Entries] /\ file' = file
  BY DEF Inv, TypeOK, Entries, file
<1>2. writes \in Nat /\ writes' = writes + 1 /\ writes' \in 0 .. MaxWrites
  BY SnapshotAssumption DEF Inv, TypeOK
<1>3. TypeOK'
  BY <1>1, <1>2 DEF Inv, TypeOK, Entries
<1>4. Accounted' /\ Staged'
  BY <1>1 DEF Inv, Accounted, Staged, scanned
<1>5. e.version \in Nat /\ e.mtime \in Nat
      /\ \A g \in Files : disk[g].version \in Nat /\ disk[g].mtime \in Nat
  BY <1>1 DEF Entries
<1>6. Clocked'
  BY <1>1, <1>2, <1>5 DEF Inv, Clocked
<1>7. disk[f].version <= e.version
  BY <1>2, <1>5 DEF Inv, Clocked
<1>8. \A g \in Files : /\ disk[g].mtime <= disk'[g].mtime
                       /\ disk[g].version <= disk'[g].version
  BY <1>1, <1>5, <1>7
<1>9. pc \in Reading => file \in Files
  BY NextFile DEF Inv, Staged
<1>10. Forward'
  BY <1>1, <1>5, <1>8, <1>9 DEF Inv, Forward, Staged, Handles
<1>11. Found'
  BY <1>1 DEF Inv, Found
<1> QED BY <1>3, <1>4, <1>6, <1>10, <1>11 DEF Inv

LEMMA WriterInv ==
  ASSUME Inv, NEW f \in Files, Write(f) \/ Create(f) \/ Delete(f)
  PROVE  Inv'
<1>1. disk[f] \in Entries /\ writes \in Nat
  BY SnapshotAssumption DEF Inv, TypeOK, Entries
<1>2. disk[f].mtime <= disk[f].version /\ disk[f].version <= writes
      /\ (FineClock => disk[f].mtime = disk[f].version)
      /\ disk[f].mtime \in Nat /\ disk[f].version \in Nat
  BY <1>1 DEF Inv, Clocked, Entries
<1>3. CASE Write(f)
  <2>1. PICK size \in Sizes, kind \in Kinds,
             mtime \in IF FineClock THEN {writes + 1} ELSE {disk[f].mtime, writes + 1} :
               Change(f, [disk[f] EXCEPT !.size = size, !.kind = kind,
                                         !.version = writes + 1, !.mtime = mtime])
    BY <1>3 DEF Write
  <2> DEFINE e == [disk[f] EXCEPT !.size = size, !.kind = kind,
                                  !.version = writes + 1, !.mtime = mtime]
  <2>2. writes + 1 \in 0 .. MaxWrites
    BY <2>1, <1>1, SnapshotAssumption DEF Change
  <2>3. mtime \in 0 .. MaxWrites /\ mtime <= writes + 1 /\ disk[f].mtime <= mtime
        /\ (FineClock => mtime = writes + 1)
    BY <1>1, <1>2, <2>2, SnapshotAssumption
  <2>4. e \in Entries /\ e.version = writes + 1 /\ e.mtime = mtime
        /\ e.state = disk[f].state
    BY <1>1, <2>2, <2>3 DEF Entries
  <2>5. Change(f, e)
    BY <2>1
  <2> HIDE DEF e
  <2> QED BY <2>3, <2>4, <2>5, ChangeInv
<1>4. ASSUME NEW state \in {"new", "removed"},
             Change(f, [disk[f] EXCEPT !.state = state])
      PROVE  Inv'
  <2> DEFINE e == [disk[f] EXCEPT !.state = state]
  <2>1. e \in Entries /\ e.version = disk[f].version /\ e.mtime = disk[f].mtime
        /\ e.state = state
    BY <1>1 DEF Entries
  <2>2. Change(f, e)
    BY <1>4
  <2> HIDE DEF e
  <2> QED BY <1>2, <2>1, <2>2, ChangeInv
<1> QED BY <1>3, <1>4 DEF Create, Delete

LEMMA ListInv == Inv /\ List => Inv'
<1> SUFFICES ASSUME Inv, List PROVE Inv'
  OBVIOUS
<1> USE DEF List, tree, scan
<1>1. listed \in Nat /\ listed + 1 \in 1 .. Len(Dirs) /\ Dirs[listed + 1] \in ToSet(Dirs)
  BY DirsType DEF Inv, TypeOK
<1> DEFINE dir == Dirs[listed + 1]
           found == IF access[dir] = "listed" THEN Here(dir) ELSE {}
<1>2. found \subseteq Files
  BY DEF Here
<1>3. /\ eligible' = eligible \cup (found \ Generated)
      /\ excluded' = excluded \cup (found \cap Generated)
      /\ subtrees' = subtrees \cup {d \in {dir} : access[d] = "excluded"}
      /\ access[dir] \in Accesses
  BY <1>1 DEF Inv, TypeOK
<1>4. file' = file
  BY DEF file
<1>5. TypeOK'
  BY <1>1, <1>2, <1>3, DirsType DEF Inv, TypeOK
<1>6. Accounted' /\ Staged' /\ Clocked' /\ Forward'
  BY <1>4 DEF Inv, Accounted, Staged, Clocked, Forward
<1>7. Found'
  <2> SUFFICES ASSUME NEW f \in Files, NEW j \in 1 .. (listed + 1),
                      disk[f].state = "present", Place[f] = Dirs[j]
               PROVE  \/ Dirs[j] \in subtrees'
                      \/ access[Dirs[j]] = "unlistable"
                      \/ f \in eligible' \cup excluded'
    BY DEF Found
  <2>1. CASE j = listed + 1
    <3>1. f \in Here(dir)
      BY <2>1 DEF Here, Exists
    <3> QED BY <2>1, <3>1, <1>3
  <2>2. CASE j # listed + 1
    <3>1. j \in 1 .. listed
      BY <2>2, <1>1
    <3>2. \/ Dirs[j] \in subtrees
          \/ access[Dirs[j]] = "unlistable"
          \/ f \in eligible \cup excluded
      BY <3>1 DEF Inv, Found
    <3> QED BY <3>2, <1>3
  <2> QED BY <2>1, <2>2
<1> QED BY <1>5, <1>6, <1>7 DEF Inv

LEMMA SelectInv == Inv /\ Select => Inv'
<1> SUFFICES ASSUME Inv, Select PROVE Inv'
  OBVIOUS
<1> USE DEF Select, tree, inventory
<1>1. queue' \subseteq eligible /\ eligible \subseteq Files
  BY DEF Selection, Inv, TypeOK
<1>2. failed = {} /\ documents = {} /\ failed' = {} /\ documents' = {}
  BY DEF Inv, Staged
<1>3. TypeOK'
  BY <1>1, <1>2 DEF Inv, TypeOK
<1>4. Accounted'
  BY <1>1, <1>2 DEF Accounted, scanned
<1>5. Staged' /\ Clocked' /\ Forward' /\ Found'
  BY DEF Inv, Staged, Clocked, Forward, Found
<1> QED BY <1>3, <1>4, <1>5 DEF Inv

\* What one turn of the loop does to the account: the next file leaves the queue, and it
\* joins the failed ones or the scanned ones.
LEMMA LoopInv ==
  ASSUME Inv, queue # {}, pc \in {"stat", "open", "fstat"}, pc' = "stat",
         NEW kept \in {TRUE, FALSE},
         queue' = queue \ {file},
         failed' = IF kept THEN failed ELSE failed \cup {file},
         scanned' = IF kept THEN scanned \cup {file} ELSE scanned,
         excluded' \in {excluded, excluded \cup {file}},
         {d.file : d \in documents}' \subseteq {d.file : d \in documents} \cup {file},
         handle' = Closed,
         UNCHANGED <<tree, listed, eligible, subtrees, truncated>>
  PROVE  Inv'
<1> USE DEF tree
<1>1. file \in queue /\ file \in Files
  BY NextFile
<1>2. TypeOK'
  <2>1. handle'.file = None /\ None \notin Files
    BY SnapshotAssumption DEF Closed
  <2>2. queue' \subseteq Files /\ failed' \subseteq Files /\ excluded' \subseteq Files
        /\ {d.file : d \in documents}' \subseteq Files
    BY <1>1 DEF Inv, TypeOK
  <2> QED BY <2>1, <2>2 DEF Inv, TypeOK
<1>3. Accounted'
  BY <1>1 DEF Inv, Accounted
<1>4. Staged'
  BY DEF Inv, Staged, Handles, Closed
<1>5. Clocked' /\ Forward' /\ Found'
  BY DEF Inv, Clocked, Forward, Found
<1> QED BY <1>2, <1>3, <1>4, <1>5 DEF Inv

LEMMA StatInv == Inv /\ (StatFails \/ StatPasses) => Inv'
<1> SUFFICES ASSUME Inv, StatFails \/ StatPasses PROVE Inv'
  OBVIOUS
<1>1. CASE StatFails
  <2>1. handle = Closed
    BY <1>1 DEF StatFails, Inv, Staged
  <2>2. scanned' = scanned
    BY <1>1 DEF StatFails, scanned
  <2> QED BY <1>1, <2>1, <2>2, LoopInv, Zenon DEF StatFails, tree
<1>2. CASE StatPasses
  <2>1. file' = file
    BY <1>2 DEF StatPasses, scan, file
  <2> QED BY <1>2, <2>1 DEF StatPasses, tree, inventory, scan, Inv, TypeOK, Accounted,
             scanned, Staged, Clocked, Forward, Found
<1> QED BY <1>1, <1>2

LEMMA JoinInv ==
  ASSUME Inv, queue # {}, pc \in {"open", "fstat"},
         NEW d, d.file = file, d.analyzable \in BOOLEAN, Join(d)
  PROVE  Inv'
<1> USE DEF Join
<1>1. scanned' = IF d.analyzable THEN scanned \cup {file} ELSE scanned
  BY DEF scanned
<1>2. {e.file : e \in documents}' \subseteq {e.file : e \in documents} \cup {file}
  OBVIOUS
<1> QED BY <1>1, <1>2, LoopInv

LEMMA OpenInv == Inv /\ (OpenFails \/ OpenFile) => Inv'
<1> SUFFICES ASSUME Inv, OpenFails \/ OpenFile PROVE Inv'
  OBVIOUS
<1>1. pc = "open" /\ queue # {}
  BY DEF OpenFails, OpenFile, Inv, Staged
<1>2. file \in Files
  BY <1>1, NextFile
<1>3. CASE OpenFails
  <2>1. Unreadable(file).file = file /\ Unreadable(file).analyzable \in BOOLEAN
    BY DEF Unreadable
  <2>2. Join(Unreadable(file))
    BY <1>3 DEF OpenFails
  <2> HIDE DEF Unreadable
  <2> QED BY <1>1, <2>1, <2>2, JoinInv
<1>4. CASE OpenFile
  <2> USE DEF OpenFile, tree, inventory, scan
  <2>1. disk[file] \in Entries /\ file' = file
    BY <1>2, <1>4 DEF Inv, TypeOK, Entries, file
  <2>2. /\ disk[file].size \in Nat /\ disk[file].mtime \in Nat
        /\ disk[file].mtime <= disk[file].mtime
    BY <2>1, SnapshotAssumption DEF Entries
  <2>3. handle' \in Handles /\ handle'.file = file /\ handle'.mtime = disk[file].mtime
    BY <1>2, <1>4, <2>2 DEF Handles, Closed
  <2>4. TypeOK'
    BY <1>2, <1>4, <2>3, SnapshotAssumption DEF Inv, TypeOK
  <2>5. Accounted' /\ Staged'
    BY <1>1, <1>4, <2>1, <2>3 DEF Inv, Accounted, scanned, Staged
  <2>6. Clocked' /\ Forward' /\ Found'
    BY <1>4, <2>1, <2>2, <2>3 DEF Inv, Clocked, Forward, Found
  <2> QED BY <2>4, <2>5, <2>6 DEF Inv
<1> QED BY <1>3, <1>4

\* Each portion has the version of the file when it is read.
LEMMA ReadInv == Inv /\ (ReadFirst \/ ReadRest) => Inv'
<1> SUFFICES ASSUME Inv, ReadFirst \/ ReadRest PROVE Inv'
  OBVIOUS
<1> USE DEF tree, inventory, scan
<1>1. pc \in Reading /\ queue # {} /\ handle \in Handles /\ handle.file = file
  BY DEF ReadFirst, ReadRest, Inv, Staged
<1>2. file \in Files /\ file' = file
  BY <1>1, NextFile DEF ReadFirst, ReadRest, file
<1>3. disk[file] \in Entries
  BY <1>2 DEF Inv, TypeOK, Entries
<1>4. /\ disk[file].version \in Nat /\ disk[file].mtime \in Nat
      /\ disk[file].size \in Nat /\ disk[file].kind \in Kinds
      /\ disk[file].mtime <= disk[file].version
  BY <1>2, <1>3, EntryType DEF Inv, Clocked
<1>5. /\ handle' \in Handles /\ handle'.file = file /\ handle'.mtime = handle.mtime
      /\ ReadFirst => handle'.first = disk[file].version
      /\ ReadRest => handle'.first = handle.first /\ handle'.second = disk[file].version
  <2>1. CASE ReadFirst
    <3>1. handle' = [handle EXCEPT !.first = disk[file].version] /\ pc = "read"
      BY <2>1 DEF ReadFirst
    <3>2. handle' \in Handles /\ handle'.first = disk[file].version
          /\ handle'.file = handle.file /\ handle'.mtime = handle.mtime
      BY <1>1, <1>4, <3>1 DEF Handles
    <3> QED BY <1>1, <3>1, <3>2 DEF ReadRest
  <2>2. CASE ReadRest
    <3> DEFINE length == Least(disk[file].size, MaxFileBytes + 1)
               cut == disk[file].size > MaxFileBytes + 1
    <3>1. length \in Nat /\ cut \in BOOLEAN
      BY <1>4, SnapshotAssumption DEF Least
    <3>2. /\ handle' = [handle EXCEPT !.second = disk[file].version, !.kind = disk[file].kind,
                                      !.length = length, !.cut = cut]
          /\ pc = "rest"
      BY <2>2 DEF ReadRest
    <3> HIDE DEF length, cut
    <3>3. handle' \in Handles /\ handle'.first = handle.first
          /\ handle'.second = disk[file].version
          /\ handle'.file = handle.file /\ handle'.mtime = handle.mtime
      BY <1>1, <1>4, <3>1, <3>2 DEF Handles
    <3> QED BY <1>1, <3>2, <3>3 DEF ReadFirst
  <2> QED BY <2>1, <2>2
<1>6. TypeOK'
  BY <1>1, <1>2, <1>5, SnapshotAssumption DEF ReadFirst, ReadRest, Inv, TypeOK
<1>7. Accounted' /\ Staged'
  BY <1>1, <1>2, <1>5 DEF ReadFirst, ReadRest, Inv, Accounted, scanned, Staged
<1>8. Clocked' /\ Found'
  BY DEF ReadFirst, ReadRest, Inv, Clocked, Found
<1>9. Forward'
  <2>1. handle.mtime \in Nat /\ handle.mtime <= disk[file].mtime
    BY <1>1 DEF Inv, Forward
  <2>2. handle.mtime <= disk[file].version
    BY <1>4, <2>1
  <2>3. CASE ReadFirst
    BY <1>2, <1>4, <1>5, <2>1, <2>2, <2>3 DEF ReadFirst, Forward
  <2>4. CASE ReadRest
    BY <1>2, <1>4, <1>5, <2>1, <2>2, <2>4 DEF ReadRest, Inv, Forward
  <2> QED BY <2>3, <2>4
<1> QED BY <1>6, <1>7, <1>8, <1>9 DEF Inv

LEMMA FstatInv == Inv /\ Fstat => Inv'
<1> SUFFICES ASSUME Inv, Fstat PROVE Inv'
  OBVIOUS
<1>1. PICK parses \in BOOLEAN : Join(Document(parses))
  <2>1. PICK parses \in IF OneText THEN {handle.kind # "bad"} ELSE BOOLEAN :
          Join(Document(parses))
    BY DEF Fstat
  <2>2. parses \in BOOLEAN
    OBVIOUS
  <2> QED BY <2>1, <2>2
<1>2. Document(parses).file = file /\ Document(parses).analyzable \in BOOLEAN
  BY DEF Document
<1>3. pc = "fstat" /\ queue # {}
  BY DEF Fstat, Inv, Staged
<1> HIDE DEF Document
<1> QED BY <1>1, <1>2, <1>3, JoinInv

LEMMA NextInv == Inv /\ [Next]_vars => Inv'
<1> SUFFICES ASSUME Inv, [Next]_vars PROVE Inv'
  OBVIOUS
<1>1. CASE Finish
  BY <1>1 DEF Finish, tree, inventory, scan, Inv, TypeOK, Accounted, scanned, Staged,
     Clocked, Forward, Found
<1>2. CASE UNCHANGED vars
  BY <1>2 DEF vars, Inv, TypeOK, Accounted, scanned, Staged, Clocked, Forward, Found, file
<1> QED BY <1>1, <1>2, WriterInv, ListInv, SelectInv, StatInv, OpenInv, ReadInv, FstatInv
        DEF Next, Done

LEMMA Invariant == Spec => []Inv
BY InitInv, NextInv, PTL DEF Spec

-----------------------------------------------------------------------------
(* The theorems.                                                           *)

\* Whatever the limits are and whatever a writer does between the walk, the stat, the open
\* and the read, each eligible file that build_source_snapshot has found is still to come
\* or is in exactly one of the scanned, the failed and the truncated ones.
THEOREM AccountAddsUp == Spec => []Consistent
<1>1. Inv => Consistent
  BY DEF Inv, Consistent
<1> QED BY <1>1, Invariant, PTL

\* The last fstat of _read_document_once tells a torn read if every write gets a timestamp
\* of its own: both portions are the version that the first fstat saw.
LEMMA StableMeansOneText ==
  ASSUME Inv, pc = "fstat", Stable, FineClock
  PROVE  handle.first = handle.second
<1>1. file \in Files
  BY NextFile DEF Inv, Staged
<1>2. disk[file].mtime = disk[file].version /\ disk[file].version \in Nat
  <2>1. disk[file].version \in 0 .. MaxWrites
    BY <1>1 DEF Inv, TypeOK
  <2> QED BY <1>1, <2>1, SnapshotAssumption DEF Inv, Clocked
<1>3. /\ handle.mtime \in Nat /\ handle.first \in Nat /\ handle.second \in Nat
      /\ handle.mtime <= handle.first /\ handle.first <= handle.second
      /\ handle.second <= disk[file].version
  BY DEF Inv, Forward
<1>4. handle.mtime = disk[file].mtime
  BY DEF Stable
<1> QED BY <1>2, <1>3, <1>4

\* With a clock that gives every write a timestamp of its own, build_source_snapshot never
\* analyzes a text that is put together from two versions of the same file.
THEOREM NoTornText ==
  ASSUME FineClock
  PROVE  Spec => []OneVersion
<1>1. Init => OneVersion
  BY DEF Init, OneVersion
<1>2. ASSUME Inv, OneVersion, [Next]_vars PROVE OneVersion'
  <2>1. CASE UNCHANGED documents
    BY <1>2, <2>1 DEF OneVersion
  <2>2. CASE OpenFails
    <3>1. documents' = documents \cup {Unreadable(file)} /\ ~Unreadable(file).analyzable
      BY <2>2 DEF OpenFails, Join, Unreadable
    <3> QED BY <1>2, <3>1 DEF OneVersion
  <2>3. CASE Fstat
    <3>1. PICK parses \in BOOLEAN : documents' = documents \cup {Document(parses)}
      <4>1. PICK parses \in IF OneText THEN {handle.kind # "bad"} ELSE BOOLEAN :
              Join(Document(parses))
        BY <2>3 DEF Fstat
      <4>2. parses \in BOOLEAN
        OBVIOUS
      <4> QED BY <4>1, <4>2 DEF Join
    <3>2. ASSUME Document(parses).analyzable
          PROVE  Document(parses).first = Document(parses).second
      <4>1. Stable
        BY <3>2 DEF Document
      <4>2. handle.first = handle.second
        BY <1>2, <2>3, <4>1, StableMeansOneText DEF Fstat
      <4> QED BY <4>2 DEF Document
    <3> QED BY <1>2, <3>1, <3>2 DEF OneVersion
  <2> QED BY <1>2, <2>1, <2>2, <2>3 DEF Next, Write, Create, Delete, Change, List, Select,
          StatFails, StatPasses, OpenFile, ReadFirst, ReadRest, Finish, Done, vars,
          tree, inventory, scan
<1> QED BY <1>1, <1>2, Invariant, PTL DEF Spec

\* SourceCoverage allows a conclusion about the project only when every Python file that
\* stayed in place was scanned, but for those below a directory that os.walk could not
\* list: of these it says nothing.
THEOREM ConclusionIsCovered == Spec => []ConclusionCoversListed
<1>1. ASSUME Inv, pc = "done", ProjectConclusionAllowed, NEW f \in Files,
             disk[f].state = "present", access[Place[f]] # "unlistable"
      PROVE  f \in scanned
  <2>1. listed = Len(Dirs) /\ queue = {}
    BY <1>1 DEF Inv, Staged
  <2>2. excluded = {} /\ subtrees = {} /\ truncated = {} /\ failed = {}
    BY <1>1 DEF ProjectConclusionAllowed, ScanComplete
  <2>3. PICK i \in 1 .. Len(Dirs) : Place[f] = Dirs[i]
    <3>1. Place[f] \in ToSet(Dirs)
      BY SnapshotAssumption
    <3> QED BY <3>1, SnapshotAssumption DEF ToSet
  <2>4. f \in eligible
    BY <1>1, <2>1, <2>2, <2>3 DEF Inv, Found
  <2> QED BY <1>1, <2>1, <2>2, <2>4 DEF Inv, Accounted
<1>2. Inv => ConclusionCoversListed
  BY <1>1 DEF ConclusionCoversListed
<1> QED BY <1>2, Invariant, PTL

=============================================================================

--------------------------- MODULE SourceSnapshot ---------------------------
(***************************************************************************)
(* build_source_snapshot of belief/source_snapshot.py, against a writer    *)
(* that changes the tree while it is read: the walk lists one directory    *)
(* after the other, each selected file is examined, opened, read in two    *)
(* portions between two fstat calls, and joined to the snapshot or to the  *)
(* failures.  Files are numbered in the order of their logical paths.      *)
(***************************************************************************)
EXTENDS Integers, Sequences, SequencesExt, FiniteSets, FiniteSetsExt

CONSTANTS
  Files,
  Dirs,            \* the directories, in the order of os.walk; the first is the target,
                   \* and one that is not walked stands for all that is below it
  Place,           \* Place[f]: the directory of file f
  Generated,       \* files that _file_exclusion_reason excludes
  Sizes,           \* lengths of files
  MaxFiles, MaxFileBytes, MaxTotalBytes,   \* arguments of the call
  FineClock,       \* does every write get a timestamp of its own?
  MaxWrites,       \* bound on what the writer does
  None

Kinds == {"good", "bad", "reserved"}   \* "bad": it does not decode or parse

\* what the walk can do with a directory: list it, leave it out for a reason
\* (_directory_exclusion_reason), or fail to list it
Accesses == {"listed", "excluded", "unlistable"}

ASSUME SnapshotAssumption ==
  /\ Files \subseteq Nat /\ IsFiniteSet(Files)
  /\ Dirs \in Seq(ToSet(Dirs)) /\ Dirs # <<>>
  /\ Place \in [Files -> ToSet(Dirs)]
  /\ Generated \subseteq Files
  /\ Sizes \subseteq Nat
  /\ MaxFiles \in Nat /\ MaxFileBytes \in Nat \ {0} /\ MaxTotalBytes \in Nat \ {0}
  /\ FineClock \in BOOLEAN
  /\ MaxWrites \in Nat
  /\ None \notin Files

VARIABLES
  disk,       \* disk[f]: state, size, kind, version, mtime
  writes,     \* changes so far
  access,     \* access[d]: what the walk can do with directory d
  pc,
  listed,     \* number of directories that the walk is done with
  eligible, excluded, subtrees,
  queue,      \* selected files still to be read; the first one is next
  truncated, failed, documents,
  handle      \* the file that is being read

vars == <<disk, writes, access, pc, listed, eligible, excluded, subtrees, queue, truncated,
          failed, documents, handle>>
tree == <<disk, writes, access>>
inventory == <<listed, eligible, excluded, subtrees>>
scan == <<queue, truncated, failed, documents>>

Closed ==
  [file |-> None, size |-> None, mtime |-> None, first |-> None, second |-> None,
   kind |-> None, length |-> None, cut |-> FALSE]

\* "new" and "removed" are what the writer does while the snapshot is built; what is in
\* a generated file does not matter, as it is never opened
Init ==
  /\ disk \in [Files -> [state : {"absent", "present"}, size : Sizes, kind : Kinds,
                         version : {0}, mtime : {0}]]
  /\ \A f \in Generated : disk[f].size = Min(Sizes) /\ disk[f].kind = "good"
  /\ writes = 0
  /\ access \in [ToSet(Dirs) -> Accesses]
  /\ access[Dirs[1]] = "listed"
  /\ pc = "walk"
  /\ listed = 0
  /\ eligible = {} /\ excluded = {} /\ subtrees = {}
  /\ queue = {} /\ truncated = {} /\ failed = {} /\ documents = {}
  /\ handle = Closed

Exists(f) == disk[f].state \in {"present", "new"}

Total == MapThenSumSet(LAMBDA d : d.size, documents)

Least(a, b) == IF a <= b THEN a ELSE b

-----------------------------------------------------------------------------
(* The writer.                                                             *)

Change(f, entry) ==
  /\ writes < MaxWrites
  /\ writes' = writes + 1
  /\ disk' = [disk EXCEPT ![f] = entry]
  /\ UNCHANGED <<access, pc, inventory, scan, handle>>

Write(f) ==
  /\ Exists(f) /\ f \notin Generated
  /\ \E size \in Sizes, kind \in Kinds,
        mtime \in IF FineClock THEN {writes + 1} ELSE {disk[f].mtime, writes + 1} :
       Change(f, [disk[f] EXCEPT !.size = size, !.kind = kind,
                                 !.version = writes + 1, !.mtime = mtime])

Create(f) == disk[f].state = "absent" /\ Change(f, [disk[f] EXCEPT !.state = "new"])

\* an open handle still reads the removed file
Delete(f) == Exists(f) /\ Change(f, [disk[f] EXCEPT !.state = "removed"])

-----------------------------------------------------------------------------
(* _discover_python_sources.                                               *)

Here(dir) == {f \in Files : Place[f] = dir /\ Exists(f)}

\* os.walk without onerror goes on when it cannot list a directory
List ==
  /\ pc = "walk"
  /\ listed < Len(Dirs)
  /\ LET dir == Dirs[listed + 1]
         found == IF access[dir] = "listed" THEN Here(dir) ELSE {}
     IN  /\ eligible' = eligible \cup (found \ Generated)
         /\ excluded' = excluded \cup (found \cap Generated)
         /\ subtrees' = subtrees \cup {d \in {dir} : access[d] = "excluded"}
  /\ listed' = listed + 1
  /\ UNCHANGED <<tree, pc, scan, handle>>

\* eligible[:max_files], in the order of the logical paths
Selection ==
  {chosen \in SUBSET eligible :
     /\ Cardinality(chosen) = Least(MaxFiles, Cardinality(eligible))
     /\ \A f \in chosen, g \in eligible \ chosen : f < g}

\* mutant: the files beyond max_files are dropped
SelectQuiet ==
  /\ pc = "walk"
  /\ listed = Len(Dirs)
  /\ queue' \in Selection
  /\ pc' = "stat"
  /\ UNCHANGED <<tree, inventory, truncated, failed, documents, handle>>

Select ==
  /\ pc = "walk"
  /\ listed = Len(Dirs)
  /\ queue' \in Selection
  /\ truncated' = eligible \ queue'
  /\ pc' = "stat"
  /\ UNCHANGED <<tree, inventory, failed, documents, handle>>

-----------------------------------------------------------------------------
(* The loop over the selected files.                                       *)

file == Min(queue)

\* unreadable, file_too_large or total_source_byte_budget_exhausted
Refused ==
  \/ ~Exists(file)
  \/ disk[file].size > MaxFileBytes
  \/ Total + disk[file].size > MaxTotalBytes

StatFails ==
  /\ pc = "stat"
  /\ queue # {}
  /\ Refused
  /\ failed' = failed \cup {file}
  /\ excluded' = excluded \cup {file}
  /\ queue' = queue \ {file}
  /\ UNCHANGED <<tree, pc, listed, eligible, subtrees, truncated, documents, handle>>

StatPasses ==
  /\ pc = "stat"
  /\ queue # {}
  /\ ~Refused
  /\ pc' = "open"
  /\ UNCHANGED <<tree, inventory, scan, handle>>

\* mutant: what is not analyzable is kept without a word
JoinQuiet(document) ==
  /\ documents' = documents \cup {document}
  /\ excluded' = IF document.status = "reserved" THEN excluded \cup {file} ELSE excluded
  /\ queue' = queue \ {file}
  /\ handle' = Closed
  /\ pc' = "stat"
  /\ UNCHANGED <<tree, listed, eligible, subtrees, truncated, failed>>

\* the end of an iteration
Join(document) ==
  /\ documents' = documents \cup {document}
  /\ failed' = IF document.analyzable THEN failed ELSE failed \cup {file}
  /\ excluded' = IF document.status = "reserved" THEN excluded \cup {file} ELSE excluded
  /\ queue' = queue \ {file}
  /\ handle' = Closed
  /\ pc' = "stat"
  /\ UNCHANGED <<tree, listed, eligible, subtrees, truncated>>

Unreadable(f) ==
  [file |-> f, size |-> 0, first |-> None, second |-> None,
   status |-> "unreadable", analyzable |-> FALSE]

OpenFails ==
  /\ pc = "open"
  /\ ~Exists(file)
  /\ Join(Unreadable(file))

\* open and the first fstat
OpenFile ==
  /\ pc = "open"
  /\ Exists(file)
  /\ handle' = [Closed EXCEPT !.file = file, !.size = disk[file].size,
                                !.mtime = disk[file].mtime]
  /\ pc' = "read"
  /\ UNCHANGED <<tree, inventory, scan>>

ReadFirst ==
  /\ pc = "read"
  /\ handle' = [handle EXCEPT !.first = disk[file].version]
  /\ pc' = "rest"
  /\ UNCHANGED <<tree, inventory, scan>>

ReadRest ==
  /\ pc = "rest"
  /\ handle' = [handle EXCEPT !.second = disk[file].version, !.kind = disk[file].kind,
                                !.length = Least(disk[file].size, MaxFileBytes + 1),
                                !.cut = disk[file].size > MaxFileBytes + 1]
  /\ pc' = "fstat"
  /\ UNCHANGED <<tree, inventory, scan>>

OneText == handle.first = handle.second

\* mutant: the size of the file alone
StableSize ==
  /\ handle.size = disk[file].size
  /\ handle.length = disk[file].size

Stable ==
  /\ handle.size = disk[file].size
  /\ handle.length = disk[file].size
  /\ handle.mtime = disk[file].mtime

\* _read_document_once after the second fstat; portions of two versions may parse or not;
\* what is torn or cut does not match a reserved digest
Document(parses) ==
  LET status ==
        IF OneText /\ ~handle.cut /\ handle.kind = "reserved" THEN "reserved"
        ELSE IF handle.length > MaxFileBytes THEN "file_too_large"
        ELSE IF ~Stable THEN "unstable_during_read"
        ELSE IF parses THEN "parsed" ELSE "rejected"
  IN [file |-> file, size |-> handle.length,
      first |-> handle.first, second |-> handle.second,
      status |-> status, analyzable |-> status = "parsed"]

Fstat ==
  /\ pc = "fstat"
  /\ \E parses \in IF OneText THEN {handle.kind # "bad"} ELSE BOOLEAN :
       Join(Document(parses))

Finish ==
  /\ pc = "stat"
  /\ queue = {}
  /\ pc' = "done"
  /\ UNCHANGED <<tree, inventory, scan, handle>>

Done == pc = "done" /\ UNCHANGED vars

Next ==
  \/ \E f \in Files : Write(f) \/ Create(f) \/ Delete(f)
  \/ List \/ Select
  \/ StatFails \/ StatPasses \/ OpenFails \/ OpenFile \/ ReadFirst \/ ReadRest \/ Fstat
  \/ Finish \/ Done

Spec == Init /\ [][Next]_vars

-----------------------------------------------------------------------------
(* SourceCoverage.                                                         *)

scanned == {d.file : d \in {e \in documents : e.analyzable}}

ScanComplete == truncated = {} /\ failed = {}

ProjectConclusionAllowed == ScanComplete /\ excluded = {} /\ subtrees = {}

-----------------------------------------------------------------------------
(* Properties.                                                             *)

\* Every variable has its type.
TypeOK ==
  /\ disk \in [Files -> [state : {"absent", "present", "new", "removed"}, size : Sizes,
                         kind : Kinds, version : 0 .. MaxWrites, mtime : 0 .. MaxWrites]]
  /\ writes \in 0 .. MaxWrites
  /\ access \in [ToSet(Dirs) -> Accesses]
  /\ pc \in {"walk", "stat", "open", "read", "rest", "fstat", "done"}
  /\ listed \in 0 .. Len(Dirs)
  /\ eligible \subseteq Files /\ excluded \subseteq Files /\ subtrees \subseteq ToSet(Dirs)
  /\ queue \subseteq Files
  /\ truncated \subseteq Files /\ failed \subseteq Files
  /\ {d.file : d \in documents} \subseteq Files
  /\ handle.file \in Files \cup {None}
  /\ handle.file # None <=> pc \in {"read", "rest", "fstat"}

\* The coverage adds up at every moment: each eligible file is still to come, or it is in
\* exactly one of the scanned, the failed and the truncated ones, whatever happens to it
\* between the walk, the stat, the open and the read.
Accounted ==
  pc # "walk" =>
    /\ eligible = queue \cup truncated \cup failed \cup scanned
    /\ queue \cap (truncated \cup failed \cup scanned) = {}
    /\ truncated \cap (failed \cup scanned) = {}
    /\ failed \cap scanned = {}

\* The state of the build is well formed, and no file that the walk has found is lost from
\* its account.
Consistent == TypeOK /\ Accounted

\* A conclusion about the project is allowed only when every Python file that was in
\* the target from the beginning to the end has been scanned, apart from the files
\* below a directory that os.walk could not list.
ConclusionCoversListed ==
  pc = "done" /\ ProjectConclusionAllowed =>
    \A f \in Files :
      disk[f].state = "present" /\ access[Place[f]] # "unlistable" => f \in scanned

\* "Exact known scan coverage plus explicit inventory blind spots": the same without the
\* exception.
ConclusionCoversAll ==
  pc = "done" /\ ProjectConclusionAllowed =>
    \A f \in Files : disk[f].state = "present" => f \in scanned

\* "must never assemble one result from several versions of the same file": what is
\* analyzed is one version, even if the file is rewritten between the portions of the read.
OneVersion == \A d \in documents : d.analyzable => d.first = d.second

=============================================================================

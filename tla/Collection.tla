----------------------------- MODULE Collection -----------------------------
(***************************************************************************)
(* collect_nvd_cves and collect_github_advisories of                       *)
(* belief/intelligence/collection.py, with what the adapters check of a    *)
(* page: a loop that fetches page after page from a provider nobody has to *)
(* trust, validates the chain of pages after each one, and stops at the    *)
(* caller's limits.  Mode "offset" is NVD (the body carries the total of   *)
(* the result), mode "cursor" is GitHub (the Link header carries the next  *)
(* cursor).  The provider either serves a fixed list of records, in pages  *)
(* as short as it likes, or answers anything.                              *)
(***************************************************************************)
EXTENDS Integers, Sequences, SequencesExt

CONSTANTS
  MaxPages, MaxRecords, MaxTotalBytes, MaxResponseBytes,   \* CollectionLimits
  Sizes,     \* page sizes that a query asks for
  Stores,    \* providers: the size of the list that it serves, or None
  Records,   \* record ids of a provider that answers anything
  Bodies,    \* lengths of response bodies
  None

Modes == {"offset", "cursor"}

ASSUME CollectionAssumption ==
  /\ {MaxPages, MaxRecords, MaxTotalBytes, MaxResponseBytes} \subseteq Nat \ {0}
  /\ MaxResponseBytes <= MaxTotalBytes
  /\ Sizes \subseteq Nat \ {0}
  /\ Records \subseteq Nat \ {0}
  /\ Stores \subseteq Nat \cup {None}
  /\ Bodies \subseteq Nat
  /\ None \notin Nat

VARIABLES
  mode,      \* which of the two loops
  store,     \* the honest provider holds records 1..store; None: any provider
  query,     \* current_query: position and page size
  pages,
  pc,        \* "guard", "fetch", "validate", "done"
  outcome    \* what the call returns or raises

vars == <<mode, store, query, pages, pc, outcome>>

Least(a, b) == IF a <= b THEN a ELSE b

\* what the pages of a chain add up to
Collected(chain) ==
  LET upTo[i \in 0 .. Len(chain)] ==
        IF i = 0 THEN [ids |-> <<>>, bytes |-> 0]
        ELSE LET before == upTo[i - 1]
             IN [ids |-> before.ids \o chain[i].ids, bytes |-> before.bytes + chain[i].bytes]
  IN upTo[Len(chain)]

RecordsOf(chain) == Collected(chain).ids
BytesOf(chain) == Collected(chain).bytes

Status(page) ==
  IF page.next # None THEN "incomplete"
  ELSE IF mode = "offset" THEN "complete" ELSE "unknown"

Pending == [kind |-> "none"]

\* normalized["resultsPerPage"] and normalized["per_page"]
Init ==
  /\ mode \in Modes
  /\ store \in Stores
  /\ \E size \in Sizes :
       query = [pos |-> IF mode = "offset" THEN 0 ELSE None,
                size |-> Least(size, MaxRecords)]
  /\ pages = <<>>
  /\ pc = "guard"
  /\ outcome = Pending

Finish(result) ==
  /\ outcome' = result
  /\ pc' = "done"

\* _raise_incomplete with the pages that the call holds
Incomplete(reason) ==
  /\ Finish([kind |-> "incomplete", reason |-> reason,
             next |-> IF pages = <<>> THEN None ELSE Last(pages).next,
             pages |-> Len(pages), records |-> Len(RecordsOf(pages))])
  /\ UNCHANGED <<mode, store, query, pages>>

-----------------------------------------------------------------------------
(* _guard_before_fetch and the request.                                    *)

NoPageLeft == Len(pages) >= MaxPages

NoRecordLeft ==
  LET left == MaxRecords - Len(RecordsOf(pages)) IN
  left <= 0 \/ (mode = "cursor" /\ pages # <<>> /\ left < pages[1].size)

NoByteLeft == BytesOf(pages) >= MaxTotalBytes

StopAtPages == pc = "guard" /\ NoPageLeft /\ Incomplete("max_pages")

StopAtRecords == pc = "guard" /\ ~NoPageLeft /\ NoRecordLeft /\ Incomplete("max_records")

StopAtBytes ==
  /\ pc = "guard"
  /\ ~NoPageLeft /\ ~NoRecordLeft /\ NoByteLeft
  /\ Incomplete("max_total_response_bytes")

Request ==
  /\ pc = "guard"
  /\ ~NoPageLeft /\ ~NoRecordLeft /\ ~NoByteLeft
  /\ pc' = "fetch"
  /\ UNCHANGED <<mode, store, query, pages, outcome>>

\* _next_response_byte_limit
ByteLimit == Least(MaxResponseBytes, MaxTotalBytes - BytesOf(pages))

-----------------------------------------------------------------------------
(* The provider.                                                           *)

\* where the page that is asked for begins in the provider's list
Offset == IF query.pos = None THEN 0 ELSE query.pos

\* only GitHub reports the quota that remains; both may send Retry-After
Quotas == {"known", "retry"} \cup (IF mode = "cursor" THEN {"spent"} ELSE {})

\* "at" stands for both of a page's timestamps: of its retrieval, and of its generation
HonestAnswers ==
  LET from == Offset
      ends == IF from = store THEN {from} ELSE from + 1 .. Least(from + query.size, store)
  IN  {[ids |-> [i \in 1 .. end - from |-> from + i],
        total |-> IF mode = "offset" THEN store ELSE None,
        next |-> IF mode = "cursor" /\ end < store THEN end ELSE None,
        bytes |-> bytes, at |-> 0, quota |-> quota] :
          end \in ends, bytes \in Bodies, quota \in Quotas}

\* one answer with more records than were asked for stands for all of these
AnyAnswers ==
  [ids : BoundedSeq(Records, query.size) \cup {[i \in 1 .. query.size + 1 |-> i]},
   total : IF mode = "offset" THEN 0 .. MaxRecords + 1 ELSE {None},
   next : IF mode = "cursor" THEN Records \cup {None} ELSE {None},
   bytes : Bodies, at : {0, 1}, quota : Quotas]

Answers == IF store = None THEN AnyAnswers ELSE HonestAnswers

-----------------------------------------------------------------------------
(* _fetch_and_parse.                                                       *)

\* parse_nvd_cve_response; any other defect of a body is in FetchFails
ParsesOffset(answer) ==
  LET end == query.pos + Len(answer.ids) IN
  /\ Len(answer.ids) <= query.size
  /\ end <= answer.total
  /\ query.pos < answer.total => answer.ids # <<>>

\* parse_github_advisory_response and _github_next_cursor
ParsesCursor(answer) ==
  /\ Len(answer.ids) <= query.size
  /\ answer.next = None \/ answer.next # query.pos

Parses(answer) ==
  IF mode = "offset" THEN ParsesOffset(answer) ELSE ParsesCursor(answer)

NextPosition(answer) ==
  LET end == query.pos + Len(answer.ids) IN
  IF mode = "cursor" THEN answer.next ELSE IF end >= answer.total THEN None ELSE end

PageOf(answer) ==
  [pos |-> query.pos, size |-> query.size, next |-> NextPosition(answer),
   ids |-> answer.ids, total |-> answer.total,
   bytes |-> answer.bytes, at |-> answer.at, quota |-> answer.quota]

\* no response, or one that is not a page of this provider
FetchFails == pc = "fetch" /\ Incomplete("fetch")

TooLarge(answer) == answer.bytes > ByteLimit /\ Incomplete("response_too_large")

Malformed(answer) ==
  /\ answer.bytes <= ByteLimit
  /\ ~Parses(answer)
  /\ Incomplete("parse")

\* the check of the number of records that follows here never decides: see WithinLimits
Accept(answer) ==
  /\ answer.bytes <= ByteLimit
  /\ Parses(answer)
  /\ pages' = Append(pages, PageOf(answer))
  /\ pc' = "validate"
  /\ UNCHANGED <<mode, store, query, outcome>>

Receive ==
  /\ pc = "fetch"
  /\ \E answer \in Answers :
       TooLarge(answer) \/ Malformed(answer) \/ Accept(answer)

-----------------------------------------------------------------------------
(* _validate_page_sequence.                                                *)

\* _is_bounded_offset_resize
IsBoundedResize(page, size, total) ==
  /\ mode = "offset"
  /\ page.size = Least(size, total - page.pos)
  /\ page.size \in 1 .. size - 1

Continues(page, previous) ==
  /\ Status(previous) = "incomplete"
  /\ previous.quota # "spent"
  /\ page.pos = previous.next
  /\ page.at >= previous.at

\* mutant: only neighbours are compared
NoRepeatsNext(ids) == \A i, j \in DOMAIN ids : i + 1 = j => ids[i] # ids[j]

NoRepeats(ids) == \A i, j \in DOMAIN ids : i # j => ids[i] # ids[j]

\* a position seen before also repeats its request
IsChain(chain) ==
  LET ids == RecordsOf(chain) IN
  /\ \A i \in DOMAIN chain :
       /\ chain[i].total = chain[1].total
       /\ \/ chain[i].size = chain[1].size
          \/ IsBoundedResize(chain[i], chain[1].size, chain[1].total)
       /\ i > 1 => Continues(chain[i], chain[i - 1])
       /\ mode = "offset" /\ chain[i].next # None =>
            chain[i].next = chain[i].pos + Len(chain[i].ids)
       /\ \A j \in 1 .. i : chain[i].next # None => chain[i].next # chain[j].pos
       /\ \A j \in 1 .. i - 1 : chain[i].pos # chain[j].pos
  /\ NoRepeats(ids)
  /\ Status(Last(chain)) = "complete" => chain[1].total = Len(ids)

-----------------------------------------------------------------------------
(* The rest of the loop's body.                                            *)

Valid == pc = "validate" /\ IsChain(pages)

BeyondRecords == mode = "offset" /\ pages[1].total > MaxRecords

BreakChain ==
  /\ pc = "validate"
  /\ ~IsChain(pages)
  /\ Finish([kind |-> "integrity"])
  /\ UNCHANGED <<mode, store, query, pages>>

StopAtTotal == Valid /\ BeyondRecords /\ Incomplete("max_records")

\* assemble_context_collection validates the same chain once more
Assemble ==
  /\ Valid
  /\ ~BeyondRecords
  /\ Status(Last(pages)) # "incomplete"
  /\ Finish([kind |-> Status(Last(pages))])
  /\ UNCHANGED <<mode, store, query, pages>>

Open == Valid /\ ~BeyondRecords /\ Status(Last(pages)) = "incomplete"

\* mutant: the page is fetched again after the provider has asked to wait
StopAtQuotaRetry ==
  /\ Open
  /\ Last(pages).quota # "known"
  /\ pages' = Front(pages)
  /\ pc' = "guard"
  /\ UNCHANGED <<mode, store, query, outcome>>

StopAtQuota == Open /\ Last(pages).quota # "known" /\ Incomplete(Last(pages).quota)

\* mutant: from the size of the last request, as if every page were full
NextSizeFull ==
  LET count == Len(pages) * pages[1].size IN
  IF mode = "cursor" THEN query.size
  ELSE Least(pages[1].size, Least(MaxRecords - count, pages[1].total - count))

\* next_page_size of an NVD request
NextSize ==
  LET count == Len(RecordsOf(pages)) IN
  IF mode = "cursor" THEN query.size
  ELSE Least(pages[1].size, Least(MaxRecords - count, pages[1].total - count))

Continue ==
  /\ Open
  /\ Last(pages).quota = "known"
  /\ query' = [pos |-> Last(pages).next, size |-> NextSize]
  /\ pc' = "guard"
  /\ UNCHANGED <<mode, store, pages, outcome>>

Done == pc = "done" /\ UNCHANGED vars

Step ==
  \/ StopAtPages \/ StopAtRecords \/ StopAtBytes \/ Request
  \/ FetchFails \/ Receive
  \/ BreakChain \/ StopAtTotal \/ Assemble \/ StopAtQuota \/ Continue

Next == Step \/ Done

\* every fetch has a timeout
Spec == Init /\ [][Next]_vars /\ WF_vars(Step)

-----------------------------------------------------------------------------
(* Properties.                                                             *)

Page == [pos : Nat \cup {None}, size : Sizes \cup 1 .. MaxRecords, next : Nat \cup {None},
         ids : Seq(Nat \ {0}), total : Nat \cup {None}, bytes : Bodies, at : {0, 1},
         quota : Quotas]

\* Every variable has its type; in particular a next request asks for at least one record,
\* so that the check of next_page_size <= 0 in collect_nvd_cves is never needed.
TypeOK ==
  /\ mode \in Modes
  /\ store \in Stores
  /\ query \in [pos : Nat \cup {None}, size : 1 .. MaxRecords]
  /\ pages \in Seq(Page)
  /\ pc \in {"guard", "fetch", "validate", "done"}
  /\ (pc = "done") <=> (outcome.kind # "none")

\* "A terminal NVD chain must contain exactly totalResults records": whatever the provider
\* answers, a collection that is marked complete has as many different records as every
\* one of its pages said there are, from adjoining pages that begin at zero.
CompleteIsWhole ==
  outcome.kind = "complete" =>
    LET ids == RecordsOf(pages) IN
    /\ IsInjective(ids)
    /\ \A i \in DOMAIN pages :
         /\ pages[i].total = Len(ids)
         /\ pages[i].pos = Len(RecordsOf(SubSeq(pages, 1, i - 1)))

\* A chain that ends, as complete or as unknown, has all the records of a provider that
\* serves a fixed list, in its order, no matter how short its pages are.
HonestIsWhole ==
  store # None /\ outcome.kind \in {"complete", "unknown"} =>
    RecordsOf(pages) = [i \in 1 .. store |-> i]

\* The planner of requests and the validator agree on the resizing of the last pages: a
\* provider with a fixed list is never accused of drift or of a malformed page, and is cut
\* off for its records only when they may exceed the limit.
HonestIsAccepted ==
  store # None =>
    /\ outcome.kind # "integrity"
    /\ outcome.kind = "incomplete" =>
         /\ outcome.reason # "parse"
         /\ outcome.reason = "max_records" =>
              IF mode = "offset" THEN store > MaxRecords
              ELSE store + query.size > MaxRecords
         /\ outcome.reason = "max_pages" => Len(pages) = MaxPages

\* "mandatory cumulative limits": at no time does the collector hold or ask for more than
\* the limits, so the checks of the limits after the parser and in the validator never
\* decide.
WithinLimits ==
  /\ Len(pages) <= MaxPages
  /\ Len(RecordsOf(pages)) <= MaxRecords
  /\ BytesOf(pages) <= MaxTotalBytes
  /\ \A i \in DOMAIN pages : pages[i].bytes <= MaxResponseBytes
  /\ pc = "fetch" => ByteLimit > 0 /\ Len(pages) < MaxPages

\* "A bounded stop raises CollectionIncompleteError with counts, next position": the
\* position in the report is the one behind the records that it counts, so that nothing
\* is skipped or read twice by whoever goes on from there.
ReportResumes ==
  outcome.kind = "incomplete" /\ outcome.pages > 0 /\ (mode = "offset" \/ store # None) =>
    outcome.next = outcome.records

\* What a provider cannot do, whatever it answers: forge a complete collection, make the
\* collector exceed its limits, or make its report of an incomplete one misleading.
Sound == TypeOK /\ CompleteIsWhole /\ WithinLimits /\ ReportResumes

\* What a provider with a fixed list can rely on: all of it is collected, or the caller's
\* limits are the reason why not.
HonestIsServed == HonestIsWhole /\ HonestIsAccepted

\* The loop ends, whatever the provider answers: with cursors that go in circles, with
\* empty pages or with quotas that never recover.
Ends == <>(pc = "done")
=============================================================================

-------------------------- MODULE CollectionProofs --------------------------
(***************************************************************************)
(* Proofs about Collection, for any limits, page sizes and providers.      *)
(***************************************************************************)
EXTENDS Collection, SequenceTheorems, WellFoundedInduction, TLAPS

-----------------------------------------------------------------------------
(* Induction over the natural numbers: what is to be shown is a set.       *)

LEMMA NaturalsInduct ==
  ASSUME NEW S, 0 \in S, \A n \in Nat : n \in S => n + 1 \in S
  PROVE  \A n \in Nat : n \in S
<1> DEFINE T == Nat \ S
<1>1. SUFFICES ASSUME T # {} PROVE FALSE
  OBVIOUS
<1>2. PICK m \in T : \A n \in T : ~ (<<n, m>> \in OpToRel(<, Nat))
  <2>1. T \subseteq Nat
    OBVIOUS
  <2> HIDE DEF T
  <2> QED BY <1>1, <2>1, NatLessThanWellFounded, WFMin
<1>3. \A n \in T : ~ (n < m)
  BY <1>2 DEF OpToRel
<1>4. m # 0 /\ m - 1 \in Nat /\ m - 1 < m /\ (m - 1) + 1 = m
  OBVIOUS
<1>5. m - 1 \in S
  BY <1>3, <1>4
<1> QED BY <1>4, <1>5

LEMMA SequencesInduct ==
  ASSUME NEW S, NEW P, <<>> \in P,
         \A q \in Seq(S), e \in S : q \in P => Append(q, e) \in P
  PROVE  \A q \in Seq(S) : q \in P
<1> DEFINE N == {n \in Nat : \A q \in Seq(S) : Len(q) = n => q \in P}
<1>1. 0 \in N
  BY EmptySeq
<1>2. ASSUME NEW n \in Nat, n \in N PROVE n + 1 \in N
  <2>1. ASSUME NEW q \in Seq(S), Len(q) = n + 1 PROVE q \in P
    <3>1. PICK r \in Seq(S), e \in S : q = Append(r, e)
      BY <2>1, SequenceEmptyOrAppend
    <3>2. Len(r) = n
      BY <2>1, <3>1
    <3> QED BY <1>2, <3>1, <3>2
  <2> QED BY <2>1
<1> HIDE DEF N
<1>3. \A n \in Nat : n \in N
  BY <1>1, <1>2, NaturalsInduct
<1> QED BY <1>3 DEF N

-----------------------------------------------------------------------------
(* What the pages of a chain add up to.                                    *)

Zero == [ids |-> <<>>, bytes |-> 0]

Plus(sum, page) == [ids |-> sum.ids \o page.ids, bytes |-> sum.bytes + page.bytes]

Sums(chain, n, f) == f = [i \in 0 .. n |-> IF i = 0 THEN Zero ELSE Plus(f[i - 1], chain[i])]

LEMMA SumsExist ==
  ASSUME NEW chain
  PROVE  \A n \in Nat : \E f : Sums(chain, n, f)
<1> DEFINE S == {n \in Nat : \E f : Sums(chain, n, f)}
<1>1. 0 \in S
  <2>1. Sums(chain, 0, [i \in 0 .. 0 |-> Zero])
    BY DEF Sums
  <2> QED BY <2>1
<1>2. ASSUME NEW n \in Nat, n \in S PROVE n + 1 \in S
  <2>1. PICK f : Sums(chain, n, f)
    BY <1>2
  <2> DEFINE e == Plus(f[n], chain[n + 1])
             g == [i \in 0 .. (n + 1) |-> IF i = n + 1 THEN e ELSE f[i]]
  <2>2. \A i \in 0 .. n : f[i] = IF i = 0 THEN Zero ELSE Plus(f[i - 1], chain[i])
    BY <2>1 DEF Sums
  <2> HIDE DEF e
  <2>3. \A i \in 0 .. (n + 1) : g[i] = IF i = n + 1 THEN e ELSE f[i]
    OBVIOUS
  <2>4. \A i \in 0 .. (n + 1) : i # 0 => i - 1 \in 0 .. n /\ g[i - 1] = f[i - 1]
    BY <2>3
  <2>5. g = [i \in 0 .. (n + 1) |-> g[i]]
    OBVIOUS
  <2> HIDE DEF g
  <2>6. ASSUME NEW i \in 0 .. (n + 1)
        PROVE  g[i] = IF i = 0 THEN Zero ELSE Plus(g[i - 1], chain[i])
    <3>1. CASE i = n + 1
      BY <3>1, <2>3, <2>4 DEF e
    <3>2. CASE i # n + 1
      BY <3>2, <2>3, <2>4, <2>2
    <3> QED BY <3>1, <3>2
  <2>7. Sums(chain, n + 1, g)
    BY <2>5, <2>6 DEF Sums
  <2> QED BY <2>7
<1> HIDE DEF S
<1>3. \A n \in Nat : n \in S
  BY <1>1, <1>2, NaturalsInduct
<1> QED BY <1>3 DEF S

LEMMA CollectedSums ==
  ASSUME NEW chain, Len(chain) \in Nat
  PROVE  \E f : Sums(chain, Len(chain), f) /\ Collected(chain) = f[Len(chain)]
<1> DEFINE upTo == CHOOSE f : Sums(chain, Len(chain), f)
<1>1. Sums(chain, Len(chain), upTo)
  BY SumsExist
<1>2. Collected(chain) = upTo[Len(chain)]
  BY DEF Collected, Sums, Zero, Plus
<1> QED BY <1>1, <1>2

LEMMA CollectedEmpty == Collected(<<>>) = Zero
<1>1. PICK f : Sums(<<>>, 0, f) /\ Collected(<<>>) = f[0]
  <2>1. Len(<<>>) = 0
    OBVIOUS
  <2> QED BY <2>1, CollectedSums
<1> QED BY <1>1 DEF Sums

LEMMA CollectedAppend ==
  ASSUME NEW T, NEW q \in Seq(T), NEW e \in T
  PROVE  Collected(Append(q, e)) = Plus(Collected(q), e)
<1> DEFINE p == Append(q, e)
           n == Len(q)
<1>1. n \in Nat /\ Len(p) = n + 1 /\ p[n + 1] = e /\ \A i \in 1 .. n : p[i] = q[i]
  BY AppendProperties
<1> HIDE DEF p, n
<1>2. PICK a : Sums(p, n + 1, a) /\ Collected(p) = a[n + 1]
  BY <1>1, CollectedSums
<1>3. PICK b : Sums(q, n, b) /\ Collected(q) = b[n]
  BY <1>1, CollectedSums DEF n
<1>4. \A i \in 0 .. (n + 1) : a[i] = IF i = 0 THEN Zero ELSE Plus(a[i - 1], p[i])
  BY <1>2 DEF Sums
<1>5. \A i \in 0 .. n : b[i] = IF i = 0 THEN Zero ELSE Plus(b[i - 1], q[i])
  BY <1>3 DEF Sums
<1> DEFINE S == {i \in Nat : i <= n => a[i] = b[i]}
<1>6. 0 \in S
  BY <1>1, <1>4, <1>5
<1>7. ASSUME NEW i \in Nat, i \in S PROVE i + 1 \in S
  <2>1. SUFFICES ASSUME i + 1 <= n PROVE a[i + 1] = b[i + 1]
    OBVIOUS
  <2>2. /\ i + 1 \in 0 .. (n + 1) /\ i + 1 \in 0 .. n /\ i + 1 \in 1 .. n
        /\ i + 1 # 0 /\ (i + 1) - 1 = i
    BY <1>1, <2>1
  <2>3. a[i] = b[i]
    BY <1>1, <1>7, <2>1
  <2> QED BY <1>1, <1>4, <1>5, <2>2, <2>3
<1> HIDE DEF S
<1>8. \A i \in Nat : i \in S
  BY <1>6, <1>7, NaturalsInduct
<1>9. a[n] = b[n]
  BY <1>1, <1>8 DEF S
<1>10. a[n + 1] = Plus(a[n], e)
  <2>1. n + 1 \in 0 .. (n + 1) /\ n + 1 # 0 /\ (n + 1) - 1 = n
    BY <1>1
  <2> QED BY <1>1, <1>4, <2>1
<1> QED BY <1>2, <1>3, <1>9, <1>10 DEF p

LEMMA SumsEmpty == RecordsOf(<<>>) = <<>> /\ BytesOf(<<>>) = 0
BY CollectedEmpty DEF Zero, RecordsOf, BytesOf

LEMMA SumsAppend ==
  ASSUME NEW T, NEW q \in Seq(T), NEW e \in T
  PROVE  /\ RecordsOf(Append(q, e)) = RecordsOf(q) \o e.ids
         /\ BytesOf(Append(q, e)) = BytesOf(q) + e.bytes
<1>1. Collected(Append(q, e)) = Plus(Collected(q), e)
  BY CollectedAppend
<1>2. /\ Plus(Collected(q), e).ids = Collected(q).ids \o e.ids
      /\ Plus(Collected(q), e).bytes = Collected(q).bytes + e.bytes
  BY DEF Plus
<1> QED BY <1>1, <1>2 DEF RecordsOf, BytesOf

\* Pages as far as the sums are concerned: what is said of ids and bytes.
LEMMA CollectedType ==
  ASSUME NEW T, \A e \in T : e.ids \in Seq(Nat \ {0}) /\ e.bytes \in Nat
  PROVE  \A q \in Seq(T) : RecordsOf(q) \in Seq(Nat \ {0}) /\ BytesOf(q) \in Nat
<1> DEFINE Typed(q) == RecordsOf(q) \in Seq(Nat \ {0}) /\ BytesOf(q) \in Nat
           P == {q \in Seq(T) : Typed(q)}
<1>1. <<>> \in P
  <2>1. <<>> \in Seq(T) /\ <<>> \in Seq(Nat \ {0})
    BY EmptySeq
  <2>2. RecordsOf(<<>>) \in Seq(Nat \ {0}) /\ BytesOf(<<>>) \in Nat
    <3>1. RecordsOf(<<>>) \in Seq(Nat \ {0})
      BY <2>1, SumsEmpty, Zenon
    <3>2. BytesOf(<<>>) \in Nat
      BY SumsEmpty
    <3> QED BY <3>1, <3>2
  <2>3. Typed(<<>>)
    BY <2>2, Zenon
  <2> HIDE DEF Typed
  <2> QED BY <2>1, <2>3
<1>2. ASSUME NEW q \in Seq(T), NEW e \in T, q \in P PROVE Append(q, e) \in P
  <2>1. Append(q, e) \in Seq(T)
    BY AppendProperties
  <2>2. /\ RecordsOf(Append(q, e)) = RecordsOf(q) \o e.ids
        /\ BytesOf(Append(q, e)) = BytesOf(q) + e.bytes
    BY SumsAppend
  <2>3. RecordsOf(q) \in Seq(Nat \ {0}) /\ BytesOf(q) \in Nat
    BY <1>2
  <2>4. RecordsOf(q) \o e.ids \in Seq(Nat \ {0})
    BY <2>3, ConcatProperties
  <2>5. BytesOf(q) + e.bytes \in Nat
    BY <2>3
  <2>6. Typed(Append(q, e))
    BY <2>2, <2>4, <2>5
  <2> QED BY <2>1, <2>6
<1> HIDE DEF P
<1>3. \A q \in Seq(T) : q \in P
  BY <1>1, <1>2, SequencesInduct
<1> QED BY <1>3 DEF P

-----------------------------------------------------------------------------
(* The inductive invariant.                                                *)

Count(chain) == Len(RecordsOf(chain))

\* how many records the pages before page i have
Before(chain, i) == Count(SubSeq(chain, 1, i - 1))

\* What a page says is what the collector asked for, when it had before records.
Placed(page, before) ==
  LET end == before + Len(page.ids) IN
  /\ page.bytes <= MaxResponseBytes
  /\ mode = "offset" =>
       /\ page.pos = before /\ page.total \in Nat /\ end <= page.total
       /\ page.next = IF end < page.total THEN end ELSE None
  /\ mode = "cursor" => page.size = query.size /\ page.total = None
  /\ store # None =>
       /\ page.pos = before \/ (page.pos = None /\ before = 0)
       /\ page.at = 0
       /\ mode = "offset" => page.total = store
       /\ page.next = IF end < store THEN end ELSE None
       /\ end < store => page.ids # <<>>

AllPlaced ==
  \A i \in 1 .. Len(pages) :
    Before(pages, i) \in Nat /\ Before(pages, i) <= Count(pages)
      /\ Placed(pages[i], Before(pages, i))

\* A provider with a fixed list has given its first records.
Numbered ==
  store # None =>
    Count(pages) <= store /\ RecordsOf(pages) = [i \in 1 .. Count(pages) |-> i]

\* What is held, and what is going to be asked for, is within the limits.
Limited ==
  /\ Len(pages) <= MaxPages /\ Count(pages) <= MaxRecords
  /\ BytesOf(pages) <= MaxTotalBytes
  /\ pc = "fetch" => Len(pages) < MaxPages /\ BytesOf(pages) < MaxTotalBytes
  /\ pc = "fetch" \/ (pc = "guard" /\ mode = "offset") =>
       Count(pages) + query.size <= MaxRecords

\* The next request goes on from the pages, which are a chain that may go on.
Planned ==
  pc \in {"guard", "fetch"} =>
    IF pages = <<>> THEN query.pos = IF mode = "offset" THEN 0 ELSE None
    ELSE /\ IsChain(pages)
         /\ Last(pages).next # None /\ query.pos = Last(pages).next
         /\ Last(pages).quota = "known"
         /\ mode = "offset" =>
              /\ pages[1].total <= MaxRecords
              /\ query.size = Least(pages[1].size, pages[1].total - Count(pages))

\* A provider with a fixed list only gives pages that pass.
Judged ==
  pc = "validate" => pages # <<>> /\ (store # None => IsChain(pages))

\* What an outcome says of the pages.
Concluded ==
  /\ outcome.kind \in {"none", "complete", "unknown", "incomplete", "integrity"}
  /\ outcome.kind \in {"complete", "unknown"} =>
       pages # <<>> /\ IsChain(pages) /\ Status(Last(pages)) = outcome.kind
  /\ outcome.kind = "integrity" => store = None
  /\ outcome.kind = "incomplete" =>
       /\ outcome.pages = Len(pages) /\ outcome.records = Count(pages)
       /\ outcome.pages > 0 /\ (mode = "offset" \/ store # None) =>
            outcome.next = Count(pages)
       /\ store # None =>
            /\ outcome.reason # "parse"
            /\ outcome.reason = "max_records" =>
                 store > MaxRecords \/ (mode = "cursor" /\ store + query.size > MaxRecords)
            /\ outcome.reason = "max_pages" => Len(pages) = MaxPages

Inv ==
  TypeOK /\ AllPlaced /\ Numbered /\ Limited /\ Planned /\ Judged /\ Concluded

-----------------------------------------------------------------------------
(* One page more.                                                          *)

LEMMA Limits ==
  /\ MaxPages \in Nat \ {0} /\ MaxRecords \in Nat \ {0}
  /\ MaxTotalBytes \in Nat \ {0} /\ MaxResponseBytes \in Nat \ {0}
  /\ MaxResponseBytes <= MaxTotalBytes
  /\ None \notin Nat
  /\ Sizes \subseteq Nat \ {0} /\ Records \subseteq Nat \ {0} /\ Bodies \subseteq Nat
BY CollectionAssumption

LEMMA PageType ==
  ASSUME NEW page \in Page
  PROVE  /\ page.pos \in Nat \cup {None} /\ page.next \in Nat \cup {None}
         /\ page.total \in Nat \cup {None}
         /\ page.size \in Nat \ {0} /\ page.bytes \in Nat /\ page.at \in {0, 1}
         /\ page.ids \in Seq(Nat \ {0}) /\ Len(page.ids) \in Nat
         /\ page.quota \in {"known", "retry", "spent"}
<1>1. page.ids \in Seq(Nat \ {0}) /\ page.bytes \in Bodies /\ page.size \in Sizes \cup 1 .. MaxRecords
  BY DEF Page
<1>2. page.quota \in Quotas
  BY DEF Page
<1>3. Len(page.ids) \in Nat
  BY <1>1, LenProperties
<1>4. page.size \in Nat \ {0} /\ page.bytes \in Nat
  <2>1. page.bytes \in Nat
    BY <1>1, Limits
  <2>2. page.size \in Sizes \/ page.size \in 1 .. MaxRecords
    BY <1>1
  <2>3. CASE page.size \in Sizes
    BY <2>1, <2>3, Limits
  <2>4. CASE page.size \in 1 .. MaxRecords
    BY <2>1, <2>4, Limits
  <2> QED BY <2>1, <2>2, <2>3, <2>4
<1>5. /\ page.pos \in Nat \cup {None} /\ page.next \in Nat \cup {None}
      /\ page.total \in Nat \cup {None} /\ page.at \in {0, 1}
  BY DEF Page
<1> QED BY <1>1, <1>2, <1>3, <1>4, <1>5 DEF Quotas

LEMMA ChainType ==
  ASSUME NEW chain \in Seq(Page)
  PROVE  /\ RecordsOf(chain) \in Seq(Nat \ {0}) /\ Count(chain) \in Nat
         /\ BytesOf(chain) \in Nat /\ Len(chain) \in Nat
         /\ chain # <<>> => Len(chain) # 0
         /\ chain # <<>> => Last(chain) = chain[Len(chain)] /\ Last(chain) \in Page
         /\ \A i \in 1 .. Len(chain) : chain[i] \in Page
         /\ DOMAIN chain = 1 .. Len(chain)
<1>1. RecordsOf(chain) \in Seq(Nat \ {0}) /\ BytesOf(chain) \in Nat
  BY CollectedType, PageType
<1>2. /\ Len(chain) \in Nat /\ (chain # <<>> => Len(chain) # 0)
      /\ \A i \in 1 .. Len(chain) : chain[i] \in Page
      /\ DOMAIN chain = 1 .. Len(chain)
  BY LenProperties, ElementOfSeq, EmptySeq
<1>3. Count(chain) \in Nat
  BY <1>1, LenProperties DEF Count
<1> QED BY <1>1, <1>2, <1>3 DEF Last

LEMMA SamePrefixes ==
  ASSUME NEW T, NEW q \in Seq(T), NEW e \in T
  PROVE  /\ \A i \in 1 .. Len(q) : SubSeq(Append(q, e), 1, i - 1) = SubSeq(q, 1, i - 1)
         /\ SubSeq(Append(q, e), 1, Len(q)) = q
<1> DEFINE p == Append(q, e)
<1>1. /\ Len(q) \in Nat /\ p \in Seq(T) /\ Len(p) = Len(q) + 1
      /\ \A j \in 1 .. Len(q) : p[j] = q[j]
  BY AppendProperties, LenProperties
<1> HIDE DEF p
<1>2. ASSUME NEW n \in 0 .. Len(q)
      PROVE  /\ SubSeq(p, 1, n) \in Seq(T) /\ SubSeq(q, 1, n) \in Seq(T)
             /\ Len(SubSeq(p, 1, n)) = n /\ Len(SubSeq(q, 1, n)) = n
             /\ \A j \in 1 .. n : SubSeq(p, 1, n)[j] = p[j] /\ SubSeq(q, 1, n)[j] = q[j]
  <2>1. n \in Nat /\ n <= Len(q) /\ n <= Len(p)
    BY <1>1
  <2> QED BY <1>1, <2>1, SubSeqProperties
<1>3. ASSUME NEW n \in 0 .. Len(q) PROVE SubSeq(p, 1, n) = SubSeq(q, 1, n)
  <2>1. \A j \in 1 .. n : SubSeq(p, 1, n)[j] = SubSeq(q, 1, n)[j]
    BY <1>1, <1>2
  <2> QED BY <1>2, <2>1, SeqEqual
<1>4. SubSeq(p, 1, Len(q)) = q
  <2>1. Len(q) \in 0 .. Len(q)
    BY <1>1
  <2>2. /\ SubSeq(p, 1, Len(q)) \in Seq(T) /\ Len(SubSeq(p, 1, Len(q))) = Len(q)
        /\ \A j \in 1 .. Len(q) : SubSeq(p, 1, Len(q))[j] = q[j]
    BY <1>1, <1>2, <2>1
  <2> QED BY <2>2, SeqEqual
<1>5. \A i \in 1 .. Len(q) : i - 1 \in 0 .. Len(q)
  BY <1>1
<1> QED BY <1>3, <1>4, <1>5 DEF p

LEMMA Extended ==
  ASSUME NEW q \in Seq(Page), NEW e \in Page
  PROVE  LET p == Append(q, e)
         IN  /\ p \in Seq(Page) /\ p # <<>> /\ Len(p) = Len(q) + 1
             /\ p[Len(q) + 1] = e /\ Last(p) = e
             /\ \A i \in 1 .. Len(q) : p[i] = q[i]
             /\ RecordsOf(p) = RecordsOf(q) \o e.ids
             /\ Count(p) = Count(q) + Len(e.ids)
             /\ BytesOf(p) = BytesOf(q) + e.bytes
             /\ \A i \in 1 .. Len(q) : Before(p, i) = Before(q, i)
             /\ Before(p, Len(q) + 1) = Count(q)
<1> DEFINE p == Append(q, e)
<1>1. /\ Len(q) \in Nat /\ p \in Seq(Page) /\ Len(p) = Len(q) + 1
      /\ p[Len(q) + 1] = e /\ \A j \in 1 .. Len(q) : p[j] = q[j]
  BY AppendProperties, LenProperties
<1>2. RecordsOf(p) = RecordsOf(q) \o e.ids /\ BytesOf(p) = BytesOf(q) + e.bytes
  BY SumsAppend
<1>3. Count(p) = Count(q) + Len(e.ids)
  <2>1. RecordsOf(q) \in Seq(Nat \ {0}) /\ e.ids \in Seq(Nat \ {0})
    BY ChainType, PageType
  <2> HIDE DEF p
  <2> QED BY <1>2, <2>1, ConcatProperties DEF Count
<1>4. /\ \A i \in 1 .. Len(q) : SubSeq(p, 1, i - 1) = SubSeq(q, 1, i - 1)
      /\ SubSeq(p, 1, Len(q)) = q
  BY SamePrefixes
<1> HIDE DEF p
<1>5. \A i \in 1 .. Len(q) : Before(p, i) = Before(q, i)
  BY <1>4 DEF Before
<1>6. Before(p, Len(q) + 1) = Count(q)
  <2>1. (Len(q) + 1) - 1 = Len(q)
    BY <1>1
  <2> QED BY <1>4, <2>1 DEF Before
<1>7. p # <<>> /\ Last(p) = e
  BY <1>1, EmptySeq DEF Last
<1> QED BY <1>1, <1>2, <1>3, <1>5, <1>6, <1>7 DEF p

LEMMA Ending ==
  ASSUME NEW q \in Seq(Page), q # <<>>
  PROVE  Before(q, Len(q)) + Len(Last(q).ids) = Count(q)
<1>1. PICK r \in Seq(Page), e \in Page : q = Append(r, e)
  BY SequenceEmptyOrAppend
<1> QED BY <1>1, Extended

-----------------------------------------------------------------------------
(* The answer to a request.                                                *)

LEMMA EmptyCount == Count(<<>>) = 0 /\ BytesOf(<<>>) = 0 /\ Len(<<>>) = 0
BY SumsEmpty DEF Count

\* A request goes on behind the records that are there.
LEMMA Position ==
  ASSUME Inv, pc \in {"guard", "fetch"}
  PROVE  /\ mode = "offset" => query.pos = Count(pages)
         /\ store # None => /\ query.pos = Count(pages) \/ (query.pos = None /\ Count(pages) = 0)
                            /\ Offset = Count(pages) /\ Offset \in Nat /\ Offset <= store
<1>1. pages \in Seq(Page) /\ Count(pages) \in Nat
  BY ChainType DEF Inv, TypeOK
<1>2. CASE pages = <<>>
  BY <1>2, EmptyCount DEF Inv, Planned, Numbered, Offset
<1>3. CASE pages # <<>>
  <2>1. /\ Len(pages) \in 1 .. Len(pages) /\ Last(pages) = pages[Len(pages)]
        /\ Before(pages, Len(pages)) + Len(Last(pages).ids) = Count(pages)
    BY <1>1, <1>3, ChainType, Ending
  <2>2. /\ Placed(Last(pages), Before(pages, Len(pages)))
        /\ Last(pages).next # None /\ query.pos = Last(pages).next
    BY <1>3, <2>1 DEF Inv, AllPlaced, Planned
  <2>3. /\ mode = "offset" => query.pos = Count(pages)
        /\ store # None => query.pos = Count(pages)
    BY <2>1, <2>2 DEF Placed
  <2> QED BY <1>1, <2>3, Limits DEF Inv, Numbered, Offset
<1> QED BY <1>2, <1>3

LEMMA HonestAnswer ==
  ASSUME TypeOK, store # None, Offset \in Nat, Offset <= store, NEW answer \in Answers
  PROVE  LET n == Len(answer.ids)
         IN  /\ n \in Nat /\ answer.ids \in Seq(Nat \ {0})
             /\ answer.ids = [i \in 1 .. n |-> Offset + i]
             /\ Offset + n <= store /\ n <= query.size
             /\ Offset < store => answer.ids # <<>>
             /\ answer.total = IF mode = "offset" THEN store ELSE None
             /\ answer.next = IF mode = "cursor" /\ Offset + n < store THEN Offset + n ELSE None
             /\ answer.bytes \in Bodies /\ answer.at = 0 /\ answer.quota \in Quotas
<1> DEFINE from == Offset
           ends == IF from = store THEN {from} ELSE from + 1 .. Least(from + query.size, store)
           Answer(end, bytes, quota) ==
             [ids |-> [i \in 1 .. end - from |-> from + i],
              total |-> IF mode = "offset" THEN store ELSE None,
              next |-> IF mode = "cursor" /\ end < store THEN end ELSE None,
              bytes |-> bytes, at |-> 0, quota |-> quota]
<1>1. PICK end \in ends, bytes \in Bodies, quota \in Quotas : answer = Answer(end, bytes, quota)
  BY DEF Answers, HonestAnswers
<1>2. store \in Nat /\ query.size \in Nat \ {0}
  BY CollectionAssumption, Limits DEF TypeOK
<1>3. /\ end \in Nat /\ from <= end /\ end <= store /\ end - from <= query.size
      /\ from < store => from < end
  BY <1>2 DEF Least
<1> DEFINE n == end - from
<1>4. n \in Nat /\ from + n = end /\ (from < store => n # 0)
  BY <1>3
<1> HIDE DEF from, ends
<1>5. /\ answer.ids = [i \in 1 .. n |-> from + i]
      /\ answer.total = IF mode = "offset" THEN store ELSE None
      /\ answer.next = IF mode = "cursor" /\ end < store THEN end ELSE None
      /\ answer.bytes = bytes /\ answer.at = 0 /\ answer.quota = quota
  BY <1>1
<1> HIDE DEF n, Answer
<1>6. from \in Nat
  BY DEF from
<1>7. answer.ids \in Seq(Nat \ {0}) /\ Len(answer.ids) = n
  BY <1>4, <1>5, <1>6
<1>8. from < store => answer.ids # <<>>
  BY <1>4, <1>7, EmptySeq
<1>9. n <= query.size
  BY <1>3 DEF n
<1> QED BY <1>1, <1>3, <1>4, <1>5, <1>7, <1>8, <1>9 DEF from

LEMMA AnyAnswer ==
  ASSUME TypeOK, store = None, NEW answer \in Answers
  PROVE  /\ Len(answer.ids) \in Nat /\ answer.ids \in Seq(Nat \ {0})
         /\ mode = "offset" => answer.total \in Nat
         /\ mode = "cursor" => answer.total = None
         /\ answer.next \in Nat \cup {None}
         /\ answer.bytes \in Bodies /\ answer.at \in {0, 1} /\ answer.quota \in Quotas
<1>1. answer \in AnyAnswers
  BY DEF Answers
<1>2. query.size \in Nat
  BY Limits DEF TypeOK
<1>3. answer.ids \in BoundedSeq(Records, query.size) \cup {[i \in 1 .. query.size + 1 |-> i]}
  BY <1>1 DEF AnyAnswers
<1>4. answer.ids \in Seq(Nat \ {0})
  <2>1. CASE answer.ids \in BoundedSeq(Records, query.size)
    <3>1. PICK m \in 0 .. query.size : answer.ids \in [1 .. m -> Records]
      BY <2>1 DEF BoundedSeq, SeqOf
    <3>2. m \in Nat /\ Records \subseteq Nat \ {0}
      BY <1>2, Limits
    <3>3. answer.ids \in [1 .. m -> Nat \ {0}]
      BY <3>1, <3>2
    <3> QED BY <3>2, <3>3
  <2>2. CASE answer.ids = [i \in 1 .. query.size + 1 |-> i]
    BY <1>2, <2>2
  <2> QED BY <1>3, <2>1, <2>2
<1>5. /\ answer.total \in IF mode = "offset" THEN 0 .. MaxRecords + 1 ELSE {None}
      /\ answer.next \in IF mode = "cursor" THEN Records \cup {None} ELSE {None}
      /\ answer.bytes \in Bodies /\ answer.at \in {0, 1} /\ answer.quota \in Quotas
  BY <1>1 DEF AnyAnswers
<1>6. Len(answer.ids) \in Nat
  BY <1>4, LenProperties
<1>7. answer.next \in Nat \cup {None}
  BY <1>5, Limits
<1>8. (mode = "offset" => answer.total \in Nat) /\ (mode = "cursor" => answer.total = None)
  BY <1>5, Limits
<1> QED BY <1>4, <1>5, <1>6, <1>7, <1>8

\* A page that is taken has its place behind the pages that are there.
LEMMA NewPage ==
  ASSUME Inv, pc = "fetch", NEW answer \in Answers,
         answer.bytes <= ByteLimit, Parses(answer)
  PROVE  /\ PageOf(answer) \in Page /\ Placed(PageOf(answer), Count(pages))
         /\ Len(answer.ids) <= query.size
         /\ BytesOf(pages) + answer.bytes <= MaxTotalBytes
         /\ store # None =>
              answer.ids = [i \in 1 .. Len(answer.ids) |-> Count(pages) + i]
                /\ Count(pages) + Len(answer.ids) <= store
<1> DEFINE page == PageOf(answer)
<1>1. TypeOK /\ pages \in Seq(Page) /\ Count(pages) \in Nat /\ BytesOf(pages) \in Nat
  BY ChainType DEF Inv, TypeOK
<1>2. /\ mode \in Modes /\ query.pos \in Nat \cup {None}
      /\ query.size \in 1 .. MaxRecords /\ query.size \in Nat
  BY <1>1, Limits DEF TypeOK
<1>3. /\ mode = "offset" => query.pos = Count(pages)
      /\ store # None => /\ query.pos = Count(pages) \/ (query.pos = None /\ Count(pages) = 0)
                         /\ Offset = Count(pages) /\ Offset \in Nat /\ Offset <= store
  BY Position
<1>4. /\ Len(answer.ids) \in Nat /\ answer.ids \in Seq(Nat \ {0})
      /\ mode = "offset" => answer.total \in Nat
      /\ mode = "cursor" => answer.total = None
      /\ answer.next \in Nat \cup {None}
      /\ answer.bytes \in Bodies /\ answer.at \in {0, 1} /\ answer.quota \in Quotas
  <2>1. CASE store = None
    BY <1>1, <2>1, AnyAnswer
  <2>2. CASE store # None
    <3>1. store \in Nat
      BY <1>1, <2>2, CollectionAssumption DEF TypeOK
    <3> DEFINE n == Len(answer.ids)
    <3>2. /\ n \in Nat /\ answer.ids \in Seq(Nat \ {0})
          /\ answer.total = IF mode = "offset" THEN store ELSE None
          /\ answer.next = IF mode = "cursor" /\ Offset + n < store THEN Offset + n ELSE None
          /\ answer.bytes \in Bodies /\ answer.at = 0 /\ answer.quota \in Quotas
      BY <1>1, <1>3, <2>2, HonestAnswer
    <3>3. Offset + n \in Nat
      BY <1>3, <2>2, <3>2
    <3> QED BY <1>2, <2>2, <3>1, <3>2, <3>3 DEF Modes
  <2> QED BY <2>1, <2>2
<1>5. Len(answer.ids) <= query.size
  BY <1>2 DEF Parses, ParsesOffset, ParsesCursor, Modes
<1>6. page.next \in Nat \cup {None}
  BY <1>1, <1>2, <1>3, <1>4 DEF PageOf, NextPosition, Modes
<1>7. page \in Page
  <2>1. answer.total \in Nat \cup {None}
    BY <1>2, <1>4 DEF Modes
  <2>2. query.size \in Sizes \cup 1 .. MaxRecords
    BY <1>2
  <2>3. NextPosition(answer) \in Nat \cup {None}
    BY <1>6 DEF PageOf
  <2> QED BY <1>2, <1>4, <2>1, <2>2, <2>3 DEF PageOf, Page
<1>8. answer.bytes \in Nat /\ answer.bytes <= MaxResponseBytes
      /\ BytesOf(pages) + answer.bytes <= MaxTotalBytes
  <2>1. answer.bytes \in Nat
    BY <1>4, Limits
  <2> QED BY <1>1, <2>1, Limits DEF ByteLimit, Least
<1>9. store # None =>
        /\ answer.ids = [i \in 1 .. Len(answer.ids) |-> Count(pages) + i]
        /\ Count(pages) + Len(answer.ids) <= store
        /\ Count(pages) < store => answer.ids # <<>>
        /\ answer.total = IF mode = "offset" THEN store ELSE None
        /\ answer.next = IF mode = "cursor" /\ Count(pages) + Len(answer.ids) < store
                         THEN Count(pages) + Len(answer.ids) ELSE None
        /\ answer.at = 0
  BY <1>1, <1>3, HonestAnswer
<1>10. /\ page.pos = query.pos /\ page.size = query.size /\ page.ids = answer.ids
       /\ page.total = answer.total /\ page.bytes = answer.bytes /\ page.at = answer.at
       /\ page.next = NextPosition(answer)
  BY DEF PageOf
<1> DEFINE end == Count(pages) + Len(answer.ids)
<1>11. end \in Nat
  BY <1>1, <1>4
<1>12. mode = "offset" =>
         end <= answer.total /\ page.next = IF end < answer.total THEN end ELSE None
  BY <1>3, <1>4, <1>10, <1>11 DEF Parses, ParsesOffset, NextPosition
<1>13. mode = "cursor" => page.next = answer.next
  BY <1>10 DEF NextPosition
<1>14. store # None => page.next = IF end < store THEN end ELSE None
  BY <1>2, <1>9, <1>12, <1>13 DEF Modes
<1>15. store # None => (end < store => page.ids # <<>>)
  <2>1. ASSUME store # None, end < store PROVE Count(pages) < store
    BY <1>1, <1>4, <1>11, <2>1, CollectionAssumption DEF TypeOK
  <2> QED BY <1>9, <1>10, <2>1
<1> HIDE DEF page
<1>16. Placed(page, Count(pages))
  <2>1. page.bytes <= MaxResponseBytes
    BY <1>8, <1>10
  <2>2. mode = "offset" =>
          /\ page.pos = Count(pages) /\ page.total \in Nat /\ end <= page.total
          /\ page.next = IF end < page.total THEN end ELSE None
    BY <1>3, <1>4, <1>10, <1>12
  <2>3. mode = "cursor" => page.size = query.size /\ page.total = None
    BY <1>4, <1>10
  <2>4. store # None =>
          /\ page.pos = Count(pages) \/ (page.pos = None /\ Count(pages) = 0)
          /\ page.at = 0
          /\ mode = "offset" => page.total = store
          /\ page.next = IF end < store THEN end ELSE None
          /\ end < store => page.ids # <<>>
    BY <1>3, <1>9, <1>10, <1>14, <1>15
  <2> QED BY <1>10, <2>1, <2>2, <2>3, <2>4 DEF Placed
<1> QED BY <1>5, <1>7, <1>8, <1>9, <1>16 DEF page

-----------------------------------------------------------------------------
(* The pages of a provider with a fixed list are a chain.                  *)

\* What IsChain says of one page.
Link(chain, i) ==
  /\ chain[i].total = chain[1].total
  /\ \/ chain[i].size = chain[1].size
     \/ IsBoundedResize(chain[i], chain[1].size, chain[1].total)
  /\ i > 1 => Continues(chain[i], chain[i - 1])
  /\ mode = "offset" /\ chain[i].next # None =>
       chain[i].next = chain[i].pos + Len(chain[i].ids)
  /\ \A j \in 1 .. i : chain[i].next # None => chain[i].next # chain[j].pos
  /\ \A j \in 1 .. i - 1 : chain[i].pos # chain[j].pos

LEMMA Links ==
  ASSUME NEW chain
  PROVE  IsChain(chain) <=>
           /\ \A i \in DOMAIN chain : Link(chain, i)
           /\ NoRepeats(RecordsOf(chain))
           /\ Status(Last(chain)) = "complete" => chain[1].total = Count(chain)
BY DEF IsChain, Link, Count

LEMMA HonestParses ==
  ASSUME Inv, pc = "fetch", store # None, NEW answer \in Answers
  PROVE  Parses(answer)
<1> DEFINE n == Len(answer.ids)
<1>1. TypeOK /\ mode \in Modes /\ store \in Nat
  BY CollectionAssumption DEF Inv, TypeOK
<1>2. /\ mode = "offset" => query.pos = Count(pages)
      /\ query.pos = Count(pages) \/ (query.pos = None /\ Count(pages) = 0)
      /\ Offset = Count(pages) /\ Offset \in Nat /\ Offset <= store
  BY Position
<1>3. /\ n \in Nat /\ answer.ids \in Seq(Nat \ {0})
      /\ Offset + n <= store /\ n <= query.size
      /\ Offset < store => answer.ids # <<>>
      /\ answer.total = IF mode = "offset" THEN store ELSE None
      /\ answer.next = IF mode = "cursor" /\ Offset + n < store THEN Offset + n ELSE None
  BY <1>1, <1>2, HonestAnswer
<1>4. answer.ids # <<>> => n # 0
  BY <1>3, EmptySeq
<1>5. CASE mode = "offset"
  BY <1>2, <1>3, <1>5 DEF Parses, ParsesOffset
<1>6. CASE mode = "cursor"
  <2>1. SUFFICES ASSUME answer.next # None PROVE answer.next # query.pos
    BY <1>3, <1>6 DEF Parses, ParsesCursor
  <2>2. answer.next = Offset + n /\ Offset + n < store
    BY <1>3, <1>6, <2>1
  <2>3. n # 0
    BY <1>1, <1>2, <1>3, <1>4, <2>2
  <2> QED BY <1>2, <1>3, <2>1, <2>2, <2>3
<1> QED BY <1>1, <1>5, <1>6 DEF Modes

LEMMA HonestNumbers ==
  ASSUME Inv, store # None, NEW page \in Page, NEW ids,
         page.ids = [i \in 1 .. Len(page.ids) |-> Count(pages) + i],
         ids = RecordsOf(Append(pages, page))
  PROVE  /\ ids = [i \in 1 .. Len(ids) |-> i] /\ NoRepeats(ids)
         /\ Len(ids) = Count(pages) + Len(page.ids)
<1> DEFINE old == RecordsOf(pages)
           new == page.ids
           n == Count(pages) + Len(new)
<1>1. /\ pages \in Seq(Page) /\ old \in Seq(Nat \ {0}) /\ Count(pages) \in Nat
      /\ new \in Seq(Nat \ {0}) /\ Len(new) \in Nat
  BY ChainType, PageType DEF Inv, TypeOK
<1>2. ids = old \o new
  BY <1>1, Extended
<1>3. Len(old) = Count(pages) /\ \A i \in 1 .. Count(pages) : old[i] = i
  BY DEF Inv, Numbered, Count
<1>4. \A i \in 1 .. Len(new) : new[i] = Count(pages) + i
  <2> HIDE DEF new
  <2>1. new = [i \in 1 .. Len(new) |-> Count(pages) + i]
    BY DEF new
  <2> QED BY <2>1
<1> HIDE DEF old, new
<1>5. /\ ids \in Seq(Nat \ {0}) /\ Len(ids) = n
      /\ \A i \in 1 .. n : ids[i] = IF i <= Len(old) THEN old[i] ELSE new[i - Len(old)]
  BY <1>1, <1>2, <1>3, ConcatProperties
<1>6. ASSUME NEW i \in 1 .. n PROVE ids[i] = i
  <2>1. CASE i <= Len(old)
    BY <1>1, <1>3, <1>5, <2>1
  <2>2. CASE ~ (i <= Len(old))
    <3>1. i - Len(old) \in 1 .. Len(new) /\ Count(pages) + (i - Len(old)) = i
      BY <1>1, <1>3, <2>2
    <3> QED BY <1>4, <1>5, <2>2, <3>1
  <2> QED BY <2>1, <2>2
<1>7. DOMAIN ids = 1 .. n /\ ids = [i \in 1 .. n |-> ids[i]]
  BY <1>5
<1> HIDE DEF n
<1>8. ids = [i \in 1 .. n |-> i]
  BY <1>6, <1>7
<1>9. NoRepeats(ids)
  BY <1>6, <1>7 DEF NoRepeats
<1> QED BY <1>5, <1>8, <1>9 DEF n, new

LEMMA HonestChain ==
  ASSUME Inv, pc = "fetch", store # None, NEW answer \in Answers,
         answer.bytes <= ByteLimit
  PROVE  IsChain(Append(pages, PageOf(answer)))
<1> DEFINE page == PageOf(answer)
           chain == Append(pages, page)
           n == Len(pages)
           end == Count(pages) + Len(page.ids)
<1>1. Parses(answer)
  BY HonestParses
<1>2. /\ page \in Page /\ Placed(page, Count(pages)) /\ page.ids = answer.ids
      /\ page.pos = query.pos /\ page.size = query.size
      /\ page.ids = [i \in 1 .. Len(page.ids) |-> Count(pages) + i] /\ end <= store
  <2>1. page.ids = answer.ids /\ page.pos = query.pos /\ page.size = query.size
    BY DEF PageOf
  <2> HIDE DEF page
  <2>2. page \in Page /\ Placed(page, Count(pages))
    BY <1>1, NewPage DEF page
  <2>3. answer.ids = [i \in 1 .. Len(answer.ids) |-> Count(pages) + i]
          /\ Count(pages) + Len(answer.ids) <= store
    BY <1>1, NewPage
  <2> QED BY <2>1, <2>2, <2>3
<1> HIDE DEF page
<1>3. /\ pages \in Seq(Page) /\ n \in Nat /\ Count(pages) \in Nat /\ Len(page.ids) \in Nat
      /\ store \in Nat /\ end \in Nat /\ mode \in Modes
      /\ query.size \in 1 .. MaxRecords /\ query.size \in Nat \ {0}
  BY <1>2, ChainType, PageType, Limits, CollectionAssumption DEF Inv, TypeOK
<1>4. /\ Len(chain) = n + 1 /\ DOMAIN chain = 1 .. (n + 1)
      /\ chain[n + 1] = page /\ Last(chain) = page
      /\ \A i \in 1 .. n : chain[i] = pages[i]
      /\ Count(chain) = end
  <2>1. chain \in Seq(Page) /\ Len(chain) = n + 1
    BY <1>2, <1>3, Extended
  <2> QED BY <1>2, <1>3, <2>1, Extended, ChainType
<1>5. ASSUME pages # <<>> PROVE 1 \in 1 .. n /\ n \in 1 .. n /\ Last(pages) = pages[n]
  BY <1>3, <1>5, ChainType
<1>6. pages # <<>> =>
        /\ IsChain(pages) /\ Last(pages).next # None /\ query.pos = Last(pages).next
        /\ Last(pages).quota = "known"
        /\ mode = "offset" =>
             query.size = Least(pages[1].size, pages[1].total - Count(pages))
  BY DEF Inv, Planned
<1>7. \A i \in 1 .. n :
        /\ pages[i].pos \in Nat => pages[i].pos <= Count(pages)
        /\ pages[i].at = 0 /\ pages[i].size \in Nat \ {0}
        /\ mode = "offset" => pages[i].total = store
        /\ mode = "cursor" => pages[i].size = query.size /\ pages[i].total = None
  <2> TAKE i \in 1 .. n
  <2>1. /\ Before(pages, i) \in Nat /\ Before(pages, i) <= Count(pages)
        /\ Placed(pages[i], Before(pages, i))
    BY DEF Inv, AllPlaced
  <2>2. pages[i].size \in Nat \ {0}
    BY <1>3, ChainType, PageType
  <2> QED BY <2>1, <2>2, Limits DEF Placed
<1>8. /\ page.at = 0
      /\ mode = "offset" => page.total = store /\ page.pos = Count(pages)
      /\ mode = "cursor" => page.total = None
      /\ page.pos = Count(pages) \/ (page.pos = None /\ Count(pages) = 0)
      /\ page.next = IF end < store THEN end ELSE None
      /\ end < store => page.ids # <<>>
  BY <1>2 DEF Placed
<1> HIDE DEF chain, end, n
<1>9. page.ids # <<>> => Len(page.ids) # 0
  BY <1>2, PageType, EmptySeq
<1>10. page.next # None => page.next = end /\ Count(pages) < end
  BY <1>3, <1>8, <1>9 DEF end
<1>11. ASSUME NEW i \in 1 .. n PROVE Link(chain, i)
  <2>1. pages # <<>>
    BY <1>3, <1>11, EmptySeq DEF n
  <2>2. 1 \in 1 .. n /\ i \in DOMAIN pages
    BY <1>3, <1>5, <1>11, <2>1, ChainType DEF n
  <2>3. Link(pages, i)
    BY <1>6, <2>1, <2>2, Links
  <2>4. /\ chain[i] = pages[i] /\ chain[1] = pages[1]
        /\ i > 1 => chain[i - 1] = pages[i - 1]
        /\ \A j \in 1 .. i : chain[j] = pages[j]
    BY <1>3, <1>4, <2>2
  <2>5. \A j \in 1 .. i - 1 : j \in 1 .. i
    BY <1>3
  <2> QED BY <2>3, <2>4, <2>5 DEF Link
<1>12. Link(chain, n + 1)
  <2>1. \A j \in 1 .. (n + 1) : page.next # None => page.next # chain[j].pos
    <3>1. ASSUME NEW j \in 1 .. (n + 1), page.next # None PROVE page.next # chain[j].pos
      <4>1. CASE j = n + 1
        BY <1>3, <1>4, <1>8, <1>10, <3>1, <4>1
      <4>2. CASE j \in 1 .. n
        <5>1. chain[j] = pages[j]
          BY <1>4, <4>2
        <5>2. pages[j].pos \in Nat => pages[j].pos <= Count(pages)
          BY <1>7, <4>2
        <5>3. page.next = end /\ end \in Nat /\ Count(pages) < end
          BY <1>3, <1>10, <3>1
        <5> QED BY <1>3, <5>1, <5>2, <5>3
      <4> QED BY <1>3, <4>1, <4>2
    <3> QED BY <3>1
  <2>2. mode = "offset" /\ page.next # None => page.next = page.pos + Len(page.ids)
    BY <1>8, <1>10 DEF end
  <2>3. CASE pages = <<>>
    <3>1. n = 0
      BY <2>3, EmptySeq DEF n
    <3>2. chain[1] = page /\ 1 .. 0 = {} /\ chain[0 + 1] = page
      BY <1>4, <3>1
    <3> QED BY <1>4, <2>1, <2>2, <3>1, <3>2 DEF Link
  <2>4. CASE pages # <<>>
    <3>1. /\ 1 \in 1 .. n /\ n \in 1 .. n /\ n \in DOMAIN pages /\ Last(pages) = pages[n]
          /\ (n + 1) - 1 = n /\ chain[1] = pages[1] /\ chain[n] = pages[n]
      BY <1>3, <1>4, <1>5, <2>4, ChainType DEF n
    <3>2. page.total = chain[1].total
      BY <1>3, <1>7, <1>8, <3>1 DEF Modes
    <3>3. \/ page.size = chain[1].size
          \/ IsBoundedResize(page, chain[1].size, chain[1].total)
      <4>1. CASE mode = "cursor"
        BY <1>2, <1>7, <3>1, <4>1
      <4>2. CASE mode = "offset"
        <5>1. /\ chain[1].total = store /\ chain[1].size \in Nat \ {0}
              /\ page.pos = Count(pages)
              /\ page.size = Least(chain[1].size, chain[1].total - page.pos)
          BY <1>2, <1>6, <1>7, <1>8, <2>4, <3>1, <4>2
        <5> QED BY <1>2, <1>3, <4>2, <5>1 DEF IsBoundedResize, Least
      <4> QED BY <1>3, <4>1, <4>2 DEF Modes
    <3>4. Continues(page, chain[n])
      BY <1>2, <1>6, <1>7, <1>8, <2>4, <3>1 DEF Continues, Status
    <3>5. \A j \in 1 .. n : page.pos # chain[j].pos
      <4>1. Link(pages, n)
        BY <1>6, <2>4, <3>1, Links
      <4>2. page.pos = pages[n].next /\ pages[n].next # None
        BY <1>2, <1>6, <2>4, <3>1
      <4> QED BY <1>4, <4>1, <4>2 DEF Link
    <3> QED BY <1>4, <2>1, <2>2, <3>1, <3>2, <3>3, <3>4, <3>5 DEF Link
  <2> QED BY <2>3, <2>4
<1>13. \A i \in DOMAIN chain : Link(chain, i)
  <2>1. \A i \in DOMAIN chain : i \in 1 .. n \/ i = n + 1
    BY <1>3, <1>4
  <2> QED BY <1>11, <1>12, <2>1
<1>14. NoRepeats(RecordsOf(chain))
  BY <1>2, HonestNumbers DEF chain
<1>15. Status(Last(chain)) = "complete" => chain[1].total = Count(chain)
  <2>1. SUFFICES ASSUME mode = "offset", page.next = None PROVE chain[1].total = end
    BY <1>4 DEF Status
  <2>2. end = store
    BY <1>2, <1>3, <1>8, <2>1, Limits DEF end
  <2>3. chain[1].total = page.total
    BY <1>3, <1>12, <1>4 DEF Link
  <2> QED BY <1>8, <2>1, <2>2, <2>3
<1>16. IsChain(chain)
  BY <1>13, <1>14, <1>15, Links
<1> QED BY <1>16 DEF chain, page

-----------------------------------------------------------------------------
(* The steps.                                                              *)

LEMMA InitInv == Init => Inv
<1> SUFFICES ASSUME Init PROVE Inv
  OBVIOUS
<1>1. PICK size \in Sizes : query = [pos |-> IF mode = "offset" THEN 0 ELSE None,
                                     size |-> Least(size, MaxRecords)]
  BY DEF Init
<1>2. size \in Nat \ {0}
  BY Limits
<1>3. /\ query.pos = (IF mode = "offset" THEN 0 ELSE None)
      /\ query.size \in 1 .. MaxRecords /\ query.size \in Nat
      /\ query \in [pos : Nat \cup {None}, size : 1 .. MaxRecords]
  <2>1. Least(size, MaxRecords) \in 1 .. MaxRecords
    BY <1>2, Limits DEF Least
  <2>2. (IF mode = "offset" THEN 0 ELSE None) \in Nat \cup {None}
    OBVIOUS
  <2>3. \A k \in 1 .. MaxRecords : k \in Nat
    BY Limits
  <2> QED BY <1>1, <2>1, <2>2, <2>3
<1>4. pages = <<>> /\ Count(pages) = 0 /\ BytesOf(pages) = 0 /\ Len(pages) = 0
  BY EmptyCount DEF Init
<1>5. pages \in Seq(Page)
  BY <1>4, EmptySeq
<1>6. pc = "guard" /\ outcome.kind = "none" /\ mode \in Modes /\ store \in Stores
  BY DEF Init, Pending
<1>7. TypeOK
  BY <1>3, <1>5, <1>6 DEF TypeOK
<1>8. AllPlaced
  BY <1>4 DEF AllPlaced
<1>9. Numbered
  <2>1. ASSUME store # None PROVE store \in Nat
    BY <1>6, <2>1, CollectionAssumption
  <2>2. RecordsOf(pages) = <<>> /\ [i \in 1 .. 0 |-> i] = <<>>
    BY <1>4, SumsEmpty
  <2>3. ASSUME store # None PROVE 0 <= store
    BY <2>1, <2>3
  <2> QED BY <1>4, <2>2, <2>3 DEF Numbered
<1>10. Limited
  BY <1>3, <1>4, <1>6, Limits DEF Limited
<1>11. Planned /\ Judged /\ Concluded
  BY <1>3, <1>4, <1>6 DEF Planned, Judged, Concluded
<1> QED BY <1>7, <1>8, <1>9, <1>10, <1>11 DEF Inv

LEMMA SameChain ==
  ASSUME mode' = mode
  PROVE  /\ IsChain(pages)' <=> IsChain(pages')
         /\ Status(Last(pages))' = Status(Last(pages'))
         /\ Page' = Page
<1>1. Page' = Page
  BY DEF Page, Quotas
<1>2. IsChain(pages)' <=> IsChain(pages')
  BY DEF IsChain, Continues, Status, IsBoundedResize
<1>3. Status(Last(pages))' = Status(Last(pages'))
  BY DEF Status
<1> QED BY <1>1, <1>2, <1>3

\* The parts of the invariant that do not depend on where the collector is.
LEMMA Same ==
  ASSUME Inv, UNCHANGED <<mode, store, query, pages>>
  PROVE  /\ mode' \in Modes /\ store' \in Stores /\ pages' \in Seq(Page')
         /\ query' \in [pos : Nat \cup {None}, size : 1 .. MaxRecords]
         /\ AllPlaced' /\ Numbered'
         /\ IsChain(pages)' <=> IsChain(pages)
         /\ Status(Last(pages))' = Status(Last(pages))
<1>1. /\ mode' = mode /\ store' = store /\ query' = query /\ pages' = pages
  OBVIOUS
<1>2. /\ mode' \in Modes /\ store' \in Stores /\ pages' \in Seq(Page')
      /\ query' \in [pos : Nat \cup {None}, size : 1 .. MaxRecords]
  BY <1>1, SameChain DEF Inv, TypeOK
<1>3. AllPlaced'
  BY <1>1 DEF Inv, AllPlaced, Placed
<1>4. Numbered'
  BY <1>1 DEF Inv, Numbered
<1> QED BY <1>1, <1>2, <1>3, <1>4, SameChain

\* The position behind the last page counts the records.
LEMMA NextIsCount ==
  ASSUME Inv, pages # <<>>, Last(pages).next # None, mode = "offset" \/ store # None
  PROVE  Last(pages).next = Count(pages)
<1>1. /\ Len(pages) \in 1 .. Len(pages) /\ Last(pages) = pages[Len(pages)]
      /\ Before(pages, Len(pages)) + Len(Last(pages).ids) = Count(pages)
  BY ChainType, Ending DEF Inv, TypeOK
<1>2. Placed(Last(pages), Before(pages, Len(pages)))
  BY <1>1 DEF Inv, AllPlaced
<1> QED BY <1>1, <1>2 DEF Placed

\* A limit that stops the collection is reported with the pages that there are.
LEMMA Stopped ==
  ASSUME Inv, NEW reason, Incomplete(reason),
         pages # <<>> /\ (mode = "offset" \/ store # None) => Last(pages).next # None,
         store # None =>
           /\ reason # "parse"
           /\ reason = "max_records" =>
                store > MaxRecords \/ (mode = "cursor" /\ store + query.size > MaxRecords)
           /\ reason = "max_pages" => Len(pages) = MaxPages
  PROVE  Inv'
<1> DEFINE next == IF pages = <<>> THEN None ELSE Last(pages).next
<1>1. /\ outcome' = [kind |-> "incomplete", reason |-> reason, next |-> next,
                     pages |-> Len(pages), records |-> Count(pages)]
      /\ pc' = "done" /\ UNCHANGED <<mode, store, query, pages>>
  BY DEF Incomplete, Finish, Count
<1>2. pages # <<>> /\ (mode = "offset" \/ store # None) => next = Count(pages)
  BY NextIsCount
<1> HIDE DEF next
<1>3. /\ outcome'.kind = "incomplete" /\ outcome'.reason = reason /\ outcome'.next = next
      /\ outcome'.pages = Len(pages) /\ outcome'.records = Count(pages)
  BY <1>1
<1>4. Len(pages) > 0 => pages # <<>>
  BY EmptySeq
<1>5. TypeOK'
  BY <1>1, <1>3, Same DEF TypeOK
<1>6. AllPlaced' /\ Numbered'
  BY <1>1, Same
<1>7. Limited'
  BY <1>1 DEF Limited, Inv
<1>8. Planned' /\ Judged'
  BY <1>1 DEF Planned, Judged
<1>9. Concluded'
  BY <1>1, <1>2, <1>3, <1>4 DEF Concluded
<1> QED BY <1>5, <1>6, <1>7, <1>8, <1>9 DEF Inv

LEMMA StopAtPagesStep == Inv /\ StopAtPages => Inv'
<1> SUFFICES ASSUME Inv, StopAtPages PROVE Inv'
  OBVIOUS
<1>1. pc = "guard" /\ Len(pages) >= MaxPages /\ Incomplete("max_pages")
  BY DEF StopAtPages, NoPageLeft
<1>2. pages # <<>> => Last(pages).next # None
  BY <1>1 DEF Inv, Planned
<1>3. Len(pages) = MaxPages
  BY <1>1, ChainType, Limits DEF Inv, TypeOK, Limited
<1> QED BY <1>1, <1>2, <1>3, Stopped

LEMMA StopAtRecordsStep == Inv /\ StopAtRecords => Inv'
<1> SUFFICES ASSUME Inv, StopAtRecords PROVE Inv'
  OBVIOUS
<1> DEFINE left == MaxRecords - Count(pages)
<1>1. /\ pc = "guard" /\ Incomplete("max_records")
      /\ left <= 0 \/ (mode = "cursor" /\ pages # <<>> /\ left < pages[1].size)
  BY DEF StopAtRecords, NoRecordLeft, Count
<1>2. pages # <<>> => Last(pages).next # None
  BY <1>1 DEF Inv, Planned
<1>3. /\ pages \in Seq(Page) /\ Count(pages) \in Nat /\ mode \in Modes
      /\ query.size \in Nat \ {0}
  BY ChainType, Limits DEF Inv, TypeOK
<1>4. ASSUME store # None
      PROVE  store > MaxRecords \/ (mode = "cursor" /\ store + query.size > MaxRecords)
  <2>1. mode = "cursor"
    BY <1>1, <1>3, Limits DEF Inv, Limited, Modes
  <2>2. store \in Nat /\ Count(pages) <= store
    BY <1>4, CollectionAssumption DEF Inv, TypeOK, Numbered
  <2>3. CASE left <= 0
    BY <1>3, <2>1, <2>2, <2>3, Limits
  <2>4. CASE pages # <<>> /\ left < pages[1].size
    <3>1. pages[1].size = query.size
      <4>1. 1 \in 1 .. Len(pages)
        BY <1>3, <2>4, ChainType
      <4> QED BY <2>1, <4>1 DEF Inv, AllPlaced, Placed
    <3> QED BY <1>3, <2>1, <2>2, <2>4, <3>1, Limits
  <2> QED BY <1>1, <2>3, <2>4
<1> QED BY <1>1, <1>2, <1>4, Stopped

LEMMA StopAtBytesStep == Inv /\ StopAtBytes => Inv'
<1> SUFFICES ASSUME Inv, StopAtBytes PROVE Inv'
  OBVIOUS
<1>1. pc = "guard" /\ Incomplete("max_total_response_bytes")
  BY DEF StopAtBytes
<1>2. pages # <<>> => Last(pages).next # None
  BY <1>1 DEF Inv, Planned
<1> QED BY <1>1, <1>2, Stopped

LEMMA RequestStep == Inv /\ Request => Inv'
<1> SUFFICES ASSUME Inv, Request PROVE Inv'
  OBVIOUS
<1>1. /\ pc = "guard" /\ pc' = "fetch" /\ UNCHANGED <<mode, store, query, pages, outcome>>
      /\ ~ NoPageLeft /\ ~ NoRecordLeft /\ ~ NoByteLeft
  BY DEF Request
<1>2. /\ pages \in Seq(Page) /\ Count(pages) \in Nat /\ BytesOf(pages) \in Nat
      /\ Len(pages) \in Nat /\ query.size \in 1 .. MaxRecords /\ query.size \in Nat
      /\ mode \in Modes
  BY ChainType, Limits DEF Inv, TypeOK
<1>3. /\ Len(pages) < MaxPages /\ BytesOf(pages) < MaxTotalBytes
  BY <1>1, <1>2, Limits DEF NoPageLeft, NoByteLeft
<1>4. Count(pages) + query.size <= MaxRecords
  <2>1. CASE mode = "offset"
    BY <1>1, <2>1 DEF Inv, Limited
  <2>2. CASE mode = "cursor" /\ pages = <<>>
    BY <1>2, <2>2, EmptyCount, Limits
  <2>3. CASE mode = "cursor" /\ pages # <<>>
    <3>1. pages[1].size = query.size
      <4>1. 1 \in 1 .. Len(pages)
        BY <1>2, <2>3, ChainType
      <4> QED BY <2>3, <4>1 DEF Inv, AllPlaced, Placed
    <3>2. ~ (MaxRecords - Count(pages) < pages[1].size)
      BY <1>1, <2>3 DEF NoRecordLeft, Count
    <3> QED BY <1>2, <3>1, <3>2, Limits
  <2> QED BY <1>2, <2>1, <2>2, <2>3 DEF Modes
<1>5. TypeOK'
  BY <1>1, Same DEF Inv, TypeOK
<1>6. AllPlaced' /\ Numbered' /\ (IsChain(pages)' <=> IsChain(pages))
        /\ Status(Last(pages))' = Status(Last(pages))
  BY <1>1, Same
<1>7. Limited'
  BY <1>1, <1>3, <1>4 DEF Inv, Limited
<1>8. Planned' /\ Judged'
  BY <1>1, <1>6 DEF Inv, Planned, Judged
<1>9. Concluded'
  BY <1>1, <1>6 DEF Inv, Concluded, TypeOK
<1> QED BY <1>5, <1>6, <1>7, <1>8, <1>9 DEF Inv

LEMMA FetchFailsStep == Inv /\ FetchFails => Inv'
<1> SUFFICES ASSUME Inv, FetchFails PROVE Inv'
  OBVIOUS
<1>1. pc = "fetch" /\ Incomplete("fetch")
  BY DEF FetchFails
<1>2. pages # <<>> => Last(pages).next # None
  BY <1>1 DEF Inv, Planned
<1> QED BY <1>1, <1>2, Stopped

LEMMA AcceptStep ==
  ASSUME Inv, pc = "fetch", NEW answer \in Answers, Accept(answer)
  PROVE  Inv'
<1> DEFINE page == PageOf(answer)
           n == Len(pages)
           more == Len(page.ids)
<1>1. /\ answer.bytes <= ByteLimit /\ Parses(answer)
      /\ pages' = Append(pages, page) /\ pc' = "validate"
      /\ UNCHANGED <<mode, store, query, outcome>>
  BY DEF Accept
<1>2. page.ids = answer.ids /\ page.bytes = answer.bytes
  BY DEF PageOf
<1> HIDE DEF page
<1>3. /\ page \in Page /\ Placed(page, Count(pages)) /\ more <= query.size
      /\ BytesOf(pages) + page.bytes <= MaxTotalBytes
      /\ store # None => /\ page.ids = [i \in 1 .. Len(page.ids) |-> Count(pages) + i]
                         /\ Count(pages) + more <= store
  <2>1. page \in Page /\ Placed(page, Count(pages))
    BY <1>1, NewPage DEF page
  <2>2. /\ Len(answer.ids) <= query.size /\ BytesOf(pages) + answer.bytes <= MaxTotalBytes
        /\ store # None =>
             answer.ids = [i \in 1 .. Len(answer.ids) |-> Count(pages) + i]
               /\ Count(pages) + Len(answer.ids) <= store
    BY <1>1, NewPage
  <2> QED BY <1>2, <2>1, <2>2
<1>4. /\ pages \in Seq(Page) /\ n \in Nat /\ Count(pages) \in Nat /\ BytesOf(pages) \in Nat
      /\ more \in Nat /\ page.bytes \in Nat /\ query.size \in Nat
  BY <1>3, ChainType, PageType, Limits DEF Inv, TypeOK
<1>5. /\ pages' \in Seq(Page) /\ pages' # <<>> /\ Len(pages') = n + 1
      /\ pages'[n + 1] = page /\ \A i \in 1 .. n : pages'[i] = pages[i]
      /\ Count(pages') = Count(pages) + more
      /\ BytesOf(pages') = BytesOf(pages) + page.bytes
      /\ \A i \in 1 .. n : Before(pages', i) = Before(pages, i)
      /\ Before(pages', n + 1) = Count(pages)
  BY <1>1, <1>3, <1>4, Extended
<1> HIDE DEF n, more
<1>6. TypeOK'
  <2>1. pages' \in Seq(Page')
    BY <1>1, <1>5, SameChain
  <2>2. mode' \in Modes /\ store' \in Stores
          /\ query' \in [pos : Nat \cup {None}, size : 1 .. MaxRecords]
    BY <1>1 DEF Inv, TypeOK
  <2>3. outcome'.kind = "none"
    BY <1>1 DEF Inv, TypeOK
  <2> QED BY <1>1, <2>1, <2>2, <2>3 DEF TypeOK
<1>7. AllPlaced'
  <2>1. ASSUME NEW i \in 1 .. (n + 1)
        PROVE  /\ Before(pages', i) \in Nat /\ Before(pages', i) <= Count(pages')
               /\ Placed(pages'[i], Before(pages', i))
    <3>1. CASE i \in 1 .. n
      <4>1. /\ Before(pages, i) \in Nat /\ Before(pages, i) <= Count(pages)
            /\ Placed(pages[i], Before(pages, i))
        BY <3>1 DEF Inv, AllPlaced, n
      <4> QED BY <1>4, <1>5, <3>1, <4>1
    <3>2. CASE i = n + 1
      BY <1>3, <1>4, <1>5, <3>2
    <3> QED BY <1>4, <2>1, <3>1, <3>2
  <2>2. ASSUME NEW i \in 1 .. Len(pages')
        PROVE  Placed(pages'[i], Before(pages', i)) <=> Placed(pages[i], Before(pages, i))'
    BY <1>1 DEF Placed
  <2>3. \A i \in 1 .. Len(pages') : i \in 1 .. (n + 1)
    BY <1>5
  <2> QED BY <2>1, <2>2, <2>3 DEF AllPlaced
<1>8. Numbered'
  <2>1. SUFFICES ASSUME store # None
                 PROVE  /\ Count(pages') <= store
                        /\ RecordsOf(pages') = [i \in 1 .. Count(pages') |-> i]
    BY <1>1 DEF Numbered
  <2>2. RecordsOf(pages') = [i \in 1 .. Count(pages') |-> i]
    BY <1>1, <1>3, <2>1, HonestNumbers DEF Count
  <2> QED BY <1>3, <1>5, <2>1, <2>2
<1>9. Limited'
  <2>1. /\ n < MaxPages /\ Count(pages) + query.size <= MaxRecords
    BY DEF Inv, Limited, n
  <2>2. n + 1 <= MaxPages /\ Count(pages) + more <= MaxRecords
    BY <1>3, <1>4, <2>1, Limits DEF more
  <2> QED BY <1>1, <1>3, <1>5, <2>2 DEF Limited
<1>10. Planned' /\ Concluded'
  BY <1>1 DEF Planned, Concluded, Inv, TypeOK
<1>11. Judged'
  <2>1. ASSUME store # None PROVE IsChain(pages')
    BY <1>1, <2>1, HonestChain DEF page
  <2> QED BY <1>1, <1>5, <2>1, SameChain DEF Judged
<1> QED BY <1>6, <1>7, <1>8, <1>9, <1>10, <1>11 DEF Inv

LEMMA ReceiveStep == Inv /\ Receive => Inv'
<1> SUFFICES ASSUME Inv, Receive PROVE Inv'
  OBVIOUS
<1>1. pc = "fetch"
  BY DEF Receive
<1>2. PICK answer \in Answers : TooLarge(answer) \/ Malformed(answer) \/ Accept(answer)
  BY DEF Receive
<1>3. pages # <<>> => Last(pages).next # None
  BY <1>1 DEF Inv, Planned
<1>4. CASE TooLarge(answer)
  BY <1>3, <1>4, Stopped DEF TooLarge
<1>5. CASE Malformed(answer)
  <2>1. store = None /\ Incomplete("parse")
    BY <1>1, <1>5, HonestParses DEF Malformed
  <2> QED BY <1>3, <2>1, Stopped
<1>6. CASE Accept(answer)
  BY <1>1, <1>6, AcceptStep
<1> QED BY <1>2, <1>4, <1>5, <1>6

LEMMA BreakChainStep == Inv /\ BreakChain => Inv'
<1> SUFFICES ASSUME Inv, BreakChain PROVE Inv'
  OBVIOUS
<1>1. /\ pc = "validate" /\ ~ IsChain(pages)
      /\ outcome' = [kind |-> "integrity"] /\ pc' = "done"
      /\ UNCHANGED <<mode, store, query, pages>>
  BY DEF BreakChain, Finish
<1>2. store = None /\ outcome'.kind = "integrity"
  BY <1>1 DEF Inv, Judged
<1>3. TypeOK'
  BY <1>1, <1>2, Same DEF TypeOK
<1>4. AllPlaced' /\ Numbered'
  BY <1>1, Same
<1>5. Limited' /\ Planned' /\ Judged' /\ Concluded'
  BY <1>1, <1>2 DEF Inv, Limited, Planned, Judged, Concluded
<1> QED BY <1>3, <1>4, <1>5 DEF Inv

\* If the provider announces more than the limit, the chain is not at its end.
LEMMA StopAtTotalStep == Inv /\ StopAtTotal => Inv'
<1> SUFFICES ASSUME Inv, StopAtTotal PROVE Inv'
  OBVIOUS
<1>1. /\ pc = "validate" /\ IsChain(pages) /\ mode = "offset"
      /\ pages[1].total > MaxRecords /\ Incomplete("max_records")
  BY DEF StopAtTotal, Valid, BeyondRecords
<1>2. /\ pages # <<>> /\ pages \in Seq(Page) /\ Count(pages) \in Nat
      /\ Count(pages) <= MaxRecords
      /\ 1 \in 1 .. Len(pages) /\ pages[1] \in Page
  BY <1>1, ChainType DEF Inv, TypeOK, Judged, Limited
<1>3. Last(pages).next # None
  <2>1. SUFFICES ASSUME Last(pages).next = None PROVE FALSE
    OBVIOUS
  <2>2. pages[1].total = Count(pages)
    BY <1>1, <2>1, Links DEF Status
  <2> QED BY <1>1, <1>2, <2>2, Limits
<1>4. store # None => store > MaxRecords
  BY <1>1, <1>2 DEF Inv, AllPlaced, Placed
<1> QED BY <1>1, <1>3, <1>4, Stopped

LEMMA AssembleStep == Inv /\ Assemble => Inv'
<1> SUFFICES ASSUME Inv, Assemble PROVE Inv'
  OBVIOUS
<1>1. /\ pc = "validate" /\ IsChain(pages) /\ Status(Last(pages)) # "incomplete"
      /\ outcome' = [kind |-> Status(Last(pages))] /\ pc' = "done"
      /\ UNCHANGED <<mode, store, query, pages>>
  BY DEF Assemble, Valid, Finish
<1>2. outcome'.kind = Status(Last(pages)) /\ Status(Last(pages)) \in {"complete", "unknown"}
  BY <1>1 DEF Status
<1>3. /\ AllPlaced' /\ Numbered' /\ (IsChain(pages)' <=> IsChain(pages))
      /\ Status(Last(pages))' = Status(Last(pages))
  BY <1>1, Same
<1>4. TypeOK'
  BY <1>1, <1>2, Same DEF TypeOK
<1>5. Limited' /\ Planned' /\ Judged'
  BY <1>1 DEF Inv, Limited, Planned, Judged
<1>6. Concluded'
  <2>1. pages' # <<>>
    BY <1>1 DEF Inv, Judged
  <2> QED BY <1>1, <1>2, <1>3, <2>1 DEF Concluded
<1> QED BY <1>3, <1>4, <1>5, <1>6 DEF Inv

LEMMA StopAtQuotaStep == Inv /\ StopAtQuota => Inv'
<1> SUFFICES ASSUME Inv, StopAtQuota PROVE Inv'
  OBVIOUS
<1> DEFINE quota == Last(pages).quota
<1>1. /\ pc = "validate" /\ Status(Last(pages)) = "incomplete"
      /\ Incomplete(quota)
  BY DEF StopAtQuota, Open, Valid
<1>2. Last(pages).next # None
  BY <1>1 DEF Status
<1>3. quota \in {"known", "retry", "spent"}
  <2>1. Last(pages) \in Page
    BY <1>1, ChainType DEF Inv, TypeOK, Judged
  <2> QED BY <2>1, PageType
<1> HIDE DEF quota
<1>4. quota # "parse" /\ quota # "max_records" /\ quota # "max_pages"
  BY <1>3
<1> QED BY <1>1, <1>2, <1>4, Stopped

\* The next request is behind the records that are there and within the limits.
LEMMA ContinueStep == Inv /\ Continue => Inv'
<1> SUFFICES ASSUME Inv, Continue PROVE Inv'
  OBVIOUS
<1>1. /\ pc = "validate" /\ IsChain(pages) /\ ~ BeyondRecords
      /\ Status(Last(pages)) = "incomplete" /\ Last(pages).quota = "known"
      /\ query' = [pos |-> Last(pages).next, size |-> NextSize]
      /\ pc' = "guard" /\ UNCHANGED <<mode, store, pages, outcome>>
  BY DEF Continue, Open, Valid
<1>2. /\ pages # <<>> /\ pages \in Seq(Page) /\ Count(pages) \in Nat /\ mode \in Modes
      /\ query.size \in 1 .. MaxRecords
      /\ 1 \in 1 .. Len(pages) /\ Len(pages) \in 1 .. Len(pages)
      /\ pages[1] \in Page /\ Last(pages) \in Page /\ Last(pages) = pages[Len(pages)]
      /\ DOMAIN pages = 1 .. Len(pages)
  BY <1>1, ChainType DEF Inv, TypeOK, Judged
<1>3. Last(pages).next # None /\ Last(pages).next \in Nat
  BY <1>1, <1>2, PageType DEF Status
<1>4. mode = "offset" =>
        /\ pages[1].total \in Nat /\ pages[1].total <= MaxRecords
        /\ Count(pages) < pages[1].total
  <2>1. SUFFICES ASSUME mode = "offset"
                 PROVE  /\ pages[1].total \in Nat /\ pages[1].total <= MaxRecords
                        /\ Count(pages) < pages[1].total
    OBVIOUS
  <2>2. /\ Placed(pages[1], Before(pages, 1))
        /\ Placed(Last(pages), Before(pages, Len(pages)))
    BY <1>2 DEF Inv, AllPlaced
  <2>3. Last(pages).total = pages[1].total
    BY <1>1, <1>2, Links DEF Link
  <2>4. Before(pages, Len(pages)) + Len(Last(pages).ids) = Count(pages)
    BY <1>2, Ending
  <2>5. pages[1].total \in Nat
    BY <2>1, <2>2 DEF Placed
  <2>6. Count(pages) < pages[1].total
    BY <1>3, <2>1, <2>2, <2>3, <2>4 DEF Placed
  <2> QED BY <1>1, <1>2, <2>1, <2>5, <2>6, Limits DEF BeyondRecords
<1>5. /\ NextSize \in 1 .. MaxRecords
      /\ mode = "cursor" => NextSize = query.size
      /\ mode = "offset" => /\ NextSize = Least(pages[1].size, pages[1].total - Count(pages))
                            /\ Count(pages) + NextSize <= MaxRecords
  <2>1. CASE mode = "cursor"
    BY <1>2, <2>1 DEF NextSize
  <2>2. CASE mode = "offset"
    <3> DEFINE rest == pages[1].total - Count(pages)
               left == MaxRecords - Count(pages)
    <3>1. /\ rest \in Nat \ {0} /\ left \in Nat \ {0} /\ rest <= left
          /\ pages[1].size \in Nat \ {0}
      BY <1>2, <1>4, <2>2, PageType, Limits
    <3>2. Least(left, rest) = rest
      BY <3>1 DEF Least
    <3>3. NextSize = Least(pages[1].size, rest)
      <4>1. NextSize = Least(pages[1].size, Least(left, rest))
        BY <2>2 DEF NextSize, Count
      <4> QED BY <3>2, <4>1
    <3>4. NextSize \in Nat \ {0} /\ NextSize <= left
      <4> HIDE DEF rest, left
      <4> QED BY <3>1, <3>3 DEF Least
    <3> QED BY <1>2, <2>2, <3>1, <3>3, <3>4, Limits
  <2> QED BY <1>2, <2>1, <2>2 DEF Modes
<1>6. query'.pos = Last(pages).next /\ query'.size = NextSize
  BY <1>1
<1>7. TypeOK'
  <2>1. query' \in [pos : Nat \cup {None}, size : 1 .. MaxRecords]
    BY <1>1, <1>3, <1>5
  <2>2. pages' \in Seq(Page')
    BY <1>1, <1>2, SameChain
  <2> QED BY <1>1, <2>1, <2>2 DEF Inv, TypeOK
<1>8. AllPlaced'
  <2>1. ASSUME NEW i \in 1 .. Len(pages), Placed(pages[i], Before(pages, i))
        PROVE  Placed(pages[i], Before(pages, i))'
    BY <1>1, <1>5, <1>6, <2>1 DEF Placed
  <2> QED BY <1>1, <2>1 DEF Inv, AllPlaced
<1>9. Numbered'
  BY <1>1 DEF Inv, Numbered
<1>10. Limited'
  BY <1>1, <1>5, <1>6 DEF Inv, Limited
<1>11. Planned'
  BY <1>1, <1>2, <1>3, <1>4, <1>5, <1>6, SameChain DEF Planned
<1>12. Judged' /\ Concluded'
  BY <1>1 DEF Inv, Judged, Concluded, TypeOK
<1> QED BY <1>7, <1>8, <1>9, <1>10, <1>11, <1>12 DEF Inv

LEMMA NextInv == Inv /\ [Next]_vars => Inv'
<1> SUFFICES ASSUME Inv, [Next]_vars PROVE Inv'
  OBVIOUS
<1>1. CASE UNCHANGED vars
  <2>1. UNCHANGED <<mode, store, query, pages, pc, outcome>>
    BY <1>1 DEF vars
  <2>2. /\ AllPlaced' /\ Numbered' /\ (IsChain(pages)' <=> IsChain(pages))
        /\ Status(Last(pages))' = Status(Last(pages))
    BY <2>1, Same
  <2>3. TypeOK'
    BY <2>1, Same DEF Inv, TypeOK
  <2>4. Limited' /\ Planned' /\ Judged' /\ Concluded'
    BY <2>1, <2>2 DEF Inv, Limited, Planned, Judged, Concluded
  <2> QED BY <2>2, <2>3, <2>4 DEF Inv
<1>2. CASE Step
  BY <1>2, StopAtPagesStep, StopAtRecordsStep, StopAtBytesStep, RequestStep,
     FetchFailsStep, ReceiveStep, BreakChainStep, StopAtTotalStep, AssembleStep,
     StopAtQuotaStep, ContinueStep DEF Step
<1> QED BY <1>1, <1>2 DEF Next, Done

THEOREM Invariant == Spec => []Inv
BY InitInv, NextInv, PTL DEF Spec

-----------------------------------------------------------------------------
(* The properties.                                                         *)

\* "A terminal NVD chain must contain exactly totalResults records", "mandatory cumulative
\* limits" and a report that resumes where it stopped: what no provider can break
\* (_validate_page_sequence, _guard_before_fetch, _raise_incomplete).
THEOREM CollectionIsSound == Spec => []Sound
<1>1. Inv => TypeOK
  BY DEF Inv
<1>2. Inv => CompleteIsWhole
  <2> SUFFICES ASSUME Inv, outcome.kind = "complete"
               PROVE  /\ IsInjective(RecordsOf(pages))
                      /\ \A i \in DOMAIN pages :
                           /\ pages[i].total = Len(RecordsOf(pages))
                           /\ pages[i].pos = Len(RecordsOf(SubSeq(pages, 1, i - 1)))
    BY DEF CompleteIsWhole
  <2>1. /\ pages # <<>> /\ IsChain(pages) /\ Status(Last(pages)) = "complete"
        /\ mode = "offset"
    BY DEF Inv, Concluded, Status
  <2>2. /\ \A i \in DOMAIN pages : Link(pages, i)
        /\ NoRepeats(RecordsOf(pages)) /\ pages[1].total = Count(pages)
    BY <2>1, Links
  <2>3. IsInjective(RecordsOf(pages))
    BY <2>2 DEF NoRepeats, IsInjective
  <2>4. DOMAIN pages = 1 .. Len(pages)
    BY ChainType DEF Inv, TypeOK
  <2>5. ASSUME NEW i \in DOMAIN pages
        PROVE  pages[i].total = Count(pages) /\ pages[i].pos = Before(pages, i)
    BY <2>1, <2>2, <2>4 DEF Link, Inv, AllPlaced, Placed
  <2> QED BY <2>3, <2>5 DEF Count, Before
<1>3. Inv => WithinLimits
  <2> SUFFICES ASSUME Inv PROVE WithinLimits
    OBVIOUS
  <2>1. BytesOf(pages) \in Nat /\ DOMAIN pages = 1 .. Len(pages)
    BY ChainType DEF Inv, TypeOK
  <2>2. \A i \in DOMAIN pages : pages[i].bytes <= MaxResponseBytes
    BY <2>1 DEF Inv, AllPlaced, Placed
  <2>3. pc = "fetch" => ByteLimit > 0 /\ Len(pages) < MaxPages
    BY <2>1, Limits DEF Inv, Limited, ByteLimit, Least
  <2> QED BY <2>2, <2>3 DEF Inv, Limited, WithinLimits, Count
<1>4. Inv => ReportResumes
  BY DEF Inv, Concluded, ReportResumes, TypeOK, Modes
<1>5. Inv => Sound
  BY <1>1, <1>2, <1>3, <1>4 DEF Sound
<1> QED BY <1>5, Invariant, PTL

\* A provider that serves a fixed list is collected as a whole and in order, is never
\* accused, and is cut off only by the caller's limits: next_page_size and
\* _is_bounded_offset_resize agree for every page size and every way to cut the pages.
THEOREM HonestProviderIsServed == Spec => []HonestIsServed
<1>1. Inv => HonestIsWhole
  <2> SUFFICES ASSUME Inv, store # None, outcome.kind \in {"complete", "unknown"}
               PROVE  RecordsOf(pages) = [i \in 1 .. store |-> i]
    BY DEF HonestIsWhole
  <2>1. pages # <<>> /\ Status(Last(pages)) # "incomplete"
    BY DEF Inv, Concluded
  <2>2. Last(pages).next = None
    BY <2>1 DEF Status
  <2>3. /\ Len(pages) \in 1 .. Len(pages) /\ Last(pages) = pages[Len(pages)]
        /\ Count(pages) \in Nat
        /\ Before(pages, Len(pages)) + Len(Last(pages).ids) = Count(pages)
    BY <2>1, ChainType, Ending DEF Inv, TypeOK
  <2>4. store \in Nat
    BY CollectionAssumption DEF Inv, TypeOK
  <2>5. Last(pages).next = IF Count(pages) < store THEN Count(pages) ELSE None
    BY <2>3 DEF Inv, AllPlaced, Placed
  <2>6. Count(pages) = store
    BY <2>2, <2>3, <2>4, <2>5, Limits DEF Inv, Numbered
  <2> QED BY <2>6 DEF Inv, Numbered
<1>2. Inv => HonestIsAccepted
  <2> SUFFICES ASSUME Inv, store # None
               PROVE  /\ outcome.kind # "integrity"
                      /\ outcome.kind = "incomplete" =>
                           /\ outcome.reason # "parse"
                           /\ outcome.reason = "max_records" =>
                                IF mode = "offset" THEN store > MaxRecords
                                ELSE store + query.size > MaxRecords
                           /\ outcome.reason = "max_pages" => Len(pages) = MaxPages
    BY DEF HonestIsAccepted
  <2>1. store \in Nat /\ query.size \in Nat /\ mode \in Modes
    BY CollectionAssumption, Limits DEF Inv, TypeOK
  <2>2. store > MaxRecords => store + query.size > MaxRecords
    BY <2>1, Limits
  <2> QED BY <2>2 DEF Inv, Concluded
<1>3. Inv => HonestIsServed
  BY <1>1, <1>2 DEF HonestIsServed
<1> QED BY <1>3, Invariant, PTL

=============================================================================

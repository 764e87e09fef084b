--------------------------- MODULE RunStoreProofs ---------------------------
(***************************************************************************)
(* Proofs about RunStore, for any runs, plans, results and bounds.         *)
(***************************************************************************)
EXTENDS RunStore, FiniteSetTheorems, SequenceTheorems, WellFoundedInduction, TLAPS

-----------------------------------------------------------------------------
(* Induction over finite sets, natural numbers and sequences: what is to   *)
(* be shown is a set.                                                      *)

\* A family of subsets of a finite set has a member with no smaller one in the family.
LEMMA SmallestSubset ==
  ASSUME NEW U, IsFiniteSet(U), NEW F \in SUBSET (SUBSET U), F # {}
  PROVE  \E V \in F : \A W \in F : W \subseteq V => W = V
<1>1. F \subseteq FiniteSubsetsOf(U)
  BY FS_Subset DEF FiniteSubsetsOf
<1>2. PICK V \in F : \A W \in F : ~ (<<W, V>> \in StrictSubsetOrdering(U))
  BY <1>1, FS_StrictSubsetOrderingWellFounded, WFMin
<1>3. \A W \in F : W \subseteq V => W = V
  BY <1>2 DEF StrictSubsetOrdering
<1> QED BY <1>3

LEMMA SubsetsInduct ==
  ASSUME NEW U, IsFiniteSet(U), NEW P, {} \in P,
         \A V \in SUBSET U : \A x \in U \ V : V \in P => V \cup {x} \in P
  PROVE  \A V \in SUBSET U : V \in P
<1> DEFINE F == {V \in SUBSET U : V \notin P}
<1>1. SUFFICES ASSUME F # {} PROVE FALSE
  OBVIOUS
<1>2. PICK V \in F : \A W \in F : W \subseteq V => W = V
  <2>1. F \in SUBSET (SUBSET U)
    OBVIOUS
  <2> HIDE DEF F
  <2> QED BY <1>1, <2>1, SmallestSubset
<1>3. PICK x \in V : TRUE
  OBVIOUS
<1>4. V \ {x} \in P /\ (V \ {x}) \cup {x} = V
  BY <1>2, <1>3
<1> QED BY <1>3, <1>4

LEMMA LeastNatural ==
  ASSUME NEW S \in SUBSET Nat, S # {}
  PROVE  Min(S) \in S /\ \A n \in S : Min(S) <= n
<1>1. PICK k \in S : TRUE
  OBVIOUS
<1> DEFINE I(n) == 0 .. n
           F == {I(n) : n \in {m \in S : m <= k}}
<1>2. F # {} /\ F \in SUBSET (SUBSET (0 .. k)) /\ IsFiniteSet(0 .. k)
  <2>1. k \in Nat /\ IsFiniteSet(0 .. k)
    BY <1>1, FS_Interval
  <2>2. 0 .. k \in F
    BY <1>1, <2>1
  <2>3. ASSUME NEW n \in S, n <= k PROVE 0 .. n \in SUBSET (0 .. k)
    <3>1. n \in Nat
      OBVIOUS
    <3> QED BY <2>1, <2>3, <3>1
  <2>4. ASSUME NEW V \in F PROVE V \in SUBSET (0 .. k)
    <3> HIDE DEF I
    <3>1. PICK n \in S : n <= k /\ V = I(n)
      OBVIOUS
    <3>2. I(n) \in SUBSET (0 .. k)
      BY <2>3, <3>1 DEF I
    <3> QED BY <3>1, <3>2
  <2> HIDE DEF F
  <2> QED BY <2>1, <2>2, <2>4
<1>3. PICK V \in F : \A W \in F : W \subseteq V => W = V
  <2> DEFINE U == 0 .. k
  <2>1. IsFiniteSet(U) /\ F \in SUBSET (SUBSET U) /\ F # {}
    BY <1>2
  <2> HIDE DEF F, U
  <2> QED BY <2>1, SmallestSubset
<1>4. PICK m \in S : m <= k /\ V = 0 .. m
  BY <1>3
<1>5. ASSUME NEW n \in S, n < m PROVE FALSE
  <2>1. 0 .. n \in F /\ 0 .. n \subseteq 0 .. m /\ m \notin 0 .. n /\ m \in 0 .. m
    BY <1>4, <1>5
  <2> QED BY <2>1, <1>3, <1>4
<1>6. \A n \in S : m <= n
  BY <1>5
<1> QED BY <1>4, <1>6 DEF Min

LEMMA NaturalsInduct ==
  ASSUME NEW S, 0 \in S, \A n \in Nat : n \in S => n + 1 \in S
  PROVE  \A n \in Nat : n \in S
<1> DEFINE T == Nat \ S
<1>1. SUFFICES ASSUME T # {} PROVE FALSE
  OBVIOUS
<1>2. Min(T) \in T /\ \A n \in T : Min(T) <= n
  <2>1. T \in SUBSET Nat
    OBVIOUS
  <2> HIDE DEF T
  <2> QED BY <1>1, <2>1, LeastNatural
<1>3. PICK m \in T : \A n \in T : m <= n
  BY <1>2
<1>4. m # 0 /\ m - 1 \in Nat /\ m - 1 \notin T
  BY <1>3
<1> QED BY <1>3, <1>4

LEMMA SequencesInduct ==
  ASSUME NEW S, NEW P, <<>> \in P,
         \A q \in Seq(S), e \in S : q \in P => Append(q, e) \in P
  PROVE  \A q \in Seq(S) : q \in P
<1> DEFINE N == {n \in Nat : \A q \in Seq(S) : Len(q) = n => q \in P}
<1>1. 0 \in N
  BY EmptySeq
<1>2. ASSUME NEW n \in Nat, n \in N PROVE n + 1 \in N
  <2>1. ASSUME NEW q \in Seq(S), Len(q) = n + 1 PROVE q \in P
    <3>1. q # <<>>
      BY <2>1
    <3>2. PICK r \in Seq(S), e \in S : q = Append(r, e)
      BY <3>1, SequenceEmptyOrAppend
    <3>3. Len(r) = n
      BY <2>1, <3>2
    <3> QED BY <1>2, <3>2, <3>3
  <2> QED BY <2>1
<1>3. \A n \in Nat : n \in N
  <2> HIDE DEF N
  <2> QED BY <1>1, <1>2, NaturalsInduct
<1> QED BY <1>3

-----------------------------------------------------------------------------
(* Sums.                                                                   *)

Summed(f, S, iter) ==
  iter = [s \in SUBSET S |->
           IF s = {} THEN 0
           ELSE LET x == CHOOSE x \in s : TRUE IN f[x] + iter[s \ {x}]]

LEMMA SumIter ==
  ASSUME NEW f, NEW S, \E iter : Summed(f, S, iter)
  PROVE  \E iter : Summed(f, S, iter) /\ SumFunctionOnSet(f, S) = iter[S]
<1> DEFINE it == CHOOSE iter : Summed(f, S, iter)
<1>1. Summed(f, S, it)
  OBVIOUS
<1>2. SumFunctionOnSet(f, S) = it[S]
  BY DEF SumFunctionOnSet, FoldFunctionOnSet, MapThenFoldSet, Summed
<1> QED BY <1>1, <1>2

\* Two iterations agree on what both are defined for.
LEMMA SummedAgree ==
  ASSUME NEW f, NEW S, IsFiniteSet(S), NEW a, Summed(f, S, a),
         NEW T \in SUBSET S, NEW b, Summed(f, T, b), NEW t \in SUBSET T
  PROVE  a[t] = b[t]
<1> DEFINE F == {s \in SUBSET T : a[s] # b[s]}
<1>1. SUFFICES ASSUME F # {} PROVE FALSE
  OBVIOUS
<1>2. F \in SUBSET (SUBSET S)
  OBVIOUS
<1>3. PICK V \in F : \A W \in F : W \subseteq V => W = V
  <2> HIDE DEF F
  <2> QED BY <1>1, <1>2, SmallestSubset
<1>4. V \in SUBSET S /\ V \in SUBSET T /\ a[V] # b[V]
  BY <1>3
<1>5. V # {}
  BY <1>4 DEF Summed
<1> DEFINE x == CHOOSE x \in V : TRUE
<1>6. x \in V
  BY <1>5
<1>7. a[V \ {x}] = b[V \ {x}]
  <2>1. V \ {x} \in SUBSET T /\ V \ {x} \subseteq V /\ V \ {x} # V
    BY <1>4, <1>6
  <2> HIDE DEF x
  <2> QED BY <2>1, <1>3
<1>8. a[V] = f[x] + a[V \ {x}] /\ b[V] = f[x] + b[V \ {x}]
  BY <1>4, <1>5 DEF Summed
<1> QED BY <1>4, <1>7, <1>8

Step(f, S) == LET x == CHOOSE x \in S : TRUE IN f[x] + SumFunctionOnSet(f, S \ {x})

LEMMA SummedUnfolds ==
  ASSUME NEW f, NEW S, IsFiniteSet(S),
         \A T \in SUBSET S : \E iter : Summed(f, T, iter)
  PROVE  SumFunctionOnSet(f, S) = IF S = {} THEN 0 ELSE Step(f, S)
<1>1. PICK a : Summed(f, S, a) /\ SumFunctionOnSet(f, S) = a[S]
  BY SumIter
<1>2. CASE S = {}
  BY <1>1, <1>2 DEF Summed
<1>3. CASE S # {}
  <2> DEFINE x == CHOOSE x \in S : TRUE
  <2>1. a[S] = f[x] + a[S \ {x}]
    BY <1>1, <1>3 DEF Summed
  <2>2. PICK b : Summed(f, S \ {x}, b) /\ SumFunctionOnSet(f, S \ {x}) = b[S \ {x}]
    <3>1. S \ {x} \in SUBSET S
      OBVIOUS
    <3> HIDE DEF x
    <3> QED BY <3>1, SumIter
  <2>3. a[S \ {x}] = b[S \ {x}]
    <3> HIDE DEF x
    <3> QED BY <1>1, <2>2, SummedAgree
  <2> QED BY <1>1, <1>3, <2>1, <2>2, <2>3 DEF Step
<1> QED BY <1>2, <1>3

LEMMA SummedExists ==
  ASSUME NEW f, NEW S, IsFiniteSet(S)
  PROVE  \E iter : Summed(f, S, iter)
<1> DEFINE F == {V \in SUBSET S : ~ \E iter : Summed(f, V, iter)}
<1>1. SUFFICES ASSUME F # {} PROVE FALSE
  OBVIOUS
<1>2. F \in SUBSET (SUBSET S)
  OBVIOUS
<1>3. PICK V \in F : \A W \in F : W \subseteq V => W = V
  <2> HIDE DEF F
  <2> QED BY <1>1, <1>2, SmallestSubset
<1>4. \A W \in SUBSET V : W # V => \E iter : Summed(f, W, iter)
  BY <1>3
<1> DEFINE Value(W) == IF W = {} THEN 0 ELSE Step(f, W)
           iter == [W \in SUBSET V |-> IF W = V THEN Value(V) ELSE SumFunctionOnSet(f, W)]
<1>5. ASSUME NEW W \in SUBSET V PROVE iter[W] = Value(W)
  <2>1. CASE W = V
    BY <2>1
  <2>2. CASE W # V
    <3>1. IsFiniteSet(W)
      BY FS_Subset
    <3>2. \A T \in SUBSET W : \E it : Summed(f, T, it)
      BY <1>4, <2>2
    <3> QED BY <2>2, <3>1, <3>2, SummedUnfolds
  <2> QED BY <2>1, <2>2
<1>6. ASSUME NEW W \in SUBSET V, W # {}
      PROVE  LET x == CHOOSE x \in W : TRUE
             IN  SumFunctionOnSet(f, W \ {x}) = iter[W \ {x}]
  <2> DEFINE x == CHOOSE x \in W : TRUE
  <2>1. x \in W
    BY <1>6
  <2>2. W \ {x} \in SUBSET V /\ W \ {x} # V
    BY <2>1
  <2> HIDE DEF x
  <2>3. SumFunctionOnSet(f, W \ {x}) = iter[W \ {x}]
    BY <2>2
  <2> QED BY <2>3 DEF x
<1>7. Summed(f, V, iter)
  <2>1. iter = [W \in SUBSET V |-> iter[W]]
    OBVIOUS
  <2>2. ASSUME NEW W \in SUBSET V
        PROVE  iter[W] = IF W = {} THEN 0
                         ELSE LET x == CHOOSE x \in W : TRUE IN f[x] + iter[W \ {x}]
    <3> HIDE DEF iter
    <3> QED BY <1>5, <1>6 DEF Step
  <2> HIDE DEF iter
  <2> QED BY <2>1, <2>2 DEF Summed
<1> HIDE DEF iter
<1> QED BY <1>3, <1>7

LEMMA SumUnfolds ==
  ASSUME NEW f, NEW S, IsFiniteSet(S)
  PROVE  SumFunctionOnSet(f, S) = IF S = {} THEN 0 ELSE Step(f, S)
BY SummedExists, SummedUnfolds, FS_Subset

LEMMA SumEmpty == \A f : SumFunctionOnSet(f, {}) = 0
BY SumUnfolds, FS_EmptySet

\* A sum can be taken apart at any of its terms.
LEMMA SumRemove ==
  ASSUME NEW f, NEW S, IsFiniteSet(S), \A y \in S : f[y] \in Nat, NEW x \in S
  PROVE  /\ SumFunctionOnSet(f, S) \in Nat
         /\ SumFunctionOnSet(f, S) = f[x] + SumFunctionOnSet(f, S \ {x})
<1> DEFINE Sum(V) == SumFunctionOnSet(f, V)
           Right(V) == Sum(V) \in Nat /\ \A y \in V : Sum(V) = f[y] + Sum(V \ {y})
           F == {V \in SUBSET S : ~ Right(V)}
<1>1. SUFFICES ASSUME F # {} PROVE FALSE
  OBVIOUS
<1>2. PICK V \in F : \A W \in F : W \subseteq V => W = V
  <2>1. F \in SUBSET (SUBSET S)
    OBVIOUS
  <2> HIDE DEF F
  <2> QED BY <1>1, <2>1, SmallestSubset
<1>3. V \in SUBSET S /\ ~ Right(V) /\ \A W \in SUBSET V : W # V => Right(W)
  <2> HIDE DEF Right
  <2> QED BY <1>2
<1>4. V # {}
  <2>1. Sum({}) \in Nat
    BY SumEmpty
  <2>2. Right({})
    BY <2>1
  <2> HIDE DEF Right
  <2> QED BY <1>3, <2>2
<1>5. PICK y \in V : Sum(V) = f[y] + Sum(V \ {y})
  <2>1. IsFiniteSet(V)
    BY <1>3, FS_Subset
  <2>2. Sum(V) = Step(f, V)
    BY <1>4, <2>1, SumUnfolds
  <2>3. (CHOOSE z \in V : TRUE) \in V
    BY <1>4
  <2> QED BY <2>2, <2>3 DEF Step
<1> HIDE DEF Sum, F
<1>6. Right(V \ {y})
  <2>1. V \ {y} \in SUBSET V /\ V \ {y} # V
    BY <1>5
  <2> HIDE DEF Right
  <2> QED BY <1>3, <2>1
<1>7. f[y] \in Nat /\ Sum(V \ {y}) \in Nat /\ Sum(V) \in Nat
  BY <1>3, <1>5, <1>6
<1>8. ASSUME NEW z \in V, z # y PROVE Sum(V) = f[z] + Sum(V \ {z})
  <2>1. V \ {z} \in SUBSET V /\ V \ {z} # V
    OBVIOUS
  <2>2. Right(V \ {z})
    <3> HIDE DEF Right
    <3> QED BY <1>3, <2>1
  <2>3. Sum(V \ {z}) = f[y] + Sum((V \ {z}) \ {y})
    BY <1>8, <2>2
  <2>4. Sum(V \ {y}) = f[z] + Sum((V \ {y}) \ {z})
    BY <1>8, <1>6
  <2>5. (V \ {y}) \ {z} = (V \ {z}) \ {y}
    OBVIOUS
  <2>6. Right((V \ {z}) \ {y})
    <3>1. (V \ {z}) \ {y} \in SUBSET V /\ (V \ {z}) \ {y} # V
      OBVIOUS
    <3> HIDE DEF Right
    <3> QED BY <1>3, <3>1
  <2>7. f[z] \in Nat /\ Sum((V \ {z}) \ {y}) \in Nat
    BY <1>3, <2>6
  <2> DEFINE rest == Sum((V \ {z}) \ {y})
  <2>8. Sum(V) = f[y] + (f[z] + rest) /\ Sum(V \ {z}) = f[y] + rest /\ rest \in Nat
    BY <1>5, <2>3, <2>4, <2>5, <2>7
  <2> HIDE DEF rest
  <2> QED BY <1>7, <2>7, <2>8
<1> QED BY <1>3, <1>5, <1>7, <1>8

LEMMA SumType ==
  ASSUME NEW f, NEW S, IsFiniteSet(S), \A y \in S : f[y] \in Nat
  PROVE  SumFunctionOnSet(f, S) \in Nat
<1>1. CASE S = {}
  BY <1>1, SumEmpty
<1>2. ASSUME NEW x \in S PROVE SumFunctionOnSet(f, S) \in Nat
  BY SumRemove
<1> QED BY <1>1, <1>2

LEMMA SumAdd ==
  ASSUME NEW f, NEW S, IsFiniteSet(S), NEW x, x \notin S, \A y \in S \cup {x} : f[y] \in Nat
  PROVE  SumFunctionOnSet(f, S \cup {x}) = f[x] + SumFunctionOnSet(f, S)
<1>1. IsFiniteSet(S \cup {x}) /\ (S \cup {x}) \ {x} = S
  BY FS_AddElement
<1> QED BY <1>1, SumRemove

LEMMA SumSame ==
  ASSUME NEW f, NEW g, NEW S, IsFiniteSet(S),
         \A y \in S : f[y] \in Nat /\ g[y] = f[y]
  PROVE  SumFunctionOnSet(g, S) = SumFunctionOnSet(f, S)
<1> DEFINE P == {V \in SUBSET S : SumFunctionOnSet(g, V) = SumFunctionOnSet(f, V)}
<1>1. {} \in P
  BY SumEmpty
<1>2. ASSUME NEW V \in SUBSET S, NEW x \in S \ V, V \in P PROVE V \cup {x} \in P
  <2>1. IsFiniteSet(V)
    BY FS_Subset
  <2>2. SumFunctionOnSet(f, V \cup {x}) = f[x] + SumFunctionOnSet(f, V)
    BY <2>1, SumAdd
  <2>3. SumFunctionOnSet(g, V \cup {x}) = g[x] + SumFunctionOnSet(g, V)
    BY <2>1, SumAdd
  <2> QED BY <1>2, <2>2, <2>3
<1>3. \A V \in SUBSET S : V \in P
  <2> HIDE DEF P
  <2> QED BY <1>1, <1>2, SubsetsInduct
<1> QED BY <1>3

LEMMA SumSplit ==
  ASSUME NEW f, NEW S, IsFiniteSet(S), \A y \in S : f[y] \in Nat, NEW T \in SUBSET S
  PROVE  /\ SumFunctionOnSet(f, S) \in Nat
         /\ SumFunctionOnSet(f, T) \in Nat
         /\ SumFunctionOnSet(f, S \ T) \in Nat
         /\ SumFunctionOnSet(f, S) = SumFunctionOnSet(f, T) + SumFunctionOnSet(f, S \ T)
<1> DEFINE Sum(V) == SumFunctionOnSet(f, V)
           P == {V \in SUBSET S : Sum(S) = Sum(V) + Sum(S \ V)}
<1>1. \A V \in SUBSET S : Sum(V) \in Nat /\ IsFiniteSet(V)
  BY SumType, FS_Subset
<1>2. {} \in P
  <2>1. Sum({}) = 0 /\ S \ {} = S /\ Sum(S) \in Nat
    BY <1>1, SumEmpty
  <2> QED BY <2>1
<1>3. ASSUME NEW V \in SUBSET S, NEW x \in S \ V, V \in P PROVE V \cup {x} \in P
  <2>1. Sum(V \cup {x}) = f[x] + Sum(V)
    BY <1>1, SumAdd
  <2>2. Sum(S \ V) = f[x] + Sum((S \ V) \ {x})
    BY <1>1, SumRemove
  <2> DEFINE rest == S \ (V \cup {x})
  <2>3. (S \ V) \ {x} = rest /\ rest \in SUBSET S /\ V \cup {x} \in SUBSET S
    OBVIOUS
  <2>4. f[x] \in Nat /\ Sum(V) \in Nat /\ Sum(rest) \in Nat
    BY <1>1, <2>3
  <2>5. Sum(S) = Sum(V) + Sum(S \ V) /\ Sum(S \ V) = f[x] + Sum(rest)
    BY <1>3, <2>2, <2>3
  <2> HIDE DEF Sum, rest
  <2>6. Sum(S) = Sum(V \cup {x}) + Sum(rest)
    BY <2>1, <2>4, <2>5
  <2> QED BY <2>3, <2>6 DEF rest
<1>4. \A V \in SUBSET S : V \in P
  <2> HIDE DEF P
  <2> QED BY <1>2, <1>3, SubsetsInduct
<1> QED BY <1>1, <1>4

-----------------------------------------------------------------------------
(* Drop.                                                                   *)

Filtered(seq, gone, n, f) ==
  f = [i \in 0 .. n |->
        IF i = 0 THEN <<>>
        ELSE IF seq[i] \in gone THEN f[i - 1]
        ELSE Append(f[i - 1], seq[i])]

LEMMA FilteredExists ==
  ASSUME NEW seq, NEW gone
  PROVE  \A n \in Nat : \E f : Filtered(seq, gone, n, f)
<1> DEFINE S == {n \in Nat : \E f : Filtered(seq, gone, n, f)}
<1>1. 0 \in S
  <2>1. Filtered(seq, gone, 0, [i \in 0 .. 0 |-> <<>>])
    BY DEF Filtered
  <2> QED BY <2>1
<1>2. ASSUME NEW n \in Nat, n \in S PROVE n + 1 \in S
  <2>1. PICK f : Filtered(seq, gone, n, f)
    BY <1>2
  <2> DEFINE e == IF seq[n + 1] \in gone THEN f[n] ELSE Append(f[n], seq[n + 1])
             g == [i \in 0 .. (n + 1) |-> IF i = n + 1 THEN e ELSE f[i]]
  <2>2. \A i \in 0 .. n : f[i] = IF i = 0 THEN <<>>
                                 ELSE IF seq[i] \in gone THEN f[i - 1]
                                 ELSE Append(f[i - 1], seq[i])
    BY <2>1 DEF Filtered
  <2> HIDE DEF e
  <2>3. \A i \in 0 .. (n + 1) : g[i] = IF i = n + 1 THEN e ELSE f[i]
    OBVIOUS
  <2>4. \A i \in 0 .. (n + 1) : i # 0 => i - 1 \in 0 .. n /\ g[i - 1] = f[i - 1]
    BY <2>3
  <2>5. ASSUME NEW i \in 0 .. (n + 1)
        PROVE  g[i] = IF i = 0 THEN <<>>
                      ELSE IF seq[i] \in gone THEN g[i - 1]
                      ELSE Append(g[i - 1], seq[i])
     <3> HIDE DEF g
     <3>1. CASE i = n + 1
       BY <3>1, <2>3, <2>4 DEF e
     <3>2. CASE i # n + 1
       BY <3>2, <2>3, <2>4, <2>2
     <3> QED BY <3>1, <3>2
  <2>6. Filtered(seq, gone, n + 1, g)
    <3>1. g = [i \in 0 .. (n + 1) |-> g[i]]
      OBVIOUS
    <3> HIDE DEF g
    <3> QED BY <2>5, <3>1 DEF Filtered
  <2> QED BY <2>6
<1> HIDE DEF S
<1>3. \A n \in Nat : n \in S
  BY <1>1, <1>2, NaturalsInduct
<1> QED BY <1>3 DEF S

LEMMA DropFiltered ==
  ASSUME NEW seq, NEW gone, Len(seq) \in Nat
  PROVE  \E f : Filtered(seq, gone, Len(seq), f) /\ Drop(seq, gone) = f[Len(seq)]
<1> DEFINE kept == CHOOSE f : Filtered(seq, gone, Len(seq), f)
<1>1. Filtered(seq, gone, Len(seq), kept)
  BY FilteredExists
<1>2. Drop(seq, gone) = kept[Len(seq)]
  BY DEF Drop, Filtered
<1> QED BY <1>1, <1>2

LEMMA DropEmpty == ASSUME NEW gone PROVE Drop(<<>>, gone) = <<>>
<1>1. PICK f : Filtered(<<>>, gone, 0, f) /\ Drop(<<>>, gone) = f[0]
  <2>1. Len(<<>>) = 0
    OBVIOUS
  <2> QED BY <2>1, DropFiltered
<1> QED BY <1>1 DEF Filtered

LEMMA DropAppend ==
  ASSUME NEW T, NEW q \in Seq(T), NEW e \in T, NEW gone
  PROVE  Drop(Append(q, e), gone)
           = IF e \in gone THEN Drop(q, gone) ELSE Append(Drop(q, gone), e)
<1> DEFINE p == Append(q, e)
           n == Len(q)
<1>1. n \in Nat /\ Len(p) = n + 1 /\ p[n + 1] = e /\ \A i \in 1 .. n : p[i] = q[i]
  BY AppendProperties
<1> HIDE DEF p, n
<1>2. PICK a : Filtered(p, gone, n + 1, a) /\ Drop(p, gone) = a[n + 1]
  <2>1. Len(p) \in Nat
    BY <1>1
  <2>2. \E f : Filtered(p, gone, Len(p), f) /\ Drop(p, gone) = f[Len(p)]
    BY <2>1, DropFiltered
  <2> QED BY <1>1, <2>2
<1>3. PICK b : Filtered(q, gone, n, b) /\ Drop(q, gone) = b[n]
  BY <1>1, DropFiltered DEF n
<1>4. \A i \in 0 .. (n + 1) : a[i] = IF i = 0 THEN <<>>
                                     ELSE IF p[i] \in gone THEN a[i - 1]
                                     ELSE Append(a[i - 1], p[i])
  BY <1>2 DEF Filtered
<1>5. \A i \in 0 .. n : b[i] = IF i = 0 THEN <<>>
                               ELSE IF q[i] \in gone THEN b[i - 1]
                               ELSE Append(b[i - 1], q[i])
  BY <1>3 DEF Filtered
<1> DEFINE S == {i \in Nat : i <= n => a[i] = b[i]}
<1>6. 0 \in S
  BY <1>1, <1>4, <1>5
<1>7. ASSUME NEW i \in Nat, i \in S PROVE i + 1 \in S
  <2>1. SUFFICES ASSUME i + 1 <= n PROVE a[i + 1] = b[i + 1]
    OBVIOUS
  <2>2. /\ i + 1 \in 0 .. (n + 1) /\ i + 1 \in 0 .. n /\ i + 1 \in 1 .. n
        /\ i + 1 # 0 /\ (i + 1) - 1 = i
    BY <1>1, <2>1
  <2>3. a[i] = b[i]
    BY <1>1, <1>7, <2>1
  <2>4. a[i + 1] = IF p[i + 1] \in gone THEN a[i] ELSE Append(a[i], p[i + 1])
    BY <1>4, <2>2
  <2>5. b[i + 1] = IF q[i + 1] \in gone THEN b[i] ELSE Append(b[i], q[i + 1])
    BY <1>5, <2>2
  <2> QED BY <1>1, <2>2, <2>3, <2>4, <2>5
<1>8. \A i \in Nat : i \in S
  <2> HIDE DEF S
  <2> QED BY <1>6, <1>7, NaturalsInduct
<1>9. a[n] = b[n]
  BY <1>1, <1>8
<1>10. a[n + 1] = IF e \in gone THEN a[n] ELSE Append(a[n], e)
  <2>1. n + 1 \in 0 .. (n + 1) /\ n + 1 # 0 /\ (n + 1) - 1 = n
    BY <1>1
  <2> QED BY <1>1, <1>4, <2>1
<1> QED BY <1>2, <1>3, <1>9, <1>10 DEF p

LEMMA ToSetEmpty == ToSet(<<>>) = {} /\ IsInjective(<<>>)
BY DEF ToSet, IsInjective

LEMMA ToSetAppend ==
  ASSUME NEW T, NEW q \in Seq(T), NEW e \in T
  PROVE  /\ ToSet(Append(q, e)) = ToSet(q) \cup {e}
         /\ ToSet(q) \subseteq T
         /\ IsInjective(Append(q, e)) <=> IsInjective(q) /\ e \notin ToSet(q)
<1> DEFINE p == Append(q, e)
           n == Len(q)
<1>1. /\ n \in Nat /\ p[n + 1] = e /\ \A i \in 1 .. n : p[i] = q[i] /\ q[i] \in T
      /\ DOMAIN p = 1 .. (n + 1) /\ DOMAIN q = 1 .. n
  BY AppendProperties, LenProperties
<1> HIDE DEF p, n
<1>2. \A i \in 1 .. (n + 1) : i \in 1 .. n \/ i = n + 1
  BY <1>1
<1>3. 1 .. n \subseteq 1 .. (n + 1) /\ n + 1 \in 1 .. (n + 1) /\ n + 1 \notin 1 .. n
  BY <1>1
<1>4. ToSet(p) = ToSet(q) \cup {e} /\ ToSet(q) \subseteq T
  BY <1>1, <1>2, <1>3 DEF ToSet
<1>5. IsInjective(p) => IsInjective(q) /\ e \notin ToSet(q)
  BY <1>1, <1>2, <1>3 DEF ToSet, IsInjective
<1>6. IsInjective(q) /\ e \notin ToSet(q) => IsInjective(p)
  BY <1>1, <1>2, <1>3 DEF ToSet, IsInjective
<1> QED BY <1>4, <1>5, <1>6 DEF p

LEMMA DropType ==
  ASSUME NEW T, NEW q \in Seq(T), NEW gone
  PROVE  /\ Drop(q, gone) \in Seq(T)
         /\ Len(Drop(q, gone)) <= Len(q)
         /\ ToSet(Drop(q, gone)) = ToSet(q) \ gone
         /\ IsInjective(q) => IsInjective(Drop(q, gone))
<1> DEFINE Right(r) == /\ Drop(r, gone) \in Seq(T)
                       /\ Len(Drop(r, gone)) <= Len(r)
                       /\ ToSet(Drop(r, gone)) = ToSet(r) \ gone
                       /\ IsInjective(r) => IsInjective(Drop(r, gone))
           P == {r \in Seq(T) : Right(r)}
<1>1. <<>> \in P
  <2>1. Drop(<<>>, gone) = <<>> /\ <<>> \in Seq(T) /\ Len(<<>>) = 0
    BY DropEmpty, EmptySeq
  <2>2. ToSet(<<>>) = ToSet(<<>>) \ gone
    BY ToSetEmpty
  <2>3. Right(<<>>)
    <3>1. Len(Drop(<<>>, gone)) <= Len(<<>>)
      BY <2>1
    <3> QED BY <2>1, <2>2, <3>1, Zenon
  <2> QED BY <2>1, <2>3
<1>2. ASSUME NEW r \in Seq(T), NEW e \in T, r \in P PROVE Append(r, e) \in P
  <2>1. Append(r, e) \in Seq(T) /\ Len(Append(r, e)) = Len(r) + 1 /\ Len(r) \in Nat
    BY AppendProperties
  <2>2. Right(r)
    BY <1>2
  <2>3. CASE e \in gone
    BY <2>1, <2>2, <2>3, DropAppend, ToSetAppend
  <2>4. CASE e \notin gone
    <3> DEFINE d == Drop(r, gone)
    <3>1. /\ d \in Seq(T) /\ Append(d, e) \in Seq(T)
          /\ Len(Append(d, e)) = Len(d) + 1 /\ Len(d) \in Nat
      BY <2>2, AppendProperties
    <3>2. Drop(Append(r, e), gone) = Append(d, e)
      BY <2>4, DropAppend
    <3> HIDE DEF d
    <3>3. /\ ToSet(Append(d, e)) = ToSet(d) \cup {e}
          /\ IsInjective(Append(d, e)) <=> IsInjective(d) /\ e \notin ToSet(d)
      BY <3>1, ToSetAppend
    <3>4. /\ ToSet(Append(r, e)) = ToSet(r) \cup {e}
          /\ IsInjective(Append(r, e)) <=> IsInjective(r) /\ e \notin ToSet(r)
      BY ToSetAppend
    <3>5. /\ Len(d) <= Len(r) /\ ToSet(d) = ToSet(r) \ gone
          /\ IsInjective(r) => IsInjective(d)
      BY <2>2 DEF d
    <3>6. Right(Append(r, e))
      BY <2>1, <2>4, <3>1, <3>2, <3>3, <3>4, <3>5
    <3> QED BY <2>1, <3>6
  <2> QED BY <2>3, <2>4
<1>3. \A r \in Seq(T) : r \in P
  <2> HIDE DEF P
  <2> QED BY <1>1, <1>2, SequencesInduct
<1> QED BY <1>3

LEMMA DropDrop ==
  ASSUME NEW T, NEW q \in Seq(T), NEW S, NEW U
  PROVE  Drop(Drop(q, S), U) = Drop(q, S \cup U)
<1> DEFINE P == {r \in Seq(T) : Drop(Drop(r, S), U) = Drop(r, S \cup U)}
<1>1. <<>> \in P
  BY DropEmpty, EmptySeq
<1>2. ASSUME NEW r \in Seq(T), NEW e \in T, r \in P PROVE Append(r, e) \in P
  <2>1. Append(r, e) \in Seq(T) /\ Drop(r, S) \in Seq(T)
    BY AppendProperties, DropType
  <2>2. Drop(Append(r, e), S) = IF e \in S THEN Drop(r, S) ELSE Append(Drop(r, S), e)
    BY DropAppend
  <2>3. Drop(Append(r, e), S \cup U)
          = IF e \in S \cup U THEN Drop(r, S \cup U) ELSE Append(Drop(r, S \cup U), e)
    BY DropAppend
  <2>4. Drop(Append(Drop(r, S), e), U)
          = IF e \in U THEN Drop(Drop(r, S), U) ELSE Append(Drop(Drop(r, S), U), e)
    BY <2>1, DropAppend
  <2> QED BY <1>2, <2>1, <2>2, <2>3, <2>4
<1>3. \A r \in Seq(T) : r \in P
  <2> HIDE DEF P
  <2> QED BY <1>1, <1>2, SequencesInduct
<1> QED BY <1>3

LEMMA DropSame ==
  ASSUME NEW T, NEW q \in Seq(T), NEW S, NEW U,
         \A x \in ToSet(q) : x \in S <=> x \in U
  PROVE  Drop(q, S) = Drop(q, U)
<1> DEFINE P == {r \in Seq(T) : (\A x \in ToSet(r) : x \in S <=> x \in U)
                                  => Drop(r, S) = Drop(r, U)}
<1>1. <<>> \in P
  BY DropEmpty, EmptySeq
<1>2. ASSUME NEW r \in Seq(T), NEW e \in T, r \in P PROVE Append(r, e) \in P
  <2>1. Append(r, e) \in Seq(T) /\ ToSet(Append(r, e)) = ToSet(r) \cup {e}
    BY AppendProperties, ToSetAppend
  <2>2. Drop(Append(r, e), S) = IF e \in S THEN Drop(r, S) ELSE Append(Drop(r, S), e)
    BY DropAppend
  <2>3. Drop(Append(r, e), U) = IF e \in U THEN Drop(r, U) ELSE Append(Drop(r, U), e)
    BY DropAppend
  <2> QED BY <1>2, <2>1, <2>2, <2>3
<1>3. \A r \in Seq(T) : r \in P
  <2> HIDE DEF P
  <2> QED BY <1>1, <1>2, SequencesInduct
<1> QED BY <1>3

LEMMA DropNone ==
  ASSUME NEW T, NEW q \in Seq(T), NEW gone, ToSet(q) \cap gone = {}
  PROVE  Drop(q, gone) = q
<1> DEFINE P == {r \in Seq(T) : ToSet(r) \cap gone = {} => Drop(r, gone) = r}
<1>1. <<>> \in P
  BY DropEmpty, EmptySeq
<1>2. ASSUME NEW r \in Seq(T), NEW e \in T, r \in P PROVE Append(r, e) \in P
  <2>1. Append(r, e) \in Seq(T) /\ ToSet(Append(r, e)) = ToSet(r) \cup {e}
    BY AppendProperties, ToSetAppend
  <2>2. Drop(Append(r, e), gone)
          = IF e \in gone THEN Drop(r, gone) ELSE Append(Drop(r, gone), e)
    BY DropAppend
  <2> QED BY <1>2, <2>1, <2>2
<1>3. \A r \in Seq(T) : r \in P
  <2> HIDE DEF P
  <2> QED BY <1>1, <1>2, SequencesInduct
<1> QED BY <1>3

LEMMA DropAll ==
  ASSUME NEW T, NEW q \in Seq(T), NEW gone, ToSet(q) \subseteq gone
  PROVE  Drop(q, gone) = <<>>
<1>1. Drop(q, gone) \in Seq(T) /\ ToSet(Drop(q, gone)) = {}
  BY DropType
<1> DEFINE d == Drop(q, gone)
<1>2. Len(d) \in Nat /\ (Len(d) # 0 => d[1] \in ToSet(d))
  BY <1>1, LenProperties DEF ToSet
<1> QED BY <1>1, <1>2, EmptySeq

LEMMA SubSeqElements ==
  ASSUME NEW T, NEW q \in Seq(T), NEW j \in 0 .. Len(q)
  PROVE  /\ SubSeq(q, 1, j) \in Seq(T) /\ Len(SubSeq(q, 1, j)) = j
         /\ \A i \in 1 .. j : SubSeq(q, 1, j)[i] = q[i]
         /\ ToSet(SubSeq(q, 1, j)) = {q[i] : i \in 1 .. j}
         /\ ToSet(SubSeq(q, 1, j)) \subseteq ToSet(q)
<1> DEFINE n == Len(q)
           p == SubSeq(q, 1, j)
<1>1. n \in Nat /\ DOMAIN q = 1 .. n /\ j \in Nat /\ j <= n /\ \A i \in 1 .. n : q[i] \in T
  BY LenProperties
<1>2. \A i \in 1 .. j : i \in 1 .. n
  BY <1>1
<1>3. /\ p \in Seq(T) /\ Len(p) = IF 1 <= j THEN j - 1 + 1 ELSE 0
      /\ \A i \in 1 .. j - 1 + 1 : p[i] = q[1 + i - 1]
  <2>1. 1 \in Int /\ j \in Int /\ \A i \in 1 .. j : q[i] \in T
    BY <1>1, <1>2
  <2> QED BY <2>1, SubSeqProperties
<1> HIDE DEF p, n
<1>4. Len(p) = j /\ \A i \in 1 .. j : p[i] = q[i]
  <2>1. (1 <= j \/ j = 0) /\ j - 1 + 1 = j
    BY <1>1
  <2>2. Len(p) = j
    BY <1>1, <1>3, <2>1
  <2>3. \A i \in 1 .. j : 1 + i - 1 = i
    BY <1>1
  <2> QED BY <1>3, <2>1, <2>2, <2>3
<1>5. DOMAIN p = 1 .. j
  BY <1>3, <1>4, LenProperties
<1>6. ToSet(p) = {q[i] : i \in 1 .. j}
  BY <1>4, <1>5 DEF ToSet
<1>7. ToSet(p) \subseteq ToSet(q)
  BY <1>1, <1>2, <1>6 DEF ToSet
<1> QED BY <1>3, <1>4, <1>6, <1>7 DEF p

LEMMA SubSeqRest ==
  ASSUME NEW T, NEW q \in Seq(T), NEW j \in 0 .. Len(q)
  PROVE  /\ SubSeq(q, j + 1, Len(q)) \in Seq(T)
         /\ Len(SubSeq(q, j + 1, Len(q))) = Len(q) - j
         /\ \A i \in 1 .. (Len(q) - j) : SubSeq(q, j + 1, Len(q))[i] = q[j + i]
<1> DEFINE n == Len(q)
           p == SubSeq(q, j + 1, n)
<1>1. n \in Nat /\ j \in Nat /\ j <= n /\ \A i \in 1 .. n : q[i] \in T
  BY LenProperties
<1>2. /\ p \in Seq(T) /\ Len(p) = IF j + 1 <= n THEN n - (j + 1) + 1 ELSE 0
      /\ \A i \in 1 .. n - (j + 1) + 1 : p[i] = q[(j + 1) + i - 1]
  <2>1. j + 1 \in Int /\ n \in Int /\ \A i \in (j + 1) .. n : q[i] \in T
    BY <1>1
  <2> QED BY <2>1, SubSeqProperties
<1> HIDE DEF p, n
<1>3. Len(p) = n - j
  BY <1>1, <1>2
<1>4. \A i \in 1 .. (n - j) : p[i] = q[j + i]
  <2>1. n - (j + 1) + 1 = n - j /\ \A i \in 1 .. (n - j) : (j + 1) + i - 1 = j + i
    BY <1>1
  <2> QED BY <1>2, <2>1
<1> QED BY <1>2, <1>3, <1>4 DEF p, n

\* Without what is at its front, a sequence is its rest.
LEMMA DropPrefix ==
  ASSUME NEW T, NEW q \in Seq(T), IsInjective(q), NEW k \in 0 .. Len(q)
  PROVE  Drop(q, ToSet(SubSeq(q, 1, k))) = SubSeq(q, k + 1, Len(q))
<1> DEFINE P == {r \in Seq(T) : IsInjective(r) =>
                   \A j \in 0 .. Len(r) :
                     Drop(r, ToSet(SubSeq(r, 1, j))) = SubSeq(r, j + 1, Len(r))}
<1>1. <<>> \in P
  <2>1. ASSUME NEW j \in 0 .. 0 PROVE SubSeq(<<>>, j + 1, 0) = <<>>
    BY <2>1, SubSeqEmpty
  <2> QED BY <2>1, DropEmpty, EmptySeq
<1>2. ASSUME NEW r \in Seq(T), NEW e \in T, r \in P PROVE Append(r, e) \in P
  <2> DEFINE p == Append(r, e)
             n == Len(r)
  <2>1. /\ n \in Nat /\ p \in Seq(T) /\ Len(p) = n + 1 /\ p[n + 1] = e
        /\ \A i \in 1 .. n : p[i] = r[i]
    BY AppendProperties
  <2>2. SUFFICES ASSUME IsInjective(p), NEW j \in 0 .. (n + 1)
                 PROVE  Drop(p, ToSet(SubSeq(p, 1, j))) = SubSeq(p, j + 1, n + 1)
    BY <2>1
  <2>3. IsInjective(r) /\ e \notin ToSet(r)
    BY <2>2, ToSetAppend
  <2>4. CASE j = n + 1
    <3>1. SubSeq(p, 1, j) = p
      BY <2>1, <2>4, SubSeqFull
    <3>2. SubSeq(p, j + 1, n + 1) = <<>>
      BY <2>1, <2>4, SubSeqEmpty
    <3>3. Drop(p, ToSet(p)) = <<>>
      <4> HIDE DEF p
      <4> QED BY <2>1, DropAll
    <3> QED BY <3>1, <3>2, <3>3
  <2>5. CASE j # n + 1
    <3>1. j \in 0 .. n /\ j \in Nat
      BY <2>1, <2>5
    <3>2. SubSeq(p, 1, j) = SubSeq(r, 1, j)
      <4> HIDE DEF p
      <4>1. j \in 0 .. Len(p) /\ \A i \in 1 .. j : p[i] = r[i]
        BY <2>1, <3>1
      <4>2. /\ SubSeq(p, 1, j) \in Seq(T) /\ SubSeq(r, 1, j) \in Seq(T)
            /\ Len(SubSeq(p, 1, j)) = j /\ Len(SubSeq(r, 1, j)) = j
            /\ \A i \in 1 .. j : SubSeq(p, 1, j)[i] = p[i] /\ SubSeq(r, 1, j)[i] = r[i]
        BY <2>1, <3>1, <4>1, SubSeqElements
      <4> QED BY <4>1, <4>2, SeqEqual
    <3>3. ToSet(SubSeq(r, 1, j)) \subseteq ToSet(r)
      BY <3>1, SubSeqElements
    <3> DEFINE front == ToSet(SubSeq(r, 1, j))
               rest == SubSeq(r, j + 1, n)
    <3>4. Drop(p, front) = Append(rest, e)
      <4>1. Drop(r, front) = rest
        BY <1>2, <2>3, <3>1
      <4>2. e \notin front
        BY <2>3, <3>3
      <4> HIDE DEF front, rest
      <4> QED BY <4>1, <4>2, DropAppend
    <3>5. SubSeq(p, j + 1, n + 1) = Append(rest, e)
      <4>1. /\ rest \in Seq(T) /\ Len(rest) = n - j
            /\ \A i \in 1 .. (n - j) : rest[i] = r[j + i]
        BY <3>1, SubSeqRest
      <4> HIDE DEF rest
      <4>2. /\ Append(rest, e) \in Seq(T) /\ Len(Append(rest, e)) = (n - j) + 1
            /\ \A i \in 1 .. (n - j) : Append(rest, e)[i] = rest[i]
            /\ Append(rest, e)[(n - j) + 1] = e
        BY <4>1, AppendProperties
      <4> HIDE DEF p
      <4>3. /\ SubSeq(p, j + 1, n + 1) \in Seq(T)
            /\ Len(SubSeq(p, j + 1, n + 1)) = (n + 1) - j
            /\ \A i \in 1 .. ((n + 1) - j) : SubSeq(p, j + 1, n + 1)[i] = p[j + i]
        BY <2>1, SubSeqRest
      <4> HIDE DEF n
      <4>4. (n + 1) - j = (n - j) + 1 /\ n - j \in Nat /\ j + ((n - j) + 1) = n + 1
        BY <2>1, <3>1
      <4>5. ASSUME NEW i \in 1 .. ((n - j) + 1)
            PROVE  SubSeq(p, j + 1, n + 1)[i] = Append(rest, e)[i]
        <5>1. CASE i = (n - j) + 1
          BY <2>1, <4>2, <4>3, <4>4, <5>1
        <5>2. CASE i # (n - j) + 1
          <6>1. i \in 1 .. (n - j) /\ j + i \in 1 .. n
            BY <2>1, <3>1, <4>4, <5>2
          <6> QED BY <2>1, <4>1, <4>2, <4>3, <4>4, <6>1
        <5> QED BY <5>1, <5>2
      <4> QED BY <4>2, <4>3, <4>4, <4>5, SeqEqual
    <3> QED BY <3>2, <3>4, <3>5
  <2> QED BY <2>4, <2>5
<1>3. \A r \in Seq(T) : r \in P
  <2> HIDE DEF P
  <2> QED BY <1>1, <1>2, SequencesInduct
<1> QED BY <1>3

\* x comes before y in q.
Before(q, x, y) == \E i, j \in DOMAIN q : i < j /\ q[i] = x /\ q[j] = y

LEMMA BeforeAppend ==
  ASSUME NEW T, NEW q \in Seq(T), NEW e \in T, NEW x, NEW y
  PROVE  Before(Append(q, e), x, y) <=> Before(q, x, y) \/ (x \in ToSet(q) /\ y = e)
<1> DEFINE p == Append(q, e)
           n == Len(q)
<1>1. /\ n \in Nat /\ p[n + 1] = e /\ \A i \in 1 .. n : p[i] = q[i]
      /\ DOMAIN p = 1 .. (n + 1) /\ DOMAIN q = 1 .. n
  BY AppendProperties, LenProperties
<1> HIDE DEF p, n
<1>2. \A i \in 1 .. (n + 1) : i \in 1 .. n \/ i = n + 1
  BY <1>1
<1>3. 1 .. n \subseteq 1 .. (n + 1) /\ n + 1 \in 1 .. (n + 1)
      /\ \A i \in 1 .. n : i < n + 1 /\ ~ (n + 1 < i)
  BY <1>1
<1>4. Before(p, x, y) => Before(q, x, y) \/ (x \in ToSet(q) /\ y = e)
  <2> SUFFICES ASSUME NEW i \in 1 .. (n + 1), NEW j \in 1 .. (n + 1), i < j,
                      p[i] = x, p[j] = y
               PROVE  Before(q, x, y) \/ (x \in ToSet(q) /\ y = e)
    BY <1>1 DEF Before
  <2>1. i \in 1 .. n
    BY <1>1
  <2>2. CASE j \in 1 .. n
    BY <1>1, <2>1, <2>2 DEF Before
  <2>3. CASE j = n + 1
    BY <1>1, <2>1, <2>3 DEF ToSet
  <2> QED BY <1>2, <2>2, <2>3
<1>5. Before(q, x, y) => Before(p, x, y)
  BY <1>1, <1>3 DEF Before
<1>6. x \in ToSet(q) /\ y = e => Before(p, x, y)
  BY <1>1, <1>3 DEF Before, ToSet
<1> QED BY <1>4, <1>5, <1>6 DEF p

\* What stays keeps its place among what stays.
LEMMA DropBefore ==
  ASSUME NEW T, NEW q \in Seq(T), NEW gone, NEW x, NEW y,
         x \notin gone, y \notin gone, Before(q, x, y)
  PROVE  Before(Drop(q, gone), x, y)
<1> DEFINE P == {r \in Seq(T) : Before(r, x, y) => Before(Drop(r, gone), x, y)}
<1>1. <<>> \in P
  BY DropEmpty, EmptySeq
<1>2. ASSUME NEW r \in Seq(T), NEW e \in T, r \in P PROVE Append(r, e) \in P
  <2>1. Append(r, e) \in Seq(T)
    BY AppendProperties
  <2>2. SUFFICES ASSUME Before(Append(r, e), x, y)
                 PROVE  Before(Drop(Append(r, e), gone), x, y)
    BY <2>1
  <2>3. Drop(Append(r, e), gone)
          = IF e \in gone THEN Drop(r, gone) ELSE Append(Drop(r, gone), e)
    BY DropAppend
  <2>4. Drop(r, gone) \in Seq(T) /\ ToSet(Drop(r, gone)) = ToSet(r) \ gone
    BY DropType
  <2>5. CASE Before(r, x, y)
    BY <1>2, <2>3, <2>4, <2>5, BeforeAppend
  <2>6. CASE x \in ToSet(r) /\ y = e
    BY <2>3, <2>4, <2>6, BeforeAppend
  <2> QED BY <2>2, <2>5, <2>6, BeforeAppend
<1>3. \A r \in Seq(T) : r \in P
  <2> HIDE DEF P
  <2> QED BY <1>1, <1>2, SequencesInduct
<1> QED BY <1>3

-----------------------------------------------------------------------------
(* The keys of one run.                                                    *)

LEMMA InjectiveLength ==
  ASSUME NEW T, NEW q \in Seq(T), IsInjective(q)
  PROVE  IsFiniteSet(ToSet(q)) /\ Cardinality(ToSet(q)) = Len(q)
<1> DEFINE P == {r \in Seq(T) : IsInjective(r) =>
                   IsFiniteSet(ToSet(r)) /\ Cardinality(ToSet(r)) = Len(r)}
<1>1. <<>> \in P
  <2>1. ToSet(<<>>) = {} /\ <<>> \in Seq(T) /\ Len(<<>>) = 0
    BY ToSetEmpty, EmptySeq
  <2> QED BY <2>1, FS_EmptySet
<1>2. ASSUME NEW r \in Seq(T), NEW e \in T, r \in P PROVE Append(r, e) \in P
  <2>1. Append(r, e) \in Seq(T) /\ Len(Append(r, e)) = Len(r) + 1
    BY AppendProperties
  <2>2. ToSet(Append(r, e)) = ToSet(r) \cup {e}
        /\ (IsInjective(Append(r, e)) <=> IsInjective(r) /\ e \notin ToSet(r))
    BY ToSetAppend
  <2>3. SUFFICES ASSUME IsInjective(Append(r, e))
                 PROVE  /\ IsFiniteSet(ToSet(r) \cup {e})
                        /\ Cardinality(ToSet(r) \cup {e}) = Len(r) + 1
    BY <2>1, <2>2
  <2>4. IsFiniteSet(ToSet(r)) /\ Cardinality(ToSet(r)) = Len(r) /\ e \notin ToSet(r)
    BY <1>2, <2>2, <2>3
  <2> QED BY <2>4, FS_AddElement
<1>3. \A r \in Seq(T) : r \in P
  <2> HIDE DEF P
  <2> QED BY <1>1, <1>2, SequencesInduct
<1> QED BY <1>3

LEMMA KeyedType ==
  ASSUME NEW r, NEW T, NEW q \in Seq(T)
  PROVE  /\ Keyed(r, q) \in Seq({r} \X T)
         /\ Len(Keyed(r, q)) = Len(q)
         /\ ToSet(Keyed(r, q)) = {<<r, x>> : x \in ToSet(q)}
         /\ IsInjective(Keyed(r, q)) => IsInjective(q)
<1>1. Len(q) \in Nat /\ DOMAIN q = 1 .. Len(q) /\ \A i \in 1 .. Len(q) : q[i] \in T
  BY LenProperties
<1>2. Keyed(r, q) = [i \in 1 .. Len(q) |-> <<r, q[i]>>]
  BY <1>1 DEF Keyed
<1>3. Keyed(r, q) \in Seq({r} \X T) /\ Len(Keyed(r, q)) = Len(q)
  BY <1>1, <1>2
<1>4. ToSet(Keyed(r, q)) = {<<r, x>> : x \in ToSet(q)}
  BY <1>1, <1>2 DEF ToSet
<1>5. IsInjective(Keyed(r, q)) => IsInjective(q)
  BY <1>1, <1>2 DEF IsInjective
<1> QED BY <1>3, <1>4, <1>5

LEMMA KeyedEmpty == ASSUME NEW r PROVE Keyed(r, <<>>) = <<>>
<1>1. <<>> \in Seq({}) /\ Len(<<>>) = 0
  BY EmptySeq
<1>2. Keyed(r, <<>>) \in Seq({r} \X {}) /\ Len(Keyed(r, <<>>)) = 0
  BY <1>1, KeyedType
<1> QED BY <1>2, EmptySeq

LEMMA KeyedAppend ==
  ASSUME NEW r, NEW T, NEW q \in Seq(T), NEW e \in T
  PROVE  Keyed(r, Append(q, e)) = Append(Keyed(r, q), <<r, e>>)
<1> DEFINE n == Len(q)
           p == Append(q, e)
           k == Keyed(r, q)
<1>1. /\ n \in Nat /\ p \in Seq(T) /\ Len(p) = n + 1 /\ p[n + 1] = e
      /\ \A i \in 1 .. n : p[i] = q[i]
      /\ DOMAIN p = 1 .. (n + 1) /\ DOMAIN q = 1 .. n
  BY AppendProperties, LenProperties
<1>2. k \in Seq({r} \X T) /\ Len(k) = n /\ <<r, e>> \in {r} \X T
  BY KeyedType
<1>3. \A i \in 1 .. n : k[i] = <<r, q[i]>>
  BY <1>1 DEF Keyed
<1> HIDE DEF p, n, k
<1>4. /\ Append(k, <<r, e>>) \in Seq({r} \X T) /\ Len(Append(k, <<r, e>>)) = n + 1
      /\ \A i \in 1 .. n : Append(k, <<r, e>>)[i] = k[i]
      /\ Append(k, <<r, e>>)[n + 1] = <<r, e>>
  BY <1>2, AppendProperties
<1>5. Keyed(r, p) \in Seq({r} \X T) /\ Len(Keyed(r, p)) = n + 1
  BY <1>1, KeyedType
<1>6. ASSUME NEW i \in 1 .. (n + 1)
      PROVE  Keyed(r, p)[i] = Append(k, <<r, e>>)[i]
  <2>1. Keyed(r, p)[i] = <<r, p[i]>>
    BY <1>1 DEF Keyed
  <2>2. CASE i = n + 1
    BY <1>1, <1>4, <2>1, <2>2
  <2>3. CASE i # n + 1
    <3>1. i \in 1 .. n
      BY <1>1, <2>3
    <3> QED BY <1>1, <1>3, <1>4, <2>1, <3>1
  <2> QED BY <2>2, <2>3
<1>7. Keyed(r, p) = Append(k, <<r, e>>)
  BY <1>4, <1>5, <1>6, SeqEqual
<1> QED BY <1>7 DEF p, k

LEMMA DropKeyed ==
  ASSUME NEW r, NEW T, NEW q \in Seq(T), NEW S, NEW U,
         \A x \in T : x \in U <=> <<r, x>> \in S
  PROVE  Drop(Keyed(r, q), S) = Keyed(r, Drop(q, U))
<1> DEFINE P == {p \in Seq(T) : Drop(Keyed(r, p), S) = Keyed(r, Drop(p, U))}
<1>1. <<>> \in P
  BY KeyedEmpty, DropEmpty, EmptySeq
<1>2. ASSUME NEW p \in Seq(T), NEW e \in T, p \in P PROVE Append(p, e) \in P
  <2>1. Append(p, e) \in Seq(T) /\ Drop(p, U) \in Seq(T)
    BY AppendProperties, DropType
  <2>2. Keyed(r, Append(p, e)) = Append(Keyed(r, p), <<r, e>>)
    BY KeyedAppend
  <2>3. Keyed(r, p) \in Seq({r} \X T) /\ <<r, e>> \in {r} \X T
    BY KeyedType
  <2>4. Drop(Append(Keyed(r, p), <<r, e>>), S)
          = IF <<r, e>> \in S THEN Drop(Keyed(r, p), S)
            ELSE Append(Drop(Keyed(r, p), S), <<r, e>>)
    BY <2>3, DropAppend
  <2>5. Drop(Append(p, e), U) = IF e \in U THEN Drop(p, U) ELSE Append(Drop(p, U), e)
    BY DropAppend
  <2>6. Keyed(r, Append(Drop(p, U), e)) = Append(Keyed(r, Drop(p, U)), <<r, e>>)
    BY <2>1, KeyedAppend
  <2> QED BY <1>2, <2>1, <2>2, <2>4, <2>5, <2>6
<1>3. \A p \in Seq(T) : p \in P
  <2> HIDE DEF P
  <2> QED BY <1>1, <1>2, SequencesInduct
<1> QED BY <1>3

-----------------------------------------------------------------------------
(* What every method keeps of a store s.                                   *)

Stores ==
  [order : Seq(Runs), plans : [Runs -> SUBSET Plans], bound : [Runs -> SUBSET Plans],
   results : [Runs -> Seq(Results)], size : [Runs -> Nat],
   resultOrder : Seq(Runs \X Results), total : Nat, room : 0 .. TableRoom]

Others(r) == (Runs \ {r}) \X Results

Shape(s) ==
  /\ s \in Stores
  /\ IsInjective(s.order) /\ IsInjective(s.resultOrder)
  /\ \A r \in Runs : Drop(s.resultOrder, Others(r)) = Keyed(r, s.results[r])
  /\ \A r \in Runs \ Stored(s) :
       s.plans[r] = {} /\ s.bound[r] = {} /\ s.results[r] = <<>> /\ s.size[r] = 0

Totals(s) ==
  /\ \A r \in Stored(s) : s.size[r] = RunSize(s, r)
  /\ s.total = SumFunctionOnSet(s.size, Stored(s))

Bounded(s) ==
  /\ Len(s.resultOrder) <= MaxTotalResults
  /\ \A r \in Stored(s) :
       RunSize(s, r) <= MaxRunBytes /\ Len(s.results[r]) <= MaxResultsPerRun

Sound(s) == Shape(s) /\ Totals(s) /\ Bounded(s)

LEMMA Fields ==
  ASSUME NEW s \in Stores
  PROVE  /\ s.order \in Seq(Runs) /\ s.resultOrder \in Seq(Runs \X Results)
         /\ s.plans \in [Runs -> SUBSET Plans] /\ s.bound \in [Runs -> SUBSET Plans]
         /\ s.results \in [Runs -> Seq(Results)] /\ s.size \in [Runs -> Nat]
         /\ s.total \in Nat /\ s.room \in 0 .. TableRoom
         /\ Stored(s) \subseteq Runs /\ IsFiniteSet(Stored(s))
<1>1. s.order \in Seq(Runs)
  BY DEF Stores
<1>2. ToSet(s.order) \subseteq Runs
  BY <1>1, LenProperties DEF ToSet
<1>3. IsFiniteSet(ToSet(s.order))
  BY <1>2, FS_Subset, RunStoreAssumption
<1> QED BY <1>2, <1>3 DEF Stores, Stored

LEMMA SizeType ==
  ASSUME NEW s \in Stores, NEW r \in Runs
  PROVE  RunSize(s, r) \in Nat /\ RunSize(s, r) >= Len(s.results[r])
<1>1. s.plans[r] \subseteq Plans /\ s.bound[r] \subseteq Plans /\ s.results[r] \in Seq(Results)
  BY Fields
<1>2. Cardinality(s.plans[r]) \in Nat /\ Cardinality(s.bound[r]) \in Nat
  BY <1>1, FS_Subset, FS_CardinalityType, RunStoreAssumption
<1>3. Len(s.results[r]) \in Nat /\ BaseSize[r] \in Nat
  BY <1>1, LenProperties, RunStoreAssumption
<1> DEFINE a == BaseSize[r]
           b == Cardinality(s.plans[r])
           c == Cardinality(s.bound[r])
           d == Len(s.results[r])
<1>4. RunSize(s, r) = a + b + c + d
  BY DEF RunSize
<1>5. a \in Nat /\ b \in Nat /\ c \in Nat /\ d \in Nat
  BY <1>2, <1>3
<1> HIDE DEF a, b, c, d
<1>6. RunSize(s, r) \in Nat /\ RunSize(s, r) >= d
  BY <1>4, <1>5
<1> QED BY <1>6 DEF d

LEMMA SameSize ==
  ASSUME NEW s, NEW t, NEW r,
         t.plans[r] = s.plans[r], t.bound[r] = s.bound[r],
         Len(t.results[r]) = Len(s.results[r])
  PROVE  RunSize(t, r) = RunSize(s, r)
BY DEF RunSize

LEMMA ContentIsTotal ==
  ASSUME NEW s, Shape(s), Totals(s)
  PROVE  Content(s) = s.total
<1>1. s \in Stores /\ Stored(s) \subseteq Runs /\ IsFiniteSet(Stored(s))
  BY Fields DEF Shape
<1> DEFINE g == [r \in Runs |-> RunSize(s, r)]
<1>2. \A r \in Stored(s) : s.size[r] \in Nat /\ g[r] = s.size[r]
  BY <1>1, Fields DEF Totals
<1> HIDE DEF g
<1>3. SumFunctionOnSet(g, Stored(s)) = SumFunctionOnSet(s.size, Stored(s))
  BY <1>1, <1>2, SumSame
<1> QED BY <1>3 DEF Content, Totals, g

\* The global order has exactly the results of the runs.
LEMMA KeysOfRuns ==
  ASSUME NEW s, Shape(s)
  PROVE  /\ \A r \in Runs, x \in Results :
              <<r, x>> \in ToSet(s.resultOrder) <=> x \in ToSet(s.results[r])
         /\ ToSet(s.resultOrder) \subseteq Runs \X Results
         /\ \A r \in Runs : IsInjective(s.results[r]) /\ ToSet(s.results[r]) \subseteq Results
<1>1. s.resultOrder \in Seq(Runs \X Results) /\ \A r \in Runs : s.results[r] \in Seq(Results)
  BY Fields DEF Shape
<1>2. ToSet(s.resultOrder) \subseteq Runs \X Results
  BY <1>1, LenProperties DEF ToSet
<1>3. ASSUME NEW r \in Runs
      PROVE  /\ ToSet(s.resultOrder) \ Others(r) = {<<r, x>> : x \in ToSet(s.results[r])}
             /\ IsInjective(s.results[r]) /\ ToSet(s.results[r]) \subseteq Results
  <2>1. Drop(s.resultOrder, Others(r)) = Keyed(r, s.results[r])
    BY DEF Shape
  <2>2. /\ ToSet(Drop(s.resultOrder, Others(r))) = ToSet(s.resultOrder) \ Others(r)
        /\ IsInjective(Drop(s.resultOrder, Others(r)))
    BY <1>1, DropType DEF Shape
  <2>3. /\ ToSet(Keyed(r, s.results[r])) = {<<r, x>> : x \in ToSet(s.results[r])}
        /\ IsInjective(Keyed(r, s.results[r])) => IsInjective(s.results[r])
    BY <1>1, KeyedType
  <2>4. ToSet(s.results[r]) \subseteq Results
    BY <1>1, LenProperties DEF ToSet
  <2> QED BY <2>1, <2>2, <2>3, <2>4
<1>4. ASSUME NEW r \in Runs, NEW x \in Results
      PROVE  <<r, x>> \in ToSet(s.resultOrder) <=> x \in ToSet(s.results[r])
  <2>1. <<r, x>> \notin Others(r)
    BY DEF Others
  <2> QED BY <1>3, <2>1
<1> QED BY <1>2, <1>3, <1>4

\* Sound looks neither at the order of the runs nor at the room of the tables.
LEMMA SameContent ==
  ASSUME NEW s, Sound(s), NEW t \in Stores,
         t.plans = s.plans, t.bound = s.bound, t.results = s.results, t.size = s.size,
         t.resultOrder = s.resultOrder, t.total = s.total,
         IsInjective(t.order), ToSet(t.order) = ToSet(s.order)
  PROVE  Sound(t) /\ Stored(t) = Stored(s) /\ Content(t) = Content(s)
<1>1. Stored(t) = Stored(s) /\ Stored(s) \subseteq Runs
  BY Fields DEF Stored, Sound, Shape
<1>2. \A q \in Runs : RunSize(t, q) = RunSize(s, q)
  BY SameSize
<1>3. Shape(t)
  <2>1. IsInjective(t.resultOrder)
    BY DEF Shape, Sound
  <2>2. \A q \in Runs : Drop(t.resultOrder, Others(q)) = Keyed(q, t.results[q])
    BY DEF Shape, Sound
  <2>3. \A q \in Runs \ Stored(t) :
          t.plans[q] = {} /\ t.bound[q] = {} /\ t.results[q] = <<>> /\ t.size[q] = 0
    BY <1>1 DEF Shape, Sound
  <2> QED BY <2>1, <2>2, <2>3 DEF Shape
<1>4. Totals(t) /\ Bounded(t)
  BY <1>1, <1>2 DEF Totals, Bounded, Sound
<1>5. Content(t) = Content(s)
  BY <1>3, <1>4, ContentIsTotal DEF Sound
<1> QED BY <1>1, <1>3, <1>4, <1>5 DEF Sound

LEMMA Touched ==
  ASSUME NEW s, Sound(s), NEW r \in Stored(s)
  PROVE  LET t == Touch(s, r)
         IN  /\ Sound(t)
             /\ Stored(t) = Stored(s)
             /\ Fits(s) => Fits(t)
             /\ t.order = Append(Drop(s.order, {r}), r)
             /\ t.bound = s.bound /\ t.results = s.results
<1> DEFINE t == Touch(s, r)
           order == Append(Drop(s.order, {r}), r)
<1>1. s \in Stores /\ r \in Runs /\ s.order \in Seq(Runs) /\ IsInjective(s.order)
  BY Fields DEF Sound, Shape
<1>2. /\ t.order = order /\ t.plans = s.plans /\ t.bound = s.bound /\ t.results = s.results
      /\ t.size = s.size /\ t.resultOrder = s.resultOrder /\ t.total = s.total
      /\ t.room = s.room
      /\ order \in Seq(Runs) => t \in Stores
  <2> HIDE DEF order
  <2>1. t = [s EXCEPT !.order = order]
    BY DEF Touch, order
  <2> HIDE DEF t
  <2> QED BY <1>1, <2>1 DEF Stores
<1>3. order \in Seq(Runs) /\ ToSet(order) = ToSet(s.order) /\ IsInjective(order)
  <2>1. /\ Drop(s.order, {r}) \in Seq(Runs) /\ IsInjective(Drop(s.order, {r}))
        /\ ToSet(Drop(s.order, {r})) = ToSet(s.order) \ {r}
    BY <1>1, DropType
  <2>2. r \in ToSet(s.order)
    BY DEF Stored
  <2>3. order \in Seq(Runs)
    BY <1>1, <2>1, AppendProperties
  <2>4. /\ ToSet(order) = ToSet(Drop(s.order, {r})) \cup {r}
        /\ IsInjective(order) <=> IsInjective(Drop(s.order, {r}))
                                   /\ r \notin ToSet(Drop(s.order, {r}))
    BY <1>1, <2>1, ToSetAppend
  <2> HIDE DEF order
  <2> QED BY <2>1, <2>2, <2>3, <2>4
<1>4. Len(order) = Len(s.order)
  BY <1>1, <1>3, InjectiveLength
<1> HIDE DEF order, t
<1>5. Sound(t) /\ Stored(t) = Stored(s) /\ Content(t) = Content(s)
  BY <1>2, <1>3, SameContent
<1>6. Fits(s) => Fits(t)
  BY <1>2, <1>4, <1>5 DEF Fits, Memory
<1> QED BY <1>2, <1>5, <1>6 DEF t, order

LEMMA Roomy ==
  ASSUME NEW s, Sound(s), NEW t \in Rooms(s)
  PROVE  /\ Sound(t)
         /\ t.order = s.order /\ Stored(t) = Stored(s)
         /\ t.plans = s.plans /\ t.bound = s.bound /\ t.results = s.results
<1>1. s \in Stores /\ IsInjective(s.order) /\ s.room \in 0 .. TableRoom /\ TableRoom \in Nat
  BY Fields, RunStoreAssumption DEF Sound, Shape
<1>2. PICK n \in 0 .. TableRoom : t = [s EXCEPT !.room = n]
  <2>1. PICK n \in 0 .. IF s.order = <<>> THEN s.room ELSE TableRoom :
               t = [s EXCEPT !.room = n]
    BY DEF Rooms
  <2>2. n \in 0 .. TableRoom
    BY <1>1, <2>1
  <2> QED BY <2>1, <2>2
<1>3. /\ t \in Stores /\ t.order = s.order /\ t.plans = s.plans /\ t.bound = s.bound
      /\ t.results = s.results /\ t.size = s.size /\ t.resultOrder = s.resultOrder
      /\ t.total = s.total
  BY <1>1, <1>2 DEF Stores
<1>4. Sound(t) /\ Stored(t) = Stored(s)
  BY <1>1, <1>3, SameContent
<1> QED BY <1>3, <1>4

\* The sum of the sizes when that of one run changes.
LEMMA SumChange ==
  ASSUME NEW f \in [Runs -> Nat], NEW S \in SUBSET Runs, NEW r \in S, NEW n \in Nat
  PROVE  LET g == [f EXCEPT ![r] = n]
         IN  /\ SumFunctionOnSet(f, S) \in Nat /\ SumFunctionOnSet(g, S) \in Nat
             /\ SumFunctionOnSet(g, S) = SumFunctionOnSet(f, S) + n - f[r]
<1> DEFINE g == [f EXCEPT ![r] = n]
           a == SumFunctionOnSet(f, S)
           b == SumFunctionOnSet(g, S)
           c == SumFunctionOnSet(f, S \ {r})
           d == SumFunctionOnSet(g, S \ {r})
<1>1. g \in [Runs -> Nat] /\ g[r] = n /\ \A q \in S \ {r} : g[q] = f[q]
  OBVIOUS
<1>2. IsFiniteSet(S) /\ IsFiniteSet(S \ {r})
  BY FS_Subset, RunStoreAssumption
<1> HIDE DEF g
<1>3. a \in Nat /\ a = f[r] + c
  BY <1>2, SumRemove
<1>4. b \in Nat /\ b = g[r] + d
  BY <1>1, <1>2, SumRemove
<1>5. c \in Nat /\ d = c
  BY <1>1, <1>2, SumSame, SumType
<1>6. f[r] \in Nat
  OBVIOUS
<1> HIDE DEF a, b, c, d
<1>7. b = a + n - f[r]
  BY <1>1, <1>3, <1>4, <1>5, <1>6
<1> QED BY <1>3, <1>4, <1>7 DEF a, b, g

LEMMA Added ==
  ASSUME NEW s, Sound(s), NEW r \in Runs, r \notin Stored(s), RunFits(s, r)
  PROVE  LET t == NewRun(s, r)
         IN  /\ Sound(t)
             /\ Stored(t) = Stored(s) \cup {r}
             /\ t.order = Append(s.order, r)
             /\ t.bound = s.bound /\ t.results = s.results
<1> DEFINE t == NewRun(s, r)
           order == Append(s.order, r)
           size == [s.size EXCEPT ![r] = BaseSize[r]]
           total == s.total + BaseSize[r]
<1>1. /\ s \in Stores /\ s.order \in Seq(Runs) /\ IsInjective(s.order)
      /\ BaseSize[r] \in Nat /\ s.size \in [Runs -> Nat] /\ s.total \in Nat
      /\ Stored(s) \subseteq Runs /\ IsFiniteSet(Stored(s))
      /\ s.plans[r] = {} /\ s.bound[r] = {} /\ s.results[r] = <<>> /\ s.size[r] = 0
  BY Fields, RunStoreAssumption DEF Sound, Shape
<1>2. /\ order \in Seq(Runs) /\ size \in [Runs -> Nat] /\ total \in Nat
      /\ ToSet(order) = ToSet(s.order) \cup {r} /\ IsInjective(order)
  BY <1>1, AppendProperties, ToSetAppend DEF Stored
<1>3. /\ t.order = order /\ t.plans = s.plans /\ t.bound = s.bound /\ t.results = s.results
      /\ t.size = size /\ t.resultOrder = s.resultOrder /\ t.total = total
      /\ t.room = s.room /\ t \in Stores
  <2> HIDE DEF order, total
  <2>1. t = [s EXCEPT !.order = order, !.size[r] = BaseSize[r], !.total = total]
    BY DEF NewRun, order, total
  <2>2. size = [s.size EXCEPT ![r] = BaseSize[r]]
    OBVIOUS
  <2> HIDE DEF t, size
  <2> QED BY <1>1, <1>2, <2>1, <2>2 DEF Stores
<1> HIDE DEF t, order
<1>4. Stored(t) = Stored(s) \cup {r}
  BY <1>2, <1>3 DEF Stored
<1>5. RunSize(t, r) = BaseSize[r]
  <2>1. Cardinality({}) = 0 /\ Len(<<>>) = 0
    BY FS_EmptySet
  <2> DEFINE base == BaseSize[r]
  <2>2. RunSize(t, r) = base + Cardinality({}) + Cardinality({}) + Len(<<>>)
    BY <1>1, <1>3 DEF RunSize
  <2>3. base \in Nat
    BY <1>1
  <2> HIDE DEF base
  <2>4. RunSize(t, r) = base
    BY <2>1, <2>2, <2>3
  <2> QED BY <2>4 DEF base
<1>6. \A q \in Runs : RunSize(t, q) = RunSize(s, q)
  BY <1>3, SameSize
<1>7. Shape(t)
  <2>1. IsInjective(t.order) /\ IsInjective(t.resultOrder)
    BY <1>2, <1>3 DEF Shape, Sound
  <2>2. \A q \in Runs : Drop(t.resultOrder, Others(q)) = Keyed(q, t.results[q])
    BY <1>3 DEF Shape, Sound
  <2>3. \A q \in Runs \ Stored(t) :
          t.plans[q] = {} /\ t.bound[q] = {} /\ t.results[q] = <<>> /\ t.size[q] = 0
    BY <1>1, <1>3, <1>4 DEF Shape, Sound
  <2> QED BY <1>3, <2>1, <2>2, <2>3 DEF Shape
<1>8. Totals(t)
  <2>1. \A q \in Stored(t) : t.size[q] = RunSize(t, q)
    BY <1>1, <1>3, <1>4, <1>5, <1>6 DEF Totals, Sound
  <2>2. SumFunctionOnSet(size, Stored(s) \cup {r}) = size[r] + SumFunctionOnSet(size, Stored(s))
    <3> HIDE DEF size
    <3>1. \A q \in Stored(s) \cup {r} : size[q] \in Nat
      BY <1>1, <1>2
    <3> QED BY <1>1, <3>1, SumAdd
  <2>3. SumFunctionOnSet(size, Stored(s)) = s.total
    <3>1. \A q \in Stored(s) : s.size[q] \in Nat /\ size[q] = s.size[q]
      BY <1>1
    <3> HIDE DEF size
    <3>2. SumFunctionOnSet(size, Stored(s)) = SumFunctionOnSet(s.size, Stored(s))
      BY <1>1, <3>1, SumSame
    <3> QED BY <3>2 DEF Totals, Sound
  <2>4. size[r] = BaseSize[r]
    BY <1>1
  <2> HIDE DEF size
  <2>5. t.total = SumFunctionOnSet(t.size, Stored(t))
    BY <1>1, <1>3, <1>4, <2>2, <2>3, <2>4
  <2> QED BY <2>1, <2>5 DEF Totals
<1>9. Bounded(t)
  <2>1. RunSize(t, r) <= MaxRunBytes
    BY <1>6 DEF RunFits
  <2>2. Len(t.results[r]) <= MaxResultsPerRun
    <3>1. Len(<<>>) = 0 /\ MaxResultsPerRun \in Nat
      BY RunStoreAssumption
    <3> QED BY <1>1, <1>3, <3>1
  <2>3. \A q \in Stored(s) : RunSize(t, q) <= MaxRunBytes /\ Len(t.results[q]) <= MaxResultsPerRun
    BY <1>1, <1>3, <1>6 DEF Bounded, Sound
  <2> QED BY <1>3, <1>4, <2>1, <2>2, <2>3 DEF Bounded, Sound
<1>10. Sound(t)
  BY <1>7, <1>8, <1>9 DEF Sound
<1> QED BY <1>3, <1>4, <1>10 DEF t, order

\* The totals after one run has been sized again.
LEMMA Resized ==
  ASSUME NEW s, Sound(s), NEW r \in Stored(s), NEW u \in Stores, NEW n \in Nat,
         Stored(u) = Stored(s),
         u.size = [s.size EXCEPT ![r] = n], u.total = s.total + n - s.size[r],
         n = RunSize(u, r), \A q \in Stored(s) \ {r} : RunSize(u, q) = RunSize(s, q)
  PROVE  Totals(u)
<1>1. s \in Stores /\ s.size \in [Runs -> Nat] /\ Stored(s) \subseteq Runs
  BY Fields DEF Sound, Shape
<1>2. \A q \in Stored(u) : u.size[q] = RunSize(u, q)
  BY <1>1 DEF Totals, Sound
<1>3. SumFunctionOnSet(u.size, Stored(u)) = SumFunctionOnSet(s.size, Stored(s)) + n - s.size[r]
  BY <1>1, SumChange
<1>4. s.total = SumFunctionOnSet(s.size, Stored(s))
  BY DEF Totals, Sound
<1> QED BY <1>2, <1>3, <1>4 DEF Totals

LEMMA ResizedType ==
  ASSUME NEW s, Sound(s), NEW r \in Stored(s), NEW n \in Nat
  PROVE  /\ [s.size EXCEPT ![r] = n] \in [Runs -> Nat]
         /\ s.total + n - s.size[r] \in Nat
<1>1. s \in Stores /\ s.size \in [Runs -> Nat] /\ Stored(s) \subseteq Runs
  BY Fields DEF Sound, Shape
<1>2. SumFunctionOnSet([s.size EXCEPT ![r] = n], Stored(s))
        = SumFunctionOnSet(s.size, Stored(s)) + n - s.size[r]
      /\ SumFunctionOnSet([s.size EXCEPT ![r] = n], Stored(s)) \in Nat
  BY <1>1, SumChange
<1>3. s.total = SumFunctionOnSet(s.size, Stored(s))
  BY DEF Totals, Sound
<1> QED BY <1>1, <1>2, <1>3

LEMMA Planned ==
  ASSUME NEW s, Sound(s), NEW r \in Stored(s), NEW p \in Plans, NEW binding,
         RunFits(WithPlan(s, r, p, binding), r)
  PROVE  LET t == Resize(WithPlan(s, r, p, binding), r)
         IN  /\ Sound(t)
             /\ t.order = s.order /\ Stored(t) = Stored(s)
             /\ t.results = s.results
             /\ t.bound = [s.bound EXCEPT ![r] = IF binding THEN s.bound[r] \cup {p}
                                                 ELSE s.bound[r] \ {p}]
<1> DEFINE w == WithPlan(s, r, p, binding)
           t == Resize(w, r)
           n == RunSize(w, r)
           plans == [s.plans EXCEPT ![r] = s.plans[r] \cup {p}]
           new == IF binding THEN s.bound[r] \cup {p} ELSE s.bound[r] \ {p}
           bound == [s.bound EXCEPT ![r] = new]
           size == [s.size EXCEPT ![r] = n]
           total == s.total + n - s.size[r]
<1>1. /\ s \in Stores /\ s.plans \in [Runs -> SUBSET Plans] /\ s.bound \in [Runs -> SUBSET Plans]
      /\ Stored(s) \subseteq Runs /\ r \in Runs
  BY Fields DEF Sound, Shape
<1>2. plans \in [Runs -> SUBSET Plans] /\ bound \in [Runs -> SUBSET Plans]
  <2>1. s.bound[r] \subseteq Plans /\ s.plans[r] \subseteq Plans
    BY <1>1
  <2>2. new \subseteq Plans /\ s.plans[r] \cup {p} \subseteq Plans
    BY <2>1
  <2> HIDE DEF new
  <2> QED BY <1>1, <2>2
<1>3. /\ w \in Stores /\ w.order = s.order /\ w.plans = plans /\ w.bound = bound
      /\ w.results = s.results /\ w.size = s.size /\ w.resultOrder = s.resultOrder
      /\ w.total = s.total /\ w.room = s.room
  <2>1. w = [s EXCEPT !.plans[r] = s.plans[r] \cup {p}, !.bound[r] = new]
    BY DEF WithPlan
  <2>2. plans = [s.plans EXCEPT ![r] = s.plans[r] \cup {p}] /\ bound = [s.bound EXCEPT ![r] = new]
    OBVIOUS
  <2> HIDE DEF w, plans, bound, new
  <2> QED BY <1>1, <1>2, <2>1, <2>2 DEF Stores
<1>4. n \in Nat
  BY <1>1, <1>3, SizeType
<1>5. size \in [Runs -> Nat] /\ total \in Nat
  <2> HIDE DEF n
  <2> QED BY <1>4, ResizedType
<1> HIDE DEF w, plans, bound, n
<1>6. /\ t \in Stores /\ t.order = s.order /\ t.plans = plans /\ t.bound = bound
      /\ t.results = s.results /\ t.size = size /\ t.resultOrder = s.resultOrder
      /\ t.total = total /\ t.room = s.room
  <2>1. t = [w EXCEPT !.size[r] = n, !.total = w.total + n - w.size[r]]
    BY DEF Resize, n
  <2>2. size = [w.size EXCEPT ![r] = n] /\ total = w.total + n - w.size[r]
    BY <1>3
  <2> HIDE DEF t, size, total
  <2>3. t.size = size /\ t.total = total /\ t \in Stores
    BY <1>3, <1>5, <2>1, <2>2 DEF Stores
  <2>4. /\ t.order = w.order /\ t.plans = w.plans /\ t.bound = w.bound /\ t.results = w.results
        /\ t.resultOrder = w.resultOrder /\ t.room = w.room
    BY <1>3, <2>1 DEF Stores
  <2> QED BY <1>3, <2>3, <2>4
<1> HIDE DEF t
<1>7. Stored(t) = Stored(s)
  BY <1>6 DEF Stored
<1>8. \A q \in Runs \ {r} : t.plans[q] = s.plans[q] /\ t.bound[q] = s.bound[q] /\ t.size[q] = s.size[q]
  <2>1. s.size \in [Runs -> Nat]
    BY <1>1, Fields
  <2> QED BY <1>1, <1>6, <2>1 DEF plans, bound
<1>9. RunSize(t, r) = n /\ \A q \in Runs \ {r} : RunSize(t, q) = RunSize(s, q)
  <2>1. RunSize(t, r) = RunSize(w, r)
    BY <1>3, <1>6, SameSize
  <2>2. \A q \in Runs \ {r} : RunSize(t, q) = RunSize(s, q)
    BY <1>6, <1>8, SameSize
  <2> QED BY <2>1, <2>2 DEF n
<1>10. Shape(t)
  <2>1. IsInjective(t.order) /\ IsInjective(t.resultOrder)
    BY <1>6 DEF Shape, Sound
  <2>2. \A q \in Runs : Drop(t.resultOrder, Others(q)) = Keyed(q, t.results[q])
    BY <1>6 DEF Shape, Sound
  <2>3. \A q \in Runs \ Stored(t) :
          t.plans[q] = {} /\ t.bound[q] = {} /\ t.results[q] = <<>> /\ t.size[q] = 0
    BY <1>6, <1>7, <1>8 DEF Shape, Sound
  <2> QED BY <1>6, <2>1, <2>2, <2>3 DEF Shape
<1>11. Totals(t)
  <2>1. \A q \in Stored(s) \ {r} : RunSize(t, q) = RunSize(s, q)
    BY <1>1, <1>9
  <2> QED BY <1>4, <1>6, <1>7, <1>9, <2>1, Resized
<1>12. Bounded(t)
  <2>1. RunSize(t, r) <= MaxRunBytes
    BY <1>9 DEF RunFits, n, w
  <2>2. \A q \in Stored(s) : RunSize(t, q) <= MaxRunBytes /\ Len(t.results[q]) <= MaxResultsPerRun
    BY <1>1, <1>6, <1>9, <2>1 DEF Bounded, Sound
  <2> QED BY <1>6, <1>7, <2>2 DEF Bounded, Sound
<1>13. Sound(t)
  BY <1>10, <1>11, <1>12 DEF Sound
<1> QED BY <1>6, <1>7, <1>13 DEF t, bound, w

\* The global order after the keys of some results are discarded with these results.
LEMMA KeysDropped ==
  ASSUME NEW s, Shape(s), NEW r \in Runs, NEW keys, NEW ids,
         \A x \in Results : x \in ids <=> <<r, x>> \in keys
  PROVE  Drop(Drop(s.resultOrder, keys), Others(r)) = Keyed(r, Drop(s.results[r], ids))
<1>1. s.resultOrder \in Seq(Runs \X Results) /\ s.results[r] \in Seq(Results)
  BY Fields DEF Shape
<1>2. Drop(Drop(s.resultOrder, keys), Others(r)) = Drop(s.resultOrder, keys \cup Others(r))
  BY <1>1, DropDrop
<1>3. Drop(Drop(s.resultOrder, Others(r)), keys) = Drop(s.resultOrder, Others(r) \cup keys)
  BY <1>1, DropDrop
<1>4. keys \cup Others(r) = Others(r) \cup keys
  OBVIOUS
<1>5. Drop(Keyed(r, s.results[r]), keys) = Keyed(r, Drop(s.results[r], ids))
  BY <1>1, DropKeyed
<1> QED BY <1>2, <1>3, <1>4, <1>5 DEF Shape

LEMMA Forgotten ==
  ASSUME NEW s, Sound(s), NEW gone \in SUBSET Stored(s)
  PROVE  LET t == Forget(s, gone)
         IN  /\ Sound(t)
             /\ Stored(t) = Stored(s) \ gone
             /\ t.order = Drop(s.order, gone)
             /\ t.room = s.room
             /\ t.bound = [r \in Runs |-> IF r \in gone THEN {} ELSE s.bound[r]]
             /\ t.results = [r \in Runs |-> IF r \in gone THEN <<>> ELSE s.results[r]]
<1> DEFINE t == Forget(s, gone)
           order == Drop(s.order, gone)
           plans == [r \in Runs |-> IF r \in gone THEN {} ELSE s.plans[r]]
           bound == [r \in Runs |-> IF r \in gone THEN {} ELSE s.bound[r]]
           results == [r \in Runs |-> IF r \in gone THEN <<>> ELSE s.results[r]]
           size == [r \in Runs |-> IF r \in gone THEN 0 ELSE s.size[r]]
           total == s.total - SumFunctionOnSet(s.size, gone)
           keys == {k \in gone \X Results : k[2] \in ToSet(s.results[k[1]])}
           listed == Drop(s.resultOrder, keys)
           rest == Stored(s) \ gone
<1>1. /\ s \in Stores /\ s.order \in Seq(Runs) /\ s.resultOrder \in Seq(Runs \X Results)
      /\ s.plans \in [Runs -> SUBSET Plans] /\ s.bound \in [Runs -> SUBSET Plans]
      /\ s.results \in [Runs -> Seq(Results)] /\ s.size \in [Runs -> Nat]
      /\ s.total \in Nat /\ s.room \in 0 .. TableRoom
      /\ Stored(s) \subseteq Runs /\ IsFiniteSet(Stored(s)) /\ gone \subseteq Runs
      /\ IsInjective(s.order) /\ IsInjective(s.resultOrder)
  BY Fields DEF Sound, Shape
<1>2. /\ order \in Seq(Runs) /\ ToSet(order) = ToSet(s.order) \ gone /\ IsInjective(order)
  BY <1>1, DropType
<1>3. /\ listed \in Seq(Runs \X Results) /\ IsInjective(listed)
      /\ Len(listed) <= Len(s.resultOrder)
  <2> HIDE DEF keys
  <2> QED BY <1>1, DropType
<1>4. plans \in [Runs -> SUBSET Plans] /\ bound \in [Runs -> SUBSET Plans]
  BY <1>1
<1>5. results \in [Runs -> Seq(Results)]
  <2>1. <<>> \in Seq(Results)
    BY EmptySeq
  <2> QED BY <1>1, <2>1
<1>6. size \in [Runs -> Nat]
  BY <1>1
<1>7. total = SumFunctionOnSet(s.size, rest) /\ total \in Nat
  <2> DEFINE a == SumFunctionOnSet(s.size, gone)
             b == SumFunctionOnSet(s.size, rest)
  <2>1. \A q \in Stored(s) : s.size[q] \in Nat
    BY <1>1
  <2>2. /\ a \in Nat /\ b \in Nat /\ SumFunctionOnSet(s.size, Stored(s)) = a + b
    <3> DEFINE f == s.size
               S == Stored(s)
    <3>1. IsFiniteSet(S) /\ gone \in SUBSET S /\ \A q \in S : f[q] \in Nat
      BY <1>1, <2>1
    <3> HIDE DEF f, S
    <3>2. /\ SumFunctionOnSet(f, gone) \in Nat /\ SumFunctionOnSet(f, S \ gone) \in Nat
          /\ SumFunctionOnSet(f, S) = SumFunctionOnSet(f, gone) + SumFunctionOnSet(f, S \ gone)
      BY <3>1, SumSplit
    <3> QED BY <3>2 DEF f, S
  <2>3. s.total = SumFunctionOnSet(s.size, Stored(s)) /\ total = s.total - a
    BY DEF Totals, Sound
  <2> HIDE DEF a, b, total
  <2>4. total = b /\ total \in Nat
    BY <2>2, <2>3
  <2> QED BY <2>4 DEF b
<1> HIDE DEF order, plans, bound, results, size, total, listed
<1>8. /\ t \in Stores /\ t.order = order /\ t.plans = plans /\ t.bound = bound
      /\ t.results = results /\ t.size = size /\ t.resultOrder = listed
      /\ t.total = total /\ t.room = s.room
  <2>1. t = [s EXCEPT !.order = order, !.plans = plans, !.bound = bound, !.results = results,
                      !.size = size, !.resultOrder = listed, !.total = total]
    BY DEF Forget, DiscardKeys, order, plans, bound, results, size, total, listed
  <2> HIDE DEF t
  <2> QED BY <1>1, <1>2, <1>3, <1>4, <1>5, <1>6, <1>7, <2>1 DEF Stores
<1> HIDE DEF t
<1>9. Stored(t) = rest
  BY <1>2, <1>8 DEF Stored
<1>10. \A q \in Runs \ gone : t.plans[q] = s.plans[q] /\ t.bound[q] = s.bound[q]
                              /\ t.results[q] = s.results[q] /\ t.size[q] = s.size[q]
  BY <1>8 DEF plans, bound, results, size
<1>11. \A q \in gone : t.plans[q] = {} /\ t.bound[q] = {} /\ t.results[q] = <<>> /\ t.size[q] = 0
  BY <1>1, <1>8 DEF plans, bound, results, size
<1>12. \A q \in rest : RunSize(t, q) = RunSize(s, q)
  BY <1>1, <1>10, SameSize
<1>13. Shape(t)
  <2>1. IsInjective(t.order) /\ IsInjective(t.resultOrder)
    BY <1>2, <1>3, <1>8
  <2>2. ASSUME NEW q \in Runs
        PROVE  Drop(t.resultOrder, Others(q)) = Keyed(q, t.results[q])
    <3> DEFINE ids == IF q \in gone THEN ToSet(s.results[q]) ELSE {}
    <3>1. \A x \in Results : x \in ids <=> <<q, x>> \in keys
      OBVIOUS
    <3> HIDE DEF keys
    <3>2. Drop(listed, Others(q)) = Keyed(q, Drop(s.results[q], ids))
      <4> HIDE DEF ids
      <4> QED BY <3>1, KeysDropped DEF listed, Sound
    <3>3. Drop(s.results[q], ids) = t.results[q]
      <4>1. s.results[q] \in Seq(Results)
        BY <1>1
      <4>2. CASE q \in gone
        BY <1>11, <4>1, <4>2, DropAll
      <4>3. CASE q \notin gone
        BY <1>10, <4>1, <4>3, DropNone
      <4> QED BY <4>2, <4>3
    <3> QED BY <1>8, <3>2, <3>3
  <2>3. \A q \in Runs \ Stored(t) :
          t.plans[q] = {} /\ t.bound[q] = {} /\ t.results[q] = <<>> /\ t.size[q] = 0
    BY <1>9, <1>10, <1>11 DEF Shape, Sound
  <2> QED BY <1>8, <2>1, <2>2, <2>3 DEF Shape
<1>14. Totals(t)
  <2>1. \A q \in rest : t.size[q] = RunSize(t, q)
    BY <1>1, <1>10, <1>12 DEF Totals, Sound
  <2>2. SumFunctionOnSet(t.size, rest) = SumFunctionOnSet(s.size, rest)
    <3>1. IsFiniteSet(rest) /\ \A q \in rest : s.size[q] \in Nat /\ t.size[q] = s.size[q]
      BY <1>1, <1>10, FS_Subset
    <3> HIDE DEF rest
    <3> QED BY <3>1, SumSame
  <2> QED BY <1>7, <1>8, <1>9, <2>1, <2>2 DEF Totals
<1>15. Bounded(t)
  <2>1. Len(t.resultOrder) <= MaxTotalResults
    <3>1. Len(listed) \in Nat /\ Len(s.resultOrder) \in Nat /\ MaxTotalResults \in Nat
      BY <1>1, <1>3, LenProperties, RunStoreAssumption
    <3>2. Len(s.resultOrder) <= MaxTotalResults
      BY DEF Bounded, Sound
    <3> QED BY <1>3, <1>8, <3>1, <3>2
  <2>2. \A q \in rest : RunSize(t, q) <= MaxRunBytes /\ Len(t.results[q]) <= MaxResultsPerRun
    BY <1>1, <1>10, <1>12 DEF Bounded, Sound
  <2> QED BY <1>9, <2>1, <2>2 DEF Bounded
<1>16. Sound(t)
  BY <1>13, <1>14, <1>15 DEF Sound
<1> QED BY <1>8, <1>9, <1>16 DEF t, order, bound, results

\* Eviction takes the k oldest runs and stops as soon as everything fits.
LEMMA Evicted ==
  ASSUME NEW s, Sound(s)
  PROVE  \E k \in 0 .. Len(s.order) :
           LET t == Evict(s)
               gone == Oldest(s, k)
           IN  /\ Sound(t) /\ Fits(t)
               /\ gone \subseteq Stored(s)
               /\ Stored(t) = Stored(s) \ gone
               /\ t.order = SubSeq(s.order, k + 1, Len(s.order))
               /\ t.bound = [r \in Runs |-> IF r \in gone THEN {} ELSE s.bound[r]]
               /\ t.results = [r \in Runs |-> IF r \in gone THEN <<>> ELSE s.results[r]]
<1> DEFINE n == Len(s.order)
           After(i) == Forget(s, Oldest(s, i))
           S == {i \in 0 .. n : Fits(After(i))}
<1>1. /\ s \in Stores /\ s.order \in Seq(Runs) /\ IsInjective(s.order) /\ n \in Nat
      /\ s.room \in 0 .. TableRoom
  BY Fields, LenProperties DEF Sound, Shape
<1>2. \A i \in 0 .. n : Oldest(s, i) \in SUBSET Stored(s)
  BY <1>1, SubSeqElements DEF Oldest, Stored
<1>3. Oldest(s, n) = Stored(s)
  <2>1. SubSeq(s.order, 1, n) = s.order
    BY <1>1, SubSeqFull
  <2> QED BY <2>1 DEF Oldest, Stored
<1>4. Fits(After(n))
  <2> DEFINE t == Forget(s, Stored(s))
  <2>1. Sound(t) /\ Stored(t) = {} /\ t.room = s.room
    <3> DEFINE all == Stored(s)
    <3>1. all \in SUBSET Stored(s) /\ Stored(s) \ all = {}
      OBVIOUS
    <3> HIDE DEF all
    <3>2. LET u == Forget(s, all)
          IN  Sound(u) /\ Stored(u) = Stored(s) \ all /\ u.room = s.room
      BY <3>1, Forgotten
    <3> QED BY <3>1, <3>2 DEF all
  <2> HIDE DEF t
  <2>2. t \in Stores /\ t.order \in Seq(Runs) /\ t.resultOrder \in Seq(Runs \X Results)
        /\ IsInjective(t.order) /\ IsInjective(t.resultOrder)
    BY <2>1, Fields DEF Sound, Shape
  <2>3. Len(t.order) = 0
    BY <2>1, <2>2, InjectiveLength, FS_EmptySet DEF Stored
  <2>4. Len(t.resultOrder) = 0
    <3>1. \A q \in Runs : t.results[q] = <<>>
      BY <2>1 DEF Sound, Shape
    <3>2. ToSet(t.resultOrder) = {}
      BY <2>1, <3>1, KeysOfRuns, ToSetEmpty DEF Sound
    <3> QED BY <2>2, <3>2, InjectiveLength, FS_EmptySet
  <2>5. t.total = 0 /\ Content(t) = 0
    <3>1. t.total = 0
      BY <2>1, SumEmpty DEF Sound, Totals
    <3> QED BY <2>1, <3>1, ContentIsTotal DEF Sound
  <2>6. t.room \in Nat /\ t.room <= MaxMemory
    <3>1. TableRoom \in Nat /\ MaxMemory \in Nat /\ TableRoom <= MaxMemory
      BY RunStoreAssumption
    <3> QED BY <1>1, <2>1, <3>1
  <2>7. Memory(t) <= MaxMemory
    BY <2>4, <2>5, <2>6 DEF Memory
  <2>8. MaxRuns \in Nat /\ MaxStoreBytes \in Nat
    BY RunStoreAssumption
  <2>9. Fits(t)
    BY <2>3, <2>5, <2>7, <2>8 DEF Fits
  <2> QED BY <1>3, <2>9 DEF t
<1> DEFINE k == Min(S)
<1>5. k \in S
  <2>1. n \in S /\ S \in SUBSET Nat
    <3> DEFINE Fit(i) == Fits(After(i))
    <3>1. Fit(n) /\ n \in 0 .. n
      BY <1>1, <1>4
    <3>2. S = {i \in 0 .. n : Fit(i)}
      OBVIOUS
    <3> HIDE DEF Fit, S
    <3>3. 0 .. n \subseteq Nat
      OBVIOUS
    <3> QED BY <3>1, <3>2, <3>3
  <2> HIDE DEF S
  <2> QED BY <2>1, LeastNatural
<1>6. Evict(s) = After(k)
  BY DEF Evict
<1>7. k \in 0 .. n /\ Fits(After(k))
  <2> HIDE DEF After, k
  <2> QED BY <1>5
<1> HIDE DEF k, S
<1> DEFINE gone == Oldest(s, k)
           t == Forget(s, gone)
<1>8. gone \in SUBSET Stored(s)
  BY <1>2, <1>7
<1>9. t.order = SubSeq(s.order, k + 1, n)
  <2>1. Drop(s.order, ToSet(SubSeq(s.order, 1, k))) = SubSeq(s.order, k + 1, n)
    BY <1>1, <1>7, DropPrefix
  <2> HIDE DEF n
  <2>2. t.order = Drop(s.order, gone)
    <3> HIDE DEF gone
    <3> QED BY <1>8, Forgotten
  <2> QED BY <2>1, <2>2 DEF Oldest
<1>10. /\ Sound(t) /\ Stored(t) = Stored(s) \ gone
       /\ t.bound = [r \in Runs |-> IF r \in gone THEN {} ELSE s.bound[r]]
       /\ t.results = [r \in Runs |-> IF r \in gone THEN <<>> ELSE s.results[r]]
  <2> HIDE DEF gone
  <2> QED BY <1>8, Forgotten
<1>11. Evict(s) = t /\ Fits(t)
  BY <1>6, <1>7
<1> HIDE DEF t
<1> QED BY <1>7, <1>8, <1>9, <1>10, <1>11

LEMMA ContainsElement ==
  ASSUME NEW T, NEW q \in Seq(T), NEW e
  PROVE  Contains(q, e) <=> e \in ToSet(q)
<1>1. DOMAIN q = 1 .. Len(q)
  BY LenProperties
<1> QED BY <1>1 DEF Contains, ToSet

\* The results of a run after one more: the oldest ones give way to the bound.
LEMMA NewResults ==
  ASSUME NEW T, NEW old \in Seq(T), IsInjective(old), NEW m \in Nat \ {0}, Len(old) <= m,
         NEW id \in T
  PROVE  LET all == IF Contains(old, id) THEN old ELSE Append(old, id)
             extra == IF Len(all) > m THEN Len(all) - m ELSE 0
             new == SubSeq(all, extra + 1, Len(all))
             lost == ToSet(old) \ ToSet(new)
         IN  /\ new \in Seq(T) /\ Len(new) <= m
             /\ Contains(old, id) => new = old /\ lost = {}
             /\ ~ Contains(old, id) => new = Append(Drop(old, lost), id) /\ id \notin ToSet(old)
<1> DEFINE all == IF Contains(old, id) THEN old ELSE Append(old, id)
           n == Len(all)
           extra == IF n > m THEN n - m ELSE 0
           new == SubSeq(all, extra + 1, n)
           lost == ToSet(old) \ ToSet(new)
<1>1. Len(old) \in Nat /\ (Contains(old, id) <=> id \in ToSet(old))
  BY ContainsElement, LenProperties
<1>2. CASE Contains(old, id)
  <2>1. all = old /\ n = Len(old)
    BY <1>2
  <2>2. extra = 0
    <3> HIDE DEF n
    <3> QED BY <1>1, <2>1
  <2>3. SubSeq(old, 1, Len(old)) = old
    BY <1>1, SubSeqFull
  <2>4. new = old
    <3> HIDE DEF all, n, extra
    <3> QED BY <2>1, <2>2, <2>3
  <2>5. lost = {}
    <3> HIDE DEF new
    <3> QED BY <2>4
  <2> HIDE DEF new, lost
  <2> QED BY <1>2, <2>4, <2>5 DEF new, lost
<1>3. CASE ~ Contains(old, id)
  <2>1. all = Append(old, id)
    BY <1>3
  <2>2. /\ all \in Seq(T) /\ n = Len(old) + 1 /\ ToSet(all) = ToSet(old) \cup {id}
        /\ IsInjective(all) /\ \A i \in 1 .. Len(old) : all[i] = old[i]
    <3> HIDE DEF all
    <3> QED BY <1>1, <1>3, <2>1, AppendProperties, ToSetAppend
  <2> HIDE DEF all
  <2>3. extra \in 0 .. n /\ extra <= Len(old) /\ n - extra <= m /\ extra \in Nat
    <3> HIDE DEF n
    <3> QED BY <1>1, <2>2
  <2> HIDE DEF n, extra
  <2> DEFINE front == ToSet(SubSeq(all, 1, extra))
  <2>4. Drop(all, front) = new
    BY <2>2, <2>3, DropPrefix DEF n
  <2>5. new \in Seq(T) /\ Len(new) = n - extra
    BY <2>2, <2>3, SubSeqRest DEF n
  <2>6. front \subseteq ToSet(old) /\ id \notin front
    <3>1. front = {all[i] : i \in 1 .. extra}
      BY <2>2, <2>3, SubSeqElements DEF n
    <3>2. \A i \in 1 .. extra : i \in 1 .. Len(old) /\ all[i] = old[i]
      BY <1>1, <2>2, <2>3
    <3>3. \A i \in 1 .. Len(old) : old[i] \in ToSet(old)
      BY LenProperties DEF ToSet
    <3> HIDE DEF front
    <3> QED BY <1>1, <1>3, <3>1, <3>2, <3>3
  <2> HIDE DEF front
  <2>7. ToSet(new) = ToSet(all) \ front
    BY <2>2, <2>4, DropType
  <2> HIDE DEF new
  <2>8. lost = front
    BY <1>1, <1>3, <2>2, <2>6, <2>7
  <2> HIDE DEF lost
  <2>9. Drop(Append(old, id), front) = Append(Drop(old, front), id)
    BY <2>6, DropAppend
  <2>10. new = Append(Drop(old, lost), id)
    BY <2>1, <2>4, <2>8, <2>9
  <2>11. Len(new) <= m
    BY <2>3, <2>5
  <2> QED BY <1>1, <1>3, <2>5, <2>10, <2>11 DEF new, lost, all, n, extra
<1> QED BY <1>2, <1>3

\* StoreResult before the global bound is enforced.
Obtain(s, r, id) ==
  LET t == Resize(WithResult(s, r, id), r)
  IN  [t EXCEPT !.resultOrder = Listed(s, t, r, id)]

LEMMA ObtainFields ==
  ASSUME NEW s, Sound(s), NEW r \in Stored(s), NEW id \in Results,
         CanStoreResult(s, r, id)
  PROVE  LET u == Obtain(s, r, id)
             old == s.results[r]
             new == u.results[r]
             lost == ToSet(old) \ ToSet(new)
             kept == Drop(s.resultOrder, {r} \X lost)
         IN  /\ u \in Stores
             /\ u.order = s.order /\ u.plans = s.plans /\ u.bound = s.bound
             /\ u.results = [s.results EXCEPT ![r] = new]
             /\ u.size = [s.size EXCEPT ![r] = RunSize(u, r)]
             /\ u.total = s.total + RunSize(u, r) - s.size[r]
             /\ u.resultOrder = IF Contains(old, id) THEN kept ELSE Append(kept, <<r, id>>)
             /\ Len(new) <= MaxResultsPerRun
             /\ RunSize(u, r) <= MaxRunBytes
             /\ Contains(old, id) => new = old /\ lost = {}
             /\ ~ Contains(old, id) => new = Append(Drop(old, lost), id) /\ id \notin ToSet(old)
<1> DEFINE u == Obtain(s, r, id)
           old == s.results[r]
           all == IF Contains(old, id) THEN old ELSE Append(old, id)
           extra == IF Len(all) > MaxResultsPerRun THEN Len(all) - MaxResultsPerRun ELSE 0
           new == SubSeq(all, extra + 1, Len(all))
           lost == ToSet(old) \ ToSet(new)
           kept == Drop(s.resultOrder, {r} \X lost)
           list == IF Contains(old, id) THEN kept ELSE Append(kept, <<r, id>>)
           w == WithResult(s, r, id)
           t == Resize(w, r)
           n == RunSize(w, r)
           results == [s.results EXCEPT ![r] = new]
           size == [s.size EXCEPT ![r] = n]
           total == s.total + n - s.size[r]
<1>1. /\ s \in Stores /\ s.results \in [Runs -> Seq(Results)] /\ r \in Runs
      /\ old \in Seq(Results) /\ s.resultOrder \in Seq(Runs \X Results)
      /\ s.size \in [Runs -> Nat]
  BY Fields DEF Sound, Shape
<1>2. IsInjective(old) /\ Len(old) <= MaxResultsPerRun /\ MaxResultsPerRun \in Nat \ {0}
  <2>1. IsInjective(old)
    BY <1>1, KeysOfRuns DEF Sound
  <2> QED BY <2>1, RunStoreAssumption DEF Sound, Bounded
<1>3. /\ new \in Seq(Results) /\ Len(new) <= MaxResultsPerRun
      /\ Contains(old, id) => new = old /\ lost = {}
      /\ ~ Contains(old, id) => new = Append(Drop(old, lost), id) /\ id \notin ToSet(old)
  <2> HIDE DEF old
  <2> QED BY <1>1, <1>2, NewResults
<1> HIDE DEF new
<1>4. results \in [Runs -> Seq(Results)]
  BY <1>1, <1>3
<1>5. w = [s EXCEPT !.results[r] = new]
  BY DEF WithResult, new
<1> HIDE DEF w, extra, all
<1>6. /\ w \in Stores /\ w.order = s.order /\ w.plans = s.plans /\ w.bound = s.bound
      /\ w.results = results /\ w.size = s.size /\ w.resultOrder = s.resultOrder
      /\ w.total = s.total /\ w.room = s.room
  <2>1. results = [s.results EXCEPT ![r] = new]
    OBVIOUS
  <2> HIDE DEF results
  <2> QED BY <1>1, <1>4, <1>5, <2>1 DEF Stores
<1>7. n \in Nat
  BY <1>1, <1>6, SizeType
<1>8. size \in [Runs -> Nat] /\ total \in Nat
  <2> HIDE DEF n
  <2> QED BY <1>7, ResizedType
<1>9. t = [w EXCEPT !.size[r] = n, !.total = w.total + n - w.size[r]]
  BY DEF Resize
<1> HIDE DEF n, results
<1>10. size = [w.size EXCEPT ![r] = n] /\ total = w.total + n - w.size[r]
  BY <1>6
<1> HIDE DEF t, size, total
<1>11. /\ t.size = size /\ t.total = total /\ t \in Stores
       /\ t.order = w.order /\ t.plans = w.plans /\ t.bound = w.bound /\ t.results = w.results
       /\ t.resultOrder = w.resultOrder /\ t.room = w.room
  BY <1>6, <1>8, <1>9, <1>10 DEF Stores
<1>12. t.results[r] = new
  BY <1>1, <1>6, <1>11 DEF results
<1>13. Listed(s, t, r, id) = list
  BY <1>12 DEF Listed
<1>14. list \in Seq(Runs \X Results)
  <2>1. kept \in Seq(Runs \X Results)
    <3> HIDE DEF lost
    <3> QED BY <1>1, DropType
  <2>2. <<r, id>> \in Runs \X Results
    BY <1>1
  <2> HIDE DEF kept, old
  <2> QED BY <2>1, <2>2, AppendProperties
<1> HIDE DEF list
<1>15. u = [t EXCEPT !.resultOrder = list]
  BY <1>13 DEF Obtain, t, w
<1> HIDE DEF u
<1>16. /\ u \in Stores /\ u.order = t.order /\ u.plans = t.plans /\ u.bound = t.bound
       /\ u.results = t.results /\ u.size = t.size /\ u.resultOrder = list
       /\ u.total = t.total /\ u.room = t.room
  BY <1>11, <1>14, <1>15 DEF Stores
<1>17. RunSize(u, r) = n
  BY <1>11, <1>16, SameSize DEF n
<1>18. u.results[r] = new
  BY <1>12, <1>16
<1>19. RunSize(u, r) <= MaxRunBytes
  BY <1>17 DEF CanStoreResult, RunFits, n, w
<1>20. u.size = [s.size EXCEPT ![r] = RunSize(u, r)]
  BY <1>11, <1>16, <1>17 DEF size
<1>21. u.total = s.total + RunSize(u, r) - s.size[r]
  BY <1>11, <1>16, <1>17 DEF total
<1>22. u.results = [s.results EXCEPT ![r] = new]
  BY <1>6, <1>11, <1>16 DEF results
<1>23. u.resultOrder = list /\ u.order = s.order /\ u.plans = s.plans /\ u.bound = s.bound
  BY <1>6, <1>11, <1>16
<1> HIDE DEF old, kept, lost
<1> QED
  <2>1. u = Obtain(s, r, id) /\ old = s.results[r] /\ lost = ToSet(old) \ ToSet(new)
        /\ kept = Drop(s.resultOrder, {r} \X lost)
    BY DEF u, old, lost, kept
  <2>2. list = IF Contains(old, id) THEN kept ELSE Append(kept, <<r, id>>)
    BY DEF list
  <2> QED BY <1>3, <1>16, <1>18, <1>19, <1>20, <1>21, <1>22, <1>23, <2>1, <2>2

LEMMA Obtained ==
  ASSUME NEW s, Sound(s), NEW r \in Stored(s), NEW id \in Results,
         CanStoreResult(s, r, id)
  PROVE  LET u == Obtain(s, r, id)
         IN  /\ Shape(u) /\ Totals(u)
             /\ \A q \in Stored(u) :
                  RunSize(u, q) <= MaxRunBytes /\ Len(u.results[q]) <= MaxResultsPerRun
             /\ u.order = s.order /\ u.bound = s.bound
             /\ \A q \in Runs \ {r} : u.results[q] = s.results[q]
<1> DEFINE u == Obtain(s, r, id)
           old == s.results[r]
           new == u.results[r]
           lost == ToSet(old) \ ToSet(new)
           gone == {r} \X lost
           kept == Drop(s.resultOrder, gone)
<1>1. /\ s \in Stores /\ s.results \in [Runs -> Seq(Results)] /\ r \in Runs
      /\ old \in Seq(Results) /\ s.resultOrder \in Seq(Runs \X Results)
      /\ s.size \in [Runs -> Nat] /\ Stored(s) \subseteq Runs
      /\ IsInjective(s.order) /\ IsInjective(s.resultOrder) /\ Shape(s)
  BY Fields DEF Sound, Shape
<1>2. /\ u \in Stores
      /\ u.order = s.order /\ u.plans = s.plans /\ u.bound = s.bound
      /\ u.results = [s.results EXCEPT ![r] = new]
      /\ u.size = [s.size EXCEPT ![r] = RunSize(u, r)]
      /\ u.total = s.total + RunSize(u, r) - s.size[r]
      /\ u.resultOrder = IF Contains(old, id) THEN kept ELSE Append(kept, <<r, id>>)
      /\ Len(new) <= MaxResultsPerRun
      /\ RunSize(u, r) <= MaxRunBytes
      /\ Contains(old, id) => new = old /\ lost = {}
      /\ ~ Contains(old, id) => new = Append(Drop(old, lost), id) /\ id \notin ToSet(old)
  <2> HIDE DEF u
  <2> QED BY ObtainFields DEF u
<1> HIDE DEF u
<1>3. Stored(u) = Stored(s)
  BY <1>2 DEF Stored
<1>4. \A q \in Runs \ {r} : u.results[q] = s.results[q] /\ u.size[q] = s.size[q]
  BY <1>1, <1>2
<1>5. \A q \in Runs \ {r} : RunSize(u, q) = RunSize(s, q)
  BY <1>2, <1>4, SameSize
<1>6. Totals(u)
  <2>1. RunSize(u, r) \in Nat
    BY <1>1, <1>2, SizeType
  <2>2. \A q \in Stored(s) \ {r} : RunSize(u, q) = RunSize(s, q)
    BY <1>1, <1>5
  <2> HIDE DEF new, old, kept
  <2> QED BY <1>2, <1>3, <2>1, <2>2, Resized
<1>7. ASSUME NEW q \in Stored(u)
      PROVE  RunSize(u, q) <= MaxRunBytes /\ Len(u.results[q]) <= MaxResultsPerRun
  <2>1. CASE q = r
    BY <1>2, <2>1
  <2>2. CASE q # r
    BY <1>1, <1>3, <1>4, <1>5, <2>2 DEF Sound, Bounded
  <2> QED BY <2>1, <2>2
<1> HIDE DEF new, lost
<1>8. /\ kept \in Seq(Runs \X Results) /\ IsInjective(kept)
      /\ ToSet(kept) = ToSet(s.resultOrder) \ gone
  <2> HIDE DEF gone
  <2> QED BY <1>1, DropType
<1>10. \A q \in Runs \ {r} : Drop(kept, Others(q)) = Keyed(q, s.results[q])
  <2> SUFFICES ASSUME NEW q \in Runs \ {r}
               PROVE  Drop(kept, Others(q)) = Keyed(q, s.results[q])
    OBVIOUS
  <2> DEFINE none == {}
  <2>1. q \in Runs /\ \A x \in Results : x \in none <=> <<q, x>> \in gone
    OBVIOUS
  <2>2. s.results[q] \in Seq(Results) /\ ToSet(s.results[q]) \cap none = {}
    BY <1>1
  <2> HIDE DEF gone, none
  <2>3. Shape(s)
    BY <1>1
  <2>4. Drop(Drop(s.resultOrder, gone), Others(q)) = Keyed(q, Drop(s.results[q], none))
    BY <2>1, <2>3, KeysDropped
  <2>5. Drop(s.results[q], none) = s.results[q]
    BY <2>2, DropNone
  <2> QED BY <2>4, <2>5 DEF kept
<1>11. Drop(kept, Others(r)) = Keyed(r, Drop(old, lost))
  <2>1. \A x \in Results : x \in lost <=> <<r, x>> \in gone
    OBVIOUS
  <2> HIDE DEF gone
  <2> QED BY <1>1, <2>1, KeysDropped DEF old
<1>12. /\ IsInjective(u.resultOrder)
       /\ \A q \in Runs : Drop(u.resultOrder, Others(q)) = Keyed(q, u.results[q])
  <2>1. CASE Contains(old, id)
    <3>1. u.resultOrder = kept /\ new = old /\ lost = {}
      BY <1>2, <2>1
    <3>2. Drop(old, lost) = old
      <4>1. ToSet(old) \cap lost = {}
        BY <3>1
      <4> HIDE DEF old
      <4> QED BY <1>1, <4>1, DropNone
    <3>3. Drop(u.resultOrder, Others(r)) = Keyed(r, u.results[r])
      BY <1>11, <3>1, <3>2 DEF new
    <3>4. \A q \in Runs \ {r} : Drop(u.resultOrder, Others(q)) = Keyed(q, u.results[q])
      BY <1>4, <1>10, <3>1
    <3> HIDE DEF kept
    <3> QED BY <1>8, <3>1, <3>3, <3>4
  <2>2. CASE ~ Contains(old, id)
    <3>1. /\ u.resultOrder = Append(kept, <<r, id>>)
          /\ new = Append(Drop(old, lost), id) /\ id \notin ToSet(old)
      BY <1>2, <2>2
    <3>2. <<r, id>> \in Runs \X Results /\ <<r, id>> \notin Others(r)
          /\ \A q \in Runs \ {r} : <<r, id>> \in Others(q)
      BY <1>1 DEF Others
    <3>3. <<r, id>> \notin ToSet(kept)
      <4>1. <<r, id>> \notin ToSet(s.resultOrder)
        BY <1>1, <3>1, KeysOfRuns
      <4> HIDE DEF kept
      <4> QED BY <1>8, <4>1
    <3> HIDE DEF kept
    <3> DEFINE T == Runs \X Results
               key == <<r, id>>
    <3>9. kept \in Seq(T) /\ key \in T /\ u.resultOrder = Append(kept, key)
      BY <1>8, <3>1, <3>2
    <3>4. IsInjective(u.resultOrder)
      <4> HIDE DEF T, key
      <4>1. key \notin ToSet(kept) /\ IsInjective(kept)
        BY <1>8, <3>3 DEF key
      <4> QED BY <3>9, <4>1, ToSetAppend
    <3>5. \A q \in Runs : Drop(u.resultOrder, Others(q))
                            = IF key \in Others(q) THEN Drop(kept, Others(q))
                              ELSE Append(Drop(kept, Others(q)), key)
      <4> HIDE DEF T, key
      <4> QED BY <3>9, DropAppend
    <3>6. \A q \in Runs \ {r} : Drop(u.resultOrder, Others(q)) = Keyed(q, u.results[q])
      BY <1>4, <1>10, <3>2, <3>5
    <3>7. Keyed(r, Append(Drop(old, lost), id)) = Append(Keyed(r, Drop(old, lost)), <<r, id>>)
      <4>1. Drop(old, lost) \in Seq(Results)
        <5> HIDE DEF old
        <5> QED BY <1>1, DropType
      <4> QED BY <4>1, KeyedAppend
    <3>8. Drop(u.resultOrder, Others(r)) = Keyed(r, u.results[r])
      BY <1>1, <1>11, <3>1, <3>2, <3>5, <3>7 DEF new
    <3> QED BY <3>4, <3>6, <3>8
  <2> QED BY <2>1, <2>2
<1>13. Shape(u)
  <2>1. \A q \in Runs \ Stored(u) :
          u.plans[q] = {} /\ u.bound[q] = {} /\ u.results[q] = <<>> /\ u.size[q] = 0
    BY <1>2, <1>3, <1>4 DEF Shape, Sound
  <2>2. IsInjective(u.order)
    BY <1>1, <1>2
  <2> QED BY <1>2, <1>12, <2>1, <2>2 DEF Shape
<1> QED BY <1>2, <1>4, <1>6, <1>7, <1>13 DEF u

\* The sum of the sizes when those of the runs in V change.
LEMMA SumChanges ==
  ASSUME NEW f \in [Runs -> Nat], NEW g \in [Runs -> Nat], NEW S \in SUBSET Runs,
         NEW V \in SUBSET S, \A q \in S \ V : g[q] = f[q]
  PROVE  /\ SumFunctionOnSet(g, S) \in Nat
         /\ SumFunctionOnSet(g, S)
              = SumFunctionOnSet(f, S) + SumFunctionOnSet(g, V) - SumFunctionOnSet(f, V)
<1> DEFINE Rest == S \ V
<1>1. IsFiniteSet(S) /\ IsFiniteSet(Rest)
  BY FS_Subset, RunStoreAssumption
<1>2. \A h \in [Runs -> Nat] :
        /\ SumFunctionOnSet(h, S) \in Nat
        /\ SumFunctionOnSet(h, V) \in Nat
        /\ SumFunctionOnSet(h, Rest) \in Nat
        /\ SumFunctionOnSet(h, S) = SumFunctionOnSet(h, V) + SumFunctionOnSet(h, Rest)
  <2> SUFFICES ASSUME NEW h \in [Runs -> Nat]
               PROVE  /\ SumFunctionOnSet(h, S) \in Nat
                      /\ SumFunctionOnSet(h, V) \in Nat
                      /\ SumFunctionOnSet(h, Rest) \in Nat
                      /\ SumFunctionOnSet(h, S)
                           = SumFunctionOnSet(h, V) + SumFunctionOnSet(h, Rest)
    OBVIOUS
  <2>1. \A y \in S : h[y] \in Nat
    OBVIOUS
  <2>2. /\ SumFunctionOnSet(h, S) \in Nat
        /\ SumFunctionOnSet(h, V) \in Nat
        /\ SumFunctionOnSet(h, Rest) \in Nat
    BY <1>1, <2>1, SumSplit
  <2>3. SumFunctionOnSet(h, S) = SumFunctionOnSet(h, V) + SumFunctionOnSet(h, Rest)
    BY <1>1, <2>1, SumSplit
  <2> HIDE DEF Rest
  <2> QED BY <2>2, <2>3
<1>3. SumFunctionOnSet(g, Rest) = SumFunctionOnSet(f, Rest)
  <2>1. \A q \in Rest : f[q] \in Nat /\ g[q] = f[q]
    OBVIOUS
  <2> HIDE DEF Rest
  <2> QED BY <1>1, <2>1, SumSame
<1> DEFINE a == SumFunctionOnSet(f, S)
           b == SumFunctionOnSet(g, S)
           c == SumFunctionOnSet(f, V)
           d == SumFunctionOnSet(g, V)
           e == SumFunctionOnSet(f, Rest)
<1>4. /\ a \in Nat /\ b \in Nat /\ c \in Nat /\ d \in Nat /\ e \in Nat
      /\ a = c + e /\ b = d + e
  BY <1>2, <1>3
<1> HIDE DEF a, b, c, d, e
<1>5. b = a + d - c
  BY <1>4
<1> QED BY <1>4, <1>5 DEF a, b, c, d

\* The global bound leaves the newest results.
LEMMA SurplusDropped ==
  ASSUME NEW s, Shape(s)
  PROVE  LET list == Drop(s.resultOrder, Surplus(s))
         IN  /\ list \in Seq(Runs \X Results) /\ IsInjective(list)
             /\ Len(list) <= MaxTotalResults
<1> DEFINE T == Runs \X Results
           q == s.resultOrder
           n == Len(q)
           list == Drop(q, Surplus(s))
<1>1. q \in Seq(T) /\ IsInjective(q) /\ n \in Nat /\ MaxTotalResults \in Nat
  BY Fields, LenProperties, RunStoreAssumption DEF Shape
<1> HIDE DEF T, q
<1>2. list \in Seq(T) /\ IsInjective(list)
  BY <1>1, DropType
<1>3. Len(list) <= MaxTotalResults
  <2>1. CASE n > MaxTotalResults
    <3>1. Surplus(s) = ToSet(SubSeq(q, 1, n - MaxTotalResults))
      BY <2>1 DEF Surplus, q
    <3>2. n - MaxTotalResults \in 0 .. n
      BY <1>1, <2>1
    <3>3. list = SubSeq(q, (n - MaxTotalResults) + 1, n)
      BY <1>1, <3>1, <3>2, DropPrefix
    <3>4. Len(list) = n - (n - MaxTotalResults)
      BY <1>1, <3>2, <3>3, SubSeqRest
    <3> HIDE DEF n, list
    <3> QED BY <1>1, <3>4
  <2>2. CASE ~ (n > MaxTotalResults)
    <3>1. Surplus(s) = {}
      BY <2>2 DEF Surplus, q
    <3>2. list = q
      <4>1. ToSet(q) \cap Surplus(s) = {}
        BY <3>1
      <4> QED BY <1>1, <4>1, DropNone
    <3>3. n <= MaxTotalResults
      <4> HIDE DEF n
      <4> QED BY <1>1, <2>2
    <3> QED BY <3>2, <3>3
  <2> QED BY <2>1, <2>2
<1> QED BY <1>2, <1>3 DEF T, q

LEMMA Trimmed ==
  ASSUME NEW s, Shape(s), Totals(s),
         \A q \in Stored(s) :
           RunSize(s, q) <= MaxRunBytes /\ Len(s.results[q]) <= MaxResultsPerRun
  PROVE  LET t == DropResults(s)
         IN  /\ Sound(t)
             /\ t.order = s.order /\ t.bound = s.bound
             /\ \A q \in Runs : t.results[q] # <<>> => s.results[q] # <<>>
<1> DEFINE t == DropResults(s)
           lost(r) == {id \in Results : <<r, id>> \in Surplus(s)}
           shrunk == {r \in Stored(s) : lost(r) # {}}
           list == Drop(s.resultOrder, Surplus(s))
           results == [r \in Runs |-> Drop(s.results[r], lost(r))]
           w == [s EXCEPT !.resultOrder = list, !.results = results]
           size == [r \in Runs |-> IF r \in shrunk THEN RunSize(w, r) ELSE s.size[r]]
           total == s.total + SumFunctionOnSet(size, shrunk) - SumFunctionOnSet(s.size, shrunk)
<1>1. /\ s \in Stores /\ s.results \in [Runs -> Seq(Results)]
      /\ s.size \in [Runs -> Nat] /\ Stored(s) \subseteq Runs
      /\ \A q \in Runs : s.results[q] \in Seq(Results)
  BY Fields DEF Shape
<1>2. list \in Seq(Runs \X Results) /\ IsInjective(list) /\ Len(list) <= MaxTotalResults
  BY SurplusDropped
<1> HIDE DEF list
<1>3. ASSUME NEW q \in Runs
      PROVE  /\ Drop(s.results[q], lost(q)) \in Seq(Results)
             /\ Len(Drop(s.results[q], lost(q))) <= Len(s.results[q])
             /\ lost(q) = {} => Drop(s.results[q], lost(q)) = s.results[q]
  <2> DEFINE ids == lost(q)
  <2>1. s.results[q] \in Seq(Results)
    BY <1>1
  <2> HIDE DEF ids
  <2>2. Drop(s.results[q], ids) \in Seq(Results) /\ Len(Drop(s.results[q], ids)) <= Len(s.results[q])
    BY <2>1, DropType
  <2>3. ASSUME ids = {} PROVE Drop(s.results[q], ids) = s.results[q]
    <3>1. ToSet(s.results[q]) \cap ids = {}
      BY <2>3
    <3> QED BY <2>1, <3>1, DropNone
  <2> QED BY <2>2, <2>3 DEF ids
<1>4. ASSUME NEW q \in Runs
      PROVE  Drop(list, Others(q)) = Keyed(q, Drop(s.results[q], lost(q)))
  <2> DEFINE ids == lost(q)
  <2>1. \A x \in Results : x \in ids <=> <<q, x>> \in Surplus(s)
    OBVIOUS
  <2> HIDE DEF ids
  <2>2. Drop(list, Others(q)) = Keyed(q, Drop(s.results[q], ids))
    BY <2>1, KeysDropped DEF list
  <2> QED BY <2>2 DEF ids
<1>5. results \in [Runs -> Seq(Results)] /\ \A q \in Runs : results[q] = Drop(s.results[q], lost(q))
  BY <1>3
<1> HIDE DEF results
<1>6. /\ w \in Stores /\ w.order = s.order /\ w.plans = s.plans /\ w.bound = s.bound
      /\ w.results = results /\ w.size = s.size /\ w.resultOrder = list
      /\ w.total = s.total /\ w.room = s.room
  <2>1. w = [s EXCEPT !.resultOrder = list, !.results = results]
    OBVIOUS
  <2> HIDE DEF w
  <2> QED BY <1>1, <1>2, <1>5, <2>1 DEF Stores
<1> HIDE DEF w
<1>7. \A q \in Runs : RunSize(w, q) \in Nat /\ RunSize(w, q) <= RunSize(s, q)
  <2> SUFFICES ASSUME NEW q \in Runs
               PROVE  RunSize(w, q) \in Nat /\ RunSize(w, q) <= RunSize(s, q)
    OBVIOUS
  <2>1. RunSize(w, q) \in Nat /\ RunSize(s, q) \in Nat
    BY <1>1, <1>6, SizeType
  <2> DEFINE a == BaseSize[q]
             b == Cardinality(s.plans[q])
             c == Cardinality(s.bound[q])
             d == Len(s.results[q])
             e == Len(results[q])
  <2>2. RunSize(w, q) = a + b + c + e /\ RunSize(s, q) = a + b + c + d
    BY <1>6 DEF RunSize
  <2>3. a \in Nat /\ b \in Nat /\ c \in Nat /\ d \in Nat /\ e \in Nat /\ e <= d
    <3>1. s.plans[q] \subseteq Plans /\ s.bound[q] \subseteq Plans
      BY <1>1, Fields
    <3>2. b \in Nat /\ c \in Nat
      BY <3>1, FS_Subset, FS_CardinalityType, RunStoreAssumption
    <3>3. d \in Nat /\ e \in Nat
      BY <1>1, <1>5, LenProperties
    <3>4. a \in Nat
      BY RunStoreAssumption
    <3>5. e <= d
      BY <1>3, <1>5
    <3> QED BY <3>2, <3>3, <3>4, <3>5
  <2> HIDE DEF a, b, c, d, e
  <2> QED BY <2>1, <2>2, <2>3
<1>8. size \in [Runs -> Nat]
  BY <1>1, <1>7
<1>9. /\ shrunk \subseteq Stored(s) /\ shrunk \subseteq Runs
      /\ \A q \in Runs \ shrunk : size[q] = s.size[q]
      /\ \A q \in shrunk : size[q] = RunSize(w, q)
      /\ \A q \in Stored(s) \ shrunk : lost(q) = {}
  BY <1>1
<1> HIDE DEF size, shrunk
<1>10. total = SumFunctionOnSet(size, Stored(s)) /\ total \in Nat
  <2> DEFINE S == Stored(s)
             f == s.size
  <2>1. S \in SUBSET Runs /\ shrunk \in SUBSET S /\ f \in [Runs -> Nat]
        /\ \A q \in S \ shrunk : size[q] = f[q]
    BY <1>1, <1>9
  <2>2. s.total = SumFunctionOnSet(f, S)
    BY DEF Totals
  <2> HIDE DEF S, f
  <2>3. /\ SumFunctionOnSet(size, S) \in Nat
        /\ SumFunctionOnSet(size, S)
             = SumFunctionOnSet(f, S) + SumFunctionOnSet(size, shrunk) - SumFunctionOnSet(f, shrunk)
    BY <1>8, <2>1, SumChanges
  <2> QED BY <2>2, <2>3 DEF S, f
<1> HIDE DEF total
<1>11. t = [w EXCEPT !.size = size, !.total = total]
  BY DEF DropResults, w, list, results, size, shrunk, total
<1> HIDE DEF t
<1>12. /\ t \in Stores /\ t.order = s.order /\ t.plans = s.plans /\ t.bound = s.bound
       /\ t.results = results /\ t.size = size /\ t.resultOrder = list
       /\ t.total = total /\ t.room = s.room
  <2>1. /\ t \in Stores /\ t.order = w.order /\ t.plans = w.plans /\ t.bound = w.bound
        /\ t.results = w.results /\ t.size = size /\ t.resultOrder = w.resultOrder
        /\ t.total = total /\ t.room = w.room
    BY <1>6, <1>8, <1>10, <1>11 DEF Stores
  <2> QED BY <1>6, <2>1
<1>13. Stored(t) = Stored(s)
  BY <1>12 DEF Stored
<1>14. \A q \in Runs : RunSize(t, q) = RunSize(w, q)
  BY <1>6, <1>12, SameSize
<1>15. \A q \in Runs : lost(q) = {} => t.results[q] = s.results[q]
  BY <1>3, <1>5, <1>12
<1>16. \A q \in Runs : s.results[q] = <<>> => t.results[q] = <<>>
  <2> SUFFICES ASSUME NEW q \in Runs, s.results[q] = <<>> PROVE t.results[q] = <<>>
    OBVIOUS
  <2>1. t.results[q] = Drop(<<>>, lost(q))
    BY <1>5, <1>12
  <2> HIDE DEF lost
  <2> QED BY <2>1, DropEmpty
<1>17. Shape(t)
  <2>1. IsInjective(t.order) /\ IsInjective(t.resultOrder)
    BY <1>2, <1>12 DEF Shape
  <2>2. \A q \in Runs : Drop(t.resultOrder, Others(q)) = Keyed(q, t.results[q])
    <3> HIDE DEF lost
    <3> QED BY <1>4, <1>5, <1>12
  <2>3. \A q \in Runs \ Stored(t) :
          t.plans[q] = {} /\ t.bound[q] = {} /\ t.results[q] = <<>> /\ t.size[q] = 0
    BY <1>9, <1>12, <1>13, <1>16 DEF Shape
  <2> QED BY <1>12, <2>1, <2>2, <2>3 DEF Shape
<1>18. Totals(t)
  <2> SUFFICES ASSUME NEW q \in Stored(s) PROVE t.size[q] = RunSize(t, q)
    BY <1>10, <1>12, <1>13 DEF Totals
  <2>1. q \in Runs
    BY <1>1
  <2>2. CASE q \in shrunk
    BY <1>9, <1>12, <1>14, <2>1, <2>2
  <2>3. CASE q \notin shrunk
    <3>1. t.results[q] = s.results[q]
      <4>1. lost(q) = {}
        BY <1>9, <2>3
      <4> HIDE DEF lost
      <4> QED BY <1>15, <2>1, <4>1
    <3>2. RunSize(t, q) = RunSize(s, q)
      BY <1>12, <3>1, SameSize
    <3> QED BY <1>9, <1>12, <2>1, <2>3, <3>2 DEF Totals
  <2> QED BY <2>2, <2>3
<1>19. Bounded(t)
  <2>1. ASSUME NEW q \in Stored(s)
        PROVE  RunSize(t, q) <= MaxRunBytes /\ Len(t.results[q]) <= MaxResultsPerRun
    <3>1. q \in Runs /\ MaxRunBytes \in Nat /\ MaxResultsPerRun \in Nat
      BY <1>1, RunStoreAssumption
    <3>2. RunSize(t, q) \in Nat /\ RunSize(s, q) \in Nat /\ RunSize(t, q) <= RunSize(s, q)
      BY <1>1, <1>7, <1>14, <3>1, SizeType
    <3>3. Len(t.results[q]) <= Len(s.results[q])
      BY <1>3, <1>5, <1>12, <3>1
    <3>4. Len(t.results[q]) \in Nat /\ Len(s.results[q]) \in Nat
      BY <1>1, <1>5, <1>12, <3>1, LenProperties
    <3>5. RunSize(s, q) <= MaxRunBytes /\ Len(s.results[q]) <= MaxResultsPerRun
      OBVIOUS
    <3>6. RunSize(t, q) <= MaxRunBytes
      BY <3>1, <3>2, <3>5
    <3>7. Len(t.results[q]) <= MaxResultsPerRun
      BY <3>1, <3>3, <3>4, <3>5
    <3> QED BY <3>6, <3>7
  <2> QED BY <1>2, <1>12, <1>13, <2>1 DEF Bounded
<1>20. Sound(t)
  BY <1>17, <1>18, <1>19 DEF Sound
<1> HIDE DEF lost
<1> QED BY <1>12, <1>16, <1>20 DEF t

-----------------------------------------------------------------------------
(* What the methods of the store do to bindings and to the order of runs.  *)

\* Every stored fixture, except those in pending, has the binding of its seed plan.
Bindings(s, pending) ==
  /\ \A r \in Fixtures \cap Stored(s) : SeedPlan[r] \in s.bound[r] \/ r \in pending
  /\ \A r \in Runs : s.results[r] # <<>> => r \in Fixtures

\* From s to t no run goes and leaves one that was accessed before it, but for the one
\* that has been accessed now.
Orderly(s, t) ==
  \A x, y : Before(s.order, x, y) /\ y \notin Stored(t) => x \notin Stored(t) \/ x = Last(t.order)

LEMMA BeforeElements ==
  ASSUME NEW q, NEW x, NEW y, Before(q, x, y)
  PROVE  x \in ToSet(q) /\ y \in ToSet(q)
BY DEF Before, ToSet

LEMMA SameOrder ==
  ASSUME NEW s, NEW t, Stored(t) = Stored(s)
  PROVE  Orderly(s, t)
BY BeforeElements DEF Orderly, Stored

\* What is left after eviction are the runs accessed last.
LEMMA EvictOrder ==
  ASSUME NEW s, Sound(s)
  PROVE  /\ \A x, y : Before(s.order, x, y) /\ y \notin Stored(Evict(s)) => x \notin Stored(Evict(s))
         /\ \A q \in Seq(Runs), e \in Runs :
              s.order = Append(q, e) /\ e \in Stored(Evict(s)) => Last(Evict(s).order) = e
<1> DEFINE order == s.order
           n == Len(order)
           t == Evict(s)
<1>1. order \in Seq(Runs) /\ n \in Nat /\ DOMAIN order = 1 .. n /\ IsInjective(order)
  BY Fields, LenProperties DEF Sound, Shape
<1>2. PICK k \in 0 .. n :
        /\ Stored(t) = Stored(s) \ Oldest(s, k)
        /\ t.order = SubSeq(order, k + 1, n)
  BY Evicted
<1> HIDE DEF t, order, n
<1>3. Oldest(s, k) = {order[i] : i \in 1 .. k} /\ k \in Nat /\ k <= n
  <2>1. k \in 0 .. Len(order)
    BY <1>2 DEF n
  <2>2. ToSet(SubSeq(order, 1, k)) = {order[i] : i \in 1 .. k}
    BY <1>1, <2>1, SubSeqElements
  <2>3. Oldest(s, k) = {order[i] : i \in 1 .. k}
    BY <2>2 DEF Oldest, order
  <2> QED BY <1>1, <1>2, <2>3
<1>4. ASSUME NEW x, NEW y, Before(order, x, y), y \notin Stored(t) PROVE x \notin Stored(t)
  <2>1. PICK i \in 1 .. n, j \in 1 .. n : i < j /\ order[i] = x /\ order[j] = y
    BY <1>1, <1>4 DEF Before
  <2>2. y \in Oldest(s, k)
    BY <1>2, <1>4, BeforeElements DEF Stored, order
  <2>3. PICK m \in 1 .. k : order[m] = y
    BY <1>3, <2>2
  <2>4. m = j
    BY <1>1, <1>3, <2>1, <2>3 DEF IsInjective
  <2>5. i \in 1 .. k
    BY <1>1, <1>3, <2>1, <2>4
  <2> QED BY <1>2, <1>3, <2>1, <2>5
<1>5. ASSUME NEW q \in Seq(Runs), NEW e \in Runs, order = Append(q, e), e \in Stored(t)
      PROVE  Last(t.order) = e
  <2>1. n = Len(q) + 1 /\ order[n] = e /\ Len(q) \in Nat
    BY <1>5, AppendProperties, LenProperties DEF n
  <2>2. k # n
    BY <1>2, <1>3, <1>5, <2>1
  <2>3. /\ Len(t.order) = n - k
        /\ \A i \in 1 .. (n - k) : t.order[i] = order[k + i]
    <3>1. k \in 0 .. Len(order)
      BY <1>2 DEF n
    <3> QED BY <1>1, <1>2, <3>1, SubSeqRest DEF n
  <2>4. n - k \in 1 .. (n - k) /\ k + (n - k) = n
    BY <1>1, <1>3, <2>2
  <2> QED BY <2>1, <2>3, <2>4 DEF Last
<1> QED BY <1>4, <1>5 DEF t, order

LEMMA EvictKeeps ==
  ASSUME NEW s, Sound(s), NEW P, Bindings(s, P)
  PROVE  LET t == Evict(s) IN Sound(t) /\ Fits(t) /\ Bindings(t, P)
<1> DEFINE t == Evict(s)
<1>1. PICK k \in 0 .. Len(s.order) :
        LET gone == Oldest(s, k)
        IN  /\ Sound(t) /\ Fits(t)
            /\ Stored(t) = Stored(s) \ gone
            /\ t.bound = [r \in Runs |-> IF r \in gone THEN {} ELSE s.bound[r]]
            /\ t.results = [r \in Runs |-> IF r \in gone THEN <<>> ELSE s.results[r]]
  BY Evicted
<1> DEFINE gone == Oldest(s, k)
<1> HIDE DEF t, gone
<1>2. /\ Sound(t) /\ Fits(t) /\ Stored(t) = Stored(s) \ gone
      /\ \A r \in Runs : r \notin gone => t.bound[r] = s.bound[r]
      /\ \A r \in Runs : t.results[r] # <<>> => s.results[r] # <<>>
  BY <1>1 DEF gone
<1>3. Stored(t) \subseteq Runs
  BY <1>2, Fields DEF Sound, Shape
<1>4. Bindings(t, P)
  BY <1>2, <1>3 DEF Bindings
<1> QED BY <1>2, <1>4 DEF t

LEMMA TouchKeeps ==
  ASSUME NEW s, Sound(s), NEW P, Bindings(s, P), NEW r \in Stored(s)
  PROVE  LET t == Touch(s, r)
         IN  /\ Sound(t) /\ Bindings(t, P) /\ Orderly(s, t)
             /\ Fits(s) => Fits(t)
<1> DEFINE t == Touch(s, r)
<1>1. /\ Sound(t) /\ Stored(t) = Stored(s)
      /\ Fits(s) => Fits(t)
      /\ t.bound = s.bound /\ t.results = s.results
  BY Touched
<1> HIDE DEF t
<1>2. Bindings(t, P)
  BY <1>1 DEF Bindings
<1> QED BY <1>1, <1>2, SameOrder DEF t

\* The end of store_plan and store_result.
LEMMA EvictTouched ==
  ASSUME NEW s, Sound(s), NEW P, Bindings(s, P), NEW r \in Stored(s)
  PROVE  LET t == Evict(Touch(s, r))
         IN  Sound(t) /\ Fits(t) /\ Bindings(t, P) /\ Orderly(s, t)
<1> DEFINE u == Touch(s, r)
           t == Evict(u)
           q == Drop(s.order, {r})
<1>1. Sound(u) /\ Bindings(u, P) /\ u.order = Append(q, r)
  BY Touched, TouchKeeps
<1>2. s.order \in Seq(Runs) /\ r \in Runs
  BY Fields DEF Sound, Shape
<1>3. q \in Seq(Runs) /\ ToSet(q) = ToSet(s.order) \ {r}
  BY <1>2, DropType
<1> HIDE DEF u, q
<1>4. Sound(t) /\ Fits(t) /\ Bindings(t, P)
  BY <1>1, EvictKeeps
<1>5. /\ \A x, y : Before(u.order, x, y) /\ y \notin Stored(t) => x \notin Stored(t)
      /\ r \in Stored(t) => Last(t.order) = r
  BY <1>1, <1>2, <1>3, EvictOrder
<1> HIDE DEF t
<1>6. ASSUME NEW x, NEW y, Before(s.order, x, y), y \notin Stored(t), x # r
      PROVE  x \notin Stored(t)
  <2>1. x \in ToSet(q)
    BY <1>3, <1>6, BeforeElements
  <2>2. CASE y = r
    <3>1. Before(u.order, x, y)
      BY <1>1, <1>2, <1>3, <2>1, <2>2, BeforeAppend
    <3> QED BY <1>5, <1>6, <3>1
  <2>3. CASE y # r
    <3>1. Before(q, x, y)
      <4> DEFINE gone == {r}
      <4>1. x \notin gone /\ y \notin gone
        BY <1>6, <2>3
      <4> HIDE DEF gone
      <4>2. Before(Drop(s.order, gone), x, y)
        BY <1>2, <1>6, <4>1, DropBefore
      <4> QED BY <4>2 DEF gone, q
    <3>2. Before(u.order, x, y)
      BY <1>1, <1>2, <1>3, <3>1, BeforeAppend
    <3> QED BY <1>5, <1>6, <3>2
  <2> QED BY <2>2, <2>3
<1>7. Orderly(s, t)
  BY <1>5, <1>6 DEF Orderly
<1> QED BY <1>4, <1>7 DEF t, u

LEMMA PutKeeps ==
  ASSUME NEW s, Sound(s), Fits(s), NEW P, Bindings(s, P), NEW r \in Runs, CanPut(s, r),
         NEW t \in Puts(s, r)
  PROVE  Sound(t) /\ Fits(t) /\ Bindings(t, P \cup {r}) /\ Orderly(s, t)
<1>1. CASE r \in Stored(s)
  <2>1. t = Touch(s, r)
    BY <1>1 DEF Puts
  <2>2. Sound(t) /\ Fits(t) /\ Bindings(t, P) /\ Orderly(s, t)
    BY <1>1, <2>1, TouchKeeps
  <2> QED BY <2>2 DEF Bindings
<1>2. CASE r \notin Stored(s)
  <2>1. PICK w \in Rooms(s) : t = Evict(NewRun(w, r))
    BY <1>2 DEF Puts
  <2>2. /\ Sound(w) /\ w.order = s.order /\ Stored(w) = Stored(s)
        /\ w.plans = s.plans /\ w.bound = s.bound /\ w.results = s.results
    BY Roomy
  <2>3. RunFits(w, r)
    <3>1. RunFits(s, r)
      BY <1>2 DEF CanPut
    <3> QED BY <2>2, <3>1 DEF RunFits, RunSize, RunMemory
  <2> DEFINE u == NewRun(w, r)
  <2>4. /\ Sound(u) /\ Stored(u) = Stored(s) \cup {r} /\ u.order = Append(s.order, r)
        /\ u.bound = s.bound /\ u.results = s.results
    BY <1>2, <2>2, <2>3, Added
  <2> HIDE DEF u
  <2>5. Bindings(u, P \cup {r})
    BY <2>4 DEF Bindings
  <2> DEFINE Q == P \cup {r}
  <2>6. Sound(t) /\ Fits(t) /\ Bindings(t, Q)
    <3>1. Bindings(u, Q)
      BY <2>5
    <3> HIDE DEF Q
    <3> QED BY <2>1, <2>4, <3>1, EvictKeeps DEF u
  <2>7. Orderly(s, t)
    <3>1. t = Evict(u) /\ s.order \in Seq(Runs)
      BY <2>1, Fields DEF u, Sound, Shape
    <3>2. \A x, y : Before(s.order, x, y) => Before(u.order, x, y)
      BY <2>4, <3>1, BeforeAppend
    <3>3. \A x, y : Before(u.order, x, y) /\ y \notin Stored(t) => x \notin Stored(t)
      BY <2>4, <3>1, EvictOrder
    <3> QED BY <3>2, <3>3 DEF Orderly
  <2> QED BY <2>6, <2>7
<1> QED BY <1>1, <1>2

\* The fixture whose seed plan p is, when it is planned with run r.
Done(r, p) == {q \in Fixtures : q = r /\ p = SeedPlan[r]}

LEMMA PlanKeeps ==
  ASSUME NEW s, Sound(s), NEW P, Bindings(s, P), NEW r \in Runs, NEW p \in Plans,
         NEW binding \in BOOLEAN, CanPlan(s, r, p, binding),
         r \in Fixtures /\ p = SeedPlan[r] => binding
  PROVE  LET t == StorePlan(s, r, p, binding)
         IN  Sound(t) /\ Fits(t) /\ Bindings(t, P \ Done(r, p)) /\ Orderly(s, t)
<1> DEFINE u == Resize(WithPlan(s, r, p, binding), r)
           t == StorePlan(s, r, p, binding)
           Q == P \ Done(r, p)
           new == IF binding THEN s.bound[r] \cup {p} ELSE s.bound[r] \ {p}
<1>1. r \in Stored(s) /\ RunFits(WithPlan(s, r, p, binding), r)
  BY DEF CanPlan
<1>2. /\ Sound(u) /\ u.order = s.order /\ Stored(u) = Stored(s) /\ u.results = s.results
      /\ u.bound = [s.bound EXCEPT ![r] = new]
  BY <1>1, Planned
<1>3. t = Evict(Touch(u, r))
  BY DEF StorePlan
<1> HIDE DEF u, t
<1>4. s.bound \in [Runs -> SUBSET Plans] /\ Stored(s) \subseteq Runs
  BY Fields DEF Sound, Shape
<1>5. u.bound[r] = new /\ \A q \in Runs \ {r} : u.bound[q] = s.bound[q]
  BY <1>2, <1>4
<1>6. Bindings(u, Q)
  <2>1. ASSUME NEW q \in Fixtures \cap Stored(u)
        PROVE  SeedPlan[q] \in u.bound[q] \/ q \in Q
    <3>1. SeedPlan[q] \in s.bound[q] \/ q \in P
      BY <1>2 DEF Bindings
    <3>2. CASE q # r
      BY <1>2, <1>4, <1>5, <3>1, <3>2 DEF Done
    <3>3. CASE q = r /\ p = SeedPlan[r]
      BY <1>5, <3>3
    <3>4. CASE q = r /\ p # SeedPlan[r]
      BY <1>5, <3>1, <3>4 DEF Done
    <3> QED BY <3>2, <3>3, <3>4
  <2>2. \A q \in Runs : u.results[q] # <<>> => q \in Fixtures
    BY <1>2 DEF Bindings
  <2> HIDE DEF Q
  <2> QED BY <2>1, <2>2 DEF Bindings
<1> HIDE DEF Q
<1>7. Sound(t) /\ Fits(t) /\ Bindings(t, Q) /\ Orderly(u, t)
  BY <1>1, <1>2, <1>3, <1>6, EvictTouched
<1>8. Orderly(s, t)
  BY <1>2, <1>7 DEF Orderly
<1> QED BY <1>7, <1>8 DEF t, Q

LEMMA ResultKeeps ==
  ASSUME NEW s, Sound(s), NEW P, Bindings(s, P), NEW r \in Fixtures, NEW id \in Results,
         CanStoreResult(s, r, id)
  PROVE  LET t == StoreResult(s, r, id)
         IN  Sound(t) /\ Fits(t) /\ Bindings(t, P) /\ Orderly(s, t)
<1> DEFINE u == Obtain(s, r, id)
           w == DropResults(u)
           t == StoreResult(s, r, id)
<1>1. r \in Stored(s) /\ r \in Runs
  BY DEF CanStoreResult, Runs
<1>2. /\ Shape(u) /\ Totals(u)
      /\ \A q \in Stored(u) :
           RunSize(u, q) <= MaxRunBytes /\ Len(u.results[q]) <= MaxResultsPerRun
      /\ u.order = s.order /\ u.bound = s.bound
      /\ \A q \in Runs \ {r} : u.results[q] = s.results[q]
  BY <1>1, Obtained
<1>3. t = Evict(Touch(w, r))
  BY DEF StoreResult, Obtain
<1> HIDE DEF u
<1>4. /\ Sound(w) /\ w.order = u.order /\ w.bound = u.bound
      /\ \A q \in Runs : w.results[q] # <<>> => u.results[q] # <<>>
  BY <1>2, Trimmed
<1> HIDE DEF w, t
<1>5. Stored(w) = Stored(s) /\ w.order = s.order
  BY <1>2, <1>4 DEF Stored
<1>6. Bindings(w, P)
  BY <1>1, <1>2, <1>4, <1>5 DEF Bindings
<1>7. Sound(t) /\ Fits(t) /\ Bindings(t, P) /\ Orderly(w, t)
  BY <1>1, <1>3, <1>4, <1>5, <1>6, EvictTouched
<1>8. Orderly(s, t)
  BY <1>5, <1>7 DEF Orderly
<1> QED BY <1>7, <1>8 DEF t

LEMMA BindingsMonotone ==
  ASSUME NEW s, NEW P, Bindings(s, P), NEW Q, P \cap Fixtures \subseteq Q
  PROVE  Bindings(s, Q)
BY DEF Bindings

LEMMA EmptyKeeps == Sound(Empty) /\ Fits(Empty) /\ Bindings(Empty, {})
<1> DEFINE s == Empty
<1>1. /\ s.order = <<>> /\ s.resultOrder = <<>> /\ s.total = 0 /\ s.room = 0
      /\ s.plans = [r \in Runs |-> {}] /\ s.bound = [r \in Runs |-> {}]
      /\ s.results = [r \in Runs |-> <<>>] /\ s.size = [r \in Runs |-> 0]
  BY DEF Empty
<1>2. s \in Stores
  <2>1. <<>> \in Seq(Runs) /\ <<>> \in Seq(Results) /\ <<>> \in Seq(Runs \X Results)
    BY EmptySeq
  <2>2. 0 \in 0 .. TableRoom
    BY RunStoreAssumption
  <2> QED BY <2>1, <2>2 DEF Empty, Stores
<1> HIDE DEF s
<1>3. Stored(s) = {}
  BY <1>1, ToSetEmpty DEF Stored
<1>4. Shape(s)
  <2>1. IsInjective(s.order) /\ IsInjective(s.resultOrder)
    BY <1>1, ToSetEmpty
  <2>2. \A r \in Runs : Drop(s.resultOrder, Others(r)) = Keyed(r, s.results[r])
    BY <1>1, DropEmpty, KeyedEmpty
  <2>3. \A r \in Runs : s.plans[r] = {} /\ s.bound[r] = {} /\ s.results[r] = <<>> /\ s.size[r] = 0
    BY <1>1
  <2> QED BY <1>2, <2>1, <2>2, <2>3 DEF Shape
<1>5. Totals(s)
  BY <1>1, <1>3, SumEmpty DEF Totals
<1>6. /\ Len(s.order) = 0 /\ Len(s.resultOrder) = 0
      /\ {MaxRuns, MaxTotalResults, MaxStoreBytes, MaxMemory} \subseteq Nat
  BY <1>1, RunStoreAssumption
<1>7. Bounded(s)
  BY <1>3, <1>6 DEF Bounded
<1>8. Fits(s)
  <2>1. Content(s) = 0
    BY <1>1, <1>4, <1>5, ContentIsTotal
  <2>2. Memory(s) = 0
    BY <1>1, <1>6, <2>1 DEF Memory
  <2> QED BY <1>1, <1>6, <2>2 DEF Fits
<1>9. Bindings(s, {})
  BY <1>1, <1>3 DEF Bindings
<1> QED BY <1>4, <1>5, <1>7, <1>8, <1>9 DEF Sound, s

-----------------------------------------------------------------------------
(* The invariant.                                                          *)

\* The fixture whose seed plan the publication of run r has still to store.
Pending(r, plans) == {q \in Fixtures : q = r /\ SeedPlan[q] \in plans}

Kept(s, pending) == Sound(s) /\ Fits(s) /\ Bindings(s, pending)

Inv ==
  /\ publishing \in Runs \cup {None} /\ todo \subseteq Plans
  /\ validating \in Fixtures \cup {None}
  /\ Kept(store, Pending(publishing, todo))
  /\ ~ Free => Kept(saved, {})

LEMMA NothingPending == \A plans : Pending(None, plans) = {}
BY RunStoreAssumption DEF Pending, Runs

LEMMA InitInv == Init => Inv
<1> SUFFICES ASSUME Init PROVE Inv
  OBVIOUS
<1>1. Kept(store, {})
  BY EmptyKeeps DEF Init, Kept
<1> QED BY <1>1, NothingPending DEF Init, Inv, Free

\* What a step does to the store when the lock is free before and after it.
Quiet == Kept(store', {}) /\ Orderly(store, store')

LEMMA QuietStep ==
  ASSUME Inv, Free, Quiet, UNCHANGED Transaction, validating' \in Fixtures \cup {None}
  PROVE  Inv'
BY NothingPending DEF Inv, Free, Quiet, Transaction

LEMMA FreeStore == ASSUME Inv, Free PROVE Sound(store) /\ Fits(store) /\ Bindings(store, {})
BY NothingPending DEF Inv, Free, Kept

LEMMA ScanQuiet == ASSUME Inv, NEW r \in Scans, Scan(r) PROVE Quiet
<1>1. Sound(store) /\ Fits(store) /\ Bindings(store, {})
  BY FreeStore DEF Scan
<1>2. r \in Runs /\ r \notin Fixtures
  BY RunStoreAssumption DEF Runs
<1> DEFINE P == {}
<1>3. Bindings(store, P)
  BY <1>1
<1> HIDE DEF P
<1>4. Sound(store') /\ Fits(store') /\ Bindings(store', P \cup {r}) /\ Orderly(store, store')
  BY <1>1, <1>2, <1>3, PutKeeps DEF Scan
<1>5. Bindings(store', {})
  BY <1>2, <1>4, BindingsMonotone DEF P
<1> QED BY <1>4, <1>5 DEF Quiet, Kept

LEMMA GetQuiet ==
  ASSUME Inv, NEW r \in Runs, Get(r) \/ StartValidation(r)
  PROVE  Quiet
<1>1. Free /\ r \in Stored(store) /\ store' = Touch(store, r)
  BY DEF Get, StartValidation
<1>2. Sound(store) /\ Fits(store) /\ Bindings(store, {})
  BY <1>1, FreeStore
<1>3. Sound(store') /\ Fits(store') /\ Bindings(store', {}) /\ Orderly(store, store')
  BY <1>1, <1>2, TouchKeeps
<1> QED BY <1>3 DEF Quiet, Kept

LEMMA BuildPlanQuiet ==
  ASSUME Inv, NEW r \in Runs, NEW p \in CasePlans[r], BuildPlan(r, p)
  PROVE  Quiet
<1>1. Sound(store) /\ Fits(store) /\ Bindings(store, {})
  BY FreeStore DEF BuildPlan
<1>2. p \in Plans /\ ~ (r \in Fixtures /\ p = SeedPlan[r])
  BY RunStoreAssumption DEF Plans
<1>3. CanPlan(store, r, p, FALSE) /\ store' = StorePlan(store, r, p, FALSE)
  BY DEF BuildPlan
<1> DEFINE P == {}
<1>4. Sound(store') /\ Fits(store') /\ Bindings(store', P \ Done(r, p)) /\ Orderly(store, store')
  <2>1. FALSE \in BOOLEAN /\ Bindings(store, P)
    BY <1>1
  <2> HIDE DEF P
  <2> QED BY <1>1, <1>2, <1>3, <2>1, PlanKeeps
<1>5. Bindings(store', {})
  BY <1>4, BindingsMonotone
<1> QED BY <1>4, <1>5 DEF Quiet, Kept

LEMMA FinishQuiet == ASSUME Inv, NEW id \in Results, FinishValidation(id) PROVE Quiet
<1>1. Sound(store) /\ Fits(store) /\ Bindings(store, {}) /\ validating \in Fixtures
  BY FreeStore DEF FinishValidation, Inv
<1>2. CASE CanStoreResult(store, validating, id)
  <2>1. PICK s \in Rooms(store) : store' = StoreResult(s, validating, id)
    BY <1>2 DEF FinishValidation
  <2>2. /\ Sound(s) /\ s.order = store.order /\ Stored(s) = Stored(store)
        /\ s.plans = store.plans /\ s.bound = store.bound /\ s.results = store.results
    BY <1>1, Roomy
  <2>3. Bindings(s, {})
    BY <1>1, <2>2 DEF Bindings
  <2>4. CanStoreResult(s, validating, id)
    <3> DEFINE r == validating
               v == WithResult(store, r, id)
               w == WithResult(s, r, id)
    <3>1. s \in Stores /\ store \in Stores /\ s.results \in [Runs -> Seq(Results)] /\ r \in Runs
      BY <1>1, <2>2, Fields DEF Sound, Shape, Runs
    <3>2. w.plans = v.plans /\ w.bound = v.bound /\ w.results = v.results
      BY <2>2, <3>1 DEF WithResult, Stores
    <3>3. r \in Stored(store) /\ RunFits(v, r)
      BY <1>2 DEF CanStoreResult
    <3> HIDE DEF v, w
    <3>4. RunFits(w, r)
      BY <3>2, <3>3 DEF RunFits, RunSize, RunMemory
    <3> QED BY <2>2, <3>3, <3>4 DEF CanStoreResult, w
  <2>5. Sound(store') /\ Fits(store') /\ Bindings(store', {}) /\ Orderly(s, store')
    BY <1>1, <2>1, <2>2, <2>3, <2>4, ResultKeeps
  <2>6. Orderly(store, store')
    BY <2>2, <2>5 DEF Orderly
  <2> QED BY <2>5, <2>6 DEF Quiet, Kept
<1>3. CASE ~ CanStoreResult(store, validating, id)
  <2>1. store' = store
    BY <1>3 DEF FinishValidation
  <2> QED BY <1>1, <2>1, SameOrder DEF Quiet, Kept
<1> QED BY <1>2, <1>3

LEMMA ClearQuiet == ASSUME Inv, Clear PROVE Quiet
<1>1. store' = Empty
  BY DEF Clear
<1>2. Stored(Empty) = {}
  BY ToSetEmpty DEF Stored, Empty
<1> QED BY <1>1, <1>2, EmptyKeeps DEF Quiet, Kept, Orderly

LEMMA BeginInv == ASSUME Inv, NEW r \in Fixtures \cup Projects, Begin(r) PROVE Inv' /\ ~ Free'
<1>1. Sound(store) /\ Fits(store) /\ Bindings(store, {})
  BY FreeStore DEF Begin
<1>2. r \in Runs /\ r # None
  BY RunStoreAssumption DEF Runs
<1>3. /\ publishing' = r /\ saved' = store /\ validating' = validating
      /\ todo' = IF r \in Fixtures THEN {SeedPlan[r]} ELSE CasePlans[r]
  BY DEF Begin
<1>4. todo' \subseteq Plans
  <2>1. CasePlans[r] \subseteq Plans
    BY <1>2 DEF Plans
  <2>2. r \in Fixtures => SeedPlan[r] \in Plans
    BY DEF Plans
  <2> QED BY <1>3, <2>1, <2>2
<1>5. {r} \cap Fixtures \subseteq Pending(publishing', todo')
  BY <1>3 DEF Pending
<1>6. Sound(store') /\ Fits(store') /\ Bindings(store', {r})
  <2>1. CASE CanPut(store, r)
    <3>1. store' \in Puts(store, r)
      BY <2>1 DEF Begin
    <3> DEFINE P == {r}
    <3>2. Bindings(store, P) /\ P \cup {r} = P
      BY <1>1, BindingsMonotone
    <3> HIDE DEF P
    <3>3. Sound(store') /\ Fits(store') /\ Bindings(store', P \cup {r})
      BY <1>1, <1>2, <2>1, <3>1, <3>2, PutKeeps
    <3> QED BY <3>2, <3>3 DEF P
  <2>2. CASE ~ CanPut(store, r)
    <3>1. store' = store
      BY <2>2 DEF Begin
    <3> QED BY <1>1, <3>1, BindingsMonotone
  <2> QED BY <2>1, <2>2
<1>7. Bindings(store', Pending(publishing', todo'))
  BY <1>5, <1>6, BindingsMonotone
<1>8. Kept(store, {}) /\ Kept(store', Pending(publishing', todo'))
  BY <1>1, <1>6, <1>7 DEF Kept
<1> QED BY <1>2, <1>3, <1>8, <1>4 DEF Inv, Free

LEMMA PublishPlanInv == ASSUME Inv, NEW p \in Plans, PublishPlan(p) PROVE Inv' /\ ~ Free'
<1> DEFINE P == Pending(publishing, todo)
           done == Done(publishing, p)
<1>1. Sound(store) /\ Bindings(store, P) /\ publishing \in Runs /\ ~ Free
  BY DEF Inv, Kept, PublishPlan, Free
<1>2. /\ CanPlan(store, publishing, p, TRUE) /\ store' = StorePlan(store, publishing, p, TRUE)
      /\ todo' = todo \ {p} /\ UNCHANGED <<saved, publishing, validating>>
  BY DEF PublishPlan
<1>3. P \ done \subseteq Pending(publishing', todo')
  BY <1>2 DEF Pending, Done
<1>4. Sound(store') /\ Fits(store') /\ Bindings(store', P \ done)
  <2> HIDE DEF P
  <2>1. TRUE \in BOOLEAN
    OBVIOUS
  <2> QED BY <1>1, <1>2, <2>1, PlanKeeps
<1> DEFINE Q == P \ done
<1>5. Bindings(store', Pending(publishing', todo'))
  <2>1. Bindings(store', Q) /\ Q \cap Fixtures \subseteq Pending(publishing', todo')
    BY <1>3, <1>4
  <2> HIDE DEF Q
  <2> QED BY <2>1, BindingsMonotone
<1> HIDE DEF P, done, Q
<1> QED BY <1>1, <1>2, <1>4, <1>5 DEF Inv, Kept, Free

LEMMA RollBackInv == ASSUME Inv, RollBack PROVE Inv'
BY NothingPending DEF Inv, RollBack, Free

LEMMA PublishInv == ASSUME Inv, Publish PROVE Inv'
<1>1. Pending(publishing, todo) = {}
  BY DEF Publish, Pending
<1> QED BY <1>1, NothingPending DEF Inv, Publish, Free

\* A step that finds the lock free and leaves it free is quiet.
LEMMA Steps == ASSUME Inv, [Next]_vars PROVE Inv' /\ (Free /\ Free' => Quiet)
<1>1. ASSUME NEW r \in Scans, Scan(r) PROVE Inv' /\ Quiet
  BY <1>1, ScanQuiet, QuietStep DEF Scan, Inv
<1>2. ASSUME NEW r \in Runs, Get(r) PROVE Inv' /\ Quiet
  BY <1>2, GetQuiet, QuietStep DEF Get, Inv
<1>3. ASSUME NEW r \in Runs, NEW p \in CasePlans[r], BuildPlan(r, p) PROVE Inv' /\ Quiet
  BY <1>3, BuildPlanQuiet, QuietStep DEF BuildPlan, Inv
<1>4. ASSUME NEW r \in Fixtures \cup Projects, Begin(r) PROVE Inv' /\ ~ Free'
  BY <1>4, BeginInv
<1>5. ASSUME NEW p \in Plans, PublishPlan(p) PROVE Inv' /\ ~ Free'
  BY <1>5, PublishPlanInv
<1>6. CASE RollBack \/ Publish
  BY <1>6, RollBackInv, PublishInv DEF RollBack, Publish
<1>7. ASSUME NEW r \in Runs, StartValidation(r) PROVE Inv' /\ Quiet
  <2>1. Quiet
    BY <1>7, GetQuiet
  <2>2. validating' \in Fixtures \cup {None} /\ Free /\ UNCHANGED Transaction
    BY <1>7 DEF StartValidation
  <2> QED BY <2>1, <2>2, QuietStep
<1>8. ASSUME NEW id \in Results, FinishValidation(id) PROVE Inv' /\ Quiet
  BY <1>8, FinishQuiet, QuietStep DEF FinishValidation
<1>9. CASE Clear
  BY <1>9, ClearQuiet, QuietStep DEF Clear, Inv
<1>10. CASE UNCHANGED vars
  <2>1. UNCHANGED <<store, Transaction, validating>>
    BY <1>10 DEF vars, Transaction
  <2>2. Inv'
    BY <2>1 DEF Inv, Free, Transaction
  <2>3. ASSUME Free PROVE Quiet
    BY <2>1, <2>3, FreeStore, SameOrder DEF Quiet, Kept
  <2> QED BY <2>2, <2>3
<1> QED BY <1>1, <1>2, <1>3, <1>4, <1>5, <1>6, <1>7, <1>8, <1>9, <1>10 DEF Next

LEMMA Invariant == Spec => []Inv
<1>1. Inv /\ [Next]_vars => Inv'
  BY Steps
<1> QED BY InitInv, <1>1, PTL DEF Spec

LEMMA InvConsistent == Inv => Consistent
<1> SUFFICES ASSUME Inv PROVE Consistent
  OBVIOUS
<1>1. /\ Sound(store) /\ Fits(store) /\ store \in Stores
      /\ store.results \in [Runs -> Seq(Results)] /\ Stored(store) \subseteq Runs
  BY Fields DEF Inv, Kept, Sound, Shape
<1>2. TypeOK
  <2>1. \A r \in Runs : ToSet(store.results[r]) \subseteq Results
    BY <1>1, KeysOfRuns DEF Sound
  <2>2. /\ store.plans \in [Runs -> SUBSET Plans] /\ store.bound \in [Runs -> SUBSET Plans]
        /\ store.total \in Nat /\ store.room \in 0 .. TableRoom
    BY <1>1, Fields
  <2> QED BY <1>1, <2>1, <2>2 DEF TypeOK, Inv, Stored
<1>3. TotalsExact
  <2>1. store.total = Content(store)
    BY <1>1, ContentIsTotal DEF Sound
  <2> QED BY <1>1, <2>1 DEF TotalsExact, Sound, Totals
<1>4. ResultOrderExact
  BY <1>1 DEF ResultOrderExact, Sound, Shape, Others
<1>5. WithinBounds
  BY <1>1 DEF WithinBounds, Sound, Bounded
<1> QED BY <1>2, <1>3, <1>4, <1>5 DEF Consistent

\* Whatever is put, planned, validated, evicted or rolled back, the fields and counters of
\* the store describe one store, and its bounds hold whenever the lock is free.
THEOREM StoreConsistent == Spec => []Consistent
BY Invariant, InvConsistent, PTL

LEMMA InvBound == Inv => ResultsAreBound
<1> SUFFICES ASSUME Inv, Free, NEW r \in Runs, store.results[r] # <<>>
             PROVE  r \in Fixtures /\ SeedPlan[r] \in store.bound[r]
  BY DEF ResultsAreBound
<1>1. Sound(store) /\ Bindings(store, {})
  BY FreeStore
<1>2. r \in Fixtures /\ r \in Stored(store)
  BY <1>1 DEF Bindings, Sound, Shape
<1> QED BY <1>1, <1>2 DEF Bindings

\* While no publication is going on, a run that holds results is a fixture whose seed plan,
\* the plan that they were obtained for, is bound (BoundedRunStore.store_result, atomic).
THEOREM ResultsBound == Spec => []ResultsAreBound
BY Invariant, InvBound, PTL

LEMMA QuietEvicts ==
  ASSUME Inv, [Next]_vars
  PROVE  \A i, j \in DOMAIN store.order :
           /\ i < j
           /\ Free /\ Free'
           /\ store.order[j] \notin Stored(store')
           => \/ store.order[i] \notin Stored(store')
              \/ store.order[i] = Last(store'.order)
<1> SUFFICES ASSUME NEW i \in DOMAIN store.order, NEW j \in DOMAIN store.order, i < j,
                    Free, Free', store.order[j] \notin Stored(store')
             PROVE  \/ store.order[i] \notin Stored(store')
                    \/ store.order[i] = Last(store'.order)
  OBVIOUS
<1>1. Orderly(store, store')
  BY Steps DEF Quiet
<1>2. Before(store.order, store.order[i], store.order[j])
  BY DEF Before
<1> QED BY <1>1, <1>2 DEF Orderly

\* Eviction takes the run that was accessed longest ago, in every step outside a publication.
THEOREM OldestEvicted == Spec => EvictsOldest
<1>1. Inv /\ [Next]_vars =>
        [\A i, j \in DOMAIN store.order :
           /\ i < j
           /\ Free /\ Free'
           /\ store.order[j] \notin Stored(store')
           => \/ store.order[i] \notin Stored(store')
              \/ store.order[i] = Last(store'.order)]_vars
  BY QuietEvicts
<1> QED BY Invariant, <1>1, PTL DEF Spec, EvictsOldest

=============================================================================

---------------------------- MODULE MemoryProofs ----------------------------
(***************************************************************************)
(* Proofs about the memory: first what a sorted list is, for every finite  *)
(* set and strict total order, then the selection of hits, and from the    *)
(* line "The memory" on the inductive invariant of IndexedMemory, for all  *)
(* records, queries, replies, models and bounds.                           *)
(***************************************************************************)
EXTENDS IndexedMemoryProperties, SubsequenceTheorems, FiniteSetTheorems, TLAPS

-----------------------------------------------------------------------------
(* Sorted lists. An order is a set R of pairs here: the provers take no    *)
(* operator for an argument.                                               *)

\* The numbers up to n are n.
LEMMA UpTo ==
  ASSUME NEW n \in Nat
  PROVE  IsFiniteSet(1 .. n) /\ Cardinality(1 .. n) = n
BY FS_Interval

IsStrictOrder(R, S) ==
  /\ \A x \in S : << x, x >> \notin R
  /\ \A x, y, z \in S : << x, y >> \in R /\ << y, z >> \in R => << x, z >> \in R
  /\ \A x, y \in S : x = y \/ << x, y >> \in R \/ << y, x >> \in R

Sorts(list, R, S) ==
  /\ list \in [1 .. Cardinality(S) -> S]
  /\ \A i, j \in DOMAIN list : i < j => << list[i], list[j] >> \in R

Before(R, S, x) == {y \in S : << y, x >> \in R}

Position(R, S, x) == Cardinality(Before(R, S, x))

\* A member has fewer members before it than there are.
LEMMA PositionBound ==
  ASSUME NEW S, IsFiniteSet(S), NEW R, IsStrictOrder(R, S), NEW x \in S
  PROVE  /\ IsFiniteSet(Before(R, S, x))
         /\ Position(R, S, x) \in 0 .. Cardinality(S) - 1
<1>1. Before(R, S, x) \in SUBSET S /\ x \notin Before(R, S, x)
  BY DEF Before, IsStrictOrder
<1>2. /\ IsFiniteSet(Before(R, S, x))
      /\ Position(R, S, x) <= Cardinality(S)
      /\ Position(R, S, x) = Cardinality(S) => S = Before(R, S, x)
  BY <1>1, FS_Subset DEF Position
<1>3. Position(R, S, x) \in Nat /\ Cardinality(S) \in Nat
  BY <1>2, FS_CardinalityType DEF Position
<1> QED
  BY <1>1, <1>2, <1>3

\* The position of a member grows along the order.
LEMMA PositionGrows ==
  ASSUME NEW S, IsFiniteSet(S), NEW R, IsStrictOrder(R, S),
         NEW x \in S, NEW y \in S, << x, y >> \in R
  PROVE  Position(R, S, x) < Position(R, S, y)
<1>1. /\ Before(R, S, x) \in SUBSET Before(R, S, y)
      /\ x \in Before(R, S, y) /\ x \notin Before(R, S, x)
  BY DEF Before, IsStrictOrder
<1>2. IsFiniteSet(Before(R, S, x)) /\ IsFiniteSet(Before(R, S, y))
  BY PositionBound
<1>3. /\ Position(R, S, x) <= Position(R, S, y)
      /\ Position(R, S, y) = Position(R, S, x) => Before(R, S, y) = Before(R, S, x)
  BY <1>1, <1>2, FS_Subset DEF Position
<1>4. Position(R, S, x) \in Nat /\ Position(R, S, y) \in Nat
  BY <1>2, FS_CardinalityType DEF Position
<1> QED
  BY <1>1, <1>3, <1>4

\* Every position is some member's, by the pigeonhole principle.
LEMMA PositionsTaken ==
  ASSUME NEW S, IsFiniteSet(S), NEW R, IsStrictOrder(R, S),
         NEW k \in 0 .. Cardinality(S) - 1
  PROVE  \E x \in S : Position(R, S, x) = k
<1> DEFINE n == Cardinality(S)
           f == [x \in S |-> Position(R, S, x) + 1]
<1>1. n \in Nat
  BY FS_CardinalityType
<1>2. IsFiniteSet(1 .. n) /\ Cardinality(1 .. n) = n
  BY <1>1, UpTo
<1>3. \A x \in S : f[x] \in 1 .. n
  BY <1>1, PositionBound
<1>4. \A x, y \in S : f[x] = f[y] => x = y
  <2> SUFFICES ASSUME NEW x \in S, NEW y \in S, x # y
               PROVE  f[x] # f[y]
    OBVIOUS
  <2>1. Position(R, S, x) \in Nat /\ Position(R, S, y) \in Nat
    BY <1>1, PositionBound
  <2>2. Position(R, S, x) # Position(R, S, y)
    <3>1. << x, y >> \in R \/ << y, x >> \in R
      BY DEF IsStrictOrder
    <3> QED
      BY <3>1, <2>1, PositionGrows
  <2> QED
    BY <2>1, <2>2
<1>5. f \in Injection(S, 1 .. n)
  BY <1>3, <1>4 DEF Injection, IsInjective
<1>6. f \in Surjection(S, 1 .. n)
  BY <1>2, <1>5, FS_Injection
<1>7. PICK x \in S : f[x] = k + 1
  <2>1. k + 1 \in 1 .. n
    BY <1>1
  <2> QED
    BY <2>1, <1>6 DEF Surjection
<1>8. Position(R, S, x) \in Nat
  BY <1>1, PositionBound
<1> QED
  BY <1>7, <1>8

\* A finite set with a strict order has a sorted list.
LEMMA SortedListExists ==
  ASSUME NEW S, IsFiniteSet(S), NEW R, IsStrictOrder(R, S)
  PROVE  \E list : Sorts(list, R, S)
<1> DEFINE n == Cardinality(S)
           list == [i \in 1 .. n |-> CHOOSE x \in S : Position(R, S, x) = i - 1]
<1>1. n \in Nat
  BY FS_CardinalityType
<1>2. \A i \in 1 .. n : list[i] \in S /\ Position(R, S, list[i]) = i - 1
  <2> TAKE i \in 1 .. n
  <2>1. i - 1 \in 0 .. n - 1
    BY <1>1
  <2>2. \E x \in S : Position(R, S, x) = i - 1
    BY <2>1, PositionsTaken
  <2> QED
    BY <2>2
<1>3. ASSUME NEW i \in 1 .. n, NEW j \in 1 .. n, i < j
      PROVE  << list[i], list[j] >> \in R
  <2> DEFINE a == list[i]
             b == list[j]
  <2>1. a \in S /\ b \in S /\ Position(R, S, a) = i - 1 /\ Position(R, S, b) = j - 1
    BY <1>2
  <2> HIDE DEF a, b
  <2>2. a # b /\ ~ (Position(R, S, b) < Position(R, S, a))
    BY <1>1, <1>3, <2>1
  <2>3. << a, b >> \in R
    BY <2>1, <2>2, PositionGrows DEF IsStrictOrder
  <2> QED
    BY <2>3 DEF a, b
<1>4. list \in [1 .. n -> S]
  BY <1>2
<1> QED
  BY <1>3, <1>4 DEF Sorts

\* A sorted list holds every member at one place.
LEMMA SortedListBijective ==
  ASSUME NEW S, IsFiniteSet(S), NEW R, IsStrictOrder(R, S),
         NEW list, Sorts(list, R, S)
  PROVE  /\ DOMAIN list = 1 .. Cardinality(S) /\ Cardinality(S) \in Nat
         /\ list \in Seq(S) /\ Len(list) = Cardinality(S)
         /\ \A i, j \in 1 .. Cardinality(S) : list[i] = list[j] => i = j
         /\ \A x \in S : \E i \in 1 .. Cardinality(S) : list[i] = x
<1> DEFINE n == Cardinality(S)
<1>1. n \in Nat
  BY FS_CardinalityType
<1>2. IsFiniteSet(1 .. n) /\ Cardinality(1 .. n) = n
  BY <1>1, UpTo
<1>3. DOMAIN list = 1 .. n /\ list \in [1 .. n -> S]
  BY DEF Sorts
<1>4. \A i, j \in DOMAIN list : list[i] = list[j] => i = j
  <2>1. \A i, j \in 1 .. n : i < j => list[i] # list[j]
    BY <1>3 DEF Sorts, IsStrictOrder
  <2>2. \A i, j \in 1 .. n : i = j \/ i < j \/ j < i
    BY <1>1
  <2> QED
    BY <1>3, <2>1, <2>2
<1>5. list \in Injection(1 .. n, S)
  BY <1>3, <1>4 DEF Injection, IsInjective
<1>6. list \in Surjection(1 .. n, S)
  BY <1>2, <1>5, FS_Injection
<1>7. \A x \in S : \E i \in DOMAIN list : list[i] = x
  BY <1>3, <1>6 DEF Surjection
<1>8. list \in Seq(S) /\ Len(list) = n
  BY <1>1, <1>3
<1> QED
  BY <1>1, <1>3, <1>4, <1>7, <1>8

\* Two sorted lists of the same members are the same.
LEMMA SortedListUnique ==
  ASSUME NEW S, IsFiniteSet(S), NEW R, IsStrictOrder(R, S),
         NEW s, Sorts(s, R, S), NEW t, Sorts(t, R, S)
  PROVE  s = t
<1> DEFINE n == Cardinality(S)
           Differ == {i \in 1 .. n : s[i] # t[i]}
<1>1. n \in Nat /\ DOMAIN s = 1 .. n /\ DOMAIN t = 1 .. n
  BY FS_CardinalityType DEF Sorts
<1>2. /\ \A i, j \in 1 .. n : s[i] = s[j] => i = j
      /\ \A x \in S : \E i \in 1 .. n : s[i] = x
  BY ONLY IsFiniteSet(S), IsStrictOrder(R, S), Sorts(s, R, S), SortedListBijective
<1>3. /\ \A i, j \in 1 .. n : t[i] = t[j] => i = j
      /\ \A x \in S : \E i \in 1 .. n : t[i] = x
  BY ONLY IsFiniteSet(S), IsStrictOrder(R, S), Sorts(t, R, S), SortedListBijective
<1>4. /\ \A i, j \in 1 .. n : i < j => << s[i], s[j] >> \in R
      /\ \A i, j \in 1 .. n : i < j => << t[i], t[j] >> \in R
  BY <1>1 DEF Sorts
<1>5. Differ = {}
  <2> SUFFICES ASSUME Differ # {}
               PROVE  FALSE
    OBVIOUS
  <2>1. PICK i \in Differ : \A j \in Differ : i <= j
    <3>1. Differ \in SUBSET Nat
      BY <1>1
    <3> QED
      BY <3>1, LeastNatural
  <2>2. \A j \in 1 .. n : j < i => s[j] = t[j]
    BY <1>1, <2>1
  <2>3. i \in 1 .. n /\ s[i] \in S /\ t[i] \in S /\ s[i] # t[i]
    BY <2>1 DEF Sorts
  <2>4. << t[i], s[i] >> \in R
    <3>1. PICK j \in 1 .. n : t[j] = s[i]
      BY <2>3, <1>3
    <3>2. ~ (j < i)
      <4> SUFFICES ASSUME j < i PROVE FALSE
        OBVIOUS
      <4>1. s[j] = s[i] /\ j # i
        BY <1>1, <2>2, <3>1
      <4> QED
        BY <2>3, <4>1, <1>2
    <3>3. i < j
      BY <1>1, <2>3, <3>1, <3>2
    <3> QED
      BY <2>3, <3>1, <3>3, <1>4
  <2>5. << s[i], t[i] >> \in R
    <3>1. PICK j \in 1 .. n : s[j] = t[i]
      BY <2>3, <1>2
    <3>2. ~ (j < i)
      <4> SUFFICES ASSUME j < i PROVE FALSE
        OBVIOUS
      <4>1. t[j] = t[i] /\ j # i
        BY <1>1, <2>2, <3>1
      <4> QED
        BY <2>3, <4>1, <1>3
    <3>3. i < j
      BY <1>1, <2>3, <3>1, <3>2
    <3> QED
      BY <2>3, <3>1, <3>3, <1>4
  <2> QED
    BY <2>3, <2>4, <2>5 DEF IsStrictOrder
<1>6. s \in [1 .. n -> S] /\ t \in [1 .. n -> S]
  BY DEF Sorts
<1>7. \A i \in 1 .. n : s[i] = t[i]
  BY <1>5
<1>8. s = [i \in 1 .. n |-> s[i]] /\ t = [i \in 1 .. n |-> t[i]]
  BY <1>6
<1>9. [i \in 1 .. n |-> s[i]] = [i \in 1 .. n |-> t[i]]
  BY <1>7
<1> HIDE DEF Differ
<1> QED
  BY <1>8, <1>9, Zenon

\* A member that comes after all the others is the last of the list.
LEMMA SortedListAppend ==
  ASSUME NEW S, IsFiniteSet(S), NEW R, NEW z, z \notin S,
         IsStrictOrder(R, S \cup {z}), \A x \in S : << x, z >> \in R,
         NEW list, Sorts(list, R, S)
  PROVE  Sorts(Append(list, z), R, S \cup {z})
<1> DEFINE n == Cardinality(S)
           T == S \cup {z}
           longer == Append(list, z)
<1>1. n \in Nat /\ Cardinality(T) = n + 1
  BY FS_CardinalityType, FS_AddElement
<1>2. list \in Seq(S) /\ Len(list) = n /\ DOMAIN list = 1 .. n
  BY <1>1 DEF Sorts
<1>3. /\ longer \in Seq(T) /\ Len(longer) = n + 1
      /\ \A i \in 1 .. n : longer[i] = list[i]
      /\ longer[n + 1] = z
  <2>1. list \in Seq(T) /\ z \in T
    BY <1>2
  <2> QED
    BY <1>1, <1>2, <2>1, AppendProperties
<1> HIDE DEF longer
<1>4. /\ longer \in [1 .. n + 1 -> T]
      /\ \A i \in 1 .. n : longer[i] = list[i] /\ list[i] \in S
      /\ longer[n + 1] = z
  BY <1>1, <1>2, <1>3
<1>5. \A i, j \in 1 .. n + 1 : i < j => << longer[i], longer[j] >> \in R
  <2> SUFFICES ASSUME NEW i \in 1 .. n + 1, NEW j \in 1 .. n + 1, i < j
               PROVE  << longer[i], longer[j] >> \in R
    OBVIOUS
  <2>1. i \in 1 .. n
    BY <1>1
  <2>2. CASE j = n + 1
    BY <1>4, <2>1, <2>2
  <2>3. CASE j \in 1 .. n
    BY <1>2, <1>4, <2>1, <2>3 DEF Sorts
  <2> QED
    BY <1>1, <2>2, <2>3
<1>6. DOMAIN longer = 1 .. n + 1
  BY <1>4
<1> QED
  BY <1>1, <1>4, <1>5, <1>6 DEF Sorts, longer

-----------------------------------------------------------------------------
(* Selecting the first few in an order, and of a set of numbers.           *)

\* The first k of S are k, or all of S if it has no more.
LEMMA FirstInOrder ==
  ASSUME NEW S, IsFiniteSet(S), NEW R, IsStrictOrder(R, S), NEW k \in Nat
  PROVE  LET F == {x \in S : Position(R, S, x) < k}
         IN  /\ IsFiniteSet(F)
             /\ Cardinality(S) <= k => F = S
             /\ k <= Cardinality(S) => Cardinality(F) = k
<1> DEFINE F == {x \in S : Position(R, S, x) < k}
           n == Cardinality(S)
<1>1. n \in Nat
  BY FS_CardinalityType
<1>2. \A x \in S : Position(R, S, x) \in 0 .. n - 1
  BY PositionBound
<1>3. IsFiniteSet(F)
  BY FS_Subset
<1>4. n <= k => F = S
  <2>1. n <= k => \A x \in S : Position(R, S, x) < k
    BY <1>1, <1>2
  <2> QED
    BY <2>1
<1>5. ASSUME k <= n
      PROVE  Cardinality(F) = k
  <2> DEFINE f == [x \in F |-> Position(R, S, x) + 1]
  <2>1. \A x \in F : x \in S /\ Position(R, S, x) \in 0 .. n - 1 /\ Position(R, S, x) < k
    BY <1>2
  <2>2. f \in [F -> 1 .. k]
    BY <1>1, <2>1
  <2>3. \A x, y \in F : f[x] = f[y] => x = y
    <3> SUFFICES ASSUME NEW x \in F, NEW y \in F, x # y
                 PROVE  f[x] # f[y]
      OBVIOUS
    <3>1. Position(R, S, x) # Position(R, S, y)
      <4>1. << x, y >> \in R \/ << y, x >> \in R
        BY <2>1 DEF IsStrictOrder
      <4> QED
        BY <4>1, <1>1, <2>1, PositionGrows
    <3> QED
      BY <3>1, <1>1, <2>1
  <2>4. \A m \in 1 .. k : \E x \in F : f[x] = m
    <3> TAKE m \in 1 .. k
    <3>1. PICK q \in 0 .. n - 1 : q + 1 = m
      BY <1>1, <1>5
    <3>2. PICK x \in S : Position(R, S, x) = q
      BY PositionsTaken
    <3>3. x \in F
      BY <1>1, <3>1, <3>2
    <3> QED
      BY <3>1, <3>2, <3>3
  <2>5. ExistsBijection(F, 1 .. k)
    <3> HIDE DEF f
    <3> QED
      BY <2>2, <2>3, <2>4
         DEF ExistsBijection, Bijection, Injection, IsInjective, Surjection
  <2>6. Cardinality(1 .. k) = k
    BY UpTo
  <2> QED
    BY <1>3, <2>5, <2>6, FS_Bijection
<1> QED
  BY <1>3, <1>4, <1>5

Smaller(A) == {p \in A \X A : p[1] < p[2]}

\* Numbers are in one order.
LEMMA SmallerOrders ==
  ASSUME NEW A \in SUBSET Nat
  PROVE  /\ IsStrictOrder(Smaller(A), A)
         /\ \A i \in A : {j \in A : j < i} = Before(Smaller(A), A, i)
<1>1. \A i, j \in A : << i, j >> \in Smaller(A) <=> i < j
  BY DEF Smaller
<1>2. IsStrictOrder(Smaller(A), A)
  <2>1. \A i \in A : << i, i >> \notin Smaller(A)
    BY <1>1
  <2>2. \A i, j, k \in A : << i, j >> \in Smaller(A) /\ << j, k >> \in Smaller(A)
                          => << i, k >> \in Smaller(A)
    BY <1>1
  <2>3. \A i, j \in A : i = j \/ << i, j >> \in Smaller(A) \/ << j, i >> \in Smaller(A)
    <3>1. \A i, j \in A : i = j \/ i < j \/ j < i
      OBVIOUS
    <3> QED
      BY <1>1, <3>1
  <2> QED
    BY <2>1, <2>2, <2>3 DEF IsStrictOrder
<1> QED
  BY <1>1, <1>2 DEF Before

FirstFew(A, k) == {i \in A : Cardinality({j \in A : j < i}) < k}

\* The first k in an order are k, or all there are.
LEMMA FirstFewSize ==
  ASSUME NEW A \in SUBSET Nat, IsFiniteSet(A), NEW k \in Nat
  PROVE  /\ FirstFew(A, k) \subseteq A
         /\ Cardinality(A) <= k => FirstFew(A, k) = A
         /\ k <= Cardinality(A) => Cardinality(FirstFew(A, k)) = k
<1>1. /\ IsStrictOrder(Smaller(A), A)
      /\ FirstFew(A, k) = {i \in A : Position(Smaller(A), A, i) < k}
  BY SmallerOrders DEF FirstFew, Position
<1>2. /\ Cardinality(A) <= k => {i \in A : Position(Smaller(A), A, i) < k} = A
      /\ k <= Cardinality(A) => Cardinality({i \in A : Position(Smaller(A), A, i) < k}) = k
  BY <1>1, FirstInOrder
<1>3. FirstFew(A, k) \subseteq A
  BY DEF FirstFew
<1> QED
  BY <1>1, <1>2, <1>3

-----------------------------------------------------------------------------
(* The selection of hits (rankHits).                                       *)

\* A list of hits in ranked order, no hit twice.
IsRanking(ranked) ==
  /\ Len(ranked) \in Nat /\ DOMAIN ranked = 1 .. Len(ranked)
  /\ \A i, j \in 1 .. Len(ranked) : i < j => RanksBefore(ranked[i], ranked[j])
  /\ \A i, j \in 1 .. Len(ranked) : ranked[i] = ranked[j] => i = j

SameKind(ranked, i, j) == ranked[i].record.kind = ranked[j].record.kind

BestHits(ranked) == {i \in 1 .. Len(ranked) : BestOfKind(ranked, i)}

Others(ranked, limit) == (1 .. Len(ranked)) \ FirstPass(ranked, limit)

\* The first pass takes the first few of the best hits.
LEMMA FirstPassTakes ==
  ASSUME NEW ranked, IsRanking(ranked), NEW limit \in Nat
  PROVE  FirstPass(ranked, limit) = FirstFew(BestHits(ranked), limit)
<1>1. DOMAIN ranked = 1 .. Len(ranked) /\ Len(ranked) \in Nat
  BY DEF IsRanking
<1>2. \A i \in 1 .. Len(ranked) :
        {j \in 1 .. i - 1 : BestOfKind(ranked, j)} = {j \in BestHits(ranked) : j < i}
  BY <1>1 DEF BestHits
<1> QED
  BY <1>1, <1>2 DEF FirstPass, FirstFew, BestHits

\* The first pass takes no more than the limit.
LEMMA FirstPassSize ==
  ASSUME NEW ranked, IsRanking(ranked), NEW limit \in Nat
  PROVE  /\ FirstPass(ranked, limit) \subseteq BestHits(ranked)
         /\ IsFiniteSet(FirstPass(ranked, limit))
         /\ Cardinality(FirstPass(ranked, limit)) \in 0 .. limit
         /\ \/ FirstPass(ranked, limit) = BestHits(ranked)
            \/ Cardinality(FirstPass(ranked, limit)) = limit
<1> DEFINE B == BestHits(ranked)
           F == FirstPass(ranked, limit)
<1>1. Len(ranked) \in Nat /\ B \in SUBSET (1 .. Len(ranked))
  BY DEF IsRanking, BestHits
<1>2. IsFiniteSet(B) /\ B \in SUBSET Nat /\ Cardinality(B) \in Nat
  <2>1. IsFiniteSet(B)
    BY <1>1, UpTo, FS_Subset
  <2> QED
    BY <1>1, <2>1, FS_CardinalityType
<1>3. F = FirstFew(B, limit)
  BY FirstPassTakes
<1> HIDE DEF B, F
<1>4. /\ F \subseteq B
      /\ Cardinality(B) <= limit => F = B
      /\ limit <= Cardinality(B) => Cardinality(F) = limit
  BY <1>2, <1>3, FirstFewSize
<1>5. IsFiniteSet(F)
  BY <1>2, <1>4, FS_Subset
<1>6. Cardinality(F) \in 0 .. limit /\ (F = B \/ Cardinality(F) = limit)
  BY <1>2, <1>4
<1> QED
  BY <1>4, <1>5, <1>6 DEF B, F

\* The second pass takes the first few of the rest.
LEMMA SecondPassTakes ==
  ASSUME NEW ranked, IsRanking(ranked), NEW limit \in Nat
  PROVE  ChosenWithDiversity(ranked, limit) =
           FirstPass(ranked, limit) \cup
           FirstFew(Others(ranked, limit), limit - Cardinality(FirstPass(ranked, limit)))
<1> DEFINE F == FirstPass(ranked, limit)
           D == Others(ranked, limit)
           m == Cardinality(F)
<1>1. DOMAIN ranked = 1 .. Len(ranked) /\ Len(ranked) \in Nat /\ m \in Nat
  BY FirstPassSize DEF IsRanking
<1>2. \A i \in D : (1 .. i - 1) \ F = {j \in D : j < i}
  BY <1>1 DEF Others
<1>3. \A i \in D : Cardinality((1 .. i - 1) \ F) \in Nat
  <2> TAKE i \in D
  <2>1. i - 1 \in Nat
    BY <1>1 DEF Others
  <2>2. IsFiniteSet((1 .. i - 1) \ F)
    BY <2>1, UpTo, FS_Difference
  <2> QED
    BY <2>2, FS_CardinalityType
<1>4. \A i \in D : m + Cardinality((1 .. i - 1) \ F) < limit
                 <=> Cardinality({j \in D : j < i}) < limit - m
  <2> TAKE i \in D
  <2>1. PICK c \in Nat : c = Cardinality((1 .. i - 1) \ F)
    BY <1>3
  <2>2. Cardinality({j \in D : j < i}) = c
    BY <1>2, <2>1
  <2>3. m + c < limit <=> c < limit - m
    BY <1>1
  <2> QED
    BY <2>1, <2>2, <2>3
<1>5. {i \in D : m + Cardinality((1 .. i - 1) \ F) < limit} = FirstFew(D, limit - m)
  BY <1>4 DEF FirstFew
<1>6. ChosenWithDiversity(ranked, limit) =
        F \cup {i \in D : m + Cardinality((1 .. i - 1) \ F) < limit}
  BY <1>1 DEF ChosenWithDiversity, Others
<1> QED
  BY <1>5, <1>6

\* With more hits than the limit both passes together take as many as the limit.
LEMMA DiversitySize ==
  ASSUME NEW ranked, IsRanking(ranked), NEW limit \in Nat, limit < Len(ranked)
  PROVE  /\ ChosenWithDiversity(ranked, limit) \subseteq 1 .. Len(ranked)
         /\ Cardinality(ChosenWithDiversity(ranked, limit)) = limit
         /\ \/ FirstPass(ranked, limit) = BestHits(ranked)
            \/ ChosenWithDiversity(ranked, limit) = FirstPass(ranked, limit)
<1> DEFINE F == FirstPass(ranked, limit)
           D == Others(ranked, limit)
           m == Cardinality(F)
           S == FirstFew(D, limit - m)
           n == Len(ranked)
<1>1. n \in Nat /\ m \in 0 .. limit /\ IsFiniteSet(F) /\ F \subseteq 1 .. n
  BY FirstPassSize DEF IsRanking, BestHits
<1>2. D = (1 .. n) \ F
  BY DEF Others
<1>3. ChosenWithDiversity(ranked, limit) = F \cup S
  BY SecondPassTakes
<1>4. F = BestHits(ranked) \/ m = limit
  BY FirstPassSize
<1> HIDE DEF F, m, n
<1>5. IsFiniteSet(D) /\ Cardinality(D) = n - m
  <2>1. (1 .. n) \cap F = F
    BY <1>1
  <2>2. IsFiniteSet(1 .. n) /\ Cardinality(1 .. n) = n
    BY <1>1, UpTo
  <2>3. /\ IsFiniteSet((1 .. n) \ F)
        /\ Cardinality((1 .. n) \ F) = Cardinality(1 .. n) - Cardinality((1 .. n) \cap F)
    BY <2>2, FS_Difference
  <2> QED
    BY <1>2, <2>1, <2>2, <2>3 DEF m
<1>6. D \in SUBSET Nat /\ limit - m \in Nat /\ limit - m <= Cardinality(D)
  <2>1. limit < n
    BY DEF n
  <2> QED
    BY <1>1, <1>2, <1>5, <2>1
<1>7. S \subseteq D /\ Cardinality(S) = limit - m
  BY <1>5, <1>6, FirstFewSize
<1>8. IsFiniteSet(S) /\ F \cap S = {}
  BY <1>2, <1>5, <1>7, FS_Subset
<1>9. Cardinality(F \cup S) = limit
  <2>1. Cardinality(F \cup S) = m + (limit - m) - Cardinality({})
    BY <1>1, <1>7, <1>8, FS_Union DEF m
  <2> QED
    BY <1>1, <2>1, FS_EmptySet
<1>10. m = limit => S = {}
  BY <1>1, <1>7, <1>8, FS_EmptySet
<1> QED
  BY <1>1, <1>2, <1>3, <1>4, <1>7, <1>9, <1>10 DEF F, n

\* As many hits are chosen as there are, up to the limit.
LEMMA ChosenSize ==
  ASSUME NEW ranked, IsRanking(ranked), NEW limit \in Nat
  PROVE  /\ Chosen(ranked, limit) \subseteq 1 .. Len(ranked)
         /\ IsFiniteSet(Chosen(ranked, limit))
         /\ Len(ranked) <= limit => Chosen(ranked, limit) = 1 .. Len(ranked)
         /\ ~ KindDiversity /\ limit < Len(ranked) => Chosen(ranked, limit) = 1 .. limit
         /\ limit < Len(ranked) => Cardinality(Chosen(ranked, limit)) = limit
<1> DEFINE C == Chosen(ranked, limit)
           n == Len(ranked)
<1>1. n \in Nat /\ DOMAIN ranked = 1 .. n
  BY DEF IsRanking
<1>2. CASE n <= limit
  <2>1. C = {i \in 1 .. n : i <= limit}
    BY <1>1, <1>2 DEF Chosen
  <2>2. C = 1 .. n
    BY <1>1, <1>2, <2>1
  <2>3. IsFiniteSet(1 .. n)
    BY <1>1, UpTo
  <2> HIDE DEF C, n
  <2>4. ~ (limit < n)
    BY <1>1, <1>2
  <2> QED
    BY <2>2, <2>3, <2>4 DEF C, n
<1>3. CASE limit < n /\ ~ KindDiversity
  <2>1. C = {i \in 1 .. n : i <= limit}
    BY <1>1, <1>3 DEF Chosen
  <2>2. C = 1 .. limit
    BY <1>1, <1>3, <2>1
  <2>3. IsFiniteSet(1 .. limit) /\ Cardinality(1 .. limit) = limit
    BY UpTo
  <2> HIDE DEF C, n
  <2>4. ~ (n <= limit) /\ 1 .. limit \subseteq 1 .. n
    BY <1>1, <1>3
  <2> QED
    BY <2>2, <2>3, <2>4 DEF C, n
<1>4. CASE limit < n /\ KindDiversity
  <2>1. C = ChosenWithDiversity(ranked, limit)
    BY <1>1, <1>4 DEF Chosen
  <2>2. C \subseteq 1 .. n /\ Cardinality(C) = limit
    BY <1>4, <2>1, DiversitySize
  <2>3. IsFiniteSet(C)
    BY <1>1, <2>2, UpTo, FS_Subset
  <2> QED
    BY <1>1, <1>4, <2>2, <2>3
<1> QED
  BY <1>1, <1>2, <1>3, <1>4

\* A hit is not passed over for a later one of its kind.
LEMMA NoneOvertaken ==
  ASSUME NEW ranked, IsRanking(ranked), NEW limit \in Nat, limit < Len(ranked), KindDiversity,
         NEW i \in (1 .. Len(ranked)) \ Chosen(ranked, limit), NEW k \in Chosen(ranked, limit),
         SameKind(ranked, i, k)
  PROVE  k < i
<1> DEFINE F == FirstPass(ranked, limit)
           D == Others(ranked, limit)
           q == limit - Cardinality(F)
<1>1. Len(ranked) \in Nat /\ DOMAIN ranked = 1 .. Len(ranked)
  BY DEF IsRanking
<1>2. Chosen(ranked, limit) = F \cup FirstFew(D, q)
  <2>1. Chosen(ranked, limit) = ChosenWithDiversity(ranked, limit)
    BY <1>1 DEF Chosen
  <2> QED
    BY <2>1, SecondPassTakes
<1>3. i \in D /\ i \notin FirstFew(D, q) /\ k \in 1 .. Len(ranked) /\ i # k
  BY <1>2, ChosenSize DEF Others
<1> SUFFICES ASSUME i < k PROVE FALSE
  BY <1>1, <1>3
<1>4. CASE k \in F
  <2>1. BestOfKind(ranked, k)
    BY <1>4, FirstPassSize DEF BestHits
  <2>2. i \in 1 .. k - 1
    BY <1>1, <1>3
  <2> QED
    BY <2>1, <2>2 DEF BestOfKind, SameKind
<1>5. CASE k \in FirstFew(D, q)
  <2> DEFINE below == {j \in D : j < i}
             above == {j \in D : j < k}
  <2>1. D \subseteq 1 .. Len(ranked)
    BY DEF Others
  <2>2. below \in SUBSET above
    BY <1>1, <1>3, <2>1
  <2>3. IsFiniteSet(1 .. Len(ranked)) /\ above \in SUBSET (1 .. Len(ranked))
    BY <1>1, <2>1, UpTo
  <2>4. IsFiniteSet(above) /\ IsFiniteSet(below) /\ Cardinality(below) <= Cardinality(above)
    BY <2>2, <2>3, FS_Subset
  <2>5. Cardinality(above) \in Nat /\ Cardinality(below) \in Nat /\ q \in Int
    BY <2>4, FS_CardinalityType, FirstPassSize
  <2>6. Cardinality(above) < q
    BY <1>5 DEF FirstFew
  <2>7. ~ (Cardinality(below) < q)
    BY <1>3 DEF FirstFew
  <2> HIDE DEF below, above, q
  <2> QED
    BY <2>4, <2>5, <2>6, <2>7
<1> QED
  BY <1>2, <1>4, <1>5

\* Every kind that was found is chosen, or no kind is chosen twice.
LEMMA KindsChosen ==
  ASSUME NEW ranked, IsRanking(ranked), NEW limit \in Nat, limit < Len(ranked), KindDiversity
  PROVE  \/ \A i \in 1 .. Len(ranked) : \E k \in Chosen(ranked, limit) : SameKind(ranked, i, k)
         \/ \A i, k \in Chosen(ranked, limit) : SameKind(ranked, i, k) => i = k
<1> DEFINE C == Chosen(ranked, limit)
           B == BestHits(ranked)
           n == Len(ranked)
<1>1. n \in Nat /\ DOMAIN ranked = 1 .. n
  BY DEF IsRanking
<1>2. C = ChosenWithDiversity(ranked, limit)
  BY <1>1 DEF Chosen
<1>3. CASE FirstPass(ranked, limit) = B
  <2> SUFFICES ASSUME NEW i \in 1 .. n
               PROVE  \E k \in C : SameKind(ranked, i, k)
    OBVIOUS
  <2> DEFINE Alike == {j \in 1 .. n : SameKind(ranked, i, j)}
  <2>1. Alike \in SUBSET Nat /\ i \in Alike
    BY <1>1 DEF SameKind
  <2>2. PICK k \in Alike : \A j \in Alike : k <= j
    <3>1. Alike # {}
      BY <2>1
    <3> HIDE DEF Alike
    <3> QED
      BY <2>1, <3>1, LeastNatural
  <2>3. \A j \in 1 .. k - 1 : j \in 1 .. n /\ j \notin Alike
    BY <1>1, <2>2
  <2>4. k \in B
    BY <2>2, <2>3 DEF BestHits, BestOfKind, SameKind
  <2>5. B \subseteq C
    BY <1>2, <1>3, SecondPassTakes
  <2> QED
    BY <2>2, <2>4, <2>5
<1>4. CASE C = FirstPass(ranked, limit)
  <2> SUFFICES ASSUME NEW i \in C, NEW k \in C, SameKind(ranked, i, k)
               PROVE  i = k
    OBVIOUS
  <2>1. i \in 1 .. n /\ k \in 1 .. n /\ BestOfKind(ranked, i) /\ BestOfKind(ranked, k)
    BY <1>4, FirstPassSize DEF BestHits
  <2>2. ~ (i < k) /\ ~ (k < i)
    BY <1>1, <2>1 DEF BestOfKind, SameKind
  <2> QED
    BY <1>1, <2>1, <2>2
<1> QED
  BY <1>2, <1>3, <1>4, DiversitySize

\* As many are chosen from beyond the limit as are dropped from within it.
LEMMA LiftedAndDisplaced ==
  ASSUME NEW n \in Nat, NEW limit \in Nat, NEW C \in SUBSET (1 .. n), limit <= n,
         IsFiniteSet(C), Cardinality(C) = limit
  PROVE  Cardinality({i \in C : i > limit}) = Cardinality({i \in (1 .. n) \ C : i <= limit})
<1>1. {i \in C : i > limit} = C \ (1 .. limit)
  <2>1. \A i \in C : i \in 1 .. n
    OBVIOUS
  <2>2. \A i \in 1 .. n : i > limit <=> i \notin 1 .. limit
    OBVIOUS
  <2> QED
    BY <2>1, <2>2
<1>2. {i \in (1 .. n) \ C : i <= limit} = (1 .. limit) \ C
  OBVIOUS
<1>3. Cardinality(C \ (1 .. limit)) = limit - Cardinality(C \cap (1 .. limit))
  BY FS_Difference
<1>4. IsFiniteSet(1 .. limit) /\ Cardinality(1 .. limit) = limit
  BY UpTo
<1>5. Cardinality((1 .. limit) \ C) = limit - Cardinality((1 .. limit) \cap C)
  BY <1>4, FS_Difference
<1>6. (1 .. limit) \cap C = C \cap (1 .. limit)
  OBVIOUS
<1> QED
  BY <1>1, <1>2, <1>3, <1>5, <1>6

\* A set of numbers in increasing order.
LEMMA AscendingSorts ==
  ASSUME NEW A \in SUBSET Nat, IsFiniteSet(A)
  PROVE  Sorts(Ascending(A), Smaller(A), A)
<1>1. IsStrictOrder(Smaller(A), A)
  BY SmallerOrders
<1>2. PICK list : Sorts(list, Smaller(A), A)
  BY <1>1, SortedListExists
<1>3. \A some : Sorts(some, Smaller(A), A)
               <=> /\ some \in [1 .. Cardinality(A) -> A]
                   /\ \A i, j \in DOMAIN some : i < j => some[i] < some[j]
  BY DEF Sorts, Smaller
<1>4. \E some \in [1 .. Cardinality(A) -> A] : \A i, j \in DOMAIN some : i < j => some[i] < some[j]
  BY <1>2, <1>3
<1>5. /\ Ascending(A) \in [1 .. Cardinality(A) -> A]
      /\ \A i, j \in DOMAIN Ascending(A) : i < j => Ascending(A)[i] < Ascending(A)[j]
  BY <1>4 DEF SortedList, Ascending
<1> QED
  BY <1>3, <1>5

Places(list, X) == {m \in DOMAIN list : list[m] \in X}

\* A sorted list has as many places for some of the members as they are.
LEMMA PlacesOfSome ==
  ASSUME NEW S, IsFiniteSet(S), NEW R, IsStrictOrder(R, S), NEW list, Sorts(list, R, S),
         NEW X, X \subseteq S
  PROVE  Cardinality(Places(list, X)) = Cardinality(X)
<1> DEFINE n == Cardinality(S)
           M == {m \in 1 .. n : list[m] \in X}
           f == [m \in M |-> list[m]]
<1>1. n \in Nat
  BY FS_CardinalityType
<1>2. /\ \A i, j \in 1 .. n : list[i] = list[j] => i = j
      /\ \A x \in S : \E i \in 1 .. n : list[i] = x
  BY ONLY IsFiniteSet(S), IsStrictOrder(R, S), Sorts(list, R, S), SortedListBijective
<1>3. IsFiniteSet(M)
  <2>1. IsFiniteSet(1 .. n)
    BY <1>1, UpTo
  <2> QED
    BY <2>1, FS_Subset
<1>4. ExistsBijection(M, X)
  <2>1. f \in [M -> X]
    OBVIOUS
  <2>2. \A i, j \in M : f[i] = f[j] => i = j
    BY <1>2
  <2>3. \A x \in X : \E i \in M : f[i] = x
    BY <1>2
  <2> HIDE DEF f
  <2> QED
    BY <2>1, <2>2, <2>3
       DEF ExistsBijection, Bijection, Injection, IsInjective, Surjection
<1>5. M = Places(list, X)
  BY DEF Places, Sorts
<1> QED
  BY <1>3, <1>4, <1>5, FS_Bijection

\* The places of the numbers in increasing order.
LEMMA AscendingPlaces ==
  ASSUME NEW A, A \subseteq Nat, IsFiniteSet(A)
  PROVE  /\ \A m \in 1 .. Cardinality(A) : Ascending(A)[m] \in A
         /\ \A i \in A : \E m \in 1 .. Cardinality(A) : Ascending(A)[m] = i
         /\ \A X \in SUBSET A : Cardinality(Places(Ascending(A), X)) = Cardinality(X)
         /\ DOMAIN Ascending(A) = 1 .. Cardinality(A)
<1> DEFINE list == Ascending(A)
           R == Smaller(A)
<1>1. IsStrictOrder(R, A) /\ Sorts(list, R, A)
  BY AscendingSorts, SmallerOrders
<1> HIDE DEF list, R
<1>2. \A m \in 1 .. Cardinality(A) : list[m] \in A
  BY <1>1 DEF Sorts
<1>3. \A i \in A : \E m \in 1 .. Cardinality(A) : list[m] = i
  BY ONLY IsFiniteSet(A), <1>1, SortedListBijective
<1>4. \A X \in SUBSET A : Cardinality(Places(list, X)) = Cardinality(X)
  <2> SUFFICES ASSUME NEW X, X \subseteq A
               PROVE  Cardinality(Places(list, X)) = Cardinality(X)
    OBVIOUS
  <2> QED
    BY ONLY IsFiniteSet(A), <1>1, X \subseteq A, PlacesOfSome
<1>5. DOMAIN list = 1 .. Cardinality(A)
  BY <1>1 DEF Sorts
<1> QED
  BY <1>2, <1>3, <1>4, <1>5 DEF list

\* The smaller of two numbers.
LEMMA MinOfTwo ==
  ASSUME NEW a \in Nat, NEW b \in Nat
  PROVE  Min({a, b}) = IF a <= b THEN a ELSE b
<1> DEFINE m == IF a <= b THEN a ELSE b
<1>1. m \in {a, b} /\ \A y \in {a, b} : m <= y
  OBVIOUS
<1>2. \A x \in {a, b} : (\A y \in {a, b} : x <= y) => x = m
  OBVIOUS
<1> HIDE DEF m
<1>3. Min({a, b}) \in {a, b} /\ \A y \in {a, b} : Min({a, b}) <= y
  BY <1>1 DEF Min
<1>4. Min({a, b}) = m
  BY <1>2, <1>3
<1> QED
  BY <1>4 DEF m

\* The selection from a ranked list is fair, whatever the list.
LEMMA SelectionIsFair ==
  ASSUME returned.call = "retrieve", IsRanking(returned.ranked), returned.query.limit \in Nat,
         returned.selection = RankHits(returned.ranked, returned.query.limit)
  PROVE  SelectionFair
<1> DEFINE ranked == returned.ranked
           limit == returned.query.limit
           hits == returned.selection.hits
           dropped == returned.selection.dropped
           n == Len(ranked)
           C == Chosen(ranked, limit)
           D == (1 .. n) \ C
           kept == Ascending(C)
           left == Ascending(D)
           Lifted == {m \in DOMAIN hits : hits[m].keptByDiversity}
           Displaced == {m \in DOMAIN dropped : dropped[m].reason = "displaced_by_diversity"}
<1>1. n \in Nat /\ limit \in Nat /\ IsRanking(ranked) /\ DOMAIN ranked = 1 .. n
  BY DEF IsRanking
<1>2. /\ C \subseteq 1 .. n /\ IsFiniteSet(C)
      /\ n <= limit => C = 1 .. n
      /\ ~ KindDiversity /\ limit < n => C = 1 .. limit
      /\ limit < n => Cardinality(C) = limit
  BY <1>1, ChosenSize
<1>3. IsFiniteSet(D) /\ Cardinality(C) \in Nat /\ Cardinality(D) = n - Cardinality(C)
  <2>1. IsFiniteSet(1 .. n) /\ Cardinality(1 .. n) = n /\ (1 .. n) \cap C = C
    BY <1>1, <1>2, UpTo
  <2>2. PICK U : U = 1 .. n
    OBVIOUS
  <2>3. IsFiniteSet(U) /\ Cardinality(U) = n /\ U \cap C = C
    BY <2>1, <2>2
  <2>4. IsFiniteSet(U \ C) /\ Cardinality(U \ C) = Cardinality(U) - Cardinality(U \cap C)
    BY <2>3, FS_Difference, Zenon
  <2>5. Cardinality(C) \in Nat
    BY <1>2, FS_CardinalityType, Zenon
  <2> QED
    BY <2>2, <2>3, <2>4, <2>5
<1> DEFINE KeptHit(m) ==
             [hit |-> ranked[kept[m]], rankBefore |-> kept[m],
              keptByDiversity |-> KindDiversity /\ n > limit /\ kept[m] > limit]
           DroppedHit(m) ==
             [hit |-> ranked[left[m]], rankBefore |-> left[m],
              reason |-> IF KindDiversity /\ left[m] <= limit
                         THEN "displaced_by_diversity" ELSE "below_limit"]
<1>4. /\ hits = [m \in 1 .. Cardinality(C) |-> KeptHit(m)]
      /\ dropped = [m \in 1 .. n - Cardinality(C) |-> DroppedHit(m)]
  <2>1. RankHits(ranked, limit) = [hits |-> [m \in 1 .. Cardinality(C) |-> KeptHit(m)],
                                   dropped |-> [m \in 1 .. n - Cardinality(C) |-> DroppedHit(m)]]
    <3>1. DOMAIN ranked \ C = D
      BY <1>1
    <3> QED
      BY <3>1 DEF RankHits
  <2>2. RankHits(ranked, limit).hits = [m \in 1 .. Cardinality(C) |-> KeptHit(m)]
    BY <2>1
  <2>3. RankHits(ranked, limit).dropped = [m \in 1 .. n - Cardinality(C) |-> DroppedHit(m)]
    BY <2>1
  <2> QED
    BY <2>2, <2>3
<1>5. C \subseteq Nat /\ D \subseteq Nat
  BY <1>1, <1>2
<1> HIDE DEF ranked, limit, n, C, D, kept, left, hits, dropped
<1>8. /\ \A m \in 1 .. Cardinality(C) : kept[m] \in C
      /\ \A i \in C : \E m \in 1 .. Cardinality(C) : kept[m] = i
      /\ \A X \in SUBSET C : Cardinality(Places(kept, X)) = Cardinality(X)
      /\ DOMAIN kept = 1 .. Cardinality(C)
  BY <1>2, <1>5, AscendingPlaces DEF kept
<1>9. /\ \A m \in 1 .. Cardinality(D) : left[m] \in D
      /\ \A i \in D : \E m \in 1 .. Cardinality(D) : left[m] = i
      /\ \A X \in SUBSET D : Cardinality(Places(left, X)) = Cardinality(X)
      /\ DOMAIN left = 1 .. Cardinality(D)
  BY <1>3, <1>5, AscendingPlaces DEF left
<1>10. Kept = {ranked[i] : i \in C}
  <2>1. Kept = {ranked[kept[m]] : m \in 1 .. Cardinality(C)}
    BY <1>4 DEF Kept, hits
  <2> QED
    BY <1>8, <2>1
<1>11. Dropped = {ranked[i] : i \in D}
  <2>1. Dropped = {ranked[left[m]] : m \in 1 .. Cardinality(D)}
    BY <1>3, <1>4 DEF Dropped, dropped
  <2> QED
    BY <1>9, <2>1
<1>12. Kept \cup Dropped = ToSet(ranked)
  BY <1>1, <1>2, <1>10, <1>11 DEF ToSet, D
<1>13. Kept \cap Dropped = {}
  <2>1. \A i \in C, j \in D : ranked[i] # ranked[j]
    BY <1>1, <1>2 DEF IsRanking, D, n
  <2> QED
    BY <1>10, <1>11, <2>1
<1>14. Len(hits) = Min({n, limit})
  <2>1. Len(hits) = Cardinality(C)
    BY <1>3, <1>4
  <2>2. n <= limit => Cardinality(C) = n
    BY <1>1, <1>2, UpTo
  <2> QED
    BY <1>1, <1>2, <2>1, <2>2, MinOfTwo
<1>15. Cardinality(Lifted) = Cardinality(Displaced)
  <2>1. Lifted = {m \in 1 .. Cardinality(C) : KindDiversity /\ n > limit /\ kept[m] > limit}
    BY <1>4
  <2>2. Displaced = {m \in 1 .. Cardinality(D) : KindDiversity /\ left[m] <= limit}
    BY <1>3, <1>4
  <2>3. CASE KindDiversity /\ n > limit
    <3> DEFINE above == {i \in C : i > limit}
               within == {i \in D : i <= limit}
    <3>1. Lifted = Places(kept, above)
      BY <1>8, <2>1, <2>3 DEF Places
    <3>2. Displaced = Places(left, within)
      BY <1>9, <2>2, <2>3 DEF Places
    <3>3. above \in SUBSET C /\ within \in SUBSET D
      OBVIOUS
    <3>4. Cardinality(above) = Cardinality(within)
      <4>1. limit < n /\ limit \in Nat /\ n \in Nat
        BY <1>1, <2>3 DEF n
      <4>2. /\ C \in SUBSET (1 .. n) /\ limit <= n
            /\ IsFiniteSet(C) /\ Cardinality(C) = limit
        BY <1>2, <4>1
      <4>3. Cardinality({i \in C : i > limit}) = Cardinality({i \in (1 .. n) \ C : i <= limit})
        BY <4>1, <4>2, LiftedAndDisplaced, Zenon
      <4>4. within = {i \in (1 .. n) \ C : i <= limit}
        BY DEF D
      <4> QED
        BY <4>3, <4>4
    <3> HIDE DEF above, within, Lifted, Displaced
    <3>5. Cardinality(Lifted) = Cardinality(above)
      BY <1>8, <3>1, <3>3
    <3>6. Cardinality(Displaced) = Cardinality(within)
      BY <1>9, <3>2, <3>3
    <3> QED
      BY <3>4, <3>5, <3>6
  <2>4. CASE ~ (KindDiversity /\ n > limit)
    <3>1. Lifted = {}
      BY <2>1, <2>4
    <3>2. Displaced = {}
      <4>1. CASE ~ KindDiversity
        BY <2>2, <4>1
      <4>2. CASE ~ (n > limit)
        <5>1. D = {}
          BY <1>1, <1>2, <4>2 DEF D
        <5> QED
          BY <1>9, <2>2, <5>1
      <4> QED
        BY <2>4, <4>1, <4>2
    <3> QED
      BY <3>1, <3>2
  <2> QED
    BY <2>3, <2>4
<1>16. SelectionAccounted
  BY <1>12, <1>13, <1>14, <1>15 DEF SelectionAccounted, hits, dropped, ranked, limit, n
<1>17. KindsRepresented
  <2> SUFFICES ASSUME KindDiversity
               PROVE  /\ \A h \in Dropped, k \in Kept :
                           h.record.kind = k.record.kind => RanksBefore(k, h)
                      /\ \/ HitKinds(Dropped) \subseteq HitKinds(Kept)
                         \/ \A h, k \in Kept : h.record.kind = k.record.kind => h = k
    BY DEF KindsRepresented
  <2>1. ASSUME NEW i \in D, NEW k \in C, SameKind(ranked, i, k)
        PROVE  RanksBefore(ranked[k], ranked[i])
    <3>1. limit < n
      BY <1>1, <1>2 DEF D
    <3>2. k < i
      BY <1>1, <2>1, <3>1, NoneOvertaken DEF C, D, n
    <3> QED
      BY <1>1, <1>2, <3>2 DEF IsRanking, D, n
  <2>2. \/ \A i \in D : \E k \in C : SameKind(ranked, i, k)
        \/ \A i, k \in C : SameKind(ranked, i, k) => i = k
    <3>1. CASE limit < n
      BY <1>1, <3>1, KindsChosen DEF C, D, n
    <3>2. CASE ~ (limit < n)
      BY <1>1, <1>2, <3>2 DEF D
    <3> QED
      BY <3>1, <3>2
  <2>3. \A h \in Dropped, k \in Kept : h.record.kind = k.record.kind => RanksBefore(k, h)
    BY <1>10, <1>11, <2>1 DEF SameKind
  <2>4. CASE \A i \in D : \E k \in C : SameKind(ranked, i, k)
    <3>1. HitKinds(Dropped) \subseteq HitKinds(Kept)
      BY <1>10, <1>11, <2>4 DEF SameKind, HitKinds
    <3> QED
      BY <2>3, <3>1
  <2>5. CASE \A i, k \in C : SameKind(ranked, i, k) => i = k
    <3>1. \A h, k \in Kept : h.record.kind = k.record.kind => h = k
      BY <1>10, <2>5 DEF SameKind
    <3> QED
      BY <2>3, <3>1
  <2> QED
    BY <2>2, <2>4, <2>5
<1> QED
  BY <1>16, <1>17 DEF SelectionFair

-----------------------------------------------------------------------------
(* Ranked lists (compareHits). E is the set of records that match, f gives *)
(* each of them its hit.                                                   *)

RankOrder(f, E) == {p \in E \X E : RanksBefore(f[p[1]], f[p[2]])}

AreHits(f, E) ==
  /\ IsFiniteSet(E)
  /\ f = [r \in E |-> f[r]]
  /\ \A r \in E : /\ f[r].record = r /\ f[r].score \in Int
                  /\ r.createdAt \in Nat /\ r.recordId \in Nat
  /\ \A r, q \in E : r.recordId = q.recordId => r = q

\* Score, age and id put any two hits in one order.
LEMMA HitsOrdered ==
  ASSUME NEW E, NEW f, AreHits(f, E)
  PROVE  IsStrictOrder(RankOrder(f, E), E)
<1>1. \A a, b \in E :
        << a, b >> \in RankOrder(f, E) <=>
          \/ f[a].score > f[b].score
          \/ /\ f[a].score = f[b].score
             /\ \/ a.createdAt > b.createdAt
                \/ a.createdAt = b.createdAt /\ a.recordId < b.recordId
  BY DEF RankOrder, RanksBefore, AreHits
<1>2. \A a \in E : f[a].score \in Int /\ a.createdAt \in Int /\ a.recordId \in Int
  BY DEF AreHits
<1>3. \A a \in E : << a, a >> \notin RankOrder(f, E)
  BY <1>1, <1>2
<1>4. \A a, b, c \in E : << a, b >> \in RankOrder(f, E) /\ << b, c >> \in RankOrder(f, E)
                        => << a, c >> \in RankOrder(f, E)
  BY <1>1, <1>2
<1>5. \A a, b \in E : a = b \/ << a, b >> \in RankOrder(f, E) \/ << b, a >> \in RankOrder(f, E)
  <2> SUFFICES ASSUME NEW a \in E, NEW b \in E, a # b
               PROVE  << a, b >> \in RankOrder(f, E) \/ << b, a >> \in RankOrder(f, E)
    OBVIOUS
  <2>1. a.recordId # b.recordId
    BY DEF AreHits
  <2> QED
    BY <1>1, <1>2, <2>1
<1> QED
  BY <1>3, <1>4, <1>5 DEF IsStrictOrder

RankedOf(f, E) == Ranked({f[r] : r \in E})

RecordsOf(f, E) == [i \in 1 .. Cardinality(E) |-> RankedOf(f, E)[i].record]

\* The ranked list of hits is a ranking, and its records are those that match in the order of R.
LEMMA RankedRecords ==
  ASSUME NEW E, NEW f, AreHits(f, E)
  PROVE  /\ IsRanking(RankedOf(f, E)) /\ DOMAIN RankedOf(f, E) = 1 .. Cardinality(E)
         /\ Sorts(RecordsOf(f, E), RankOrder(f, E), E)
         /\ \A i \in 1 .. Cardinality(E) :
              RecordsOf(f, E)[i] \in E /\ RankedOf(f, E)[i] = f[RecordsOf(f, E)[i]]
<1> DEFINE n == Cardinality(E)
           R == RankOrder(f, E)
           H == {f[r] : r \in E}
           list == Ranked(H)
           records == [i \in 1 .. n |-> list[i].record]
<1>1. IsFiniteSet(E) /\ n \in Nat /\ IsStrictOrder(R, E)
  BY HitsOrdered, FS_CardinalityType DEF AreHits
<1>2. /\ \A r \in E : f[r] \in H /\ f[r].record = r
      /\ \A h \in H : h.record \in E /\ h = f[h.record]
      /\ \A a, b \in E : << a, b >> \in R <=> RanksBefore(f[a], f[b])
  BY DEF AreHits, RankOrder
<1>3. Cardinality(H) = n
  <2>1. f \in Bijection(E, H)
    <3>1. f \in [E -> H]
      <4>1. f = [r \in E |-> f[r]]
        BY DEF AreHits
      <4> QED
        BY <1>2, <4>1
    <3>2. \A a, b \in E : f[a] = f[b] => a = b
      BY <1>2
    <3>3. \A h \in H : \E r \in E : f[r] = h
      BY <1>2
    <3> QED
      BY <3>1, <3>2, <3>3 DEF Bijection, Injection, IsInjective, Surjection
  <2> QED
    BY <1>1, <2>1, FS_Bijection DEF ExistsBijection
<1>4. PICK sorted : Sorts(sorted, R, E)
  BY <1>1, SortedListExists
<1>5. /\ sorted \in [1 .. n -> E]
      /\ \A i, j \in 1 .. n : i < j => << sorted[i], sorted[j] >> \in R
  BY <1>4 DEF Sorts
<1>6. \E some \in [1 .. n -> H] :
        \A i, j \in DOMAIN some : i < j => RanksBefore(some[i], some[j])
  <2> DEFINE some == [i \in 1 .. n |-> f[sorted[i]]]
  <2>1. some \in [1 .. n -> H]
    BY <1>2, <1>5
  <2>2. \A i, j \in 1 .. n : i < j => RanksBefore(some[i], some[j])
    BY <1>2, <1>5
  <2> QED
    BY <2>1, <2>2
<1>7. /\ list \in [1 .. n -> H]
      /\ \A i, j \in DOMAIN list : i < j => RanksBefore(list[i], list[j])
  BY <1>3, <1>6 DEF Ranked, SortedList
<1> HIDE DEF list
<1>8. DOMAIN list = 1 .. n /\ Len(list) = n
  BY <1>1, <1>7
<1>9. \A i \in 1 .. n : list[i] \in H /\ records[i] = list[i].record
  BY <1>7 DEF list
<1>10. \A i \in 1 .. n : records[i] \in E /\ list[i] = f[records[i]]
  BY <1>2, <1>9
<1>11. Sorts(records, R, E)
  <2>1. records \in [1 .. n -> E] /\ DOMAIN records = 1 .. n
    BY <1>10
  <2>2. \A i, j \in 1 .. n : i < j => << records[i], records[j] >> \in R
    <3> SUFFICES ASSUME NEW i \in 1 .. n, NEW j \in 1 .. n, i < j
                 PROVE  << records[i], records[j] >> \in R
      OBVIOUS
    <3>1. PICK a \in E : a = records[i] /\ list[i] = f[a]
      BY <1>10
    <3>2. PICK b \in E : b = records[j] /\ list[j] = f[b]
      BY <1>10
    <3>3. RanksBefore(f[a], f[b])
      BY <1>7, <1>8, <3>1, <3>2
    <3> QED
      BY <1>2, <3>1, <3>2, <3>3
  <2> QED
    BY <2>1, <2>2 DEF Sorts
<1>12. \A i, j \in 1 .. n : list[i] = list[j] => i = j
  <2>1. \A i, j \in 1 .. n : records[i] = records[j] => i = j
    BY ONLY <1>1, <1>11, SortedListBijective
  <2>2. \A i, j \in 1 .. n : list[i] = list[j] => records[i] = records[j]
    BY ONLY <1>9
  <2> QED
    BY ONLY <2>1, <2>2
<1>13. IsRanking(list)
  BY <1>1, <1>7, <1>8, <1>12 DEF IsRanking
<1> QED
  BY <1>8, <1>10, <1>11, <1>13 DEF list, RankedOf, RecordsOf

\* Candidates: records of which no two have the same id.
AreCandidates(list) ==
  /\ list \in Seq(Records)
  /\ \A i, j \in DOMAIN list : list[i].recordId = list[j].recordId => list[i] = list[j]

\* Candidates are finitely many records, known by their ids.
LEMMA CandidatesAre ==
  ASSUME NEW list, AreCandidates(list)
  PROVE  /\ IsFiniteSet(ToSet(list)) /\ ToSet(list) \subseteq Records
         /\ \A r, q \in ToSet(list) : r.recordId = q.recordId => r = q
<1>1. DOMAIN list = 1 .. Len(list) /\ Len(list) \in Nat
  BY DEF AreCandidates
<1>2. ToSet(list) = {list[i] : i \in DOMAIN list}
  BY DEF ToSet
<1>3. list \in Surjection(1 .. Len(list), ToSet(list))
  <2>1. list \in [1 .. Len(list) -> ToSet(list)]
    BY <1>1, <1>2 DEF AreCandidates
  <2>2. \A r \in ToSet(list) : \E i \in 1 .. Len(list) : list[i] = r
    BY <1>1, <1>2
  <2> QED
    BY <2>1, <2>2 DEF Surjection
<1>4. IsFiniteSet(ToSet(list))
  BY <1>1, <1>3, UpTo, FS_Surjection
<1>5. \A r, q \in ToSet(list) : r.recordId = q.recordId => r = q
  BY <1>2 DEF AreCandidates
<1>6. \A r \in ToSet(list) : r \in Records
  BY <1>1, <1>2 DEF AreCandidates
<1> QED
  BY <1>4, <1>5, <1>6

\* A text of finitely many words has finitely many terms.
LEMMA TermsFinite ==
  ASSUME NEW text, IsFiniteSet(text)
  PROVE  IsFiniteSet(Terms(text))
BY FS_Difference DEF Terms

\* An overlap is a number.
LEMMA OverlapCounts ==
  ASSUME NEW terms, IsFiniteSet(terms), NEW record
  PROVE  Overlap(terms, record) \in Nat
<1>1. IsFiniteSet(terms \cap Terms(record.text))
  BY FS_Intersection
<1> QED
  BY <1>1, FS_CardinalityType DEF Overlap

Found(terms, scores, list) ==
  {c \in ToSet(list) : Coverage(terms, c) > 0 \/ Admitted(scores, c)}

HybridHitOf(terms, scores, E) == [r \in E |-> HybridHit(terms, scores, r)]

\* What the hybrid retriever ranks.
LEMMA HybridHitsAre ==
  ASSUME NEW terms, IsFiniteSet(terms), NEW list, AreCandidates(list),
         NEW scores, \A id \in DOMAIN scores : scores[id] \in Int,
         NEW E, E = Found(terms, scores, list), NEW f, f = HybridHitOf(terms, scores, E)
  PROVE  AreHits(f, E) /\ HybridHits(terms, scores, list) = RankedOf(f, E)
<1>1. /\ IsFiniteSet(ToSet(list)) /\ ToSet(list) \subseteq Records
      /\ \A r, q \in ToSet(list) : r.recordId = q.recordId => r = q
  BY CandidatesAre
<1>2. E \subseteq ToSet(list) /\ IsFiniteSet(E)
  BY <1>1, FS_Subset DEF Found
<1>3. ASSUME NEW r \in E
      PROVE  f[r].record = r /\ f[r].score \in Int
  <2>1. Coverage(terms, r) \in Int
    BY OverlapCounts DEF Coverage
  <2>2. (IF Admitted(scores, r) THEN CosineWeight(terms) * scores[r.recordId] ELSE 0) \in Int
    <3>1. CASE Admitted(scores, r)
      <4>1. PICK c \in Int : c = scores[r.recordId]
        BY <3>1 DEF Admitted
      <4>2. PICK k \in Nat : k = CosineWeight(terms)
        BY FS_CardinalityType DEF CosineWeight
      <4>3. k * c \in Int
        OBVIOUS
      <4> QED
        BY <3>1, <4>1, <4>2, <4>3
    <3>2. CASE ~ Admitted(scores, r)
      BY <3>2
    <3> QED
      BY <3>1, <3>2
  <2>3. /\ f[r].record = r
        /\ f[r].score = Coverage(terms, r) +
             (IF Admitted(scores, r) THEN CosineWeight(terms) * scores[r.recordId] ELSE 0)
    BY DEF HybridHitOf, HybridHit
  <2> QED
    BY <2>1, <2>2, <2>3
<1>4. \A r \in E : r.createdAt \in Nat /\ r.recordId \in Nat
  BY <1>1, <1>2, RecordsAssumption
<1>5. f = [r \in E |-> f[r]]
  BY DEF HybridHitOf
<1>6. AreHits(f, E)
  BY <1>1, <1>2, <1>3, <1>4, <1>5 DEF AreHits
<1>7. {HybridHit(terms, scores, r) : r \in E} = {f[r] : r \in E}
  BY DEF HybridHitOf
<1>8. HybridHits(terms, scores, list) = Ranked({HybridHit(terms, scores, r) : r \in E})
  BY DEF HybridHits, Found
<1> QED
  BY <1>6, <1>7, <1>8 DEF RankedOf

LexicalHitOf(terms, E) ==
  [r \in E |-> [record |-> r, score |-> Overlap(terms, r), matchedBy |-> {"metadata", "keyword"}]]

\* Without cosines the hybrid retriever finds what the lexical one does, in the same order.
LEMMA LexicalOrder ==
  ASSUME NEW terms, IsFiniteSet(terms), NEW list, AreCandidates(list),
         NEW scores, DOMAIN scores = {}
  PROVE  HitIds(HybridHits(terms, scores, list)) = HitIds(LexicalHits(terms, list))
<1> DEFINE E == Found(terms, scores, list)
           f == HybridHitOf(terms, scores, E)
           g == LexicalHitOf(terms, E)
           R == RankOrder(f, E)
           hybrid == RankedOf(f, E)
           lexical == RankedOf(g, E)
           n == Cardinality(E)
<1>1. AreHits(f, E) /\ HybridHits(terms, scores, list) = hybrid
  BY HybridHitsAre
<1>2. \A r \in ToSet(list) : Overlap(terms, r) \in Nat /\ ~ Admitted(scores, r)
  BY OverlapCounts DEF Admitted
<1>3. E = {c \in ToSet(list) : Overlap(terms, c) > 0}
  BY <1>2 DEF Found, Coverage
<1>4. LexicalHits(terms, list) = lexical
  <2>1. {[record |-> r, score |-> Overlap(terms, r), matchedBy |-> {"metadata", "keyword"}] : r \in E}
          = {g[r] : r \in E}
    BY DEF LexicalHitOf
  <2> QED
    BY <1>3, <2>1 DEF LexicalHits, RankedOf
<1>5. \A r \in E : /\ f[r].score = 100 * Overlap(terms, r) /\ f[r].record = r
                  /\ g[r].score = Overlap(terms, r) /\ g[r].record = r
                  /\ Overlap(terms, r) \in Nat
  <2> TAKE r \in E
  <2>1. Overlap(terms, r) \in Nat /\ ~ Admitted(scores, r)
    BY <1>2, <1>3
  <2>2. f[r].score = Coverage(terms, r) + 0 /\ f[r].record = r
    BY <2>1 DEF HybridHitOf, HybridHit
  <2>3. g[r].score = Overlap(terms, r) /\ g[r].record = r
    BY DEF LexicalHitOf
  <2> QED
    BY <2>1, <2>2, <2>3 DEF Coverage
<1>6. AreHits(g, E)
  <2>1. g = [r \in E |-> g[r]]
    BY DEF LexicalHitOf
  <2> HIDE DEF f, g, E
  <2>2. \A r \in E : g[r].score \in Int
    BY <1>5
  <2> QED
    BY <1>1, <1>5, <2>1, <2>2 DEF AreHits
<1> HIDE DEF E, f, g
<1>7. RankOrder(g, E) = R
  <2>1. \A a, b \in E : RanksBefore(f[a], f[b]) <=> RanksBefore(g[a], g[b])
    BY <1>5 DEF RanksBefore
  <2> QED
    BY <2>1 DEF RankOrder
<1>8. Sorts(RecordsOf(f, E), R, E) /\ DOMAIN hybrid = 1 .. n
  BY <1>1, RankedRecords
<1>9. Sorts(RecordsOf(g, E), R, E) /\ DOMAIN lexical = 1 .. n
  BY <1>6, <1>7, RankedRecords
<1>10. RecordsOf(f, E) = RecordsOf(g, E)
  <2>1. IsFiniteSet(E) /\ IsStrictOrder(R, E)
    BY <1>1, HitsOrdered DEF AreHits
  <2> HIDE DEF R
  <2> QED
    BY <1>8, <1>9, <2>1, SortedListUnique
<1>11. \A i \in 1 .. n : hybrid[i].record = lexical[i].record
  <2>1. \A i \in 1 .. n : RecordsOf(f, E)[i] = RecordsOf(g, E)[i]
    BY <1>10
  <2>2. \A i \in 1 .. n : /\ RecordsOf(f, E)[i] = hybrid[i].record
                        /\ RecordsOf(g, E)[i] = lexical[i].record
    BY DEF RecordsOf
  <2> HIDE DEF hybrid, lexical
  <2> QED
    BY <2>1, <2>2
<1> HIDE DEF hybrid, lexical, n
<1>12. HitIds(hybrid) = HitIds(lexical)
  BY <1>8, <1>9, <1>11 DEF HitIds
<1> QED
  BY <1>1, <1>4, <1>12

-----------------------------------------------------------------------------
(* The memory: the inductive invariant. What is stored, what is indexed    *)
(* and what the pending call still has to do account for each other.       *)

\* Rows and vectors are numbered, no two alike.
Numbered(table) ==
  /\ \A id \in DOMAIN table : table[id].seq \in Nat
  /\ \A a, b \in DOMAIN table : table[a].seq = table[b].seq => a = b

StoreInv ==
  /\ IsFiniteSet(Stored) /\ Numbered(rows)
  /\ \A id \in Stored : /\ rows[id].record \in Records /\ rows[id].record.valid
                        /\ rows[id].record.recordId = id
  /\ TagsMatchBody

VectorInv ==
  /\ Indexed \subseteq Stored /\ Numbered(vectors)
  /\ \A id \in Indexed : /\ vectors[id].model \in Models
                         /\ vectors[id].dimensions \in Nat \ {0}
                         /\ vectors[id].text \in {r.text : r \in Records}
  /\ model \in Models /\ observedDimensions \in Nat
  /\ mine \subseteq Indexed /\ OwnVectorsComparable

\* The record is stored as it is.
IsHeld(record) ==
  /\ record \in Records
  /\ record.recordId \in Stored /\ rows[record.recordId].record = record

IsBackfill(call) ==
  /\ call \in [call : {"backfill"}, rest : Seq(Records), failed : Nat]
  /\ \A i \in DOMAIN call.rest : IsHeld(call.rest[i])

\* A call that is suspended works on what is stored: nothing else is put meanwhile.
OpInv ==
  /\ op.call \in {"none", "index", "backfill", "search"}
  /\ op.call = "none" => op = Idle
  /\ op.call = "index" => /\ IsHeld(op.record) /\ op.record.text # {}
                          /\ op.after = Idle \/ IsBackfill(op.after)
  /\ op.call = "backfill" => IsBackfill(op)
  /\ op.call = "search" => /\ op.query \in Queries /\ AreCandidates(op.candidates)
                           /\ \A i \in DOMAIN op.candidates : IsHeld(op.candidates[i])
                           /\ op.compared \subseteq Indexed

FollowInv == owed \subseteq Stored /\ IndexFollowsStore

\* As long as a backfill has met no failure, a record without a vector is still before it.
Covers(call) ==
  call.call = "backfill" /\ call.failed = 0 =>
    \A id \in Stored : \/ HoldsVector(id)
                       \/ \E i \in DOMAIN call.rest : call.rest[i].recordId = id
                       \/ op.call = "index" /\ op.record.recordId = id

BackfillInv ==
  /\ Covers(op)
  /\ op.call = "index" => Covers(op.after)
  /\ BackfillComplete

\* What was returned last is still so, for nothing was called since.
AnswerInv ==
  /\ returned # Idle => op = Idle
  /\ returned.call = "retrieve" =>
       /\ returned.query \in Queries /\ AreCandidates(returned.candidates)
       /\ IsRanking(returned.ranked)
       /\ returned.selection = RankHits(returned.ranked, returned.query.limit)
       /\ ~ returned.ran =>
            returned.ranked = HybridHits(Terms(returned.query.text), NoScores, returned.candidates)
       /\ FoundByMeaning

BoundsInv ==
  /\ isOpen \in BOOLEAN
  /\ puts \in 0 .. MaxPuts /\ opens \in 1 .. MaxOpens

Inv ==
  /\ StoreInv /\ VectorInv /\ OpInv /\ FollowInv
  /\ BackfillInv /\ AnswerInv /\ BoundsInv

-----------------------------------------------------------------------------
(* Rows and vectors.                                                       *)

\* A finite set of numbers that is not empty has a greatest one: its last in increasing order.
LEMMA MaxIsLast ==
  ASSUME NEW A, A \subseteq Nat, IsFiniteSet(A), A # {}
  PROVE  Max(A) \in A /\ \A x \in A : x <= Max(A)
<1> DEFINE n == Cardinality(A)
           list == Ascending(A)
<1>1. n \in Nat /\ n # 0
  BY FS_CardinalityType, FS_EmptySet
<1>2. Sorts(list, Smaller(A), A)
  BY AscendingSorts
<1>3. \A x \in A : \E i \in 1 .. n : list[i] = x
  BY AscendingPlaces
<1>4. \A i, j \in 1 .. n : i < j => list[i] < list[j]
  BY <1>2 DEF Sorts, Smaller
<1>5. list[n] \in A
  BY <1>1, <1>2 DEF Sorts
<1> HIDE DEF list
<1>6. \A x \in A : list[n] >= x
  <2> TAKE x \in A
  <2>1. PICK i \in 1 .. n : list[i] = x
    BY <1>3
  <2>2. i = n \/ i < n
    BY <1>1
  <2>3. list[n] \in Nat /\ x \in Nat
    BY <1>5
  <2> QED
    BY <1>1, <1>4, <2>1, <2>2, <2>3
<1>7. Max(A) \in A /\ \A y \in A : Max(A) >= y
  BY <1>5, <1>6 DEF Max
<1>8. \A x \in A : x <= Max(A)
  <2> TAKE x \in A
  <2>1. Max(A) \in Nat /\ x \in Nat /\ Max(A) >= x
    BY <1>7
  <2> QED
    BY <2>1
<1> QED
  BY <1>7, <1>8

\* The last number given in a table.
LastNumber(table) ==
  IF DOMAIN table = {} THEN 0 ELSE Max({table[id].seq : id \in DOMAIN table})

\* No number in a table is above the last.
LEMMA LastBounds ==
  ASSUME NEW table, IsFiniteSet(DOMAIN table), Numbered(table)
  PROVE  /\ LastNumber(table) \in Nat
         /\ \A id \in DOMAIN table : table[id].seq <= LastNumber(table)
<1> DEFINE A == {table[id].seq : id \in DOMAIN table}
           f == [id \in DOMAIN table |-> table[id].seq]
<1>1. CASE DOMAIN table = {}
  BY <1>1 DEF LastNumber
<1>2. CASE DOMAIN table # {}
  <2>1. f \in Surjection(DOMAIN table, A)
    BY DEF Surjection
  <2>2. IsFiniteSet(A)
    BY <2>1, FS_Surjection
  <2>3. A \subseteq Nat /\ A # {}
    BY <1>2 DEF Numbered
  <2>4. LastNumber(table) = Max(A)
    BY <1>2 DEF LastNumber
  <2>5. \A id \in DOMAIN table : table[id].seq \in A
    OBVIOUS
  <2> HIDE DEF A
  <2>6. Max(A) \in A /\ \A x \in A : x <= Max(A)
    BY <2>2, <2>3, MaxIsLast
  <2> QED
    BY <2>3, <2>4, <2>5, <2>6
<1> QED
  BY <1>1, <1>2

\* An entry that keeps its number or gets the next one leaves the table numbered.
LEMMA NumberedPut ==
  ASSUME NEW table, IsFiniteSet(DOMAIN table), Numbered(table),
         NEW id, NEW entry,
         \/ entry.seq = LastNumber(table) + 1
         \/ id \in DOMAIN table /\ entry.seq = table[id].seq,
         NEW new, new = [other \in DOMAIN table \cup {id} |->
                           IF other = id THEN entry ELSE table[other]]
  PROVE  Numbered(new)
<1>1. /\ LastNumber(table) \in Nat
      /\ \A other \in DOMAIN table : table[other].seq \in Nat /\ table[other].seq <= LastNumber(table)
  BY LastBounds DEF Numbered
<1>2. /\ DOMAIN new = DOMAIN table \cup {id} /\ new[id] = entry
      /\ \A other \in DOMAIN table : other # id => new[other] = table[other]
  OBVIOUS
<1>3. entry.seq \in Nat
  BY <1>1
<1>4. \A other \in DOMAIN table : other # id => table[other].seq # entry.seq
  BY <1>1 DEF Numbered
<1>5. \A other \in DOMAIN new : new[other].seq \in Nat
  BY <1>1, <1>2, <1>3
<1>6. \A a, b \in DOMAIN new : new[a].seq = new[b].seq => a = b
  BY <1>2, <1>4 DEF Numbered
<1> QED
  BY <1>5, <1>6 DEF Numbered

\* What a put changes, in terms of the rows there were.
LEMMA UpsertIs ==
  ASSUME StoreInv, NEW record \in Records, Upsert(record)
  PROVE  /\ Stored' = Stored \cup {record.recordId} /\ IsFiniteSet(Stored')
         /\ rows'[record.recordId].record = record
         /\ \A id \in Stored : id # record.recordId => rows'[id] = rows[id]
         /\ \A id \in Stored : rows'[id].seq = rows[id].seq
         /\ record.recordId \notin Stored =>
              \A id \in Stored : rows[id].seq < rows'[record.recordId].seq
         /\ Numbered(rows)'
         /\ isOpen' = isOpen
<1> DEFINE id == record.recordId
           seq == IF id \in Stored THEN rows[id].seq ELSE LastSeq + 1
           entry == [record |-> record, seq |-> seq]
<1>1. rows' = [other \in Stored \cup {id} |-> IF other = id THEN entry ELSE rows[other]]
  BY DEF Upsert
<1>2. Stored' = Stored \cup {id} /\ rows'[id] = entry
  BY <1>1 DEF Stored
<1>3. entry.record = record /\ entry.seq = seq
  OBVIOUS
<1>4. LastSeq = LastNumber(rows) /\ IsFiniteSet(DOMAIN rows) /\ Numbered(rows)
  BY DEF LastSeq, LastNumber, Stored, StoreInv
<1>5. /\ LastNumber(rows) \in Nat
      /\ \A other \in Stored : rows[other].seq \in Nat /\ rows[other].seq <= LastNumber(rows)
  BY <1>4, LastBounds DEF Numbered, Stored
<1>6. IsFiniteSet(Stored')
  BY <1>2, <1>4, FS_AddElement DEF Stored
<1>7. \/ entry.seq = LastNumber(rows) + 1
      \/ id \in DOMAIN rows /\ entry.seq = rows[id].seq
  BY <1>3, <1>4 DEF Stored
<1> HIDE DEF entry
<1>8. Numbered(rows')
  BY <1>1, <1>4, <1>7, NumberedPut DEF Stored
<1>9. /\ \A other \in Stored : other # id => rows'[other] = rows[other]
      /\ \A other \in Stored : rows'[other].seq = rows[other].seq
  BY <1>1, <1>2, <1>3
<1>10. id \notin Stored => \A other \in Stored : rows[other].seq < rows'[id].seq
  BY <1>2, <1>3, <1>4, <1>5
<1>11. Numbered(rows)'
  BY <1>8
<1>12. isOpen' = isOpen
  BY DEF Upsert
<1> QED
  BY <1>2, <1>3, <1>6, <1>9, <1>10, <1>11, <1>12

\* A put leaves the store in order.
LEMMA UpsertKeepsStore ==
  ASSUME StoreInv, NEW record \in Records, Upsert(record), record.valid
  PROVE  StoreInv'
<1> DEFINE id == record.recordId
<1>1. /\ Stored' = Stored \cup {id} /\ IsFiniteSet(Stored')
      /\ rows'[id].record = record
      /\ \A other \in Stored : other # id => rows'[other] = rows[other]
      /\ Numbered(rows)'
  BY UpsertIs
<1>2. \A other \in Stored' : /\ rows'[other].record \in Records /\ rows'[other].record.valid
                             /\ rows'[other].record.recordId = other
  BY <1>1 DEF StoreInv
<1>3. tagRows' = {row \in tagRows : row[1] # id} \cup {<< id, tag >> : tag \in record.tags}
  BY DEF Upsert
<1>4. \A row : row \in tagRows <=>
                 \E other \in Stored : \E tag \in rows[other].record.tags : row = << other, tag >>
  BY DEF StoreInv, TagsMatchBody
<1>5. \A row : row \in tagRows' <=>
                 \E other \in Stored' : \E tag \in rows'[other].record.tags : row = << other, tag >>
  <2> TAKE row
  <2>1. ASSUME row \in tagRows'
        PROVE  \E other \in Stored' : \E tag \in rows'[other].record.tags : row = << other, tag >>
    <3>1. CASE row \in tagRows /\ row[1] # id
      BY <1>1, <1>4, <3>1
    <3>2. CASE row \in {<< id, tag >> : tag \in record.tags}
      BY <1>1, <3>2
    <3> QED
      BY <1>3, <2>1, <3>1, <3>2
  <2>2. ASSUME NEW other \in Stored', NEW tag \in rows'[other].record.tags, row = << other, tag >>
        PROVE  row \in tagRows'
    <3>1. CASE other = id
      BY <1>1, <1>3, <2>2, <3>1
    <3>2. CASE other # id
      <4>1. other \in Stored /\ tag \in rows[other].record.tags
        BY <1>1, <2>2, <3>2
      <4>2. row \in tagRows /\ row[1] # id
        BY <1>4, <2>2, <3>2, <4>1
      <4> QED
        BY <1>3, <4>2
    <3> QED
      BY <3>1, <3>2
  <2> QED
    BY <2>1, <2>2
<1>6. TagsMatchBody'
  BY <1>5 DEF TagsMatchBody
<1> QED
  BY <1>1, <1>2, <1>6 DEF StoreInv

\* Only a put that is not refused changes rows and tags.
LEMMA WhoStores ==
  ASSUME [Next]_memoryVars
  PROVE  \/ \E record \in Records : record.valid /\ Upsert(record) /\ Put(record)
         \/ UNCHANGED << rows, tagRows >>
<1>1. ASSUME NEW record \in Records, Put(record)
      PROVE  (record.valid /\ Upsert(record)) \/ UNCHANGED << rows, tagRows >>
  BY <1>1 DEF Put, Refused, storeVars
<1>2. CASE \E record \in Records : PutFails(record)
  BY <1>2 DEF PutFails, storeVars
<1>3. CASE \E reply \in Replies : VectorArrives(reply) \/ QueryVectorArrives(reply)
  BY <1>3 DEF VectorArrives, QueryVectorArrives, storeVars
<1>4. CASE EmbeddingFails \/ Backfill \/ BackfillNext \/ BackfillReturns \/ BackfillThrows
  BY <1>4 DEF EmbeddingFails, Backfill, BackfillNext, BackfillReturns, BackfillThrows, storeVars
<1>5. CASE (\E query \in Queries : Retrieve(query)) \/ QueryEmbeddingFails
  BY <1>5 DEF Retrieve, QueryEmbeddingFails, storeVars
<1>6. CASE Close \/ ProcessEnds \/ \E nextModel \in Models : Open(nextModel)
  BY <1>6 DEF Close, ProcessEnds, Open
<1>7. CASE UNCHANGED memoryVars
  BY <1>7 DEF memoryVars, storeVars
<1> QED
  BY <1>1, <1>2, <1>3, <1>4, <1>5, <1>6, <1>7 DEF Next

\* No step gets rows and tags out of order.
LEMMA StoreStep ==
  ASSUME StoreInv, [Next]_memoryVars
  PROVE  StoreInv'
<1>1. CASE \E record \in Records : record.valid /\ Upsert(record)
  BY <1>1, UpsertKeepsStore
<1>2. CASE UNCHANGED << rows, tagRows >>
  BY <1>2 DEF StoreInv, Stored, Numbered, TagsMatchBody
<1> QED
  BY <1>1, <1>2, WhoStores

-----------------------------------------------------------------------------
(* What the store answers.                                                 *)

Age(S) == {p \in S \X S : Older(p[1], p[2])}

\* Rows are ordered by age, and rows of one age by their number.
LEMMA AgeOrders ==
  ASSUME StoreInv, NEW S, S \subseteq Stored
  PROVE  IsFiniteSet(S) /\ IsStrictOrder(Age(S), S)
<1>1. IsFiniteSet(S)
  BY FS_Subset DEF StoreInv
<1>2. \A a \in S : rows[a].record.createdAt \in Nat /\ rows[a].seq \in Nat
  BY RecordsAssumption DEF StoreInv, Numbered, Stored
<1>3. \A a, b \in S : rows[a].seq = rows[b].seq => a = b
  BY DEF StoreInv, Numbered, Stored
<1>4. \A a, b \in S :
        << a, b >> \in Age(S) <=>
          \/ rows[a].record.createdAt < rows[b].record.createdAt
          \/ /\ rows[a].record.createdAt = rows[b].record.createdAt
             /\ rows[a].seq < rows[b].seq
  BY DEF Age, Older
<1>5. \A a \in S : << a, a >> \notin Age(S)
  BY <1>2, <1>4
<1>6. \A a, b, c \in S : << a, b >> \in Age(S) /\ << b, c >> \in Age(S) => << a, c >> \in Age(S)
  BY <1>2, <1>4
<1>7. \A a, b \in S : a = b \/ << a, b >> \in Age(S) \/ << b, a >> \in Age(S)
  <2> SUFFICES ASSUME NEW a \in S, NEW b \in S, a # b
               PROVE  << a, b >> \in Age(S) \/ << b, a >> \in Age(S)
    OBVIOUS
  <2>1. rows[a].seq # rows[b].seq
    BY <1>3
  <2> QED
    BY <1>2, <1>4, <2>1
<1> QED
  BY <1>1, <1>5, <1>6, <1>7 DEF IsStrictOrder

\* Taking the first few keeps their places.
LEMMA TakeIs ==
  ASSUME NEW S, NEW list \in Seq(S), NEW limit \in Nat
  PROVE  /\ Take(list, limit) \in Seq(S)
         /\ DOMAIN Take(list, limit) \subseteq DOMAIN list
         /\ \A i \in DOMAIN Take(list, limit) : Take(list, limit)[i] = list[i]
         /\ Len(list) <= limit => DOMAIN Take(list, limit) = DOMAIN list
<1> DEFINE m == Min({limit, Len(list)})
<1>1. m = IF limit <= Len(list) THEN limit ELSE Len(list)
  BY MinOfTwo
<1>2. m \in 0 .. Len(list) /\ (Len(list) <= limit => m = Len(list))
  BY <1>1
<1> HIDE DEF m
<1>3. Take(list, limit) = SubSeq(list, 1, m)
  BY DEF Take, m
<1>4. Take(list, limit) \in Seq(S) /\ Len(Take(list, limit)) = m
  BY <1>2, <1>3
<1>5. \A i \in 1 .. m : Take(list, limit)[i] = list[i]
  BY <1>2, <1>3
<1>6. DOMAIN Take(list, limit) = 1 .. m /\ DOMAIN list = 1 .. Len(list)
  BY <1>4
<1> QED
  BY <1>2, <1>4, <1>5, <1>6

\* A query returns candidates that are stored, and all that match if its limit allows.
LEMMA QueryReturns ==
  ASSUME StoreInv, NEW query, query.limit \in Nat
  PROVE  /\ AreCandidates(Query(query))
         /\ \A i \in DOMAIN Query(query) : IsHeld(Query(query)[i])
         /\ Cardinality(Stored) <= query.limit =>
              \A id \in Stored : Matches(query, id) =>
                \E i \in DOMAIN Query(query) : Query(query)[i].recordId = id
<1> DEFINE S == {id \in Stored : Matches(query, id)}
           n == Cardinality(S)
           found == SortedList(S, Older)
           list == [i \in DOMAIN found |-> rows[found[i]].record]
           answer == Take(list, query.limit)
<1>1. S \subseteq Stored /\ IsFiniteSet(S) /\ IsStrictOrder(Age(S), S) /\ n \in Nat
  BY AgeOrders, FS_CardinalityType
<1>2. PICK sorted : Sorts(sorted, Age(S), S)
  BY <1>1, SortedListExists
<1>3. \A some : Sorts(some, Age(S), S)
               <=> /\ some \in [1 .. n -> S]
                   /\ \A i, j \in DOMAIN some : i < j => Older(some[i], some[j])
  BY DEF Sorts, Age
<1>4. \E some \in [1 .. n -> S] : \A i, j \in DOMAIN some : i < j => Older(some[i], some[j])
  BY <1>2, <1>3
<1>5. /\ found \in [1 .. n -> S]
      /\ \A i, j \in DOMAIN found : i < j => Older(found[i], found[j])
  BY <1>4 DEF SortedList
<1>6. Sorts(found, Age(S), S)
  BY <1>3, <1>5
<1> HIDE DEF S, found, n
<1>7. /\ \A i, j \in 1 .. n : found[i] = found[j] => i = j
      /\ \A id \in S : \E i \in 1 .. n : found[i] = id
  BY ONLY <1>1, <1>6, SortedListBijective DEF n
<1>8. \A i \in 1 .. n : found[i] \in Stored
  BY <1>1, <1>5
<1>9. DOMAIN list = 1 .. n /\ \A i \in 1 .. n : list[i] = rows[found[i]].record
  BY <1>5
<1>10. \A i \in 1 .. n : /\ IsHeld(list[i]) /\ list[i] \in Records
                       /\ list[i].recordId = found[i]
  BY <1>8, <1>9 DEF IsHeld, StoreInv
<1>11. list \in Seq(Records) /\ Len(list) = n
  <2>1. list \in [1 .. n -> Records]
    BY <1>9, <1>10
  <2> QED
    BY <1>1, <2>1
<1>12. Query(query) = answer
  BY DEF Query, found, S
<1> HIDE DEF list, answer
<1>13. /\ answer \in Seq(Records)
       /\ DOMAIN answer \subseteq 1 .. n
       /\ \A i \in DOMAIN answer : answer[i] = list[i]
       /\ n <= query.limit => DOMAIN answer = 1 .. n
  BY <1>9, <1>11, TakeIs DEF answer
<1>14. AreCandidates(answer)
  <2>1. \A i, j \in DOMAIN answer : answer[i].recordId = answer[j].recordId => answer[i] = answer[j]
    <3> SUFFICES ASSUME NEW i \in DOMAIN answer, NEW j \in DOMAIN answer,
                        answer[i].recordId = answer[j].recordId
                 PROVE  answer[i] = answer[j]
      OBVIOUS
    <3>1. found[i] = found[j] /\ i \in 1 .. n /\ j \in 1 .. n
      BY <1>10, <1>13
    <3>2. i = j
      BY <1>7, <3>1
    <3> QED
      BY <3>2
  <2> QED
    BY <1>13, <2>1 DEF AreCandidates
<1>15. \A i \in DOMAIN answer : IsHeld(answer[i])
  BY <1>10, <1>13
<1>16. ASSUME Cardinality(Stored) <= query.limit, NEW id \in Stored, Matches(query, id)
       PROVE  \E i \in DOMAIN answer : answer[i].recordId = id
  <2>1. n <= query.limit
    <3>1. IsFiniteSet(Stored)
      BY DEF StoreInv
    <3>2. n <= Cardinality(Stored) /\ Cardinality(Stored) \in Nat
      BY <1>1, <3>1, FS_Subset, FS_CardinalityType DEF n
    <3> QED
      BY <1>1, <1>16, <3>2
  <2>2. PICK i \in 1 .. n : found[i] = id
    BY <1>7, <1>16 DEF S
  <2> QED
    BY <1>10, <1>13, <2>1, <2>2
<1> QED
  BY <1>12, <1>14, <1>15, <1>16

-----------------------------------------------------------------------------
(* Vectors.                                                                *)

Recency(S) == {p \in S \X S : vectors[p[1]].seq > vectors[p[2]].seq}

\* What is compared with a query has a vector of the current model.
LEMMA ComparedAre ==
  ASSUME VectorInv, IsFiniteSet(Stored), NEW within
  PROVE  \A id \in CandidateRows(within) : id \in within /\ HoldsVector(id)
<1> DEFINE S == {id \in within : HoldsVector(id)}
           Newer(a, b) == vectors[a].seq > vectors[b].seq
           n == Cardinality(S)
           sorted == SortedList(S, Newer)
           m == Min({MaxVectors, Len(sorted)})
<1>1. S \subseteq Indexed /\ IsFiniteSet(S) /\ n \in Nat
  <2>1. S \subseteq Stored /\ S \subseteq Indexed
    BY DEF VectorInv, HoldsVector
  <2> QED
    BY <2>1, FS_Subset, FS_CardinalityType
<1>2. \A a \in S : vectors[a].seq \in Nat
  BY <1>1 DEF VectorInv, Numbered, Indexed
<1>3. IsStrictOrder(Recency(S), S)
  <2>1. \A a, b \in S : << a, b >> \in Recency(S) <=> vectors[a].seq > vectors[b].seq
    BY DEF Recency
  <2>2. \A a, b \in S : vectors[a].seq = vectors[b].seq => a = b
    BY <1>1 DEF VectorInv, Numbered, Indexed
  <2> HIDE DEF S
  <2>3. \A a \in S : << a, a >> \notin Recency(S)
    BY <1>2, <2>1
  <2>4. \A a, b, c \in S : << a, b >> \in Recency(S) /\ << b, c >> \in Recency(S)
                            => << a, c >> \in Recency(S)
    BY <1>2, <2>1
  <2>5. \A a, b \in S : a = b \/ << a, b >> \in Recency(S) \/ << b, a >> \in Recency(S)
    <3> SUFFICES ASSUME NEW a \in S, NEW b \in S, a # b
                 PROVE  << a, b >> \in Recency(S) \/ << b, a >> \in Recency(S)
      OBVIOUS
    <3>1. vectors[a].seq # vectors[b].seq
      BY <2>2
    <3> QED
      BY <1>2, <2>1, <3>1
  <2> QED
    BY <2>3, <2>4, <2>5 DEF IsStrictOrder
<1>4. PICK some : Sorts(some, Recency(S), S)
  BY <1>1, <1>3, SortedListExists
<1>5. \E list \in [1 .. n -> S] : \A i, j \in DOMAIN list : i < j => Newer(list[i], list[j])
  BY <1>4 DEF Sorts, Recency
<1>6. sorted \in [1 .. n -> S]
  BY <1>5 DEF SortedList
<1>9. CandidateRows(within) = ToSet(SubSeq(sorted, 1, m))
  BY DEF CandidateRows
<1> HIDE DEF S, n, sorted
<1>7. sorted \in Seq(S) /\ Len(sorted) = n
  BY <1>1, <1>6
<1>8. m \in 0 .. n
  <2>1. m = IF MaxVectors <= n THEN MaxVectors ELSE n
    BY <1>1, <1>7, VectorsAssumption, MinOfTwo
  <2> QED
    BY <1>1, <2>1, VectorsAssumption
<1> HIDE DEF m
<1>10. SubSeq(sorted, 1, m) \in Seq(S)
  BY <1>7, <1>8
<1>11. \A id \in ToSet(SubSeq(sorted, 1, m)) : id \in S
  BY <1>10 DEF ToSet
<1> QED
  BY <1>9, <1>11 DEF S

\* The vector of an accepted reply has dimensions, those of the first answer.
LEMMA AcceptedReply ==
  ASSUME NEW reply \in Replies, Accepted(reply, 1)
  PROVE  /\ reply[1].dimensions \in Nat \ {0}
         /\ observedDimensions # 0 => reply[1].dimensions = observedDimensions
<1> DEFINE Part == [index : Int, dimensions : Int]
<1>1. reply \in Seq(Part)
  BY MemoryAssumption
<1>2. Len(reply) = 1
  BY DEF Accepted, WellFormedReply
<1>3. \A part \in Part : part.dimensions \in Int
  OBVIOUS
<1> HIDE DEF Part
<1>4. 1 \in DOMAIN reply /\ reply[1] \in Part
  BY <1>1, <1>2
<1>5. reply[1].dimensions > 0
  BY <1>4 DEF Accepted, WellFormedReply
<1>6. observedDimensions # 0 => reply[1].dimensions = observedDimensions
  BY DEF Accepted
<1> QED
  BY <1>3, <1>4, <1>5, <1>6

\* The vectors of this process agree with what its next answer has.
LEMMA AnswerComparable ==
  ASSUME VectorInv, NEW reply \in Replies, Accepted(reply, 1), NEW id \in mine
  PROVE  vectors[id].dimensions = reply[1].dimensions
<1>1. id \in Indexed /\ vectors[id].dimensions \in Nat \ {0}
  BY DEF VectorInv
<1>2. vectors[id].dimensions = observedDimensions
  BY DEF VectorInv, OwnVectorsComparable
<1> QED
  BY <1>1, <1>2, AcceptedReply

\* What storing a vector changes.
LEMMA StoreVectorIs ==
  ASSUME VectorInv, IsFiniteSet(Stored), NEW id, NEW text, NEW dimensions,
         StoreVector(id, text, dimensions)
  PROVE  /\ Indexed' = Indexed \cup {id} /\ Numbered(vectors)'
         /\ vectors'[id].model = model /\ vectors'[id].dimensions = dimensions
         /\ vectors'[id].text = text
         /\ \A other \in Indexed : other # id => vectors'[other] = vectors[other]
<1> DEFINE entry == [model |-> model, dimensions |-> dimensions, text |-> text,
                     seq |-> LastNumber(vectors) + 1]
<1>1. vectors' = [other \in DOMAIN vectors \cup {id} |->
                    IF other = id THEN entry ELSE vectors[other]]
  BY DEF StoreVector, LastNumber, Indexed
<1>2. IsFiniteSet(DOMAIN vectors) /\ Numbered(vectors)
  BY FS_Subset DEF VectorInv, Indexed
<1>3. /\ entry.model = model /\ entry.dimensions = dimensions /\ entry.text = text
      /\ entry.seq = LastNumber(vectors) + 1
  OBVIOUS
<1> HIDE DEF entry
<1>4. Numbered(vectors')
  BY <1>1, <1>2, <1>3, NumberedPut
<1> QED
  BY <1>1, <1>3, <1>4 DEF Indexed

\* Who changes vectors, model, observed dimensions or what this process wrote.
LEMMA WhoIndexes ==
  ASSUME [Next]_memoryVars
  PROVE  \/ \E reply \in Replies : VectorArrives(reply) \/ QueryVectorArrives(reply)
         \/ \E nextModel \in Models : Open(nextModel)
         \/ UNCHANGED << vectors, model, observedDimensions, mine >>
<1>1. CASE \E record \in Records : Put(record) \/ PutFails(record)
  BY <1>1 DEF Put, PutFails, indexVars
<1>2. CASE EmbeddingFails \/ Backfill \/ BackfillNext \/ BackfillReturns \/ BackfillThrows
  BY <1>2 DEF EmbeddingFails, Backfill, BackfillNext, BackfillReturns, BackfillThrows, indexVars
<1>3. CASE (\E query \in Queries : Retrieve(query)) \/ QueryEmbeddingFails
  BY <1>3 DEF Retrieve, QueryEmbeddingFails, indexVars
<1>4. CASE Close \/ ProcessEnds
  BY <1>4 DEF Close, ProcessEnds, indexVars
<1>5. CASE UNCHANGED memoryVars
  BY <1>5 DEF memoryVars, indexVars
<1> QED
  BY <1>1, <1>2, <1>3, <1>4, <1>5 DEF Next

\* Records stay stored, under their id.
LEMMA StoredGrows ==
  ASSUME StoreInv, [Next]_memoryVars
  PROVE  Stored \subseteq Stored'
<1>1. CASE \E record \in Records : record.valid /\ Upsert(record)
  BY <1>1, UpsertIs
<1>2. CASE UNCHANGED << rows, tagRows >>
  BY <1>2 DEF Stored
<1> QED
  BY <1>1, <1>2, WhoStores

\* No step leaves a vector that is not a record's, or not comparable with those of this process.
LEMMA VectorStep ==
  ASSUME StoreInv, VectorInv, OpInv, [Next]_memoryVars
  PROVE  VectorInv'
<1>1. Stored \subseteq Stored' /\ IsFiniteSet(Stored)
  BY StoredGrows DEF StoreInv
<1>2. ASSUME NEW reply \in Replies, VectorArrives(reply)
      PROVE  VectorInv'
  <2> DEFINE id == op.record.recordId
  <2>1. id \in Stored /\ op.record.text \in {r.text : r \in Records}
    BY <1>2 DEF VectorArrives, OpInv, IsHeld
  <2>2. model' = model
    BY <1>2 DEF VectorArrives
  <2>3. CASE Accepted(reply, 1) /\ isOpen
    <3>1. /\ StoreVector(id, op.record.text, reply[1].dimensions)
          /\ mine' = mine \cup {id} /\ observedDimensions' = reply[1].dimensions
      BY <1>2, <2>3 DEF VectorArrives
    <3>2. /\ Indexed' = Indexed \cup {id} /\ Numbered(vectors)'
          /\ vectors'[id].model = model /\ vectors'[id].dimensions = reply[1].dimensions
          /\ vectors'[id].text = op.record.text
          /\ \A other \in Indexed : other # id => vectors'[other] = vectors[other]
      BY <1>1, <3>1, StoreVectorIs
    <3>3. reply[1].dimensions \in Nat \ {0}
      BY <2>3, AcceptedReply
    <3>4. OwnVectorsComparable'
      <4>1. \A other \in mine : other \in Indexed /\ vectors[other].model = model
                                /\ vectors[other].dimensions = reply[1].dimensions
        BY <2>3, AnswerComparable DEF VectorInv, OwnVectorsComparable, HoldsVector
      <4>2. \A other \in mine' : /\ other \in Indexed' /\ vectors'[other].model = model
                                 /\ vectors'[other].dimensions = reply[1].dimensions
        BY <3>1, <3>2, <4>1
      <4> QED
        BY <2>2, <3>1, <4>2 DEF OwnVectorsComparable, HoldsVector
    <3>5. \A other \in Indexed' : /\ vectors'[other].model \in Models
                                  /\ vectors'[other].dimensions \in Nat \ {0}
                                  /\ vectors'[other].text \in {r.text : r \in Records}
      BY <2>1, <3>2, <3>3 DEF VectorInv
    <3>6. Indexed' \subseteq Stored' /\ mine' \subseteq Indexed'
      BY <1>1, <2>1, <3>1, <3>2 DEF VectorInv
    <3>7. model' \in Models /\ observedDimensions' \in Nat
      BY <2>2, <3>1, <3>3 DEF VectorInv
    <3> QED
      BY <3>2, <3>4, <3>5, <3>6, <3>7 DEF VectorInv
  <2>4. CASE ~ (Accepted(reply, 1) /\ isOpen)
    <3>1. UNCHANGED << vectors, mine >>
      BY <1>2, <2>4 DEF VectorArrives
    <3>2. observedDimensions' = IF Accepted(reply, 1) THEN reply[1].dimensions
                                ELSE observedDimensions
      BY <1>2 DEF VectorArrives
    <3>3. /\ observedDimensions' \in Nat
          /\ \A other \in mine : vectors[other].dimensions = observedDimensions'
      BY <3>2, AcceptedReply, AnswerComparable DEF VectorInv, OwnVectorsComparable
    <3> QED
      BY <1>1, <2>2, <3>1, <3>3
      DEF VectorInv, OwnVectorsComparable, HoldsVector, Indexed, Numbered
  <2> QED
    BY <2>3, <2>4
<1>3. ASSUME NEW reply \in Replies, QueryVectorArrives(reply)
      PROVE  VectorInv'
  <2>1. UNCHANGED << vectors, model, mine >>
    BY <1>3 DEF QueryVectorArrives
  <2>2. observedDimensions' = IF Accepted(reply, 1) THEN reply[1].dimensions
                              ELSE observedDimensions
    BY <1>3 DEF QueryVectorArrives
  <2>3. /\ observedDimensions' \in Nat
        /\ \A other \in mine : vectors[other].dimensions = observedDimensions'
    BY <2>2, AcceptedReply, AnswerComparable DEF VectorInv, OwnVectorsComparable
  <2> QED
    BY <1>1, <2>1, <2>3 DEF VectorInv, OwnVectorsComparable, HoldsVector, Indexed, Numbered
<1>4. ASSUME NEW nextModel \in Models, Open(nextModel)
      PROVE  VectorInv'
  BY <1>1, <1>4 DEF Open, VectorInv, OwnVectorsComparable, Indexed, Numbered
<1>5. CASE UNCHANGED << vectors, model, observedDimensions, mine >>
  BY <1>1, <1>5 DEF VectorInv, OwnVectorsComparable, HoldsVector, Indexed, Numbered
<1> QED
  BY <1>2, <1>3, <1>4, <1>5, WhoIndexes

-----------------------------------------------------------------------------
(* The pending call.                                                       *)

IsAfter(call) == call = Idle \/ IsBackfill(call)

\* A failure is counted by a backfill and changes nothing of it.
LEMMA WithFailureIs ==
  ASSUME NEW call, IsAfter(call)
  PROVE  /\ IsAfter(WithFailure(call)) /\ WithFailure(call).call = call.call
         /\ call.call = "backfill" => /\ WithFailure(call).rest = call.rest
                                      /\ WithFailure(call).failed = call.failed + 1
                                      /\ call.failed \in Nat
<1>1. CASE call = Idle
  BY <1>1 DEF IsAfter, WithFailure, Idle
<1>2. CASE IsBackfill(call)
  <2> DEFINE other == WithFailure(call)
  <2>1. /\ call.call = "backfill" /\ call.rest \in Seq(Records) /\ call.failed \in Nat
        /\ call \in [call : {"backfill"}, rest : Seq(Records), failed : Nat]
    BY <1>2 DEF IsBackfill
  <2>2. other = [call EXCEPT !.failed = @ + 1]
    BY <2>1 DEF WithFailure
  <2>3. /\ other \in [call : {"backfill"}, rest : Seq(Records), failed : Nat]
        /\ other.rest = call.rest /\ other.failed = call.failed + 1 /\ other.call = "backfill"
    BY <2>1, <2>2
  <2> HIDE DEF other
  <2>4. IsBackfill(other)
    BY <1>2, <2>3 DEF IsBackfill
  <2> QED
    BY <2>1, <2>3, <2>4 DEF IsAfter, other
<1> QED
  BY <1>1, <1>2 DEF IsAfter

\* What is held stays so as long as a call is pending.
LEMMA PendingKeepsRows ==
  ASSUME [Next]_memoryVars, op # Idle
  PROVE  UNCHANGED << rows, tagRows, Stored >>
BY WhoStores DEF Put, IsIdle, Stored

\* What a call goes on with stays so while the rows do.
LEMMA AfterStays ==
  ASSUME UNCHANGED rows, NEW call, IsAfter(call)
  PROVE  IsAfter(call)'
BY DEF IsAfter, IsBackfill, IsHeld, Stored

\* A call that returns, or goes on with its backfill.
LEMMA GoesOn ==
  ASSUME NEW call, IsAfter(call)', op' = call
  PROVE  OpInv'
BY DEF OpInv, IsAfter, IsBackfill, Idle

\* A call that begins to index a record it holds.
LEMMA Begins ==
  ASSUME NEW record, IsHeld(record)', NEW call, IsAfter(call)', IsAfter(call),
         BeginIndexing(record, Indexing(record, call), call)
  PROVE  OpInv'
<1>1. CASE op' = call
  BY <1>1, GoesOn
<1>2. CASE op' = WithFailure(call)
  <2>1. CASE call = Idle
    BY <1>2, <2>1, GoesOn DEF WithFailure, Idle
  <2>2. CASE IsBackfill(call)'
    <3>1. /\ call \in [call : {"backfill"}, rest : Seq(Records), failed : Nat]
          /\ op' = [call EXCEPT !.failed = @ + 1]
      BY <1>2, <2>2 DEF WithFailure, IsBackfill
    <3>2. op' \in [call : {"backfill"}, rest : Seq(Records), failed : Nat] /\ op'.rest = call.rest
      BY <3>1
    <3>3. IsBackfill(op)'
      BY <2>2, <3>2 DEF IsBackfill
    <3> QED
      BY <3>2, <3>3 DEF OpInv
  <2> QED
    BY <2>1, <2>2 DEF IsAfter
<1>3. CASE op' = Indexing(record, call) /\ record.text # {}
  <2>1. op'.call = "index" /\ op'.record = record /\ op'.after = call
    BY <1>3 DEF Indexing
  <2>2. IsHeld(op.record)'
    BY <2>1 DEF IsHeld
  <2>3. (op.after = Idle \/ IsBackfill(op.after))'
    BY <2>1 DEF IsAfter, IsBackfill, IsHeld, Stored, Idle
  <2> QED
    BY <1>3, <2>1, <2>2, <2>3 DEF OpInv
<1> QED
  BY <1>1, <1>2, <1>3 DEF BeginIndexing

\* A backfill that has looked at a record.
LEMMA BackfillAfter ==
  ASSUME IsBackfill(op), op.rest # << >>,
         NEW call, call = [op EXCEPT !.rest = Tail(op.rest)]
  PROVE  /\ IsBackfill(call) /\ call.failed = op.failed /\ call.call = "backfill"
         /\ IsHeld(Head(op.rest))
         /\ \A i \in DOMAIN op.rest :
              op.rest[i] = Head(op.rest) \/ \E j \in DOMAIN call.rest : call.rest[j] = op.rest[i]
<1>1. PICK rest \in Seq(Records) : rest = op.rest
  BY DEF IsBackfill
<1>2. /\ op \in [call : {"backfill"}, rest : Seq(Records), failed : Nat]
      /\ \A i \in 1 .. Len(rest) : IsHeld(rest[i])
  BY <1>1 DEF IsBackfill
<1>3. rest # << >> /\ Len(rest) \in Nat /\ Len(rest) > 0
  BY <1>1
<1>4. /\ Tail(rest) \in Seq(Records) /\ Len(Tail(rest)) = Len(rest) - 1
      /\ \A j \in 1 .. Len(rest) - 1 : Tail(rest)[j] = rest[j + 1]
      /\ Head(rest) = rest[1]
  BY <1>3
<1>5. /\ call \in [call : {"backfill"}, rest : Seq(Records), failed : Nat]
      /\ call.rest = Tail(rest) /\ call.failed = op.failed /\ call.call = "backfill"
  BY <1>1, <1>2, <1>4
<1>6. DOMAIN call.rest = 1 .. Len(rest) - 1 /\ DOMAIN op.rest = 1 .. Len(rest)
  BY <1>1, <1>3, <1>4, <1>5
<1>7. ASSUME NEW j \in 1 .. Len(rest) - 1
      PROVE  IsHeld(call.rest[j])
  <2>1. call.rest[j] = rest[j + 1] /\ j + 1 \in 1 .. Len(rest)
    BY <1>3, <1>4, <1>5
  <2> QED
    BY <1>2, <2>1
<1>8. ASSUME NEW i \in 1 .. Len(rest)
      PROVE  op.rest[i] = Head(op.rest) \/ \E j \in DOMAIN call.rest : call.rest[j] = op.rest[i]
  <2>1. CASE i = 1
    BY <1>1, <1>4, <2>1
  <2>2. CASE i # 1
    <3>1. i - 1 \in 1 .. Len(rest) - 1 /\ (i - 1) + 1 = i
      BY <1>3, <2>2
    <3> QED
      BY <1>1, <1>4, <1>5, <1>6, <3>1
  <2> QED
    BY <2>1, <2>2
<1>9. IsHeld(Head(op.rest))
  BY <1>1, <1>2, <1>3, <1>4
<1> QED
  BY <1>5, <1>6, <1>7, <1>8, <1>9 DEF IsBackfill

\* The candidates of a retrieval are held records, of which no two have the same id.
LEMMA RetrieveCandidates ==
  ASSUME StoreInv, NEW query \in Queries,
         NEW candidates,
         candidates = IF query.text = {} THEN << >>
                      ELSE Query([kinds |-> query.kinds, tags |-> query.tags,
                                  limit |-> MaxCandidates])
  PROVE  /\ AreCandidates(candidates)
         /\ \A i \in DOMAIN candidates : IsHeld(candidates[i])
<1> DEFINE asked == [kinds |-> query.kinds, tags |-> query.tags, limit |-> MaxCandidates]
<1>1. CASE query.text = {}
  BY <1>1 DEF AreCandidates
<1>2. CASE query.text # {}
  <2>1. asked.limit \in Nat
    BY MemoryAssumption
  <2>2. candidates = Query(asked)
    BY <1>2
  <2> HIDE DEF asked
  <2> QED
    BY <2>1, <2>2, QueryReturns
<1> QED
  BY <1>1, <1>2

\* The first look of a backfill.
LEMMA BackfillReads ==
  ASSUME StoreInv
  PROVE  /\ Query(AllRecords) \in Seq(Records)
         /\ \A i \in DOMAIN Query(AllRecords) : IsHeld(Query(AllRecords)[i])
         /\ \A id \in Stored : \E i \in DOMAIN Query(AllRecords) :
              Query(AllRecords)[i].recordId = id
<1>1. AllRecords.limit = Cardinality(Stored) /\ Cardinality(Stored) \in Nat
  BY FS_CardinalityType DEF AllRecords, StoreInv
<1>2. \A id \in Stored : Matches(AllRecords, id)
  BY DEF Matches, AllRecords, StoreInv
<1>3. AllRecords.limit \in Nat /\ Cardinality(Stored) <= AllRecords.limit
  BY <1>1
<1>4. /\ AreCandidates(Query(AllRecords))
      /\ \A i \in DOMAIN Query(AllRecords) : IsHeld(Query(AllRecords)[i])
      /\ \A id \in Stored : Matches(AllRecords, id) =>
           \E i \in DOMAIN Query(AllRecords) : Query(AllRecords)[i].recordId = id
  BY <1>3, QueryReturns
<1> QED
  BY <1>2, <1>4 DEF AreCandidates

\* Every step leaves a call pending that works on what is stored, or none.
LEMMA OpStep ==
  ASSUME StoreInv, VectorInv, OpInv, [Next]_memoryVars
  PROVE  OpInv'
<1>1. CASE op' = Idle
  <2>1. IsAfter(Idle)'
    BY DEF IsAfter
  <2>2. PICK call : call = Idle
    OBVIOUS
  <2> QED
    BY <1>1 DEF OpInv, Idle
<1>2. CASE UNCHANGED << rows, vectors, op >>
  BY <1>2 DEF OpInv, IsAfter, IsBackfill, IsHeld, Stored, Indexed
<1>3. ASSUME NEW record \in Records, Put(record), ~ Refused(record)
      PROVE  OpInv'
  <2>1. Upsert(record) /\ BeginIndexing(record, Indexing(record, Idle), Idle)
    BY <1>3 DEF Put
  <2>2. IsHeld(record)'
    BY <2>1, UpsertIs DEF IsHeld
  <2>3. IsAfter(Idle) /\ IsAfter(Idle)'
    BY DEF IsAfter, Idle
  <2> QED
    BY <2>1, <2>2, <2>3, Begins DEF Idle
<1>4. ASSUME op.call = "index", op' = op.after \/ op' = WithFailure(op.after), rows' = rows
      PROVE  OpInv'
  <2>1. PICK after : after = op.after
    OBVIOUS
  <2>2. IsAfter(after)
    BY <1>4, <2>1 DEF OpInv, IsAfter
  <2>3. PICK call : (call = after \/ call = WithFailure(after)) /\ op' = call
    BY <1>4, <2>1
  <2>4. IsAfter(call)
    BY <2>2, <2>3, WithFailureIs
  <2> QED
    BY <1>4, <2>3, <2>4, AfterStays, GoesOn
<1>5. CASE Backfill
  <2>1. rows' = rows /\ op' = [call |-> "backfill", rest |-> Query(AllRecords), failed |-> 0]
    BY <1>5 DEF Backfill, storeVars
  <2>2. PICK rest : rest = Query(AllRecords)
    OBVIOUS
  <2>3. rest \in Seq(Records) /\ \A i \in DOMAIN rest : IsHeld(rest[i])
    BY <2>2, BackfillReads
  <2>4. PICK call : call = [call |-> "backfill", rest |-> rest, failed |-> 0]
    OBVIOUS
  <2>5. IsAfter(call)
    BY <2>3, <2>4 DEF IsAfter, IsBackfill
  <2> QED
    BY <2>1, <2>2, <2>4, <2>5, AfterStays, GoesOn
<1>6. CASE BackfillNext
  <2>1. IsBackfill(op) /\ op.rest # << >> /\ rows' = rows
    BY <1>6 DEF BackfillNext, OpInv, storeVars
  <2>2. PICK call : call = [op EXCEPT !.rest = Tail(op.rest)]
    OBVIOUS
  <2>3. PICK record : record = Head(op.rest)
    OBVIOUS
  <2>4. IsAfter(call) /\ IsHeld(record)
    BY <2>1, <2>2, <2>3, BackfillAfter DEF IsAfter
  <2>5. IsAfter(call)' /\ IsHeld(record)'
    BY <2>1, <2>4, AfterStays DEF IsHeld, Stored
  <2>6. op' = call \/ BeginIndexing(record, Indexing(record, call), call)
    BY <1>6, <2>2, <2>3 DEF BackfillNext
  <2> QED
    BY <2>4, <2>5, <2>6, GoesOn, Begins
<1>7. ASSUME NEW query \in Queries, Retrieve(query)
      PROVE  OpInv'
  <2>1. PICK candidates : candidates = IF query.text = {} THEN << >>
                                       ELSE Query([kinds |-> query.kinds, tags |-> query.tags,
                                                   limit |-> MaxCandidates])
    OBVIOUS
  <2>2. PICK compared : compared = CandidateRows(CandidateIds(candidates))
    OBVIOUS
  <2>3. \/ op' = Idle
        \/ op' = [call |-> "search", query |-> query, candidates |-> candidates,
                  compared |-> compared]
    BY <1>7, <2>1, <2>2 DEF Retrieve
  <2>4. rows' = rows /\ vectors' = vectors
    BY <1>7 DEF Retrieve, storeVars, indexVars
  <2>5. AreCandidates(candidates) /\ \A i \in DOMAIN candidates : IsHeld(candidates[i])
    BY <2>1, RetrieveCandidates
  <2>6. compared \subseteq Indexed
    BY <2>2, ComparedAre DEF StoreInv, HoldsVector
  <2>7. CASE op' = [call |-> "search", query |-> query, candidates |-> candidates,
                    compared |-> compared]
    BY <2>4, <2>5, <2>6, <2>7 DEF OpInv, IsHeld, Stored, Indexed
  <2> QED
    BY <1>1, <2>3, <2>7
<1>8. CASE \E record \in Records : (Put(record) /\ Refused(record)) \/ PutFails(record)
  BY <1>1, <1>8 DEF Put, PutFails, IsIdle
<1>9. CASE \E reply \in Replies : VectorArrives(reply) \/ QueryVectorArrives(reply)
  BY <1>1, <1>4, <1>9 DEF VectorArrives, QueryVectorArrives, storeVars
<1>10. CASE EmbeddingFails \/ BackfillReturns \/ BackfillThrows \/ QueryEmbeddingFails
  BY <1>1, <1>4, <1>10
  DEF EmbeddingFails, BackfillReturns, BackfillThrows, QueryEmbeddingFails, storeVars
<1>11. CASE Close \/ ProcessEnds \/ \E nextModel \in Models : Open(nextModel)
  BY <1>1, <1>2, <1>11 DEF Close, ProcessEnds, Open, indexVars, IsIdle
<1>12. CASE UNCHANGED memoryVars
  BY <1>2, <1>12 DEF memoryVars, storeVars, indexVars
<1> QED
  BY <1>3, <1>5, <1>6, <1>7, <1>8, <1>9, <1>10, <1>11, <1>12 DEF Next

-----------------------------------------------------------------------------
(* The index follows the store.                                            *)

\* A step that touches neither rows nor vectors, nor ends an indexing.
LEMMA FollowKept ==
  ASSUME FollowInv, UNCHANGED << rows, vectors, owed >>, op.call # "index" \/ op' = op
  PROVE  FollowInv'
BY DEF FollowInv, IndexFollowsStore, Stored, Indexed

\* A record whose indexing begins has its vector, is owed it, or waits for it.
LEMMA BeginFollows ==
  ASSUME FollowInv, op.call # "index", NEW record, IsHeld(record)', vectors' = vectors,
         Stored' = Stored \cup {record.recordId},
         \A id \in Stored : id # record.recordId => rows'[id] = rows[id],
         NEW call, BeginIndexing(record, Indexing(record, call), call)
  PROVE  FollowInv'
<1> DEFINE id == record.recordId
<1>1. rows'[id].record = record /\ Indexed' = Indexed
  BY DEF IsHeld, Indexed
<1>2. \A other \in Stored : \/ other \in Indexed /\ vectors[other].text = rows[other].record.text
                            \/ other \in owed
  BY DEF FollowInv, IndexFollowsStore
<1>3. CASE record.text = {} /\ owed' = owed \cup {id}
  BY <1>1, <1>2, <1>3 DEF FollowInv, IndexFollowsStore
<1>4. CASE UpToDate(id, record.text) /\ owed' = owed \ {id}
  BY <1>1, <1>2, <1>4 DEF FollowInv, IndexFollowsStore, UpToDate, HoldsVector
<1>5. CASE op' = Indexing(record, call) /\ owed' = owed
  <2>1. op'.call = "index" /\ op'.record.recordId = id
    BY <1>5 DEF Indexing
  <2> QED
    BY <1>1, <1>2, <1>5, <2>1 DEF FollowInv, IndexFollowsStore
<1> QED
  BY <1>3, <1>4, <1>5 DEF BeginIndexing

\* An indexing that ends, with a vector or with a debt.
LEMMA EndFollows ==
  ASSUME FollowInv, op.call = "index", IsHeld(op.record), UNCHANGED rows,
         NEW id, id = op.record.recordId,
         \/ /\ owed' = owed \cup {id} /\ UNCHANGED vectors
         \/ /\ owed' = owed \ {id} /\ Indexed' = Indexed \cup {id}
            /\ vectors'[id].text = op.record.text
            /\ \A other \in Indexed : other # id => vectors'[other] = vectors[other]
  PROVE  FollowInv'
<1>1. id \in Stored /\ Stored' = Stored /\ rows[id].record = op.record
  BY DEF IsHeld, Stored
<1>2. \A other \in Stored : \/ other \in Indexed /\ vectors[other].text = rows[other].record.text
                            \/ other \in owed
                            \/ other = id
  BY DEF FollowInv, IndexFollowsStore
<1>3. Indexed \subseteq Stored /\ owed \subseteq Stored
  BY DEF FollowInv, IndexFollowsStore
<1>4. CASE owed' = owed \cup {id} /\ UNCHANGED vectors
  BY <1>1, <1>2, <1>3, <1>4 DEF FollowInv, IndexFollowsStore, Indexed
<1>5. CASE /\ owed' = owed \ {id} /\ Indexed' = Indexed \cup {id}
           /\ vectors'[id].text = op.record.text
           /\ \A other \in Indexed : other # id => vectors'[other] = vectors[other]
  <2>1. \A other \in Stored : \/ other \in Indexed' /\ vectors'[other].text = rows[other].record.text
                              \/ other \in owed'
    BY <1>1, <1>2, <1>5
  <2> QED
    BY <1>1, <1>3, <1>5, <2>1 DEF FollowInv, IndexFollowsStore
<1> QED
  BY <1>4, <1>5

\* An accepted vector is stored while the file is open; otherwise the record is owed.
LEMMA VectorArrivesIs ==
  ASSUME StoreInv, VectorInv, NEW reply \in Replies, VectorArrives(reply),
         NEW id, id = op.record.recordId
  PROVE  \/ /\ owed' = owed \cup {id} /\ UNCHANGED vectors
            /\ op' = WithFailure(op.after)
         \/ /\ owed' = owed \ {id} /\ Indexed' = Indexed \cup {id}
            /\ vectors'[id].text = op.record.text /\ vectors'[id].model = model
            /\ \A other \in Indexed : other # id => vectors'[other] = vectors[other]
            /\ op' = op.after
<1>1. CASE Accepted(reply, 1) /\ isOpen
  <2>1. StoreVector(id, op.record.text, reply[1].dimensions)
    BY <1>1 DEF VectorArrives
  <2>2. owed' = owed \ {id} /\ op' = op.after
    BY <1>1 DEF VectorArrives
  <2>3. IsFiniteSet(Stored)
    BY DEF StoreInv
  <2> QED
    BY <2>1, <2>2, <2>3, StoreVectorIs
<1>2. CASE ~ (Accepted(reply, 1) /\ isOpen)
  BY <1>2 DEF VectorArrives
<1> QED
  BY <1>1, <1>2

\* No step lets the index run ahead of the store, or behind it unseen.
LEMMA FollowStep ==
  ASSUME StoreInv, VectorInv, OpInv, FollowInv, [Next]_memoryVars
  PROVE  FollowInv'
<1>1. ASSUME NEW record \in Records, Put(record), ~ Refused(record)
      PROVE  FollowInv'
  <2>1. /\ Upsert(record) /\ BeginIndexing(record, Indexing(record, Idle), Idle)
        /\ op.call # "index" /\ vectors' = vectors
    BY <1>1 DEF Put, IsIdle, Idle, indexVars
  <2>2. /\ Stored' = Stored \cup {record.recordId} /\ IsHeld(record)'
        /\ \A id \in Stored : id # record.recordId => rows'[id] = rows[id]
    BY <2>1, UpsertIs DEF IsHeld
  <2>3. PICK call : call = Idle
    OBVIOUS
  <2> QED
    BY <2>1, <2>2, <2>3, BeginFollows
<1>2. ASSUME NEW reply \in Replies, VectorArrives(reply)
      PROVE  FollowInv'
  <2>1. op.call = "index" /\ IsHeld(op.record) /\ rows' = rows
    BY <1>2 DEF VectorArrives, OpInv, storeVars
  <2>2. PICK id : id = op.record.recordId
    OBVIOUS
  <2> QED
    BY <1>2, <2>1, <2>2, VectorArrivesIs, EndFollows
<1>3. CASE EmbeddingFails \/ (ProcessEnds /\ op.call = "index")
  <2>1. /\ op.call = "index" /\ IsHeld(op.record) /\ UNCHANGED << rows, vectors >>
        /\ owed' = owed \cup {op.record.recordId}
    BY <1>3 DEF EmbeddingFails, ProcessEnds, OpInv, storeVars, indexVars
  <2>2. PICK id : id = op.record.recordId
    OBVIOUS
  <2> QED
    BY <2>1, <2>2, EndFollows
<1>4. CASE BackfillNext
  <2>1. /\ IsBackfill(op) /\ op.call = "backfill" /\ op.rest # << >>
        /\ UNCHANGED << rows, vectors >>
    BY <1>4 DEF BackfillNext, OpInv, storeVars, indexVars
  <2>2. PICK call : call = [op EXCEPT !.rest = Tail(op.rest)]
    OBVIOUS
  <2>3. PICK record : record = Head(op.rest)
    OBVIOUS
  <2>4. IsHeld(record)
    BY <2>1, <2>2, <2>3, BackfillAfter
  <2>5. IsHeld(record)' /\ Stored' = Stored /\ record.recordId \in Stored
    BY <2>1, <2>4 DEF IsHeld, Stored
  <2>6. CASE owed' = owed
    BY <2>1, <2>6, FollowKept
  <2>7. CASE BeginIndexing(record, Indexing(record, call), call)
    <3>1. Stored' = Stored \cup {record.recordId}
      BY <2>5
    <3> QED
      BY <2>1, <2>5, <2>7, <3>1, BeginFollows
  <2> QED
    BY <1>4, <2>2, <2>3, <2>6, <2>7 DEF BackfillNext
<1>5. CASE \E record \in Records : (Put(record) /\ Refused(record)) \/ PutFails(record)
  BY <1>5, FollowKept DEF Put, PutFails, IsIdle, Idle, storeVars, indexVars
<1>6. CASE Backfill \/ BackfillReturns \/ BackfillThrows \/ QueryEmbeddingFails
  <2>1. op.call # "index"
    <3>1. IsIdle \/ op.call = "backfill" \/ op.call = "search"
      BY <1>6 DEF Backfill, BackfillReturns, BackfillThrows, QueryEmbeddingFails
    <3> QED
      BY <3>1 DEF IsIdle, Idle
  <2>2. UNCHANGED << rows, vectors, owed >>
    BY <1>6
    DEF Backfill, BackfillReturns, BackfillThrows, QueryEmbeddingFails, storeVars, indexVars
  <2> QED
    BY <2>1, <2>2, FollowKept
<1>7. CASE (\E query \in Queries : Retrieve(query)) \/ \E reply \in Replies : QueryVectorArrives(reply)
  <2>1. op.call # "index"
    <3>1. IsIdle \/ op.call = "search"
      BY <1>7 DEF Retrieve, QueryVectorArrives
    <3> QED
      BY <3>1 DEF IsIdle, Idle
  <2>2. UNCHANGED << rows, vectors, owed >>
    BY <1>7 DEF Retrieve, QueryVectorArrives, storeVars, indexVars
  <2> QED
    BY <2>1, <2>2, FollowKept
<1>8. CASE Close \/ (ProcessEnds /\ op.call # "index") \/ \E nextModel \in Models : Open(nextModel)
  BY <1>8, FollowKept DEF Close, ProcessEnds, Open, indexVars
<1>9. CASE UNCHANGED memoryVars
  BY <1>9, FollowKept DEF memoryVars, storeVars, indexVars
<1> QED
  BY <1>1, <1>2, <1>3, <1>4, <1>5, <1>6, <1>7, <1>8, <1>9 DEF Next

-----------------------------------------------------------------------------
(* What a backfill covers.                                                 *)

\* While a call is pending nothing is returned.
AnswerWaits == returned # Idle => op = Idle

\* Every step that returns ends the call, and every call takes the last answer away.
LEMMA AnswerWaitsStep ==
  ASSUME AnswerWaits, [Next]_memoryVars
  PROVE  AnswerWaits'
<1>1. CASE op' = Idle \/ returned' = Idle
  BY <1>1 DEF AnswerWaits
<1>2. CASE UNCHANGED << op, returned >>
  BY <1>2 DEF AnswerWaits
<1>3. CASE op.call \in {"index", "backfill"} /\ UNCHANGED returned
  <2>1. op # Idle
    BY <1>3 DEF Idle
  <2> QED
    BY <1>3, <2>1 DEF AnswerWaits
<1>4. CASE \E record \in Records : Put(record) \/ PutFails(record)
  BY <1>1, <1>4 DEF Put, PutFails
<1>5. CASE \E reply \in Replies : VectorArrives(reply) \/ QueryVectorArrives(reply)
  BY <1>1, <1>3, <1>5 DEF VectorArrives, QueryVectorArrives
<1>6. CASE EmbeddingFails \/ BackfillNext
  BY <1>3, <1>6 DEF EmbeddingFails, BackfillNext
<1>7. CASE Backfill \/ BackfillReturns \/ BackfillThrows \/ QueryEmbeddingFails
  BY <1>1, <1>7 DEF Backfill, BackfillReturns, BackfillThrows, QueryEmbeddingFails
<1>8. CASE \E query \in Queries : Retrieve(query)
  BY <1>1, <1>8 DEF Retrieve
<1>9. CASE Close \/ ProcessEnds \/ \E nextModel \in Models : Open(nextModel)
  BY <1>1, <1>9 DEF Close, ProcessEnds, Open
<1>10. CASE UNCHANGED memoryVars
  BY <1>2, <1>10 DEF memoryVars
<1> QED
  BY <1>4, <1>5, <1>6, <1>7, <1>8, <1>9, <1>10 DEF Next

\* Nothing to cover where no backfill is under way or was the last to return.
LEMMA NoBackfillNow ==
  ASSUME op'.call \notin {"index", "backfill"}, returned'.call # "backfill"
  PROVE  BackfillInv'
BY DEF BackfillInv, Covers, BackfillComplete

\* The backfill goes on where its record got a vector, or owes it.
LEMMA CoversGoesOn ==
  ASSUME OpInv, op.call = "index", Covers(op.after), UNCHANGED << rows, model >>,
         NEW id, id = op.record.recordId,
         \/ /\ UNCHANGED vectors /\ op' = WithFailure(op.after)
         \/ /\ Indexed' = Indexed \cup {id} /\ vectors'[id].model = model
            /\ \A other \in Indexed : other # id => vectors'[other] = vectors[other]
            /\ op' = op.after
  PROVE  Covers(op)' /\ op'.call # "index"
<1>1. PICK after : after = op.after
  OBVIOUS
<1>2. IsAfter(after) /\ Covers(after)
  BY <1>1 DEF OpInv, IsAfter
<1>3. CASE UNCHANGED vectors /\ op' = WithFailure(after)
  <2>1. /\ op'.call = after.call
        /\ after.call = "backfill" => op'.failed = after.failed + 1 /\ after.failed \in Nat
    BY <1>2, <1>3, WithFailureIs
  <2>2. after.call # "index"
    BY <1>2 DEF IsAfter, Idle, IsBackfill
  <2> QED
    BY <2>1, <2>2 DEF Covers
<1>4. CASE /\ Indexed' = Indexed \cup {id} /\ vectors'[id].model = model
           /\ \A other \in Indexed : other # id => vectors'[other] = vectors[other]
           /\ op' = after
  <2>1. after.call # "index"
    BY <1>2 DEF IsAfter, Idle, IsBackfill
  <2>2. ASSUME after.call = "backfill", after.failed = 0, NEW other \in Stored
        PROVE  HoldsVector(other)' \/ \E i \in DOMAIN after.rest : after.rest[i].recordId = other
    <3>1. \/ HoldsVector(other)
          \/ \E i \in DOMAIN after.rest : after.rest[i].recordId = other
          \/ other = id
      BY <1>2, <2>2 DEF Covers
    <3> QED
      BY <1>4, <3>1 DEF HoldsVector
  <2> QED
    BY <1>4, <2>1, <2>2 DEF Covers, Stored
<1> QED
  BY <1>1, <1>3, <1>4

\* A backfill that looked at its next record.
LEMMA CoversNext ==
  ASSUME IsBackfill(op), op.rest # << >>, Covers(op), UNCHANGED << rows, vectors, model >>,
         NEW record, record = Head(op.rest),
         NEW call, call = [op EXCEPT !.rest = Tail(op.rest)],
         \/ op' = call /\ HoldsVector(record.recordId)
         \/ BeginIndexing(record, Indexing(record, call), call)
  PROVE  Covers(op)' /\ (op'.call = "index" => Covers(op.after)')
<1>1. /\ IsBackfill(call) /\ call.failed = op.failed /\ call.call = "backfill"
      /\ \A i \in DOMAIN op.rest :
           op.rest[i] = record \/ \E j \in DOMAIN call.rest : call.rest[j] = op.rest[i]
  BY BackfillAfter
<1>8. op.call = "backfill"
  BY DEF IsBackfill
<1>2. ASSUME call.failed = 0, NEW id \in Stored
      PROVE  \/ HoldsVector(id)
             \/ \E i \in DOMAIN call.rest : call.rest[i].recordId = id
             \/ id = record.recordId
  <2>1. HoldsVector(id) \/ \E i \in DOMAIN op.rest : op.rest[i].recordId = id
    BY <1>1, <1>2, <1>8 DEF Covers
  <2> QED
    BY <1>1, <2>1
<1>3. Stored' = Stored /\ \A id : HoldsVector(id)' <=> HoldsVector(id)
  BY DEF Stored, HoldsVector, Indexed
<1>4. CASE op' = call /\ HoldsVector(record.recordId)
  BY <1>1, <1>2, <1>3, <1>4 DEF Covers
<1>5. CASE op' = WithFailure(call)
  <2>1. op'.call = "backfill" /\ op'.failed = call.failed + 1 /\ call.failed \in Nat
    BY <1>1, <1>5, WithFailureIs DEF IsAfter
  <2> QED
    BY <2>1 DEF Covers
<1>6. CASE op' = Indexing(record, call)
  <2>1. op'.call = "index" /\ op'.record = record /\ op'.after = call
    BY <1>6 DEF Indexing
  <2>2. Covers(op.after)'
    BY <1>2, <1>3, <2>1 DEF Covers
  <2> QED
    BY <2>1, <2>2 DEF Covers
<1>7. CASE op' = call /\ UpToDate(record.recordId, record.text)
  BY <1>4, <1>7 DEF UpToDate
<1> QED
  BY <1>4, <1>5, <1>6, <1>7 DEF BeginIndexing

\* A backfill without failure passes over no record.
LEMMA BackfillStep ==
  ASSUME StoreInv, VectorInv, OpInv, BackfillInv, AnswerWaits, [Next]_memoryVars
  PROVE  BackfillInv'
<1>1. CASE op'.call \notin {"index", "backfill"} /\ returned' = Idle
  BY <1>1, NoBackfillNow DEF Idle
<1>2. ASSUME NEW record \in Records, Put(record), ~ Refused(record)
      PROVE  BackfillInv'
  <2>1. returned' = Idle /\ BeginIndexing(record, Indexing(record, Idle), Idle)
    BY <1>2 DEF Put
  <2>2. CASE op' = Idle \/ op' = WithFailure(Idle)
    BY <1>1, <2>1, <2>2 DEF WithFailure, Idle
  <2>3. CASE op' = Indexing(record, Idle)
    <3>1. op'.call = "index" /\ op'.after = Idle
      BY <2>3 DEF Indexing
    <3>2. Covers(op)' /\ Covers(op.after)'
      BY <3>1 DEF Covers, Idle
    <3> QED
      BY <2>1, <3>2 DEF BackfillInv, BackfillComplete, Idle
  <2> QED
    BY <2>1, <2>2, <2>3 DEF BeginIndexing
<1>3. ASSUME op.call = "index", UNCHANGED << rows, model, returned >>,
             NEW id, id = op.record.recordId,
             \/ /\ UNCHANGED vectors /\ op' = WithFailure(op.after)
             \/ /\ Indexed' = Indexed \cup {id} /\ vectors'[id].model = model
                /\ \A other \in Indexed : other # id => vectors'[other] = vectors[other]
                /\ op' = op.after
      PROVE  BackfillInv'
  <2>1. Covers(op)' /\ op'.call # "index"
    BY <1>3, CoversGoesOn DEF BackfillInv
  <2>2. returned' = Idle
    BY <1>3 DEF AnswerWaits, Idle
  <2> QED
    BY <2>1, <2>2 DEF BackfillInv, BackfillComplete, Idle
<1>4. ASSUME NEW reply \in Replies, VectorArrives(reply)
      PROVE  BackfillInv'
  <2>1. op.call = "index" /\ UNCHANGED << rows, model, returned >>
    BY <1>4 DEF VectorArrives, storeVars
  <2>2. PICK id : id = op.record.recordId
    OBVIOUS
  <2> QED
    BY <1>3, <1>4, <2>1, <2>2, VectorArrivesIs
<1>5. CASE EmbeddingFails
  <2>1. /\ op.call = "index" /\ UNCHANGED << rows, model, returned, vectors >>
        /\ op' = WithFailure(op.after)
    BY <1>5 DEF EmbeddingFails, storeVars, indexVars
  <2>2. PICK id : id = op.record.recordId
    OBVIOUS
  <2> QED
    BY <1>3, <2>1, <2>2
<1>6. CASE Backfill
  <2>1. /\ op' = [call |-> "backfill", rest |-> Query(AllRecords), failed |-> 0]
        /\ returned' = Idle /\ UNCHANGED rows
    BY <1>6 DEF Backfill, storeVars
  <2>2. op'.call = "backfill" /\ op'.rest = Query(AllRecords)
    BY <2>1
  <2>3. Covers(op)'
    BY <2>1, <2>2, BackfillReads DEF Covers, Stored
  <2> QED
    BY <2>1, <2>2, <2>3 DEF BackfillInv, BackfillComplete, Idle
<1>7. CASE BackfillNext
  <2>1. /\ op.call = "backfill" /\ op.rest # << >>
        /\ UNCHANGED << rows, vectors, model, returned >>
    BY <1>7 DEF BackfillNext, storeVars, indexVars
  <2>2. IsBackfill(op) /\ Covers(op) /\ returned = Idle
    BY <2>1 DEF OpInv, BackfillInv, AnswerWaits, Idle
  <2>3. PICK call : call = [op EXCEPT !.rest = Tail(op.rest)]
    OBVIOUS
  <2>4. PICK record : record = Head(op.rest)
    OBVIOUS
  <2>5. \/ op' = call /\ HoldsVector(record.recordId)
        \/ BeginIndexing(record, Indexing(record, call), call)
    BY <1>7, <2>3, <2>4 DEF BackfillNext, SkippedByBackfill
  <2>6. Covers(op)' /\ (op'.call = "index" => Covers(op.after)')
    BY <2>1, <2>2, <2>3, <2>4, <2>5, CoversNext
  <2> QED
    BY <2>1, <2>2, <2>6 DEF BackfillInv, BackfillComplete, Idle
<1>8. CASE BackfillReturns
  <2>1. /\ op.call = "backfill" /\ op.rest = << >> /\ op' = Idle
        /\ returned' = [call |-> "backfill", failed |-> op.failed]
        /\ UNCHANGED << rows, vectors, model >>
    BY <1>8 DEF BackfillReturns, storeVars, indexVars
  <2>2. op.failed = 0 => \A id \in Stored : HoldsVector(id)
    BY <2>1 DEF BackfillInv, Covers
  <2>3. BackfillComplete'
    BY <2>1, <2>2 DEF BackfillComplete, HoldsVector, Stored, Indexed
  <2> QED
    BY <2>1, <2>3 DEF BackfillInv, Covers, Idle
<1>9. CASE UNCHANGED << rows, vectors, model, op >> /\ (returned' = Idle \/ UNCHANGED returned)
  <2>1. Covers(op)' /\ (op'.call = "index" => Covers(op.after)')
    BY <1>9 DEF BackfillInv, Covers, HoldsVector, Stored, Indexed
  <2>2. BackfillComplete'
    BY <1>9 DEF BackfillInv, BackfillComplete, HoldsVector, Stored, Indexed, Idle
  <2> QED
    BY <2>1, <2>2 DEF BackfillInv
<1>10. CASE \E record \in Records : (Put(record) /\ Refused(record)) \/ PutFails(record)
  BY <1>1, <1>10 DEF Put, PutFails, IsIdle, Idle
<1>11. CASE BackfillThrows
  <2>1. op.call = "backfill" /\ op' = Idle /\ UNCHANGED returned
    BY <1>11 DEF BackfillThrows
  <2> QED
    BY <1>1, <2>1 DEF AnswerWaits, Idle
<1>12. ASSUME NEW query \in Queries, Retrieve(query)
       PROVE  BackfillInv'
  <2>1. op' = Idle \/ op'.call = "search"
    <3>1. \/ op' = Idle
          \/ \E candidates, compared :
               op' = [call |-> "search", query |-> query, candidates |-> candidates,
                      compared |-> compared]
      BY <1>12 DEF Retrieve
    <3> QED
      BY <3>1
  <2>2. returned' = Idle \/ returned'.call = "retrieve"
    BY <1>12 DEF Retrieve, Retrieved
  <2> QED
    BY <2>1, <2>2, NoBackfillNow DEF Idle
<1>13. ASSUME NEW reply \in Replies, QueryVectorArrives(reply)
       PROVE  BackfillInv'
  <2>1. op' = Idle /\ returned'.call = "retrieve"
    BY <1>13 DEF QueryVectorArrives, Retrieved
  <2> QED
    BY <2>1, NoBackfillNow DEF Idle
<1>14. CASE QueryEmbeddingFails
  <2>1. op' = Idle /\ returned'.call = "retrieve"
    BY <1>14 DEF QueryEmbeddingFails, Retrieved
  <2> QED
    BY <2>1, NoBackfillNow DEF Idle
<1>15. CASE Close
  BY <1>9, <1>15 DEF Close, indexVars
<1>16. CASE ProcessEnds \/ \E nextModel \in Models : Open(nextModel)
  BY <1>1, <1>16 DEF ProcessEnds, Open, IsIdle, Idle
<1>17. CASE UNCHANGED memoryVars
  BY <1>9, <1>17 DEF memoryVars, storeVars, indexVars
<1> QED
  BY <1>2, <1>4, <1>5, <1>6, <1>7, <1>8, <1>10, <1>11, <1>12, <1>13, <1>14, <1>15, <1>16, <1>17
  DEF Next

-----------------------------------------------------------------------------
(* What a retrieval returns.                                               *)

\* The cosines are those of vectors the index has.
AreScores(scores, text) ==
  \A id \in DOMAIN scores : /\ id \in Indexed /\ scores[id] \in Int
                            /\ scores[id] = Similarity(text, vectors[id].text)

\* Search returns cosines of the texts the vectors were made of.
LEMMA SearchScoresAre ==
  ASSUME VectorInv, NEW query \in Queries, NEW compared, compared \subseteq Indexed,
         NEW dimensions
  PROVE  AreScores(SearchScores(compared, query.text, dimensions), query.text)
<1> DEFINE S == {c \in compared : vectors[c].dimensions = dimensions}
           scores == [id \in S |-> Similarity(query.text, vectors[id].text)]
<1>1. \A id \in S : id \in Indexed /\ Similarity(query.text, vectors[id].text) \in Int
  <2> TAKE id \in S
  <2>1. id \in Indexed
    OBVIOUS
  <2>2. PICK r \in Records : vectors[id].text = r.text
    BY <2>1 DEF VectorInv
  <2> QED
    BY <2>1, <2>2, MemoryAssumption
<1>2. SearchScores(compared, query.text, dimensions) = scores
  BY DEF SearchScores
<1> QED
  BY <1>1, <1>2 DEF AreScores

\* Where there was no search there are no cosines.
LEMMA NoScoresAre ==
  ASSUME NEW text
  PROVE  AreScores(NoScores, text) /\ DOMAIN NoScores = {}
BY DEF AreScores, NoScores

\* Every hit is of a held record, and one found by meaning is near the query or owed a vector.
LEMMA HitsByMeaning ==
  ASSUME StoreInv, FollowInv, op.call # "index", NEW query \in Queries,
         NEW candidates, AreCandidates(candidates), \A i \in DOMAIN candidates : IsHeld(candidates[i]),
         NEW scores, AreScores(scores, query.text),
         NEW ranked, ranked = HybridHits(Terms(query.text), scores, candidates)
  PROVE  /\ IsRanking(ranked)
         /\ \A i \in DOMAIN ranked :
              "keyword" \notin ranked[i].matchedBy =>
                \/ Similarity(query.text, ranked[i].record.text) >= SemanticThreshold
                \/ ranked[i].record.recordId \in owed
<1> DEFINE terms == Terms(query.text)
           E == Found(terms, scores, candidates)
           f == HybridHitOf(terms, scores, E)
<1>1. IsFiniteSet(terms) /\ \A id \in DOMAIN scores : scores[id] \in Int
  BY MemoryAssumption, TermsFinite DEF AreScores
<1>2. AreHits(f, E) /\ ranked = RankedOf(f, E)
  BY <1>1, HybridHitsAre
<1>3. /\ IsRanking(RankedOf(f, E)) /\ DOMAIN RankedOf(f, E) = 1 .. Cardinality(E)
      /\ \A i \in 1 .. Cardinality(E) :
           RecordsOf(f, E)[i] \in E /\ RankedOf(f, E)[i] = f[RecordsOf(f, E)[i]]
  BY <1>2, RankedRecords
<1>4. \A i \in DOMAIN ranked : \E r \in E : ranked[i] = HybridHit(terms, scores, r)
  BY <1>2, <1>3 DEF HybridHitOf
<1>5. ASSUME NEW r \in E, "keyword" \notin HybridHit(terms, scores, r).matchedBy
      PROVE  Similarity(query.text, r.text) >= SemanticThreshold \/ r.recordId \in owed
  <2>1. ~ (Coverage(terms, r) > 0)
    BY <1>5 DEF HybridHit
  <2>2. Admitted(scores, r) /\ r \in ToSet(candidates)
    BY <2>1 DEF Found
  <2>3. IsHeld(r)
    BY <2>2 DEF ToSet
  <2>4. r.recordId \in DOMAIN scores /\ scores[r.recordId] >= SemanticThreshold
    BY <2>2 DEF Admitted
  <2>5. scores[r.recordId] = Similarity(query.text, vectors[r.recordId].text)
    BY <2>4 DEF AreScores
  <2>6. r.recordId \in owed \/ vectors[r.recordId].text = r.text
    BY <2>3 DEF IsHeld, FollowInv, IndexFollowsStore
  <2> QED
    BY <2>4, <2>5, <2>6
<1>6. \A r : HybridHit(terms, scores, r).record = r
  BY DEF HybridHit
<1> HIDE DEF E, f
<1>7. \A i \in DOMAIN ranked :
        "keyword" \notin ranked[i].matchedBy =>
          \/ Similarity(query.text, ranked[i].record.text) >= SemanticThreshold
          \/ ranked[i].record.recordId \in owed
  <2> SUFFICES ASSUME NEW i \in DOMAIN ranked, "keyword" \notin ranked[i].matchedBy
               PROVE  \/ Similarity(query.text, ranked[i].record.text) >= SemanticThreshold
                      \/ ranked[i].record.recordId \in owed
    OBVIOUS
  <2>1. PICK r \in E : ranked[i] = HybridHit(terms, scores, r)
    BY <1>4
  <2> QED
    BY <1>5, <1>6, <2>1
<1> QED
  BY <1>2, <1>3, <1>7

\* The answer of a retrieval that returns now.
LEMMA Answers ==
  ASSUME StoreInv, FollowInv, op.call # "index", NEW query \in Queries,
         NEW candidates, AreCandidates(candidates), \A i \in DOMAIN candidates : IsHeld(candidates[i]),
         NEW scores, AreScores(scores, query.text),
         UNCHANGED owed, op' = Idle,
         returned'.query = query, returned'.candidates = candidates,
         returned'.ranked = HybridHits(Terms(query.text), scores, candidates),
         returned'.selection = RankHits(returned'.ranked, query.limit),
         ~ returned'.ran => scores = NoScores
  PROVE  AnswerInv'
<1>1. PICK ranked : ranked = HybridHits(Terms(query.text), scores, candidates)
  OBVIOUS
<1>2. /\ IsRanking(ranked)
      /\ \A i \in DOMAIN ranked :
           "keyword" \notin ranked[i].matchedBy =>
             \/ Similarity(query.text, ranked[i].record.text) >= SemanticThreshold
             \/ ranked[i].record.recordId \in owed
  BY <1>1, HitsByMeaning
<1>3. FoundByMeaning'
  BY <1>1, <1>2 DEF FoundByMeaning
<1>4. /\ (returned.query \in Queries /\ AreCandidates(returned.candidates))'
      /\ IsRanking(returned.ranked)'
      /\ (returned.selection = RankHits(returned.ranked, returned.query.limit))'
      /\ (~ returned.ran =>
            returned.ranked = HybridHits(Terms(returned.query.text), NoScores, returned.candidates))'
  <2>1. AreCandidates(returned.candidates)'
    BY DEF AreCandidates
  <2>2. IsRanking(returned.ranked)'
    BY <1>1, <1>2 DEF IsRanking
  <2>3. (~ returned.ran =>
           returned.ranked = HybridHits(Terms(returned.query.text), NoScores, returned.candidates))'
    OBVIOUS
  <2>4. (returned.selection = RankHits(returned.ranked, returned.query.limit))'
    OBVIOUS
  <2> QED
    BY <2>1, <2>2, <2>3, <2>4
<1> QED
  BY <1>3, <1>4 DEF AnswerInv

\* The parts of an answer.
LEMMA RetrievedIs ==
  ASSUME NEW query, NEW candidates, NEW ran, NEW degraded, NEW scores,
         returned' = Retrieved(query, candidates, ran, degraded, scores)
  PROVE  /\ returned'.query = query /\ returned'.candidates = candidates
         /\ returned'.ran = ran
         /\ returned'.ranked = HybridHits(Terms(query.text), scores, candidates)
         /\ returned'.selection = RankHits(returned'.ranked, query.limit)
BY DEF Retrieved

\* What a retrieval returns is true of the moment it returns, and stays so until the next call.
LEMMA AnswerStep ==
  ASSUME StoreInv, VectorInv, OpInv, FollowInv, AnswerInv, [Next]_memoryVars
  PROVE  AnswerInv'
<1>1. AnswerWaits /\ AnswerWaits'
  <2>1. AnswerWaits
    BY DEF AnswerInv, AnswerWaits
  <2> QED
    BY <2>1, AnswerWaitsStep
<1>2. CASE returned'.call # "retrieve"
  BY <1>1, <1>2 DEF AnswerInv, AnswerWaits
<1>3. CASE returned' = Idle
  BY <1>2, <1>3 DEF Idle
<1>4. CASE op # Idle /\ UNCHANGED returned
  BY <1>1, <1>3, <1>4 DEF AnswerWaits
<1>5. CASE UNCHANGED << op, owed, returned >>
  <2>1. FoundByMeaning' <=> FoundByMeaning
    BY <1>5 DEF FoundByMeaning
  <2>2. AnswerInv
    OBVIOUS
  <2> QED
    BY <1>5, <2>1 DEF AnswerInv, AreCandidates, IsRanking
<1>6. ASSUME NEW query \in Queries, Retrieve(query)
      PROVE  AnswerInv'
  <2>1. PICK candidates : candidates = IF query.text = {} THEN << >>
                                       ELSE Query([kinds |-> query.kinds, tags |-> query.tags,
                                                   limit |-> MaxCandidates])
    OBVIOUS
  <2>2. AreCandidates(candidates) /\ \A i \in DOMAIN candidates : IsHeld(candidates[i])
    BY <2>1, RetrieveCandidates
  <2>3. op.call # "index"
    BY <1>6 DEF Retrieve, IsIdle, Idle
  <2>4. \/ returned' = Idle
        \/ /\ op' = Idle
           /\ \E ran, degraded :
                returned' = Retrieved(query, candidates, ran, degraded, NoScores)
    BY <1>6, <2>1 DEF Retrieve
  <2>5. UNCHANGED owed
    BY <1>6 DEF Retrieve
  <2>6. ASSUME op' = Idle, NEW ran, NEW degraded,
               returned' = Retrieved(query, candidates, ran, degraded, NoScores)
        PROVE  AnswerInv'
    <3>1. PICK scores : scores = NoScores
      OBVIOUS
    <3>2. AreScores(scores, query.text)
      BY <3>1, NoScoresAre
    <3>3. /\ returned'.query = query /\ returned'.candidates = candidates
          /\ returned'.ranked = HybridHits(Terms(query.text), scores, candidates)
          /\ returned'.selection = RankHits(returned'.ranked, query.limit)
      BY <2>6, <3>1, RetrievedIs
    <3> QED
      BY <2>2, <2>3, <2>5, <2>6, <3>1, <3>2, <3>3, Answers
  <2> QED
    BY <1>3, <2>4, <2>6
<1>7. ASSUME op.call = "search", op' = Idle, UNCHANGED owed, NEW scores,
             AreScores(scores, op.query.text), NEW ran, NEW degraded,
             returned' = Retrieved(op.query, op.candidates, ran, degraded, scores),
             ~ ran => scores = NoScores
      PROVE  AnswerInv'
  <2>1. PICK query \in Queries : query = op.query
    BY <1>7 DEF OpInv
  <2>2. PICK candidates : candidates = op.candidates
    OBVIOUS
  <2>3. AreCandidates(candidates) /\ \A i \in DOMAIN candidates : IsHeld(candidates[i])
    BY <1>7, <2>2 DEF OpInv
  <2>4. /\ returned'.query = query /\ returned'.candidates = candidates
        /\ returned'.ran = ran
        /\ returned'.ranked = HybridHits(Terms(query.text), scores, candidates)
        /\ returned'.selection = RankHits(returned'.ranked, query.limit)
    BY <1>7, <2>1, <2>2, RetrievedIs
  <2> QED
    BY <1>7, <2>1, <2>3, <2>4, Answers
<1>8. ASSUME NEW reply \in Replies, QueryVectorArrives(reply)
      PROVE  AnswerInv'
  <2>1. op.call = "search" /\ op' = Idle /\ UNCHANGED owed
    BY <1>8 DEF QueryVectorArrives
  <2>2. CASE Accepted(reply, 1)
    <3>1. PICK scores : scores = SearchScores(op.compared, op.query.text, reply[1].dimensions)
      OBVIOUS
    <3>2. AreScores(scores, op.query.text)
      BY <2>1, <3>1, SearchScoresAre DEF OpInv
    <3>3. PICK ran : ran
      OBVIOUS
    <3>4. \E degraded : returned' = Retrieved(op.query, op.candidates, TRUE, degraded, scores)
      BY <1>8, <2>2, <3>1 DEF QueryVectorArrives
    <3> QED
      BY <1>7, <2>1, <3>2, <3>4
  <2>3. CASE ~ Accepted(reply, 1)
    <3>1. \E ran, degraded : returned' = Retrieved(op.query, op.candidates, ran, degraded, NoScores)
      BY <1>8, <2>3 DEF QueryVectorArrives
    <3> QED
      BY <1>7, <2>1, <3>1, NoScoresAre
  <2> QED
    BY <2>2, <2>3
<1>9. CASE QueryEmbeddingFails
  <2>1. op.call = "search" /\ op' = Idle /\ UNCHANGED owed
    BY <1>9 DEF QueryEmbeddingFails
  <2>2. \E ran, degraded : returned' = Retrieved(op.query, op.candidates, ran, degraded, NoScores)
    BY <1>9 DEF QueryEmbeddingFails
  <2> QED
    BY <1>7, <2>1, <2>2, NoScoresAre
<1>10. CASE \E record \in Records : Put(record) \/ PutFails(record)
  BY <1>3, <1>10 DEF Put, PutFails
<1>11. CASE (\E reply \in Replies : VectorArrives(reply)) \/ EmbeddingFails
  BY <1>4, <1>11 DEF VectorArrives, EmbeddingFails, Idle
<1>12. CASE Backfill \/ BackfillNext \/ BackfillThrows
  BY <1>3, <1>4, <1>12 DEF Backfill, BackfillNext, BackfillThrows, Idle
<1>13. CASE BackfillReturns
  BY <1>2, <1>13 DEF BackfillReturns
<1>14. CASE Close \/ ProcessEnds \/ \E nextModel \in Models : Open(nextModel)
  BY <1>3, <1>14 DEF Close, ProcessEnds, Open
<1>15. CASE UNCHANGED memoryVars
  BY <1>5, <1>15 DEF memoryVars
<1> QED
  BY <1>6, <1>8, <1>9, <1>10, <1>11, <1>12, <1>13, <1>14, <1>15 DEF Next

-----------------------------------------------------------------------------
(* The invariant.                                                          *)

\* The counters stay within the bounds of the model.
LEMMA BoundsStep ==
  ASSUME BoundsInv, [Next]_memoryVars
  PROVE  BoundsInv'
<1>1. puts' \in 0 .. MaxPuts
  <2>1. CASE puts' = puts
    BY <2>1 DEF BoundsInv
  <2>2. CASE puts' = puts + 1 /\ puts < MaxPuts
    BY <2>2, MemoryAssumption DEF BoundsInv
  <2>3. CASE \E record \in Records : Put(record) \/ PutFails(record)
    BY <2>2, <2>3 DEF Put, PutFails
  <2>4. CASE \E reply \in Replies : VectorArrives(reply) \/ QueryVectorArrives(reply)
    BY <2>1, <2>4 DEF VectorArrives, QueryVectorArrives
  <2>5. CASE EmbeddingFails \/ Backfill \/ BackfillNext \/ BackfillReturns \/ BackfillThrows
    BY <2>1, <2>5 DEF EmbeddingFails, Backfill, BackfillNext, BackfillReturns, BackfillThrows
  <2>6. CASE (\E query \in Queries : Retrieve(query)) \/ QueryEmbeddingFails
    BY <2>1, <2>6 DEF Retrieve, QueryEmbeddingFails
  <2>7. CASE Close \/ ProcessEnds \/ \E nextModel \in Models : Open(nextModel)
    BY <2>1, <2>7 DEF Close, ProcessEnds, Open
  <2>8. CASE UNCHANGED memoryVars
    BY <2>1, <2>8 DEF memoryVars
  <2> QED
    BY <2>3, <2>4, <2>5, <2>6, <2>7, <2>8 DEF Next
<1>2. opens' \in 1 .. MaxOpens /\ isOpen' \in BOOLEAN
  <2>1. CASE opens' = opens /\ isOpen' = isOpen
    BY <2>1 DEF BoundsInv
  <2>2. CASE opens' = opens + 1 /\ opens < MaxOpens /\ isOpen' = TRUE
    BY <2>2, MemoryAssumption DEF BoundsInv
  <2>3. CASE \E record \in Records : Put(record) \/ PutFails(record)
    BY <2>1, <2>3 DEF Put, PutFails, Upsert, storeVars
  <2>4. CASE \E reply \in Replies : VectorArrives(reply) \/ QueryVectorArrives(reply)
    BY <2>1, <2>4 DEF VectorArrives, QueryVectorArrives, storeVars
  <2>5. CASE EmbeddingFails \/ Backfill \/ BackfillNext \/ BackfillReturns \/ BackfillThrows
    BY <2>1, <2>5 DEF EmbeddingFails, Backfill, BackfillNext, BackfillReturns, BackfillThrows, storeVars
  <2>6. CASE (\E query \in Queries : Retrieve(query)) \/ QueryEmbeddingFails
    BY <2>1, <2>6 DEF Retrieve, QueryEmbeddingFails, storeVars
  <2>7. CASE opens' = opens /\ isOpen' = FALSE
    BY <2>7 DEF BoundsInv
  <2>8. CASE Close \/ ProcessEnds
    BY <2>7, <2>8 DEF Close, ProcessEnds
  <2>9. CASE \E nextModel \in Models : Open(nextModel)
    BY <2>2, <2>9 DEF Open
  <2>10. CASE UNCHANGED memoryVars
    BY <2>1, <2>10 DEF memoryVars, storeVars
  <2> QED
    BY <2>3, <2>4, <2>5, <2>6, <2>8, <2>9, <2>10 DEF Next
<1> QED
  BY <1>1, <1>2 DEF BoundsInv

\* An empty memory satisfies the invariant.
LEMMA InitInv ==
  ASSUME Init
  PROVE  Inv
<1>1. /\ Stored = {} /\ Indexed = {} /\ tagRows = {} /\ isOpen = TRUE
      /\ model \in Models /\ observedDimensions = 0
      /\ op = Idle /\ returned = Idle /\ owed = {} /\ mine = {}
      /\ puts = 0 /\ opens = 1
  BY DEF Init, StoreInit, Stored, Indexed
<1>2. StoreInv
  BY <1>1, FS_EmptySet DEF StoreInv, Numbered, TagsMatchBody, Stored
<1>3. VectorInv
  BY <1>1 DEF VectorInv, Numbered, OwnVectorsComparable, Indexed
<1>4. OpInv
  BY <1>1 DEF OpInv, Idle
<1>5. FollowInv
  BY <1>1 DEF FollowInv, IndexFollowsStore
<1>6. BackfillInv
  BY <1>1 DEF BackfillInv, Covers, BackfillComplete, Idle
<1>7. AnswerInv
  BY <1>1 DEF AnswerInv, Idle
<1>8. BoundsInv
  BY <1>1, MemoryAssumption DEF BoundsInv
<1> QED
  BY <1>2, <1>3, <1>4, <1>5, <1>6, <1>7, <1>8 DEF Inv

\* The inductive invariant holds in every run of the memory.
LEMMA InvHolds == Spec => []Inv
<1>1. Init => Inv
  BY InitInv
<1>2. Inv /\ [Next]_memoryVars => Inv'
  <2> SUFFICES ASSUME Inv, [Next]_memoryVars
               PROVE  Inv'
    OBVIOUS
  <2>1. AnswerWaits
    BY DEF Inv, AnswerInv, AnswerWaits
  <2>2. StoreInv'
    BY StoreStep DEF Inv
  <2>3. VectorInv'
    BY VectorStep DEF Inv
  <2>4. OpInv'
    BY OpStep DEF Inv
  <2>5. FollowInv'
    BY FollowStep DEF Inv
  <2>6. BackfillInv'
    BY <2>1, BackfillStep DEF Inv
  <2>7. AnswerInv'
    BY AnswerStep DEF Inv
  <2>8. BoundsInv'
    BY BoundsStep DEF Inv
  <2> QED
    BY <2>2, <2>3, <2>4, <2>5, <2>6, <2>7, <2>8 DEF Inv
<1> QED
  BY <1>1, <1>2, PTL DEF Spec

-----------------------------------------------------------------------------
(* What the memory keeps.                                                  *)

(* Rows, tags and vectors agree with each other in every run, and what a backfill or a process says
   of them is so: put's transaction, tryIndex, backfill and the check of dimensions. *)
THEOREM MemoryAgrees == Spec => []MemoryInv
<1>1. ASSUME Inv
      PROVE  MemoryInv
  <2>1. /\ StoreInv /\ VectorInv /\ OpInv /\ FollowInv
        /\ BackfillInv /\ AnswerInv /\ BoundsInv
    BY <1>1 DEF Inv
  <2>2. tagRows \subseteq Stored \X UNION {r.tags : r \in Records}
    <3> SUFFICES ASSUME NEW row \in tagRows
                 PROVE  row \in Stored \X UNION {r.tags : r \in Records}
      OBVIOUS
    <3>1. \E id \in Stored : \E tag \in rows[id].record.tags : row = << id, tag >>
      BY <2>1 DEF StoreInv, TagsMatchBody
    <3>2. PICK id \in Stored : \E tag \in rows[id].record.tags : row = << id, tag >>
      BY <3>1
    <3>3. rows[id].record \in Records
      BY <2>1 DEF StoreInv
    <3> QED
      BY <3>2, <3>3
  <2>3. \A id \in Stored : /\ rows[id].record \in {r \in Records : r.valid}
                           /\ rows[id].record.recordId = id
    BY <2>1 DEF StoreInv
  <2>4. \A id \in Indexed : vectors[id].model \in Models /\ vectors[id].dimensions > 0
    BY <2>1 DEF VectorInv
  <2>5. MemoryTypeOK
    BY <2>1, <2>2, <2>3, <2>4 DEF MemoryTypeOK, VectorInv, OpInv, FollowInv, BoundsInv
  <2> QED
    BY <2>1, <2>5 DEF MemoryInv, StoreInv, VectorInv, FollowInv, BackfillInv
<1> QED
  BY <1>1, InvHolds, PTL

(* The hits of every retrieval keep to its limit, what is dropped is accounted for, and no kind of
   record suffers by it: rankHits. *)
THEOREM SelectionKept == Spec => []SelectionFair
<1>1. ASSUME Inv
      PROVE  SelectionFair
  <2>1. CASE returned.call = "retrieve"
    <3>1. /\ IsRanking(returned.ranked)
          /\ returned.selection = RankHits(returned.ranked, returned.query.limit)
          /\ returned.query.limit \in Nat
      BY <1>1, <2>1, MemoryAssumption DEF Inv, AnswerInv
    <3> QED
      BY <2>1, <3>1, SelectionIsFair
  <2>2. CASE returned.call # "retrieve"
    BY <2>2 DEF SelectionFair, SelectionAccounted, KindsRepresented
  <2> QED
    BY <2>1, <2>2
<1> QED
  BY <1>1, InvHolds, PTL

(* A retrieval without its semantic stage finds what the lexical retriever finds, in its order:
   HybridRetriever.retrieve where the search failed or found nothing to compare. *)
THEOREM RetrievalDegrades == Spec => []DegradesToLexical
<1>1. ASSUME Inv
      PROVE  DegradesToLexical
  <2> SUFFICES ASSUME returned.call = "retrieve", ~ returned.ran
               PROVE  HitIds(returned.ranked)
                      = HitIds(LexicalHits(Terms(returned.query.text), returned.candidates))
    BY DEF DegradesToLexical
  <2>1. /\ returned.query \in Queries /\ AreCandidates(returned.candidates)
        /\ returned.ranked = HybridHits(Terms(returned.query.text), NoScores, returned.candidates)
    BY <1>1 DEF Inv, AnswerInv
  <2>2. IsFiniteSet(Terms(returned.query.text))
    BY <2>1, MemoryAssumption, TermsFinite
  <2>3. PICK scores : scores = NoScores /\ DOMAIN scores = {}
    BY NoScoresAre
  <2> QED
    BY <2>1, <2>2, <2>3, LexicalOrder
<1> QED
  BY <1>1, InvHolds, PTL

(* A hit found by meaning alone is near the query by the text the record has now, unless its
   indexing is owed: tryIndex and search, whatever was put, lost or embedded in between. *)
THEOREM MeaningIsCurrent == Spec => []FoundByMeaning
<1>1. ASSUME Inv
      PROVE  FoundByMeaning
  <2>1. CASE returned.call = "retrieve"
    BY <1>1, <2>1 DEF Inv, AnswerInv
  <2>2. CASE returned.call # "retrieve"
    BY <2>2 DEF FoundByMeaning
  <2> QED
    BY <2>1, <2>2
<1> QED
  BY <1>1, InvHolds, PTL

-----------------------------------------------------------------------------
(* The refinement of RecordMemory. The order of a table is that of its     *)
(* numbers.                                                                *)

NumberPairs(table, S) == {p \in S \X S : table[p[1]].seq < table[p[2]].seq}

NumberOrder(table) == NumberPairs(table, DOMAIN table)

\* One entry is before another if its number is smaller.
LEMMA NumberOrderIs ==
  ASSUME NEW table
  PROVE  \A a, b \in DOMAIN table :
           << a, b >> \in NumberOrder(table) <=> table[a].seq < table[b].seq
<1>1. PICK S : S = DOMAIN table
  OBVIOUS
<1>2. \A a, b \in S : << a, b >> \in NumberPairs(table, S) <=> table[a].seq < table[b].seq
  BY DEF NumberPairs
<1> QED
  BY <1>1, <1>2 DEF NumberOrder

OrderOf(table) ==
  CHOOSE list \in [1 .. Cardinality(DOMAIN table) -> DOMAIN table] :
    \A i, j \in DOMAIN list : i < j => table[list[i]].seq < table[list[j]].seq

\* The order of a table lists its entries by their numbers.
LEMMA OrderSorts ==
  ASSUME NEW table, IsFiniteSet(DOMAIN table), Numbered(table)
  PROVE  /\ IsStrictOrder(NumberOrder(table), DOMAIN table)
         /\ Sorts(OrderOf(table), NumberOrder(table), DOMAIN table)
<1> DEFINE S == DOMAIN table
           R == NumberOrder(table)
<1>1. \A a \in S : table[a].seq \in Nat
  BY DEF Numbered
<1>2. \A a, b \in S : << a, b >> \in R <=> table[a].seq < table[b].seq
  BY NumberOrderIs
<1>3. \A a, b \in S : table[a].seq = table[b].seq => a = b
  BY DEF Numbered
<1>4. \A a \in S : << a, a >> \notin R
  BY <1>1, <1>2
<1>5. \A a, b, c \in S : << a, b >> \in R /\ << b, c >> \in R => << a, c >> \in R
  BY <1>1, <1>2
<1>6. \A a, b \in S : a = b \/ << a, b >> \in R \/ << b, a >> \in R
  <2> SUFFICES ASSUME NEW a \in S, NEW b \in S, a # b
               PROVE  << a, b >> \in R \/ << b, a >> \in R
    OBVIOUS
  <2>1. table[a].seq # table[b].seq
    BY <1>3
  <2> QED
    BY <1>1, <1>2, <2>1
<1>7. IsStrictOrder(R, S)
  BY <1>4, <1>5, <1>6 DEF IsStrictOrder
<1>8. PICK some : Sorts(some, R, S)
  BY <1>7, SortedListExists
<1>9. \A list : Sorts(list, R, S) <=>
                  /\ list \in [1 .. Cardinality(S) -> S]
                  /\ \A i, j \in DOMAIN list : i < j => table[list[i]].seq < table[list[j]].seq
  <2> HIDE DEF R
  <2> QED
    BY <1>2 DEF Sorts
<1>10. \E list \in [1 .. Cardinality(S) -> S] :
         \A i, j \in DOMAIN list : i < j => table[list[i]].seq < table[list[j]].seq
  BY <1>8, <1>9
<1>11. /\ OrderOf(table) \in [1 .. Cardinality(S) -> S]
       /\ \A i, j \in DOMAIN OrderOf(table) :
            i < j => table[OrderOf(table)[i]].seq < table[OrderOf(table)[j]].seq
  BY <1>10 DEF OrderOf
<1> QED
  BY <1>7, <1>9, <1>11

\* A table with the same numbers has the same order.
LEMMA OrderKept ==
  ASSUME NEW table, IsFiniteSet(DOMAIN table), Numbered(table),
         NEW new, DOMAIN new = DOMAIN table, Numbered(new),
         \A a \in DOMAIN table : new[a].seq = table[a].seq
  PROVE  OrderOf(new) = OrderOf(table)
<1>1. \A a, b \in DOMAIN table : << a, b >> \in NumberOrder(new) => << a, b >> \in NumberOrder(table)
  BY NumberOrderIs
<1>2. /\ IsStrictOrder(NumberOrder(table), DOMAIN table)
      /\ Sorts(OrderOf(table), NumberOrder(table), DOMAIN table)
  BY OrderSorts
<1>3. Sorts(OrderOf(new), NumberOrder(table), DOMAIN table)
  <2>1. Sorts(OrderOf(new), NumberOrder(new), DOMAIN table)
    BY OrderSorts
  <2> QED
    BY <1>1, <2>1 DEF Sorts
<1> QED
  BY ONLY <1>2, <1>3, IsFiniteSet(DOMAIN table), SortedListUnique

\* An entry with a number above all others comes last.
LEMMA OrderGrows ==
  ASSUME NEW table, IsFiniteSet(DOMAIN table), Numbered(table),
         NEW id, id \notin DOMAIN table,
         NEW new, DOMAIN new = DOMAIN table \cup {id}, Numbered(new),
         \A a \in DOMAIN table : new[a].seq = table[a].seq /\ table[a].seq < new[id].seq
  PROVE  OrderOf(new) = Append(OrderOf(table), id)
<1> DEFINE S == DOMAIN table
           T == DOMAIN new
           R == NumberOrder(new)
           list == OrderOf(table)
<1>1. IsFiniteSet(S) /\ IsFiniteSet(T) /\ T = S \cup {id}
  BY FS_AddElement
<1>2. IsStrictOrder(R, T) /\ Sorts(OrderOf(new), R, T)
  BY <1>1, OrderSorts
<1>3. Sorts(list, R, S)
  <2>1. Sorts(list, NumberOrder(table), S)
    BY OrderSorts
  <2>2. \A a, b \in S : << a, b >> \in NumberOrder(table) => << a, b >> \in R
    BY NumberOrderIs
  <2> HIDE DEF list, R, S
  <2> QED
    BY <2>1, <2>2 DEF Sorts
<1>4. \A a \in S : << a, id >> \in R
  BY NumberOrderIs
<1> HIDE DEF S, T, R, list
<1>5. Sorts(Append(list, id), R, T)
  <2>1. id \notin S
    BY DEF S
  <2> QED
    BY ONLY <1>1, <1>2, <1>3, <1>4, <2>1, SortedListAppend
<1>6. Append(list, id) = OrderOf(new)
  BY ONLY <1>1, <1>2, <1>5, SortedListUnique
<1> QED
  BY <1>6 DEF list

(* The store remembers what was put, in the order it was first put, and lets only its owner replace a
   record: every step of put, index, retrieval, crash and reopening is one of the abstract memory. *)
THEOREM MemoryForgetsNothing == Spec => RemembersRecords
<1> DEFINE content == [id \in Stored |-> rows[id].record]
           order == SortedList(Stored, Earlier)
<1>1. order = OrderOf(rows) /\ order' = OrderOf(rows')
  BY DEF SortedList, Earlier, OrderOf, Stored
<1>2. Init => Memory!Init
  <2> SUFFICES ASSUME Init
               PROVE  Memory!Init
    OBVIOUS
  <2>1. Stored = {} /\ StoreInv
    BY InitInv DEF Init, StoreInit, Stored, Inv
  <2>2. content = [id \in {} |-> {}]
    BY <2>1
  <2>3. order = << >>
    <3>1. Sorts(OrderOf(rows), NumberOrder(rows), DOMAIN rows)
      BY <2>1, OrderSorts DEF StoreInv, Stored
    <3>2. Cardinality(DOMAIN rows) = 0
      BY <2>1, FS_EmptySet DEF Stored
    <3>3. OrderOf(rows) \in Seq({}) /\ Len(OrderOf(rows)) = 0
      BY <2>1, <3>1, <3>2 DEF Sorts, Stored
    <3> QED
      BY <1>1, <3>3
  <2> QED
    BY <2>2, <2>3 DEF Memory!Init
<1>3. Inv /\ [Next]_memoryVars => [Memory!Next]_<< content, order >>
  <2> SUFFICES ASSUME Inv, [Next]_memoryVars
               PROVE  [Memory!Next]_<< content, order >>
    OBVIOUS
  <2>1. StoreInv /\ StoreInv'
    BY StoreStep DEF Inv
  <2>2. CASE UNCHANGED rows
    <3>1. content' = content /\ order' = order
      BY <1>1, <2>2 DEF Stored
    <3> QED
      BY <3>1
  <2>3. ASSUME NEW record \in Records, Upsert(record), ~ Refused(record)
        PROVE  Memory!Remember(record)
    <3> DEFINE id == record.recordId
    <3>1. /\ Stored' = Stored \cup {id}
          /\ rows'[id].record = record
          /\ \A other \in Stored : other # id => rows'[other] = rows[other]
          /\ \A other \in Stored : rows'[other].seq = rows[other].seq
          /\ id \notin Stored => \A other \in Stored : rows[other].seq < rows'[id].seq
      BY <2>1, <2>3, UpsertIs
    <3>2. id \in Stored => rows[id].record.runId = record.runId
      BY <2>3 DEF Refused, Conflicts
    <3>3. content' = [other \in Stored \cup {id} |->
                        IF other = id THEN record ELSE content[other]]
      BY <3>1
    <3>4. /\ IsFiniteSet(DOMAIN rows) /\ Numbered(rows)
          /\ Numbered(rows') /\ DOMAIN rows' = DOMAIN rows \cup {id}
      BY <2>1, <3>1 DEF StoreInv, Stored, Numbered
    <3>5. order' = IF id \in Stored THEN order ELSE Append(order, id)
      <4>1. CASE id \in Stored
        <5>1. DOMAIN rows' = DOMAIN rows
          BY <3>4, <4>1 DEF Stored
        <5>2. OrderOf(rows') = OrderOf(rows)
          BY <3>1, <3>4, <5>1, OrderKept DEF Stored
        <5> QED
          BY <1>1, <4>1, <5>2
      <4>2. CASE id \notin Stored
        <5>1. OrderOf(rows') = Append(OrderOf(rows), id)
          BY <3>1, <3>4, <4>2, OrderGrows DEF Stored
        <5> QED
          BY <1>1, <4>2, <5>1
      <4> QED
        BY <4>1, <4>2
    <3>6. DOMAIN content = Stored /\ (id \in Stored => content[id].runId = record.runId)
      BY <3>2
    <3> HIDE DEF content, order
    <3> QED
      BY <3>3, <3>5, <3>6 DEF Memory!Remember, content, order
  <2>4. ASSUME NEW record \in Records, Put(record)
        PROVE  Memory!Next \/ UNCHANGED rows
    <3>1. UNCHANGED rows \/ (~ Refused(record) /\ Upsert(record))
      BY <2>4 DEF Put, storeVars
    <3> QED
      BY <2>3, <3>1 DEF Memory!Next
  <2> QED
    BY <2>2, <2>4, WhoStores
<1>4. Spec => [][Next]_memoryVars /\ []Inv /\ Init
  BY InvHolds, PTL DEF Spec
<1> QED
  BY <1>2, <1>3, <1>4, PTL DEF RemembersRecords, Memory!Spec
=============================================================================

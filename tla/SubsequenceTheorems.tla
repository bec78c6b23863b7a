------------------------ MODULE SubsequenceTheorems -------------------------
(***************************************************************************)
(* Induction over the natural numbers without an operator for a parameter, *)
(* and what filtering a list keeps, for every list.                        *)
(***************************************************************************)
EXTENDS Subsequences, SequenceTheorems, WellFoundedInduction, TLAPS

\* Every set of naturals with a member has a least one.
LEMMA LeastNatural ==
  ASSUME NEW S \in SUBSET Nat, S # {}
  PROVE  \E m \in S : \A n \in S : m <= n
<1> DEFINE Less == OpToRel(<, Nat)
<1>1. \A x, y \in Nat : <<y, x>> \in Less <=> y < x
  BY DEF OpToRel
<1>2. IsWellFoundedOn(Less, Nat)
  BY NatLessThanWellFounded
<1> HIDE DEF Less
<1>3. PICK m \in S : \A n \in S : ~(<<n, m>> \in Less)
  BY <1>2, WFMin
<1>4. ASSUME NEW n \in S PROVE m <= n
  <2>1. ~(n < m)
    BY <1>1, <1>3
  <2> QED
    BY <2>1
<1> QED
  BY <1>4

\* A set of naturals with 0 in it and with the successor of each member is all of them.
LEMMA NaturalSet ==
  ASSUME NEW S \in SUBSET Nat, 0 \in S, \A n \in S : n + 1 \in S
  PROVE  S = Nat
<1> SUFFICES ASSUME S # Nat
             PROVE  FALSE
  OBVIOUS
<1>1. Nat \ S # {}
  OBVIOUS
<1>2. PICK m \in Nat \ S : \A n \in Nat \ S : m <= n
  BY <1>1, LeastNatural
<1>3. m # 0 /\ m - 1 \in Nat /\ m - 1 \in S
  BY <1>2
<1> QED
  BY <1>2, <1>3

-----------------------------------------------------------------------------
\* What one element adds to the prefix kept so far.
KeptStep(s, keep, f, i) ==
  IF i = 0 THEN << >>
  ELSE IF i \in keep THEN Append(f[i - 1], s[i])
  ELSE f[i - 1]

IsKeptUpTo(s, keep, n, f) == f = [i \in 0 .. n |-> KeptStep(s, keep, f, i)]

\* The recursive function Subsequence is defined by does exist.
LEMMA KeptExists ==
  ASSUME NEW s, NEW keep, NEW len \in Nat
  PROVE  \E f : IsKeptUpTo(s, keep, len, f)
<1> DEFINE Bad == {n \in 0 .. len : ~ \E f : IsKeptUpTo(s, keep, n, f)}
<1>1. SUFFICES ASSUME Bad # {} PROVE FALSE
  <2>1. len \in 0 .. len
    OBVIOUS
  <2> QED
    BY <2>1
<1>2. PICK n \in Bad : \A m \in Bad : n <= m
  <2>1. Bad \in SUBSET Nat
    OBVIOUS
  <2> HIDE DEF Bad
  <2> QED
    BY <1>1, <2>1, LeastNatural
<1>3. n # 0
  <2>1. IsKeptUpTo(s, keep, 0, [i \in 0 .. 0 |-> << >>])
    BY DEF KeptStep, IsKeptUpTo
  <2> QED
    BY <2>1
<1>4. n - 1 \in 0 .. len /\ n \in 1 .. len
  BY <1>3
<1>5. PICK f : IsKeptUpTo(s, keep, n - 1, f)
  <2>1. n - 1 \notin Bad
    BY <1>2, <1>4
  <2> QED
    BY <2>1, <1>4
<1> DEFINE g == [i \in 0 .. n |-> IF i = n THEN KeptStep(s, keep, f, n) ELSE f[i]]
<1>6. ASSUME NEW i \in 0 .. n
      PROVE  g[i] = KeptStep(s, keep, g, i)
  <2>1. CASE i = n
    <3>1. g[n - 1] = f[n - 1]
      BY <1>4
    <3> QED
      BY <2>1, <3>1, <1>4 DEF KeptStep
  <2>2. CASE i # n
    <3>1. i \in 0 .. n - 1
      BY <2>2, <1>4
    <3>2. f[i] = KeptStep(s, keep, f, i)
      BY <3>1, <1>5 DEF IsKeptUpTo
    <3>3. i # 0 => g[i - 1] = f[i - 1]
      BY <3>1, <1>4
    <3> QED
      BY <3>1, <3>2, <3>3, <2>2 DEF KeptStep
  <2> QED
    BY <2>1, <2>2
<1>7. g = [i \in 0 .. n |-> KeptStep(s, keep, g, i)]
  <2>1. g = [i \in 0 .. n |-> g[i]]
    OBVIOUS
  <2> HIDE DEF g
  <2> QED
    BY <2>1, <1>6
<1> QED
  BY <1>7 DEF IsKeptUpTo

\* What the sequence kept of the first i elements is.
KeptPrefix(S, s, keep, i, r) ==
  /\ r \in Seq(S)
  /\ \A k \in 1 .. Len(r) : \E j \in (1 .. i) \cap keep : r[k] = s[j]
  /\ \A j \in (1 .. i) \cap keep : \E k \in 1 .. Len(r) : r[k] = s[j]

\* Subsequence(s, keep) is a sequence of the elements of s at the positions
\* in keep: all of them, and nothing else (Array.filter in planner.ts).
LEMMA SubsequenceContent ==
  ASSUME NEW S, NEW s \in Seq(S), NEW keep
  PROVE  KeptPrefix(S, s, keep, Len(s), Subsequence(s, keep))
<1> DEFINE kept == CHOOSE f : IsKeptUpTo(s, keep, Len(s), f)
<1>1. IsKeptUpTo(s, keep, Len(s), kept)
  BY KeptExists
<1>2. Subsequence(s, keep) = kept[Len(s)]
  BY DEF Subsequence, IsKeptUpTo, KeptStep
<1> HIDE DEF kept
<1> DEFINE Bad == {n \in 0 .. Len(s) : ~ KeptPrefix(S, s, keep, n, kept[n])}
<1>3. SUFFICES ASSUME Bad # {} PROVE FALSE
  <2>1. Len(s) \in 0 .. Len(s)
    OBVIOUS
  <2> QED
    BY <2>1, <1>2
<1>4. PICK n \in Bad : \A m \in Bad : n <= m
  <2>1. Bad \in SUBSET Nat
    OBVIOUS
  <2> HIDE DEF Bad
  <2> QED
    BY <1>3, <2>1, LeastNatural
<1>5. \A i \in 0 .. Len(s) : kept[i] = KeptStep(s, keep, kept, i)
  BY <1>1 DEF IsKeptUpTo
<1>6. n # 0
  <2>1. kept[0] = << >>
    BY <1>5 DEF KeptStep
  <2>2. << >> \in Seq(S) /\ 1 .. Len(<< >>) = {} /\ 1 .. 0 = {}
    BY EmptySeq
  <2>3. KeptPrefix(S, s, keep, 0, << >>)
    BY <2>2, Zenon DEF KeptPrefix
  <2> QED
    BY <2>1, <2>3
<1>7. n - 1 \in 0 .. Len(s) /\ n \in 1 .. Len(s)
  BY <1>6
<1>8. KeptPrefix(S, s, keep, n - 1, kept[n - 1])
  <2>1. n - 1 \notin Bad
    BY <1>4, <1>7
  <2> QED
    BY <2>1, <1>7
<1>9. KeptPrefix(S, s, keep, n, kept[n])
  <2>1. n \in 1 .. n /\ \A j \in 1 .. n : j = n \/ j \in 1 .. n - 1
    BY <1>7
  <2>2. 1 .. n - 1 \subseteq 1 .. n
    BY <1>7
  <2>3. s[n] \in S /\ kept[n] = KeptStep(s, keep, kept, n)
    BY <1>5, <1>7
  <2>4. CASE n \in keep
    <3>1. PICK r : r = kept[n - 1]
      OBVIOUS
    <3>2. kept[n] = Append(r, s[n])
      BY <1>6, <2>3, <2>4, <3>1 DEF KeptStep
    <3>3. r \in Seq(S)
      BY <1>8, <3>1 DEF KeptPrefix
    <3>4. /\ Append(r, s[n]) \in Seq(S)
          /\ Len(Append(r, s[n])) = Len(r) + 1
          /\ \A k \in 1 .. Len(r) : Append(r, s[n])[k] = r[k]
          /\ Append(r, s[n])[Len(r) + 1] = s[n]
      BY <3>3, <2>3, AppendProperties
    <3>5. Len(r) \in Nat
      BY <3>3
    <3>6. \A k \in 1 .. Len(r) + 1 : k \in 1 .. Len(r) \/ k = Len(r) + 1
      BY <3>5
    <3>7. Len(r) + 1 \in 1 .. Len(r) + 1 /\ 1 .. Len(r) \subseteq 1 .. Len(r) + 1
      BY <3>5
    <3>8. /\ \A k \in 1 .. Len(r) : \E j \in (1 .. n - 1) \cap keep : r[k] = s[j]
          /\ \A j \in (1 .. n - 1) \cap keep : \E k \in 1 .. Len(r) : r[k] = s[j]
      BY <1>8, <3>1 DEF KeptPrefix
    <3>9. \A k \in 1 .. Len(r) + 1 :
            \E j \in (1 .. n) \cap keep : Append(r, s[n])[k] = s[j]
      <4> SUFFICES ASSUME NEW k \in 1 .. Len(r) + 1
                   PROVE  \E j \in (1 .. n) \cap keep : Append(r, s[n])[k] = s[j]
        OBVIOUS
      <4>1. CASE k \in 1 .. Len(r)
        <5>1. PICK j \in (1 .. n - 1) \cap keep : r[k] = s[j]
          BY <3>8, <4>1
        <5> QED
          BY <2>2, <3>4, <4>1, <5>1
      <4>2. CASE k = Len(r) + 1
        BY <2>1, <2>4, <3>4, <4>2, Zenon
      <4> QED
        BY <3>6, <4>1, <4>2
    <3>10. \A j \in (1 .. n) \cap keep :
             \E k \in 1 .. Len(r) + 1 : Append(r, s[n])[k] = s[j]
      BY <2>1, <3>4, <3>7, <3>8, Zenon
    <3>11. KeptPrefix(S, s, keep, n, Append(r, s[n]))
      BY <3>4, <3>9, <3>10, Zenon DEF KeptPrefix
    <3> QED
      BY <3>2, <3>11
  <2>5. CASE n \notin keep
    <3>1. kept[n] = kept[n - 1]
      BY <1>6, <2>3, <2>5 DEF KeptStep
    <3> QED
      BY <1>8, <2>1, <2>2, <2>5, <3>1, Zenon DEF KeptPrefix
  <2> QED
    BY <2>4, <2>5
<1> QED
  BY <1>9
=============================================================================

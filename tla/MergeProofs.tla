----------------------------- MODULE MergeProofs -----------------------------
(***************************************************************************)
(* What the merge and the plan of a push compute, for every base, read and *)
(* order of any length, after what the proofs keep needing of the library's *)
(* operators: induction on the naturals by the least element of a set, the *)
(* largest and the least of some indices, what a fold computes, and the    *)
(* places of what is removed from a sequence and inserted in one.          *)
(***************************************************************************)
EXTENDS Merge, Integers, FiniteSets, SequencesExt, SequenceTheorems,
        FiniteSetTheorems, WellFoundedInduction, TLAPS

(***************************************************************************)
(* The induction theorems of the library take a predicate as a parameter;  *)
(* these take a set, and follow from the well-foundedness of the naturals. *)
(***************************************************************************)
LEMMA Least ==
    ASSUME NEW T \in SUBSET Nat, T # {}
    PROVE  \E n \in T : \A m \in T : n <= m
  <1> DEFINE R == OpToRel(<, Nat)
  <1>1. IsWellFoundedOn(R, Nat)
    BY NatLessThanWellFounded
  <1>2. \A x, y \in Nat : <<x, y>> \in R <=> x < y
    BY DEF OpToRel
  <1> HIDE DEF R
  <1>3. PICK x \in T : \A y \in T : ~ (<<y, x>> \in R)
    BY <1>1, WFMin
  <1>4. ASSUME NEW y \in T
        PROVE  x <= y
    <2>1. ~ (y < x)
      BY <1>2, <1>3
    <2> QED
      BY <2>1
  <1> QED
    BY <1>4

LEMMA Induct ==
    ASSUME NEW S, 0 \in S, \A n \in Nat : n \in S => n + 1 \in S
    PROVE  Nat \subseteq S
  <1> DEFINE T == Nat \ S
  <1>1. SUFFICES ASSUME T # {} PROVE FALSE
    OBVIOUS
  <1>2. PICK n \in T : \A m \in T : n <= m
    BY <1>1, Least
  <1>3. n # 0 /\ n - 1 \in Nat /\ n - 1 \notin T
    BY <1>2
  <1> QED
    BY <1>3

LEMMA MinOfSome ==
    ASSUME NEW n \in Nat, NEW s \in SUBSET (1..n), s # {}
    PROVE  Min(s) \in s /\ \A i \in s : Min(s) <= i
  <1>1. \E x \in s : \A y \in s : x <= y
    BY Least
  <1> QED
    BY <1>1 DEF Min

LEMMA MaxOfSome ==
    ASSUME NEW n \in Nat, NEW s \in SUBSET (1..n), s # {}
    PROVE  Max(s) \in s /\ \A i \in s : i <= Max(s)
  <1> DEFINE T == {n - x : x \in s}
  <1>1. T \in SUBSET Nat /\ T # {}
    <2>1. \A x \in s : n - x \in Nat
      OBVIOUS
    <2> QED
      BY <2>1
  <1>2. PICK t \in T : \A m \in T : t <= m
    BY <1>1, Least
  <1>3. PICK x \in s : t = n - x
    BY <1>2
  <1>4. \A y \in s : x >= y
    <2> TAKE y \in s
    <2>1. n - y \in T
      OBVIOUS
    <2>2. t <= n - y
      BY <1>2, <2>1
    <2> QED
      BY <1>3, <2>2
  <1> QED
    BY <1>4 DEF Max

(* What a fold over 1..n is: the value of each set of indices, the largest   *)
(* of which is taken last.                                                  *)
IsFold(n, base, G, g) ==
    \A s \in SUBSET (1..n) :
        g[s] = IF s = {} THEN base ELSE G[<<Max(s), g[s \ {Max(s)}]>>]

(* The folds of the library are defined by choice: this is what they choose, *)
(* for a step G that stays in a set Q.                                      *)
LEMMA FoldExtends ==
    ASSUME NEW n \in Nat, NEW k \in 0..(n - 1), NEW Q, NEW base \in Q,
           NEW G \in [(1..n) \X Q -> Q],
           NEW f \in [SUBSET (1..k) -> Q], IsFold(k, base, G, f)
    PROVE  \E g \in [SUBSET (1..(k + 1)) -> Q] : IsFold(k + 1, base, G, g)
  <1> DEFINE g == [s \in SUBSET (1..(k + 1)) |->
                        IF k + 1 \in s THEN G[<<k + 1, f[s \ {k + 1}]>>] ELSE f[s]]
  <1>1. \A s \in SUBSET (1..(k + 1)) : s \ {k + 1} \in SUBSET (1..k)
    OBVIOUS
  <1>2. \A s \in SUBSET (1..(k + 1)) : k + 1 \notin s => s \in SUBSET (1..k)
    OBVIOUS
  <1>3. g \in [SUBSET (1..(k + 1)) -> Q]
    <2> SUFFICES ASSUME NEW s \in SUBSET (1..(k + 1))
                 PROVE  (IF k + 1 \in s THEN G[<<k + 1, f[s \ {k + 1}]>>] ELSE f[s]) \in Q
      OBVIOUS
    <2>1. CASE k + 1 \in s
      <3>1. f[s \ {k + 1}] \in Q /\ k + 1 \in 1..n
        BY <1>1
      <3> QED
        BY <2>1, <3>1
    <2>2. CASE k + 1 \notin s
      BY <1>2, <2>2
    <2> QED
      BY <2>1, <2>2
  <1>4. ASSUME NEW s \in SUBSET (1..k)
        PROVE  g[s] = f[s]
    BY k + 1 \notin s, s \in SUBSET (1..(k + 1))
  <1>5. ASSUME NEW s \in SUBSET (1..(k + 1)), k + 1 \in s
        PROVE  g[s] = G[<<k + 1, f[s \ {k + 1}]>>]
    BY <1>5
  <1> HIDE DEF g
  <1>6. ASSUME NEW s \in SUBSET (1..(k + 1)), s # {}
        PROVE  g[s] = G[<<Max(s), g[s \ {Max(s)}]>>]
    <2>1. Max(s) \in s /\ \A i \in s : i <= Max(s)
      <3> HIDE DEF IsFold
      <3> QED
        BY <1>6, MaxOfSome, k + 1 \in Nat
    <2>2. CASE k + 1 \in s
      <3>1. Max(s) = k + 1
        <4>1. k + 1 <= Max(s) /\ Max(s) \in 1..(k + 1)
          BY <2>1, <2>2
        <4> QED
          BY <4>1
      <3>2. g[s \ {k + 1}] = f[s \ {k + 1}]
        BY <1>1, <1>4
      <3> QED
        BY <1>5, <2>2, <3>1, <3>2
    <2>3. CASE k + 1 \notin s
      <3>1. s \in SUBSET (1..k) /\ s \ {Max(s)} \in SUBSET (1..k)
        BY <1>2, <2>3
      <3>2. g[s] = f[s] /\ g[s \ {Max(s)}] = f[s \ {Max(s)}]
        BY <1>4, <3>1
      <3>3. f[s] = G[<<Max(s), f[s \ {Max(s)}]>>]
        BY <1>6, <3>1 DEF IsFold
      <3> QED
        BY <3>2, <3>3
    <2> QED
      BY <2>2, <2>3
  <1>7. g[{}] = base
    <2>1. f[{}] = base
      BY DEF IsFold
    <2> QED
      BY <1>4, <2>1, {} \in SUBSET (1..k)
  <1>8. IsFold(k + 1, base, G, g)
    BY <1>6, <1>7 DEF IsFold
  <1> QED
    BY <1>3, <1>8

LEMMA FoldExists ==
    ASSUME NEW n \in Nat, NEW Q, NEW base \in Q, NEW G \in [(1..n) \X Q -> Q]
    PROVE  \E g \in [SUBSET (1..n) -> Q] : IsFold(n, base, G, g)
  <1> DEFINE P(k) == \E g \in [SUBSET (1..k) -> Q] : IsFold(k, base, G, g)
             S == {k \in Nat : k <= n => P(k)}
  <1>1. P(0)
    <2> DEFINE g == [s \in SUBSET (1..0) |-> base]
    <2>1. g \in [SUBSET (1..0) -> Q]
      OBVIOUS
    <2>2. \A s \in SUBSET (1..0) : s = {} /\ g[s] = base
      OBVIOUS
    <2>3. IsFold(0, base, G, g)
      BY <2>2 DEF IsFold
    <2> QED
      BY <2>1, <2>3
  <1>2. ASSUME NEW k \in Nat, k + 1 <= n, P(k)
        PROVE  P(k + 1)
    <2>1. k \in 0..(n - 1)
      BY <1>2
    <2>2. PICK f \in [SUBSET (1..k) -> Q] : IsFold(k, base, G, f)
      BY <1>2
    <2> QED
      BY <2>1, <2>2, FoldExtends
  <1> HIDE DEF P
  <1>3. 0 \in S
    BY <1>1
  <1>4. ASSUME NEW k \in Nat, k \in S
        PROVE  k + 1 \in S
    BY <1>2, <1>4
  <1>5. n \in S
    <2> HIDE DEF S
    <2> QED
      BY <1>3, <1>4, Induct
  <1>6. P(n)
    BY <1>5
  <1> QED
    BY <1>6 DEF P

-----------------------------------------------------------------------------
LEMMA SetToSeqType ==
    ASSUME NEW S, IsFiniteSet(S)
    PROVE  /\ SetToSeq(S) \in Seq(S)
           /\ SetToSeq(S) \in [1..Cardinality(S) -> S]
           /\ IsInjective(SetToSeq(S))
  <1>1. Cardinality(S) \in Nat /\ Bijection(1..Cardinality(S), S) # {}
    BY FS_CardinalityType DEF ExistsBijection
  <1>2. \E f \in [1..Cardinality(S) -> S] : IsInjective(f)
    BY <1>1 DEF Bijection, Injection
  <1>3. SetToSeq(S) \in [1..Cardinality(S) -> S] /\ IsInjective(SetToSeq(S))
    BY <1>2 DEF SetToSeq
  <1>4. [1..Cardinality(S) -> S] \subseteq Seq(S)
    BY <1>1, SeqDef
  <1> QED
    BY <1>3, <1>4

LEMMA RemoveAtPlaces ==
    ASSUME NEW S, NEW s \in Seq(S), NEW i \in 1..Len(s)
    PROVE  /\ RemoveAt(s, i) \in Seq(S)
           /\ Len(RemoveAt(s, i)) = Len(s) - 1
           /\ \A j \in 1..(Len(s) - 1) :
                RemoveAt(s, i)[j] = IF j < i THEN s[j] ELSE s[j + 1]
  <1> DEFINE before == SubSeq(s, 1, i - 1)
             after == SubSeq(s, i + 1, Len(s))
  <1>1. Len(s) \in Nat /\ \A j \in 1..Len(s) : s[j] \in S
    BY LenProperties
  <1>2. /\ before \in Seq(S) /\ Len(before) = i - 1
        /\ \A j \in 1..(i - 1) : before[j] = s[j]
    BY <1>1, SubSeqProperties
  <1>3. /\ after \in Seq(S) /\ Len(after) = Len(s) - i
        /\ \A j \in 1..(Len(s) - i) : after[j] = s[j + i]
    <2>1. \A j \in (i + 1)..Len(s) : s[j] \in S
      BY <1>1
    <2>2. /\ after \in Seq(S)
          /\ Len(after) = IF i + 1 <= Len(s) THEN Len(s) - (i + 1) + 1 ELSE 0
          /\ \A j \in 1..(Len(s) - (i + 1) + 1) : after[j] = s[i + 1 + j - 1]
      BY <1>1, <2>1, SubSeqProperties
    <2> QED
      BY <1>1, <2>2
  <1> HIDE DEF before, after
  <1>4. /\ before \o after \in Seq(S)
        /\ Len(before \o after) = Len(before) + Len(after)
        /\ \A j \in 1..(Len(before) + Len(after)) : (before \o after)[j] =
                IF j <= Len(before) THEN before[j] ELSE after[j - Len(before)]
    BY <1>2, <1>3, ConcatProperties
  <1>5. RemoveAt(s, i) = before \o after
    BY DEF RemoveAt, before, after
  <1>6. ASSUME NEW j \in 1..(Len(s) - 1)
        PROVE  (before \o after)[j] = IF j < i THEN s[j] ELSE s[j + 1]
    <2>1. CASE j < i
      BY <1>1, <1>2, <1>3, <1>4, <2>1
    <2>2. CASE ~ (j < i)
      <3>1. (before \o after)[j] = after[j - (i - 1)]
        BY <1>1, <1>2, <1>3, <1>4, <2>2
      <3>2. j - (i - 1) \in 1..(Len(s) - i)
        BY <1>1, <2>2
      <3> QED
        BY <1>1, <1>3, <2>2, <3>1, <3>2
    <2> QED
      BY <2>1, <2>2
  <1>7. Len(before \o after) = Len(s) - 1
    BY <1>1, <1>2, <1>3, <1>4
  <1> QED
    BY <1>4, <1>5, <1>6, <1>7

LEMMA InsertAtPlaces ==
    ASSUME NEW S, NEW s \in Seq(S), NEW i \in 1..(Len(s) + 1), NEW e \in S
    PROVE  /\ InsertAt(s, i, e) \in Seq(S)
           /\ Len(InsertAt(s, i, e)) = Len(s) + 1
           /\ \A j \in 1..(Len(s) + 1) :
                InsertAt(s, i, e)[j] =
                    IF j < i THEN s[j] ELSE IF j = i THEN e ELSE s[j - 1]
  <1> DEFINE before == SubSeq(s, 1, i - 1)
             after == SubSeq(s, i, Len(s))
  <1>1. Len(s) \in Nat /\ \A j \in 1..Len(s) : s[j] \in S
    BY LenProperties
  <1>2. /\ before \in Seq(S) /\ Len(before) = i - 1
        /\ \A j \in 1..(i - 1) : before[j] = s[j]
    BY <1>1, SubSeqProperties
  <1>3. /\ after \in Seq(S) /\ Len(after) = Len(s) - i + 1
        /\ \A j \in 1..(Len(s) - i + 1) : after[j] = s[j + i - 1]
    <2>1. \A j \in i..Len(s) : s[j] \in S
      BY <1>1
    <2>2. /\ after \in Seq(S)
          /\ Len(after) = IF i <= Len(s) THEN Len(s) - i + 1 ELSE 0
          /\ \A j \in 1..(Len(s) - i + 1) : after[j] = s[i + j - 1]
      BY <1>1, <2>1, SubSeqProperties
    <2> QED
      BY <1>1, <2>2
  <1> HIDE DEF before, after
  <1>4. /\ before \o <<e>> \in Seq(S)
        /\ Len(before \o <<e>>) = i
        /\ \A j \in 1..i : (before \o <<e>>)[j] = IF j < i THEN s[j] ELSE e
    <2>1. <<e>> \in Seq(S) /\ Len(<<e>>) = 1 /\ <<e>>[1] = e
      OBVIOUS
    <2>2. /\ before \o <<e>> \in Seq(S)
          /\ Len(before \o <<e>>) = Len(before) + Len(<<e>>)
          /\ \A j \in 1..(Len(before) + Len(<<e>>)) : (before \o <<e>>)[j] =
                IF j <= Len(before) THEN before[j] ELSE <<e>>[j - Len(before)]
      BY <1>2, <2>1, ConcatProperties
    <2> QED
      BY <1>1, <1>2, <2>1, <2>2
  <1> DEFINE front == before \o <<e>>
  <1> HIDE DEF front
  <1>5. /\ front \in Seq(S) /\ Len(front) = i
        /\ \A j \in 1..i : front[j] = IF j < i THEN s[j] ELSE e
    BY <1>4 DEF front
  <1>6. /\ front \o after \in Seq(S)
        /\ Len(front \o after) = Len(front) + Len(after)
        /\ \A j \in 1..(Len(front) + Len(after)) : (front \o after)[j] =
                IF j <= Len(front) THEN front[j] ELSE after[j - Len(front)]
    BY <1>3, <1>5, ConcatProperties
  <1>7. InsertAt(s, i, e) = front \o after
    BY DEF InsertAt, before, after, front
  <1>8. ASSUME NEW j \in 1..(Len(s) + 1)
        PROVE  (front \o after)[j] = IF j < i THEN s[j] ELSE IF j = i THEN e ELSE s[j - 1]
    <2>1. CASE j <= i
      BY <1>1, <1>3, <1>5, <1>6, <2>1
    <2>2. CASE j > i
      <3>1. (front \o after)[j] = after[j - i]
        BY SMTT(30), <1>1, <1>3, <1>5, <1>6, <2>2
      <3>2. j - i \in 1..(Len(s) - i + 1)
        BY <1>1, <2>2
      <3> QED
        BY <1>1, <1>3, <2>2, <3>1, <3>2
    <2>3. j <= i \/ j > i
      BY <1>1
    <2> QED
      BY <2>1, <2>2, <2>3
  <1> QED
    BY <1>1, <1>3, <1>5, <1>6, <1>7, <1>8

-----------------------------------------------------------------------------
(* Two of a list of distinct elements are at one place.                     *)
LEMMA InsertAtKeeps ==
    ASSUME NEW S, NEW s \in Seq(S), NEW i \in 1..(Len(s) + 1), NEW e \in S
    PROVE  /\ InsertAt(s, i, e) \in Seq(S)
           /\ Len(InsertAt(s, i, e)) = Len(s) + 1
           /\ Range(InsertAt(s, i, e)) = Range(s) \cup {e}
           /\ IsInjective(s) /\ e \notin Range(s) => IsInjective(InsertAt(s, i, e))
  <1> DEFINE t == InsertAt(s, i, e)
  <1>1. /\ t \in Seq(S) /\ Len(t) = Len(s) + 1
        /\ \A j \in 1..(Len(s) + 1) :
                t[j] = IF j < i THEN s[j] ELSE IF j = i THEN e ELSE s[j - 1]
    BY InsertAtPlaces
  <1> HIDE DEF t
  <1>2. Len(s) \in Nat /\ DOMAIN s = 1..Len(s) /\ DOMAIN t = 1..(Len(s) + 1)
    BY <1>1
  <1>3. ASSUME NEW x \in Range(t) PROVE x \in Range(s) \cup {e}
    <2>1. PICK j \in 1..(Len(s) + 1) : x = t[j]
      BY <1>2 DEF Range
    <2>2. CASE j < i
      <3>1. x = s[j] /\ j \in 1..Len(s)
        BY <1>1, <1>2, <2>1, <2>2
      <3> QED
        BY <1>2, <3>1 DEF Range
    <2>3. CASE j = i
      BY <1>1, <2>1, <2>3
    <2>4. CASE j > i
      <3>1. x = s[j - 1] /\ j - 1 \in 1..Len(s)
        BY <1>1, <1>2, <2>1, <2>4
      <3> QED
        BY <1>2, <3>1 DEF Range
    <2> QED
      BY <1>2, <2>1, <2>2, <2>3, <2>4
  <1>4. ASSUME NEW x \in Range(s) PROVE x \in Range(t)
    <2>1. PICK j \in 1..Len(s) : x = s[j]
      BY <1>2 DEF Range
    <2>2. CASE j < i
      <3>1. j \in 1..(Len(s) + 1) /\ t[j] = x
        BY <1>1, <1>2, <2>1, <2>2
      <3> QED
        BY <1>2, <3>1 DEF Range
    <2>3. CASE ~ (j < i)
      <3>1. j + 1 \in 1..(Len(s) + 1) /\ t[j + 1] = s[j + 1 - 1]
        BY <1>1, <1>2, <2>1, <2>3
      <3>2. t[j + 1] = x
        BY <2>1, <3>1
      <3> QED
        BY <1>2, <3>1, <3>2 DEF Range
    <2> QED
      BY <2>2, <2>3
  <1>5. e \in Range(t)
    <2>1. i \in 1..(Len(s) + 1) /\ t[i] = e
      BY <1>1, <1>2
    <2> QED
      BY <1>2, <2>1 DEF Range
  <1>6. ASSUME IsInjective(s), e \notin Range(s)
        PROVE  IsInjective(t)
    <2> DEFINE from(j) == IF j < i THEN j ELSE j - 1
    <2>1. \A j \in 1..Len(s) : s[j] # e
      BY <1>2, <1>6 DEF Range
    <2>2. \A j \in 1..(Len(s) + 1) : j # i => from(j) \in 1..Len(s) /\ t[j] = s[from(j)]
      <3> TAKE j \in 1..(Len(s) + 1)
      <3>1. CASE j < i
        BY <1>1, <1>2, <3>1
      <3>2. CASE j > i
        BY <1>1, <1>2, <3>2
      <3> QED
        BY <1>2, <3>1, <3>2
    <2>3. ASSUME NEW a \in 1..(Len(s) + 1), NEW b \in 1..(Len(s) + 1), t[a] = t[b]
          PROVE  a = b
      <3>1. CASE a = i \/ b = i
        <4>1. t[i] = e
          BY <1>1
        <4> QED
          BY <2>1, <2>2, <2>3, <3>1, <4>1
      <3>2. CASE a # i /\ b # i
        <4>1. s[from(a)] = s[from(b)] /\ from(a) \in 1..Len(s) /\ from(b) \in 1..Len(s)
          BY <2>2, <2>3, <3>2
        <4>2. from(a) = from(b)
          BY <1>2, <1>6, <4>1 DEF IsInjective
        <4> QED
          BY <1>2, <3>2, <4>2
      <3> QED
        BY <3>1, <3>2
    <2> QED
      BY <1>2, <2>3 DEF IsInjective
  <1> QED
    BY <1>1, <1>3, <1>4, <1>5, <1>6 DEF t

LEMMA RemoveAtKeeps ==
    ASSUME NEW S, NEW s \in Seq(S), NEW i \in 1..Len(s)
    PROVE  /\ RemoveAt(s, i) \in Seq(S)
           /\ Len(RemoveAt(s, i)) = Len(s) - 1
           /\ Range(RemoveAt(s, i)) \subseteq Range(s)
           /\ Range(s) \subseteq Range(RemoveAt(s, i)) \cup {s[i]}
           /\ IsInjective(s) =>
                IsInjective(RemoveAt(s, i)) /\ s[i] \notin Range(RemoveAt(s, i))
  <1> DEFINE t == RemoveAt(s, i)
             from(j) == IF j < i THEN j ELSE j + 1
  <1>1. /\ t \in Seq(S) /\ Len(t) = Len(s) - 1
        /\ \A j \in 1..(Len(s) - 1) : t[j] = IF j < i THEN s[j] ELSE s[j + 1]
    BY RemoveAtPlaces
  <1> HIDE DEF t
  <1>2. Len(s) \in Nat /\ DOMAIN s = 1..Len(s) /\ DOMAIN t = 1..(Len(s) - 1)
    BY <1>1
  <1>3. \A j \in 1..(Len(s) - 1) :
            from(j) \in 1..Len(s) /\ from(j) # i /\ t[j] = s[from(j)]
    BY <1>1, <1>2
  <1>4. Range(t) \subseteq Range(s)
    BY <1>2, <1>3 DEF Range
  <1>5. ASSUME NEW x \in Range(s) PROVE x \in Range(t) \cup {s[i]}
    <2>1. PICK j \in 1..Len(s) : x = s[j]
      BY <1>2 DEF Range
    <2>2. CASE j < i
      <3>1. j \in 1..(Len(s) - 1) /\ t[j] = x
        BY <1>1, <1>2, <2>1, <2>2
      <3> QED
        BY <1>2, <3>1 DEF Range
    <2>3. CASE j > i
      <3>1. j - 1 \in 1..(Len(s) - 1) /\ t[j - 1] = s[j - 1 + 1]
        BY <1>1, <1>2, <2>1, <2>3
      <3>2. t[j - 1] = x
        BY <2>1, <3>1
      <3> QED
        BY <1>2, <3>1, <3>2 DEF Range
    <2> QED
      BY <1>2, <2>1, <2>2, <2>3
  <1>6. ASSUME IsInjective(s)
        PROVE  IsInjective(t) /\ s[i] \notin Range(t)
    <2>1. \A a, b \in 1..Len(s) : s[a] = s[b] => a = b
      BY <1>2, <1>6 DEF IsInjective
    <2>2. ASSUME NEW a \in 1..(Len(s) - 1), NEW b \in 1..(Len(s) - 1), t[a] = t[b]
          PROVE  a = b
      <3>1. from(a) = from(b)
        BY <1>3, <2>1, <2>2
      <3> QED
        BY <1>2, <3>1
    <2>3. \A a \in 1..(Len(s) - 1) : t[a] # s[i]
      BY <1>3, <2>1
    <2> QED
      BY <1>2, <2>2, <2>3 DEF IsInjective, Range
  <1> QED
    BY <1>1, <1>4, <1>5, <1>6 DEF t

(* What the library folds with, a function of the sets of places, takes step *)
(* G wherever that has been in Q.                                           *)
TakesSteps(n, Q, base, G, it) ==
    /\ it[{}] = base
    /\ \A s \in SUBSET (1..n) : s # {} /\ it[s \ {Max(s)}] \in Q =>
            it[s] = G[<<Max(s), it[s \ {Max(s)}]>>]

(* So a fold over a sequence goes through its first places one by one.      *)
FoldGoes(n, Q, base, G, it) ==
    /\ it[1..0] = base
    /\ \A k \in 0..n : it[1..k] \in Q
    /\ \A k \in 0..(n - 1) : it[1..(k + 1)] = G[<<k + 1, it[1..k]>>]

LEMMA FoldSteps ==
    ASSUME NEW n \in Nat, NEW Q, NEW base \in Q, NEW G \in [(1..n) \X Q -> Q],
           NEW it, TakesSteps(n, Q, base, G, it)
    PROVE  FoldGoes(n, Q, base, G, it)
  <1> DEFINE S == {k \in Nat : k <= n => it[1..k] \in Q}
  <1>1. it[1..0] = base
    BY 1..0 = {} DEF TakesSteps
  <1>2. ASSUME NEW k \in Nat, k + 1 <= n, it[1..k] \in Q
        PROVE  it[1..(k + 1)] = G[<<k + 1, it[1..k]>>] /\ it[1..(k + 1)] \in Q
    <2>1. 1..(k + 1) \in SUBSET (1..n) /\ k + 1 \in 1..(k + 1) /\ k + 1 \in 1..n
      <3>1. \A i \in 1..(k + 1) : i \in 1..n
        BY <1>2
      <3>2. k + 1 \in 1..(k + 1) /\ k + 1 \in 1..n
        BY <1>2
      <3> QED
        BY <3>1, <3>2
    <2>2. Max(1..(k + 1)) = k + 1
      <3>1. /\ Max(1..(k + 1)) \in 1..(k + 1)
            /\ \A i \in 1..(k + 1) : i <= Max(1..(k + 1))
        BY <2>1, MaxOfSome
      <3>2. k + 1 <= Max(1..(k + 1))
        BY <2>1, <3>1
      <3> QED
        BY <3>1, <3>2
    <2>3. (1..(k + 1)) \ {k + 1} = 1..k
      OBVIOUS
    <2>4. it[1..(k + 1)] = G[<<k + 1, it[1..k]>>]
      BY <1>2, <2>1, <2>2, <2>3 DEF TakesSteps
    <2>5. <<k + 1, it[1..k]>> \in (1..n) \X Q
      BY <1>2, <2>1
    <2> QED
      BY <2>4, <2>5
  <1>3. Nat \subseteq S
    <2>1. 0 \in S
      BY <1>1
    <2>2. ASSUME NEW k \in Nat, k \in S PROVE k + 1 \in S
      <3> SUFFICES ASSUME k + 1 <= n PROVE it[1..(k + 1)] \in Q
        OBVIOUS
      <3>1. it[1..k] \in Q
        BY <2>2
      <3> QED
        BY <1>2, <3>1
    <2> HIDE DEF S
    <2> QED
      BY <2>1, <2>2, Induct
  <1>4. \A k \in 0..n : it[1..k] \in Q
    BY <1>3
  <1>5. ASSUME NEW k \in 0..(n - 1) PROVE it[1..(k + 1)] = G[<<k + 1, it[1..k]>>]
    <2>1. k \in Nat /\ k + 1 <= n /\ k \in 0..n
      OBVIOUS
    <2>2. it[1..k] \in Q
      BY <1>4, <2>1
    <2> QED
      BY <1>2, <2>1, <2>2
  <1> HIDE DEF S
  <1> QED
    BY <1>1, <1>4, <1>5, Zenon DEF FoldGoes

LEMMA AppendIsInsert ==
    ASSUME NEW S, NEW s \in Seq(S), NEW e \in S
    PROVE  Append(s, e) = InsertAt(s, Len(s) + 1, e)
  <1> DEFINE t == InsertAt(s, Len(s) + 1, e)
             a == Append(s, e)
  <1>1. Len(s) \in Nat /\ Len(s) + 1 \in 1..(Len(s) + 1)
    OBVIOUS
  <1>2. /\ t \in Seq(S) /\ Len(t) = Len(s) + 1
        /\ \A j \in 1..(Len(s) + 1) :
                t[j] = IF j < Len(s) + 1 THEN s[j] ELSE IF j = Len(s) + 1 THEN e ELSE s[j - 1]
    <2>1. \A p \in 1..(Len(s) + 1) :
             LET u == InsertAt(s, p, e)
             IN  /\ u \in Seq(S) /\ Len(u) = Len(s) + 1
                 /\ \A j \in 1..(Len(s) + 1) :
                         u[j] = IF j < p THEN s[j] ELSE IF j = p THEN e ELSE s[j - 1]
      BY InsertAtPlaces
    <2> QED
      BY <1>1, <2>1
  <1> HIDE DEF t
  <1>3. a \in Seq(S) /\ Len(a) = Len(s) + 1
    OBVIOUS
  <1>4. \A j \in 1..(Len(s) + 1) : t[j] = a[j]
    BY <1>1, <1>2
  <1> HIDE DEF a
  <1>5. a = t
    BY <1>1, <1>2, <1>3, <1>4
  <1> QED
    BY <1>5 DEF a, t

(* How many of the first places are in a set.                               *)
LEMMA CountsGrow ==
    ASSUME NEW S, NEW i \in Nat, NEW j \in Nat, i <= j
    PROVE  /\ Cardinality({k \in 1..i : k \in S}) \in Nat
           /\ Cardinality({k \in 1..i : k \in S}) <= Cardinality({k \in 1..j : k \in S})
           /\ i < j /\ j \in S =>
                Cardinality({k \in 1..i : k \in S}) < Cardinality({k \in 1..j : k \in S})
  <1> DEFINE few == {k \in 1..i : k \in S}
             more == {k \in 1..j : k \in S}
  <1>1. IsFiniteSet(1..j)
    BY FS_Interval
  <1>2. more \in SUBSET (1..j) /\ few \in SUBSET more
    OBVIOUS
  <1>4. i < j /\ j \in S => more # few
    <2> SUFFICES ASSUME i < j, j \in S PROVE more # few
      OBVIOUS
    <2>1. j \in more /\ j \notin few
      OBVIOUS
    <2> QED
      BY <2>1
  <1> HIDE DEF few, more
  <1>3. IsFiniteSet(more)
    BY <1>1, <1>2, FS_Subset
  <1>5. /\ IsFiniteSet(few) /\ Cardinality(few) <= Cardinality(more)
        /\ Cardinality(more) = Cardinality(few) => more = few
    BY <1>2, <1>3, FS_Subset
  <1>6. Cardinality(few) \in Nat /\ Cardinality(more) \in Nat
    BY <1>3, <1>5, FS_CardinalityType
  <1>7. i < j /\ j \in S => Cardinality(few) < Cardinality(more)
    BY <1>4, <1>5, <1>6
  <1> QED
    BY <1>5, <1>6, <1>7 DEF few, more

-----------------------------------------------------------------------------
(***************************************************************************)
(* What of a list is in a set.                                             *)
(***************************************************************************)

(* One step of Only: what it has of the first i, from what it has before.   *)
Kept(list, S, before, i) ==
    IF i = 0 THEN <<>>
    ELSE IF list[i] \in S THEN Append(before[i - 1], list[i])
    ELSE before[i - 1]

(* A recursive function is defined by choice: there is one.                 *)
LEMMA OnlyExists ==
    ASSUME NEW T, NEW list \in Seq(T), NEW S
    PROVE  \E f : f = [i \in 0..Len(list) |-> Kept(list, S, f, i)]
  <1> DEFINE Good(k) == \E f \in [0..k -> Seq(T)] :
                            \A i \in 0..k : f[i] = Kept(list, S, f, i)
             All == {k \in Nat : k <= Len(list) => Good(k)}
  <1>1. Len(list) \in Nat /\ \A i \in 1..Len(list) : list[i] \in T
    OBVIOUS
  <1>2. Good(0)
    <2> DEFINE f == [i \in 0..0 |-> <<>>]
    <2>1. f \in [0..0 -> Seq(T)] /\ \A i \in 0..0 : f[i] = Kept(list, S, f, i)
      BY DEF Kept
    <2> QED
      BY <2>1
  <1>3. ASSUME NEW k \in Nat, k + 1 <= Len(list), Good(k)
        PROVE  Good(k + 1)
    <2>1. PICK f \in [0..k -> Seq(T)] : \A i \in 0..k : f[i] = Kept(list, S, f, i)
      BY <1>3
    <2> DEFINE g == [i \in 0..(k + 1) |->
                        IF i = k + 1 THEN Kept(list, S, f, k + 1) ELSE f[i]]
    <2>2. f[k] \in Seq(T) /\ list[k + 1] \in T
      BY <1>1, <1>3
    <2>3. Kept(list, S, f, k + 1) \in Seq(T)
      <3>1. Kept(list, S, f, k + 1) = IF list[k + 1] \in S THEN Append(f[k], list[k + 1])
                                      ELSE f[k]
        BY DEF Kept
      <3>2. Append(f[k], list[k + 1]) \in Seq(T)
        BY <2>2
      <3> QED
        BY <2>2, <3>1, <3>2
    <2>4. g \in [0..(k + 1) -> Seq(T)]
      BY <2>3
    <2>5. \A i \in 0..k : g[i] = f[i]
      OBVIOUS
    <2>6. \A i \in 0..(k + 1) : g[i] = Kept(list, S, g, i)
      <3> TAKE i \in 0..(k + 1)
      <3>1. i # 0 => g[i - 1] = f[i - 1]
        BY <2>5
      <3>2. Kept(list, S, g, i) = Kept(list, S, f, i)
        BY <3>1 DEF Kept
      <3>3. CASE i = k + 1
        BY <3>2, <3>3
      <3>4. CASE i # k + 1
        BY <2>1, <2>5, <3>2, <3>4
      <3> QED
        BY <3>3, <3>4
    <2> QED
      BY <2>4, <2>6
  <1> HIDE DEF Good
  <1>4. 0 \in All
    BY <1>2
  <1>5. \A k \in Nat : k \in All => k + 1 \in All
    BY <1>1, <1>3
  <1>6. Good(Len(list))
    <2>1. Len(list) \in All
      <3> HIDE DEF All
      <3> QED
        BY <1>1, <1>4, <1>5, Induct
    <2> QED
      BY <1>1, <2>1
  <1>7. PICK f \in [0..Len(list) -> Seq(T)] :
            \A i \in 0..Len(list) : f[i] = Kept(list, S, f, i)
    BY <1>6 DEF Good
  <1>8. f = [i \in 0..Len(list) |-> Kept(list, S, f, i)]
    BY <1>7
  <1> QED
    BY <1>8

LEMMA OnlySteps ==
    ASSUME NEW T, NEW list \in Seq(T), NEW S
    PROVE  \E f : /\ Only(list, S) = f[Len(list)]
                  /\ \A i \in 0..Len(list) : f[i] = Kept(list, S, f, i)
  <1> DEFINE f == CHOOSE g : g = [i \in 0..Len(list) |-> Kept(list, S, g, i)]
  <1>1. f = [i \in 0..Len(list) |-> Kept(list, S, f, i)]
    BY OnlyExists
  <1>2. Only(list, S) = f[Len(list)]
    BY DEF Only, Kept
  <1> HIDE DEF f
  <1>3. \A i \in 0..Len(list) : f[i] = Kept(list, S, f, i)
    BY <1>1
  <1> QED
    BY <1>2, <1>3

(* The places at lists those of some elements of list, in their order.      *)
Enumerates(at, kept, list, S, upTo) ==
    /\ at \in [1..Len(kept) -> 1..upTo]
    /\ \A i, j \in 1..Len(kept) : i < j => at[i] < at[j]
    /\ \A i \in 1..Len(kept) : kept[i] = list[at[i]] /\ list[at[i]] \in S
    /\ \A k \in 1..upTo : list[k] \in S => \E i \in 1..Len(kept) : at[i] = k

LEMMA OnlyPlaces ==
    ASSUME NEW T, NEW list \in Seq(T), NEW S
    PROVE  /\ Only(list, S) \in Seq(T)
           /\ \E at : Enumerates(at, Only(list, S), list, S, Len(list))
  <1>1. PICK f : /\ Only(list, S) = f[Len(list)]
                 /\ \A i \in 0..Len(list) : f[i] = Kept(list, S, f, i)
    BY OnlySteps
  <1> DEFINE Good(k) == f[k] \in Seq(T) /\ \E at : Enumerates(at, f[k], list, S, k)
             All == {k \in Nat : k <= Len(list) => Good(k)}
  <1>2. Len(list) \in Nat /\ \A i \in 1..Len(list) : list[i] \in T
    OBVIOUS
  <1>3. Good(0)
    <2>1. f[0] = <<>>
      BY <1>1, <1>2 DEF Kept
    <2>2. Enumerates(<<>>, f[0], list, S, 0)
      BY <2>1 DEF Enumerates
    <2> QED
      BY <2>1, <2>2
  <1>4. ASSUME NEW k \in Nat, k + 1 <= Len(list), Good(k)
        PROVE  Good(k + 1)
    <2>1. f[k] \in Seq(T) /\ list[k + 1] \in T /\ k + 1 \in 0..Len(list)
      BY <1>2, <1>4
    <2>2. PICK at : Enumerates(at, f[k], list, S, k)
      BY <1>4
    <2>3. f[k + 1] = IF list[k + 1] \in S THEN Append(f[k], list[k + 1]) ELSE f[k]
      BY <1>1, <2>1 DEF Kept
    <2>4. CASE list[k + 1] \notin S
      <3>1. f[k + 1] = f[k]
        BY <2>3, <2>4
      <3>2. at \in [1..Len(f[k]) -> 1..(k + 1)]
        BY <2>2 DEF Enumerates
      <3>3. \A j \in 1..(k + 1) : list[j] \in S => \E i \in 1..Len(f[k]) : at[i] = j
        BY <2>2, <2>4 DEF Enumerates
      <3>4. Enumerates(at, f[k], list, S, k + 1)
        BY <2>2, <3>2, <3>3 DEF Enumerates
      <3> QED
        BY <2>1, <3>1, <3>4
    <2>5. CASE list[k + 1] \in S
      <3> DEFINE n == Len(f[k])
                 more == [i \in 1..(n + 1) |-> IF i = n + 1 THEN k + 1 ELSE at[i]]
      <3>1. f[k + 1] = Append(f[k], list[k + 1]) /\ n \in Nat
        BY <2>1, <2>3, <2>5
      <3>2. /\ f[k + 1] \in Seq(T) /\ Len(f[k + 1]) = n + 1
            /\ \A i \in 1..n : f[k + 1][i] = f[k][i]
            /\ f[k + 1][n + 1] = list[k + 1]
        BY <2>1, <3>1
      <3>3. at \in [1..n -> 1..k]
        BY <2>2 DEF Enumerates
      <3>4. /\ more \in [1..(n + 1) -> 1..(k + 1)]
            /\ more[n + 1] = k + 1 /\ \A i \in 1..n : more[i] = at[i]
        BY <3>1, <3>3
      <3> HIDE DEF more
      <3>5. \A i, j \in 1..(n + 1) : i < j => more[i] < more[j]
        <4> TAKE i, j \in 1..(n + 1)
        <4> HAVE i < j
        <4>1. i \in 1..n
          BY <3>1
        <4>2. more[i] = at[i] /\ at[i] \in 1..k
          BY <3>3, <3>4, <4>1
        <4>3. CASE j = n + 1
          BY <3>4, <4>2, <4>3
        <4>4. CASE j \in 1..n
          BY <2>2, <3>4, <4>1, <4>2, <4>4 DEF Enumerates
        <4> QED
          BY <3>1, <4>3, <4>4
      <3>6. \A i \in 1..(n + 1) : f[k + 1][i] = list[more[i]] /\ list[more[i]] \in S
        <4> TAKE i \in 1..(n + 1)
        <4>1. CASE i = n + 1
          BY <2>5, <3>2, <3>4, <4>1
        <4>2. CASE i \in 1..n
          BY <2>2, <3>2, <3>4, <4>2 DEF Enumerates
        <4> QED
          BY <3>1, <4>1, <4>2
      <3>7. \A j \in 1..(k + 1) : list[j] \in S => \E i \in 1..(n + 1) : more[i] = j
        <4> TAKE j \in 1..(k + 1)
        <4> HAVE list[j] \in S
        <4>1. CASE j = k + 1
          BY <3>1, <3>4, <4>1, n + 1 \in 1..(n + 1)
        <4>2. CASE j \in 1..k
          <5>1. PICK i \in 1..n : at[i] = j
            BY <2>2, <4>2 DEF Enumerates
          <5>2. i \in 1..(n + 1) /\ more[i] = j
            BY <3>1, <3>4, <5>1
          <5> QED
            BY <5>2
        <4> QED
          BY <4>1, <4>2
      <3>8. Enumerates(more, f[k + 1], list, S, k + 1)
        BY <3>2, <3>4, <3>5, <3>6, <3>7 DEF Enumerates
      <3> QED
        BY <3>2, <3>8
    <2> QED
      BY <2>4, <2>5
  <1> HIDE DEF Good
  <1>5. 0 \in All
    BY <1>3
  <1>6. \A k \in Nat : k \in All => k + 1 \in All
    BY <1>2, <1>4
  <1>7. Len(list) \in All
    <2> HIDE DEF All
    <2> QED
      BY <1>2, <1>5, <1>6, Induct
  <1>8. Good(Len(list))
    BY <1>2, <1>7
  <1> QED
    BY <1>1, <1>8 DEF Good

(* What Only keeps: the elements of S, each as often, in the list's order.  *)
LEMMA OnlyKeeps ==
    ASSUME NEW T, NEW list \in Seq(T), NEW S
    PROVE  /\ Only(list, S) \in Seq(T)
           /\ Range(Only(list, S)) = Range(list) \cap S
           /\ Len(Only(list, S)) <= Len(list)
           /\ (\A i, j \in DOMAIN list : list[i] \in S /\ list[i] = list[j] => i = j)
                => IsInjective(Only(list, S))
           /\ IsInjective(list) => IsInjective(Only(list, S))
  <1> DEFINE kept == Only(list, S)
  <1>1. kept \in Seq(T)
    BY OnlyPlaces
  <1>2. PICK at : Enumerates(at, kept, list, S, Len(list))
    BY OnlyPlaces
  <1> HIDE DEF kept
  <1>3. Len(kept) \in Nat /\ Len(list) \in Nat
    BY <1>1
  <1>4. DOMAIN kept = 1..Len(kept) /\ DOMAIN list = 1..Len(list)
    BY <1>1
  <1>5. Range(kept) = Range(list) \cap S
    BY SMTT(30), <1>2, <1>4 DEF Enumerates, Range
  <1>6. ASSUME NEW i \in 1..Len(kept), NEW j \in 1..Len(kept), at[i] = at[j]
        PROVE  i = j
    <2>1. at[i] \in Int /\ at[j] \in Int
      BY <1>2 DEF Enumerates
    <2> QED
      BY <1>2, <1>3, <1>6, <2>1 DEF Enumerates
  <1>7. ASSUME \A i, j \in DOMAIN list : list[i] \in S /\ list[i] = list[j] => i = j
        PROVE  IsInjective(kept)
    BY <1>2, <1>4, <1>6, <1>7 DEF IsInjective, Enumerates
  <1>9. IsInjective(list) => IsInjective(kept)
    BY <1>7 DEF IsInjective
  <1>8. Len(kept) <= Len(list)
    <2> DEFINE All == {n \in Nat : n <= Len(kept) => n <= Len(list) /\ (n > 0 => at[n] >= n)}
    <2>1. 0 \in All
      BY <1>3
    <2>2. ASSUME NEW n \in Nat, n \in All PROVE n + 1 \in All
      <3> SUFFICES ASSUME n + 1 <= Len(kept)
                   PROVE  n + 1 <= Len(list) /\ at[n + 1] >= n + 1
        OBVIOUS
      <3>1. n + 1 \in 1..Len(kept) /\ at[n + 1] \in 1..Len(list)
        BY SMTT(30), <1>2, <1>3 DEF Enumerates
      <3>2. CASE n = 0
        BY <1>3, <3>1, <3>2
      <3>3. CASE n > 0
        <4>1. n \in 1..Len(kept) /\ at[n] \in 1..Len(list) /\ at[n] >= n
          BY <1>2, <1>3, <2>2, <3>3 DEF Enumerates
        <4>2. at[n] < at[n + 1]
          BY <1>2, <3>1, <4>1 DEF Enumerates
        <4> QED
          BY <1>3, <3>1, <4>1, <4>2
      <3> QED
        BY <3>2, <3>3
    <2>3. Nat \subseteq All
      <3> HIDE DEF All
      <3> QED
        BY <2>1, <2>2, Induct
    <2>4. Len(kept) \in All
      BY <1>3, <2>3
    <2> QED
      BY <1>3, <2>4
  <1> QED
    BY <1>1, <1>5, <1>7, <1>8, <1>9 DEF kept

-----------------------------------------------------------------------------
(***************************************************************************)
(* Weaving: of two lists of distinct keys the wanted ones, each once.       *)
(***************************************************************************)

(* One step of Weave.                                                       *)
Woven(wanted, acc, k) ==
    CASE k \notin wanted -> acc
      [] k \in wanted /\ Contains(acc.result, k) ->
            [acc EXCEPT !.cursor = Larger(@, SelectInSeq(acc.result, LAMBDA r : r = k))]
      [] OTHER ->
            [result |-> InsertAt(acc.result, acc.cursor + 1, k), cursor |-> acc.cursor + 1]

(* What a weave goes through: some of the wanted keys, each once, and a     *)
(* cursor on one of them or before them all.                                *)
Weaving(T, wanted) ==
    {acc \in [result : Seq(T), cursor : Nat] :
        /\ IsInjective(acc.result)
        /\ acc.cursor <= Len(acc.result)
        /\ Range(acc.result) \subseteq wanted}

LEMMA WovenKeeps ==
    ASSUME NEW T, NEW wanted, NEW acc \in Weaving(T, wanted), NEW k \in T
    PROVE  /\ Woven(wanted, acc, k) \in Weaving(T, wanted)
           /\ Range(Woven(wanted, acc, k).result) =
                Range(acc.result) \cup ({k} \cap wanted)
  <1>1. /\ acc \in [result : Seq(T), cursor : Nat] /\ IsInjective(acc.result)
        /\ acc.cursor <= Len(acc.result) /\ Range(acc.result) \subseteq wanted
    BY DEF Weaving
  <1>2. /\ acc.result \in Seq(T) /\ Len(acc.result) \in Nat /\ acc.cursor \in Nat
        /\ DOMAIN acc.result = 1..Len(acc.result)
    BY <1>1
  <1>3. Contains(acc.result, k) <=> k \in Range(acc.result)
    BY <1>2 DEF Contains, Range
  <1>4. CASE k \notin wanted
    <2>1. Woven(wanted, acc, k) = acc
      BY <1>4 DEF Woven
    <2> QED
      BY <1>4, <2>1
  <1>5. CASE k \in wanted /\ Contains(acc.result, k)
    <2> DEFINE s == {i \in 1..Len(acc.result) : acc.result[i] = k}
               place == SelectInSeq(acc.result, LAMBDA r : r = k)
    <2>1. s # {} /\ s \in SUBSET (1..Len(acc.result))
      BY <1>5 DEF Contains
    <2>2. place = Min(s)
      BY <2>1 DEF SelectInSeq
    <2> HIDE DEF place
    <2>3. place \in 1..Len(acc.result)
      <3>1. Min(s) \in s
        BY <1>2, <2>1, MinOfSome
      <3> QED
        BY <2>2, <3>1
    <2>4. Larger(acc.cursor, place) \in Nat /\ Larger(acc.cursor, place) <= Len(acc.result)
      BY <1>1, <1>2, <2>3 DEF Larger
    <2>5. Woven(wanted, acc, k) = [acc EXCEPT !.cursor = Larger(acc.cursor, place)]
      BY <1>5 DEF Woven, place
    <2>6. /\ Woven(wanted, acc, k) \in [result : Seq(T), cursor : Nat]
          /\ Woven(wanted, acc, k).result = acc.result
          /\ Woven(wanted, acc, k).cursor = Larger(acc.cursor, place)
      BY <1>1, <2>4, <2>5
    <2>7. k \in Range(acc.result)
      BY <1>3, <1>5
    <2> QED
      BY <1>1, <2>4, <2>6, <2>7 DEF Weaving
  <1>6. CASE k \in wanted /\ ~Contains(acc.result, k)
    <2> DEFINE more == InsertAt(acc.result, acc.cursor + 1, k)
    <2>1. Woven(wanted, acc, k) = [result |-> more, cursor |-> acc.cursor + 1]
      BY <1>6 DEF Woven
    <2>2. acc.cursor + 1 \in 1..(Len(acc.result) + 1)
      BY <1>1, <1>2
    <2>3. /\ more \in Seq(T) /\ Len(more) = Len(acc.result) + 1
          /\ Range(more) = Range(acc.result) \cup {k}
          /\ IsInjective(more)
      BY <1>1, <1>2, <1>3, <1>6, <2>2, InsertAtKeeps
    <2> HIDE DEF more
    <2>4. acc.cursor + 1 \in Nat /\ acc.cursor + 1 <= Len(more)
      BY <1>1, <1>2, <2>3
    <2>5. Range(more) \subseteq wanted
      BY <1>1, <1>6, <2>3
    <2> QED
      BY <1>6, <2>1, <2>3, <2>4, <2>5 DEF Weaving
  <1> QED
    BY <1>4, <1>5, <1>6

LEMMA WeaveKeeps ==
    ASSUME NEW T, NEW primary \in Seq(T), NEW secondary \in Seq(T), NEW wanted,
           IsInjective(primary)
    PROVE  /\ Weave(primary, secondary, wanted) \in Seq(T)
           /\ IsInjective(Weave(primary, secondary, wanted))
           /\ Range(Weave(primary, secondary, wanted)) =
                wanted \cap (Range(primary) \cup Range(secondary))
  <1> DEFINE n == Len(secondary)
             Q == Weaving(T, wanted)
             base == [result |-> Only(primary, wanted), cursor |-> 0]
             Weaves(it) == it = [s \in SUBSET (1..n) |->
                                    IF s = {} THEN base
                                    ELSE Woven(wanted, it[s \ {Max(s)}], secondary[Max(s)])]
             it == CHOOSE it : Weaves(it)
             G == [step \in (1..n) \X Q |-> Woven(wanted, step[2], secondary[step[1]])]
  <1>1. n \in Nat /\ DOMAIN secondary = 1..n /\ \A i \in 1..n : secondary[i] \in T
    BY LenProperties
  <1>2. Weave(primary, secondary, wanted) = it[1..n].result
    BY <1>1 DEF Weave, Woven, FoldLeft, MapThenFoldSet
  <1>3. base \in Q
    <2>1. /\ Only(primary, wanted) \in Seq(T) /\ IsInjective(Only(primary, wanted))
          /\ Range(Only(primary, wanted)) \subseteq wanted
      BY OnlyKeeps
    <2>2. 0 <= Len(Only(primary, wanted))
      BY <2>1
    <2> QED
      BY <2>1, <2>2 DEF Weaving
  <1>4. G \in [(1..n) \X Q -> Q]
    BY <1>1, WovenKeeps
  <1> HIDE DEF base, Q
  <1>5. PICK g \in [SUBSET (1..n) -> Q] : IsFold(n, base, G, g)
    BY <1>1, <1>3, <1>4, FoldExists
  <1>6. \A s \in SUBSET (1..n) : s # {} => Max(s) \in s
    BY <1>1, MaxOfSome
  <1>7. Weaves(g)
    <2>1. \A s \in SUBSET (1..n) :
                g[s] = IF s = {} THEN base
                       ELSE Woven(wanted, g[s \ {Max(s)}], secondary[Max(s)])
      BY <1>5, <1>6 DEF IsFold
    <2> QED
      BY <2>1
  <1>8. Weaves(it)
    BY <1>7
  <1> HIDE DEF it
  <1>9. TakesSteps(n, Q, base, G, it)
    BY <1>6, <1>8 DEF TakesSteps
  <1>10. /\ it[1..0] = base
         /\ \A k \in 0..n : it[1..k] \in Q
         /\ \A k \in 0..(n - 1) : it[1..(k + 1)] = G[<<k + 1, it[1..k]>>]
    <2> HIDE DEF G, n
    <2>1. n \in Nat
      BY <1>1
    <2>2. FoldGoes(n, Q, base, G, it)
      BY <2>1, <1>3, <1>4, <1>9, FoldSteps
    <2> QED
      BY <2>2 DEF FoldGoes
  <1> DEFINE All == {k \in Nat : k <= n =>
                        Range(it[1..k].result) =
                            wanted \cap (Range(primary) \cup {secondary[j] : j \in 1..k})}
  <1>11. 0 \in All
    <2>1. Range(it[1..0].result) = Range(primary) \cap wanted
      BY <1>10, OnlyKeeps DEF base
    <2>2. {secondary[j] : j \in 1..0} = {}
      OBVIOUS
    <2> QED
      BY <2>1, <2>2
  <1>12. ASSUME NEW k \in Nat, k \in All PROVE k + 1 \in All
    <2> SUFFICES ASSUME k + 1 <= n
                 PROVE  Range(it[1..(k + 1)].result) =
                            wanted \cap (Range(primary) \cup {secondary[j] : j \in 1..(k + 1)})
      OBVIOUS
    <2>1. k \in 0..(n - 1) /\ k \in 0..n /\ k + 1 \in 1..n /\ k <= n
      BY <1>1
    <2>2. it[1..k] \in Q /\ secondary[k + 1] \in T
      BY <1>1, <1>10, <2>1
    <2>3. it[1..(k + 1)] = Woven(wanted, it[1..k], secondary[k + 1])
      BY <1>10, <2>1, <2>2
    <2>4. Range(it[1..(k + 1)].result) =
                Range(it[1..k].result) \cup ({secondary[k + 1]} \cap wanted)
      <3> DEFINE acc == it[1..k]
                 key == secondary[k + 1]
      <3>1. acc \in Weaving(T, wanted) /\ key \in T
        BY <2>2 DEF Q
      <3>2. it[1..(k + 1)] = Woven(wanted, acc, key)
        BY <2>3
      <3> HIDE DEF acc, key
      <3>3. Range(Woven(wanted, acc, key).result) = Range(acc.result) \cup ({key} \cap wanted)
        BY <3>1, WovenKeeps
      <3> QED
        BY <3>2, <3>3 DEF acc, key
    <2>5. {secondary[j] : j \in 1..(k + 1)} =
                {secondary[j] : j \in 1..k} \cup {secondary[k + 1]}
      <3>1. \A j \in 1..(k + 1) : j \in 1..k \/ j = k + 1
        OBVIOUS
      <3>2. \A j \in 1..k : j \in 1..(k + 1)
        OBVIOUS
      <3>3. k + 1 \in 1..(k + 1)
        OBVIOUS
      <3> QED
        BY <3>1, <3>2, <3>3
    <2>6. Range(it[1..k].result) =
                wanted \cap (Range(primary) \cup {secondary[j] : j \in 1..k})
      BY <1>12, <2>1
    <2> QED
      BY <2>4, <2>5, <2>6
  <1>13. n \in All
    <2> HIDE DEF All
    <2> QED
      BY <1>1, <1>11, <1>12, Induct
  <1>14. Range(it[1..n].result) = wanted \cap (Range(primary) \cup Range(secondary))
    <2>1. Range(secondary) = {secondary[j] : j \in 1..n}
      BY <1>1 DEF Range
    <2> QED
      BY <1>1, <1>13, <2>1
  <1>15. it[1..n] \in Q
    BY <1>1, <1>10
  <1>16. it[1..n].result \in Seq(T) /\ IsInjective(it[1..n].result)
    BY <1>15 DEF Q, Weaving
  <1> QED
    BY <1>2, <1>14, <1>16

-----------------------------------------------------------------------------
(***************************************************************************)
(* Merging.  An order is a list of entries of which no two have one id or  *)
(* hold one item, but for new entries and for those awaiting an item.       *)
(***************************************************************************)
OrdersOf(V) == Seq([id : Nat, video : V, item : Nat])

Distinct(list) ==
    \A i, j \in DOMAIN list :
        /\ list[i].id = list[j].id /\ list[i].id # NewEntry => i = j
        /\ list[i].item = list[j].item /\ list[i].item # NoItem => i = j

(* Items as YouTube gives them: no two of a playlist have one id.           *)
ItemsOf(V) ==
    {list \in Seq([id : Nat \ {0}, video : V]) :
        \A i, j \in DOMAIN list : list[i].id = list[j].id => i = j}

(* What the item an unanswered insert made may be given to.                  *)
Fresh(base, read, entries) == IdsOf(read) \ (IdsOf(base) \cup HeldBy(entries))

Awaits(entries, i, unanswered) ==
    entries[i].id = unanswered.entry /\ entries[i].item = NoItem

LEMMA ItemTyped ==
    ASSUME NEW V, NEW list \in ItemsOf(V), NEW i \in DOMAIN list
    PROVE  list[i].id \in Nat \ {0} /\ list[i].video \in V
  <1> DEFINE T == [id : Nat \ {0}, video : V]
  <1>1. list \in Seq(T)
    BY DEF ItemsOf
  <1> HIDE DEF T
  <1>2. list[i] \in T
    BY <1>1
  <1> QED
    BY <1>2 DEF T

LEMMA EntryTyped ==
    ASSUME NEW V, NEW list \in OrdersOf(V), NEW i \in DOMAIN list
    PROVE  list[i] \in [id : Nat, video : V, item : Nat]
  <1> DEFINE T == [id : Nat, video : V, item : Nat]
  <1>1. list \in Seq(T)
    BY DEF OrdersOf
  <1> HIDE DEF T
  <1>2. list[i] \in T
    BY <1>1
  <1> QED
    BY <1>2 DEF T

LEMMA LandedKeeps ==
    ASSUME NEW V, NEW base, NEW read \in ItemsOf(V), NEW entries \in OrdersOf(V),
           NEW unanswered, Distinct(entries)
    PROVE  LET settled == LandedInsert(base, read, entries, unanswered)
           IN  /\ settled.entries \in OrdersOf(V)
               /\ Distinct(settled.entries)
               /\ DOMAIN settled.entries = DOMAIN entries
               /\ \A i \in DOMAIN entries :
                    /\ settled.entries[i].id = entries[i].id
                    /\ settled.entries[i].video = entries[i].video
                    /\ \/ settled.entries[i].item = entries[i].item
                       \/ /\ Awaits(entries, i, unanswered)
                          /\ settled.entries[i].item \in Fresh(base, read, entries)
               /\ \/ settled.madeHere = NoItem
                  \/ /\ settled.madeHere \in Fresh(base, read, entries)
                     /\ unanswered.kind \in {"insert", "append"}
                     /\ \A i \in DOMAIN entries : ~Awaits(entries, i, unanswered)
  <1> DEFINE landed == Landed(base, read, entries, unanswered)
             made == read[Min(landed)].id
             waiting == {i \in DOMAIN entries : Awaits(entries, i, unanswered)}
             settled == LandedInsert(base, read, entries, unanswered)
  <1>1. /\ DOMAIN entries = 1..Len(entries) /\ Len(entries) \in Nat
        /\ DOMAIN read = 1..Len(read) /\ Len(read) \in Nat
    BY DEF OrdersOf, ItemsOf
  <1>2. settled = IF landed = {} THEN [entries |-> entries, madeHere |-> NoItem]
                  ELSE IF waiting = {} THEN [entries |-> entries, madeHere |-> made]
                  ELSE [entries |-> [entries EXCEPT ![Min(waiting)].item = made],
                        madeHere |-> NoItem]
    BY DEF LandedInsert, Awaits
  <1>3. ASSUME landed # {}
        PROVE  /\ made \in Fresh(base, read, entries) /\ made \in Nat \ {0}
               /\ unanswered.kind \in {"insert", "append"}
    <2>1. landed \in SUBSET (1..Len(read))
      BY <1>1 DEF Landed
    <2>2. Min(landed) \in landed
      BY <1>1, <1>3, <2>1, MinOfSome
    <2>3. made \in IdsOf(read) /\ made \notin IdsOf(base) \cup HeldBy(entries)
      BY <2>2 DEF Landed, IdsOf
    <2>4. made \in Nat \ {0}
      BY <1>1, <2>1, <2>2, ItemTyped
    <2> QED
      BY <2>2, <2>3, <2>4 DEF Landed, Fresh
  <1> HIDE DEF settled, landed, made
  <1>4. CASE landed = {}
    BY <1>2, <1>4 DEF settled
  <1>5. CASE landed # {} /\ waiting = {}
    BY <1>2, <1>3, <1>5 DEF settled
  <1>6. CASE landed # {} /\ waiting # {}
    <2> DEFINE w == Min(waiting)
               more == [entries EXCEPT ![w].item = made]
    <2>1. w \in waiting
      BY <1>1, <1>6, MinOfSome
    <2> HIDE DEF w
    <2>2. w \in DOMAIN entries /\ Awaits(entries, w, unanswered)
      BY <2>1
    <2>3. entries \in Seq([id : Nat, video : V, item : Nat])
      BY DEF OrdersOf
    <2>4. made \in Nat \ {0} /\ made \in Fresh(base, read, entries)
      BY <1>3, <1>6
    <2>5. entries[w] \in [id : Nat, video : V, item : Nat]
      BY <2>2, EntryTyped
    <2>6. more = [entries EXCEPT ![w] = [entries[w] EXCEPT !.item = made]]
      OBVIOUS
    <2>7. [entries[w] EXCEPT !.item = made] \in [id : Nat, video : V, item : Nat]
      BY <2>4, <2>5
    <2>8. more \in Seq([id : Nat, video : V, item : Nat])
      BY <2>2, <2>3, <2>6, <2>7, ExceptSeq
    <2>9. /\ DOMAIN more = DOMAIN entries
          /\ \A i \in DOMAIN entries : i # w => more[i] = entries[i]
          /\ more[w].id = entries[w].id /\ more[w].video = entries[w].video
          /\ more[w].item = made
      BY <2>2, <2>5, <2>6
    <2> HIDE DEF more
    <2>10. \A i \in DOMAIN entries : entries[i].item # made
      <3>1. made \notin HeldBy(entries) /\ made # NoItem
        BY <2>4 DEF Fresh, NoItem
      <3> QED
        BY <3>1 DEF HeldBy
    <2>11. Distinct(more)
      BY <2>9, <2>10 DEF Distinct
    <2>12. settled.entries = more /\ settled.madeHere = NoItem
      BY <1>2, <1>6 DEF more, w
    <2> QED
      BY <2>2, <2>4, <2>8, <2>9, <2>11, <2>12 DEF settled, OrdersOf
  <1> QED
    BY <1>4, <1>5, <1>6

LEMMA ReleasedKeeps ==
    ASSUME NEW V, NEW base, NEW read, NEW entries \in OrdersOf(V), Distinct(entries)
    PROVE  /\ Released(base, read, entries) \in OrdersOf(V)
           /\ Distinct(Released(base, read, entries))
           /\ DOMAIN Released(base, read, entries) = DOMAIN entries
           /\ \A i \in DOMAIN entries :
                /\ Released(base, read, entries)[i].id = entries[i].id
                /\ Released(base, read, entries)[i].video = entries[i].video
                /\ Released(base, read, entries)[i].item =
                    IF entries[i].item \in IdsOf(base) \cup IdsOf(read)
                    THEN entries[i].item ELSE NoItem
  <1> DEFINE T == [id : Nat, video : V, item : Nat]
             merging == Released(base, read, entries)
  <1>1. entries \in Seq(T) /\ Len(entries) \in Nat /\ DOMAIN entries = 1..Len(entries)
    BY DEF OrdersOf
  <1>2. ASSUME NEW i \in DOMAIN entries
        PROVE  /\ merging[i] \in T
               /\ merging[i].id = entries[i].id /\ merging[i].video = entries[i].video
               /\ merging[i].item = IF entries[i].item \in IdsOf(base) \cup IdsOf(read)
                                    THEN entries[i].item ELSE NoItem
    <2>1. entries[i] \in T
      BY EntryTyped
    <2>2. merging[i] = IF entries[i].item \in IdsOf(base) \cup IdsOf(read) THEN entries[i]
                       ELSE [entries[i] EXCEPT !.item = NoItem]
      BY DEF Released
    <2> QED
      BY <2>1, <2>2 DEF NoItem
  <1>3. DOMAIN merging = DOMAIN entries /\ merging = [i \in 1..Len(entries) |-> merging[i]]
    BY <1>1 DEF Released
  <1> HIDE DEF merging
  <1>4. merging \in Seq(T)
    BY <1>1, <1>2, <1>3
  <1>5. Distinct(merging)
    <2>1. \A i \in DOMAIN merging :
                /\ merging[i].id = entries[i].id
                /\ merging[i].item = entries[i].item \/ merging[i].item = NoItem
      BY <1>2, <1>3
    <2>2. ASSUME NEW i \in DOMAIN merging, NEW j \in DOMAIN merging
          PROVE  /\ merging[i].id = merging[j].id /\ merging[i].id # NewEntry => i = j
                 /\ merging[i].item = merging[j].item /\ merging[i].item # NoItem => i = j
      <3>1. i \in DOMAIN entries /\ j \in DOMAIN entries
        BY <1>3
      <3>2. /\ entries[i].id = entries[j].id /\ entries[i].id # NewEntry => i = j
            /\ entries[i].item = entries[j].item /\ entries[i].item # NoItem => i = j
        BY <3>1 DEF Distinct
      <3> QED
        BY <2>1, <3>2
    <2> QED
      BY <2>2 DEF Distinct
  <1> QED
    BY <1>2, <1>3, <1>4, <1>5 DEF merging, OrdersOf

(* A key names one entry of the order merged, or no entry and one item.     *)
LEMMA KeysAreDistinct ==
    ASSUME NEW V, NEW merging \in OrdersOf(V), Distinct(merging)
    PROVE  /\ \A i \in DOMAIN merging : Key(merging, i) \in Int
           /\ \A i \in DOMAIN merging : Key(merging, i) \in Nat \ {0} =>
                Key(merging, i) = merging[i].item
           /\ \A i \in DOMAIN merging : merging[i].item # NoItem =>
                Key(merging, i) = merging[i].item
           /\ \A i, j \in DOMAIN merging : Key(merging, i) = Key(merging, j) => i = j
           /\ [i \in DOMAIN merging |-> Key(merging, i)] \in Seq(Int)
  <1>1. Len(merging) \in Nat /\ DOMAIN merging = 1..Len(merging)
    BY DEF OrdersOf
  <1>2. ASSUME NEW i \in DOMAIN merging
        PROVE  /\ merging[i].item \in Nat /\ i \in Nat \ {0}
               /\ Key(merging, i) = IF merging[i].item = 0 THEN -i ELSE merging[i].item
    <2>1. merging[i].item \in Nat
      BY EntryTyped
    <2> QED
      BY <1>1, <2>1 DEF Key, NoItem
  <1>3. \A i \in DOMAIN merging : Key(merging, i) \in Int
    BY <1>2
  <1>4. ASSUME NEW i \in DOMAIN merging, NEW j \in DOMAIN merging,
               Key(merging, i) = Key(merging, j)
        PROVE  i = j
    <2>1. CASE merging[i].item = 0
      BY <1>2, <1>4, <2>1
    <2>2. CASE merging[i].item # 0
      <3>1. merging[i].item = merging[j].item
        BY <1>2, <1>4, <2>2
      <3> QED
        BY <2>2, <3>1 DEF Distinct, NoItem
    <2> QED
      BY <2>1, <2>2
  <1>5. [i \in DOMAIN merging |-> Key(merging, i)] \in Seq(Int)
    BY <1>1, <1>3
  <1>6. \A i \in DOMAIN merging : Key(merging, i) \in Nat \ {0} =>
                Key(merging, i) = merging[i].item
    BY <1>2
  <1>7. \A i \in DOMAIN merging : merging[i].item # NoItem =>
                Key(merging, i) = merging[i].item
    BY <1>2 DEF NoItem
  <1> QED
    BY <1>3, <1>4, <1>5, <1>6, <1>7

LEMMA ItemIdsOf ==
    ASSUME NEW V, NEW read \in ItemsOf(V)
    PROVE  /\ ItemIds(read) \in Seq(Nat \ {0}) /\ ItemIds(read) \in Seq(Int)
           /\ IsInjective(ItemIds(read))
           /\ Range(ItemIds(read)) = IdsOf(read)
           /\ Len(ItemIds(read)) = Len(read)
           /\ NoItem \notin IdsOf(read) /\ IdsOf(read) \subseteq Nat \ {0}
  <1>1. Len(read) \in Nat /\ DOMAIN read = 1..Len(read)
    BY DEF ItemsOf
  <1>2. \A i \in DOMAIN read : read[i].id \in Nat \ {0}
    BY ItemTyped
  <1>3. ItemIds(read) \in Seq(Nat \ {0}) /\ Len(ItemIds(read)) = Len(read)
    BY <1>1, <1>2 DEF ItemIds
  <1>4. ItemIds(read) \in Seq(Int)
    BY <1>1, <1>2 DEF ItemIds
  <1>5. IsInjective(ItemIds(read))
    BY DEF IsInjective, ItemIds, ItemsOf
  <1>6. Range(ItemIds(read)) = IdsOf(read)
    BY DEF Range, ItemIds, IdsOf
  <1> QED
    BY <1>2, <1>3, <1>4, <1>5, <1>6 DEF IdsOf, NoItem

(* What a merge gives: every entry not gone as it is, once, and an entry for *)
(* each item added.                                                         *)
MergesInto(V, base, read, merging, madeHere, new) ==
    LET gone == {i \in DOMAIN merging : merging[i].item \in IdsOf(base) \ IdsOf(read)}
        added == IdsOf(read) \ (HeldBy(merging) \cup IdsOf(base) \cup {madeHere})
    IN  /\ Len(new) \in Nat /\ DOMAIN new = 1..Len(new)
        /\ new = [n \in 1..Len(new) |-> new[n]]
        /\ \E keys \in [DOMAIN new -> Int] :
            /\ IsInjective(keys)
            /\ \A n \in DOMAIN new :
                \/ \E i \in DOMAIN merging \ gone :
                        keys[n] = Key(merging, i) /\ new[n] = merging[i]
                \/ /\ keys[n] \in added
                   /\ new[n].id = NewEntry /\ new[n].item = keys[n]
                   /\ new[n] \in [id : Nat, video : V, item : Nat]
            /\ \A i \in DOMAIN merging \ gone : \E n \in DOMAIN new : new[n] = merging[i]
            /\ \A x \in added : \E n \in DOMAIN new : new[n].item = x

LEMMA MergedEntries ==
    ASSUME NEW V, NEW base, NEW read \in ItemsOf(V), NEW entries \in OrdersOf(V),
           NEW unanswered, NEW sort, Distinct(entries)
    PROVE  LET settled == LandedInsert(base, read, entries, unanswered)
           IN  MergesInto(V, base, read, Released(base, read, settled.entries),
                          settled.madeHere,
                          Merged(base, read, entries, unanswered, sort).entries)
  <1> DEFINE settled == LandedInsert(base, read, entries, unanswered)
             merging == Released(base, read, settled.entries)
             gone == {i \in DOMAIN merging :
                        merging[i].item \in IdsOf(base) \ IdsOf(read)}
             added == IdsOf(read) \
                        (HeldBy(merging) \cup IdsOf(base) \cup {settled.madeHere})
             serverKeys == [i \in DOMAIN merging |-> Key(merging, i)]
             wanted == {serverKeys[i] : i \in DOMAIN merging \ gone} \cup added
             byYouTube == sort = Automatic \/ Reordered(base, read, unanswered)
             keys == IF byYouTube
                     THEN Weave(ItemIds(read), serverKeys, wanted)
                     ELSE Weave(serverKeys, ItemIds(read), wanted)
             TheEntry(k) ==
                IF \E i \in DOMAIN merging : Key(merging, i) = k
                THEN merging[CHOOSE i \in DOMAIN merging : Key(merging, i) = k]
                ELSE LET item == read[CHOOSE i \in DOMAIN read : read[i].id = k]
                     IN  Entry(NewEntry, item.video, item.id)
             new == Merged(base, read, entries, unanswered, sort).entries
  <1>1. new = [n \in DOMAIN keys |-> TheEntry(keys[n])]
    BY DEF Merged
  <1>2. settled.entries \in OrdersOf(V) /\ Distinct(settled.entries)
    BY LandedKeeps
  <1>3. merging \in OrdersOf(V) /\ Distinct(merging)
    BY <1>2, ReleasedKeeps
  <1> HIDE DEF settled, merging
  <1>4. /\ serverKeys \in Seq(Int) /\ IsInjective(serverKeys)
        /\ \A i \in DOMAIN merging : serverKeys[i] = Key(merging, i)
        /\ \A i, j \in DOMAIN merging : Key(merging, i) = Key(merging, j) => i = j
    BY <1>3, KeysAreDistinct DEF IsInjective
  <1>5. /\ ItemIds(read) \in Seq(Int) /\ IsInjective(ItemIds(read))
        /\ Range(ItemIds(read)) = IdsOf(read)
    BY ItemIdsOf
  <1>6. wanted \subseteq Range(serverKeys) \cup Range(ItemIds(read))
    BY <1>5 DEF Range
  <1> HIDE DEF serverKeys, wanted, byYouTube
  <1>7. keys \in Seq(Int) /\ IsInjective(keys) /\ Range(keys) = wanted
    <2>1. CASE byYouTube
      <3>1. keys = Weave(ItemIds(read), serverKeys, wanted)
        BY <2>1
      <3> HIDE DEF keys
      <3>2. keys \in Seq(Int) /\ IsInjective(keys)
                /\ Range(keys) = wanted \cap (Range(ItemIds(read)) \cup Range(serverKeys))
        BY <1>4, <1>5, <3>1, WeaveKeeps
      <3> QED
        BY <1>6, <3>2
    <2>2. CASE ~byYouTube
      <3>1. keys = Weave(serverKeys, ItemIds(read), wanted)
        BY <2>2
      <3> HIDE DEF keys
      <3>2. keys \in Seq(Int) /\ IsInjective(keys)
                /\ Range(keys) = wanted \cap (Range(serverKeys) \cup Range(ItemIds(read)))
        BY <1>4, <1>5, <3>1, WeaveKeeps
      <3> QED
        BY <1>6, <3>2
    <2> QED
      BY <2>1, <2>2
  <1> HIDE DEF keys
  <1>8. ASSUME NEW i \in DOMAIN merging
        PROVE  TheEntry(Key(merging, i)) = merging[i]
    <2>1. (CHOOSE j \in DOMAIN merging : Key(merging, j) = Key(merging, i)) = i
      BY <1>4
    <2> QED
      BY <2>1
  <1>9. ASSUME NEW x \in added
        PROVE  /\ x \in Nat \ {0}
               /\ TheEntry(x) \in [id : Nat, video : V, item : Nat]
               /\ TheEntry(x).id = NewEntry /\ TheEntry(x).item = x
    <2>1. x \in IdsOf(read) /\ x \notin HeldBy(merging)
      OBVIOUS
    <2>2. x \in Nat \ {0}
      BY <2>1, ItemIdsOf
    <2>3. \A i \in DOMAIN merging : Key(merging, i) # x
      <3> TAKE i \in DOMAIN merging
      <3>1. Key(merging, i) = x => merging[i].item = x
        BY <1>3, <2>2, KeysAreDistinct
      <3>2. merging[i].item # x
        BY <2>1, <2>2 DEF HeldBy, NoItem
      <3> QED
        BY <3>1, <3>2
    <2> DEFINE at == CHOOSE i \in DOMAIN read : read[i].id = x
    <2>4. \E i \in DOMAIN read : read[i].id = x
      BY <2>1 DEF IdsOf
    <2>5. at \in DOMAIN read /\ read[at].id = x
      BY <2>4
    <2>6. TheEntry(x) = Entry(NewEntry, read[at].video, read[at].id)
      BY <2>3
    <2> HIDE DEF at, TheEntry
    <2>7. read[at].video \in V
      BY <2>5, ItemTyped
    <2> QED
      BY <2>2, <2>5, <2>6, <2>7 DEF Entry, NewEntry
  <1>10. \A x \in wanted : \/ \E i \in DOMAIN merging \ gone : x = Key(merging, i)
                           \/ x \in added
    BY <1>4 DEF wanted
  <1>11. /\ \A i \in DOMAIN merging \ gone : Key(merging, i) \in wanted
         /\ added \subseteq wanted
    BY <1>4 DEF wanted
  <1> HIDE DEF TheEntry, added, gone
  <1>12. Len(keys) \in Nat /\ DOMAIN keys = 1..Len(keys) /\ keys \in [DOMAIN keys -> Int]
    BY <1>7
  <1>13. /\ DOMAIN new = DOMAIN keys /\ Len(new) = Len(keys)
         /\ \A n \in DOMAIN keys : new[n] = TheEntry(keys[n]) /\ keys[n] \in wanted
    BY <1>1, <1>7, <1>12 DEF Range
  <1> HIDE DEF new
  <1>19. new = [n \in 1..Len(new) |-> new[n]]
    <2>1. new = [n \in DOMAIN keys |-> TheEntry(keys[n])]
      BY <1>1 DEF new
    <2> QED
      BY <1>12, <1>13, <2>1
  <1>14. ASSUME NEW n \in DOMAIN new
         PROVE  \/ \E i \in DOMAIN merging \ gone :
                        keys[n] = Key(merging, i) /\ new[n] = merging[i]
                \/ /\ keys[n] \in added
                   /\ new[n].id = NewEntry /\ new[n].item = keys[n]
                   /\ new[n] \in [id : Nat, video : V, item : Nat]
    <2>1. new[n] = TheEntry(keys[n]) /\ keys[n] \in wanted
      BY <1>13
    <2>2. CASE keys[n] \in added
      BY <1>9, <2>1, <2>2
    <2>3. ASSUME NEW i \in DOMAIN merging \ gone, keys[n] = Key(merging, i)
          PROVE  new[n] = merging[i]
      BY <1>8, <2>1, <2>3
    <2> QED
      BY <1>10, <2>1, <2>2, <2>3
  <1>15. ASSUME NEW x \in wanted
         PROVE  \E n \in DOMAIN new : keys[n] = x
    BY <1>7, <1>13 DEF Range
  <1>16. \A i \in DOMAIN merging \ gone : \E n \in DOMAIN new : new[n] = merging[i]
    <2> TAKE i \in DOMAIN merging \ gone
    <2>1. PICK n \in DOMAIN new : keys[n] = Key(merging, i)
      BY <1>11, <1>15
    <2> QED
      BY <1>8, <1>13, <2>1
  <1>17. \A x \in added : \E n \in DOMAIN new : new[n].item = x
    <2> TAKE x \in added
    <2>1. PICK n \in DOMAIN new : keys[n] = x
      BY <1>11, <1>15
    <2> QED
      BY <1>9, <1>13, <2>1
  <1>18. /\ Len(new) \in Nat /\ DOMAIN new = 1..Len(new)
         /\ keys \in [DOMAIN new -> Int] /\ IsInjective(keys)
    BY <1>7, <1>12, <1>13
  <1> QED
    BY <1>14, <1>16, <1>17, <1>18, <1>19 DEF MergesInto, new, added, gone, merging, settled

(* A merge gives an order of distinct entries that hold items of the read;   *)
(* it leaves out only entries whose item the read lacks, and leaves no entry *)
(* only for items no entry held before and for the one made here.           *)
THEOREM MergedKeeps ==
    ASSUME NEW V, NEW base, NEW read \in ItemsOf(V), NEW entries \in OrdersOf(V),
           NEW unanswered, NEW sort, Distinct(entries), NoItem \notin IdsOf(base)
    PROVE  LET new == Merged(base, read, entries, unanswered, sort).entries
               settled == LandedInsert(base, read, entries, unanswered)
           IN  /\ new \in OrdersOf(V) /\ Distinct(new)
               /\ HeldBy(new) \subseteq IdsOf(read)
               /\ IdsOf(new) \subseteq IdsOf(entries) \cup {NewEntry}
               /\ \A i \in DOMAIN entries :
                    \/ entries[i].id \in IdsOf(new)
                    \/ entries[i].item \in IdsOf(base) \ IdsOf(read)
               /\ IdsOf(read) \ HeldBy(new) \subseteq
                    (IdsOf(base) \ HeldBy(entries)) \cup {settled.madeHere}
  <1> DEFINE settled == LandedInsert(base, read, entries, unanswered)
             merging == Released(base, read, settled.entries)
             gone == {i \in DOMAIN merging :
                        merging[i].item \in IdsOf(base) \ IdsOf(read)}
             added == IdsOf(read) \
                        (HeldBy(merging) \cup IdsOf(base) \cup {settled.madeHere})
             new == Merged(base, read, entries, unanswered, sort).entries
             T == [id : Nat, video : V, item : Nat]
  <1>1. /\ settled.entries \in OrdersOf(V) /\ Distinct(settled.entries)
        /\ DOMAIN settled.entries = DOMAIN entries
        /\ \A i \in DOMAIN entries :
            /\ settled.entries[i].id = entries[i].id
            /\ \/ settled.entries[i].item = entries[i].item
               \/ /\ entries[i].item = NoItem
                  /\ settled.entries[i].item \in Fresh(base, read, entries)
    BY LandedKeeps DEF Awaits
  <1>2. /\ merging \in OrdersOf(V) /\ Distinct(merging)
        /\ DOMAIN merging = DOMAIN entries
        /\ \A i \in DOMAIN entries :
            /\ merging[i].id = entries[i].id
            /\ merging[i].item =
                IF settled.entries[i].item \in IdsOf(base) \cup IdsOf(read)
                THEN settled.entries[i].item ELSE NoItem
    BY <1>1, ReleasedKeeps
  <1>13. MergesInto(V, base, read, merging, settled.madeHere, new)
    BY MergedEntries
  <1> HIDE DEF settled, merging, new
  <1>5. /\ Len(new) \in Nat /\ DOMAIN new = 1..Len(new)
        /\ new = [n \in 1..Len(new) |-> new[n]]
    BY <1>13 DEF MergesInto
  <1>3. PICK keys \in [DOMAIN new -> Int] :
            /\ IsInjective(keys)
            /\ \A n \in DOMAIN new :
                \/ \E i \in DOMAIN merging \ gone :
                        keys[n] = Key(merging, i) /\ new[n] = merging[i]
                \/ /\ keys[n] \in added
                   /\ new[n].id = NewEntry /\ new[n].item = keys[n]
                   /\ new[n] \in T
            /\ \A i \in DOMAIN merging \ gone : \E n \in DOMAIN new : new[n] = merging[i]
            /\ \A x \in added : \E n \in DOMAIN new : new[n].item = x
    BY <1>13 DEF MergesInto
  <1>4. /\ \A i \in DOMAIN merging : merging[i] \in T
        /\ \A i \in DOMAIN merging : merging[i].item # NoItem => Key(merging, i) = merging[i].item
        /\ NoItem \notin IdsOf(read)
    BY <1>2, EntryTyped, KeysAreDistinct, ItemIdsOf
  <1> HIDE DEF T
  <1>6. new \in OrdersOf(V)
    <2>1. \A n \in DOMAIN new : new[n] \in T
      BY <1>3, <1>4
    <2>2. new \in Seq(T)
      BY <1>5, <2>1
    <2> QED
      BY <2>2 DEF OrdersOf, T
  <1>7. ASSUME NEW n \in DOMAIN new, new[n].item # NoItem
        PROVE  keys[n] = new[n].item /\ new[n].item \in IdsOf(read)
    <2>1. CASE keys[n] \in added /\ new[n].item = keys[n]
      BY <2>1
    <2>2. ASSUME NEW i \in DOMAIN merging \ gone, keys[n] = Key(merging, i),
                 new[n] = merging[i]
          PROVE  keys[n] = new[n].item /\ new[n].item \in IdsOf(read)
      BY <1>2, <1>4, <1>7, <2>2
    <2> QED
      BY <1>3, <2>1, <2>2
  <1>8. Distinct(new)
    <2>1. ASSUME NEW m \in DOMAIN new, NEW n \in DOMAIN new,
                 new[m].item = new[n].item, new[m].item # NoItem
          PROVE  m = n
      <3>1. keys[m] = keys[n]
        BY <1>7, <2>1
      <3> QED
        BY <1>3, <3>1 DEF IsInjective
    <2>2. ASSUME NEW m \in DOMAIN new, NEW n \in DOMAIN new,
                 new[m].id = new[n].id, new[m].id # NewEntry
          PROVE  m = n
      <3>1. PICK i \in DOMAIN merging \ gone : keys[m] = Key(merging, i) /\ new[m] = merging[i]
        BY <1>3, <2>2
      <3>2. PICK j \in DOMAIN merging \ gone : keys[n] = Key(merging, j) /\ new[n] = merging[j]
        BY <1>3, <2>2
      <3>3. i = j
        BY <1>2, <2>2, <3>1, <3>2 DEF Distinct
      <3> QED
        BY <1>3, <3>1, <3>2, <3>3 DEF IsInjective
    <2> QED
      BY <2>1, <2>2 DEF Distinct
  <1>9. HeldBy(new) \subseteq IdsOf(read)
    BY <1>7 DEF HeldBy
  <1>10. IdsOf(new) \subseteq IdsOf(entries) \cup {NewEntry}
    <2> SUFFICES ASSUME NEW n \in DOMAIN new
                 PROVE  new[n].id \in IdsOf(entries) \cup {NewEntry}
      BY DEF IdsOf
    <2>1. ASSUME NEW i \in DOMAIN merging, new[n] = merging[i]
          PROVE  new[n].id \in IdsOf(entries)
      BY <1>2, <2>1 DEF IdsOf
    <2> QED
      BY <1>3, <2>1
  <1>11. ASSUME NEW i \in DOMAIN entries
         PROVE  \/ entries[i].id \in IdsOf(new)
                \/ entries[i].item \in IdsOf(base) \ IdsOf(read)
    <2>1. CASE i \in gone
      <3>1. merging[i].item \in IdsOf(base) \ IdsOf(read) /\ merging[i].item # NoItem
        BY <2>1
      <3>2. settled.entries[i].item = merging[i].item
        BY <1>2, <3>1
      <3>3. settled.entries[i].item \notin Fresh(base, read, entries)
        BY <3>1, <3>2 DEF Fresh
      <3> QED
        BY <1>1, <3>1, <3>2, <3>3
    <2>2. CASE i \notin gone
      <3>1. PICK n \in DOMAIN new : new[n] = merging[i]
        BY <1>2, <1>3, <2>2
      <3>2. new[n].id = entries[i].id
        BY <1>2, <3>1
      <3> QED
        BY <3>2 DEF IdsOf
    <2> QED
      BY <2>1, <2>2
  <1>12. ASSUME NEW x \in IdsOf(read) \ HeldBy(new), x # settled.madeHere
         PROVE  x \in IdsOf(base) \ HeldBy(entries)
    <2>1. x # NoItem
      BY <1>4
    <2>2. ASSUME NEW i \in DOMAIN merging, merging[i].item = x
          PROVE  FALSE
      <3>1. i \notin gone
        BY <2>2
      <3>2. PICK n \in DOMAIN new : new[n] = merging[i]
        BY <1>3, <3>1
      <3> QED
        BY <2>1, <2>2, <3>2 DEF HeldBy
    <2>3. x \notin HeldBy(merging)
      BY <2>2 DEF HeldBy
    <2>4. x \in IdsOf(base)
      <3> SUFFICES ASSUME x \notin IdsOf(base) PROVE FALSE
        OBVIOUS
      <3>1. x \in added
        BY <1>12, <2>3
      <3>2. PICK n \in DOMAIN new : new[n].item = x
        BY <1>3, <3>1
      <3> QED
        BY <2>1, <3>2 DEF HeldBy
    <2>5. \A i \in DOMAIN entries : entries[i].item # x
      <3> TAKE i \in DOMAIN entries
      <3>1. merging[i].item # x
        BY <1>2, <2>2
      <3>2. settled.entries[i].item # x
        BY <1>2, <2>4, <3>1
      <3> QED
        BY <1>1, <2>1, <3>2
    <2> QED
      BY <2>4, <2>5 DEF HeldBy
  <1> QED
    BY <1>6, <1>8, <1>9, <1>10, <1>11, <1>12 DEF new, settled

(* While an item the unanswered insert may have made is there, no entry it   *)
(* was sent for goes on waiting.                                            *)
LEMMA LandedIsTaken ==
    ASSUME NEW V, NEW base, NEW read \in ItemsOf(V), NEW entries \in OrdersOf(V),
           NEW unanswered, Distinct(entries), NEW k \in DOMAIN entries,
           entries[k].id # NewEntry, Awaits(entries, k, unanswered),
           Landed(base, read, entries, unanswered) # {}
    PROVE  LandedInsert(base, read, entries, unanswered).entries[k].item # NoItem
  <1> DEFINE landed == Landed(base, read, entries, unanswered)
             made == read[Min(landed)].id
             waiting == {i \in DOMAIN entries : Awaits(entries, i, unanswered)}
             w == Min(waiting)
  <1>1. /\ DOMAIN entries = 1..Len(entries) /\ Len(entries) \in Nat
        /\ DOMAIN read = 1..Len(read) /\ Len(read) \in Nat
    BY DEF OrdersOf, ItemsOf
  <1>2. made \in Nat \ {0}
    <2>1. landed \in SUBSET (1..Len(read))
      BY <1>1 DEF Landed
    <2>2. Min(landed) \in landed
      BY <1>1, <2>1, MinOfSome
    <2> QED
      BY <1>1, <2>1, <2>2, ItemTyped
  <1>3. w = k
    <2>1. w \in waiting
      BY <1>1, MinOfSome
    <2>2. entries[w].id = entries[k].id /\ w \in DOMAIN entries
      BY <2>1 DEF Awaits
    <2> HIDE DEF w
    <2> QED
      BY <2>2 DEF Distinct
  <1>4. LandedInsert(base, read, entries, unanswered)
            = [entries |-> [entries EXCEPT ![w].item = made], madeHere |-> NoItem]
    BY DEF LandedInsert, Awaits
  <1> HIDE DEF made, w
  <1>5. entries[k] \in [id : Nat, video : V, item : Nat]
    BY EntryTyped
  <1>6. [entries EXCEPT ![k].item = made][k].item = made
    BY <1>5
  <1> QED
    BY <1>2, <1>3, <1>4, <1>6 DEF NoItem

(* An entry waits for an item after a merge only if it did before, and then  *)
(* no item of the read may be the one an insert for it made.                *)
LEMMA MergedAwaits ==
    ASSUME NEW V, NEW base, NEW read \in ItemsOf(V), NEW entries \in OrdersOf(V),
           NEW unanswered, NEW sort, Distinct(entries), NewEntry \notin IdsOf(entries),
           HeldBy(entries) \subseteq IdsOf(base)
    PROVE  LET new == Merged(base, read, entries, unanswered, sort).entries
           IN  \A n \in DOMAIN new : new[n].item = NoItem =>
                \E k \in DOMAIN entries :
                    /\ entries[k].id = new[n].id /\ entries[k].item = NoItem
                    /\ \/ Landed(base, read, entries, unanswered) = {}
                       \/ entries[k].id # unanswered.entry
  <1> DEFINE settled == LandedInsert(base, read, entries, unanswered)
             merging == Released(base, read, settled.entries)
             gone == {i \in DOMAIN merging :
                        merging[i].item \in IdsOf(base) \ IdsOf(read)}
             added == IdsOf(read) \
                        (HeldBy(merging) \cup IdsOf(base) \cup {settled.madeHere})
             new == Merged(base, read, entries, unanswered, sort).entries
  <1>1. /\ settled.entries \in OrdersOf(V) /\ Distinct(settled.entries)
        /\ DOMAIN settled.entries = DOMAIN entries
        /\ \A i \in DOMAIN entries :
            /\ settled.entries[i].id = entries[i].id
            /\ \/ settled.entries[i].item = entries[i].item
               \/ /\ entries[i].item = NoItem
                  /\ settled.entries[i].item \in Fresh(base, read, entries)
    BY SMTT(30), LandedKeeps DEF Awaits
  <1>2. /\ DOMAIN merging = DOMAIN entries
        /\ \A i \in DOMAIN entries :
            /\ merging[i].id = entries[i].id
            /\ merging[i].item =
                IF settled.entries[i].item \in IdsOf(base) \cup IdsOf(read)
                THEN settled.entries[i].item ELSE NoItem
    BY <1>1, ReleasedKeeps
  <1>3. MergesInto(V, base, read, merging, settled.madeHere, new)
    BY MergedEntries
  <1>4. \A k \in DOMAIN entries :
            entries[k].id = unanswered.entry /\ entries[k].item = NoItem
                    /\ Landed(base, read, entries, unanswered) # {} =>
                settled.entries[k].item # NoItem
    BY LandedIsTaken DEF IdsOf, Awaits
  <1> HIDE DEF settled, merging, new
  <1>5. NoItem \notin IdsOf(read)
    BY ItemIdsOf
  <1> SUFFICES ASSUME NEW n \in DOMAIN new, new[n].item = NoItem
               PROVE  \E k \in DOMAIN entries :
                        /\ entries[k].id = new[n].id /\ entries[k].item = NoItem
                        /\ \/ Landed(base, read, entries, unanswered) = {}
                           \/ entries[k].id # unanswered.entry
    BY DEF new
  <1>6. PICK k \in DOMAIN merging : new[n] = merging[k]
    BY <1>3, <1>5 DEF MergesInto
  <1>7. merging[k].item = NoItem /\ merging[k].id = new[n].id
    BY <1>6
  <1>8. settled.entries[k].item = NoItem /\ entries[k].item = NoItem
    <2>1. entries[k].item # NoItem => entries[k].item \in IdsOf(base)
      BY <1>2 DEF HeldBy
    <2>2. settled.entries[k].item # NoItem =>
                settled.entries[k].item \in IdsOf(base) \cup IdsOf(read)
      BY <1>1, <1>2, <2>1 DEF Fresh
    <2>3. settled.entries[k].item = NoItem
      BY <1>2, <1>7, <2>2
    <2> QED
      BY <1>1, <1>2, <1>5, <2>3 DEF Fresh
  <1>9. entries[k].id = new[n].id /\ k \in DOMAIN entries
    BY <1>2, <1>7
  <1> QED
    BY <1>4, <1>8, <1>9

-----------------------------------------------------------------------------
(***************************************************************************)
(* Places.                                                                 *)
(***************************************************************************)
LEMMA PlaceInList ==
    ASSUME NEW T, NEW s \in Seq(T), NEW e
    PROVE  /\ PlaceIn(s, e) \in 0..Len(s)
           /\ e \in Range(s) => PlaceIn(s, e) \in 1..Len(s) /\ s[PlaceIn(s, e)] = e
           /\ e \notin Range(s) => PlaceIn(s, e) = 0
  <1> DEFINE places == {i \in 1..Len(s) : s[i] = e}
  <1>1. Len(s) \in Nat /\ DOMAIN s = 1..Len(s)
    OBVIOUS
  <1>2. PlaceIn(s, e) = IF places # {} THEN Min(places) ELSE 0
    BY DEF PlaceIn, SelectInSeq
  <1>3. places # {} <=> e \in Range(s)
    BY <1>1 DEF Range
  <1>4. places # {} => Min(places) \in places
    BY <1>1, MinOfSome
  <1> QED
    BY <1>1, <1>2, <1>3, <1>4

LEMMA RemoveFirstKeeps ==
    ASSUME NEW T, NEW s \in Seq(T), NEW e
    PROVE  /\ RemoveFirst(s, e) \in Seq(T)
           /\ Len(RemoveFirst(s, e)) = IF e \in Range(s) THEN Len(s) - 1 ELSE Len(s)
           /\ IsInjective(s) => /\ Range(RemoveFirst(s, e)) = Range(s) \ {e}
                                /\ IsInjective(RemoveFirst(s, e))
  <1>1. Len(s) \in Nat /\ DOMAIN s = 1..Len(s)
    OBVIOUS
  <1>2. (\E i \in 1..Len(s) : s[i] = e) <=> e \in Range(s)
    BY <1>1 DEF Range
  <1>3. CASE e \notin Range(s)
    <2>1. RemoveFirst(s, e) = s
      BY <1>2, <1>3 DEF RemoveFirst
    <2> QED
      BY <1>3, <2>1
  <1>4. CASE e \in Range(s)
    <2>1. RemoveFirst(s, e) = RemoveAt(s, PlaceIn(s, e))
      BY <1>2, <1>4 DEF RemoveFirst, PlaceIn
    <2>2. PlaceIn(s, e) \in 1..Len(s) /\ s[PlaceIn(s, e)] = e
      BY <1>4, PlaceInList
    <2> DEFINE at == PlaceIn(s, e)
    <2> HIDE DEF at
    <2>3. at \in 1..Len(s) /\ s[at] = e /\ RemoveFirst(s, e) = RemoveAt(s, at)
      BY <2>1, <2>2 DEF at
    <2>4. /\ RemoveAt(s, at) \in Seq(T)
          /\ Len(RemoveAt(s, at)) = Len(s) - 1
          /\ Range(RemoveAt(s, at)) \subseteq Range(s)
          /\ Range(s) \subseteq Range(RemoveAt(s, at)) \cup {s[at]}
          /\ IsInjective(s) =>
                IsInjective(RemoveAt(s, at)) /\ s[at] \notin Range(RemoveAt(s, at))
      BY <2>3, RemoveAtKeeps
    <2> QED
      BY <1>4, <2>3, <2>4
  <1> QED
    BY <1>3, <1>4

(* What is in a set and what is not are together the whole list.            *)
LEMMA OnlySplits ==
    ASSUME NEW T, NEW list \in Seq(T), NEW S, NEW R,
           \A i \in 1..Len(list) : list[i] \in S <=> list[i] \notin R
    PROVE  Len(Only(list, S)) + Len(Only(list, R)) = Len(list)
  <1>1. PICK f : /\ Only(list, S) = f[Len(list)]
                 /\ \A i \in 0..Len(list) : f[i] = Kept(list, S, f, i)
    BY OnlySteps
  <1>2. PICK g : /\ Only(list, R) = g[Len(list)]
                 /\ \A i \in 0..Len(list) : g[i] = Kept(list, R, g, i)
    BY OnlySteps
  <1> DEFINE Good(k) == f[k] \in Seq(T) /\ g[k] \in Seq(T) /\ Len(f[k]) + Len(g[k]) = k
             All == {k \in Nat : k <= Len(list) => Good(k)}
  <1>3. Len(list) \in Nat /\ \A i \in 1..Len(list) : list[i] \in T
    OBVIOUS
  <1>4. Good(0)
    <2>1. f[0] = <<>> /\ g[0] = <<>>
      BY <1>1, <1>2, <1>3 DEF Kept
    <2> QED
      BY <2>1
  <1>5. ASSUME NEW k \in Nat, k + 1 <= Len(list), Good(k)
        PROVE  Good(k + 1)
    <2>1. k + 1 \in 0..Len(list) /\ k + 1 \in 1..Len(list)
      BY <1>3, <1>5
    <2>2. /\ f[k + 1] = IF list[k + 1] \in S THEN Append(f[k], list[k + 1]) ELSE f[k]
          /\ g[k + 1] = IF list[k + 1] \in R THEN Append(g[k], list[k + 1]) ELSE g[k]
      BY <1>1, <1>2, <2>1 DEF Kept
    <2>3. f[k] \in Seq(T) /\ g[k] \in Seq(T) /\ Len(f[k]) + Len(g[k]) = k /\ list[k + 1] \in T
      BY <1>3, <1>5, <2>1
    <2>4. CASE list[k + 1] \in S
      <3>1. f[k + 1] = Append(f[k], list[k + 1]) /\ g[k + 1] = g[k]
        BY <2>1, <2>2, <2>4
      <3>2. f[k + 1] \in Seq(T) /\ Len(f[k + 1]) = Len(f[k]) + 1
        BY <2>3, <3>1
      <3>3. Len(f[k]) \in Nat /\ Len(g[k]) \in Nat
        BY <2>3
      <3> DEFINE a == Len(f[k])
                 b == Len(g[k])
                 c == Len(f[k + 1])
                 d == Len(g[k + 1])
      <3>4. c + d = k + 1
        <4>1. a \in Nat /\ b \in Nat /\ a + b = k /\ c = a + 1 /\ d = b
          BY <2>3, <3>1, <3>2, <3>3
        <4> HIDE DEF a, b, c, d
        <4> QED
          BY <4>1
      <3>6. Len(f[k + 1]) + Len(g[k + 1]) = k + 1
        BY <3>4
      <3>5. g[k + 1] \in Seq(T)
        BY <2>3, <3>1
      <3> QED
        BY <3>2, <3>5, <3>6
    <2>5. CASE list[k + 1] \notin S
      <3>1. g[k + 1] = Append(g[k], list[k + 1]) /\ f[k + 1] = f[k]
        BY <2>1, <2>2, <2>5
      <3>2. g[k + 1] \in Seq(T) /\ Len(g[k + 1]) = Len(g[k]) + 1
        BY <2>3, <3>1
      <3>3. Len(f[k]) \in Nat /\ Len(g[k]) \in Nat
        BY <2>3
      <3> DEFINE a == Len(f[k])
                 b == Len(g[k])
                 c == Len(f[k + 1])
                 d == Len(g[k + 1])
      <3>4. c + d = k + 1
        <4>1. a \in Nat /\ b \in Nat /\ a + b = k /\ c = a /\ d = b + 1
          BY <2>3, <3>1, <3>2, <3>3
        <4> HIDE DEF a, b, c, d
        <4> QED
          BY <4>1
      <3>6. Len(f[k + 1]) + Len(g[k + 1]) = k + 1
        BY <3>4
      <3>5. f[k + 1] \in Seq(T)
        BY <2>3, <3>1
      <3> QED
        BY <3>2, <3>5, <3>6
    <2> QED
      BY <2>4, <2>5
  <1> HIDE DEF Good
  <1>6. 0 \in All
    BY <1>4
  <1>7. \A k \in Nat : k \in All => k + 1 \in All
    BY <1>3, <1>5
  <1>8. Len(list) \in All
    <2> HIDE DEF All
    <2> QED
      BY <1>3, <1>6, <1>7, Induct
  <1>9. Good(Len(list))
    BY <1>3, <1>8
  <1> QED
    BY <1>1, <1>2, <1>9 DEF Good

-----------------------------------------------------------------------------
(***************************************************************************)
(* The writes of a plan, and the sizes a playlist takes as they are made.  *)
(***************************************************************************)
AddsItem(w) == w.kind \in {"insert", "append"}

WritesOf(V) ==
    {w \in [kind : {"delete", "insert", "append", "move"}, item : Nat, entry : Nat,
            video : V \cup {0}, position : Nat] :
        AddsItem(w) => w.video \in V}

(* A write YouTube accepts of a playlist of size items, which then has next. *)
WriteFits(w, size, next) ==
    \/ w.kind = "delete" /\ next = size - 1
    \/ w.kind = "insert" /\ w.position <= size /\ next = size + 1
    \/ w.kind = "append" /\ next = size + 1
    \/ w.kind = "move" /\ w.position < size /\ next = size

SizesFit(sizes, writes, from, to) ==
    /\ sizes \in [1..(Len(writes) + 1) -> Nat]
    /\ sizes[1] = from /\ sizes[Len(writes) + 1] = to
    /\ \A i \in 1..Len(writes) : WriteFits(writes[i], sizes[i], sizes[i + 1])

Fits(writes, from, to) == \E sizes : SizesFit(sizes, writes, from, to)

LEMMA FitsNone ==
    ASSUME NEW n \in Nat
    PROVE  Fits(<<>>, n, n)
  <1> DEFINE sizes == [i \in 1..1 |-> n]
  <1>1. SizesFit(sizes, <<>>, n, n)
    BY DEF SizesFit
  <1> QED
    BY <1>1 DEF Fits

LEMMA FitsAppend ==
    ASSUME NEW T, NEW writes \in Seq(T), NEW w \in T, NEW from, NEW to, NEW next \in Nat,
           Fits(writes, from, to), WriteFits(w, to, next)
    PROVE  Fits(Append(writes, w), from, next)
  <1>1. PICK sizes : SizesFit(sizes, writes, from, to)
    BY DEF Fits
  <1> DEFINE n == Len(writes)
             more == [i \in 1..(n + 2) |-> IF i = n + 2 THEN next ELSE sizes[i]]
             longer == Append(writes, w)
  <1>2. /\ n \in Nat /\ Len(longer) = n + 1
        /\ \A i \in 1..n : longer[i] = writes[i]
        /\ longer[n + 1] = w
    OBVIOUS
  <1>3. /\ sizes \in [1..(n + 1) -> Nat] /\ sizes[1] = from /\ sizes[n + 1] = to
        /\ \A i \in 1..n : WriteFits(writes[i], sizes[i], sizes[i + 1])
    BY <1>1 DEF SizesFit
  <1> HIDE DEF longer, n
  <1>4. more \in [1..(Len(longer) + 1) -> Nat]
    BY <1>2, <1>3
  <1>5. more[1] = from /\ more[Len(longer) + 1] = next
    BY <1>2, <1>3
  <1>6. ASSUME NEW i \in 1..Len(longer)
        PROVE  WriteFits(longer[i], more[i], more[i + 1])
    <2>1. CASE i = n + 1
      <3>1. more[i] = to /\ more[i + 1] = next /\ longer[i] = w
        BY <1>2, <1>3, <2>1
      <3> QED
        BY <3>1
    <2>2. CASE i # n + 1
      <3>1. i \in 1..n /\ more[i] = sizes[i] /\ more[i + 1] = sizes[i + 1]
        BY <1>2, <1>3, <2>2
      <3> QED
        BY <1>2, <1>3, <3>1
    <2> QED
      BY <2>1, <2>2
  <1>7. SizesFit(more, longer, from, next)
    BY <1>4, <1>5, <1>6 DEF SizesFit
  <1> QED
    BY <1>7 DEF Fits, longer

LEMMA FitsBoth ==
    ASSUME NEW T, NEW first \in Seq(T), NEW then \in Seq(T), NEW from, NEW mid, NEW to,
           Fits(first, from, mid), Fits(then, mid, to)
    PROVE  Fits(first \o then, from, to)
  <1>1. PICK f : SizesFit(f, first, from, mid)
    BY DEF Fits
  <1>2. PICK g : SizesFit(g, then, mid, to)
    BY DEF Fits
  <1> DEFINE n == Len(first)
             m == Len(then)
             both == first \o then
             sizes == [i \in 1..(n + m + 1) |-> IF i <= n THEN f[i] ELSE g[i - n]]
  <1>3. /\ n \in Nat /\ m \in Nat /\ Len(both) = n + m
        /\ \A i \in 1..(n + m) : both[i] = IF i <= n THEN first[i] ELSE then[i - n]
    BY ConcatProperties
  <1>4. /\ f \in [1..(n + 1) -> Nat] /\ f[1] = from /\ f[n + 1] = mid
        /\ \A i \in 1..n : WriteFits(first[i], f[i], f[i + 1])
    BY <1>1 DEF SizesFit
  <1>5. /\ g \in [1..(m + 1) -> Nat] /\ g[1] = mid /\ g[m + 1] = to
        /\ \A i \in 1..m : WriteFits(then[i], g[i], g[i + 1])
    BY <1>2 DEF SizesFit
  <1> HIDE DEF n, m, both
  <1>6. sizes \in [1..(Len(both) + 1) -> Nat]
    <2> SUFFICES ASSUME NEW i \in 1..(n + m + 1)
                 PROVE  (IF i <= n THEN f[i] ELSE g[i - n]) \in Nat
      BY <1>3
    <2>1. CASE i <= n
      BY <1>3, <1>4, <2>1
    <2>2. CASE ~ (i <= n)
      <3>1. i - n \in 1..(m + 1)
        BY <1>3, <2>2
      <3> QED
        BY <1>5, <2>2, <3>1
    <2> QED
      BY <2>1, <2>2
  <1>7. \A i \in 1..(n + 1) : sizes[i] = f[i]
    <2> TAKE i \in 1..(n + 1)
    <2>1. i \in 1..(n + m + 1)
      BY <1>3
    <2>2. CASE i = n + 1
      <3>1. sizes[i] = g[i - n] /\ i - n = 1
        BY <1>3, <2>1, <2>2
      <3> QED
        BY <1>4, <1>5, <2>2, <3>1
    <2>3. CASE i # n + 1
      BY <1>3, <2>1, <2>3
    <2> QED
      BY <2>2, <2>3
  <1>8. \A i \in (n + 1)..(n + m + 1) : sizes[i] = g[i - n]
    BY <1>3
  <1> HIDE DEF sizes
  <1>9. ASSUME NEW i \in 1..(n + m)
        PROVE  WriteFits(both[i], sizes[i], sizes[i + 1])
    <2>1. CASE i <= n
      <3>1. i \in 1..(n + 1) /\ i + 1 \in 1..(n + 1)
        BY <1>3, <2>1
      <3>2. sizes[i] = f[i] /\ sizes[i + 1] = f[i + 1] /\ both[i] = first[i]
        BY <1>3, <1>7, <2>1, <3>1
      <3> QED
        BY <1>3, <1>4, <2>1, <3>2
    <2>2. CASE ~ (i <= n)
      <3>1. i - n \in 1..m /\ i + 1 - n = i - n + 1
        BY <1>3, <2>2
      <3>2. sizes[i] = g[i - n] /\ sizes[i + 1] = g[i - n + 1] /\ both[i] = then[i - n]
        BY <1>3, <1>8, <2>2, <3>1
      <3> QED
        BY <1>5, <3>1, <3>2
    <2> QED
      BY <2>1, <2>2
  <1>10. sizes[1] = from /\ sizes[n + m + 1] = to
    <2>1. sizes[1] = f[1]
      <3>1. 1 \in 1..(n + 1)
        BY <1>3
      <3> QED
        BY <1>7, <3>1
    <2>2. sizes[n + m + 1] = g[m + 1]
      <3> DEFINE last == n + m + 1
      <3>1. last \in (n + 1)..(n + m + 1) /\ last - n = m + 1
        BY <1>3
      <3>2. sizes[last] = g[last - n]
        <4> HIDE DEF last
        <4> QED
          BY <1>8, <3>1
      <3> QED
        BY <3>1, <3>2
    <2> QED
      BY <1>4, <1>5, <2>1, <2>2
  <1>11. SizesFit(sizes, both, from, to)
    BY <1>3, <1>6, <1>9, <1>10 DEF SizesFit
  <1> QED
    BY <1>11 DEF Fits, both

LEMMA FitsOne ==
    ASSUME NEW T, NEW writes \in Seq(T), writes # <<>>, NEW from, NEW to,
           Fits(writes, from, to)
    PROVE  from \in Nat /\ \E next \in Nat : /\ WriteFits(Head(writes), from, next)
                                             /\ Fits(Tail(writes), next, to)
  <1>1. PICK sizes : SizesFit(sizes, writes, from, to)
    BY DEF Fits
  <1> DEFINE n == Len(writes)
             rest == Tail(writes)
             fewer == [i \in 1..n |-> sizes[i + 1]]
  <1>2. /\ n \in Nat \ {0} /\ Len(rest) = n - 1 /\ Head(writes) = writes[1]
        /\ \A i \in 1..(n - 1) : rest[i] = writes[i + 1]
    OBVIOUS
  <1>3. /\ sizes \in [1..(n + 1) -> Nat] /\ sizes[1] = from /\ sizes[n + 1] = to
        /\ \A i \in 1..n : WriteFits(writes[i], sizes[i], sizes[i + 1])
    BY <1>1 DEF SizesFit
  <1> HIDE DEF n, rest
  <1>4. sizes[2] \in Nat /\ WriteFits(Head(writes), from, sizes[2])
    <2>1. 1 \in 1..n /\ 2 \in 1..(n + 1) /\ 1 + 1 = 2
      BY <1>2
    <2> QED
      BY <1>2, <1>3, <2>1
  <1>5. \A i \in 1..n : i + 1 \in 1..(n + 1)
    BY <1>2
  <1>6. fewer \in [1..(Len(rest) + 1) -> Nat]
    BY <1>2, <1>3, <1>5
  <1>7. fewer[1] = sizes[2] /\ fewer[Len(rest) + 1] = to
    BY <1>2, <1>3
  <1>8. ASSUME NEW i \in 1..Len(rest)
        PROVE  WriteFits(rest[i], fewer[i], fewer[i + 1])
    <2>1. i \in 1..(n - 1) /\ i + 1 \in 1..n
      BY <1>2
    <2>2. fewer[i] = sizes[i + 1] /\ fewer[i + 1] = sizes[i + 1 + 1]
      BY <1>2, <2>1
    <2> QED
      BY <1>2, <1>3, <2>1, <2>2
  <1>9. SizesFit(fewer, rest, sizes[2], to)
    BY <1>6, <1>7, <1>8 DEF SizesFit
  <1>10. from \in Nat
    BY <1>2, <1>3
  <1> QED
    BY <1>4, <1>9, <1>10 DEF Fits, rest

-----------------------------------------------------------------------------
(***************************************************************************)
(* The plan, entry by entry.                                               *)
(***************************************************************************)

(* One step of Plan: where it puts the i-th entry, and the write for it.    *)
PlanRest(entries, acc, i) == RemoveFirst(acc.playlist, Key(entries, i))
PlanAt(entries, acc, i) == PlaceIn(PlanRest(entries, acc, i), acc.previous)
PlanWrite(entries, acc, i) ==
    IF entries[i].item = NoItem
    THEN Write("insert", NoItem, entries[i].id, entries[i].video, PlanAt(entries, acc, i))
    ELSE Write("move", entries[i].item, NewEntry, entries[i].video, PlanAt(entries, acc, i))
PlanStep(entries, stays, acc, i) ==
    IF Key(entries, i) \in stays
    THEN [acc EXCEPT !.previous = Key(entries, i)]
    ELSE [previous |-> Key(entries, i),
          playlist |-> InsertAt(PlanRest(entries, acc, i), PlanAt(entries, acc, i) + 1,
                                Key(entries, i)),
          writes |-> Append(acc.writes, PlanWrite(entries, acc, i))]

PlanAccs(V) == [previous : Int, playlist : Seq(Int), writes : Seq(WritesOf(V))]

LEMMA PlanStepTyped ==
    ASSUME NEW V, NEW entries \in OrdersOf(V), NEW stays, NEW acc \in PlanAccs(V),
           NEW i \in DOMAIN entries
    PROVE  /\ PlanStep(entries, stays, acc, i) \in PlanAccs(V)
           /\ Key(entries, i) = IF entries[i].item = 0 THEN -i ELSE entries[i].item
           /\ Key(entries, i) \in Int
           /\ PlanRest(entries, acc, i) \in Seq(Int)
           /\ PlanAt(entries, acc, i) \in 0..Len(PlanRest(entries, acc, i))
           /\ PlanWrite(entries, acc, i) \in WritesOf(V)
  <1> DEFINE key == Key(entries, i)
             rest == PlanRest(entries, acc, i)
             at == PlanAt(entries, acc, i)
             w == PlanWrite(entries, acc, i)
  <1>1. /\ acc.previous \in Int /\ acc.playlist \in Seq(Int)
        /\ acc.writes \in Seq(WritesOf(V))
        /\ acc = [previous |-> acc.previous, playlist |-> acc.playlist, writes |-> acc.writes]
    BY DEF PlanAccs
  <1>2. entries[i].id \in Nat /\ entries[i].video \in V /\ entries[i].item \in Nat /\ i \in Nat
    <2>1. entries[i] \in [id : Nat, video : V, item : Nat]
      BY EntryTyped
    <2>2. i \in Nat
      BY DEF OrdersOf
    <2> QED
      BY <2>1, <2>2
  <1>3. key = (IF entries[i].item = 0 THEN -i ELSE entries[i].item) /\ key \in Int
    BY <1>2 DEF Key, NoItem
  <1>4. rest \in Seq(Int) /\ Len(rest) \in Nat
    <2>1. rest \in Seq(Int)
      BY <1>1, RemoveFirstKeeps DEF PlanRest
    <2> QED
      BY <2>1
  <1>5. at \in 0..Len(rest)
    BY <1>4, PlaceInList DEF PlanAt
  <1>6. w \in WritesOf(V)
    <2>1. at \in Nat
      BY <1>4, <1>5
    <2> QED
      BY <1>2, <2>1 DEF PlanWrite, Write, WritesOf, NoItem, NewEntry, AddsItem
  <1>7. PlanStep(entries, stays, acc, i) \in PlanAccs(V)
    <2>1. CASE key \in stays
      <3>1. PlanStep(entries, stays, acc, i) =
                [previous |-> key, playlist |-> acc.playlist, writes |-> acc.writes]
        BY <1>1, <2>1 DEF PlanStep
      <3> QED
        BY <1>1, <1>3, <3>1 DEF PlanAccs
    <2>2. CASE key \notin stays
      <3> HIDE DEF key, rest, at, w
      <3>1. InsertAt(rest, at + 1, key) \in Seq(Int)
        <4>1. at + 1 \in 1..(Len(rest) + 1)
          BY <1>4, <1>5
        <4> QED
          BY <1>3, <1>4, <4>1, InsertAtKeeps
      <3>2. Append(acc.writes, w) \in Seq(WritesOf(V))
        BY <1>1, <1>6
      <3>3. PlanStep(entries, stays, acc, i) =
                [previous |-> key, playlist |-> InsertAt(rest, at + 1, key),
                 writes |-> Append(acc.writes, w)]
        BY <2>2 DEF PlanStep, key, rest, at, w
      <3> QED
        BY <1>3, <3>1, <3>2, <3>3 DEF PlanAccs
    <2> QED
      BY <2>1, <2>2
  <1> QED
    BY <1>3, <1>4, <1>5, <1>6, <1>7

OneAddEach(writes) ==
    \A i, j \in DOMAIN writes :
        AddsItem(writes[i]) /\ AddsItem(writes[j]) /\ writes[i].entry = writes[j].entry => i = j

(* Of the first k entries, one that awaits an item and is w's to add.       *)
AddsOneOf(entries, k, w) ==
    /\ AddsItem(w) /\ w.item = NoItem
    /\ \E j \in 1..k : entries[j].item = NoItem /\ entries[j].id = w.entry

MovesOneOf(entries, w) == w.kind = "move" /\ w.item \in HeldBy(entries)

(* What a plan goes through: a playlist of every item held and of the first  *)
(* k entries that await one, that the writes make of the one it began with. *)
Planning(V, entries, from, k, acc) ==
    /\ acc \in PlanAccs(V)
    /\ IsInjective(acc.playlist)
    /\ HeldBy(entries) \subseteq Range(acc.playlist)
    /\ Range(acc.playlist) \subseteq HeldBy(entries) \cup {-j : j \in 1..k}
    /\ Fits(acc.writes, from, Len(acc.playlist))
    /\ \A n \in DOMAIN acc.writes :
            AddsOneOf(entries, k, acc.writes[n]) \/ MovesOneOf(entries, acc.writes[n])
    /\ OneAddEach(acc.writes)

LEMMA PlanStepKeeps ==
    ASSUME NEW V, NEW entries \in OrdersOf(V), Distinct(entries),
           NewEntry \notin IdsOf(entries),
           NEW stays, NEW from, NEW k \in Nat, k + 1 \in DOMAIN entries,
           NEW acc, Planning(V, entries, from, k, acc)
    PROVE  Planning(V, entries, from, k + 1, PlanStep(entries, stays, acc, k + 1))
  <1> DEFINE i == k + 1
             key == Key(entries, i)
             rest == PlanRest(entries, acc, i)
             at == PlanAt(entries, acc, i)
             w == PlanWrite(entries, acc, i)
             new == PlanStep(entries, stays, acc, i)
  <1>1. /\ acc \in PlanAccs(V) /\ IsInjective(acc.playlist)
        /\ HeldBy(entries) \subseteq Range(acc.playlist)
        /\ Range(acc.playlist) \subseteq HeldBy(entries) \cup {-j : j \in 1..k}
        /\ Fits(acc.writes, from, Len(acc.playlist))
        /\ \A n \in DOMAIN acc.writes :
                AddsOneOf(entries, k, acc.writes[n]) \/ MovesOneOf(entries, acc.writes[n])
        /\ OneAddEach(acc.writes)
    BY DEF Planning
  <1>2. /\ new \in PlanAccs(V)
        /\ key = (IF entries[i].item = 0 THEN -i ELSE entries[i].item) /\ key \in Int
        /\ rest \in Seq(Int) /\ at \in 0..Len(rest) /\ w \in WritesOf(V)
    <2>1. i \in DOMAIN entries
      OBVIOUS
    <2> HIDE DEF i
    <2> QED
      BY <1>1, <2>1, PlanStepTyped
  <1>3. acc.playlist \in Seq(Int) /\ acc.writes \in Seq(WritesOf(V)) /\ i \in DOMAIN entries
    BY <1>1 DEF PlanAccs
  <1>4. /\ rest \in Seq(Int)
        /\ Len(rest) = IF key \in Range(acc.playlist) THEN Len(acc.playlist) - 1
                       ELSE Len(acc.playlist)
        /\ Range(rest) = Range(acc.playlist) \ {key} /\ IsInjective(rest)
    BY <1>1, <1>3, RemoveFirstKeeps DEF PlanRest
  <1>5. HeldBy(entries) \subseteq Nat \ {0}
    <2>1. \A j \in DOMAIN entries : entries[j].item \in Nat
      BY EntryTyped
    <2> QED
      BY <2>1 DEF HeldBy, NoItem
  <1>6. \A n \in DOMAIN acc.writes :
            AddsOneOf(entries, i, acc.writes[n]) \/ MovesOneOf(entries, acc.writes[n])
    BY <1>1 DEF AddsOneOf
  <1>7. {-j : j \in 1..k} \subseteq {-j : j \in 1..i}
    <2>1. \A j \in 1..k : j \in 1..i
      OBVIOUS
    <2> QED
      BY <2>1
  <1>8. CASE key \in stays
    <2>1. new.playlist = acc.playlist /\ new.writes = acc.writes
      BY <1>1, <1>8 DEF PlanStep, PlanAccs
    <2> HIDE DEF new, key, i
    <2>2. Range(acc.playlist) \subseteq HeldBy(entries) \cup {-j : j \in 1..i}
      BY <1>1, <1>7
    <2>3. Planning(V, entries, from, i, new)
      BY <1>1, <1>2, <1>6, <2>1, <2>2 DEF Planning
    <2> QED
      BY <2>3 DEF new, i
  <1>9. CASE key \notin stays
    <2>1. new.playlist = InsertAt(rest, at + 1, key) /\ new.writes = Append(acc.writes, w)
      BY <1>9 DEF PlanStep
    <2>2. w = IF entries[i].item = NoItem
              THEN Write("insert", NoItem, entries[i].id, entries[i].video, at)
              ELSE Write("move", entries[i].item, NewEntry, entries[i].video, at)
      BY DEF PlanWrite
    <2>3. i \in 1..i /\ i \in Nat \ {0}
      OBVIOUS
    <2>14. \A j \in 1..k : j # i /\ j \in DOMAIN entries
      <3>1. DOMAIN entries = 1..Len(entries) /\ Len(entries) \in Nat
        BY DEF OrdersOf
      <3> QED
        BY <3>1
    <2> HIDE DEF new, key, i, rest, at, w
    <2>4. /\ InsertAt(rest, at + 1, key) \in Seq(Int)
          /\ Len(InsertAt(rest, at + 1, key)) = Len(rest) + 1
          /\ Range(InsertAt(rest, at + 1, key)) = Range(rest) \cup {key}
          /\ IsInjective(InsertAt(rest, at + 1, key))
      <3>1. Len(rest) \in Nat
        BY <1>4
      <3>2. at + 1 \in 1..(Len(rest) + 1)
        BY <1>2, <3>1
      <3>3. key \notin Range(rest) /\ key \in Int
        BY <1>2, <1>4
      <3> DEFINE place == at + 1
      <3> HIDE DEF place
      <3>4. /\ InsertAt(rest, place, key) \in Seq(Int)
            /\ Len(InsertAt(rest, place, key)) = Len(rest) + 1
            /\ Range(InsertAt(rest, place, key)) = Range(rest) \cup {key}
            /\ IsInjective(InsertAt(rest, place, key))
        <4>1. place \in 1..(Len(rest) + 1) /\ rest \in Seq(Int) /\ key \in Int
          BY <1>4, <3>2, <3>3 DEF place
        <4>2. /\ InsertAt(rest, place, key) \in Seq(Int)
              /\ Len(InsertAt(rest, place, key)) = Len(rest) + 1
              /\ Range(InsertAt(rest, place, key)) = Range(rest) \cup {key}
              /\ IsInjective(rest) /\ key \notin Range(rest) =>
                    IsInjective(InsertAt(rest, place, key))
          BY <4>1, InsertAtKeeps
        <4> QED
          BY <1>4, <3>3, <4>2
      <3> QED
        BY <3>4 DEF place
    <2>5. Range(new.playlist) = Range(acc.playlist) \cup {key} /\ IsInjective(new.playlist)
      BY <1>4, <2>1, <2>4
    <2>6. Range(new.playlist) \subseteq HeldBy(entries) \cup {-j : j \in 1..i}
      <3>1. key \in HeldBy(entries) \cup {-j : j \in 1..i}
        BY <1>2, <1>3, <2>3 DEF HeldBy, NoItem
      <3> QED
        BY <1>1, <1>7, <2>5, <3>1
    <2>7. Len(new.playlist) = Len(rest) + 1 /\ Len(new.playlist) \in Nat
          /\ Len(acc.playlist) \in Nat
      BY <1>3, <1>4, <2>1, <2>4
    <2>8. WriteFits(w, Len(acc.playlist), Len(new.playlist))
      <3>1. CASE entries[i].item = NoItem
        <4>1. key = -i
          BY <1>2, <3>1 DEF NoItem
        <4>2. key \notin Range(acc.playlist)
          <5>1. key \notin HeldBy(entries)
            BY <1>5, <2>3, <4>1
          <5>2. \A j \in 1..k : key # -j
            BY <2>3, <2>14, <4>1
          <5> QED
            BY <1>1, <5>1, <5>2
        <4>3. Len(rest) = Len(acc.playlist)
          BY <1>4, <4>2
        <4>4. w.kind = "insert" /\ w.position = at
          BY <2>2, <3>1 DEF Write
        <4> QED
          BY <1>2, <2>7, <4>3, <4>4 DEF WriteFits
      <3>2. CASE entries[i].item # NoItem
        <4>1. key = entries[i].item
          BY <1>2, <3>2 DEF NoItem
        <4>2. key \in Range(acc.playlist)
          BY <1>1, <1>3, <3>2, <4>1 DEF HeldBy
        <4>3. Len(rest) = Len(acc.playlist) - 1
          BY <1>4, <4>2
        <4>4. w.kind = "move" /\ w.position = at
          BY <2>2, <3>2 DEF Write
        <4> QED
          BY <1>2, <2>7, <4>3, <4>4 DEF WriteFits
      <3> QED
        BY <3>1, <3>2
    <2>9. Fits(new.writes, from, Len(new.playlist))
      BY <1>1, <1>2, <1>3, <2>1, <2>7, <2>8, FitsAppend
    <2>10. AddsOneOf(entries, i, w) \/ MovesOneOf(entries, w)
      <3>1. CASE entries[i].item = NoItem
        BY <2>2, <2>3, <3>1 DEF AddsOneOf, AddsItem, Write
      <3>2. CASE entries[i].item # NoItem
        <4>1. entries[i].item \in HeldBy(entries)
          BY <1>3, <3>2 DEF HeldBy
        <4> QED
          BY <2>2, <3>2, <4>1 DEF MovesOneOf, Write
      <3> QED
        BY <3>1, <3>2
    <2>11. /\ DOMAIN new.writes = 1..(Len(acc.writes) + 1) /\ Len(acc.writes) \in Nat
           /\ DOMAIN acc.writes = 1..Len(acc.writes)
           /\ new.writes[Len(acc.writes) + 1] = w
           /\ \A n \in 1..Len(acc.writes) : new.writes[n] = acc.writes[n]
      BY <1>2, <1>3, <2>1
    <2>12. \A n \in DOMAIN new.writes :
              AddsOneOf(entries, i, new.writes[n]) \/ MovesOneOf(entries, new.writes[n])
      <3> TAKE n \in DOMAIN new.writes
      <3>1. CASE n = Len(acc.writes) + 1
        BY <2>10, <2>11, <3>1
      <3>2. CASE n # Len(acc.writes) + 1
        <4>1. n \in 1..Len(acc.writes)
          BY <2>11, <3>2
        <4> QED
          BY <1>6, <2>11, <4>1
      <3> QED
        BY <3>1, <3>2
    <2>13. OneAddEach(new.writes)
      <3>1. ASSUME AddsItem(w), NEW n \in DOMAIN acc.writes, AddsItem(acc.writes[n])
            PROVE  acc.writes[n].entry # w.entry
        <4>1. PICK j \in 1..k : entries[j].item = NoItem /\ entries[j].id = acc.writes[n].entry
          BY <1>1, <3>1 DEF AddsOneOf, MovesOneOf, AddsItem
        <4>2. w.entry = entries[i].id
          BY <2>2, <3>1 DEF AddsItem, Write
        <4>3. j # i /\ j \in DOMAIN entries /\ entries[j].id # NewEntry
          BY <2>14 DEF IdsOf
        <4> QED
          BY <1>3, <4>1, <4>2, <4>3 DEF Distinct
      <3> SUFFICES ASSUME NEW a \in DOMAIN new.writes, NEW b \in DOMAIN new.writes,
                          AddsItem(new.writes[a]), AddsItem(new.writes[b]),
                          new.writes[a].entry = new.writes[b].entry
                   PROVE  a = b
        BY DEF OneAddEach
      <3> DEFINE last == Len(acc.writes) + 1
      <3>2. \A n \in DOMAIN new.writes : n # last => n \in DOMAIN acc.writes
        BY <2>11
      <3> HIDE DEF last
      <3>3. /\ new.writes[last] = w
            /\ \A n \in DOMAIN acc.writes : new.writes[n] = acc.writes[n]
        BY <2>11 DEF last
      <3>4. CASE a # last /\ b # last
        <4>1. a \in DOMAIN acc.writes /\ b \in DOMAIN acc.writes
          BY <3>2, <3>4
        <4>2. new.writes[a] = acc.writes[a] /\ new.writes[b] = acc.writes[b]
          BY <3>3, <4>1
        <4> QED
          BY <1>1, <4>1, <4>2 DEF OneAddEach
      <3>5. CASE a = last
        BY <3>1, <3>2, <3>3, <3>5
      <3>6. CASE b = last
        BY <3>1, <3>2, <3>3, <3>6
      <3> QED
        BY <3>4, <3>5, <3>6
    <2>15. Planning(V, entries, from, i, new)
      BY <1>1, <1>2, <2>5, <2>6, <2>9, <2>12, <2>13 DEF Planning
    <2> QED
      BY <2>15 DEF new, i
  <1> QED
    BY <1>8, <1>9

(* What Plan makes of entries and of the items left of the read.            *)
PlanSteps(entries, left, stays) ==
    FoldLeftDomain(LAMBDA acc, i : PlanStep(entries, stays, acc, i),
                   [previous |-> 0, playlist |-> left, writes |-> <<>>], entries)

LEMMA PlanStepsKeep ==
    ASSUME NEW V, NEW entries \in OrdersOf(V), Distinct(entries),
           NewEntry \notin IdsOf(entries),
           NEW stays, NEW left \in Seq(Int), IsInjective(left),
           Range(left) = HeldBy(entries)
    PROVE  Planning(V, entries, Len(left), Len(entries), PlanSteps(entries, left, stays))
  <1> DEFINE n == Len(entries)
             order == [i \in DOMAIN entries |-> i]
             Q == PlanAccs(V)
             base == [previous |-> 0, playlist |-> left, writes |-> <<>>]
             Steps(it) == it = [s \in SUBSET (1..n) |->
                                    IF s = {} THEN base
                                    ELSE PlanStep(entries, stays, it[s \ {Max(s)}],
                                                  order[Max(s)])]
             it == CHOOSE it : Steps(it)
             G == [step \in (1..n) \X Q |-> PlanStep(entries, stays, step[2], step[1])]
  <1>1. n \in Nat /\ DOMAIN entries = 1..n /\ DOMAIN order = 1..n
    BY DEF OrdersOf
  <1>2. PlanSteps(entries, left, stays) = it[1..n]
    BY <1>1 DEF PlanSteps, FoldLeftDomain, FoldLeft, MapThenFoldSet
  <1>3. base \in Q
    BY DEF PlanAccs
  <1>4. G \in [(1..n) \X Q -> Q]
    BY <1>1, PlanStepTyped
  <1>14. Planning(V, entries, Len(left), 0, base)
    <2>1. Fits(base.writes, Len(left), Len(left))
      <3>1. Len(left) \in Nat
        OBVIOUS
      <3> QED
        BY <3>1, FitsNone
    <2> QED
      BY <1>3, <2>1 DEF Planning, OneAddEach
  <1> HIDE DEF base
  <1>5. PICK g \in [SUBSET (1..n) -> Q] : IsFold(n, base, G, g)
    <2> HIDE DEF G, Q, n
    <2> QED
      BY <1>1, <1>3, <1>4, FoldExists
  <1>6. \A s \in SUBSET (1..n) : s # {} => Max(s) \in s /\ order[Max(s)] = Max(s)
    <2>1. \A s \in SUBSET (1..n) : s # {} => Max(s) \in s
      BY <1>1, MaxOfSome
    <2> QED
      BY <1>1, <2>1
  <1> HIDE DEF order
  <1>7. Steps(g)
    <2>1. \A s \in SUBSET (1..n) :
                g[s] = IF s = {} THEN base
                       ELSE PlanStep(entries, stays, g[s \ {Max(s)}], order[Max(s)])
      <3> SUFFICES ASSUME NEW s \in SUBSET (1..n)
                   PROVE  g[s] = IF s = {} THEN base
                                 ELSE PlanStep(entries, stays, g[s \ {Max(s)}], order[Max(s)])
        OBVIOUS
      <3>1. CASE s = {}
        BY <1>5, <3>1 DEF IsFold
      <3>2. CASE s # {}
        <4>1. g[s] = G[<<Max(s), g[s \ {Max(s)}]>>] /\ order[Max(s)] = Max(s) /\ Max(s) \in 1..n
          BY <1>5, <1>6, <3>2 DEF IsFold
        <4>2. g[s \ {Max(s)}] \in Q
          <5> HIDE DEF Q
          <5> QED
            BY <1>5
        <4>3. G[<<Max(s), g[s \ {Max(s)}]>>] =
                    PlanStep(entries, stays, g[s \ {Max(s)}], Max(s))
          <5> HIDE DEF Q, n
          <5> QED
            BY <4>1, <4>2
        <4> QED
          BY <3>2, <4>1, <4>3
      <3> QED
        BY <3>1, <3>2
    <2> QED
      BY <2>1
  <1>8. Steps(it)
    BY <1>7
  <1> HIDE DEF it
  <1>9. TakesSteps(n, Q, base, G, it)
    <2>1. it[{}] = base
      BY <1>8
    <2>2. ASSUME NEW s \in SUBSET (1..n), s # {}, it[s \ {Max(s)}] \in Q
          PROVE  it[s] = G[<<Max(s), it[s \ {Max(s)}]>>]
      <3>1. it[s] = PlanStep(entries, stays, it[s \ {Max(s)}], order[Max(s)])
        BY <1>8, <2>2
      <3>2. order[Max(s)] = Max(s) /\ Max(s) \in 1..n
        BY <1>6, <2>2
      <3>3. G[<<Max(s), it[s \ {Max(s)}]>>] = PlanStep(entries, stays, it[s \ {Max(s)}], Max(s))
        <4> HIDE DEF Q, n
        <4> QED
          BY <2>2, <3>2
      <3> QED
        BY <3>1, <3>2, <3>3
    <2> QED
      BY <2>1, <2>2 DEF TakesSteps
  <1>10. /\ it[1..0] = base
         /\ \A k \in 0..n : it[1..k] \in Q
         /\ \A k \in 0..(n - 1) : it[1..(k + 1)] = G[<<k + 1, it[1..k]>>]
    <2> HIDE DEF G, n, Q
    <2>1. FoldGoes(n, Q, base, G, it)
      BY <1>1, <1>3, <1>4, <1>9, FoldSteps
    <2> QED
      BY <2>1 DEF FoldGoes
  <1> DEFINE All == {k \in Nat : k <= n =>
                        Planning(V, entries, Len(left), k, it[1..k])}
  <1>11. 0 \in All
    BY <1>10, <1>14
  <1>12. ASSUME NEW k \in Nat, k \in All PROVE k + 1 \in All
    <2> SUFFICES ASSUME k + 1 <= n
                 PROVE  Planning(V, entries, Len(left), k + 1, it[1..(k + 1)])
      OBVIOUS
    <2>1. k \in 0..(n - 1) /\ k \in 0..n /\ k + 1 \in 1..n /\ k <= n
      BY <1>1
    <2>2. it[1..k] \in Q /\ k + 1 \in DOMAIN entries
      BY <1>1, <1>10, <2>1
    <2>3. it[1..(k + 1)] = PlanStep(entries, stays, it[1..k], k + 1)
      <3>1. it[1..(k + 1)] = G[<<k + 1, it[1..k]>>]
        BY <1>10, <2>1
      <3>2. G[<<k + 1, it[1..k]>>] = PlanStep(entries, stays, it[1..k], k + 1)
        <4> HIDE DEF Q, n
        <4> QED
          BY <2>1, <2>2
      <3> QED
        BY <3>1, <3>2
    <2>4. Planning(V, entries, Len(left), k, it[1..k])
      BY <1>12, <2>1
    <2> DEFINE acc == it[1..k]
               from == Len(left)
    <2> HIDE DEF acc, from
    <2>5. Planning(V, entries, from, k + 1, PlanStep(entries, stays, acc, k + 1))
      <3>1. Planning(V, entries, from, k, acc)
        BY <2>4 DEF acc, from
      <3> QED
        BY <2>2, <3>1, PlanStepKeeps
    <2> QED
      BY <2>3, <2>5 DEF acc, from
  <1>13. n \in All
    <2> HIDE DEF All
    <2> QED
      BY <1>1, <1>11, <1>12, Induct
  <1> QED
    BY <1>1, <1>2, <1>13

-----------------------------------------------------------------------------
(* What a plan asks of YouTube: that it delete items no entry holds, add an  *)
(* item for an entry that awaits one, and move items entries hold; each     *)
(* delete and each addition once, and each write one YouTube accepts.       *)
DeletesOneOf(read, entries, w) ==
    w.kind = "delete" /\ w.item \in IdsOf(read) \ HeldBy(entries)

OneDeleteEach(writes) ==
    \A i, j \in DOMAIN writes :
        writes[i].kind = "delete" /\ writes[j].kind = "delete"
            /\ writes[i].item = writes[j].item => i = j

Planned(V, read, entries, writes) ==
    /\ writes \in Seq(WritesOf(V))
    /\ \A n \in DOMAIN writes :
            \/ DeletesOneOf(read, entries, writes[n])
            \/ AddsOneOf(entries, Len(entries), writes[n])
            \/ MovesOneOf(entries, writes[n])
    /\ OneAddEach(writes) /\ OneDeleteEach(writes)
    /\ \E to : Fits(writes, Len(read), to)

LEMMA DeletesKeep ==
    ASSUME NEW V, NEW read \in ItemsOf(V), NEW entries
    PROVE  /\ Deletes(read, entries) \in Seq(WritesOf(V))
           /\ \A n \in DOMAIN Deletes(read, entries) :
                DeletesOneOf(read, entries, Deletes(read, entries)[n])
           /\ OneDeleteEach(Deletes(read, entries))
           /\ Fits(Deletes(read, entries), Len(read), Len(Left(read, entries)))
           /\ Left(read, entries) \in Seq(Int) /\ IsInjective(Left(read, entries))
           /\ Range(Left(read, entries)) = IdsOf(read) \cap HeldBy(entries)
  <1> DEFINE ids == ItemIds(read)
             lost == Only(ids, IdsOf(read) \ HeldBy(entries))
             left == Left(read, entries)
             deletes == Deletes(read, entries)
             size == Len(read)
  <1>1. /\ ids \in Seq(Int) /\ ids \in Seq(Nat \ {0}) /\ IsInjective(ids)
        /\ Range(ids) = IdsOf(read) /\ Len(ids) = size
    BY ItemIdsOf
  <1> HIDE DEF ids
  <1>2. /\ lost \in Seq(Nat \ {0}) /\ IsInjective(lost)
        /\ Range(lost) = IdsOf(read) \ HeldBy(entries)
    BY <1>1, OnlyKeeps
  <1>3. left \in Seq(Int) /\ IsInjective(left) /\ Range(left) = IdsOf(read) \cap HeldBy(entries)
    BY <1>1, OnlyKeeps DEF Left, ids
  <1>4. Len(left) + Len(lost) = size
    <2>1. \A i \in 1..Len(ids) : ids[i] \in HeldBy(entries)
                                    <=> ids[i] \notin IdsOf(read) \ HeldBy(entries)
      <3>1. DOMAIN ids = 1..Len(ids)
        BY <1>1
      <3> QED
        BY <1>1, <3>1 DEF Range
    <2> DEFINE S == HeldBy(entries)
               R == IdsOf(read) \ HeldBy(entries)
    <2>2. Len(Only(ids, S)) + Len(Only(ids, R)) = Len(ids)
      <3> HIDE DEF S, R
      <3> QED
        BY <1>1, <2>1, OnlySplits DEF S, R
    <2> QED
      BY <1>1, <2>2 DEF Left, ids
  <1>5. /\ size \in Nat /\ Len(left) \in Nat /\ Len(lost) \in Nat
        /\ DOMAIN lost = 1..Len(lost)
        /\ \A i \in 1..Len(lost) : lost[i] \in Nat \ {0}
    <2>1. size \in Nat
      BY <1>1
    <2> HIDE DEF lost, left, size
    <2> QED
      BY <1>2, <1>3, <2>1
  <1>6. deletes = [i \in 1..Len(lost) |-> Write("delete", lost[i], NewEntry, 0, 0)]
    BY <1>5 DEF Deletes, ids
  <1> HIDE DEF lost, left, deletes, size
  <1>7. \A i \in 1..Len(lost) : Write("delete", lost[i], NewEntry, 0, 0) \in WritesOf(V)
    BY <1>5 DEF Write, WritesOf, NewEntry, AddsItem
  <1>8. /\ deletes \in Seq(WritesOf(V)) /\ Len(deletes) = Len(lost)
        /\ DOMAIN deletes = 1..Len(lost)
    BY <1>5, <1>6, <1>7
  <1>9. \A i \in 1..Len(lost) : deletes[i].kind = "delete" /\ deletes[i].item = lost[i]
    BY <1>6 DEF Write
  <1>10. \A n \in DOMAIN deletes : DeletesOneOf(read, entries, deletes[n])
    BY <1>2, <1>5, <1>8, <1>9 DEF DeletesOneOf, Range
  <1>11. OneDeleteEach(deletes)
    BY <1>2, <1>5, <1>8, <1>9 DEF OneDeleteEach, IsInjective
  <1>12. Fits(deletes, size, Len(left))
    <2> DEFINE sizes == [i \in 1..(Len(lost) + 1) |-> size + 1 - i]
    <2>1. \A i \in 1..(Len(lost) + 1) : size + 1 - i \in Nat
      BY <1>4, <1>5
    <2>2. sizes \in [1..(Len(deletes) + 1) -> Nat]
      BY <1>8, <2>1
    <2>3. sizes[1] = size /\ sizes[Len(deletes) + 1] = Len(left)
      BY <1>4, <1>5, <1>8
    <2>4. \A i \in 1..Len(deletes) : WriteFits(deletes[i], sizes[i], sizes[i + 1])
      BY <1>5, <1>8, <1>9 DEF WriteFits
    <2>5. SizesFit(sizes, deletes, size, Len(left))
      BY <2>2, <2>3, <2>4 DEF SizesFit
    <2> QED
      BY <2>5 DEF Fits
  <1> QED
    BY <1>3, <1>8, <1>10, <1>11, <1>12 DEF deletes, left, size

(* The deletes of a plan and the writes that follow them.                   *)
LEMMA DeletesThenOthers ==
    ASSUME NEW V, NEW read \in ItemsOf(V), NEW entries,
           NEW others \in Seq(WritesOf(V)), NEW to,
           \A n \in DOMAIN others : \/ AddsOneOf(entries, Len(entries), others[n])
                                    \/ MovesOneOf(entries, others[n]),
           OneAddEach(others), Fits(others, Len(Left(read, entries)), to)
    PROVE  Planned(V, read, entries, Deletes(read, entries) \o others)
  <1> DEFINE T == WritesOf(V)
             deletes == Deletes(read, entries)
             mid == Len(Left(read, entries))
             n == Len(deletes)
             m == Len(others)
             both == deletes \o others
  <1>1. /\ deletes \in Seq(T)
        /\ \A k \in DOMAIN deletes : DeletesOneOf(read, entries, deletes[k])
        /\ OneDeleteEach(deletes) /\ Fits(deletes, Len(read), mid)
    BY DeletesKeep
  <1> HIDE DEF T, deletes, mid
  <1>2. others \in Seq(T) /\ Fits(others, mid, to)
    BY DEF T, mid
  <1>3. Fits(both, Len(read), to)
    BY <1>1, <1>2, FitsBoth
  <1>4. /\ n \in Nat /\ m \in Nat /\ both \in Seq(T)
        /\ DOMAIN deletes = 1..n /\ DOMAIN others = 1..m /\ DOMAIN both = 1..(n + m)
        /\ \A i \in 1..(n + m) : both[i] = IF i <= n THEN deletes[i] ELSE others[i - n]
    BY <1>1, <1>2, ConcatProperties
  <1> HIDE DEF n, m, both
  <1>5. \A i \in DOMAIN both :
            \/ i \in DOMAIN deletes /\ both[i] = deletes[i]
            \/ i - n \in DOMAIN others /\ both[i] = others[i - n]
    BY <1>4
  <1>6. \A i \in DOMAIN deletes : deletes[i].kind = "delete"
    BY <1>1 DEF DeletesOneOf
  <1>7. \A i \in DOMAIN others : others[i].kind # "delete"
    BY DEF AddsOneOf, MovesOneOf, AddsItem
  <1>8. \A i \in DOMAIN both : \/ DeletesOneOf(read, entries, both[i])
                               \/ AddsOneOf(entries, Len(entries), both[i])
                               \/ MovesOneOf(entries, both[i])
    BY <1>1, <1>5
  <1>9. OneAddEach(both)
    <2> SUFFICES ASSUME NEW i \in DOMAIN both, NEW j \in DOMAIN both,
                        AddsItem(both[i]), AddsItem(both[j]), both[i].entry = both[j].entry
                 PROVE  i = j
      BY DEF OneAddEach
    <2>1. /\ i - n \in DOMAIN others /\ both[i] = others[i - n]
          /\ j - n \in DOMAIN others /\ both[j] = others[j - n]
      BY <1>5, <1>6 DEF AddsItem
    <2>2. i - n = j - n
      BY <2>1 DEF OneAddEach
    <2> QED
      BY <1>4, <2>2
  <1>10. OneDeleteEach(both)
    <2> SUFFICES ASSUME NEW i \in DOMAIN both, NEW j \in DOMAIN both,
                        both[i].kind = "delete", both[j].kind = "delete",
                        both[i].item = both[j].item
                 PROVE  i = j
      BY DEF OneDeleteEach
    <2>1. /\ i \in DOMAIN deletes /\ both[i] = deletes[i]
          /\ j \in DOMAIN deletes /\ both[j] = deletes[j]
      BY <1>5, <1>7
    <2> QED
      BY <1>1, <2>1 DEF OneDeleteEach
  <1> QED
    BY <1>3, <1>4, <1>8, <1>9, <1>10 DEF Planned, T, both, deletes

LEMMA PlanKeeps ==
    ASSUME NEW V, NEW read \in ItemsOf(V), NEW entries \in OrdersOf(V), Distinct(entries),
           NewEntry \notin IdsOf(entries), HeldBy(entries) \subseteq IdsOf(read)
    PROVE  Planned(V, read, entries, Plan(read, entries))
  <1> DEFINE left == Left(read, entries)
             kept == Only([i \in DOMAIN entries |-> entries[i].item], Range(left))
             stays == LongestIncreasing(kept, left)
             end == PlanSteps(entries, left, stays)
  <1>1. left \in Seq(Int) /\ IsInjective(left) /\ Range(left) = HeldBy(entries)
    <2>1. /\ left \in Seq(Int) /\ IsInjective(left)
          /\ Range(left) = IdsOf(read) \cap HeldBy(entries)
      BY DeletesKeep
    <2> QED
      BY <2>1
  <1>2. Plan(read, entries) = Deletes(read, entries) \o end.writes
    BY DEF Plan, PlanSteps, PlanStep, PlanWrite, PlanAt, PlanRest
  <1> HIDE DEF stays, kept, left
  <1>3. Planning(V, entries, Len(left), Len(entries), end)
    BY <1>1, PlanStepsKeep
  <1> HIDE DEF end
  <1>4. /\ end.writes \in Seq(WritesOf(V)) /\ OneAddEach(end.writes)
        /\ \A n \in DOMAIN end.writes :
                AddsOneOf(entries, Len(entries), end.writes[n])
                    \/ MovesOneOf(entries, end.writes[n])
        /\ Fits(end.writes, Len(left), Len(end.playlist))
    BY <1>3 DEF Planning, PlanAccs
  <1> DEFINE others == end.writes
             to == Len(end.playlist)
  <1> HIDE DEF others, to
  <1>5. /\ others \in Seq(WritesOf(V)) /\ OneAddEach(others)
        /\ \A n \in DOMAIN others :
                AddsOneOf(entries, Len(entries), others[n]) \/ MovesOneOf(entries, others[n])
        /\ Fits(others, Len(Left(read, entries)), to)
    BY <1>4 DEF others, to, left
  <1>6. Planned(V, read, entries, Deletes(read, entries) \o others)
    BY <1>5, DeletesThenOthers
  <1> QED
    BY <1>2, <1>6 DEF others

LEMMA PlanAppendsKeep ==
    ASSUME NEW V, NEW read \in ItemsOf(V), NEW entries \in OrdersOf(V), Distinct(entries),
           NewEntry \notin IdsOf(entries)
    PROVE  Planned(V, read, entries, PlanAppends(read, entries))
  <1> DEFINE T == [id : Nat, video : V, item : Nat]
             S == {e \in Range(entries) : e.item = NoItem}
             waiting == Only(entries, S)
             appends == [i \in DOMAIN waiting |->
                            Write("append", NoItem, waiting[i].id, waiting[i].video, 0)]
             left == Left(read, entries)
  <1>1. entries \in Seq(T) /\ Len(entries) \in Nat /\ DOMAIN entries = 1..Len(entries)
    BY DEF OrdersOf
  <1>2. PlanAppends(read, entries) = Deletes(read, entries) \o appends
    BY DEF PlanAppends
  <1>3. waiting \in Seq(T) /\ \E at : Enumerates(at, waiting, entries, S, Len(entries))
    <2> HIDE DEF S, T
    <2> QED
      BY <1>1, OnlyPlaces
  <1> HIDE DEF waiting
  <1>4. PICK at : Enumerates(at, waiting, entries, S, Len(entries))
    BY <1>3
  <1>5. Len(waiting) \in Nat /\ DOMAIN waiting = 1..Len(waiting)
    BY <1>3
  <1>6. ASSUME NEW i \in 1..Len(waiting)
        PROVE  /\ at[i] \in DOMAIN entries /\ waiting[i] = entries[at[i]]
               /\ waiting[i].item = NoItem /\ waiting[i].id \in Nat /\ waiting[i].id # NewEntry
               /\ waiting[i].video \in V
    <2>1. at[i] \in DOMAIN entries /\ waiting[i] = entries[at[i]] /\ entries[at[i]] \in S
      BY <1>1, <1>4 DEF Enumerates
    <2>2. entries[at[i]] \in T
      BY <2>1, EntryTyped
    <2> QED
      BY <2>1, <2>2 DEF IdsOf
  <1>7. \A i \in 1..Len(waiting) :
            Write("append", NoItem, waiting[i].id, waiting[i].video, 0) \in WritesOf(V)
    BY <1>6 DEF Write, WritesOf, NoItem, AddsItem
  <1>8. /\ appends \in Seq(WritesOf(V)) /\ Len(appends) = Len(waiting)
        /\ DOMAIN appends = 1..Len(waiting)
        /\ \A i \in 1..Len(waiting) : appends[i].kind = "append" /\ appends[i].item = NoItem
                                        /\ appends[i].entry = waiting[i].id
    BY <1>5, <1>7 DEF Write
  <1> HIDE DEF appends
  <1>9. \A n \in DOMAIN appends : AddsOneOf(entries, Len(entries), appends[n])
    <2> TAKE n \in DOMAIN appends
    <2>1. at[n] \in 1..Len(entries) /\ entries[at[n]].item = NoItem
          /\ entries[at[n]].id = appends[n].entry
      BY <1>1, <1>6, <1>8
    <2> QED
      BY <1>8, <2>1 DEF AddsOneOf, AddsItem
  <1>10. OneAddEach(appends)
    <2> SUFFICES ASSUME NEW i \in DOMAIN appends, NEW j \in DOMAIN appends,
                        appends[i].entry = appends[j].entry
                 PROVE  i = j
      BY DEF OneAddEach
    <2>1. entries[at[i]].id = entries[at[j]].id /\ entries[at[i]].id # NewEntry
          /\ at[i] \in DOMAIN entries /\ at[j] \in DOMAIN entries
      BY <1>6, <1>8
    <2>2. at[i] = at[j]
      BY <2>1 DEF Distinct
    <2>3. i \in 1..Len(waiting) /\ j \in 1..Len(waiting) /\ at[i] \in Nat /\ at[j] \in Nat
      BY SMTT(30), <1>1, <1>8, <2>1
    <2> QED
      BY <1>4, <1>5, <2>2, <2>3 DEF Enumerates
  <1>11. \E to : Fits(appends, Len(left), to)
    <2> DEFINE sizes == [i \in 1..(Len(waiting) + 1) |-> Len(left) + i - 1]
    <2>1. Len(left) \in Nat
      <3>1. left \in Seq(Int)
        BY DeletesKeep
      <3> QED
        BY <3>1
    <2> HIDE DEF left
    <2>2. \A i \in 1..(Len(waiting) + 1) : Len(left) + i - 1 \in Nat
      BY <1>5, <2>1
    <2>3. sizes \in [1..(Len(appends) + 1) -> Nat]
      BY <1>8, <2>2
    <2>4. sizes[1] = Len(left)
      BY <1>5, <2>1
    <2>5. \A i \in 1..Len(appends) : WriteFits(appends[i], sizes[i], sizes[i + 1])
      BY <1>5, <1>8, <2>1 DEF WriteFits
    <2>6. SizesFit(sizes, appends, Len(left), sizes[Len(appends) + 1])
      BY <2>3, <2>4, <2>5 DEF SizesFit
    <2> QED
      BY <2>6 DEF Fits
  <1>12. PICK to : Fits(appends, Len(left), to)
    BY <1>11
  <1>13. Planned(V, read, entries, Deletes(read, entries) \o appends)
    BY <1>8, <1>9, <1>10, <1>12, DeletesThenOthers
  <1> QED
    BY <1>2, <1>13

LEMMA PlanForKeeps ==
    ASSUME NEW V, NEW read \in ItemsOf(V), NEW entries \in OrdersOf(V), Distinct(entries),
           NewEntry \notin IdsOf(entries), HeldBy(entries) \subseteq IdsOf(read), NEW sort
    PROVE  Planned(V, read, entries, PlanFor(sort, read, entries))
  BY PlanKeeps, PlanAppendsKeep DEF PlanFor

-----------------------------------------------------------------------------
(***************************************************************************)
(* The order of two lists of distinct keys.                                *)
(***************************************************************************)
Before(list, x, y) ==
    \E i, j \in DOMAIN list : i < j /\ list[i] = x /\ list[j] = y

(* No two keys of S that both lists have are the other way round in one.    *)
SameOrder(S, a, b) == \A x, y \in S : ~(Before(a, x, y) /\ Before(b, y, x))

LEMMA BeforeOnce ==
    ASSUME NEW T, NEW list \in Seq(T), IsInjective(list), NEW x, NEW y, Before(list, x, y)
    PROVE  ~Before(list, y, x) /\ x \in Range(list) /\ y \in Range(list) /\ x # y
  <1>1. DOMAIN list = 1..Len(list) /\ Len(list) \in Nat
    OBVIOUS
  <1>2. PICK i \in DOMAIN list, j \in DOMAIN list : i < j /\ list[i] = x /\ list[j] = y
    BY DEF Before
  <1>3. \A k \in DOMAIN list : (list[k] = x => k = i) /\ (list[k] = y => k = j)
    BY <1>2 DEF IsInjective
  <1>4. ~Before(list, y, x)
    <2> SUFFICES ASSUME NEW k \in DOMAIN list, NEW l \in DOMAIN list,
                        k < l, list[k] = y, list[l] = x
                 PROVE  FALSE
      BY DEF Before
    <2>1. k = j /\ l = i
      BY <1>3
    <2> QED
      BY <1>1, <1>2, <2>1
  <1>5. x # y
    BY <1>1, <1>2, <1>3
  <1> QED
    BY <1>2, <1>4, <1>5 DEF Range

LEMMA BeforeOrAfter ==
    ASSUME NEW T, NEW list \in Seq(T), NEW x \in Range(list), NEW y \in Range(list), x # y
    PROVE  Before(list, x, y) \/ Before(list, y, x)
  <1>1. DOMAIN list = 1..Len(list) /\ Len(list) \in Nat
    OBVIOUS
  <1>2. PICK i \in DOMAIN list, j \in DOMAIN list : list[i] = x /\ list[j] = y
    BY DEF Range
  <1>3. i < j \/ j < i
    BY <1>1, <1>2
  <1> QED
    BY <1>2, <1>3 DEF Before

(* Two lists of the same distinct keys, none the other way round, are one.  *)
LEMMA SamePlaces ==
    ASSUME NEW T, NEW a \in Seq(T), NEW b \in Seq(T), IsInjective(a), IsInjective(b),
           Range(a) = Range(b), SameOrder(Range(a), a, b)
    PROVE  \A k \in DOMAIN a : k \in DOMAIN b /\ a[k] = b[k]
  <1> DEFINE Bad == {k \in DOMAIN a : ~(k \in DOMAIN b /\ a[k] = b[k])}
  <1>1. /\ DOMAIN a = 1..Len(a) /\ Len(a) \in Nat
        /\ DOMAIN b = 1..Len(b) /\ Len(b) \in Nat
    OBVIOUS
  <1> SUFFICES ASSUME Bad # {} PROVE FALSE
    OBVIOUS
  <1>2. Bad \in SUBSET Nat
    BY <1>1
  <1> HIDE DEF Bad
  <1>3. PICK k \in Bad : \A m \in Bad : k <= m
    BY <1>2, Least
  <1>4. k \in DOMAIN a /\ ~(k \in DOMAIN b /\ a[k] = b[k])
    BY <1>3 DEF Bad
  <1>5. \A m \in DOMAIN a : m < k => m \in DOMAIN b /\ a[m] = b[m]
    <2> TAKE m \in DOMAIN a
    <2> HAVE m < k
    <2>1. m \notin Bad
      BY <1>1, <1>2, <1>3
    <2> QED
      BY <2>1 DEF Bad
  <1>6. PICK j \in DOMAIN b : b[j] = a[k]
    BY <1>4 DEF Range
  <1>7. j > k
    <2>1. CASE j < k
      <3>1. j \in DOMAIN a
        BY <1>1, <1>4, <2>1
      <3>2. a[j] = a[k]
        BY <1>5, <1>6, <2>1, <3>1
      <3> QED
        BY <1>1, <1>4, <2>1, <3>1, <3>2 DEF IsInjective
    <2>2. j # k
      BY <1>4, <1>6
    <2> QED
      BY <1>1, <1>4, <2>1, <2>2
  <1>8. k \in DOMAIN b
    BY <1>1, <1>4, <1>7
  <1>9. PICK m \in DOMAIN a : a[m] = b[k]
    BY <1>8 DEF Range
  <1>10. m > k
    <2>1. CASE m < k
      <3>1. m \in DOMAIN b /\ b[m] = b[k]
        BY <1>5, <1>9, <2>1
      <3> QED
        BY <1>1, <1>8, <2>1, <3>1 DEF IsInjective
    <2>2. m # k
      BY <1>4, <1>8, <1>9
    <2> QED
      BY <1>1, <1>4, <2>1, <2>2
  <1>11. Before(a, a[k], b[k]) /\ Before(b, b[k], a[k])
    BY <1>4, <1>6, <1>7, <1>8, <1>9, <1>10 DEF Before
  <1>12. a[k] \in Range(a) /\ b[k] \in Range(a)
    BY <1>4, <1>8 DEF Range
  <1> QED
    BY <1>11, <1>12 DEF SameOrder

LEMMA SameOrderIsSame ==
    ASSUME NEW T, NEW a \in Seq(T), NEW b \in Seq(T), IsInjective(a), IsInjective(b),
           Range(a) = Range(b), SameOrder(Range(a), a, b)
    PROVE  a = b
  <1>1. \A k \in DOMAIN a : k \in DOMAIN b /\ a[k] = b[k]
    BY SamePlaces
  <1>2. SameOrder(Range(b), b, a)
    BY DEF SameOrder
  <1>3. \A k \in DOMAIN b : k \in DOMAIN a /\ a[k] = b[k]
    <2>1. \A k \in DOMAIN b : k \in DOMAIN a /\ b[k] = a[k]
      BY <1>2, SamePlaces
    <2> QED
      BY <2>1
  <1>4. a = [k \in DOMAIN a |-> a[k]] /\ b = [k \in DOMAIN b |-> b[k]]
    OBVIOUS
  <1>5. DOMAIN a = DOMAIN b
    BY <1>1, <1>3
  <1> QED
    BY <1>1, <1>4, <1>5

LEMMA OnlyBefore ==
    ASSUME NEW T, NEW list \in Seq(T), NEW S, NEW x, NEW y, Before(Only(list, S), x, y)
    PROVE  Before(list, x, y)
  <1> DEFINE kept == Only(list, S)
  <1>1. kept \in Seq(T)
    BY OnlyPlaces
  <1>2. PICK at : Enumerates(at, kept, list, S, Len(list))
    BY OnlyPlaces
  <1> HIDE DEF kept
  <1>3. DOMAIN kept = 1..Len(kept) /\ DOMAIN list = 1..Len(list)
    BY <1>1
  <1>4. PICK i \in DOMAIN kept, j \in DOMAIN kept : i < j /\ kept[i] = x /\ kept[j] = y
    BY DEF Before, kept
  <1>5. at[i] \in DOMAIN list /\ at[j] \in DOMAIN list /\ at[i] < at[j]
            /\ list[at[i]] = x /\ list[at[j]] = y
    BY <1>2, <1>3, <1>4 DEF Enumerates
  <1> QED
    BY <1>5 DEF Before

LEMMA OnlyBoth ==
    ASSUME NEW T, NEW list \in Seq(T), NEW S, NEW x \in S, NEW y \in S, Before(list, x, y)
    PROVE  Before(Only(list, S), x, y)
  <1> DEFINE kept == Only(list, S)
  <1>1. kept \in Seq(T)
    BY OnlyPlaces
  <1>2. PICK at : Enumerates(at, kept, list, S, Len(list))
    BY OnlyPlaces
  <1> HIDE DEF kept
  <1>3. /\ DOMAIN kept = 1..Len(kept) /\ DOMAIN list = 1..Len(list)
        /\ Len(kept) \in Nat /\ Len(list) \in Nat
    BY <1>1
  <1>4. PICK k \in DOMAIN list, l \in DOMAIN list : k < l /\ list[k] = x /\ list[l] = y
    BY DEF Before
  <1>5. PICK i \in 1..Len(kept), j \in 1..Len(kept) : at[i] = k /\ at[j] = l
    BY <1>2, <1>3, <1>4 DEF Enumerates
  <1>6. i < j
    <2>1. \A m, n \in 1..Len(kept) : m < n => at[m] < at[n]
      BY <1>2 DEF Enumerates
    <2> QED
      BY <1>3, <1>4, <1>5, <2>1
  <1>7. kept[i] = x /\ kept[j] = y
    BY <1>2, <1>4, <1>5 DEF Enumerates
  <1> QED
    BY <1>3, <1>5, <1>6, <1>7 DEF Before, kept

(* What two lists share they keep in one order, if none of it is the other  *)
(* way round.                                                               *)
LEMMA OnlySame ==
    ASSUME NEW T, NEW a \in Seq(T), NEW b \in Seq(T), IsInjective(a), IsInjective(b),
           NEW S, S \subseteq Range(a), S \subseteq Range(b), SameOrder(S, a, b)
    PROVE  Only(a, S) = Only(b, S)
  <1> DEFINE c == Only(a, S)
             d == Only(b, S)
  <1>1. /\ c \in Seq(T) /\ IsInjective(c) /\ Range(c) = S
        /\ d \in Seq(T) /\ IsInjective(d) /\ Range(d) = S
    <2>1. c \in Seq(T) /\ Range(c) = Range(a) \cap S /\ IsInjective(c)
      BY OnlyKeeps
    <2>2. d \in Seq(T) /\ Range(d) = Range(b) \cap S /\ IsInjective(d)
      BY OnlyKeeps
    <2> QED
      BY <2>1, <2>2
  <1>2. SameOrder(S, c, d)
    BY OnlyBefore DEF SameOrder
  <1> HIDE DEF c, d
  <1>3. c = d
    BY <1>1, <1>2, SameOrderIsSame
  <1> QED
    BY <1>3 DEF c, d

LEMMA RemovedBefore ==
    ASSUME NEW T, NEW list \in Seq(T), NEW at \in 1..Len(list), NEW x, NEW y,
           Before(RemoveAt(list, at), x, y)
    PROVE  Before(list, x, y)
  <1> DEFINE less == RemoveAt(list, at)
             n == Len(list)
  <1>1. n \in Nat /\ DOMAIN list = 1..n
    OBVIOUS
  <1>2. /\ less \in Seq(T) /\ Len(less) = n - 1
        /\ \A j \in 1..(n - 1) : less[j] = IF j < at THEN list[j] ELSE list[j + 1]
    BY RemoveAtPlaces
  <1> HIDE DEF less, n
  <1>3. PICK i \in DOMAIN less, j \in DOMAIN less : i < j /\ less[i] = x /\ less[j] = y
    BY DEF Before, less
  <1>4. i \in 1..(n - 1) /\ j \in 1..(n - 1)
    BY <1>2, <1>3
  <1> DEFINE k == IF i < at THEN i ELSE i + 1
             l == IF j < at THEN j ELSE j + 1
  <1>5. k \in 1..n /\ l \in 1..n /\ k < l
    BY <1>1, <1>3, <1>4
  <1>6. list[k] = x /\ list[l] = y
    BY <1>2, <1>3, <1>4
  <1> HIDE DEF k, l
  <1> QED
    BY <1>1, <1>5, <1>6 DEF Before

LEMMA InsertedBefore ==
    ASSUME NEW T, NEW list \in Seq(T), NEW e \in T, NEW at \in 1..(Len(list) + 1),
           NEW x, NEW y, x # e, y # e, Before(InsertAt(list, at, e), x, y)
    PROVE  Before(list, x, y)
  <1> DEFINE more == InsertAt(list, at, e)
             n == Len(list)
  <1>1. n \in Nat /\ DOMAIN list = 1..n
    OBVIOUS
  <1>2. /\ more \in Seq(T) /\ Len(more) = n + 1
        /\ \A j \in 1..(n + 1) :
                more[j] = IF j < at THEN list[j] ELSE IF j = at THEN e ELSE list[j - 1]
    BY InsertAtPlaces
  <1>3. at \in Nat
    BY <1>1
  <1> HIDE DEF more, n
  <1>4. PICK i \in DOMAIN more, j \in DOMAIN more : i < j /\ more[i] = x /\ more[j] = y
    BY DEF Before, more
  <1>5. i \in 1..(n + 1) /\ j \in 1..(n + 1) /\ at \in 1..(n + 1)
    BY <1>2, <1>4 DEF n
  <1>6. i # at /\ j # at
    BY <1>2, <1>3, <1>4, <1>5
  <1> DEFINE k == IF i < at THEN i ELSE i - 1
             l == IF j < at THEN j ELSE j - 1
  <1>7. k \in 1..n /\ l \in 1..n /\ k < l
    BY <1>1, <1>3, <1>4, <1>5, <1>6
  <1>8. list[k] = x /\ list[l] = y
    BY <1>2, <1>3, <1>4, <1>5, <1>6
  <1> HIDE DEF k, l
  <1> QED
    BY <1>1, <1>7, <1>8 DEF Before
(* A weave never turns two keys of its primary round.                       *)
WeavingKept(T, wanted, primary) ==
    {acc \in Weaving(T, wanted) :
        /\ Range(primary) \cap wanted \subseteq Range(acc.result)
        /\ \A x, y \in Range(primary) :
                Before(acc.result, x, y) => Before(primary, x, y)}

LEMMA WovenOrders ==
    ASSUME NEW T, NEW wanted, NEW primary, NEW acc \in WeavingKept(T, wanted, primary), NEW k \in T
    PROVE  Woven(wanted, acc, k) \in WeavingKept(T, wanted, primary)
  <1>1. /\ acc \in Weaving(T, wanted)
        /\ Range(primary) \cap wanted \subseteq Range(acc.result)
        /\ \A x, y \in Range(primary) : Before(acc.result, x, y) => Before(primary, x, y)
    BY DEF WeavingKept
  <1>2. /\ acc \in [result : Seq(T), cursor : Nat] /\ acc.result \in Seq(T)
        /\ acc.cursor \in Nat /\ acc.cursor <= Len(acc.result)
        /\ Len(acc.result) \in Nat /\ DOMAIN acc.result = 1..Len(acc.result)
    BY <1>1 DEF Weaving
  <1>3. /\ Woven(wanted, acc, k) \in Weaving(T, wanted)
        /\ Range(Woven(wanted, acc, k).result) = Range(acc.result) \cup ({k} \cap wanted)
    BY <1>1, WovenKeeps
  <1>4. ASSUME NEW x \in Range(primary), NEW y \in Range(primary),
               Before(Woven(wanted, acc, k).result, x, y)
        PROVE  Before(primary, x, y)
    <2>1. CASE k \notin wanted
      <3>1. Woven(wanted, acc, k) = acc
        BY <2>1 DEF Woven
      <3> QED
        BY <1>1, <1>4, <3>1
    <2>2. CASE k \in wanted /\ Contains(acc.result, k)
      <3>1. Woven(wanted, acc, k).result = acc.result
        BY <1>2, <2>2 DEF Woven
      <3> QED
        BY <1>1, <1>4, <3>1
    <2>3. CASE k \in wanted /\ ~Contains(acc.result, k)
      <3>1. Woven(wanted, acc, k).result = InsertAt(acc.result, acc.cursor + 1, k)
        BY <2>3 DEF Woven
      <3>2. k \notin Range(acc.result)
        BY <1>2, <2>3 DEF Contains, Range
      <3>3. k \notin Range(primary)
        BY <1>1, <2>3, <3>2
      <3>4. x # k /\ y # k
        BY <3>3
      <3>5. acc.cursor + 1 \in 1..(Len(acc.result) + 1)
        BY <1>2
      <3> DEFINE list == acc.result
                 at == acc.cursor + 1
      <3>6. list \in Seq(T) /\ at \in 1..(Len(list) + 1) /\ Before(InsertAt(list, at, k), x, y)
        BY <1>2, <1>4, <3>1, <3>5
      <3> HIDE DEF list, at
      <3>7. Before(list, x, y)
        BY <3>4, <3>6, InsertedBefore
      <3> QED
        BY <1>1, <3>7 DEF list
    <2> QED
      BY <2>1, <2>2, <2>3
  <1> QED
    BY <1>1, <1>3, <1>4 DEF WeavingKept

(* What holds as a weave starts and through each step of it holds of it.    *)
LEMMA WeaveFolds ==
    ASSUME NEW T, NEW primary, NEW secondary \in Seq(T), NEW wanted, NEW Q,
           [result |-> Only(primary, wanted), cursor |-> 0] \in Q,
           \A acc \in Q, k \in T : Woven(wanted, acc, k) \in Q
    PROVE  \E acc \in Q : Weave(primary, secondary, wanted) = acc.result
  <1> DEFINE n == Len(secondary)
             base == [result |-> Only(primary, wanted), cursor |-> 0]
             Weaves(it) == it = [s \in SUBSET (1..n) |->
                                    IF s = {} THEN base
                                    ELSE Woven(wanted, it[s \ {Max(s)}], secondary[Max(s)])]
             it == CHOOSE it : Weaves(it)
             G == [step \in (1..n) \X Q |-> Woven(wanted, step[2], secondary[step[1]])]
  <1>1. n \in Nat /\ DOMAIN secondary = 1..n /\ \A i \in 1..n : secondary[i] \in T
    BY LenProperties
  <1>2. Weave(primary, secondary, wanted) = it[1..n].result
    BY <1>1 DEF Weave, Woven, FoldLeft, MapThenFoldSet
  <1>3. base \in Q
    OBVIOUS
  <1>4. G \in [(1..n) \X Q -> Q]
    BY <1>1
  <1> HIDE DEF base
  <1>5. PICK g \in [SUBSET (1..n) -> Q] : IsFold(n, base, G, g)
    BY <1>1, <1>3, <1>4, FoldExists
  <1>6. \A s \in SUBSET (1..n) : s # {} => Max(s) \in s
    BY <1>1, MaxOfSome
  <1>7. Weaves(g)
    <2>1. \A s \in SUBSET (1..n) :
                g[s] = IF s = {} THEN base
                       ELSE Woven(wanted, g[s \ {Max(s)}], secondary[Max(s)])
      BY <1>5, <1>6 DEF IsFold
    <2> QED
      BY <2>1
  <1>8. Weaves(it)
    BY <1>7
  <1> HIDE DEF it
  <1>9. TakesSteps(n, Q, base, G, it)
    BY <1>6, <1>8 DEF TakesSteps
  <1>10. it[1..n] \in Q
    <2> HIDE DEF G, n
    <2>1. n \in Nat
      BY <1>1
    <2>2. FoldGoes(n, Q, base, G, it)
      BY <2>1, <1>3, <1>4, <1>9, FoldSteps
    <2> QED
      BY <2>1, <2>2 DEF FoldGoes
  <1> QED
    BY <1>2, <1>10

LEMMA WeaveOrders ==
    ASSUME NEW T, NEW primary \in Seq(T), NEW secondary \in Seq(T), NEW wanted,
           IsInjective(primary)
    PROVE  \A x, y \in Range(primary) :
                Before(Weave(primary, secondary, wanted), x, y) => Before(primary, x, y)
  <1> DEFINE Q == WeavingKept(T, wanted, primary)
             start == [result |-> Only(primary, wanted), cursor |-> 0]
  <1>1. /\ Only(primary, wanted) \in Seq(T) /\ IsInjective(Only(primary, wanted))
        /\ Range(Only(primary, wanted)) = Range(primary) \cap wanted
    BY OnlyKeeps
  <1>2. start \in Weaving(T, wanted)
    <2>1. 0 <= Len(Only(primary, wanted))
      BY <1>1
    <2> QED
      BY <1>1, <2>1 DEF Weaving
  <1>3. \A x, y \in Range(primary) : Before(start.result, x, y) => Before(primary, x, y)
    BY OnlyBefore
  <1>4. start \in Q
    BY <1>1, <1>2, <1>3 DEF WeavingKept
  <1>5. \A acc \in Q, k \in T : Woven(wanted, acc, k) \in Q
    BY WovenOrders
  <1> HIDE DEF Q
  <1>6. PICK acc \in Q : Weave(primary, secondary, wanted) = acc.result
    BY <1>4, <1>5, WeaveFolds
  <1> QED
    BY <1>6 DEF Q, WeavingKept

(* A list with e put in it at a place.                                      *)
InsertedIn(T, list, at, e, new) ==
    /\ new \in Seq(T) /\ Len(new) = Len(list) + 1
    /\ \A j \in 1..(Len(list) + 1) :
            new[j] = IF j < at THEN list[j] ELSE IF j = at THEN e ELSE list[j - 1]

LEMMA InsertAtInserts ==
    ASSUME NEW T, NEW list \in Seq(T), NEW at \in 1..(Len(list) + 1), NEW e \in T
    PROVE  InsertedIn(T, list, at, e, InsertAt(list, at, e))
  <1>1. /\ InsertAt(list, at, e) \in Seq(T)
        /\ Len(InsertAt(list, at, e)) = Len(list) + 1
        /\ \A j \in 1..(Len(list) + 1) :
             InsertAt(list, at, e)[j] =
                 IF j < at THEN list[j] ELSE IF j = at THEN e ELSE list[j - 1]
    BY InsertAtPlaces
  <1> QED
    BY <1>1 DEF InsertedIn

LEMMA BeforeInserted ==
    ASSUME NEW T, NEW list \in Seq(T), NEW e \in T, NEW at \in 1..(Len(list) + 1),
           NEW x, NEW y, Before(list, x, y)
    PROVE  Before(InsertAt(list, at, e), x, y)
  <1> DEFINE more == InsertAt(list, at, e)
             n == Len(list)
  <1>1. n \in Nat /\ DOMAIN list = 1..n
    OBVIOUS
  <1>2. /\ more \in Seq(T) /\ Len(more) = n + 1
        /\ \A j \in 1..(n + 1) :
                more[j] = IF j < at THEN list[j] ELSE IF j = at THEN e ELSE list[j - 1]
    <2>1. InsertedIn(T, list, at, e, InsertAt(list, at, e))
      BY InsertAtInserts
    <2> HIDE DEF more
    <2>2. InsertedIn(T, list, at, e, more)
      BY <2>1 DEF more
    <2> QED
      BY <2>2 DEF InsertedIn
  <1>3. at \in 1..(n + 1)
    OBVIOUS
  <1> HIDE DEF more, n
  <1>4. PICK i \in DOMAIN list, j \in DOMAIN list : i < j /\ list[i] = x /\ list[j] = y
    BY DEF Before
  <1> DEFINE k == IF i < at THEN i ELSE i + 1
             l == IF j < at THEN j ELSE j + 1
  <1>5. k \in 1..(n + 1) /\ l \in 1..(n + 1) /\ k < l
    BY <1>1, <1>3, <1>4
  <1>6. more[k] = x /\ more[l] = y
    BY <1>1, <1>2, <1>3, <1>4
  <1>7. DOMAIN more = 1..(n + 1)
    BY <1>1, <1>2
  <1> HIDE DEF k, l
  <1> QED
    BY <1>5, <1>6, <1>7 DEF Before, more

(* The steps of a weave, one for each key of its secondary.                 *)
WeaveSteps(T, primary, secondary, wanted, accs) ==
    /\ accs[0] = [result |-> Only(primary, wanted), cursor |-> 0]
    /\ \A k \in 0..Len(secondary) :
            /\ accs[k] \in WeavingKept(T, wanted, primary)
            /\ Range(accs[k].result) =
                    wanted \cap (Range(primary) \cup {secondary[j] : j \in 1..k})
    /\ \A k \in 0..(Len(secondary) - 1) :
            accs[k + 1] = Woven(wanted, accs[k], secondary[k + 1])
    /\ Weave(primary, secondary, wanted) = accs[Len(secondary)].result

LEMMA WeaveGoes ==
    ASSUME NEW T, NEW primary \in Seq(T), NEW secondary \in Seq(T), NEW wanted,
           IsInjective(primary)
    PROVE  \E accs : WeaveSteps(T, primary, secondary, wanted, accs)
  <1> DEFINE n == Len(secondary)
             Q == WeavingKept(T, wanted, primary)
             base == [result |-> Only(primary, wanted), cursor |-> 0]
             Weaves(it) == it = [s \in SUBSET (1..n) |->
                                    IF s = {} THEN base
                                    ELSE Woven(wanted, it[s \ {Max(s)}], secondary[Max(s)])]
             it == CHOOSE it : Weaves(it)
             G == [step \in (1..n) \X Q |-> Woven(wanted, step[2], secondary[step[1]])]
             accs == [k \in 0..n |-> it[1..k]]
  <1>1. n \in Nat /\ DOMAIN secondary = 1..n /\ \A i \in 1..n : secondary[i] \in T
    BY LenProperties
  <1>2. Weave(primary, secondary, wanted) = it[1..n].result
    BY <1>1 DEF Weave, Woven, FoldLeft, MapThenFoldSet
  <1>3. base \in Q /\ Range(base.result) = Range(primary) \cap wanted
    <2>1. /\ Only(primary, wanted) \in Seq(T) /\ IsInjective(Only(primary, wanted))
          /\ Range(Only(primary, wanted)) = Range(primary) \cap wanted
      BY OnlyKeeps
    <2>2. 0 <= Len(Only(primary, wanted))
      BY <2>1
    <2>3. base \in Weaving(T, wanted)
      BY <2>1, <2>2 DEF Weaving
    <2>4. \A x, y \in Range(primary) : Before(base.result, x, y) => Before(primary, x, y)
      BY OnlyBefore
    <2> QED
      BY <2>1, <2>3, <2>4 DEF WeavingKept
  <1>4. G \in [(1..n) \X Q -> Q]
    <2>1. \A acc \in Q, k \in T : Woven(wanted, acc, k) \in Q
      BY WovenOrders
    <2> HIDE DEF Q
    <2> QED
      BY <1>1, <2>1
  <1> HIDE DEF base, Q
  <1>5. PICK g \in [SUBSET (1..n) -> Q] : IsFold(n, base, G, g)
    BY <1>1, <1>3, <1>4, FoldExists
  <1>6. \A s \in SUBSET (1..n) : s # {} => Max(s) \in s
    BY <1>1, MaxOfSome
  <1>7. Weaves(g)
    <2>1. \A s \in SUBSET (1..n) :
                g[s] = IF s = {} THEN base
                       ELSE Woven(wanted, g[s \ {Max(s)}], secondary[Max(s)])
      BY <1>5, <1>6 DEF IsFold
    <2> QED
      BY <2>1
  <1>8. Weaves(it)
    BY <1>7
  <1> HIDE DEF it
  <1>9. TakesSteps(n, Q, base, G, it)
    BY <1>6, <1>8 DEF TakesSteps
  <1>10. /\ it[1..0] = base
         /\ \A k \in 0..n : it[1..k] \in Q
         /\ \A k \in 0..(n - 1) : it[1..(k + 1)] = G[<<k + 1, it[1..k]>>]
    <2> HIDE DEF G, n
    <2>1. n \in Nat
      BY <1>1
    <2>2. FoldGoes(n, Q, base, G, it)
      BY <2>1, <1>3, <1>4, <1>9, FoldSteps
    <2> QED
      BY <2>2 DEF FoldGoes
  <1>11. \A k \in 0..(n - 1) : it[1..(k + 1)] = Woven(wanted, it[1..k], secondary[k + 1])
    <2> TAKE k \in 0..(n - 1)
    <2>1. k \in 0..n /\ k + 1 \in 1..n
      BY <1>1
    <2> QED
      BY <1>10, <2>1
  <1> HIDE DEF G
  <1>12. \A k \in 0..n : accs[k] = it[1..k]
    OBVIOUS
  <1>13. /\ accs[0] = base
         /\ \A k \in 0..n : accs[k] \in Q
         /\ \A k \in 0..(n - 1) : accs[k + 1] = Woven(wanted, accs[k], secondary[k + 1])
         /\ Weave(primary, secondary, wanted) = accs[n].result
    <2>1. 0 \in 0..n /\ n \in 0..n /\ \A k \in 0..(n - 1) : k \in 0..n /\ k + 1 \in 0..n
      BY <1>1
    <2> QED
      BY <1>2, <1>10, <1>11, <1>12, <2>1
  <1> HIDE DEF accs
  <1> DEFINE Keys(k) == {secondary[j] : j \in 1..k}
             All == {k \in Nat : k <= n =>
                        Range(accs[k].result) = wanted \cap (Range(primary) \cup Keys(k))}
  <1>14. 0 \in All
    <2>1. Range(accs[0].result) = Range(primary) \cap wanted
      BY <1>3, <1>13
    <2>2. Keys(0) = {}
      OBVIOUS
    <2> HIDE DEF Keys
    <2> QED
      BY <2>1, <2>2
  <1>15. ASSUME NEW k \in Nat, k \in All PROVE k + 1 \in All
    <2> SUFFICES ASSUME k + 1 <= n
                 PROVE  Range(accs[k + 1].result) = wanted \cap (Range(primary) \cup Keys(k + 1))
      OBVIOUS
    <2> DEFINE key == secondary[k + 1]
               acc == accs[k]
    <2>1. k \in 0..(n - 1) /\ k \in 0..n /\ k + 1 \in 1..n /\ k <= n
      BY <1>1
    <2>2. acc \in Weaving(T, wanted) /\ key \in T /\ accs[k + 1] = Woven(wanted, acc, key)
      BY <1>1, <1>13, <2>1 DEF Q, WeavingKept
    <2>3. Keys(k + 1) = Keys(k) \cup {key}
      <3>1. \A j \in 1..(k + 1) : j \in 1..k \/ j = k + 1
        OBVIOUS
      <3>2. \A j \in 1..k : j \in 1..(k + 1)
        OBVIOUS
      <3>3. k + 1 \in 1..(k + 1)
        OBVIOUS
      <3> QED
        BY <3>1, <3>2, <3>3
    <2>4. Range(acc.result) = wanted \cap (Range(primary) \cup Keys(k))
      BY <1>15, <2>1
    <2> HIDE DEF key, acc, Keys
    <2>5. Range(Woven(wanted, acc, key).result) = Range(acc.result) \cup ({key} \cap wanted)
      BY <2>2, WovenKeeps
    <2> QED
      BY <2>2, <2>3, <2>4, <2>5
  <1>16. ASSUME NEW k \in 0..n
         PROVE  Range(accs[k].result) = wanted \cap (Range(primary) \cup Keys(k))
    <2> HIDE DEF All
    <2>1. Nat \subseteq All
      BY <1>14, <1>15, Induct
    <2>2. k \in All /\ k <= n
      BY <1>1, <2>1
    <2> QED
      BY <2>2 DEF All
  <1> QED
    <2>1. /\ accs[0] = [result |-> Only(primary, wanted), cursor |-> 0]
          /\ \A k \in 0..Len(secondary) : accs[k] \in WeavingKept(T, wanted, primary)
          /\ \A k \in 0..(Len(secondary) - 1) :
                accs[k + 1] = Woven(wanted, accs[k], secondary[k + 1])
          /\ Weave(primary, secondary, wanted) = accs[Len(secondary)].result
      BY <1>13 DEF base, Q
    <2>2. WeaveSteps(T, primary, secondary, wanted, accs)
      BY <1>16, <2>1 DEF WeaveSteps
    <2> QED
      BY <2>2

-----------------------------------------------------------------------------
(* Where a weave has got to: the keys of the secondary it has passed are    *)
(* before the cursor, and what it put in follows all before it there.       *)
Passed(acc, done) ==
    \A p \in DOMAIN acc.result : acc.result[p] \in done => p <= acc.cursor

Ahead(acc, todo) ==
    \A p \in DOMAIN acc.result : acc.result[p] \in todo => p > acc.cursor

(* One step of a weave, on a key it has, and on one it has not.             *)
LEMMA WovenFound ==
    ASSUME NEW T, NEW wanted, NEW acc \in Weaving(T, wanted), NEW k \in T,
           k \in wanted, k \in Range(acc.result)
    PROVE  \E place \in DOMAIN acc.result :
                /\ acc.result[place] = k
                /\ Woven(wanted, acc, k).result = acc.result
                /\ Woven(wanted, acc, k).cursor = Larger(acc.cursor, place)
  <1> DEFINE list == acc.result
             s == {i \in 1..Len(list) : list[i] = k}
             place == SelectInSeq(list, LAMBDA r : r = k)
  <1>1. /\ acc \in [result : Seq(T), cursor : Nat] /\ list \in Seq(T) /\ acc.cursor \in Nat
        /\ DOMAIN list = 1..Len(list) /\ Len(list) \in Nat
    BY DEF Weaving
  <1>2. Contains(list, k)
    BY <1>1 DEF Contains, Range
  <1>3. s # {} /\ s \in SUBSET (1..Len(list))
    BY <1>1 DEF Range
  <1>4. place = Min(s)
    BY <1>3 DEF SelectInSeq
  <1>5. Woven(wanted, acc, k) = [acc EXCEPT !.cursor = Larger(acc.cursor, place)]
    BY <1>2 DEF Woven
  <1> HIDE DEF place
  <1>6. place \in 1..Len(list) /\ list[place] = k
    <2>1. Min(s) \in s
      BY <1>1, <1>3, MinOfSome
    <2> QED
      BY <1>4, <2>1
  <1>7. /\ Woven(wanted, acc, k).result = list
        /\ Woven(wanted, acc, k).cursor = Larger(acc.cursor, place)
    BY <1>1, <1>5
  <1> QED
    BY <1>1, <1>6, <1>7

LEMMA WovenIn ==
    ASSUME NEW T, NEW wanted, NEW acc \in Weaving(T, wanted), NEW k \in T,
           k \in wanted, k \notin Range(acc.result)
    PROVE  /\ acc.cursor + 1 \in 1..(Len(acc.result) + 1)
           /\ Woven(wanted, acc, k).result = InsertAt(acc.result, acc.cursor + 1, k)
           /\ Woven(wanted, acc, k).cursor = acc.cursor + 1
           /\ InsertedIn(T, acc.result, acc.cursor + 1, k, Woven(wanted, acc, k).result)
  <1> DEFINE list == acc.result
             at == acc.cursor + 1
  <1>1. /\ acc \in [result : Seq(T), cursor : Nat] /\ list \in Seq(T) /\ acc.cursor \in Nat
        /\ DOMAIN list = 1..Len(list) /\ Len(list) \in Nat /\ acc.cursor <= Len(list)
    BY DEF Weaving
  <1>2. ~Contains(list, k)
    BY <1>1 DEF Contains, Range
  <1>3. Woven(wanted, acc, k) = [result |-> InsertAt(list, at, k), cursor |-> at]
    BY <1>2 DEF Woven
  <1>4. at \in 1..(Len(list) + 1)
    BY <1>1
  <1>5. InsertedIn(T, list, at, k, InsertAt(list, at, k))
    <2> HIDE DEF list, at
    <2> QED
      BY <1>1, <1>4, InsertAtInserts
  <1> QED
    BY <1>3, <1>4, <1>5

LEMMA WovenPasses ==
    ASSUME NEW T, NEW wanted, NEW acc \in Weaving(T, wanted), NEW k \in T,
           NEW done, Passed(acc, done)
    PROVE  LET next == Woven(wanted, acc, k)
           IN  /\ Passed(next, done \cup {k})
               /\ k \in wanted \ Range(acc.result) =>
                    \A x \in done \cap Range(acc.result) : Before(next.result, x, k)
               /\ \A x, y : Before(acc.result, x, y) => Before(next.result, x, y)
  <1> DEFINE list == acc.result
             next == Woven(wanted, acc, k)
  <1>1. /\ acc \in [result : Seq(T), cursor : Nat] /\ list \in Seq(T) /\ acc.cursor \in Nat
        /\ DOMAIN list = 1..Len(list) /\ Len(list) \in Nat /\ acc.cursor <= Len(list)
        /\ Range(list) \subseteq wanted /\ IsInjective(list)
    BY DEF Weaving
  <1>2. CASE k \notin wanted
    <2>1. next = acc
      BY <1>2 DEF Woven
    <2>2. \A p \in DOMAIN list : list[p] # k
      BY <1>1, <1>2 DEF Range
    <2> QED
      BY <1>2, <2>1, <2>2 DEF Passed
  <1>3. CASE k \in wanted /\ k \in Range(list)
    <2>1. PICK place \in DOMAIN list :
                /\ list[place] = k
                /\ next.result = list
                /\ next.cursor = Larger(acc.cursor, place)
      BY <1>3, WovenFound
    <2>2. place \in Nat /\ acc.cursor \in Nat /\ DOMAIN list \subseteq Nat
      BY <1>1
    <2>3. acc.cursor <= next.cursor /\ place <= next.cursor
      BY <2>1, <2>2 DEF Larger
    <2>4. next.cursor \in Nat
      BY <2>1, <2>2 DEF Larger
    <2> HIDE DEF next, list
    <2>5. ASSUME NEW p \in DOMAIN list, list[p] \in done \cup {k}
          PROVE  p <= next.cursor
      <3>1. CASE list[p] \in done
        <4>1. p <= acc.cursor
          BY <3>1 DEF Passed, list
        <4> QED
          BY <2>2, <2>3, <2>4, <4>1
      <3>2. CASE list[p] = k
        <4>1. p = place
          BY <1>1, <2>1, <3>2 DEF IsInjective
        <4> QED
          BY <2>3, <4>1
      <3> QED
        BY <2>5, <3>1, <3>2
    <2>6. Passed(next, done \cup {k})
      BY <2>1, <2>5 DEF Passed
    <2> QED
      BY <1>3, <2>1, <2>6 DEF next, list
  <1>4. CASE k \in wanted /\ k \notin Range(list)
    <2> DEFINE at == acc.cursor + 1
    <2>1. /\ next.result = InsertAt(list, at, k) /\ next.cursor = at
          /\ next.result \in Seq(T) /\ Len(next.result) = Len(list) + 1
          /\ \A j \in 1..(Len(list) + 1) :
                next.result[j] = IF j < at THEN list[j] ELSE IF j = at THEN k ELSE list[j - 1]
      <3>1. /\ next.result = InsertAt(list, at, k) /\ next.cursor = at
            /\ InsertedIn(T, list, at, k, next.result)
        BY <1>4, WovenIn
      <3> QED
        BY <3>1 DEF InsertedIn
    <2>2. at \in 1..(Len(list) + 1) /\ DOMAIN next.result = 1..(Len(list) + 1)
      BY <1>1, <2>1
    <2>3. \A x, y : Before(list, x, y) => Before(next.result, x, y)
      BY <1>1, <2>1, <2>2, BeforeInserted
    <2>4. \A p \in DOMAIN list : list[p] \in done => p < at
      BY <1>1 DEF Passed
    <2> HIDE DEF next, list, at
    <2>5. ASSUME NEW p \in DOMAIN next.result, next.result[p] \in done \cup {k}
          PROVE  p <= next.cursor
      <3> SUFFICES ASSUME p > at PROVE FALSE
        BY <2>1, <2>2
      <3>1. next.result[p] = list[p - 1] /\ p - 1 \in DOMAIN list
        BY <1>1, <2>1, <2>2
      <3>2. list[p - 1] # k
        BY <1>4, <3>1 DEF Range
      <3>3. p - 1 < at
        BY <2>4, <2>5, <3>1, <3>2
      <3> QED
        BY <2>2, <3>3
    <2>6. Passed(next, done \cup {k})
      BY <2>5 DEF Passed
    <2>7. ASSUME NEW x \in done \cap Range(list)
          PROVE  Before(next.result, x, k)
      <3>1. PICK p \in DOMAIN list : list[p] = x
        BY DEF Range
      <3>2. p < at /\ p \in 1..(Len(list) + 1)
        BY <1>1, <2>4, <3>1
      <3>3. next.result[p] = x /\ next.result[at] = k
        BY <2>1, <2>2, <3>1, <3>2
      <3> QED
        BY <2>2, <3>2, <3>3 DEF Before
    <2> QED
      BY <2>3, <2>6, <2>7 DEF next, list
  <1> QED
    BY <1>2, <1>3, <1>4

(* While what is still to come is all ahead of the cursor, a key found is    *)
(* found after all that has been passed.                                    *)
LEMMA WovenAhead ==
    ASSUME NEW T, NEW wanted, NEW acc \in Weaving(T, wanted), NEW k \in T,
           NEW done, NEW todo, Passed(acc, done), Ahead(acc, todo \cup {k}), k \notin todo,
           \A y \in todo : ~Before(acc.result, y, k)
    PROVE  LET next == Woven(wanted, acc, k)
           IN  /\ Ahead(next, todo)
               /\ k \in wanted => \A x \in done \cap Range(acc.result) : Before(next.result, x, k)
  <1> DEFINE list == acc.result
             next == Woven(wanted, acc, k)
  <1>1. /\ acc \in [result : Seq(T), cursor : Nat] /\ list \in Seq(T) /\ acc.cursor \in Nat
        /\ DOMAIN list = 1..Len(list) /\ Len(list) \in Nat /\ acc.cursor <= Len(list)
        /\ Range(list) \subseteq wanted /\ IsInjective(list)
    BY DEF Weaving
  <1>2. CASE k \notin wanted
    <2>1. next = acc
      BY <1>2 DEF Woven
    <2> QED
      BY <1>2, <2>1 DEF Ahead
  <1>3. CASE k \in wanted /\ k \in Range(list)
    <2>1. PICK place \in DOMAIN list :
                /\ list[place] = k
                /\ next.result = list
                /\ next.cursor = Larger(acc.cursor, place)
      BY <1>3, WovenFound
    <2>2. place \in Nat /\ DOMAIN list \subseteq Nat
      BY <1>1
    <2>3. place > acc.cursor
      BY <2>1 DEF Ahead
    <2>4. next.cursor = place
      BY <1>1, <2>1, <2>2, <2>3 DEF Larger
    <2> HIDE DEF next, list
    <2>5. ASSUME NEW p \in DOMAIN list, list[p] \in todo
          PROVE  p > place
      <3>1. p # place
        BY <2>1, <2>5
      <3>2. ~(p < place)
        <4>1. ~Before(list, list[p], k)
          BY <2>5 DEF list
        <4> QED
          BY <2>1, <4>1 DEF Before
      <3> QED
        BY <2>2, <3>1, <3>2
    <2>6. Ahead(next, todo)
      BY <2>1, <2>4, <2>5 DEF Ahead
    <2>7. ASSUME NEW x \in done \cap Range(list)
          PROVE  Before(next.result, x, k)
      <3>1. PICK p \in DOMAIN list : list[p] = x
        BY DEF Range
      <3>2. p <= acc.cursor
        BY <3>1 DEF Passed, list
      <3>3. p < place
        BY <1>1, <2>2, <2>3, <3>2
      <3> QED
        BY <2>1, <3>1, <3>3 DEF Before
    <2> QED
      BY <2>6, <2>7 DEF next, list
  <1>4. CASE k \in wanted /\ k \notin Range(list)
    <2> DEFINE at == acc.cursor + 1
    <2>1. /\ next.result = InsertAt(list, at, k) /\ next.cursor = at
          /\ next.result \in Seq(T) /\ Len(next.result) = Len(list) + 1
          /\ \A j \in 1..(Len(list) + 1) :
                next.result[j] = IF j < at THEN list[j] ELSE IF j = at THEN k ELSE list[j - 1]
      <3>1. /\ next.result = InsertAt(list, at, k) /\ next.cursor = at
            /\ InsertedIn(T, list, at, k, next.result)
        BY <1>4, WovenIn
      <3> QED
        BY <3>1 DEF InsertedIn
    <2>2. at \in 1..(Len(list) + 1) /\ DOMAIN next.result = 1..(Len(list) + 1)
      BY <1>1, <2>1
    <2>3. \A x \in done \cap Range(list) : Before(next.result, x, k)
      BY <1>4, WovenPasses
    <2>4. \A p \in DOMAIN list : list[p] \in todo => p >= at
      BY <1>1 DEF Ahead
    <2> HIDE DEF next, list, at
    <2>5. ASSUME NEW p \in DOMAIN next.result, next.result[p] \in todo
          PROVE  p > next.cursor
      <3> SUFFICES ASSUME p <= at PROVE FALSE
        BY <2>1, <2>2
      <3>1. p # at
        BY <2>1, <2>2, <2>5
      <3>2. next.result[p] = list[p] /\ p \in DOMAIN list
        BY <1>1, <2>1, <2>2, <3>1
      <3>3. p >= at
        BY <2>4, <2>5, <3>2
      <3> QED
        BY <2>2, <3>1, <3>3
    <2>6. Ahead(next, todo)
      BY <2>5 DEF Ahead
    <2> QED
      BY <2>3, <2>6 DEF next, list
  <1> QED
    BY <1>2, <1>3, <1>4

(* What only the secondary has follows, in a weave, all it followed there.   *)
LEMMA WeaveFollows ==
    ASSUME NEW T, NEW primary \in Seq(T), NEW secondary \in Seq(T), NEW wanted,
           IsInjective(primary), IsInjective(secondary)
    PROVE  \A y \in wanted \ Range(primary), x \in wanted :
                Before(secondary, x, y) => Before(Weave(primary, secondary, wanted), x, y)
  <1> DEFINE n == Len(secondary)
             Done(k) == {secondary[j] : j \in 1..k}
             Follow(k, r) == \A i, j \in 1..k :
                i < j /\ secondary[j] \in wanted \ Range(primary) /\ secondary[i] \in wanted
                    => Before(r, secondary[i], secondary[j])
  <1>1. PICK accs : WeaveSteps(T, primary, secondary, wanted, accs)
    BY WeaveGoes
  <1> DEFINE All == {k \in Nat : k <= n =>
                        Passed(accs[k], Done(k)) /\ Follow(k, accs[k].result)}
  <1>2. n \in Nat /\ DOMAIN secondary = 1..n /\ \A i \in 1..n : secondary[i] \in T
    BY LenProperties
  <1>3. 0 \in All
    <2>1. Done(0) = {} /\ Follow(0, accs[0].result)
      OBVIOUS
    <2> HIDE DEF Done, Follow
    <2> QED
      BY <2>1 DEF Passed
  <1>4. ASSUME NEW k \in Nat, k \in All PROVE k + 1 \in All
    <2> SUFFICES ASSUME k + 1 <= n
                 PROVE  Passed(accs[k + 1], Done(k + 1)) /\ Follow(k + 1, accs[k + 1].result)
      OBVIOUS
    <2> DEFINE key == secondary[k + 1]
               acc == accs[k]
               next == Woven(wanted, acc, key)
    <2>1. k \in 0..(n - 1) /\ k \in 0..n /\ k + 1 \in 1..n /\ k <= n
      BY <1>2
    <2>2. /\ acc \in Weaving(T, wanted) /\ key \in T /\ accs[k + 1] = next
          /\ Range(acc.result) = wanted \cap (Range(primary) \cup Done(k))
      BY <1>1, <1>2, <2>1 DEF WeaveSteps, WeavingKept
    <2>3. Done(k + 1) = Done(k) \cup {key}
      <3>1. \A j \in 1..(k + 1) : j \in 1..k \/ j = k + 1
        OBVIOUS
      <3>2. \A j \in 1..k : j \in 1..(k + 1)
        OBVIOUS
      <3>3. k + 1 \in 1..(k + 1)
        OBVIOUS
      <3> QED
        BY <3>1, <3>2, <3>3
    <2>4. key \notin Done(k)
      BY <1>2, <2>1 DEF IsInjective
    <2>5. Passed(acc, Done(k)) /\ Follow(k, acc.result)
      BY <1>4, <2>1
    <2>6. \A i \in 1..k : secondary[i] \in Done(k)
      OBVIOUS
    <2> HIDE DEF acc, Done, next, All
    <2>7. /\ Passed(next, Done(k) \cup {key})
          /\ key \in wanted \ Range(acc.result) =>
                \A x \in Done(k) \cap Range(acc.result) : Before(next.result, x, key)
          /\ \A x, y : Before(acc.result, x, y) => Before(next.result, x, y)
      BY <2>2, <2>5, WovenPasses DEF next
    <2>8. Follow(k + 1, next.result)
      <3> SUFFICES ASSUME NEW i \in 1..(k + 1), NEW j \in 1..(k + 1), i < j,
                          secondary[j] \in wanted \ Range(primary), secondary[i] \in wanted
                   PROVE  Before(next.result, secondary[i], secondary[j])
        OBVIOUS
      <3>1. CASE j \in 1..k
        <4>1. i \in 1..k
          BY <3>1
        <4> QED
          BY <2>5, <2>7, <3>1, <4>1
      <3>2. CASE j = k + 1
        <4>1. i \in 1..k
          BY <3>2
        <4>2. secondary[i] \in Done(k) \cap Range(acc.result)
          BY <2>2, <2>6, <4>1
        <4>3. key \in wanted \ Range(acc.result)
          BY <2>2, <2>4, <3>2
        <4> QED
          BY <2>7, <3>2, <4>2, <4>3
      <3> QED
        BY <3>1, <3>2
    <2> HIDE DEF Follow
    <2> QED
      BY <2>2, <2>3, <2>7, <2>8
  <1> HIDE DEF All
  <1>5. Nat \subseteq All
    BY <1>3, <1>4, Induct
  <1>6. Follow(n, accs[n].result)
    <2> HIDE DEF n, Follow, Done
    <2>1. n \in All /\ n <= n
      BY <1>2, <1>5
    <2> QED
      BY <2>1 DEF All
  <1>7. Weave(primary, secondary, wanted) = accs[n].result
    BY <1>1 DEF WeaveSteps
  <1> QED
    BY <1>2, <1>6, <1>7 DEF Before

(* A weave of two lists that agree about what both have keeps the order of  *)
(* the secondary too.                                                       *)
LEMMA WeaveAgrees ==
    ASSUME NEW T, NEW primary \in Seq(T), NEW secondary \in Seq(T), NEW wanted,
           IsInjective(primary), IsInjective(secondary),
           \A x, y \in wanted \cap Range(primary) :
                Before(secondary, x, y) => Before(primary, x, y)
    PROVE  \A x, y \in wanted :
                Before(secondary, x, y) => Before(Weave(primary, secondary, wanted), x, y)
  <1> DEFINE n == Len(secondary)
             Done(k) == {secondary[j] : j \in 1..k}
             Todo(k) == {secondary[j] : j \in (k + 1)..n}
             Follow(k, r) == \A i, j \in 1..k :
                i < j /\ secondary[j] \in wanted /\ secondary[i] \in wanted
                    => Before(r, secondary[i], secondary[j])
  <1>1. PICK accs : WeaveSteps(T, primary, secondary, wanted, accs)
    BY WeaveGoes
  <1> DEFINE All == {k \in Nat : k <= n =>
                        /\ Passed(accs[k], Done(k)) /\ Ahead(accs[k], Todo(k))
                        /\ Follow(k, accs[k].result)}
  <1>2. n \in Nat /\ DOMAIN secondary = 1..n /\ \A i \in 1..n : secondary[i] \in T
    BY LenProperties
  <1>3. 0 \in All
    <2>1. Done(0) = {} /\ Follow(0, accs[0].result)
      OBVIOUS
    <2>2. accs[0].cursor = 0 /\ accs[0] \in Weaving(T, wanted)
      BY <1>1, <1>2 DEF WeaveSteps, WeavingKept
    <2>3. DOMAIN accs[0].result \subseteq 1..Len(accs[0].result) /\ Len(accs[0].result) \in Nat
      BY <2>2 DEF Weaving
    <2> HIDE DEF Done, Follow, Todo
    <2>4. Ahead(accs[0], Todo(0))
      BY <2>2, <2>3 DEF Ahead
    <2> QED
      BY <2>1, <2>4 DEF Passed
  <1>4. ASSUME NEW k \in Nat, k \in All PROVE k + 1 \in All
    <2> SUFFICES ASSUME k + 1 <= n
                 PROVE  /\ Passed(accs[k + 1], Done(k + 1)) /\ Ahead(accs[k + 1], Todo(k + 1))
                        /\ Follow(k + 1, accs[k + 1].result)
      OBVIOUS
    <2> DEFINE key == secondary[k + 1]
               acc == accs[k]
               next == Woven(wanted, acc, key)
    <2>1. k \in 0..(n - 1) /\ k \in 0..n /\ k + 1 \in 1..n /\ k <= n
      BY <1>2
    <2>2. /\ acc \in Weaving(T, wanted) /\ key \in T /\ accs[k + 1] = next
          /\ Range(acc.result) = wanted \cap (Range(primary) \cup Done(k))
          /\ \A x, y \in Range(primary) : Before(acc.result, x, y) => Before(primary, x, y)
      BY <1>1, <1>2, <2>1 DEF WeaveSteps, WeavingKept
    <2>3. Done(k + 1) = Done(k) \cup {key}
      <3>1. \A j \in 1..(k + 1) : j \in 1..k \/ j = k + 1
        OBVIOUS
      <3>2. \A j \in 1..k : j \in 1..(k + 1)
        OBVIOUS
      <3>3. k + 1 \in 1..(k + 1)
        OBVIOUS
      <3> QED
        BY <3>1, <3>2, <3>3
    <2>4. Todo(k) = Todo(k + 1) \cup {key}
      <3>1. \A j \in (k + 1)..n : j \in ((k + 1) + 1)..n \/ j = k + 1
        BY <1>2
      <3>2. \A j \in ((k + 1) + 1)..n : j \in (k + 1)..n
        BY <1>2
      <3>3. k + 1 \in (k + 1)..n
        BY <1>2
      <3> QED
        BY <3>1, <3>2, <3>3
    <2>5. key \notin Todo(k + 1) /\ key \notin Done(k)
      BY <1>2, <2>1 DEF IsInjective
    <2>6. Passed(acc, Done(k)) /\ Ahead(acc, Todo(k)) /\ Follow(k, acc.result)
      BY <1>4, <2>1
    <2>7. \A i \in 1..k : secondary[i] \in Done(k)
      OBVIOUS
    <2>8. \A y \in Todo(k + 1) : y \notin Done(k) /\ Before(secondary, key, y)
      BY SMTT(30), <1>2, <2>1 DEF IsInjective, Before
    <2> HIDE DEF acc, Done, Todo, next, All
    <2>9. ASSUME NEW y \in Todo(k + 1), Before(acc.result, y, key) PROVE FALSE
      <3> HIDE DEF key
      <3>1. y \in Range(acc.result) /\ key \in Range(acc.result)
        BY <2>9 DEF Before, Range
      <3>2. y \in wanted \cap Range(primary) /\ key \in wanted \cap Range(primary)
        BY <2>2, <2>5, <2>8, <3>1
      <3>3. Before(primary, y, key) /\ Before(primary, key, y)
        BY <2>2, <2>8, <2>9, <3>2
      <3> QED
        BY <3>3, BeforeOnce
    <2>10. /\ Passed(next, Done(k) \cup {key})
           /\ \A x, y : Before(acc.result, x, y) => Before(next.result, x, y)
      BY <2>2, <2>6, WovenPasses DEF next
    <2>11. /\ Ahead(next, Todo(k + 1))
           /\ key \in wanted =>
                \A x \in Done(k) \cap Range(acc.result) : Before(next.result, x, key)
      <3> HIDE DEF key
      <3>1. Ahead(acc, Todo(k + 1) \cup {key})
        BY <2>4, <2>6
      <3>2. \A y \in Todo(k + 1) : ~Before(acc.result, y, key)
        BY <2>9
      <3> QED
        BY <2>2, <2>5, <2>6, <3>1, <3>2, WovenAhead DEF next
    <2>12. Follow(k + 1, next.result)
      <3> SUFFICES ASSUME NEW i \in 1..(k + 1), NEW j \in 1..(k + 1), i < j,
                          secondary[j] \in wanted, secondary[i] \in wanted
                   PROVE  Before(next.result, secondary[i], secondary[j])
        OBVIOUS
      <3>1. CASE j \in 1..k
        <4>1. i \in 1..k
          BY <3>1
        <4> QED
          BY <2>6, <2>10, <3>1, <4>1
      <3>2. CASE j = k + 1
        <4>1. i \in 1..k
          BY <3>2
        <4>2. secondary[i] \in Done(k) \cap Range(acc.result)
          BY <2>2, <2>7, <4>1
        <4> QED
          BY <2>11, <3>2, <4>2
      <3> QED
        BY <3>1, <3>2
    <2> HIDE DEF Follow
    <2> QED
      BY <2>2, <2>3, <2>10, <2>11, <2>12
  <1> HIDE DEF All
  <1>5. Nat \subseteq All
    BY <1>3, <1>4, Induct
  <1>6. Follow(n, accs[n].result)
    <2> HIDE DEF n, Follow, Done
    <2>1. n \in All /\ n <= n
      BY <1>2, <1>5
    <2> QED
      BY <2>1 DEF All
  <1>7. Weave(primary, secondary, wanted) = accs[n].result
    BY <1>1 DEF WeaveSteps
  <1> QED
    BY <1>2, <1>6, <1>7 DEF Before

-----------------------------------------------------------------------------
(* A merge that goes by the server's order turns no two entries of it.      *)
LEMMA MergedOrders ==
    ASSUME NEW V, NEW base, NEW read \in ItemsOf(V), NEW entries \in OrdersOf(V),
           NEW unanswered, NEW sort, Distinct(entries),
           sort # Automatic, ~Reordered(base, read, unanswered)
    PROVE  LET new == Merged(base, read, entries, unanswered, sort).entries
           IN  \A x, y \in IdsOf(entries) \ {NewEntry} :
                    Before(ItemIds(new), x, y) => Before(ItemIds(entries), x, y)
  <1> DEFINE settled == LandedInsert(base, read, entries, unanswered)
             merging == Released(base, read, settled.entries)
             gone == {i \in DOMAIN merging :
                        merging[i].item \in IdsOf(base) \ IdsOf(read)}
             added == IdsOf(read) \
                        (HeldBy(merging) \cup IdsOf(base) \cup {settled.madeHere})
             serverKeys == [i \in DOMAIN merging |-> Key(merging, i)]
             wanted == {serverKeys[i] : i \in DOMAIN merging \ gone} \cup added
             byYouTube == sort = Automatic \/ Reordered(base, read, unanswered)
             keys == IF byYouTube
                     THEN Weave(ItemIds(read), serverKeys, wanted)
                     ELSE Weave(serverKeys, ItemIds(read), wanted)
             TheEntry(k) ==
                IF \E i \in DOMAIN merging : Key(merging, i) = k
                THEN merging[CHOOSE i \in DOMAIN merging : Key(merging, i) = k]
                ELSE LET item == read[CHOOSE i \in DOMAIN read : read[i].id = k]
                     IN  Entry(NewEntry, item.video, item.id)
             new == Merged(base, read, entries, unanswered, sort).entries
  <1>1. new = [n \in DOMAIN keys |-> TheEntry(keys[n])]
    BY DEF Merged
  <1>2. /\ settled.entries \in OrdersOf(V) /\ Distinct(settled.entries)
        /\ DOMAIN settled.entries = DOMAIN entries
        /\ \A i \in DOMAIN entries : settled.entries[i].id = entries[i].id
    <2>1. /\ settled.entries \in OrdersOf(V)
          /\ Distinct(settled.entries)
          /\ DOMAIN settled.entries = DOMAIN entries
          /\ \A i \in DOMAIN entries :
                /\ settled.entries[i].id = entries[i].id
                /\ settled.entries[i].video = entries[i].video
                /\ \/ settled.entries[i].item = entries[i].item
                   \/ /\ entries[i].item = NoItem
                      /\ settled.entries[i].item \in Fresh(base, read, entries)
      BY LandedKeeps DEF Awaits
    <2> QED
      BY <2>1
  <1>3. /\ merging \in OrdersOf(V) /\ Distinct(merging) /\ DOMAIN merging = DOMAIN entries
        /\ \A i \in DOMAIN entries : merging[i].id = entries[i].id
    BY <1>2, ReleasedKeeps
  <1> HIDE DEF settled, merging
  <1>4. /\ serverKeys \in Seq(Int) /\ IsInjective(serverKeys)
        /\ DOMAIN serverKeys = DOMAIN merging
        /\ \A i \in DOMAIN merging : serverKeys[i] = Key(merging, i)
    BY <1>3, KeysAreDistinct DEF IsInjective
  <1>5. ItemIds(read) \in Seq(Int)
    BY ItemIdsOf
  <1> HIDE DEF serverKeys, wanted
  <1>10. keys = Weave(serverKeys, ItemIds(read), wanted)
    OBVIOUS
  <1> HIDE DEF keys
  <1>6. \A x, y \in Range(serverKeys) : Before(keys, x, y) => Before(serverKeys, x, y)
    BY <1>4, <1>5, <1>10, WeaveOrders
  <1>7. ASSUME NEW k, TheEntry(k).id # NewEntry
        PROVE  \E i \in DOMAIN merging : serverKeys[i] = k /\ TheEntry(k) = merging[i]
    <2> DEFINE here == CHOOSE i \in DOMAIN merging : Key(merging, i) = k
    <2>1. CASE \E i \in DOMAIN merging : Key(merging, i) = k
      <3>1. here \in DOMAIN merging /\ Key(merging, here) = k
        BY <2>1
      <3>2. TheEntry(k) = merging[here]
        BY <2>1
      <3> QED
        BY <1>4, <3>1, <3>2
    <2>2. CASE ~(\E i \in DOMAIN merging : Key(merging, i) = k)
      <3>1. TheEntry(k).id = NewEntry
        BY <2>2 DEF Entry
      <3> QED
        BY <1>7, <3>1
    <2> QED
      BY <2>1, <2>2
  <1> HIDE DEF TheEntry
  <1>8. /\ DOMAIN new = DOMAIN keys
        /\ \A n \in DOMAIN new : new[n] = TheEntry(keys[n])
    BY <1>1
  <1> HIDE DEF new
  <1>9. ASSUME NEW x \in IdsOf(entries) \ {NewEntry}, NEW y \in IdsOf(entries) \ {NewEntry},
               Before(ItemIds(new), x, y)
        PROVE  Before(ItemIds(entries), x, y)
    <2>1. PICK m \in DOMAIN new, n \in DOMAIN new : m < n /\ new[m].id = x /\ new[n].id = y
      BY <1>9 DEF Before, ItemIds
    <2>2. PICK i \in DOMAIN merging : serverKeys[i] = keys[m] /\ new[m] = merging[i]
      BY <1>7, <1>8, <2>1
    <2>3. PICK j \in DOMAIN merging : serverKeys[j] = keys[n] /\ new[n] = merging[j]
      BY <1>7, <1>8, <2>1
    <2>4. Before(keys, serverKeys[i], serverKeys[j])
      BY <1>8, <2>1, <2>2, <2>3 DEF Before
    <2>5. serverKeys[i] \in Range(serverKeys) /\ serverKeys[j] \in Range(serverKeys)
      BY <1>4 DEF Range
    <2>6. Before(serverKeys, serverKeys[i], serverKeys[j])
      BY <1>6, <2>4, <2>5
    <2>7. PICK p \in DOMAIN serverKeys, q \in DOMAIN serverKeys :
                p < q /\ serverKeys[p] = serverKeys[i] /\ serverKeys[q] = serverKeys[j]
      BY <2>6 DEF Before
    <2>8. p = i /\ q = j
      BY <1>4, <2>7 DEF IsInjective
    <2>9. i \in DOMAIN entries /\ j \in DOMAIN entries /\ entries[i].id = x /\ entries[j].id = y
      BY <1>3, <2>1, <2>2, <2>3
    <2> QED
      BY <2>7, <2>8, <2>9 DEF Before, ItemIds
  <1> QED
    BY <1>9 DEF new

-----------------------------------------------------------------------------
(***************************************************************************)
(* The longest run two lists of distinct keys have in one order.           *)
(***************************************************************************)
PlaceOf(ids, playlist, i) == PlaceIn(playlist, ids[i])
Smaller(ids, playlist, acc, i) ==
    {n \in DOMAIN acc.tails : PlaceOf(ids, playlist, acc.tails[n]) < PlaceOf(ids, playlist, i)}
Extended(ids, playlist, acc, i) ==
    LET k == Cardinality(Smaller(ids, playlist, acc, i))
    IN  [before |-> Append(acc.before, IF k = 0 THEN 0 ELSE acc.tails[k]),
         tails |-> IF k = Len(acc.tails) THEN Append(acc.tails, i)
                   ELSE [acc.tails EXCEPT ![k + 1] = i]]

RunAccs == [before : Seq(Nat), tails : Seq(Nat)]

(* The run a last index ends, back through the indices before.              *)
RunOf(acc, run) ==
    run = [k \in 1..Len(acc.tails) |->
                IF k = Len(acc.tails) THEN acc.tails[Len(acc.tails)]
                ELSE acc.before[run[k + 1]]]

LongestFold(ids, playlist) ==
    FoldLeftDomain(LAMBDA acc, i : Extended(ids, playlist, acc, i),
                   [before |-> <<>>, tails |-> <<>>], ids)

LEMMA LongestIsRun ==
    ASSUME NEW ids, NEW playlist
    PROVE  LongestIncreasing(ids, playlist) =
            LET acc == LongestFold(ids, playlist)
                run == CHOOSE run : RunOf(acc, run)
            IN  {ids[run[k]] : k \in 1..Len(acc.tails)}
  BY DEF LongestIncreasing, LongestFold, Extended, Smaller, PlaceOf, RunOf

LongestSteps(ids, playlist, accs) ==
    /\ accs[0] = [before |-> <<>>, tails |-> <<>>]
    /\ \A k \in 0..Len(ids) : accs[k] \in RunAccs
    /\ \A k \in 0..(Len(ids) - 1) : accs[k + 1] = Extended(ids, playlist, accs[k], k + 1)
    /\ LongestIncreasing(ids, playlist) =
            LET acc == accs[Len(ids)]
                run == CHOOSE run : RunOf(acc, run)
            IN  {ids[run[k]] : k \in 1..Len(acc.tails)}

LEMMA CountsUpTo ==
    ASSUME NEW n \in Nat, NEW s \in SUBSET (1..n)
    PROVE  Cardinality(s) \in 0..n
  <1>1. IsFiniteSet(1..n) /\ Cardinality(1..n) = n
    BY FS_Interval
  <1>2. IsFiniteSet(s) /\ Cardinality(s) <= n
    BY <1>1, FS_Subset
  <1> QED
    BY <1>2, FS_CardinalityType

LEMMA ExtendedTyped ==
    ASSUME NEW ids, NEW playlist, NEW acc \in RunAccs, NEW i \in Nat
    PROVE  Extended(ids, playlist, acc, i) \in RunAccs
  <1> DEFINE k == Cardinality(Smaller(ids, playlist, acc, i))
             tails == acc.tails
             n == Len(tails)
  <1>1. acc.before \in Seq(Nat) /\ tails \in Seq(Nat) /\ n \in Nat /\ DOMAIN tails = 1..n
    BY DEF RunAccs
  <1>2. k \in 0..n
    BY <1>1, CountsUpTo DEF Smaller
  <1>3. Extended(ids, playlist, acc, i) =
            [before |-> Append(acc.before, IF k = 0 THEN 0 ELSE tails[k]),
             tails |-> IF k = n THEN Append(tails, i) ELSE [tails EXCEPT ![k + 1] = i]]
    BY DEF Extended
  <1> HIDE DEF k, tails, n
  <1>4. (IF k = 0 THEN 0 ELSE tails[k]) \in Nat
    BY <1>1, <1>2
  <1>5. Append(acc.before, IF k = 0 THEN 0 ELSE tails[k]) \in Seq(Nat)
    BY <1>1, <1>4
  <1>6. (IF k = n THEN Append(tails, i) ELSE [tails EXCEPT ![k + 1] = i]) \in Seq(Nat)
    <2>1. CASE k = n
      BY <1>1, <2>1
    <2>2. CASE k # n
      <3>1. tails \in [1..n -> Nat]
        BY <1>1
      <3>3. [tails EXCEPT ![k + 1] = i] \in [1..n -> Nat]
        BY <3>1
      <3>2. [tails EXCEPT ![k + 1] = i] \in Seq(Nat)
        BY <1>1, <3>3, SeqDef
      <3> QED
        BY <2>2, <3>2
    <2> QED
      BY <2>1, <2>2
  <1> QED
    BY <1>3, <1>5, <1>6 DEF RunAccs

LEMMA LongestGoes ==
    ASSUME NEW T, NEW ids \in Seq(T), NEW playlist
    PROVE  \E accs : LongestSteps(ids, playlist, accs)
  <1> DEFINE n == Len(ids)
             order == [i \in DOMAIN ids |-> i]
             Q == RunAccs
             base == [before |-> <<>>, tails |-> <<>>]
             Steps(it) == it = [s \in SUBSET (1..n) |->
                                    IF s = {} THEN base
                                    ELSE Extended(ids, playlist, it[s \ {Max(s)}],
                                                  order[Max(s)])]
             it == CHOOSE it : Steps(it)
             G == [step \in (1..n) \X Q |-> Extended(ids, playlist, step[2], step[1])]
             accs == [k \in 0..n |-> it[1..k]]
  <1>1. n \in Nat /\ DOMAIN ids = 1..n /\ DOMAIN order = 1..n
    OBVIOUS
  <1>2. LongestIncreasing(ids, playlist) =
            LET acc == it[1..n]
                run == CHOOSE run : RunOf(acc, run)
            IN  {ids[run[k]] : k \in 1..Len(acc.tails)}
    <2>1. LongestFold(ids, playlist) = it[1..n]
      BY <1>1 DEF LongestFold, FoldLeftDomain, FoldLeft, MapThenFoldSet
    <2> HIDE DEF it
    <2> QED
      BY <2>1, LongestIsRun
  <1>3. base \in Q
    BY DEF RunAccs
  <1>4. G \in [(1..n) \X Q -> Q]
    BY <1>1, ExtendedTyped
  <1> HIDE DEF base
  <1>5. PICK g \in [SUBSET (1..n) -> Q] : IsFold(n, base, G, g)
    <2> HIDE DEF G, Q, n
    <2> QED
      BY <1>1, <1>3, <1>4, FoldExists
  <1>6. \A s \in SUBSET (1..n) : s # {} => Max(s) \in s /\ order[Max(s)] = Max(s)
    <2>1. \A s \in SUBSET (1..n) : s # {} => Max(s) \in s
      BY <1>1, MaxOfSome
    <2> QED
      BY <1>1, <2>1
  <1> HIDE DEF order
  <1>7. Steps(g)
    <2>1. \A s \in SUBSET (1..n) :
                g[s] = IF s = {} THEN base
                       ELSE Extended(ids, playlist, g[s \ {Max(s)}], order[Max(s)])
      <3> SUFFICES ASSUME NEW s \in SUBSET (1..n)
                   PROVE  g[s] = IF s = {} THEN base
                                 ELSE Extended(ids, playlist, g[s \ {Max(s)}], order[Max(s)])
        OBVIOUS
      <3>1. CASE s = {}
        BY <1>5, <3>1 DEF IsFold
      <3>2. CASE s # {}
        <4>1. g[s] = G[<<Max(s), g[s \ {Max(s)}]>>] /\ order[Max(s)] = Max(s) /\ Max(s) \in 1..n
          BY <1>5, <1>6, <3>2 DEF IsFold
        <4>2. g[s \ {Max(s)}] \in Q
          <5> HIDE DEF Q
          <5> QED
            BY <1>5
        <4>3. G[<<Max(s), g[s \ {Max(s)}]>>] =
                    Extended(ids, playlist, g[s \ {Max(s)}], Max(s))
          <5> HIDE DEF Q, n
          <5> QED
            BY <4>1, <4>2
        <4> QED
          BY <3>2, <4>1, <4>3
      <3> QED
        BY <3>1, <3>2
    <2> QED
      BY <2>1
  <1>8. Steps(it)
    BY <1>7
  <1> HIDE DEF it
  <1>9. TakesSteps(n, Q, base, G, it)
    <2>1. it[{}] = base
      BY <1>8
    <2>2. ASSUME NEW s \in SUBSET (1..n), s # {}, it[s \ {Max(s)}] \in Q
          PROVE  it[s] = G[<<Max(s), it[s \ {Max(s)}]>>]
      <3>1. it[s] = Extended(ids, playlist, it[s \ {Max(s)}], order[Max(s)])
        BY <1>8, <2>2
      <3>2. order[Max(s)] = Max(s) /\ Max(s) \in 1..n
        BY <1>6, <2>2
      <3>3. G[<<Max(s), it[s \ {Max(s)}]>>] = Extended(ids, playlist, it[s \ {Max(s)}], Max(s))
        <4> HIDE DEF Q, n
        <4> QED
          BY <2>2, <3>2
      <3> QED
        BY <3>1, <3>2, <3>3
    <2> QED
      BY <2>1, <2>2 DEF TakesSteps
  <1>10. /\ it[1..0] = base
         /\ \A k \in 0..n : it[1..k] \in Q
         /\ \A k \in 0..(n - 1) : it[1..(k + 1)] = G[<<k + 1, it[1..k]>>]
    <2> HIDE DEF G, n, Q
    <2>1. FoldGoes(n, Q, base, G, it)
      BY <1>1, <1>3, <1>4, <1>9, FoldSteps
    <2> QED
      BY <2>1 DEF FoldGoes
  <1>11. \A k \in 0..(n - 1) : it[1..(k + 1)] = Extended(ids, playlist, it[1..k], k + 1)
    <2> TAKE k \in 0..(n - 1)
    <2>1. k \in 0..n /\ k + 1 \in 1..n
      BY <1>1
    <2>2. it[1..k] \in Q
      BY <1>10, <2>1
    <2> HIDE DEF Q, n
    <2>3. G[<<k + 1, it[1..k]>>] = Extended(ids, playlist, it[1..k], k + 1)
      BY <2>1, <2>2
    <2> QED
      BY <1>10, <2>3
  <1> HIDE DEF G
  <1>12. \A k \in 0..n : accs[k] = it[1..k]
    OBVIOUS
  <1> HIDE DEF accs
  <1>13. /\ accs[0] = base /\ accs[n] = it[1..n]
         /\ \A k \in 0..n : accs[k] \in Q
         /\ \A k \in 0..(n - 1) : accs[k + 1] = Extended(ids, playlist, accs[k], k + 1)
    <2>1. 0 \in 0..n /\ n \in 0..n /\ \A k \in 0..(n - 1) : k \in 0..n /\ k + 1 \in 0..n
      BY <1>1
    <2> HIDE DEF Q
    <2> QED
      BY <1>10, <1>11, <1>12, <2>1
  <1>14. LongestSteps(ids, playlist, accs)
    BY <1>2, <1>13 DEF LongestSteps, base
  <1> QED
    BY <1>14

(* A function computed from its last argument down.                         *)
Down(n, a, b, f) == f = [k \in 1..n |-> IF k = n THEN a ELSE b[f[k + 1]]]

LEMMA DownExists ==
    ASSUME NEW n \in Nat, NEW a, NEW b
    PROVE  \E f : Down(n, a, b, f)
  <1> DEFINE Some(f, m) == \A k \in 1..n : k >= n - m =>
                                f[k] = IF k = n THEN a ELSE b[f[k + 1]]
             All == {m \in Nat : \E f : f = [k \in 1..n |-> f[k]] /\ Some(f, m)}
  <1>1. 0 \in All
    <2> DEFINE f == [k \in 1..n |-> a]
    <2>1. f = [k \in 1..n |-> f[k]] /\ Some(f, 0)
      OBVIOUS
    <2> HIDE DEF f, Some
    <2> QED
      BY <2>1
  <1>2. ASSUME NEW m \in Nat, m \in All PROVE m + 1 \in All
    <2>1. PICK f : f = [k \in 1..n |-> f[k]] /\ Some(f, m)
      BY <1>2
    <2> DEFINE at == n - (m + 1)
               g == [k \in 1..n |-> IF k = at THEN b[f[k + 1]] ELSE f[k]]
    <2>2. g = [k \in 1..n |-> g[k]]
      OBVIOUS
    <2>3. ASSUME NEW k \in 1..n, k >= at
          PROVE  g[k] = IF k = n THEN a ELSE b[g[k + 1]]
      <3>1. CASE k = at
        <4>1. k # n /\ k + 1 \in 1..n /\ k + 1 # at
          BY <3>1
        <4>2. g[k] = b[f[k + 1]] /\ g[k + 1] = f[k + 1]
          BY <3>1, <4>1
        <4> QED
          BY <4>1, <4>2
      <3>2. CASE k # at
        <4>1. k >= n - m /\ g[k] = f[k]
          BY <2>3, <3>2
        <4>2. f[k] = IF k = n THEN a ELSE b[f[k + 1]]
          BY <2>1, <4>1
        <4>3. k # n => k + 1 \in 1..n /\ k + 1 # at
          BY <2>3
        <4>4. k # n => g[k + 1] = f[k + 1]
          BY <4>3
        <4> HIDE DEF g
        <4> QED
          BY <4>1, <4>2, <4>4
      <3> QED
        BY <3>1, <3>2
    <2> HIDE DEF g
    <2>4. Some(g, m + 1)
      BY <2>3
    <2> HIDE DEF Some
    <2> QED
      BY <2>2, <2>4
  <1>3. n \in All
    <2> HIDE DEF All
    <2> QED
      BY <1>1, <1>2, Induct
  <1>4. PICK f : f = [k \in 1..n |-> f[k]] /\ Some(f, n)
    BY <1>3
  <1>5. \A k \in 1..n : f[k] = IF k = n THEN a ELSE b[f[k + 1]]
    <2>1. \A k \in 1..n : k >= n - n
      OBVIOUS
    <2> QED
      BY <1>4, <2>1
  <1>6. f = [k \in 1..n |-> IF k = n THEN a ELSE b[f[k + 1]]]
    BY <1>4, <1>5
  <1> QED
    BY <1>6 DEF Down

(* After the first i ids: each has the length of the longest run it ends,   *)
(* and tails has, for each length, a run's end with the smallest place.     *)
Ranked(ids, playlist, i, acc, rank) ==
    LET P(m) == PlaceOf(ids, playlist, m)
        top == Len(acc.tails)
    IN  /\ Len(acc.before) = i
        /\ \A k \in 1..top : acc.tails[k] \in 1..i /\ rank[acc.tails[k]] = k
        /\ \A j, k \in 1..top : j < k => P(acc.tails[j]) < P(acc.tails[k])
        /\ \A m \in 1..i : rank[m] \in 1..top /\ P(acc.tails[rank[m]]) <= P(m)
        /\ \A m \in 1..i : rank[m] > 1 =>
                /\ acc.before[m] \in 1..(m - 1)
                /\ rank[acc.before[m]] = rank[m] - 1
                /\ P(acc.before[m]) < P(m)
        /\ \A m, l \in 1..i : m < l /\ P(m) < P(l) => rank[m] < rank[l]

Below(top, P, bound) == {k \in 1..top : P[k] < bound}

(* What of a growing list is below a bound is its first.                    *)
LEMMA SmallerAreFirst ==
    ASSUME NEW top \in Nat, NEW P, NEW bound \in Nat,
           \A k \in 1..top : P[k] \in Nat, \A j, k \in 1..top : j < k => P[j] < P[k]
    PROVE  /\ Cardinality(Below(top, P, bound)) \in 0..top
           /\ Below(top, P, bound) = 1..Cardinality(Below(top, P, bound))
  <1> DEFINE s == {k \in 1..top : P[k] < bound}
  <1>3. s = Below(top, P, bound)
    BY DEF Below
  <1>1. ASSUME s = {} PROVE Cardinality(s) \in 0..top /\ s = 1..Cardinality(s)
    <2>1. Cardinality(s) = 0
      BY <1>1, FS_EmptySet
    <2> HIDE DEF s
    <2> QED
      BY <1>1, <2>1
  <1>2. ASSUME s # {} PROVE Cardinality(s) \in 0..top /\ s = 1..Cardinality(s)
    <2> DEFINE m == Max(s)
    <2>1. m \in s /\ \A k \in s : k <= m
      BY <1>2, MaxOfSome
    <2> HIDE DEF m
    <2>2. s = 1..m
      <3>1. \A k \in s : k \in 1..m
        BY <2>1
      <3>2. ASSUME NEW k \in 1..m PROVE k \in s
        <4>1. k \in 1..top /\ m \in 1..top /\ P[m] < bound
          BY <2>1
        <4>2. k < m => P[k] < P[m]
          BY <4>1
        <4>3. P[k] \in Nat /\ P[m] \in Nat
          BY <4>1
        <4> QED
          BY <4>1, <4>2, <4>3
      <3> QED
        BY <3>1, <3>2
    <2>3. m \in Nat /\ m <= top /\ 1 <= m
      BY <2>1
    <2>4. Cardinality(1..m) = m
      BY <2>3, FS_Interval
    <2> HIDE DEF s
    <2>5. Cardinality(s) = m
      BY <2>2, <2>4
    <2>6. m \in 0..top
      BY <2>3
    <2> QED
      BY <2>2, <2>5, <2>6
  <1> HIDE DEF s
  <1>4. Cardinality(s) \in 0..top /\ s = 1..Cardinality(s)
    BY <1>1, <1>2
  <1> QED
    BY <1>3, <1>4

LEMMA ExtendedRanks ==
    ASSUME NEW ids, NEW playlist, NEW i \in Nat,
           \A m \in 1..(i + 1) : PlaceOf(ids, playlist, m) \in Nat,
           NEW acc \in RunAccs, NEW rank, Ranked(ids, playlist, i, acc, rank)
    PROVE  \E longer : Ranked(ids, playlist, i + 1, Extended(ids, playlist, acc, i + 1), longer)
  <1> DEFINE P(m) == PlaceOf(ids, playlist, m)
             tails == acc.tails
             before == acc.before
             top == Len(tails)
             s == Smaller(ids, playlist, acc, i + 1)
             k == Cardinality(s)
             next == Extended(ids, playlist, acc, i + 1)
             longer == [m \in 1..(i + 1) |-> IF m = i + 1 THEN k + 1 ELSE rank[m]]
  <1>1. /\ before \in Seq(Nat) /\ tails \in Seq(Nat) /\ top \in Nat /\ DOMAIN tails = 1..top
        /\ DOMAIN before = 1..Len(before)
    BY DEF RunAccs
  <1>2. /\ Len(before) = i
        /\ \A n \in 1..top : tails[n] \in 1..i /\ rank[tails[n]] = n
        /\ \A j, n \in 1..top : j < n => P(tails[j]) < P(tails[n])
        /\ \A m \in 1..i : rank[m] \in 1..top /\ P(tails[rank[m]]) <= P(m)
        /\ \A m \in 1..i : rank[m] > 1 =>
                /\ before[m] \in 1..(m - 1)
                /\ rank[before[m]] = rank[m] - 1
                /\ P(before[m]) < P(m)
        /\ \A m, l \in 1..i : m < l /\ P(m) < P(l) => rank[m] < rank[l]
    BY DEF Ranked
  <1>3. \A m \in 1..(i + 1) : P(m) \in Nat
    OBVIOUS
  <1>4. k \in 0..top /\ \A n \in 1..top : P(tails[n]) < P(i + 1) <=> n <= k
    <2> DEFINE places == [n \in 1..top |-> P(tails[n])]
               bound == P(i + 1)
    <2>1. s = {n \in 1..top : places[n] < bound}
      BY <1>1 DEF Smaller
    <2>2. bound \in Nat /\ (\A n \in 1..top : places[n] \in Nat)
      <3>1. \A n \in 1..top : tails[n] \in 1..(i + 1)
        BY <1>2
      <3>2. i + 1 \in 1..(i + 1)
        OBVIOUS
      <3> QED
        BY <1>3, <3>1, <3>2
    <2>3. \A j, n \in 1..top : j < n => places[j] < places[n]
      BY <1>2
    <2>4. \A n \in 1..top : places[n] = P(tails[n])
      OBVIOUS
    <2> HIDE DEF s, top, places, bound
    <2>5. k \in 0..top /\ s = 1..k
      <3>1. s = Below(top, places, bound)
        BY <2>1 DEF Below
      <3>2. /\ Cardinality(Below(top, places, bound)) \in 0..top
            /\ Below(top, places, bound) = 1..Cardinality(Below(top, places, bound))
        BY <1>1, <2>2, <2>3, SmallerAreFirst
      <3> QED
        BY <3>1, <3>2
    <2> HIDE DEF k
    <2>6. \A n \in 1..top : n \in s <=> n <= k
      BY <1>1, <2>5
    <2> QED
      BY <2>1, <2>4, <2>5, <2>6 DEF bound
  <1>5. next = [before |-> Append(before, IF k = 0 THEN 0 ELSE tails[k]),
                tails |-> IF k = top THEN Append(tails, i + 1)
                          ELSE [tails EXCEPT ![k + 1] = i + 1]]
    BY DEF Extended
  <1> HIDE DEF next, k, s
  <1> DEFINE more == next.tails
             high == Len(more)
  <1>6. /\ high = IF k = top THEN top + 1 ELSE top
        /\ \A n \in 1..high : more[n] = IF n = k + 1 THEN i + 1 ELSE tails[n]
    <2>1. CASE k = top
      <3>1. more = Append(tails, i + 1)
        BY <1>5, <2>1
      <3> HIDE DEF more, tails
      <3> QED
        BY <1>1, <2>1, <3>1
    <2>2. CASE k # top
      <3>1. more = [tails EXCEPT ![k + 1] = i + 1]
        BY <1>5, <2>2
      <3>6. i + 1 \in Nat /\ top \in Nat
        BY <1>1
      <3> HIDE DEF more, tails, top
      <3>2. tails \in [1..top -> Nat]
        BY <1>1
      <3>3. more \in [1..top -> Nat]
        BY <3>1, <3>2, <3>6
      <3>4. more \in Seq(Nat) /\ Len(more) = top
        BY <3>3, <3>6, SeqDef
      <3>5. \A n \in 1..top : more[n] = IF n = k + 1 THEN i + 1 ELSE tails[n]
        BY <3>1, <3>2
      <3> QED
        BY <1>1, <2>2, <3>4, <3>5
    <2> QED
      BY <2>1, <2>2
  <1>7. /\ Len(next.before) = i + 1
        /\ \A m \in 1..(i + 1) : next.before[m] =
                IF m = i + 1 THEN (IF k = 0 THEN 0 ELSE tails[k]) ELSE before[m]
    <2>1. next.before = Append(before, IF k = 0 THEN 0 ELSE tails[k])
      BY <1>5
    <2>2. (IF k = 0 THEN 0 ELSE tails[k]) \in Nat
      BY <1>1, <1>4
    <2> HIDE DEF before, tails
    <2> QED
      BY <1>1, <1>2, <2>1, <2>2
  <1>8. \A m \in 1..(i + 1) : longer[m] = IF m = i + 1 THEN k + 1 ELSE rank[m]
    OBVIOUS
  <1> HIDE DEF more, high, longer, tails, before, top
  <1>9. /\ k \in Nat /\ k <= top /\ high \in Nat /\ top <= high /\ k + 1 <= high
        /\ \A n \in 1..high : n \in 1..top \/ n = k + 1
    BY <1>1, <1>4, <1>6
  <1> HIDE DEF P
  <1>10. ASSUME NEW n \in 1..high
         PROVE  more[n] \in 1..(i + 1) /\ longer[more[n]] = n
    <2>1. CASE n = k + 1
      <3>1. more[n] = i + 1
        BY <1>6, <2>1
      <3>2. i + 1 \in 1..(i + 1)
        OBVIOUS
      <3> QED
        BY <1>8, <2>1, <3>1, <3>2
    <2>2. CASE n # k + 1
      <3>1. n \in 1..top /\ more[n] = tails[n]
        BY <1>6, <1>9, <2>2
      <3>2. tails[n] \in 1..i /\ rank[tails[n]] = n
        BY <1>2, <3>1
      <3>3. tails[n] \in 1..(i + 1) /\ tails[n] # i + 1
        BY <3>2
      <3> QED
        BY <1>8, <3>1, <3>2, <3>3
    <2> QED
      BY <2>1, <2>2
  <1>11. \A n \in 1..top : P(tails[n]) \in Nat
    <2>1. \A n \in 1..top : tails[n] \in 1..(i + 1)
      BY <1>2
    <2> QED
      BY <1>3, <2>1
  <1>12. P(i + 1) \in Nat /\ \A m \in 1..i : P(m) \in Nat
    <2>1. i + 1 \in 1..(i + 1) /\ \A m \in 1..i : m \in 1..(i + 1)
      OBVIOUS
    <2> QED
      BY <1>3, <2>1
  <1>13. ASSUME NEW j \in 1..high, NEW n \in 1..high, j < n
         PROVE  P(more[j]) < P(more[n])
    <2>1. CASE j = k + 1
      <3>1. n \in 1..top /\ more[n] = tails[n] /\ more[j] = i + 1 /\ j \in 1..top
        BY <1>6, <1>9, <1>13, <2>1
      <3>2. ~(P(tails[j]) < P(i + 1))
        BY <1>4, <1>9, <2>1, <3>1
      <3>3. P(tails[j]) < P(tails[n])
        BY <1>2, <1>13, <3>1
      <3> QED
        BY <1>11, <1>12, <3>1, <3>2, <3>3
    <2>2. CASE n = k + 1
      <3>1. j \in 1..top /\ more[j] = tails[j] /\ more[n] = i + 1 /\ j <= k
        BY <1>6, <1>9, <1>13, <2>2
      <3> QED
        BY <1>4, <3>1
    <2>3. CASE j # k + 1 /\ n # k + 1
      <3>1. j \in 1..top /\ n \in 1..top /\ more[j] = tails[j] /\ more[n] = tails[n]
        BY <1>6, <1>9, <2>3
      <3> QED
        BY <1>2, <1>13, <3>1
    <2> QED
      BY <2>1, <2>2, <2>3
  <1>14. ASSUME NEW m \in 1..(i + 1)
         PROVE  longer[m] \in 1..high /\ P(more[longer[m]]) <= P(m)
    <2>1. CASE m = i + 1
      <3>1. longer[m] = k + 1 /\ k + 1 \in 1..high
        BY <1>8, <1>9, <2>1
      <3>2. more[k + 1] = i + 1
        BY <1>6, <3>1
      <3> QED
        BY <1>12, <2>1, <3>1, <3>2
    <2>2. CASE m # i + 1
      <3>1. m \in 1..i /\ longer[m] = rank[m]
        BY <1>8, <2>2
      <3>2. rank[m] \in 1..top /\ P(tails[rank[m]]) <= P(m) /\ rank[m] \in 1..high
        <4>1. rank[m] \in 1..top /\ P(tails[rank[m]]) <= P(m)
          BY <1>2, <3>1
        <4> QED
          BY <1>1, <1>9, <4>1
      <3>3. CASE rank[m] = k + 1
        <4>1. more[rank[m]] = i + 1
          BY <1>6, <3>2, <3>3
        <4>2. ~(P(tails[rank[m]]) < P(i + 1))
          BY <1>4, <1>9, <3>2, <3>3
        <4>3. P(i + 1) <= P(m)
          BY <1>11, <1>12, <3>1, <3>2, <4>2
        <4> QED
          BY <3>1, <3>2, <4>1, <4>3
      <3>4. CASE rank[m] # k + 1
        <4>1. more[rank[m]] = tails[rank[m]]
          BY <1>6, <3>2, <3>4
        <4> QED
          BY <3>1, <3>2, <4>1
      <3> QED
        BY <3>3, <3>4
    <2> QED
      BY <2>1, <2>2
  <1>15. ASSUME NEW m \in 1..(i + 1), longer[m] > 1
         PROVE  /\ next.before[m] \in 1..(m - 1)
                /\ longer[next.before[m]] = longer[m] - 1
                /\ P(next.before[m]) < P(m)
    <2>1. CASE m = i + 1
      <3>1. longer[m] = k + 1 /\ k # 0 /\ k \in 1..top
        BY <1>8, <1>9, <1>15, <2>1
      <3>2. next.before[m] = tails[k]
        BY <1>7, <2>1, <3>1
      <3>3. tails[k] \in 1..i /\ rank[tails[k]] = k
        BY <1>2, <3>1
      <3>4. tails[k] \in 1..(i + 1) /\ tails[k] # i + 1 /\ m - 1 = i
        BY <2>1, <3>3
      <3>5. longer[tails[k]] = k
        BY <1>8, <3>3, <3>4
      <3>6. P(tails[k]) < P(i + 1)
        BY <1>4, <1>9, <3>1
      <3> QED
        BY <1>9, <2>1, <3>1, <3>2, <3>3, <3>4, <3>5, <3>6
    <2>2. CASE m # i + 1
      <3>1. m \in 1..i /\ longer[m] = rank[m] /\ next.before[m] = before[m]
        BY <1>7, <1>8, <2>2
      <3>2. /\ before[m] \in 1..(m - 1)
            /\ rank[before[m]] = rank[m] - 1
            /\ P(before[m]) < P(m)
        BY <1>2, <1>15, <3>1
      <3>3. before[m] \in 1..(i + 1) /\ before[m] # i + 1
        BY <3>1, <3>2
      <3>4. longer[before[m]] = rank[before[m]]
        BY <1>8, <3>3
      <3> QED
        BY <3>1, <3>2, <3>4
    <2> QED
      BY <2>1, <2>2
  <1>16. ASSUME NEW m \in 1..(i + 1), NEW l \in 1..(i + 1), m < l, P(m) < P(l)
         PROVE  longer[m] < longer[l]
    <2>1. m \in 1..i /\ longer[m] = rank[m] /\ rank[m] \in 1..top
      <3>1. m \in 1..i /\ m # i + 1
        BY <1>16
      <3> QED
        BY <1>2, <1>8, <3>1
    <2>2. CASE l = i + 1
      <3>1. P(tails[rank[m]]) <= P(m)
        BY <1>2, <2>1
      <3>2. P(tails[rank[m]]) < P(i + 1)
        BY <1>11, <1>12, <1>16, <2>1, <2>2, <3>1
      <3>3. rank[m] <= k
        BY <1>4, <2>1, <3>2
      <3> QED
        BY <1>8, <1>9, <2>1, <2>2, <3>3
    <2>3. CASE l # i + 1
      <3>1. l \in 1..i /\ longer[l] = rank[l]
        BY <1>8, <2>3
      <3> QED
        BY <1>2, <1>16, <2>1, <3>1
    <2> QED
      BY <2>2, <2>3
  <1>17. Ranked(ids, playlist, i + 1, next, longer)
    BY <1>7, <1>10, <1>13, <1>14, <1>15, <1>16 DEF Ranked, P, more, high
  <1> QED
    BY <1>17 DEF next

(* What the longest run is: some of the ids, in their order and in the      *)
(* playlist's, as many as the longest such run has.                         *)
LongestIs(ids, playlist, n, at, rank) ==
    /\ n \in Nat /\ at \in [1..n -> 1..Len(ids)] /\ rank \in [1..Len(ids) -> 1..n]
    /\ LongestIncreasing(ids, playlist) = {ids[at[k]] : k \in 1..n}
    /\ \A j, k \in 1..n : j < k =>
            /\ at[j] < at[k]
            /\ PlaceOf(ids, playlist, at[j]) < PlaceOf(ids, playlist, at[k])
    /\ \A m, l \in 1..Len(ids) :
            m < l /\ PlaceOf(ids, playlist, m) < PlaceOf(ids, playlist, l) => rank[m] < rank[l]

LEMMA LongestRun ==
    ASSUME NEW T, NEW ids \in Seq(T), NEW U, NEW playlist \in Seq(U)
    PROVE  \E n, at, rank : LongestIs(ids, playlist, n, at, rank)
  <1> DEFINE len == Len(ids)
             P(m) == PlaceOf(ids, playlist, m)
  <1>1. len \in Nat /\ \A m \in 1..len : P(m) \in Nat
    <2>1. \A e : PlaceIn(playlist, e) \in Nat
      BY PlaceInList
    <2> QED
      BY <2>1 DEF PlaceOf
  <1>2. PICK accs : LongestSteps(ids, playlist, accs)
    BY LongestGoes
  <1> DEFINE All == {i \in Nat : i <= len =>
                        \E rank : Ranked(ids, playlist, i, accs[i], rank)}
  <1>3. 0 \in All
    <2>1. accs[0] = [before |-> <<>>, tails |-> <<>>]
      BY <1>2 DEF LongestSteps
    <2>2. Len(accs[0].before) = 0 /\ Len(accs[0].tails) = 0
      BY <2>1
    <2>3. Ranked(ids, playlist, 0, accs[0], <<>>)
      BY <2>2 DEF Ranked
    <2> QED
      BY <2>3
  <1>4. ASSUME NEW i \in Nat, i \in All PROVE i + 1 \in All
    <2> SUFFICES ASSUME i + 1 <= len
                 PROVE  \E rank : Ranked(ids, playlist, i + 1, accs[i + 1], rank)
      OBVIOUS
    <2>1. i \in 0..(len - 1) /\ i \in 0..len /\ i <= len
      BY <1>1
    <2>2. accs[i] \in RunAccs /\ accs[i + 1] = Extended(ids, playlist, accs[i], i + 1)
      BY <1>2, <2>1 DEF LongestSteps
    <2>3. PICK rank : Ranked(ids, playlist, i, accs[i], rank)
      BY <1>4, <2>1
    <2>4. \A m \in 1..(i + 1) : PlaceOf(ids, playlist, m) \in Nat
      BY <1>1
    <2> DEFINE acc == accs[i]
    <2> HIDE DEF acc
    <2>5. \E longer : Ranked(ids, playlist, i + 1, Extended(ids, playlist, acc, i + 1), longer)
      <3>1. acc \in RunAccs /\ Ranked(ids, playlist, i, acc, rank)
        BY <2>2, <2>3 DEF acc
      <3> QED
        BY <2>4, <3>1, ExtendedRanks
    <2> QED
      BY <2>2, <2>5 DEF acc
  <1>5. len \in All
    <2> HIDE DEF All, len
    <2> QED
      BY <1>1, <1>3, <1>4, Induct
  <1>6. PICK rank : Ranked(ids, playlist, len, accs[len], rank)
    BY <1>1, <1>5
  <1> DEFINE acc == accs[len]
             n == Len(acc.tails)
             at == CHOOSE run : RunOf(acc, run)
             best == [m \in 1..len |-> rank[m]]
  <1>7. /\ acc \in RunAccs
        /\ LongestIncreasing(ids, playlist) = {ids[at[k]] : k \in 1..n}
    <2>1. len \in 0..len
      BY <1>1
    <2> QED
      BY <1>2, <2>1 DEF LongestSteps
  <1> HIDE DEF acc
  <1>8. n \in Nat
    BY <1>7 DEF RunAccs
  <1>9. /\ \A k \in 1..n : acc.tails[k] \in 1..len /\ rank[acc.tails[k]] = k
        /\ \A m \in 1..len : rank[m] \in 1..n
        /\ \A m \in 1..len : rank[m] > 1 =>
                /\ acc.before[m] \in 1..(m - 1)
                /\ rank[acc.before[m]] = rank[m] - 1
                /\ P(acc.before[m]) < P(m)
        /\ \A m, l \in 1..len : m < l /\ P(m) < P(l) => rank[m] < rank[l]
    BY <1>6 DEF Ranked, acc
  <1>10. RunOf(acc, at)
    <2>1. \E f : f = [k \in 1..n |-> IF k = n THEN acc.tails[n] ELSE acc.before[f[k + 1]]]
      <3> DEFINE a == acc.tails[n]
                 b == acc.before
      <3>1. \E f : Down(n, a, b, f)
        <4> HIDE DEF a, b, n
        <4> QED
          BY <1>8, DownExists
      <3> QED
        BY <3>1 DEF Down
    <2>2. \E f : RunOf(acc, f)
      BY <2>1 DEF RunOf
    <2> QED
      BY <2>2
  <1>11. /\ at = [k \in 1..n |-> at[k]]
         /\ \A k \in 1..n : at[k] = IF k = n THEN acc.tails[n] ELSE acc.before[at[k + 1]]
    <2>1. at = [k \in 1..n |-> IF k = n THEN acc.tails[n] ELSE acc.before[at[k + 1]]]
      BY <1>10 DEF RunOf
    <2> HIDE DEF at, n
    <2> QED
      BY <2>1
  <1> HIDE DEF at, n
  <1> DEFINE Back == {m \in Nat : m < n =>
                        at[n - m] \in 1..len /\ rank[at[n - m]] = n - m}
  <1>12. 0 \in Back
    <2> SUFFICES ASSUME 0 < n PROVE at[n - 0] \in 1..len /\ rank[at[n - 0]] = n - 0
      OBVIOUS
    <2>1. n \in 1..n /\ n - 0 = n
      BY <1>8
    <2>2. at[n] = acc.tails[n]
      BY <1>11, <2>1
    <2> QED
      BY <1>9, <2>1, <2>2
  <1>13. ASSUME NEW m \in Nat, m \in Back PROVE m + 1 \in Back
    <2> SUFFICES ASSUME m + 1 < n
                 PROVE  at[n - (m + 1)] \in 1..len /\ rank[at[n - (m + 1)]] = n - (m + 1)
      OBVIOUS
    <2> DEFINE k == n - (m + 1)
    <2>1. k \in 1..n /\ k # n /\ k + 1 = n - m /\ k + 1 \in 1..n /\ k + 1 > 1
      BY <1>8
    <2>2. at[k + 1] \in 1..len /\ rank[at[k + 1]] = k + 1
      BY <1>8, <1>13, <2>1
    <2>3. at[k] = acc.before[at[k + 1]]
      BY <1>11, <2>1
    <2>4. acc.before[at[k + 1]] \in 1..(at[k + 1] - 1) /\ rank[acc.before[at[k + 1]]] = k
      BY SMTT(30), <1>8, <1>9, <2>1, <2>2
    <2>5. acc.before[at[k + 1]] \in 1..len
      BY <1>1, <2>2, <2>4
    <2> QED
      BY <2>3, <2>4, <2>5
  <1>14. ASSUME NEW k \in 1..n PROVE at[k] \in 1..len /\ rank[at[k]] = k
    <2> HIDE DEF Back
    <2>1. Nat \subseteq Back
      BY <1>12, <1>13, Induct
    <2>2. n - k \in Nat /\ n - k < n /\ n - (n - k) = k
      BY <1>8
    <2>3. n - k \in Back
      BY <2>1, <2>2
    <2> QED
      BY <2>2, <2>3 DEF Back
  <1>15. ASSUME NEW k \in 1..n, k + 1 \in 1..n
         PROVE  at[k] < at[k + 1] /\ P(at[k]) < P(at[k + 1])
    <2>1. at[k + 1] \in 1..len /\ rank[at[k + 1]] = k + 1 /\ k + 1 > 1
      BY <1>8, <1>14, <1>15
    <2>4. k # n
      BY <1>8, <1>15
    <2>2. at[k] = acc.before[at[k + 1]]
      BY <1>11, <2>4
    <2>3. acc.before[at[k + 1]] \in 1..(at[k + 1] - 1)
            /\ P(acc.before[at[k + 1]]) < P(at[k + 1])
      BY <1>9, <2>1
    <2> QED
      BY <1>1, <2>1, <2>2, <2>3
  <1> HIDE DEF P
  <1> DEFINE Up(d) == \A j \in 1..n : j + (d + 1) \in 1..n =>
                            at[j] < at[j + (d + 1)] /\ P(at[j]) < P(at[j + (d + 1)])
             Ups == {d \in Nat : Up(d)}
  <1>16. 0 \in Ups
    <2>1. Up(0)
      BY <1>15
    <2> HIDE DEF Up
    <2> QED
      BY <2>1
  <1>17. ASSUME NEW d \in Nat, d \in Ups PROVE d + 1 \in Ups
    <2>1. ASSUME NEW j \in 1..n, j + (d + 2) \in 1..n
          PROVE  at[j] < at[j + (d + 2)] /\ P(at[j]) < P(at[j + (d + 2)])
      <3>1. j + (d + 1) \in 1..n /\ (j + (d + 1)) + 1 = j + (d + 2)
        BY <1>8, <2>1
      <3>2. at[j] < at[j + (d + 1)] /\ P(at[j]) < P(at[j + (d + 1)])
        BY <1>17, <3>1
      <3>3. at[j + (d + 1)] < at[j + (d + 2)] /\ P(at[j + (d + 1)]) < P(at[j + (d + 2)])
        BY <1>15, <2>1, <3>1
      <3>4. /\ at[j] \in 1..len /\ at[j + (d + 1)] \in 1..len /\ at[j + (d + 2)] \in 1..len
        BY <1>14, <2>1, <3>1
      <3>5. P(at[j]) \in Nat /\ P(at[j + (d + 1)]) \in Nat /\ P(at[j + (d + 2)]) \in Nat
        BY <1>1, <3>4
      <3>6. at[j] < at[j + (d + 2)]
        BY <1>1, <3>2, <3>3, <3>4
      <3> QED
        BY <3>2, <3>3, <3>5, <3>6
    <2>2. Up(d + 1)
      <3>1. d + 2 = (d + 1) + 1
        OBVIOUS
      <3> QED
        BY <2>1, <3>1
    <2> HIDE DEF Up
    <2> QED
      BY <2>2
  <1>18. ASSUME NEW j \in 1..n, NEW k \in 1..n, j < k
         PROVE  at[j] < at[k] /\ P(at[j]) < P(at[k])
    <2> DEFINE d == (k - j) - 1
    <2>1. d \in Nat /\ j + (d + 1) = k
      BY <1>8, <1>18
    <2>2. Up(d)
      <3> HIDE DEF Up
      <3>1. Nat \subseteq Ups
        <4> HIDE DEF Ups
        <4> QED
          BY <1>16, <1>17, Induct
      <3> QED
        BY <2>1, <3>1
    <2> HIDE DEF d
    <2> QED
      BY <2>1, <2>2
  <1>19. at \in [1..n -> 1..len] /\ best \in [1..len -> 1..n]
            /\ \A m \in 1..len : best[m] = rank[m]
    BY <1>9, <1>11, <1>14
  <1> HIDE DEF best
  <1>20. LongestIs(ids, playlist, n, at, best)
    BY <1>7, <1>8, <1>9, <1>18, <1>19 DEF LongestIs, P, n
  <1> QED
    BY <1>20

LEMMA PlacedBefore ==
    ASSUME NEW T, NEW list \in Seq(T), IsInjective(list),
           NEW x \in Range(list), NEW y \in Range(list)
    PROVE  Before(list, x, y) <=> PlaceIn(list, x) < PlaceIn(list, y)
  <1> DEFINE i == PlaceIn(list, x)
             j == PlaceIn(list, y)
  <1>1. DOMAIN list = 1..Len(list) /\ Len(list) \in Nat
    OBVIOUS
  <1>2. i \in 1..Len(list) /\ list[i] = x /\ j \in 1..Len(list) /\ list[j] = y
    BY PlaceInList
  <1> HIDE DEF i, j
  <1>3. i < j => Before(list, x, y)
    BY <1>1, <1>2 DEF Before
  <1>4. ASSUME Before(list, x, y) PROVE i < j
    <2>1. PICK k \in DOMAIN list, l \in DOMAIN list : k < l /\ list[k] = x /\ list[l] = y
      BY <1>4 DEF Before
    <2>2. k = i /\ l = j
      BY <1>1, <1>2, <2>1 DEF IsInjective
    <2> QED
      BY <2>1, <2>2
  <1> QED
    BY <1>3, <1>4 DEF i, j

(* The longest run is some of the ids, none the other way round in playlist, *)
(* and no other such set of them is larger.                                 *)
THEOREM LongestIsLongest ==
    ASSUME NEW T, NEW ids \in Seq(T), NEW playlist \in Seq(T),
           IsInjective(ids), IsInjective(playlist), Range(ids) \subseteq Range(playlist)
    PROVE  LET stays == LongestIncreasing(ids, playlist)
           IN  /\ stays \subseteq Range(ids)
               /\ \A x, y \in stays : Before(ids, x, y) => Before(playlist, x, y)
               /\ \A x, y \in stays : Before(playlist, x, y) => Before(ids, x, y)
               /\ IsFiniteSet(stays)
               /\ \A S \in SUBSET Range(ids) :
                    (\A x, y \in S : Before(ids, x, y) => Before(playlist, x, y))
                        => Cardinality(S) <= Cardinality(stays)
  <1> DEFINE stays == LongestIncreasing(ids, playlist)
             len == Len(ids)
             P(m) == PlaceOf(ids, playlist, m)
  <1>1. len \in Nat /\ DOMAIN ids = 1..len
    OBVIOUS
  <1>2. PICK n, at, rank : LongestIs(ids, playlist, n, at, rank)
    BY LongestRun
  <1>3. /\ n \in Nat /\ at \in [1..n -> 1..len] /\ rank \in [1..len -> 1..n]
        /\ stays = {ids[at[k]] : k \in 1..n}
        /\ \A j, k \in 1..n : j < k => at[j] < at[k] /\ P(at[j]) < P(at[k])
        /\ \A m, l \in 1..len : m < l /\ P(m) < P(l) => rank[m] < rank[l]
    BY <1>2 DEF LongestIs
  <1>4. \A m \in 1..len : P(m) \in Nat /\ P(m) = PlaceIn(playlist, ids[m]) /\ ids[m] \in Range(ids)
    BY <1>1, PlaceInList DEF PlaceOf, Range
  <1> HIDE DEF stays, len, P
  <1>5. stays \subseteq Range(ids)
    BY <1>1, <1>3 DEF Range
  <1>6. ASSUME NEW x \in stays, NEW y \in stays, Before(ids, x, y) PROVE Before(playlist, x, y)
    <2>1. PICK j \in 1..n, k \in 1..n : x = ids[at[j]] /\ y = ids[at[k]]
      BY <1>3
    <2>2. PICK m \in 1..len, l \in 1..len : m < l /\ ids[m] = x /\ ids[l] = y
      BY <1>1, <1>6 DEF Before
    <2>3. m = at[j] /\ l = at[k]
      BY <1>1, <1>3, <2>1, <2>2 DEF IsInjective
    <2>4. j < k
      <3>4. m \in Nat /\ l \in Nat
        OBVIOUS
      <3>2. at[j] \in Nat /\ at[k] \in Nat /\ at[j] < at[k]
        BY <2>2, <2>3, <3>4
      <3>3. k < j => at[k] < at[j]
        BY <1>3
      <3>1. j # k /\ ~(k < j)
        BY <3>2, <3>3
      <3> QED
        BY <1>3, <3>1
    <2>5. PlaceIn(playlist, x) < PlaceIn(playlist, y)
      BY <1>3, <1>4, <2>1, <2>2, <2>3, <2>4
    <2>6. x \in Range(playlist) /\ y \in Range(playlist)
      BY <1>5
    <2> QED
      BY <2>5, <2>6, PlacedBefore
  <1>7. ASSUME NEW x \in stays, NEW y \in stays, Before(playlist, x, y) PROVE Before(ids, x, y)
    <2>1. x # y /\ ~Before(playlist, y, x)
      BY <1>7, BeforeOnce
    <2>2. Before(ids, x, y) \/ Before(ids, y, x)
      BY <1>5, <2>1, BeforeOrAfter
    <2> QED
      BY <1>6, <2>1, <2>2
  <1>8. IsFiniteSet(stays) /\ Cardinality(stays) = n
    <2> DEFINE f == [k \in 1..n |-> ids[at[k]]]
    <2>1. f \in Surjection(1..n, stays)
      BY <1>3 DEF Surjection
    <2>2. ASSUME NEW j \in 1..n, NEW k \in 1..n, f[j] = f[k] PROVE j = k
      <3>1. at[j] = at[k]
        BY <1>1, <1>3, <2>2 DEF IsInjective
      <3>2. ~(j < k) /\ ~(k < j)
        BY <1>1, <1>3, <3>1
      <3> QED
        BY <1>3, <3>2
    <2>3. f \in Injection(1..n, stays)
      BY <2>1, <2>2 DEF Surjection, Injection, IsInjective
    <2>4. f \in Bijection(1..n, stays)
      BY <2>1, <2>3 DEF Bijection
    <2>5. IsFiniteSet(1..n) /\ Cardinality(1..n) = n
      BY <1>3, FS_Interval
    <2>6. ExistsBijection(1..n, stays)
      BY <2>4 DEF ExistsBijection
    <2> QED
      BY <2>5, <2>6, FS_Bijection
  <1>9. ASSUME NEW S \in SUBSET Range(ids),
               \A x, y \in S : Before(ids, x, y) => Before(playlist, x, y)
        PROVE  Cardinality(S) <= Cardinality(stays)
    <2> DEFINE place == [x \in S |-> PlaceIn(ids, x)]
               f == [x \in S |-> rank[place[x]]]
    <2>1. \A x \in S : place[x] \in 1..len /\ ids[place[x]] = x
      BY PlaceInList DEF len
    <2> HIDE DEF place
    <2>2. f \in [S -> 1..n]
      BY <1>3, <2>1
    <2>3. ASSUME NEW x \in S, NEW y \in S, place[x] < place[y] PROVE f[x] < f[y]
      <3>1. Before(ids, x, y)
        BY <1>1, <2>1, <2>3 DEF Before
      <3>2. Before(playlist, x, y) /\ x \in Range(playlist) /\ y \in Range(playlist)
        BY <1>9, <3>1
      <3>3. PlaceIn(playlist, x) < PlaceIn(playlist, y)
        BY <3>2, PlacedBefore
      <3>4. P(place[x]) < P(place[y])
        BY <1>4, <2>1, <3>3
      <3> QED
        BY <1>3, <2>1, <2>3, <3>4
    <2>4. ASSUME NEW x \in S, NEW y \in S, f[x] = f[y] PROVE x = y
      <3> HIDE DEF f
      <3>4. f[x] \in 1..n /\ f[y] \in 1..n
        BY <2>2
      <3>1. f[x] \in Nat /\ f[y] \in Nat
        BY <3>4
      <3>2. ~(place[x] < place[y]) /\ ~(place[y] < place[x])
        BY <2>3, <2>4, <3>1
      <3>3. place[x] = place[y]
        BY <1>1, <2>1, <3>2
      <3> QED
        BY <2>1, <3>3
    <2> HIDE DEF f
    <2>5. f \in Injection(S, 1..n)
      BY <2>2, <2>4 DEF Injection, IsInjective
    <2>6. IsFiniteSet(1..n) /\ Cardinality(1..n) = n
      BY <1>3, FS_Interval
    <2>7. Cardinality(S) <= Cardinality(1..n)
      BY <2>5, <2>6, FS_Injection
    <2> QED
      BY <1>8, <2>6, <2>7
  <1> QED
    BY <1>5, <1>6, <1>7, <1>8, <1>9 DEF stays

-----------------------------------------------------------------------------
(***************************************************************************)
(* The lists a playlist goes through as a plan is carried out.  A list has *)
(* an item's id, or minus the place of the entry an item was made for.      *)
(***************************************************************************)
IdsAfter(ids, w, key) ==
    CASE w.kind = "delete" -> RemoveAt(ids, PlaceIn(ids, w.item))
      [] w.kind = "append" -> Append(ids, key)
      [] w.kind = "insert" -> InsertAt(ids, w.position + 1, key)
      [] w.kind = "move" ->
            InsertAt(RemoveAt(ids, PlaceIn(ids, w.item)), w.position + 1, w.item)

(* A write YouTube accepts of ids, which makes them next.                   *)
Accepted(entries, ids, w, next) ==
    \/ /\ w.kind = "delete" /\ w.entry = NewEntry
       /\ w.item \in Range(ids) /\ w.item \in Nat \ {0}
       /\ next = IdsAfter(ids, w, 0)
    \/ /\ w.kind = "move" /\ w.entry = NewEntry
       /\ w.item \in Range(ids) /\ w.item \in Nat \ {0}
       /\ w.position \in 0..(Len(ids) - 1)
       /\ next = IdsAfter(ids, w, 0)
    \/ /\ w.kind \in {"insert", "append"}
       /\ w.kind = "insert" => w.position \in 0..Len(ids)
       /\ \E i \in DOMAIN entries :
            /\ entries[i].id = w.entry /\ entries[i].item = NoItem
            /\ -i \notin Range(ids)
            /\ next = IdsAfter(ids, w, -i)

ListsRun(entries, lists, writes, from, to) ==
    /\ lists \in [1..(Len(writes) + 1) -> {ids \in Seq(Int) : IsInjective(ids)}]
    /\ lists[1] = from /\ lists[Len(writes) + 1] = to
    /\ \A i \in 1..Len(writes) : Accepted(entries, lists[i], writes[i], lists[i + 1])

Reaches(entries, writes, from, to) == \E lists : ListsRun(entries, lists, writes, from, to)

LEMMA ReachesNone ==
    ASSUME NEW entries, NEW ids \in Seq(Int), IsInjective(ids)
    PROVE  Reaches(entries, <<>>, ids, ids)
  <1> DEFINE lists == [i \in 1..1 |-> ids]
  <1>1. ListsRun(entries, lists, <<>>, ids, ids)
    BY DEF ListsRun
  <1> QED
    BY <1>1 DEF Reaches

LEMMA ReachesAppend ==
    ASSUME NEW entries, NEW T, NEW writes \in Seq(T), NEW w \in T, NEW from, NEW to,
           NEW next \in Seq(Int), IsInjective(next),
           Reaches(entries, writes, from, to), Accepted(entries, to, w, next)
    PROVE  Reaches(entries, Append(writes, w), from, next)
  <1>1. PICK lists : ListsRun(entries, lists, writes, from, to)
    BY DEF Reaches
  <1> DEFINE L == {ids \in Seq(Int) : IsInjective(ids)}
             n == Len(writes)
             more == [i \in 1..(n + 2) |-> IF i = n + 2 THEN next ELSE lists[i]]
             longer == Append(writes, w)
  <1>2. /\ n \in Nat /\ Len(longer) = n + 1
        /\ \A i \in 1..n : longer[i] = writes[i]
        /\ longer[n + 1] = w
    OBVIOUS
  <1>3. /\ lists \in [1..(n + 1) -> L] /\ lists[1] = from /\ lists[n + 1] = to
        /\ \A i \in 1..n : Accepted(entries, lists[i], writes[i], lists[i + 1])
    BY <1>1 DEF ListsRun
  <1>8. next \in L
    OBVIOUS
  <1> HIDE DEF longer, n, L
  <1>4. more \in [1..(Len(longer) + 1) -> L]
    BY <1>2, <1>3, <1>8
  <1>5. more[1] = from /\ more[Len(longer) + 1] = next
    BY <1>2, <1>3
  <1>6. ASSUME NEW i \in 1..Len(longer)
        PROVE  Accepted(entries, more[i], longer[i], more[i + 1])
    <2>1. CASE i = n + 1
      <3>1. more[i] = to /\ more[i + 1] = next /\ longer[i] = w
        BY <1>2, <1>3, <2>1
      <3> QED
        BY <3>1
    <2>2. CASE i # n + 1
      <3>1. i \in 1..n /\ more[i] = lists[i] /\ more[i + 1] = lists[i + 1]
        BY <1>2, <1>3, <2>2
      <3> QED
        BY <1>2, <1>3, <3>1
    <2> QED
      BY <2>1, <2>2
  <1>7. ListsRun(entries, more, longer, from, next)
    BY <1>4, <1>5, <1>6 DEF ListsRun, L
  <1> QED
    BY <1>7 DEF Reaches, longer

LEMMA ReachesBoth ==
    ASSUME NEW entries, NEW T, NEW first \in Seq(T), NEW then \in Seq(T),
           NEW from, NEW mid, NEW to,
           Reaches(entries, first, from, mid), Reaches(entries, then, mid, to)
    PROVE  Reaches(entries, first \o then, from, to)
  <1>1. PICK f : ListsRun(entries, f, first, from, mid)
    BY DEF Reaches
  <1>2. PICK g : ListsRun(entries, g, then, mid, to)
    BY DEF Reaches
  <1> DEFINE L == {ids \in Seq(Int) : IsInjective(ids)}
             n == Len(first)
             m == Len(then)
             both == first \o then
             lists == [i \in 1..(n + m + 1) |-> IF i <= n THEN f[i] ELSE g[i - n]]
  <1>3. /\ n \in Nat /\ m \in Nat /\ Len(both) = n + m
        /\ \A i \in 1..(n + m) : both[i] = IF i <= n THEN first[i] ELSE then[i - n]
    BY ConcatProperties
  <1>4. /\ f \in [1..(n + 1) -> L] /\ f[1] = from /\ f[n + 1] = mid
        /\ \A i \in 1..n : Accepted(entries, f[i], first[i], f[i + 1])
    BY <1>1 DEF ListsRun
  <1>5. /\ g \in [1..(m + 1) -> L] /\ g[1] = mid /\ g[m + 1] = to
        /\ \A i \in 1..m : Accepted(entries, g[i], then[i], g[i + 1])
    BY <1>2 DEF ListsRun
  <1> HIDE DEF n, m, both, L
  <1>6. lists \in [1..(Len(both) + 1) -> L]
    <2> SUFFICES ASSUME NEW i \in 1..(n + m + 1)
                 PROVE  (IF i <= n THEN f[i] ELSE g[i - n]) \in L
      BY <1>3
    <2>1. CASE i <= n
      BY <1>3, <1>4, <2>1
    <2>2. CASE ~ (i <= n)
      <3>1. i - n \in 1..(m + 1)
        BY <1>3, <2>2
      <3> QED
        BY <1>5, <2>2, <3>1
    <2> QED
      BY <2>1, <2>2
  <1>7. \A i \in 1..(n + 1) : lists[i] = f[i]
    <2> TAKE i \in 1..(n + 1)
    <2>1. i \in 1..(n + m + 1)
      BY <1>3
    <2>2. CASE i = n + 1
      <3>1. lists[i] = g[i - n] /\ i - n = 1
        BY <1>3, <2>1, <2>2
      <3> QED
        BY <1>4, <1>5, <2>2, <3>1
    <2>3. CASE i # n + 1
      BY <1>3, <2>1, <2>3
    <2> QED
      BY <2>2, <2>3
  <1>8. \A i \in (n + 1)..(n + m + 1) : lists[i] = g[i - n]
    BY <1>3
  <1> HIDE DEF lists
  <1>9. ASSUME NEW i \in 1..(n + m)
        PROVE  Accepted(entries, lists[i], both[i], lists[i + 1])
    <2>1. CASE i <= n
      <3>1. i \in 1..(n + 1) /\ i + 1 \in 1..(n + 1)
        BY <1>3, <2>1
      <3>2. lists[i] = f[i] /\ lists[i + 1] = f[i + 1] /\ both[i] = first[i]
        BY <1>3, <1>7, <2>1, <3>1
      <3> QED
        BY <1>3, <1>4, <2>1, <3>2
    <2>2. CASE ~ (i <= n)
      <3>1. i - n \in 1..m /\ i + 1 - n = i - n + 1
        BY <1>3, <2>2
      <3>2. lists[i] = g[i - n] /\ lists[i + 1] = g[i - n + 1] /\ both[i] = then[i - n]
        BY <1>3, <1>8, <2>2, <3>1
      <3> QED
        BY <1>5, <3>1, <3>2
    <2> QED
      BY <2>1, <2>2
  <1>10. lists[1] = from /\ lists[n + m + 1] = to
    <2>1. lists[1] = f[1]
      <3>1. 1 \in 1..(n + 1)
        BY <1>3
      <3> QED
        BY <1>7, <3>1
    <2>2. lists[n + m + 1] = g[m + 1]
      <3> DEFINE last == n + m + 1
      <3>1. last \in (n + 1)..(n + m + 1) /\ last - n = m + 1
        BY <1>3
      <3>2. lists[last] = g[last - n]
        <4> HIDE DEF last
        <4> QED
          BY <1>8, <3>1
      <3> QED
        BY <3>1, <3>2
    <2> QED
      BY <1>4, <1>5, <2>1, <2>2
  <1>11. ListsRun(entries, lists, both, from, to)
    BY <1>3, <1>6, <1>9, <1>10 DEF ListsRun, L
  <1> QED
    BY <1>11 DEF Reaches, both

(* Two lists of the same distinct keys in one order.                        *)
LEMMA SameKeysInOrder ==
    ASSUME NEW T, NEW a \in Seq(T), NEW b \in Seq(T), IsInjective(a), IsInjective(b),
           Range(a) = Range(b), \A x, y \in Range(a) : Before(a, x, y) => Before(b, x, y)
    PROVE  a = b
  <1>1. SameOrder(Range(a), a, b)
    BY BeforeOnce DEF SameOrder
  <1> QED
    BY <1>1, SameOrderIsSame

(* The deletes of a plan leave the items some entry holds.                  *)
LEMMA DeletesReach ==
    ASSUME NEW V, NEW read \in ItemsOf(V), NEW entries
    PROVE  Reaches(entries, Deletes(read, entries), ItemIds(read), Left(read, entries))
  <1> DEFINE L == {list \in Seq(Int) : IsInjective(list)}
             ids == ItemIds(read)
             lost == Only(ids, IdsOf(read) \ HeldBy(entries))
             left == Left(read, entries)
             deletes == Deletes(read, entries)
             n == Len(lost)
             Gone(k) == {lost[j] : j \in 1..k}
             Rest(k) == Only(ids, IdsOf(read) \ Gone(k))
             lists == [i \in 1..(n + 1) |-> Rest(i - 1)]
  <1>1. /\ ids \in Seq(Int) /\ ids \in Seq(Nat \ {0}) /\ IsInjective(ids)
        /\ Range(ids) = IdsOf(read)
    BY ItemIdsOf
  <1> HIDE DEF ids
  <1>2. /\ lost \in Seq(Nat \ {0}) /\ IsInjective(lost)
        /\ Range(lost) = IdsOf(read) \ HeldBy(entries)
    BY <1>1, OnlyKeeps
  <1>3. n \in Nat /\ DOMAIN lost = 1..n /\ \A i \in 1..n : lost[i] \in Nat \ {0}
    <2> HIDE DEF lost
    <2> QED
      BY <1>2
  <1>4. deletes = [i \in 1..n |-> Write("delete", lost[i], NewEntry, 0, 0)]
    BY <1>3 DEF Deletes, ids
  <1>13. left = Only(ids, HeldBy(entries))
    BY DEF Left, ids
  <1> HIDE DEF lost, deletes, left
  <1>5. ASSUME NEW S, S \subseteq IdsOf(read)
        PROVE  Only(ids, S) \in L /\ Range(Only(ids, S)) = S
    <2>1. /\ Only(ids, S) \in Seq(Int) /\ IsInjective(Only(ids, S))
          /\ Range(Only(ids, S)) = Range(ids) \cap S
      BY <1>1, OnlyKeeps
    <2> QED
      BY <1>1, <1>5, <2>1
  <1>6. \A k \in 0..n : Rest(k) \in L /\ Range(Rest(k)) = IdsOf(read) \ Gone(k)
    BY <1>5
  <1>7. lists \in [1..(n + 1) -> L]
    <2> HIDE DEF Rest, L
    <2>1. \A i \in 1..(n + 1) : i - 1 \in 0..n
      BY <1>3
    <2> QED
      BY <1>6, <2>1
  <1>8. Rest(0) = ids
    <2>1. Gone(0) = {}
      OBVIOUS
    <2>2. Rest(0) = Only(ids, IdsOf(read))
      BY <2>1
    <2> HIDE DEF Rest
    <2>3. Rest(0) \in Seq(Int) /\ IsInjective(Rest(0)) /\ Range(Rest(0)) = Range(ids)
      BY <1>1, <1>5, <2>2
    <2>4. \A x, y \in Range(Rest(0)) : Before(Rest(0), x, y) => Before(ids, x, y)
      BY <1>1, <2>2, OnlyBefore
    <2> QED
      BY <1>1, <2>3, <2>4, SameKeysInOrder
  <1>9. Rest(n) = left
    <2>1. Gone(n) = IdsOf(read) \ HeldBy(entries)
      BY <1>2, <1>3 DEF Range
    <2> DEFINE a == Only(ids, IdsOf(read) \cap HeldBy(entries))
    <2>2. IdsOf(read) \ Gone(n) = IdsOf(read) \cap HeldBy(entries)
      BY <2>1
    <2>3. Rest(n) = a
      BY <2>2
    <2>4. a \in Seq(Int) /\ IsInjective(a) /\ Range(a) = IdsOf(read) \cap HeldBy(entries)
      BY <1>5
    <2>5. left \in Seq(Int) /\ IsInjective(left) /\ Range(left) = IdsOf(read) \cap HeldBy(entries)
      BY <1>1, <1>13, OnlyKeeps
    <2>6. ASSUME NEW x \in Range(a), NEW y \in Range(a), Before(a, x, y) PROVE Before(left, x, y)
      <3>1. Before(ids, x, y)
        BY <1>1, <2>6, OnlyBefore
      <3>2. x \in HeldBy(entries) /\ y \in HeldBy(entries)
        BY <2>4
      <3> QED
        BY <1>1, <1>13, <3>1, <3>2, OnlyBoth
    <2> HIDE DEF a, Rest
    <2>7. a = left
      BY <2>4, <2>5, <2>6, SameKeysInOrder
    <2> QED
      BY <2>3, <2>7
  <1>10. ASSUME NEW k \in 1..n
         PROVE  Accepted(entries, Rest(k - 1), deletes[k], Rest(k))
    <2> DEFINE before == Rest(k - 1)
               after == Rest(k)
               item == lost[k]
               at == PlaceIn(before, item)
               less == RemoveAt(before, at)
    <2>1. k - 1 \in 0..n /\ k \in 0..n
      BY <1>3
    <2>2. Gone(k) = Gone(k - 1) \cup {item}
      <3>1. \A j \in 1..k : j \in 1..(k - 1) \/ j = k
        BY <1>3
      <3>2. (\A j \in 1..(k - 1) : j \in 1..k) /\ k \in 1..k
        BY <1>3
      <3> QED
        BY <3>1, <3>2
    <2>3. item \notin Gone(k - 1)
      <3>1. \A j \in 1..(k - 1) : j \in 1..n /\ j # k
        BY <1>3
      <3> QED
        BY <1>2, <1>3, <3>1 DEF IsInjective
    <2>4. /\ before \in Seq(Int) /\ IsInjective(before) /\ Range(before) = IdsOf(read) \ Gone(k - 1)
          /\ after \in Seq(Int) /\ IsInjective(after) /\ Range(after) = IdsOf(read) \ Gone(k)
      BY <1>6, <2>1
    <2>5. item \in IdsOf(read) /\ item \in Nat \ {0}
      BY <1>2, <1>3 DEF Range
    <2> DEFINE S == IdsOf(read) \ Gone(k - 1)
               R == IdsOf(read) \ Gone(k)
    <2>6. before = Only(ids, S) /\ after = Only(ids, R) /\ R = S \ {item}
      BY <2>2
    <2> HIDE DEF before, after, item, Gone, Rest, S, R
    <2>7. item \in Range(before)
      BY <2>3, <2>4, <2>5
    <2>8. at \in 1..Len(before) /\ before[at] = item
      BY <2>4, <2>7, PlaceInList
    <2> HIDE DEF at
    <2>9. /\ less \in Seq(Int) /\ IsInjective(less) /\ Range(less) = Range(before) \ {item}
      <3>1. /\ RemoveAt(before, at) \in Seq(Int)
            /\ Len(RemoveAt(before, at)) = Len(before) - 1
            /\ Range(RemoveAt(before, at)) \subseteq Range(before)
            /\ Range(before) \subseteq Range(RemoveAt(before, at)) \cup {before[at]}
            /\ IsInjective(before) =>
                IsInjective(RemoveAt(before, at)) /\ before[at] \notin Range(RemoveAt(before, at))
        BY <2>4, <2>8, RemoveAtKeeps
      <3> QED
        BY <2>4, <2>8, <3>1
    <2>10. ASSUME NEW x \in Range(less), NEW y \in Range(less), Before(less, x, y)
           PROVE  Before(after, x, y)
      <3>1. Before(before, x, y)
        BY <2>4, <2>8, <2>10, RemovedBefore
      <3>2. Before(ids, x, y)
        BY <1>1, <2>6, <3>1, OnlyBefore
      <3>3. x \in R /\ y \in R
        BY <2>4, <2>6, <2>9 DEF S
      <3> QED
        BY <1>1, <2>6, <3>2, <3>3, OnlyBoth
    <2>11. Range(less) = Range(after)
      BY <2>2, <2>4, <2>9
    <2> HIDE DEF less
    <2>12. less = after
      BY <2>4, <2>9, <2>10, <2>11, SameKeysInOrder
    <2>13. deletes[k].kind = "delete" /\ deletes[k].item = item /\ deletes[k].entry = NewEntry
      BY <1>4 DEF Write, item
    <2>14. IdsAfter(before, deletes[k], 0) = after
      BY <2>12, <2>13 DEF IdsAfter, less, at
    <2>15. Accepted(entries, before, deletes[k], after)
      BY <2>5, <2>7, <2>13, <2>14 DEF Accepted
    <2> QED
      BY <2>15 DEF before, after
  <1>11. Len(deletes) = n
    BY <1>3, <1>4
  <1>12. ListsRun(entries, lists, deletes, ids, left)
    <2> HIDE DEF Rest
    <2>1. lists[1] = ids /\ lists[n + 1] = left
      BY <1>3, <1>8, <1>9
    <2>2. ASSUME NEW i \in 1..n PROVE Accepted(entries, lists[i], deletes[i], lists[i + 1])
      <3>1. lists[i] = Rest(i - 1) /\ lists[i + 1] = Rest(i)
        BY <1>3
      <3> QED
        BY <1>10, <3>1
    <2> HIDE DEF lists
    <2> QED
      BY <1>7, <1>11, <2>1, <2>2 DEF ListsRun
  <1> QED
    BY <1>12 DEF Reaches, deletes, ids, left

(* The steps of a plan, one for each entry.                                 *)
PlanRuns(V, entries, left, stays, accs) ==
    /\ accs[0] = [previous |-> 0, playlist |-> left, writes |-> <<>>]
    /\ \A k \in 0..Len(entries) : accs[k] \in PlanAccs(V)
    /\ \A k \in 0..(Len(entries) - 1) :
            accs[k + 1] = PlanStep(entries, stays, accs[k], k + 1)
    /\ PlanSteps(entries, left, stays) = accs[Len(entries)]

LEMMA PlanGoes ==
    ASSUME NEW V, NEW entries \in OrdersOf(V), NEW stays, NEW left \in Seq(Int)
    PROVE  \E accs : PlanRuns(V, entries, left, stays, accs)
  <1> DEFINE n == Len(entries)
             order == [i \in DOMAIN entries |-> i]
             Q == PlanAccs(V)
             base == [previous |-> 0, playlist |-> left, writes |-> <<>>]
             Steps(it) == it = [s \in SUBSET (1..n) |->
                                    IF s = {} THEN base
                                    ELSE PlanStep(entries, stays, it[s \ {Max(s)}],
                                                  order[Max(s)])]
             it == CHOOSE it : Steps(it)
             G == [step \in (1..n) \X Q |-> PlanStep(entries, stays, step[2], step[1])]
             accs == [k \in 0..n |-> it[1..k]]
  <1>1. n \in Nat /\ DOMAIN entries = 1..n /\ DOMAIN order = 1..n
    BY DEF OrdersOf
  <1>2. PlanSteps(entries, left, stays) = it[1..n]
    BY <1>1 DEF PlanSteps, FoldLeftDomain, FoldLeft, MapThenFoldSet
  <1>3. base \in Q
    BY DEF PlanAccs
  <1>4. G \in [(1..n) \X Q -> Q]
    BY <1>1, PlanStepTyped
  <1> HIDE DEF base
  <1>5. PICK g \in [SUBSET (1..n) -> Q] : IsFold(n, base, G, g)
    <2> HIDE DEF G, Q, n
    <2> QED
      BY <1>1, <1>3, <1>4, FoldExists
  <1>6. \A s \in SUBSET (1..n) : s # {} => Max(s) \in s /\ order[Max(s)] = Max(s)
    <2>1. \A s \in SUBSET (1..n) : s # {} => Max(s) \in s
      BY <1>1, MaxOfSome
    <2> QED
      BY <1>1, <2>1
  <1> HIDE DEF order
  <1>7. Steps(g)
    <2>1. \A s \in SUBSET (1..n) :
                g[s] = IF s = {} THEN base
                       ELSE PlanStep(entries, stays, g[s \ {Max(s)}], order[Max(s)])
      <3> SUFFICES ASSUME NEW s \in SUBSET (1..n)
                   PROVE  g[s] = IF s = {} THEN base
                                 ELSE PlanStep(entries, stays, g[s \ {Max(s)}], order[Max(s)])
        OBVIOUS
      <3>1. CASE s = {}
        BY <1>5, <3>1 DEF IsFold
      <3>2. CASE s # {}
        <4>1. g[s] = G[<<Max(s), g[s \ {Max(s)}]>>] /\ order[Max(s)] = Max(s) /\ Max(s) \in 1..n
          BY <1>5, <1>6, <3>2 DEF IsFold
        <4>2. g[s \ {Max(s)}] \in Q
          <5> HIDE DEF Q
          <5> QED
            BY <1>5
        <4>3. G[<<Max(s), g[s \ {Max(s)}]>>] =
                    PlanStep(entries, stays, g[s \ {Max(s)}], Max(s))
          <5> HIDE DEF Q, n
          <5> QED
            BY <4>1, <4>2
        <4> QED
          BY <3>2, <4>1, <4>3
      <3> QED
        BY <3>1, <3>2
    <2> QED
      BY <2>1
  <1>8. Steps(it)
    BY <1>7
  <1> HIDE DEF it
  <1>9. TakesSteps(n, Q, base, G, it)
    <2>1. it[{}] = base
      BY <1>8
    <2>2. ASSUME NEW s \in SUBSET (1..n), s # {}, it[s \ {Max(s)}] \in Q
          PROVE  it[s] = G[<<Max(s), it[s \ {Max(s)}]>>]
      <3>1. it[s] = PlanStep(entries, stays, it[s \ {Max(s)}], order[Max(s)])
        BY <1>8, <2>2
      <3>2. order[Max(s)] = Max(s) /\ Max(s) \in 1..n
        BY <1>6, <2>2
      <3>3. G[<<Max(s), it[s \ {Max(s)}]>>] = PlanStep(entries, stays, it[s \ {Max(s)}], Max(s))
        <4> HIDE DEF Q, n
        <4> QED
          BY <2>2, <3>2
      <3> QED
        BY <3>1, <3>2, <3>3
    <2> QED
      BY <2>1, <2>2 DEF TakesSteps
  <1>10. /\ it[1..0] = base
         /\ \A k \in 0..n : it[1..k] \in Q
         /\ \A k \in 0..(n - 1) : it[1..(k + 1)] = G[<<k + 1, it[1..k]>>]
    <2> HIDE DEF G, n, Q
    <2>1. FoldGoes(n, Q, base, G, it)
      BY <1>1, <1>3, <1>4, <1>9, FoldSteps
    <2> QED
      BY <2>1 DEF FoldGoes
  <1>11. \A k \in 0..(n - 1) : it[1..(k + 1)] = PlanStep(entries, stays, it[1..k], k + 1)
    <2> TAKE k \in 0..(n - 1)
    <2>1. k \in 0..n /\ k + 1 \in 1..n
      BY <1>1
    <2>2. it[1..k] \in Q
      BY <1>10, <2>1
    <2> HIDE DEF Q, n
    <2>3. G[<<k + 1, it[1..k]>>] = PlanStep(entries, stays, it[1..k], k + 1)
      BY <2>1, <2>2
    <2> QED
      BY <1>10, <2>3
  <1> HIDE DEF G
  <1>12. \A k \in 0..n : accs[k] = it[1..k]
    OBVIOUS
  <1> HIDE DEF accs
  <1>13. /\ accs[0] = base /\ accs[n] = it[1..n]
         /\ \A k \in 0..n : accs[k] \in Q
         /\ \A k \in 0..(n - 1) : accs[k + 1] = PlanStep(entries, stays, accs[k], k + 1)
    <2>1. 0 \in 0..n /\ n \in 0..n /\ \A k \in 0..(n - 1) : k \in 0..n /\ k + 1 \in 0..n
      BY <1>1
    <2> HIDE DEF Q
    <2> QED
      BY <1>10, <1>11, <1>12, <2>1
  <1>14. PlanRuns(V, entries, left, stays, accs)
    BY <1>2, <1>13 DEF PlanRuns, base
  <1> QED
    BY <1>14

KeysOf(entries) == [i \in DOMAIN entries |-> Key(entries, i)]

(* What is put after a place of a list is after what is there or before it, *)
(* and before the rest.                                                     *)
LEMMA InsertAfter ==
    ASSUME NEW T, NEW list \in Seq(T), IsInjective(list), NEW at \in 0..Len(list), NEW e \in T,
           NEW z \in Range(list)
    PROVE  /\ PlaceIn(list, z) <= at => Before(InsertAt(list, at + 1, e), z, e)
           /\ PlaceIn(list, z) > at => Before(InsertAt(list, at + 1, e), e, z)
  <1> DEFINE more == InsertAt(list, at + 1, e)
             n == Len(list)
             p == PlaceIn(list, z)
  <1>1. n \in Nat /\ DOMAIN list = 1..n
    OBVIOUS
  <1>2. at + 1 \in 1..(Len(list) + 1)
    BY <1>1
  <1>3. /\ more \in Seq(T) /\ Len(more) = n + 1
        /\ \A j \in 1..(n + 1) :
                more[j] = IF j < at + 1 THEN list[j] ELSE IF j = at + 1 THEN e ELSE list[j - 1]
    <2>1. InsertedIn(T, list, at + 1, e, more)
      BY <1>2, InsertAtInserts
    <2> QED
      BY <2>1 DEF InsertedIn
  <1>4. p \in 1..n /\ list[p] = z
    BY PlaceInList
  <1>5. at \in 0..n
    OBVIOUS
  <1> HIDE DEF more, n, p
  <1>6. DOMAIN more = 1..(n + 1) /\ at + 1 \in 1..(n + 1) /\ more[at + 1] = e
    BY <1>1, <1>3, <1>5
  <1>7. CASE p <= at
    <2>1. p \in 1..(n + 1) /\ p < at + 1 /\ more[p] = z
      BY <1>1, <1>3, <1>4, <1>5, <1>7
    <2>2. Before(more, z, e)
      BY <1>6, <2>1 DEF Before
    <2> QED
      BY <1>1, <1>4, <1>5, <1>7, <2>2 DEF more, p
  <1>8. CASE p > at
    <2>1. p + 1 \in 1..(n + 1) /\ at + 1 < p + 1 /\ more[p + 1] = z
      BY <1>1, <1>3, <1>4, <1>5, <1>8
    <2>2. Before(more, e, z)
      BY <1>6, <2>1 DEF Before
    <2> QED
      BY <1>1, <1>4, <1>5, <1>8, <2>2 DEF more, p
  <1> QED
    BY <1>1, <1>4, <1>5, <1>7, <1>8

(* Taking an element out turns no two others of a list round.               *)
LEMMA RestBefore ==
    ASSUME NEW T, NEW list \in Seq(T), IsInjective(list), NEW e
    PROVE  /\ RemoveFirst(list, e) \in Seq(T) /\ IsInjective(RemoveFirst(list, e))
           /\ Range(RemoveFirst(list, e)) = Range(list) \ {e}
           /\ Len(RemoveFirst(list, e)) = IF e \in Range(list) THEN Len(list) - 1 ELSE Len(list)
           /\ e \in Range(list) => RemoveFirst(list, e) = RemoveAt(list, PlaceIn(list, e))
           /\ \A x, y \in Range(list) \ {e} :
                Before(list, x, y) => Before(RemoveFirst(list, e), x, y)
  <1> DEFINE rest == RemoveFirst(list, e)
  <1>1. /\ rest \in Seq(T) /\ IsInjective(rest) /\ Range(rest) = Range(list) \ {e}
        /\ Len(rest) = IF e \in Range(list) THEN Len(list) - 1 ELSE Len(list)
    BY RemoveFirstKeeps
  <1>2. Len(list) \in Nat /\ DOMAIN list = 1..Len(list)
    OBVIOUS
  <1>3. (\E i \in 1..Len(list) : list[i] = e) <=> e \in Range(list)
    BY <1>2 DEF Range
  <1>4. e \in Range(list) => rest = RemoveAt(list, PlaceIn(list, e))
    BY <1>3 DEF RemoveFirst, PlaceIn
  <1>5. e \notin Range(list) => rest = list
    BY <1>3 DEF RemoveFirst
  <1> HIDE DEF rest
  <1>6. ASSUME NEW x \in Range(list) \ {e}, NEW y \in Range(list) \ {e}, Before(list, x, y)
        PROVE  Before(rest, x, y)
    <2>1. CASE e \notin Range(list)
      BY <1>5, <1>6, <2>1
    <2>2. CASE e \in Range(list)
      <3>1. x # y /\ ~Before(list, y, x)
        BY <1>6, BeforeOnce
      <3>2. Before(rest, x, y) \/ Before(rest, y, x)
        BY <1>1, <3>1, BeforeOrAfter
      <3> DEFINE at == PlaceIn(list, e)
      <3>3. at \in 1..Len(list)
        BY <2>2, PlaceInList
      <3>4. rest = RemoveAt(list, at)
        BY <1>4, <2>2
      <3> HIDE DEF at
      <3>5. Before(RemoveAt(list, at), y, x) => Before(list, y, x)
        BY <3>3, RemovedBefore
      <3> QED
        BY <3>1, <3>2, <3>4, <3>5
    <2> QED
      BY <2>1, <2>2
  <1> QED
    BY <1>1, <1>4, <1>6 DEF rest

LEMMA KeysKept ==
    ASSUME NEW V, NEW entries \in OrdersOf(V), Distinct(entries)
    PROVE  /\ KeysOf(entries) \in Seq(Int) /\ IsInjective(KeysOf(entries))
           /\ DOMAIN KeysOf(entries) = DOMAIN entries /\ Len(KeysOf(entries)) = Len(entries)
           /\ \A i \in DOMAIN entries :
                /\ KeysOf(entries)[i] = Key(entries, i) /\ Key(entries, i) \in Int \ {0}
                /\ entries[i].item # NoItem => /\ Key(entries, i) = entries[i].item
                                               /\ entries[i].item \in Nat \ {0}
                /\ entries[i].item = NoItem => Key(entries, i) = -i
           /\ Range(KeysOf(entries)) =
                HeldBy(entries) \cup {-i : i \in {j \in DOMAIN entries : entries[j].item = NoItem}}
  <1> DEFINE keys == KeysOf(entries)
  <1>1. /\ keys \in Seq(Int)
        /\ \A i, j \in DOMAIN entries : Key(entries, i) = Key(entries, j) => i = j
    BY KeysAreDistinct DEF KeysOf
  <1>2. DOMAIN keys = DOMAIN entries /\ \A i \in DOMAIN entries : keys[i] = Key(entries, i)
    BY DEF KeysOf
  <1>3. Len(entries) \in Nat /\ DOMAIN entries = 1..Len(entries)
    BY DEF OrdersOf
  <1>4. ASSUME NEW i \in DOMAIN entries
        PROVE  /\ Key(entries, i) \in Int \ {0}
               /\ entries[i].item # NoItem => /\ Key(entries, i) = entries[i].item
                                              /\ entries[i].item \in Nat \ {0}
               /\ entries[i].item = NoItem => Key(entries, i) = -i
    <2>1. entries[i].item \in Nat /\ i \in Nat \ {0}
      <3>1. entries[i].item \in Nat
        BY EntryTyped
      <3> QED
        BY <1>3, <3>1
    <2> QED
      BY <2>1 DEF Key, NoItem
  <1> HIDE DEF keys
  <1>5. Len(keys) = Len(entries)
    BY <1>1, <1>2, <1>3
  <1>6. IsInjective(keys)
    BY <1>1, <1>2 DEF IsInjective
  <1>7. Range(keys) =
            HeldBy(entries) \cup {-i : i \in {j \in DOMAIN entries : entries[j].item = NoItem}}
    <2> DEFINE W == {-i : i \in {j \in DOMAIN entries : entries[j].item = NoItem}}
    <2>1. ASSUME NEW x \in Range(keys) PROVE x \in HeldBy(entries) \cup W
      <3>1. PICK i \in DOMAIN entries : x = Key(entries, i)
        BY <1>2 DEF Range
      <3>2. CASE entries[i].item = NoItem
        BY <1>4, <3>1, <3>2
      <3>3. CASE entries[i].item # NoItem
        BY <1>4, <3>1, <3>3 DEF HeldBy
      <3> QED
        BY <3>2, <3>3
    <2>2. ASSUME NEW x \in W PROVE x \in Range(keys)
      <3>1. PICK i \in DOMAIN entries : entries[i].item = NoItem /\ x = -i
        OBVIOUS
      <3> QED
        BY <1>2, <1>4, <3>1 DEF Range
    <2>3. ASSUME NEW x \in HeldBy(entries) PROVE x \in Range(keys)
      <3>1. PICK i \in DOMAIN entries : entries[i].item = x /\ x # NoItem
        BY DEF HeldBy
      <3> QED
        BY <1>2, <1>4, <3>1 DEF Range
    <2> QED
      BY <2>1, <2>2, <2>3
  <1> QED
    BY <1>1, <1>2, <1>4, <1>5, <1>6, <1>7 DEF keys

(* The keys a plan has put in order after k entries: theirs, and those that *)
(* stay where they are.                                                     *)
InPlace(entries, stays, k) == {Key(entries, j) : j \in 1..k} \cup stays

PlanReaching(V, entries, left, stays, k, acc) ==
    /\ acc \in PlanAccs(V)
    /\ IsInjective(acc.playlist)
    /\ Range(acc.playlist) =
            Range(left) \cup {-j : j \in {l \in 1..k : entries[l].item = NoItem}}
    /\ acc.previous = IF k = 0 THEN 0 ELSE Key(entries, k)
    /\ \A x, y \in InPlace(entries, stays, k) :
            Before(KeysOf(entries), x, y) => Before(acc.playlist, x, y)
    /\ Reaches(entries, acc.writes, left, acc.playlist)

(* Where a plan puts a key keeps the order of all that were in order.       *)
LEMMA PutInOrder ==
    ASSUME NEW V, NEW entries \in OrdersOf(V), Distinct(entries), NEW stays,
           NEW k \in Nat, k + 1 \in DOMAIN entries,
           NEW list \in Seq(Int), IsInjective(list), NEW previous,
           previous = IF k = 0 THEN 0 ELSE Key(entries, k),
           0 \notin Range(list),
           InPlace(entries, stays, k) \subseteq Range(list),
           stays \subseteq Range(KeysOf(entries)),
           \A x, y \in InPlace(entries, stays, k) :
                Before(KeysOf(entries), x, y) => Before(list, x, y)
    PROVE  LET key == Key(entries, k + 1)
               rest == RemoveFirst(list, key)
               new == InsertAt(rest, PlaceIn(rest, previous) + 1, key)
           IN  key \notin stays =>
                /\ new \in Seq(Int) /\ IsInjective(new) /\ Range(new) = Range(list) \cup {key}
                /\ \A x, y \in InPlace(entries, stays, k + 1) :
                        Before(KeysOf(entries), x, y) => Before(new, x, y)
  <1> DEFINE i == k + 1
             keys == KeysOf(entries)
             key == Key(entries, i)
             rest == RemoveFirst(list, key)
             at == PlaceIn(rest, previous)
             new == InsertAt(rest, at + 1, key)
             Old == InPlace(entries, stays, k)
             New == InPlace(entries, stays, i)
  <1>1. /\ keys \in Seq(Int) /\ IsInjective(keys) /\ DOMAIN keys = DOMAIN entries
        /\ \A j \in DOMAIN entries : keys[j] = Key(entries, j) /\ Key(entries, j) \in Int \ {0}
    BY KeysKept
  <1>2. /\ Len(entries) \in Nat /\ DOMAIN entries = 1..Len(entries)
        /\ i \in DOMAIN entries /\ i = k + 1 /\ (\A j \in 1..k : j \in DOMAIN entries)
    <2>1. Len(entries) \in Nat /\ DOMAIN entries = 1..Len(entries)
      BY DEF OrdersOf
    <2> QED
      BY <2>1
  <1>3. /\ rest \in Seq(Int) /\ IsInjective(rest) /\ Range(rest) = Range(list) \ {key}
        /\ \A x, y \in Range(list) \ {key} : Before(list, x, y) => Before(rest, x, y)
    BY RestBefore
  <1>4. New = Old \cup {key}
    <2>1. \A j \in 1..i : j \in 1..k \/ j = i
      BY <1>2
    <2>2. (\A j \in 1..k : j \in 1..i) /\ i \in 1..i
      BY <1>2
    <2> QED
      BY <2>1, <2>2 DEF InPlace
  <1>20. \A j \in 1..k : Key(entries, j) \in Old
    BY DEF InPlace
  <1>21. \A y \in Old : y \in stays \/ \E j \in 1..k : y = Key(entries, j)
    BY DEF InPlace
  <1> SUFFICES ASSUME key \notin stays
               PROVE  /\ new \in Seq(Int) /\ IsInjective(new) /\ Range(new) = Range(list) \cup {key}
                      /\ \A x, y \in New : Before(keys, x, y) => Before(new, x, y)
    BY DEF New, keys
  <1>5. key \notin Old
    <2>1. ASSUME NEW j \in 1..k, Key(entries, j) = key PROVE FALSE
      <3>1. j \in DOMAIN entries /\ j # i
        BY <1>2
      <3> QED
        BY <1>1, <1>2, <2>1, <3>1 DEF IsInjective
    <2> QED
      BY <1>21, <2>1
  <1> HIDE DEF keys, rest, key, Old, New
  <1>6. at \in 0..Len(rest) /\ Len(rest) \in Nat
    <2>1. at \in 0..Len(rest)
      BY <1>3, PlaceInList
    <2> QED
      BY <1>3, <2>1
  <1>7. k = 0 => at = 0
    <2> HAVE k = 0
    <2>1. previous \notin Range(rest)
      BY <1>3
    <2> QED
      BY <1>3, <2>1, PlaceInList
  <1>8. k # 0 => previous \in Old /\ previous = keys[k] /\ k \in DOMAIN entries
    <2> HAVE k # 0
    <2>1. k \in 1..k /\ previous = Key(entries, k)
      OBVIOUS
    <2> QED
      BY <1>1, <1>2, <1>20, <2>1
  <1>9. Old \subseteq Range(rest)
    BY <1>3, <1>5 DEF Old
  <1> HIDE DEF at
  <1>10. ASSUME NEW y \in Old, Before(keys, key, y) PROVE PlaceIn(rest, y) > at
    <2>1. y \in Range(rest)
      BY <1>9
    <2>2. PlaceIn(rest, y) \in 1..Len(rest)
      BY <1>3, <2>1, PlaceInList
    <2>3. CASE k = 0
      BY <1>6, <1>7, <2>2, <2>3
    <2>4. CASE k # 0
      <3>1. PICK m \in DOMAIN keys, n \in DOMAIN keys : m < n /\ keys[m] = key /\ keys[n] = y
        BY <1>10 DEF Before
      <3>2. m = i
        BY <1>1, <1>2, <3>1 DEF IsInjective, key
      <3>3. Before(keys, previous, y)
        <4>1. k \in DOMAIN keys /\ k < n /\ keys[k] = previous
          BY <1>1, <1>2, <1>8, <2>4, <3>1, <3>2
        <4> QED
          BY <3>1, <4>1 DEF Before
      <3>4. Before(list, previous, y)
        BY <1>8, <2>4, <3>3 DEF Old, keys
      <3>5. previous \in Range(rest)
        BY <1>8, <1>9, <2>4
      <3>6. Before(rest, previous, y)
        BY <1>3, <2>1, <3>4, <3>5
      <3>7. PlaceIn(rest, previous) < PlaceIn(rest, y)
        BY <1>3, <2>1, <3>5, <3>6, PlacedBefore
      <3>8. at < PlaceIn(rest, y)
        BY <3>7 DEF at
      <3> QED
        BY <1>6, <2>2, <3>8
    <2> QED
      BY <2>3, <2>4
  <1>11. ASSUME NEW x \in Old, Before(keys, x, key) PROVE PlaceIn(rest, x) <= at
    <2>1. x \in Range(rest)
      BY <1>9
    <2>2. PlaceIn(rest, x) \in 1..Len(rest)
      BY <1>3, <2>1, PlaceInList
    <2>3. PICK m \in DOMAIN keys, n \in DOMAIN keys : m < n /\ keys[m] = x /\ keys[n] = key
      BY <1>11 DEF Before
    <2>4. n = i
      BY <1>1, <1>2, <2>3 DEF IsInjective, key
    <2>5. k # 0 /\ m \in 1..k
      BY <1>1, <1>2, <2>3, <2>4
    <2>6. CASE m = k
      <3>1. x = previous
        BY <1>8, <2>3, <2>5, <2>6
      <3> QED
        BY <1>6, <2>2, <3>1 DEF at
    <2>7. CASE m # k
      <3>1. m < k
        BY <2>5, <2>7
      <3>2. Before(keys, x, previous)
        BY <1>1, <1>8, <2>3, <2>5, <3>1 DEF Before
      <3>3. Before(list, x, previous)
        BY <1>8, <2>5, <3>2 DEF Old, keys
      <3>5. previous \in Range(rest)
        BY <1>8, <1>9, <2>5
      <3>6. Before(rest, x, previous)
        BY <1>3, <2>1, <3>3, <3>5
      <3>7. PlaceIn(rest, x) < PlaceIn(rest, previous)
        BY <1>3, <2>1, <3>5, <3>6, PlacedBefore
      <3>8. PlaceIn(rest, x) < at
        BY <3>7 DEF at
      <3> QED
        BY <1>6, <2>2, <3>8
    <2> QED
      BY <2>6, <2>7
  <1>12. key \in Int
    BY <1>1, <1>2 DEF key
  <1>13. at + 1 \in 1..(Len(rest) + 1)
    BY <1>6
  <1>14. /\ InsertAt(rest, at + 1, key) \in Seq(Int)
         /\ Len(InsertAt(rest, at + 1, key)) = Len(rest) + 1
         /\ Range(InsertAt(rest, at + 1, key)) = Range(rest) \cup {key}
         /\ IsInjective(rest) /\ key \notin Range(rest) =>
                IsInjective(InsertAt(rest, at + 1, key))
    <2> DEFINE p == at + 1
    <2>1. p \in 1..(Len(rest) + 1)
      BY <1>13
    <2> HIDE DEF p
    <2>2. /\ InsertAt(rest, p, key) \in Seq(Int)
          /\ Len(InsertAt(rest, p, key)) = Len(rest) + 1
          /\ Range(InsertAt(rest, p, key)) = Range(rest) \cup {key}
          /\ IsInjective(rest) /\ key \notin Range(rest) => IsInjective(InsertAt(rest, p, key))
      BY <1>3, <1>12, <2>1, InsertAtKeeps
    <2> QED
      BY <2>2 DEF p
  <1>15. /\ new \in Seq(Int) /\ IsInjective(new) /\ Range(new) = Range(list) \cup {key}
    BY <1>3, <1>14
  <1>16. ASSUME NEW x \in New, NEW y \in New, Before(keys, x, y) PROVE Before(new, x, y)
    <2>1. x # y
      BY <1>1, <1>16, BeforeOnce
    <2>2. CASE x = key
      <3>1. y \in Old
        BY <1>4, <2>1, <2>2
      <3>2. PlaceIn(rest, y) > at /\ y \in Range(rest)
        BY <1>9, <1>10, <1>16, <2>2, <3>1
      <3> QED
        BY <1>3, <1>6, <1>12, <2>2, <3>2, InsertAfter
    <2>3. CASE y = key
      <3>1. x \in Old
        BY <1>4, <2>1, <2>3
      <3>2. PlaceIn(rest, x) <= at /\ x \in Range(rest)
        BY <1>9, <1>11, <1>16, <2>3, <3>1
      <3> QED
        BY <1>3, <1>6, <1>12, <2>3, <3>2, InsertAfter
    <2>4. CASE x # key /\ y # key
      <3>1. x \in Old /\ y \in Old
        BY <1>4, <2>4
      <3>2. Before(list, x, y)
        BY <1>16, <3>1 DEF Old, keys
      <3>3. x \in Range(list) \ {key} /\ y \in Range(list) \ {key}
        BY <2>4, <3>1 DEF Old
      <3>4. Before(rest, x, y)
        BY <1>3, <3>2, <3>3
      <3> QED
        BY <1>3, <1>12, <1>13, <3>4, BeforeInserted
    <2> QED
      BY <2>2, <2>3, <2>4
  <1> QED
    BY <1>15, <1>16

LEMMA PlanStepReaches ==
    ASSUME NEW V, NEW entries \in OrdersOf(V), Distinct(entries), NEW stays,
           NEW left \in Seq(Int), Range(left) = HeldBy(entries), stays \subseteq HeldBy(entries),
           NEW k \in Nat, k + 1 \in DOMAIN entries,
           NEW acc, PlanReaching(V, entries, left, stays, k, acc)
    PROVE  PlanReaching(V, entries, left, stays, k + 1, PlanStep(entries, stays, acc, k + 1))
  <1> DEFINE i == k + 1
             e == entries[i]
             key == Key(entries, i)
             list == acc.playlist
             rest == RemoveFirst(list, key)
             at == PlaceIn(rest, acc.previous)
             put == InsertAt(rest, at + 1, key)
             w == PlanWrite(entries, acc, i)
             new == PlanStep(entries, stays, acc, i)
             Added(n) == {-j : j \in {l \in 1..n : entries[l].item = NoItem}}
  <1>1. /\ acc \in PlanAccs(V) /\ IsInjective(list)
        /\ Range(list) = HeldBy(entries) \cup Added(k)
        /\ acc.previous = IF k = 0 THEN 0 ELSE Key(entries, k)
        /\ \A x, y \in InPlace(entries, stays, k) :
                Before(KeysOf(entries), x, y) => Before(list, x, y)
        /\ Reaches(entries, acc.writes, left, list)
    BY DEF PlanReaching
  <1>2. /\ Len(entries) \in Nat /\ DOMAIN entries = 1..Len(entries)
        /\ i \in DOMAIN entries /\ i = k + 1 /\ (\A j \in 1..k : j \in DOMAIN entries)
    <2>1. Len(entries) \in Nat /\ DOMAIN entries = 1..Len(entries)
      BY DEF OrdersOf
    <2> QED
      BY <2>1
  <1>3. /\ new \in PlanAccs(V) /\ at \in 0..Len(rest) /\ w \in WritesOf(V)
    BY <1>1, PlanStepTyped DEF PlanRest, PlanAt
  <1>4. /\ list \in Seq(Int) /\ acc.writes \in Seq(WritesOf(V))
        /\ acc = [previous |-> acc.previous, playlist |-> list, writes |-> acc.writes]
    BY <1>1 DEF PlanAccs
  <1>5. /\ KeysOf(entries) \in Seq(Int) /\ IsInjective(KeysOf(entries))
        /\ \A j \in DOMAIN entries :
                /\ KeysOf(entries)[j] = Key(entries, j) /\ Key(entries, j) \in Int \ {0}
                /\ entries[j].item # NoItem => /\ Key(entries, j) = entries[j].item
                                               /\ entries[j].item \in Nat \ {0}
                /\ entries[j].item = NoItem => Key(entries, j) = -j
        /\ Range(KeysOf(entries)) =
                HeldBy(entries) \cup {-j : j \in {l \in DOMAIN entries : entries[l].item = NoItem}}
    BY KeysKept
  <1>6. Added(i) = Added(k) \cup (IF e.item = NoItem THEN {key} ELSE {})
    <2>1. \A j \in 1..i : j \in 1..k \/ j = i
      BY <1>2
    <2>2. (\A j \in 1..k : j \in 1..i) /\ i \in 1..i
      BY <1>2
    <2> QED
      BY <1>2, <1>5, <2>1, <2>2
  <1>7. e.item # NoItem => key \in HeldBy(entries)
    BY <1>2, <1>5 DEF HeldBy
  <1>8. e.item = NoItem => key = -i /\ key \notin HeldBy(entries) /\ key \notin Added(k)
    <2> HAVE e.item = NoItem
    <2>1. key = -i
      BY <1>2, <1>5
    <2>2. HeldBy(entries) \subseteq Nat
      <3>1. \A j \in DOMAIN entries : entries[j].item \in Nat
        BY EntryTyped
      <3> QED
        BY <3>1 DEF HeldBy
    <2>3. -i \notin Nat /\ \A j \in 1..k : -j # -i
      BY <1>2
    <2> QED
      BY <2>1, <2>2, <2>3
  <1>9. 0 \notin Range(list)
    <2>1. 0 \notin HeldBy(entries)
      BY DEF HeldBy, NoItem
    <2>2. 0 \notin Added(k)
      BY <1>2
    <2> QED
      BY <1>1, <2>1, <2>2
  <1>10. InPlace(entries, stays, k) \subseteq Range(list)
    <2>1. ASSUME NEW j \in 1..k PROVE Key(entries, j) \in Range(list)
      <3>1. j \in DOMAIN entries
        BY <1>2
      <3>2. CASE entries[j].item = NoItem
        BY <1>1, <1>5, <3>1, <3>2
      <3>3. CASE entries[j].item # NoItem
        BY <1>1, <1>5, <3>1, <3>3 DEF HeldBy
      <3> QED
        BY <3>2, <3>3
    <2> QED
      BY <1>1, <2>1 DEF InPlace
  <1>11. stays \subseteq Range(KeysOf(entries))
    BY <1>5
  <1> HIDE DEF Added, list
  <1>12. i - 1 = k /\ i # 0
    BY <1>2
  <1>13. CASE key \in stays
    <2>1. new = [previous |-> key, playlist |-> list, writes |-> acc.writes]
      BY <1>4, <1>13 DEF PlanStep, list
    <2>2. e.item # NoItem
      BY <1>8, <1>13
    <2>3. Added(i) = Added(k)
      BY <1>6, <2>2
    <2>4. InPlace(entries, stays, i) = InPlace(entries, stays, k)
      <3>1. \A j \in 1..i : j \in 1..k \/ j = i
        BY <1>2
      <3>2. (\A j \in 1..k : j \in 1..i)
        BY <1>2
      <3> QED
        BY <1>13, <3>1, <3>2 DEF InPlace
    <2> HIDE DEF new, key
    <2>5. /\ new.previous = key /\ new.playlist = list /\ new.writes = acc.writes
      BY <2>1
    <2>6. Range(new.playlist) = Range(left) \cup Added(i)
      BY <1>1, <2>3, <2>5
    <2> QED
      BY <1>1, <1>3, <1>12, <2>4, <2>5, <2>6 DEF PlanReaching, Added, key, list, new
  <1>14. CASE key \notin stays
    <2>1. new = [previous |-> key, playlist |-> put, writes |-> Append(acc.writes, w)]
      BY <1>14 DEF PlanStep, PlanRest, PlanAt, list
    <2>2. /\ put \in Seq(Int) /\ IsInjective(put) /\ Range(put) = Range(list) \cup {key}
          /\ \A x, y \in InPlace(entries, stays, i) :
                Before(KeysOf(entries), x, y) => Before(put, x, y)
      <3> DEFINE previous == acc.previous
      <3>1. previous = IF k = 0 THEN 0 ELSE Key(entries, k)
        BY <1>1
      <3> HIDE DEF previous
      <3>2. LET keyx == Key(entries, k + 1)
                restx == RemoveFirst(list, keyx)
                newx == InsertAt(restx, PlaceIn(restx, previous) + 1, keyx)
            IN  keyx \notin stays =>
                /\ newx \in Seq(Int) /\ IsInjective(newx) /\ Range(newx) = Range(list) \cup {keyx}
                /\ \A x, y \in InPlace(entries, stays, k + 1) :
                        Before(KeysOf(entries), x, y) => Before(newx, x, y)
        BY <1>1, <1>4, <1>9, <1>10, <1>11, <3>1, PutInOrder
      <3> QED
        BY <1>14, <3>2 DEF previous
    <2>3. Range(put) = Range(left) \cup Added(i)
      BY <1>1, <1>6, <1>7, <2>2
    <2>4. /\ Range(rest) = Range(list) \ {key}
          /\ Len(rest) = IF key \in Range(list) THEN Len(list) - 1 ELSE Len(list)
          /\ key \in Range(list) => rest = RemoveAt(list, PlaceIn(list, key))
          /\ rest \in Seq(Int)
      BY SMTT(30), <1>1, <1>4, RestBefore DEF list
    <2>5. Accepted(entries, list, w, put)
      <3>1. CASE e.item = NoItem
        <4>1. w = Write("insert", NoItem, e.id, e.video, at)
          BY <3>1 DEF PlanWrite, PlanAt, PlanRest, list
        <4>2. key = -i /\ key \notin Range(list)
          BY <1>1, <1>8, <3>1 DEF list
        <4>3. rest = list
          BY SMTT(30), <4>2, <1>4, <2>4 DEF RemoveFirst, Range
        <4>4. w.kind = "insert" /\ w.position = at /\ w.entry = e.id /\ at \in 0..Len(list)
          BY <1>3, <4>1, <4>3 DEF Write
        <4> HIDE DEF w, at, rest, e
        <4>5. put = IdsAfter(list, w, -i)
          BY <4>2, <4>3, <4>4 DEF IdsAfter
        <4> QED
          BY <1>2, <3>1, <4>2, <4>4, <4>5 DEF Accepted, e
      <3>2. CASE e.item # NoItem
        <4>1. w = Write("move", e.item, NewEntry, e.video, at)
          BY <3>2 DEF PlanWrite, PlanAt, PlanRest, list
        <4>2. key = e.item /\ e.item \in Nat \ {0}
          BY <1>2, <1>5, <3>2
        <4>3. key \in Range(list)
          BY <1>1, <1>7, <3>2 DEF list
        <4>4. Len(list) \in Nat
          BY <1>4
        <4>5. /\ w.kind = "move" /\ w.position = at /\ w.entry = NewEntry /\ w.item = key
              /\ at \in 0..(Len(list) - 1)
          BY <1>3, <2>4, <4>1, <4>2, <4>3 DEF Write
        <4>6. rest = RemoveAt(list, PlaceIn(list, key))
          BY <2>4, <4>3
        <4> HIDE DEF w, at, rest, e, key
        <4>7. put = IdsAfter(list, w, 0)
          BY <4>5, <4>6 DEF IdsAfter
        <4> QED
          BY <4>2, <4>3, <4>5, <4>7 DEF Accepted
      <3> QED
        BY <3>1, <3>2
    <2>6. Reaches(entries, Append(acc.writes, w), left, put)
      <3> HIDE DEF w, put
      <3>1. Reaches(entries, acc.writes, left, list)
        BY <1>1 DEF list
      <3> QED
        BY <1>3, <1>4, <2>2, <2>5, <3>1, ReachesAppend
    <2> HIDE DEF new, key, put, w
    <2>7. new.previous = key /\ new.playlist = put /\ new.writes = Append(acc.writes, w)
      BY <2>1
    <2>8. PlanReaching(V, entries, left, stays, i, new)
      <3>1. new.previous = IF i = 0 THEN 0 ELSE Key(entries, i)
        BY <1>12, <2>7 DEF key
      <3>2. Range(new.playlist) =
                Range(left) \cup {-j : j \in {l \in 1..i : entries[l].item = NoItem}}
        BY <2>3, <2>7 DEF Added
      <3> HIDE DEF i
      <3> QED
        BY <1>3, <2>2, <2>6, <2>7, <3>1, <3>2 DEF PlanReaching
    <2> QED
      BY <2>8 DEF new
  <1> QED
    BY <1>13, <1>14

ItemsOfEntries(entries) == [i \in DOMAIN entries |-> entries[i].item]

(* The items of a plan's entries, and the longest run of them it keeps.     *)
LEMMA StaysInOrder ==
    ASSUME NEW V, NEW read \in ItemsOf(V), NEW entries \in OrdersOf(V), Distinct(entries),
           HeldBy(entries) \subseteq IdsOf(read)
    PROVE  LET left == Left(read, entries)
               kept == Only(ItemsOfEntries(entries), Range(left))
               stays == LongestIncreasing(kept, left)
           IN  /\ left \in Seq(Int) /\ IsInjective(left) /\ Range(left) = HeldBy(entries)
               /\ kept \in Seq(Int) /\ IsInjective(kept) /\ Range(kept) = HeldBy(entries)
               /\ stays \subseteq HeldBy(entries)
               /\ \A x, y \in HeldBy(entries) :
                    Before(KeysOf(entries), x, y) => Before(kept, x, y)
               /\ \A x, y \in stays :
                    Before(KeysOf(entries), x, y) => Before(left, x, y)
  <1> DEFINE items == ItemsOfEntries(entries)
             left == Left(read, entries)
             kept == Only(items, Range(left))
             stays == LongestIncreasing(kept, left)
             keys == KeysOf(entries)
  <1>1. left \in Seq(Int) /\ IsInjective(left) /\ Range(left) = HeldBy(entries)
    <2>1. /\ left \in Seq(Int) /\ IsInjective(left)
          /\ Range(left) = IdsOf(read) \cap HeldBy(entries)
      BY DeletesKeep
    <2> QED
      BY <2>1
  <1> HIDE DEF left
  <1>2. /\ items \in Seq(Int) /\ DOMAIN items = DOMAIN entries
        /\ \A i \in DOMAIN entries : items[i] = entries[i].item
    <2>1. Len(entries) \in Nat /\ DOMAIN entries = 1..Len(entries)
      BY DEF OrdersOf
    <2>2. \A i \in DOMAIN entries : entries[i].item \in Int
      <3>1. \A i \in DOMAIN entries : entries[i].item \in Nat
        BY EntryTyped
      <3> QED
        BY <3>1
    <2> QED
      BY <2>1, <2>2 DEF ItemsOfEntries
  <1>3. HeldBy(entries) \subseteq Range(items)
    BY <1>2 DEF HeldBy, Range
  <1> HIDE DEF items
  <1>4. kept \in Seq(Int) /\ IsInjective(kept) /\ Range(kept) = HeldBy(entries)
    <2>1. \A i, j \in DOMAIN items : items[i] \in Range(left) /\ items[i] = items[j] => i = j
      BY <1>1, <1>2 DEF Distinct, HeldBy
    <2>2. /\ kept \in Seq(Int) /\ Range(kept) = Range(items) \cap Range(left)
          /\ (\A i, j \in DOMAIN items : items[i] \in Range(left) /\ items[i] = items[j] => i = j)
                => IsInjective(kept)
      BY <1>2, OnlyKeeps
    <2> QED
      BY <1>1, <1>3, <2>1, <2>2
  <1>5. ASSUME NEW x \in HeldBy(entries), NEW y \in HeldBy(entries), Before(keys, x, y)
        PROVE  Before(kept, x, y)
    <2>1. /\ DOMAIN keys = DOMAIN entries
          /\ \A i \in DOMAIN entries :
                /\ keys[i] = Key(entries, i)
                /\ entries[i].item # NoItem => Key(entries, i) = entries[i].item
                /\ entries[i].item = NoItem => Key(entries, i) = -i
      BY KeysKept
    <2>2. PICK i \in DOMAIN entries, j \in DOMAIN entries : i < j /\ keys[i] = x /\ keys[j] = y
      BY <1>5, <2>1 DEF Before
    <2>3. x > 0 /\ y > 0 /\ i > 0 /\ j > 0 /\ i \in Nat /\ j \in Nat /\ x \in Nat /\ y \in Nat
      <3>1. Len(entries) \in Nat /\ DOMAIN entries = 1..Len(entries)
        BY DEF OrdersOf
      <3>2. \A k \in DOMAIN entries : entries[k].item \in Nat
        BY EntryTyped
      <3>3. x \in Nat \ {0} /\ y \in Nat \ {0}
        BY <3>2 DEF HeldBy, NoItem
      <3> QED
        BY <3>1, <3>3
    <2> HIDE DEF keys
    <2>4. entries[i].item = x /\ entries[j].item = y
      BY <2>1, <2>2, <2>3
    <2>5. Before(items, x, y)
      BY <1>2, <2>2, <2>4 DEF Before
    <2>6. x \in Range(left) /\ y \in Range(left)
      BY <1>1
    <2> QED
      BY <1>2, <2>5, <2>6, OnlyBoth
  <1> HIDE DEF kept
  <1>6. /\ stays \subseteq HeldBy(entries)
        /\ \A x, y \in stays : Before(kept, x, y) => Before(left, x, y)
    <2>1. stays \subseteq Range(kept) /\ \A x, y \in stays : Before(kept, x, y) => Before(left, x, y)
      BY <1>1, <1>4, LongestIsLongest
    <2> QED
      BY <1>4, <2>1
  <1> HIDE DEF stays, keys
  <1>7. \A x, y \in stays : Before(keys, x, y) => Before(left, x, y)
    BY <1>5, <1>6
  <1> QED
    BY <1>1, <1>4, <1>5, <1>6, <1>7 DEF left, kept, stays, keys, items

LEMMA PlanReaches ==
    ASSUME NEW V, NEW read \in ItemsOf(V), NEW entries \in OrdersOf(V), Distinct(entries),
           HeldBy(entries) \subseteq IdsOf(read)
    PROVE  Reaches(entries, Plan(read, entries), ItemIds(read), KeysOf(entries))
  <1> DEFINE left == Left(read, entries)
             kept == Only(ItemsOfEntries(entries), Range(left))
             stays == LongestIncreasing(kept, left)
             end == PlanSteps(entries, left, stays)
             keys == KeysOf(entries)
             n == Len(entries)
  <1>1. Plan(read, entries) = Deletes(read, entries) \o end.writes
    BY DEF Plan, PlanSteps, PlanStep, PlanWrite, PlanAt, PlanRest, ItemsOfEntries
  <1>2. /\ left \in Seq(Int) /\ IsInjective(left) /\ Range(left) = HeldBy(entries)
        /\ stays \subseteq HeldBy(entries)
        /\ \A x, y \in stays : Before(keys, x, y) => Before(left, x, y)
    BY StaysInOrder
  <1> HIDE DEF left, stays
  <1>3. PICK accs : PlanRuns(V, entries, left, stays, accs)
    BY <1>2, PlanGoes
  <1>4. /\ accs[0] = [previous |-> 0, playlist |-> left, writes |-> <<>>]
        /\ \A k \in 0..n : accs[k] \in PlanAccs(V)
        /\ \A k \in 0..(n - 1) : accs[k + 1] = PlanStep(entries, stays, accs[k], k + 1)
        /\ end = accs[n]
    BY <1>3 DEF PlanRuns
  <1>5. n \in Nat /\ DOMAIN entries = 1..n
    BY DEF OrdersOf
  <1> HIDE DEF end, n
  <1> DEFINE All == {k \in Nat : k <= n => PlanReaching(V, entries, left, stays, k, accs[k])}
  <1>6. 0 \in All
    <2>1. Reaches(entries, <<>>, left, left)
      BY <1>2, ReachesNone
    <2>2. InPlace(entries, stays, 0) = stays
      BY DEF InPlace
    <2>3. {-j : j \in {l \in 1..0 : entries[l].item = NoItem}} = {}
      OBVIOUS
    <2> DEFINE acc == accs[0]
    <2>4. acc \in PlanAccs(V)
      <3>1. 0 \in 0..n
        BY <1>5
      <3> QED
        BY <1>4, <3>1
    <2>5. acc.previous = 0 /\ acc.playlist = left /\ acc.writes = <<>>
      BY <1>4
    <2> HIDE DEF acc
    <2>6. PlanReaching(V, entries, left, stays, 0, acc)
      BY <1>2, <2>1, <2>2, <2>3, <2>4, <2>5 DEF PlanReaching, keys
    <2> QED
      BY <2>6 DEF acc
  <1>7. ASSUME NEW k \in Nat, k \in All PROVE k + 1 \in All
    <2> SUFFICES ASSUME k + 1 <= n
                 PROVE  PlanReaching(V, entries, left, stays, k + 1, accs[k + 1])
      OBVIOUS
    <2>1. k \in 0..(n - 1) /\ k <= n /\ k + 1 \in DOMAIN entries
      BY <1>5
    <2>2. accs[k + 1] = PlanStep(entries, stays, accs[k], k + 1)
      BY <1>4, <2>1
    <2> DEFINE acc == accs[k]
    <2>3. PlanReaching(V, entries, left, stays, k, acc)
      BY <1>7, <2>1
    <2> HIDE DEF acc
    <2>4. PlanReaching(V, entries, left, stays, k + 1, PlanStep(entries, stays, acc, k + 1))
      BY <1>2, <2>1, <2>3, PlanStepReaches
    <2> QED
      BY <2>2, <2>4 DEF acc
  <1>8. n \in All
    <2> HIDE DEF All
    <2> QED
      BY <1>5, <1>6, <1>7, Induct
  <1>9. PlanReaching(V, entries, left, stays, n, end)
    BY <1>4, <1>5, <1>8
  <1>10. /\ end \in PlanAccs(V) /\ IsInjective(end.playlist)
         /\ Range(end.playlist) =
                HeldBy(entries) \cup {-j : j \in {l \in DOMAIN entries : entries[l].item = NoItem}}
         /\ \A x, y \in InPlace(entries, stays, n) :
                Before(keys, x, y) => Before(end.playlist, x, y)
         /\ Reaches(entries, end.writes, left, end.playlist)
    BY <1>2, <1>5, <1>9 DEF PlanReaching
  <1>11. /\ keys \in Seq(Int) /\ IsInjective(keys) /\ DOMAIN keys = DOMAIN entries
         /\ (\A i \in DOMAIN entries : keys[i] = Key(entries, i))
         /\ Range(keys) =
                HeldBy(entries) \cup {-j : j \in {l \in DOMAIN entries : entries[l].item = NoItem}}
    BY KeysKept
  <1>12. Range(keys) \subseteq InPlace(entries, stays, n)
    BY <1>5, <1>11 DEF Range, InPlace
  <1>13. end.playlist \in Seq(Int) /\ end.writes \in Seq(WritesOf(V))
    BY <1>10 DEF PlanAccs
  <1> HIDE DEF keys
  <1> DEFINE list == end.playlist
             others == end.writes
  <1> HIDE DEF list, others
  <1>14. list = keys
    <2>1. list \in Seq(Int) /\ IsInjective(list) /\ Range(keys) = Range(list)
          /\ \A x, y \in Range(keys) : Before(keys, x, y) => Before(list, x, y)
      BY <1>10, <1>11, <1>12, <1>13 DEF list
    <2>2. keys = list
      BY <1>11, <2>1, SameKeysInOrder
    <2> QED
      BY <2>2
  <1>15. Deletes(read, entries) \in Seq(WritesOf(V))
    BY DeletesKeep
  <1>16. Reaches(entries, Deletes(read, entries), ItemIds(read), left)
    BY DeletesReach DEF left
  <1>17. Reaches(entries, others, left, keys) /\ others \in Seq(WritesOf(V))
    BY <1>10, <1>13, <1>14 DEF list, others
  <1>18. Reaches(entries, Deletes(read, entries) \o others, ItemIds(read), keys)
    BY <1>15, <1>16, <1>17, ReachesBoth
  <1> QED
    BY <1>1, <1>18 DEF others, keys

LEMMA AppendedKeys ==
    ASSUME NEW list \in Seq(Int), IsInjective(list), NEW e \in Int, e \notin Range(list)
    PROVE  /\ Append(list, e) \in Seq(Int) /\ IsInjective(Append(list, e))
           /\ Range(Append(list, e)) = Range(list) \cup {e}
  <1> DEFINE more == Append(list, e)
             n == Len(list)
  <1>1. n \in Nat /\ DOMAIN list = 1..n /\ DOMAIN more = 1..(n + 1) /\ more \in Seq(Int)
    OBVIOUS
  <1>2. \A i \in 1..(n + 1) : more[i] = IF i = n + 1 THEN e ELSE list[i]
    OBVIOUS
  <1> HIDE DEF more, n
  <1>3. IsInjective(more)
    BY <1>1, <1>2 DEF IsInjective, Range
  <1>4. \A x \in Range(more) : x = e \/ x \in Range(list)
    BY <1>1, <1>2 DEF Range
  <1>5. e \in Range(more)
    <2>1. n + 1 \in 1..(n + 1)
      BY <1>1
    <2> QED
      BY <1>1, <1>2, <2>1 DEF Range
  <1>6. ASSUME NEW x \in Range(list) PROVE x \in Range(more)
    <2>1. PICK i \in 1..n : list[i] = x
      BY <1>1 DEF Range
    <2>2. i \in 1..(n + 1) /\ i # n + 1
      BY <1>1
    <2> QED
      BY <1>1, <1>2, <2>1, <2>2 DEF Range
  <1> QED
    BY <1>1, <1>3, <1>4, <1>5, <1>6 DEF more

LEMMA PlanAppendsReach ==
    ASSUME NEW V, NEW read \in ItemsOf(V), NEW entries \in OrdersOf(V), Distinct(entries),
           HeldBy(entries) \subseteq IdsOf(read)
    PROVE  \E to : /\ Reaches(entries, PlanAppends(read, entries), ItemIds(read), to)
                   /\ Range(to) = Range(KeysOf(entries))
  <1> DEFINE T == [id : Nat, video : V, item : Nat]
             S == {e \in Range(entries) : e.item = NoItem}
             waiting == Only(entries, S)
             appends == [i \in DOMAIN waiting |->
                            Write("append", NoItem, waiting[i].id, waiting[i].video, 0)]
             left == Left(read, entries)
             n == Len(waiting)
  <1>1. entries \in Seq(T) /\ Len(entries) \in Nat /\ DOMAIN entries = 1..Len(entries)
    BY DEF OrdersOf
  <1>2. PlanAppends(read, entries) = Deletes(read, entries) \o appends
    BY DEF PlanAppends
  <1>3. waiting \in Seq(T) /\ \E at : Enumerates(at, waiting, entries, S, Len(entries))
    <2> HIDE DEF S, T
    <2> QED
      BY <1>1, OnlyPlaces
  <1> HIDE DEF waiting
  <1>4. PICK at : Enumerates(at, waiting, entries, S, Len(entries))
    BY <1>3
  <1>5. n \in Nat /\ DOMAIN waiting = 1..n
    BY <1>3
  <1>6. ASSUME NEW i \in 1..n
        PROVE  /\ at[i] \in DOMAIN entries /\ waiting[i] = entries[at[i]]
               /\ waiting[i].item = NoItem /\ waiting[i].id \in Nat
               /\ waiting[i].video \in V
    <2>1. at[i] \in DOMAIN entries /\ waiting[i] = entries[at[i]] /\ entries[at[i]] \in S
      BY <1>1, <1>4 DEF Enumerates
    <2>2. entries[at[i]] \in T
      BY <2>1, EntryTyped
    <2> QED
      BY <2>1, <2>2
  <1>7. \A i \in DOMAIN entries : entries[i].item = NoItem => \E j \in 1..n : at[j] = i
    <2> TAKE i \in DOMAIN entries
    <2> HAVE entries[i].item = NoItem
    <2>1. entries[i] \in S
      BY DEF Range
    <2> HIDE DEF S
    <2> QED
      BY <1>1, <1>4, <2>1 DEF Enumerates
  <1>8. \A i, j \in 1..n : i < j => at[i] < at[j]
    BY <1>4 DEF Enumerates
  <1> HIDE DEF S, n
  <1>9. /\ left \in Seq(Int) /\ IsInjective(left) /\ Range(left) = HeldBy(entries)
    <2>1. /\ left \in Seq(Int) /\ IsInjective(left)
          /\ Range(left) = IdsOf(read) \cap HeldBy(entries)
      BY DeletesKeep
    <2> QED
      BY <2>1
  <1> HIDE DEF left
  <1>10. \A i \in 1..n :
            Write("append", NoItem, waiting[i].id, waiting[i].video, 0) \in WritesOf(V)
    BY <1>6 DEF Write, WritesOf, NoItem, AddsItem
  <1> DEFINE upTo(k) == [i \in 1..k |->
                            Write("append", NoItem, waiting[i].id, waiting[i].video, 0)]
             Keys(k) == HeldBy(entries) \cup {-at[j] : j \in 1..k}
             All == {k \in Nat : k <= n =>
                        \E to \in Seq(Int) :
                            /\ IsInjective(to) /\ Range(to) = Keys(k)
                            /\ Reaches(entries, upTo(k), left, to)}
  <1>11. 0 \in All
    <2>1. Keys(0) = Range(left)
      BY <1>9
    <2>2. upTo(0) = <<>>
      OBVIOUS
    <2> HIDE DEF upTo, Keys
    <2>3. Reaches(entries, upTo(0), left, left)
      BY <1>9, <2>2, ReachesNone
    <2> QED
      BY <1>9, <2>1, <2>3
  <1>12. ASSUME NEW k \in Nat, k \in All PROVE k + 1 \in All
    <2> SUFFICES ASSUME k + 1 <= n
                 PROVE  \E to \in Seq(Int) :
                            /\ IsInjective(to) /\ Range(to) = Keys(k + 1)
                            /\ Reaches(entries, upTo(k + 1), left, to)
      BY SMTT(30)
    <2>1. k <= n /\ k + 1 \in 1..n /\ \A j \in 1..k : j \in 1..n /\ j < k + 1
      BY <1>5
    <2>2. PICK to \in Seq(Int) : /\ IsInjective(to) /\ Range(to) = Keys(k)
                                 /\ Reaches(entries, upTo(k), left, to)
      BY <1>12, <2>1
    <2> DEFINE w == Write("append", NoItem, waiting[k + 1].id, waiting[k + 1].video, 0)
               key == -at[k + 1]
               next == Append(to, key)
    <2>3. upTo(k + 1) = Append(upTo(k), w) /\ upTo(k) \in Seq(WritesOf(V)) /\ w \in WritesOf(V)
      <3>1. w \in WritesOf(V)
        BY <1>10, <2>1
      <3>2. upTo(k) \in Seq(WritesOf(V)) /\ Len(upTo(k)) = k
        BY <1>10, <2>1
      <3>3. upTo(k + 1) \in Seq(WritesOf(V)) /\ Len(upTo(k + 1)) = k + 1
        <4>1. \A j \in 1..(k + 1) : j \in 1..n
          BY <1>5, <2>1
        <4> QED
          BY <1>10, <4>1
      <3>4. \A i \in 1..(k + 1) : upTo(k + 1)[i] = IF i <= k THEN upTo(k)[i] ELSE w
        OBVIOUS
      <3> HIDE DEF w, upTo
      <3> QED
        BY <3>1, <3>2, <3>3, <3>4
    <2>4. at[k + 1] \in Nat \ {0} /\ key \in Int
      BY <1>1, <1>6, <2>1
    <2>5. key \notin Keys(k)
      <3>1. key \notin HeldBy(entries)
        <4>1. \A j \in DOMAIN entries : entries[j].item \in Nat
          BY EntryTyped
        <4>2. HeldBy(entries) \subseteq Nat
          BY <4>1 DEF HeldBy
        <4> QED
          BY <2>4, <4>2
      <3>2. ASSUME NEW j \in 1..k, -at[j] = key PROVE FALSE
        <4>1. at[j] < at[k + 1] /\ at[j] \in Nat
          BY <1>1, <1>6, <1>8, <2>1
        <4> QED
          BY <2>4, <3>2, <4>1
      <3> QED
        BY <3>1, <3>2
    <2>6. Keys(k + 1) = Keys(k) \cup {key}
      <3>1. \A j \in 1..(k + 1) : j \in 1..k \/ j = k + 1
        OBVIOUS
      <3>2. (\A j \in 1..k : j \in 1..(k + 1)) /\ k + 1 \in 1..(k + 1)
        OBVIOUS
      <3> QED
        BY <3>1, <3>2
    <2> HIDE DEF upTo, Keys, w
    <2>7. next \in Seq(Int) /\ IsInjective(next) /\ Range(next) = Range(to) \cup {key}
      <3> HIDE DEF key
      <3> QED
        BY <2>2, <2>4, <2>5, AppendedKeys
    <2>8. Accepted(entries, to, w, next)
      <3>1. w.kind = "append" /\ w.entry = waiting[k + 1].id
        BY DEF w, Write
      <3>2. next = IdsAfter(to, w, key)
        BY <3>1 DEF IdsAfter
      <3> DEFINE i == at[k + 1]
      <3>3. i \in DOMAIN entries /\ entries[i].id = w.entry /\ entries[i].item = NoItem
        BY <1>6, <2>1, <3>1
      <3>4. -i \notin Range(to) /\ next = IdsAfter(to, w, -i)
        BY <2>2, <2>5, <3>2
      <3> HIDE DEF i, next
      <3> QED
        BY <3>1, <3>3, <3>4 DEF Accepted
    <2>9. Reaches(entries, Append(upTo(k), w), left, next)
      <3> HIDE DEF next
      <3> QED
        BY <2>2, <2>3, <2>7, <2>8, ReachesAppend
    <2> QED
      BY <2>2, <2>3, <2>6, <2>7, <2>9
  <1>13. n \in All
    <2> HIDE DEF All
    <2> QED
      BY <1>5, <1>11, <1>12, Induct
  <1>14. PICK to \in Seq(Int) : /\ IsInjective(to) /\ Range(to) = Keys(n)
                                /\ Reaches(entries, upTo(n), left, to)
    BY <1>5, <1>13
  <1>15. appends = upTo(n) /\ appends \in Seq(WritesOf(V))
    BY <1>5, <1>10
  <1>16. Keys(n) = Range(KeysOf(entries))
    <2>1. Range(KeysOf(entries)) =
            HeldBy(entries) \cup {-i : i \in {j \in DOMAIN entries : entries[j].item = NoItem}}
      BY KeysKept
    <2>2. \A j \in 1..n : at[j] \in DOMAIN entries /\ entries[at[j]].item = NoItem
      BY <1>6
    <2> QED
      BY <1>7, <2>1, <2>2
  <1> HIDE DEF upTo, appends, Keys
  <1>17. Deletes(read, entries) \in Seq(WritesOf(V))
    BY DeletesKeep
  <1>18. Reaches(entries, Deletes(read, entries), ItemIds(read), left)
    BY DeletesReach DEF left
  <1>19. Reaches(entries, appends, left, to)
    BY <1>14, <1>15
  <1>20. Reaches(entries, Deletes(read, entries) \o appends, ItemIds(read), to)
    BY <1>15, <1>17, <1>18, <1>19, ReachesBoth
  <1> QED
    BY <1>2, <1>14, <1>16, <1>20

(* A plan reaches the server's order, or its items in a playlist YouTube     *)
(* orders itself, by writes YouTube accepts.                                *)
THEOREM PlanForReaches ==
    ASSUME NEW V, NEW read \in ItemsOf(V), NEW entries \in OrdersOf(V), Distinct(entries),
           HeldBy(entries) \subseteq IdsOf(read), NEW sort
    PROVE  \E to :
            /\ Reaches(entries, PlanFor(sort, read, entries), ItemIds(read), to)
            /\ Range(to) = Range(KeysOf(entries))
            /\ sort = Manual => to = KeysOf(entries)
  BY PlanReaches, PlanAppendsReach DEF PlanFor

-----------------------------------------------------------------------------
(***************************************************************************)
(* How many writes a plan makes.                                           *)
(***************************************************************************)

(* Lists of the same distinct elements are of one length.                   *)
LEMMA LengthIsCount ==
    ASSUME NEW T, NEW list \in Seq(T), IsInjective(list)
    PROVE  IsFiniteSet(Range(list)) /\ Cardinality(Range(list)) = Len(list)
  <1> DEFINE n == Len(list)
             R == Range(list)
  <1>1. n \in Nat /\ DOMAIN list = 1..n
    OBVIOUS
  <1>2. list \in [1..n -> R]
    BY <1>1 DEF Range
  <1>3. list \in Surjection(1..n, R)
    BY <1>1, <1>2 DEF Surjection, Range
  <1>4. list \in Injection(1..n, R)
    BY <1>1, <1>2 DEF Injection, IsInjective
  <1>5. list \in Bijection(1..n, R)
    BY <1>3, <1>4 DEF Bijection
  <1> HIDE DEF n, R
  <1>6. ExistsBijection(1..n, R)
    BY <1>5 DEF ExistsBijection
  <1>7. IsFiniteSet(1..n) /\ Cardinality(1..n) = n
    BY <1>1, FS_Interval
  <1>8. IsFiniteSet(R) /\ Cardinality(R) = n
    BY <1>6, <1>7, FS_Bijection
  <1> QED
    BY <1>8 DEF n, R

LEMMA SameLengths ==
    ASSUME NEW S, NEW T, NEW a \in Seq(S), NEW b \in Seq(T), IsInjective(a), IsInjective(b),
           Range(a) = Range(b)
    PROVE  Len(a) = Len(b)
  BY LengthIsCount

(* The elements of places that each have another.                           *)
LEMMA ImageCount ==
    ASSUME NEW S, IsFiniteSet(S), NEW f, \A i, j \in S : f[i] = f[j] => i = j
    PROVE  IsFiniteSet({f[i] : i \in S}) /\ Cardinality({f[i] : i \in S}) = Cardinality(S)
  <1> DEFINE T == {f[i] : i \in S}
             g == [i \in S |-> f[i]]
  <1>1. g \in [S -> T]
    OBVIOUS
  <1>2. \A t \in T : \E i \in S : g[i] = t
    OBVIOUS
  <1>3. \A i, j \in S : g[i] = g[j] => i = j
    OBVIOUS
  <1> HIDE DEF g, T
  <1>4. g \in Bijection(S, T)
    BY <1>1, <1>2, <1>3 DEF Bijection, Injection, Surjection, IsInjective
  <1>5. IsFiniteSet(T) /\ Cardinality(T) = Cardinality(S)
    BY <1>4, FS_Bijection DEF ExistsBijection
  <1> QED
    BY <1>5 DEF T

LEMMA CountNext ==
    ASSUME NEW S, NEW k \in Nat
    PROVE  /\ IsFiniteSet({j \in 1..k : j \in S})
           /\ Cardinality({j \in 1..k : j \in S}) \in Nat
           /\ Cardinality({j \in 1..(k + 1) : j \in S}) =
                Cardinality({j \in 1..k : j \in S}) + (IF k + 1 \in S THEN 1 ELSE 0)
  <1> DEFINE A == {j \in 1..k : j \in S}
             B == {j \in 1..(k + 1) : j \in S}
  <1>1. IsFiniteSet(1..k)
    BY FS_Interval
  <1>2. IsFiniteSet(A)
    BY <1>1, FS_Subset
  <1>3. Cardinality(A) \in Nat
    BY <1>2, FS_CardinalityType
  <1>4. k + 1 \notin A
    OBVIOUS
  <1>5. B = IF k + 1 \in S THEN A \cup {k + 1} ELSE A
    OBVIOUS
  <1> HIDE DEF A, B
  <1>6. Cardinality(A \cup {k + 1}) = Cardinality(A) + 1
    BY <1>2, <1>4, FS_AddElement
  <1>7. Cardinality(B) = Cardinality(A) + (IF k + 1 \in S THEN 1 ELSE 0)
    BY <1>3, <1>5, <1>6
  <1> QED
    BY <1>2, <1>3, <1>7 DEF A, B

(* The entries of an order that await an item, and those of the rest.       *)
LEMMA HeldCount ==
    ASSUME NEW V, NEW entries \in OrdersOf(V), Distinct(entries), NEW S, S \subseteq HeldBy(entries)
    PROVE  /\ IsFiniteSet(HeldBy(entries)) /\ IsFiniteSet(S)
           /\ Cardinality({j \in 1..Len(entries) : entries[j].item \in S}) = Cardinality(S)
           /\ Cardinality({j \in 1..Len(entries) : entries[j].item = NoItem}) =
                Len(entries) - Cardinality(HeldBy(entries))
           /\ Cardinality(HeldBy(entries)) \in Nat
  <1> DEFINE n == Len(entries)
             f == [j \in 1..n |-> entries[j].item]
             H == {j \in 1..n : entries[j].item \in HeldBy(entries)}
             W == {j \in 1..n : entries[j].item = NoItem}
             A == {j \in 1..n : entries[j].item \in S}
  <1>1. n \in Nat /\ DOMAIN entries = 1..n
    BY DEF OrdersOf
  <1>2. NoItem \notin HeldBy(entries) /\ \A x \in HeldBy(entries) : \E j \in 1..n : entries[j].item = x
    BY <1>1 DEF HeldBy
  <1>3. IsFiniteSet(1..n) /\ Cardinality(1..n) = n
    <2> HIDE DEF n
    <2> QED
      BY <1>1, FS_Interval
  <1>4. IsFiniteSet(H) /\ IsFiniteSet(W) /\ IsFiniteSet(A)
    <2>1. H \in SUBSET (1..n) /\ W \in SUBSET (1..n) /\ A \in SUBSET (1..n)
      OBVIOUS
    <2> HIDE DEF H, W, A, n
    <2> QED
      BY <1>3, <2>1, FS_Subset
  <1>5. \A i, j \in H : f[i] = f[j] => i = j
    BY <1>1, <1>2 DEF Distinct
  <1>6. A \subseteq H /\ {f[i] : i \in A} = S /\ {f[i] : i \in H} = HeldBy(entries)
    BY <1>2
  <1>7. H \cup W = 1..n /\ H \cap W = {}
    BY <1>1, <1>2 DEF HeldBy
  <1> HIDE DEF H, W, A, f, n
  <1>8. IsFiniteSet(S) /\ Cardinality(S) = Cardinality(A)
    BY <1>4, <1>5, <1>6, ImageCount
  <1>9. IsFiniteSet(HeldBy(entries)) /\ Cardinality(HeldBy(entries)) = Cardinality(H)
    BY <1>4, <1>5, <1>6, ImageCount
  <1>10. Cardinality(H) \in Nat /\ Cardinality(W) \in Nat /\ Cardinality(H \cap W) = 0
    BY <1>4, <1>7, FS_CardinalityType, FS_EmptySet
  <1>11. n = Cardinality(H) + Cardinality(W) - Cardinality(H \cap W)
    BY <1>3, <1>4, <1>7, FS_Union
  <1>12. Cardinality(W) = n - Cardinality(HeldBy(entries))
    BY <1>1, <1>9, <1>10, <1>11
  <1>13. Cardinality(HeldBy(entries)) \in Nat
    BY <1>9, <1>10
  <1> QED
    BY <1>8, <1>9, <1>12, <1>13 DEF A, W, n

(* A plan's writes after its deletes: a move for each held entry not kept in *)
(* place, and an insert for each that awaits an item.                       *)
LEMMA PlanCounts ==
    ASSUME NEW V, NEW entries \in OrdersOf(V), NEW stays, NEW left \in Seq(Int),
           Distinct(entries), stays \subseteq HeldBy(entries)
    PROVE  LET others == PlanSteps(entries, left, stays).writes
               moved == {j \in 1..Len(entries) : entries[j].item \in HeldBy(entries) \ stays}
               waiting == {j \in 1..Len(entries) : entries[j].item = NoItem}
           IN  /\ Cardinality({m \in 1..Len(others) : others[m].kind = "move"}) = Cardinality(moved)
               /\ Len(others) = Cardinality(moved) + Cardinality(waiting)
               /\ others \in Seq(WritesOf(V))
  <1> DEFINE n == Len(entries)
             M == {j \in 1..n : entries[j].item \in HeldBy(entries) \ stays}
             W == {j \in 1..n : entries[j].item = NoItem}
             Moves(w) == {m \in 1..Len(w) : w[m].kind = "move"}
             C(k, S) == Cardinality({j \in 1..k : j \in S})
  <1>1. n \in Nat /\ DOMAIN entries = 1..n
    BY DEF OrdersOf
  <1>2. PICK accs : PlanRuns(V, entries, left, stays, accs)
    BY PlanGoes
  <1>3. /\ accs[0] = [previous |-> 0, playlist |-> left, writes |-> <<>>]
        /\ \A k \in 0..n : accs[k] \in PlanAccs(V)
        /\ \A k \in 0..(n - 1) : accs[k + 1] = PlanStep(entries, stays, accs[k], k + 1)
        /\ PlanSteps(entries, left, stays) = accs[n]
    BY <1>2 DEF PlanRuns
  <1> DEFINE All == {k \in Nat : k <= n =>
                        /\ Cardinality(Moves(accs[k].writes)) = C(k, M)
                        /\ Len(accs[k].writes) = C(k, M) + C(k, W)}
  <1>4. \A k \in 0..n : accs[k].writes \in Seq(WritesOf(V))
    BY <1>3 DEF PlanAccs
  <1>5. 0 \in All
    <2>1. Moves(<<>>) = {} /\ {j \in 1..0 : j \in M} = {} /\ {j \in 1..0 : j \in W} = {}
      OBVIOUS
    <2>2. accs[0].writes = <<>>
      BY <1>3
    <2> HIDE DEF M, W
    <2>3. Cardinality(Moves(accs[0].writes)) = 0 /\ C(0, M) = 0 /\ C(0, W) = 0
      BY <2>1, <2>2, FS_EmptySet
    <2>4. Len(accs[0].writes) = 0
      BY <2>2
    <2> HIDE DEF C, Moves
    <2> QED
      BY <2>3, <2>4
  <1>6. ASSUME NEW k \in Nat, k \in All PROVE k + 1 \in All
    <2> SUFFICES ASSUME k + 1 <= n
                 PROVE  /\ Cardinality(Moves(accs[k + 1].writes)) = C(k + 1, M)
                        /\ Len(accs[k + 1].writes) = C(k + 1, M) + C(k + 1, W)
      OBVIOUS
    <2> DEFINE i == k + 1
               before == accs[k].writes
               after == accs[k + 1].writes
    <2>1. k \in 0..(n - 1) /\ k \in 0..n /\ k <= n /\ i \in DOMAIN entries /\ i \in 1..n
      BY <1>1
    <2>2. /\ Cardinality(Moves(before)) = C(k, M)
          /\ Len(before) = C(k, M) + C(k, W)
      BY <1>6, <2>1
    <2>3. accs[i] = PlanStep(entries, stays, accs[k], i) /\ accs[k] \in PlanAccs(V)
      BY <1>3, <2>1
    <2>4. /\ Key(entries, i) = IF entries[i].item = 0 THEN -i ELSE entries[i].item
          /\ PlanWrite(entries, accs[k], i) \in WritesOf(V)
      BY <2>1, <2>3, PlanStepTyped
    <2>5. entries[i].item \in Nat
      <3>1. entries[i] \in [id : Nat, video : V, item : Nat]
        BY <2>1, EntryTyped
      <3> QED
        BY <3>1
    <2>6. Key(entries, i) \in stays <=> i \notin M /\ i \notin W
      <3>1. \A x \in stays : x # 0 /\ x > 0
        <4> TAKE x \in stays
        <4>1. PICK j \in DOMAIN entries : entries[j].item = x /\ x # NoItem
          BY DEF HeldBy
        <4>2. entries[j] \in [id : Nat, video : V, item : Nat]
          BY EntryTyped
        <4> QED
          BY <4>1, <4>2 DEF NoItem
      <3>2. CASE entries[i].item = NoItem
        BY <2>1, <2>4, <3>1, <3>2 DEF NoItem
      <3>3. CASE entries[i].item # NoItem
        <4>1. entries[i].item \in HeldBy(entries)
          BY <2>1, <3>3 DEF HeldBy
        <4> QED
          BY <2>1, <2>4, <3>3, <4>1 DEF NoItem
      <3> QED
        BY <3>2, <3>3
    <2>7. i \in M => i \notin W
      BY DEF HeldBy
    <2>8. /\ C(k, M) \in Nat /\ C(k, W) \in Nat
          /\ C(k + 1, M) = C(k, M) + (IF i \in M THEN 1 ELSE 0)
          /\ C(k + 1, W) = C(k, W) + (IF i \in W THEN 1 ELSE 0)
      <3> HIDE DEF M, W
      <3> QED
        BY CountNext
    <2>9. before \in Seq(WritesOf(V)) /\ Len(before) \in Nat
      <3> DEFINE T == WritesOf(V)
      <3>1. before \in Seq(T)
        BY <1>4, <2>1
      <3> HIDE DEF T, before
      <3>2. Len(before) \in Nat
        BY <3>1
      <3> QED
        BY <3>1, <3>2 DEF T
    <2>10. CASE Key(entries, i) \in stays
      <3>1. after = before
        <4> DEFINE acc == accs[k]
        <4>1. accs[i] = [acc EXCEPT !.previous = Key(entries, i)]
          BY <2>3, <2>10 DEF PlanStep
        <4>2. acc \in [previous : Int, playlist : Seq(Int), writes : Seq(WritesOf(V))]
          BY <2>3 DEF PlanAccs
        <4> HIDE DEF acc
        <4>3. accs[i].writes = acc.writes
          BY <4>1, <4>2
        <4> QED
          BY <4>3 DEF acc
      <3> HIDE DEF M, W, before, after, Moves, i, n
      <3>2. after = before /\ i \notin M /\ i \notin W
        BY <2>6, <2>10, <3>1
      <3>3. C(k + 1, M) = C(k, M) /\ C(k + 1, W) = C(k, W)
        BY <2>8, <3>2
      <3> QED
        BY <2>2, <3>1, <3>3 DEF before, after
    <2>11. CASE Key(entries, i) \notin stays
      <3> DEFINE w == PlanWrite(entries, accs[k], i)
                 T == WritesOf(V)
      <3>1. after = Append(before, w)
        BY <2>3, <2>11 DEF PlanStep
      <3>2. w.kind = IF i \in W THEN "insert" ELSE "move"
        BY <2>1 DEF PlanWrite, Write
      <3>3. before \in Seq(T) /\ w \in T
        BY <2>4, <2>9
      <3> HIDE DEF w, before, after, T
      <3>4. /\ Len(after) = Len(before) + 1 /\ after[Len(before) + 1] = w
            /\ \A m \in 1..Len(before) : after[m] = before[m]
        BY <2>9, <3>1, <3>3
      <3>5. Moves(after) = IF w.kind = "move" THEN Moves(before) \cup {Len(before) + 1}
                           ELSE Moves(before)
        BY <2>9, <3>4
      <3>6. Len(before) + 1 \notin Moves(before) /\ IsFiniteSet(Moves(before))
        <4>1. IsFiniteSet(1..Len(before)) /\ Moves(before) \in SUBSET (1..Len(before))
          BY <2>9, FS_Interval
        <4>2. Len(before) + 1 \notin Moves(before)
          BY <2>9
        <4> HIDE DEF Moves
        <4> QED
          BY <4>1, <4>2, FS_Subset
      <3>7. Cardinality(Moves(after)) = Cardinality(Moves(before)) + (IF w.kind = "move" THEN 1 ELSE 0)
        <4> HIDE DEF Moves
        <4>1. Cardinality(Moves(before)) \in Nat
          BY <3>6, FS_CardinalityType
        <4>2. Cardinality(Moves(before) \cup {Len(before) + 1}) = Cardinality(Moves(before)) + 1
          BY <3>6, FS_AddElement
        <4> QED
          BY <3>5, <4>1, <4>2
      <3> HIDE DEF M, W, Moves, C
      <3>8. i \in M \/ i \in W
        BY <2>6, <2>11
      <3>9. (w.kind = "move") <=> i \in M
        BY <2>7, <3>2, <3>8
      <3>10. Cardinality(Moves(after)) = C(k + 1, M)
        BY <2>2, <2>8, <3>7, <3>9
      <3>11. Len(after) = C(k + 1, M) + C(k + 1, W)
        BY <2>2, <2>7, <2>8, <2>9, <3>4, <3>8
      <3> QED
        BY <3>10, <3>11 DEF after
    <2> QED
      BY <2>10, <2>11
  <1>7. n \in All
    <2> HIDE DEF All, n
    <2>1. Nat \subseteq All
      BY <1>5, <1>6, Induct
    <2> QED
      BY <1>1, <2>1
  <1>8. {j \in 1..n : j \in M} = M /\ {j \in 1..n : j \in W} = W
    OBVIOUS
  <1>9. accs[n].writes \in Seq(WritesOf(V))
    BY <1>1, <1>4
  <1>10. /\ Cardinality(Moves(accs[n].writes)) = Cardinality(M)
         /\ Len(accs[n].writes) = Cardinality(M) + Cardinality(W)
    <2>1. n <= n
      BY <1>1
    <2> HIDE DEF M, W, n, Moves
    <2> QED
      BY <1>7, <1>8, <2>1
  <1> HIDE DEF M, W, n
  <1> QED
    BY <1>3, <1>9, <1>10 DEF M, W, n

(* The items two lists of them have in one order.                           *)
LEMMA InOneOrder ==
    ASSUME NEW T, NEW a \in Seq(T), NEW b \in Seq(T), IsInjective(a), IsInjective(b),
           NEW S, S \subseteq Range(a), S \subseteq Range(b)
    PROVE  Only(a, S) = Only(b, S) <=> \A x, y \in S : Before(a, x, y) => Before(b, x, y)
  <1>1. ASSUME Only(a, S) = Only(b, S), NEW x \in S, NEW y \in S, Before(a, x, y)
        PROVE  Before(b, x, y)
    <2>1. Before(Only(a, S), x, y)
      BY <1>1, OnlyBoth
    <2>2. Before(Only(b, S), x, y)
      BY <1>1, <2>1
    <2> QED
      BY <2>2, OnlyBefore
  <1>2. ASSUME \A x, y \in S : Before(a, x, y) => Before(b, x, y)
        PROVE  Only(a, S) = Only(b, S)
    <2>1. \A x, y \in S : Before(b, x, y) => ~Before(b, y, x)
      BY BeforeOnce
    <2>2. SameOrder(S, a, b)
      BY <1>2, <2>1 DEF SameOrder
    <2> QED
      BY <2>2, OnlySame
  <1> QED
    BY <1>1, <1>2

(* Plan makes the fewest writes: one delete for each item no entry holds,   *)
(* one insert for each entry without one, and a move for each held item     *)
(* outside a longest run already in order.                                  *)
THEOREM PlanIsFewest ==
    ASSUME NEW V, NEW read \in ItemsOf(V), NEW entries \in OrdersOf(V), Distinct(entries),
           HeldBy(entries) \subseteq IdsOf(read)
    PROVE  LET items == Only(ItemsOfEntries(entries), HeldBy(entries))
               writes == Plan(read, entries)
               moves == Cardinality({i \in DOMAIN writes : writes[i].kind = "move"})
               InOrder(S) == Only(items, S) = Only(ItemIds(read), S)
           IN  /\ Range(items) = HeldBy(entries) /\ moves \in Nat
               /\ \E S \in SUBSET Range(items) : InOrder(S) /\ Cardinality(S) + moves = Len(items)
               /\ \A S \in SUBSET Range(items) : InOrder(S) => Cardinality(S) + moves <= Len(items)
               /\ Len(writes) = moves + (Len(read) - Len(items)) + (Len(entries) - Len(items))
  <1> DEFINE left == Left(read, entries)
             items == Only(ItemsOfEntries(entries), HeldBy(entries))
             stays == LongestIncreasing(items, left)
             others == PlanSteps(entries, left, stays).writes
             deletes == Deletes(read, entries)
             writes == Plan(read, entries)
             H == HeldBy(entries)
             moved == {j \in 1..Len(entries) : entries[j].item \in H \ stays}
             waiting == {j \in 1..Len(entries) : entries[j].item = NoItem}
             ids == ItemIds(read)
             moves == Cardinality({i \in DOMAIN writes : writes[i].kind = "move"})
  <1>1. /\ left \in Seq(Int) /\ IsInjective(left) /\ Range(left) = H
        /\ items \in Seq(Int) /\ IsInjective(items) /\ Range(items) = H
        /\ stays \subseteq H
    BY StaysInOrder
  <1>2. writes = deletes \o others
    <2> DEFINE kept == Only(ItemsOfEntries(entries), Range(left))
    <2>1. writes = deletes \o PlanSteps(entries, left, LongestIncreasing(kept, left)).writes
      BY DEF Plan, PlanSteps, PlanStep, PlanWrite, PlanAt, PlanRest, ItemsOfEntries
    <2>2. kept = items
      <3> HIDE DEF left
      <3> QED
        BY <1>1
    <2> HIDE DEF writes, left
    <2> QED
      BY <2>1, <2>2
  <1>3. /\ deletes \in Seq(WritesOf(V))
        /\ \A n \in DOMAIN deletes : deletes[n].kind = "delete"
    <2>1. /\ deletes \in Seq(WritesOf(V))
          /\ \A n \in DOMAIN deletes : DeletesOneOf(read, entries, deletes[n])
      BY DeletesKeep
    <2> QED
      BY <2>1 DEF DeletesOneOf
  <1>4. /\ Cardinality({m \in 1..Len(others) : others[m].kind = "move"}) = Cardinality(moved)
        /\ Len(others) = Cardinality(moved) + Cardinality(waiting)
        /\ others \in Seq(WritesOf(V))
    <2> HIDE DEF left, stays
    <2> QED
      BY <1>1, PlanCounts
  <1>5. /\ ids \in Seq(Int) /\ IsInjective(ids) /\ Range(ids) = IdsOf(read) /\ Len(ids) = Len(read)
    BY ItemIdsOf
  <1>6. Len(deletes) + Len(left) = Len(read)
    <2> DEFINE lost == Only(ids, IdsOf(read) \ H)
    <2>1. Len(deletes) = Len(lost)
      <3>1. lost \in Seq(Int)
        BY <1>5, OnlyKeeps
      <3> HIDE DEF lost
      <3>2. Len([i \in DOMAIN lost |-> Write("delete", lost[i], NewEntry, 0, 0)]) = Len(lost)
        BY <3>1
      <3> QED
        BY <3>2 DEF Deletes, lost
    <2>2. \A i \in 1..Len(ids) : ids[i] \in IdsOf(read) \ H <=> ids[i] \notin H
      <3>1. \A i \in 1..Len(ids) : ids[i] \in Range(ids)
        BY <1>5 DEF Range
      <3> QED
        BY <1>5, <3>1
    <2>3. Len(lost) + Len(Only(ids, H)) = Len(ids)
      <3> HIDE DEF H, ids
      <3> QED
        BY <1>5, <2>2, OnlySplits
    <2> QED
      BY <1>5, <2>1, <2>3 DEF Left
  <1>7. Len(left) = Len(items) /\ Cardinality(H) = Len(items) /\ Len(items) \in Nat
    <2> HIDE DEF left, items
    <2>1. Len(left) = Len(items) /\ Cardinality(H) = Len(items)
      BY <1>1, SameLengths, LengthIsCount
    <2> QED
      BY <1>1, <2>1
  <1>8. /\ IsFiniteSet(H) /\ IsFiniteSet(H \ stays)
        /\ Cardinality(moved) = Cardinality(H \ stays)
        /\ Cardinality(waiting) = Len(entries) - Cardinality(H)
        /\ Cardinality(H) \in Nat
    <2>1. H \ stays \subseteq H
      OBVIOUS
    <2> DEFINE S == H \ stays
    <2>2. S \subseteq HeldBy(entries)
      OBVIOUS
    <2> HIDE DEF S
    <2>3. /\ IsFiniteSet(HeldBy(entries)) /\ IsFiniteSet(S)
          /\ Cardinality({j \in 1..Len(entries) : entries[j].item \in S}) = Cardinality(S)
          /\ Cardinality({j \in 1..Len(entries) : entries[j].item = NoItem}) =
                Len(entries) - Cardinality(HeldBy(entries))
          /\ Cardinality(HeldBy(entries)) \in Nat
      BY <2>2, HeldCount
    <2> HIDE DEF stays
    <2> QED
      BY <2>3 DEF S
  <1>9. Cardinality(stays) + Cardinality(moved) = Cardinality(H) /\ Cardinality(moved) \in Nat
    <2> HIDE DEF H, stays, moved
    <2>1. IsFiniteSet(stays)
      BY <1>1, <1>8, FS_Subset
    <2>2. stays \cup (H \ stays) = H /\ stays \cap (H \ stays) = {}
      BY <1>1
    <2>3. Cardinality(H) = Cardinality(stays) + Cardinality(H \ stays)
                             - Cardinality(stays \cap (H \ stays))
      BY <1>8, <2>1, <2>2, FS_Union
    <2>4. Cardinality(stays \cap (H \ stays)) = 0
      BY <2>2, FS_EmptySet
    <2>5. Cardinality(stays) \in Nat /\ Cardinality(H \ stays) \in Nat
      BY <1>8, <2>1, FS_CardinalityType
    <2> QED
      BY <1>8, <2>3, <2>4, <2>5
  <1>10. moves = Cardinality(moved) /\ Len(writes) = Len(deletes) + Len(others)
    <2> DEFINE d == Len(deletes)
               T == WritesOf(V)
               M == {m \in 1..Len(others) : others[m].kind = "move"}
               f == [m \in 1..Len(others) |-> m + d]
    <2>1. deletes \in Seq(T) /\ others \in Seq(T)
      BY <1>3, <1>4
    <2> HIDE DEF deletes, others, T, writes
    <2>2. /\ d \in Nat /\ Len(others) \in Nat /\ DOMAIN deletes = 1..d
          /\ DOMAIN writes = 1..(d + Len(others)) /\ Len(writes) = d + Len(others)
          /\ \A i \in 1..(d + Len(others)) :
                writes[i] = IF i <= d THEN deletes[i] ELSE others[i - d]
      BY <1>2, <2>1
    <2> HIDE DEF d
    <2>3. {i \in DOMAIN writes : writes[i].kind = "move"} = {f[m] : m \in M}
      <3>1. ASSUME NEW i \in DOMAIN writes, writes[i].kind = "move"
            PROVE  i \in {f[m] : m \in M}
        <4>1. ~(i <= d)
          <5> SUFFICES ASSUME i <= d PROVE FALSE
            OBVIOUS
          <5>1. i \in DOMAIN deletes /\ writes[i] = deletes[i]
            BY <2>2
          <5>2. deletes[i].kind = "delete"
            BY <1>3, <5>1
          <5> QED
            BY <3>1, <5>1, <5>2
        <4>2. i - d \in 1..Len(others) /\ writes[i] = others[i - d] /\ i = f[i - d]
          BY <2>2, <4>1
        <4>3. i - d \in M
          BY <3>1, <4>2
        <4> QED
          BY <4>2, <4>3
      <3>2. ASSUME NEW m \in M
            PROVE  f[m] \in DOMAIN writes /\ writes[f[m]].kind = "move"
        <4>1. f[m] = m + d /\ m + d \in 1..(d + Len(others)) /\ ~(m + d <= d) /\ (m + d) - d = m
          BY <2>2
        <4> QED
          BY <2>2, <4>1
      <3> HIDE DEF M, f
      <3> QED
        BY <3>1, <3>2
    <2>4. IsFiniteSet(M)
      <3>1. IsFiniteSet(1..Len(others)) /\ M \in SUBSET (1..Len(others))
        BY <2>2, FS_Interval
      <3> HIDE DEF M
      <3> QED
        BY <3>1, FS_Subset
    <2>5. \A i, j \in M : f[i] = f[j] => i = j
      BY <2>2
    <2>6. Cardinality({f[m] : m \in M}) = Cardinality(M)
      <3> HIDE DEF M, f
      <3> QED
        BY <2>4, <2>5, ImageCount
    <2> QED
      BY <1>4, <2>2, <2>3, <2>6 DEF d
  <1>11. /\ \A x, y \in stays : Before(items, x, y) => Before(left, x, y)
         /\ IsFiniteSet(stays)
         /\ \A S \in SUBSET Range(items) :
                (\A x, y \in S : Before(items, x, y) => Before(left, x, y))
                    => Cardinality(S) <= Cardinality(stays)
    <2> HIDE DEF left, items
    <2> QED
      BY <1>1, LongestIsLongest
  <1>12. ASSUME NEW S \in SUBSET Range(items)
         PROVE  Only(items, S) = Only(ids, S) <=> \A x, y \in S : Before(items, x, y) => Before(left, x, y)
    <2>1. S \subseteq Range(ids) /\ S \subseteq H
      BY <1>1, <1>5
    <2>2. \A x, y \in H : Before(left, x, y) <=> Before(ids, x, y)
      <3> HIDE DEF ids, H
      <3>1. left = Only(ids, H)
        BY DEF Left, ids, H
      <3> QED
        BY <1>5, <3>1, OnlyBefore, OnlyBoth
    <2> HIDE DEF items, ids, left, H
    <2>3. Only(items, S) = Only(ids, S) <=> \A x, y \in S : Before(items, x, y) => Before(ids, x, y)
      BY <1>1, <1>5, <2>1, InOneOrder
    <2> QED
      BY <2>1, <2>2, <2>3
  <1> HIDE DEF left, items, stays, others, deletes, writes, H, moved, waiting, ids, moves
  <1>13. Only(items, stays) = Only(ids, stays) /\ stays \in SUBSET Range(items)
    BY <1>1, <1>11, <1>12
  <1>14. Cardinality(stays) + moves = Len(items) /\ Cardinality(stays) \in Nat /\ moves \in Nat
    BY <1>7, <1>9, <1>10, <1>11, FS_CardinalityType
  <1>15. \A S \in SUBSET Range(items) : Only(items, S) = Only(ids, S) => Cardinality(S) + moves <= Len(items)
    <2> SUFFICES ASSUME NEW S \in SUBSET Range(items), Only(items, S) = Only(ids, S)
                 PROVE  Cardinality(S) + moves <= Len(items)
      OBVIOUS
    <2>1. Cardinality(S) <= Cardinality(stays)
      BY <1>11, <1>12
    <2>2. Cardinality(S) \in Nat
      BY <1>1, <1>8, FS_Subset, FS_CardinalityType
    <2> QED
      BY <1>7, <1>14, <2>1, <2>2
  <1>16. Len(writes) = moves + (Len(read) - Len(items)) + (Len(entries) - Len(items))
    <2>1. Len(read) \in Nat /\ Len(entries) \in Nat /\ Len(deletes) \in Nat
      <3>1. Len(ids) \in Nat /\ Len(deletes) \in Nat
        <4> DEFINE T == WritesOf(V)
        <4>1. deletes \in Seq(T)
          BY <1>3
        <4> HIDE DEF T
        <4> QED
          BY <1>5, <4>1
      <3> QED
        BY <1>5, <3>1 DEF OrdersOf
    <2>2. Len(writes) = Len(deletes) + (moves + (Len(entries) - Len(items)))
      BY <1>4, <1>7, <1>8, <1>10
    <2>3. Len(deletes) + Len(items) = Len(read)
      BY <1>6, <1>7
    <2> QED
      BY <1>7, <1>14, <2>1, <2>2, <2>3
  <1>17. Range(items) = HeldBy(entries)
    BY <1>1 DEF H
  <1> QED
    BY <1>13, <1>14, <1>15, <1>16, <1>17 DEF items, writes, ids, moves

-----------------------------------------------------------------------------
(***************************************************************************)
(* The keys a merge weaves, and the entries it makes of them.              *)
(***************************************************************************)
Merging(base, read, entries, unanswered) ==
    Released(base, read, LandedInsert(base, read, entries, unanswered).entries)
MadeHere(base, read, entries, unanswered) ==
    LandedInsert(base, read, entries, unanswered).madeHere
GoneAt(base, read, merging) ==
    {i \in DOMAIN merging : merging[i].item \in IdsOf(base) \ IdsOf(read)}
Added(base, read, merging, madeHere) ==
    IdsOf(read) \ (HeldBy(merging) \cup IdsOf(base) \cup {madeHere})
Wanted(base, read, merging, madeHere) ==
    {KeysOf(merging)[i] : i \in DOMAIN merging \ GoneAt(base, read, merging)}
        \cup Added(base, read, merging, madeHere)
ByYouTube(base, read, unanswered, sort) ==
    sort = Automatic \/ Reordered(base, read, unanswered)
WovenKeys(base, read, merging, madeHere, byYouTube) ==
    IF byYouTube THEN Weave(ItemIds(read), KeysOf(merging), Wanted(base, read, merging, madeHere))
    ELSE Weave(KeysOf(merging), ItemIds(read), Wanted(base, read, merging, madeHere))

(* The entries of keys: those merging has, and new ones.                    *)
EntriesOf(new, keys, merging, gone, added) ==
    /\ DOMAIN new = DOMAIN keys
    /\ \A n \in DOMAIN keys :
        /\ new[n].item = IF keys[n] > 0 THEN keys[n] ELSE NoItem
        /\ \/ /\ keys[n] \notin added
              /\ \E i \in DOMAIN merging \ gone :
                    keys[n] = Key(merging, i) /\ new[n] = merging[i]
           \/ /\ keys[n] \in added /\ new[n].id = NewEntry
              /\ \A i \in DOMAIN merging : keys[n] # Key(merging, i)

LEMMA MergingKeeps ==
    ASSUME NEW V, NEW base, NEW read \in ItemsOf(V), NEW entries \in OrdersOf(V),
           NEW unanswered, Distinct(entries)
    PROVE  LET merging == Merging(base, read, entries, unanswered)
           IN  /\ merging \in OrdersOf(V) /\ Distinct(merging)
               /\ DOMAIN merging = DOMAIN entries
               /\ \A i \in DOMAIN entries :
                    merging[i].id = entries[i].id /\ merging[i].video = entries[i].video
               /\ HeldBy(merging) \subseteq IdsOf(base) \cup IdsOf(read)
  <1> DEFINE settled == LandedInsert(base, read, entries, unanswered)
             merging == Merging(base, read, entries, unanswered)
  <1>1. /\ settled.entries \in OrdersOf(V) /\ Distinct(settled.entries)
        /\ DOMAIN settled.entries = DOMAIN entries
        /\ \A i \in DOMAIN entries : /\ settled.entries[i].id = entries[i].id
                                     /\ settled.entries[i].video = entries[i].video
    <2>1. /\ settled.entries \in OrdersOf(V)
          /\ Distinct(settled.entries)
          /\ DOMAIN settled.entries = DOMAIN entries
          /\ \A i \in DOMAIN entries :
                /\ settled.entries[i].id = entries[i].id
                /\ settled.entries[i].video = entries[i].video
                /\ \/ settled.entries[i].item = entries[i].item
                   \/ /\ entries[i].item = NoItem
                      /\ settled.entries[i].item \in Fresh(base, read, entries)
      BY LandedKeeps DEF Awaits
    <2> QED
      BY <2>1
  <1> DEFINE list == settled.entries
  <1> HIDE DEF list
  <1>2. /\ Released(base, read, list) \in OrdersOf(V)
        /\ Distinct(Released(base, read, list))
        /\ DOMAIN Released(base, read, list) = DOMAIN list
        /\ \A i \in DOMAIN list :
             /\ Released(base, read, list)[i].id = list[i].id
             /\ Released(base, read, list)[i].video = list[i].video
             /\ Released(base, read, list)[i].item =
                 IF list[i].item \in IdsOf(base) \cup IdsOf(read) THEN list[i].item ELSE NoItem
    <2>1. list \in OrdersOf(V) /\ Distinct(list)
      BY <1>1 DEF list
    <2> QED
      BY <2>1, ReleasedKeeps
  <1>3. merging = Released(base, read, list)
    BY DEF Merging, list
  <1>4. HeldBy(merging) \subseteq IdsOf(base) \cup IdsOf(read)
    BY <1>2, <1>3 DEF HeldBy
  <1> QED
    BY <1>1, <1>2, <1>3, <1>4 DEF list

LEMMA MergedByKeys ==
    ASSUME NEW V, NEW base, NEW read \in ItemsOf(V), NEW entries \in OrdersOf(V),
           NEW unanswered, NEW sort, Distinct(entries)
    PROVE  LET m == Merged(base, read, entries, unanswered, sort)
               merging == Merging(base, read, entries, unanswered)
               madeHere == MadeHere(base, read, entries, unanswered)
               keys == WovenKeys(base, read, merging, madeHere, ByYouTube(base, read, unanswered, sort))
           IN  /\ m.order = IF ByYouTube(base, read, unanswered, sort) THEN "youtube" ELSE "server"
               /\ m.added = Added(base, read, merging, madeHere)
               /\ keys \in Seq(Int) /\ IsInjective(keys)
               /\ Range(keys) = Wanted(base, read, merging, madeHere)
               /\ EntriesOf(m.entries, keys, merging, GoneAt(base, read, merging),
                            Added(base, read, merging, madeHere))
  <1> DEFINE merging == Merging(base, read, entries, unanswered)
             madeHere == MadeHere(base, read, entries, unanswered)
             gone == GoneAt(base, read, merging)
             added == Added(base, read, merging, madeHere)
             serverKeys == KeysOf(merging)
             wanted == Wanted(base, read, merging, madeHere)
             byYouTube == ByYouTube(base, read, unanswered, sort)
             keys == WovenKeys(base, read, merging, madeHere, byYouTube)
             TheEntry(k) ==
                IF \E i \in DOMAIN merging : Key(merging, i) = k
                THEN merging[CHOOSE i \in DOMAIN merging : Key(merging, i) = k]
                ELSE LET item == read[CHOOSE i \in DOMAIN read : read[i].id = k]
                     IN  Entry(NewEntry, item.video, item.id)
             m == Merged(base, read, entries, unanswered, sort)
             new == m.entries
  <1>1. /\ new = [n \in DOMAIN keys |-> TheEntry(keys[n])]
        /\ m.order = IF byYouTube THEN "youtube" ELSE "server"
        /\ m.added = added
    BY DEF Merged, Merging, MadeHere, GoneAt, Added, KeysOf, Wanted, ByYouTube, WovenKeys
  <1>2. merging \in OrdersOf(V) /\ Distinct(merging)
    BY MergingKeeps
  <1> HIDE DEF merging, madeHere
  <1>4. /\ serverKeys \in Seq(Int) /\ IsInjective(serverKeys)
        /\ DOMAIN serverKeys = DOMAIN merging
        /\ \A i \in DOMAIN merging : serverKeys[i] = Key(merging, i)
        /\ \A i, j \in DOMAIN merging : Key(merging, i) = Key(merging, j) => i = j
    BY <1>2, KeysAreDistinct DEF IsInjective, KeysOf
  <1>5. /\ ItemIds(read) \in Seq(Int) /\ IsInjective(ItemIds(read))
        /\ Range(ItemIds(read)) = IdsOf(read)
    BY ItemIdsOf
  <1>6. wanted \subseteq Range(serverKeys) \cup Range(ItemIds(read))
    BY <1>4, <1>5 DEF Range, Wanted, Added
  <1>10. \A x \in wanted : x \in added \/ \E i \in DOMAIN merging \ gone : x = Key(merging, i)
    BY <1>4 DEF Wanted
  <1> HIDE DEF serverKeys, wanted, byYouTube
  <1>7. keys \in Seq(Int) /\ IsInjective(keys) /\ Range(keys) = wanted
    <2>1. CASE byYouTube
      <3>1. keys = Weave(ItemIds(read), serverKeys, wanted)
        BY <2>1 DEF WovenKeys, wanted, serverKeys
      <3> HIDE DEF keys
      <3>2. keys \in Seq(Int) /\ IsInjective(keys)
                /\ Range(keys) = wanted \cap (Range(ItemIds(read)) \cup Range(serverKeys))
        BY <1>4, <1>5, <3>1, WeaveKeeps
      <3> QED
        BY <1>6, <3>2
    <2>2. CASE ~byYouTube
      <3>1. keys = Weave(serverKeys, ItemIds(read), wanted)
        BY <2>2 DEF WovenKeys, wanted, serverKeys
      <3> HIDE DEF keys
      <3>2. keys \in Seq(Int) /\ IsInjective(keys)
                /\ Range(keys) = wanted \cap (Range(serverKeys) \cup Range(ItemIds(read)))
        BY <1>4, <1>5, <3>1, WeaveKeeps
      <3> QED
        BY <1>6, <3>2
    <2> QED
      BY <2>1, <2>2
  <1> HIDE DEF keys
  <1>8. ASSUME NEW i \in DOMAIN merging
        PROVE  /\ TheEntry(Key(merging, i)) = merging[i]
               /\ merging[i].item = IF Key(merging, i) > 0 THEN Key(merging, i) ELSE NoItem
    <2>1. (CHOOSE j \in DOMAIN merging : Key(merging, j) = Key(merging, i)) = i
      BY <1>4
    <2>2. TheEntry(Key(merging, i)) = merging[i]
      BY <2>1
    <2>3. merging[i].item \in Nat /\ i \in Nat \ {0}
      <3>1. merging[i] \in [id : Nat, video : V, item : Nat] /\ i \in 1..Len(merging) /\ Len(merging) \in Nat
        BY <1>2, EntryTyped DEF OrdersOf
      <3> QED
        BY <3>1
    <2>4. merging[i].item = IF Key(merging, i) > 0 THEN Key(merging, i) ELSE NoItem
      BY <2>3 DEF Key, NoItem
    <2> QED
      BY <2>2, <2>4
  <1>9. ASSUME NEW x \in added
        PROVE  /\ x \in Nat \ {0}
               /\ TheEntry(x).id = NewEntry /\ TheEntry(x).item = x
               /\ \A i \in DOMAIN merging : x # Key(merging, i)
    <2>1. x \in IdsOf(read) /\ x \notin HeldBy(merging)
      BY DEF Added
    <2>2. x \in Nat \ {0}
      BY <2>1, ItemIdsOf
    <2>3. \A i \in DOMAIN merging : Key(merging, i) # x
      <3> TAKE i \in DOMAIN merging
      <3>1. Key(merging, i) = x => merging[i].item = x
        BY <1>2, <2>2, KeysAreDistinct
      <3>2. merging[i].item # x
        BY <2>1, <2>2 DEF HeldBy, NoItem
      <3> QED
        BY <3>1, <3>2
    <2> DEFINE at == CHOOSE i \in DOMAIN read : read[i].id = x
    <2>4. \E i \in DOMAIN read : read[i].id = x
      BY <2>1 DEF IdsOf
    <2>5. at \in DOMAIN read /\ read[at].id = x
      BY <2>4
    <2>6. TheEntry(x) = Entry(NewEntry, read[at].video, read[at].id)
      BY <2>3
    <2> HIDE DEF at, TheEntry
    <2> QED
      BY <2>2, <2>3, <2>5, <2>6 DEF Entry, NewEntry
  <1> HIDE DEF TheEntry, added, gone, m
  <1>13. DOMAIN new = DOMAIN keys /\ \A n \in DOMAIN keys : new[n] = TheEntry(keys[n]) /\ keys[n] \in wanted
    BY <1>1, <1>7 DEF Range
  <1> HIDE DEF new
  <1>14. ASSUME NEW n \in DOMAIN keys
         PROVE  /\ new[n].item = IF keys[n] > 0 THEN keys[n] ELSE NoItem
                /\ \/ /\ keys[n] \notin added
                      /\ \E i \in DOMAIN merging \ gone :
                            keys[n] = Key(merging, i) /\ new[n] = merging[i]
                   \/ /\ keys[n] \in added /\ new[n].id = NewEntry
                      /\ \A i \in DOMAIN merging : keys[n] # Key(merging, i)
    <2>1. new[n] = TheEntry(keys[n]) /\ keys[n] \in wanted
      BY <1>13
    <2>2. CASE keys[n] \in added
      <3>1. keys[n] > 0
        BY <1>9, <2>2
      <3> QED
        BY <1>9, <2>1, <2>2, <3>1
    <2>3. CASE keys[n] \notin added
      <3>1. PICK i \in DOMAIN merging \ gone : keys[n] = Key(merging, i)
        BY <1>10, <2>1, <2>3
      <3> QED
        BY <1>8, <2>1, <2>3, <3>1
    <2> QED
      BY <2>2, <2>3
  <1>15. EntriesOf(new, keys, merging, gone, added)
    BY <1>13, <1>14 DEF EntriesOf
  <1> QED
    BY <1>1, <1>7, <1>15 DEF new, m, keys, gone, added, wanted, byYouTube, merging, madeHere

-----------------------------------------------------------------------------
(***************************************************************************)
(* The orders a merge keeps.                                               *)
(***************************************************************************)

(* What of wanted a list has, in that list's order.                         *)
InOrderOf(keys, list, wanted) ==
    \A x, y \in wanted : Before(list, x, y) => Before(keys, x, y)

LEMMA OnlyAll ==
    ASSUME NEW T, NEW list \in Seq(T), IsInjective(list), NEW S, Range(list) \subseteq S
    PROVE  Only(list, S) = list
  <1> DEFINE kept == Only(list, S)
  <1>1. kept \in Seq(T) /\ Range(kept) = Range(list) \cap S /\ IsInjective(kept)
    BY OnlyKeeps
  <1>2. SameOrder(Range(kept), kept, list)
    BY OnlyBefore, BeforeOnce DEF SameOrder
  <1> HIDE DEF kept
  <1>3. kept = list
    BY <1>1, <1>2, SameOrderIsSame
  <1> QED
    BY <1>3 DEF kept

(* What two lists share, when one has it in the other's order.              *)
LEMMA BothInOrder ==
    ASSUME NEW T, NEW a \in Seq(T), NEW b \in Seq(T), IsInjective(a), IsInjective(b),
           InOrderOf(b, a, Range(a) \cap Range(b))
    PROVE  Only(a, Range(b)) = Only(b, Range(a))
  <1> DEFINE c == Only(a, Range(b))
             d == Only(b, Range(a))
  <1>1. c \in Seq(T) /\ Range(c) = Range(a) \cap Range(b) /\ IsInjective(c)
    BY OnlyKeeps
  <1>2. d \in Seq(T) /\ Range(d) = Range(b) \cap Range(a) /\ IsInjective(d)
    BY OnlyKeeps
  <1>3. ASSUME NEW x \in Range(c), NEW y \in Range(c), Before(c, x, y), Before(d, y, x)
        PROVE  FALSE
    <2>1. Before(a, x, y) /\ Before(b, y, x)
      BY <1>3, OnlyBefore
    <2>2. x \in Range(a) \cap Range(b) /\ y \in Range(a) \cap Range(b)
      BY <1>1
    <2>3. Before(b, x, y)
      BY <2>1, <2>2 DEF InOrderOf
    <2> QED
      BY <2>1, <2>3, BeforeOnce
  <1>4. SameOrder(Range(c), c, d)
    BY <1>3 DEF SameOrder
  <1> HIDE DEF c, d
  <1>5. c = d
    BY <1>1, <1>2, <1>4, SameOrderIsSame
  <1> QED
    BY <1>5 DEF c, d

LEMMA OnlyAgree ==
    ASSUME NEW T, NEW a \in Seq(T), NEW b \in Seq(T), NEW S, Only(a, S) = Only(b, S)
    PROVE  InOrderOf(b, a, S)
  <1> SUFFICES ASSUME NEW x \in S, NEW y \in S, Before(a, x, y)
               PROVE  Before(b, x, y)
    BY DEF InOrderOf
  <1>1. Before(Only(b, S), x, y)
    BY OnlyBoth
  <1> QED
    BY <1>1, OnlyBefore

(* A list in the order of another is so in both directions.                 *)
LEMMA InOrderBack ==
    ASSUME NEW T, NEW a \in Seq(T), NEW b \in Seq(T), IsInjective(a), IsInjective(b),
           NEW S, S \subseteq Range(a), InOrderOf(b, a, S)
    PROVE  InOrderOf(a, b, S)
  <1> SUFFICES ASSUME NEW x \in S, NEW y \in S, Before(b, x, y), ~Before(a, x, y)
               PROVE  FALSE
    BY DEF InOrderOf
  <1>1. x # y /\ ~Before(b, y, x)
    BY BeforeOnce
  <1>2. Before(a, y, x)
    BY <1>1, BeforeOrAfter
  <1> QED
    BY <1>1, <1>2 DEF InOrderOf

(* A weave has its primary in order, what only the secondary has after all  *)
(* it followed there, and the secondary in order too if the two agree.      *)
THEOREM WeaveInOrder ==
    ASSUME NEW T, NEW primary \in Seq(T), NEW secondary \in Seq(T), NEW wanted,
           IsInjective(primary), IsInjective(secondary),
           wanted \subseteq Range(primary) \cup Range(secondary)
    PROVE  LET keys == Weave(primary, secondary, wanted)
           IN  /\ keys \in Seq(T) /\ IsInjective(keys) /\ Range(keys) = wanted
               /\ InOrderOf(keys, primary, wanted)
               /\ \A y \in wanted \ Range(primary), x \in wanted :
                    Before(secondary, x, y) => Before(keys, x, y)
               /\ InOrderOf(primary, secondary, wanted \cap Range(primary))
                    => InOrderOf(keys, secondary, wanted)
  <1> DEFINE keys == Weave(primary, secondary, wanted)
  <1>1. /\ keys \in Seq(T) /\ IsInjective(keys)
        /\ Range(keys) = wanted \cap (Range(primary) \cup Range(secondary))
    BY WeaveKeeps
  <1>2. \A x, y \in Range(primary) : Before(keys, x, y) => Before(primary, x, y)
    BY WeaveOrders
  <1>3. \A y \in wanted \ Range(primary), x \in wanted :
            Before(secondary, x, y) => Before(keys, x, y)
    BY WeaveFollows
  <1>4. InOrderOf(primary, secondary, wanted \cap Range(primary))
            => InOrderOf(keys, secondary, wanted)
    BY WeaveAgrees DEF InOrderOf
  <1> HIDE DEF keys
  <1>5. ASSUME NEW x \in wanted, NEW y \in wanted, Before(primary, x, y)
        PROVE  Before(keys, x, y)
    <2>1. x \in Range(primary) /\ y \in Range(primary) /\ x # y /\ ~Before(primary, y, x)
      BY <1>5, BeforeOnce
    <2>2. x \in Range(keys) /\ y \in Range(keys)
      BY <1>1, <2>1
    <2>3. Before(keys, x, y) \/ Before(keys, y, x)
      BY <1>1, <2>1, <2>2, BeforeOrAfter
    <2> QED
      BY <1>2, <2>1, <2>3
  <1> QED
    BY <1>1, <1>3, <1>4, <1>5 DEF keys, InOrderOf

(* The keys a merge weaves, of two lists of keys and the side it goes by.   *)
KeysInOrder(keys, here, there, wanted, byYouTube) ==
    /\ ~byYouTube =>
        /\ InOrderOf(keys, here, wanted)
        /\ \A y \in wanted \ Range(here), x \in wanted :
                Before(there, x, y) => Before(keys, x, y)
    /\ byYouTube =>
        /\ InOrderOf(keys, there, wanted)
        /\ \A y \in wanted \ Range(there), x \in wanted :
                Before(here, x, y) => Before(keys, x, y)
    /\ InOrderOf(there, here, wanted \cap Range(here) \cap Range(there)) =>
            InOrderOf(keys, here, wanted) /\ InOrderOf(keys, there, wanted)

LEMMA WovenInOrder ==
    ASSUME NEW V, NEW base, NEW read \in ItemsOf(V), NEW entries \in OrdersOf(V),
           NEW unanswered, NEW byYouTube, Distinct(entries)
    PROVE  LET merging == Merging(base, read, entries, unanswered)
               madeHere == MadeHere(base, read, entries, unanswered)
               wanted == Wanted(base, read, merging, madeHere)
               keys == WovenKeys(base, read, merging, madeHere, byYouTube)
           IN  /\ keys \in Seq(Int) /\ IsInjective(keys) /\ Range(keys) = wanted
               /\ KeysOf(merging) \in Seq(Int) /\ IsInjective(KeysOf(merging))
               /\ DOMAIN KeysOf(merging) = DOMAIN merging
               /\ \A i \in DOMAIN merging : KeysOf(merging)[i] = Key(merging, i)
               /\ wanted \subseteq Range(KeysOf(merging)) \cup IdsOf(read)
               /\ KeysInOrder(keys, KeysOf(merging), ItemIds(read), wanted, byYouTube)
  <1> DEFINE merging == Merging(base, read, entries, unanswered)
             madeHere == MadeHere(base, read, entries, unanswered)
             wanted == Wanted(base, read, merging, madeHere)
             keys == WovenKeys(base, read, merging, madeHere, byYouTube)
             here == KeysOf(merging)
             there == ItemIds(read)
  <1>1. merging \in OrdersOf(V) /\ Distinct(merging)
    BY MergingKeeps
  <1> HIDE DEF merging, madeHere
  <1>2. /\ here \in Seq(Int) /\ IsInjective(here)
        /\ DOMAIN here = DOMAIN merging
        /\ \A i \in DOMAIN merging : here[i] = Key(merging, i)
    BY <1>1, KeysAreDistinct DEF IsInjective, KeysOf
  <1>3. there \in Seq(Int) /\ IsInjective(there) /\ Range(there) = IdsOf(read)
    BY ItemIdsOf
  <1>4. wanted \subseteq Range(here) \cup Range(there)
    BY <1>2, <1>3 DEF Range, Wanted, Added
  <1>5. keys = IF byYouTube THEN Weave(there, here, wanted) ELSE Weave(here, there, wanted)
    BY DEF WovenKeys
  <1> HIDE DEF wanted, here, there, keys
  <1>6. CASE byYouTube
    <2>1. keys = Weave(there, here, wanted)
      BY <1>5, <1>6
    <2>2. /\ keys \in Seq(Int) /\ IsInjective(keys) /\ Range(keys) = wanted
          /\ InOrderOf(keys, there, wanted)
          /\ \A y \in wanted \ Range(there), x \in wanted :
                Before(here, x, y) => Before(keys, x, y)
          /\ InOrderOf(there, here, wanted \cap Range(there)) => InOrderOf(keys, here, wanted)
      BY <1>2, <1>3, <1>4, <2>1, WeaveInOrder
    <2>3. InOrderOf(there, here, wanted \cap Range(here) \cap Range(there))
            => InOrderOf(there, here, wanted \cap Range(there))
      BY <1>2, BeforeOnce DEF InOrderOf
    <2> QED
      BY <1>2, <1>3, <1>4, <1>6, <2>2, <2>3
         DEF KeysInOrder, merging, madeHere, wanted, keys, here, there
  <1>7. CASE ~byYouTube
    <2>1. keys = Weave(here, there, wanted)
      BY <1>5, <1>7
    <2> DEFINE woven == Weave(here, there, wanted)
    <2>4. wanted \subseteq Range(here) \cup Range(there)
      BY <1>3, <1>4
    <2>2. /\ woven \in Seq(Int) /\ IsInjective(woven) /\ Range(woven) = wanted
          /\ InOrderOf(woven, here, wanted)
          /\ \A y \in wanted \ Range(here), x \in wanted :
                Before(there, x, y) => Before(woven, x, y)
          /\ InOrderOf(here, there, wanted \cap Range(here)) => InOrderOf(woven, there, wanted)
      BY <1>2, <1>3, <2>4, WeaveInOrder
    <2> HIDE DEF woven
    <2>5. keys = woven
      BY <2>1 DEF woven
    <2>3. ASSUME InOrderOf(there, here, wanted \cap Range(here) \cap Range(there))
          PROVE  InOrderOf(here, there, wanted \cap Range(here))
      <3>1. InOrderOf(here, there, wanted \cap Range(here) \cap Range(there))
        BY <1>2, <1>3, <2>3, InOrderBack
      <3> QED
        BY <1>3, <3>1, BeforeOnce DEF InOrderOf
    <2> QED
      BY <1>2, <1>3, <1>4, <1>7, <2>2, <2>3, <2>5
         DEF KeysInOrder, merging, madeHere, wanted, keys, here, there
  <1> QED
    BY <1>6, <1>7

(* The ids of an order's entries, and the items they hold.                  *)
LEMMA EntryIdsList ==
    ASSUME NEW V, NEW list \in OrdersOf(V), Distinct(list), NewEntry \notin IdsOf(list)
    PROVE  /\ ItemIds(list) \in Seq(Int) /\ IsInjective(ItemIds(list))
           /\ Range(ItemIds(list)) = IdsOf(list) /\ DOMAIN ItemIds(list) = DOMAIN list
           /\ Len(ItemIds(list)) = Len(list)
  <1> DEFINE ids == ItemIds(list)
  <1>1. Len(list) \in Nat /\ DOMAIN list = 1..Len(list)
    BY DEF OrdersOf
  <1>2. \A i \in DOMAIN list : list[i].id \in Int
    <2>1. \A i \in DOMAIN list : list[i].id \in Nat
      BY EntryTyped
    <2> QED
      BY <2>1
  <1>3. ids \in Seq(Int) /\ DOMAIN ids = DOMAIN list /\ \A i \in DOMAIN list : ids[i] = list[i].id
    BY <1>1, <1>2 DEF ItemIds
  <1>4. \A i, j \in DOMAIN list : list[i].id = list[j].id => i = j
    BY DEF Distinct, IdsOf
  <1>5. Range(ids) = IdsOf(list)
    BY <1>3 DEF Range, IdsOf
  <1> HIDE DEF ids
  <1>6. IsInjective(ids)
    BY <1>3, <1>4 DEF IsInjective
  <1>7. Len(ids) = Len(list)
    BY <1>1, <1>3
  <1> QED
    BY <1>3, <1>5, <1>6, <1>7 DEF ids

LEMMA HeldInOrder ==
    ASSUME NEW V, NEW list \in OrdersOf(V), Distinct(list)
    PROVE  LET items == Only(ItemsOfEntries(list), HeldBy(list))
           IN  /\ items \in Seq(Int) /\ IsInjective(items) /\ Range(items) = HeldBy(list)
               /\ HeldBy(list) \subseteq Nat \ {0}
               /\ \A i, j \in DOMAIN list :
                    i < j /\ list[i].item # NoItem /\ list[j].item # NoItem
                        => Before(items, list[i].item, list[j].item)
  <1> DEFINE all == ItemsOfEntries(list)
             items == Only(all, HeldBy(list))
  <1>1. Len(list) \in Nat /\ DOMAIN list = 1..Len(list)
    BY DEF OrdersOf
  <1>2. \A i \in DOMAIN list : list[i].item \in Nat /\ list[i].item \in Int
    <2>1. \A i \in DOMAIN list : list[i].item \in Nat
      BY EntryTyped
    <2> QED
      BY <2>1
  <1>3. /\ all \in Seq(Int) /\ DOMAIN all = DOMAIN list
        /\ \A i \in DOMAIN list : all[i] = list[i].item
    BY <1>1, <1>2 DEF ItemsOfEntries
  <1> HIDE DEF all
  <1>4. \A i, j \in DOMAIN all : all[i] \in HeldBy(list) /\ all[i] = all[j] => i = j
    BY SMTT(30), <1>3 DEF Distinct, HeldBy
  <1>5. HeldBy(list) \subseteq Range(all)
    BY <1>3 DEF HeldBy, Range
  <1>6. items \in Seq(Int) /\ IsInjective(items) /\ Range(items) = HeldBy(list)
    <2>1. /\ items \in Seq(Int) /\ Range(items) = Range(all) \cap HeldBy(list)
          /\ (\A i, j \in DOMAIN all : all[i] \in HeldBy(list) /\ all[i] = all[j] => i = j)
                => IsInjective(items)
      BY <1>3, OnlyKeeps
    <2> QED
      BY <1>4, <1>5, <2>1
  <1>7. ASSUME NEW i \in DOMAIN list, NEW j \in DOMAIN list,
               i < j, list[i].item # NoItem, list[j].item # NoItem
        PROVE  Before(items, list[i].item, list[j].item)
    <2>1. list[i].item \in HeldBy(list) /\ list[j].item \in HeldBy(list)
      BY <1>7 DEF HeldBy
    <2>2. Before(all, list[i].item, list[j].item)
      BY <1>3, <1>7 DEF Before
    <2> QED
      BY <1>3, <2>1, <2>2, OnlyBoth
  <1>8. HeldBy(list) \subseteq Nat \ {0}
    BY <1>2 DEF HeldBy, NoItem
  <1> QED
    BY <1>6, <1>7, <1>8 DEF items, all

(* The items held are the keys above 0, in their order.                     *)
LEMMA ItemsByKeys ==
    ASSUME NEW V, NEW list \in OrdersOf(V), Distinct(list),
           NEW keys \in Seq(Int), DOMAIN list = DOMAIN keys,
           \A n \in DOMAIN keys : list[n].item = IF keys[n] > 0 THEN keys[n] ELSE NoItem
    PROVE  LET items == Only(ItemsOfEntries(list), HeldBy(list))
           IN  /\ HeldBy(list) = {k \in Range(keys) : k > 0}
               /\ InOrderOf(items, keys, HeldBy(list))
  <1> DEFINE items == Only(ItemsOfEntries(list), HeldBy(list))
  <1>1. DOMAIN keys = 1..Len(keys) /\ Len(keys) \in Nat /\ \A n \in DOMAIN keys : keys[n] \in Int
    OBVIOUS
  <1>2. \A i, j \in DOMAIN list : i < j /\ list[i].item # NoItem /\ list[j].item # NoItem
                => Before(items, list[i].item, list[j].item)
    BY HeldInOrder
  <1>3. ASSUME NEW k \in HeldBy(list)
        PROVE  k \in Range(keys) /\ k > 0
    <2>1. PICK n \in DOMAIN list : list[n].item = k /\ k # NoItem
      BY DEF HeldBy
    <2>2. keys[n] > 0 /\ keys[n] = k
      BY <2>1
    <2> QED
      BY <2>2 DEF Range
  <1>4. ASSUME NEW k \in Range(keys), k > 0
        PROVE  k \in HeldBy(list)
    <2>1. PICK n \in DOMAIN keys : keys[n] = k
      BY DEF Range
    <2>2. list[n].item = k /\ k # NoItem
      BY <1>4, <2>1 DEF NoItem
    <2> QED
      BY <2>2 DEF HeldBy
  <1> HIDE DEF items
  <1>5. ASSUME NEW x \in HeldBy(list), NEW y \in HeldBy(list), Before(keys, x, y)
        PROVE  Before(items, x, y)
    <2>1. PICK i \in DOMAIN keys, j \in DOMAIN keys : i < j /\ keys[i] = x /\ keys[j] = y
      BY <1>5 DEF Before
    <2>2. x > 0 /\ y > 0
      BY <1>3
    <2>3. list[i].item = x /\ list[j].item = y /\ x # NoItem /\ y # NoItem
      BY <2>1, <2>2 DEF NoItem
    <2> QED
      BY <1>2, <2>1, <2>3
  <1>6. HeldBy(list) = {k \in Range(keys) : k > 0}
    BY <1>3, <1>4
  <1> QED
    BY <1>5, <1>6 DEF InOrderOf, items

(* The merged entries, the new ones with ids of their own.                  *)
NumberedAs(list, new, entries) ==
    /\ DOMAIN list = DOMAIN new
    /\ \A n \in DOMAIN new :
        /\ list[n].item = new[n].item
        /\ new[n].id # NewEntry => list[n].id = new[n].id
        /\ new[n].id = NewEntry => list[n].id \notin IdsOf(entries)

LEMMA IdsByKeys ==
    ASSUME NEW V, NEW merging \in OrdersOf(V), Distinct(merging), NewEntry \notin IdsOf(merging),
           NEW keys \in Seq(Int), NEW gone, NEW added, NEW new,
           EntriesOf(new, keys, merging, gone, added),
           NEW list, NumberedAs(list, new, merging)
    PROVE  LET here == KeysOf(merging)
           IN  /\ \A i \in DOMAIN merging, n \in DOMAIN list :
                    merging[i].id = list[n].id <=> here[i] = keys[n]
               /\ \A i \in DOMAIN merging :
                    merging[i].id \in IdsOf(list) <=> here[i] \in Range(keys)
               /\ \A i, j \in DOMAIN merging :
                    Before(keys, here[i], here[j])
                        => Before(ItemIds(list), merging[i].id, merging[j].id)
  <1> DEFINE here == KeysOf(merging)
  <1>1. /\ \A i \in DOMAIN merging : here[i] = Key(merging, i)
        /\ \A i, j \in DOMAIN merging : here[i] = here[j] => i = j
    BY KeysAreDistinct DEF KeysOf
  <1>2. /\ DOMAIN new = DOMAIN keys /\ DOMAIN list = DOMAIN keys
        /\ \A n \in DOMAIN keys :
            \/ \E i \in DOMAIN merging : keys[n] = here[i] /\ new[n] = merging[i]
            \/ new[n].id = NewEntry /\ \A i \in DOMAIN merging : keys[n] # here[i]
    BY <1>1 DEF EntriesOf, NumberedAs
  <1>3. \A i \in DOMAIN merging : merging[i].id # NewEntry
    BY DEF IdsOf
  <1> HIDE DEF here
  <1>4. ASSUME NEW i \in DOMAIN merging, NEW n \in DOMAIN keys, here[i] = keys[n]
        PROVE  merging[i].id = list[n].id
    <2>1. new[n] = merging[i]
      BY <1>1, <1>2, <1>4
    <2> QED
      BY <1>2, <1>3, <2>1 DEF NumberedAs
  <1>5. ASSUME NEW i \in DOMAIN merging, NEW n \in DOMAIN keys, merging[i].id = list[n].id
        PROVE  here[i] = keys[n]
    <2>1. new[n].id # NewEntry
      BY <1>2, <1>5 DEF NumberedAs, IdsOf
    <2>2. PICK j \in DOMAIN merging : keys[n] = here[j] /\ new[n] = merging[j]
      BY <1>2, <2>1
    <2>3. merging[j].id = merging[i].id
      BY <1>2, <1>5, <2>1, <2>2 DEF NumberedAs
    <2>4. j = i
      BY <1>3, <2>3 DEF Distinct
    <2> QED
      BY <2>2, <2>4
  <1>6. ASSUME NEW i \in DOMAIN merging
        PROVE  merging[i].id \in IdsOf(list) <=> here[i] \in Range(keys)
    BY SMTT(30), <1>2, <1>4, <1>5 DEF IdsOf, Range
  <1>7. ASSUME NEW i \in DOMAIN merging, NEW j \in DOMAIN merging,
               Before(keys, here[i], here[j])
        PROVE  Before(ItemIds(list), merging[i].id, merging[j].id)
    <2>1. PICK m \in DOMAIN keys, n \in DOMAIN keys :
                m < n /\ keys[m] = here[i] /\ keys[n] = here[j]
      BY <1>7 DEF Before
    <2>2. list[m].id = merging[i].id /\ list[n].id = merging[j].id
      BY <1>4, <2>1
    <2> QED
      BY <1>2, <2>1, <2>2 DEF Before, ItemIds
  <1> QED
    BY <1>2, <1>4, <1>5, <1>6, <1>7 DEF here

(* What a merge keeps of the order of one side, when its keys keep it.      *)
LEMMA IdsInOrder ==
    ASSUME NEW V, NEW merging \in OrdersOf(V), Distinct(merging), NewEntry \notin IdsOf(merging),
           NEW keys \in Seq(Int), NEW gone, NEW added, NEW new,
           EntriesOf(new, keys, merging, gone, added),
           NEW list \in OrdersOf(V), Distinct(list), NewEntry \notin IdsOf(list),
           NumberedAs(list, new, merging),
           InOrderOf(keys, KeysOf(merging), Range(keys))
    PROVE  Only(ItemIds(merging), Range(ItemIds(list))) = Only(ItemIds(list), IdsOf(merging))
  <1> DEFINE here == KeysOf(merging)
             a == ItemIds(merging)
             b == ItemIds(list)
  <1>1. /\ DOMAIN here = DOMAIN merging
        /\ a \in Seq(Int) /\ IsInjective(a) /\ Range(a) = IdsOf(merging)
        /\ DOMAIN a = DOMAIN merging /\ \A i \in DOMAIN merging : a[i] = merging[i].id
        /\ b \in Seq(Int) /\ IsInjective(b) /\ Range(b) = IdsOf(list)
    BY EntryIdsList DEF KeysOf, ItemIds
  <1>2. /\ \A i \in DOMAIN merging :
                    merging[i].id \in IdsOf(list) <=> here[i] \in Range(keys)
        /\ \A i, j \in DOMAIN merging :
                    Before(keys, here[i], here[j]) => Before(b, merging[i].id, merging[j].id)
    BY IdsByKeys
  <1> HIDE DEF here, a, b
  <1>3. ASSUME NEW x \in Range(a) \cap Range(b), NEW y \in Range(a) \cap Range(b), Before(a, x, y)
        PROVE  Before(b, x, y)
    <2>1. PICK i \in DOMAIN merging, j \in DOMAIN merging : i < j /\ a[i] = x /\ a[j] = y
      BY <1>1, <1>3 DEF Before
    <2>2. here[i] \in Range(keys) /\ here[j] \in Range(keys)
      BY <1>1, <1>2, <2>1
    <2>3. Before(here, here[i], here[j])
      BY <1>1, <2>1 DEF Before
    <2>4. Before(keys, here[i], here[j])
      BY <2>2, <2>3 DEF InOrderOf, here
    <2> QED
      BY <1>1, <1>2, <2>1, <2>4
  <1>4. InOrderOf(b, a, Range(a) \cap Range(b))
    BY <1>3 DEF InOrderOf
  <1>5. Only(a, Range(b)) = Only(b, Range(a))
    <2>1. a \in Seq(Int) /\ b \in Seq(Int) /\ IsInjective(a) /\ IsInjective(b)
      BY <1>1
    <2> QED
      BY <1>4, <2>1, BothInOrder
  <1> QED
    BY <1>1, <1>5 DEF a, b

LEMMA ItemsInOrder ==
    ASSUME NEW V, NEW list \in OrdersOf(V), Distinct(list),
           NEW keys \in Seq(Int), DOMAIN list = DOMAIN keys,
           \A n \in DOMAIN keys : list[n].item = IF keys[n] > 0 THEN keys[n] ELSE NoItem,
           NEW read \in ItemsOf(V), HeldBy(list) \subseteq IdsOf(read),
           InOrderOf(keys, ItemIds(read), Range(keys))
    PROVE  Only(ItemIds(read), HeldBy(list)) = Only(ItemsOfEntries(list), HeldBy(list))
  <1> DEFINE items == Only(ItemsOfEntries(list), HeldBy(list))
             there == ItemIds(read)
  <1>1. items \in Seq(Int) /\ IsInjective(items) /\ Range(items) = HeldBy(list)
    BY HeldInOrder
  <1>2. there \in Seq(Int) /\ IsInjective(there) /\ Range(there) = IdsOf(read)
    BY ItemIdsOf
  <1>3. HeldBy(list) = {k \in Range(keys) : k > 0} /\ InOrderOf(items, keys, HeldBy(list))
    BY ItemsByKeys
  <1> HIDE DEF items
  <1>4. InOrderOf(items, there, Range(there) \cap Range(items))
    <2> SUFFICES ASSUME NEW x \in HeldBy(list), NEW y \in HeldBy(list), Before(there, x, y)
                 PROVE  Before(items, x, y)
      BY <1>1, <1>2 DEF InOrderOf
    <2>1. Before(keys, x, y)
      BY <1>3 DEF InOrderOf
    <2> QED
      BY <1>3, <2>1 DEF InOrderOf
  <1>5. Only(there, Range(items)) = Only(items, Range(there))
    <2>1. there \in Seq(Int) /\ items \in Seq(Int) /\ IsInjective(there) /\ IsInjective(items)
      BY <1>1, <1>2
    <2> HIDE DEF there
    <2> QED
      BY <1>4, <2>1, BothInOrder
  <1>6. Only(items, Range(there)) = items
    <2>1. items \in Seq(Int) /\ IsInjective(items) /\ Range(items) \subseteq Range(there)
      BY <1>1, <1>2
    <2> HIDE DEF there
    <2> QED
      BY <2>1, OnlyAll
  <1> QED
    BY <1>1, <1>5, <1>6 DEF items

(* What only the other side has follows there what it followed.             *)
LEMMA ItemsFollow ==
    ASSUME NEW V, NEW list \in OrdersOf(V), Distinct(list),
           NEW keys \in Seq(Int), DOMAIN list = DOMAIN keys,
           \A n \in DOMAIN keys : list[n].item = IF keys[n] > 0 THEN keys[n] ELSE NoItem,
           NEW there, NEW new,
           \A y \in new, x \in Range(keys) : Before(there, x, y) => Before(keys, x, y)
    PROVE  LET items == Only(ItemsOfEntries(list), HeldBy(list))
           IN  \A i, j \in DOMAIN there :
                    i < j /\ there[j] \in new /\ {there[i], there[j]} \subseteq Range(items) =>
                        PlaceIn(items, there[i]) < PlaceIn(items, there[j])
  <1> DEFINE items == Only(ItemsOfEntries(list), HeldBy(list))
  <1>1. items \in Seq(Int) /\ IsInjective(items) /\ Range(items) = HeldBy(list)
    BY HeldInOrder
  <1>2. HeldBy(list) = {k \in Range(keys) : k > 0} /\ InOrderOf(items, keys, HeldBy(list))
    BY ItemsByKeys
  <1> HIDE DEF items
  <1>3. ASSUME NEW i \in DOMAIN there, NEW j \in DOMAIN there,
               i < j, there[j] \in new, {there[i], there[j]} \subseteq Range(items)
        PROVE  PlaceIn(items, there[i]) < PlaceIn(items, there[j])
    <2>1. Before(there, there[i], there[j])
      BY <1>3 DEF Before
    <2>2. there[i] \in HeldBy(list) /\ there[j] \in HeldBy(list) /\ there[i] \in Range(keys)
      BY <1>1, <1>2, <1>3
    <2>3. Before(keys, there[i], there[j])
      BY <1>3, <2>1, <2>2
    <2>4. Before(items, there[i], there[j])
      BY <1>2, <2>2, <2>3 DEF InOrderOf
    <2> QED
      BY <1>1, <1>3, <2>4, PlacedBefore
  <1> QED
    BY <1>3 DEF items

LEMMA IdsFollow ==
    ASSUME NEW V, NEW merging \in OrdersOf(V), Distinct(merging), NewEntry \notin IdsOf(merging),
           NEW keys \in Seq(Int), NEW gone, NEW added, NEW new,
           EntriesOf(new, keys, merging, gone, added),
           NEW list \in OrdersOf(V), Distinct(list), NewEntry \notin IdsOf(list),
           NumberedAs(list, new, merging),
           NEW there, \A k \in Range(there) : k > 0,
           \A y \in Range(keys) \ Range(there), x \in Range(keys) :
                Before(KeysOf(merging), x, y) => Before(keys, x, y)
    PROVE  LET ids == ItemIds(merging)
               after == ItemIds(list)
               waiting == {e.id : e \in {x \in Range(list) : x.item = NoItem}}
           IN  \A i, j \in DOMAIN ids :
                    i < j /\ ids[j] \in waiting /\ {ids[i], ids[j]} \subseteq Range(after) =>
                        PlaceIn(after, ids[i]) < PlaceIn(after, ids[j])
  <1> DEFINE here == KeysOf(merging)
             ids == ItemIds(merging)
             after == ItemIds(list)
             waiting == {e.id : e \in {x \in Range(list) : x.item = NoItem}}
  <1>1. /\ DOMAIN here = DOMAIN merging
        /\ DOMAIN ids = DOMAIN merging /\ \A i \in DOMAIN merging : ids[i] = merging[i].id
        /\ after \in Seq(Int) /\ IsInjective(after) /\ Range(after) = IdsOf(list)
    BY EntryIdsList DEF KeysOf, ItemIds
  <1>2. /\ \A i \in DOMAIN merging, n \in DOMAIN list :
                    merging[i].id = list[n].id <=> here[i] = keys[n]
        /\ \A i \in DOMAIN merging :
                    merging[i].id \in IdsOf(list) <=> here[i] \in Range(keys)
        /\ \A i, j \in DOMAIN merging :
                    Before(keys, here[i], here[j]) => Before(after, merging[i].id, merging[j].id)
    BY IdsByKeys
  <1>3. /\ DOMAIN list = DOMAIN keys
        /\ \A n \in DOMAIN keys : list[n].item = IF keys[n] > 0 THEN keys[n] ELSE NoItem
    BY DEF EntriesOf, NumberedAs
  <1>4. \A x \in waiting : \E n \in DOMAIN list : x = list[n].id /\ list[n].item = NoItem
    BY DEF Range
  <1> HIDE DEF here, ids, after, waiting
  <1>5. ASSUME NEW i \in DOMAIN merging, NEW j \in DOMAIN merging,
               i < j, ids[j] \in waiting, {ids[i], ids[j]} \subseteq Range(after)
        PROVE  PlaceIn(after, ids[i]) < PlaceIn(after, ids[j])
    <2>1. PICK n \in DOMAIN list : ids[j] = list[n].id /\ list[n].item = NoItem
      BY <1>4, <1>5
    <2>2. here[j] = keys[n]
      BY <1>1, <1>2, <2>1
    <2>3. ~(keys[n] > 0)
      <3>1. keys[n] > 0 => list[n].item = keys[n]
        BY <1>3
      <3> QED
        BY <2>1, <3>1 DEF NoItem
    <2>4. here[i] \in Range(keys) /\ here[j] \in Range(keys) \ Range(there)
      BY <1>1, <1>2, <1>5, <2>2, <2>3
    <2>5. Before(here, here[i], here[j])
      BY <1>1, <1>5 DEF Before
    <2>6. Before(keys, here[i], here[j])
      BY <2>4, <2>5 DEF here
    <2>7. Before(after, ids[i], ids[j])
      BY <1>1, <1>2, <2>6
    <2> QED
      BY <1>1, <1>5, <2>7, PlacedBefore
  <1> QED
    BY <1>1, <1>5 DEF ids, after, waiting

(* Sides that agree about the items both hold agree about their keys.       *)
LEMMA AgreeKeys ==
    ASSUME NEW V, NEW base, NEW read \in ItemsOf(V), NEW entries \in OrdersOf(V),
           Distinct(entries), NEW S,
           LET shared == HeldBy(entries) \cap IdsOf(read)
           IN  Only(Only(ItemsOfEntries(entries), HeldBy(entries)), shared)
                    = Only(ItemIds(read), shared)
    PROVE  LET here == KeysOf(Released(base, read, entries))
           IN  InOrderOf(ItemIds(read), here, S \cap Range(here) \cap Range(ItemIds(read)))
  <1> DEFINE merging == Released(base, read, entries)
             here == KeysOf(merging)
             there == ItemIds(read)
             items == Only(ItemsOfEntries(entries), HeldBy(entries))
             shared == HeldBy(entries) \cap IdsOf(read)
  <1>1. /\ merging \in OrdersOf(V) /\ Distinct(merging) /\ DOMAIN merging = DOMAIN entries
        /\ \A i \in DOMAIN entries : merging[i].item =
                IF entries[i].item \in IdsOf(base) \cup IdsOf(read) THEN entries[i].item ELSE NoItem
    BY ReleasedKeeps
  <1>2. there \in Seq(Int) /\ Range(there) = IdsOf(read) /\ IdsOf(read) \subseteq Nat \ {0}
    BY ItemIdsOf
  <1>3. /\ items \in Seq(Int)
        /\ \A i, j \in DOMAIN entries : i < j /\ entries[i].item # NoItem /\ entries[j].item # NoItem
                        => Before(items, entries[i].item, entries[j].item)
    BY HeldInOrder
  <1>4. Only(items, shared) = Only(there, shared)
    OBVIOUS
  <1> HIDE DEF merging, items, shared, there
  <1>5. InOrderOf(there, items, shared)
    BY <1>2, <1>3, <1>4, OnlyAgree
  <1>6. /\ DOMAIN here = DOMAIN merging
        /\ \A i \in DOMAIN merging : here[i] \in Nat \ {0} => here[i] = merging[i].item
    BY <1>1, KeysAreDistinct DEF KeysOf
  <1> HIDE DEF here
  <1>7. ASSUME NEW x \in IdsOf(read), NEW y \in IdsOf(read), Before(here, x, y)
        PROVE  Before(there, x, y)
    <2>1. PICK i \in DOMAIN merging, j \in DOMAIN merging : i < j /\ here[i] = x /\ here[j] = y
      BY <1>6, <1>7 DEF Before
    <2>2. x # NoItem /\ y # NoItem /\ merging[i].item = x /\ merging[j].item = y
      BY <1>2, <1>6, <2>1 DEF NoItem
    <2>3. entries[i].item = x /\ entries[j].item = y
      BY <1>1, <2>2
    <2>4. Before(items, x, y)
      BY <1>1, <1>3, <2>1, <2>2, <2>3
    <2>5. x \in shared /\ y \in shared
      BY <1>1, <2>2, <2>3 DEF shared, HeldBy
    <2> QED
      BY <1>5, <2>4, <2>5 DEF InOrderOf
  <1> QED
    BY <1>2, <1>7 DEF InOrderOf, here, there, merging

-----------------------------------------------------------------------------
(* What an entry merges as: itself, without an item nobody has, or with the *)
(* one its insert made.                                                     *)
LEMMA MergingItems ==
    ASSUME NEW V, NEW base, NEW read \in ItemsOf(V), NEW entries \in OrdersOf(V),
           NEW unanswered, Distinct(entries)
    PROVE  LET merging == Merging(base, read, entries, unanswered)
               madeHere == MadeHere(base, read, entries, unanswered)
           IN  /\ \A i \in DOMAIN entries :
                    \/ /\ entries[i].item \in IdsOf(base) \cup IdsOf(read)
                       /\ merging[i].item = entries[i].item
                    \/ /\ entries[i].item \notin IdsOf(base) \cup IdsOf(read)
                       /\ merging[i].item = NoItem
                    \/ /\ entries[i].item = NoItem
                       /\ merging[i].item \in IdsOf(read) \ IdsOf(base)
               /\ \/ madeHere = NoItem
                  \/ /\ madeHere \in IdsOf(read) \ IdsOf(base)
                     /\ madeHere \notin HeldBy(merging)
  <1> DEFINE settled == LandedInsert(base, read, entries, unanswered)
             merging == Merging(base, read, entries, unanswered)
             madeHere == MadeHere(base, read, entries, unanswered)
             list == settled.entries
  <1>1. /\ list \in OrdersOf(V)
        /\ Distinct(list)
        /\ DOMAIN list = DOMAIN entries
        /\ \A i \in DOMAIN entries :
            /\ list[i].id = entries[i].id
            /\ list[i].video = entries[i].video
            /\ \/ list[i].item = entries[i].item
               \/ /\ Awaits(entries, i, unanswered)
                  /\ list[i].item \in Fresh(base, read, entries)
        /\ \/ settled.madeHere = NoItem
           \/ /\ settled.madeHere \in Fresh(base, read, entries)
              /\ unanswered.kind \in {"insert", "append"}
              /\ \A i \in DOMAIN entries : ~Awaits(entries, i, unanswered)
    <2>1. /\ settled.entries \in OrdersOf(V)
          /\ Distinct(settled.entries)
          /\ DOMAIN settled.entries = DOMAIN entries
          /\ \A i \in DOMAIN entries :
              /\ settled.entries[i].id = entries[i].id
              /\ settled.entries[i].video = entries[i].video
              /\ \/ settled.entries[i].item = entries[i].item
                 \/ /\ Awaits(entries, i, unanswered)
                    /\ settled.entries[i].item \in Fresh(base, read, entries)
          /\ \/ settled.madeHere = NoItem
             \/ /\ settled.madeHere \in Fresh(base, read, entries)
                /\ unanswered.kind \in {"insert", "append"}
                /\ \A i \in DOMAIN entries : ~Awaits(entries, i, unanswered)
      BY LandedKeeps DEF Awaits
    <2> QED
      BY <2>1
  <1>2. madeHere = settled.madeHere /\ merging = Released(base, read, list)
    BY DEF MadeHere, Merging
  <1> HIDE DEF list, settled, merging, madeHere
  <1>3. /\ DOMAIN merging = DOMAIN entries
        /\ \A i \in DOMAIN entries : merging[i].item =
                IF list[i].item \in IdsOf(base) \cup IdsOf(read) THEN list[i].item ELSE NoItem
    BY <1>1, <1>2, ReleasedKeeps
  <1>4. ASSUME NEW i \in DOMAIN entries
        PROVE  \/ /\ entries[i].item \in IdsOf(base) \cup IdsOf(read)
                  /\ merging[i].item = entries[i].item
               \/ /\ entries[i].item \notin IdsOf(base) \cup IdsOf(read)
                  /\ merging[i].item = NoItem
               \/ /\ entries[i].item = NoItem
                  /\ merging[i].item \in IdsOf(read) \ IdsOf(base)
    <2>1. CASE list[i].item = entries[i].item
      BY <1>3, <2>1
    <2>2. CASE Awaits(entries, i, unanswered) /\ list[i].item \in Fresh(base, read, entries)
      <3>1. entries[i].item = NoItem /\ list[i].item \in IdsOf(read) \ IdsOf(base)
        BY <2>2 DEF Awaits, Fresh
      <3> QED
        BY <1>3, <3>1
    <2> QED
      BY <1>1, <2>1, <2>2
  <1>5. ASSUME madeHere # NoItem
        PROVE  madeHere \in IdsOf(read) \ IdsOf(base) /\ madeHere \notin HeldBy(merging)
    <2>1. /\ madeHere \in Fresh(base, read, entries)
          /\ \A i \in DOMAIN entries : list[i].item = entries[i].item
      BY <1>1, <1>2, <1>5
    <2>2. ASSUME NEW i \in DOMAIN entries
          PROVE  merging[i].item \in {NoItem, entries[i].item}
      BY <1>3, <2>1
    <2>3. HeldBy(merging) \subseteq HeldBy(entries)
      BY <1>3, <2>2 DEF HeldBy
    <2> QED
      BY <2>1, <2>3 DEF Fresh
  <1> QED
    BY <1>4, <1>5 DEF merging, madeHere

(* The items a merge holds are those the base and an entry have that        *)
(* YouTube still does, and those YouTube has beside the base but for the    *)
(* one made here; an entry goes only with an item of the base that is gone. *)
LEMMA HeldByMerge ==
    ASSUME NEW V, NEW base, NEW read \in ItemsOf(V), NEW entries \in OrdersOf(V),
           NEW unanswered, NEW sort, Distinct(entries), NoItem \notin IdsOf(base)
    PROVE  LET held == HeldBy(Merged(base, read, entries, unanswered, sort).entries)
               merging == Merging(base, read, entries, unanswered)
               madeHere == MadeHere(base, read, entries, unanswered)
               added == IdsOf(read) \ IdsOf(base)
           IN  /\ held \cap IdsOf(base) = HeldBy(entries) \cap IdsOf(base) \cap IdsOf(read)
               /\ held \cap added = added \ {madeHere}
               /\ \A i \in DOMAIN entries :
                    KeysOf(merging)[i] \in Wanted(base, read, merging, madeHere)
                        <=> entries[i].item \notin IdsOf(base) \ IdsOf(read)
  <1> DEFINE m == Merged(base, read, entries, unanswered, sort)
             new == m.entries
             held == HeldBy(new)
             merging == Merging(base, read, entries, unanswered)
             madeHere == MadeHere(base, read, entries, unanswered)
             gone == GoneAt(base, read, merging)
             added == Added(base, read, merging, madeHere)
             wanted == Wanted(base, read, merging, madeHere)
             here == KeysOf(merging)
             B == IdsOf(base)
             R == IdsOf(read)
             byYouTube == ByYouTube(base, read, unanswered, sort)
             keys == WovenKeys(base, read, merging, madeHere, byYouTube)
  <1>1. /\ keys \in Seq(Int) /\ IsInjective(keys) /\ Range(keys) = wanted
        /\ EntriesOf(new, keys, merging, gone, added)
    BY MergedByKeys
  <1>2. new \in OrdersOf(V) /\ Distinct(new)
    BY MergedKeeps
  <1>3. merging \in OrdersOf(V) /\ Distinct(merging) /\ DOMAIN merging = DOMAIN entries
    BY MergingKeeps
  <1>4. /\ \A i \in DOMAIN entries :
            \/ entries[i].item \in B \cup R /\ merging[i].item = entries[i].item
            \/ entries[i].item \notin B \cup R /\ merging[i].item = NoItem
            \/ entries[i].item = NoItem /\ merging[i].item \in R \ B
        /\ \/ madeHere = NoItem
           \/ madeHere \in R \ B /\ madeHere \notin HeldBy(merging)
    BY MergingItems
  <1>5. R \subseteq Nat \ {0} /\ NoItem \notin R
    BY ItemIdsOf
  <1> HIDE DEF merging, madeHere, m, byYouTube
  <1>6. /\ DOMAIN here = DOMAIN merging
        /\ \A i \in DOMAIN merging : here[i] = Key(merging, i)
        /\ \A i, j \in DOMAIN merging : here[i] = here[j] => i = j
        /\ \A i \in DOMAIN merging : merging[i].item # NoItem => here[i] = merging[i].item
        /\ \A i \in DOMAIN merging : here[i] \in Nat \ {0} => here[i] = merging[i].item
        /\ \A i \in DOMAIN merging : here[i] \in Int
    BY <1>3, KeysAreDistinct DEF KeysOf
  <1> HIDE DEF here, new, keys
  <1>7. held = {k \in wanted : k > 0} /\ held \subseteq Nat \ {0}
    <2>1. /\ DOMAIN new = DOMAIN keys
          /\ \A n \in DOMAIN keys : new[n].item = IF keys[n] > 0 THEN keys[n] ELSE NoItem
      BY <1>1 DEF EntriesOf
    <2>2. held = {k \in Range(keys) : k > 0}
      BY <1>1, <1>2, <2>1, ItemsByKeys
    <2>3. held \subseteq Nat \ {0}
      BY <1>2, HeldInOrder
    <2> QED
      BY <1>1, <2>2, <2>3
  <1>8. wanted = {here[i] : i \in DOMAIN merging \ gone} \cup added
    BY DEF Wanted, here
  <1>9. /\ gone = {i \in DOMAIN merging : merging[i].item \in B \ R}
        /\ added = R \ (HeldBy(merging) \cup B \cup {madeHere})
    BY DEF GoneAt, Added
  <1> HIDE DEF wanted, held, gone, added
  <1>10. ASSUME NEW i \in DOMAIN merging, here[i] \in added
         PROVE  FALSE
    <2>1. here[i] \in Nat \ {0}
      BY <1>5, <1>9, <1>10
    <2>2. here[i] = merging[i].item /\ merging[i].item # NoItem
      BY <1>6, <2>1 DEF NoItem
    <2>3. here[i] \in HeldBy(merging)
      BY <2>2 DEF HeldBy
    <2> QED
      BY <1>9, <1>10, <2>3
  <1>11. \A k : k \in held <=> \/ k \in added
                               \/ /\ k # NoItem
                                  /\ \E i \in DOMAIN merging \ gone : merging[i].item = k
    <2> TAKE k
    <2>1. ASSUME k \in held, k \notin added
          PROVE  k # NoItem /\ \E i \in DOMAIN merging \ gone : merging[i].item = k
      <3>1. PICK i \in DOMAIN merging \ gone : here[i] = k
        BY <1>7, <1>8, <2>1
      <3>2. here[i] \in Nat \ {0}
        BY <1>7, <2>1, <3>1
      <3> QED
        BY <1>6, <3>1, <3>2 DEF NoItem
    <2>2. ASSUME k \in added PROVE k \in held
      <3>1. k > 0
        BY <1>5, <1>9, <2>2
      <3> QED
        BY <1>7, <1>8, <2>2, <3>1
    <2>3. ASSUME k # NoItem, NEW i \in DOMAIN merging \ gone, merging[i].item = k
          PROVE  k \in held
      <3>1. here[i] = k
        BY <1>6, <2>3
      <3>2. merging[i].item \in Nat
        BY <1>3, EntryTyped
      <3>3. k > 0
        BY <2>3, <3>2 DEF NoItem
      <3> QED
        BY <1>7, <1>8, <3>1, <3>3
    <2> QED
      BY <2>1, <2>2, <2>3
  <1>12. ASSUME NEW k \in held \cap B
         PROVE  k \in HeldBy(entries) \cap B \cap R
    <2>1. PICK i \in DOMAIN merging \ gone : merging[i].item = k /\ k # NoItem
      BY <1>9, <1>11
    <2>2. k \in R
      BY <1>9, <2>1
    <2>3. entries[i].item = k
      BY <1>3, <1>4, <2>1
    <2> QED
      BY <1>3, <2>1, <2>2, <2>3 DEF HeldBy
  <1>13. ASSUME NEW k \in HeldBy(entries) \cap B \cap R
         PROVE  k \in held \cap B
    <2>1. PICK i \in DOMAIN entries : entries[i].item = k /\ k # NoItem
      BY DEF HeldBy
    <2>2. merging[i].item = k
      BY <1>4, <2>1
    <2>3. i \in DOMAIN merging \ gone
      BY <1>3, <1>9, <2>2
    <2> QED
      BY <1>11, <2>1, <2>2, <2>3
  <1>14. ASSUME NEW k \in R \ B
         PROVE  k \in held <=> k # madeHere
    <2>1. ASSUME k \in held, k = madeHere PROVE FALSE
      <3>1. k # NoItem
        BY <1>5
      <3>2. k \notin HeldBy(merging)
        BY <1>4, <2>1, <3>1
      <3>3. PICK i \in DOMAIN merging \ gone : merging[i].item = k
        BY <1>9, <1>11, <2>1
      <3> QED
        BY <3>1, <3>2, <3>3 DEF HeldBy
    <2>2. ASSUME k # madeHere PROVE k \in held
      <3>1. CASE k \in HeldBy(merging)
        <4>1. PICK i \in DOMAIN merging : merging[i].item = k /\ k # NoItem
          BY <3>1 DEF HeldBy
        <4>2. i \notin gone
          BY <1>9, <4>1
        <4> QED
          BY <1>11, <4>1, <4>2
      <3>2. CASE k \notin HeldBy(merging)
        <4>1. k \in added
          BY <1>9, <2>2, <3>2
        <4> QED
          BY <1>11, <4>1
      <3> QED
        BY <3>1, <3>2
    <2> QED
      BY <2>1, <2>2
  <1>15. ASSUME NEW i \in DOMAIN entries
         PROVE  here[i] \in wanted <=> entries[i].item \notin B \ R
    <2>1. here[i] \in wanted <=> i \notin gone
      BY <1>3, <1>6, <1>8, <1>10
    <2>2. merging[i].item \in B \ R <=> entries[i].item \in B \ R
      BY <1>4
    <2> QED
      BY <1>3, <1>9, <2>1, <2>2
  <1>16. held \cap B = HeldBy(entries) \cap B \cap R /\ held \cap (R \ B) = (R \ B) \ {madeHere}
    BY <1>12, <1>13, <1>14
  <1> QED
    BY <1>15, <1>16 DEF held, new, m, merging, madeHere, here, wanted

(* When an item is taken for one made here.                                 *)
LEMMA MadeHereWhen ==
    ASSUME NEW V, NEW base, NEW read \in ItemsOf(V), NEW entries \in OrdersOf(V), NEW unanswered
    PROVE  MadeHere(base, read, entries, unanswered) # NoItem <=>
                /\ Landed(base, read, entries, unanswered) # {}
                /\ \A i \in DOMAIN entries :
                    ~(entries[i].id = unanswered.entry /\ entries[i].item = NoItem)
  <1> DEFINE landed == Landed(base, read, entries, unanswered)
             made == read[Min(landed)].id
             waiting == {i \in DOMAIN entries :
                            entries[i].id = unanswered.entry /\ entries[i].item = NoItem}
             here == MadeHere(base, read, entries, unanswered)
  <1>1. landed # {} => made # NoItem
    <2> SUFFICES ASSUME landed # {} PROVE made # NoItem
      OBVIOUS
    <2>1. DOMAIN read = 1..Len(read) /\ Len(read) \in Nat
      BY DEF ItemsOf
    <2>2. landed \in SUBSET (1..Len(read))
      BY <2>1 DEF Landed
    <2>3. Min(landed) \in landed
      BY <2>1, <2>2, MinOfSome
    <2>4. made \in Nat \ {0}
      BY <2>1, <2>2, <2>3, ItemTyped
    <2> QED
      BY <2>4 DEF NoItem
  <1>2. /\ landed = {} => here = NoItem
        /\ landed # {} /\ waiting = {} => here = made
        /\ landed # {} /\ waiting # {} => here = NoItem
    BY DEF MadeHere, LandedInsert
  <1> HIDE DEF made, landed, here
  <1>3. here # NoItem <=> landed # {} /\ waiting = {}
    BY <1>1, <1>2
  <1> QED
    BY <1>3 DEF landed, here

LEMMA NothingLanded ==
    ASSUME NEW base, NEW read, NEW entries, NEW unanswered,
           unanswered.kind \notin {"insert", "append"}
    PROVE  /\ Merging(base, read, entries, unanswered) = Released(base, read, entries)
           /\ MadeHere(base, read, entries, unanswered) = NoItem
  <1>1. Landed(base, read, entries, unanswered) = {}
    BY DEF Landed
  <1>2. LandedInsert(base, read, entries, unanswered) = [entries |-> entries, madeHere |-> NoItem]
    BY <1>1 DEF LandedInsert
  <1> QED
    BY <1>2 DEF Merging, MadeHere

LEMMA NothingReleased ==
    ASSUME NEW V, NEW base, NEW read, NEW entries \in OrdersOf(V),
           HeldBy(entries) \subseteq IdsOf(base) \cup IdsOf(read)
    PROVE  Released(base, read, entries) = entries
  <1> DEFINE T == [id : Nat, video : V, item : Nat]
             merging == Released(base, read, entries)
  <1>1. entries = [i \in DOMAIN entries |-> entries[i]]
    BY DEF OrdersOf
  <1>2. ASSUME NEW i \in DOMAIN entries
        PROVE  merging[i] = entries[i]
    <2>1. CASE entries[i].item \in IdsOf(base) \cup IdsOf(read)
      BY <2>1 DEF Released
    <2>2. CASE entries[i].item \notin IdsOf(base) \cup IdsOf(read)
      <3>1. entries[i].item = NoItem
        BY <2>2 DEF HeldBy
      <3>2. merging[i] = [entries[i] EXCEPT !.item = NoItem]
        BY <2>2 DEF Released
      <3>3. entries[i] \in T
        BY EntryTyped
      <3> DEFINE e == entries[i]
      <3>4. e \in T /\ e.item = NoItem
        BY <3>1, <3>3
      <3>5. [e EXCEPT !.item = NoItem] = e
        <4> HIDE DEF e
        <4> QED
          BY <3>4
      <3> QED
        BY <3>2, <3>5
    <2> QED
      BY <2>1, <2>2
  <1>3. merging = [i \in DOMAIN entries |-> merging[i]]
    BY DEF Released
  <1> QED
    BY <1>1, <1>2, <1>3

(* Two lists with the same keys, one of them in the other's order.          *)
LEMMA InOrderIsSame ==
    ASSUME NEW T, NEW a \in Seq(T), NEW b \in Seq(T), IsInjective(a), IsInjective(b),
           Range(a) = Range(b), InOrderOf(a, b, Range(a))
    PROVE  a = b
  <1>1. ASSUME NEW x \in Range(a), NEW y \in Range(a), Before(a, x, y), Before(b, y, x)
        PROVE  FALSE
    <2>1. Before(a, y, x)
      BY <1>1 DEF InOrderOf
    <2> QED
      BY <1>1, <2>1, BeforeOnce
  <1>2. SameOrder(Range(a), a, b)
    BY <1>1 DEF SameOrder
  <1> QED
    BY <1>2, SameOrderIsSame

(* A merge that weaves the entries' own keys in their order leaves them as   *)
(* they are.                                                                *)
LEMMA SameKeysSameEntries ==
    ASSUME NEW V, NEW entries \in OrdersOf(V), Distinct(entries),
           NEW keys \in Seq(Int), IsInjective(keys), NEW gone, NEW new, NEW n \in Nat,
           EntriesOf(new, keys, entries, gone, {}), DOMAIN new = 1..n,
           new = [i \in 1..n |-> new[i]],
           Range(keys) = Range(KeysOf(entries)), InOrderOf(keys, KeysOf(entries), Range(keys))
    PROVE  new = entries
  <1> DEFINE here == KeysOf(entries)
  <1>1. /\ here \in Seq(Int) /\ DOMAIN here = DOMAIN entries
        /\ \A i \in DOMAIN entries : here[i] = Key(entries, i)
        /\ \A i, j \in DOMAIN entries : here[i] = here[j] => i = j
    BY KeysAreDistinct DEF KeysOf
  <1> HIDE DEF here
  <1>2. IsInjective(here)
    BY <1>1 DEF IsInjective
  <1>3. keys = here
    BY <1>1, <1>2, InOrderIsSame DEF here
  <1>4. DOMAIN new = DOMAIN entries
    BY <1>1, <1>3 DEF EntriesOf
  <1>5. ASSUME NEW k \in DOMAIN entries
        PROVE  new[k] = entries[k]
    <2>1. PICK i \in DOMAIN entries : keys[k] = Key(entries, i) /\ new[k] = entries[i]
      BY <1>3, <1>4, <1>5 DEF EntriesOf
    <2>2. i = k
      BY <1>1, <1>3, <2>1
    <2> QED
      BY <2>1, <2>2
  <1>6. entries = [k \in DOMAIN entries |-> entries[k]]
    BY DEF OrdersOf
  <1> QED
    BY <1>4, <1>5, <1>6

(* A merge with the read as the base leaves entries of its items alone.      *)
LEMMA MergeOfSame ==
    ASSUME NEW V, NEW base, NEW read \in ItemsOf(V), NEW entries \in OrdersOf(V),
           NEW unanswered, NEW sort, Distinct(entries),
           unanswered.kind \notin {"insert", "append"},
           ItemIds(read) = ItemIds(base), HeldBy(entries) \subseteq IdsOf(read),
           sort = Automatic =>
                InOrderOf(ItemIds(read), KeysOf(entries), HeldBy(entries))
    PROVE  /\ Merged(base, read, entries, unanswered, sort).entries = entries
           /\ ~Reordered(base, read, unanswered)
  <1> DEFINE m == Merged(base, read, entries, unanswered, sort)
             new == m.entries
             merging == Merging(base, read, entries, unanswered)
             madeHere == MadeHere(base, read, entries, unanswered)
             byYouTube == ByYouTube(base, read, unanswered, sort)
             gone == GoneAt(base, read, merging)
             added == Added(base, read, merging, madeHere)
             wanted == Wanted(base, read, merging, madeHere)
             keys == WovenKeys(base, read, merging, madeHere, byYouTube)
             here == KeysOf(entries)
             there == ItemIds(read)
  <1>1. IdsOf(base) = IdsOf(read)
    <2>1. Range(ItemIds(base)) = IdsOf(base) /\ Range(ItemIds(read)) = IdsOf(read)
      BY DEF Range, ItemIds, IdsOf
    <2> QED
      BY <2>1
  <1>2. ~Reordered(base, read, unanswered)
    BY DEF Reordered
  <1>3. merging = entries
    BY <1>1, NothingLanded, NothingReleased
  <1>4. /\ keys \in Seq(Int) /\ IsInjective(keys) /\ Range(keys) = wanted
        /\ EntriesOf(new, keys, merging, gone, added)
    BY MergedByKeys
  <1>5. /\ KeysOf(merging) \in Seq(Int)
        /\ DOMAIN KeysOf(merging) = DOMAIN merging
        /\ \A i \in DOMAIN merging : KeysOf(merging)[i] = Key(merging, i)
        /\ KeysInOrder(keys, KeysOf(merging), ItemIds(read), wanted, byYouTube)
    <2> HIDE DEF byYouTube
    <2>1. /\ keys \in Seq(Int) /\ IsInjective(keys) /\ Range(keys) = wanted
          /\ KeysOf(merging) \in Seq(Int) /\ IsInjective(KeysOf(merging))
          /\ DOMAIN KeysOf(merging) = DOMAIN merging
          /\ \A i \in DOMAIN merging : KeysOf(merging)[i] = Key(merging, i)
          /\ wanted \subseteq Range(KeysOf(merging)) \cup IdsOf(read)
          /\ KeysInOrder(keys, KeysOf(merging), ItemIds(read), wanted, byYouTube)
      BY WovenInOrder
    <2> QED
      BY <2>1
  <1>6. byYouTube => sort = Automatic
    BY <1>2 DEF ByYouTube
  <1>7. gone = {} /\ added = {}
    BY <1>1 DEF GoneAt, Added
  <1>8. \E n \in Nat : DOMAIN new = 1..n /\ new = [i \in 1..n |-> new[i]]
    <2>3. NoItem \notin IdsOf(base)
      BY <1>1, ItemIdsOf
    <2>1. new \in OrdersOf(V)
      BY <2>3, MergedKeeps
    <2> HIDE DEF new
    <2>2. Len(new) \in Nat /\ DOMAIN new = 1..Len(new) /\ new = [i \in 1..Len(new) |-> new[i]]
      BY <2>1 DEF OrdersOf
    <2> QED
      BY <2>2
  <1> HIDE DEF m, new, keys, byYouTube
  <1>9. wanted = Range(here)
    <2>1. wanted = {KeysOf(merging)[i] : i \in DOMAIN merging}
      BY <1>7 DEF Wanted
    <2> QED
      BY <1>3, <1>5, <2>1 DEF Range
  <1>10. there \in Seq(Int) /\ Range(there) = IdsOf(read) /\ IdsOf(read) \subseteq Nat \ {0}
    BY ItemIdsOf
  <1>11. /\ DOMAIN here = DOMAIN entries
         /\ \A i \in DOMAIN entries : here[i] \in Nat \ {0} => here[i] = entries[i].item
    BY KeysAreDistinct DEF KeysOf
  <1>12. Range(here) \cap Range(there) \subseteq HeldBy(entries)
    <2> SUFFICES ASSUME NEW k \in Range(here), k \in Range(there)
                 PROVE  k \in HeldBy(entries)
      OBVIOUS
    <2>1. PICK i \in DOMAIN entries : here[i] = k
      BY <1>11 DEF Range
    <2>2. k \in Nat \ {0}
      BY <1>10
    <2> HIDE DEF here
    <2>3. entries[i].item = k /\ k # NoItem
      BY <1>11, <2>1, <2>2 DEF NoItem
    <2> QED
      BY <2>3 DEF HeldBy
  <1>13. InOrderOf(keys, here, wanted)
    <2>1. CASE sort = Automatic
      <3>1. InOrderOf(there, here, wanted \cap Range(here) \cap Range(there))
        BY <1>12, <2>1 DEF InOrderOf
      <3> HIDE DEF wanted, here, there
      <3> QED
        BY <1>3, <1>5, <3>1 DEF KeysInOrder, here, there
    <2>2. CASE sort # Automatic
      BY <1>3, <1>5, <1>6, <2>2 DEF KeysInOrder
    <2> QED
      BY <2>1, <2>2
  <1>14. new = entries
    <2>1. EntriesOf(new, keys, entries, gone, {})
      BY <1>3, <1>4, <1>7
    <2> HIDE DEF here, wanted, gone
    <2>2. Range(keys) = Range(here) /\ InOrderOf(keys, here, Range(keys))
      BY <1>4, <1>9, <1>13
    <2> QED
      BY <1>4, <1>8, <2>1, <2>2, SameKeysSameEntries DEF here
  <1> QED
    BY <1>2, <1>14 DEF new, m

-----------------------------------------------------------------------------
(***************************************************************************)
(* A plan made where its push has ended.                                   *)
(***************************************************************************)
LEMMA NoWrites ==
    ASSUME NEW T, NEW plan \in Seq(T), Len(plan) = 0
    PROVE  plan = <<>>
  OBVIOUS

LEMMA NoneListed ==
    ASSUME NEW T, NEW list \in Seq(T), Range(list) = {}
    PROVE  list = <<>>
  <1>1. DOMAIN list = {}
    BY DEF Range
  <1>2. Len(list) \in Nat /\ DOMAIN list = 1..Len(list)
    OBVIOUS
  <1>3. Len(list) = 0
    BY <1>1, <1>2
  <1> QED
    BY <1>3

LEMMA NothingMapped ==
    ASSUME NEW f, DOMAIN f = {}, f = [i \in DOMAIN f |-> f[i]]
    PROVE  f = <<>>
  <1>1. f \in [1..0 -> {}]
    OBVIOUS
  <1>2. f \in Seq({}) /\ Len(f) = 0
    BY <1>1
  <1> QED
    BY <1>2

LEMMA PlanOfReached ==
    ASSUME NEW V, NEW read \in ItemsOf(V), NEW entries \in OrdersOf(V), Distinct(entries),
           NewEntry \notin IdsOf(entries), ItemsOfEntries(entries) = ItemIds(read)
    PROVE  Plan(read, entries) = <<>>
  <1> DEFINE all == ItemIds(read)
             held == HeldBy(entries)
             items == Only(ItemsOfEntries(entries), held)
             plan == Plan(read, entries)
             moves == Cardinality({i \in DOMAIN plan : plan[i].kind = "move"})
             InOrder(S) == Only(items, S) = Only(all, S)
  <1>1. /\ all \in Seq(Int) /\ IsInjective(all) /\ Range(all) = IdsOf(read)
        /\ Len(all) = Len(read) /\ NoItem \notin IdsOf(read)
    BY ItemIdsOf
  <1>2. held = IdsOf(read)
    <2>1. Range(ItemsOfEntries(entries)) = IdsOf(read)
      BY <1>1
    <2>2. Range(ItemsOfEntries(entries)) = {entries[i].item : i \in DOMAIN entries}
      BY DEF Range, ItemsOfEntries
    <2> QED
      BY <1>1, <2>1, <2>2 DEF HeldBy
  <1>3. Len(entries) = Len(read)
    <2>1. DOMAIN entries = 1..Len(entries) /\ Len(entries) \in Nat
      BY DEF OrdersOf
    <2>2. DOMAIN all = 1..Len(all) /\ Len(all) \in Nat
      BY <1>1
    <2>3. DOMAIN all = DOMAIN entries
      BY DEF ItemsOfEntries
    <2> HIDE DEF all
    <2>4. entries \in Seq([id : Nat, video : V, item : Nat])
      BY DEF OrdersOf
    <2>5. DOMAIN entries = 1..Len(all) /\ Len(all) \in Nat
      BY <2>2, <2>3
    <2>6. Len(entries) = Len(all)
      BY <2>4, <2>5
    <2> QED
      BY <1>1, <2>6
  <1>4. items = all
    BY <1>1, <1>2, OnlyAll
  <1>5. /\ Range(items) = held /\ moves \in Nat
        /\ \A S \in SUBSET Range(items) : InOrder(S) => Cardinality(S) + moves <= Len(items)
        /\ Len(plan) = moves + (Len(read) - Len(items)) + (Len(entries) - Len(items))
    <2>1. held \subseteq IdsOf(read)
      BY <1>2
    <2>2. LET list == Only(ItemsOfEntries(entries), HeldBy(entries))
              writes == Plan(read, entries)
              count == Cardinality({i \in DOMAIN writes : writes[i].kind = "move"})
              Ordered(S) == Only(list, S) = Only(ItemIds(read), S)
          IN  /\ Range(list) = HeldBy(entries) /\ count \in Nat
              /\ \E S \in SUBSET Range(list) : Ordered(S) /\ Cardinality(S) + count = Len(list)
              /\ \A S \in SUBSET Range(list) : Ordered(S) => Cardinality(S) + count <= Len(list)
              /\ Len(writes) = count + (Len(read) - Len(list)) + (Len(entries) - Len(list))
      BY <2>1, PlanIsFewest
    <2> QED
      BY <2>2
  <1>6. InOrder(Range(items))
    BY <1>4
  <1>7. Cardinality(Range(items)) = Len(items) /\ Len(items) = Len(read) /\ Len(read) \in Nat
    <2>1. Cardinality(Range(all)) = Len(all) /\ Len(all) \in Nat
      BY <1>1, LengthIsCount
    <2> QED
      BY <1>1, <1>4, <2>1
  <1>8. Planned(V, read, entries, PlanFor(Manual, read, entries))
    BY <1>2, PlanForKeeps
  <1>9. \E T : plan \in Seq(T)
    BY <1>8 DEF Planned, PlanFor
  <1> HIDE DEF items, plan, moves
  <1>10. Cardinality(Range(items)) + moves <= Len(items)
    BY <1>5, <1>6
  <1>11. Len(plan) = 0
    BY <1>3, <1>5, <1>7, <1>10
  <1> QED
    BY <1>9, <1>11, NoWrites DEF plan

LEMMA AppendsOfReached ==
    ASSUME NEW V, NEW read \in ItemsOf(V), NEW entries \in OrdersOf(V),
           HeldBy(entries) = IdsOf(read), \A i \in DOMAIN entries : entries[i].item # NoItem
    PROVE  PlanAppends(read, entries) = <<>>
  <1> DEFINE lost == Only(ItemIds(read), IdsOf(read) \ HeldBy(entries))
             waiting == Only(entries, {e \in Range(entries) : e.item = NoItem})
             T == [id : Nat, video : V, item : Nat]
  <1>1. lost = <<>>
    <2>1. ItemIds(read) \in Seq(Int)
      BY ItemIdsOf
    <2>2. lost \in Seq(Int) /\ Range(lost) = {}
      <3>1. /\ lost \in Seq(Int)
            /\ Range(lost) = Range(ItemIds(read)) \cap (IdsOf(read) \ HeldBy(entries))
        BY <2>1, OnlyKeeps
      <3> QED
        BY <3>1
    <2> HIDE DEF lost
    <2> QED
      BY <2>2, NoneListed
  <1>2. waiting = <<>>
    <2>1. entries \in Seq(T)
      BY DEF OrdersOf
    <2>2. {e \in Range(entries) : e.item = NoItem} = {}
      BY DEF Range
    <2> HIDE DEF T
    <2>3. waiting \in Seq(T) /\ Range(waiting) = {}
      <3>1. /\ waiting \in Seq(T)
            /\ Range(waiting) = Range(entries) \cap {e \in Range(entries) : e.item = NoItem}
        BY <2>1, OnlyKeeps
      <3> QED
        BY <2>2, <3>1
    <2> HIDE DEF waiting
    <2> QED
      BY <2>3, NoneListed
  <1>3. Deletes(read, entries) = <<>>
    <2> DEFINE deletes == Deletes(read, entries)
    <2>1. deletes = [i \in DOMAIN lost |-> deletes[i]] /\ DOMAIN deletes = DOMAIN lost
      BY DEF Deletes
    <2> HIDE DEF deletes, lost
    <2>2. DOMAIN lost = {}
      BY <1>1
    <2>3. deletes = <<>>
      BY <2>1, <2>2, NothingMapped
    <2> QED
      BY <2>3 DEF deletes
  <1> DEFINE appends == [i \in DOMAIN waiting |->
                            Write("append", NoItem, waiting[i].id, waiting[i].video, 0)]
  <1>4. appends = <<>>
    <2>1. appends = [i \in DOMAIN waiting |-> appends[i]] /\ DOMAIN appends = DOMAIN waiting
      OBVIOUS
    <2> HIDE DEF appends, waiting
    <2>2. DOMAIN waiting = {}
      BY <1>2
    <2> QED
      BY <2>1, <2>2, NothingMapped
  <1>5. PlanAppends(read, entries) = Deletes(read, entries) \o appends
    BY DEF PlanAppends
  <1> HIDE DEF appends
  <1> QED
    BY <1>3, <1>4, <1>5

(* The keys of entries are their items, and 0 or less for those without.    *)
LEMMA ItemsOfKeys ==
    ASSUME NEW V, NEW list \in OrdersOf(V), Distinct(list)
    PROVE  LET keys == KeysOf(list)
           IN  /\ keys \in Seq(Int) /\ DOMAIN list = DOMAIN keys
               /\ \A n \in DOMAIN keys :
                    list[n].item = IF keys[n] > 0 THEN keys[n] ELSE NoItem
  <1> DEFINE keys == KeysOf(list)
  <1>1. DOMAIN keys = DOMAIN list /\ \A n \in DOMAIN list : keys[n] = Key(list, n)
    BY DEF KeysOf
  <1>2. keys \in Seq(Int)
    BY KeysAreDistinct DEF KeysOf
  <1>3. ASSUME NEW n \in DOMAIN list
        PROVE  list[n].item = IF Key(list, n) > 0 THEN Key(list, n) ELSE NoItem
    <2>1. list[n].item \in Nat
      BY EntryTyped
    <2>2. n \in Nat /\ n > 0
      BY DEF OrdersOf
    <2>3. CASE list[n].item = NoItem
      <3>1. Key(list, n) = -n /\ ~(-n > 0)
        BY <2>2, <2>3 DEF Key
      <3> QED
        BY <2>3, <3>1
    <2>4. CASE list[n].item # NoItem
      <3>1. Key(list, n) = list[n].item /\ list[n].item > 0
        BY <2>1, <2>4 DEF Key, NoItem
      <3> QED
        BY <3>1
    <2> QED
      BY <2>3, <2>4
  <1> QED
    BY <1>1, <1>2, <1>3
=============================================================================

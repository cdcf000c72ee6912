----------------------------- MODULE FilterLemmas -----------------------------
(* Lemmas about the filter of a sequence, for the proofs about the models    *)
(* that filter: windows of a rate limit, timestamps of a connection, the     *)
(* connections of a broadcast.                                               *)
EXTENDS Filtering, SequenceTheorems, FiniteSetTheorems, TLAPS

---------------------------------------------------------------------------
(* Induction and minima over sets of naturals.                             *)

\* A set of naturals that is not empty has a least element.
LEMMA LeastNatural ==
  ASSUME NEW S \in SUBSET Nat, S # {}
  PROVE  \E k \in S : \A j \in S : k <= j
<1>1. PICK k \in S : \A j \in S : ~(<<j, k>> \in OpToRel(<, Nat))
  BY NatLessThanWellFounded, WFMin
<1>2. \A j \in Nat : j < k => <<j, k>> \in OpToRel(<, Nat)
  BY <1>1 DEF OpToRel
<1>3. \A j \in S : ~(j < k)
  BY <1>1, <1>2, Zenon
<1>4. \A j \in S : k <= j
  <2>1. S \subseteq Nat
    OBVIOUS
  <2>. QED  BY <1>3, <2>1
<1>. QED  BY <1>4

\* A set with 0, and with every successor of its naturals, holds every natural.
LEMMA SetInduction ==
  ASSUME NEW S, 0 \in S, \A n \in Nat : n \in S => n + 1 \in S
  PROVE  Nat \subseteq S
<1>. SUFFICES ASSUME Nat \ S # {} PROVE FALSE
  OBVIOUS
<1>1. PICK k \in Nat \ S : \A j \in Nat \ S : k <= j
  BY LeastNatural
<1>2. k # 0 /\ k - 1 \in Nat
  BY <1>1
<1>3. k - 1 \in S
  BY <1>1, <1>2
<1>. QED  BY <1>1, <1>2, <1>3

---------------------------------------------------------------------------
(* The recursive function is what its equation says.                       *)

\* The recursive definition of the sieve of a sequence determines a function.
LEMMA SieveDef ==
  ASSUME NEW A, NEW s \in Seq(A), NEW keep
  PROVE  /\ Sieve(s, keep)[0] = <<>>
         /\ \A n \in 1..Len(s) : Sieve(s, keep)[n] =
              IF s[n] \in keep THEN Append(Sieve(s, keep)[n - 1], s[n]) ELSE Sieve(s, keep)[n - 1]
<1>. DEFINE L == Len(s)
            Step(f, m) == f = [n \in 0..m |-> IF n = 0 THEN <<>>
                                ELSE IF s[n] \in keep THEN Append(f[n - 1], s[n]) ELSE f[n - 1]]
            S == {m \in Nat : \E f : Step(f, m)}
<1>1. L \in Nat
  BY LenProperties
<1>2. 0 \in S
  <2>1. Step([n \in 0..0 |-> <<>>], 0)
    OBVIOUS
  <2>. QED  BY <2>1
<1>3. ASSUME NEW m \in Nat, m \in S PROVE m + 1 \in S
  <2>1. PICK f : Step(f, m)
    BY <1>3
  <2>. DEFINE last == IF s[m + 1] \in keep THEN Append(f[m], s[m + 1]) ELSE f[m]
              g == [n \in 0..m + 1 |-> IF n = m + 1 THEN last ELSE f[n]]
  <2>2. ASSUME NEW n \in 0..m + 1
        PROVE  g[n] = IF n = 0 THEN <<>>
                      ELSE IF s[n] \in keep THEN Append(g[n - 1], s[n]) ELSE g[n - 1]
    <3>1. CASE n = m + 1
      <4>1. g[n] = last /\ g[n - 1] = f[m] /\ n # 0
        BY <3>1
      <4>. QED  BY <3>1, <4>1
    <3>2. CASE n # m + 1
      <4>1. n \in 0..m /\ g[n] = f[n]
        BY <3>2
      <4>2. n # 0 => g[n - 1] = f[n - 1]
        BY <3>2
      <4>3. f[n] = IF n = 0 THEN <<>>
                   ELSE IF s[n] \in keep THEN Append(f[n - 1], s[n]) ELSE f[n - 1]
        BY <2>1, <4>1
      <4>. QED  BY <4>1, <4>2, <4>3
    <3>. QED  BY <3>1, <3>2
  <2>3. Step(g, m + 1)
    <3>1. g = [n \in 0..m + 1 |-> g[n]]
      OBVIOUS
    <3>. HIDE DEF g
    <3>. QED  BY <2>2, <3>1
  <2>4. \E h : Step(h, m + 1)
    <3>. HIDE DEF Step, g
    <3>. QED  BY <2>3
  <2>. HIDE DEF Step
  <2>. QED  BY <2>4
<1>4. L \in S
  <2>. HIDE DEF S
  <2>. QED  BY <1>1, <1>2, <1>3, SetInduction
<1>5. PICK f : Step(f, L)
  BY <1>4
<1>6. Step(Sieve(s, keep), L)
  BY <1>5 DEF Sieve
<1>7. PICK h : h = Sieve(s, keep)
  OBVIOUS
<1>8. h = [n \in 0..L |-> IF n = 0 THEN <<>>
                          ELSE IF s[n] \in keep THEN Append(h[n - 1], s[n]) ELSE h[n - 1]]
  BY <1>6, <1>7
<1>9. h[0] = <<>> /\ \A n \in 1..L : h[n] = IF s[n] \in keep THEN Append(h[n - 1], s[n]) ELSE h[n - 1]
  <2>1. \A n \in 0..L : h[n] = IF n = 0 THEN <<>>
                          ELSE IF s[n] \in keep THEN Append(h[n - 1], s[n]) ELSE h[n - 1]
    BY <1>8, Zenon
  <2>. QED  BY <1>1, <2>1
<1>. QED  BY <1>7, <1>9

---------------------------------------------------------------------------
(* What a filter keeps.                                                    *)

\* The first n elements are filtered to elements in keep, no more than n of them.
LEMMA SieveType ==
  ASSUME NEW A, NEW s \in Seq(A), NEW keep, NEW n \in 0..Len(s)
  PROVE  Sieve(s, keep)[n] \in Seq(A \cap keep) /\ Len(Sieve(s, keep)[n]) <= n
<1>. DEFINE sv == Sieve(s, keep)
            OK(m) == sv[m] \in Seq(A \cap keep) /\ Len(sv[m]) <= m
            S == {m \in Nat : m <= Len(s) => OK(m)}
<1>1. Len(s) \in Nat
  BY LenProperties
<1>2. 0 \in S
  <2>1. sv[0] = <<>>
    BY SieveDef
  <2>2. <<>> \in Seq(A \cap keep) /\ Len(<<>>) = 0
    BY EmptySeq
  <2>3. OK(0)
    <3>. HIDE DEF sv
    <3>. QED  BY <2>1, <2>2
  <2>. HIDE DEF OK
  <2>. QED  BY <2>3
<1>3. ASSUME NEW m \in Nat, m \in S PROVE m + 1 \in S
  <2>. SUFFICES ASSUME m + 1 <= Len(s) PROVE OK(m + 1)
    OBVIOUS
  <2>1. OK(m) /\ m + 1 \in 1..Len(s) /\ (m + 1) - 1 = m
    BY <1>1, <1>3
  <2>2. s[m + 1] \in A
    BY <2>1, ElementOfSeq
  <2>3. sv[m + 1] = IF s[m + 1] \in keep THEN Append(sv[m], s[m + 1]) ELSE sv[m]
    BY <2>1, SieveDef
  <2>4. Len(sv[m]) \in Nat
    BY <2>1, LenProperties
  <2>. HIDE DEF sv
  <2>5. CASE s[m + 1] \in keep
    <3>1. sv[m + 1] \in Seq(A \cap keep) /\ Len(sv[m + 1]) = Len(sv[m]) + 1
      BY <2>1, <2>2, <2>3, <2>5, AppendProperties
    <3>. QED  BY <2>1, <2>4, <3>1
  <2>6. CASE s[m + 1] \notin keep
    BY <2>1, <2>3, <2>4, <2>6
  <2>. QED  BY <2>5, <2>6
<1>4. Nat \subseteq S
  <2>. HIDE DEF S
  <2>. QED  BY <1>2, <1>3, SetInduction
<1>. QED  BY <1>1, <1>4

\* What is selected from a sequence is one of its elements that pass.
LEMMA SelectedType ==
  ASSUME NEW A, NEW s \in Seq(A), NEW keep
  PROVE  /\ Selected(s, keep) \in Seq(A \cap keep) /\ Selected(s, keep) \in Seq(A)
         /\ Len(Selected(s, keep)) <= Len(s)
<1>1. Len(s) \in 0..Len(s)
  BY LenProperties
<1>2. Selected(s, keep) \in Seq(A \cap keep) /\ Len(Selected(s, keep)) <= Len(s)
  BY <1>1, SieveType DEF Selected
<1>3. Selected(s, keep) \in Seq(A)
  BY <1>2, SeqMonotonic
<1>. QED  BY <1>2, <1>3

\* When whatever follows a kept element is kept, a suffix is kept.
LEMMA SelectedSuffix ==
  ASSUME NEW A, NEW s \in Seq(A), NEW keep,
         \A i, j \in 1..Len(s) : i < j /\ s[i] \in keep => s[j] \in keep
  PROVE  \E k \in 0..Len(s) :
           /\ Selected(s, keep) = SubSeq(s, k + 1, Len(s))
           /\ \A i \in 1..k : s[i] \notin keep
           /\ \A i \in k + 1..Len(s) : s[i] \in keep
<1>. DEFINE sv == Sieve(s, keep)
            OK(m, k) == /\ k \in 0..m
                        /\ sv[m] = SubSeq(s, k + 1, m)
                        /\ \A i \in 1..k : s[i] \notin keep
                        /\ \A i \in k + 1..m : s[i] \in keep
            S == {m \in Nat : m <= Len(s) => \E k \in Nat : OK(m, k)}
<1>1. Len(s) \in Nat
  BY LenProperties
<1>2. 0 \in S
  <2>1. SubSeq(s, 1, 0) = <<>>
    BY SubSeqEmpty
  <2>2. sv[0] = <<>>
    BY SieveDef
  <2>3. OK(0, 0)
    <3>. HIDE DEF sv
    <3>. QED  BY <2>1, <2>2
  <2>. HIDE DEF OK
  <2>. QED  BY <2>3
<1>3. ASSUME NEW m \in Nat, m \in S PROVE m + 1 \in S
  <2>. SUFFICES ASSUME m + 1 <= Len(s) PROVE \E k \in Nat : OK(m + 1, k)
    OBVIOUS
  <2>1. m <= Len(s) /\ m + 1 \in 1..Len(s) /\ (m + 1) - 1 = m
    BY <1>1
  <2>2. PICK k \in Nat : OK(m, k)
    <3>. HIDE DEF OK
    <3>. QED  BY <1>3, <2>1
  <2>3. sv[m + 1] = IF s[m + 1] \in keep THEN Append(sv[m], s[m + 1]) ELSE sv[m]
    BY <2>1, SieveDef
  <2>4. CASE s[m + 1] \in keep
    <3>1. SubSeq(s, k + 1, m + 1) = Append(SubSeq(s, k + 1, m), s[m + 1])
      <4>1. \A i \in 1..Len(s) : s[i] \in A
        BY ElementOfSeq
      <4>2. /\ SubSeq(s, k + 1, m + 1) \in Seq(A)
            /\ Len(SubSeq(s, k + 1, m + 1)) = m + 1 - k
            /\ \A i \in 1..m + 1 - k : SubSeq(s, k + 1, m + 1)[i] = s[k + i]
        <5>1. k + 1 \in Int /\ m + 1 \in Int /\ \A i \in k + 1..m + 1 : s[i] \in A
          BY <1>1, <2>1, <4>1
        <5>2. k + 1 <= m + 1 /\ \A i \in Int : (k + 1) + i - 1 = k + i
          BY <2>2
        <5>3. (m + 1) - (k + 1) + 1 = m + 1 - k
          BY <2>2
        <5>. QED  BY <5>1, <5>2, <5>3, SubSeqProperties
      <4>3. /\ SubSeq(s, k + 1, m) \in Seq(A)
            /\ Len(SubSeq(s, k + 1, m)) = m - k
            /\ \A i \in 1..m - k : SubSeq(s, k + 1, m)[i] = s[k + i]
        <5>1. k + 1 \in Int /\ m \in Int /\ \A i \in k + 1..m : s[i] \in A
          BY <1>1, <2>1, <4>1
        <5>2. m - (k + 1) + 1 = m - k /\ (~(k + 1 <= m) => m - k = 0)
              /\ \A i \in Int : (k + 1) + i - 1 = k + i
          BY <2>2
        <5>. QED  BY <5>1, <5>2, SubSeqProperties
      <4>. DEFINE t == SubSeq(s, k + 1, m)
                  u == SubSeq(s, k + 1, m + 1)
      <4>. HIDE DEF t, u
      <4>4. /\ Append(t, s[m + 1]) \in Seq(A) /\ Len(Append(t, s[m + 1])) = m + 1 - k
            /\ \A i \in 1..m - k : Append(t, s[m + 1])[i] = s[k + i]
            /\ Append(t, s[m + 1])[m + 1 - k] = s[m + 1]
        <5>1. t \in Seq(A) /\ Len(t) = m - k /\ s[m + 1] \in A
          BY <2>1, <4>1, <4>3 DEF t
        <5>2. m - k + 1 = m + 1 - k
          BY <2>2
        <5>. QED  BY <4>3, <5>1, <5>2, AppendProperties DEF t
      <4>5. \A i \in 1..m + 1 - k : u[i] = s[k + i]
        BY <4>2 DEF u
      <4>6. \A i \in 1..m + 1 - k : u[i] = Append(t, s[m + 1])[i]
        <5>. TAKE i \in 1..m + 1 - k
        <5>1. CASE i \in 1..m - k
          BY <4>4, <4>5, <5>1
        <5>2. CASE i = m + 1 - k
          <6>1. k + i = m + 1 /\ u[i] = s[k + i]
            BY <2>2, <4>5, <5>2
          <6>2. Append(t, s[m + 1])[i] = s[m + 1]
            BY <4>4, <5>2
          <6>. QED  BY <6>1, <6>2
        <5>3. k \in Int /\ m \in Int /\ i \in 1..m + 1 - k
          BY <2>2
        <5>4. i \in 1..m - k \/ i = m + 1 - k
          BY <5>3
        <5>. QED  BY <5>1, <5>2, <5>4
      <4>7. u = Append(t, s[m + 1])
        BY <4>2, <4>4, <4>6, SeqEqual DEF u
      <4>. QED  BY <4>7 DEF t, u
    <3>2. OK(m + 1, k)
      BY <2>2, <2>3, <2>4, <3>1
    <3>. HIDE DEF OK
    <3>. QED  BY <3>2
  <2>5. CASE s[m + 1] \notin keep
    <3>1. k = m
      <4>. SUFFICES ASSUME k # m PROVE FALSE
        OBVIOUS
      <4>1. m \in k + 1..m /\ m \in 1..Len(s) /\ m < m + 1
        BY <2>1, <2>2
      <4>. QED  BY <2>1, <2>2, <2>5, <4>1
    <3>2. sv[m + 1] = SubSeq(s, m + 2, m + 1)
      <4>1. SubSeq(s, m + 1, m) = <<>> /\ SubSeq(s, m + 2, m + 1) = <<>>
        BY SubSeqEmpty
      <4>. QED  BY <2>2, <2>3, <2>5, <3>1, <4>1
    <3>3. OK(m + 1, m + 1)
      BY <2>2, <2>5, <3>1, <3>2
    <3>. HIDE DEF OK
    <3>. QED  BY <3>3
  <2>. QED  BY <2>4, <2>5
<1>4. Nat \subseteq S
  <2>. HIDE DEF S
  <2>. QED  BY <1>2, <1>3, SetInduction
<1>5. PICK k \in Nat : OK(Len(s), k)
  <2>. HIDE DEF OK
  <2>. QED  BY <1>1, <1>4
<1>. QED  BY <1>5 DEF Selected

---------------------------------------------------------------------------
(* A filter, element by element.                                           *)

\* What is kept of the first elements does not depend on the last one.
LEMMA SelectedAppend ==
  ASSUME NEW A, NEW s \in Seq(A), NEW x \in A, NEW keep
  PROVE  Selected(Append(s, x), keep) =
           IF x \in keep THEN Append(Selected(s, keep), x) ELSE Selected(s, keep)
<1>. DEFINE t == Append(s, x)
            sv == Sieve(s, keep)
            tv == Sieve(t, keep)
            S == {m \in Nat : m <= Len(s) => tv[m] = sv[m]}
<1>1. /\ Len(s) \in Nat /\ t \in Seq(A) /\ Len(t) = Len(s) + 1 /\ t[Len(s) + 1] = x
      /\ \A i \in 1..Len(s) : t[i] = s[i]
  BY LenProperties, AppendProperties
<1>. HIDE DEF t
<1>2. tv[0] = <<>> /\ \A n \in 1..Len(t) : tv[n] = IF t[n] \in keep THEN Append(tv[n - 1], t[n]) ELSE tv[n - 1]
  BY <1>1, SieveDef
<1>3. sv[0] = <<>> /\ \A n \in 1..Len(s) : sv[n] = IF s[n] \in keep THEN Append(sv[n - 1], s[n]) ELSE sv[n - 1]
  BY SieveDef
<1>. HIDE DEF sv, tv
<1>4. 0 \in S
  BY <1>2, <1>3
<1>5. ASSUME NEW m \in Nat, m \in S PROVE m + 1 \in S
  <2>. SUFFICES ASSUME m + 1 <= Len(s) PROVE tv[m + 1] = sv[m + 1]
    OBVIOUS
  <2>1. m + 1 \in 1..Len(s) /\ m + 1 \in 1..Len(t) /\ (m + 1) - 1 = m /\ m <= Len(s)
    BY <1>1
  <2>2. tv[m] = sv[m] /\ t[m + 1] = s[m + 1]
    BY <1>1, <1>5, <2>1
  <2>. QED  BY <1>2, <1>3, <2>1, <2>2
<1>6. tv[Len(s)] = sv[Len(s)]
  <2>1. Nat \subseteq S
    <3>. HIDE DEF S
    <3>. QED  BY <1>4, <1>5, SetInduction
  <2>. QED  BY <1>1, <2>1
<1>7. tv[Len(t)] = IF x \in keep THEN Append(sv[Len(s)], x) ELSE sv[Len(s)]
  <2>1. Len(t) \in 1..Len(t) /\ Len(t) - 1 = Len(s) /\ t[Len(t)] = x
    BY <1>1
  <2>. QED  BY <1>2, <1>6, <2>1
<1>8. Selected(t, keep) = tv[Len(t)] /\ Selected(s, keep) = sv[Len(s)]
  BY DEF Selected, sv, tv
<1>. QED  BY <1>7, <1>8 DEF t

\* Every kept element is an element of s, and no element is kept twice.
LEMMA SelectedIndices ==
  ASSUME NEW A, NEW s \in Seq(A), NEW keep
  PROVE  \E h \in [1..Len(Selected(s, keep)) -> 1..Len(s)] :
           /\ \A i \in 1..Len(Selected(s, keep)) : Selected(s, keep)[i] = s[h[i]]
           /\ \A i, j \in 1..Len(Selected(s, keep)) : i < j => h[i] < h[j]
<1>. DEFINE sv == Sieve(s, keep)
            OK(m, h) == /\ h \in [1..Len(sv[m]) -> 1..m]
                        /\ \A i \in 1..Len(sv[m]) : sv[m][i] = s[h[i]]
                        /\ \A i, j \in 1..Len(sv[m]) : i < j => h[i] < h[j]
            S == {m \in Nat : m <= Len(s) => \E h : OK(m, h)}
<1>1. Len(s) \in Nat
  BY LenProperties
<1>2. sv[0] = <<>> /\ \A n \in 1..Len(s) : sv[n] = IF s[n] \in keep THEN Append(sv[n - 1], s[n]) ELSE sv[n - 1]
  BY SieveDef
<1>3. \A n \in 0..Len(s) : sv[n] \in Seq(A \cap keep) /\ Len(sv[n]) \in Nat
  BY SieveType, LenProperties
<1>4. 0 \in S
  <2>. DEFINE h == [i \in 1..0 |-> 0]
  <2>1. Len(sv[0]) = 0
    BY <1>2, EmptySeq
  <2>2. h \in [1..0 -> 1..0] /\ \A i : i \notin 1..0
    OBVIOUS
  <2>. HIDE DEF sv, h
  <2>3. OK(0, h)
    BY <2>1, <2>2
  <2>. HIDE DEF OK
  <2>. QED  BY <2>3
<1>5. ASSUME NEW m \in Nat, m \in S PROVE m + 1 \in S
  <2>. SUFFICES ASSUME m + 1 <= Len(s) PROVE \E h : OK(m + 1, h)
    OBVIOUS
  <2>1. m + 1 \in 1..Len(s) /\ (m + 1) - 1 = m /\ m <= Len(s) /\ m \in 0..Len(s)
    BY <1>1
  <2>2. PICK h : OK(m, h)
    <3>. HIDE DEF OK
    <3>. QED  BY <1>5, <2>1
  <2>3. sv[m + 1] = IF s[m + 1] \in keep THEN Append(sv[m], s[m + 1]) ELSE sv[m]
    BY <1>2, <2>1
  <2>4. sv[m] \in Seq(A \cap keep) /\ Len(sv[m]) \in Nat
    BY <1>3, <2>1
  <2>. DEFINE n == Len(sv[m])
              g == [i \in 1..n + 1 |-> IF i = n + 1 THEN m + 1 ELSE h[i]]
  <2>5. CASE s[m + 1] \in keep
    <3>1. /\ sv[m + 1] = Append(sv[m], s[m + 1]) /\ Len(sv[m + 1]) = n + 1
          /\ \A i \in 1..n : sv[m + 1][i] = sv[m][i]
          /\ sv[m + 1][n + 1] = s[m + 1]
      <4>1. s[m + 1] \in A \cap keep
        BY <2>1, <2>5, ElementOfSeq
      <4>. QED  BY <2>3, <2>4, <2>5, <4>1, AppendProperties
    <3>2. n \in Nat /\ h \in [1..n -> 1..m]
          /\ (\A i \in 1..n : sv[m][i] = s[h[i]]) /\ \A i, j \in 1..n : i < j => h[i] < h[j]
      BY <2>2, <2>4
    <3>. HIDE DEF sv, n
    <3>3. /\ g \in [1..n + 1 -> 1..m + 1] /\ g[n + 1] = m + 1
          /\ \A i \in 1..n : g[i] = h[i] /\ g[i] \in 1..m
      BY <3>2
    <3>4. \A i \in 1..n + 1 : i \in 1..n \/ i = n + 1
      BY <3>2
    <3>. HIDE DEF g
    <3>5. \A i \in 1..n + 1 : sv[m + 1][i] = s[g[i]]
      BY <3>1, <3>2, <3>3, <3>4
    <3>6. \A i, j \in 1..n + 1 : i < j => g[i] < g[j]
      <4>. TAKE i, j \in 1..n + 1
      <4>. HAVE i < j
      <4>1. i \in 1..n
        BY <3>2
      <4>2. CASE j \in 1..n
        BY <3>2, <3>3, <4>1, <4>2
      <4>3. CASE j = n + 1
        BY <3>3, <4>1, <4>3
      <4>. QED  BY <3>4, <4>2, <4>3
    <3>7. OK(m + 1, g)
      BY <3>1, <3>3, <3>5, <3>6
    <3>. HIDE DEF OK
    <3>. QED  BY <3>7
  <2>6. CASE s[m + 1] \notin keep
    <3>1. sv[m + 1] = sv[m]
      BY <2>3, <2>6
    <3>2. h \in [1..n -> 1..m + 1]
      <4>1. h \in [1..n -> 1..m] /\ 1..m \subseteq 1..m + 1
        BY <2>2
      <4>. QED  BY <4>1
    <3>. HIDE DEF sv
    <3>3. OK(m + 1, h)
      BY <2>2, <3>1, <3>2
    <3>. HIDE DEF OK
    <3>. QED  BY <3>3
  <2>. QED  BY <2>5, <2>6
<1>6. PICK h : OK(Len(s), h)
  <2>1. Nat \subseteq S
    <3>. HIDE DEF S
    <3>. QED  BY <1>4, <1>5, SetInduction
  <2>. HIDE DEF OK
  <2>. QED  BY <1>1, <2>1
<1>. QED  BY <1>6 DEF Selected

---------------------------------------------------------------------------
(* Windows: the end of a list of times, what is old filtered out.          *)

\* W is A without its first d elements.
SuffixAt(W, A, d) ==
  /\ d \in 0..Len(A) /\ Len(W) = Len(A) - d
  /\ \A i \in 1..Len(W) : W[i] = A[d + i]

\* The times of A are in order, and any n + 1 of them take the span or longer.
Spaced(A, n, span) ==
  /\ \A i, j \in 1..Len(A) : i < j => A[i] <= A[j]
  /\ \A i \in 1..Len(A) : i + n <= Len(A) => A[i] + span <= A[i + n]

\* A filter that keeps the end of A, of an end of A that holds all it keeps.
LEMMA SelectedSuffixAt ==
  ASSUME NEW T, NEW A \in Seq(T), NEW W \in Seq(T), NEW d \in 0..Len(A), SuffixAt(W, A, d), NEW keep,
         \A i \in 1..d : A[i] \notin keep,
         \A i, j \in 1..Len(A) : i < j /\ A[i] \in keep => A[j] \in keep
  PROVE  \E e \in 0..Len(A) : /\ SuffixAt(Selected(W, keep), A, e)
                              /\ \A i \in 1..e : A[i] \notin keep
                              /\ \A i \in e + 1..Len(A) : A[i] \in keep
<1>. DEFINE V == Selected(W, keep)
<1>1. Len(A) \in Nat /\ Len(W) \in Nat /\ d \in Nat /\ Len(W) = Len(A) - d
  BY LenProperties DEF SuffixAt
<1>2. \A i \in 1..Len(W) : d + i \in 1..Len(A) /\ W[i] = A[d + i]
  BY <1>1 DEF SuffixAt
<1>3. \A i, j \in 1..Len(W) : i < j /\ W[i] \in keep => W[j] \in keep
  <2>1. \A i, j \in 1..Len(W) : i < j => d + i < d + j
    BY <1>1
  <2>. QED  BY <1>2, <2>1
<1>4. PICK k \in 0..Len(W) : /\ V = SubSeq(W, k + 1, Len(W))
                             /\ \A i \in 1..k : W[i] \notin keep
                             /\ \A i \in k + 1..Len(W) : W[i] \in keep
  BY <1>3, SelectedSuffix
<1>. HIDE DEF V
<1>5. k \in Nat /\ k <= Len(W)
  BY <1>1
<1>6. Len(V) = Len(W) - k /\ \A i \in 1..Len(V) : V[i] = W[k + i]
  <2>1. k + 1 \in Int /\ Len(W) \in Int /\ \A i \in k + 1..Len(W) : W[i] \in T
    <3>1. \A i \in k + 1..Len(W) : i \in 1..Len(W)
      BY <1>1, <1>5
    <3>. QED  BY <1>1, <1>5, <3>1, ElementOfSeq
  <2>2. /\ Len(V) = IF k + 1 <= Len(W) THEN Len(W) - (k + 1) + 1 ELSE 0
        /\ \A i \in 1..Len(W) - (k + 1) + 1 : V[i] = W[(k + 1) + i - 1]
    BY <1>4, <2>1, SubSeqProperties
  <2>3. Len(V) = Len(W) - k
    <3>1. CASE k = Len(W)
      BY <1>1, <2>2, <3>1
    <3>2. CASE k < Len(W)
      <4>1. k + 1 <= Len(W) /\ Len(W) - (k + 1) + 1 = Len(W) - k
        BY <1>1, <1>5, <3>2
      <4>. QED  BY <2>2, <4>1
    <3>. QED  BY <1>1, <1>5, <3>1, <3>2
  <2>4. ASSUME NEW i \in 1..Len(V) PROVE V[i] = W[k + i]
    <3>1. i \in 1..Len(W) - (k + 1) + 1 /\ (k + 1) + i - 1 = k + i
      BY <1>1, <1>5, <2>3
    <3>. QED  BY <2>2, <3>1
  <2>. QED  BY <2>3, <2>4
<1>7. d + k \in 0..Len(A) /\ SuffixAt(V, A, d + k)
  <2>1. ASSUME NEW i \in 1..Len(V) PROVE V[i] = A[(d + k) + i]
    <3>1. k + i \in 1..Len(W) /\ d + (k + i) = (d + k) + i
      BY <1>1, <1>5, <1>6
    <3>. QED  BY <1>2, <1>6, <3>1
  <2>2. d + k \in 0..Len(A) /\ Len(V) = Len(A) - (d + k)
    BY <1>1, <1>5, <1>6
  <2>. QED  BY <2>1, <2>2 DEF SuffixAt
<1>8. ASSUME NEW i \in 1..d + k PROVE A[i] \notin keep
  <2>1. CASE i <= d
    BY <1>1, <2>1
  <2>2. CASE i > d
    <3>1. i - d \in 1..k /\ i - d \in 1..Len(W) /\ d + (i - d) = i
      BY <1>1, <1>5, <2>2
    <3>. QED  BY <1>2, <1>4, <3>1
  <2>. QED  BY <1>1, <1>5, <2>1, <2>2
<1>9. ASSUME NEW i \in d + k + 1..Len(A) PROVE A[i] \in keep
  <2>1. i - d \in k + 1..Len(W) /\ i - d \in 1..Len(W) /\ d + (i - d) = i
    BY <1>1, <1>5
  <2>. QED  BY <1>2, <1>4, <2>1
<1>. QED  BY <1>7, <1>8, <1>9 DEF V

\* What is appended to both is at the end of both.
LEMMA SuffixAppend ==
  ASSUME NEW T, NEW A \in Seq(T), NEW W \in Seq(T), NEW d \in 0..Len(A), SuffixAt(W, A, d), NEW x \in T
  PROVE  d \in 0..Len(Append(A, x)) /\ SuffixAt(Append(W, x), Append(A, x), d)
<1>. DEFINE B == Append(A, x)
            U == Append(W, x)
<1>1. Len(A) \in Nat /\ Len(W) \in Nat /\ d \in Nat /\ Len(W) = Len(A) - d
  BY LenProperties DEF SuffixAt
<1>2. Len(B) = Len(A) + 1 /\ B[Len(A) + 1] = x /\ \A i \in 1..Len(A) : B[i] = A[i]
  BY AppendProperties
<1>3. Len(U) = Len(W) + 1 /\ U[Len(W) + 1] = x /\ \A i \in 1..Len(W) : U[i] = W[i]
  BY AppendProperties
<1>. HIDE DEF B, U
<1>4. ASSUME NEW i \in 1..Len(U) PROVE U[i] = B[d + i]
  <2>1. CASE i \in 1..Len(W)
    <3>1. d + i \in 1..Len(A)
      BY <1>1, <2>1
    <3>2. W[i] = A[d + i]
      BY <2>1 DEF SuffixAt
    <3>. QED  BY <1>2, <1>3, <2>1, <3>1, <3>2
  <2>2. CASE i = Len(W) + 1
    <3>1. d + i = Len(A) + 1
      BY <1>1, <2>2
    <3>. QED  BY <1>2, <1>3, <2>2, <3>1
  <2>. QED  BY <1>1, <1>3, <2>1, <2>2
<1>5. d \in 0..Len(B) /\ Len(U) = Len(B) - d
  BY <1>1, <1>2, <1>3
<1>. QED  BY <1>4, <1>5 DEF SuffixAt, B, U

\* A time is appended while fewer than n are less than a span old.
LEMMA SpacedAppend ==
  ASSUME NEW A \in Seq(Nat), NEW n \in Nat \ {0}, NEW span \in Nat \ {0}, Spaced(A, n, span),
         NEW now \in Nat, \A i \in 1..Len(A) : A[i] <= now,
         NEW d \in 0..Len(A), \A i \in 1..d : A[i] + span <= now, Len(A) - d < n
  PROVE  Spaced(Append(A, now), n, span)
<1>. DEFINE B == Append(A, now)
<1>1. Len(A) \in Nat /\ d \in Nat /\ \A i \in 1..Len(A) : A[i] \in Nat
  BY LenProperties, ElementOfSeq
<1>2. Len(B) = Len(A) + 1 /\ B[Len(A) + 1] = now /\ \A i \in 1..Len(A) : B[i] = A[i]
  BY AppendProperties
<1>. HIDE DEF B
<1>3. \A i, j \in 1..Len(B) : i < j => B[i] <= B[j]
  <2>. TAKE i, j \in 1..Len(B)
  <2>. HAVE i < j
  <2>1. i \in 1..Len(A) /\ (j \in 1..Len(A) \/ j = Len(A) + 1)
    <3>1. PICK m \in Nat : m = Len(A)
      BY <1>1
    <3>2. i \in 1..m + 1 /\ j \in 1..m + 1 /\ i < j
      BY <1>2, <3>1
    <3>3. i \in 1..m /\ (j \in 1..m \/ j = m + 1)
      BY ONLY <3>2, m \in Nat
    <3>. QED  BY <3>1, <3>3
  <2>. QED  BY <1>2, <2>1 DEF Spaced
<1>4. ASSUME NEW i \in 1..Len(B), i + n <= Len(B) PROVE B[i] + span <= B[i + n]
  <2>1. i \in 1..Len(A)
    BY <1>1, <1>2, <1>4
  <2>2. CASE i + n <= Len(A)
    <3>1. i + n \in 1..Len(A)
      BY <2>1, <2>2
    <3>. QED  BY <1>2, <2>1, <2>2, <3>1 DEF Spaced
  <2>3. CASE i + n = Len(A) + 1
    <3>1. i \in 1..d
      BY <1>1, <2>1, <2>3
    <3>. QED  BY <1>2, <2>1, <2>3, <3>1
  <2>4. i + n <= Len(A) \/ i + n = Len(A) + 1
    <3>1. PICK m \in Nat : m = Len(A)
      BY <1>1
    <3>2. i + n <= m + 1 /\ i + n \in Nat
      BY <1>2, <1>4, <2>1, <3>1
    <3>3. i + n <= m \/ i + n = m + 1
      BY ONLY <3>2, m \in Nat
    <3>. QED  BY <3>1, <3>3
  <2>. QED  BY <2>2, <2>3, <2>4
<1>. QED  BY <1>3, <1>4 DEF Spaced, B

\* No span holds more than n of the times.
LEMMA SpacedCount ==
  ASSUME NEW A \in Seq(Nat), NEW n \in Nat \ {0}, NEW span \in Nat \ {0}, Spaced(A, n, span),
         NEW t \in Int, NEW during, during = {i \in DOMAIN A : t - span < A[i] /\ A[i] <= t}
  PROVE  Cardinality(during) <= n
<1>1. Len(A) \in Nat /\ DOMAIN A = 1..Len(A) /\ \A i \in 1..Len(A) : A[i] \in Nat
  BY LenProperties, ElementOfSeq
<1>2. CASE during = {}
  <2>1. Cardinality({}) = 0
    BY FS_EmptySet
  <2>2. Cardinality(during) = 0
    BY <1>2, <2>1, Zenon
  <2>. QED  BY <2>2
<1>3. CASE during # {}
  <2>1. during \in SUBSET Nat
    BY <1>1
  <2>2. PICK k \in during : \A j \in during : k <= j
    BY <1>3, <2>1, LeastNatural
  <2>3. k \in 1..Len(A) /\ t - span < A[k] /\ A[k] \in Nat
    BY <1>1, <2>2
  <2>4. ASSUME NEW j \in during PROVE j \in k..k + n - 1
    <3>1. j \in 1..Len(A) /\ A[j] <= t /\ A[j] \in Nat /\ k <= j
      BY <1>1, <2>2
    <3>2. CASE j < k + n
      BY <2>3, <3>1, <3>2
    <3>3. CASE j >= k + n
      <4>1. k + n \in 1..Len(A) /\ k + n <= Len(A)
        BY <1>1, <2>3, <3>1, <3>3
      <4>2. A[k] + span <= A[k + n] /\ (k + n = j \/ k + n < j)
        BY <1>1, <2>3, <3>1, <3>3, <4>1 DEF Spaced
      <4>3. A[k + n] <= A[j]
        BY <1>1, <3>1, <4>1, <4>2 DEF Spaced
      <4>4. PICK a, b, c : a = A[k] /\ b = A[k + n] /\ c = A[j]
        OBVIOUS
      <4>5. a \in Nat /\ b \in Nat /\ c \in Nat
        BY <1>1, <2>3, <3>1, <4>1, <4>4
      <4>6. t - span < a /\ a + span <= b /\ b <= c /\ c <= t
        BY <2>3, <3>1, <4>2, <4>3, <4>4
      <4>. QED  BY <4>5, <4>6
    <3>. QED  BY <2>3, <3>1, <3>2, <3>3
  <2>5. IsFiniteSet(k..k + n - 1) /\ Cardinality(k..k + n - 1) = n
    <3>1. k \in Int /\ k + n - 1 \in Int /\ ~(k > k + n - 1) /\ (k + n - 1) - k + 1 = n
      BY <2>3
    <3>. QED  BY <3>1, FS_Interval
  <2>6. PICK I : I = k..k + n - 1
    OBVIOUS
  <2>7. IsFiniteSet(I) /\ Cardinality(I) = n /\ during \in SUBSET I
    BY <2>4, <2>5, <2>6
  <2>. QED  BY <2>7, FS_Subset
<1>. QED  BY <1>2, <1>3

\* Each element of W is one of A, at a place of its own.
Embeds(W, A) ==
  \E h \in [1..Len(W) -> 1..Len(A)] :
    /\ \A i \in 1..Len(W) : W[i] = A[h[i]]
    /\ \A i, j \in 1..Len(W) : i < j => h[i] < h[j]

\* What is kept of W is in A too.
LEMMA EmbedsSelected ==
  ASSUME NEW T, NEW A \in Seq(T), NEW W \in Seq(T), Embeds(W, A), NEW keep
  PROVE  Embeds(Selected(W, keep), A)
<1>. DEFINE V == Selected(W, keep)
<1>1. PICK h \in [1..Len(W) -> 1..Len(A)] :
        /\ \A i \in 1..Len(W) : W[i] = A[h[i]]
        /\ \A i, j \in 1..Len(W) : i < j => h[i] < h[j]
  BY DEF Embeds
<1>2. PICK g \in [1..Len(V) -> 1..Len(W)] :
        /\ \A i \in 1..Len(V) : V[i] = W[g[i]]
        /\ \A i, j \in 1..Len(V) : i < j => g[i] < g[j]
  BY SelectedIndices
<1>. HIDE DEF V
<1>. DEFINE f == [i \in 1..Len(V) |-> h[g[i]]]
<1>3. f \in [1..Len(V) -> 1..Len(A)] /\ \A i \in 1..Len(V) : f[i] = h[g[i]] /\ g[i] \in 1..Len(W)
  OBVIOUS
<1>. HIDE DEF f
<1>4. \A i \in 1..Len(V) : V[i] = A[f[i]]
  BY <1>1, <1>2, <1>3
<1>5. \A i, j \in 1..Len(V) : i < j => f[i] < f[j]
  BY <1>1, <1>2, <1>3
<1>6. Embeds(V, A)
  BY <1>3, <1>4, <1>5 DEF Embeds
<1>. QED  BY <1>6 DEF V

\* A list stays in one that grows, and grows with it.
LEMMA EmbedsAppend ==
  ASSUME NEW T, NEW A \in Seq(T), NEW W \in Seq(T), Embeds(W, A), NEW x \in T
  PROVE  Embeds(W, Append(A, x)) /\ Embeds(Append(W, x), Append(A, x))
<1>. DEFINE B == Append(A, x)
            U == Append(W, x)
<1>1. Len(A) \in Nat /\ Len(W) \in Nat
  BY LenProperties
<1>2. Len(B) = Len(A) + 1 /\ B[Len(A) + 1] = x /\ \A i \in 1..Len(A) : B[i] = A[i]
  BY AppendProperties
<1>3. Len(U) = Len(W) + 1 /\ U[Len(W) + 1] = x /\ \A i \in 1..Len(W) : U[i] = W[i]
  BY AppendProperties
<1>4. PICK h \in [1..Len(W) -> 1..Len(A)] :
        /\ \A i \in 1..Len(W) : W[i] = A[h[i]]
        /\ \A i, j \in 1..Len(W) : i < j => h[i] < h[j]
  BY DEF Embeds
<1>. HIDE DEF B, U
<1>5. Embeds(W, B)
  <2>1. \A i \in 1..Len(W) : h[i] \in 1..Len(B) /\ W[i] = B[h[i]]
    BY <1>1, <1>2, <1>4
  <2>2. h \in [1..Len(W) -> 1..Len(B)]
    BY <2>1
  <2>. QED  BY <1>4, <2>1, <2>2 DEF Embeds
<1>6. Embeds(U, B)
  <2>. DEFINE g == [i \in 1..Len(U) |-> IF i = Len(W) + 1 THEN Len(A) + 1 ELSE h[i]]
  <2>1. \A i \in 1..Len(U) : i \in 1..Len(W) \/ i = Len(W) + 1
    BY <1>1, <1>3
  <2>2. /\ \A i \in 1..Len(W) : g[i] = h[i] /\ g[i] \in 1..Len(A)
        /\ Len(W) + 1 \in 1..Len(U) /\ g[Len(W) + 1] = Len(A) + 1
    <3>1. /\ \A i \in 1..Len(W) : i \in 1..Len(U) /\ i # Len(W) + 1
          /\ Len(W) + 1 \in 1..Len(U)
      BY <1>1, <1>3
    <3>2. \A i \in 1..Len(W) : h[i] \in 1..Len(A)
      OBVIOUS
    <3>. QED  BY <3>1, <3>2
  <2>3. g \in [1..Len(U) -> 1..Len(B)]
    <3>1. \A i \in 1..Len(U) : g[i] \in 1..Len(B)
      <4>. HIDE DEF g
      <4>. QED  BY <1>1, <1>2, <2>1, <2>2
    <3>. QED  BY <3>1
  <2>. HIDE DEF g
  <2>4. \A i \in 1..Len(U) : U[i] = B[g[i]]
    <3>. TAKE i \in 1..Len(U)
    <3>1. CASE i \in 1..Len(W)
      <4>1. g[i] = h[i] /\ g[i] \in 1..Len(A)
        BY <2>2, <3>1
      <4>2. U[i] = W[i] /\ W[i] = A[h[i]]
        BY <1>3, <1>4, <3>1
      <4>. QED  BY <1>2, <4>1, <4>2
    <3>2. CASE i = Len(W) + 1
      BY <1>2, <1>3, <2>2, <3>2
    <3>. QED  BY <2>1, <3>1, <3>2
  <2>5. \A i, j \in 1..Len(U) : i < j => g[i] < g[j]
    <3>. TAKE i, j \in 1..Len(U)
    <3>. HAVE i < j
    <3>1. i \in 1..Len(W)
      BY <1>1, <1>3
    <3>. QED  BY <1>1, <1>4, <2>1, <2>2, <3>1
  <2>. QED  BY <2>3, <2>4, <2>5 DEF Embeds
<1>. QED  BY <1>5, <1>6 DEF B, U

\* When all of W satisfies a condition, as many of A do.
LEMMA EmbedsCount ==
  ASSUME NEW T, NEW A \in Seq(T), NEW W \in Seq(T), Embeds(W, A),
         NEW I, I \subseteq 1..Len(A), \A i \in 1..Len(A) : (\E j \in 1..Len(W) : W[j] = A[i]) => i \in I
  PROVE  IsFiniteSet(I) /\ Cardinality(I) \in Nat /\ Len(W) <= Cardinality(I)
<1>1. PICK h \in [1..Len(W) -> 1..Len(A)] :
        /\ \A i \in 1..Len(W) : W[i] = A[h[i]]
        /\ \A i, j \in 1..Len(W) : i < j => h[i] < h[j]
  BY DEF Embeds
<1>2. Len(A) \in Nat /\ Len(W) \in Nat
  BY LenProperties
<1>3. PICK J, K : J = 1..Len(W) /\ K = 1..Len(A)
  OBVIOUS
<1>4. IsFiniteSet(K) /\ Cardinality(J) = Len(W)
  <2>1. 1 \in Int /\ Len(W) \in Int /\ Len(A) \in Int
    BY <1>2
  <2>2. IsFiniteSet(K) /\ Cardinality(J) = IF 1 > Len(W) THEN 0 ELSE Len(W) - 1 + 1
    BY <1>3, <2>1, FS_Interval
  <2>. QED  BY <1>2, <2>2
<1>5. IsFiniteSet(I)
  BY <1>3, <1>4, FS_Subset
<1>6. h \in Injection(J, I)
  <2>1. \A i \in J : h[i] \in I
    BY <1>1, <1>3
  <2>2. h \in [J -> I]
    BY <1>1, <1>3, <2>1
  <2>3. ASSUME NEW i \in J, NEW j \in J, h[i] = h[j] PROVE i = j
    <3>1. h[i] \in Int /\ i \in Int /\ j \in Int
      BY <1>1, <1>3
    <3>2. ~(i < j) /\ ~(j < i)
      BY <1>1, <1>3, <2>3, <3>1
    <3>. QED  BY <3>1, <3>2
  <2>4. DOMAIN h = J
    BY <1>1, <1>3
  <2>. QED  BY <2>2, <2>3, <2>4 DEF Injection, IsInjective
<1>7. Cardinality(J) <= Cardinality(I) /\ Cardinality(I) \in Nat
  BY <1>5, <1>6, FS_Injection, FS_CardinalityType
<1>. QED  BY <1>4, <1>5, <1>7

-----------------------------------------------------------------------------
(* Sums.                                                                     *)

\* The recursive function of Total is what its equation says.
LEMMA SumExists ==
  ASSUME NEW w \in Seq(Int)
  PROVE  \E sum : /\ Total(w) = sum[Len(w)] /\ sum[0] = 0
                  /\ \A k \in 1..Len(w) : sum[k] = sum[k - 1] + w[k]
<1>. DEFINE L == Len(w)
            Step(f, m) == f = [k \in 0..m |-> IF k = 0 THEN 0 ELSE f[k - 1] + w[k]]
            S == {m \in Nat : \E f : Step(f, m)}
<1>1. L \in Nat
  BY LenProperties
<1>2. 0 \in S
  <2>1. Step([k \in 0..0 |-> 0], 0)
    OBVIOUS
  <2>. QED  BY <2>1
<1>3. ASSUME NEW m \in Nat, m \in S PROVE m + 1 \in S
  <2>1. PICK f : Step(f, m)
    BY <1>3
  <2>. DEFINE last == f[m] + w[m + 1]
              g == [k \in 0..m + 1 |-> IF k = m + 1 THEN last ELSE f[k]]
  <2>2. ASSUME NEW k \in 0..m + 1
        PROVE  g[k] = IF k = 0 THEN 0 ELSE g[k - 1] + w[k]
    <3>1. CASE k = m + 1
      <4>1. g[k] = last /\ g[k - 1] = f[m] /\ k # 0
        BY <3>1
      <4>. QED  BY <3>1, <4>1
    <3>2. CASE k # m + 1
      <4>1. k \in 0..m /\ g[k] = f[k]
        BY <3>2
      <4>2. k # 0 => g[k - 1] = f[k - 1]
        BY <3>2
      <4>3. f[k] = IF k = 0 THEN 0 ELSE f[k - 1] + w[k]
        BY <2>1, <4>1
      <4>. QED  BY <4>1, <4>2, <4>3
    <3>. QED  BY <3>1, <3>2
  <2>3. Step(g, m + 1)
    <3>1. g = [k \in 0..m + 1 |-> g[k]]
      OBVIOUS
    <3>. HIDE DEF g
    <3>. QED  BY <2>2, <3>1
  <2>4. \E h : Step(h, m + 1)
    <3>. HIDE DEF Step, g
    <3>. QED  BY <2>3
  <2>. HIDE DEF Step
  <2>. QED  BY <2>4
<1>4. L \in S
  <2>. HIDE DEF S
  <2>. QED  BY <1>1, <1>2, <1>3, SetInduction
<1>5. PICK f : Step(f, L)
  BY <1>4
<1>. DEFINE sum == CHOOSE h : Step(h, L)
<1>6. Step(sum, L)
  BY <1>5
<1>7. Total(w) = sum[L]
  BY DEF Total
<1>8. PICK s : s = sum
  OBVIOUS
<1>9. s = [k \in 0..L |-> IF k = 0 THEN 0 ELSE s[k - 1] + w[k]]
  BY <1>6, <1>8
<1>10. s[0] = 0 /\ \A k \in 1..L : s[k] = s[k - 1] + w[k]
  <2>1. \A k \in 0..L : s[k] = IF k = 0 THEN 0 ELSE s[k - 1] + w[k]
    BY <1>9, Zenon
  <2>. QED  BY <1>1, <2>1
<1>. QED  BY <1>7, <1>8, <1>10

---------------------------------------------------------------------------
(* A filter of what a wider one has kept.                                  *)

\* Of nothing, nothing is kept.
LEMMA SelectedEmpty ==
  ASSUME NEW keep
  PROVE  Selected(<<>>, keep) = <<>>
<1>1. PICK e : e = <<>>
  OBVIOUS
<1>2. e \in Seq(Nat) /\ Len(e) = 0
  <2>1. <<>> \in Seq(Nat) /\ Len(<<>>) = 0
    BY EmptySeq
  <2>. QED  BY <1>1, <2>1
<1>3. PICK A : A = Nat
  OBVIOUS
<1>4. e \in Seq(A)
  BY <1>2, <1>3
<1>5. Sieve(e, keep)[0] = <<>>
  BY <1>4, SieveDef
<1>. QED  BY <1>1, <1>2, <1>5 DEF Selected

\* What a narrower filter keeps does not depend on a wider one before it.
LEMMA SelectedAgain ==
  ASSUME NEW A, NEW s \in Seq(A), NEW wide, NEW narrow, narrow \subseteq wide
  PROVE  Selected(Selected(s, wide), narrow) = Selected(s, narrow)
<1>. DEFINE wv == Sieve(s, wide)
            nv == Sieve(s, narrow)
            S == {m \in Nat : m <= Len(s) => Selected(wv[m], narrow) = nv[m]}
<1>1. Len(s) \in Nat /\ \A i \in 1..Len(s) : s[i] \in A
  BY LenProperties, ElementOfSeq
<1>2. /\ wv[0] = <<>>
      /\ \A n \in 1..Len(s) : wv[n] = IF s[n] \in wide THEN Append(wv[n - 1], s[n]) ELSE wv[n - 1]
  BY SieveDef
<1>3. /\ nv[0] = <<>>
      /\ \A n \in 1..Len(s) : nv[n] = IF s[n] \in narrow THEN Append(nv[n - 1], s[n]) ELSE nv[n - 1]
  BY SieveDef
<1>4. \A n \in 0..Len(s) : wv[n] \in Seq(A)
  <2>. TAKE n \in 0..Len(s)
  <2>1. wv[n] \in Seq(A \cap wide)
    BY SieveType
  <2>. QED  BY <2>1, SeqMonotonic
<1>. HIDE DEF wv, nv
<1>5. 0 \in S
  <2>1. Selected(<<>>, narrow) = <<>>
    BY SelectedEmpty
  <2>. QED  BY <1>2, <1>3, <2>1
<1>6. ASSUME NEW m \in Nat, m \in S PROVE m + 1 \in S
  <2>. SUFFICES ASSUME m + 1 <= Len(s) PROVE Selected(wv[m + 1], narrow) = nv[m + 1]
    OBVIOUS
  <2>1. /\ m + 1 \in 1..Len(s) /\ m \in 0..Len(s) /\ (m + 1) - 1 = m
        /\ Selected(wv[m], narrow) = nv[m]
    BY <1>1, <1>6
  <2>2. PICK x \in A : x = s[m + 1]
    BY <1>1, <2>1
  <2>3. PICK w \in Seq(A) : w = wv[m]
    BY <1>4, <2>1
  <2>4. nv[m + 1] = IF x \in narrow THEN Append(nv[m], x) ELSE nv[m]
    BY <1>3, <2>1, <2>2
  <2>5. CASE x \in wide
    <3>1. wv[m + 1] = Append(w, x)
      BY <1>2, <2>1, <2>2, <2>3, <2>5
    <3>2. Selected(Append(w, x), narrow) =
            IF x \in narrow THEN Append(Selected(w, narrow), x) ELSE Selected(w, narrow)
      BY SelectedAppend
    <3>. QED  BY <2>1, <2>3, <2>4, <3>1, <3>2
  <2>6. CASE x \notin wide
    <3>1. wv[m + 1] = w /\ x \notin narrow
      BY <1>2, <2>1, <2>2, <2>3, <2>6
    <3>. QED  BY <2>1, <2>3, <2>4, <3>1
  <2>. QED  BY <2>5, <2>6
<1>7. Len(s) \in S
  <2>. HIDE DEF S
  <2>. QED  BY <1>1, <1>5, <1>6, SetInduction
<1>. QED  BY <1>7 DEF Selected, wv, nv

===============================================================================

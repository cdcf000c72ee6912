------------------------ MODULE GuardianPerimeterProofs ------------------------
(* Theorems about GuardianPerimeter: types, the rate limit, what the proxy   *)
(* captures, and the listener, for any number of requests and clients.       *)
EXTENDS GuardianPerimeter, FilterLemmas, FiniteSetTheorems

---------------------------------------------------------------------------
(* The rate limit of one client: A are its admissions, W is its window, R    *)
(* are its refusals.                                                         *)

Times == 0..MaxTime

\* The admissions are in order and Limit of them take a window; what the window
\* has dropped is a window old, and when a request was refused, the window that
\* ended then held Limit admissions.
RateInv(A, W, R, now) ==
  /\ \A i, j \in 1..Len(A) : i < j => A[i] <= A[j]
  /\ \A i \in 1..Len(A) : A[i] <= now
  /\ \A i \in 1..Len(A) : i + Limit <= Len(A) => A[i] + Window <= A[i + Limit]
  /\ \E d \in 0..Len(A) : SuffixAt(W, A, d) /\ \A i \in 1..d : A[i] + Window <= now
  /\ \A t \in R : /\ t <= now
                  /\ \E m \in Nat : /\ m + Limit <= Len(A)
                                    /\ \A i \in 1..Len(A) :
                                         t < A[i] + Window /\ A[i] <= t <=> i \in m + 1..m + Limit

\* The constants are numbers.
LEMMA Bounds ==
  /\ Limit \in Nat \ {0} /\ Window \in Nat \ {0} /\ BufferSize \in Nat \ {0}
  /\ MaxTime \in Nat /\ MaxArrivals \in Nat /\ MaxMessages \in Nat
BY PerimeterAssumption

\* What is left of a window starts with the first admission less than a window old.
LEMMA Pruned ==
  ASSUME NEW A \in Seq(Times), NEW W \in Seq(Times), NEW R, NEW now \in Times, RateInv(A, W, R, now),
         NEW V, V = Selected(W, {t \in Nat : t > now - Window})
  PROVE  /\ V \in Seq(Times)
         /\ \E d \in 0..Len(A) : /\ SuffixAt(V, A, d)
                                 /\ \A i \in 1..d : A[i] + Window <= now
                                 /\ \A i \in d + 1..Len(A) : A[i] + Window > now
<1>. DEFINE keep == {t \in Nat : t > now - Window}
<1>1. V \in Seq(Times)
  BY SelectedType
<1>2. PICK d \in 0..Len(A) : SuffixAt(W, A, d) /\ \A i \in 1..d : A[i] + Window <= now
  BY DEF RateInv
<1>3. Len(A) \in Nat /\ Len(W) \in Nat /\ Len(V) \in Nat
  BY <1>1, LenProperties
<1>4. \A i \in 1..Len(A) : A[i] \in Nat
  BY Bounds, ElementOfSeq DEF Times
<1>6. \A i \in 1..d : A[i] \notin keep
  <2>1. \A i \in 1..d : i \in 1..Len(A)
    BY <1>2, <1>3
  <2>. QED  BY <1>2, <1>4, <2>1, Bounds DEF Times
<1>7. ASSUME NEW i \in 1..Len(A), NEW j \in 1..Len(A), i < j, A[i] \in keep PROVE A[j] \in keep
  <2>1. A[i] <= A[j] /\ A[i] > now - Window
    BY <1>7 DEF RateInv
  <2>. QED  BY <1>4, <2>1, Bounds DEF Times
<1>8. PICK e \in 0..Len(A) : /\ SuffixAt(V, A, e)
                             /\ \A i \in 1..e : A[i] \notin keep
                             /\ \A i \in e + 1..Len(A) : A[i] \in keep
  <2>1. PICK K : K = keep
    OBVIOUS
  <2>. HIDE DEF keep
  <2>2. V = Selected(W, K)
    BY <2>1 DEF keep
  <2>3. /\ \A i \in 1..d : A[i] \notin K
        /\ \A i, j \in 1..Len(A) : i < j /\ A[i] \in K => A[j] \in K
    BY <1>6, <1>7, <2>1
  <2>4. \E e \in 0..Len(A) : /\ SuffixAt(Selected(W, K), A, e)
                             /\ \A i \in 1..e : A[i] \notin K
                             /\ \A i \in e + 1..Len(A) : A[i] \in K
    BY <1>2, <2>3, SelectedSuffixAt
  <2>. QED  BY <2>1, <2>2, <2>4, Zenon
<1>9. \A i \in 1..e : A[i] + Window <= now
  <2>1. \A i \in 1..e : i \in 1..Len(A) /\ A[i] \notin keep
    BY <1>3, <1>8
  <2>. QED  BY <1>4, <2>1, Bounds DEF Times
<1>10. \A i \in e + 1..Len(A) : A[i] + Window > now
  <2>1. \A i \in e + 1..Len(A) : i \in 1..Len(A) /\ A[i] \in keep
    BY <1>3, <1>8
  <2>. QED  BY <1>4, <2>1, Bounds DEF Times
<1>. QED  BY <1>1, <1>8, <1>9, <1>10

\* An admission, with fewer than Limit in the window, keeps the limit.
LEMMA Admitted ==
  ASSUME NEW A \in Seq(Times), NEW W \in Seq(Times), NEW R, R \subseteq Times, NEW now \in Times,
         RateInv(A, W, R, now),
         NEW V, V = Selected(W, {t \in Nat : t > now - Window}), Len(V) < Limit
  PROVE  RateInv(Append(A, now), Append(V, now), R, now)
<1>. DEFINE B == Append(A, now)
            U == Append(V, now)
<1>1. V \in Seq(Times)
  BY Pruned
<1>2. PICK d \in 0..Len(A) : /\ SuffixAt(V, A, d)
                             /\ \A i \in 1..d : A[i] + Window <= now
                             /\ \A i \in d + 1..Len(A) : A[i] + Window > now
  BY Pruned
<1>3. Len(A) \in Nat /\ \A i \in 1..Len(A) : A[i] \in Nat /\ A[i] <= now
  BY LenProperties, ElementOfSeq, Bounds DEF Times, RateInv
<1>4. /\ Len(B) = Len(A) + 1 /\ B[Len(A) + 1] = now
      /\ \A i \in 1..Len(A) : B[i] = A[i]
  BY AppendProperties
<1>5. /\ Len(U) = Len(V) + 1 /\ U[Len(V) + 1] = now
      /\ \A i \in 1..Len(V) : U[i] = V[i]
  BY <1>1, AppendProperties
<1>6. now \in Int /\ Len(V) = Len(A) - d /\ Len(V) \in Nat
  BY <1>1, <1>2, LenProperties, Bounds DEF SuffixAt, Times
<1>. HIDE DEF B, U
<1>7. \A i, j \in 1..Len(B) : i < j => B[i] <= B[j]
  <2>1. \A i, j \in 1..Len(A) : i < j => A[i] <= A[j]
    BY DEF RateInv
  <2>. TAKE i, j \in 1..Len(B)
  <2>. HAVE i < j
  <2>2. i \in 1..Len(A) /\ (j \in 1..Len(A) \/ j = Len(A) + 1)
    <3>1. Len(A) \in Nat /\ i \in 1..Len(A) + 1 /\ j \in 1..Len(A) + 1 /\ i < j
      BY <1>3, <1>4
    <3>. QED  BY <3>1
  <2>. QED  BY <1>3, <1>4, <1>6, <2>1, <2>2
<1>8. \A i \in 1..Len(B) : B[i] <= now
  BY <1>3, <1>4, <1>6
<1>9. ASSUME NEW i \in 1..Len(B), i + Limit <= Len(B) PROVE B[i] + Window <= B[i + Limit]
  <2>1. i \in 1..Len(A) /\ B[i] = A[i]
    BY <1>3, <1>4, <1>9, Bounds
  <2>2. CASE i + Limit = Len(B)
    <3>1. i \in 1..d
      BY <1>3, <1>4, <1>6, <2>2, Bounds
    <3>2. B[i + Limit] = now /\ A[i] + Window <= now
      BY <1>2, <1>4, <2>2, <3>1
    <3>. QED  BY <2>1, <3>2
  <2>3. CASE i + Limit <= Len(A)
    <3>1. B[i + Limit] = A[i + Limit]
      BY <1>4, <2>1, <2>3, Bounds
    <3>. QED  BY <2>1, <2>3, <3>1 DEF RateInv
  <2>4. i + Limit = Len(B) \/ i + Limit <= Len(A)
    <3>1. Len(A) \in Nat /\ Len(B) = Len(A) + 1 /\ i \in 1..Len(A) /\ i + Limit <= Len(A) + 1
      BY <1>3, <1>4, <1>9, <2>1
    <3>. QED  BY <3>1, Bounds
  <2>. QED  BY <2>2, <2>3, <2>4
<1>10. d \in 0..Len(B) /\ SuffixAt(U, B, d) /\ \A i \in 1..d : B[i] + Window <= now
  <2>1. ASSUME NEW i \in 1..Len(U) PROVE U[i] = B[d + i]
    <3>1. CASE i = Len(V) + 1
      BY <1>2, <1>3, <1>4, <1>5, <1>6, <3>1
    <3>2. CASE i \in 1..Len(V)
      <4>1. d + i \in 1..Len(A)
        BY <1>2, <1>3, <1>6, <3>2
      <4>. QED  BY <1>2, <1>4, <1>5, <3>2, <4>1 DEF SuffixAt
    <3>. QED  BY <1>5, <1>6, <3>1, <3>2
  <2>2. \A i \in 1..d : B[i] = A[i]
    BY <1>3, <1>4
  <2>. QED  BY <1>2, <1>3, <1>4, <1>5, <1>6, <2>1, <2>2 DEF SuffixAt
<1>11. ASSUME NEW t \in R
       PROVE  /\ t <= now
              /\ \E m \in Nat : /\ m + Limit <= Len(B)
                                /\ \A i \in 1..Len(B) :
                                     t < B[i] + Window /\ B[i] <= t <=> i \in m + 1..m + Limit
  <2>1. PICK m \in Nat : /\ m + Limit <= Len(A)
                         /\ \A i \in 1..Len(A) :
                              t < A[i] + Window /\ A[i] <= t <=> i \in m + 1..m + Limit
    BY DEF RateInv
  <2>2. t <= now /\ t \in Int
    BY Bounds DEF RateInv, Times
  <2>3. t # now
    <3>. SUFFICES ASSUME t = now PROVE FALSE
      OBVIOUS
    <3>1. m + 1 \in m + 1..m + Limit /\ m + 1 \in 1..Len(A)
      BY <1>3, <2>1, Bounds
    <3>2. now < A[m + 1] + Window /\ A[m + 1] \in Nat
      BY <1>3, <2>1, <3>1
    <3>3. m + 1 \notin 1..d
      BY <1>2, <1>6, <3>2, Bounds
    <3>. QED  BY <1>3, <1>6, <2>1, <3>3, Bounds
  <2>4. \A i \in 1..Len(B) : t < B[i] + Window /\ B[i] <= t <=> i \in m + 1..m + Limit
    <3>. TAKE i \in 1..Len(B)
    <3>1. CASE i \in 1..Len(A)
      BY <1>4, <2>1, <3>1
    <3>2. CASE i = Len(A) + 1
      <4>1. i \notin m + 1..m + Limit
        BY <1>3, <2>1, <3>2, Bounds
      <4>. QED  BY <1>4, <1>6, <2>2, <2>3, <3>2, <4>1
    <3>. QED  BY <1>3, <1>4, <3>1, <3>2
  <2>5. m + Limit <= Len(B)
    BY <1>3, <1>4, <2>1, Bounds
  <2>. QED  BY <2>1, <2>2, <2>4, <2>5
<1>. QED  BY <1>7, <1>8, <1>9, <1>10, <1>11 DEF RateInv, B, U

\* A refusal, with Limit in the window, adds a time whose window held Limit.
LEMMA RefusedOnce ==
  ASSUME NEW A \in Seq(Times), NEW W \in Seq(Times), NEW R, R \subseteq Times, NEW now \in Times,
         RateInv(A, W, R, now), Len(W) <= Limit,
         NEW V, V = Selected(W, {t \in Nat : t > now - Window}), ~(Len(V) < Limit)
  PROVE  RateInv(A, V, R \cup {now}, now)
<1>1. V \in Seq(Times) /\ Len(V) \in Nat /\ Len(V) <= Len(W) /\ Len(W) \in Nat /\ Len(A) \in Nat
  BY Pruned, SelectedType, LenProperties
<1>2. PICK d \in 0..Len(A) : /\ SuffixAt(V, A, d)
                             /\ \A i \in 1..d : A[i] + Window <= now
                             /\ \A i \in d + 1..Len(A) : A[i] + Window > now
  BY Pruned
<1>3. Len(V) = Limit /\ d + Limit = Len(A) /\ d \in Nat /\ now \in Nat
  <2>1. Len(V) = Limit
    BY <1>1, Bounds
  <2>2. d \in Nat /\ d + Len(V) = Len(A) /\ now \in Nat
    BY <1>1, <1>2, Bounds DEF SuffixAt, Times
  <2>. QED  BY <2>1, <2>2
<1>4. \A i \in 1..Len(A) : A[i] \in Nat /\ A[i] <= now
  BY ElementOfSeq, Bounds DEF Times, RateInv
<1>5. ASSUME NEW i \in 1..Len(A) PROVE now < A[i] + Window /\ A[i] <= now <=> i \in d + 1..d + Limit
  <2>1. CASE i \in 1..d
    <3>1. A[i] + Window <= now /\ i \notin d + 1..d + Limit
      BY <1>2, <1>3, <2>1
    <3>. QED  BY <1>3, <1>4, <3>1, Bounds
  <2>2. CASE i \in d + 1..Len(A)
    <3>1. A[i] + Window > now /\ i \in d + 1..d + Limit
      BY <1>2, <1>3, <2>2
    <3>. QED  BY <1>3, <1>4, <3>1, Bounds
  <2>3. i \in 1..d \/ i \in d + 1..Len(A)
    BY <1>1, <1>3
  <2>. QED  BY <2>1, <2>2, <2>3
<1>6. ASSUME NEW t \in R \cup {now}
      PROVE  /\ t <= now
             /\ \E m \in Nat : /\ m + Limit <= Len(A)
                               /\ \A i \in 1..Len(A) :
                                    t < A[i] + Window /\ A[i] <= t <=> i \in m + 1..m + Limit
  <2>1. CASE t \in R
    BY <2>1 DEF RateInv
  <2>2. CASE t = now
    BY <1>1, <1>3, <1>5, <2>2, Bounds
  <2>. QED  BY <2>1, <2>2
<1>. QED  BY <1>2, <1>6 DEF RateInv

\* Time only makes what was dropped older.
LEMMA LaterToo ==
  ASSUME NEW A \in Seq(Times), NEW W, NEW R, R \subseteq Times, NEW now \in Times,
         RateInv(A, W, R, now)
  PROVE  RateInv(A, W, R, now + 1)
<1>1. now \in Nat /\ R \subseteq Nat /\ \A i \in 1..Len(A) : A[i] \in Nat
  BY ElementOfSeq, Bounds DEF Times
<1>2. \A t \in R : t <= now + 1
  BY <1>1 DEF RateInv
<1>3. \A i \in 1..Len(A) : A[i] <= now + 1
  BY <1>1 DEF RateInv
<1>4. PICK d \in 0..Len(A) : SuffixAt(W, A, d) /\ \A i \in 1..d : A[i] + Window <= now
  BY DEF RateInv
<1>5. \A i \in 1..d : A[i] + Window <= now + 1
  <2>1. \A i \in 1..d : i \in 1..Len(A)
    BY <1>4, LenProperties
  <2>. QED  BY <1>1, <1>4, <2>1, Bounds
<1>. QED  BY <1>2, <1>3, <1>4, <1>5 DEF RateInv

\* Limit admissions at most within a window, and Limit where one was refused.
LEMMA RateBound ==
  ASSUME NEW A \in Seq(Times), NEW W, NEW R, R \subseteq Times, NEW now \in Times,
         RateInv(A, W, R, now), NEW t \in Nat,
         NEW during, during = {i \in DOMAIN A : t - Window < A[i] /\ A[i] <= t}
  PROVE  Cardinality(during) <= Limit /\ (t \in R => Cardinality(during) = Limit)
<1>1. /\ Len(A) \in Nat /\ DOMAIN A = 1..Len(A) /\ \A i \in 1..Len(A) : A[i] \in Nat
      /\ \A i \in 1..Len(A) : i + Limit <= Len(A) => A[i] + Window <= A[i + Limit]
      /\ \A i, j \in 1..Len(A) : i < j => A[i] <= A[j]
  BY LenProperties, ElementOfSeq, Bounds DEF Times, RateInv
<1>2. Cardinality(during) <= Limit
  <2>1. A \in Seq(Nat)
    BY SeqMonotonic, Bounds DEF Times
  <2>2. Spaced(A, Limit, Window)
    BY <1>1 DEF Spaced
  <2>3. Limit \in Nat \ {0} /\ Window \in Nat \ {0} /\ t \in Int
    BY Bounds
  <2>. QED  BY <2>1, <2>2, <2>3, SpacedCount
<1>3. ASSUME t \in R PROVE Cardinality(during) = Limit
  <2>1. PICK m \in Nat : /\ m + Limit <= Len(A)
                         /\ \A i \in 1..Len(A) :
                              t < A[i] + Window /\ A[i] <= t <=> i \in m + 1..m + Limit
    BY <1>3 DEF RateInv
  <2>2. \A i \in m + 1..m + Limit : i \in 1..Len(A)
    BY <1>1, <2>1, Bounds
  <2>3. \A i \in 1..Len(A) : t - Window < A[i] <=> t < A[i] + Window
    BY <1>1, Bounds
  <2>4. during = m + 1..m + Limit
    BY <1>1, <2>1, <2>2, <2>3
  <2>5. m + 1 \in Int /\ m + Limit \in Int /\ ~(m + 1 > m + Limit) /\ (m + Limit) - (m + 1) + 1 = Limit
    BY <2>1, Bounds
  <2>. QED  BY <2>4, <2>5, FS_Interval
<1>. QED  BY <1>2, <1>3

---------------------------------------------------------------------------
(* What is captured of one agent: T is everything, buf is what is held.      *)

Of(T, call, direction) == {i \in DOMAIN T : T[i].call = call /\ T[i].direction = direction}

\* A call that was sent and has no output yet, and one that has it.
Asked(T, call) ==
  \E i \in DOMAIN T : Of(T, call, "input") = {i} /\ Of(T, call, "output") = {}
Answered(T, call) ==
  \E i, j \in DOMAIN T : i < j /\ Of(T, call, "input") = {i} /\ Of(T, call, "output") = {j}

\* A record captured is the only new one of its call and direction.
LEMMA OfAppend ==
  ASSUME NEW T \in Seq(Record), NEW rec \in Record, NEW call, NEW direction
  PROVE  /\ DOMAIN T = 1..Len(T) /\ DOMAIN Append(T, rec) = 1..Len(T) + 1 /\ Len(T) \in Nat
         /\ rec.call = call /\ rec.direction = direction =>
              Of(Append(T, rec), call, direction) = Of(T, call, direction) \cup {Len(T) + 1}
         /\ ~(rec.call = call /\ rec.direction = direction) =>
              Of(Append(T, rec), call, direction) = Of(T, call, direction)
<1>1. DOMAIN T = 1..Len(T) /\ Len(T) \in Nat
  BY LenProperties
<1>. DEFINE U == Append(T, rec)
<1>2. /\ U \in Seq(Record) /\ Len(U) = Len(T) + 1 /\ U[Len(T) + 1] = rec
      /\ \A i \in 1..Len(T) : U[i] = T[i]
  BY AppendProperties
<1>. HIDE DEF U
<1>3. DOMAIN U = 1..Len(T) + 1
  BY <1>2, LenProperties
<1>4. \A i \in 1..Len(T) + 1 : i \in 1..Len(T) \/ i = Len(T) + 1
  BY <1>1
<1>5. Len(T) + 1 \notin 1..Len(T) /\ Len(T) + 1 \in 1..Len(T) + 1 /\ 1..Len(T) \subseteq 1..Len(T) + 1
  BY <1>1
<1>6. rec.call = call /\ rec.direction = direction =>
        Of(U, call, direction) = Of(T, call, direction) \cup {Len(T) + 1}
  BY <1>1, <1>2, <1>3, <1>4, <1>5 DEF Of
<1>7. ~(rec.call = call /\ rec.direction = direction) => Of(U, call, direction) = Of(T, call, direction)
  BY <1>1, <1>2, <1>3, <1>4, <1>5 DEF Of
<1>. QED  BY <1>1, <1>3, <1>6, <1>7 DEF U

\* The input of a call not seen before.
LEMMA AskedNow ==
  ASSUME NEW T \in Seq(Record), NEW rec \in Record, rec.direction = "input",
         \A i \in DOMAIN T : T[i].call # rec.call
  PROVE  Asked(Append(T, rec), rec.call)
<1>1. Of(T, rec.call, "input") = {} /\ Of(T, rec.call, "output") = {}
  BY DEF Of
<1>2. Of(Append(T, rec), rec.call, "input") = {Len(T) + 1} /\ Of(Append(T, rec), rec.call, "output") = {}
  <2>1. Of(Append(T, rec), rec.call, "input") = Of(T, rec.call, "input") \cup {Len(T) + 1}
    BY OfAppend
  <2>2. Of(Append(T, rec), rec.call, "output") = Of(T, rec.call, "output")
    BY OfAppend
  <2>. QED  BY <1>1, <2>1, <2>2
<1>3. Len(T) + 1 \in DOMAIN Append(T, rec)
  BY OfAppend
<1>. QED  BY <1>2, <1>3 DEF Asked

\* The output of a call that was sent.
LEMMA AnsweredNow ==
  ASSUME NEW T \in Seq(Record), NEW rec \in Record, rec.direction = "output", Asked(T, rec.call)
  PROVE  Answered(Append(T, rec), rec.call)
<1>1. PICK i \in DOMAIN T : Of(T, rec.call, "input") = {i} /\ Of(T, rec.call, "output") = {}
  BY DEF Asked
<1>2. /\ Of(Append(T, rec), rec.call, "input") = {i}
      /\ Of(Append(T, rec), rec.call, "output") = {Len(T) + 1}
  <2>1. Of(Append(T, rec), rec.call, "output") = Of(T, rec.call, "output") \cup {Len(T) + 1}
    BY OfAppend
  <2>2. Of(Append(T, rec), rec.call, "input") = Of(T, rec.call, "input")
    BY OfAppend
  <2>. QED  BY <1>1, <2>1, <2>2
<1>3. /\ Len(T) + 1 \in DOMAIN Append(T, rec) /\ i \in DOMAIN Append(T, rec) /\ i < Len(T) + 1
  BY <1>1, OfAppend
<1>. QED  BY <1>2, <1>3 DEF Answered

\* A record of another call changes nothing for this one.
LEMMA OthersStay ==
  ASSUME NEW T \in Seq(Record), NEW rec \in Record, NEW call, rec.call # call
  PROVE  /\ Asked(T, call) => Asked(Append(T, rec), call)
         /\ Answered(T, call) => Answered(Append(T, rec), call)
<1>1. \A direction : Of(Append(T, rec), call, direction) = Of(T, call, direction)
  BY OfAppend
<1>2. DOMAIN T \subseteq DOMAIN Append(T, rec)
  BY OfAppend
<1>. QED  BY <1>1, <1>2 DEF Asked, Answered

\* The buffer holds the newest records, BufferSize of them at most.
LEMMA NewestHeld ==
  ASSUME NEW T \in Seq(Record), NEW buf \in Seq(Record), NEW rec \in Record,
         \E d \in 0..Len(T) : SuffixAt(buf, T, d)
  PROVE  /\ Newest(Append(buf, rec)) \in Seq(Record)
         /\ Len(Newest(Append(buf, rec))) <= BufferSize
         /\ \E d \in 0..Len(Append(T, rec)) : SuffixAt(Newest(Append(buf, rec)), Append(T, rec), d)
<1>. DEFINE U == Append(T, rec)
            B == Append(buf, rec)
<1>1. PICK d \in 0..Len(T) : SuffixAt(buf, T, d)
  OBVIOUS
<1>2. /\ U \in Seq(Record) /\ Len(U) = Len(T) + 1 /\ U[Len(T) + 1] = rec
      /\ \A i \in 1..Len(T) : U[i] = T[i]
  BY AppendProperties
<1>3. /\ B \in Seq(Record) /\ Len(B) = Len(buf) + 1 /\ B[Len(buf) + 1] = rec
      /\ \A i \in 1..Len(buf) : B[i] = buf[i]
  BY AppendProperties
<1>. HIDE DEF U, B
<1>4. Len(T) \in Nat /\ Len(buf) \in Nat /\ d \in Nat /\ Len(buf) + d = Len(T)
  <2>1. Len(T) \in Nat /\ Len(buf) \in Nat
    BY LenProperties
  <2>2. d \in Nat
    BY <2>1
  <2>3. Len(buf) = Len(T) - d
    BY <1>1 DEF SuffixAt
  <2>. QED  BY <2>1, <2>2, <2>3
<1>5. ASSUME NEW i \in 1..Len(B) PROVE B[i] = U[d + i]
  <2>1. i \in 1..Len(buf) \/ i = Len(buf) + 1
    BY <1>3, <1>4
  <2>2. CASE i \in 1..Len(buf)
    <3>1. d + i \in 1..Len(T) /\ buf[i] = T[d + i]
      BY <1>1, <1>4, <2>2 DEF SuffixAt
    <3>. QED  BY <1>2, <1>3, <2>2, <3>1
  <2>3. CASE i = Len(buf) + 1
    <3>1. d + i = Len(T) + 1
      BY <1>4, <2>3
    <3>. QED  BY <1>2, <1>3, <2>3, <3>1
  <2>. QED  BY <2>1, <2>2, <2>3
<1>6. SuffixAt(B, U, d) /\ d \in 0..Len(U)
  <2>1. d \in 0..Len(U) /\ Len(B) = Len(U) - d
    BY <1>2, <1>3, <1>4
  <2>. QED  BY <1>5, <2>1 DEF SuffixAt
<1>7. CASE ~(Len(B) > BufferSize)
  <2>1. Newest(B) = B
    BY <1>7 DEF Newest
  <2>. QED  BY <1>3, <1>4, <1>6, <1>7, <2>1, Bounds DEF U, B
<1>8. CASE Len(B) > BufferSize
  <2>. DEFINE m == Len(B) - BufferSize + 1
              N == Newest(B)
  <2>1. N = SubSeq(B, m, Len(B))
    BY <1>8 DEF Newest
  <2>2. Len(B) \in Nat /\ m \in 2..Len(B) /\ m \in Int /\ Len(B) \in Int
    BY <1>3, <1>4, <1>8, Bounds
  <2>3. \A i \in m..Len(B) : B[i] \in Record
    BY <1>3, <2>2, ElementOfSeq
  <2>. HIDE DEF N
  <2>4. /\ N \in Seq(Record)
        /\ Len(N) = IF m <= Len(B) THEN Len(B) - m + 1 ELSE 0
        /\ \A i \in 1..Len(B) - m + 1 : N[i] = B[m + i - 1]
    BY <2>1, <2>2, <2>3, SubSeqProperties
  <2>5. Len(N) = BufferSize /\ Len(B) - m + 1 = BufferSize
    BY <2>2, <2>4, Bounds
  <2>6. ASSUME NEW i \in 1..Len(N) PROVE N[i] = U[(d + m - 1) + i]
    <3>1. m + i - 1 \in 1..Len(B) /\ d + (m + i - 1) = (d + m - 1) + i
      BY <1>4, <2>2, <2>5, Bounds
    <3>2. N[i] = B[m + i - 1]
      BY <2>4, <2>5
    <3>. QED  BY <1>5, <3>1, <3>2
  <2>7. /\ d + m - 1 \in 0..Len(U) /\ Len(N) = Len(U) - (d + m - 1)
    <3>1. Len(B) + d = Len(U)
      BY <1>2, <1>3, <1>4
    <3>2. m = Len(B) - BufferSize + 1
      OBVIOUS
    <3>. HIDE DEF m
    <3>. QED  BY <1>4, <2>2, <2>5, <3>1, <3>2, Bounds
  <2>8. SuffixAt(N, U, d + m - 1)
    BY <2>6, <2>7 DEF SuffixAt
  <2>9. Len(N) <= BufferSize
    BY <2>5, Bounds
  <2>. QED  BY <2>4, <2>7, <2>8, <2>9 DEF N, U, B
<1>. QED  BY <1>7, <1>8

---------------------------------------------------------------------------
(* The invariant.                                                          *)

RateOK == \A c \in Clients : RateInv(admitted[c], windows[c], refused[c], clock)

BufferNewest == \A a \in Agents : \E d \in 0..Len(tape[a]) : SuffixAt(buffer[a], tape[a], d)

\* The calls recorded and answered have numbers given out already, and the
\* ones answered have their input and their output.
RecordsOK ==
  /\ \A a \in Agents : \A i \in DOMAIN tape[a] : tape[a][i].call <= arrivals
  /\ \A f \in finished : f.call <= arrivals /\ Answered(tape[f.agent], f.call)

\* A request under way has a number of its own, and has been recorded as far as
\* it has come.
SlotsOK ==
  \A s \in Slots : request[s] # Idle =>
    /\ request[s].call <= arrivals
    /\ \A f \in finished : f.call # request[s].call
    /\ \A u \in Slots \ {s} : request[u] # Idle => request[u].call # request[s].call
    /\ request[s].pc = "forwarding" =>
         request[s].agent \in Agents /\ Asked(tape[request[s].agent], request[s].call)
    /\ request[s].pc = "analyzing" /\ request[s].agent \in Agents =>
         Answered(tape[request[s].agent], request[s].call)

\* The listener has begun before it receives anything, ends only when the
\* connection is lost, and meets the messages in the order they were published.
BusOK ==
  /\ listener.pc = "starting" => ~connected /\ queue = <<>>
  /\ listener.pc = "ended" => ~connected /\ queue = <<>>
  /\ \A i \in 1..Len(queue) :
       /\ queue[i].number <= published
       /\ \A j \in 1..Len(queue) : i < j => queue[i].number < queue[j].number
       /\ \A m \in heard : m.number < queue[i].number
       /\ listener.pc = "judging" => listener.message.number < queue[i].number
  /\ \A m \in heard : m.number <= published
  /\ listener.pc = "judging" =>
       /\ listener.message.number <= published
       /\ \A m \in heard : m.number < listener.message.number

IInv == TypeOK /\ RateOK /\ BufferNewest /\ RecordsOK /\ SlotsOK /\ BusOK

\* The types of the parts of the state that change together.
LimitTypes ==
  /\ windows \in [Clients -> Seq(Times)] /\ \A c \in Clients : Len(windows[c]) <= Limit
  /\ admitted \in [Clients -> Seq(Times)] /\ refused \in [Clients -> SUBSET Times]
CaptureTypes ==
  /\ buffer \in [Agents -> Seq(Record)] /\ \A a \in Agents : Len(buffer[a]) <= BufferSize
  /\ captured \in Nat /\ tape \in [Agents -> Seq(Record)]
Serving == {Idle} \cup [pc : {"forwarding", "analyzing"}, call : 1..MaxArrivals,
                        agent : Agents \cup {Stranger}]
ServiceTypes ==
  /\ request \in [Slots -> Serving] /\ arrivals \in 0..MaxArrivals
  /\ finished \subseteq [agent : Agents, call : 1..MaxArrivals]
BusTypes ==
  /\ connected \in BOOLEAN
  /\ listener \in [pc : {"starting", "listening", "ended"}]
               \cup [pc : {"judging"}, message : Messages]
  /\ queue \in Seq(Messages) /\ published \in 0..MaxMessages /\ heard \subseteq Messages

\* The type invariant, part by part.
LEMMA TypeParts ==
  TypeOK <=> LimitTypes /\ CaptureTypes /\ ServiceTypes /\ BusTypes /\ clock \in Times
BY DEF TypeOK, LimitTypes, CaptureTypes, ServiceTypes, BusTypes, Times, Serving

\* The invariant holds initially.
LEMMA InvInit == Init => IInv
<1>. SUFFICES ASSUME Init PROVE IInv
  OBVIOUS
<1>1. <<>> \in Seq(Times) /\ <<>> \in Seq(Record) /\ <<>> \in Seq(Messages) /\ Len(<<>>) = 0
  BY EmptySeq
<1>2. 0 <= Limit /\ 0 <= BufferSize /\ 0 \in Times /\ 0 \in 0..MaxArrivals /\ 0 \in 0..MaxMessages
  BY Bounds DEF Times
<1>3. TypeOK
  BY <1>1, <1>2, TypeParts
     DEF Init, LimitTypes, CaptureTypes, ServiceTypes, BusTypes, Serving, At, Idle
<1>4. RateInv(<<>>, <<>>, {}, 0)
  BY <1>1 DEF RateInv, SuffixAt
<1>5. \E d \in 0..Len(<<>>) : SuffixAt(<<>>, <<>>, d)
  BY <1>1 DEF SuffixAt
<1>6. RateOK /\ BufferNewest
  BY <1>4, <1>5 DEF Init, RateOK, BufferNewest
<1>7. RecordsOK /\ SlotsOK
  BY <1>1, LenProperties DEF Init, RecordsOK, SlotsOK
<1>8. BusOK
  BY <1>1 DEF Init, BusOK, At
<1>. QED  BY <1>3, <1>6, <1>7, <1>8 DEF IInv

---------------------------------------------------------------------------
(* The limits.                                                             *)

\* An admitted request drops what is a window old, and is one more.
LEMMA PassLimits ==
  ASSUME IInv, NEW c \in Clients, NEW path, Pass(c, path)
  PROVE  LimitTypes' /\ RateOK' /\ clock' \in Times
<1>. DEFINE A == admitted[c]
            W == windows[c]
            V == Recent(W)
<1>1. LimitTypes /\ clock \in Times /\ RateInv(A, W, refused[c], clock)
  BY TypeParts DEF IInv, RateOK
<1>2. A \in Seq(Times) /\ W \in Seq(Times) /\ refused[c] \subseteq Times
  BY <1>1 DEF LimitTypes
<1>3. V = Selected(W, {t \in Nat : t > clock - Window}) /\ Len(V) < Limit
  BY DEF Recent, Pass, BelowLimit
<1>4. /\ windows' = [windows EXCEPT ![c] = Append(V, clock)]
      /\ admitted' = [admitted EXCEPT ![c] = Append(A, clock)]
      /\ refused' = refused /\ clock' = clock
  BY DEF Pass
<1>. HIDE DEF V, W, A
<1>5. V \in Seq(Times)
  BY <1>1, <1>2, <1>3, SelectedType
<1>6. RateInv(Append(A, clock), Append(V, clock), refused[c], clock)
  BY <1>1, <1>2, <1>3, Admitted
<1>7. /\ Append(A, clock) \in Seq(Times)
      /\ Append(V, clock) \in Seq(Times) /\ Len(Append(V, clock)) = Len(V) + 1 /\ Len(V) \in Nat
  BY <1>1, <1>2, <1>5, AppendProperties, LenProperties
<1>8. Len(Append(V, clock)) <= Limit
  BY <1>3, <1>7, Bounds
<1>9. LimitTypes'
  BY <1>1, <1>4, <1>7, <1>8 DEF LimitTypes
<1>10. RateOK'
  BY <1>1, <1>4, <1>6 DEF LimitTypes, RateOK, IInv
<1>. QED  BY <1>1, <1>4, <1>9, <1>10

\* A refused request found a full window.
LEMMA RefuseLimits ==
  ASSUME IInv, NEW c \in Clients, NEW path, Refuse(c, path)
  PROVE  LimitTypes' /\ RateOK' /\ clock' \in Times
<1>. DEFINE A == admitted[c]
            W == windows[c]
            V == Recent(W)
<1>1. LimitTypes /\ clock \in Times /\ RateInv(A, W, refused[c], clock)
  BY TypeParts DEF IInv, RateOK
<1>2. A \in Seq(Times) /\ W \in Seq(Times) /\ refused[c] \subseteq Times /\ Len(W) <= Limit
  BY <1>1 DEF LimitTypes
<1>3. V = Selected(W, {t \in Nat : t > clock - Window}) /\ ~(Len(V) < Limit)
  BY DEF Recent, Refuse, BelowLimit
<1>4. /\ windows' = [windows EXCEPT ![c] = V]
      /\ refused' = [refused EXCEPT ![c] = refused[c] \cup {clock}]
      /\ admitted' = admitted /\ clock' = clock
  BY DEF Refuse
<1>. HIDE DEF V, W, A
<1>5. V \in Seq(Times) /\ Len(V) <= Len(W)
  BY <1>1, <1>2, <1>3, SelectedType
<1>6. RateInv(A, V, refused[c] \cup {clock}, clock)
  BY <1>1, <1>2, <1>3, RefusedOnce
<1>7. Len(V) <= Limit
  <2>1. Len(V) \in Nat /\ Len(W) \in Nat
    BY <1>2, <1>5, LenProperties
  <2>. QED  BY <1>2, <1>5, <2>1, Bounds
<1>8. refused[c] \cup {clock} \in SUBSET Times
  BY <1>1, <1>2
<1>9. LimitTypes'
  BY <1>1, <1>4, <1>5, <1>7, <1>8 DEF LimitTypes
<1>10. RateOK'
  BY <1>1, <1>4, <1>6 DEF LimitTypes, RateOK, IInv, A
<1>. QED  BY <1>1, <1>4, <1>9, <1>10

\* Time leaves the windows as they are.
LEMMA TickLimits ==
  ASSUME IInv, Tick
  PROVE  LimitTypes' /\ RateOK' /\ clock' \in Times
<1>1. LimitTypes /\ clock \in Times
  BY TypeParts DEF IInv
<1>2. clock' = clock + 1 /\ clock' \in Times /\ UNCHANGED limits
  BY <1>1, Bounds DEF Tick, Times
<1>3. ASSUME NEW c \in Clients PROVE RateInv(admitted[c], windows[c], refused[c], clock + 1)
  BY <1>1, LaterToo DEF LimitTypes, IInv, RateOK
<1>. QED  BY <1>1, <1>2, <1>3 DEF LimitTypes, RateOK, limits

\* So does a step of another part.
LEMMA SameLimits ==
  ASSUME IInv, UNCHANGED <<limits, clock>>
  PROVE  LimitTypes' /\ RateOK' /\ clock' \in Times
BY TypeParts DEF IInv, LimitTypes, RateOK, limits

---------------------------------------------------------------------------
(* The capture.                                                            *)

\* A record is put at the end of the buffer, which may lose its first.
LEMMA CaptureStep ==
  ASSUME IInv, NEW a \in Agents, NEW rec \in Record, Capture(a, rec)
  PROVE  CaptureTypes' /\ BufferNewest'
<1>1. CaptureTypes /\ BufferNewest
  BY TypeParts DEF IInv
<1>. DEFINE N == Newest(Append(buffer[a], rec))
            U == Append(tape[a], rec)
<1>2. buffer' = [buffer EXCEPT ![a] = N] /\ tape' = [tape EXCEPT ![a] = U] /\ captured' = captured + 1
  BY DEF Capture
<1>3. buffer[a] \in Seq(Record) /\ tape[a] \in Seq(Record)
  BY <1>1 DEF CaptureTypes
<1>4. N \in Seq(Record) /\ Len(N) <= BufferSize /\ \E d \in 0..Len(U) : SuffixAt(N, U, d)
  BY <1>1, <1>3, NewestHeld DEF BufferNewest
<1>5. U \in Seq(Record)
  BY <1>3, AppendProperties
<1>. HIDE DEF N, U
<1>6. CaptureTypes'
  BY <1>1, <1>2, <1>4, <1>5 DEF CaptureTypes
<1>7. BufferNewest'
  BY <1>1, <1>2, <1>4 DEF CaptureTypes, BufferNewest
<1>. QED  BY <1>6, <1>7

\* A step that captures nothing keeps the buffers.
LEMMA SameCapture ==
  ASSUME IInv, UNCHANGED capture
  PROVE  CaptureTypes' /\ BufferNewest'
BY TypeParts DEF IInv, CaptureTypes, BufferNewest, capture

---------------------------------------------------------------------------
(* The calls.                                                              *)

\* What a slot that serves a request holds.
LEMMA Serves ==
  ASSUME ServiceTypes, NEW s \in Slots, request[s] # Idle
  PROVE  /\ request[s] \in [pc : {"forwarding", "analyzing"}, call : 1..MaxArrivals,
                            agent : Agents \cup {Stranger}]
         /\ request[s].pc \in {"forwarding", "analyzing"} /\ request[s].call \in 1..MaxArrivals
         /\ request[s].agent \in Agents \cup {Stranger}
BY DEF ServiceTypes, Serving

\* The records are of calls that have arrived.
LEMMA RecordCalls ==
  ASSUME CaptureTypes, NEW a \in Agents
  PROVE  /\ tape[a] \in Seq(Record) /\ DOMAIN tape[a] = 1..Len(tape[a]) /\ Len(tape[a]) \in Nat
         /\ \A i \in DOMAIN tape[a] : tape[a][i].call \in 0..MaxArrivals
<1>1. tape[a] \in Seq(Record)
  BY DEF CaptureTypes
<1>2. DOMAIN tape[a] = 1..Len(tape[a]) /\ Len(tape[a]) \in Nat
  BY <1>1, LenProperties
<1>3. \A i \in DOMAIN tape[a] : tape[a][i] \in Record
  BY <1>1, <1>2, ElementOfSeq
<1>. QED  BY <1>1, <1>2, <1>3 DEF Record

\* Requests that are counted and no more.
LEMMA SameCalls ==
  ASSUME IInv, UNCHANGED <<tape, request, finished>>, arrivals' \in 0..MaxArrivals, arrivals <= arrivals'
  PROVE  ServiceTypes' /\ RecordsOK' /\ SlotsOK'
<1>1. ServiceTypes /\ CaptureTypes /\ arrivals \in Int /\ arrivals' \in Int
  BY TypeParts, Bounds DEF IInv, ServiceTypes
<1>2. ServiceTypes'
  BY <1>1 DEF ServiceTypes
<1>3. RecordsOK'
  <2>1. ASSUME NEW a \in Agents, NEW i \in DOMAIN tape[a] PROVE tape[a][i].call <= arrivals'
    <3>1. tape[a][i].call \in Int /\ tape[a][i].call <= arrivals
      BY <1>1, RecordCalls, Bounds DEF IInv, RecordsOK
    <3>. QED  BY <1>1, <3>1
  <2>2. ASSUME NEW f \in finished PROVE f.call <= arrivals' /\ Answered(tape[f.agent], f.call)
    <3>1. f.call \in Int /\ f.call <= arrivals
      BY <1>1, Bounds DEF IInv, RecordsOK, ServiceTypes
    <3>. QED  BY <1>1, <3>1 DEF IInv, RecordsOK
  <2>. QED  BY <2>1, <2>2 DEF RecordsOK
<1>4. SlotsOK'
  <2>1. ASSUME NEW s \in Slots, request[s] # Idle PROVE request[s].call <= arrivals'
    <3>1. request[s].call \in Int /\ request[s].call <= arrivals
      BY <1>1, <2>1, Serves, Bounds DEF IInv, SlotsOK
    <3>. QED  BY <1>1, <3>1
  <2>. QED  BY <2>1 DEF IInv, SlotsOK
<1>. QED  BY <1>2, <1>3, <1>4

\* A request that takes a slot with a new number, and whose input, if it is
\* forwarded, is captured.
LEMMA NewCall ==
  ASSUME IInv, NEW s \in Slots, request[s] = Idle, NEW a \in Agents \cup {Stranger},
         arrivals < MaxArrivals, arrivals' = arrivals + 1, finished' = finished,
         NEW pc \in {"forwarding", "analyzing"},
         request' = [request EXCEPT ![s] = [pc |-> pc, call |-> arrivals', agent |-> a]],
         pc = "forwarding" => a \in Agents, pc = "analyzing" => a = Stranger,
         IF pc = "forwarding" THEN Capture(a, [call |-> arrivals', direction |-> "input"])
         ELSE UNCHANGED capture
  PROVE  ServiceTypes' /\ RecordsOK' /\ SlotsOK'
<1>. DEFINE n == arrivals + 1
            new == [pc |-> pc, call |-> n, agent |-> a]
            rec == [call |-> n, direction |-> "input"]
<1>1. /\ ServiceTypes /\ CaptureTypes /\ RecordsOK /\ SlotsOK
      /\ arrivals \in 0..MaxArrivals /\ n \in 1..MaxArrivals /\ rec \in Record
  BY TypeParts, Bounds DEF IInv, ServiceTypes, Record
<1>2. request' = [request EXCEPT ![s] = new] /\ new \in Serving /\ new # Idle /\ new.call = n
      /\ new.pc = pc /\ new.agent = a
  BY <1>1 DEF Serving, Idle, At
<1>3. ServiceTypes'
  BY <1>1, <1>2 DEF ServiceTypes
<1>4. Stranger \notin Agents
  BY PerimeterAssumption
<1>5. tape' = IF pc = "forwarding" THEN [tape EXCEPT ![a] = Append(tape[a], rec)] ELSE tape
  BY DEF Capture, capture
<1>. HIDE DEF new
<1>6. ASSUME NEW b \in Agents, NEW call, call \in 1..MaxArrivals, call # n
      PROVE  /\ Asked(tape[b], call) => Asked(tape'[b], call)
             /\ Answered(tape[b], call) => Answered(tape'[b], call)
  <2>1. CASE pc = "forwarding" /\ b = a
    <3>1. tape'[b] = Append(tape[b], rec) /\ tape[b] \in Seq(Record)
      BY <1>1, <1>5, <2>1 DEF CaptureTypes
    <3>. QED  BY <1>1, <1>6, <3>1, OthersStay
  <2>2. CASE ~(pc = "forwarding" /\ b = a)
    <3>1. tape'[b] = tape[b]
      BY <1>1, <1>5, <2>2 DEF CaptureTypes
    <3>. QED  BY <3>1
  <2>. QED  BY <2>1, <2>2
<1>7. ASSUME NEW b \in Agents, NEW i \in DOMAIN tape[b]
      PROVE  tape[b][i].call <= n /\ tape[b][i].call # n
  <2>1. tape[b][i].call \in 0..MaxArrivals /\ tape[b][i].call <= arrivals
    BY <1>1, RecordCalls DEF RecordsOK
  <2>. QED  BY <1>1, <2>1, Bounds
<1>8. ASSUME NEW b \in Agents, NEW i \in DOMAIN tape'[b] PROVE tape'[b][i].call <= n
  <2>1. CASE pc = "forwarding" /\ b = a
    <3>1. tape'[b] = Append(tape[b], rec) /\ tape[b] \in Seq(Record)
      BY <1>1, <1>5, <2>1 DEF CaptureTypes
    <3>. DEFINE U == Append(tape[b], rec)
    <3>2. /\ DOMAIN U = 1..Len(tape[b]) + 1 /\ Len(tape[b]) \in Nat /\ DOMAIN tape[b] = 1..Len(tape[b])
          /\ U[Len(tape[b]) + 1] = rec /\ \A k \in 1..Len(tape[b]) : U[k] = tape[b][k]
      BY <1>1, <3>1, OfAppend, AppendProperties
    <3>. HIDE DEF U
    <3>3. CASE i = Len(tape[b]) + 1
      BY <1>1, <3>1, <3>2, <3>3 DEF U
    <3>4. CASE i \in DOMAIN tape[b]
      BY <1>7, <3>1, <3>2, <3>4 DEF U
    <3>. QED  BY <3>1, <3>2, <3>3, <3>4 DEF U
  <2>2. CASE ~(pc = "forwarding" /\ b = a)
    <3>1. tape'[b] = tape[b]
      BY <1>1, <1>5, <2>2 DEF CaptureTypes
    <3>. QED  BY <1>7, <3>1
  <2>. QED  BY <2>1, <2>2
<1>9. ASSUME NEW f \in finished
      PROVE  f.call <= n /\ f.call # n /\ Answered(tape'[f.agent], f.call)
  <2>1. f.agent \in Agents /\ f.call \in 1..MaxArrivals /\ f.call <= arrivals
        /\ Answered(tape[f.agent], f.call)
    BY <1>1 DEF ServiceTypes, RecordsOK
  <2>2. f.call # n /\ f.call <= n
    BY <1>1, <2>1, Bounds
  <2>. QED  BY <1>6, <2>1, <2>2
<1>10. RecordsOK'
  BY <1>8, <1>9 DEF RecordsOK
<1>11. ASSUME NEW u \in Slots, u # s, request[u] # Idle
       PROVE  /\ request[u].call <= n /\ request[u].call # n
              /\ request[u].pc = "forwarding" =>
                   request[u].agent \in Agents /\ Asked(tape'[request[u].agent], request[u].call)
              /\ request[u].pc = "analyzing" /\ request[u].agent \in Agents =>
                   Answered(tape'[request[u].agent], request[u].call)
  <2>1. request[u].call \in 1..MaxArrivals /\ request[u].call <= arrivals
    BY <1>1, <1>11, Serves DEF SlotsOK
  <2>2. request[u].call # n /\ request[u].call <= n
    BY <1>1, <2>1, Bounds
  <2>. QED  BY <1>1, <1>6, <1>11, <2>1, <2>2 DEF SlotsOK
<1>12. pc = "forwarding" => a \in Agents /\ Asked(tape'[a], n)
  <2>. SUFFICES ASSUME pc = "forwarding" PROVE Asked(tape'[a], n)
    OBVIOUS
  <2>1. tape'[a] = Append(tape[a], rec) /\ tape[a] \in Seq(Record)
    BY <1>1, <1>5 DEF CaptureTypes
  <2>. QED  BY <1>1, <1>7, <2>1, AskedNow
<1>13. request'[s] = new /\ \A u \in Slots : u # s => request'[u] = request[u]
  BY <1>1, <1>2 DEF ServiceTypes
<1>14. ASSUME NEW u \in Slots, request'[u] # Idle
       PROVE  /\ request'[u].call <= n
              /\ \A f \in finished : f.call # request'[u].call
              /\ \A v \in Slots \ {u} : request'[v] # Idle => request'[v].call # request'[u].call
              /\ request'[u].pc = "forwarding" =>
                   request'[u].agent \in Agents /\ Asked(tape'[request'[u].agent], request'[u].call)
              /\ request'[u].pc = "analyzing" /\ request'[u].agent \in Agents =>
                   Answered(tape'[request'[u].agent], request'[u].call)
  <2>1. CASE u = s
    <3>1. n <= n
      BY <1>1
    <3>. HIDE DEF n
    <3>. QED  BY <1>2, <1>4, <1>9, <1>11, <1>12, <1>13, <2>1, <3>1
  <2>2. CASE u # s
    <3>1. request'[u] = request[u]
      BY <1>13, <2>2
    <3>2. \A v \in Slots \ {u} : request'[v] # Idle => request'[v].call # request[u].call
      BY <1>1, <1>2, <1>11, <1>13, <1>14, <2>2, <3>1 DEF SlotsOK
    <3>. QED  BY <1>1, <1>11, <1>14, <2>2, <3>1, <3>2 DEF SlotsOK
  <2>. QED  BY <2>1, <2>2
<1>15. SlotsOK'
  BY <1>14 DEF SlotsOK
<1>. QED  BY <1>3, <1>10, <1>15

\* A forwarded call ends, however it ends: its output is captured.
LEMMA ForwardedCall ==
  ASSUME IInv, NEW s \in Slots, NEW outcome \in Outcomes, Forwarded(s, outcome)
  PROVE  ServiceTypes' /\ RecordsOK' /\ SlotsOK' /\ CaptureTypes' /\ BufferNewest'
<1>. DEFINE r == request[s]
            rec == [call |-> request[s].call, direction |-> "output"]
            new == [pc |-> "analyzing", call |-> request[s].call, agent |-> request[s].agent]
<1>1. /\ ServiceTypes /\ CaptureTypes /\ RecordsOK /\ SlotsOK
      /\ arrivals \in 0..MaxArrivals /\ r.pc = "forwarding" /\ r # Idle
  BY TypeParts DEF IInv, ServiceTypes, Forwarded, Idle, At
<1>2. /\ r.call \in 1..MaxArrivals /\ r.call <= arrivals /\ r.agent \in Agents
      /\ Asked(tape[r.agent], r.call) /\ rec \in Record
  <2>1. r.call \in 1..MaxArrivals /\ r.call <= arrivals /\ r.agent \in Agents
        /\ Asked(tape[r.agent], r.call)
    BY <1>1, Serves DEF SlotsOK
  <2>2. rec \in Record
    BY <2>1, Bounds DEF Record
  <2>. QED  BY <2>1, <2>2
<1>3. /\ request' = [request EXCEPT ![s].pc = "analyzing"] /\ Capture(r.agent, rec)
      /\ UNCHANGED <<arrivals, finished>>
  BY DEF Forwarded, Recorded
<1>4. request' = [request EXCEPT ![s] = new] /\ new \in Serving /\ new # Idle
  <2>1. r = [pc |-> "forwarding", call |-> r.call, agent |-> r.agent]
    BY <1>1, Serves
  <2>2. [r EXCEPT !.pc = "analyzing"] = new
    BY <2>1
  <2>. QED  BY <1>1, <1>2, <1>3, <2>2 DEF Serving, Idle, At
<1>5. CaptureTypes' /\ BufferNewest'
  BY <1>2, <1>3, CaptureStep
<1>6. ServiceTypes'
  BY <1>1, <1>3, <1>4 DEF ServiceTypes
<1>7. tape' = [tape EXCEPT ![r.agent] = Append(tape[r.agent], rec)]
  BY <1>3 DEF Capture
<1>8. tape'[r.agent] = Append(tape[r.agent], rec) /\ tape[r.agent] \in Seq(Record)
  BY <1>1, <1>2, <1>7 DEF CaptureTypes
<1>9. ASSUME NEW b \in Agents, NEW call, call # r.call
      PROVE  /\ Asked(tape[b], call) => Asked(tape'[b], call)
             /\ Answered(tape[b], call) => Answered(tape'[b], call)
  <2>1. CASE b = r.agent
    BY <1>2, <1>8, <1>9, <2>1, OthersStay
  <2>2. CASE b # r.agent
    <3>1. tape'[b] = tape[b]
      BY <1>1, <1>7, <2>2 DEF CaptureTypes
    <3>. QED  BY <3>1
  <2>. QED  BY <2>1, <2>2
<1>10. ASSUME NEW b \in Agents, NEW i \in DOMAIN tape'[b] PROVE tape'[b][i].call <= arrivals
  <2>1. CASE b = r.agent
    <3>. DEFINE U == Append(tape[b], rec)
    <3>1. tape'[b] = U /\ tape[b] \in Seq(Record)
      BY <1>8, <2>1
    <3>2. /\ DOMAIN U = 1..Len(tape[b]) + 1 /\ Len(tape[b]) \in Nat /\ DOMAIN tape[b] = 1..Len(tape[b])
          /\ U[Len(tape[b]) + 1] = rec /\ \A k \in 1..Len(tape[b]) : U[k] = tape[b][k]
      BY <1>2, <3>1, OfAppend, AppendProperties
    <3>. HIDE DEF U
    <3>3. CASE i = Len(tape[b]) + 1
      BY <1>2, <3>1, <3>2, <3>3
    <3>4. CASE i \in DOMAIN tape[b]
      BY <1>1, <3>1, <3>2, <3>4 DEF RecordsOK
    <3>. QED  BY <3>1, <3>2, <3>3, <3>4
  <2>2. CASE b # r.agent
    <3>1. tape'[b] = tape[b]
      BY <1>1, <1>7, <2>2 DEF CaptureTypes
    <3>. QED  BY <1>1, <3>1 DEF RecordsOK
  <2>. QED  BY <2>1, <2>2
<1>11. ASSUME NEW f \in finished PROVE f.call <= arrivals /\ Answered(tape'[f.agent], f.call)
  <2>1. f.call # r.call
    BY <1>1 DEF SlotsOK
  <2>2. f.agent \in Agents /\ f.call <= arrivals /\ Answered(tape[f.agent], f.call)
    BY <1>1 DEF ServiceTypes, RecordsOK
  <2>. QED  BY <1>9, <2>1, <2>2
<1>12. RecordsOK'
  BY <1>3, <1>10, <1>11 DEF RecordsOK
<1>13. request'[s] = new /\ \A u \in Slots : u # s => request'[u] = request[u]
  BY <1>1, <1>4 DEF ServiceTypes
<1>14. new.call = r.call /\ new.pc = "analyzing" /\ new.agent = r.agent
  OBVIOUS
<1>15. Answered(tape'[r.agent], r.call)
  BY <1>2, <1>8, AnsweredNow
<1>16. ASSUME NEW u \in Slots, u # s, request[u] # Idle
       PROVE  /\ request[u].call # r.call
              /\ request[u].pc = "forwarding" =>
                   request[u].agent \in Agents /\ Asked(tape'[request[u].agent], request[u].call)
              /\ request[u].pc = "analyzing" /\ request[u].agent \in Agents =>
                   Answered(tape'[request[u].agent], request[u].call)
  <2>1. request[u].call # r.call
    BY <1>1, <1>16 DEF SlotsOK
  <2>. QED  BY <1>1, <1>9, <1>16, <2>1 DEF SlotsOK
<1>. HIDE DEF new
<1>17. ASSUME NEW u \in Slots, request'[u] # Idle
       PROVE  /\ request'[u].call <= arrivals
              /\ \A f \in finished : f.call # request'[u].call
              /\ \A v \in Slots \ {u} : request'[v] # Idle => request'[v].call # request'[u].call
              /\ request'[u].pc = "forwarding" =>
                   request'[u].agent \in Agents /\ Asked(tape'[request'[u].agent], request'[u].call)
              /\ request'[u].pc = "analyzing" /\ request'[u].agent \in Agents =>
                   Answered(tape'[request'[u].agent], request'[u].call)
  <2>1. CASE u = s
    <3>1. /\ request'[u] = new /\ \A f \in finished : f.call # r.call
      BY <1>1, <1>13, <2>1 DEF SlotsOK
    <3>2. \A v \in Slots \ {u} : request'[v] # Idle => request'[v].call # r.call
      BY <1>13, <1>16, <2>1
    <3>. QED  BY <1>2, <1>14, <1>15, <3>1, <3>2
  <2>2. CASE u # s
    <3>1. request'[u] = request[u] /\ request[u] # Idle
      BY <1>13, <1>17, <2>2
    <3>2. \A v \in Slots \ {u} : request'[v] # Idle => request'[v].call # request[u].call
      <4>1. ASSUME NEW v \in Slots \ {u}, request'[v] # Idle PROVE request'[v].call # request[u].call
        <5>1. CASE v = s
          BY <1>13, <1>14, <1>16, <2>2, <3>1, <5>1
        <5>2. CASE v # s
          BY <1>1, <1>13, <3>1, <4>1, <5>2 DEF SlotsOK
        <5>. QED  BY <5>1, <5>2
      <4>. QED  BY <4>1
    <3>. QED  BY <1>1, <1>16, <2>2, <3>1, <3>2 DEF SlotsOK
  <2>. QED  BY <2>1, <2>2
<1>18. SlotsOK'
  BY <1>3, <1>17 DEF SlotsOK
<1>. QED  BY <1>5, <1>6, <1>12, <1>18

\* A request is answered, and its call is finished.
LEMMA AnsweredCall ==
  ASSUME IInv, NEW s \in Slots, Answer(s)
  PROVE  ServiceTypes' /\ RecordsOK' /\ SlotsOK'
<1>. DEFINE r == request[s]
<1>1. /\ ServiceTypes /\ RecordsOK /\ SlotsOK
      /\ r.pc = "analyzing" /\ r # Idle /\ arrivals \in 0..MaxArrivals
  BY TypeParts DEF IInv, ServiceTypes, Answer, Idle, At
<1>2. /\ r.call \in 1..MaxArrivals /\ r.call <= arrivals
      /\ r.agent \in Agents => Answered(tape[r.agent], r.call)
  BY <1>1, Serves DEF SlotsOK
<1>3. /\ request' = [request EXCEPT ![s] = Idle] /\ UNCHANGED <<tape, arrivals>>
      /\ finished' = IF r.agent \in Agents THEN finished \cup {[agent |-> r.agent, call |-> r.call]}
                     ELSE finished
  BY DEF Answer, capture
<1>4. ServiceTypes'
  BY <1>1, <1>2, <1>3 DEF ServiceTypes, Serving
<1>5. RecordsOK'
  BY <1>1, <1>2, <1>3 DEF RecordsOK
<1>6. request'[s] = Idle /\ \A u \in Slots : u # s => request'[u] = request[u]
  BY <1>1, <1>3 DEF ServiceTypes
<1>7. ASSUME NEW u \in Slots, request'[u] # Idle
      PROVE  /\ u # s /\ request'[u] = request[u] /\ request[u] # Idle
             /\ \A f \in finished' : f.call # request[u].call
             /\ \A v \in Slots \ {u} : request'[v] # Idle => request'[v].call # request[u].call
  <2>1. u # s /\ request'[u] = request[u] /\ request[u] # Idle
    BY <1>6, <1>7
  <2>2. request[u].call # r.call
    BY <1>1, <2>1 DEF SlotsOK
  <2>3. \A f \in finished' : f \in finished \/ f.call = r.call
    BY <1>3
  <2>4. \A f \in finished' : f.call # request[u].call
    BY <1>1, <2>1, <2>2, <2>3 DEF SlotsOK
  <2>5. \A v \in Slots \ {u} : request'[v] # Idle => request'[v].call # request[u].call
    BY <1>1, <1>6, <2>1 DEF SlotsOK
  <2>. QED  BY <2>1, <2>4, <2>5
<1>8. SlotsOK'
  <2>1. ASSUME NEW u \in Slots, request'[u] # Idle
        PROVE  /\ request'[u].call <= arrivals
               /\ \A f \in finished' : f.call # request'[u].call
               /\ \A v \in Slots \ {u} : request'[v] # Idle => request'[v].call # request'[u].call
               /\ request'[u].pc = "forwarding" =>
                    request'[u].agent \in Agents /\ Asked(tape[request'[u].agent], request'[u].call)
               /\ request'[u].pc = "analyzing" /\ request'[u].agent \in Agents =>
                    Answered(tape[request'[u].agent], request'[u].call)
    BY <1>1, <1>7, <2>1 DEF SlotsOK
  <2>. QED  BY <1>3, <2>1 DEF SlotsOK
<1>. QED  BY <1>4, <1>5, <1>8

\* A message from the bus that is recorded is no call of the proxy.
LEMMA TappedCalls ==
  ASSUME IInv, NEW a \in Agents, Capture(a, [call |-> 0, direction |-> "tap"]),
         UNCHANGED <<request, arrivals, finished>>
  PROVE  ServiceTypes' /\ RecordsOK' /\ SlotsOK' /\ CaptureTypes' /\ BufferNewest'
<1>. DEFINE rec == [call |-> 0, direction |-> "tap"]
<1>1. ServiceTypes /\ CaptureTypes /\ RecordsOK /\ SlotsOK /\ rec \in Record /\ arrivals \in Nat
  BY TypeParts, Bounds DEF IInv, ServiceTypes, Record
<1>2. CaptureTypes' /\ BufferNewest'
  BY <1>1, CaptureStep
<1>3. tape' = [tape EXCEPT ![a] = Append(tape[a], rec)]
  BY DEF Capture
<1>4. tape[a] \in Seq(Record) /\ tape'[a] = Append(tape[a], rec) /\ \A b \in Agents : b # a => tape'[b] = tape[b]
  BY <1>1, <1>3 DEF CaptureTypes
<1>5. ASSUME NEW b \in Agents, NEW call \in 1..MaxArrivals
      PROVE  /\ Asked(tape[b], call) => Asked(tape'[b], call)
             /\ Answered(tape[b], call) => Answered(tape'[b], call)
  <2>1. rec.call # call
    BY Bounds
  <2>2. CASE b = a
    BY <1>1, <1>4, <2>1, <2>2, OthersStay
  <2>3. CASE b # a
    BY <1>4, <2>3
  <2>. QED  BY <2>2, <2>3
<1>6. ASSUME NEW b \in Agents, NEW i \in DOMAIN tape'[b] PROVE tape'[b][i].call <= arrivals
  <2>1. CASE b = a
    <3>. DEFINE U == Append(tape[b], rec)
    <3>1. tape'[b] = U /\ tape[b] \in Seq(Record)
      BY <1>4, <2>1
    <3>2. /\ DOMAIN U = 1..Len(tape[b]) + 1 /\ Len(tape[b]) \in Nat /\ DOMAIN tape[b] = 1..Len(tape[b])
          /\ U[Len(tape[b]) + 1] = rec /\ \A k \in 1..Len(tape[b]) : U[k] = tape[b][k]
      BY <1>1, <3>1, OfAppend, AppendProperties
    <3>. HIDE DEF U
    <3>3. CASE i = Len(tape[b]) + 1
      BY <1>1, <3>1, <3>2, <3>3
    <3>4. CASE i \in DOMAIN tape[b]
      BY <1>1, <3>1, <3>2, <3>4 DEF RecordsOK
    <3>. QED  BY <3>1, <3>2, <3>3, <3>4
  <2>2. CASE b # a
    BY <1>1, <1>4, <2>2 DEF RecordsOK
  <2>. QED  BY <2>1, <2>2
<1>7. \A f \in finished : Answered(tape'[f.agent], f.call)
  BY <1>1, <1>5 DEF ServiceTypes, RecordsOK
<1>8. RecordsOK'
  BY <1>1, <1>6, <1>7 DEF RecordsOK
<1>9. ASSUME NEW s \in Slots, request[s] # Idle
      PROVE  /\ request[s].pc = "forwarding" => Asked(tape'[request[s].agent], request[s].call)
             /\ request[s].pc = "analyzing" /\ request[s].agent \in Agents =>
                  Answered(tape'[request[s].agent], request[s].call)
  <2>1. request[s].call \in 1..MaxArrivals
    BY <1>1, <1>9, Serves
  <2>. QED  BY <1>1, <1>5, <1>9, <2>1 DEF SlotsOK
<1>10. SlotsOK'
  BY <1>1, <1>9 DEF SlotsOK
<1>11. ServiceTypes'
  BY <1>1 DEF ServiceTypes
<1>. QED  BY <1>2, <1>8, <1>10, <1>11

---------------------------------------------------------------------------
(* The bus.                                                                *)

\* What is known of the messages: their numbers, and the one being judged.
LEMMA BusFacts ==
  ASSUME BusTypes
  PROVE  /\ published \in Nat /\ Len(queue) \in Nat /\ DOMAIN queue = 1..Len(queue)
         /\ \A i \in 1..Len(queue) : queue[i] \in Messages /\ queue[i].number \in Nat
         /\ \A m \in heard : m.number \in Nat
         /\ listener.pc = "judging" =>
              listener.message \in Messages /\ listener.message.number \in Nat
         /\ \A m \in Messages : m.number \in 1..MaxMessages
<1>1. published \in Nat /\ \A m \in Messages : m.number \in 1..MaxMessages /\ m.number \in Nat
  BY Bounds DEF BusTypes, Messages
<1>2. Len(queue) \in Nat /\ DOMAIN queue = 1..Len(queue)
  BY LenProperties DEF BusTypes
<1>3. \A i \in 1..Len(queue) : queue[i] \in Messages
  BY ElementOfSeq DEF BusTypes
<1>4. listener.pc = "judging" => listener.message \in Messages
  BY DEF BusTypes
<1>. QED  BY <1>1, <1>2, <1>3, <1>4 DEF BusTypes

\* A step of another part leaves the listener and its queue.
LEMMA SameBus ==
  ASSUME IInv, UNCHANGED bus
  PROVE  BusTypes' /\ BusOK'
BY TypeParts DEF IInv, BusTypes, BusOK, bus

\* Connecting and ending neither take nor lose a message.
LEMMA ConnectionBus ==
  ASSUME IInv, Subscribe \/ CannotSubscribe \/ EndListening
  PROVE  BusTypes' /\ BusOK'
<1>1. BusTypes /\ BusOK
  BY TypeParts DEF IInv
<1>2. UNCHANGED <<queue, published, heard>>
  BY DEF Subscribe, CannotSubscribe, EndListening
<1>3. CASE Subscribe
  BY <1>1, <1>2, <1>3 DEF Subscribe, BusTypes, BusOK, At
<1>4. CASE CannotSubscribe \/ EndListening
  BY <1>1, <1>2, <1>4 DEF CannotSubscribe, EndListening, BusTypes, BusOK, At
<1>. QED  BY <1>3, <1>4

\* A message is put at the end of the queue, or heard by nobody.
LEMMA PublishBus ==
  ASSUME IInv, NEW kind \in Kinds, Publish(kind)
  PROVE  BusTypes' /\ BusOK'
<1>1. BusTypes /\ BusOK
  BY TypeParts DEF IInv
<1>. DEFINE new == [kind |-> kind, number |-> published + 1]
            Q == Append(queue, new)
<1>2. /\ published \in Nat /\ published' = published + 1 /\ published + 1 \in 1..MaxMessages
      /\ new \in Messages /\ new.number = published + 1
      /\ UNCHANGED <<connected, listener, heard>>
      /\ queue' = IF connected THEN Q ELSE queue
  BY <1>1, BusFacts, Bounds DEF Publish, BusTypes, Messages
<1>. HIDE DEF new
<1>3. /\ Q \in Seq(Messages) /\ Len(Q) = Len(queue) + 1 /\ Q[Len(queue) + 1] = new
      /\ \A i \in 1..Len(queue) : Q[i] = queue[i]
  BY <1>1, <1>2, AppendProperties DEF BusTypes
<1>. HIDE DEF Q
<1>4. BusTypes'
  BY <1>1, <1>2, <1>3 DEF BusTypes
<1>5. ASSUME NEW n \in Nat, n <= published PROVE n <= published + 1 /\ n < published + 1
  BY <1>2, <1>5
<1>6. CASE ~connected
  <2>1. UNCHANGED <<queue, connected, listener, heard>>
    BY <1>2, <1>6
  <2>2. /\ \A i \in 1..Len(queue) : queue[i].number <= published'
        /\ \A m \in heard : m.number <= published'
        /\ listener.pc = "judging" => listener.message.number <= published'
    BY <1>1, <1>2, <1>5, BusFacts DEF BusOK
  <2>. QED  BY <1>1, <1>4, <2>1, <2>2 DEF BusOK
<1>7. CASE connected
  <2>1. queue' = Q /\ UNCHANGED <<connected, listener, heard>> /\ Len(queue) \in Nat
    BY <1>1, <1>2, <1>7, BusFacts
  <2>2. /\ \A m \in heard : m.number <= published' /\ m.number < new.number
        /\ listener.pc = "judging" =>
             listener.message.number <= published' /\ listener.message.number < new.number
        /\ \A i \in 1..Len(queue) : queue[i].number <= published' /\ queue[i].number < new.number
        /\ new.number <= published'
    BY <1>1, <1>2, <1>5, BusFacts DEF BusOK
  <2>3. listener.pc # "starting" /\ listener.pc # "ended"
    BY <1>1, <1>7 DEF BusOK
  <2>4. ASSUME NEW i \in 1..Len(Q)
        PROVE  /\ Q[i].number <= published'
               /\ \A j \in 1..Len(Q) : i < j => Q[i].number < Q[j].number
               /\ \A m \in heard : m.number < Q[i].number
               /\ listener.pc = "judging" => listener.message.number < Q[i].number
    <3>1. \A j \in 1..Len(Q) : j \in 1..Len(queue) \/ j = Len(queue) + 1
      BY <1>3, <2>1
    <3>2. CASE i = Len(queue) + 1
      <4>1. \A j \in 1..Len(Q) : ~(i < j)
        BY <1>3, <2>1, <3>2
      <4>. QED  BY <1>3, <2>2, <3>2, <4>1
    <3>3. CASE i \in 1..Len(queue)
      <4>1. \A j \in 1..Len(Q) : i < j => Q[i].number < Q[j].number
        BY <1>1, <1>3, <2>2, <3>1, <3>3 DEF BusOK
      <4>. QED  BY <1>1, <1>3, <2>2, <3>3, <4>1 DEF BusOK
    <3>. QED  BY <3>1, <3>2, <3>3
  <2>5. BusOK'
    <3>. HIDE DEF new
    <3>. QED  BY <1>1, <2>1, <2>2, <2>3, <2>4 DEF BusOK
  <2>. QED  BY <1>4, <2>5
<1>. QED  BY <1>6, <1>7

\* The listener takes the first message.
LEMMA TakeBus ==
  ASSUME IInv, NEW a \in Agents, Take(a)
  PROVE  BusTypes' /\ BusOK'
<1>. DEFINE m == queue[1]
            Q == Tail(queue)
<1>1. BusTypes /\ BusOK /\ listener.pc = "listening"
  BY TypeParts DEF IInv, Take, At
<1>2. queue \in Seq(Messages) /\ queue # <<>> /\ Len(queue) \in Nat \ {0}
  BY <1>1, EmptySeq DEF BusTypes, Take
<1>3. /\ Q \in Seq(Messages) /\ Len(Q) = Len(queue) - 1
      /\ \A i \in 1..Len(Q) : Q[i] = queue[i + 1]
      /\ m = Head(queue) /\ m \in Messages
  <2>1. m = Head(queue)
    BY <1>2
  <2>. QED  BY <1>2, <2>1, HeadTailProperties
<1>4. /\ queue' = Q /\ UNCHANGED <<connected, published>>
      /\ \/ listener' = [pc |-> "judging", message |-> m] /\ heard' = heard
         \/ listener' = listener /\ heard' = heard \cup {m}
  BY <1>3 DEF Take
<1>. HIDE DEF Q, m
<1>5. \A i \in 1..Len(Q) : i + 1 \in 1..Len(queue) /\ 1 < i + 1 /\ 1 \in 1..Len(queue)
  BY <1>2, <1>3
<1>6. 1 \in 1..Len(queue)
  BY <1>2
<1>7. /\ m.number <= published /\ m.number \in Nat /\ \A x \in heard : x.number < m.number
  BY <1>1, <1>6, BusFacts DEF BusOK, m
<1>8. ASSUME NEW i \in 1..Len(Q)
      PROVE  /\ Q[i].number <= published /\ m.number < Q[i].number
             /\ \A x \in heard : x.number < Q[i].number
             /\ \A j \in 1..Len(Q) : i < j => Q[i].number < Q[j].number
  <2>1. Q[i] = queue[i + 1] /\ i + 1 \in 1..Len(queue) /\ 1 < i + 1
    BY <1>3, <1>5
  <2>2. Q[i].number <= published /\ m.number < Q[i].number /\ \A x \in heard : x.number < Q[i].number
    BY <1>1, <1>6, <2>1 DEF BusOK, m
  <2>3. ASSUME NEW j \in 1..Len(Q), i < j PROVE Q[i].number < Q[j].number
    <3>1. Q[j] = queue[j + 1] /\ j + 1 \in 1..Len(queue) /\ i + 1 < j + 1
      BY <1>3, <1>5, <2>3
    <3>. QED  BY <1>1, <2>1, <3>1 DEF BusOK
  <2>. QED  BY <2>2, <2>3
<1>9. CASE listener' = [pc |-> "judging", message |-> m] /\ heard' = heard
  <2>1. BusTypes'
    BY <1>1, <1>3, <1>4, <1>9 DEF BusTypes
  <2>2. BusOK'
    BY <1>1, <1>4, <1>7, <1>8, <1>9 DEF BusOK
  <2>. QED  BY <2>1, <2>2
<1>10. CASE listener' = listener /\ heard' = heard \cup {m}
  <2>1. BusTypes'
    BY <1>1, <1>3, <1>4, <1>10 DEF BusTypes
  <2>2. BusOK'
    BY <1>1, <1>4, <1>7, <1>8, <1>10 DEF BusOK
  <2>. QED  BY <2>1, <2>2
<1>. QED  BY <1>4, <1>9, <1>10

\* A message that was judged was dealt with.
LEMMA JudgedBus ==
  ASSUME IInv, NEW threat \in BOOLEAN, Judged(threat)
  PROVE  BusTypes' /\ BusOK'
<1>1. BusTypes /\ BusOK /\ listener.pc = "judging"
  BY TypeParts DEF IInv, Judged
<1>2. /\ listener' = At("listening") /\ heard' = heard \cup {listener.message}
      /\ UNCHANGED <<connected, queue, published>> /\ listener.message \in Messages
  BY <1>1, BusFacts DEF Judged, AfterJudged
<1>3. BusTypes'
  BY <1>1, <1>2 DEF BusTypes, At
<1>4. BusOK'
  BY <1>1, <1>2 DEF BusOK, At
<1>. QED  BY <1>3, <1>4

\* The loss of Redis loses the end of the queue.
LEMMA LoseBus ==
  ASSUME IInv, LoseRedis
  PROVE  BusTypes' /\ BusOK'
<1>1. BusTypes /\ BusOK /\ connected /\ Len(queue) \in Nat
  BY TypeParts, BusFacts DEF IInv, LoseRedis
<1>2. PICK n \in 0..Len(queue) : queue' = SubSeq(queue, 1, n)
  BY DEF LoseRedis
<1>3. connected' = FALSE /\ UNCHANGED <<listener, published, heard>>
  BY DEF LoseRedis
<1>4. n \in Nat /\ n <= Len(queue)
  BY <1>1
<1>5. queue' \in Seq(Messages) /\ Len(queue') = n /\ \A i \in 1..n : queue'[i] = queue[i]
  <2>1. \A i \in 1..n : queue[i] \in Messages
    BY <1>1, <1>4, BusFacts
  <2>2. /\ queue' \in Seq(Messages) /\ Len(queue') = IF 1 <= n THEN n - 1 + 1 ELSE 0
        /\ \A i \in 1..n - 1 + 1 : queue'[i] = queue[1 + i - 1]
    BY <1>2, <1>4, <2>1, SubSeqProperties
  <2>3. n - 1 + 1 = n /\ (~(1 <= n) => n = 0) /\ \A i \in 1..n : 1 + i - 1 = i
    BY <1>4
  <2>. QED  BY <2>2, <2>3
<1>6. listener.pc # "starting" /\ listener.pc # "ended"
  BY <1>1 DEF BusOK
<1>7. BusTypes'
  BY <1>1, <1>3, <1>5 DEF BusTypes
<1>8. \A i \in 1..n : i \in 1..Len(queue)
  BY <1>1, <1>4
<1>9. BusOK'
  BY <1>1, <1>3, <1>5, <1>6, <1>8 DEF BusOK
<1>. QED  BY <1>7, <1>9

---------------------------------------------------------------------------
(* The invariant, and what follows from it.                                *)

\* The invariant is inductive.
LEMMA InvNext == IInv /\ [Next]_vars => IInv'
<1>. SUFFICES ASSUME IInv, [Next]_vars PROVE IInv'
  OBVIOUS
<1>. DEFINE Limited == LimitTypes' /\ RateOK' /\ clock' \in Times
            Captured == CaptureTypes' /\ BufferNewest'
            Called == ServiceTypes' /\ RecordsOK' /\ SlotsOK'
            Heard == BusTypes' /\ BusOK'
<1>0. arrivals \in Nat /\ arrivals \in 0..MaxArrivals /\ arrivals <= arrivals
      /\ (arrivals < MaxArrivals => arrivals + 1 \in 0..MaxArrivals /\ arrivals <= arrivals + 1)
  BY TypeParts, Bounds DEF IInv, ServiceTypes
<1>1. SUFFICES Limited /\ Captured /\ Called /\ Heard
  <2>1. TypeOK' <=> LimitTypes' /\ CaptureTypes' /\ ServiceTypes' /\ BusTypes' /\ clock' \in Times
    BY DEF TypeOK, LimitTypes, CaptureTypes, ServiceTypes, BusTypes, Times, Serving
  <2>. QED  BY <2>1 DEF IInv
<1>2. CASE UNCHANGED vars
  BY <1>0, <1>2, SameLimits, SameCapture, SameCalls, SameBus DEF vars, capture
<1>3. ASSUME NEW c \in Clients, CheckHealth(c) PROVE Limited /\ Captured /\ Called /\ Heard
  BY <1>0, <1>3, PassLimits, SameCapture, SameCalls, SameBus DEF CheckHealth, Pass, capture
<1>4. ASSUME NEW c \in Clients, NEW path \in Paths, Refuse(c, path)
      PROVE  Limited /\ Captured /\ Called /\ Heard
  BY <1>0, <1>4, RefuseLimits, SameCapture, SameCalls, SameBus DEF Refuse, capture
<1>5. ASSUME NEW c \in Clients, NEW s \in Slots, Analyze(c, s)
      PROVE  Limited /\ Captured /\ Called /\ Heard
  <2>1. Called
    BY <1>5, NewCall DEF Analyze, Pass
  <2>. QED  BY <1>5, <2>1, PassLimits, SameCapture, SameBus DEF Analyze, Pass
<1>6. ASSUME NEW c \in Clients, NEW s \in Slots, NEW a \in Agents \cup {Stranger}, Proxy(c, s, a)
      PROVE  Limited /\ Captured /\ Called /\ Heard
  <2>1. Limited /\ Heard
    BY <1>6, PassLimits, SameBus DEF Proxy, Pass
  <2>2. CASE a \in Agents
    <3>1. Called
      BY <1>6, <2>2, NewCall DEF Proxy, Pass
    <3>2. [call |-> arrivals', direction |-> "input"] \in Record
      BY <1>0, <1>6 DEF Proxy, Pass, Record
    <3>. QED  BY <1>6, <2>1, <2>2, <3>1, <3>2, CaptureStep DEF Proxy
  <2>3. CASE a \notin Agents
    <3>1. a = Stranger
      BY <2>3
    <3>2. Called
      BY <1>6, <2>3, <3>1, NewCall DEF Proxy, Pass
    <3>. QED  BY <1>6, <2>1, <2>3, <3>2, SameCapture DEF Proxy
  <2>. QED  BY <2>2, <2>3
<1>7. ASSUME NEW s \in Slots, NEW outcome \in Outcomes, Forwarded(s, outcome)
      PROVE  Limited /\ Captured /\ Called /\ Heard
  BY <1>7, ForwardedCall, SameLimits, SameBus DEF Forwarded
<1>8. ASSUME NEW s \in Slots, Answer(s) PROVE Limited /\ Captured /\ Called /\ Heard
  BY <1>8, AnsweredCall, SameLimits, SameCapture, SameBus DEF Answer
<1>9. CASE Subscribe \/ CannotSubscribe \/ EndListening
  <2>1. UNCHANGED <<limits, request, capture, clock, arrivals, finished>>
    BY <1>9 DEF Subscribe, CannotSubscribe, EndListening
  <2>. QED  BY <1>0, <1>9, <2>1, ConnectionBus, SameLimits, SameCapture, SameCalls DEF capture
<1>10. ASSUME NEW kind \in Kinds, Publish(kind) PROVE Limited /\ Captured /\ Called /\ Heard
  <2>1. UNCHANGED <<limits, request, capture, clock, arrivals, finished>>
    BY <1>10 DEF Publish
  <2>. QED  BY <1>0, <1>10, <2>1, PublishBus, SameLimits, SameCapture, SameCalls DEF capture
<1>11. ASSUME NEW a \in Agents, Take(a) PROVE Limited /\ Captured /\ Called /\ Heard
  <2>1. UNCHANGED <<limits, request, clock, arrivals, finished>>
    BY <1>11 DEF Take
  <2>2. Capture(a, [call |-> 0, direction |-> "tap"]) \/ UNCHANGED capture
    BY <1>11 DEF Take
  <2>3. Captured /\ Called
    BY <1>0, <2>1, <2>2, TappedCalls, SameCapture, SameCalls DEF capture
  <2>. QED  BY <1>11, <2>1, <2>3, TakeBus, SameLimits
<1>12. ASSUME NEW threat \in BOOLEAN, Judged(threat) PROVE Limited /\ Captured /\ Called /\ Heard
  <2>1. UNCHANGED <<limits, request, capture, clock, arrivals, finished>>
    BY <1>12 DEF Judged
  <2>. QED  BY <1>0, <1>12, <2>1, JudgedBus, SameLimits, SameCapture, SameCalls DEF capture
<1>13. CASE LoseRedis
  <2>1. UNCHANGED <<limits, request, capture, clock, arrivals, finished>>
    BY <1>13 DEF LoseRedis
  <2>. QED  BY <1>0, <1>13, <2>1, LoseBus, SameLimits, SameCapture, SameCalls DEF capture
<1>14. CASE Tick
  BY <1>0, <1>14, TickLimits, SameCapture, SameCalls, SameBus DEF Tick, capture
<1>. HIDE DEF Limited, Captured, Called, Heard
<1>. QED  BY <1>2, <1>3, <1>4, <1>5, <1>6, <1>7, <1>8, <1>9, <1>10, <1>11, <1>12, <1>13, <1>14 DEF Next

\* The invariant holds in every state.
THEOREM Invariance == Spec => []IInv
BY InvInit, InvNext, PTL DEF Spec

\* Types: no window holds more than the limit and no buffer more than its size
\* (main.py 181-196, io_interceptor.py 70-79).
THEOREM TypeCorrect == Spec => []TypeOK
<1>1. IInv => TypeOK
  BY DEF IInv
<1>. QED  BY <1>1, Invariance, PTL

\* The limit is exact: Limit admissions at most within any window, whatever the
\* interleaving, and no refusal unless Limit admissions stand in the window that
\* ends there (main.py 181-196).
THEOREM LimitIsExact == Spec => []RateExact
<1>1. IInv => RateExact
  <2>. SUFFICES ASSUME IInv, NEW c \in Clients,
                       NEW t \in (0..clock) \cup refused[c],
                       NEW during, during = {i \in DOMAIN admitted[c] :
                                               t - Window < admitted[c][i] /\ admitted[c][i] <= t}
                PROVE  Cardinality(during) <= Limit /\ (t \in refused[c] => Cardinality(during) = Limit)
    BY Zenon DEF RateExact
  <2>1. /\ LimitTypes /\ clock \in Times /\ RateInv(admitted[c], windows[c], refused[c], clock)
    BY TypeParts DEF IInv, RateOK
  <2>2. admitted[c] \in Seq(Times) /\ refused[c] \subseteq Times
    BY <2>1 DEF LimitTypes
  <2>3. t \in Nat
    BY <2>1, <2>2, Bounds DEF Times
  <2>. QED  BY <2>1, <2>2, <2>3, RateBound
<1>. QED  BY <1>1, Invariance, PTL

\* What is a suffix element by element is one for the module of sequences.
LEMMA SuffixIs ==
  ASSUME NEW buf \in Seq(Record), NEW T \in Seq(Record), \E d \in 0..Len(T) : SuffixAt(buf, T, d)
  PROVE  IsSuffix(buf, T)
<1>. DEFINE B == Reverse(buf)
            U == Reverse(T)
            n == Len(buf)
<1>1. PICK d \in 0..Len(T) : SuffixAt(buf, T, d)
  OBVIOUS
<1>2. n \in Nat /\ Len(T) \in Nat
  BY LenProperties
<1>3. d \in Nat /\ n = Len(T) - d
  <2>1. d \in Nat
    BY <1>2
  <2>. QED  BY <1>1, <2>1 DEF SuffixAt
<1>4. \A i \in 1..n : buf[i] \in Record
  BY ElementOfSeq
<1>5. \A i \in 1..Len(T) : T[i] \in Record
  BY ElementOfSeq
<1>6. B = [i \in 1..n |-> buf[(n - i) + 1]] /\ U = [i \in 1..Len(T) |-> T[(Len(T) - i) + 1]]
  BY DEF Reverse
<1>. HIDE DEF B, U, n
<1>7. ASSUME NEW i \in 1..n PROVE B[i] = U[i] /\ B[i] \in Record
  <2>1. i \in 1..Len(T) /\ (n - i) + 1 \in 1..n /\ d + ((n - i) + 1) = (Len(T) - i) + 1
    BY <1>2, <1>3
  <2>2. buf[(n - i) + 1] = T[d + ((n - i) + 1)]
    BY <1>1, <2>1 DEF SuffixAt, n
  <2>3. B[i] = buf[(n - i) + 1] /\ U[i] = T[(Len(T) - i) + 1]
    BY <1>6, <2>1
  <2>. QED  BY <1>4, <2>1, <2>2, <2>3
<1>8. Len(B) = n /\ Len(U) = Len(T) /\ n <= Len(T)
  <2>1. DOMAIN B = 1..n /\ DOMAIN U = 1..Len(T)
    BY <1>6
  <2>2. B \in Seq(Record) /\ U \in Seq(Record)
    <3>1. B \in [1..n -> Record]
      BY <1>4, <1>6, <1>7
    <3>2. \A i \in 1..Len(T) : (Len(T) - i) + 1 \in 1..Len(T)
      BY <1>2
    <3>3. U \in [1..Len(T) -> Record]
      BY <1>5, <1>6, <3>2
    <3>. QED  BY <1>2, <3>1, <3>3, SeqDef
  <2>. QED  BY <1>2, <1>3, <2>1, <2>2, LenProperties
<1>9. SubSeq(B, 1, n) = SubSeq(U, 1, n)
  <2>1. 1 \in Int /\ n \in Int /\ n - 1 + 1 = n /\ (~(1 <= n) => n = 0) /\ \A i \in 1..n : 1 + i - 1 = i
    BY <1>2
  <2>2. /\ SubSeq(B, 1, n) \in Seq(Record) /\ Len(SubSeq(B, 1, n)) = n
        /\ \A i \in 1..n : SubSeq(B, 1, n)[i] = B[i]
    BY <1>7, <2>1, SubSeqProperties
  <2>3. /\ SubSeq(U, 1, n) \in Seq(Record) /\ Len(SubSeq(U, 1, n)) = n
        /\ \A i \in 1..n : SubSeq(U, 1, n)[i] = U[i]
    BY <1>7, <2>1, SubSeqProperties
  <2>. QED  BY <1>7, <2>2, <2>3, SeqEqual
<1>. QED  BY <1>8, <1>9 DEF IsSuffix, IsPrefix, B, U

\* An answered call has one input and after it one output among what was captured
\* of its agent, a call under way its input only, and the buffer holds the newest
\* part (main.py 384-411, io_interceptor.py 151-205).
THEOREM CallsAreCaptured == Spec => []CallsCaptured
<1>1. IInv => CallsCaptured
  <2>. SUFFICES ASSUME IInv PROVE CallsCaptured
    OBVIOUS
  <2>1. /\ CaptureTypes /\ ServiceTypes /\ RecordsOK /\ SlotsOK /\ BufferNewest
    BY TypeParts DEF IInv
  <2>2. \A a, call, direction : Entries(a, call, direction) = Of(tape[a], call, direction)
    BY DEF Entries, Of
  <2>3. ASSUME NEW f \in finished
        PROVE  \E i, j \in DOMAIN tape[f.agent] :
                 /\ i < j
                 /\ Entries(f.agent, f.call, "input") = {i}
                 /\ Entries(f.agent, f.call, "output") = {j}
    BY <2>1, <2>2 DEF RecordsOK, Answered
  <2>4. ASSUME NEW s \in Slots, request[s].pc = "forwarding"
        PROVE  /\ Cardinality(Entries(request[s].agent, request[s].call, "input")) = 1
               /\ Entries(request[s].agent, request[s].call, "output") = {}
    <3>1. request[s] # Idle
      BY <2>4 DEF Idle, At
    <3>2. Asked(tape[request[s].agent], request[s].call)
      BY <2>1, <2>4, <3>1 DEF SlotsOK
    <3>. QED  BY <2>2, <3>2, FS_Singleton DEF Asked
  <2>5. ASSUME NEW a \in Agents PROVE IsSuffix(buffer[a], tape[a])
    BY <2>1, SuffixIs DEF CaptureTypes, BufferNewest
  <2>. QED  BY <2>3, <2>4, <2>5 DEF CallsCaptured
<1>. QED  BY <1>1, Invariance, PTL

\* Only the loss of Redis ends the listening, after every message received, and
\* what was received is dealt with once and in its order (main.py 88-137).
THEOREM Listens == Spec => []ListensWhileConnected
<1>1. IInv => ListensWhileConnected
  <2>. SUFFICES ASSUME IInv PROVE ListensWhileConnected
    OBVIOUS
  <2>1. BusTypes /\ BusOK
    BY TypeParts DEF IInv
  <2>. DEFINE waiting == IF listener.pc = "judging" THEN <<listener.message>> \o queue ELSE queue
  <2>2. queue \in Seq(Messages) /\ Len(queue) \in Nat
    BY <2>1, BusFacts DEF BusTypes
  <2>3. ASSUME NEW i \in DOMAIN waiting
        PROVE  /\ waiting[i] \notin heard
               /\ \A m \in heard : m.number < waiting[i].number
               /\ \A j \in DOMAIN waiting : j > i => waiting[j].number > waiting[i].number
    <3>1. CASE listener.pc # "judging"
      <4>1. waiting = queue /\ DOMAIN waiting = 1..Len(queue)
        BY <2>1, <3>1, BusFacts
      <4>2. /\ \A m \in heard : m.number < queue[i].number
            /\ \A j \in 1..Len(queue) : j > i => queue[j].number > queue[i].number
            /\ queue[i].number \in Nat
        BY <2>1, <2>3, <4>1, BusFacts DEF BusOK
      <4>3. queue[i] \notin heard
        BY <4>2
      <4>. HIDE DEF waiting
      <4>. QED  BY <4>1, <4>2, <4>3
    <3>2. CASE listener.pc = "judging"
      <4>. DEFINE one == <<listener.message>>
      <4>1. /\ one \in Seq(Messages) /\ Len(one) = 1 /\ one[1] = listener.message
            /\ listener.message.number \in Nat
        BY <2>1, <3>2, BusFacts
      <4>2. waiting = one \o queue
        BY <3>2
      <4>. HIDE DEF waiting, one
      <4>3. /\ waiting \in Seq(Messages) /\ Len(waiting) = 1 + Len(queue)
            /\ \A k \in 1..1 + Len(queue) : waiting[k] = IF k <= 1 THEN one[k] ELSE queue[k - 1]
        <5>1. /\ one \o queue \in Seq(Messages) /\ Len(one \o queue) = Len(one) + Len(queue)
              /\ \A k \in 1..Len(one) + Len(queue) :
                   (one \o queue)[k] = IF k <= Len(one) THEN one[k] ELSE queue[k - Len(one)]
          BY <2>2, <4>1, ConcatProperties
        <5>. QED  BY <4>1, <4>2, <5>1
      <4>4. DOMAIN waiting = 1..1 + Len(queue)
        BY <4>3, LenProperties
      <4>5. waiting[1] = listener.message
            /\ \A k \in 2..1 + Len(queue) : waiting[k] = queue[k - 1] /\ k - 1 \in 1..Len(queue)
        BY <2>2, <4>1, <4>3
      <4>6. CASE i = 1
        <5>1. /\ \A m \in heard : m.number < listener.message.number
              /\ \A k \in 1..Len(queue) : listener.message.number < queue[k].number
          BY <2>1, <3>2 DEF BusOK
        <5>2. ASSUME NEW j \in DOMAIN waiting, j > i PROVE waiting[j].number > waiting[i].number
          <6>1. j \in 2..1 + Len(queue)
            BY <2>2, <4>4, <4>6, <5>2
          <6>2. waiting[j] = queue[j - 1] /\ j - 1 \in 1..Len(queue) /\ queue[j - 1].number \in Nat
            BY <2>1, <4>5, <6>1, BusFacts
          <6>. QED  BY <4>1, <4>5, <4>6, <5>1, <6>2
        <5>3. listener.message \notin heard
          BY <4>1, <5>1
        <5>. QED  BY <4>5, <4>6, <5>1, <5>2, <5>3
      <4>7. CASE i \in 2..1 + Len(queue)
        <5>1. waiting[i] = queue[i - 1] /\ i - 1 \in 1..Len(queue) /\ queue[i - 1].number \in Nat
          BY <2>1, <4>5, <4>7, BusFacts
        <5>2. \A m \in heard : m.number < queue[i - 1].number
          BY <2>1, <5>1 DEF BusOK
        <5>3. queue[i - 1] \notin heard
          BY <5>1, <5>2
        <5>4. ASSUME NEW j \in DOMAIN waiting, j > i PROVE waiting[j].number > waiting[i].number
          <6>1. j \in 2..1 + Len(queue) /\ i - 1 < j - 1
            BY <2>2, <4>4, <4>7, <5>4
          <6>2. waiting[j] = queue[j - 1] /\ j - 1 \in 1..Len(queue) /\ queue[j - 1].number \in Nat
            BY <2>1, <4>5, <6>1, BusFacts
          <6>3. queue[i - 1].number < queue[j - 1].number
            BY <2>1, <5>1, <6>1, <6>2 DEF BusOK
          <6>. QED  BY <5>1, <6>2, <6>3
        <5>. QED  BY <5>1, <5>2, <5>3, <5>4
      <4>8. i = 1 \/ i \in 2..1 + Len(queue)
        BY <2>2, <2>3, <4>4
      <4>. QED  BY <4>6, <4>7, <4>8
    <3>. QED  BY <3>1, <3>2
  <2>. QED  BY <2>1, <2>3 DEF BusOK, ListensWhileConnected
<1>. QED  BY <1>1, Invariance, PTL

================================================================================

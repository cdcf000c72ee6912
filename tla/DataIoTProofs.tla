---------------------------- MODULE DataIoTProofs ----------------------------
(* Theorems about TelemetryIngest: readings are applied in the order of their *)
(* source, the alert buffer is the end of the alerts raised, a broadcast      *)
(* misses no more clients than left behind it, and no simulation outlives a   *)
(* shutdown;                                                                  *)
(* and about MachineMonitoring: a failure is detected before the machine      *)
(* starts again, and a machine that reads the same raises nothing.            *)
EXTENDS TelemetryIngest, MachineMonitoring, FilterLemmas, FiniteSetTheorems

Alarming == {r \in Readings : r.alarm}

\* The readings in q wait to be applied after A: all from src, in its order.
Pending(q, src, A, now) ==
  /\ \A i \in 1..Len(q) : q[i].src = src /\ q[i].ts <= now
  /\ \A i, j \in 1..Len(q) : i < j => q[i].ts < q[j].ts
  /\ \A i \in 1..Len(q), j \in 1..Len(A) : A[j].src = src => A[j].ts < q[i].ts

\* The readings of A are in the order of their sources, and made by now.
InOrder(A, now) ==
  /\ \A i \in 1..Len(A) : A[i].ts <= now
  /\ \A i, j \in 1..Len(A) : i < j /\ A[i].src = A[j].src => A[i].ts < A[j].ts

\* s is the end of A, all of it or as much as the buffer holds.
EndOf(s, A) ==
  /\ Len(s) <= MaxAlerts /\ Len(s) <= Len(A)
  /\ Len(s) < MaxAlerts => Len(s) = Len(A)
  /\ \A i \in 1..Len(s) : s[i] = A[Len(A) - Len(s) + i]

OrderInv ==
  /\ InOrder(applied, clock)
  /\ Pending(mqttQueue, "mqtt", applied, clock)
  /\ \A t \in Posts \cup Sims : Pending(call[t].todo, t, applied, clock)
  /\ \A d \in Deliveries : call[d].todo = <<>>

\* Of the clients a call still owes the reading, it has passed by no more in
\* the list than were removed behind its position.
OwedInv ==
  \A t \in Calls : call[t].pc = "sending" =>
    Cardinality(call[t].owed \cap PassedBy(call[t], conns)) <= call[t].behind

\* A call owes the reading only to clients that have connected.
KnownInv == \A t \in Calls : \A c \in call[t].owed : peer[c] # "new"

SimsInv ==
  /\ \A s \in Sims : call[s].pc # "idle" => sims[s] \in {"ingesting", "cancelled"}
  /\ service \in {"closing", "stopped"} =>
       \A s \in Sims : sims[s] \notin {"sleeping", "ingesting"}

AlertsInv == EndOf(alerts, Selected(applied, Alarming))

Inv == TypeOK /\ OrderInv /\ OwedInv /\ SimsInv /\ AlertsInv
       /\ \A c \in Clients : peer[c] = "new" => ~Contains(conns, c)

---------------------------------------------------------------------------
(* Facts about the data.                                                   *)

\* The constants.
LEMMA Bounds ==
  /\ MaxAlerts \in Nat /\ MaxAlerts > 0 /\ MaxReadings \in Nat
  /\ IsFiniteSet(Clients) /\ Cardinality(Clients) \in Nat
  /\ "mqtt" \notin Calls /\ Posts \cap Sims = {} /\ (Posts \cup Sims) \cap Deliveries = {}
BY SourcesAssumption, BoundsAssumption, FS_CardinalityType

\* A reading's number is a natural.
LEMMA Numbers ==
  ASSUME NEW A \in Seq(Readings)
  PROVE  /\ Len(A) \in Nat
         /\ \A i \in 1..Len(A) : A[i] \in Readings /\ A[i].ts \in Nat
<1>1. \A r \in Readings : r.ts \in Nat
  <2>1. 1..MaxReadings \subseteq Nat
    BY Bounds
  <2>2. \A r \in Readings : r.ts \in 1..MaxReadings
    BY DEF Readings
  <2>. QED  BY <2>1, <2>2
<1>2. \A i \in 1..Len(A) : A[i] \in Readings
  BY ElementOfSeq
<1>. QED  BY <1>1, <1>2, LenProperties

\* The end of a sequence, in the slices of the code.
LEMMA LastOfProperties ==
  ASSUME NEW A, NEW s \in Seq(A), NEW n \in Nat \ {0}
  PROVE  /\ LastOf(s, n) \in Seq(A)
         /\ Len(LastOf(s, n)) = IF n < Len(s) THEN n ELSE Len(s)
         /\ \A i \in 1..Len(LastOf(s, n)) : LastOf(s, n)[i] = s[Len(s) - Len(LastOf(s, n)) + i]
<1>. DEFINE m == IF n < Len(s) THEN Len(s) - n + 1 ELSE 1
            l == LastOf(s, n)
<1>1. Len(s) \in Nat /\ m \in Int /\ m >= 1 /\ m <= Len(s) + 1
      /\ Len(s) - m + 1 = IF n < Len(s) THEN n ELSE Len(s)
  BY LenProperties
<1>2. l = SubSeq(s, m, Len(s))
  <2>1. n \in Nat /\ ~(n <= 0)
    OBVIOUS
  <2>. QED  BY <2>1 DEF LastOf
<1>3. \A i \in m..Len(s) : s[i] \in A
  <2>1. \A i \in m..Len(s) : i \in 1..Len(s)
    BY <1>1
  <2>. QED  BY <2>1, ElementOfSeq
<1>. HIDE DEF m, l
<1>4. /\ l \in Seq(A)
      /\ Len(l) = IF m <= Len(s) THEN Len(s) - m + 1 ELSE 0
      /\ \A i \in 1..Len(s) - m + 1 : l[i] = s[m + i - 1]
  BY <1>1, <1>2, <1>3, SubSeqProperties
<1>5. Len(l) = Len(s) - m + 1
  BY <1>1, <1>4
<1>6. \A i \in 1..Len(l) : l[i] = s[Len(s) - Len(l) + i]
  <2>. TAKE i \in 1..Len(l)
  <2>1. i \in 1..Len(s) - m + 1 /\ m + i - 1 = Len(s) - Len(l) + i
    BY <1>1, <1>5
  <2>. QED  BY <1>4, <2>1
<1>. QED  BY <1>1, <1>4, <1>5, <1>6 DEF l

\* Trimming the buffer after an alert leaves it the end of the alerts.
LEMMA TrimmedIsEnd ==
  ASSUME NEW A \in Seq(Readings), NEW s \in Seq(Readings), NEW r \in Readings, EndOf(s, A)
  PROVE  /\ Trimmed(Append(s, r)) \in Seq(Readings)
         /\ EndOf(Trimmed(Append(s, r)), Append(A, r))
<1>. DEFINE t == Append(s, r)
            u == Trimmed(t)
            B == Append(A, r)
<1>1. /\ t \in Seq(Readings) /\ Len(t) = Len(s) + 1 /\ t[Len(s) + 1] = r
      /\ \A i \in 1..Len(s) : t[i] = s[i]
  BY AppendProperties
<1>2. /\ Len(B) = Len(A) + 1 /\ B[Len(A) + 1] = r /\ \A i \in 1..Len(A) : B[i] = A[i]
  BY AppendProperties
<1>3. Len(s) \in Nat /\ Len(A) \in Nat
  BY LenProperties
<1>. HIDE DEF t, B
<1>4. \A i \in 1..Len(t) : t[i] = B[Len(B) - Len(t) + i]
  <2>. TAKE i \in 1..Len(t)
  <2>1. CASE i \in 1..Len(s)
    <3>1. s[i] = A[Len(A) - Len(s) + i] /\ Len(A) - Len(s) + i \in 1..Len(A)
      BY <1>3, <2>1 DEF EndOf
    <3>2. Len(B) - Len(t) + i = Len(A) - Len(s) + i
      BY <1>1, <1>2, <1>3, <2>1
    <3>. QED  BY <1>1, <1>2, <2>1, <3>1, <3>2
  <2>2. CASE i = Len(s) + 1
    <3>1. Len(B) - Len(t) + i = Len(A) + 1
      BY <1>1, <1>2, <1>3, <2>2
    <3>. QED  BY <1>1, <1>2, <2>2, <3>1
  <2>3. i \in 1..Len(s) \/ i = Len(s) + 1
    <3>1. i \in 1..Len(s) + 1
      BY <1>1
    <3>. QED  BY <1>3, <3>1
  <2>. QED  BY <2>1, <2>2, <2>3
<1>5. Len(s) <= MaxAlerts /\ Len(s) <= Len(A) /\ (Len(s) < MaxAlerts => Len(s) = Len(A))
  BY DEF EndOf
<1>6. CASE Len(t) > MaxAlerts
  <2>1. u = LastOf(t, MaxAlerts) /\ MaxAlerts < Len(t) /\ MaxAlerts \in Nat \ {0}
    BY <1>6, <1>1, <1>3, Bounds DEF Trimmed
  <2>. HIDE DEF u
  <2>2. /\ u \in Seq(Readings) /\ Len(u) = MaxAlerts
        /\ \A i \in 1..Len(u) : u[i] = t[Len(t) - Len(u) + i]
    BY <1>1, <2>1, LastOfProperties
  <2>3. \A i \in 1..Len(u) : u[i] = B[Len(B) - Len(u) + i]
    <3>. TAKE i \in 1..Len(u)
    <3>1. Len(t) - Len(u) + i \in 1..Len(t)
      BY <1>1, <1>3, <2>1, <2>2, Bounds
    <3>2. Len(B) - Len(t) + (Len(t) - Len(u) + i) = Len(B) - Len(u) + i
      BY <1>1, <1>2, <1>3, <2>2, Bounds
    <3>. QED  BY <1>4, <2>2, <3>1, <3>2
  <2>4. Len(u) <= MaxAlerts /\ Len(u) <= Len(B) /\ ~(Len(u) < MaxAlerts)
    BY <1>1, <1>2, <1>3, <1>5, <2>1, <2>2, Bounds
  <2>. QED  BY <2>2, <2>3, <2>4 DEF EndOf, u, t, B
<1>7. CASE ~(Len(t) > MaxAlerts)
  <2>1. u = t
    BY <1>7 DEF Trimmed
  <2>2. Len(t) <= MaxAlerts /\ Len(t) <= Len(B) /\ (Len(t) < MaxAlerts => Len(t) = Len(B))
    BY <1>1, <1>2, <1>3, <1>5, <1>7, Bounds
  <2>. QED  BY <1>1, <1>4, <2>1, <2>2 DEF EndOf, u, t, B
<1>. QED  BY <1>6, <1>7

---------------------------------------------------------------------------
(* The order of a source.                                                  *)

\* What waits may wait longer.
LEMMA PendingLater ==
  ASSUME NEW q \in Seq(Readings), NEW src, NEW A, NEW now \in Nat, NEW later \in Nat, now <= later,
         Pending(q, src, A, now)
  PROVE  Pending(q, src, A, later)
<1>1. \A i \in 1..Len(q) : q[i].ts \in Nat
  BY Numbers
<1>2. \A i \in 1..Len(q) : q[i].ts <= later
  BY <1>1 DEF Pending
<1>. QED  BY <1>2 DEF Pending

\* A reading of another source changes nothing for those that wait.
LEMMA PendingOther ==
  ASSUME NEW q, NEW src, NEW A \in Seq(Readings), NEW now, NEW r \in Readings, r.src # src,
         Pending(q, src, A, now)
  PROVE  Pending(q, src, Append(A, r), now)
<1>. DEFINE B == Append(A, r)
<1>1. Len(A) \in Nat /\ Len(B) = Len(A) + 1 /\ B[Len(A) + 1] = r /\ \A i \in 1..Len(A) : B[i] = A[i]
  BY LenProperties, AppendProperties
<1>. HIDE DEF B
<1>2. ASSUME NEW i \in 1..Len(q), NEW j \in 1..Len(B), B[j].src = src PROVE B[j].ts < q[i].ts
  <2>1. j \in 1..Len(A) \/ j = Len(A) + 1
    BY <1>1
  <2>2. j \in 1..Len(A) /\ B[j] = A[j]
    BY <1>1, <1>2, <2>1
  <2>. QED  BY <1>2, <2>2 DEF Pending
<1>. QED  BY <1>2 DEF Pending, B

\* A reading that waited is applied; those after it go on waiting.
LEMMA PendingRest ==
  ASSUME NEW q \in Seq(Readings), NEW src, NEW A \in Seq(Readings), NEW now \in Nat,
         NEW k \in 1..Len(q), Pending(q, src, A, now), InOrder(A, now)
  PROVE  /\ Pending(SubSeq(q, k + 1, Len(q)), src, Append(A, q[k]), now)
         /\ InOrder(Append(A, q[k]), now)
         /\ SubSeq(q, k + 1, Len(q)) \in Seq(Readings)
<1>. DEFINE B == Append(A, q[k])
            p == SubSeq(q, k + 1, Len(q))
<1>1. /\ Len(q) \in Nat /\ Len(A) \in Nat /\ k \in Nat /\ k <= Len(q) /\ q[k] \in Readings
      /\ \A i \in 1..Len(q) : q[i] \in Readings /\ q[i].ts \in Nat
      /\ \A i \in 1..Len(A) : A[i].ts \in Nat
  BY Numbers
<1>2. /\ Len(B) = Len(A) + 1 /\ B[Len(A) + 1] = q[k] /\ \A i \in 1..Len(A) : B[i] = A[i]
  BY <1>1, AppendProperties
<1>3. p \in Seq(Readings) /\ Len(p) = Len(q) - k /\ \A i \in 1..Len(p) : p[i] = q[k + i]
  <2>1. k + 1 \in Int /\ Len(q) \in Int /\ \A i \in k + 1..Len(q) : q[i] \in Readings
    <3>1. \A i \in k + 1..Len(q) : i \in 1..Len(q)
      BY <1>1
    <3>. QED  BY <1>1, <3>1
  <2>2. /\ p \in Seq(Readings)
        /\ Len(p) = IF k + 1 <= Len(q) THEN Len(q) - (k + 1) + 1 ELSE 0
        /\ \A i \in 1..Len(q) - (k + 1) + 1 : p[i] = q[k + 1 + i - 1]
    BY <2>1, SubSeqProperties
  <2>. HIDE DEF p
  <2>3. Len(p) = Len(q) - k /\ \A i \in 1..Len(p) : i \in 1..Len(q) - (k + 1) + 1 /\ k + 1 + i - 1 = k + i
    BY <1>1, <2>2
  <2>. QED  BY <2>2, <2>3
<1>. HIDE DEF B, p
<1>4. \A i \in 1..Len(p) : k + i \in 1..Len(q) /\ k < k + i
  BY <1>1, <1>3
<1>5. \A i \in 1..Len(B) : i \in 1..Len(A) \/ i = Len(A) + 1
  BY <1>1, <1>2
<1>6. q[k].src = src /\ q[k].ts <= now
  BY DEF Pending
<1>7. Pending(p, src, B, now)
  <2>1. \A i \in 1..Len(p) : p[i].src = src /\ p[i].ts <= now
    BY <1>3, <1>4 DEF Pending
  <2>2. \A i, j \in 1..Len(p) : i < j => p[i].ts < p[j].ts
    <3>. TAKE i, j \in 1..Len(p)
    <3>. HAVE i < j
    <3>1. k + i < k + j
      BY <1>1
    <3>. QED  BY <1>3, <1>4, <3>1 DEF Pending
  <2>3. ASSUME NEW i \in 1..Len(p), NEW j \in 1..Len(B), B[j].src = src PROVE B[j].ts < p[i].ts
    <3>1. CASE j \in 1..Len(A)
      <4>1. A[j].ts < q[k + i].ts
        BY <1>2, <1>4, <2>3, <3>1 DEF Pending
      <4>. QED  BY <1>2, <1>3, <3>1, <4>1
    <3>2. CASE j = Len(A) + 1
      <4>1. q[k].ts < q[k + i].ts
        BY <1>4 DEF Pending
      <4>. QED  BY <1>2, <1>3, <3>2, <4>1
    <3>. QED  BY <1>5, <3>1, <3>2
  <2>. QED  BY <2>1, <2>2, <2>3 DEF Pending
<1>8. InOrder(B, now)
  <2>1. \A i \in 1..Len(B) : B[i].ts <= now
    BY <1>2, <1>5, <1>6 DEF InOrder
  <2>2. ASSUME NEW i \in 1..Len(B), NEW j \in 1..Len(B), i < j, B[i].src = B[j].src
        PROVE  B[i].ts < B[j].ts
    <3>1. i \in 1..Len(A)
      BY <1>1, <1>2, <2>2
    <3>2. CASE j \in 1..Len(A)
      BY <1>2, <2>2, <3>1, <3>2 DEF InOrder
    <3>3. CASE j = Len(A) + 1
      <4>1. A[i].src = src /\ B[j] = q[k] /\ B[i] = A[i]
        BY <1>2, <1>6, <2>2, <3>1, <3>3
      <4>. QED  BY <3>1, <4>1 DEF Pending
    <3>. QED  BY <1>5, <3>2, <3>3
  <2>. QED  BY <2>1, <2>2 DEF InOrder
<1>. QED  BY <1>3, <1>7, <1>8 DEF B, p

\* A new reading is the newest of those that wait.
LEMMA PendingAppend ==
  ASSUME NEW q \in Seq(Readings), NEW src, NEW A \in Seq(Readings), NEW now \in Nat,
         Pending(q, src, A, now), InOrder(A, now),
         NEW r \in Readings, r.ts = now + 1, r.src = src
  PROVE  Pending(Append(q, r), src, A, now + 1)
<1>. DEFINE p == Append(q, r)
<1>1. Len(q) \in Nat /\ \A i \in 1..Len(q) : q[i].ts \in Nat
  BY Numbers
<1>2. \A i \in 1..Len(A) : A[i].ts \in Nat
  BY Numbers
<1>3. /\ Len(p) = Len(q) + 1 /\ p[Len(q) + 1] = r /\ \A i \in 1..Len(q) : p[i] = q[i]
  BY AppendProperties
<1>. HIDE DEF p
<1>4. \A i \in 1..Len(p) : i \in 1..Len(q) \/ i = Len(q) + 1
  BY <1>1, <1>3
<1>5. \A i \in 1..Len(q) : q[i].src = src /\ q[i].ts <= now + 1 /\ q[i].ts < now + 1
  BY <1>1 DEF Pending
<1>6. \A i \in 1..Len(p) : p[i].src = src /\ p[i].ts <= now + 1
  BY <1>3, <1>4, <1>5
<1>7. ASSUME NEW i \in 1..Len(p), NEW j \in 1..Len(p), i < j PROVE p[i].ts < p[j].ts
  <2>1. i \in 1..Len(q)
    BY <1>1, <1>3, <1>7
  <2>2. CASE j \in 1..Len(q)
    BY <1>3, <1>7, <2>1, <2>2 DEF Pending
  <2>3. CASE j = Len(q) + 1
    BY <1>3, <1>5, <2>1, <2>3
  <2>. QED  BY <1>4, <2>2, <2>3
<1>8. ASSUME NEW i \in 1..Len(p), NEW j \in 1..Len(A), A[j].src = src PROVE A[j].ts < p[i].ts
  <2>1. CASE i \in 1..Len(q)
    BY <1>3, <1>8, <2>1 DEF Pending
  <2>2. CASE i = Len(q) + 1
    <3>1. A[j].ts <= now /\ A[j].ts \in Nat
      BY <1>2 DEF InOrder
    <3>. QED  BY <1>3, <2>2, <3>1
  <2>. QED  BY <1>4, <2>1, <2>2
<1>. QED  BY <1>6, <1>7, <1>8 DEF Pending, p

\* A batch is stamped with the numbers after clock, in its order.
LEMMA StampedPending ==
  ASSUME TypeOK, InOrder(applied, clock), NEW batch \in Seq(Samples), NEW src \in Calls \cup {"mqtt"},
         clock + Len(batch) <= MaxReadings
  PROVE  /\ Stamped(batch, src) \in Seq(Readings) /\ Len(Stamped(batch, src)) = Len(batch)
         /\ Pending(Stamped(batch, src), src, applied, clock + Len(batch))
         /\ InOrder(applied, clock + Len(batch))
         /\ clock + Len(batch) \in 0..MaxReadings
         /\ \A k \in 1..Len(batch) : Stamped(batch, src)[k].ts = clock + k
                                     /\ Stamped(batch, src)[k].src = src
<1>. DEFINE q == Stamped(batch, src)
            n == Len(batch)
            Made(k) == [ts |-> clock + k, src |-> src, machine |-> batch[k].machine,
                        valid |-> batch[k].valid, alarm |-> batch[k].alarm]
<1>1. n \in Nat /\ DOMAIN batch = 1..n /\ clock \in Nat /\ MaxReadings \in Nat
  BY LenProperties, Bounds DEF TypeOK
<1>2. q = [k \in 1..n |-> Made(k)]
  BY <1>1 DEF Stamped
<1>3. ASSUME NEW k \in 1..n PROVE Made(k) \in Readings
  <2>1. batch[k] \in Samples
    BY ElementOfSeq
  <2>2. clock + k \in 1..MaxReadings
    BY <1>1
  <2>. QED  BY <2>1, <2>2 DEF Readings, Samples
<1>4. ASSUME NEW k \in 1..n PROVE q[k] = Made(k) /\ q[k].ts = clock + k /\ q[k].src = src
  BY <1>2
<1>5. q \in Seq(Readings) /\ Len(q) = n
  <2>1. q \in [1..n -> Readings]
    <3>. HIDE DEF Made
    <3>. QED  BY <1>2, <1>3
  <2>2. q \in Seq(Readings)
    <3>. HIDE DEF q, n
    <3>. QED  BY <1>1, <2>1, SeqDef
  <2>3. DOMAIN q = 1..n /\ DOMAIN q = 1..Len(q) /\ Len(q) \in Nat
    <3>. HIDE DEF q, n
    <3>. QED  BY <2>1, <2>2, LenProperties
  <2>. HIDE DEF q, n
  <2>. QED  BY <1>1, <2>2, <2>3
<1>. HIDE DEF q, n, Made
<1>6. \A j \in 1..Len(applied) : applied[j].ts <= clock /\ applied[j].ts \in Nat
  <2>1. applied \in Seq(Readings)
    BY DEF TypeOK
  <2>. QED  BY <2>1, Numbers DEF InOrder
<1>7. Pending(q, src, applied, clock + n)
  <2>1. \A i \in 1..Len(q) : q[i].src = src /\ q[i].ts <= clock + n
    BY <1>1, <1>4, <1>5
  <2>2. \A i, j \in 1..Len(q) : i < j => q[i].ts < q[j].ts
    BY <1>1, <1>4, <1>5
  <2>3. \A i \in 1..Len(q), j \in 1..Len(applied) : applied[j].ts < q[i].ts
    BY <1>1, <1>4, <1>5, <1>6
  <2>. QED  BY <2>1, <2>2, <2>3 DEF Pending
<1>8. InOrder(applied, clock + n)
  BY <1>1, <1>6 DEF InOrder
<1>9. clock + n \in 0..MaxReadings
  BY <1>1 DEF n
<1>. QED  BY <1>4, <1>5, <1>7, <1>8, <1>9 DEF q, n

---------------------------------------------------------------------------
(* The list of connections.                                                *)

\* A client in the list once at most, the list is no longer than the clients.
LEMMA ListIsShort ==
  ASSUME NEW cs \in Seq(Clients), IsInjective(cs)
  PROVE  Len(cs) \in Nat /\ Len(cs) <= Cardinality(Clients)
<1>1. Len(cs) \in Nat /\ cs \in [1..Len(cs) -> Clients]
  BY LenProperties
<1>2. cs \in Injection(1..Len(cs), Clients)
  BY <1>1 DEF Injection
<1>3. PICK I : I = 1..Len(cs)
  OBVIOUS
<1>4. Cardinality(I) <= Cardinality(Clients)
  <2>1. cs \in Injection(I, Clients)
    BY <1>2, <1>3
  <2>. QED  BY <2>1, Bounds, FS_Injection
<1>5. Cardinality(I) = Len(cs)
  <2>1. Len(cs) \in Int /\ 1 \in Int
    BY <1>1
  <2>2. Cardinality(I) = IF 1 > Len(cs) THEN 0 ELSE Len(cs) - 1 + 1
    BY <1>3, <2>1, FS_Interval
  <2>. QED  BY <1>1, <2>2
<1>. QED  BY <1>1, <1>4, <1>5

\* Removing clients leaves the others once.
LEMMA WithoutType ==
  ASSUME NEW cs \in Seq(Clients), IsInjective(cs), NEW gone
  PROVE  /\ Without(cs, gone) \in Seq(Clients) /\ IsInjective(Without(cs, gone))
         /\ \A c \in Clients : ~Contains(cs, c) => ~Contains(Without(cs, gone), c)
<1>. DEFINE keep == Clients \ gone
            s == Selected(cs, keep)
<1>1. s \in Seq(Clients)
  BY SelectedType
<1>2. PICK h \in [1..Len(s) -> 1..Len(cs)] :
           /\ \A i \in 1..Len(s) : s[i] = cs[h[i]]
           /\ \A i, j \in 1..Len(s) : i < j => h[i] < h[j]
  <2>. HIDE DEF keep
  <2>. QED  BY SelectedIndices
<1>3. Len(s) \in Nat /\ DOMAIN s = 1..Len(s) /\ Len(cs) \in Nat /\ DOMAIN cs = 1..Len(cs)
  BY <1>1, LenProperties
<1>. HIDE DEF s
<1>4. ASSUME NEW i \in 1..Len(s), NEW j \in 1..Len(s), s[i] = s[j] PROVE i = j
  <2>1. h[i] = h[j] /\ h[i] \in Int
    BY <1>2, <1>3, <1>4 DEF IsInjective
  <2>2. ~(i < j) /\ ~(j < i)
    BY <1>2, <2>1
  <2>. QED  BY <1>3, <2>2
<1>5. IsInjective(s)
  BY <1>3, <1>4 DEF IsInjective
<1>6. ASSUME NEW c, ~Contains(cs, c) PROVE ~Contains(s, c)
  BY <1>2, <1>6 DEF Contains
<1>. QED  BY <1>1, <1>5, <1>6 DEF Without, s

\* A new client comes last.
LEMMA ConnectedType ==
  ASSUME NEW cs \in Seq(Clients), IsInjective(cs), NEW c \in Clients, ~Contains(cs, c)
  PROVE  /\ Append(cs, c) \in Seq(Clients) /\ IsInjective(Append(cs, c))
         /\ Len(Append(cs, c)) = Len(cs) + 1
         /\ \A i \in 1..Len(cs) : Append(cs, c)[i] = cs[i]
         /\ \A d \in Clients : ~Contains(cs, d) /\ d # c => ~Contains(Append(cs, c), d)
<1>. DEFINE s == Append(cs, c)
<1>1. Len(cs) \in Nat /\ DOMAIN cs = 1..Len(cs)
  BY LenProperties
<1>2. /\ s \in Seq(Clients) /\ Len(s) = Len(cs) + 1 /\ s[Len(cs) + 1] = c
      /\ \A i \in 1..Len(cs) : s[i] = cs[i]
  BY AppendProperties
<1>. HIDE DEF s
<1>3. \A i \in 1..Len(s) : i \in 1..Len(cs) \/ i = Len(cs) + 1
  BY <1>1, <1>2
<1>4. DOMAIN s = 1..Len(s)
  BY <1>2, LenProperties
<1>5. ASSUME NEW i \in 1..Len(s), NEW j \in 1..Len(s), s[i] = s[j] PROVE i = j
  <2>1. CASE i \in 1..Len(cs) /\ j \in 1..Len(cs)
    BY <1>1, <1>2, <1>5, <2>1 DEF IsInjective
  <2>2. CASE i = Len(cs) + 1 /\ j \in 1..Len(cs)
    BY <1>2, <1>5, <2>2 DEF Contains
  <2>3. CASE j = Len(cs) + 1 /\ i \in 1..Len(cs)
    BY <1>2, <1>5, <2>3 DEF Contains
  <2>. QED  BY <1>3, <2>1, <2>2, <2>3
<1>6. IsInjective(s)
  BY <1>4, <1>5 DEF IsInjective
<1>7. ASSUME NEW d \in Clients, ~Contains(cs, d), d # c PROVE ~Contains(s, d)
  BY <1>2, <1>3, <1>7 DEF Contains
<1>. QED  BY <1>2, <1>6, <1>7 DEF s

\* The first clients of a list are as many as their places.
LEMMA FirstCount ==
  ASSUME NEW cs \in Seq(Clients), IsInjective(cs), NEW m \in 0..Len(cs),
         NEW P, P = {cs[i] : i \in 1..m}
  PROVE  P \subseteq Clients /\ IsFiniteSet(P) /\ Cardinality(P) = m
<1>1. Len(cs) \in Nat /\ DOMAIN cs = 1..Len(cs) /\ \A i \in 1..Len(cs) : cs[i] \in Clients
  BY LenProperties, ElementOfSeq
<1>2. m \in Nat /\ \A i \in 1..m : i \in 1..Len(cs)
  BY <1>1
<1>3. PICK I : I = 1..m
  OBVIOUS
<1>4. IsFiniteSet(I) /\ Cardinality(I) = m
  <2>1. 1 \in Int /\ m \in Int
    BY <1>2
  <2>2. IsFiniteSet(I) /\ Cardinality(I) = IF 1 > m THEN 0 ELSE m - 1 + 1
    BY <1>3, <2>1, FS_Interval
  <2>. QED  BY <1>2, <2>2
<1>. DEFINE f == [i \in I |-> cs[i]]
<1>5. f \in Surjection(I, P)
  BY <1>3 DEF Surjection
<1>6. f \in Injection(I, P)
  <2>1. \A i, j \in I : f[i] = f[j] => i = j
    BY <1>1, <1>2, <1>3 DEF IsInjective
  <2>2. f \in [I -> P] /\ DOMAIN f = I
    BY <1>3
  <2>. HIDE DEF f
  <2>. QED  BY <2>1, <2>2 DEF Injection, IsInjective
<1>. HIDE DEF f
<1>7. IsFiniteSet(P) /\ Cardinality(P) = Cardinality(I)
  BY <1>4, <1>5, <1>6, FS_Surjection
<1>. QED  BY <1>1, <1>2, <1>4, <1>7

\* Whom a broadcast has passed are the first clients of its list.
LEMMA PassedFirst ==
  ASSUME NEW q \in CallStates, NEW cs \in Seq(Clients), IsInjective(cs)
  PROVE  \E m \in 0..Len(cs) :
           /\ m = IF q.pos - 1 <= Len(cs) THEN q.pos - 1 ELSE Len(cs)
           /\ PassedBy(q, cs) = {cs[i] : i \in 1..m}
           /\ PassedBy(q, cs) \subseteq Clients /\ IsFiniteSet(PassedBy(q, cs))
           /\ Cardinality(PassedBy(q, cs)) = m
<1>1. Len(cs) \in Nat /\ DOMAIN cs = 1..Len(cs)
  BY LenProperties
<1>2. q.pos \in Nat \ {0}
  <2>1. q.pos \in 1..Cardinality(Clients) + 1
    BY DEF CallStates
  <2>. QED  BY <2>1, Bounds
<1>3. PICK m : m = IF q.pos - 1 <= Len(cs) THEN q.pos - 1 ELSE Len(cs)
  OBVIOUS
<1>. PICK k \in Nat, L \in Nat : k + 1 = q.pos /\ L = Len(cs)
  <2>1. q.pos - 1 \in Nat /\ (q.pos - 1) + 1 = q.pos
    BY <1>2
  <2>. QED  BY <1>1, <2>1
<1>4a. m = IF k <= L THEN k ELSE L
  BY <1>2, <1>3
<1>4. m \in 0..Len(cs)
  BY <1>4a
<1>5. {j \in DOMAIN cs : j < q.pos} = 1..m
  <2>1. DOMAIN cs = 1..L
    BY <1>1
  <2>2. {j \in 1..L : j < k + 1} = 1..m
    BY <1>4a
  <2>. QED  BY <2>1, <2>2
<1>6. PassedBy(q, cs) = {cs[i] : i \in 1..m}
  BY <1>5 DEF PassedBy
<1>7. PICK P : P = PassedBy(q, cs)
  OBVIOUS
<1>8. P \subseteq Clients /\ IsFiniteSet(P) /\ Cardinality(P) = m
  BY <1>4, <1>6, <1>7, FirstCount
<1>. QED  BY <1>3, <1>4, <1>6, <1>7, <1>8

\* Whoever stays in the list when others leave it moves no further down.
LEMMA MovedUp ==
  ASSUME NEW cs \in Seq(Clients), IsInjective(cs), NEW gone, NEW s, s = Without(cs, gone),
         NEW i \in 1..Len(cs), NEW j \in 1..Len(s), s[j] = cs[i]
  PROVE  j <= i
<1>. DEFINE keep == Clients \ gone
<1>1. s = Selected(cs, keep) /\ s \in Seq(Clients)
  BY SelectedType DEF Without
<1>2. PICK h \in [1..Len(s) -> 1..Len(cs)] :
           /\ \A k \in 1..Len(s) : s[k] = cs[h[k]]
           /\ \A k, l \in 1..Len(s) : k < l => h[k] < h[l]
  <2>. HIDE DEF keep
  <2>. QED  BY <1>1, SelectedIndices
<1>3. Len(s) \in Nat /\ Len(cs) \in Nat /\ DOMAIN cs = 1..Len(cs)
  BY <1>1, LenProperties
<1>. DEFINE S == {n \in Nat : n \in 1..Len(s) => n <= h[n]}
<1>4. 0 \in S
  OBVIOUS
<1>5. ASSUME NEW n \in Nat, n \in S PROVE n + 1 \in S
  <2>. SUFFICES ASSUME n + 1 \in 1..Len(s) PROVE n + 1 <= h[n + 1]
    OBVIOUS
  <2>1. h[n + 1] \in 1..Len(cs)
    BY <1>2
  <2>2. CASE n = 0
    BY <1>3, <2>1, <2>2
  <2>3. CASE n # 0
    <3>1. n \in 1..Len(s) /\ n < n + 1
      BY <1>3, <2>3
    <3>2. n <= h[n] /\ h[n] < h[n + 1] /\ h[n] \in 1..Len(cs)
      BY <1>2, <1>5, <3>1
    <3>. QED  BY <1>3, <2>1, <3>2
  <2>. QED  BY <2>2, <2>3
<1>6. Nat \subseteq S
  <2>. HIDE DEF S
  <2>. QED  BY <1>4, <1>5, SetInduction
<1>7. j <= h[j]
  BY <1>3, <1>6
<1>8. h[j] = i
  BY <1>2, <1>3 DEF IsInjective
<1>. QED  BY <1>7, <1>8

\* When clients leave, no more of those ahead of a broadcast slip behind it
\* than have left behind it.
LEMMA SlippedCount ==
  ASSUME NEW q \in CallStates, NEW cs \in Seq(Clients), IsInjective(cs), NEW gone,
         NEW s, s = Without(cs, gone),
         NEW P, P = PassedBy(q, cs), NEW Q, Q = PassedBy(q, s)
  PROVE  /\ IsFiniteSet(P) /\ IsFiniteSet(Q) /\ P \subseteq Clients /\ Q \subseteq Clients
         /\ Cardinality(Q \ P) <= Cardinality(P \ ToSet(s))
<1>1. s \in Seq(Clients) /\ IsInjective(s)
  BY WithoutType
<1>2. /\ Len(cs) \in Nat /\ DOMAIN cs = 1..Len(cs)
      /\ Len(s) \in Nat /\ DOMAIN s = 1..Len(s)
  BY <1>1, LenProperties
<1>3. PICK m \in 0..Len(cs) :
        /\ m = IF q.pos - 1 <= Len(cs) THEN q.pos - 1 ELSE Len(cs)
        /\ P = {cs[i] : i \in 1..m} /\ P \subseteq Clients /\ IsFiniteSet(P) /\ Cardinality(P) = m
  BY PassedFirst
<1>4. PICK n \in 0..Len(s) :
        /\ n = IF q.pos - 1 <= Len(s) THEN q.pos - 1 ELSE Len(s)
        /\ Q = {s[i] : i \in 1..n} /\ Q \subseteq Clients /\ IsFiniteSet(Q) /\ Cardinality(Q) = n
  BY <1>1, PassedFirst
<1>5. PICK T : T = ToSet(s)
  OBVIOUS
<1>6. T = {s[i] : i \in 1..Len(s)}
  BY <1>2, <1>5 DEF ToSet
<1>7. q.pos \in Nat \ {0}
  <2>1. q.pos \in 1..Cardinality(Clients) + 1
    BY DEF CallStates
  <2>. QED  BY <2>1, Bounds
<1>. PICK k \in Nat, L \in Nat, M \in Nat : k + 1 = q.pos /\ L = Len(cs) /\ M = Len(s)
  <2>1. q.pos - 1 \in Nat /\ (q.pos - 1) + 1 = q.pos
    BY <1>7
  <2>. QED  BY <1>2, <2>1
<1>7a. q.pos - 1 = k
  BY <1>7
<1>7b. m = (IF k <= L THEN k ELSE L) /\ n = (IF k <= M THEN k ELSE M)
  BY <1>3, <1>4, <1>7a
<1>7c. (\A i \in 1..n : i \in 1..M) /\ (\A i \in 1..m : i \in 1..L)
  BY <1>7b
<1>8. Q \subseteq T
  <2>1. \A i \in 1..n : i \in 1..Len(s)
    BY <1>7c
  <2>. QED  BY <1>4, <1>6, <2>1
<1>9. \A d \in T : \E i \in 1..Len(cs) : cs[i] = d
  <2>. SUFFICES ASSUME NEW d \in T, ~\E i \in 1..Len(cs) : cs[i] = d PROVE FALSE
    OBVIOUS
  <2>1. PICK j \in 1..Len(s) : s[j] = d
    BY <1>6
  <2>2. d \in Clients /\ ~Contains(cs, d)
    BY <1>1, <2>1, ElementOfSeq DEF Contains
  <2>3. ~Contains(s, d)
    BY <2>2, WithoutType
  <2>. QED  BY <2>1, <2>3 DEF Contains
<1>10. P \cap T \subseteq Q
  <2>. SUFFICES ASSUME NEW d \in P, d \in T PROVE d \in Q
    OBVIOUS
  <2>1. PICK i \in 1..m : cs[i] = d
    BY <1>3
  <2>2. PICK j \in 1..Len(s) : s[j] = d
    BY <1>6
  <2>3. i \in 1..Len(cs)
    BY <1>7c
  <2>4. j <= i
    BY <2>1, <2>2, <2>3, MovedUp
  <2>5. j \in 1..n
    <3>1. j \in 1..M /\ i \in 1..m /\ j <= i
      BY <2>4
    <3>. QED  BY <1>7b, <3>1
  <2>. QED  BY <1>4, <2>2, <2>5
<1>11. IsFiniteSet(Q \ P) /\ IsFiniteSet(P \ T) /\ Cardinality(P \ T) \in Nat
  BY <1>3, <1>4, FS_Difference, FS_CardinalityType
<1>13a. M <= L
  <2>1. Len(s) <= Len(cs)
    BY SelectedType DEF Without
  <2>. QED  BY <2>1
<1>12. CASE q.pos - 1 <= Len(cs)
  <2>1. n <= m
    <3>1. k <= L
      BY <1>7a, <1>12
    <3>. QED  BY <1>7b, <1>13a, <3>1
  <2>2. Q \cap P = P \cap T
    BY <1>8, <1>10
  <2>3. /\ Cardinality(Q \ P) = Cardinality(Q) - Cardinality(Q \cap P)
        /\ Cardinality(P \ T) = Cardinality(P) - Cardinality(P \cap T)
    BY <1>3, <1>4, FS_Difference
  <2>4. Cardinality(P \cap T) \in Nat
    BY <1>3, FS_Intersection, FS_CardinalityType
  <2>5. PICK x, y, z : x = Cardinality(Q \ P) /\ y = Cardinality(P \ T) /\ z = Cardinality(P \cap T)
    OBVIOUS
  <2>6. x = n - z /\ y = m - z /\ z \in Nat /\ n \in Nat /\ m \in Nat
    BY <1>3, <1>4, <1>7b, <2>2, <2>3, <2>4, <2>5
  <2>7. x <= y
    BY <2>1, <2>6
  <2>. QED  BY <1>3, <1>4, <1>5, <2>5, <2>7
<1>13. CASE ~(q.pos - 1 <= Len(cs))
  <2>1. m = Len(cs)
    BY <1>3, <1>13
  <2>2. T \subseteq P
    BY <1>3, <1>9, <2>1
  <2>3. Q \ P = {}
    BY <1>8, <2>2
  <2>4. Cardinality(Q \ P) = 0
    BY <2>3, FS_EmptySet
  <2>. QED  BY <1>3, <1>4, <1>5, <1>11, <2>4
<1>. QED  BY <1>3, <1>4, <1>12, <1>13

---------------------------------------------------------------------------
(* What a step of a call may do.                                           *)

\* An index that is not zero is that of an element.
LEMMA SelectInSeqRange ==
  ASSUME NEW q \in Seq(Readings), NEW k, k = SelectInSeq(q, LAMBDA r : r.valid)
  PROVE  k = 0 \/ k \in 1..Len(q)
<1>. DEFINE I == {i \in 1..Len(q) : q[i].valid}
<1>1. k = IF I # {} THEN Min(I) ELSE 0
  BY DEF SelectInSeq
<1>2. CASE I # {}
  <2>1. I \in SUBSET Nat
    BY LenProperties
  <2>2. \E x \in I : \A y \in I : x <= y
    <3>. HIDE DEF I
    <3>. QED  BY <1>2, <2>1, LeastNatural
  <2>3. Min(I) \in I
    <3>. HIDE DEF I
    <3>. QED  BY <2>2, Zenon DEF Min
  <2>. QED  BY <1>1, <1>2, <2>3
<1>. QED  BY <1>1, <1>2

\* The broadcast of q has passed by no more of those it owes than it may.
SendingOK(q, cs) ==
  q.pc = "sending" /\ Cardinality(q.owed \cap PassedBy(q, cs)) <= q.behind

\* A send moves the call past one client, to which it owes nothing any more.
LEMMA SendFacts ==
  ASSUME NEW t \in Calls, NEW q \in CallStates, NEW cs \in Seq(Clients), IsInjective(cs),
         NEW others \in [Calls -> CallStates], SendingOK(q, cs), q.pos <= Len(cs),
         Send(t, q, cs, others)
  PROVE  \E p \in CallStates :
           /\ call' = [others EXCEPT ![t] = p]
           /\ p.todo = q.todo /\ p.behind = q.behind /\ SendingOK(p, cs)
<1>. DEFINE c == cs[q.pos]
<1>1. PICK fails \in SendFails(c) :
        call' = [others EXCEPT ![t] = [q EXCEPT !.pos = @ + 1, !.owed = @ \ {c},
                                         !.failed = IF fails THEN @ \cup {c} ELSE @]]
  BY DEF Send
<1>. DEFINE p == [q EXCEPT !.pos = @ + 1, !.owed = @ \ {c},
                           !.failed = IF fails THEN @ \cup {c} ELSE @]
<1>2. Len(cs) \in Nat /\ Len(cs) <= Cardinality(Clients) /\ q.pos \in Nat /\ q.pos \in 1..Len(cs)
  BY ListIsShort, Bounds DEF CallStates
<1>3. c \in Clients
  BY <1>2, ElementOfSeq
<1>4. /\ p.pc = q.pc /\ p.todo = q.todo /\ p.behind = q.behind
      /\ p.pos = q.pos + 1 /\ p.owed = q.owed \ {c}
  BY DEF CallStates
<1>5. p \in CallStates
  <2>1. q.pos + 1 \in 1..Cardinality(Clients) + 1
    BY <1>2, Bounds
  <2>2. (IF fails THEN q.failed \cup {c} ELSE q.failed) \in SUBSET Clients
    BY <1>3 DEF CallStates
  <2>3. q.owed \ {c} \in SUBSET Clients
    BY DEF CallStates
  <2>. QED  BY <2>1, <2>2, <2>3 DEF CallStates
<1>. HIDE DEF p
<1>6. SendingOK(p, cs)
  <2>1. PICK P : P = p.owed \cap PassedBy(p, cs)
    OBVIOUS
  <2>2. PICK Q : Q = q.owed \cap PassedBy(q, cs)
    OBVIOUS
  <2>3. P \in SUBSET Q
    <3>. SUFFICES ASSUME NEW d \in P PROVE d \in Q
      OBVIOUS
    <3>1. d \in q.owed /\ d # c
      BY <1>4, <2>1
    <3>2. PICK i \in DOMAIN cs : i < p.pos /\ cs[i] = d
      BY <2>1 DEF PassedBy
    <3>3. i < q.pos
      BY <1>2, <1>4, <3>1, <3>2, LenProperties
    <3>. QED  BY <2>2, <3>1, <3>2, <3>3 DEF PassedBy
  <2>4. IsFiniteSet(Q)
    <3>1. Q \in SUBSET Clients
      BY <2>2 DEF CallStates
    <3>. QED  BY <3>1, Bounds, FS_Subset
  <2>5. Cardinality(P) <= Cardinality(Q) /\ Cardinality(P) \in Nat /\ Cardinality(Q) \in Nat
    BY <2>3, <2>4, FS_Subset, FS_CardinalityType
  <2>6. Cardinality(Q) <= q.behind /\ q.behind \in Nat
    BY <2>2 DEF SendingOK, CallStates
  <2>7. Cardinality(P) <= p.behind
    BY <1>4, <2>5, <2>6
  <2>. QED  BY <1>4, <2>1, <2>7 DEF SendingOK
<1>. QED  BY <1>1, <1>4, <1>5, <1>6 DEF p

\* A call with nothing valid to apply idles; else it applies the first that is
\* and holds on to those after it.
Advanced(t, todo, cs, others, p) ==
  /\ p \in CallStates /\ call' = [others EXCEPT ![t] = p]
  /\ \/ p = IdleCall /\ UNCHANGED agent
     \/ \E k \in 1..Len(todo) :
          /\ Apply(todo[k]) /\ p.todo = SubSeq(todo, k + 1, Len(todo))
          /\ SendingOK(p, cs)

\* An idle ingest is of the type of the calls.
LEMMA IdleCallType ==
  IdleCall \in CallStates
<1>1. 1 \in 1..Cardinality(Clients) + 1
  BY Bounds
<1>2. <<>> \in Seq(Readings)
  BY EmptySeq
<1>. QED  BY <1>1, <1>2 DEF IdleCall, CallStates

\* What an ingest does from a reading to its next await, or to its end.
LEMMA AdvanceFacts ==
  ASSUME NEW t \in Calls, NEW todo \in Seq(Readings), NEW cs \in Seq(Clients), IsInjective(cs),
         NEW others \in [Calls -> CallStates], Advance(t, todo, cs, others)
  PROVE  \E p : Advanced(t, todo, cs, others, p)
<1>1. PICK k : k = SelectInSeq(todo, LAMBDA r : r.valid)
  OBVIOUS
<1>2. k = 0 \/ k \in 1..Len(todo)
  BY <1>1, SelectInSeqRange
<1>. DEFINE sending == [IdleCall EXCEPT !.pc = "sending", !.rec = todo[k],
                          !.todo = SubSeq(todo, k + 1, Len(todo)), !.owed = ToSet(cs)]
<1>3. IF k = 0
      THEN call' = [others EXCEPT ![t] = IdleCall] /\ UNCHANGED agent
      ELSE /\ Apply(todo[k])
           /\ IF cs = <<>> THEN call' = [others EXCEPT ![t] = sending]
              ELSE Send(t, sending, cs, others)
  BY <1>1 DEF Advance
<1>4. CASE k = 0
  <2>1. Advanced(t, todo, cs, others, IdleCall)
    BY <1>3, <1>4, IdleCallType DEF Advanced
  <2>. QED  BY <2>1
<1>5. CASE k # 0
  <2>1. k \in 1..Len(todo) /\ todo[k] \in Readings /\ Len(todo) \in Nat
    BY <1>2, <1>5, Numbers
  <2>2. SubSeq(todo, k + 1, Len(todo)) \in Seq(Readings)
    <3>1. k + 1 \in Int /\ Len(todo) \in Int /\ \A i \in k + 1..Len(todo) : i \in 1..Len(todo)
      BY <2>1
    <3>2. \A i \in k + 1..Len(todo) : todo[i] \in Readings
      BY <3>1, Numbers
    <3>. QED  BY <3>1, <3>2, SubSeqProperties
  <2>3. ToSet(cs) \in SUBSET Clients /\ DOMAIN cs = 1..Len(cs) /\ Len(cs) \in Nat
    BY LenProperties, ElementOfSeq DEF ToSet
  <2>4. /\ sending.pc = "sending" /\ sending.todo = SubSeq(todo, k + 1, Len(todo))
        /\ sending.owed = ToSet(cs) /\ sending.pos = 1 /\ sending.behind = 0
        /\ sending \in CallStates
    BY <2>1, <2>2, <2>3, IdleCallType DEF IdleCall, CallStates
  <2>. HIDE DEF sending
  <2>5. SendingOK(sending, cs)
    <3>1. PassedBy(sending, cs) = {}
      BY <2>3, <2>4 DEF PassedBy
    <3>2. sending.owed \cap PassedBy(sending, cs) = {}
      BY <3>1
    <3>3. Cardinality(sending.owed \cap PassedBy(sending, cs)) = 0
      BY <3>2, FS_EmptySet
    <3>. QED  BY <2>4, <3>3 DEF SendingOK
  <2>6. CASE cs = <<>>
    <3>1. Advanced(t, todo, cs, others, sending)
      BY <1>3, <1>5, <2>1, <2>4, <2>5, <2>6 DEF Advanced
    <3>. QED  BY <3>1
  <2>7. CASE cs # <<>>
    <3>1. Len(cs) \in Nat \ {0}
      BY <2>7, EmptySeq
    <3>2. sending.pos <= Len(cs)
      BY <2>4, <3>1
    <3>3. Send(t, sending, cs, others)
      BY <1>3, <1>5, <2>7
    <3>4. PICK p \in CallStates : /\ call' = [others EXCEPT ![t] = p]
                                  /\ p.todo = sending.todo /\ SendingOK(p, cs)
      BY <2>4, <2>5, <3>2, <3>3, SendFacts
    <3>5. Advanced(t, todo, cs, others, p)
      BY <1>3, <1>5, <2>1, <2>4, <3>4 DEF Advanced
    <3>. QED  BY <3>5
  <2>. QED  BY <2>6, <2>7
<1>. QED  BY <1>4, <1>5

\* Applying a reading keeps the types and the buffer the end of the alerts.
LEMMA AgentStep ==
  ASSUME TypeOK, AlertsInv, NEW t \in Calls, NEW todo \in Seq(Readings), NEW cs,
         NEW others \in [Calls -> CallStates], NEW p, Advanced(t, todo, cs, others, p)
  PROVE  /\ machineStates' \in [Machines -> Readings \cup {None}]
         /\ alerts' \in Seq(Readings) /\ Len(alerts') <= MaxAlerts
         /\ applied' \in Seq(Readings) /\ call' \in [Calls -> CallStates]
         /\ AlertsInv'
<1>. DEFINE raised == Selected(applied, Alarming)
<1>1. call' \in [Calls -> CallStates]
  BY DEF Advanced
<1>2. /\ applied \in Seq(Readings) /\ alerts \in Seq(Readings)
      /\ machineStates \in [Machines -> Readings \cup {None}]
      /\ Len(alerts) <= MaxAlerts
  BY DEF TypeOK
<1>3. CASE UNCHANGED agent
  <2>1. applied' = applied /\ alerts' = alerts /\ machineStates' = machineStates
    BY <1>3 DEF agent
  <2>. QED  BY <1>1, <1>2, <2>1 DEF AlertsInv
<1>4. CASE \E k \in 1..Len(todo) : Apply(todo[k])
  <2>1. PICK r \in Readings : Apply(r)
    BY <1>4, Numbers
  <2>2. raised \in Seq(Readings) /\ EndOf(alerts, raised)
    BY <1>2, SelectedType DEF AlertsInv
  <2>3. applied' = Append(applied, r) /\ applied' \in Seq(Readings)
    BY <1>2, <2>1, AppendProperties DEF Apply
  <2>4. machineStates' \in [Machines -> Readings \cup {None}]
    BY <1>2, <2>1 DEF Apply, Readings
  <2>5. Selected(applied', Alarming) = IF r \in Alarming THEN Append(raised, r) ELSE raised
    <3>. HIDE DEF raised
    <3>1. PICK keep : keep = Alarming
      OBVIOUS
    <3>2. Selected(Append(applied, r), keep) = IF r \in keep THEN Append(Selected(applied, keep), r) ELSE Selected(applied, keep)
      BY <1>2, SelectedAppend
    <3>. QED  BY <2>3, <3>1, <3>2 DEF raised
  <2>. HIDE DEF raised
  <2>6. CASE r.alarm
    <3>1. alerts' = Trimmed(Append(alerts, r)) /\ r \in Alarming
      BY <2>1, <2>6 DEF Apply, Alarming
    <3>2. alerts' \in Seq(Readings) /\ EndOf(alerts', Append(raised, r))
      BY <1>2, <2>2, <3>1, TrimmedIsEnd
    <3>3. AlertsInv' /\ Len(alerts') <= MaxAlerts
      BY <2>5, <3>1, <3>2 DEF AlertsInv, EndOf
    <3>. QED  BY <1>1, <2>3, <2>4, <3>2, <3>3
  <2>7. CASE ~r.alarm
    <3>1. alerts' = alerts /\ r \notin Alarming
      BY <2>1, <2>7 DEF Apply, Alarming
    <3>2. AlertsInv'
      BY <2>2, <2>5, <3>1 DEF AlertsInv
    <3>. QED  BY <1>1, <1>2, <2>3, <2>4, <3>1, <3>2
  <2>. QED  BY <2>6, <2>7
<1>. QED  BY <1>3, <1>4 DEF Advanced

\* A step of one call leaves the others their debts, and has its own right.
LEMMA OwedStep ==
  ASSUME NEW t \in Calls, NEW todo, NEW others \in [Calls -> CallStates], NEW p,
         Advanced(t, todo, conns', others, p),
         \A u \in Calls : others[u].pc = "sending" => SendingOK(others[u], conns')
  PROVE  OwedInv'
<1>1. call' = [others EXCEPT ![t] = p]
  BY DEF Advanced
<1>2. p.pc = "sending" => SendingOK(p, conns')
  <2>1. IdleCall.pc # "sending"
    BY DEF IdleCall
  <2>. QED  BY <2>1 DEF Advanced
<1>3. ASSUME NEW u \in Calls, call'[u].pc = "sending" PROVE SendingOK(call'[u], conns')
  BY <1>1, <1>2, <1>3
<1>. QED  BY <1>3 DEF OwedInv, SendingOK

\* The same for a step that applies nothing.
LEMMA OwedQuiet ==
  ASSUME \A u \in Calls : call'[u].pc = "sending" => SendingOK(call'[u], conns')
  PROVE  OwedInv'
BY DEF OwedInv, SendingOK

\* When clients are removed, each broadcast counts those behind its position.
LEMMA ShakeFacts ==
  ASSUME TypeOK, OwedInv, NEW gone, NEW cs, cs = Without(conns, gone)
  PROVE  /\ Shake(cs) \in [Calls -> CallStates]
         /\ \A u \in Calls : /\ Shake(cs)[u].todo = call[u].todo /\ Shake(cs)[u].pc = call[u].pc
                             /\ Shake(cs)[u].owed = call[u].owed
                             /\ Shake(cs)[u].pc = "sending" => SendingOK(Shake(cs)[u], cs)
<1>1. call \in [Calls -> CallStates] /\ conns \in Seq(Clients) /\ IsInjective(conns)
  BY DEF TypeOK
<1>2. ASSUME NEW u \in Calls
      PROVE  /\ Shake(cs)[u] \in CallStates
             /\ Shake(cs)[u].todo = call[u].todo /\ Shake(cs)[u].pc = call[u].pc
             /\ Shake(cs)[u].owed = call[u].owed
             /\ Shake(cs)[u].pc = "sending" => SendingOK(Shake(cs)[u], cs)
  <2>1. PICK q \in CallStates : q = call[u]
    BY <1>1
  <2>2. PICK P, Q, T : P = PassedBy(q, conns) /\ Q = PassedBy(q, cs) /\ T = ToSet(cs)
    OBVIOUS
  <2>3. /\ IsFiniteSet(P) /\ IsFiniteSet(Q) /\ P \subseteq Clients /\ Q \subseteq Clients
        /\ Cardinality(Q \ P) <= Cardinality(P \ T)
    BY <1>1, <2>2, SlippedCount
  <2>4. PICK k : k = Cardinality(P \ T)
    OBVIOUS
  <2>5. k \in Nat
    BY <2>3, <2>4, FS_Difference, FS_CardinalityType
  <2>6. PICK r : r = Shake(cs)[u]
    OBVIOUS
  <2>7. r = [q EXCEPT !.behind = @ + k]
    BY <2>1, <2>2, <2>4, <2>6 DEF Shake
  <2>8. /\ r \in CallStates /\ r.todo = q.todo /\ r.pc = q.pc /\ r.owed = q.owed
        /\ r.pos = q.pos /\ r.behind = q.behind + k /\ q.behind \in Nat
    BY <2>5, <2>7 DEF CallStates
  <2>9. PassedBy(r, cs) = Q
    BY <2>2, <2>8 DEF PassedBy
  <2>10. ASSUME r.pc = "sending" PROVE SendingOK(r, cs)
    <3>1. PICK O : O = q.owed
      OBVIOUS
    <3>2. Cardinality(O \cap P) <= q.behind
      BY <2>1, <2>2, <2>8, <2>10, <3>1 DEF OwedInv
    <3>3. PICK B, D : B = O \cap P /\ D = Q \ P
      OBVIOUS
    <3>4. IsFiniteSet(B) /\ IsFiniteSet(D)
      BY <2>3, <3>3, FS_Intersection, FS_Difference
    <3>5. /\ IsFiniteSet(B \cup D) /\ Cardinality(B \cup D) \in Nat
          /\ Cardinality(B \cup D) <= Cardinality(B) + Cardinality(D)
      <4>1. /\ IsFiniteSet(B \cup D)
            /\ Cardinality(B \cup D) = Cardinality(B) + Cardinality(D) - Cardinality(B \cap D)
        BY <3>4, FS_Union
      <4>2. B \cap D = {}
        BY <3>3
      <4>3. Cardinality(B \cap D) = 0
        BY <4>2, FS_EmptySet
      <4>4. Cardinality(B) \in Nat /\ Cardinality(D) \in Nat /\ Cardinality(B \cup D) \in Nat
        BY <3>4, <4>1, FS_CardinalityType
      <4>. QED  BY <4>1, <4>3, <4>4
    <3>6. O \cap Q \in SUBSET (B \cup D)
      BY <3>3
    <3>7. Cardinality(O \cap Q) <= Cardinality(B \cup D) /\ Cardinality(O \cap Q) \in Nat
      BY <3>5, <3>6, FS_Subset, FS_CardinalityType
    <3>8. Cardinality(B) \in Nat /\ Cardinality(D) \in Nat
      BY <3>4, FS_CardinalityType
    <3>9. Cardinality(B) <= q.behind /\ Cardinality(D) <= k
      BY <2>3, <2>4, <3>2, <3>3
    <3>10. Cardinality(O \cap Q) <= q.behind + k
      BY <2>5, <2>8, <3>5, <3>7, <3>8, <3>9
    <3>. QED  BY <2>8, <2>9, <2>10, <3>1, <3>10 DEF SendingOK
  <2>. QED  BY <2>1, <2>6, <2>8, <2>10
<1>3. Shake(cs) \in [Calls -> CallStates]
  BY <1>2 DEF Shake
<1>. QED  BY <1>2, <1>3

\* A call applies readings of its own source, which the others do not wait for.
LEMMA OrderStep ==
  ASSUME TypeOK, OrderInv, NEW t \in Calls, NEW todo \in Seq(Readings), NEW cs,
         NEW others \in [Calls -> CallStates], NEW p, Advanced(t, todo, cs, others, p),
         clock' \in Nat, clock <= clock',
         Pending(todo, t, applied, clock'), InOrder(applied, clock'),
         t \in Deliveries => todo = <<>>,
         \A u \in Calls : others[u].todo = call[u].todo,
         mqttQueue' = mqttQueue
  PROVE  OrderInv'
<1>1. /\ applied \in Seq(Readings) /\ mqttQueue \in Seq(Readings) /\ clock \in Nat
      /\ \A u \in Calls : call[u].todo \in Seq(Readings)
      /\ call' = [others EXCEPT ![t] = p]
  <2>1. call \in [Calls -> CallStates] /\ applied \in Seq(Readings) /\ mqttQueue \in Seq(Readings)
        /\ clock \in Nat
    BY Bounds DEF TypeOK
  <2>2. \A u \in Calls : call[u].todo \in Seq(Readings)
    BY <2>1 DEF CallStates
  <2>. QED  BY <2>1, <2>2 DEF Advanced
<1>2. /\ \A u \in Calls : u # t => call'[u].todo = call[u].todo
      /\ call'[t] = p
  BY <1>1
<1>3. /\ Pending(mqttQueue, "mqtt", applied, clock')
      /\ \A u \in Posts \cup Sims : Pending(call[u].todo, u, applied, clock')
  BY <1>1, PendingLater DEF OrderInv, Calls
<1>4. CASE p = IdleCall /\ UNCHANGED agent
  <2>1. applied' = applied /\ p.todo = <<>>
    BY <1>4 DEF agent, IdleCall
  <2>2. Pending(<<>>, t, applied, clock')
    BY EmptySeq DEF Pending
  <2>3. \A u \in Posts \cup Sims : Pending(call'[u].todo, u, applied, clock')
    BY <1>2, <1>3, <2>1, <2>2 DEF Calls
  <2>4. \A d \in Deliveries : call'[d].todo = <<>>
    BY <1>2, <2>1 DEF OrderInv, Calls
  <2>. QED  BY <1>3, <2>1, <2>3, <2>4 DEF OrderInv
<1>5. CASE \E k \in 1..Len(todo) : Apply(todo[k]) /\ p.todo = SubSeq(todo, k + 1, Len(todo))
  <2>1. PICK k \in 1..Len(todo) : Apply(todo[k]) /\ p.todo = SubSeq(todo, k + 1, Len(todo))
    BY <1>5
  <2>2. applied' = Append(applied, todo[k]) /\ todo[k] \in Readings /\ todo[k].src = t
    BY <2>1, Numbers DEF Apply, Pending
  <2>3. Pending(p.todo, t, applied', clock') /\ InOrder(applied', clock')
    BY <1>1, <2>1, <2>2, PendingRest
  <2>4. t \notin Deliveries /\ t \in Posts \cup Sims /\ t # "mqtt"
    <3>1. Len(todo) # 0
      BY <2>1, LenProperties
    <3>. QED  BY <3>1, EmptySeq, Bounds DEF Calls
  <2>5. Pending(mqttQueue, "mqtt", applied', clock')
    BY <1>1, <1>3, <2>2, <2>4, PendingOther
  <2>6. ASSUME NEW u \in Posts \cup Sims PROVE Pending(call'[u].todo, u, applied', clock')
    <3>1. CASE u = t
      BY <1>2, <2>3, <3>1
    <3>2. CASE u # t
      <4>1. Pending(call[u].todo, u, applied', clock')
        BY <1>1, <1>3, <2>2, <3>2, PendingOther
      <4>. QED  BY <1>2, <3>2, <4>1 DEF Calls
    <3>. QED  BY <3>1, <3>2
  <2>7. \A d \in Deliveries : call'[d].todo = <<>>
    BY <1>2, <2>4 DEF OrderInv, Calls
  <2>. QED  BY <2>3, <2>5, <2>6, <2>7 DEF OrderInv
<1>. QED  BY <1>4, <1>5 DEF Advanced

\* Nothing is applied and nothing new waits.
LEMMA OrderQuiet ==
  ASSUME TypeOK, OrderInv, clock' = clock, applied' = applied, mqttQueue' = mqttQueue,
         \A u \in Calls : call'[u].todo = call[u].todo \/ call'[u].todo = <<>>
  PROVE  OrderInv'
<1>1. \A u \in Posts \cup Sims : Pending(<<>>, u, applied, clock)
  BY EmptySeq DEF Pending
<1>2. \A u \in Posts \cup Sims : Pending(call'[u].todo, u, applied, clock)
  BY <1>1 DEF OrderInv, Calls
<1>3. \A d \in Deliveries : call'[d].todo = <<>>
  BY DEF OrderInv, Calls
<1>. QED  BY <1>2, <1>3 DEF OrderInv

---------------------------------------------------------------------------
(* The invariant, initially and over the steps of the calls.               *)

\* The invariant holds initially, and every step keeps it:
LEMMA InvInit ==
  Init => Inv
<1>. SUFFICES ASSUME Init PROVE Inv
  OBVIOUS
<1>1. applied = <<>> /\ alerts = <<>> /\ conns = <<>> /\ mqttQueue = <<>> /\ clock = 0
      /\ \A u \in Calls : call[u] = IdleCall
  BY DEF Init
<1>2. Len(<<>>) = 0 /\ \A S : <<>> \in Seq(S)
  BY EmptySeq
<1>3. IdleCall.todo = <<>> /\ IdleCall.pc = "idle"
  BY DEF IdleCall
<1>4. TypeOK
  <2>1. call \in [Calls -> CallStates]
    BY IdleCallType DEF Init
  <2>2. IsInjective(conns)
    <3>1. DOMAIN <<>> = 1..0
      BY <1>2, LenProperties
    <3>. QED  BY <1>1, <3>1 DEF IsInjective
  <2>3. Len(alerts) <= MaxAlerts /\ clock \in 0..MaxReadings /\ 0 \in 0..MaxTicks
    BY <1>1, <1>2, Bounds, BoundsAssumption
  <2>4. alerts \in Seq(Readings) /\ applied \in Seq(Readings) /\ conns \in Seq(Clients)
        /\ mqttQueue \in Seq(Readings)
    BY <1>1, <1>2
  <2>. QED  BY <2>1, <2>2, <2>3, <2>4 DEF Init, TypeOK
<1>5. OrderInv
  <2>1. \A src : Pending(<<>>, src, <<>>, 0)
    BY <1>2 DEF Pending
  <2>2. InOrder(<<>>, 0)
    BY <1>2 DEF InOrder
  <2>3. \A u \in Calls : call[u].todo = <<>>
    BY <1>1, <1>3
  <2>. QED  BY <1>1, <2>1, <2>2, <2>3 DEF OrderInv, Calls
<1>6. OwedInv
  BY <1>1, <1>3 DEF OwedInv
<1>7. SimsInv
  <2>1. \A s \in Sims : call[s].pc = "idle"
    BY <1>1, <1>3 DEF Calls
  <2>. QED  BY <2>1 DEF SimsInv, Init
<1>8. AlertsInv
  <2>1. Selected(<<>>, Alarming) \in Seq(Readings) /\ Len(Selected(<<>>, Alarming)) <= 0
    BY <1>2, SelectedType
  <2>2. Len(Selected(<<>>, Alarming)) = 0
    BY <2>1, LenProperties
  <2>. QED  BY <1>1, <1>2, <2>2, Bounds DEF AlertsInv, EndOf
<1>9. \A c \in Clients : peer[c] = "new" => ~Contains(conns, c)
  BY <1>1, <1>2 DEF Contains
<1>. QED  BY <1>4, <1>5, <1>6, <1>7, <1>8, <1>9 DEF Inv

\* the send to one client of a broadcast,
LEMMA InvSendNext ==
  ASSUME Inv, NEW t \in Calls, SendNext(t)
  PROVE  Inv'
<1>1. TypeOK /\ OrderInv /\ OwedInv /\ SimsInv /\ AlertsInv
  BY DEF Inv
<1>2. /\ UNCHANGED <<service, agent, conns, sims, ticks, links, peer, clock>>
      /\ call[t].pc = "sending" /\ call[t].pos <= Len(conns) /\ Send(t, call[t], conns, call)
  BY DEF SendNext
<1>3. conns \in Seq(Clients) /\ IsInjective(conns) /\ call \in [Calls -> CallStates]
  BY <1>1 DEF TypeOK
<1>4. \A u \in Calls : call[u].pc = "sending" => SendingOK(call[u], conns)
  BY <1>1 DEF OwedInv, SendingOK
<1>5. PICK p \in CallStates : /\ call' = [call EXCEPT ![t] = p]
                              /\ p.todo = call[t].todo /\ SendingOK(p, conns)
  BY <1>2, <1>3, <1>4, SendFacts
<1>6. \A u \in Calls : call'[u].todo = call[u].todo /\ call'[u].pc = call[u].pc
                       /\ (call'[u].pc = "sending" => SendingOK(call'[u], conns))
  BY <1>2, <1>3, <1>4, <1>5 DEF SendingOK
<1>7. /\ service' = service /\ conns' = conns /\ sims' = sims /\ clock' = clock /\ applied' = applied
      /\ alerts' = alerts /\ mqttQueue' = mqttQueue /\ peer' = peer
  BY <1>2 DEF agent, links
<1>8. TypeOK'
  <2>1. call' \in [Calls -> CallStates]
    BY <1>3, <1>5
  <2>. QED  BY <1>1, <1>2, <2>1 DEF TypeOK, agent, links
<1>9. OrderInv'
  BY <1>1, <1>6, <1>7, OrderQuiet
<1>10. OwedInv'
  BY <1>6, <1>7, OwedQuiet
<1>11. SimsInv'
  BY <1>1, <1>6, <1>7 DEF SimsInv, Calls
<1>12. AlertsInv' /\ \A c \in Clients : peer'[c] = "new" => ~Contains(conns', c)
  BY <1>1, <1>7 DEF AlertsInv, Inv
<1>. QED  BY <1>8, <1>9, <1>10, <1>11, <1>12 DEF Inv

\* When a call ends, its simulation sleeps, and none did after a shutdown.
LEMMA ReturnsFacts ==
  ASSUME TypeOK, SimsInv, NEW t \in Calls, Returns(t), call[t].pc # "idle",
         t \in Sims => sims[t] # "cancelled", service' = service,
         \A u \in Calls : u # t => call'[u].pc = call[u].pc
  PROVE  /\ SimsInv'
         /\ sims' \in [Sims -> {"none", "sleeping", "ingesting", "cancelled", "done"}]
         /\ waiting' \in Posts \cup {None}
<1>1. /\ sims \in [Sims -> {"none", "sleeping", "ingesting", "cancelled", "done"}]
      /\ waiting \in Posts \cup {None}
  BY DEF TypeOK
<1>2. waiting' \in Posts \cup {None}
  BY <1>1 DEF Returns
<1>3. CASE t \in Sims /\ call'[t].pc = "idle"
  <2>1. sims[t] = "ingesting" /\ sims' = [sims EXCEPT ![t] = "sleeping"]
    BY <1>3 DEF SimsInv, Returns
  <2>2. service' \notin {"closing", "stopped"}
    BY <1>3, <2>1 DEF SimsInv
  <2>3. \A s \in Sims : call'[s].pc # "idle" => sims'[s] \in {"ingesting", "cancelled"}
    BY <1>1, <1>3, <2>1 DEF SimsInv, Calls
  <2>4. sims' \in [Sims -> {"none", "sleeping", "ingesting", "cancelled", "done"}]
    BY <1>1, <2>1
  <2>. QED  BY <1>2, <2>2, <2>3, <2>4 DEF SimsInv
<1>4. CASE ~(t \in Sims /\ call'[t].pc = "idle")
  <2>1. sims' = sims
    BY <1>4 DEF Returns
  <2>. QED  BY <1>1, <1>2, <1>4, <2>1 DEF SimsInv, Calls
<1>. QED  BY <1>3, <1>4

\* A call that goes on with what it holds, over the list as it is now.
LEMMA InvGoesOn ==
  ASSUME Inv, NEW t \in Calls, call[t].pc # "idle", t \in Sims => sims[t] # "cancelled",
         NEW others \in [Calls -> CallStates],
         \A u \in Calls : /\ others[u].todo = call[u].todo /\ others[u].pc = call[u].pc
                          /\ others[u].pc = "sending" => SendingOK(others[u], conns'),
         conns' \in Seq(Clients), IsInjective(conns'),
         \A c \in Clients : ~Contains(conns, c) => ~Contains(conns', c),
         Advance(t, call[t].todo, conns', others), Returns(t),
         UNCHANGED <<service, ticks, redis, mqtt, mqttQueue, peer, clock>>
  PROVE  Inv'
<1>1. TypeOK /\ OrderInv /\ OwedInv /\ SimsInv /\ AlertsInv
  BY DEF Inv
<1>2. call[t].todo \in Seq(Readings) /\ clock \in Nat /\ clock \in 0..MaxReadings
  BY <1>1, Bounds DEF TypeOK, CallStates
<1>3. PICK p : Advanced(t, call[t].todo, conns', others, p)
  BY <1>2, AdvanceFacts
<1>4. /\ machineStates' \in [Machines -> Readings \cup {None}]
      /\ alerts' \in Seq(Readings) /\ Len(alerts') <= MaxAlerts
      /\ applied' \in Seq(Readings) /\ call' \in [Calls -> CallStates]
      /\ AlertsInv'
      /\ call'[t] = p /\ \A u \in Calls : u # t => call'[u] = others[u]
  <2>1. PICK todo, cs : todo = call[t].todo /\ cs = conns'
    OBVIOUS
  <2>2. todo \in Seq(Readings) /\ Advanced(t, todo, cs, others, p)
    BY <1>2, <1>3, <2>1
  <2>3. TypeOK /\ AlertsInv /\ others \in [Calls -> CallStates]
    BY <1>1
  <2>4. call' = [others EXCEPT ![t] = p]
    BY <1>3 DEF Advanced
  <2>5. call'[t] = p /\ \A u \in Calls : u # t => call'[u] = others[u]
    BY <2>3, <2>4
  <2>. QED  BY <2>2, <2>3, <2>5, AgentStep
<1>5. OwedInv'
  BY <1>3, OwedStep
<1>6. OrderInv'
  <2>1. t \in Deliveries => call[t].todo = <<>>
    BY <1>1 DEF OrderInv
  <2>2. Pending(call[t].todo, t, applied, clock)
    <3>1. CASE t \in Deliveries
      BY <2>1, <3>1, EmptySeq DEF Pending
    <3>2. CASE t \in Posts \cup Sims
      BY <1>1, <3>2 DEF OrderInv
    <3>. QED  BY <3>1, <3>2 DEF Calls
  <2>3. InOrder(applied, clock)
    BY <1>1 DEF OrderInv
  <2>. QED  BY <1>1, <1>2, <1>3, <2>1, <2>2, <2>3, OrderStep
<1>7. /\ SimsInv'
      /\ sims' \in [Sims -> {"none", "sleeping", "ingesting", "cancelled", "done"}]
      /\ waiting' \in Posts \cup {None}
  BY <1>1, <1>4, ReturnsFacts
<1>8. TypeOK'
  BY <1>1, <1>4, <1>7 DEF TypeOK
<1>9. \A c \in Clients : peer'[c] = "new" => ~Contains(conns', c)
  BY DEF Inv
<1>. QED  BY <1>4, <1>5, <1>6, <1>7, <1>8, <1>9 DEF Inv

\* the end of a broadcast and the readings up to the next,
LEMMA InvEndBroadcast ==
  ASSUME Inv, NEW t \in Calls, EndBroadcast(t), t \in Sims => sims[t] # "cancelled"
  PROVE  Inv'
<1>1. TypeOK /\ OrderInv /\ OwedInv /\ SimsInv /\ AlertsInv
  BY DEF Inv
<1>. DEFINE cs == Without(conns, call[t].failed)
<1>2. /\ conns' = cs /\ Returns(t) /\ call[t].pc = "sending"
      /\ UNCHANGED <<service, ticks, redis, mqtt, mqttQueue, peer, clock>>
  BY DEF EndBroadcast
<1>3. /\ cs \in Seq(Clients) /\ IsInjective(cs)
      /\ \A c \in Clients : ~Contains(conns, c) => ~Contains(cs, c)
  BY <1>1, WithoutType DEF TypeOK
<1>4. /\ Shake(cs) \in [Calls -> CallStates]
      /\ \A u \in Calls : /\ Shake(cs)[u].todo = call[u].todo /\ Shake(cs)[u].pc = call[u].pc
                          /\ Shake(cs)[u].pc = "sending" => SendingOK(Shake(cs)[u], cs)
  BY <1>1, ShakeFacts
<1>5. CASE ~redis
  <2>1. Advance(t, call[t].todo, cs, Shake(cs))
    BY <1>5 DEF EndBroadcast
  <2>2. Advance(t, call[t].todo, conns', Shake(cs))
    BY <1>2, <2>1
  <2>. HIDE DEF cs
  <2>3. PICK others : others = Shake(cs)
    OBVIOUS
  <2>. QED  BY <1>2, <1>3, <1>4, <2>2, <2>3, InvGoesOn
<1>6. CASE redis
  <2>. DEFINE p == [IdleCall EXCEPT !.pc = "publishing", !.todo = call[t].todo]
  <2>1. call' = [Shake(cs) EXCEPT ![t] = p] /\ UNCHANGED agent
    BY <1>6 DEF EndBroadcast
  <2>2. call[t] \in CallStates
    BY <1>1 DEF TypeOK
  <2>3. p \in CallStates /\ p.todo = call[t].todo /\ p.pc = "publishing"
    BY <2>2, IdleCallType DEF IdleCall, CallStates
  <2>. HIDE DEF p, cs
  <2>4. /\ call' \in [Calls -> CallStates] /\ call'[t] = p
        /\ \A u \in Calls : u # t => call'[u] = Shake(cs)[u]
    BY <1>4, <2>1, <2>3
  <2>5. /\ SimsInv'
        /\ sims' \in [Sims -> {"none", "sleeping", "ingesting", "cancelled", "done"}]
        /\ waiting' \in Posts \cup {None}
    <3>1. \A u \in Calls : u # t => call'[u].pc = call[u].pc
      BY <1>4, <2>4
    <3>. QED  BY <1>1, <1>2, <3>1, ReturnsFacts
  <2>6. OrderInv'
    <3>1. \A u \in Calls : call'[u].todo = call[u].todo
      BY <1>4, <2>3, <2>4
    <3>. QED  BY <1>1, <1>2, <2>1, <3>1, OrderQuiet DEF agent
  <2>7. OwedInv'
    <3>1. \A u \in Calls : call'[u].pc = "sending" => SendingOK(call'[u], conns')
      BY <1>2, <1>4, <2>3, <2>4
    <3>. QED  BY <3>1, OwedQuiet
  <2>8. TypeOK'
    BY <1>1, <1>2, <1>3, <2>1, <2>4, <2>5 DEF TypeOK, agent
  <2>9. AlertsInv'
    BY <1>1, <2>1 DEF AlertsInv, agent
  <2>10. \A c \in Clients : peer'[c] = "new" => ~Contains(conns', c)
    BY <1>2, <1>3 DEF Inv
  <2>. QED  BY <2>5, <2>6, <2>7, <2>8, <2>9, <2>10 DEF Inv
<1>. QED  BY <1>5, <1>6

\* a publication on MQTT,
LEMMA InvPublish ==
  ASSUME Inv, NEW t \in Calls, Publish(t), t \in Sims => sims[t] # "cancelled"
  PROVE  Inv'
<1>1. /\ call[t].pc # "idle" /\ Advance(t, call[t].todo, conns, call) /\ Returns(t)
      /\ UNCHANGED <<service, conns, ticks, redis, mqtt, mqttQueue, peer, clock>>
  BY DEF Publish
<1>2. Advance(t, call[t].todo, conns', call)
  BY <1>1
<1>3. conns' \in Seq(Clients) /\ IsInjective(conns') /\ call \in [Calls -> CallStates]
  BY <1>1 DEF Inv, TypeOK
<1>4. \A u \in Calls : call[u].pc = "sending" => SendingOK(call[u], conns')
  BY <1>1 DEF Inv, OwedInv, SendingOK
<1>5. PICK others : others = call
  OBVIOUS
<1>. QED  BY <1>1, <1>2, <1>3, <1>4, <1>5, InvGoesOn

---------------------------------------------------------------------------
(* The sources.                                                            *)

\* A source hands in a batch, which it makes with the numbers after clock.
LEMMA BatchStep ==
  ASSUME TypeOK, OrderInv, OwedInv, AlertsInv, NEW t \in Posts \cup Sims,
         NEW batch \in Seq(Samples), clock + Len(batch) <= MaxReadings,
         clock' = clock + Len(batch), Advance(t, Stamped(batch, t), conns, call),
         conns' = conns, mqttQueue' = mqttQueue
  PROVE  /\ machineStates' \in [Machines -> Readings \cup {None}]
         /\ alerts' \in Seq(Readings) /\ Len(alerts') <= MaxAlerts
         /\ applied' \in Seq(Readings) /\ call' \in [Calls -> CallStates]
         /\ clock' \in 0..MaxReadings
         /\ AlertsInv' /\ OwedInv' /\ OrderInv'
         /\ \A u \in Calls : u # t => call'[u] = call[u]
<1>1. t \in Calls /\ t \notin Deliveries
  BY Bounds DEF Calls
<1>2. PICK todo : todo = Stamped(batch, t)
  OBVIOUS
<1>3. /\ todo \in Seq(Readings) /\ clock' \in 0..MaxReadings
      /\ Pending(todo, t, applied, clock') /\ InOrder(applied, clock')
  <2>1. t \in Calls \cup {"mqtt"} /\ InOrder(applied, clock)
    BY <1>1 DEF OrderInv
  <2>. QED  BY <1>2, <2>1, StampedPending
<1>4. conns \in Seq(Clients) /\ IsInjective(conns) /\ call \in [Calls -> CallStates]
      /\ Advance(t, todo, conns, call)
  BY <1>2 DEF TypeOK
<1>5. PICK p : Advanced(t, todo, conns, call, p)
  BY <1>1, <1>3, <1>4, AdvanceFacts
<1>6. \A u \in Calls : u # t => call'[u] = call[u]
  <2>1. call' = [call EXCEPT ![t] = p]
    BY <1>5 DEF Advanced
  <2>. QED  BY <1>4, <2>1
<1>7. /\ machineStates' \in [Machines -> Readings \cup {None}]
      /\ alerts' \in Seq(Readings) /\ Len(alerts') <= MaxAlerts
      /\ applied' \in Seq(Readings) /\ call' \in [Calls -> CallStates] /\ AlertsInv'
  BY <1>1, <1>3, <1>4, <1>5, AgentStep
<1>8. OwedInv'
  <2>1. \A u \in Calls : call[u].pc = "sending" => SendingOK(call[u], conns')
    BY DEF OwedInv, SendingOK
  <2>2. Advanced(t, todo, conns', call, p)
    BY <1>5
  <2>3. PICK others : others = call
    OBVIOUS
  <2>4. /\ others \in [Calls -> CallStates] /\ Advanced(t, todo, conns', others, p)
        /\ \A u \in Calls : others[u].pc = "sending" => SendingOK(others[u], conns')
    BY <1>4, <2>1, <2>2, <2>3
  <2>. QED  BY <1>1, <2>4, OwedStep
<1>9. OrderInv'
  <2>1. clock \in Nat /\ clock' \in Nat /\ clock <= clock'
    BY LenProperties, Bounds DEF TypeOK
  <2>2. PICK others, cs : others = call /\ cs = conns
    OBVIOUS
  <2>3. /\ others \in [Calls -> CallStates] /\ Advanced(t, todo, cs, others, p)
        /\ \A u \in Calls : others[u].todo = call[u].todo
    BY <1>4, <1>5, <2>2
  <2>. QED  BY <1>1, <1>3, <2>1, <2>3, OrderStep
<1>. QED  BY <1>3, <1>6, <1>7, <1>8, <1>9

\* a post of the replay,
LEMMA InvReplayPost ==
  ASSUME Inv, NEW p \in Posts, ReplayPost(p)
  PROVE  Inv'
<1>1. PICK batch \in PostBatches :
        /\ clock + Len(batch) <= MaxReadings /\ clock' = clock + Len(batch)
        /\ Advance(p, Stamped(batch, p), conns, call)
        /\ waiting' = IF call'[p].pc = "idle" THEN None ELSE p
        /\ UNCHANGED <<service, conns, sims, ticks, redis, mqtt, mqttQueue, peer>>
  BY DEF ReplayPost
<1>2. batch \in Seq(Samples) /\ p \in Posts \cup Sims /\ p \notin Sims
  BY SourcesAssumption
<1>3. TypeOK /\ OrderInv /\ OwedInv /\ SimsInv /\ AlertsInv
  BY DEF Inv
<1>4. /\ machineStates' \in [Machines -> Readings \cup {None}]
      /\ alerts' \in Seq(Readings) /\ Len(alerts') <= MaxAlerts
      /\ applied' \in Seq(Readings) /\ call' \in [Calls -> CallStates]
      /\ clock' \in 0..MaxReadings
      /\ AlertsInv' /\ OwedInv' /\ OrderInv'
      /\ \A u \in Calls : u # p => call'[u] = call[u]
  BY <1>1, <1>2, <1>3, BatchStep
<1>5. SimsInv'
  <2>1. \A s \in Sims : call'[s] = call[s]
    BY <1>2, <1>4 DEF Calls
  <2>. QED  BY <1>1, <1>3, <2>1 DEF SimsInv
<1>6. TypeOK'
  <2>1. waiting' \in Posts \cup {None}
    BY <1>1
  <2>. QED  BY <1>1, <1>3, <1>4, <2>1 DEF TypeOK
<1>7. \A c \in Clients : peer'[c] = "new" => ~Contains(conns', c)
  BY <1>1 DEF Inv
<1>. QED  BY <1>4, <1>5, <1>6, <1>7 DEF Inv

\* a tick of a simulation,
LEMMA InvTick ==
  ASSUME Inv, NEW s \in Sims, Tick(s)
  PROVE  Inv'
<1>1. PICK batch \in SimBatches :
        /\ sims[s] = "sleeping" /\ ticks[s] < MaxTicks
        /\ clock + Len(batch) <= MaxReadings /\ clock' = clock + Len(batch)
        /\ ticks' = [ticks EXCEPT ![s] = @ + 1]
        /\ Advance(s, Stamped(batch, s), conns, call)
        /\ sims' = IF call'[s].pc = "idle" THEN sims ELSE [sims EXCEPT ![s] = "ingesting"]
        /\ UNCHANGED <<service, conns, links, peer>>
  BY DEF Tick
<1>2. batch \in Seq(Samples) /\ s \in Posts \cup Sims
  BY SourcesAssumption
<1>3. TypeOK /\ OrderInv /\ OwedInv /\ SimsInv /\ AlertsInv
  BY DEF Inv
<1>4. /\ machineStates' \in [Machines -> Readings \cup {None}]
      /\ alerts' \in Seq(Readings) /\ Len(alerts') <= MaxAlerts
      /\ applied' \in Seq(Readings) /\ call' \in [Calls -> CallStates]
      /\ clock' \in 0..MaxReadings
      /\ AlertsInv' /\ OwedInv' /\ OrderInv'
      /\ \A u \in Calls : u # s => call'[u] = call[u]
  <2>1. mqttQueue' = mqttQueue /\ conns' = conns
    BY <1>1 DEF links
  <2>. QED  BY <1>1, <1>2, <1>3, <2>1, BatchStep
<1>5. sims \in [Sims -> {"none", "sleeping", "ingesting", "cancelled", "done"}]
  BY <1>3 DEF TypeOK
<1>6. SimsInv'
  <2>1. service' \notin {"closing", "stopped"}
    BY <1>1, <1>3 DEF SimsInv
  <2>2. \A u \in Sims : call'[u].pc # "idle" => sims'[u] \in {"ingesting", "cancelled"}
    BY <1>1, <1>3, <1>4, <1>5 DEF SimsInv, Calls
  <2>. QED  BY <2>1, <2>2 DEF SimsInv
<1>7. TypeOK'
  <2>1. sims' \in [Sims -> {"none", "sleeping", "ingesting", "cancelled", "done"}]
    BY <1>1, <1>5
  <2>2. ticks' \in [Sims -> 0..MaxTicks]
    <3>1. ticks \in [Sims -> 0..MaxTicks] /\ MaxTicks \in Nat
      BY <1>3, BoundsAssumption DEF TypeOK
    <3>2. ticks[s] + 1 \in 0..MaxTicks
      BY <1>1, <3>1
    <3>. QED  BY <1>1, <3>1, <3>2
  <2>. QED  BY <1>1, <1>3, <1>4, <2>1, <2>2 DEF TypeOK, links
<1>8. \A c \in Clients : peer'[c] = "new" => ~Contains(conns', c)
  BY <1>1 DEF Inv
<1>. QED  BY <1>4, <1>6, <1>7, <1>8 DEF Inv

\* A message joins the queue of the loop as the newest reading of its source.
LEMMA InvOnMessage ==
  ASSUME Inv, OnMessage
  PROVE  Inv'
<1>1. PICK sample \in Messages :
        /\ clock < MaxReadings /\ clock' = clock + 1
        /\ mqttQueue' = Append(mqttQueue, Stamped(<<sample>>, "mqtt")[1])
        /\ UNCHANGED <<service, agent, conns, call, sims, ticks, redis, mqtt, waiting, peer>>
  BY DEF OnMessage, Queued
<1>2. TypeOK /\ OrderInv /\ OwedInv /\ SimsInv /\ AlertsInv
  BY DEF Inv
<1>3. PICK r : r = Stamped(<<sample>>, "mqtt")[1]
  OBVIOUS
<1>4. /\ r \in Readings /\ r.ts = clock + 1 /\ r.src = "mqtt"
      /\ clock \in Nat /\ clock' \in 0..MaxReadings /\ InOrder(applied, clock')
  <2>1. sample \in Samples /\ InOrder(applied, clock)
    BY <1>2, SourcesAssumption DEF OrderInv
  <2>2. <<sample>> \in Seq(Samples) /\ Len(<<sample>>) = 1
    BY <2>1
  <2>3. clock \in Nat /\ clock + Len(<<sample>>) <= MaxReadings /\ clock + Len(<<sample>>) = clock + 1
    BY <1>1, <1>2, <2>2, Bounds DEF TypeOK
  <2>4. PICK batch : batch = <<sample>>
    OBVIOUS
  <2>5. batch \in Seq(Samples) /\ Len(batch) = 1 /\ clock + Len(batch) <= MaxReadings
    BY <2>2, <2>3, <2>4
  <2>6. /\ Stamped(batch, "mqtt") \in Seq(Readings) /\ Len(Stamped(batch, "mqtt")) = 1
        /\ InOrder(applied, clock + Len(batch)) /\ clock + Len(batch) \in 0..MaxReadings
        /\ \A k \in 1..Len(batch) : /\ Stamped(batch, "mqtt")[k].ts = clock + k
                                    /\ Stamped(batch, "mqtt")[k].src = "mqtt"
    BY <1>2, <2>1, <2>5, StampedPending
  <2>7. r \in Readings
    BY <1>3, <2>4, <2>6, ElementOfSeq
  <2>. QED  BY <1>1, <1>3, <2>3, <2>4, <2>5, <2>6, <2>7
<1>5. mqttQueue \in Seq(Readings) /\ applied \in Seq(Readings)
  BY <1>2 DEF TypeOK
<1>6. TypeOK'
  <2>1. mqttQueue' \in Seq(Readings)
    BY <1>1, <1>3, <1>4, <1>5, AppendProperties
  <2>. QED  BY <1>1, <1>2, <1>4, <2>1 DEF TypeOK, agent
<1>7. OrderInv'
  <2>1. Pending(mqttQueue', "mqtt", applied, clock')
    <3>1. Pending(mqttQueue, "mqtt", applied, clock) /\ InOrder(applied, clock)
      BY <1>2 DEF OrderInv
    <3>2. mqttQueue' = Append(mqttQueue, r) /\ clock' = clock + 1
      BY <1>1, <1>3
    <3>. QED  BY <1>4, <1>5, <3>1, <3>2, PendingAppend
  <2>2. \A u \in Posts \cup Sims : Pending(call[u].todo, u, applied, clock')
    <3>. TAKE u \in Posts \cup Sims
    <3>1. call[u].todo \in Seq(Readings) /\ Pending(call[u].todo, u, applied, clock)
      BY <1>2 DEF TypeOK, CallStates, OrderInv, Calls
    <3>2. clock' \in Nat /\ clock <= clock'
      BY <1>1, <1>4
    <3>. QED  BY <1>4, <3>1, <3>2, PendingLater
  <2>3. applied' = applied /\ call' = call
    BY <1>1 DEF agent
  <2>. QED  BY <1>2, <1>4, <2>1, <2>2, <2>3 DEF OrderInv
<1>8. OwedInv' /\ SimsInv' /\ AlertsInv' /\ \A c \in Clients : peer'[c] = "new" => ~Contains(conns', c)
  BY <1>1, <1>2 DEF OwedInv, SimsInv, AlertsInv, agent, Inv
<1>. QED  BY <1>6, <1>7, <1>8 DEF Inv

\* The loop takes the oldest message of its queue, alone.
LEMMA InvDeliver ==
  ASSUME Inv, NEW d \in Deliveries, Deliver(d)
  PROVE  Inv'
<1>1. TypeOK /\ OrderInv /\ OwedInv /\ SimsInv /\ AlertsInv
  BY DEF Inv
<1>2. /\ mqttQueue # <<>> /\ mqttQueue' = Tail(mqttQueue)
      /\ Advance(d, <<Head(mqttQueue)>>, conns, call)
      /\ UNCHANGED <<service, conns, sims, ticks, redis, mqtt, waiting, peer, clock>>
  BY DEF Deliver
<1>3. /\ mqttQueue \in Seq(Readings) /\ applied \in Seq(Readings)
      /\ conns \in Seq(Clients) /\ IsInjective(conns) /\ call \in [Calls -> CallStates]
      /\ clock \in Nat
  BY <1>1, Bounds DEF TypeOK
<1>4. d \in Calls /\ d \notin Posts \cup Sims /\ d # "mqtt"
  BY Bounds DEF Calls
<1>5. PICK r : r = Head(mqttQueue)
  OBVIOUS
<1>6. /\ r \in Readings /\ Tail(mqttQueue) \in Seq(Readings) /\ Len(mqttQueue) \in Nat \ {0}
      /\ r = mqttQueue[1] /\ Tail(mqttQueue) = SubSeq(mqttQueue, 2, Len(mqttQueue))
  <2>1. Len(mqttQueue) \in Nat \ {0}
    BY <1>2, <1>3, EmptySeq
  <2>. QED  BY <1>2, <1>3, <1>5, <2>1, HeadTailProperties, TailIsSubSeq
<1>7. PICK todo : todo = <<r>>
  OBVIOUS
<1>8. todo \in Seq(Readings) /\ Len(todo) = 1 /\ todo[1] = r
  BY <1>6, <1>7
<1>9. PICK p : Advanced(d, todo, conns, call, p)
  BY <1>2, <1>3, <1>4, <1>5, <1>7, <1>8, AdvanceFacts
<1>10. call'[d] = p /\ \A u \in Calls : u # d => call'[u] = call[u]
  <2>1. call' = [call EXCEPT ![d] = p]
    BY <1>9 DEF Advanced
  <2>. QED  BY <1>3, <1>4, <2>1
<1>11. /\ machineStates' \in [Machines -> Readings \cup {None}]
       /\ alerts' \in Seq(Readings) /\ Len(alerts') <= MaxAlerts
       /\ applied' \in Seq(Readings) /\ call' \in [Calls -> CallStates] /\ AlertsInv'
  BY <1>1, <1>3, <1>4, <1>8, <1>9, AgentStep
<1>12. TypeOK'
  <2>1. mqttQueue' \in Seq(Readings)
    BY <1>2, <1>6
  <2>. QED  BY <1>1, <1>2, <1>11, <2>1 DEF TypeOK
<1>13. OwedInv'
  <2>1. \A u \in Calls : call[u].pc = "sending" => SendingOK(call[u], conns')
    BY <1>1, <1>2 DEF OwedInv, SendingOK
  <2>2. PICK others : others = call
    OBVIOUS
  <2>3. /\ others \in [Calls -> CallStates] /\ Advanced(d, todo, conns', others, p)
        /\ \A u \in Calls : others[u].pc = "sending" => SendingOK(others[u], conns')
    BY <1>2, <1>3, <1>9, <2>1, <2>2
  <2>. QED  BY <1>4, <2>3, OwedStep
<1>14. OrderInv'
  <2>1. /\ Pending(mqttQueue, "mqtt", applied, clock) /\ InOrder(applied, clock)
        /\ \A u \in Posts \cup Sims : Pending(call[u].todo, u, applied, clock)
        /\ \A e \in Deliveries : call[e].todo = <<>>
    BY <1>1 DEF OrderInv
  <2>2. PICK k : k = 1
    OBVIOUS
  <2>3. k \in 1..Len(mqttQueue) /\ k + 1 = 2 /\ mqttQueue[k] = r
    BY <1>6, <2>2
  <2>4. /\ Pending(Tail(mqttQueue), "mqtt", Append(applied, r), clock)
        /\ InOrder(Append(applied, r), clock)
    <3>1. /\ Pending(SubSeq(mqttQueue, k + 1, Len(mqttQueue)), "mqtt", Append(applied, mqttQueue[k]), clock)
          /\ InOrder(Append(applied, mqttQueue[k]), clock)
      BY <1>3, <2>1, <2>3, PendingRest
    <3>. QED  BY <1>6, <2>3, <3>1
  <2>5. r.src = "mqtt"
    BY <2>1, <2>3 DEF Pending
  <2>6. ASSUME NEW u \in Posts \cup Sims
        PROVE  call'[u].todo = call[u].todo /\ Pending(call[u].todo, u, Append(applied, r), clock)
    <3>1. r.src # u /\ u \in Calls
      BY <2>5, Bounds DEF Calls
    <3>2. call'[u].todo = call[u].todo
      BY <1>4, <1>10, <3>1
    <3>3. Pending(call[u].todo, u, Append(applied, r), clock)
      BY <1>3, <1>6, <2>1, <3>1, PendingOther
    <3>. QED  BY <3>2, <3>3
  <2>7. CASE p = IdleCall /\ UNCHANGED agent
    <3>1. applied' = applied /\ p.todo = <<>>
      BY <2>7 DEF agent, IdleCall
    <3>2. Pending(Tail(mqttQueue), "mqtt", applied, clock)
      <4>. DEFINE q == Tail(mqttQueue)
                  B == Append(applied, r)
      <4>1. Len(applied) \in Nat /\ Len(B) = Len(applied) + 1 /\ \A i \in 1..Len(applied) : B[i] = applied[i]
        BY <1>3, <1>6, AppendProperties, LenProperties
      <4>2. Pending(q, "mqtt", B, clock)
        BY <2>4
      <4>. HIDE DEF q, B
      <4>3. ASSUME NEW i \in 1..Len(q), NEW j \in 1..Len(applied), applied[j].src = "mqtt"
            PROVE  applied[j].ts < q[i].ts
        BY <4>1, <4>2, <4>3 DEF Pending
      <4>4. Pending(q, "mqtt", applied, clock)
        BY <4>2, <4>3 DEF Pending
      <4>. QED  BY <4>4 DEF q
    <3>3. \A u \in Posts \cup Sims : Pending(call'[u].todo, u, applied', clock')
      BY <1>2, <2>1, <2>6, <3>1
    <3>4. \A e \in Deliveries : call'[e].todo = <<>>
      BY <1>10, <2>1, <3>1 DEF Calls
    <3>. QED  BY <1>2, <2>1, <3>1, <3>2, <3>3, <3>4 DEF OrderInv
  <2>8. CASE \E i \in 1..Len(todo) : Apply(todo[i]) /\ p.todo = SubSeq(todo, i + 1, Len(todo))
    <3>1. Apply(r) /\ p.todo = SubSeq(todo, 2, 1)
      <4>1. PICK i \in 1..Len(todo) : Apply(todo[i]) /\ p.todo = SubSeq(todo, i + 1, Len(todo))
        BY <2>8
      <4>2. i = 1 /\ i + 1 = 2
        BY <1>8, <4>1
      <4>. QED  BY <1>8, <4>1, <4>2
    <3>2. applied' = Append(applied, r) /\ p.todo = <<>>
      BY <3>1, SubSeqEmpty DEF Apply
    <3>3. \A u \in Posts \cup Sims : Pending(call'[u].todo, u, applied', clock')
      BY <1>2, <2>6, <3>2
    <3>4. \A e \in Deliveries : call'[e].todo = <<>>
      BY <1>10, <2>1, <3>2 DEF Calls
    <3>. QED  BY <1>2, <2>4, <3>2, <3>3, <3>4 DEF OrderInv
  <2>. QED  BY <1>9, <2>7, <2>8 DEF Advanced
<1>15. SimsInv'
  <2>1. \A s \in Sims : call'[s] = call[s]
    BY <1>4, <1>10 DEF Calls
  <2>. QED  BY <1>1, <1>2, <2>1 DEF SimsInv
<1>16. \A c \in Clients : peer'[c] = "new" => ~Contains(conns', c)
  BY <1>2 DEF Inv
<1>. QED  BY <1>11, <1>12, <1>13, <1>14, <1>15, <1>16 DEF Inv

---------------------------------------------------------------------------
(* Simulations, clients and the life of the agent.                         *)

\* A step of the connections' and the engine's own, which no call sees.
LEMMA InvElsewhere ==
  ASSUME Inv, TypeOK', UNCHANGED <<service, agent, conns, call, sims, mqttQueue, clock>>,
         \A c \in Clients : peer'[c] = "new" => peer[c] = "new"
  PROVE  Inv'
<1>1. OrderInv /\ OwedInv /\ SimsInv /\ AlertsInv
  BY DEF Inv
<1>2. OrderInv' /\ OwedInv' /\ SimsInv' /\ AlertsInv'
  BY <1>1 DEF OrderInv, OwedInv, SimsInv, AlertsInv, agent
<1>3. \A c \in Clients : peer'[c] = "new" => ~Contains(conns', c)
  BY DEF Inv
<1>. QED  BY <1>2, <1>3 DEF Inv

\* the coming and going of connections,
LEMMA InvConnections ==
  ASSUME Inv, ReplayTimeout \/ MqttConnects \/ MqttDisconnects \/ \E c \in Clients : ClientGone(c)
  PROVE  Inv'
<1>1. TypeOK
  BY DEF Inv
<1>2. CASE ReplayTimeout
  <2>1. TypeOK'
    BY <1>1, <1>2 DEF ReplayTimeout, TypeOK, agent
  <2>. QED  BY <1>2, <2>1, InvElsewhere DEF ReplayTimeout
<1>3. CASE MqttConnects
  <2>1. TypeOK'
    BY <1>1, <1>3 DEF MqttConnects, TypeOK, agent
  <2>. QED  BY <1>3, <2>1, InvElsewhere DEF MqttConnects
<1>4. CASE MqttDisconnects
  <2>1. TypeOK'
    BY <1>1, <1>4 DEF MqttDisconnects, TypeOK, agent
  <2>. QED  BY <1>4, <2>1, InvElsewhere DEF MqttDisconnects
<1>5. CASE \E c \in Clients : ClientGone(c)
  <2>1. PICK c \in Clients : ClientGone(c)
    BY <1>5
  <2>2. TypeOK'
    BY <1>1, <2>1 DEF ClientGone, TypeOK, agent, links
  <2>3. \A d \in Clients : peer'[d] = "new" => peer[d] = "new"
    BY <1>1, <2>1 DEF ClientGone, TypeOK
  <2>. QED  BY <2>1, <2>2, <2>3, InvElsewhere DEF ClientGone, links
<1>. QED  BY <1>2, <1>3, <1>4, <1>5

\* the start of a simulation,
LEMMA InvStartSimulation ==
  ASSUME Inv, NEW s \in Sims, StartSimulation(s)
  PROVE  Inv'
<1>1. TypeOK /\ OrderInv /\ OwedInv /\ SimsInv /\ AlertsInv
  BY DEF Inv
<1>2. /\ service = "running" /\ sims[s] = "none" /\ sims' = [sims EXCEPT ![s] = "sleeping"]
      /\ UNCHANGED <<service, agent, conns, call, ticks, links, peer, clock>>
  BY DEF StartSimulation
<1>3. TypeOK'
  BY <1>1, <1>2 DEF TypeOK, agent, links
<1>4. OrderInv' /\ OwedInv' /\ AlertsInv' /\ \A c \in Clients : peer'[c] = "new" => ~Contains(conns', c)
  BY <1>1, <1>2 DEF OrderInv, OwedInv, AlertsInv, Inv, agent, links
<1>5. SimsInv'
  <2>1. \A u \in Sims : sims'[u] = sims[u] \/ u = s
    BY <1>1, <1>2 DEF TypeOK
  <2>2. call[s].pc = "idle"
    BY <1>1, <1>2 DEF SimsInv
  <2>. QED  BY <1>1, <1>2, <2>1, <2>2 DEF SimsInv
<1>. QED  BY <1>3, <1>4, <1>5 DEF Inv

\* and its end,
LEMMA InvEndSimulation ==
  ASSUME Inv, NEW s \in Sims, EndSimulation(s)
  PROVE  Inv'
<1>1. TypeOK /\ OrderInv /\ OwedInv /\ SimsInv /\ AlertsInv
  BY DEF Inv
<1>2. /\ sims[s] = "sleeping" /\ sims' = [sims EXCEPT ![s] = "done"]
      /\ UNCHANGED <<service, agent, conns, call, ticks, links, peer, clock>>
  BY DEF EndSimulation
<1>3. TypeOK'
  BY <1>1, <1>2 DEF TypeOK, agent, links
<1>4. OrderInv' /\ OwedInv' /\ AlertsInv' /\ \A c \in Clients : peer'[c] = "new" => ~Contains(conns', c)
  BY <1>1, <1>2 DEF OrderInv, OwedInv, AlertsInv, Inv, agent, links
<1>5. SimsInv'
  <2>1. \A u \in Sims : sims'[u] = IF u = s THEN "done" ELSE sims[u]
    BY <1>1, <1>2 DEF TypeOK
  <2>2. call[s].pc = "idle"
    BY <1>1, <1>2 DEF SimsInv
  <2>. QED  BY <1>1, <1>2, <2>1, <2>2 DEF SimsInv
<1>. QED  BY <1>3, <1>4, <1>5 DEF Inv

\* The call of a cancelled simulation is given up with what it held.
LEMMA InvCancelSimulation ==
  ASSUME Inv, NEW s \in Sims, CancelSimulation(s)
  PROVE  Inv'
<1>1. TypeOK /\ OrderInv /\ OwedInv /\ SimsInv /\ AlertsInv
  BY DEF Inv
<1>2. /\ sims[s] = "cancelled" /\ sims' = [sims EXCEPT ![s] = "done"]
      /\ call' = [call EXCEPT ![s] = IdleCall]
      /\ UNCHANGED <<service, agent, conns, ticks, links, peer, clock>>
  BY DEF CancelSimulation
<1>3. /\ call' \in [Calls -> CallStates] /\ call'[s] = IdleCall
      /\ \A u \in Calls : u # s => call'[u] = call[u]
  BY <1>1, <1>2, IdleCallType DEF TypeOK, Calls
<1>4. IdleCall.pc = "idle" /\ IdleCall.todo = <<>>
  BY DEF IdleCall
<1>5. TypeOK'
  BY <1>1, <1>2, <1>3 DEF TypeOK, agent, links
<1>6. OrderInv'
  <2>1. \A u \in Calls : call'[u].todo = call[u].todo \/ call'[u].todo = <<>>
    BY <1>3, <1>4
  <2>. QED  BY <1>1, <1>2, <2>1, OrderQuiet DEF agent, links
<1>7. OwedInv'
  <2>1. \A u \in Calls : call'[u].pc = "sending" => SendingOK(call'[u], conns')
    BY <1>1, <1>2, <1>3, <1>4 DEF OwedInv, SendingOK
  <2>. QED  BY <2>1, OwedQuiet
<1>8. SimsInv'
  <2>1. \A u \in Sims : sims'[u] = IF u = s THEN "done" ELSE sims[u]
    BY <1>1, <1>2 DEF TypeOK
  <2>. QED  BY <1>1, <1>2, <1>3, <1>4, <2>1 DEF SimsInv, Calls
<1>9. AlertsInv' /\ \A c \in Clients : peer'[c] = "new" => ~Contains(conns', c)
  BY <1>1, <1>2 DEF AlertsInv, Inv, agent
<1>. QED  BY <1>5, <1>6, <1>7, <1>8, <1>9 DEF Inv

\* a client that connects,
LEMMA InvConnect ==
  ASSUME Inv, KnownInv, NEW c \in Clients, Connect(c)
  PROVE  Inv'
<1>1. TypeOK /\ OrderInv /\ OwedInv /\ SimsInv /\ AlertsInv
  BY DEF Inv
<1>2. /\ peer[c] = "new" /\ peer' = [peer EXCEPT ![c] = "open"] /\ conns' = Append(conns, c)
      /\ UNCHANGED <<service, agent, call, sims, ticks, links, clock>>
  BY DEF Connect
<1>3. /\ conns \in Seq(Clients) /\ IsInjective(conns) /\ ~Contains(conns, c) /\ Len(conns) \in Nat
      /\ peer \in [Clients -> {"new", "open", "gone"}] /\ call \in [Calls -> CallStates]
  BY <1>1, <1>2, LenProperties DEF TypeOK, Inv
<1>4. /\ conns' \in Seq(Clients) /\ IsInjective(conns') /\ Len(conns') = Len(conns) + 1
      /\ \A i \in 1..Len(conns) : conns'[i] = conns[i]
      /\ \A d \in Clients : ~Contains(conns, d) /\ d # c => ~Contains(conns', d)
  BY <1>2, <1>3, ConnectedType
<1>5. TypeOK'
  BY <1>1, <1>2, <1>3, <1>4 DEF TypeOK, agent, links
<1>6. OrderInv' /\ SimsInv' /\ AlertsInv'
  BY <1>1, <1>2 DEF OrderInv, SimsInv, AlertsInv, agent, links
<1>7. OwedInv'
  <2>1. ASSUME NEW u \in Calls, call[u].pc = "sending"
        PROVE  Cardinality(call[u].owed \cap PassedBy(call[u], conns')) <= call[u].behind
    <3>1. PICK P, Q : /\ P = call[u].owed \cap PassedBy(call[u], conns)
                      /\ Q = call[u].owed \cap PassedBy(call[u], conns')
      OBVIOUS
    <3>2. Q \in SUBSET P
      <4>. SUFFICES ASSUME NEW d \in Q PROVE d \in P
        OBVIOUS
      <4>1. PICK i \in DOMAIN conns' : i < call[u].pos /\ conns'[i] = d
        BY <3>1 DEF PassedBy
      <4>2. d \in call[u].owed /\ d # c
        BY <1>2, <3>1 DEF KnownInv
      <4>3. i \in 1..Len(conns) + 1 /\ conns'[Len(conns) + 1] = c
        <5>1. DOMAIN conns' = 1..Len(conns')
          BY <1>4, LenProperties
        <5>. QED  BY <1>2, <1>3, <1>4, <4>1, <5>1, AppendProperties
      <4>4. i \in 1..Len(conns) /\ DOMAIN conns = 1..Len(conns)
        BY <1>3, <4>1, <4>2, <4>3, LenProperties
      <4>. QED  BY <1>4, <3>1, <4>1, <4>2, <4>4 DEF PassedBy
    <3>3. IsFiniteSet(P)
      <4>1. P \in SUBSET Clients
        BY <1>3, <3>1 DEF CallStates
      <4>. QED  BY <4>1, Bounds, FS_Subset
    <3>4. Cardinality(Q) <= Cardinality(P) /\ Cardinality(Q) \in Nat /\ Cardinality(P) \in Nat
      BY <3>2, <3>3, FS_Subset, FS_CardinalityType
    <3>5. Cardinality(P) <= call[u].behind /\ call[u].behind \in Nat
      BY <1>1, <1>3, <2>1, <3>1 DEF OwedInv, CallStates
    <3>6. Cardinality(Q) <= call[u].behind
      BY <3>4, <3>5
    <3>. QED  BY <3>1, <3>6
  <2>2. call' = call
    BY <1>2
  <2>3. ASSUME NEW u \in Calls, call'[u].pc = "sending"
        PROVE  Cardinality(call'[u].owed \cap PassedBy(call'[u], conns')) <= call'[u].behind
    BY <2>1, <2>2, <2>3
  <2>. QED  BY <2>3 DEF OwedInv
<1>8. \A d \in Clients : peer'[d] = "new" => ~Contains(conns', d)
  <2>1. \A d \in Clients : peer'[d] = "new" => d # c /\ peer[d] = "new"
    BY <1>2, <1>3
  <2>. QED  BY <1>4, <2>1 DEF Inv
<1>. QED  BY <1>5, <1>6, <1>7, <1>8 DEF Inv

\* and one that disconnects.
LEMMA InvDisconnect ==
  ASSUME Inv, NEW c \in Clients, Disconnect(c)
  PROVE  Inv'
<1>1. TypeOK /\ OrderInv /\ OwedInv /\ SimsInv /\ AlertsInv
  BY DEF Inv
<1>2. PICK cs : cs = Without(conns, {c})
  OBVIOUS
<1>3. /\ conns' = cs /\ call' = Shake(cs)
      /\ UNCHANGED <<service, agent, sims, ticks, links, peer, clock>>
  BY <1>2 DEF Disconnect
<1>4. /\ cs \in Seq(Clients) /\ IsInjective(cs)
      /\ \A d \in Clients : ~Contains(conns, d) => ~Contains(cs, d)
  BY <1>1, <1>2, WithoutType DEF TypeOK
<1>5. /\ call' \in [Calls -> CallStates]
      /\ \A u \in Calls : /\ call'[u].todo = call[u].todo /\ call'[u].pc = call[u].pc
                          /\ call'[u].pc = "sending" => SendingOK(call'[u], cs)
  BY <1>1, <1>2, <1>3, ShakeFacts
<1>6. TypeOK'
  BY <1>1, <1>3, <1>4, <1>5 DEF TypeOK, agent, links
<1>7. OrderInv'
  BY <1>1, <1>3, <1>5, OrderQuiet DEF agent, links
<1>8. OwedInv'
  BY <1>3, <1>5, OwedQuiet
<1>9. SimsInv' /\ AlertsInv' /\ \A d \in Clients : peer'[d] = "new" => ~Contains(conns', d)
  <2>1. SimsInv'
    BY <1>1, <1>3, <1>5 DEF SimsInv, Calls
  <2>2. AlertsInv'
    BY <1>1, <1>3 DEF AlertsInv, agent
  <2>3. \A d \in Clients : peer'[d] = "new" => ~Contains(conns', d)
    BY <1>3, <1>4 DEF Inv
  <2>. QED  BY <2>1, <2>2, <2>3
<1>. QED  BY <1>6, <1>7, <1>8, <1>9 DEF Inv

\* The agent's life: nothing of the calls changes, the shutdown cancels.
LEMMA InvLife ==
  ASSUME Inv, Initialize \/ Shutdown \/ CloseRedis
  PROVE  Inv'
<1>1. TypeOK /\ OrderInv /\ OwedInv /\ SimsInv /\ AlertsInv
  BY DEF Inv
<1>2. UNCHANGED <<agent, conns, call, ticks, mqttQueue, waiting, peer, clock>>
  BY DEF Initialize, Shutdown, CloseRedis
<1>3. OrderInv' /\ OwedInv' /\ AlertsInv' /\ \A c \in Clients : peer'[c] = "new" => ~Contains(conns', c)
  BY <1>1, <1>2 DEF OrderInv, OwedInv, AlertsInv, Inv, agent
<1>4. CASE Initialize
  <2>1. TypeOK' /\ SimsInv'
    BY <1>1, <1>4 DEF Initialize, TypeOK, SimsInv, agent
  <2>. QED  BY <1>3, <2>1 DEF Inv
<1>5. CASE Shutdown
  <2>1. sims' = SimsCancelled /\ sims \in [Sims -> {"none", "sleeping", "ingesting", "cancelled", "done"}]
    BY <1>1, <1>5 DEF Shutdown, TypeOK
  <2>2. \A s \in Sims : sims'[s] = IF sims[s] \in {"sleeping", "ingesting", "cancelled"}
                                   THEN "cancelled" ELSE sims[s]
    BY <2>1 DEF SimsCancelled, Active
  <2>3. sims' \in [Sims -> {"none", "sleeping", "ingesting", "cancelled", "done"}]
    BY <2>1, <2>2 DEF SimsCancelled
  <2>4. TypeOK'
    BY <1>1, <1>5, <2>3 DEF Shutdown, TypeOK, agent
  <2>5. SimsInv'
    BY <1>1, <1>2, <2>2 DEF SimsInv
  <2>. QED  BY <1>3, <2>4, <2>5 DEF Inv
<1>6. CASE CloseRedis
  <2>1. TypeOK' /\ SimsInv'
    BY <1>1, <1>6 DEF CloseRedis, TypeOK, SimsInv, agent
  <2>. QED  BY <1>3, <2>1 DEF Inv
<1>. QED  BY <1>4, <1>5, <1>6

\* The invariant is inductive.
LEMMA InvNext ==
  Inv /\ KnownInv /\ [Next]_vars => Inv'
<1>. SUFFICES ASSUME Inv, KnownInv, [Next]_vars PROVE Inv'
  OBVIOUS
<1>1. CASE UNCHANGED vars
  <2>1. UNCHANGED <<service, agent, conns, call, sims, ticks, links, peer, clock>>
    BY <1>1 DEF vars
  <2>2. TypeOK'
    BY <2>1 DEF Inv, TypeOK, agent, links
  <2>. QED  BY <2>1, <2>2, InvElsewhere DEF links
<1>2. ASSUME NEW t \in Calls, t \in Sims => sims[t] # "cancelled",
             SendNext(t) \/ EndBroadcast(t) \/ Publish(t)
      PROVE  Inv'
  BY <1>2, InvSendNext, InvEndBroadcast, InvPublish
<1>3. ASSUME NEW s \in Sims,
             StartSimulation(s) \/ Tick(s) \/ EndSimulation(s) \/ CancelSimulation(s)
      PROVE  Inv'
  BY <1>3, InvStartSimulation, InvTick, InvEndSimulation, InvCancelSimulation
<1>4. ASSUME NEW c \in Clients, Connect(c) \/ Disconnect(c) PROVE Inv'
  BY <1>4, InvConnect, InvDisconnect
<1>. QED  BY <1>1, <1>2, <1>3, <1>4, InvReplayPost, InvDeliver, InvOnMessage, InvConnections, InvLife
     DEF Next

---------------------------------------------------------------------------
(* Whom a broadcast may owe the reading.                                   *)

\* A call that goes on owes the reading to clients of its list only.
LEMMA AdvanceOwed ==
  ASSUME NEW t \in Calls, NEW todo, NEW cs \in Seq(Clients),
         NEW others \in [Calls -> CallStates], Advance(t, todo, cs, others)
  PROVE  /\ call'[t].owed \subseteq ToSet(cs)
         /\ \A u \in Calls : u # t => call'[u] = others[u]
<1>1. PICK k : k = SelectInSeq(todo, LAMBDA r : r.valid)
  OBVIOUS
<1>2. PICK sending : sending = [IdleCall EXCEPT !.pc = "sending", !.rec = todo[k],
                          !.todo = SubSeq(todo, k + 1, Len(todo)), !.owed = ToSet(cs)]
  OBVIOUS
<1>3. \/ call' = [others EXCEPT ![t] = IdleCall]
      \/ call' = [others EXCEPT ![t] = sending]
      \/ Send(t, sending, cs, others)
  BY <1>1, <1>2 DEF Advance
<1>4. sending.owed = ToSet(cs) /\ IdleCall.owed = {}
  BY <1>2 DEF IdleCall
<1>5. CASE Send(t, sending, cs, others)
  <2>1. PICK fails \in SendFails(cs[sending.pos]) :
          call' = [others EXCEPT ![t] =
            [sending EXCEPT !.pos = @ + 1, !.owed = @ \ {cs[sending.pos]},
                            !.failed = IF fails THEN @ \cup {cs[sending.pos]} ELSE @]]
    BY <1>5 DEF Send
  <2>2. PICK p : p = [sending EXCEPT !.pos = @ + 1, !.owed = @ \ {cs[sending.pos]},
                            !.failed = IF fails THEN @ \cup {cs[sending.pos]} ELSE @]
    OBVIOUS
  <2>3. p.owed \subseteq ToSet(cs)
    BY <1>2, <1>4, <2>2 DEF IdleCall
  <2>4. call' = [others EXCEPT ![t] = p]
    BY <2>1, <2>2
  <2>. QED  BY <2>3, <2>4
<1>. QED  BY <1>3, <1>4, <1>5

\* It follows that who is owed has connected, when it was so for the others.
LEMMA KnownStep ==
  ASSUME Inv', KnownInv, conns' \in Seq(Clients), call \in [Calls -> CallStates],
         \A c \in Clients : peer'[c] = "new" => peer[c] = "new",
         \A u \in Calls : call'[u].owed \subseteq call[u].owed \cup ToSet(conns')
  PROVE  KnownInv'
<1>. SUFFICES ASSUME NEW u \in Calls, NEW c \in call'[u].owed, peer'[c] = "new" PROVE FALSE
  BY DEF KnownInv
<1>1. \A d \in ToSet(conns') : d \in Clients /\ Contains(conns', d)
  <2>1. DOMAIN conns' = 1..Len(conns')
    BY LenProperties
  <2>. QED  BY <2>1, ElementOfSeq DEF ToSet, Contains
<1>2. CASE c \in call[u].owed
  <2>1. c \in Clients
    BY <1>2 DEF CallStates
  <2>. QED  BY <1>2, <2>1 DEF KnownInv
<1>3. CASE c \in ToSet(conns')
  BY <1>1, <1>3 DEF Inv
<1>. QED  BY <1>2, <1>3

\* Nobody is owed anything at first.
LEMMA KnownInit == Init => KnownInv
BY DEF Init, KnownInv, IdleCall

\* Every step leaves those owed among the clients that have connected.
LEMMA KnownNext ==
  Inv /\ Inv' /\ KnownInv /\ [Next]_vars => KnownInv'
<1>. SUFFICES ASSUME Inv, Inv', KnownInv, [Next]_vars PROVE KnownInv'
  OBVIOUS
<1>1. /\ call \in [Calls -> CallStates] /\ conns \in Seq(Clients) /\ conns' \in Seq(Clients)
      /\ IsInjective(conns) /\ peer \in [Clients -> {"new", "open", "gone"}]
  BY DEF Inv, TypeOK
<1>2. ASSUME NEW t \in Calls, NEW todo, conns' = conns, peer' = peer, Advance(t, todo, conns, call)
      PROVE  KnownInv'
  <2>1. PICK others, cs : others = call /\ cs = conns
    OBVIOUS
  <2>2. /\ call'[t].owed \subseteq ToSet(cs)
        /\ \A u \in Calls : u # t => call'[u] = others[u]
    BY <1>1, <1>2, <2>1, AdvanceOwed
  <2>3. \A u \in Calls : call'[u].owed \subseteq call[u].owed \cup ToSet(conns')
    BY <1>2, <2>1, <2>2
  <2>. QED  BY <1>1, <1>2, <2>3, KnownStep
<1>3. ASSUME NEW t \in Calls, SendNext(t) PROVE KnownInv'
  <2>1. PICK c, fails : call' = [call EXCEPT ![t] = [call[t] EXCEPT
            !.pos = @ + 1, !.owed = @ \ {c}, !.failed = IF fails THEN @ \cup {c} ELSE @]]
    BY <1>3 DEF SendNext, Send
  <2>2. PICK p : p = [call[t] EXCEPT
            !.pos = @ + 1, !.owed = @ \ {c}, !.failed = IF fails THEN @ \cup {c} ELSE @]
    OBVIOUS
  <2>3. p.owed \subseteq call[t].owed
    BY <1>1, <2>2 DEF CallStates
  <2>4. \A u \in Calls : call'[u].owed \subseteq call[u].owed \cup ToSet(conns')
    BY <1>1, <2>1, <2>2, <2>3
  <2>5. peer' = peer
    BY <1>3 DEF SendNext
  <2>. QED  BY <1>1, <2>4, <2>5, KnownStep
<1>4. ASSUME NEW t \in Calls, EndBroadcast(t) PROVE KnownInv'
  <2>1. PICK gone, cs, others : /\ gone = call[t].failed /\ cs = Without(conns, gone)
                                /\ others = Shake(cs)
    OBVIOUS
  <2>2. /\ others \in [Calls -> CallStates]
        /\ \A u \in Calls : others[u].owed = call[u].owed
    BY <2>1, ShakeFacts DEF Inv
  <2>3. conns' = cs /\ peer' = peer
    BY <1>4, <2>1 DEF EndBroadcast
  <2>4. CASE redis
    <3>1. call' = [others EXCEPT ![t] = [IdleCall EXCEPT !.pc = "publishing", !.todo = call[t].todo]]
      BY <1>4, <2>1, <2>4 DEF EndBroadcast
    <3>2. \A u \in Calls : call'[u].owed \subseteq call[u].owed
      BY <2>2, <3>1 DEF IdleCall
    <3>3. \A u \in Calls : call'[u].owed \subseteq call[u].owed \cup ToSet(conns')
      BY <3>2
    <3>. QED  BY <1>1, <2>3, <3>3, KnownStep
  <2>5. CASE ~redis
    <3>1. PICK todo : todo = call[t].todo
      OBVIOUS
    <3>2. Advance(t, todo, cs, others)
      BY <1>4, <2>1, <2>5, <3>1 DEF EndBroadcast
    <3>3. call'[t].owed \subseteq ToSet(cs) /\ \A u \in Calls : u # t => call'[u] = others[u]
      BY <1>1, <2>2, <2>3, <3>2, AdvanceOwed
    <3>4. \A u \in Calls : call'[u].owed \subseteq call[u].owed \cup ToSet(conns')
      BY <2>2, <2>3, <3>3
    <3>. QED  BY <1>1, <2>3, <3>4, KnownStep
  <2>. QED  BY <2>4, <2>5
<1>5. ASSUME NEW t \in Calls, Publish(t) PROVE KnownInv'
  BY <1>2, <1>5 DEF Publish
<1>6. ASSUME NEW p \in Posts, ReplayPost(p) PROVE KnownInv'
  BY <1>2, <1>6 DEF ReplayPost, Calls
<1>7. ASSUME NEW s \in Sims, Tick(s) PROVE KnownInv'
  BY <1>2, <1>7 DEF Tick, Calls
<1>8. ASSUME NEW d \in Deliveries, Deliver(d) PROVE KnownInv'
  BY <1>2, <1>8 DEF Deliver, Calls
<1>9. ASSUME NEW s \in Sims, CancelSimulation(s) PROVE KnownInv'
  <2>1. call' = [call EXCEPT ![s] = IdleCall] /\ peer' = peer
    BY <1>9 DEF CancelSimulation
  <2>2. \A u \in Calls : call'[u].owed \subseteq call[u].owed \cup ToSet(conns')
    BY <1>1, <2>1 DEF IdleCall
  <2>. QED  BY <1>1, <2>1, <2>2, KnownStep
<1>10. ASSUME NEW c \in Clients, Disconnect(c) PROVE KnownInv'
  <2>1. PICK gone, cs : gone = {c} /\ cs = Without(conns, gone)
    OBVIOUS
  <2>2. \A u \in Calls : Shake(cs)[u].owed = call[u].owed
    BY <2>1, ShakeFacts DEF Inv
  <2>3. call' = Shake(cs) /\ peer' = peer
    BY <1>10, <2>1 DEF Disconnect
  <2>4. \A u \in Calls : call'[u].owed \subseteq call[u].owed \cup ToSet(conns')
    BY <2>2, <2>3
  <2>. QED  BY <1>1, <2>3, <2>4, KnownStep
<1>11. ASSUME call' = call, \A c \in Clients : peer'[c] = "new" => peer[c] = "new" PROVE KnownInv'
  BY <1>1, <1>11, KnownStep
<1>12. ASSUME NEW c \in Clients, Connect(c) \/ ClientGone(c) PROVE KnownInv'
  <2>1. call' = call /\ \A d \in Clients : peer'[d] = "new" => peer[d] = "new"
    BY <1>1, <1>12 DEF Connect, ClientGone
  <2>. QED  BY <1>11, <2>1
<1>13. ASSUME NEW s \in Sims, StartSimulation(s) \/ EndSimulation(s) PROVE KnownInv'
  BY <1>11, <1>13 DEF StartSimulation, EndSimulation
<1>14. ASSUME ReplayTimeout \/ MqttConnects \/ MqttDisconnects \/ OnMessage PROVE KnownInv'
  BY <1>11, <1>14 DEF ReplayTimeout, MqttConnects, MqttDisconnects, OnMessage
<1>15. ASSUME Initialize \/ Shutdown \/ CloseRedis PROVE KnownInv'
  BY <1>11, <1>15 DEF Initialize, Shutdown, CloseRedis
<1>16. CASE UNCHANGED vars
  BY <1>11, <1>16 DEF vars
<1>. QED  BY <1>3, <1>4, <1>5, <1>6, <1>7, <1>8, <1>9, <1>10, <1>12, <1>13, <1>14, <1>15, <1>16
     DEF Next

---------------------------------------------------------------------------
(* The theorems.                                                           *)

\* The inductive invariant: the readings that wait are newer than those of
\* their source applied, a broadcast has passed by no more of the clients it
\* owes than were removed behind it, no simulation is active after a shutdown,
\* and the buffer ends the alerts.
THEOREM Invariance == Spec => []Inv
<1>1. Spec => [](Inv /\ KnownInv)
  BY InvInit, KnownInit, InvNext, KnownNext, PTL DEF Spec
<1>. QED  BY <1>1, PTL

\* Of the clients that were in the list of WebSocketManager.broadcast when it
\* began and still are, a broadcast that is through has missed no more than
\* were removed behind its position, whoever else comes and goes.
THEOREM Delivered == Spec => []MissesBounded
<1>1. Inv => MissesBounded
  <2>. SUFFICES ASSUME Inv, NEW t \in Calls, call[t].pc = "sending", call[t].pos > Len(conns)
                PROVE  Cardinality(call[t].owed \cap ToSet(conns)) <= call[t].behind
    BY DEF MissesBounded
  <2>1. DOMAIN conns = 1..Len(conns) /\ Len(conns) \in Nat
    BY LenProperties DEF Inv, TypeOK
  <2>2. call[t].pos \in Int
    <3>1. call[t].pos \in 1..Cardinality(Clients) + 1
      BY DEF Inv, TypeOK, CallStates
    <3>. QED  BY <3>1
  <2>3. PassedBy(call[t], conns) = ToSet(conns)
    BY <2>1, <2>2 DEF PassedBy, ToSet
  <2>. QED  BY <2>3 DEF Inv, OwedInv
<1>. QED  BY <1>1, Invariance, PTL

\* The readings of one source are applied in its order, whatever overlaps.
THEOREM InSourceOrder == Spec => []SourceOrder
<1>1. Inv => SourceOrder
  <2>. SUFFICES ASSUME Inv, NEW i \in DOMAIN applied, NEW j \in DOMAIN applied,
                       i < j, applied[i].src = applied[j].src
                PROVE  applied[i].ts < applied[j].ts
    BY DEF SourceOrder
  <2>1. DOMAIN applied = 1..Len(applied)
    BY LenProperties DEF Inv, TypeOK
  <2>2. InOrder(applied, clock)
    BY DEF Inv, OrderInv
  <2>. QED  BY <2>1, <2>2 DEF InOrder
<1>. QED  BY <1>1, Invariance, PTL

\* GET /alerts answers the newest alerts of all that were raised.
THEOREM NewestAlerts == Spec => []AlertsAreNewest
<1>1. Inv => AlertsAreNewest
  <2>. DEFINE raised == Selected(applied, Alarming)
  <2>. SUFFICES ASSUME Inv, NEW limit \in 1..MaxAlerts
                PROVE  LastOf(alerts, limit) = LastOf(raised, limit)
    BY DEF AlertsAreNewest, Recent, Alarming
  <2>1. /\ alerts \in Seq(Readings) /\ raised \in Seq(Readings) /\ EndOf(alerts, raised)
        /\ limit \in Nat \ {0} /\ Len(alerts) \in Nat /\ Len(raised) \in Nat
    <3>1. alerts \in Seq(Readings) /\ applied \in Seq(Readings) /\ EndOf(alerts, raised)
      BY DEF Inv, TypeOK, AlertsInv
    <3>2. raised \in Seq(Readings)
      BY <3>1, SelectedType
    <3>3. limit \in Nat \ {0}
      BY Bounds
    <3>. HIDE DEF raised
    <3>. QED  BY <3>1, <3>2, <3>3, LenProperties
  <2>. HIDE DEF raised
  <2>. DEFINE l == LastOf(alerts, limit)
              m == LastOf(raised, limit)
  <2>2. /\ l \in Seq(Readings) /\ Len(l) = IF limit < Len(alerts) THEN limit ELSE Len(alerts)
        /\ \A i \in 1..Len(l) : l[i] = alerts[Len(alerts) - Len(l) + i]
    BY <2>1, LastOfProperties
  <2>3. /\ m \in Seq(Readings) /\ Len(m) = IF limit < Len(raised) THEN limit ELSE Len(raised)
        /\ \A i \in 1..Len(m) : m[i] = raised[Len(raised) - Len(m) + i]
    BY <2>1, LastOfProperties
  <2>. HIDE DEF l, m
  <2>4. /\ Len(alerts) <= MaxAlerts /\ Len(alerts) <= Len(raised)
        /\ Len(alerts) < MaxAlerts => Len(alerts) = Len(raised)
        /\ \A i \in 1..Len(alerts) : alerts[i] = raised[Len(raised) - Len(alerts) + i]
    BY <2>1 DEF EndOf
  <2>5. Len(l) = Len(m) /\ Len(l) \in Nat /\ Len(l) <= Len(alerts)
    BY <2>1, <2>2, <2>3, <2>4, Bounds
  <2>6. ASSUME NEW i \in 1..Len(l) PROVE l[i] = m[i]
    <3>1. Len(alerts) - Len(l) + i \in 1..Len(alerts)
      BY <2>1, <2>5
    <3>2. Len(raised) - Len(alerts) + (Len(alerts) - Len(l) + i) = Len(raised) - Len(m) + i
      BY <2>1, <2>5
    <3>. QED  BY <2>2, <2>3, <2>4, <2>5, <3>1, <3>2
  <2>7. l = m
    BY <2>2, <2>3, <2>5, <2>6, SeqEqual
  <2>. QED  BY <2>7 DEF l, m
<1>. QED  BY <1>1, Invariance, PTL

\* A reading that is applied was handed in by the source of its call, or by MQTT.
LEMMA AppliedBy ==
  ASSUME TypeOK, NEW t \in Calls, NEW todo \in Seq(Readings), NEW src,
         \A k \in 1..Len(todo) : todo[k].src = src,
         NEW cs \in Seq(Clients), IsInjective(cs), NEW others \in [Calls -> CallStates],
         Advance(t, todo, cs, others), applied' # applied
  PROVE  Last(applied').src = src
<1>1. PICK p : Advanced(t, todo, cs, others, p)
  BY AdvanceFacts
<1>2. PICK k \in 1..Len(todo) : Apply(todo[k])
  BY <1>1 DEF Advanced, agent
<1>3. applied' = Append(applied, todo[k]) /\ applied \in Seq(Readings) /\ todo[k] \in Readings
  BY <1>2, Numbers DEF Apply, TypeOK
<1>4. applied'[Len(applied')] = todo[k]
  <2>1. Len(applied') = Len(applied) + 1 /\ applied'[Len(applied) + 1] = todo[k]
    BY <1>3, AppendProperties
  <2>. QED  BY <2>1
<1>. QED  BY <1>4 DEF Last

\* No reading of a simulation is applied once the shutdown has begun.
THEOREM Silent == Spec => SilentAfterShutdown
<1>1. Inv /\ [Next]_vars => [(service \in {"closing", "stopped"} /\ applied' # applied)
                               => Last(applied').src \notin Sims]_vars
  <2>. SUFFICES ASSUME Inv, Next, service \in {"closing", "stopped"}, applied' # applied
                PROVE  Last(applied').src \notin Sims
    BY DEF vars, agent
  <2>1. /\ TypeOK /\ OrderInv /\ SimsInv /\ conns \in Seq(Clients) /\ IsInjective(conns)
        /\ call \in [Calls -> CallStates]
    BY DEF Inv, TypeOK
  <2>2. ASSUME NEW t \in Calls, t \in Sims => sims[t] # "cancelled", call[t].pc # "idle"
        PROVE  /\ t \notin Sims /\ call[t].todo \in Seq(Readings)
               /\ \A k \in 1..Len(call[t].todo) : call[t].todo[k].src = t
    <3>1. t \notin Sims
      BY <2>1, <2>2 DEF SimsInv
    <3>2. call[t].todo \in Seq(Readings)
      BY <2>1 DEF CallStates
    <3>3. CASE t \in Posts
      BY <2>1, <3>1, <3>2, <3>3 DEF OrderInv, Pending
    <3>4. CASE t \in Deliveries
      BY <2>1, <3>1, <3>2, <3>4, EmptySeq DEF OrderInv
    <3>. QED  BY <3>1, <3>2, <3>3, <3>4 DEF Calls
  <2>3. ASSUME NEW t \in Calls, t \in Sims => sims[t] # "cancelled", EndBroadcast(t)
        PROVE  Last(applied').src \notin Sims
    <3>1. PICK cs, others : cs = Without(conns, call[t].failed) /\ others = Shake(cs)
      OBVIOUS
    <3>2. cs \in Seq(Clients) /\ IsInjective(cs) /\ others \in [Calls -> CallStates]
      BY <2>1, <3>1, WithoutType, ShakeFacts DEF Inv
    <3>3. Advance(t, call[t].todo, cs, others) /\ call[t].pc # "idle"
      BY <2>3, <3>1 DEF EndBroadcast, agent
    <3>4. PICK todo : todo = call[t].todo
      OBVIOUS
    <3>5. t \notin Sims /\ todo \in Seq(Readings) /\ \A k \in 1..Len(todo) : todo[k].src = t
      BY <2>2, <2>3, <3>3, <3>4
    <3>. QED  BY <2>1, <3>2, <3>3, <3>4, <3>5, AppliedBy
  <2>4. ASSUME NEW t \in Calls, t \in Sims => sims[t] # "cancelled", Publish(t)
        PROVE  Last(applied').src \notin Sims
    <3>1. Advance(t, call[t].todo, conns, call) /\ call[t].pc # "idle"
      BY <2>4 DEF Publish
    <3>2. PICK todo : todo = call[t].todo
      OBVIOUS
    <3>3. t \notin Sims /\ todo \in Seq(Readings) /\ \A k \in 1..Len(todo) : todo[k].src = t
      BY <2>2, <2>4, <3>1, <3>2
    <3>. QED  BY <2>1, <3>1, <3>2, <3>3, AppliedBy
  <2>5. ASSUME NEW d \in Deliveries, Deliver(d)
        PROVE  Last(applied').src \notin Sims
    <3>1. PICK r : r = Head(mqttQueue)
      OBVIOUS
    <3>2. mqttQueue \in Seq(Readings) /\ mqttQueue # <<>> /\ Advance(d, <<r>>, conns, call)
      BY <2>1, <2>5, <3>1 DEF Deliver, TypeOK
    <3>3. r \in Readings /\ r.src = "mqtt"
      <4>1. Len(mqttQueue) \in Nat \ {0}
        BY <3>2, EmptySeq
      <4>2. 1 \in 1..Len(mqttQueue) /\ r = mqttQueue[1]
        BY <3>1, <3>2, <4>1
      <4>. QED  BY <2>1, <3>2, <4>2, ElementOfSeq DEF OrderInv, Pending
    <3>4. PICK todo : todo = <<r>>
      OBVIOUS
    <3>5. todo \in Seq(Readings) /\ \A k \in 1..Len(todo) : todo[k].src = "mqtt"
      BY <3>3, <3>4
    <3>6. d \in Calls /\ "mqtt" \notin Sims
      BY Bounds DEF Calls
    <3>7. Last(applied').src = "mqtt"
      BY <2>1, <3>2, <3>4, <3>5, <3>6, AppliedBy
    <3>. QED  BY <3>6, <3>7
  <2>6. ~(\E p \in Posts : ReplayPost(p)) /\ ~(\E s \in Sims : Tick(s))
    BY <2>1 DEF ReplayPost, Tick, SimsInv
  <2>. QED  BY <2>3, <2>4, <2>5, <2>6
       DEF Next, SendNext, ReplayTimeout, MqttConnects, MqttDisconnects, OnMessage, StartSimulation,
           EndSimulation, CancelSimulation, Connect, ClientGone, Disconnect, Initialize, Shutdown,
           CloseRedis, agent
<1>. QED  BY <1>1, Invariance, PTL DEF Spec, SilentAfterShutdown

---------------------------------------------------------------------------
(* MachineMonitoring.                                                      *)

---------------------------------------------------------------------------
(* Sums.                                                                   *)

\* The sum of integers of which all but the first are v.
LEMMA NearlyFlatTotal ==
  ASSUME NEW w \in Seq(Int), NEW v \in Int, Len(w) >= 1, \A k \in 2..Len(w) : w[k] = v
  PROVE  Total(w) = w[1] + (Len(w) - 1) * v
<1>1. PICK sum : /\ Total(w) = sum[Len(w)] /\ sum[0] = 0
                 /\ \A k \in 1..Len(w) : sum[k] = sum[k - 1] + w[k]
  BY SumExists
<1>. DEFINE S == {m \in Nat : m + 1 <= Len(w) => sum[m + 1] = w[1] + m * v}
<1>2. PICK n, x : n = Len(w) /\ x = w[1] /\ n \in Nat /\ n >= 1 /\ x \in Int
  BY LenProperties, ElementOfSeq
<1>3. 0 \in S
  <2>1. sum[1] = sum[0] + w[1]
    BY <1>1, <1>2
  <2>. QED  BY <1>1, <1>2, <2>1
<1>4. ASSUME NEW m \in Nat, m \in S PROVE m + 1 \in S
  <2>. SUFFICES ASSUME m + 2 <= n PROVE sum[m + 2] = x + (m + 1) * v
    BY <1>2
  <2>1. sum[m + 1] = x + m * v
    BY <1>2, <1>4
  <2>2. m + 2 \in 1..Len(w) /\ (m + 2) - 1 = m + 1 /\ m + 2 \in 2..Len(w)
    BY <1>2
  <2>3. sum[m + 2] = sum[m + 1] + v
    BY <1>1, <2>2
  <2>4. (m + 1) * v = m * v + v
    OBVIOUS
  <2>. QED  BY <1>2, <2>1, <2>3, <2>4
<1>5. n - 1 \in S
  <2>. HIDE DEF S
  <2>1. n - 1 \in Nat
    BY <1>2
  <2>. QED  BY <1>3, <1>4, <2>1, SetInduction
<1>. QED  BY <1>1, <1>2, <1>5

\* Multiplying keeps the order of naturals.
LEMMA TimesMonotone ==
  ASSUME NEW a \in Nat, NEW b \in Nat, NEW c \in Nat, a <= b
  PROVE  a * c <= b * c /\ c * a <= c * b
OBVIOUS

\* The spread of m + 1 integers of which all but one, x, are v.
LEMMA SpreadIdentity ==
  ASSUME NEW m \in Int, NEW x \in Int, NEW v \in Int
  PROVE  (m + 1) * (x * x + m * (v * v)) - (x + m * v) * (x + m * v) = m * ((v - x) * (v - x))
OBVIOUS

\* Of integers of which all but the first are v, the last one is no spike.
LEMMA NearlyFlatNoSpike ==
  ASSUME NEW w \in Seq(Nat), NEW v \in Nat, NEW factor \in Nat, factor >= 13,
         Len(w) >= 1, \A k \in 2..Len(w) : w[k] = v
  PROVE  Len(w) >= 5 => ~AboveMean(v, w, factor)
<1>. SUFFICES ASSUME Len(w) >= 5 PROVE ~AboveMean(v, w, factor)
  OBVIOUS
<1>1. PICK n, x : n = Len(w) /\ x = w[1] /\ n \in Nat /\ x \in Nat
  BY LenProperties, ElementOfSeq
<1>2. w \in Seq(Int)
  BY SeqMonotonic
<1>3. Total(w) = x + (n - 1) * v
  BY <1>1, <1>2, NearlyFlatTotal
<1>4. n >= 5
  BY <1>1
<1>5. 10 * v * n <= factor * (x + (n - 1) * v)
  <2>1. PICK m : m = (n - 1) * v /\ m \in Nat
    BY <1>1, <1>4
  <2>2. n * v = m + v
    BY <1>1, <2>1
  <2>3. m >= 4 * v
    BY <1>1, <1>4, <2>1, TimesMonotone
  <2>4. 10 * v * n = 10 * (n * v)
    BY <1>1
  <2>5. 10 * v * n = 10 * m + 10 * v
    BY <2>1, <2>2, <2>4
  <2>6. factor * (x + m) >= 13 * (x + m)
    <3>1. x + m \in Nat /\ 13 \in Nat /\ 13 <= factor
      BY <1>1, <2>1
    <3>2. 13 * (x + m) <= factor * (x + m)
      BY <3>1, TimesMonotone
    <3>. QED  BY <3>1, <3>2
  <2>7. 10 * m + 10 * v <= 13 * (x + m)
    <3>1. \A a, b, c \in Nat : b >= 4 * c => 10 * b + 10 * c <= 13 * (a + b)
      OBVIOUS
    <3>. QED  BY <1>1, <2>1, <2>3, <3>1, Zenon
  <2>8. PICK p, q, r : p = 10 * v * n /\ q = factor * (x + m) /\ r = 13 * (x + m)
    OBVIOUS
  <2>9. p \in Int /\ q \in Int /\ r \in Int
    <3>1. \A a, b, c, d \in Nat : 10 * a * b \in Int /\ c * (d + a) \in Int /\ 13 * (d + a) \in Int
      OBVIOUS
    <3>2. n \in Nat /\ x \in Nat /\ m \in Nat
      BY <1>1, <2>1
    <3>3. 10 * v * n \in Int
      BY <3>1, <3>2, Zenon
    <3>4. factor * (x + m) \in Int /\ 13 * (x + m) \in Int
      BY <3>1, <3>2, Zenon
    <3>. QED  BY <2>8, <3>3, <3>4, Zenon
  <2>10. p <= r /\ r <= q
    <3>1. p = 10 * m + 10 * v
      BY <2>5, <2>8, Zenon
    <3>2. p <= r
      BY <2>7, <2>8, <3>1, Zenon
    <3>3. q >= r
      BY <2>6, <2>8, Zenon
    <3>. QED  BY <2>9, <3>2, <3>3
  <2>11. q = factor * (x + (n - 1) * v)
    BY <2>1, <2>8
  <2>. QED  BY <2>8, <2>9, <2>10, <2>11
<1>6. AboveMean(v, w, factor) <=> 10 * v * n > factor * (x + (n - 1) * v)
  BY <1>1, <1>3 DEF AboveMean
<1>7. 10 * v * n \in Int /\ factor * (x + (n - 1) * v) \in Int
  BY <1>1
<1>8. \A a, b \in Int : a <= b => ~(a > b)
  OBVIOUS
<1>. QED  BY <1>5, <1>6, <1>7, <1>8

\* Of integers of which all but the first are v, the last one does not deviate.
LEMMA NearlyFlatNoDeviation ==
  ASSUME NEW w \in Seq(Int), NEW v \in Int, Len(w) >= 1, \A k \in 2..Len(w) : w[k] = v
  PROVE  ~Deviates(v, w)
<1>. SUFFICES ASSUME Len(w) >= 10 PROVE ~Deviates(v, w)
  BY DEF Deviates
<1>1. PICK n, x : n = Len(w) /\ x = w[1] /\ n \in Nat /\ n >= 10 /\ x \in Int
  BY LenProperties, ElementOfSeq
<1>2. Total(w) = x + (n - 1) * v
  BY <1>1, NearlyFlatTotal
<1>3. Squares(w) = x * x + (n - 1) * (v * v)
  <2>1. PICK s : s = [k \in DOMAIN w |-> w[k] * w[k]]
    OBVIOUS
  <2>2. DOMAIN w = 1..n /\ \A k \in 1..n : w[k] \in Int
    BY <1>1, LenProperties, ElementOfSeq
  <2>3. s \in [1..n -> Int] /\ \A k \in 1..n : s[k] = w[k] * w[k]
    BY <2>1, <2>2
  <2>4. s \in Seq(Int) /\ Len(s) = n
    BY <1>1, <2>3
  <2>5. s[1] = x * x /\ \A k \in 2..Len(s) : s[k] = v * v
    BY <1>1, <2>3, <2>4
  <2>6. v * v \in Int /\ Len(s) >= 1
    BY <1>1, <2>4
  <2>7. Total(s) = s[1] + (Len(s) - 1) * (v * v)
    BY <2>4, <2>5, <2>6, NearlyFlatTotal
  <2>. QED  BY <2>1, <2>4, <2>5, <2>7 DEF Squares
<1>4. PICK G, m : G = (v - x) * (v - x) /\ m = n - 1 /\ G \in Int /\ m \in Nat /\ G >= 0 /\ m >= 9
  BY <1>1
<1>5. n * v - Total(w) = v - x
  BY <1>1, <1>2
<1>6. n * Squares(w) - Total(w) * Total(w) = m * G
  <2>1. n * (x * x + (n - 1) * (v * v)) - (x + (n - 1) * v) * (x + (n - 1) * v)
          = (n - 1) * ((v - x) * (v - x))
    <3>1. n = m + 1 /\ m \in Int /\ n - 1 = m
      BY <1>1, <1>4
    <3>2. (m + 1) * (x * x + m * (v * v)) - (x + m * v) * (x + m * v) = m * ((v - x) * (v - x))
      BY <1>1, <3>1, SpreadIdentity
    <3>. QED  BY <3>1, <3>2
  <2>2. Squares(w) = x * x + (n - 1) * (v * v) /\ Total(w) = x + (n - 1) * v
    BY <1>2, <1>3, <1>1
  <2>3. (n - 1) * ((v - x) * (v - x)) = m * G
    BY <1>4
  <2>. QED  BY <2>1, <2>2, <2>3
<1>7. PICK D : D = Deviation * Deviation /\ D \in Nat /\ D >= 1
  BY DetectorAssumption
<1>8. D * (m * G) >= 4 * G
  <2>1. m * G >= 9 * G
    BY <1>4
  <2>2. m * G \in Nat
    BY <1>4
  <2>3. D * (m * G) >= m * G
    <3>1. PICK H : H = m * G
      OBVIOUS
    <3>2. 1 * H <= D * H
      BY <1>7, <2>2, <3>1, TimesMonotone
    <3>. QED  BY <1>7, <2>2, <3>1, <3>2
  <2>4. D * (m * G) \in Int
    BY <1>7, <2>2
  <2>. QED  BY <1>4, <2>1, <2>2, <2>3, <2>4
<1>9. Deviates(v, w) => 4 * (v - x) * (v - x) > D * (m * G)
  BY <1>1, <1>5, <1>6, <1>7 DEF Deviates
<1>10. 4 * (v - x) * (v - x) = 4 * G
  BY <1>1, <1>4
<1>11. D * (m * G) \in Int /\ 4 * G \in Int
  BY <1>4, <1>7
<1>. QED  BY <1>8, <1>9, <1>10, <1>11

---------------------------------------------------------------------------
(* Windows and readings.                                                   *)

\* A window after a reading; when all of it is alike, so was the window
\* before, but for a first value that may have slid out.
LEMMA SlideFacts ==
  ASSUME NEW S, NEW q \in Seq(S), NEW v \in S, Len(q) <= WindowSize
  PROVE  /\ Slide(q, v) \in Seq(S) /\ Len(Slide(q, v)) <= WindowSize
         /\ (\A k \in 1..Len(Slide(q, v)) : Slide(q, v)[k] = v) => \A k \in 2..Len(q) : q[k] = v
<1>1. PICK n, top : n = Len(q) /\ n \in Nat /\ top = WindowSize /\ top \in Nat /\ top >= 1 /\ n <= top
  BY LenProperties, DetectorAssumption
<1>2. CASE n < top
  <2>1. Slide(q, v) = Append(q, v)
    BY <1>1, <1>2 DEF Slide
  <2>2. /\ Append(q, v) \in Seq(S) /\ Len(Append(q, v)) = n + 1
        /\ \A k \in 1..n : Append(q, v)[k] = q[k]
    BY <1>1, AppendProperties
  <2>3. \A k \in 2..Len(q) : k \in 1..n /\ k \in 1..n + 1
    BY <1>1
  <2>. QED  BY <1>1, <1>2, <2>1, <2>2, <2>3
<1>3. CASE n = top
  <2>1. PICK t : t = Tail(q)
    OBVIOUS
  <2>2. Slide(q, v) = Append(t, v)
    BY <1>1, <1>3, <2>1 DEF Slide
  <2>3. q # <<>>
    <3>1. q = <<>> => Len(q) = 0
      BY EmptySeq
    <3>. QED  BY <1>1, <1>3, <3>1
  <2>4. t \in Seq(S) /\ Len(t) = n - 1 /\ \A k \in 1..n - 1 : t[k] = q[k + 1]
    BY <1>1, <2>1, <2>3, HeadTailProperties
  <2>5. /\ Append(t, v) \in Seq(S) /\ Len(Append(t, v)) = n
        /\ \A k \in 1..n - 1 : Append(t, v)[k] = t[k]
    BY <1>1, <1>3, <2>4, AppendProperties
  <2>6. ASSUME NEW k \in 2..Len(q) PROVE k - 1 \in 1..n - 1 /\ q[k] = Append(t, v)[k - 1] /\ k - 1 \in 1..n
    <3>1. k - 1 \in 1..n - 1 /\ (k - 1) + 1 = k /\ k - 1 \in 1..n
      BY <1>1
    <3>. QED  BY <2>4, <2>5, <3>1
  <2>. QED  BY <1>1, <1>3, <2>2, <2>5, <2>6
<1>. QED  BY <1>1, <1>2, <1>3

\* Windows within their size.
Bounded(w) == \A k \in DOMAIN w : Len(w[k]) <= WindowSize

\* Windows that remember a reading keep their type and their size.
LEMMA RememberFacts ==
  ASSUME NEW r \in MachineReadings, NEW w \in Windows, Bounded(w)
  PROVE  Remember(r, w) \in Windows /\ Bounded(Remember(r, w))
<1>1. /\ w.energy \in Seq(Nat) /\ w.water \in Seq(Nat)
      /\ w.vibration \in Seq(Nat) /\ w.temperature \in Seq(Int)
      /\ DOMAIN w = {"energy", "water", "vibration", "temperature"}
  BY DEF Windows
<1>2. /\ r.energy \in Nat /\ r.water \in Nat /\ r.vibration \in Nat /\ r.temperature \in Int
  BY DEF MachineReadings
<1>3. /\ Len(w.energy) <= WindowSize /\ Len(w.water) <= WindowSize
      /\ Len(w.vibration) <= WindowSize /\ Len(w.temperature) <= WindowSize
  BY <1>1 DEF Bounded
<1>4. Slide(w.energy, r.energy) \in Seq(Nat) /\ Len(Slide(w.energy, r.energy)) <= WindowSize
  BY <1>1, <1>2, <1>3, SlideFacts
<1>5. Slide(w.water, r.water) \in Seq(Nat) /\ Len(Slide(w.water, r.water)) <= WindowSize
  BY <1>1, <1>2, <1>3, SlideFacts
<1>6. Slide(w.vibration, r.vibration) \in Seq(Nat) /\ Len(Slide(w.vibration, r.vibration)) <= WindowSize
  BY <1>1, <1>2, <1>3, SlideFacts
<1>7. Slide(w.temperature, r.temperature) \in Seq(Int) /\ Len(Slide(w.temperature, r.temperature)) <= WindowSize
  BY <1>1, <1>2, <1>3, SlideFacts
<1>. QED  BY <1>4, <1>5, <1>6, <1>7 DEF Remember, Windows, Bounded

\* The risk of a reading without a spike or a flag is below the alarm: vibration
\* and temperature make up six tenths of it.
LEMMA LowRisk ==
  ASSUME NEW r \in MachineReadings, NEW w, ~r.flag,
         Len(w.energy) > 5 => ~AboveMean(r.energy, w.energy, EnergySpike)
  PROVE  ~AtRisk(r, w)
<1>. DEFINE capped(v, threshold) == IF v < 0 THEN 0 ELSE IF v > threshold THEN threshold ELSE v
<1>1. PICK V, T : /\ V = VibrationThreshold /\ T = TemperatureThreshold
                  /\ V \in Nat \ {0} /\ T \in Nat \ {0}
  BY DetectorAssumption
<1>2. PICK c, d : c = capped(r.vibration, V) /\ d = capped(r.temperature, T)
  OBVIOUS
<1>3. c \in Nat /\ c <= V /\ d \in Nat /\ d <= T
  BY <1>1, <1>2 DEF MachineReadings
<1>4. PICK one, p, q : one = V * T /\ p = c * T /\ q = d * V
  OBVIOUS
<1>5. one \in Nat /\ p \in Nat /\ q \in Nat /\ one >= 1
  BY <1>1, <1>3, <1>4
<1>6. p <= one /\ q <= one
  <2>1. c * T <= V * T
    BY <1>1, <1>3, TimesMonotone
  <2>2. d * V <= T * V
    BY <1>1, <1>3, TimesMonotone
  <2>3. T * V = V * T
    BY <1>1
  <2>. QED  BY <1>4, <2>1, <2>2, <2>3, Zenon
<1>7. 3 * c * T = 3 * p /\ 3 * d * V = 3 * q
  BY <1>1, <1>3, <1>4
<1>8. AtRisk(r, w) <=> 3 * c * T + 3 * d * V + 0 + 0 > 7 * one
  BY <1>1, <1>2, <1>4 DEF AtRisk
<1>. QED  BY <1>5, <1>6, <1>7, <1>8

\* All but the first value of a window are v.
NearlyFlat(q, v) == \A k \in 2..Len(q) : q[k] = v

\* A reading below the thresholds, like all but the first of those in each
\* window, raises nothing.
LEMMA QuietReading ==
  ASSUME NEW r \in MachineReadings, NEW w \in Windows,
         NearlyFlat(w.energy, r.energy), NearlyFlat(w.water, r.water),
         NearlyFlat(w.vibration, r.vibration), NearlyFlat(w.temperature, r.temperature),
         r.vibration <= VibrationThreshold, r.temperature <= TemperatureThreshold, ~r.flag
  PROVE  Detect(r, w) = {}
<1>1. /\ w.energy \in Seq(Nat) /\ w.water \in Seq(Nat)
      /\ w.vibration \in Seq(Int) /\ w.temperature \in Seq(Int)
  BY SeqMonotonic DEF Windows
<1>2. /\ r.energy \in Nat /\ r.water \in Nat /\ r.vibration \in Int /\ r.temperature \in Int
  BY DEF MachineReadings
<1>3. /\ Len(w.energy) \in Nat /\ Len(w.water) \in Nat
      /\ Len(w.vibration) \in Nat /\ Len(w.temperature) \in Nat
  BY <1>1, LenProperties
<1>4. EnergySpike \in Nat /\ EnergySpike >= 13 /\ WaterSpike \in Nat /\ WaterSpike >= 13
  BY DetectorAssumption, SpikeAssumption
<1>5. ASSUME NEW q \in Seq(Nat), NEW v \in Nat, NEW factor \in Nat, factor >= 13,
             NearlyFlat(q, v), Len(q) >= 5
      PROVE  ~AboveMean(v, q, factor)
  <2>1. Len(q) >= 1 /\ \A k \in 2..Len(q) : q[k] = v
    BY <1>5, LenProperties DEF NearlyFlat
  <2>. QED  BY <1>5, <2>1, NearlyFlatNoSpike
<1>6. /\ Len(w.energy) >= 5 => ~AboveMean(r.energy, w.energy, EnergySpike)
      /\ Len(w.water) >= 5 => ~AboveMean(r.water, w.water, WaterSpike)
  BY <1>1, <1>2, <1>4, <1>5
<1>7. ~Deviates(r.vibration, w.vibration)
  <2>1. Len(w.vibration) >= 1 => ~Deviates(r.vibration, w.vibration)
    BY <1>1, <1>2, NearlyFlatNoDeviation DEF NearlyFlat
  <2>. QED  BY <1>3, <2>1 DEF Deviates
<1>8. ~Deviates(r.temperature, w.temperature)
  <2>1. Len(w.temperature) >= 1 => ~Deviates(r.temperature, w.temperature)
    BY <1>1, <1>2, NearlyFlatNoDeviation DEF NearlyFlat
  <2>. QED  BY <1>3, <2>1 DEF Deviates
<1>9. ~AtRisk(r, w)
  BY <1>3, <1>6, LowRisk
<1>10. ~(r.vibration > VibrationThreshold) /\ ~(r.temperature > TemperatureThreshold)
  BY <1>2, DetectorAssumption
<1>11. ~Spikes(r.energy, w.energy, EnergySpike) /\ ~Spikes(r.water, w.water, WaterSpike)
  BY <1>6 DEF Spikes
<1>. QED  BY <1>7, <1>8, <1>9, <1>10, <1>11, Zenon DEF Detect

---------------------------------------------------------------------------
(* The inductive invariant.                                                *)

\* What the detector said of the last reading, it said with the windows before
\* it; a failed machine is in its cooldown.
Observed ==
  detected = {} \/ \E w \in Windows : /\ Bounded(w) /\ detected = Detect(reading, w)
                                    /\ windows = Remember(reading, w)
Cooling == machine.status = "failure" => machine.countdown = 0 /\ machine.cooldown > 0

MachineInv == MachineTypeOK /\ Observed /\ Cooling

\* A product of naturals is one.
LEMMA NatArithmetic ==
  ASSUME NEW a \in Nat, NEW b \in Nat
  PROVE  a * b \in Nat
OBVIOUS

\* Every reading has its type.
LEMMA ReadingsTyped ==
  ASSUME NEW i \in 0..100, NEW status \in Statuses
  PROVE  /\ NormalReading(status, i) \in MachineReadings
         /\ FailureReading(status) \in MachineReadings
         /\ \A gone \in 0..30 : PreFailureReading(i, gone) \in MachineReadings
         /\ \A progress \in 0..21 : RecoveryReading(i, progress) \in MachineReadings
<1>1. /\ i \in Nat /\ BaseEnergy \in Nat /\ BaseWater \in Nat /\ BaseVibration \in Nat
      /\ BaseTemperature \in Nat
  BY MachineAssumption
<1>2. BaseEnergy * i \in Nat /\ BaseWater * i \in Nat
  BY <1>1, NatArithmetic
<1>3. BaseWater * i * 8 \in Nat /\ BaseVibration * (100 + i) \in Nat
  <2>1. 100 + i \in Nat /\ 8 \in Nat
    BY <1>1
  <2>. QED  BY <1>1, <1>2, <2>1, NatArithmetic
<1>4. /\ (BaseEnergy * i) \div 100 \in Nat /\ (BaseWater * i * 8) \div 1000 \in Nat
      /\ (BaseVibration * (100 + i)) \div 200 \in Nat
  BY <1>2, <1>3
<1>5. NormalReading(status, i) \in MachineReadings
  <2>1. BaseTemperature + 2 * i \in Int
    BY <1>1
  <2>. QED  BY <1>4, <2>1 DEF NormalReading, MachineReadings
<1>6. FailureReading(status) \in MachineReadings
  BY <1>1 DEF FailureReading, MachineReadings, Statuses
<1>7. ASSUME NEW gone \in 0..30 PROVE PreFailureReading(i, gone) \in MachineReadings
  <2>1. 300 + 8 * gone \in Nat /\ 30 + 3 * gone \in Nat /\ BaseTemperature + 250 + 5 * gone \in Int
    BY <1>1
  <2>2. BaseEnergy * i * (300 + 8 * gone) \in Nat /\ BaseVibration * (30 + 3 * gone) \in Nat
    BY <1>1, <1>2, <2>1, NatArithmetic
  <2>4. (BaseEnergy * i * (300 + 8 * gone)) \div 30000 \in Nat /\ (BaseVibration * (30 + 3 * gone)) \div 30 \in Nat
    BY <2>2
  <2>. QED  BY <1>4, <2>1, <2>4 DEF PreFailureReading, MachineReadings, Statuses
<1>8. ASSUME NEW progress \in 0..21 PROVE RecoveryReading(i, progress) \in MachineReadings
  <2>1. progress \in Nat /\ 20 + progress \in Nat /\ 150 * progress \in Nat
    OBVIOUS
  <2>2. BaseEnergy * i * progress \in Nat /\ BaseWater * i * progress \in Nat
    BY <1>2, <2>1, NatArithmetic
  <2>3. BaseWater * i * progress * 8 \in Nat
    BY <2>2
  <2>4. BaseVibration * (20 + progress) \in Nat /\ 150 * progress * i \in Nat
    BY <1>1, <2>1, NatArithmetic
  <2>6. /\ (BaseEnergy * i * progress) \div 2000 \in Nat
        /\ (BaseWater * i * progress * 8) \div 20000 \in Nat
        /\ (BaseVibration * (20 + progress)) \div 40 \in Nat
        /\ (150 * progress * i) \div 2000 \in Nat
    BY <2>2, <2>3, <2>4
  <2>7. BaseTemperature + (150 * progress * i) \div 2000 \in Int
    BY <1>1, <2>6
  <2>. QED  BY <2>6, <2>7 DEF RecoveryReading, MachineReadings, Statuses
<1>. QED  BY <1>5, <1>6, <1>7, <1>8

\* A reading that is observed is remembered.
LEMMA ObserveStep ==
  ASSUME MachineTypeOK, NEW r \in MachineReadings, Observe(r)
  PROVE  /\ reading' \in MachineReadings /\ windows' \in Windows /\ Bounded(windows') /\ Observed'
<1>1. windows \in Windows /\ Bounded(windows)
  BY DEF MachineTypeOK, Bounded
<1>2. reading' = r /\ detected' = Detect(r, windows) /\ windows' = Remember(r, windows)
  BY DEF Observe
<1>3. windows' \in Windows /\ Bounded(windows')
  BY <1>1, <1>2, RememberFacts
<1>4. PICK w \in Windows : w = windows
  BY <1>1
<1>5. Bounded(w) /\ detected' = Detect(reading', w) /\ windows' = Remember(reading', w)
  BY <1>1, <1>2, <1>4
<1>6. Observed'
  BY <1>5 DEF Observed
<1>. QED  BY <1>2, <1>3, <1>6

\* The machine starts in the invariant.
LEMMA MachineInvInit == MachineInit => MachineInv
<1>. SUFFICES ASSUME MachineInit PROVE MachineInv
  OBVIOUS
<1>1. machine \in Profiles
  BY DEF MachineInit, Profiles, Statuses
<1>2. reading \in MachineReadings
  BY DEF MachineInit, NoReading, MachineReadings, Statuses
<1>3. windows \in Windows /\ Bounded(windows)
  <2>1. <<>> \in Seq(Nat) /\ <<>> \in Seq(Int) /\ Len(<<>>) = 0 /\ 0 <= WindowSize
    BY DetectorAssumption
  <2>. QED  BY <2>1 DEF MachineInit, NoWindows, Windows, Bounded
<1>4. MachineTypeOK
  BY <1>1, <1>2, <1>3, MachineAssumption DEF MachineInit, MachineTypeOK, Bounded
<1>. QED  BY <1>4 DEF MachineInit, MachineInv, Observed, Cooling

\* A profile whose machine, if it failed, is in its cooldown.
ProfileOK(q) == q \in Profiles /\ (q.status = "failure" => q.countdown = 0 /\ q.cooldown > 0)

\* Updates of one field of a profile.
LEMMA StatusSet ==
  ASSUME NEW q \in Profiles, NEW x \in Statuses, NEW p, p = [q EXCEPT !.status = x]
  PROVE  /\ p \in Profiles /\ p.status = x
         /\ p.countdown = q.countdown /\ p.cooldown = q.cooldown
BY DEF Profiles

\* A countdown that is set leaves the status and the cooldown.
LEMMA CountdownSet ==
  ASSUME NEW q \in Profiles, NEW x \in 0..30, NEW p, p = [q EXCEPT !.countdown = x]
  PROVE  /\ p \in Profiles /\ p.countdown = x
         /\ p.status = q.status /\ p.cooldown = q.cooldown
BY DEF Profiles

\* A cooldown that is set leaves the status and the countdown.
LEMMA CooldownSet ==
  ASSUME NEW q \in Profiles, NEW x \in 0..300, NEW p, p = [q EXCEPT !.cooldown = x]
  PROVE  /\ p \in Profiles /\ p.cooldown = x
         /\ p.status = q.status /\ p.countdown = q.countdown
BY DEF Profiles

\* A recovery that begins or ends leaves the status and both counters.
LEMMA RecoveringSet ==
  ASSUME NEW q \in Profiles, NEW x \in BOOLEAN, NEW p, p = [q EXCEPT !.recovering = x]
  PROVE  /\ p \in Profiles /\ p.recovering = x
         /\ p.status = q.status /\ p.countdown = q.countdown /\ p.cooldown = q.cooldown
<1>1. PICK a \in Statuses, b \in 0..30, c \in 0..300, d \in BOOLEAN, e \in 0..20 :
        q = [status |-> a, countdown |-> b, cooldown |-> c, recovering |-> d, progress |-> e]
  BY DEF Profiles
<1>2. p = [status |-> a, countdown |-> b, cooldown |-> c, recovering |-> x, progress |-> e]
  BY <1>1
<1>. QED  BY <1>1, <1>2 DEF Profiles

\* Progress leaves the status and both counters.
LEMMA ProgressSet ==
  ASSUME NEW q \in Profiles, NEW x \in 0..20, NEW p, p = [q EXCEPT !.progress = x]
  PROVE  /\ p \in Profiles /\ p.progress = x
         /\ p.status = q.status /\ p.countdown = q.countdown /\ p.cooldown = q.cooldown
BY DEF Profiles

\* The updates of a tick.
LEMMA ProfileUpdates ==
  ASSUME NEW q \in Profiles
  PROVE  /\ ProfileOK([q EXCEPT !.cooldown = 0, !.recovering = TRUE, !.progress = 0, !.status = "starting"])
         /\ ProfileOK([q EXCEPT !.progress = 20, !.recovering = FALSE, !.status = "running"])
         /\ \A c \in 1..300 : ProfileOK([q EXCEPT !.status = "failure", !.cooldown = c, !.countdown = 0])
         /\ \A status \in {"idle", "running"}, countdown \in {0, 30} :
              LET new == [q EXCEPT !.status = status, !.countdown = countdown]
              IN  ProfileOK(new) /\ new.status \in Statuses
<1>1. ProfileOK([q EXCEPT !.cooldown = 0, !.recovering = TRUE, !.progress = 0, !.status = "starting"])
  <2>1. PICK a : a = [q EXCEPT !.cooldown = 0]
    OBVIOUS
  <2>2. a \in Profiles
    BY <2>1, CooldownSet
  <2>3. PICK b : b = [a EXCEPT !.recovering = TRUE]
    OBVIOUS
  <2>4. b \in Profiles
    BY <2>2, <2>3, RecoveringSet
  <2>5. PICK c : c = [b EXCEPT !.progress = 0]
    OBVIOUS
  <2>6. c \in Profiles
    BY <2>4, <2>5, ProgressSet
  <2>7. PICK d : d = [c EXCEPT !.status = "starting"]
    OBVIOUS
  <2>8. d \in Profiles /\ d.status = "starting"
    BY <2>6, <2>7, StatusSet DEF Statuses
  <2>9. d = [q EXCEPT !.cooldown = 0, !.recovering = TRUE, !.progress = 0, !.status = "starting"]
    BY <2>1, <2>3, <2>5, <2>7
  <2>. QED  BY <2>8, <2>9 DEF ProfileOK
<1>2. ProfileOK([q EXCEPT !.progress = 20, !.recovering = FALSE, !.status = "running"])
  <2>1. PICK a : a = [q EXCEPT !.progress = 20]
    OBVIOUS
  <2>2. a \in Profiles
    BY <2>1, ProgressSet
  <2>3. PICK b : b = [a EXCEPT !.recovering = FALSE]
    OBVIOUS
  <2>4. b \in Profiles
    BY <2>2, <2>3, RecoveringSet
  <2>5. PICK c : c = [b EXCEPT !.status = "running"]
    OBVIOUS
  <2>6. c \in Profiles /\ c.status = "running"
    BY <2>4, <2>5, StatusSet DEF Statuses
  <2>7. c = [q EXCEPT !.progress = 20, !.recovering = FALSE, !.status = "running"]
    BY <2>1, <2>3, <2>5
  <2>. QED  BY <2>6, <2>7 DEF ProfileOK
<1>3. ASSUME NEW n \in 1..300
      PROVE  ProfileOK([q EXCEPT !.status = "failure", !.cooldown = n, !.countdown = 0])
  <2>1. n \in 0..300 /\ 0 \in 0..30 /\ n > 0
    OBVIOUS
  <2>2. PICK a : a = [q EXCEPT !.status = "failure"]
    OBVIOUS
  <2>3. a \in Profiles
    BY <2>2, StatusSet DEF Statuses
  <2>4. PICK b : b = [a EXCEPT !.cooldown = n]
    OBVIOUS
  <2>5. b \in Profiles /\ b.cooldown = n
    BY <2>1, <2>3, <2>4, CooldownSet
  <2>6. PICK c : c = [b EXCEPT !.countdown = 0]
    OBVIOUS
  <2>7. c \in Profiles /\ c.countdown = 0 /\ c.cooldown = n
    BY <2>1, <2>5, <2>6, CountdownSet
  <2>8. c = [q EXCEPT !.status = "failure", !.cooldown = n, !.countdown = 0]
    BY <2>2, <2>4, <2>6
  <2>. QED  BY <2>1, <2>7, <2>8 DEF ProfileOK
<1>4. ASSUME NEW status \in {"idle", "running"}, NEW countdown \in {0, 30}
      PROVE  LET new == [q EXCEPT !.status = status, !.countdown = countdown]
             IN  ProfileOK(new) /\ new.status \in Statuses
  <2>1. PICK a : a = [q EXCEPT !.status = status]
    OBVIOUS
  <2>2. status \in Statuses /\ countdown \in 0..30 /\ status # "failure"
    BY DEF Statuses
  <2>3. a \in Profiles /\ a.status = status
    BY <2>1, <2>2, StatusSet
  <2>4. PICK b : b = [a EXCEPT !.countdown = countdown]
    OBVIOUS
  <2>5. b \in Profiles /\ b.status = status
    BY <2>2, <2>3, <2>4, CountdownSet
  <2>6. b = [q EXCEPT !.status = status, !.countdown = countdown]
    BY <2>1, <2>4
  <2>. QED  BY <2>2, <2>5, <2>6 DEF ProfileOK
<1>. QED  BY <1>1, <1>2, <1>3, <1>4

\* The machine is again what it can be.
LEMMA TickMachine ==
  ASSUME MachineInv, NEW i \in 0..100, CoolDown \/ Degrade(i) \/ Recover(i) \/ Produce(i)
  PROVE  /\ machine' \in Profiles /\ Cooling'
         /\ \E r \in MachineReadings : Observe(r)
         /\ machine.status = "failure" /\ machine'.status # "failure" =>
              \E r : Observe(r) /\ r.flag
<1>1. /\ machine \in Profiles /\ machine.countdown \in 0..30 /\ machine.cooldown \in 0..300
      /\ machine.progress \in 0..20 /\ machine.status \in Statuses /\ machine.recovering \in BOOLEAN
      /\ interval \in 1..60
  BY MachineAssumption DEF MachineInv, MachineTypeOK, Profiles
<1>6. ProfileOK(machine') => machine' \in Profiles /\ Cooling'
  BY DEF ProfileOK, Cooling
<1>2. CASE CoolDown
  <2>1. PICK left : left = AfterInterval(machine.cooldown)
    OBVIOUS
  <2>2. /\ machine' = IF CooledDown(left)
                      THEN [machine EXCEPT !.cooldown = 0, !.recovering = TRUE, !.progress = 0,
                                           !.status = "starting"]
                      ELSE [machine EXCEPT !.cooldown = left]
        /\ machine.countdown <= 0 /\ Observe(FailureReading(machine'.status))
    BY <1>2, <2>1 DEF CoolDown
  <2>3. left \in Int /\ left <= 300
    BY <1>1, <2>1 DEF AfterInterval
  <2>4. machine.countdown = 0
    BY <1>1, <2>2
  <2>5. machine' \in Profiles /\ Cooling'
    <3>1. CASE left <= 0
      <4>1. machine' = [machine EXCEPT !.cooldown = 0, !.recovering = TRUE, !.progress = 0,
                                       !.status = "starting"]
        BY <2>2, <3>1 DEF CooledDown
      <4>2. ProfileOK(machine')
        BY <1>1, <4>1, ProfileUpdates
      <4>. QED  BY <1>6, <4>2
    <3>2. CASE ~(left <= 0)
      <4>1. machine' = [machine EXCEPT !.cooldown = left]
        BY <2>2, <3>2 DEF CooledDown
      <4>2. left \in 0..300 /\ left > 0
        BY <2>3, <3>2
      <4>3. PICK p : p = [machine EXCEPT !.cooldown = left]
        OBVIOUS
      <4>4. p \in Profiles /\ p.cooldown = left /\ p.countdown = machine.countdown
        <5>1. machine \in Profiles /\ left \in 0..300
          BY <1>1, <4>2
        <5>. QED  BY <4>3, <5>1, CooldownSet
      <4>5. p.countdown = 0 /\ p.cooldown > 0 /\ machine' = p
        BY <2>4, <4>1, <4>2, <4>3, <4>4
      <4>6. ProfileOK(machine')
        BY <4>4, <4>5 DEF ProfileOK
      <4>. QED  BY <1>6, <4>6
    <3>. QED  BY <3>1, <3>2
  <2>7. machine'.status \in Statuses
    BY <2>5 DEF Profiles
  <2>8. FailureReading(machine'.status) \in MachineReadings /\ FailureReading(machine'.status).flag
    BY <2>7, ReadingsTyped DEF FailureReading
  <2>. QED  BY <2>2, <2>5, <2>8
<1>3. CASE Degrade(i)
  <2>1. PICK left : left = AfterInterval(machine.countdown)
    OBVIOUS
  <2>2. machine.countdown > 0 /\ machine.status # "failure" /\ left \in Int /\ left <= 30
    BY <1>1, <1>3, <2>1 DEF Degrade, MachineInv, Cooling, AfterInterval
  <2>3. CASE left <= 0
    <3>1. PICK cooldown \in Cooldowns : machine' = Failed(cooldown) /\ Observe(NormalReading("failure", i))
      BY <1>3, <2>1, <2>3 DEF Degrade
    <3>2. cooldown \in 0..300 /\ cooldown \in 1..300
      BY MachineAssumption
    <3>3. machine' \in Profiles /\ Cooling'
      <4>1. ProfileOK(machine')
        BY <1>1, <3>1, <3>2, ProfileUpdates DEF Failed
      <4>. QED  BY <1>6, <4>1
    <3>4. NormalReading("failure", i) \in MachineReadings
      BY ReadingsTyped DEF Statuses
    <3>. QED  BY <2>2, <3>1, <3>3, <3>4
  <2>4. CASE ~(left <= 0)
    <3>1. machine' = [machine EXCEPT !.countdown = left] /\ Observe(PreFailureReading(i, 30 - machine.countdown))
      BY <1>3, <2>1, <2>4 DEF Degrade
    <3>2. machine' \in Profiles /\ Cooling'
      BY <1>1, <2>2, <2>4, <3>1 DEF Profiles, Cooling
    <3>3. PICK gone \in 0..30 : gone = 30 - machine.countdown
      BY <1>1
    <3>4. PreFailureReading(i, gone) \in MachineReadings
      BY ReadingsTyped DEF Statuses
    <3>. QED  BY <2>2, <3>1, <3>2, <3>3, <3>4
  <2>. QED  BY <2>3, <2>4
<1>4. CASE Recover(i)
  <2>1. PICK progress : progress = machine.progress + 1
    OBVIOUS
  <2>2. /\ machine.cooldown <= 0 /\ Observe(RecoveryReading(i, progress))
        /\ machine' = IF progress >= 20
                      THEN [machine EXCEPT !.progress = 20, !.recovering = FALSE, !.status = "running"]
                      ELSE [machine EXCEPT !.progress = progress]
    BY <1>4, <2>1 DEF Recover
  <2>3. machine.status # "failure" /\ progress \in 1..21
    BY <1>1, <2>1, <2>2 DEF MachineInv, Cooling
  <2>4. machine' \in Profiles /\ Cooling'
    <3>1. CASE progress >= 20
      <4>1. machine' = [machine EXCEPT !.progress = 20, !.recovering = FALSE, !.status = "running"]
        BY <2>2, <3>1
      <4>2. ProfileOK(machine')
        BY <1>1, <4>1, ProfileUpdates
      <4>. QED  BY <1>6, <4>2
    <3>2. CASE ~(progress >= 20)
      <4>1. machine' = [machine EXCEPT !.progress = progress] /\ progress \in 0..20
        BY <2>2, <2>3, <3>2
      <4>2. PICK p : p = [machine EXCEPT !.progress = progress]
        OBVIOUS
      <4>3. p \in Profiles /\ p.status = machine.status
        <5>1. machine \in Profiles /\ progress \in 0..20
          BY <1>1, <4>1
        <5>. QED  BY <4>2, <5>1, ProgressSet
      <4>4. p.status # "failure" /\ machine' = p
        BY <2>3, <4>1, <4>2, <4>3
      <4>5. ProfileOK(machine')
        BY <4>3, <4>4 DEF ProfileOK
      <4>. QED  BY <1>6, <4>5
    <3>. QED  BY <3>1, <3>2
  <2>5. RecoveryReading(i, progress) \in MachineReadings
    BY <2>3, ReadingsTyped DEF Statuses
  <2>. QED  BY <2>2, <2>3, <2>4, <2>5
<1>5. CASE Produce(i)
  <2>1. PICK fails \in BOOLEAN :
          machine' = [machine EXCEPT !.status = IF i < 15 THEN "idle" ELSE "running",
                                     !.countdown = IF fails THEN 30 ELSE 0]
    BY <1>5 DEF Produce
  <2>2. machine.cooldown <= 0 /\ Observe(NormalReading(machine'.status, i))
    BY <1>5 DEF Produce
  <2>3. machine.status # "failure"
    BY <1>1, <2>2 DEF MachineInv, Cooling
  <2>4. machine' \in Profiles /\ Cooling' /\ machine'.status \in Statuses
    <3>1. PICK status \in {"idle", "running"}, countdown \in {0, 30} :
            machine' = [machine EXCEPT !.status = status, !.countdown = countdown]
      BY <2>1
    <3>2. ProfileOK(machine') /\ machine'.status \in Statuses
      BY <1>1, <3>1, ProfileUpdates
    <3>. QED  BY <1>6, <3>2
  <2>5. NormalReading(machine'.status, i) \in MachineReadings
    BY <2>4, ReadingsTyped
  <2>. QED  BY <2>2, <2>3, <2>4, <2>5
<1>. QED  BY <1>2, <1>3, <1>4, <1>5

\* Every step of the simulation keeps the invariant.
LEMMA MachineInvNext == MachineInv /\ [MachineNext]_machineVars => MachineInv'
<1>. SUFFICES ASSUME MachineInv, [MachineNext]_machineVars PROVE MachineInv'
  OBVIOUS
<1>1. CASE MachineTick
  <2>1. intensity \in 0..100
    BY MachineAssumption DEF MachineInv, MachineTypeOK
  <2>2. machine' \in Profiles /\ Cooling' /\ \E r \in MachineReadings : Observe(r)
    BY <1>1, <2>1, TickMachine DEF MachineTick
  <2>3. reading' \in MachineReadings /\ windows' \in Windows /\ Bounded(windows') /\ Observed'
    BY <2>2, ObserveStep DEF MachineInv
  <2>4. MachineTypeOK'
    BY <1>1, <2>2, <2>3 DEF MachineTick, MachineInv, MachineTypeOK, Bounded
  <2>. QED  BY <2>2, <2>3, <2>4 DEF MachineInv
<1>2. CASE Shift \/ End \/ UNCHANGED machineVars
  <2>1. UNCHANGED <<interval, machine, reading, windows, detected>>
    BY <1>2 DEF Shift, End, machineVars
  <2>2. running \in BOOLEAN /\ intensity \in Intensities /\ shifts \in 0..MaxShifts
    BY DEF MachineInv, MachineTypeOK
  <2>3. CASE Shift
    <3>1. shifts + 1 \in 0..MaxShifts
      BY <2>2, <2>3, MachineAssumption DEF Shift
    <3>2. running' = running /\ intensity' \in Intensities /\ shifts' = shifts + 1
      BY <2>3 DEF Shift
    <3>. QED  BY <2>1, <2>2, <3>1, <3>2 DEF MachineInv, MachineTypeOK, Observed, Cooling
  <2>4. CASE End \/ UNCHANGED machineVars
    <3>1. running' \in BOOLEAN /\ intensity' = intensity /\ shifts' = shifts
      BY <2>2, <2>4, Zenon DEF End, machineVars
    <3>. QED  BY <2>1, <2>2, <3>1 DEF MachineInv, MachineTypeOK, Observed, Cooling
  <2>. QED  BY <1>2, <2>3, <2>4
<1>. QED  BY <1>1, <1>2 DEF MachineNext

---------------------------------------------------------------------------
(* The theorems.                                                           *)

\* The invariant holds in every state.
THEOREM MachineInvariance == MachineSpec => []MachineInv
<1>. QED  BY MachineInvInit, MachineInvNext, PTL DEF MachineSpec

\* Types: no window exceeds its size, no step leaves its range, whatever the
\* sampling interval (simulation_engine.py).
THEOREM MachineTypeCorrect == MachineSpec => []MachineTypeOK
<1>. QED  BY MachineInvariance, PTL DEF MachineInv

\* No failure passes unnoticed: a failed machine starts again only with a reading
\* that is flagged, and detected (simulation_engine.py, anomaly_detector.py).
THEOREM FailuresReported == MachineSpec => FailureReported
<1>. DEFINE Reported == (machine.status = "failure" /\ machine'.status # "failure")
                          => "failure_detected" \in detected'
<1>1. ASSUME MachineInv, MachineNext PROVE Reported
  <2>. SUFFICES ASSUME machine.status = "failure", machine'.status # "failure"
                PROVE  "failure_detected" \in detected'
    OBVIOUS
  <2>1. MachineTick
    BY <1>1 DEF MachineNext, Shift, End
  <2>2. intensity \in 0..100
    BY <1>1, MachineAssumption DEF MachineInv, MachineTypeOK
  <2>3. PICK r : Observe(r) /\ r.flag
    BY <1>1, <2>1, <2>2, TickMachine DEF MachineTick
  <2>. QED  BY <2>3 DEF Observe, Detect
<1>2. MachineInv /\ [MachineNext]_machineVars => [Reported]_machineVars
  BY <1>1
<1>. QED  BY <1>2, MachineInvariance, PTL DEF MachineSpec, FailureReported

\* A steady machine raises no alert: of readings that are alike but for one that
\* has just left the window, none is a spike or a deviation (anomaly_detector.py).
THEOREM SteadyIsQuiet == MachineSpec => []QuietWhenSteady
<1>1. MachineInv => QuietWhenSteady
  <2>. SUFFICES ASSUME MachineInv, \A k \in DOMAIN windows : \A v \in ToSet(windows[k]) : v = reading[k],
                       reading.vibration <= VibrationThreshold,
                       reading.temperature <= TemperatureThreshold, ~reading.flag
                PROVE  detected = {}
    BY DEF QuietWhenSteady
  <2>. SUFFICES ASSUME NEW w \in Windows, Bounded(w), detected = Detect(reading, w),
                       windows = Remember(reading, w)
                PROVE  detected = {}
    BY DEF MachineInv, Observed
  <2>1. reading \in MachineReadings
    BY DEF MachineInv, MachineTypeOK
  <2>2. /\ w.energy \in Seq(Nat) /\ w.water \in Seq(Nat)
        /\ w.vibration \in Seq(Nat) /\ w.temperature \in Seq(Int)
        /\ DOMAIN w = {"energy", "water", "vibration", "temperature"}
    BY DEF Windows
  <2>3. /\ Len(w.energy) <= WindowSize /\ Len(w.water) <= WindowSize
        /\ Len(w.vibration) <= WindowSize /\ Len(w.temperature) <= WindowSize
    BY <2>2 DEF Bounded
  <2>4. /\ reading.energy \in Nat /\ reading.water \in Nat
        /\ reading.vibration \in Nat /\ reading.temperature \in Int
    BY <2>1 DEF MachineReadings
  <2>5. ASSUME NEW S, NEW q \in Seq(S), NEW v \in S, Len(q) <= WindowSize,
               \A x \in ToSet(Slide(q, v)) : x = v
        PROVE  NearlyFlat(q, v)
    <3>1. Slide(q, v) \in Seq(S)
      BY <2>5, SlideFacts
    <3>2. \A k \in 1..Len(Slide(q, v)) : Slide(q, v)[k] = v
      BY <2>5, <3>1, LenProperties DEF ToSet
    <3>. QED  BY <2>5, <3>2, SlideFacts DEF NearlyFlat
  <2>6. /\ \A x \in ToSet(Slide(w.energy, reading.energy)) : x = reading.energy
        /\ \A x \in ToSet(Slide(w.water, reading.water)) : x = reading.water
        /\ \A x \in ToSet(Slide(w.vibration, reading.vibration)) : x = reading.vibration
        /\ \A x \in ToSet(Slide(w.temperature, reading.temperature)) : x = reading.temperature
    BY DEF Remember
  <2>7. /\ NearlyFlat(w.energy, reading.energy) /\ NearlyFlat(w.water, reading.water)
        /\ NearlyFlat(w.vibration, reading.vibration) /\ NearlyFlat(w.temperature, reading.temperature)
    BY <2>2, <2>3, <2>4, <2>5, <2>6
  <2>. QED  BY <2>1, <2>7, QuietReading
<1>. QED  BY <1>1, MachineInvariance, PTL

==============================================================================

---------------------------- MODULE AccountsProofs ----------------------------
(* Theorems about Accounts: types, the accounts that were announced, and the *)
(* lock of a key, for any number of overlapping logins.                      *)
EXTENDS Accounts, FiniteSetTheorems, SequenceTheorems, TLAPS

\* The logins of a key whose comparison is under way.
Comparing(k) == {r \in Requests : request[r].pc = "comparing" /\ request[r].key = k}

\* What is counted and what may still be counted, together, stays bounded; a
\* lock that is not set means that the limit was not reached, and one that is
\* set ends within a lock's length.
CountsBounded ==
  \A k \in Keys : failures[k] # None =>
    /\ failures[k].lockedUntil = 0 => failures[k].failures < MaxFailures
    /\ failures[k].failures + Cardinality(Comparing(k)) <= MaxFailures + Cardinality(Requests)
    /\ failures[k].lockedUntil <= clock + LockWindow

\* No comparison began while the lock of its key stood: each began a lock's
\* length before the lock's end, or earlier.
BegunBeforeLock ==
  \A r \in Requests : request[r].pc = "comparing" =>
    /\ request[r].at <= clock
    /\ LET item == failures[request[r].key] IN
       item # None /\ item.lockedUntil # 0 => request[r].at + LockWindow <= item.lockedUntil

IInv == TypeOK /\ CountsBounded /\ BegunBeforeLock

---------------------------------------------------------------------------
(* The failure map.                                                        *)

\* The constants are numbers, the number of requests included.
LEMMA Constants ==
  /\ MaxFailures \in Nat \ {0} /\ LockWindow \in Nat \ {0} /\ MaxTime \in Nat
  /\ MaxStarts \in Nat \ {0} /\ Cardinality(Requests) \in Nat
BY AccountsAssumption, FS_CardinalityType

\* What a counted failure makes of the entry of a key with n comparisons left.
LEMMA MarkedFacts ==
  ASSUME NEW item \in Items \cup {None}, clock \in 0..MaxTime, NEW n \in 0..Cardinality(Requests),
         item # None =>
           /\ item.lockedUntil = 0 => item.failures < MaxFailures
           /\ item.lockedUntil # 0 => item.failures + n < MaxFailures + Cardinality(Requests)
           /\ item.lockedUntil <= clock + LockWindow
  PROVE  /\ Marked(item) \in Items
         /\ Marked(item).lockedUntil = 0 => Marked(item).failures < MaxFailures
         /\ Marked(item).failures + n <= MaxFailures + Cardinality(Requests)
         /\ Marked(item).lockedUntil <= clock + LockWindow
         /\ \/ Marked(item).lockedUntil = clock + LockWindow
            \/ item = None /\ Marked(item).lockedUntil = 0
            \/ item # None /\ Marked(item).lockedUntil = item.lockedUntil
<1>. USE Constants
<1>1. CASE item = None
  BY <1>1 DEF Marked, Items
<1>2. CASE item # None
  <2>1. /\ item.failures \in Nat \ {0} /\ item.lockedUntil \in 0..MaxTime + LockWindow
        /\ item.firstAt \in 0..MaxTime
    BY <1>2 DEF Items
  <2>. QED  BY <1>2, <2>1 DEF Marked, Items
<1>. QED  BY <1>1, <1>2

\* The entry of a key that has failures is not None.
LEMMA ItemsAreSome == \A item \in Items : item # None
BY Constants, AccountsAssumption DEF Items

---------------------------------------------------------------------------
(* The invariant.                                                          *)

\* The invariant, initially and for each handler.
LEMMA InvInit == Init => IInv
<1>. SUFFICES ASSUME Init PROVE IInv
  OBVIOUS
<1>1. TypeOK
  BY Constants, AccountsAssumption, EmptySeq DEF Init, TypeOK, Idle
<1>. QED  BY <1>1 DEF Init, IInv, CountsBounded, BegunBeforeLock, Idle

\* The requests whose comparison is under way are finitely many, and fewer of
\* them are not more.
LEMMA SubsetCount ==
  ASSUME NEW S \in SUBSET Requests
  PROVE  /\ IsFiniteSet(S) /\ Cardinality(S) \in 0..Cardinality(Requests)
         /\ \A T \in SUBSET S : Cardinality(T) \in 0..Cardinality(S)
<1>1. IsFiniteSet(Requests) /\ Cardinality(Requests) \in Nat
  BY AccountsAssumption, FS_CardinalityType
<1>2. IsFiniteSet(S) /\ Cardinality(S) <= Cardinality(Requests)
  BY <1>1, FS_Subset
<1>3. Cardinality(S) \in Nat
  BY <1>2, FS_CardinalityType
<1>4. ASSUME NEW T \in SUBSET S PROVE Cardinality(T) \in 0..Cardinality(S)
  <2>1. IsFiniteSet(T) /\ Cardinality(T) <= Cardinality(S)
    BY <1>2, FS_Subset
  <2>. QED  BY <1>3, <2>1, FS_CardinalityType
<1>. QED  BY <1>1, <1>2, <1>3, <1>4

\* The comparisons of a key become no more when a request begins none of it.
LEMMA FewerComparing ==
  ASSUME TypeOK, NEW r \in Requests, NEW q, request' = [request EXCEPT ![r] = q], NEW k,
         ~(q.pc = "comparing" /\ q.key = k)
  PROVE  /\ Cardinality(Comparing(k)) \in 0..Cardinality(Requests)
         /\ Cardinality(Comparing(k)') \in 0..Cardinality(Comparing(k))
<1>1. Comparing(k) \in SUBSET Requests /\ Comparing(k)' \in SUBSET Comparing(k)
  BY DEF TypeOK, Comparing
<1>. QED  BY <1>1, SubsetCount

\* A comparison that ends is one less.
LEMMA OneLess ==
  ASSUME TypeOK, NEW r \in Requests, request[r].pc = "comparing",
         request' = [request EXCEPT ![r] = Idle], NEW k, k = request[r].key
  PROVE  Cardinality(Comparing(k)') = Cardinality(Comparing(k)) - 1
<1>1. Comparing(k) \in SUBSET Requests /\ Comparing(k)' = Comparing(k) \ {r} /\ r \in Comparing(k)
  BY DEF TypeOK, Comparing, Idle
<1>2. IsFiniteSet(Comparing(k))
  BY <1>1, SubsetCount
<1>3. PICK S : S = Comparing(k)
  OBVIOUS
<1>4. Cardinality(S \ {r}) = Cardinality(S) - 1
  BY <1>1, <1>2, <1>3, FS_RemoveElement
<1>. QED  BY <1>1, <1>3, <1>4

\* The entry of a key whose lock does not stand is free, or counts fewer failures
\* than the limit.
LEMMA AfterCheckFacts ==
  ASSUME IInv, NEW k \in Keys, ~Locked(k)
  PROVE  /\ AfterCheck(k) \in Items \cup {None}
         /\ AfterCheck(k) # None => AfterCheck(k) = failures[k]
         /\ AfterCheck(k) # None =>
              AfterCheck(k).lockedUntil = 0 /\ AfterCheck(k).failures < MaxFailures
<1>1. failures[k] \in Items \cup {None} /\ clock \in 0..MaxTime
  BY DEF IInv, TypeOK
<1>2. CASE failures[k] = None
  BY <1>2 DEF AfterCheck
<1>3. CASE failures[k] # None
  <2>1. failures[k].lockedUntil \in 0..MaxTime + LockWindow /\ failures[k].lockedUntil \in Int
    BY <1>1, <1>3, Constants DEF Items
  <2>2. failures[k].lockedUntil <= clock
    BY <1>1, <1>3, <2>1 DEF Locked
  <2>3. failures[k].lockedUntil = 0 => failures[k].failures < MaxFailures
    BY <1>3 DEF IInv, CountsBounded
  <2>. QED  BY <1>1, <1>3, <2>1, <2>2, <2>3 DEF AfterCheck
<1>. QED  BY <1>2, <1>3

---------------------------------------------------------------------------
(* The invariant, action by action.                                        *)

\* A step that leaves the failures and the clock and begins no comparison.
LEMMA InvQuiet ==
  ASSUME IInv, TypeOK', UNCHANGED <<failures, clock>>,
         NEW r \in Requests, NEW q, q.pc # "comparing", request' = [request EXCEPT ![r] = q]
  PROVE  IInv'
<1>1. ASSUME NEW k \in Keys, failures[k] # None
      PROVE  /\ failures[k].lockedUntil = 0 => failures[k].failures < MaxFailures
             /\ failures[k].failures + Cardinality(Comparing(k)') <= MaxFailures + Cardinality(Requests)
             /\ failures[k].lockedUntil <= clock + LockWindow
  <2>1. Cardinality(Comparing(k)') \in 0..Cardinality(Comparing(k))
        /\ Cardinality(Comparing(k)) \in 0..Cardinality(Requests)
    BY FewerComparing DEF IInv
  <2>2. failures[k].failures \in Int
    BY <1>1, Constants DEF IInv, TypeOK, Items
  <2>. QED  BY <1>1, <2>1, <2>2, Constants DEF IInv, CountsBounded
<1>2. CountsBounded'
  BY <1>1 DEF CountsBounded
<1>3. BegunBeforeLock'
  BY DEF IInv, BegunBeforeLock, TypeOK
<1>. QED  BY <1>2, <1>3 DEF IInv

\* A registration that awaits its hash leaves the failures alone.
LEMMA InvRegister ==
  ASSUME IInv, NEW r \in Requests, NEW e \in Emails, NEW p \in Passwords, Register(r, e, p)
  PROVE  IInv'
<1>1. TypeOK'
  BY DEF IInv, TypeOK, Register
<1>. QED  BY <1>1, InvQuiet DEF Register

\* So does one that inserts its row, or is refused by the index.
LEMMA InvFinishRegister ==
  ASSUME IInv, NEW r \in Requests, FinishRegister(r)
  PROVE  IInv'
<1>1. request[r].email \in Emails /\ request[r].password \in Passwords
  BY DEF IInv, TypeOK, FinishRegister, Idle
<1>2. TypeOK'
  BY <1>1 DEF IInv, TypeOK, FinishRegister, Inserted
<1>3. Idle.pc # "comparing"
  BY DEF Idle
<1>. QED  BY <1>2, <1>3, InvQuiet DEF FinishRegister

\* A login forgets a lock that has run out, and begins a comparison.
LEMMA InvLogin ==
  ASSUME IInv, NEW r \in Requests, NEW k \in Keys, NEW p \in Passwords, Login(r, k, p)
  PROVE  IInv'
<1>. DEFINE q == [pc |-> "comparing", key |-> k, passOk |-> p = users[k[1]], at |-> clock]
<1>1. /\ AfterCheck(k) \in Items \cup {None}
      /\ AfterCheck(k) # None => AfterCheck(k).lockedUntil = 0 /\ AfterCheck(k).failures < MaxFailures
  BY AfterCheckFacts DEF Login
<1>2. /\ failures' = [failures EXCEPT ![k] = AfterCheck(k)] /\ request' = [request EXCEPT ![r] = q]
      /\ UNCHANGED clock
  BY DEF Login
<1>3. failures \in [Keys -> Items \cup {None}] /\ clock \in 0..MaxTime
  BY DEF IInv, TypeOK
<1>4. TypeOK'
  BY <1>1 DEF IInv, TypeOK, Login
<1>5. ASSUME NEW x \in Keys, failures'[x] # None
      PROVE  /\ failures'[x].lockedUntil = 0 => failures'[x].failures < MaxFailures
             /\ failures'[x].failures + Cardinality(Comparing(x)') <= MaxFailures + Cardinality(Requests)
             /\ failures'[x].lockedUntil <= clock + LockWindow
  <2>1. CASE x = k
    <3>1. Comparing(x)' \in SUBSET Requests
      BY DEF Comparing
    <3>2. Cardinality(Comparing(x)') \in 0..Cardinality(Requests)
      BY <3>1, SubsetCount
    <3>3. failures'[x] = AfterCheck(k) /\ failures'[x].failures \in Int
      BY <1>1, <1>2, <1>3, <1>5, <2>1, Constants DEF Items
    <3>. QED  BY <1>1, <1>3, <1>5, <3>2, <3>3, Constants
  <2>2. CASE x # k
    <3>1. Cardinality(Comparing(x)') \in 0..Cardinality(Comparing(x))
          /\ Cardinality(Comparing(x)) \in 0..Cardinality(Requests)
      <4>1. TypeOK /\ ~(q.pc = "comparing" /\ q.key = x)
        BY <2>2 DEF IInv
      <4>. HIDE DEF q
      <4>. QED  BY <1>2, <4>1, FewerComparing
    <3>2. failures'[x] = failures[x]
      BY <1>2, <1>3, <2>2
    <3>3. failures[x].failures \in Int
      BY <1>3, <1>5, <3>2, Constants DEF Items
    <3>. QED  BY <1>5, <3>1, <3>2, <3>3, Constants DEF IInv, CountsBounded
  <2>. QED  BY <2>1, <2>2
<1>6. CountsBounded'
  BY <1>2, <1>5 DEF CountsBounded
<1>7. ASSUME NEW s \in Requests, request'[s].pc = "comparing"
      PROVE  /\ request'[s].at <= clock
             /\ LET item == failures'[request'[s].key] IN
                item # None /\ item.lockedUntil # 0 => request'[s].at + LockWindow <= item.lockedUntil
  <2>1. CASE s = r
    <3>1. request'[s] = q
      BY <1>2, <2>1 DEF IInv, TypeOK
    <3>2. failures'[k] = AfterCheck(k)
      BY <1>2, <1>3
    <3>. QED  BY <1>1, <1>3, <3>1, <3>2
  <2>2. CASE s # r
    <3>1. request'[s] = request[s] /\ request[s].key \in Keys
      BY <1>2, <1>7, <2>2 DEF IInv, TypeOK, Idle
    <3>2. CASE request[s].key = k
      BY <1>1, <1>2, <1>3, <1>7, <3>1, <3>2 DEF IInv, BegunBeforeLock
    <3>3. CASE request[s].key # k
      BY <1>2, <1>3, <1>7, <3>1, <3>3 DEF IInv, BegunBeforeLock
    <3>. QED  BY <3>2, <3>3
  <2>. QED  BY <2>1, <2>2
<1>8. BegunBeforeLock'
  BY <1>2, <1>7 DEF BegunBeforeLock
<1>. QED  BY <1>4, <1>6, <1>8 DEF IInv

\* A failure of a key, with or without a comparison that ends with it.
LEMMA InvMark ==
  ASSUME IInv, TypeOK', UNCHANGED clock, NEW k \in Keys, NEW item \in Items \cup {None},
         failures' = [failures EXCEPT ![k] = Marked(item)],
         \A x \in Keys : /\ Cardinality(Comparing(x)) \in 0..Cardinality(Requests)
                        /\ Cardinality(Comparing(x)') \in 0..Cardinality(Comparing(x)),
         \A s \in Requests : request'[s] = request[s] \/ request'[s] = Idle,
         item # None => /\ item = failures[k]
                        /\ item.lockedUntil # 0 =>
                             item.failures + Cardinality(Comparing(k)') < MaxFailures + Cardinality(Requests)
  PROVE  IInv'
<1>1. clock \in 0..MaxTime /\ failures \in [Keys -> Items \cup {None}]
  BY DEF IInv, TypeOK
<1>2. item # None => /\ item.lockedUntil = 0 => item.failures < MaxFailures
                     /\ item.lockedUntil <= clock + LockWindow
  BY DEF IInv, CountsBounded
<1>3. Cardinality(Comparing(k)') \in 0..Cardinality(Requests)
  BY Constants
<1>4. /\ Marked(item) \in Items
      /\ Marked(item).lockedUntil = 0 => Marked(item).failures < MaxFailures
      /\ Marked(item).failures + Cardinality(Comparing(k)') <= MaxFailures + Cardinality(Requests)
      /\ Marked(item).lockedUntil <= clock + LockWindow
      /\ \/ Marked(item).lockedUntil = clock + LockWindow
         \/ item = None /\ Marked(item).lockedUntil = 0
         \/ item # None /\ Marked(item).lockedUntil = item.lockedUntil
  <2>. DEFINE n == Cardinality(Comparing(k)')
  <2>. HIDE DEF n
  <2>. QED  BY <1>1, <1>2, <1>3, MarkedFacts DEF n
<1>5. ASSUME NEW x \in Keys, failures'[x] # None
      PROVE  /\ failures'[x].lockedUntil = 0 => failures'[x].failures < MaxFailures
             /\ failures'[x].failures + Cardinality(Comparing(x)') <= MaxFailures + Cardinality(Requests)
             /\ failures'[x].lockedUntil <= clock + LockWindow
  <2>1. CASE x = k
    <3>1. failures'[x] = Marked(item)
      BY <1>1, <2>1
    <3>. QED  BY <1>4, <2>1, <3>1
  <2>2. CASE x # k
    <3>1. failures'[x] = failures[x]
      BY <1>1, <2>2
    <3>2. failures[x].failures \in Int
      BY <1>1, <1>5, <3>1, Constants DEF Items
    <3>. QED  BY <1>5, <3>1, <3>2, Constants DEF IInv, CountsBounded
  <2>. QED  BY <2>1, <2>2
<1>6. CountsBounded'
  BY <1>5 DEF CountsBounded
<1>7. ASSUME NEW s \in Requests, request'[s].pc = "comparing"
      PROVE  /\ request'[s].at <= clock
             /\ LET it == failures'[request'[s].key] IN
                it # None /\ it.lockedUntil # 0 => request'[s].at + LockWindow <= it.lockedUntil
  <2>1. request'[s] = request[s] /\ request[s].key \in Keys /\ request[s].at \in 0..MaxTime
    BY <1>7 DEF IInv, TypeOK, Idle
  <2>2. request[s].at <= clock
    BY <1>7, <2>1 DEF IInv, BegunBeforeLock
  <2>3. CASE request[s].key = k
    <3>1. failures'[k] = Marked(item)
      BY <1>1
    <3>2. item # None /\ item.lockedUntil # 0 => request[s].at + LockWindow <= item.lockedUntil
      BY <1>7, <2>1, <2>3 DEF IInv, BegunBeforeLock
    <3>. QED  BY <1>1, <1>4, <2>1, <2>2, <2>3, <3>1, <3>2, Constants
  <2>4. CASE request[s].key # k
    <3>1. failures'[request[s].key] = failures[request[s].key]
      BY <1>1, <2>1, <2>4
    <3>. QED  BY <1>7, <2>1, <2>2, <3>1 DEF IInv, BegunBeforeLock
  <2>. QED  BY <2>3, <2>4
<1>8. BegunBeforeLock'
  BY <1>7 DEF BegunBeforeLock
<1>. QED  BY <1>6, <1>8 DEF IInv

\* A rejected login counts a failure and ends no comparison.
LEMMA InvRejectLogin ==
  ASSUME IInv, NEW k \in Keys, NEW wellFormed \in BOOLEAN, RejectLogin(k, wellFormed)
  PROVE  IInv'
<1>1. /\ AfterCheck(k) \in Items \cup {None}
      /\ AfterCheck(k) # None => AfterCheck(k) = failures[k]
      /\ AfterCheck(k) # None => AfterCheck(k).lockedUntil = 0 /\ AfterCheck(k).failures < MaxFailures
  BY AfterCheckFacts DEF RejectLogin
<1>2. /\ failures' = [failures EXCEPT ![k] = Marked(AfterCheck(k))]
      /\ misses' = [misses EXCEPT ![k] = Append(@, clock)]
      /\ UNCHANGED <<users, request, starts, clock, created>>
  BY DEF RejectLogin, MarkFailure
<1>3. clock \in 0..MaxTime
  BY DEF IInv, TypeOK
<1>4. Marked(AfterCheck(k)) \in Items
  <2>1. AfterCheck(k) # None => AfterCheck(k).lockedUntil <= clock + LockWindow
    BY <1>1 DEF IInv, CountsBounded
  <2>. QED  BY <1>1, <1>3, <2>1, MarkedFacts, Constants
<1>5. TypeOK'
  BY <1>2, <1>3, <1>4, AppendProperties DEF IInv, TypeOK
<1>6. ASSUME NEW x \in Keys
      PROVE  /\ Cardinality(Comparing(x)) \in 0..Cardinality(Requests)
             /\ Cardinality(Comparing(x)') \in 0..Cardinality(Comparing(x))
  <2>1. Comparing(x) \in SUBSET Requests /\ Comparing(x)' = Comparing(x)
    BY <1>2 DEF Comparing
  <2>. QED  BY <2>1, SubsetCount
<1>. QED  BY <1>1, <1>2, <1>5, <1>6, InvMark

\* A comparison that fails counts a failure and is one less under way.
LEMMA InvFinishWrong ==
  ASSUME IInv, NEW r \in Requests, FinishWrong(r)
  PROVE  IInv'
<1>. DEFINE k == request[r].key
            item == failures[k]
<1>1. /\ failures' = [failures EXCEPT ![k] = Marked(item)]
      /\ misses' = [misses EXCEPT ![k] = Append(@, clock)]
      /\ request' = [request EXCEPT ![r] = Idle]
      /\ UNCHANGED <<users, starts, clock, created>>
  BY DEF FinishWrong, MarkFailure
<1>2. TypeOK /\ request[r].pc = "comparing"
  BY DEF IInv, FinishWrong
<1>3. k \in Keys /\ item \in Items \cup {None} /\ clock \in 0..MaxTime
  BY <1>2 DEF TypeOK, Idle
<1>4. ASSUME NEW x \in Keys
      PROVE  /\ Cardinality(Comparing(x)) \in 0..Cardinality(Requests)
             /\ Cardinality(Comparing(x)') \in 0..Cardinality(Comparing(x))
  <2>1. Idle.pc # "comparing"
    BY DEF Idle
  <2>. QED  BY <1>1, <1>2, <2>1, FewerComparing
<1>5. PICK key \in Keys : key = k
  BY <1>3
<1>6. Cardinality(Comparing(key)') = Cardinality(Comparing(key)) - 1
  BY <1>1, <1>2, <1>5, OneLess
<1>7. item # None => item.failures + Cardinality(Comparing(key)') < MaxFailures + Cardinality(Requests)
  <2>1. item # None => item.failures \in Int
    BY <1>3, Constants DEF Items
  <2>2. item # None =>
          item.failures + Cardinality(Comparing(key)) <= MaxFailures + Cardinality(Requests)
    BY <1>3, <1>5 DEF IInv, CountsBounded
  <2>3. Cardinality(Comparing(key)) \in Int /\ Cardinality(Requests) \in Int /\ MaxFailures \in Int
    BY <1>4, Constants
  <2>. QED  BY <1>6, <2>1, <2>2, <2>3
<1>8. Marked(item) \in Items
  <2>1. item # None => /\ item.lockedUntil = 0 => item.failures < MaxFailures
                       /\ item.lockedUntil <= clock + LockWindow
    BY <1>3 DEF IInv, CountsBounded
  <2>2. Cardinality(Comparing(key)') \in 0..Cardinality(Requests)
    BY <1>4, Constants
  <2>. DEFINE n == Cardinality(Comparing(key)')
  <2>. HIDE DEF n
  <2>. QED  BY <1>3, <1>7, <2>1, <2>2, MarkedFacts DEF n
<1>9. TypeOK'
  BY <1>1, <1>2, <1>3, <1>8, AppendProperties DEF TypeOK
<1>10. \A s \in Requests : request'[s] = request[s] \/ request'[s] = Idle
  BY <1>1, <1>2 DEF TypeOK
<1>11. /\ failures' = [failures EXCEPT ![key] = Marked(item)] /\ UNCHANGED clock
       /\ item = failures[key] /\ item \in Items \cup {None}
  BY <1>1, <1>3, <1>5
<1>. HIDE DEF item
<1>. QED  BY <1>4, <1>7, <1>9, <1>10, <1>11, InvMark

\* A comparison that succeeds clears the entry of its key.
LEMMA InvFinishRight ==
  ASSUME IInv, NEW r \in Requests, FinishRight(r)
  PROVE  IInv'
<1>1. TypeOK /\ request[r].pc = "comparing" /\ request[r].key \in Keys /\ Idle.pc # "comparing"
  BY DEF IInv, TypeOK, FinishRight, Idle
<1>2. PICK k \in Keys : k = request[r].key
  BY <1>1
<1>3. /\ failures' = [failures EXCEPT ![k] = None] /\ misses' = [misses EXCEPT ![k] = <<>>]
      /\ request' = [request EXCEPT ![r] = Idle]
      /\ UNCHANGED <<users, starts, clock, created>>
  BY <1>2 DEF FinishRight
<1>4. TypeOK'
  BY <1>1, <1>3, EmptySeq DEF TypeOK
<1>5. CountsBounded'
  <2>1. ASSUME NEW x \in Keys, failures'[x] # None
        PROVE  /\ failures'[x].lockedUntil = 0 => failures'[x].failures < MaxFailures
               /\ failures'[x].failures + Cardinality(Comparing(x)')
                    <= MaxFailures + Cardinality(Requests)
               /\ failures'[x].lockedUntil <= clock + LockWindow
    <3>1. failures'[x] = failures[x] /\ failures[x].failures \in Int
      BY <1>1, <1>3, <2>1, Constants DEF TypeOK, Items
    <3>2. Cardinality(Comparing(x)') \in 0..Cardinality(Comparing(x))
          /\ Cardinality(Comparing(x)) \in 0..Cardinality(Requests)
      BY <1>1, <1>3, FewerComparing
    <3>. QED  BY <2>1, <3>1, <3>2, Constants DEF IInv, CountsBounded
  <2>. QED  BY <1>3, <2>1 DEF CountsBounded
<1>6. BegunBeforeLock'
  BY <1>1, <1>3 DEF IInv, BegunBeforeLock, TypeOK
<1>. QED  BY <1>4, <1>5, <1>6 DEF IInv

\* Time leaves every lock within a lock's length of it.
LEMMA InvTick ==
  ASSUME IInv, Tick
  PROVE  IInv'
<1>1. TypeOK'
  BY Constants DEF IInv, TypeOK, Tick
<1>2. CountsBounded'
  <2>1. ASSUME NEW x \in Keys, failures[x] # None
        PROVE  failures[x].lockedUntil <= clock' + LockWindow
    <3>1. failures[x].lockedUntil \in Int /\ clock \in Int
      BY <2>1, Constants DEF IInv, TypeOK, Items
    <3>. QED  BY <2>1, <3>1, Constants DEF IInv, CountsBounded, Tick
  <2>2. ASSUME NEW x \in Keys PROVE Comparing(x)' = Comparing(x)
    BY DEF Comparing, Tick
  <2>. QED  BY <2>1, <2>2 DEF IInv, CountsBounded, Tick
<1>3. BegunBeforeLock'
  BY Constants DEF IInv, TypeOK, BegunBeforeLock, Tick, Idle
<1>. QED  BY <1>1, <1>2, <1>3 DEF IInv

\* A restart loses the failures and the handlers.
LEMMA InvRestart ==
  ASSUME IInv, Restart
  PROVE  IInv'
<1>1. TypeOK'
  BY Constants, EmptySeq DEF IInv, TypeOK, Restart
<1>. QED  BY <1>1 DEF IInv, CountsBounded, BegunBeforeLock, Restart, Idle

\* The invariant is inductive.
LEMMA InvNext == IInv /\ [Next]_vars => IInv'
<1>. SUFFICES ASSUME IInv, [Next]_vars PROVE IInv'
  OBVIOUS
<1>1. CASE UNCHANGED vars
  <2>1. \A x : Comparing(x)' = Comparing(x)
    BY <1>1 DEF Comparing, vars
  <2>. QED  BY <1>1, <2>1 DEF IInv, TypeOK, CountsBounded, BegunBeforeLock, vars
<1>. QED  BY <1>1, InvRegister, InvLogin, InvFinishRegister, InvFinishWrong, InvFinishRight,
             InvRejectLogin, InvTick, InvRestart DEF Next

---------------------------------------------------------------------------
(* The failures of a key in a span of time.                                *)

Slots == Cardinality(Requests)
Spill == IF Slots > MaxFailures - 2 THEN Slots ELSE MaxFailures - 2

\* How many of the times are t or later.
Since(times, t) == Cardinality({i \in DOMAIN times : times[i] >= t})

\* The failures since t that the entry of a key allows, with n comparisons under
\* way, when t is within a lock's length of now, and for any t.  Once a lock has run out, or been forgotten, the span holds only late
\* comparisons; while the key is counted, what it counts and what an earlier count
\* or an earlier lock left behind; once it is locked, the comparisons under way
\* are all that is still to come.
RecentAllows(item, times, n, t) ==
  /\ item = None => Since(times, t) <= Slots
  /\ item # None /\ item.lockedUntil = 0 => Since(times, t) <= Spill + item.failures
  /\ item # None /\ item.lockedUntil # 0 => Since(times, t) + n <= MaxFailures + Slots + Spill

EntryAllows(item, times, n, t) ==
  /\ item # None /\ item.lockedUntil = 0 /\ t > item.firstAt => Since(times, t) <= item.failures - 1
  /\ item # None /\ item.lockedUntil # 0 /\ t > item.lockedUntil - LockWindow =>
       Since(times, t) + n <= Slots

SpanAllows(item, times, n, t, now) ==
  /\ t > now - LockWindow => RecentAllows(item, times, n, t)
  /\ EntryAllows(item, times, n, t)

SpanOf(item, times, n, now) ==
  /\ \A i \in DOMAIN times : times[i] <= now
  /\ \A t \in 0..MaxTime : SpanAllows(item, times, n, t, now)

\* Every span of a lock's length that begins at t, now or before, is within bounds.
Bounded(times) ==
  \A t \in 0..MaxTime : Within(times, t) <= MaxFailures + Slots + Spill

SpanKey(k) ==
  SpanOf(failures[k], misses[k], Cardinality(Comparing(k)), clock) /\ Bounded(misses[k])

SpanInv == \A k \in Keys : SpanKey(k)

\* The bounds are numbers.
LEMMA SlotsSpill ==
  /\ Slots \in Nat /\ Spill \in Int /\ Spill >= Slots /\ Spill >= MaxFailures - 2
  /\ MaxFailures + Slots + Spill \in Int
BY Constants DEF Slots, Spill

\* The count of the late times, and what one more time makes of it.
LEMMA SinceFacts ==
  ASSUME NEW times \in Seq(0..MaxTime), NEW t \in Int
  PROVE  /\ Since(times, t) \in Nat
         /\ (\A i \in DOMAIN times : times[i] < t) => Since(times, t) = 0
         /\ Within(times, t) \in Nat /\ Within(times, t) <= Since(times, t)
         /\ \A v \in 0..MaxTime :
              /\ Append(times, v) \in Seq(0..MaxTime)
              /\ Since(Append(times, v), t) = Since(times, t) + (IF v >= t THEN 1 ELSE 0)
              /\ v \notin t..t + LockWindow - 1 => Within(Append(times, v), t) = Within(times, t)
<1>. DEFINE late(s) == {i \in DOMAIN s : s[i] >= t}
            within(s) == {i \in DOMAIN s : s[i] \in t..t + LockWindow - 1}
<1>1. DOMAIN times = 1..Len(times) /\ Len(times) \in Nat /\ IsFiniteSet(DOMAIN times)
      /\ \A i \in DOMAIN times : times[i] \in Int
  <2>1. DOMAIN times = 1..Len(times) /\ Len(times) \in Nat
    BY LenProperties
  <2>2. IsFiniteSet(1..Len(times))
    BY <2>1, FS_Interval
  <2>3. \A i \in DOMAIN times : times[i] \in 0..MaxTime
    BY <2>1, ElementOfSeq
  <2>. QED  BY <2>1, <2>2, <2>3, Constants
<1>2. within(times) \in SUBSET late(times) /\ late(times) \in SUBSET DOMAIN times
  BY <1>1, Constants
<1>3. IsFiniteSet(late(times)) /\ IsFiniteSet(within(times))
  BY <1>1, <1>2, FS_Subset
<1>4. /\ Cardinality(late(times)) \in Nat /\ Cardinality(within(times)) \in Nat
      /\ Cardinality(within(times)) <= Cardinality(late(times))
  BY <1>2, <1>3, FS_Subset, FS_CardinalityType
<1>5. (\A i \in DOMAIN times : times[i] < t) => Cardinality(late(times)) = 0
  <2>. SUFFICES ASSUME \A i \in DOMAIN times : times[i] < t PROVE Cardinality(late(times)) = 0
    OBVIOUS
  <2>1. late(times) = {}
    BY <1>1
  <2>. QED  BY <2>1, FS_EmptySet
<1>6. ASSUME NEW v \in 0..MaxTime
      PROVE  /\ Append(times, v) \in Seq(0..MaxTime)
             /\ Cardinality(late(Append(times, v))) = Cardinality(late(times)) + (IF v >= t THEN 1 ELSE 0)
             /\ v \notin t..t + LockWindow - 1 => within(Append(times, v)) = within(times)
  <2>. DEFINE longer == Append(times, v)
  <2>1. /\ longer \in Seq(0..MaxTime) /\ DOMAIN longer = 1..Len(times) + 1
        /\ longer[Len(times) + 1] = v /\ \A i \in 1..Len(times) : longer[i] = times[i]
    BY AppendProperties, LenProperties
  <2>. HIDE DEF longer
  <2>2. v >= t => late(longer) = late(times) \cup {Len(times) + 1}
    BY <1>1, <2>1
  <2>3. ~(v >= t) => late(longer) = late(times)
    BY <1>1, <2>1
  <2>4. v \notin t..t + LockWindow - 1 => within(longer) = within(times)
    BY <1>1, <2>1
  <2>5. Len(times) + 1 \notin late(times)
    BY <1>1
  <2>6. Cardinality(late(times) \cup {Len(times) + 1}) = Cardinality(late(times)) + 1
    <3>. HIDE DEF late
    <3>. QED  BY <1>3, <2>5, FS_AddElement
  <2>. HIDE DEF late, within
  <2>7. Cardinality(late(longer)) = Cardinality(late(times)) + (IF v >= t THEN 1 ELSE 0)
    <3>1. CASE v >= t
      BY <2>2, <2>6, <3>1
    <3>2. CASE ~(v >= t)
      BY <1>4, <2>3, <3>2
    <3>. QED  BY <3>1, <3>2
  <2>. QED  BY <2>1, <2>4, <2>7 DEF longer
<1>7. \A s : Since(s, t) = Cardinality(late(s)) /\ Within(s, t) = Cardinality(within(s))
  BY DEF Since, Within
<1>. HIDE DEF late, within
<1>. QED  BY <1>4, <1>5, <1>6, <1>7

\* The entry of a key that is not locked allows the same for any number of
\* comparisons, and that of any key for fewer of them.
LEMMA SpanFewer ==
  ASSUME NEW item \in Items \cup {None}, NEW times \in Seq(0..MaxTime), NEW n \in Int, NEW m \in Int,
         NEW now \in Int,
         SpanOf(item, times, n, now), item = None \/ item.lockedUntil = 0 \/ m <= n
  PROVE  SpanOf(item, times, m, now)
<1>1. ASSUME NEW t \in 0..MaxTime PROVE SpanAllows(item, times, m, t, now)
  <2>1. SpanAllows(item, times, n, t, now) /\ Since(times, t) \in Nat
    BY SinceFacts DEF SpanOf
  <2>2. item # None => item.lockedUntil \in Int /\ item.failures \in Int
    BY Constants DEF Items
  <2>. QED  BY <2>1, <2>2, SlotsSpill, Constants DEF SpanAllows, RecentAllows, EntryAllows
<1>. QED  BY <1>1 DEF SpanOf

\* A lock that has run out may be forgotten: it was set before any span that
\* holds the present.
LEMMA SpanForgotten ==
  ASSUME NEW item \in Items, NEW times \in Seq(0..MaxTime), NEW n \in Nat, clock \in 0..MaxTime,
         SpanOf(item, times, n, clock), item.lockedUntil # 0, item.lockedUntil <= clock
  PROVE  SpanOf(None, times, n, clock)
<1>1. ASSUME NEW t \in 0..MaxTime, t > clock - LockWindow PROVE Since(times, t) <= Slots
  <2>1. SpanAllows(item, times, n, t, clock) /\ Since(times, t) \in Nat /\ item # None
    BY SinceFacts, ItemsAreSome DEF SpanOf
  <2>2. item.lockedUntil \in Int /\ clock \in Int
    BY Constants DEF Items
  <2>3. t > item.lockedUntil - LockWindow
    BY <1>1, <2>2, Constants
  <2>4. Since(times, t) + n <= Slots
    BY <2>1, <2>3 DEF SpanAllows, RecentAllows, EntryAllows
  <2>. QED  BY <2>1, <2>4, SlotsSpill
<1>. QED  BY <1>1 DEF SpanOf, SpanAllows, RecentAllows, EntryAllows

\* One more failure, with or without a comparison that ends with it.
LEMMA SpanMarked ==
  ASSUME NEW item \in Items \cup {None}, NEW times \in Seq(0..MaxTime), clock \in 0..MaxTime,
         NEW n \in 0..Slots, NEW m \in 0..Slots, SpanOf(item, times, n, clock), Bounded(times),
         item # None /\ item.lockedUntil = 0 => item.failures < MaxFailures,
         item # None /\ item.lockedUntil # 0 => m = n - 1
  PROVE  SpanOf(Marked(item), Append(times, clock), m, clock) /\ Bounded(Append(times, clock))
<1>. DEFINE new == Marked(item)
            longer == Append(times, clock)
            fresh == item = None \/ clock - item.firstAt > LockWindow
            full == MaxFailures + Slots + Spill
<1>1. /\ item # None => /\ item.failures \in Nat \ {0} /\ item.lockedUntil \in Nat
                        /\ item.firstAt \in Nat
      /\ clock \in Nat
  BY Constants DEF Items
<1>2. /\ new.failures = IF fresh THEN 1 ELSE item.failures + 1
      /\ new.firstAt = IF fresh THEN clock ELSE item.firstAt
      /\ new.lockedUntil = IF new.failures >= MaxFailures THEN clock + LockWindow
                           ELSE IF item = None THEN 0 ELSE item.lockedUntil
  BY DEF Marked
<1>3. new # None /\ new.failures \in Nat /\ new.lockedUntil \in Nat /\ new.firstAt \in Nat
  <2>1. new \in [failures : Nat, lockedUntil : Nat, firstAt : Nat]
    BY <1>1, Constants DEF Marked
  <2>2. new \in [failures : Int, lockedUntil : Int, firstAt : Int]
    BY <2>1
  <2>. HIDE DEF new
  <2>. QED  BY <2>1, <2>2, AccountsAssumption
<1>4. longer \in Seq(0..MaxTime) /\ \A i \in DOMAIN longer : longer[i] <= clock
  <2>1. /\ longer \in Seq(0..MaxTime) /\ DOMAIN longer = 1..Len(times) + 1
        /\ DOMAIN times = 1..Len(times) /\ Len(times) \in Nat
        /\ longer[Len(times) + 1] = clock /\ \A i \in 1..Len(times) : longer[i] = times[i]
    BY AppendProperties, LenProperties
  <2>2. \A i \in 1..Len(times) : times[i] <= clock
    BY <2>1 DEF SpanOf
  <2>. HIDE DEF longer
  <2>. QED  BY <1>1, <2>1, <2>2
<1>. HIDE DEF new, longer
<1>5. ASSUME NEW t \in 0..MaxTime PROVE SpanAllows(new, longer, m, t, clock)
  <2>. DEFINE before == Since(times, t)
              after == Since(longer, t)
  <2>1. before \in Nat /\ after = before + (IF clock >= t THEN 1 ELSE 0) /\ t \in Int
    <3>1. t \in Int
      BY Constants
    <3>. QED  BY <3>1, SinceFacts DEF longer
  <2>2. t > clock => before = 0
    <3>1. \A i \in DOMAIN times : times[i] <= clock
      BY DEF SpanOf
    <3>2. \A i \in DOMAIN times : times[i] \in Int
      BY ElementOfSeq, LenProperties, Constants
    <3>3. t > clock => \A i \in DOMAIN times : times[i] < t
      BY <1>1, <2>1, <3>1, <3>2
    <3>. QED  BY <2>1, <3>3, SinceFacts
  <2>3. SpanAllows(item, times, n, t, clock)
    BY DEF SpanOf
  <2>. HIDE DEF before, after
  <2>4. /\ t > clock - LockWindow =>
             /\ item = None => before <= Slots
             /\ item # None /\ item.lockedUntil = 0 => before <= Spill + item.failures
             /\ item # None /\ item.lockedUntil # 0 => before + n <= full
        /\ item # None /\ item.lockedUntil = 0 /\ t > item.firstAt => before <= item.failures - 1
        /\ item # None /\ item.lockedUntil # 0 /\ t > item.lockedUntil - LockWindow =>
             before + n <= Slots
    BY <2>3 DEF SpanAllows, RecentAllows, EntryAllows, before
  <2>5. ASSUME t > clock - LockWindow, item # None, item.lockedUntil = 0, fresh
        PROVE  before <= Spill
    <3>1. item.failures <= MaxFailures - 1 /\ item.failures \in Int
      BY <1>1, <2>5, Constants
    <3>2. t > item.firstAt
      <4>1. clock - item.firstAt > LockWindow
        BY <2>5
      <4>. QED  BY <1>1, <2>1, <2>5, <4>1, Constants
    <3>3. before <= item.failures - 1
      BY <2>4, <2>5, <3>2
    <3>. QED  BY <2>1, <3>1, <3>3, SlotsSpill, Constants
  <2>10. new.lockedUntil = 0 => item = None \/ item.lockedUntil = 0
    BY <1>1, <1>2, Constants
  <2>6. ASSUME t > clock - LockWindow, new.lockedUntil = 0
        PROVE  after <= Spill + new.failures
    <3>1. CASE item = None
      BY <1>2, <1>3, <2>1, <2>4, <2>6, <3>1, SlotsSpill
    <3>2. CASE item # None /\ fresh
      BY <1>2, <1>3, <2>1, <2>5, <2>6, <2>10, <3>2, SlotsSpill
    <3>3. CASE ~fresh
      <4>1. item # None /\ item.lockedUntil = 0 /\ new.failures = item.failures + 1
        BY <1>2, <2>6, <2>10, <3>3
      <4>. QED  BY <1>1, <2>1, <2>4, <2>6, <4>1, SlotsSpill
    <3>. QED  BY <3>1, <3>2, <3>3
  <2>7. ASSUME t > clock - LockWindow, new.lockedUntil # 0
        PROVE  after + m <= full
    <3>1. CASE item = None
      BY <2>1, <2>4, <2>7, <3>1, SlotsSpill, Constants
    <3>2. CASE item # None /\ item.lockedUntil = 0
      <4>1. item.failures <= MaxFailures - 1 /\ item.failures \in Int
        BY <1>1, <3>2, Constants
      <4>2. before <= Spill + item.failures
        BY <2>4, <2>7, <3>2
      <4>. QED  BY <2>1, <4>1, <4>2, SlotsSpill, Constants
    <3>3. CASE item # None /\ item.lockedUntil # 0
      BY <2>1, <2>4, <2>7, <3>3, SlotsSpill
    <3>. QED  BY <3>1, <3>2, <3>3
  <2>8. ASSUME new.lockedUntil = 0, t > new.firstAt
        PROVE  after <= new.failures - 1
    <3>1. CASE fresh
      BY <1>1, <1>2, <2>1, <2>2, <2>8, <3>1
    <3>2. CASE ~fresh
      <4>1. /\ item # None /\ item.lockedUntil = 0
            /\ new.failures = item.failures + 1 /\ new.firstAt = item.firstAt
        BY <1>2, <2>8, <2>10, <3>2
      <4>. QED  BY <1>1, <2>1, <2>4, <2>8, <4>1
    <3>. QED  BY <3>1, <3>2
  <2>9. ASSUME new.lockedUntil # 0, t > new.lockedUntil - LockWindow
        PROVE  after + m <= Slots
    <3>1. CASE new.lockedUntil = clock + LockWindow
      <4>1. t > clock
        BY <1>1, <2>1, <2>9, <3>1, Constants
      <4>. QED  BY <1>1, <2>1, <2>2, <4>1, SlotsSpill
    <3>2. CASE new.lockedUntil # clock + LockWindow
      <4>1. item # None /\ item.lockedUntil # 0 /\ t > item.lockedUntil - LockWindow
        BY <1>2, <2>9, <3>2
      <4>. QED  BY <1>1, <2>1, <2>4, <4>1, SlotsSpill
    <3>. QED  BY <3>1, <3>2
  <2>. QED  BY <1>3, <2>6, <2>7, <2>8, <2>9 DEF SpanAllows, RecentAllows, EntryAllows, after
<1>6. ASSUME NEW t \in 0..MaxTime PROVE Within(longer, t) <= full
  <2>1. t \in Int /\ Within(times, t) <= full
    BY Constants DEF Bounded
  <2>2. CASE clock \notin t..t + LockWindow - 1
    <3>1. Within(longer, t) = Within(times, t)
      BY <2>1, <2>2, SinceFacts DEF longer
    <3>. QED  BY <2>1, <3>1
  <2>3. CASE clock \in t..t + LockWindow - 1
    <3>1. t > clock - LockWindow
      BY <1>1, <2>1, <2>3, Constants
    <3>2. Since(longer, t) \in Nat /\ Within(longer, t) \in Nat /\ Within(longer, t) <= Since(longer, t)
      BY <1>4, <2>1, SinceFacts
    <3>3. Since(longer, t) <= full
      <4>1. CASE new.lockedUntil = 0
        <5>1. Since(longer, t) <= Spill + new.failures
          BY <1>3, <1>5, <3>1, <4>1 DEF SpanAllows, RecentAllows, EntryAllows
        <5>2. new.failures < MaxFailures /\ new.failures \in Int
          BY <1>1, <1>2, <4>1, Constants
        <5>. QED  BY <3>2, <5>1, <5>2, SlotsSpill, Constants
      <4>2. CASE new.lockedUntil # 0
        <5>1. Since(longer, t) + m <= full
          BY <1>3, <1>5, <3>1, <4>2 DEF SpanAllows, RecentAllows, EntryAllows
        <5>. QED  BY <3>2, <5>1, SlotsSpill
      <4>. QED  BY <4>1, <4>2
    <3>. QED  BY <3>2, <3>3, SlotsSpill
  <2>. QED  BY <2>2, <2>3
<1>. QED  BY <1>4, <1>5, <1>6 DEF SpanOf, Bounded, new, longer

\* Steps that leave the entry of a key: no comparison begins on it while it is
\* locked, and time passes.
LEMMA SpanKept ==
  ASSUME IInv, SpanInv, NEW k \in Keys, failures'[k] = failures[k], misses'[k] = misses[k],
         clock' = clock, Cardinality(Comparing(k)) \in 0..Slots, Cardinality(Comparing(k)') \in 0..Slots,
         \/ failures[k] = None \/ failures[k].lockedUntil = 0
         \/ Cardinality(Comparing(k)') <= Cardinality(Comparing(k))
  PROVE  SpanKey(k)'
<1>1. /\ failures[k] \in Items \cup {None} /\ misses[k] \in Seq(0..MaxTime) /\ clock \in Int
      /\ SpanKey(k)
  BY Constants DEF IInv, TypeOK, SpanInv
<1>. DEFINE n == Cardinality(Comparing(k))
            m == Cardinality(Comparing(k)')
<1>2. n \in Int /\ m \in Int
  BY SlotsSpill
<1>. HIDE DEF n, m
<1>3. SpanOf(failures[k], misses[k], n, clock) /\ Bounded(misses[k])
  BY <1>1 DEF SpanKey, n
<1>4. failures[k] = None \/ failures[k].lockedUntil = 0 \/ m <= n
  BY DEF n, m
<1>5. SpanOf(failures[k], misses[k], m, clock)
  BY <1>1, <1>2, <1>3, <1>4, SpanFewer
<1>6. SpanOf(failures'[k], misses'[k], m, clock') /\ Bounded(misses'[k])
  BY <1>3, <1>5
<1>. QED  BY <1>6 DEF SpanKey, m

\* As time passes, fewer spans hold the present.
LEMMA SpanTick ==
  ASSUME IInv, SpanInv, Tick
  PROVE  SpanInv'
<1>. SUFFICES ASSUME NEW k \in Keys PROVE SpanKey(k)'
  BY DEF SpanInv
<1>1. /\ failures' = failures /\ misses' = misses /\ Comparing(k)' = Comparing(k)
      /\ clock' = clock + 1 /\ clock \in Int
  BY Constants DEF Tick, Comparing, IInv, TypeOK
<1>7. PICK now : now = clock + 1
  OBVIOUS
<1>. DEFINE n == Cardinality(Comparing(k))
<1>. HIDE DEF n
<1>2. SpanOf(failures[k], misses[k], n, clock) /\ Bounded(misses[k]) /\ misses[k] \in Seq(0..MaxTime)
  BY DEF SpanInv, SpanKey, n, IInv, TypeOK
<1>3. ASSUME NEW t \in 0..MaxTime PROVE SpanAllows(failures[k], misses[k], n, t, now)
  <2>1. /\ t > clock - LockWindow => RecentAllows(failures[k], misses[k], n, t)
        /\ EntryAllows(failures[k], misses[k], n, t)
    BY <1>2 DEF SpanOf, SpanAllows
  <2>2. t > now - LockWindow => t > clock - LockWindow
    BY <1>1, <1>7, Constants
  <2>3. t > now - LockWindow => RecentAllows(failures[k], misses[k], n, t)
    BY <2>1, <2>2
  <2>. QED  BY <2>1, <2>3 DEF SpanAllows
<1>4. \A i \in DOMAIN misses[k] : misses[k][i] <= now
  <2>1. ASSUME NEW i \in DOMAIN misses[k] PROVE misses[k][i] <= now
    <3>1. misses[k][i] \in Int
      BY <1>2, ElementOfSeq, LenProperties, Constants
    <3>2. misses[k][i] <= clock
      BY <1>2 DEF SpanOf
    <3>. QED  BY <1>1, <1>7, <3>1, <3>2
  <2>. QED  BY <2>1
<1>5. SpanOf(failures[k], misses[k], n, now)
  BY <1>3, <1>4 DEF SpanOf
<1>6. SpanOf(failures'[k], misses'[k], Cardinality(Comparing(k)'), clock') /\ Bounded(misses'[k])
  BY <1>1, <1>2, <1>5, <1>7 DEF n
<1>. QED  BY <1>6 DEF SpanKey

\* A failure that is counted on the entry of a key, or on none once its lock has
\* run out and was forgotten.
LEMMA SpanMark ==
  ASSUME IInv, SpanInv, clock' = clock, NEW k \in Keys, NEW item \in Items \cup {None},
         failures' = [failures EXCEPT ![k] = Marked(item)],
         misses' = [misses EXCEPT ![k] = Append(@, clock)],
         NEW n \in 0..Slots, SpanOf(item, misses[k], n, clock),
         item # None /\ item.lockedUntil = 0 => item.failures < MaxFailures,
         item # None /\ item.lockedUntil # 0 => Cardinality(Comparing(k)') = n - 1,
         \A x \in Keys : /\ Cardinality(Comparing(x)) \in 0..Slots
                        /\ Cardinality(Comparing(x)') \in 0..Cardinality(Comparing(x))
  PROVE  SpanInv'
<1>. SUFFICES ASSUME NEW x \in Keys PROVE SpanKey(x)'
  BY DEF SpanInv
<1>1. /\ failures \in [Keys -> Items \cup {None}] /\ misses \in [Keys -> Seq(0..MaxTime)]
      /\ clock \in 0..MaxTime
  BY DEF IInv, TypeOK
<1>2. Cardinality(Comparing(x)') \in 0..Slots /\ Cardinality(Comparing(x)') <= Cardinality(Comparing(x))
  BY SlotsSpill
<1>3. CASE x # k
  <2>1. failures'[x] = failures[x] /\ misses'[x] = misses[x]
    BY <1>1, <1>3
  <2>. QED  BY <1>2, <2>1, SpanKept
<1>4. CASE x = k
  <2>. DEFINE m == Cardinality(Comparing(k)')
  <2>1. m \in 0..Slots /\ (item # None /\ item.lockedUntil # 0 => m = n - 1)
    BY <1>2, <1>4
  <2>. HIDE DEF m
  <2>2. Bounded(misses[k]) /\ misses[k] \in Seq(0..MaxTime)
    BY <1>1 DEF SpanInv, SpanKey
  <2>3. SpanOf(Marked(item), Append(misses[k], clock), m, clock) /\ Bounded(Append(misses[k], clock))
    BY <1>1, <2>1, <2>2, SpanMarked
  <2>4. failures'[k] = Marked(item) /\ misses'[k] = Append(misses[k], clock)
    BY <1>1
  <2>5. SpanOf(failures'[k], misses'[k], m, clock') /\ Bounded(misses'[k])
    BY <2>3, <2>4
  <2>. QED  BY <1>4, <2>5 DEF SpanKey, m
<1>. QED  BY <1>3, <1>4

\* Of a key with no failure counted, nothing is in any span.
LEMMA SpanEmpty ==
  ASSUME NEW n \in 0..Slots, NEW now
  PROVE  SpanOf(None, <<>>, n, now) /\ Bounded(<<>>)
<1>1. <<>> \in Seq(0..MaxTime) /\ DOMAIN <<>> = {}
  BY EmptySeq
<1>2. ASSUME NEW t \in 0..MaxTime
      PROVE  Since(<<>>, t) <= Slots /\ Within(<<>>, t) <= MaxFailures + Slots + Spill
  <2>1. t \in Int
    BY Constants
  <2>2. Since(<<>>, t) = 0 /\ Within(<<>>, t) \in Nat /\ Within(<<>>, t) <= Since(<<>>, t)
    BY <1>1, <2>1, SinceFacts
  <2>. QED  BY <2>2, SlotsSpill, Constants
<1>. QED  BY <1>1, <1>2 DEF SpanOf, SpanAllows, RecentAllows, EntryAllows,
    Bounded

\* A login begins a comparison, on a key that is counted or on one whose lock has
\* run out and is forgotten.
LEMMA SpanLogin ==
  ASSUME IInv, SpanInv, NEW r \in Requests, NEW k \in Keys, NEW p \in Passwords, Login(r, k, p)
  PROVE  SpanInv'
<1>. DEFINE q == [pc |-> "comparing", key |-> k, passOk |-> p = users[k[1]], at |-> clock]
<1>. SUFFICES ASSUME NEW x \in Keys PROVE SpanKey(x)'
  BY DEF SpanInv
<1>1. /\ failures' = [failures EXCEPT ![k] = AfterCheck(k)] /\ request' = [request EXCEPT ![r] = q]
      /\ clock' = clock /\ misses' = misses
  BY DEF Login
<1>2. /\ failures \in [Keys -> Items \cup {None}] /\ misses \in [Keys -> Seq(0..MaxTime)]
      /\ clock \in 0..MaxTime /\ TypeOK
  BY DEF IInv, TypeOK
<1>3. CASE x # k
  <2>1. ~(q.pc = "comparing" /\ q.key = x)
    BY <1>3
  <2>. HIDE DEF q
  <2>2. /\ Cardinality(Comparing(x)) \in 0..Slots
        /\ Cardinality(Comparing(x)') \in 0..Cardinality(Comparing(x))
    BY <1>1, <1>2, <2>1, FewerComparing DEF Slots
  <2>3. /\ Cardinality(Comparing(x)') \in 0..Slots
        /\ Cardinality(Comparing(x)') <= Cardinality(Comparing(x))
    BY <2>2, SlotsSpill
  <2>4. failures'[x] = failures[x] /\ misses'[x] = misses[x]
    BY <1>1, <1>2, <1>3
  <2>. QED  BY <1>1, <2>2, <2>3, <2>4, SpanKept
<1>4. CASE x = k
  <2>1. Comparing(k) \in SUBSET Requests /\ Comparing(k)' \in SUBSET Requests
    BY DEF Comparing
  <2>2. Cardinality(Comparing(k)) \in 0..Slots /\ Cardinality(Comparing(k)') \in 0..Slots
    BY <2>1, SubsetCount DEF Slots
  <2>3. failures'[k] = AfterCheck(k) /\ misses'[k] = misses[k]
    BY <1>1, <1>2
  <2>4. CASE failures[k] = None \/ failures[k].lockedUntil = 0
    <3>1. AfterCheck(k) = failures[k]
      BY <2>4 DEF AfterCheck
    <3>. QED  BY <1>1, <1>4, <2>2, <2>3, <2>4, <3>1, SpanKept
  <2>5. CASE failures[k] # None /\ failures[k].lockedUntil # 0
    <3>. DEFINE n == Cardinality(Comparing(k))
                m == Cardinality(Comparing(k)')
    <3>1. n \in Nat /\ n \in Int /\ m \in Int
      BY <2>2, SlotsSpill
    <3>. HIDE DEF n, m
    <3>2. failures[k] \in Items /\ failures[k].lockedUntil <= clock
      <4>1. failures[k] \in Items
        BY <1>2, <2>5
      <4>. QED  BY <1>2, <2>5, <4>1, Constants DEF Login, Locked, Items
    <3>3. AfterCheck(k) = None
      BY <2>5, <3>2 DEF AfterCheck
    <3>4. SpanOf(failures[k], misses[k], n, clock) /\ Bounded(misses[k])
      BY DEF SpanInv, SpanKey, n
    <3>5. SpanOf(None, misses[k], n, clock)
      BY <1>2, <2>5, <3>1, <3>2, <3>4, SpanForgotten
    <3>6. SpanOf(None, misses[k], m, clock)
      <4>1. None \in Items \cup {None} /\ misses[k] \in Seq(0..MaxTime) /\ clock \in Int
        BY <1>2, Constants
      <4>. QED  BY <3>1, <3>5, <4>1, SpanFewer
    <3>7. SpanOf(failures'[k], misses'[k], m, clock') /\ Bounded(misses'[k])
      BY <1>1, <2>3, <3>3, <3>4, <3>6
    <3>. QED  BY <1>4, <3>7 DEF SpanKey, m
  <2>. QED  BY <2>4, <2>5
<1>. QED  BY <1>3, <1>4

\* A rejected login counts on an entry that is not locked.
LEMMA SpanRejectLogin ==
  ASSUME IInv, SpanInv, NEW k \in Keys, NEW wellFormed \in BOOLEAN, RejectLogin(k, wellFormed)
  PROVE  SpanInv'
<1>. DEFINE item == AfterCheck(k)
            n == Cardinality(Comparing(k))
<1>1. /\ item \in Items \cup {None}
      /\ item # None => item = failures[k]
      /\ item # None => item.lockedUntil = 0 /\ item.failures < MaxFailures
  BY AfterCheckFacts DEF RejectLogin
<1>2. /\ failures' = [failures EXCEPT ![k] = Marked(item)]
      /\ misses' = [misses EXCEPT ![k] = Append(@, clock)]
      /\ clock' = clock /\ request' = request
  BY DEF RejectLogin, MarkFailure
<1>3. ASSUME NEW x \in Keys
      PROVE  /\ Cardinality(Comparing(x)) \in 0..Slots
             /\ Cardinality(Comparing(x)') \in 0..Cardinality(Comparing(x))
  <2>1. Comparing(x) \in SUBSET Requests /\ Comparing(x)' = Comparing(x)
    BY <1>2 DEF Comparing
  <2>. QED  BY <2>1, SubsetCount DEF Slots
<1>4. n \in 0..Slots /\ n \in Nat
  BY <1>3, SlotsSpill
<1>. HIDE DEF n
<1>5. /\ failures[k] \in Items \cup {None} /\ misses[k] \in Seq(0..MaxTime) /\ clock \in 0..MaxTime
      /\ SpanOf(failures[k], misses[k], n, clock)
  BY DEF IInv, TypeOK, SpanInv, SpanKey, n
<1>6. SpanOf(item, misses[k], n, clock)
  <2>1. CASE item = failures[k]
    BY <1>5, <2>1
  <2>2. CASE item # failures[k]
    <3>1. failures[k] # None /\ failures[k].lockedUntil # 0 /\ failures[k].lockedUntil <= clock
      BY <2>2 DEF AfterCheck
    <3>2. item = None
      BY <1>1, <2>2
    <3>. HIDE DEF item
    <3>. QED  BY <1>4, <1>5, <3>1, <3>2, SpanForgotten
  <2>. QED  BY <2>1, <2>2
<1>. HIDE DEF item
<1>. QED  BY <1>1, <1>2, <1>3, <1>4, <1>6, SpanMark

\* A comparison that fails counts on the entry it finds, locked or not.
LEMMA SpanFinishWrong ==
  ASSUME IInv, SpanInv, NEW r \in Requests, FinishWrong(r)
  PROVE  SpanInv'
<1>1. /\ TypeOK /\ request[r].pc = "comparing" /\ request[r].key \in Keys /\ Idle.pc # "comparing"
  BY DEF IInv, TypeOK, FinishWrong, Idle
<1>2. PICK k \in Keys : k = request[r].key
  BY <1>1
<1>3. /\ failures' = [failures EXCEPT ![k] = Marked(failures[k])]
      /\ misses' = [misses EXCEPT ![k] = Append(@, clock)]
      /\ request' = [request EXCEPT ![r] = Idle] /\ clock' = clock
  BY <1>2 DEF FinishWrong, MarkFailure
<1>4. ASSUME NEW x \in Keys
      PROVE  /\ Cardinality(Comparing(x)) \in 0..Slots
             /\ Cardinality(Comparing(x)') \in 0..Cardinality(Comparing(x))
  BY <1>1, <1>3, FewerComparing DEF Slots
<1>5. Cardinality(Comparing(k)') = Cardinality(Comparing(k)) - 1
  BY <1>1, <1>2, <1>3, OneLess
<1>6. /\ failures[k] \in Items \cup {None}
      /\ failures[k] # None /\ failures[k].lockedUntil = 0 => failures[k].failures < MaxFailures
      /\ SpanOf(failures[k], misses[k], Cardinality(Comparing(k)), clock)
  BY DEF IInv, TypeOK, CountsBounded, SpanInv, SpanKey
<1>7. PICK n \in 0..Slots : n = Cardinality(Comparing(k))
  BY <1>4
<1>. QED  BY <1>3, <1>4, <1>5, <1>6, <1>7, SpanMark

\* A comparison that succeeds begins the history of its key again.
LEMMA SpanFinishRight ==
  ASSUME IInv, SpanInv, NEW r \in Requests, FinishRight(r)
  PROVE  SpanInv'
<1>. SUFFICES ASSUME NEW x \in Keys PROVE SpanKey(x)'
  BY DEF SpanInv
<1>1. /\ TypeOK /\ request[r].pc = "comparing" /\ request[r].key \in Keys /\ Idle.pc # "comparing"
  BY DEF IInv, TypeOK, FinishRight, Idle
<1>2. PICK k \in Keys : k = request[r].key
  BY <1>1
<1>3. /\ failures' = [failures EXCEPT ![k] = None] /\ misses' = [misses EXCEPT ![k] = <<>>]
      /\ request' = [request EXCEPT ![r] = Idle] /\ clock' = clock
  BY <1>2 DEF FinishRight
<1>4. /\ Cardinality(Comparing(x)) \in 0..Slots
      /\ Cardinality(Comparing(x)') \in 0..Cardinality(Comparing(x))
  BY <1>1, <1>3, FewerComparing DEF Slots
<1>5. Cardinality(Comparing(x)') \in 0..Slots /\ Cardinality(Comparing(x)') <= Cardinality(Comparing(x))
  BY <1>4, SlotsSpill
<1>6. CASE x # k
  <2>1. failures'[x] = failures[x] /\ misses'[x] = misses[x]
    BY <1>1, <1>3, <1>6 DEF TypeOK
  <2>. QED  BY <1>3, <1>4, <1>5, <2>1, SpanKept
<1>7. CASE x = k
  <2>1. failures'[x] = None /\ misses'[x] = <<>>
    BY <1>1, <1>3, <1>7 DEF TypeOK
  <2>. QED  BY <1>5, <2>1, SpanEmpty DEF SpanKey
<1>. QED  BY <1>6, <1>7

\* A step that leaves the failures, the clock and the comparisons.
LEMMA SpanQuiet ==
  ASSUME IInv, SpanInv, UNCHANGED <<failures, clock, misses>>,
         NEW r \in Requests, NEW q, request' = [request EXCEPT ![r] = q],
         request[r].pc # "comparing", q.pc # "comparing"
  PROVE  SpanInv'
<1>. SUFFICES ASSUME NEW x \in Keys PROVE SpanKey(x)'
  BY DEF SpanInv
<1>1. Comparing(x)' = Comparing(x)
  BY DEF Comparing, IInv, TypeOK
<1>. QED  BY <1>1 DEF SpanInv, SpanKey

\* The bounds on the spans are kept by every step.
LEMMA SpanNext == IInv /\ SpanInv /\ [Next]_vars => SpanInv'
<1>. SUFFICES ASSUME IInv, SpanInv, [Next]_vars PROVE SpanInv'
  OBVIOUS
<1>1. CASE UNCHANGED vars
  <2>1. \A x : Comparing(x)' = Comparing(x)
    BY <1>1 DEF Comparing, vars
  <2>. QED  BY <1>1, <2>1 DEF SpanInv, SpanKey, vars
<1>2. ASSUME NEW r \in Requests, NEW e \in Emails, NEW p \in Passwords, Register(r, e, p)
      PROVE  SpanInv'
  <2>. DEFINE q == [pc |-> "hashing", email |-> e, password |-> p]
  <2>1. /\ UNCHANGED <<failures, clock, misses>> /\ request' = [request EXCEPT ![r] = q]
        /\ request[r].pc # "comparing" /\ q.pc # "comparing"
    BY <1>2 DEF Register, Idle
  <2>. HIDE DEF q
  <2>. QED  BY <2>1, SpanQuiet
<1>3. ASSUME NEW r \in Requests, FinishRegister(r) PROVE SpanInv'
  <2>1. request[r].pc # "comparing" /\ Idle.pc # "comparing"
    BY <1>3 DEF FinishRegister, Idle
  <2>. QED  BY <1>3, <2>1, SpanQuiet DEF FinishRegister
<1>4. CASE Restart
  <2>. SUFFICES ASSUME NEW x \in Keys PROVE SpanKey(x)'
    BY DEF SpanInv
  <2>1. Comparing(x)' \in SUBSET Requests /\ failures'[x] = None /\ misses'[x] = <<>>
    BY <1>4 DEF Restart, Comparing
  <2>2. Cardinality(Comparing(x)') \in 0..Slots
    BY <2>1, SubsetCount DEF Slots
  <2>. QED  BY <2>1, <2>2, SpanEmpty DEF SpanKey
<1>. QED  BY <1>1, <1>2, <1>3, <1>4, SpanLogin, SpanRejectLogin, SpanFinishWrong, SpanFinishRight,
             SpanTick DEF Next

---------------------------------------------------------------------------
(* The theorems.                                                           *)

\* The invariant holds in every state.
THEOREM Invariance == Spec => []IInv
<1>. QED  BY InvInit, InvNext, PTL DEF Spec

\* Types: the count of a key never exceeds the limit by more than the logins that
\* can be under way (server.js 147-175).
THEOREM TypeCorrect == Spec => []TypeOK
<1>1. IInv => TypeOK
  BY DEF IInv
<1>. QED  BY <1>1, Invariance, PTL

\* No span of a lock's length holds more failures of a key, since its last success,
\* than MaxFailures, the logins under way, and what an earlier count or the late
\* comparisons of an earlier lock left behind, however the logins overlap
\* (server.js 147-175).
THEOREM SpansBounded == Spec => []FailuresBounded
<1>1. Init => SpanInv
  <2>. SUFFICES ASSUME Init, NEW k \in Keys PROVE SpanKey(k)
    BY DEF SpanInv
  <2>1. Comparing(k) \in SUBSET Requests /\ failures[k] = None /\ misses[k] = <<>>
    BY DEF Init, Comparing
  <2>2. Cardinality(Comparing(k)) \in 0..Slots
    BY <2>1, SubsetCount DEF Slots
  <2>. QED  BY <2>1, <2>2, SpanEmpty DEF SpanKey
<1>2. IInv /\ SpanInv => FailuresBounded
  <2>. SUFFICES ASSUME IInv, SpanInv, NEW k \in Keys, NEW i \in DOMAIN misses[k]
                PROVE  Within(misses[k], misses[k][i]) <= MaxFailures + Slots + Spill
    BY DEF FailuresBounded, Slots, Spill
  <2>1. misses[k][i] \in 0..MaxTime
    BY ElementOfSeq, LenProperties DEF IInv, TypeOK
  <2>. QED  BY <2>1 DEF SpanInv, SpanKey, Bounded
<1>. QED  BY <1>1, <1>2, SpanNext, Invariance, PTL DEF Spec

\* Whoever was told that the account was created finds it in the table, with the
\* password given, in every later state (server.js 366-375).
THEOREM Kept == Spec => []CreatedIsKept
<1>1. Init => CreatedIsKept
  BY DEF Init, CreatedIsKept
<1>2. IInv /\ CreatedIsKept /\ [Next]_vars => CreatedIsKept'
  <2>. SUFFICES ASSUME IInv, CreatedIsKept, [Next]_vars PROVE CreatedIsKept'
    OBVIOUS
  <2>1. CASE UNCHANGED <<users, created>>
    BY <2>1 DEF CreatedIsKept
  <2>2. ASSUME NEW r \in Requests, FinishRegister(r) PROVE CreatedIsKept'
    <3>1. /\ request[r].email \in Emails /\ request[r].password \in Passwords
          /\ users \in [Emails -> Passwords \cup {None}] /\ None \notin Passwords
          /\ \A c \in created : c.password \in Passwords
      BY <2>2, AccountsAssumption DEF IInv, TypeOK, FinishRegister, Idle
    <3>2. CASE users[request[r].email] # None
      BY <2>2, <3>2 DEF FinishRegister, Inserted, CreatedIsKept
    <3>3. CASE users[request[r].email] = None
      <4>1. users' = [users EXCEPT ![request[r].email] = request[r].password]
        BY <2>2, <3>3 DEF FinishRegister, Inserted
      <4>2. ASSUME NEW c \in created PROVE users'[c.email] = c.password
        <5>1. users[c.email] = c.password /\ c.password # None
          BY <3>1 DEF CreatedIsKept
        <5>. QED  BY <3>3, <4>1, <5>1
      <4>3. users'[request[r].email] = request[r].password
        BY <3>1, <4>1
      <4>. QED  BY <2>2, <4>2, <4>3 DEF FinishRegister, CreatedIsKept
    <3>. QED  BY <3>2, <3>3
  <2>. QED  BY <2>1, <2>2 DEF Next, vars, Register, Login, FinishWrong, FinishRight, RejectLogin,
               MarkFailure, Tick, Restart
<1>. QED  BY <1>1, <1>2, Invariance, PTL DEF Spec

\* A lock that stands is lifted by nothing but a restart or a right password
\* whose comparison began before the failure that set the lock was counted: every
\* other comparison that ends late renews the lock or leaves it (server.js 395-415).
THEOREM LocksHold == Spec => LockHolds
<1>. DEFINE Kept1(k) ==
       Locked(k) /\ clock' < failures[k].lockedUntil =>
          \/ failures'[k] # None /\ failures'[k].lockedUntil >= failures[k].lockedUntil
          \/ starts' # starts
          \/ \E r \in Requests :
               /\ request[r].pc = "comparing" /\ request[r].passOk /\ request[r].key = k
               /\ request[r].at + LockWindow <= failures[k].lockedUntil
               /\ request'[r] = Idle
<1>1. IInv /\ [Next]_vars => [\A k \in Keys : Kept1(k)]_vars
  <2>. SUFFICES ASSUME IInv, Next, NEW k \in Keys, Locked(k) PROVE Kept1(k)
    BY DEF vars
  <2>1. /\ failures \in [Keys -> Items \cup {None}] /\ clock \in 0..MaxTime
        /\ failures[k] # None /\ failures[k].lockedUntil > clock
        /\ failures[k].lockedUntil \in Int /\ failures[k].lockedUntil <= clock + LockWindow
    BY Constants DEF IInv, TypeOK, CountsBounded, Locked, Items
  <2>2. CASE failures'[k] = failures[k]
    BY <2>1, <2>2
  <2>3. ASSUME NEW r \in Requests, NEW j \in Keys, NEW p \in Passwords, Login(r, j, p)
        PROVE  failures'[k] = failures[k]
    BY <2>1, <2>3 DEF Login
  <2>4. ASSUME NEW j \in Keys, NEW wellFormed \in BOOLEAN, RejectLogin(j, wellFormed)
        PROVE  failures'[k] = failures[k]
    BY <2>1, <2>4 DEF RejectLogin, MarkFailure
  <2>5. ASSUME NEW r \in Requests, FinishWrong(r) PROVE Kept1(k)
    <3>1. CASE request[r].key # k
      <4>. QED  BY <2>1, <2>2, <2>5, <3>1 DEF FinishWrong, MarkFailure
    <3>2. CASE request[r].key = k
      <4>1. failures'[k] = Marked(failures[k])
        BY <2>1, <2>5, <3>2 DEF FinishWrong, MarkFailure
      <4>2. Marked(failures[k]).lockedUntil >= failures[k].lockedUntil
        BY <2>1, Constants DEF Marked
      <4>3. failures'[k] # None
        <5>1. failures[k].failures \in Int /\ failures[k].firstAt \in Int
          BY <2>1, Constants DEF Items
        <5>2. Marked(failures[k]) \in [failures : Int, lockedUntil : Int, firstAt : Int]
          BY <2>1, <5>1, Constants DEF Marked
        <5>. QED  BY <4>1, <5>2, AccountsAssumption
      <4>. QED  BY <4>1, <4>2, <4>3
    <3>. QED  BY <3>1, <3>2
  <2>6. ASSUME NEW r \in Requests, FinishRight(r) PROVE Kept1(k)
    <3>1. CASE request[r].key # k
      BY <2>1, <2>2, <2>6, <3>1 DEF FinishRight
    <3>2. CASE request[r].key = k
      <4>1. request[r].pc = "comparing" /\ request[r].passOk /\ request'[r] = Idle
        BY <2>6 DEF FinishRight, IInv, TypeOK
      <4>2. request[r].at + LockWindow <= failures[k].lockedUntil
        BY <2>1, <3>2, <4>1 DEF IInv, BegunBeforeLock
      <4>. QED  BY <3>2, <4>1, <4>2
    <3>. QED  BY <3>1, <3>2
  <2>7. CASE Restart
    BY <2>7 DEF Restart, IInv, TypeOK
  <2>8. CASE Tick \/ \E r \in Requests : \/ FinishRegister(r)
                                        \/ \E e \in Emails, p \in Passwords : Register(r, e, p)
    BY <2>2, <2>8 DEF Tick, FinishRegister, Register
  <2>. HIDE DEF Kept1
  <2>. QED  BY <2>2, <2>3, <2>4, <2>5, <2>6, <2>7, <2>8 DEF Next
<1>2. IInv /\ [Next]_vars =>
        [\A k \in Keys :
          Locked(k) /\ clock' < failures[k].lockedUntil =>
          \/ failures'[k] # None /\ failures'[k].lockedUntil >= failures[k].lockedUntil
          \/ starts' # starts
          \/ \E r \in Requests :
               /\ request[r].pc = "comparing" /\ request[r].passOk /\ request[r].key = k
               /\ request[r].at + LockWindow <= failures[k].lockedUntil
               /\ request'[r] = Idle]_vars
  BY <1>1
<1>. QED  BY <1>2, Invariance, PTL DEF Spec, LockHolds

===========================================================================

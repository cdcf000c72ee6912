----------------------- MODULE TwinOrchestratorProofs -----------------------
(* Theorems about TwinOrchestrator: types, the backing of stored twins, that *)
(* no twin takes over what a failed creation left behind, that users are     *)
(* told of twins that are there, that no post makes its twins twice, and     *)
(* that a reading refreshes the twin its target named when the user asked.   *)
EXTENDS TwinOrchestrator, SequenceTheorems, FiniteSetTheorems, WellFoundedInduction, TLAPS

Steps == {"number", "agent", "shell", "baseline", "history"}

Creations == {i \in Intents : i.op = "create"}

\* The counts of an intent's twins that go through each step.
LEMMA ReachFacts ==
  ASSUME NEW i \in Creations, NEW data \in BOOLEAN
  PROVE  /\ Len(i.types) \in Nat /\ i.types \in Seq(Types)
         /\ Completed(i) \in Nat /\ Completed(i) <= Len(i.types)
         /\ Reach(i, data, "store") = Completed(i)
         /\ \A step \in Steps :
              /\ Reach(i, data, step) \in Nat
              /\ Completed(i) <= Reach(i, data, step)
              /\ Reach(i, data, step) <= Reach(i, data, "number")
              /\ Reach(i, data, "number") <= Len(i.types)
<1>1. /\ i.types \in Seq(Types) /\ i.types # <<>>
      /\ i.at \in 1..Len(i.types) \cup {1}
  BY IntentsAssumption DEF Creations
<1>2. Len(i.types) \in Nat \ {0}
  BY <1>1, EmptySeq
<1>3. i.at \in 1..Len(i.types)
  BY <1>1, <1>2
<1>4. /\ Completed(i) \in Nat /\ Completed(i) <= Len(i.types)
      /\ i.flaw # "none" => Completed(i) + 1 <= Len(i.types)
  BY <1>2, <1>3 DEF Completed
<1>5. "store" \notin FlawShowsAfter(i.flaw, data)
  BY DEF FlawShowsAfter
<1>6. \A step \in Steps :
        step \in FlawShowsAfter(i.flaw, data) => "number" \in FlawShowsAfter(i.flaw, data)
  BY DEF FlawShowsAfter
<1>. QED  BY <1>1, <1>2, <1>4, <1>5, <1>6 DEF Reach, Steps

\* Every id has a number.
LEMMA IdNumber == \A id \in Ids : id.n \in Nat
<1>. SUFFICES ASSUME NEW id \in Ids PROVE id.n \in Nat
  OBVIOUS
<1>1. PICK type \in Types, n \in Nat \ {0}, lower \in {FALSE} : id = [type |-> type, n |-> n, lower |-> lower]
  BY DEF Ids
<1>. QED  BY <1>1

\* New ids are numbered from the counter on.
LEMMA NewIdsFacts ==
  ASSUME NEW types \in Seq(Types), counter \in Nat
  PROVE  /\ NewIds(types) \in Seq(Ids)
         /\ Len(NewIds(types)) = Len(types)
         /\ DOMAIN NewIds(types) = 1..Len(types)
         /\ \A k \in 1..Len(types) : NewIds(types)[k].n = counter + k
<1>1. /\ Len(types) \in Nat /\ DOMAIN types = 1..Len(types)
      /\ \A k \in 1..Len(types) : types[k] \in Types
  BY LenProperties, ElementOfSeq
<1>2. NewIds(types) \in [1..Len(types) -> Ids]
  BY <1>1 DEF NewIds, Ids
<1>3. NewIds(types) \in Seq(Ids)
  BY <1>1, <1>2, SeqDef
<1>4. Len(NewIds(types)) = Len(types)
  BY <1>1, <1>2, <1>3, LenProperties
<1>. QED  BY <1>1, <1>2, <1>3, <1>4 DEF NewIds

\* The first ids of a creation lie between the counter and what it becomes.
LEMMA FirstOfFacts ==
  ASSUME NEW types \in Seq(Types), counter \in Nat, NEW m \in Nat, m <= Len(types)
  PROVE  /\ FirstOf(NewIds(types), m) \in SUBSET Ids
         /\ \A id \in FirstOf(NewIds(types), m) : counter < id.n /\ id.n <= counter + m
         /\ \A k \in 1..m : NewIds(types)[k] \in FirstOf(NewIds(types), m)
<1>1. /\ NewIds(types) \in Seq(Ids) /\ DOMAIN NewIds(types) = 1..Len(types)
      /\ \A k \in 1..Len(types) : NewIds(types)[k].n = counter + k
      /\ Len(types) \in Nat
  BY NewIdsFacts, LenProperties
<1>2. \A k \in 1..Len(types) : NewIds(types)[k] \in Ids
  BY NewIdsFacts, ElementOfSeq
<1>3. {j \in DOMAIN NewIds(types) : j <= m} = 1..m
  BY <1>1
<1>4. FirstOf(NewIds(types), m) = {NewIds(types)[k] : k \in 1..m}
  BY <1>3 DEF FirstOf
<1>. QED  BY <1>1, <1>2, <1>4

---------------------------------------------------------------------------
(* Type correctness.                                                       *)

\* The seeds are as many entries, with ids of their own.
LEMMA SeedFacts ==
  /\ Len(Seeds) \in Nat
  /\ SeedEntries \in Seq(Entries) /\ Len(SeedEntries) = Len(Seeds)
  /\ DOMAIN SeedEntries = 1..Len(Seeds)
  /\ SeedIds \in SUBSET Ids
  /\ \A k \in 1..Len(Seeds) : SeedEntries[k].id \in SeedIds
  /\ \A id \in SeedIds : id.n <= Len(Seeds)
<1>1. /\ Len(Seeds) \in Nat /\ DOMAIN Seeds = 1..Len(Seeds)
      /\ \A k \in 1..Len(Seeds) : Seeds[k] \in Types
  BY IntentsAssumption, LenProperties, ElementOfSeq
<1>2. \A k \in 1..Len(Seeds) :
        /\ SeedEntries[k] \in Entries
        /\ SeedEntries[k].id \in Ids /\ SeedEntries[k].id.n = k
  <2>. TAKE k \in 1..Len(Seeds)
  <2>1. PICK id, name : /\ id = [type |-> Seeds[k], n |-> k, lower |-> FALSE]
                        /\ name = [type |-> Seeds[k], n |-> 0, lower |-> FALSE]
    OBVIOUS
  <2>2. id \in Ids /\ id.n = k /\ name \in Texts
    BY <1>1, <2>1 DEF Ids, Texts
  <2>3. SeedEntries[k] = [id |-> id, name |-> name, by |-> NoReading, kpis |-> NoReading,
                          alerts |-> NoReading]
    BY <1>1, <2>1 DEF SeedEntries
  <2>4. NoReading \in Origins
    BY DEF NoReading, Origins
  <2>. QED  BY <2>2, <2>3, <2>4 DEF Entries
<1>3. SeedEntries \in [1..Len(Seeds) -> Entries]
  BY <1>1, <1>2 DEF SeedEntries
<1>4. SeedEntries \in Seq(Entries)
  BY <1>1, <1>3, SeqDef
<1>5. Len(SeedEntries) = Len(Seeds)
  BY <1>1, <1>3, <1>4, LenProperties
<1>. QED  BY <1>1, <1>2, <1>3, <1>4, <1>5 DEF SeedIds

\* The types hold initially.
LEMMA TypeInit == Init => TypeOK
BY SeedFacts, BoundsAssumption DEF Init, TypeOK

\* The entries a creation stores.
LEMMA NewEntriesFacts ==
  ASSUME TypeOK, NEW p \in posts, wants[p.req] \in Creations
  PROVE  LET i   == wants[p.req]
             ids == NewIds(i.types)
             new == [k \in 1..Reach(i, p.data, "store") |-> Entry(p, i, ids[k])]
         IN  /\ new \in Seq(Entries) /\ Len(new) = Completed(i)
             /\ \A k \in 1..Completed(i) : new[k].id = ids[k]
<1>. DEFINE i   == wants[p.req]
            ids == NewIds(i.types)
            new == [k \in 1..Reach(i, p.data, "store") |-> Entry(p, i, ids[k])]
<1>1. p \in Posts /\ p.req \in Requests /\ p.data \in BOOLEAN /\ counter \in Nat
  BY DEF TypeOK, Posts
<1>2. /\ i.types \in Seq(Types) /\ Completed(i) \in Nat /\ Completed(i) <= Len(i.types)
      /\ Len(i.types) \in Nat /\ Reach(i, p.data, "store") = Completed(i)
  BY <1>1, ReachFacts
<1>3. \A k \in 1..Completed(i) : ids[k] \in Ids
  BY <1>1, <1>2, NewIdsFacts, ElementOfSeq
<1>4. Reading(p) \in Origins /\ [req |-> p.req, no |-> p.no] \in Origins
  BY <1>1, BoundsAssumption DEF Posts, Reading, NoReading, Origins
<1>5. \A id \in Ids : NameOf(i, id) \in Texts
  BY IntentsAssumption DEF NameOf, Ids, Texts, Creations
<1>6. \A id \in Ids : Entry(p, i, id) \in Entries /\ Entry(p, i, id).id = id
  BY <1>4, <1>5 DEF Entry, Entries
<1>7. new \in [1..Completed(i) -> Entries] /\ \A k \in 1..Completed(i) : new[k].id = ids[k]
  BY <1>2, <1>3, <1>6
<1>8. new \in Seq(Entries)
  BY <1>2, <1>7, SeqDef
<1>9. Len(new) = Completed(i)
  BY <1>2, <1>7, <1>8, LenProperties
<1>. QED  BY <1>7, <1>8, <1>9

\* A reply is of the type of the answers.
LEMMA RepliedType ==
  ASSUME TypeOK, NEW p, NEW status \in {"success", "error"}, NEW ids \in SUBSET Ids
  PROVE  Replied(p, status, ids) \in [Requests -> Answers \cup {NoReply}]
BY DEF TypeOK, Replied, Answers

\* A refreshed store has the twins it had, with their ids.
LEMMA RefreshFacts ==
  ASSUME TypeOK, NEW p \in posts, NEW S, NEW i
  PROVE  LET new == [k \in DOMAIN store |->
                       IF k \in S THEN Refreshed(i, p, store[k]) ELSE store[k]]
         IN  /\ new \in Seq(Entries) /\ Len(new) = Len(store)
             /\ DOMAIN new = DOMAIN store
             /\ \A k \in DOMAIN store : new[k].id = store[k].id
<1>. DEFINE new == [k \in DOMAIN store |->
                      IF k \in S THEN Refreshed(i, p, store[k]) ELSE store[k]]
<1>1. /\ Len(store) \in Nat /\ DOMAIN store = 1..Len(store)
      /\ \A k \in 1..Len(store) : store[k] \in Entries
  BY LenProperties, ElementOfSeq DEF TypeOK
<1>2. Reading(p) \in Origins
  BY BoundsAssumption DEF TypeOK, Posts, Reading, NoReading, Origins
<1>3. \A k \in 1..Len(store) :
        /\ Refreshed(i, p, store[k]) \in Entries
        /\ Refreshed(i, p, store[k]).id = store[k].id
  BY <1>1, <1>2 DEF Refreshed, Entries
<1>4. new \in [1..Len(store) -> Entries] /\ \A k \in 1..Len(store) : new[k].id = store[k].id
  BY <1>1, <1>3
<1>5. new \in Seq(Entries)
  BY <1>1, <1>4, SeqDef
<1>6. Len(new) = Len(store)
  BY <1>1, <1>4, <1>5, LenProperties
<1>. QED  BY <1>1, <1>4, <1>5, <1>6

\* The first place of a set of places is one of them, and before all others.
LEMMA EarliestFacts ==
  ASSUME NEW S \in SUBSET Nat, S # {}
  PROVE  Earliest(S) \in S /\ \A j \in S : Earliest(S) <= j
<1>1. PICK k \in S : \A j \in S : ~(<<j, k>> \in OpToRel(<, Nat))
  BY NatLessThanWellFounded, WFMin
<1>2. \A j \in Nat : j < k => <<j, k>> \in OpToRel(<, Nat)
  BY DEF OpToRel
<1>3. \A j \in S : ~(j < k)
  BY <1>1, <1>2, Zenon
<1>4. \A j \in S : k <= j
  BY <1>3
<1>. QED  BY <1>4 DEF Earliest

\* What a search finds are twins of the store, and of the part of an id or a
\* name one at most.
LEMMA FoundFacts ==
  ASSUME TypeOK, NEW i
  PROVE  /\ Found(i) \subseteq DOMAIN store
         /\ \A k \in Found(i) : store[k].id \in Ids
         /\ Partial(i) \in SUBSET Nat
         /\ Exact(i) = {} => \A k \in Found(i) : k \in Partial(i) /\ \A j \in Partial(i) : k <= j
<1>1. Exact(i) \subseteq DOMAIN store /\ Partial(i) \subseteq DOMAIN store
  BY DEF Exact, Partial
<1>2. DOMAIN store = 1..Len(store) /\ Len(store) \in Nat /\ \A k \in DOMAIN store : store[k] \in Entries
  BY LenProperties, ElementOfSeq DEF TypeOK
<1>3. Partial(i) \in SUBSET Nat
  BY <1>1, <1>2
<1>4. Partial(i) # {} => /\ Earliest(Partial(i)) \in Partial(i)
                         /\ \A j \in Partial(i) : Earliest(Partial(i)) <= j
  BY <1>3, EarliestFacts
<1>5. Found(i) \subseteq DOMAIN store
  BY <1>1, <1>4 DEF Found
<1>6. \A k \in DOMAIN store : store[k].id \in Ids
  BY <1>2 DEF Entries
<1>. QED  BY <1>3, <1>4, <1>5, <1>6 DEF Found

\* A post that named a twin and is taken over by a new process.
LEMMA NamelessFacts ==
  ASSUME NEW p \in Posts
  PROVE  /\ Nameless(p) \in Posts /\ Nameless(p).named = {}
         /\ Nameless(p).req = p.req /\ Nameless(p).no = p.no
BY DEF Nameless, Posts

---------------------------------------------------------------------------
(* The invariant.                                                          *)

\* No number in use is ahead of the counter.
NumberedBelow == \A id \in agents \cup shells \cup baselines \cup histories : id.n <= counter

SeedsStored == Len(Seeds) <= Len(store)

IInv == TypeOK /\ NumberedBelow /\ TwinIsBacked /\ SeedsStored

NewTwinsFresh ==
  \A k \in DOMAIN store' \ DOMAIN store :
    store'[k].id \notin agents \cup shells \cup baselines \cup histories

\* The invariant of the store holds initially.
LEMMA IInvInit == Init => IInv
<1>. SUFFICES ASSUME Init PROVE IInv  OBVIOUS
<1>1. NumberedBelow  BY SeedFacts DEF Init, NumberedBelow
<1>2. TwinIsBacked /\ SeedsStored  BY SeedFacts DEF Init, TwinIsBacked, SeedsStored
<1>. QED  BY <1>1, <1>2, TypeInit DEF IInv

\* A creation keeps it, and backs its twins with parts that are new.
LEMMA CreateStep ==
  ASSUME IInv, NEW p \in posts, Create(p)
  PROVE  IInv' /\ NewTwinsFresh
<1>. DEFINE i   == wants[p.req]
            ids == NewIds(i.types)
            new == [k \in 1..Reach(i, p.data, "store") |-> Entry(p, i, ids[k])]
            Through(step) == FirstOf(ids, Reach(i, p.data, step))
            Status0 == Status(i)
<1>1. /\ TypeOK /\ p \in Posts /\ p.data \in BOOLEAN /\ counter \in Nat
      /\ p.req \in Requests /\ i \in Creations
  BY DEF IInv, TypeOK, Posts, Creations, Create
<1>2. /\ i.types \in Seq(Types) /\ Completed(i) \in Nat /\ Len(i.types) \in Nat
      /\ Completed(i) <= Len(i.types)
      /\ \A step \in Steps :
           /\ Reach(i, p.data, step) \in Nat
           /\ Completed(i) <= Reach(i, p.data, step)
           /\ Reach(i, p.data, step) <= Reach(i, p.data, "number")
           /\ Reach(i, p.data, "number") <= Len(i.types)
  BY <1>1, ReachFacts
<1>3. Reach(i, p.data, "number") \in Nat /\ Reach(i, p.data, "number") <= Len(i.types)
  BY <1>2 DEF Steps
<1>4. \A step \in Steps :
        /\ Through(step) \in SUBSET Ids
        /\ \A id \in Through(step) :
             counter < id.n /\ id.n <= counter + Reach(i, p.data, "number")
        /\ \A k \in 1..Completed(i) : ids[k] \in Through(step)
  <2>. TAKE step \in Steps
  <2>. DEFINE m == Reach(i, p.data, step)
  <2>1. m \in Nat /\ m <= Len(i.types) /\ Completed(i) <= m /\ m <= Reach(i, p.data, "number")
    BY <1>2, <1>3
  <2>. HIDE DEF m
  <2>2. /\ FirstOf(ids, m) \in SUBSET Ids
        /\ \A id \in FirstOf(ids, m) : counter < id.n /\ id.n <= counter + m
        /\ \A k \in 1..m : ids[k] \in FirstOf(ids, m)
    BY <1>1, <1>2, <2>1, FirstOfFacts
  <2>3. \A id \in FirstOf(ids, m) : id.n <= counter + Reach(i, p.data, "number")
    BY <1>1, <1>3, <2>1, <2>2, IdNumber
  <2>4. \A k \in 1..Completed(i) : ids[k] \in FirstOf(ids, m)
    BY <1>2, <2>1, <2>2
  <2>. QED  BY <2>2, <2>3, <2>4 DEF m
<1>5. /\ new \in Seq(Entries) /\ Len(new) = Completed(i)
      /\ \A k \in 1..Completed(i) : new[k].id = ids[k]
  BY <1>1, NewEntriesFacts
<1>6. \A k \in 1..Completed(i) : ids[k].n = counter + k
  BY <1>1, <1>2, NewIdsFacts
<1>7. /\ counter' = counter + Reach(i, p.data, "number")
      /\ agents' = agents \cup Through("agent")
      /\ shells' = shells \cup Through("shell")
      /\ baselines' = baselines \cup Through("baseline")
      /\ histories' = histories \cup (IF p.data THEN Through("history") ELSE {})
      /\ store' = store \o new
      /\ posts' = Consumed(p)
      /\ reply' = Replied(p, Status(i), IF Status(i) = "success" THEN FirstOf(ids, Len(ids)) ELSE {})
      /\ UNCHANGED <<wants, phase, attempts, answer, restarts>>
  BY DEF Create, client
<1>. HIDE DEF new, ids, Through
<1>8. /\ store' \in Seq(Entries) /\ Len(store') = Len(store) + Completed(i)
      /\ DOMAIN store' = 1..Len(store) + Completed(i) /\ DOMAIN store = 1..Len(store)
      /\ Len(store) \in Nat
      /\ \A k \in 1..Len(store) : store'[k] = store[k]
      /\ \A k \in DOMAIN store' \ DOMAIN store :
           k - Len(store) \in 1..Completed(i) /\ store'[k] = new[k - Len(store)]
  <2>1. store \in Seq(Entries) /\ Len(store) \in Nat /\ DOMAIN store = 1..Len(store)
    BY <1>1, LenProperties DEF TypeOK
  <2>2. /\ store \o new \in Seq(Entries) /\ Len(store \o new) = Len(store) + Len(new)
        /\ \A k \in 1..Len(store) + Len(new) :
             (store \o new)[k] = IF k <= Len(store) THEN store[k] ELSE new[k - Len(store)]
    BY <1>5, <2>1, ConcatProperties
  <2>3. /\ store' \in Seq(Entries) /\ Len(store') = Len(store) + Completed(i)
        /\ \A k \in 1..Len(store) + Completed(i) :
             store'[k] = IF k <= Len(store) THEN store[k] ELSE new[k - Len(store)]
    BY <1>5, <1>7, <2>2
  <2>4. DOMAIN store' = 1..Len(store) + Completed(i)
    BY <2>3, LenProperties
  <2>5. \A k \in 1..Len(store) : store'[k] = store[k]
    BY <1>2, <2>1, <2>3
  <2>6. \A k \in DOMAIN store' \ DOMAIN store :
          k - Len(store) \in 1..Completed(i) /\ store'[k] = new[k - Len(store)]
    BY <1>2, <2>1, <2>3, <2>4
  <2>. QED  BY <2>1, <2>3, <2>4, <2>5, <2>6
<1>9. TypeOK'
  <2>1. counter' \in Nat  BY <1>1, <1>3, <1>7
  <2>2. /\ agents' \in SUBSET Ids /\ shells' \in SUBSET Ids
        /\ baselines' \in SUBSET Ids /\ histories' \in SUBSET Ids
    BY <1>1, <1>4, <1>7 DEF TypeOK, Steps
  <2>3. reply' \in [Requests -> Answers \cup {NoReply}]
    <3>1. Len(ids) \in Nat /\ Len(ids) = Len(i.types)
      BY <1>1, <1>2, NewIdsFacts DEF ids
    <3>2. FirstOf(ids, Len(ids)) \in SUBSET Ids
      BY <1>1, <1>2, <3>1, FirstOfFacts DEF ids
    <3>3. Status(i) \in {"success", "error"}  BY DEF Status
    <3>. QED  BY <1>1, <1>7, <3>2, <3>3, RepliedType
  <2>4. posts' \in SUBSET Posts  BY <1>1, <1>7 DEF Consumed, TypeOK
  <2>. QED  BY <1>1, <1>7, <1>8, <2>1, <2>2, <2>3, <2>4 DEF TypeOK
<1>10. NumberedBelow'
  <2>1. \A id \in agents \cup shells \cup baselines \cup histories : id.n <= counter'
    <3>1. \A id \in agents \cup shells \cup baselines \cup histories : id.n \in Nat /\ id.n <= counter
      BY <1>1, IdNumber DEF IInv, NumberedBelow, TypeOK
    <3>. QED  BY <1>1, <1>3, <1>7, <3>1
  <2>. QED  BY <1>4, <1>7, <2>1 DEF NumberedBelow, Steps
<1>11. TwinIsBacked'
  <2>. SUFFICES ASSUME NEW k \in DOMAIN store'
                PROVE  store'[k].id \in agents' \cap shells' \cap baselines'
    BY DEF TwinIsBacked
  <2>1. CASE k \in DOMAIN store
    BY <1>7, <1>8, <2>1 DEF IInv, TwinIsBacked
  <2>2. CASE k \notin DOMAIN store
    <3>1. PICK j \in 1..Completed(i) : store'[k].id = ids[j]
      BY <1>5, <1>8, <2>2
    <3>. QED  BY <1>4, <1>7, <3>1 DEF Steps
  <2>. QED  BY <2>1, <2>2
<1>12. SeedsStored'
  BY <1>2, <1>8, SeedFacts DEF IInv, SeedsStored
<1>13. NewTwinsFresh
  <2>. SUFFICES ASSUME NEW k \in DOMAIN store' \ DOMAIN store
                PROVE  store'[k].id \notin agents \cup shells \cup baselines \cup histories
    BY DEF NewTwinsFresh
  <2>1. PICK j \in 1..Completed(i) : store'[k].id = ids[j]
    BY <1>5, <1>8
  <2>2. store'[k].id.n = counter + j
    BY <1>6, <2>1
  <2>. QED  BY <1>1, <1>2, <2>2 DEF IInv, NumberedBelow
<1>. QED  BY <1>9, <1>10, <1>11, <1>12, <1>13 DEF IInv

\* A refresh adds no twin.
LEMMA RefreshStep ==
  ASSUME IInv, NEW p \in posts, Refresh(p)
  PROVE  IInv' /\ NewTwinsFresh
<1>. DEFINE i == wants[p.req]
            S == IF p.data THEN Found(i) ELSE {}
            new == [k \in DOMAIN store |->
                      IF k \in S THEN Refreshed(i, p, store[k]) ELSE store[k]]
<1>1. TypeOK  BY DEF IInv
<1>2. /\ store' = new /\ posts' = Consumed(p) /\ reply' = Replied(p, "success", {})
      /\ histories' = IF i.op = "query" THEN histories \cup {store[k].id : k \in S} ELSE histories
      /\ UNCHANGED <<counter, agents, shells, baselines>>
      /\ UNCHANGED <<wants, phase, attempts, answer, restarts>>
  BY DEF Refresh, client
<1>3. S \subseteq DOMAIN store
  BY <1>1, FoundFacts
<1>4. /\ store' \in Seq(Entries) /\ Len(store') = Len(store)
      /\ DOMAIN store' = DOMAIN store
      /\ \A k \in DOMAIN store : store'[k].id = store[k].id
  BY <1>1, <1>2, RefreshFacts
<1>5. \A k \in DOMAIN store : store[k].id \in Ids
  <2>1. \A k \in DOMAIN store : store[k] \in Entries
    BY <1>1, LenProperties, ElementOfSeq DEF TypeOK
  <2>. QED  BY <2>1 DEF Entries
<1>. HIDE DEF S, new
<1>6. TypeOK'
  <2>1. reply' \in [Requests -> Answers \cup {NoReply}]
    BY <1>1, <1>2, RepliedType
  <2>2. posts' \in SUBSET Posts  BY <1>1, <1>2 DEF Consumed, TypeOK
  <2>3. histories' \in SUBSET Ids  BY <1>1, <1>2, <1>3, <1>5 DEF TypeOK
  <2>. QED  BY <1>1, <1>2, <1>4, <2>1, <2>2, <2>3 DEF TypeOK
<1>7. NumberedBelow'
  <2>1. \A k \in S : store[k].id.n <= counter
    BY <1>3 DEF IInv, TwinIsBacked, NumberedBelow
  <2>. QED  BY <1>2, <2>1 DEF IInv, NumberedBelow
<1>8. TwinIsBacked' /\ SeedsStored'
  BY <1>2, <1>4 DEF IInv, TwinIsBacked, SeedsStored
<1>9. NewTwinsFresh  BY <1>4 DEF NewTwinsFresh
<1>. QED  BY <1>6, <1>7, <1>8, <1>9 DEF IInv

\* A restart puts the seeds back, with their parts.
LEMMA RestartStep ==
  ASSUME IInv, Restart
  PROVE  IInv' /\ NewTwinsFresh
<1>1. /\ TypeOK /\ restarts \in Nat /\ restarts < MaxRestarts /\ restarts' = restarts + 1
      /\ counter' = Len(Seeds) /\ store' = SeedEntries /\ histories' = {}
      /\ agents' = SeedIds /\ shells' = SeedIds /\ baselines' = SeedIds
      /\ UNCHANGED <<reply, wants, phase, attempts, answer>>
  BY BoundsAssumption DEF IInv, TypeOK, Restart, client
<1>2. TypeOK'
  <2>1. restarts' \in 0..MaxRestarts  BY <1>1, BoundsAssumption
  <2>2. posts' \in SUBSET Posts
    <3>1. PICK kept \in SUBSET posts : posts' = {Nameless(p) : p \in kept}
      BY DEF Restart
    <3>2. \A p \in kept : Nameless(p) \in Posts
      BY <1>1, NamelessFacts DEF TypeOK
    <3>. QED  BY <3>1, <3>2
  <2>. QED  BY <1>1, <2>1, <2>2, SeedFacts DEF TypeOK
<1>3. NumberedBelow' /\ TwinIsBacked' /\ SeedsStored'
  BY <1>1, SeedFacts DEF NumberedBelow, TwinIsBacked, SeedsStored
<1>4. DOMAIN store' \subseteq DOMAIN store
  BY <1>1, SeedFacts, LenProperties DEF TypeOK, IInv, SeedsStored
<1>. QED  BY <1>2, <1>3, <1>4 DEF IInv, NewTwinsFresh

\* Every other step leaves the orchestrator's memory as it is.
LEMMA QuietStep ==
  ASSUME IInv, TypeOK', UNCHANGED server
  PROVE  IInv' /\ NewTwinsFresh
BY DEF IInv, NewTwinsFresh, NumberedBelow, TwinIsBacked, SeedsStored, server

\* A post that only reads changes nothing of the server.
LEMMA ReadOnlyStep ==
  ASSUME IInv, NEW p \in posts, ReadOnly(p)
  PROVE  IInv' /\ NewTwinsFresh
<1>1. PICK status \in {"success", "error"} : reply' = Replied(p, status, {})
  BY DEF ReadOnly
<1>2. /\ TypeOK /\ UNCHANGED server /\ posts' = posts \ {p}
      /\ UNCHANGED <<wants, phase, attempts, answer, restarts>>
  BY DEF IInv, ReadOnly, client, Consumed
<1>3. reply' \in [Requests -> Answers \cup {NoReply}]
  BY <1>1, <1>2, RepliedType
<1>4. TypeOK'
  BY <1>2, <1>3 DEF TypeOK, server
<1>. QED  BY <1>2, <1>4, QuietStep

\* Asking makes one post more, with a number of its own and the twin its target
\* names if a reading was fetched for one.
LEMMA AskPosts ==
  ASSUME TypeOK, NEW r \in Requests, Ask(r)
  PROVE  \E new : /\ new \in Posts /\ posts' = posts \cup {new}
                  /\ new.req = r /\ new.no = attempts[r] + 1
                  /\ new.named = {} \/ new.named = Named(wants[r])
<1>1. PICK data \in BOOLEAN :
        posts' = posts \cup {[req |-> r, no |-> attempts[r] + 1, data |-> data,
                              named |-> IF data /\ wants[r].op # "create" THEN Named(wants[r])
                                        ELSE {}]}
  <2>1. \E data \in IF wants[r].op = "list" THEN {FALSE} ELSE BOOLEAN :
          posts' = posts \cup {[req |-> r, no |-> attempts[r] + 1, data |-> data,
                                named |-> IF data /\ wants[r].op # "create" THEN Named(wants[r])
                                          ELSE {}]}
    BY DEF Ask
  <2>. QED  BY <2>1
<1>2. PICK named, m, new :
        /\ named = IF data /\ wants[r].op # "create" THEN Named(wants[r]) ELSE {}
        /\ m = attempts[r] + 1
        /\ new = [req |-> r, no |-> m, data |-> data, named |-> named]
  OBVIOUS
<1>3. m \in 1..MaxAttempts
  BY <1>2, BoundsAssumption DEF Ask, TypeOK
<1>4. named \in SUBSET Ids
  BY <1>2, FoundFacts DEF Named
<1>5. new \in Posts /\ new.req = r /\ new.no = m /\ new.named = named
  BY <1>2, <1>3, <1>4 DEF Posts
<1>6. posts' = posts \cup {new}
  BY <1>1, <1>2, Zenon
<1>7. named = {} \/ named = Named(wants[r])
  BY <1>2
<1>. QED  BY <1>2, <1>5, <1>6, <1>7

\* The pipelines change nothing of the server.
LEMMA PipelineStep ==
  ASSUME IInv, NEW r \in Requests, Ask(r) \/ Receive(r) \/ GiveUp(r)
  PROVE  IInv' /\ NewTwinsFresh
<1>1. TypeOK  BY DEF IInv
<1>2. CASE Ask(r)
  <2>1. PICK new : new \in Posts /\ posts' = posts \cup {new}
    BY <1>1, <1>2, AskPosts
  <2>3. TypeOK'
    <3>1. attempts[r] + 1 \in 0..MaxAttempts
      BY <1>1, <1>2, BoundsAssumption DEF Ask, TypeOK
    <3>. QED  BY <1>1, <1>2, <2>1, <3>1 DEF Ask, TypeOK, server
  <2>. QED  BY <1>2, <2>3, QuietStep DEF Ask
<1>3. CASE Receive(r)
  <2>1. TypeOK'  BY <1>1, <1>3 DEF Receive, TypeOK, server
  <2>. QED  BY <1>3, <2>1, QuietStep DEF Receive
<1>4. CASE GiveUp(r)
  <2>1. TypeOK'  BY <1>1, <1>4 DEF GiveUp, TypeOK, server
  <2>. QED  BY <1>4, <2>1, QuietStep DEF GiveUp
<1>. QED  BY <1>2, <1>3, <1>4

\* The invariant of the store is inductive.
LEMMA IInvStep == IInv /\ [Next]_vars => IInv' /\ NewTwinsFresh
<1>. SUFFICES ASSUME IInv, [Next]_vars PROVE IInv' /\ NewTwinsFresh  OBVIOUS
<1>1. CASE UNCHANGED vars
  <2>1. TypeOK' /\ UNCHANGED server
    BY <1>1 DEF vars, server, client, IInv, TypeOK
  <2>. QED  BY <2>1, QuietStep
<1>2. CASE Next
  BY <1>2, CreateStep, RefreshStep, ReadOnlyStep, RestartStep, PipelineStep DEF Next
<1>. QED  BY <1>1, <1>2

\* The invariant of the store holds in every state.
LEMMA IInvInvariant == Spec => []IInv
<1>. QED  BY IInvInit, IInvStep, PTL DEF Spec

---------------------------------------------------------------------------
(* The invariant of what posts make and what users are told.               *)

\* The places of the twins that a post made.
MadeBy(r, n) == {k \in DOMAIN store : store[k].by = [req |-> r, no |-> n]}

\* The ids of the twins that a request's posts made.
StoredFor(r) == {store[k].id : k \in {j \in DOMAIN store : store[j].by.req = r}}

\* A request's posts are numbered apart, and by its attempts.
PostsInv ==
  /\ \A p \in posts : p.no <= attempts[p.req]
  /\ \A p, q \in posts : p.req = q.req /\ p.no = q.no => p = q

\* A post that is on its way, or to come, has made nothing; one that was
\* handled, no more than it asks for.
MadeInv ==
  \A r \in Requests : \A n \in Nat \ {0} :
    /\ n > attempts[r] => MadeBy(r, n) = {}
    /\ (\E p \in posts : p.req = r /\ p.no = n) => MadeBy(r, n) = {}
    /\ Cardinality(MadeBy(r, n)) <= Len(wants[r].types)

\* What a reply a of this life of the orchestrator says was made, is stored.
ReplyOK(r, a) ==
  /\ a.life <= restarts
  /\ a.status = "success" /\ wants[r].op = "create" /\ a.life = restarts =>
       Cardinality(a.ids) = Len(wants[r].types) /\ a.ids \subseteq StoredFor(r)

RepliesInv == \A r \in Requests : ReplyOK(r, reply[r]) /\ ReplyOK(r, answer[r])

PostInv == IInv /\ PostsInv /\ MadeInv /\ RepliesInv

\* The places of the store.
LEMMA StorePlaces ==
  ASSUME TypeOK
  PROVE  /\ Len(store) \in Nat /\ DOMAIN store = 1..Len(store)
         /\ \A k \in DOMAIN store : store[k] \in Entries
BY LenProperties, ElementOfSeq DEF TypeOK

\* A creation adds its twins to the store, each with its post's mark.
LEMMA CreateStore ==
  ASSUME IInv, NEW p \in posts, Create(p), NEW i, i = wants[p.req]
  PROVE  /\ p.req \in Requests /\ p.no \in Nat \ {0} /\ i \in Creations
         /\ Completed(i) \in Nat /\ Completed(i) <= Len(i.types) /\ Len(i.types) \in Nat
         /\ DOMAIN store' = 1..Len(store) + Completed(i)
         /\ \A k \in DOMAIN store : k \in DOMAIN store' /\ store'[k] = store[k]
         /\ \A k \in 1..Completed(i) :
              /\ store'[Len(store) + k].id = NewIds(i.types)[k]
              /\ store'[Len(store) + k].by = [req |-> p.req, no |-> p.no]
<1>. DEFINE ids == NewIds(i.types)
            new == [k \in 1..Reach(i, p.data, "store") |-> Entry(p, i, ids[k])]
<1>1. /\ TypeOK /\ p \in Posts /\ p.data \in BOOLEAN /\ p.req \in Requests /\ i \in Creations
      /\ p.no \in Nat \ {0}
  <2>1. TypeOK /\ p \in Posts
    BY DEF IInv, TypeOK
  <2>2. p.data \in BOOLEAN /\ p.req \in Requests /\ p.no \in Nat \ {0}
    BY <2>1, BoundsAssumption DEF Posts
  <2>. QED  BY <2>1, <2>2 DEF TypeOK, Creations, Create
<1>2. /\ Completed(i) \in Nat /\ Len(i.types) \in Nat /\ Completed(i) <= Len(i.types)
      /\ Reach(i, p.data, "store") = Completed(i)
  BY <1>1, ReachFacts
<1>3. new \in Seq(Entries) /\ Len(new) = Completed(i) /\ \A k \in 1..Completed(i) : new[k].id = ids[k]
  BY <1>1, NewEntriesFacts
<1>4. \A k \in 1..Completed(i) : new[k].by = [req |-> p.req, no |-> p.no]
  BY <1>2 DEF Entry
<1>5. store' = store \o new /\ store \in Seq(Entries)
  BY <1>1 DEF Create, TypeOK
<1>. HIDE DEF new
<1>6. /\ store' \in Seq(Entries) /\ Len(store') = Len(store) + Completed(i)
      /\ \A k \in 1..Len(store) + Completed(i) :
           store'[k] = IF k <= Len(store) THEN store[k] ELSE new[k - Len(store)]
  <2>1. /\ store \o new \in Seq(Entries) /\ Len(store \o new) = Len(store) + Len(new)
        /\ \A k \in 1..Len(store) + Len(new) :
             (store \o new)[k] = IF k <= Len(store) THEN store[k] ELSE new[k - Len(store)]
    BY <1>3, <1>5, ConcatProperties
  <2>. QED  BY <1>3, <1>5, <2>1
<1>7. Len(store) \in Nat /\ DOMAIN store = 1..Len(store) /\ DOMAIN store' = 1..Len(store) + Completed(i)
  BY <1>5, <1>6, LenProperties
<1>8. \A k \in DOMAIN store : k \in DOMAIN store' /\ store'[k] = store[k]
  BY <1>2, <1>6, <1>7
<1>9. ASSUME NEW k \in 1..Completed(i) PROVE store'[Len(store) + k] = new[k]
  <2>1. Len(store) + k \in 1..Len(store) + Completed(i)
    BY <1>2, <1>7
  <2>2. ~(Len(store) + k <= Len(store)) /\ (Len(store) + k) - Len(store) = k
    BY <1>2, <1>7
  <2>. QED  BY <1>6, <2>1, <2>2
<1>. QED  BY <1>1, <1>2, <1>3, <1>4, <1>7, <1>8, <1>9

\* A refresh leaves every twin that is not found as it was, and of the others
\* their ids and marks.
LEMMA RefreshStore ==
  ASSUME TypeOK, NEW p \in posts, Refresh(p)
  PROVE  /\ DOMAIN store' = DOMAIN store
         /\ \A k \in DOMAIN store : store'[k].id = store[k].id /\ store'[k].by = store[k].by
         /\ \A k \in DOMAIN store : store'[k].name = store[k].name
         /\ \A k \in DOMAIN store : store'[k] # store[k] => k \in Found(wants[p.req])
<1>1. store' = [k \in DOMAIN store |->
                  IF k \in (IF p.data THEN Found(wants[p.req]) ELSE {})
                  THEN Refreshed(wants[p.req], p, store[k]) ELSE store[k]]
  BY DEF Refresh
<1>2. \A k \in DOMAIN store : store[k] \in Entries
  BY StorePlaces
<1>3. \A e \in Entries : LET new == Refreshed(wants[p.req], p, e) IN
        new.id = e.id /\ new.by = e.by /\ new.name = e.name
  BY DEF Refreshed, Entries
<1>4. ASSUME NEW k \in DOMAIN store
      PROVE  \/ store'[k] = store[k]
             \/ /\ k \in Found(wants[p.req])
                /\ store'[k] = Refreshed(wants[p.req], p, store[k])
  BY <1>1
<1>. QED  BY <1>1, <1>2, <1>3, <1>4

\* Of a default twin no post has the mark.
LEMMA SeedMarks ==
  \A r, n : n \in Nat \ {0} => {k \in DOMAIN SeedEntries : SeedEntries[k].by = [req |-> r, no |-> n]} = {}
<1>1. \A k \in DOMAIN SeedEntries : SeedEntries[k].by.no = 0
  BY DEF SeedEntries, NoReading
<1>. QED  BY <1>1

\* What is stored stays stored, and a reply that held still does, while the
\* orchestrator runs on.
LEMMA ReplyKept ==
  ASSUME NEW r, NEW a, ReplyOK(r, a), UNCHANGED <<wants, restarts>>,
         \A k \in DOMAIN store : /\ k \in DOMAIN store' /\ store'[k].id = store[k].id
                                 /\ store'[k].by = store[k].by
  PROVE  ReplyOK(r, a)'
<1>1. StoredFor(r) \subseteq StoredFor(r)'
  BY DEF StoredFor
<1>. QED  BY <1>1 DEF ReplyOK

\* Replies, when nobody is told anything new but r.
LEMMA RepliesStep ==
  ASSUME TypeOK, RepliesInv, UNCHANGED <<wants, restarts, answer>>,
         \A k \in DOMAIN store : /\ k \in DOMAIN store' /\ store'[k].id = store[k].id
                                 /\ store'[k].by = store[k].by,
         NEW R, reply' = R,
         \A r \in Requests : R[r] = reply[r] \/ R[r] = NoReply \/ ReplyOK(r, R[r])'
  PROVE  RepliesInv'
<1>. SUFFICES ASSUME NEW r \in Requests PROVE ReplyOK(r, reply[r])' /\ ReplyOK(r, answer[r])'
  BY DEF RepliesInv
<1>1. PICK a, b, c : a = reply[r] /\ b = answer[r] /\ c = R[r]
  OBVIOUS
<1>2. ReplyOK(r, a) /\ ReplyOK(r, b)
  BY <1>1 DEF RepliesInv
<1>3. ReplyOK(r, a)' /\ ReplyOK(r, b)'
  BY <1>2, ReplyKept
<1>4. ReplyOK(r, NoReply)'
  BY BoundsAssumption DEF ReplyOK, NoReply, TypeOK
<1>5. ReplyOK(r, c)'
  BY <1>1, <1>3, <1>4 DEF ReplyOK
<1>. QED  BY <1>1, <1>3, <1>5 DEF ReplyOK

\* One place has a post's mark for each twin it made.
LEMMA CreateMade ==
  ASSUME IInv, NEW p \in posts, Create(p), NEW r, NEW n
  PROVE  MadeBy(r, n)' = IF r = p.req /\ n = p.no
                         THEN MadeBy(r, n) \cup (Len(store) + 1..Len(store) + Completed(wants[p.req]))
                         ELSE MadeBy(r, n)
<1>1. PICK i, c : i = wants[p.req] /\ c = Completed(i)
  OBVIOUS
<1>2. /\ c \in Nat /\ Len(store) \in Nat
      /\ DOMAIN store = 1..Len(store) /\ DOMAIN store' = 1..Len(store) + c
      /\ \A k \in DOMAIN store : k \in DOMAIN store' /\ store'[k] = store[k]
      /\ \A k \in 1..c : store'[Len(store) + k].by = [req |-> p.req, no |-> p.no]
  <2>1. /\ Completed(i) \in Nat /\ DOMAIN store' = 1..Len(store) + Completed(i)
        /\ \A k \in DOMAIN store : k \in DOMAIN store' /\ store'[k] = store[k]
        /\ \A k \in 1..Completed(i) : store'[Len(store) + k].by = [req |-> p.req, no |-> p.no]
    BY <1>1, CreateStore, Zenon
  <2>2. Len(store) \in Nat /\ DOMAIN store = 1..Len(store)
    BY StorePlaces DEF IInv
  <2>. QED  BY <1>1, <2>1, <2>2
<1>3. \A k \in Len(store) + 1..Len(store) + c :
        /\ k \in DOMAIN store' /\ k \notin DOMAIN store
        /\ store'[k].by = [req |-> p.req, no |-> p.no]
  <2>. TAKE k \in Len(store) + 1..Len(store) + c
  <2>1. k - Len(store) \in 1..c /\ Len(store) + (k - Len(store)) = k
    BY <1>2
  <2>2. store'[k].by = [req |-> p.req, no |-> p.no]
    BY <1>2, <2>1
  <2>. QED  BY <1>2, <2>2
<1>4. \A k \in DOMAIN store' : k \in DOMAIN store \/ k \in Len(store) + 1..Len(store) + c
  BY <1>2
<1>5. MadeBy(r, n)' = {k \in DOMAIN store' : store'[k].by = [req |-> r, no |-> n]}
  BY DEF MadeBy
<1>6. CASE r = p.req /\ n = p.no
  <2>1. \A k : k \in MadeBy(r, n)' <=> k \in MadeBy(r, n) \cup (Len(store) + 1..Len(store) + c)
    BY <1>2, <1>3, <1>4, <1>5, <1>6 DEF MadeBy
  <2>. QED  BY <1>1, <1>6, <2>1
<1>7. CASE ~(r = p.req /\ n = p.no)
  <2>1. [req |-> p.req, no |-> p.no] # [req |-> r, no |-> n]
    BY <1>7
  <2>2. \A k : k \in MadeBy(r, n)' <=> k \in MadeBy(r, n)
    BY <1>2, <1>3, <1>4, <1>5, <2>1 DEF MadeBy
  <2>. QED  BY <1>7, <2>2
<1>. QED  BY <1>6, <1>7

\* The ids of a creation are as many as it asks for.
LEMMA NewIdsCount ==
  ASSUME NEW types \in Seq(Types), counter \in Nat
  PROVE  Cardinality(FirstOf(NewIds(types), Len(types))) = Len(types)
<1>1. PICK ids, m : ids = NewIds(types) /\ m = Len(types)
  OBVIOUS
<1>2. /\ m \in Nat /\ DOMAIN ids = 1..m /\ \A k \in 1..m : ids[k].n = counter + k
  BY <1>1, NewIdsFacts, LenProperties
<1>3. PICK D, F : D = 1..m /\ F = FirstOf(ids, m)
  OBVIOUS
<1>4. F = {ids[k] : k \in D}
  BY <1>2, <1>3 DEF FirstOf
<1>5. ids \in Bijection(D, F)
  <2>1. ids \in [D -> F]
    BY <1>1, <1>2, <1>3, <1>4, NewIdsFacts
  <2>2. \A j, k \in D : ids[j] = ids[k] => j = k
    BY <1>2, <1>3
  <2>3. \A f \in F : \E k \in D : ids[k] = f
    BY <1>4
  <2>. QED  BY <2>1, <2>2, <2>3 DEF Bijection, Injection, Surjection, IsInjective
<1>6. IsFiniteSet(D) /\ Cardinality(D) = m
  <2>1. 1 \in Int /\ m \in Int /\ (1 > m => m = 0)
    BY <1>2
  <2>2. IsFiniteSet(D) /\ Cardinality(D) = IF 1 > m THEN 0 ELSE m - 1 + 1
    BY <1>3, <2>1, FS_Interval
  <2>. QED  BY <1>2, <2>1, <2>2
<1>7. Cardinality(F) = Cardinality(D)
  BY <1>5, <1>6, FS_Bijection DEF ExistsBijection
<1>. QED  BY <1>1, <1>3, <1>6, <1>7

\* Steps that take a post away, or none, and leave the marks alone.
LEMMA MarksKept ==
  ASSUME PostsInv, MadeInv, UNCHANGED <<wants, attempts>>,
         posts' \subseteq posts \/ \E kept \in SUBSET posts : posts' = {Nameless(p) : p \in kept},
         \A r \in Requests : \A n \in Nat \ {0} : MadeBy(r, n)' = MadeBy(r, n) \/ MadeBy(r, n)' = {},
         TypeOK
  PROVE  PostsInv' /\ MadeInv'
<1>0. \A q \in posts' : \E p \in posts : p.req = q.req /\ p.no = q.no
  <2>1. \A p \in posts : Nameless(p).req = p.req /\ Nameless(p).no = p.no
    BY NamelessFacts DEF TypeOK
  <2>2. ASSUME NEW kept \in SUBSET posts, posts' = {Nameless(p) : p \in kept}
        PROVE  \A q \in posts' : \E p \in posts : p.req = q.req /\ p.no = q.no
    BY <2>1, <2>2
  <2>. QED  BY <2>2
<1>1. PostsInv'
  <2>1. CASE posts' \subseteq posts
    BY <2>1 DEF PostsInv
  <2>2. ASSUME NEW kept \in SUBSET posts, posts' = {Nameless(p) : p \in kept} PROVE PostsInv'
    <3>1. ASSUME NEW p \in kept, NEW q \in kept,
                 Nameless(p).req = Nameless(q).req, Nameless(p).no = Nameless(q).no
          PROVE  p = q
      BY <3>1, NamelessFacts DEF PostsInv, TypeOK
    <3>2. \A p \in posts : p.no <= attempts'[p.req]
      BY DEF PostsInv
    <3>3. \A q \in posts' : q.no <= attempts'[q.req]
      BY <1>0, <3>2
    <3>. QED  BY <2>2, <3>1, <3>3 DEF PostsInv
  <2>. QED  BY <2>1, <2>2
<1>2. Cardinality({}) = 0
  BY FS_EmptySet
<1>3. \A r \in Requests : 0 <= Len(wants[r].types)
  <2>. TAKE r \in Requests
  <2>1. PICK i : i = wants[r]
    OBVIOUS
  <2>2. i.types \in Seq(Types)
    BY <2>1, IntentsAssumption DEF TypeOK
  <2>3. Len(i.types) \in Nat
    BY <2>2, LenProperties
  <2>. QED  BY <2>1, <2>3
<1>4. ASSUME NEW r \in Requests, NEW n \in Nat \ {0}
      PROVE  /\ n > attempts'[r] => MadeBy(r, n)' = {}
             /\ (\E p \in posts' : p.req = r /\ p.no = n) => MadeBy(r, n)' = {}
             /\ Cardinality(MadeBy(r, n)') <= Len(wants'[r].types)
  <2>1. CASE MadeBy(r, n)' = MadeBy(r, n)
    BY <1>0, <2>1 DEF MadeInv
  <2>2. CASE MadeBy(r, n)' = {}
    <3>1. Cardinality(MadeBy(r, n)') = 0
      BY <1>2, <2>2, Zenon
    <3>. QED  BY <1>3, <2>2, <3>1
  <2>. QED  BY <2>1, <2>2
<1>. QED  BY <1>1, <1>4 DEF MadeInv

\* A creation: its post made nothing before, and makes no more after.
LEMMA PostCreate ==
  ASSUME PostInv, NEW p \in posts, Create(p)
  PROVE  PostInv'
<1>1. IInv /\ TypeOK /\ PostsInv /\ MadeInv /\ RepliesInv
  BY DEF PostInv, IInv
<1>2. PICK i, c : i = wants[p.req] /\ c = Completed(i)
  OBVIOUS
<1>3. /\ p.req \in Requests /\ p.no \in Nat \ {0} /\ i \in Creations
      /\ c \in Nat /\ c <= Len(i.types) /\ Len(i.types) \in Nat
      /\ \A k \in DOMAIN store : k \in DOMAIN store' /\ store'[k] = store[k]
      /\ DOMAIN store' = 1..Len(store) + c
      /\ \A k \in 1..c : /\ store'[Len(store) + k].id = NewIds(i.types)[k]
                         /\ store'[Len(store) + k].by = [req |-> p.req, no |-> p.no]
  <2>1. IInv /\ i = wants[p.req] /\ wants[p.req] = i
    BY <1>1, <1>2
  <2>2. /\ p.req \in Requests /\ p.no \in Nat \ {0} /\ i \in Creations
        /\ Completed(i) \in Nat /\ Completed(i) <= Len(i.types) /\ Len(i.types) \in Nat
        /\ \A k \in DOMAIN store : k \in DOMAIN store' /\ store'[k] = store[k]
        /\ DOMAIN store' = 1..Len(store) + Completed(i)
        /\ \A k \in 1..Completed(i) :
             /\ store'[Len(store) + k].id = NewIds(i.types)[k]
             /\ store'[Len(store) + k].by = [req |-> p.req, no |-> p.no]
    BY <2>1, CreateStore
  <2>. QED  BY <1>2, <2>2, Zenon
<1>4. /\ posts' = posts \ {p} /\ UNCHANGED <<wants, phase, attempts, answer, restarts>>
      /\ reply' = Replied(p, Status(i), IF Status(i) = "success"
                            THEN FirstOf(NewIds(i.types), Len(NewIds(i.types))) ELSE {})
  BY <1>2 DEF Create, Consumed, client
<1>5. IInv'
  BY <1>1, CreateStep
<1>6. PostsInv'
  BY <1>1, <1>4 DEF PostsInv
<1>7. MadeInv'
  <2>. SUFFICES ASSUME NEW r \in Requests, NEW n \in Nat \ {0}
                PROVE  /\ n > attempts[r] => MadeBy(r, n)' = {}
                       /\ (\E q \in posts \ {p} : q.req = r /\ q.no = n) => MadeBy(r, n)' = {}
                       /\ Cardinality(MadeBy(r, n)') <= Len(wants[r].types)
    BY <1>4 DEF MadeInv
  <2>1. CASE r = p.req /\ n = p.no
    <3>1. MadeBy(r, n) = {}
      BY <1>1, <2>1 DEF MadeInv
    <3>2. ~(n > attempts[r])
      <4>1. n <= attempts[r]
        BY <1>1, <2>1 DEF PostsInv
      <4>2. attempts[r] \in Nat
        BY <1>1, BoundsAssumption DEF TypeOK
      <4>. QED  BY <4>1, <4>2
    <3>3. ~(\E q \in posts \ {p} : q.req = r /\ q.no = n)
      BY <1>1, <2>1 DEF PostsInv
    <3>4. MadeBy(r, n)' = Len(store) + 1..Len(store) + c
      BY <1>1, <1>2, <2>1, <3>1, CreateMade
    <3>5. Cardinality(Len(store) + 1..Len(store) + c) = c
      <4>1. PICK a, b : a = Len(store) + 1 /\ b = Len(store) + c
        OBVIOUS
      <4>2. a \in Int /\ b \in Int /\ b - a + 1 = c /\ (a > b => c = 0)
        BY <1>1, <1>3, <4>1, StorePlaces
      <4>3. Cardinality(a..b) = IF a > b THEN 0 ELSE b - a + 1
        BY <4>2, FS_Interval
      <4>. QED  BY <4>1, <4>2, <4>3
    <3>6. Cardinality(MadeBy(r, n)') = c
      BY <3>4, <3>5, Zenon
    <3>. QED  BY <1>2, <1>3, <2>1, <3>2, <3>3, <3>6
  <2>2. CASE ~(r = p.req /\ n = p.no)
    <3>1. MadeBy(r, n)' = MadeBy(r, n)
      BY <1>1, <2>2, CreateMade
    <3>. QED  BY <1>1, <3>1 DEF MadeInv
  <2>. QED  BY <2>1, <2>2
<1>8. RepliesInv'
  <2>1. \A k \in DOMAIN store : /\ k \in DOMAIN store' /\ store'[k].id = store[k].id
                                /\ store'[k].by = store[k].by
    BY <1>3
  <2>2. PICK R : R = reply'
    OBVIOUS
  <2>3. PICK said : said = [status |-> Status(i),
                            ids |-> IF Status(i) = "success"
                                    THEN FirstOf(NewIds(i.types), Len(NewIds(i.types))) ELSE {},
                            life |-> restarts]
    OBVIOUS
  <2>4. \A r \in Requests : R[r] = reply[r] \/ (r = p.req /\ R[r] = said)
    BY <1>1, <1>4, <2>2, <2>3 DEF Replied, TypeOK
  <2>5. ReplyOK(p.req, said)'
    <3>1. said.life = restarts /\ restarts \in Nat /\ restarts' = restarts
      BY <1>1, <1>4, <2>3, BoundsAssumption DEF TypeOK
    <3>2. ASSUME said.status = "success"
          PROVE  Cardinality(said.ids) = Len(i.types) /\ said.ids \subseteq StoredFor(p.req)'
      <4>1. Status(i) = "success" /\ i.flaw = "none" /\ c = Len(i.types)
        BY <1>2, <2>3, <3>2 DEF Status, Completed
      <4>2. /\ Len(NewIds(i.types)) = Len(i.types) /\ DOMAIN NewIds(i.types) = 1..Len(i.types)
            /\ i.types \in Seq(Types) /\ counter \in Nat
        <5>1. i.types \in Seq(Types) /\ counter \in Nat
          BY <1>1, <1>3, IntentsAssumption DEF Creations, TypeOK
        <5>. QED  BY <5>1, NewIdsFacts
      <4>3. said.ids = FirstOf(NewIds(i.types), Len(i.types))
        BY <2>3, <4>1, <4>2
      <4>4. Cardinality(said.ids) = Len(i.types)
        BY <4>2, <4>3, NewIdsCount
      <4>5. ASSUME NEW id \in said.ids PROVE id \in StoredFor(p.req)'
        <5>1. PICK k \in 1..Len(i.types) : id = NewIds(i.types)[k]
          BY <4>2, <4>3 DEF FirstOf
        <5>2. PICK m : m = Len(store) + k
          OBVIOUS
        <5>3. m \in DOMAIN store' /\ store'[m].id = id /\ store'[m].by.req = p.req
          <6>1. m \in 1..Len(store) + c
            BY <1>1, <1>3, <4>1, <5>2, StorePlaces
          <6>. QED  BY <1>3, <4>1, <5>1, <5>2, <6>1
        <5>. QED  BY <5>3 DEF StoredFor
      <4>. QED  BY <4>4, <4>5
    <3>. QED  BY <1>2, <1>4, <3>1, <3>2 DEF ReplyOK
  <2>6. \A r \in Requests : R[r] = reply[r] \/ R[r] = NoReply \/ ReplyOK(r, R[r])'
    BY <2>4, <2>5
  <2>. QED  BY <1>1, <1>4, <2>1, <2>2, <2>6, RepliesStep
<1>. QED  BY <1>5, <1>6, <1>7, <1>8 DEF PostInv

\* A post that creates nothing.
LEMMA PostOther ==
  ASSUME PostInv, NEW p \in posts, Refresh(p) \/ ReadOnly(p)
  PROVE  PostInv'
<1>1. IInv /\ TypeOK /\ PostsInv /\ MadeInv /\ RepliesInv
  BY DEF PostInv, IInv
<1>2. IInv'
  BY <1>1, RefreshStep, ReadOnlyStep
<1>3. /\ posts' = posts \ {p} /\ UNCHANGED <<wants, phase, attempts, answer, restarts>>
      /\ wants[p.req].op # "create"
  BY DEF Refresh, ReadOnly, Consumed, client
<1>4. PICK status : reply' = Replied(p, status, {})
  BY DEF Refresh, ReadOnly
<1>5. /\ DOMAIN store' = DOMAIN store
      /\ \A k \in DOMAIN store : store'[k].id = store[k].id /\ store'[k].by = store[k].by
  <2>1. CASE Refresh(p)
    BY <1>1, <2>1, RefreshStore
  <2>2. CASE ReadOnly(p)
    BY <2>2 DEF ReadOnly, server
  <2>. QED  BY <2>1, <2>2
<1>6. PostsInv' /\ MadeInv'
  <2>1. \A r \in Requests : \A n \in Nat \ {0} : MadeBy(r, n)' = MadeBy(r, n)
    BY <1>5 DEF MadeBy
  <2>2. posts' \subseteq posts
    BY <1>3
  <2>. QED  BY <1>1, <1>3, <2>1, <2>2, MarksKept
<1>7. RepliesInv'
  <2>1. PICK R, said : R = reply' /\ said = [status |-> status, ids |-> {}, life |-> restarts]
    OBVIOUS
  <2>2. \A r \in Requests : R[r] = reply[r] \/ (r = p.req /\ R[r] = said)
    BY <1>1, <1>4, <2>1 DEF Replied, TypeOK
  <2>3. said.life = restarts /\ restarts \in Nat
    BY <1>1, <2>1, BoundsAssumption DEF TypeOK
  <2>4. ReplyOK(p.req, said)'
    BY <1>3, <2>3 DEF ReplyOK
  <2>5. \A r \in Requests : R[r] = reply[r] \/ R[r] = NoReply \/ ReplyOK(r, R[r])'
    BY <2>2, <2>4
  <2>. QED  BY <1>1, <1>3, <1>5, <2>1, <2>5, RepliesStep
<1>. QED  BY <1>2, <1>6, <1>7 DEF PostInv

\* After a restart no reply is of this life, and the store has no post's mark.
LEMMA PostRestart ==
  ASSUME PostInv, Restart
  PROVE  PostInv'
<1>1. IInv /\ TypeOK /\ PostsInv /\ MadeInv /\ RepliesInv
  BY DEF PostInv, IInv
<1>2. IInv'
  BY <1>1, RestartStep
<1>3. /\ UNCHANGED <<reply, wants, phase, attempts, answer>>
      /\ restarts' = restarts + 1 /\ store' = SeedEntries /\ restarts \in Nat
  BY <1>1, BoundsAssumption DEF Restart, client, TypeOK
<1>4. PostsInv' /\ MadeInv'
  <2>0. \E kept \in SUBSET posts : posts' = {Nameless(p) : p \in kept}
    BY DEF Restart
  <2>1. \A r \in Requests : \A n \in Nat \ {0} : MadeBy(r, n)' = {}
    BY <1>3, SeedMarks DEF MadeBy
  <2>. QED  BY <1>1, <1>3, <2>0, <2>1, MarksKept
<1>5. RepliesInv'
  <2>. SUFFICES ASSUME NEW r \in Requests PROVE ReplyOK(r, reply[r])' /\ ReplyOK(r, answer[r])'
    BY DEF RepliesInv
  <2>1. reply[r].life <= restarts /\ answer[r].life <= restarts
    BY <1>1 DEF RepliesInv, ReplyOK
  <2>2. reply[r].life \in Nat /\ answer[r].life \in Nat
    BY <1>1, BoundsAssumption DEF TypeOK, Answers, NoReply
  <2>3. /\ reply[r].life <= restarts + 1 /\ reply[r].life # restarts + 1
        /\ answer[r].life <= restarts + 1 /\ answer[r].life # restarts + 1
    BY <1>3, <2>1, <2>2
  <2>. QED  BY <1>3, <2>3 DEF ReplyOK
<1>. QED  BY <1>2, <1>4, <1>5 DEF PostInv

\* A pipeline asks with a number that no post had.
LEMMA PostPipeline ==
  ASSUME PostInv, NEW r \in Requests, Ask(r) \/ Receive(r) \/ GiveUp(r)
  PROVE  PostInv'
<1>1. IInv /\ TypeOK /\ PostsInv /\ MadeInv /\ RepliesInv
  BY DEF PostInv, IInv
<1>2. IInv'
  BY <1>1, PipelineStep
<1>3. UNCHANGED <<store, wants, restarts>>
  BY DEF Ask, Receive, GiveUp, server
<1>4. PostsInv' /\ MadeInv'
  <2>1. CASE Ask(r)
    <3>1. PICK new, m : m = attempts[r] + 1 /\ posts' = posts \cup {new} /\ new.req = r /\ new.no = m
      BY <1>1, <2>1, AskPosts
    <3>2. /\ \A q \in Requests : attempts'[q] = IF q = r THEN m ELSE attempts[q]
          /\ \A q \in Requests : attempts[q] \in Nat
      BY <1>1, <2>1, <3>1, BoundsAssumption DEF Ask, TypeOK
    <3>3. \A p \in posts : p.req \in Requests /\ p.no \in Nat /\ p.no <= attempts[p.req]
      BY <1>1, BoundsAssumption DEF TypeOK, Posts, PostsInv
    <3>4. PostsInv'
      <4>1. ASSUME NEW p \in posts' PROVE p.no <= attempts'[p.req]
        <5>1. CASE p \in posts
          BY <3>1, <3>2, <3>3, <5>1
        <5>2. CASE p = new
          BY <3>1, <3>2, <5>2
        <5>. QED  BY <3>1, <5>1, <5>2
      <4>2. \A p \in posts : ~(p.req = new.req /\ p.no = new.no)
        BY <3>1, <3>2, <3>3
      <4>3. ASSUME NEW p \in posts', NEW q \in posts', p.req = q.req, p.no = q.no PROVE p = q
        BY <1>1, <3>1, <4>2, <4>3 DEF PostsInv
      <4>. QED  BY <4>1, <4>3 DEF PostsInv
    <3>5. MadeInv'
      <4>. SUFFICES ASSUME NEW q \in Requests, NEW n \in Nat \ {0}
                    PROVE  /\ n > attempts'[q] => MadeBy(q, n) = {}
                           /\ (\E p \in posts' : p.req = q /\ p.no = n) => MadeBy(q, n) = {}
                           /\ Cardinality(MadeBy(q, n)) <= Len(wants[q].types)
        BY <1>3 DEF MadeInv, MadeBy
      <4>1. /\ n > attempts[q] => MadeBy(q, n) = {}
            /\ (\E p \in posts : p.req = q /\ p.no = n) => MadeBy(q, n) = {}
            /\ Cardinality(MadeBy(q, n)) <= Len(wants[q].types)
        BY <1>1 DEF MadeInv
      <4>2. n > attempts'[q] => n > attempts[q]
        BY <3>1, <3>2
      <4>3. new.req = q /\ new.no = n => n > attempts[q]
        BY <3>1, <3>2
      <4>. QED  BY <3>1, <4>1, <4>2, <4>3
    <3>. QED  BY <3>4, <3>5
  <2>2. CASE Receive(r) \/ GiveUp(r)
    <3>1. UNCHANGED <<posts, attempts>>
      BY <2>2 DEF Receive, GiveUp
    <3>2. \A q \in Requests : \A n \in Nat \ {0} : MadeBy(q, n)' = MadeBy(q, n)
      BY <1>3 DEF MadeBy
    <3>. QED  BY <1>1, <1>3, <3>1, <3>2, MarksKept
  <2>. QED  BY <2>1, <2>2
<1>5. RepliesInv'
  <2>. SUFFICES ASSUME NEW q \in Requests PROVE ReplyOK(q, reply[q])' /\ ReplyOK(q, answer[q])'
    BY DEF RepliesInv
  <2>1. PICK a, b, c, d : a = reply[q] /\ b = answer[q] /\ c = reply'[q] /\ d = answer'[q]
    OBVIOUS
  <2>2. c \in {a, NoReply} /\ d \in {a, b}
    BY <1>1, <2>1 DEF Ask, Receive, GiveUp, TypeOK
  <2>3. ReplyOK(q, a) /\ ReplyOK(q, b) /\ ReplyOK(q, NoReply)
    <3>1. ReplyOK(q, NoReply)
      BY <1>1, BoundsAssumption DEF ReplyOK, NoReply, TypeOK
    <3>. QED  BY <1>1, <2>1, <3>1 DEF RepliesInv
  <2>4. ReplyOK(q, c) /\ ReplyOK(q, d)
    BY <2>2, <2>3
  <2>5. ReplyOK(q, c)' /\ ReplyOK(q, d)'
    BY <1>3, <2>4, ReplyKept
  <2>. QED  BY <2>1, <2>5 DEF ReplyOK
<1>. QED  BY <1>2, <1>4, <1>5 DEF PostInv

\* The invariant of the posts holds initially.
LEMMA PostInit == Init => PostInv
<1>. SUFFICES ASSUME Init PROVE PostInv  OBVIOUS
<1>1. IInv /\ TypeOK
  BY IInvInit DEF IInv
<1>2. store = SeedEntries /\ posts = {} /\ restarts = 0
      /\ \A r \in Requests : reply[r] = NoReply /\ answer[r] = NoReply
  BY DEF Init
<1>3. PostsInv
  BY <1>2 DEF PostsInv
<1>4. MadeInv
  <2>. SUFFICES ASSUME NEW r \in Requests, NEW n \in Nat \ {0}
                PROVE  MadeBy(r, n) = {} /\ Cardinality(MadeBy(r, n)) <= Len(wants[r].types)
    BY DEF MadeInv
  <2>1. MadeBy(r, n) = {}
    BY <1>2, SeedMarks DEF MadeBy
  <2>2. Cardinality({}) = 0
    BY FS_EmptySet
  <2>3. PICK i : i = wants[r]
    OBVIOUS
  <2>4. i.types \in Seq(Types)
    BY <1>1, <2>3, IntentsAssumption DEF TypeOK
  <2>5. Len(i.types) \in Nat
    BY <2>4, LenProperties
  <2>6. Cardinality(MadeBy(r, n)) = 0
    BY <2>1, <2>2, Zenon
  <2>. QED  BY <2>1, <2>3, <2>5, <2>6
<1>5. RepliesInv
  BY <1>2 DEF RepliesInv, ReplyOK, NoReply
<1>. QED  BY <1>1, <1>3, <1>4, <1>5 DEF PostInv

\* The invariant of the posts is inductive.
LEMMA PostStep == PostInv /\ [Next]_vars => PostInv'
<1>. SUFFICES ASSUME PostInv, [Next]_vars PROVE PostInv'  OBVIOUS
<1>1. CASE UNCHANGED vars
  <2>1. IInv'
    BY IInvStep DEF PostInv
  <2>2. UNCHANGED <<store, posts, reply, wants, attempts, answer, restarts>>
    BY <1>1 DEF vars, server, client
  <2>3. PostsInv'
    BY <2>2 DEF PostInv, PostsInv
  <2>4. MadeInv'
    BY <2>2 DEF PostInv, MadeInv, MadeBy
  <2>5. RepliesInv'
    BY <2>2 DEF PostInv, RepliesInv, ReplyOK, StoredFor
  <2>. QED  BY <2>1, <2>3, <2>4, <2>5 DEF PostInv
<1>2. CASE Next
  BY <1>2, PostCreate, PostOther, PostRestart, PostPipeline DEF Next
<1>. QED  BY <1>1, <1>2

\* The invariant of the posts holds in every state.
LEMMA PostInvariant == Spec => []PostInv
<1>. QED  BY PostInit, PostStep, PTL DEF Spec

---------------------------------------------------------------------------
(* The invariant of what targets name.                                     *)

\* The twin that a target named when its user asked is the one it names still,
\* unless a twin of exactly that id is there.
NamedInv ==
  \A p \in posts :
    LET i == wants[p.req]
    IN  p.named # {} /\ Exact(i) = {} => p.named = Named(i)

\* While twins keep their places, ids and names and new ones come after them,
\* a target that named one names it still.
LEMMA NamedKept ==
  ASSUME TypeOK, TypeOK', NEW i, Named(i) # {}, Exact(i)' = {},
         \A k \in DOMAIN store : /\ k \in DOMAIN store' /\ store'[k].id = store[k].id
                                 /\ store'[k].name = store[k].name,
         \A k \in DOMAIN store' \ DOMAIN store, j \in DOMAIN store : j < k
  PROVE  Exact(i) = {} /\ Named(i)' = Named(i)
<1>1. Exact(i) = {}
  BY DEF Exact
<1>2. /\ \A k \in Found(i) : k \in Partial(i) /\ \A j \in Partial(i) : k <= j
      /\ Partial(i) \in SUBSET Nat
  BY <1>1, FoundFacts
<1>3. PICK k \in DOMAIN store : k \in Found(i)
  BY FoundFacts DEF Named
<1>4. Found(i) = {k} /\ k = Earliest(Partial(i)) /\ Partial(i) # {}
  BY <1>1, <1>3 DEF Found
<1>5. k \in Partial(i)'
  BY <1>2, <1>3 DEF Partial
<1>6. \A j \in Partial(i)' : k <= j
  <2>. TAKE j \in Partial(i)'
  <2>1. j \in DOMAIN store' /\ j \in Nat /\ k \in Nat
    BY <1>2, <1>3, LenProperties DEF Partial, TypeOK
  <2>2. CASE j \in DOMAIN store
    <3>1. j \in Partial(i)
      BY <2>2 DEF Partial
    <3>. QED  BY <1>2, <1>3, <3>1
  <2>3. CASE j \notin DOMAIN store
    <3>1. k < j
      BY <1>3, <2>1, <2>3
    <3>. QED  BY <2>1, <3>1
  <2>. QED  BY <2>2, <2>3
<1>7. Partial(i)' \in SUBSET Nat
  BY LenProperties DEF Partial, TypeOK
<1>8. PICK S \in SUBSET Nat : S = Partial(i)'
  BY <1>7
<1>9. Earliest(S) \in S /\ \A j \in S : Earliest(S) <= j
  BY <1>5, <1>8, EarliestFacts
<1>10. Earliest(S) = k
  BY <1>5, <1>6, <1>8, <1>9
<1>11. Found(i)' = {k}
  BY <1>5, <1>8, <1>10 DEF Found, Earliest
<1>12. store'[k].id = store[k].id
  BY <1>3
<1>13. Named(i)' = {store'[k].id}
  BY <1>11 DEF Named
<1>14. Named(i) = {store[k].id}
  BY <1>4 DEF Named
<1>. QED  BY <1>1, <1>12, <1>13, <1>14

\* What a post named stays named by steps that keep the twins of the store.
LEMMA NamedInvKept ==
  ASSUME TypeOK, TypeOK', NamedInv, UNCHANGED wants,
         \A k \in DOMAIN store : /\ k \in DOMAIN store' /\ store'[k].id = store[k].id
                                 /\ store'[k].name = store[k].name,
         \A k \in DOMAIN store' \ DOMAIN store, j \in DOMAIN store : j < k,
         \A p \in posts' : \/ p \in posts
                           \/ p.named = {}
                           \/ p.named = Named(wants[p.req])
  PROVE  NamedInv'
<1>. SUFFICES ASSUME NEW p \in posts', NEW i, i = wants[p.req], p.named # {}, Exact(i)' = {}
              PROVE  p.named = Named(i)'
  BY DEF NamedInv
<1>1. Exact(i) = {}
  BY DEF Exact
<1>2. p.named = Named(i)
  BY <1>1 DEF NamedInv
<1>. QED  BY <1>2, NamedKept

\* What targets named is an invariant.
LEMMA NamedStep == IInv /\ IInv' /\ NamedInv /\ [Next]_vars => NamedInv'
<1>. SUFFICES ASSUME IInv, IInv', NamedInv, [Next]_vars PROVE NamedInv'
  OBVIOUS
<1>1. TypeOK /\ TypeOK'
  BY DEF IInv
<1>2. ASSUME NEW p \in posts, Create(p) PROVE NamedInv'
  <2>1. PICK i : i = wants[p.req]
    OBVIOUS
  <2>2. /\ Completed(i) \in Nat
        /\ DOMAIN store' = 1..Len(store) + Completed(i)
        /\ \A k \in DOMAIN store : k \in DOMAIN store' /\ store'[k] = store[k]
    BY <1>2, <2>1, CreateStore
  <2>3. Len(store) \in Nat /\ DOMAIN store = 1..Len(store)
    BY <1>1, StorePlaces
  <2>4. \A k \in DOMAIN store' \ DOMAIN store, j \in DOMAIN store : j < k
    BY <2>2, <2>3
  <2>5. posts' \subseteq posts /\ UNCHANGED wants
    BY <1>2 DEF Create, Consumed, client
  <2>. QED  BY <1>1, <2>2, <2>4, <2>5, NamedInvKept
<1>3. ASSUME NEW p \in posts, Refresh(p) PROVE NamedInv'
  <2>1. posts' \subseteq posts /\ UNCHANGED wants
    BY <1>3 DEF Refresh, Consumed, client
  <2>. QED  BY <1>1, <1>3, <2>1, RefreshStore, NamedInvKept
<1>4. CASE Restart
  <2>1. \A p \in posts' : p.named = {}
    BY <1>1, <1>4, NamelessFacts DEF Restart, TypeOK
  <2>. QED  BY <2>1 DEF NamedInv
<1>5. ASSUME UNCHANGED <<store, wants>>,
             \A p \in posts' : p \in posts \/ p.named = {} \/ p.named = Named(wants[p.req])
      PROVE  NamedInv'
  BY <1>1, <1>5, NamedInvKept
<1>6. ASSUME NEW p \in posts, ReadOnly(p) PROVE NamedInv'
  <2>1. UNCHANGED <<store, wants>> /\ posts' \subseteq posts
    BY <1>6 DEF ReadOnly, Consumed, server, client
  <2>. QED  BY <1>5, <2>1
<1>7. ASSUME NEW r \in Requests, Ask(r) \/ Receive(r) \/ GiveUp(r) PROVE NamedInv'
  <2>1. UNCHANGED <<store, wants>>
    BY <1>7 DEF Ask, Receive, GiveUp, server
  <2>2. CASE Ask(r)
    <3>1. PICK new : /\ posts' = posts \cup {new} /\ new.req = r
                     /\ new.named = {} \/ new.named = Named(wants[r])
      BY <1>1, <2>2, AskPosts
    <3>. QED  BY <1>5, <2>1, <3>1
  <2>3. CASE Receive(r) \/ GiveUp(r)
    <3>1. UNCHANGED posts
      BY <2>3 DEF Receive, GiveUp
    <3>. QED  BY <1>5, <2>1, <3>1
  <2>. QED  BY <1>7, <2>2, <2>3
<1>8. CASE UNCHANGED vars
  BY <1>5, <1>8 DEF vars, server, client
<1>. QED  BY <1>2, <1>3, <1>4, <1>6, <1>7, <1>8 DEF Next

\* Initially no post is under way.
LEMMA NamedInvariant == Spec => []NamedInv
<1>1. Init => NamedInv
  BY DEF Init, NamedInv
<1>. QED  BY <1>1, NamedStep, IInvInvariant, PTL DEF Spec

\* A twin changes by no step of this life but a refresh that finds it.
LEMMA ChangedStep ==
  ASSUME IInv, Next, restarts' = restarts, NEW p \in posts \ posts', NEW k \in DOMAIN store,
         store'[k] # store[k]
  PROVE  k \in Found(wants[p.req])
<1>1. TypeOK /\ restarts \in Nat
  BY BoundsAssumption DEF IInv, TypeOK
<1>2. ASSUME NEW q \in posts, Create(q) PROVE FALSE
  <2>1. PICK i : i = wants[q.req]
    OBVIOUS
  <2>2. store'[k] = store[k]
    BY <1>2, <2>1, CreateStore
  <2>. QED  BY <2>2
<1>3. ASSUME NEW q \in posts, Refresh(q) PROVE k \in Found(wants[p.req])
  <2>1. p = q
    BY <1>3 DEF Refresh, Consumed
  <2>. QED  BY <1>1, <1>3, <2>1, RefreshStore
<1>4. ASSUME NEW q \in posts, ReadOnly(q) PROVE FALSE
  BY <1>4 DEF ReadOnly, server
<1>5. ~Restart
  BY <1>1 DEF Restart
<1>6. ASSUME NEW r \in Requests, Ask(r) \/ Receive(r) \/ GiveUp(r) PROVE FALSE
  BY <1>6 DEF Ask, Receive, GiveUp, server
<1>. QED  BY <1>2, <1>3, <1>4, <1>5, <1>6 DEF Next

---------------------------------------------------------------------------
(* The theorems.                                                           *)

\* Every variable has its type, for any chats, intents and restarts.
THEOREM TypeCorrect == Spec => []TypeOK
BY IInvInvariant, PTL DEF IInv

\* A twin in the store has its agent, its shell and its baseline, whatever
\* creations failed half-way (process_create_twin).
THEOREM StoredTwinsBacked == Spec => []TwinIsBacked
BY IInvInvariant, PTL DEF IInv

\* No twin is given what a failed creation left behind (_generate_twin_id,
\* SMIASpawner.spawn).
THEOREM BackingIsFresh == Spec => FreshBacking
<1>1. IInv /\ [Next]_vars =>
        [\A k \in DOMAIN store' \ DOMAIN store :
           store'[k].id \notin agents \cup shells \cup baselines \cup histories]_vars
  BY IInvStep DEF NewTwinsFresh
<1>. QED  BY <1>1, IInvInvariant, PTL DEF Spec, FreshBacking

\* A user who was told that twins were created can find them, as many as were
\* asked for, unless the orchestrator restarted (process_create_twin).
THEOREM ToldIsStored == Spec => []SuccessIsStored
<1>1. PostInv => SuccessIsStored
  BY DEF PostInv, RepliesInv, ReplyOK, StoredFor, SuccessIsStored
<1>. QED  BY <1>1, PostInvariant, PTL

\* No post makes its twins twice, however often the user gives up and asks
\* again (orchestrator_node, process_intent).
THEOREM MadeOnce == Spec => []OncePerPost
<1>1. PostInv => OncePerPost
  <2>. SUFFICES ASSUME PostInv, NEW r \in Requests, NEW n \in 1..attempts[r]
                PROVE  Cardinality({k \in DOMAIN store : store[k].by = [req |-> r, no |-> n]})
                         <= Len(wants[r].types)
    BY DEF OncePerPost
  <2>1. attempts[r] \in Nat
    BY BoundsAssumption DEF PostInv, IInv, TypeOK
  <2>2. n \in Nat \ {0}
    BY <2>1
  <2>. QED  BY <2>2 DEF PostInv, MadeInv, MadeBy
<1>. QED  BY <1>1, PostInvariant, PTL

\* A post changes no stored twin but the one of exactly its target's id, or else
\* the one that its target named when the user asked (process_query_twin,
\* process_get_kpi).
THEOREM ReadingsHitTheirTwin == Spec => RefreshHitsTarget
<1>. DEFINE Hits ==
       restarts' = restarts =>
         \A p \in posts \ posts', k \in DOMAIN store :
           store'[k] # store[k] =>
             LET target == wants[p.req].target
             IN  IF target \in {store[j].id : j \in DOMAIN store} THEN store[k].id = target
                 ELSE p.named \subseteq {store[k].id}
<1>1. ASSUME IInv, NamedInv, Next PROVE Hits
  <2>. SUFFICES ASSUME restarts' = restarts, NEW p \in posts \ posts', NEW k \in DOMAIN store,
                       store'[k] # store[k], NEW i, i = wants[p.req]
                PROVE  IF i.target \in {store[j].id : j \in DOMAIN store} THEN store[k].id = i.target
                       ELSE p.named \subseteq {store[k].id}
    OBVIOUS
  <2>1. k \in Found(i) /\ TypeOK
    BY <1>1, ChangedStep DEF IInv
  <2>2. CASE Exact(i) # {}
    BY <2>1, <2>2 DEF Found, Exact
  <2>3. CASE Exact(i) = {}
    <3>1. i.target \notin {store[j].id : j \in DOMAIN store}
      BY <2>3 DEF Exact
    <3>2. Found(i) = {k}
      BY <2>1, <2>3 DEF Found
    <3>3. Named(i) = {store[k].id}
      BY <3>2 DEF Named
    <3>4. p.named = {} \/ p.named = Named(i)
      BY <1>1, <2>3 DEF NamedInv
    <3>. QED  BY <3>1, <3>3, <3>4
  <2>. QED  BY <2>2, <2>3
<1>2. UNCHANGED vars => UNCHANGED <<store, posts>>
  BY DEF vars, server
<1>3. IInv /\ NamedInv /\ [Next]_vars => [Hits]_vars
  BY <1>1
<1>. QED  BY <1>3, IInvInvariant, NamedInvariant, PTL DEF Spec, RefreshHitsTarget

=============================================================================

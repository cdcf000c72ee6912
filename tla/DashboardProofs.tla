---------------------------- MODULE DashboardProofs ----------------------------
(* Theorems about the chat of the dashboard and about the risk engine: types,  *)
(* the rate limit of a session and the age of an overview, for any number of   *)
(* threads, sessions and requests; what a snapshot says of the machines and of *)
(* the plant, for any bank of up to six machines.                              *)
EXTENDS DashboardChat, RiskEngine, FilterLemmas, TLAPS

---------------------------------------------------------------------------
(* The inductive invariant.                                                *)

\* The agents a thread at r works with have been made.
MadeOK(t, r) ==
  /\ r.pc \notin {"idle", "entering", "makingAgent"} => agent # 0
  /\ r.pc \notin {"idle", "entering", "makingAgent", "afterAgent", "makingProxy"} => proxy # 0
  /\ t \in Chats /\ r.pc \in {"checking"} \cup Checking => r.agent \in 1..Len(counts)
  /\ t \in Polls /\ r.pc \in {"asking", "returning"} \cup Fetching =>
       r.proxy \in 1..Len(cached)

\* Nothing is admitted before an agent is made.
AgentsInv ==
  /\ counts = <<>> => \A s \in Sessions : admitted[s] = <<>>
  /\ \A t \in Threads : MadeOK(t, thread[t])

\* Nothing counts that was not admitted.
TimesInv ==
  /\ \A s \in Sessions : \A i \in 1..Len(admitted[s]) : admitted[s][i] <= clock
  /\ \A k \in 1..Len(counts) : \A s \in Sessions : Embeds(counts[k][s], admitted[s])

\* What a thread in its check of a session knows, the session's list at its
\* agent being C and its admissions A.
CheckOK(r, C, A) ==
  /\ r.since <= r.now
  /\ r.pc = "storing" =>
       Embeds(r.kept, A) /\ \A i \in 1..Len(r.kept) : r.kept[i] + Minute > r.now
  /\ r.pc = "measuring" => \A i \in 1..Len(C) : C[i] + Minute > r.since

\* A check starts no earlier than the start of any that overlaps it, and
\* overlaps none where none raced.
ChecksInv ==
  /\ \A t \in Chats : thread[t].pc \in Checking =>
       /\ thread[t].now <= clock
       /\ CheckOK(thread[t], Times(t), admitted[thread[t].session])
  /\ \A t, u \in Chats :
       /\ thread[t].pc \in Checking /\ thread[u].pc \in Checking
       /\ thread[t].session = thread[u].session
       => /\ thread[t].since <= thread[u].now
          /\ thread[t].session \notin raced => t = u

\* W is what is left of A, and what it has dropped is a minute old.
Left(W, A, tau) ==
  \E d \in 0..Len(A) : SuffixAt(W, A, d) /\ \A i \in 1..d : A[i] + Minute <= tau

\* What a thread knows besides, when its check overlaps none.
AloneOK(r, C, A) ==
  /\ \A i \in 1..Len(A) : A[i] <= r.now
  /\ r.pc = "storing" => Left(r.kept, A, r.now)
  /\ r.pc \in {"measuring", "appending"} => Left(C, A, r.now)
  /\ r.pc = "appending" => Len(C) < Limit

\* Where no checks overlapped and one agent was made, Limit admissions take a
\* minute, and the agent's list is the last of them.
LimitInv ==
  Len(counts) <= 1 => \A s \in Sessions \ raced :
    /\ Spaced(admitted[s], Limit, Minute)
    /\ \A k \in 1..Len(counts) : Left(counts[k][s], admitted[s], clock)
    /\ \A t \in Chats : thread[t].pc \in Checking /\ thread[t].session = s =>
         AloneOK(thread[t], Times(t), admitted[s])

\* What a thread of a poll knows, its proxy's cache being c.
PollOK(r, c, tau) ==
  /\ r.now <= tau
  /\ r.pc \in Fetching => tau <= r.now + CallTime
  /\ r.pc = "caching" => r.reply \in r.now..tau
  /\ r.pc = "stamping" => c.overview \in Nat /\ c.overview >= r.now - CallTime
  /\ r.pc = "returning" => c.overview \in Nat /\ c.overview >= r.now - Fresh - CallTime

\* A stamp is at most CallTime after the overview it goes with.
OverviewInv ==
  /\ \A k \in 1..Len(cached) :
       /\ cached[k].ts <= clock
       /\ cached[k].overview \in Nat => cached[k].overview >= cached[k].ts - CallTime
  /\ \A t \in Polls : thread[t].pc \in Fetching \cup {"returning"} =>
       PollOK(thread[t], cached[thread[t].proxy], clock)

Inv ==
  TypeOK /\ AgentsInv /\ TimesInv /\ ChecksInv /\ LimitInv /\ OverviewInv

---------------------------------------------------------------------------
(* Facts the proofs share.                                                 *)

Stamps == 0..MaxTime

\* The constants are naturals.
LEMMA Bounds ==
  /\ Limit \in Nat \ {0} /\ Minute \in Nat \ {0} /\ CallTime \in Nat \ {0}
  /\ Fresh \in Nat /\ MaxTime \in Nat /\ MaxRequests \in Nat /\ Chats \cap Polls = {}
BY DashboardAssumption

\* Which points are where.
LEMMA PointFacts ==
  /\ Checking = {"storing", "measuring", "appending"}
  /\ Fetching = {"fetching", "caching", "stamping"}
  /\ ChatPoints = {"checking", "intake", "reading", "posting", "entering", "makingAgent",
                   "afterAgent", "makingProxy", "leaving", "storing", "measuring", "appending"}
  /\ PollPoints = {"asking", "returning", "entering", "makingAgent", "afterAgent",
                   "makingProxy", "leaving", "fetching", "caching", "stamping"}
BY DEF Checking, Fetching, ChatPoints, PollPoints, InGetAgents

\* A thread that is not idle is at a point of a chat or of a poll.
LEMMA ThreadTypes ==
  ASSUME TypeOK
  PROVE  /\ \A t \in Chats : t \in Threads /\ t \notin Polls
         /\ \A t \in Polls : t \in Threads /\ t \notin Chats
         /\ \A t \in Chats : thread[t].pc # "idle" => thread[t] \in ChatStates
         /\ \A t \in Polls : thread[t].pc # "idle" => thread[t] \in PollStates
         /\ \A t \in Threads : thread[t] = Idle <=> thread[t].pc = "idle"
<1>1. \A t \in Chats : thread[t] \in {Idle} \cup ChatStates
  BY DEF TypeOK
<1>2. \A t \in Polls : thread[t] \in {Idle} \cup PollStates
  BY DEF TypeOK
<1>3. Idle.pc = "idle"
  BY DEF Idle
<1>4. \A r \in ChatStates : r.pc # "idle"
  BY PointFacts DEF ChatStates
<1>5. \A r \in PollStates : r.pc # "idle"
  BY PointFacts DEF PollStates
<1>6. \A t \in Threads : t \in Chats \/ t \in Polls
  BY DEF Threads
<1>7. Chats \cap Polls = {} /\ Chats \subseteq Threads /\ Polls \subseteq Threads
  BY Bounds DEF Threads
<1>. QED  BY <1>1, <1>2, <1>3, <1>4, <1>5, <1>6, <1>7

\* The fields of the states.
LEMMA ChatFields ==
  ASSUME NEW r \in ChatStates
  PROVE  /\ r.pc \in ChatPoints /\ r.session \in Sessions /\ r.agent \in Nat
         /\ r.now \in Stamps /\ r.since \in Stamps /\ r.kept \in Seq(Stamps)
         /\ \A p \in ChatPoints : LET q == [r EXCEPT !.pc = p] IN
              /\ q \in ChatStates /\ q.pc = p /\ q.session = r.session /\ q.agent = r.agent
              /\ q.now = r.now /\ q.since = r.since /\ q.kept = r.kept
BY DEF ChatStates, Stamps

\* What a poll holds, and what its next point changes.
LEMMA PollFields ==
  ASSUME NEW r \in PollStates
  PROVE  /\ r.pc \in PollPoints /\ r.proxy \in Nat /\ r.now \in Stamps
         /\ r.reply \in Overviews \cup {None}
         /\ \A p \in PollPoints : LET q == [r EXCEPT !.pc = p] IN
              /\ q \in PollStates /\ q.pc = p /\ q.proxy = r.proxy
              /\ q.now = r.now /\ q.reply = r.reply
BY DEF PollStates, Stamps

\* A step of one thread leaves the others where they are.
LEMMA Moved ==
  ASSUME TypeOK, NEW t \in Threads, NEW r, thread' = [thread EXCEPT ![t] = r]
  PROVE  /\ thread'[t] = r /\ \A u \in Threads : u # t => thread'[u] = thread[u]
         /\ DOMAIN thread' = Threads
BY DEF TypeOK

\* A move to a point changes nothing else of a state.
LEMMA WentTo ==
  ASSUME TypeOK, NEW t \in Threads, NEW p, GoTo(t, p)
  PROVE  thread' = [thread EXCEPT ![t] = [thread[t] EXCEPT !.pc = p]]
BY DEF TypeOK, GoTo

\* The types of the threads, when one of them moves.
LEMMA ThreadStep ==
  ASSUME TypeOK, NEW t \in Threads, NEW r, thread' = [thread EXCEPT ![t] = r],
         t \in Chats => r \in {Idle} \cup ChatStates,
         t \in Polls => r \in {Idle} \cup PollStates
  PROVE  /\ thread' \in [Threads -> {Idle} \cup ChatStates \cup PollStates]
         /\ \A u \in Chats : thread'[u] \in {Idle} \cup ChatStates
         /\ \A u \in Polls : thread'[u] \in {Idle} \cup PollStates
<1>1. \A u \in Threads : u \in Chats \/ u \in Polls
  BY DEF Threads
<1>2. \A u \in Chats : u \in Threads
  BY DEF Threads
<1>3. \A u \in Polls : u \in Threads
  BY DEF Threads
<1>4. /\ thread \in [Threads -> {Idle} \cup ChatStates \cup PollStates]
      /\ \A u \in Chats : thread[u] \in {Idle} \cup ChatStates
      /\ \A u \in Polls : thread[u] \in {Idle} \cup PollStates
  BY DEF TypeOK
<1>5. thread'[t] = r /\ \A u \in Threads : u # t => thread'[u] = thread[u]
  BY Moved
<1>. QED  BY <1>1, <1>2, <1>3, <1>4, <1>5

---------------------------------------------------------------------------
(* The initial states.                                                     *)

\* Nothing was admitted, and no thread runs.
LEMMA InvInit == Init => Inv
<1>. SUFFICES ASSUME Init PROVE Inv
  OBVIOUS
<1>1. \A t \in Threads : thread[t] = Idle /\ thread[t].pc = "idle"
  BY DEF Init, Idle
<1>2. \A s \in Sessions : admitted[s] = <<>> /\ Len(admitted[s]) = 0
  BY DEF Init
<1>3. Len(counts) = 0 /\ Len(cached) = 0 /\ counts = <<>> /\ cached = <<>>
  BY DEF Init
<1>4. Chats \subseteq Threads /\ Polls \subseteq Threads
  BY DEF Threads
<1>5. TypeOK
  BY <1>1, <1>3, <1>4, Bounds DEF Init, TypeOK
<1>6. AgentsInv
  BY <1>1, <1>2, <1>4, PointFacts DEF AgentsInv, MadeOK
<1>7. TimesInv
  BY <1>2, <1>3 DEF TimesInv
<1>8. ChecksInv
  BY <1>1, <1>4, PointFacts DEF ChecksInv
<1>9. LimitInv
  BY <1>1, <1>2, <1>3, <1>4, PointFacts DEF LimitInv, Spaced
<1>10. OverviewInv
  BY <1>1, <1>3, <1>4, PointFacts DEF OverviewInv
<1>. QED  BY <1>5, <1>6, <1>7, <1>8, <1>9, <1>10 DEF Inv

---------------------------------------------------------------------------
(* Steps of one thread that change nothing the threads share.              *)

Quiet(t, r) ==
  /\ thread' = [thread EXCEPT ![t] = r]
  /\ UNCHANGED <<globals, counts, cached, clock, history>>
  /\ requests' \in 0..MaxRequests

\* The threads made by now stay made.
LEMMA MadeStep ==
  ASSUME TypeOK, AgentsInv, NEW t \in Threads, NEW r, thread' = [thread EXCEPT ![t] = r],
         UNCHANGED globals, counts' = <<>> => counts = <<>> /\ admitted' = admitted,
         Len(counts') = Len(counts), Len(cached') = Len(cached), MadeOK(t, r)
  PROVE  AgentsInv'
<1>1. \A u \in Threads : thread'[u] = IF u = t THEN r ELSE thread[u]
  BY Moved
<1>2. \A u \in Threads : MadeOK(u, thread'[u])
  BY <1>1 DEF AgentsInv
<1>3. agent' = agent /\ proxy' = proxy
  BY DEF globals
<1>4. \A u \in Threads : MadeOK(u, thread[u])'
  BY <1>2, <1>3 DEF MadeOK
<1>. QED  BY <1>3, <1>4 DEF AgentsInv

\* Checks do not see a step of a thread that is not in one.
LEMMA ChecksKept ==
  ASSUME TypeOK, TimesInv, ChecksInv, LimitInv,
         UNCHANGED <<counts, clock, history>>,
         \A u \in Chats : thread'[u].pc \in Checking => thread'[u] = thread[u]
  PROVE  TimesInv' /\ ChecksInv' /\ LimitInv'
<1>1. counts' = counts /\ clock' = clock /\ admitted' = admitted /\ raced' = raced
  BY DEF history
<1>2. \A u \in Chats : thread'[u].pc \in Checking =>
        thread'[u] = thread[u] /\ Times(u)' = Times(u)
  BY <1>1 DEF Times
<1>3. TimesInv'
  BY <1>1 DEF TimesInv
<1>4. ChecksInv'
  BY <1>1, <1>2 DEF ChecksInv
<1>5. LimitInv'
  BY <1>1, <1>2 DEF LimitInv
<1>. QED  BY <1>3, <1>4, <1>5

\* Polls do not see a step of a thread that is not in one, nor one that leaves
\* the caches alone.
LEMMA OverviewsKept ==
  ASSUME TypeOK, OverviewInv, UNCHANGED <<cached, clock>>,
         \A u \in Polls : thread'[u].pc \in Fetching \cup {"returning"} =>
           thread'[u] = thread[u] \/ PollOK(thread'[u], cached[thread'[u].proxy], clock)
  PROVE  OverviewInv'
BY DEF OverviewInv

\* A quiet step to a state that is in order.
LEMMA QuietStep ==
  ASSUME Inv, NEW t \in Threads, NEW r, Quiet(t, r), MadeOK(t, r),
         t \in Chats => r \in {Idle} \cup ChatStates /\ r.pc \notin Checking,
         t \in Polls => /\ r \in {Idle} \cup PollStates
                        /\ r.pc \in Fetching \cup {"returning"} => PollOK(r, cached[r.proxy], clock)
  PROVE  Inv'
<1>1. TypeOK /\ AgentsInv /\ TimesInv /\ ChecksInv /\ LimitInv /\ OverviewInv
  BY DEF Inv
<1>2. /\ thread' = [thread EXCEPT ![t] = r]
      /\ UNCHANGED <<globals, counts, cached, clock, history>>
      /\ requests' \in 0..MaxRequests
  BY DEF Quiet
<1>3. \A u \in Threads : thread'[u] = IF u = t THEN r ELSE thread[u]
  BY <1>1, <1>2, Moved
<1>4. TypeOK'
  <2>1. /\ thread' \in [Threads -> {Idle} \cup ChatStates \cup PollStates]
        /\ \A u \in Chats : thread'[u] \in {Idle} \cup ChatStates
        /\ \A u \in Polls : thread'[u] \in {Idle} \cup PollStates
    BY <1>1, <1>2, ThreadStep
  <2>. QED  BY <1>1, <1>2, <2>1 DEF TypeOK, globals, history
<1>5. AgentsInv'
  BY <1>1, <1>2, MadeStep DEF history
<1>6. TimesInv' /\ ChecksInv' /\ LimitInv'
  <2>1. \A u \in Chats : thread'[u].pc \in Checking => thread'[u] = thread[u]
    BY <1>3 DEF Threads
  <2>. QED  BY <1>1, <1>2, <2>1, ChecksKept
<1>7. OverviewInv'
  <2>1. \A u \in Polls : thread'[u].pc \in Fetching \cup {"returning"} =>
           thread'[u] = thread[u] \/ PollOK(thread'[u], cached[thread'[u].proxy], clock)
    BY <1>3 DEF Threads
  <2>. QED  BY <1>1, <1>2, <2>1, OverviewsKept
<1>. QED  BY <1>4, <1>5, <1>6, <1>7 DEF Inv

\* A move to a point that no check is at.
LEMMA MoveStep ==
  ASSUME Inv, NEW t \in Threads, NEW p, thread[t].pc # "idle",
         t \in Chats => p \in ChatPoints \ Checking,
         t \in Polls => p \in PollPoints \ (Fetching \cup {"returning"}),
         MadeOK(t, [thread[t] EXCEPT !.pc = p]), GoTo(t, p), Local
  PROVE  Inv'
<1>1. TypeOK
  BY DEF Inv
<1>2. PICK r : r = [thread[t] EXCEPT !.pc = p]
  OBVIOUS
<1>3. thread' = [thread EXCEPT ![t] = r]
  BY <1>1, <1>2, WentTo
<1>4. Quiet(t, r)
  BY <1>1, <1>3 DEF Quiet, Local, TypeOK
<1>5. t \in Chats => r \in {Idle} \cup ChatStates /\ r.pc \notin Checking
  <2>1. SUFFICES ASSUME t \in Chats PROVE r \in ChatStates /\ r.pc \notin Checking
    OBVIOUS
  <2>2. thread[t] \in ChatStates
    BY <1>1, <2>1, ThreadTypes
  <2>. QED  BY <1>2, <2>1, <2>2, ChatFields
<1>6. t \in Polls => r \in {Idle} \cup PollStates /\ r.pc \notin Fetching \cup {"returning"}
  <2>1. SUFFICES ASSUME t \in Polls
                 PROVE  r \in PollStates /\ r.pc \notin Fetching \cup {"returning"}
    OBVIOUS
  <2>2. thread[t] \in PollStates
    BY <1>1, <2>1, ThreadTypes
  <2>. QED  BY <1>2, <2>1, <2>2, PollFields
<1>. QED  BY <1>2, <1>4, <1>5, <1>6, QuietStep

\* A thread that ends.
LEMMA EndStep ==
  ASSUME Inv, NEW t \in Threads, End(t), Local
  PROVE  Inv'
<1>1. TypeOK /\ thread' = [thread EXCEPT ![t] = Idle] /\ Idle.pc = "idle"
  BY DEF Inv, End, Idle
<1>2. Quiet(t, Idle)
  BY <1>1 DEF Quiet, Local, TypeOK
<1>3. MadeOK(t, Idle)
  BY <1>1, PointFacts DEF MadeOK
<1>. QED  BY <1>1, <1>2, <1>3, PointFacts, QuietStep

\* What a thread at a point that is not the first knows of the agents.
LEMMA MadeAt ==
  ASSUME Inv, NEW t \in Threads
  PROVE  MadeOK(t, thread[t])
BY DEF Inv, AgentsInv

\* A message or a poll comes in.
LEMMA InvArrive ==
  ASSUME Inv,
         (\E t \in Chats : \E s \in Sessions : Receive(t, s)) \/ (\E t \in Polls : Poll(t)) \/ TurnAway
  PROVE  Inv'
<1>1. TypeOK
  BY DEF Inv
<1>2. ASSUME NEW t \in Chats, NEW s \in Sessions, Receive(t, s) PROVE Inv'
  <2>1. PICK r : r = Message(s)
    OBVIOUS
  <2>2. r \in ChatStates /\ r.pc = "entering" /\ t \in Threads
    BY <2>1, Bounds DEF Message, ChatStates, ChatPoints, InGetAgents, Threads
  <2>3. Quiet(t, r)
    BY <1>1, <1>2, <2>1, Bounds DEF Quiet, Receive, TypeOK
  <2>4. MadeOK(t, r) /\ r.pc \notin Checking /\ t \notin Polls
    BY <1>1, <2>2, PointFacts, ThreadTypes DEF MadeOK
  <2>. QED  BY <2>2, <2>3, <2>4, QuietStep
<1>3. ASSUME NEW t \in Polls, Poll(t) PROVE Inv'
  <2>1. PICK r : r = [pc |-> "entering", proxy |-> 0, now |-> 0, reply |-> None]
    OBVIOUS
  <2>2. r \in PollStates /\ r.pc = "entering" /\ t \in Threads
    BY <2>1, Bounds DEF PollStates, PollPoints, InGetAgents, Threads
  <2>3. Quiet(t, r)
    BY <1>1, <1>3, <2>1, Bounds DEF Quiet, Poll, TypeOK
  <2>4. MadeOK(t, r) /\ r.pc \notin Fetching \cup {"returning"} /\ t \notin Chats
    BY <1>1, <2>2, PointFacts, ThreadTypes DEF MadeOK
  <2>. QED  BY <2>2, <2>3, <2>4, QuietStep
<1>4. ASSUME TurnAway PROVE Inv'
  <2>1. UNCHANGED <<globals, counts, cached, thread, clock, history>> /\ requests' \in 0..MaxRequests
    BY <1>1, <1>4, Bounds DEF TurnAway, TypeOK
  <2>2. TypeOK'
    BY <1>1, <2>1 DEF TypeOK, globals, history
  <2>3. AgentsInv'
    BY <2>1 DEF Inv, AgentsInv, MadeOK, globals, history
  <2>4. TimesInv' /\ ChecksInv' /\ LimitInv' /\ OverviewInv'
    BY <1>1, <2>1, ChecksKept, OverviewsKept DEF Inv
  <2>. QED  BY <2>2, <2>3, <2>4 DEF Inv
<1>. QED  BY <1>2, <1>3, <1>4

\* A thread takes the agents.
LEMMA InvTake ==
  ASSUME Inv, NEW t \in Threads, SeeAgent(t) \/ SeeProxy(t) \/ TakeAgents(t)
  PROVE  Inv'
<1>1. TypeOK
  BY DEF Inv
<1>2. MadeOK(t, thread[t])
  BY MadeAt
<1>3. t \in Chats \/ t \in Polls
  BY DEF Threads
<1>4. ASSUME NEW p, p \in InGetAgents, thread[t].pc \in InGetAgents
      PROVE  LET q == [thread[t] EXCEPT !.pc = p] IN q.pc = p
  BY <1>1, <1>3, <1>4, ThreadTypes, ChatFields, PollFields, PointFacts DEF InGetAgents
<1>5. CASE SeeAgent(t)
  <2>1. PICK p : p = IF agent = 0 THEN "makingAgent" ELSE "afterAgent"
    OBVIOUS
  <2>2. thread[t].pc = "entering" /\ GoTo(t, p) /\ Local
    BY <1>5, <2>1 DEF SeeAgent, At
  <2>3. MadeOK(t, [thread[t] EXCEPT !.pc = p])
    <3>1. PICK q : q = [thread[t] EXCEPT !.pc = p]
      OBVIOUS
    <3>2. q.pc = p
      BY <1>4, <2>1, <2>2, <3>1 DEF InGetAgents
    <3>. QED  BY <2>1, <3>1, <3>2, PointFacts DEF MadeOK
  <2>. QED  BY <2>1, <2>2, <2>3, MoveStep, PointFacts
<1>6. CASE SeeProxy(t)
  <2>1. PICK p : p = IF proxy = 0 THEN "makingProxy" ELSE "leaving"
    OBVIOUS
  <2>2. thread[t].pc = "afterAgent" /\ GoTo(t, p) /\ Local
    BY <1>6, <2>1 DEF SeeProxy, At
  <2>3. MadeOK(t, [thread[t] EXCEPT !.pc = p])
    <3>1. PICK q : q = [thread[t] EXCEPT !.pc = p]
      OBVIOUS
    <3>2. q.pc = p
      BY <1>4, <2>1, <2>2, <3>1 DEF InGetAgents
    <3>. QED  BY <1>2, <2>1, <2>2, <3>1, <3>2, PointFacts DEF MadeOK
  <2>. QED  BY <2>1, <2>2, <2>3, MoveStep, PointFacts
<1>7. CASE TakeAgents(t)
  <2>1. thread[t].pc = "leaving" /\ Local
    BY <1>7 DEF TakeAgents, At
  <2>2. agent \in 1..Len(counts) /\ proxy \in 1..Len(cached) /\ agent \in Nat /\ proxy \in Nat
    BY <1>1, <1>2, <2>1 DEF MadeOK, TypeOK
  <2>3. CASE t \in Chats
    <3>1. PICK r : r = [thread[t] EXCEPT !.pc = "checking", !.agent = agent]
      OBVIOUS
    <3>2. thread' = [thread EXCEPT ![t] = r]
      BY <1>1, <1>7, <2>3, <3>1 DEF TakeAgents, TypeOK
    <3>3. thread[t] \in ChatStates /\ t \notin Polls
      BY <1>1, <2>1, <2>3, ThreadTypes
    <3>4. r \in ChatStates /\ r.pc = "checking" /\ r.agent = agent
      <4>1. PICK q, a : q = thread[t] /\ a = agent
        OBVIOUS
      <4>2. q \in ChatStates /\ a \in Nat /\ r = [q EXCEPT !.pc = "checking", !.agent = a]
        BY <2>2, <3>1, <3>3, <4>1
      <4>3. r \in ChatStates /\ r.pc = "checking" /\ r.agent = a
        BY ONLY <4>2, PointFacts DEF ChatStates
      <4>. QED  BY <4>1, <4>3
    <3>5. MadeOK(t, r)
      BY <1>2, <2>1, <2>2, <3>3, <3>4, PointFacts DEF MadeOK
    <3>6. Quiet(t, r)
      BY <1>1, <2>1, <3>2 DEF Quiet, Local, TypeOK
    <3>. QED  BY <3>3, <3>4, <3>5, <3>6, QuietStep, PointFacts
  <2>4. CASE t \in Polls
    <3>1. PICK r : r = [thread[t] EXCEPT !.pc = "asking", !.proxy = proxy]
      OBVIOUS
    <3>2. thread[t] \in PollStates /\ t \notin Chats
      BY <1>1, <2>1, <2>4, ThreadTypes
    <3>3. thread' = [thread EXCEPT ![t] = r]
      BY <1>1, <1>7, <3>1, <3>2 DEF TakeAgents, TypeOK
    <3>4. r \in PollStates /\ r.pc = "asking" /\ r.proxy = proxy
      <4>1. PICK q, a : q = thread[t] /\ a = proxy
        OBVIOUS
      <4>2. q \in PollStates /\ a \in Nat /\ r = [q EXCEPT !.pc = "asking", !.proxy = a]
        BY <2>2, <3>1, <3>2, <4>1
      <4>3. r \in PollStates /\ r.pc = "asking" /\ r.proxy = a
        BY ONLY <4>2, PointFacts DEF PollStates
      <4>. QED  BY <4>1, <4>3
    <3>5. MadeOK(t, r)
      BY <1>2, <2>1, <2>2, <3>2, <3>4, PointFacts DEF MadeOK
    <3>6. Quiet(t, r)
      BY <1>1, <2>1, <3>3 DEF Quiet, Local, TypeOK
    <3>. QED  BY <3>2, <3>4, <3>5, <3>6, QuietStep, PointFacts
  <2>. QED  BY <1>3, <2>3, <2>4
<1>. QED  BY <1>5, <1>6, <1>7

\* The rest of the pipeline, and what ends a thread.
LEMMA InvPipeline ==
  ASSUME Inv, NEW t \in Chats,
         \/ TooLong(t) \/ Refuse(t) \/ AnsweredAtOnce(t) \/ FetchData(t) \/ Orchestrated(t)
         \/ \E reply \in LlmReplies : Classify(t, reply)
  PROVE  Inv'
<1>1. TypeOK /\ t \in Threads
  BY DEF Inv, Threads
<1>2. MadeOK(t, thread[t])
  BY <1>1, MadeAt
<1>3. ASSUME TooLong(t) \/ Refuse(t) \/ AnsweredAtOnce(t) \/ Orchestrated(t) PROVE Inv'
  BY <1>1, <1>3, EndStep DEF TooLong, Refuse, AnsweredAtOnce, Orchestrated
<1>4. ASSUME NEW p \in {"reading", "posting"}, thread[t].pc \in {"intake", "reading"},
             GoTo(t, p), Local
      PROVE  Inv'
  <2>1. thread[t] \in ChatStates /\ t \notin Polls
    BY <1>1, <1>4, ThreadTypes
  <2>2. PICK q : q = [thread[t] EXCEPT !.pc = p]
    OBVIOUS
  <2>3. q.pc = p
    BY <2>1, <2>2, PointFacts, ChatFields
  <2>4. MadeOK(t, q)
    BY <1>2, <1>4, <2>1, <2>3, PointFacts DEF MadeOK
  <2>. QED  BY <1>1, <1>4, <2>1, <2>2, <2>4, MoveStep, PointFacts
<1>5. CASE FetchData(t)
  BY <1>4, <1>5 DEF FetchData, At
<1>6. ASSUME NEW reply \in LlmReplies, Classify(t, reply) PROVE Inv'
  <2>1. PICK intent : GoTo(t, IF intent \in IntentsNeedingData THEN "reading" ELSE "posting")
    BY <1>6 DEF Classify
  <2>2. PICK p : p = IF intent \in IntentsNeedingData THEN "reading" ELSE "posting"
    OBVIOUS
  <2>3. p \in {"reading", "posting"} /\ GoTo(t, p) /\ thread[t].pc = "intake" /\ Local
    BY <1>6, <2>1, <2>2 DEF Classify, At
  <2>. QED  BY <1>4, <2>3
<1>. QED  BY <1>3, <1>5, <1>6

---------------------------------------------------------------------------
(* An agent or a proxy is made.                                            *)

\* An empty list is one that all of it was admitted.
LEMMA EmptyList ==
  ASSUME NEW A \in Seq(Stamps)
  PROVE  Embeds(<<>>, A)
<1>1. PICK h : h = [i \in 1..Len(<<>>) |-> 1]
  OBVIOUS
<1>2. Len(<<>>) = 0 /\ 1..0 = {}
  OBVIOUS
<1>3. h \in [1..Len(<<>>) -> 1..Len(A)] /\ \A i \in 1..Len(<<>>) : FALSE
  BY <1>1, <1>2
<1>. QED  BY <1>3 DEF Embeds

\* The first agent starts with an empty list for each session, when none was
\* admitted; with a second one the lists are no more the last admissions.
LEMMA InvMakeAgent ==
  ASSUME Inv, NEW t \in Threads, MakeAgent(t)
  PROVE  Inv'
<1>1. TypeOK /\ AgentsInv /\ TimesInv /\ ChecksInv /\ LimitInv /\ OverviewInv
  BY DEF Inv
<1>2. PICK new : new = [s \in Sessions |-> <<>>]
  OBVIOUS
<1>3. new \in [Sessions -> Seq(Stamps)] /\ \A s \in Sessions : new[s] = <<>>
  BY <1>2
<1>4. counts' = Append(counts, new) /\ agent' = Len(counts')
  BY <1>2 DEF MakeAgent
<1>5. /\ Len(counts) \in Nat /\ Len(counts') = Len(counts) + 1
      /\ counts' \in Seq([Sessions -> Seq(Stamps)])
      /\ \A k \in 1..Len(counts) : counts'[k] = counts[k]
      /\ counts'[Len(counts) + 1] = new
  BY <1>1, <1>3, <1>4, AppendProperties, LenProperties DEF TypeOK, Stamps
<1>6. UNCHANGED <<proxy, cached, requests, clock, admitted, raced>>
  BY DEF MakeAgent, history
<1>7. PICK r : r = [thread[t] EXCEPT !.pc = "afterAgent"]
  OBVIOUS
<1>8. thread' = [thread EXCEPT ![t] = r] /\ thread[t].pc = "makingAgent"
  BY <1>1, <1>7, WentTo DEF MakeAgent, At
<1>9. /\ t \in Chats => r \in {Idle} \cup ChatStates
      /\ t \in Polls => r \in {Idle} \cup PollStates
      /\ r.pc = "afterAgent"
  <2>1. t \in Chats => r \in ChatStates /\ r.pc = "afterAgent"
    BY <1>1, <1>7, <1>8, ThreadTypes, ChatFields, PointFacts
  <2>2. t \in Polls => r \in PollStates /\ r.pc = "afterAgent"
    BY <1>1, <1>7, <1>8, ThreadTypes, PollFields, PointFacts
  <2>. QED  BY <2>1, <2>2 DEF Threads
<1>10. \A u \in Threads : thread'[u] = IF u = t THEN r ELSE thread[u]
  BY <1>1, <1>8, Moved
<1>11. TypeOK'
  <2>1. /\ thread' \in [Threads -> {Idle} \cup ChatStates \cup PollStates]
        /\ \A u \in Chats : thread'[u] \in {Idle} \cup ChatStates
        /\ \A u \in Polls : thread'[u] \in {Idle} \cup PollStates
    BY <1>1, <1>8, <1>9, ThreadStep
  <2>2. agent' \in 0..Len(counts')
    BY <1>4, <1>5
  <2>. QED  BY <1>1, <1>5, <1>6, <2>1, <2>2 DEF TypeOK, Stamps
<1>12. AgentsInv'
  <2>1. agent' # 0 /\ counts' # <<>>
    BY <1>4, <1>5
  <2>2. \A u \in Threads : MadeOK(u, thread'[u]) \/ (u = t /\ thread'[u] = r)
    BY <1>1, <1>10 DEF AgentsInv
  <2>3. ASSUME NEW u \in Threads PROVE MadeOK(u, thread[u])'
    <3>1. PICK q : q = thread'[u]
      OBVIOUS
    <3>2. CASE q # r \/ u # t
      <4>1. MadeOK(u, q)
        BY <2>2, <3>1, <3>2
      <4>2. MadeOK(u, q)'
        BY <1>5, <1>6, <2>1, <4>1 DEF MadeOK
      <4>. QED  BY <3>1, <4>2 DEF MadeOK
    <3>3. CASE q = r /\ u = t
      BY <1>9, <2>1, <3>1, <3>3, PointFacts DEF MadeOK
    <3>. QED  BY <3>2, <3>3
  <2>. QED  BY <2>1, <2>3 DEF AgentsInv
<1>13. \A k \in 1..Len(counts') : k \in 1..Len(counts) \/ k = Len(counts) + 1
  BY <1>5
<1>14. \A u \in Chats : thread'[u].pc \in Checking =>
         /\ thread'[u] = thread[u] /\ u \in Threads /\ thread[u].agent \in 1..Len(counts)
         /\ Times(u)' = Times(u)
  <2>1. ASSUME NEW u \in Chats, thread'[u].pc \in Checking
        PROVE  u \in Threads /\ thread'[u] = thread[u] /\ thread[u].agent \in 1..Len(counts)
    BY <1>1, <1>9, <1>10, <2>1, PointFacts DEF AgentsInv, MadeOK, Threads
  <2>. QED  BY <1>5, <2>1 DEF Times
<1>15. TimesInv'
  <2>1. \A s \in Sessions : Embeds(new[s], admitted[s])
    BY <1>1, <1>3, EmptyList DEF TypeOK, Stamps
  <2>. QED  BY <1>1, <1>5, <1>6, <1>13, <2>1 DEF TimesInv
<1>16. ChecksInv'
  BY <1>1, <1>6, <1>14 DEF ChecksInv
<1>17. LimitInv'
  <2>1. SUFFICES ASSUME Len(counts') <= 1, NEW s \in Sessions
                 PROVE  /\ Spaced(admitted'[s], Limit, Minute)
                        /\ \A k \in 1..Len(counts') : Left(counts'[k][s], admitted'[s], clock')
                        /\ \A u \in Chats : thread'[u].pc \in Checking => FALSE
    BY DEF LimitInv
  <2>2. Len(counts) = 0 /\ counts = <<>>
    BY <1>1, <1>5, <2>1, EmptySeq DEF TypeOK
  <2>3. admitted'[s] = <<>> /\ Len(admitted'[s]) = 0
    BY <1>1, <1>6, <2>2 DEF AgentsInv
  <2>4. \A k \in 1..Len(counts') : counts'[k][s] = <<>>
    BY <1>3, <1>5, <2>2
  <2>5. SuffixAt(<<>>, <<>>, 0) /\ Left(<<>>, <<>>, clock')
    BY DEF SuffixAt, Left
  <2>. QED  BY <1>14, <2>2, <2>3, <2>4, <2>5 DEF Spaced
<1>18. OverviewInv'
  <2>1. \A u \in Polls : thread'[u].pc \in Fetching \cup {"returning"} =>
          thread'[u] = thread[u] \/ PollOK(thread'[u], cached[thread'[u].proxy], clock)
    BY <1>9, <1>10, PointFacts DEF Threads
  <2>. QED  BY <1>1, <1>6, <2>1, OverviewsKept
<1>. QED  BY <1>11, <1>12, <1>15, <1>16, <1>17, <1>18 DEF Inv

\* A proxy starts with an empty cache.
LEMMA InvMakeProxy ==
  ASSUME Inv, NEW t \in Threads, MakeProxy(t)
  PROVE  Inv'
<1>1. TypeOK /\ AgentsInv /\ TimesInv /\ ChecksInv /\ LimitInv /\ OverviewInv
  BY DEF Inv
<1>2. PICK new : new = [overview |-> None, ts |-> 0]
  OBVIOUS
<1>3. /\ new \in [overview : Overviews \cup {None}, ts : Stamps]
      /\ new.ts = 0 /\ new.overview = None
  BY <1>2, Bounds DEF Stamps
<1>4. cached' = Append(cached, new) /\ proxy' = Len(cached')
  BY <1>2 DEF MakeProxy
<1>5. /\ Len(cached) \in Nat /\ Len(cached') = Len(cached) + 1
      /\ cached' \in Seq([overview : Overviews \cup {None}, ts : Stamps])
      /\ \A k \in 1..Len(cached) : cached'[k] = cached[k]
      /\ cached'[Len(cached) + 1] = new
  BY <1>1, <1>3, <1>4, AppendProperties, LenProperties DEF TypeOK, Stamps
<1>6. UNCHANGED <<agent, counts, requests, clock, admitted, raced>>
  BY DEF MakeProxy, history
<1>7. PICK r : r = [thread[t] EXCEPT !.pc = "leaving"]
  OBVIOUS
<1>8. thread' = [thread EXCEPT ![t] = r] /\ thread[t].pc = "makingProxy"
  BY <1>1, <1>7, WentTo DEF MakeProxy, At
<1>9. /\ t \in Chats => r \in {Idle} \cup ChatStates
      /\ t \in Polls => r \in {Idle} \cup PollStates
      /\ r.pc = "leaving"
  <2>1. t \in Chats => r \in ChatStates /\ r.pc = "leaving"
    BY <1>1, <1>7, <1>8, ThreadTypes, ChatFields, PointFacts
  <2>2. t \in Polls => r \in PollStates /\ r.pc = "leaving"
    BY <1>1, <1>7, <1>8, ThreadTypes, PollFields, PointFacts
  <2>. QED  BY <2>1, <2>2 DEF Threads
<1>10. \A u \in Threads : thread'[u] = IF u = t THEN r ELSE thread[u]
  BY <1>1, <1>8, Moved
<1>11. TypeOK'
  <2>1. /\ thread' \in [Threads -> {Idle} \cup ChatStates \cup PollStates]
        /\ \A u \in Chats : thread'[u] \in {Idle} \cup ChatStates
        /\ \A u \in Polls : thread'[u] \in {Idle} \cup PollStates
    BY <1>1, <1>8, <1>9, ThreadStep
  <2>2. proxy' \in 0..Len(cached')
    BY <1>4, <1>5
  <2>. QED  BY <1>1, <1>5, <1>6, <2>1, <2>2 DEF TypeOK, Stamps
<1>12. AgentsInv'
  <2>1. proxy' # 0
    BY <1>4, <1>5
  <2>2. \A u \in Threads : MadeOK(u, thread'[u]) \/ (u = t /\ thread'[u] = r)
    BY <1>1, <1>10 DEF AgentsInv
  <2>3. ASSUME NEW u \in Threads PROVE MadeOK(u, thread[u])'
    <3>1. PICK q : q = thread'[u]
      OBVIOUS
    <3>2. CASE q # r \/ u # t
      <4>1. MadeOK(u, q)
        BY <2>2, <3>1, <3>2
      <4>2. MadeOK(u, q)'
        BY <1>5, <1>6, <2>1, <4>1 DEF MadeOK
      <4>. QED  BY <3>1, <4>2 DEF MadeOK
    <3>3. CASE q = r /\ u = t
      <4>1. agent # 0
        BY <1>1, <1>8 DEF AgentsInv, MadeOK
      <4>. QED  BY <1>6, <1>9, <2>1, <3>1, <3>3, <4>1, PointFacts DEF MadeOK
    <3>. QED  BY <3>2, <3>3
  <2>. QED  BY <1>1, <1>6, <2>3 DEF AgentsInv
<1>13. TimesInv' /\ ChecksInv' /\ LimitInv'
  <2>1. \A u \in Chats : thread'[u].pc \in Checking => thread'[u] = thread[u]
    BY <1>9, <1>10, PointFacts DEF Threads
  <2>. QED  BY <1>1, <1>6, <2>1, ChecksKept DEF history
<1>14. OverviewInv'
  <2>1. \A k \in 1..Len(cached') : k \in 1..Len(cached) \/ k = Len(cached) + 1
    BY <1>5
  <2>2. ASSUME NEW k \in 1..Len(cached')
        PROVE  /\ cached'[k].ts <= clock'
               /\ cached'[k].overview \in Nat => cached'[k].overview >= cached'[k].ts - CallTime
    <3>1. CASE k \in 1..Len(cached)
      BY <1>1, <1>5, <1>6, <3>1 DEF OverviewInv
    <3>2. CASE cached'[k] = new
      <4>1. clock' \in Nat /\ new.overview \in Nat => new.overview >= 0
        BY <1>1, <1>6, Bounds DEF TypeOK
      <4>. QED  BY <1>1, <1>3, <1>6, <3>2, <4>1, Bounds DEF TypeOK
    <3>. QED  BY <1>5, <2>1, <3>1, <3>2
  <2>3. ASSUME NEW u \in Polls, thread'[u].pc \in Fetching \cup {"returning"}
        PROVE  PollOK(thread'[u], cached'[thread'[u].proxy], clock')
    <3>1. thread'[u] = thread[u] /\ u \in Threads
      BY <1>9, <1>10, <2>3, PointFacts DEF Threads
    <3>2. thread[u].proxy \in 1..Len(cached)
      BY <1>1, <2>3, <3>1, PointFacts DEF AgentsInv, MadeOK
    <3>. QED  BY <1>1, <1>5, <1>6, <2>3, <3>1, <3>2 DEF OverviewInv
  <2>. QED  BY <2>2, <2>3 DEF OverviewInv
<1>. QED  BY <1>11, <1>12, <1>13, <1>14 DEF Inv

---------------------------------------------------------------------------
(* Polls, and the clock.                                                   *)

\* A poll without twins, and one that is answered.
LEMMA InvEndPoll ==
  ASSUME Inv, NEW t \in Polls, NoTwins(t) \/ Return(t)
  PROVE  Inv'
<1>1. t \in Threads
  BY DEF Threads
<1>. QED  BY <1>1, EndStep DEF NoTwins, Return

\* A cache that is in use holds an overview that is Fresh or less older than
\* its stamp allows.
LEMMA InvLook ==
  ASSUME Inv, NEW t \in Polls, Look(t)
  PROVE  Inv'
<1>1. TypeOK /\ OverviewInv /\ MadeOK(t, thread[t]) /\ t \in Threads
  BY MadeAt DEF Inv, Threads
<1>2. thread[t].pc = "asking" /\ thread[t] \in PollStates /\ t \notin Chats
  BY <1>1, ThreadTypes DEF Look, At
<1>3. PICK old, c, p : /\ old = thread[t] /\ c = cached[thread[t].proxy]
                       /\ p = IF Usable(c, clock) THEN "returning" ELSE "fetching"
  OBVIOUS
<1>4. PICK r : r = [old EXCEPT !.now = clock, !.pc = p]
  OBVIOUS
<1>5. thread' = [thread EXCEPT ![t] = r] /\ Local
  BY <1>1, <1>3, <1>4 DEF Look, TypeOK
<1>6. clock \in Stamps /\ clock \in Nat
  BY <1>1, Bounds DEF TypeOK, Stamps
<1>7. /\ r \in PollStates /\ r.pc = p /\ r.proxy = old.proxy /\ r.now = clock
  <2>1. old \in PollStates /\ p \in PollPoints
    BY <1>2, <1>3, PointFacts
  <2>. QED  BY <1>4, <1>6, <2>1 DEF PollStates, Stamps
<1>8. old.proxy \in 1..Len(cached) /\ MadeOK(t, r)
  BY <1>1, <1>2, <1>3, <1>7, PointFacts DEF MadeOK
<1>9. PollOK(r, c, clock)
  <2>1. CASE p = "fetching"
    BY <1>6, <1>7, <2>1, Bounds, PointFacts DEF PollOK
  <2>2. CASE p = "returning" /\ Usable(c, clock)
    <3>1. c.overview \in Overviews /\ c.overview # None /\ c.ts \in Nat
      <4>1. c \in [overview : Overviews \cup {None}, ts : 0..MaxTime]
        BY <1>1, <1>3, <1>8, ElementOfSeq DEF TypeOK
      <4>. QED  BY <2>2, <4>1, Bounds DEF Usable
    <3>2. c.overview \in Nat /\ clock - c.ts <= Fresh
      BY <2>2, <3>1, Bounds DEF Usable, Overviews
    <3>3. c.overview >= c.ts - CallTime
      BY <1>1, <1>3, <1>8, <3>2 DEF OverviewInv
    <3>4. c.overview >= clock - Fresh - CallTime
      BY <1>6, <3>1, <3>2, <3>3, Bounds
    <3>. QED  BY <1>6, <1>7, <2>2, <3>2, <3>4, PointFacts DEF PollOK
  <2>. QED  BY <1>3, <2>1, <2>2
<1>10. Quiet(t, r)
  BY <1>1, <1>5 DEF Quiet, Local, TypeOK
<1>11. PollOK(r, cached[r.proxy], clock)
  BY <1>3, <1>7, <1>9
<1>. QED  BY <1>1, <1>2, <1>7, <1>8, <1>10, <1>11, QuietStep

\* Agent 2 gives an overview.
LEMMA InvOverview ==
  ASSUME Inv, NEW t \in Polls, Overview(t)
  PROVE  Inv'
<1>1. TypeOK /\ OverviewInv /\ MadeOK(t, thread[t]) /\ t \in Threads
  BY MadeAt DEF Inv, Threads
<1>2. thread[t].pc = "fetching" /\ thread[t] \in PollStates /\ t \notin Chats
  BY <1>1, ThreadTypes DEF Overview, At
<1>3. PICK old : old = thread[t]
  OBVIOUS
<1>4. PICK r : r = [old EXCEPT !.pc = "caching", !.reply = clock]
  OBVIOUS
<1>5. thread' = [thread EXCEPT ![t] = r] /\ Local
  BY <1>1, <1>3, <1>4 DEF Overview, TypeOK
<1>6. clock \in Stamps /\ clock \in Nat
  BY <1>1, Bounds DEF TypeOK, Stamps
<1>7. /\ r \in PollStates /\ r.pc = "caching" /\ r.proxy = old.proxy
      /\ r.now = old.now /\ r.reply = clock
  <2>1. old \in PollStates /\ "caching" \in PollPoints /\ clock \in Overviews
    BY <1>2, <1>3, <1>6, PointFacts DEF Overviews, Stamps
  <2>. QED  BY <1>4, <2>1 DEF PollStates
<1>8. MadeOK(t, r)
  BY <1>1, <1>2, <1>3, <1>7, PointFacts DEF MadeOK
<1>9. PollOK(r, cached[r.proxy], clock)
  <2>1. PollOK(old, cached[old.proxy], clock)
    BY <1>1, <1>2, <1>3, PointFacts DEF OverviewInv
  <2>2. old.now <= clock /\ clock <= old.now + CallTime
    BY <1>2, <1>3, <2>1, PointFacts DEF PollOK
  <2>3. old.now \in Nat
    BY <1>2, <1>3, PollFields, Bounds DEF Stamps
  <2>. QED  BY <1>6, <1>7, <2>2, <2>3, PointFacts DEF PollOK
<1>10. Quiet(t, r)
  BY <1>1, <1>5 DEF Quiet, Local, TypeOK
<1>. QED  BY <1>1, <1>2, <1>7, <1>8, <1>9, <1>10, QuietStep

\* A cache takes an overview no older than CallTime, or keeps its overview.
LEMMA CacheStep ==
  ASSUME Inv, NEW t \in Polls, NEW r, NEW p \in 1..Len(cached), NEW c,
         thread' = [thread EXCEPT ![t] = r], cached' = [cached EXCEPT ![p] = c],
         UNCHANGED <<globals, counts, requests, clock, history>>,
         c \in [overview : Overviews \cup {None}, ts : Stamps],
         c.ts <= clock, c.overview \in Nat => c.overview >= c.ts - CallTime,
         c.overview = cached[p].overview \/ (c.overview \in Nat /\ c.overview >= clock - CallTime),
         r \in PollStates, MadeOK(t, r), r.proxy = p, PollOK(r, c, clock)
  PROVE  Inv'
<1>1. TypeOK /\ AgentsInv /\ TimesInv /\ ChecksInv /\ LimitInv /\ OverviewInv
  BY DEF Inv
<1>2. UNCHANGED <<agent, proxy, counts, requests, clock, admitted, raced>>
  BY DEF globals, history
<1>3. t \in Threads /\ t \notin Chats
  BY <1>1, ThreadTypes
<1>4. \A u \in Threads : thread'[u] = IF u = t THEN r ELSE thread[u]
  BY <1>1, <1>3, Moved
<1>5. /\ cached' \in Seq([overview : Overviews \cup {None}, ts : Stamps])
      /\ Len(cached') = Len(cached) /\ Len(cached) \in Nat
      /\ \A k \in 1..Len(cached) : cached'[k] = IF k = p THEN c ELSE cached[k]
  <2>1. cached \in Seq([overview : Overviews \cup {None}, ts : Stamps])
    BY <1>1 DEF TypeOK, Stamps
  <2>. QED  BY <2>1, ExceptSeq, LenProperties
<1>6. TypeOK'
  <2>1. /\ thread' \in [Threads -> {Idle} \cup ChatStates \cup PollStates]
        /\ \A u \in Chats : thread'[u] \in {Idle} \cup ChatStates
        /\ \A u \in Polls : thread'[u] \in {Idle} \cup PollStates
    BY <1>1, <1>3, ThreadStep
  <2>. QED  BY <1>1, <1>2, <1>5, <2>1 DEF TypeOK, Stamps
<1>7. AgentsInv'
  BY <1>1, <1>2, <1>3, <1>5, MadeStep DEF globals
<1>8. TimesInv' /\ ChecksInv' /\ LimitInv'
  <2>1. \A u \in Chats : thread'[u].pc \in Checking => thread'[u] = thread[u]
    BY <1>3, <1>4 DEF Threads
  <2>. QED  BY <1>1, <1>2, <2>1, ChecksKept DEF history
<1>9. OverviewInv'
  <2>1. ASSUME NEW k \in 1..Len(cached')
        PROVE  /\ cached'[k].ts <= clock'
               /\ cached'[k].overview \in Nat => cached'[k].overview >= cached'[k].ts - CallTime
    <3>1. CASE k = p
      <4>1. cached'[k] = c
        BY <1>5, <3>1
      <4>. QED  BY <1>2, <4>1
    <3>2. CASE k # p
      BY <1>1, <1>2, <1>5, <3>2 DEF OverviewInv
    <3>. QED  BY <3>1, <3>2
  <2>2. ASSUME NEW u \in Polls, thread'[u].pc \in Fetching \cup {"returning"}
        PROVE  PollOK(thread'[u], cached'[thread'[u].proxy], clock')
    <3>1. CASE u = t
      <4>1. thread'[u] = r /\ cached'[r.proxy] = c
        BY <1>3, <1>4, <1>5, <3>1
      <4>. QED  BY <1>2, <4>1
    <3>2. CASE u # t
      <4>1. thread'[u] = thread[u] /\ u \in Threads
        BY <1>4, <3>2 DEF Threads
      <4>2. PICK q : q = thread[u]
        OBVIOUS
      <4>3. q \in PollStates /\ q.proxy \in 1..Len(cached) /\ q.now \in Nat
        <5>1. q \in PollStates
          BY <1>1, <2>2, <4>1, <4>2, ThreadTypes, PointFacts
        <5>2. q.proxy \in 1..Len(cached)
          BY <1>1, <2>2, <4>1, <4>2, PointFacts DEF AgentsInv, MadeOK
        <5>. QED  BY <5>1, <5>2, PollFields, Bounds DEF Stamps
      <4>4. PollOK(q, cached[q.proxy], clock)
        BY <1>1, <2>2, <4>1, <4>2 DEF OverviewInv
      <4>5. CASE q.proxy # p
        BY <1>2, <1>5, <4>1, <4>2, <4>3, <4>4, <4>5
      <4>6. CASE q.proxy = p
        <5>1. PICK b, e : b = cached[p] /\ e = clock
          OBVIOUS
        <5>2. e \in Nat /\ PollOK(q, b, e)
          BY <1>1, <4>4, <4>6, <5>1, Bounds DEF TypeOK
        <5>3. c.overview = b.overview \/ (c.overview \in Nat /\ c.overview >= e - CallTime)
          BY <5>1
        <5>4. PollOK(q, c, e)
          BY <4>3, <5>2, <5>3, Bounds, PointFacts DEF PollOK
        <5>5. cached'[q.proxy] = c
          BY <1>5, <4>6
        <5>. QED  BY <1>2, <4>1, <4>2, <5>1, <5>4, <5>5
      <4>. QED  BY <4>5, <4>6
    <3>. QED  BY <3>1, <3>2
  <2>. QED  BY <2>1, <2>2 DEF OverviewInv
<1>. QED  BY <1>6, <1>7, <1>8, <1>9 DEF Inv

\* The overview is stored, then its stamp.
LEMMA InvCache ==
  ASSUME Inv, NEW t \in Polls, Cache(t) \/ StampCache(t)
  PROVE  Inv'
<1>1. TypeOK /\ OverviewInv /\ t \in Threads
  BY DEF Inv, Threads
<1>2. MadeOK(t, thread[t])
  BY <1>1, MadeAt
<1>3. PICK old, p, tau, b : old = thread[t] /\ p = old.proxy /\ tau = clock /\ b = cached[p]
  OBVIOUS
<1>4. old.pc \in Fetching
  BY <1>3, PointFacts DEF Cache, StampCache, At
<1>5. old \in PollStates /\ p \in 1..Len(cached) /\ PollOK(old, b, tau) /\ t \notin Chats
  <2>1. old \in PollStates /\ t \notin Chats
    BY <1>1, <1>3, <1>4, ThreadTypes, PointFacts
  <2>2. p \in 1..Len(cached)
    BY <1>2, <1>3, <1>4, PointFacts DEF MadeOK
  <2>3. PollOK(old, b, tau)
    BY <1>1, <1>3, <1>4 DEF OverviewInv
  <2>. QED  BY <2>1, <2>2, <2>3
<1>6. tau \in Stamps /\ tau \in Nat /\ old.now \in Stamps /\ old.now \in Nat
  BY <1>1, <1>3, <1>5, Bounds, PollFields DEF TypeOK, Stamps
<1>7. b \in [overview : Overviews \cup {None}, ts : Stamps]
  BY <1>1, <1>3, <1>5, ElementOfSeq DEF TypeOK, Stamps
<1>8. b.ts <= tau /\ b.ts \in Nat /\ (b.overview \in Nat => b.overview >= b.ts - CallTime)
  BY <1>1, <1>3, <1>5, <1>7, Bounds DEF OverviewInv, Stamps
<1>9. UNCHANGED <<globals, counts, requests, clock, history>>
  BY DEF Cache, StampCache
<1>10. cached \in Seq([overview : Overviews \cup {None}, ts : Stamps])
  BY <1>1 DEF TypeOK, Stamps
<1>11. CASE Cache(t)
  <2>1. PICK c, r : c = [b EXCEPT !.overview = old.reply] /\ r = [old EXCEPT !.pc = "stamping"]
    OBVIOUS
  <2>2. old.reply \in old.now..tau
    BY <1>3, <1>5, <1>11, PointFacts DEF PollOK, Cache, At
  <2>3. old.reply \in Stamps /\ old.reply \in Nat
    BY <1>6, <2>2, Bounds DEF Stamps
  <2>4. /\ c \in [overview : Overviews \cup {None}, ts : Stamps]
        /\ c.overview = old.reply /\ c.ts = b.ts
    BY <1>7, <2>1, <2>3 DEF Overviews, Stamps
  <2>5. cached' = [cached EXCEPT ![p] = c]
    <3>1. cached' = [cached EXCEPT ![p].overview = old.reply]
      BY <1>3, <1>11 DEF Cache
    <3>. QED  BY <1>3, <1>5, <1>10, <2>1, <3>1
  <2>6. thread' = [thread EXCEPT ![t] = r]
    BY <1>1, <1>3, <1>11, <2>1, WentTo DEF Cache
  <2>7. r \in PollStates /\ r.pc = "stamping" /\ r.proxy = p /\ r.now = old.now
    <3>1. old \in PollStates /\ "stamping" \in PollPoints /\ p = old.proxy
      BY <1>3, <1>5, PointFacts
    <3>. QED  BY ONLY <2>1, <3>1, PollFields
  <2>8. c.overview >= tau - CallTime
    <3>1. tau <= old.now + CallTime
      BY <1>4, <1>5 DEF PollOK
    <3>. QED  BY <1>6, <2>2, <2>3, <2>4, <3>1, Bounds
  <2>9. c.overview \in Nat /\ c.ts <= tau /\ c.overview >= c.ts - CallTime
    BY <1>6, <1>8, <2>3, <2>4, <2>8, Bounds
  <2>10. PollOK(r, c, tau)
    <3>1. old.now <= tau /\ tau <= old.now + CallTime /\ c.overview >= old.now - CallTime
      BY <1>4, <1>5, <1>6, <2>8, <2>9, Bounds DEF PollOK
    <3>. QED  BY <2>7, <2>9, <3>1, PointFacts DEF PollOK
  <2>11. MadeOK(t, r)
    BY <1>2, <1>3, <1>4, <1>5, <2>7, PointFacts DEF MadeOK
  <2>. QED  BY <1>3, <1>5, <1>9, <2>4, <2>5, <2>6, <2>7, <2>8, <2>9, <2>10, <2>11, CacheStep
<1>12. CASE StampCache(t)
  <2>1. PICK c, r : c = [b EXCEPT !.ts = old.now] /\ r = [old EXCEPT !.pc = "returning"]
    OBVIOUS
  <2>2. /\ c \in [overview : Overviews \cup {None}, ts : Stamps]
        /\ c.overview = b.overview /\ c.ts = old.now
    BY <1>6, <1>7, <2>1
  <2>3. cached' = [cached EXCEPT ![p] = c]
    <3>1. cached' = [cached EXCEPT ![p].ts = old.now]
      BY <1>3, <1>12 DEF StampCache, Stamp
    <3>. QED  BY <1>3, <1>5, <1>10, <2>1, <3>1
  <2>4. thread' = [thread EXCEPT ![t] = r]
    BY <1>1, <1>3, <1>12, <2>1, WentTo DEF StampCache
  <2>5. r \in PollStates /\ r.pc = "returning" /\ r.proxy = p /\ r.now = old.now
    <3>1. old \in PollStates /\ "returning" \in PollPoints /\ p = old.proxy
      BY <1>3, <1>5, PointFacts
    <3>. QED  BY ONLY <2>1, <3>1, PollFields
  <2>6. old.now <= tau /\ b.overview \in Nat /\ b.overview >= old.now - CallTime
    BY <1>3, <1>5, <1>12, PointFacts DEF PollOK, StampCache, At
  <2>7. PollOK(r, c, tau)
    <3>1. c.overview \in Nat /\ c.overview >= old.now - Fresh - CallTime
      BY <1>6, <2>2, <2>6, Bounds
    <3>. QED  BY <2>5, <2>6, <3>1, PointFacts DEF PollOK
  <2>8. MadeOK(t, r)
    BY <1>2, <1>3, <1>4, <1>5, <2>5, PointFacts DEF MadeOK
  <2>9. c.ts <= tau /\ c.overview >= c.ts - CallTime /\ c.overview = cached[p].overview
    BY <1>3, <2>2, <2>6
  <2>10. c.ts <= clock /\ PollOK(r, c, clock)
    BY <1>3, <2>7, <2>9
  <2>11. /\ c \in [overview : Overviews \cup {None}, ts : Stamps]
         /\ c.overview \in Nat => c.overview >= c.ts - CallTime
         /\ c.overview = cached[p].overview \/ (c.overview \in Nat /\ c.overview >= clock - CallTime)
    BY <2>2, <2>9
  <2>12. p \in 1..Len(cached) /\ r \in PollStates /\ r.proxy = p
    <3>1. p \in 1..Len(cached)
      BY <1>5
    <3>2. r \in PollStates /\ r.proxy = p
      BY <2>5
    <3>. QED  BY <3>1, <3>2, Zenon
  <2>. QED  BY <1>9, <2>3, <2>4, <2>8, <2>10, <2>11, <2>12, CacheStep, Zenon
<1>. QED  BY <1>11, <1>12

\* Time passes: what is old stays old, and no fetch takes longer than CallTime.
LEMMA InvTick ==
  ASSUME Inv, Tick
  PROVE  Inv'
<1>1. TypeOK /\ AgentsInv /\ TimesInv /\ ChecksInv /\ LimitInv /\ OverviewInv
  BY DEF Inv
<1>2. UNCHANGED <<agent, proxy, counts, cached, thread, requests, admitted, raced>>
  BY DEF Tick, globals, history
<1>3. clock' = clock + 1 /\ clock < MaxTime /\ clock \in Nat /\ MaxTime \in Nat
  BY <1>1, Bounds DEF Tick, TypeOK
<1>4. TypeOK'
  BY <1>1, <1>2, <1>3 DEF TypeOK
<1>5. AgentsInv'
  BY <1>1, <1>2 DEF AgentsInv, MadeOK
<1>6. \A s \in Sessions : admitted[s] \in Seq(Stamps)
  BY <1>1 DEF TypeOK, Stamps
<1>7. TimesInv'
  <2>1. ASSUME NEW s \in Sessions, NEW i \in 1..Len(admitted[s])
        PROVE  admitted[s][i] <= clock'
    <3>1. admitted[s][i] \in Nat /\ admitted[s][i] <= clock
      BY <1>1, <1>6, ElementOfSeq, Bounds DEF TimesInv, Stamps
    <3>. QED  BY <1>3, <3>1
  <2>. QED  BY <1>1, <1>2, <2>1 DEF TimesInv
<1>8. ChecksInv'
  <2>1. \A t \in Chats : Times(t)' = Times(t)
    BY <1>2 DEF Times
  <2>2. ASSUME NEW t \in Chats, thread[t].pc \in Checking PROVE thread[t].now <= clock'
    <3>1. thread[t] \in ChatStates
      BY <1>1, <2>2, ThreadTypes, PointFacts
    <3>2. thread[t].now \in Nat /\ thread[t].now <= clock
      BY <1>1, <2>2, <3>1, ChatFields, Bounds DEF ChecksInv, Stamps
    <3>. QED  BY <1>3, <3>2
  <2>. QED  BY <1>1, <1>2, <2>1, <2>2 DEF ChecksInv
<1>9. LimitInv'
  <2>1. \A t \in Chats : Times(t)' = Times(t)
    BY <1>2 DEF Times
  <2>2. ASSUME NEW W, NEW A \in Seq(Stamps), Left(W, A, clock) PROVE Left(W, A, clock')
    <3>1. PICK d \in 0..Len(A) : SuffixAt(W, A, d) /\ \A i \in 1..d : A[i] + Minute <= clock
      BY <2>2 DEF Left
    <3>2. ASSUME NEW i \in 1..d PROVE A[i] + Minute <= clock'
      <4>1. Len(A) \in Nat
        BY LenProperties
      <4>2. i \in 1..Len(A)
        BY <4>1
      <4>3. A[i] \in Nat /\ A[i] + Minute <= clock
        BY <3>1, <4>2, ElementOfSeq, Bounds DEF Stamps
      <4>. QED  BY <1>3, <4>3, Bounds
    <3>. QED  BY <3>1, <3>2 DEF Left
  <2>. QED  BY <1>1, <1>2, <1>6, <2>1, <2>2 DEF LimitInv
<1>10. OverviewInv'
  <2>1. ASSUME NEW k \in 1..Len(cached) PROVE cached[k].ts <= clock'
    <3>1. cached[k] \in [overview : Overviews \cup {None}, ts : Stamps]
      BY <1>1, ElementOfSeq DEF TypeOK, Stamps
    <3>2. cached[k].ts \in Nat /\ cached[k].ts <= clock
      BY <1>1, <3>1, Bounds DEF OverviewInv, Stamps
    <3>. QED  BY <1>3, <3>2
  <2>2. ASSUME NEW t \in Polls, thread[t].pc \in Fetching \cup {"returning"}
        PROVE  PollOK(thread[t], cached[thread[t].proxy], clock')
    <3>1. PICK q, c, tau : q = thread[t] /\ c = cached[thread[t].proxy] /\ tau = clock
      OBVIOUS
    <3>2. PollOK(q, c, tau) /\ q \in PollStates
      BY <1>1, <2>2, <3>1, ThreadTypes, PointFacts DEF OverviewInv
    <3>3. q.now \in Nat /\ tau \in Nat
      BY <1>3, <3>1, <3>2, PollFields, Bounds DEF Stamps
    <3>4. q.pc \in Fetching => tau < q.now + CallTime
      BY <1>1, <3>1, ThreadTypes, PointFacts DEF Tick
    <3>5. q.pc = "caching" => q.reply \in q.now..tau
      BY <3>2 DEF PollOK
    <3>6. PollOK(q, c, tau + 1)
      BY <3>2, <3>3, <3>4, <3>5, Bounds, PointFacts DEF PollOK
    <3>. QED  BY <1>3, <3>1, <3>6
  <2>. QED  BY <1>1, <1>2, <2>1, <2>2 DEF OverviewInv
<1>. QED  BY <1>4, <1>5, <1>7, <1>8, <1>9, <1>10 DEF Inv

---------------------------------------------------------------------------
(* The check of the rate limit.                                            *)

\* What is a minute old stays so.
LEMMA LeftLater ==
  ASSUME NEW W, NEW A \in Seq(Stamps), NEW n \in Nat, NEW m \in Nat, n <= m, Left(W, A, n)
  PROVE  Left(W, A, m)
<1>1. PICK d \in 0..Len(A) : SuffixAt(W, A, d) /\ \A i \in 1..d : A[i] + Minute <= n
  BY DEF Left
<1>2. ASSUME NEW i \in 1..d PROVE A[i] + Minute <= m
  <2>1. Len(A) \in Nat
    BY LenProperties
  <2>2. i \in 1..Len(A)
    BY <2>1
  <2>3. A[i] \in Nat /\ A[i] + Minute <= n
    BY <1>1, <2>2, ElementOfSeq, Bounds DEF Stamps
  <2>. QED  BY <2>3, Bounds
<1>. QED  BY <1>1, <1>2 DEF Left

\* The list a check keeps: times of the list there was, each less than a minute
\* old.
LEMMA KeptFacts ==
  ASSUME NEW A \in Seq(Stamps), NEW C \in Seq(Stamps), Embeds(C, A), NEW tau \in Nat,
         NEW K, K = Kept(C, tau)
  PROVE  /\ K \in Seq(Stamps) /\ Embeds(K, A)
         /\ \A i \in 1..Len(K) : K[i] + Minute > tau
<1>1. PICK keep : keep = {a \in Nat : tau - a < Minute}
  OBVIOUS
<1>2. K = Selected(C, keep)
  BY <1>1 DEF Kept
<1>3. K \in Seq(Stamps \cap keep) /\ K \in Seq(Stamps)
  BY <1>2, SelectedType
<1>4. Embeds(K, A)
  BY <1>2, EmbedsSelected
<1>5. ASSUME NEW i \in 1..Len(K) PROVE K[i] + Minute > tau
  <2>1. K[i] \in keep
    BY <1>3, ElementOfSeq
  <2>2. K[i] \in Nat /\ tau - K[i] < Minute
    BY <1>1, <2>1
  <2>. QED  BY <2>2, Bounds
<1>. QED  BY <1>3, <1>4, <1>5

\* It is the end of the admissions when the list was.
LEMMA KeptLeft ==
  ASSUME NEW A \in Seq(Stamps), NEW C \in Seq(Stamps), NEW tau \in Nat, Left(C, A, tau),
         \A i, j \in 1..Len(A) : i < j => A[i] <= A[j]
  PROVE  Left(Kept(C, tau), A, tau)
<1>1. PICK keep : keep = {a \in Nat : tau - a < Minute}
  OBVIOUS
<1>2. PICK d \in 0..Len(A) : SuffixAt(C, A, d) /\ \A i \in 1..d : A[i] + Minute <= tau
  BY DEF Left
<1>3. Len(A) \in Nat /\ \A i \in 1..Len(A) : A[i] \in Nat
  BY LenProperties, ElementOfSeq, Bounds DEF Stamps
<1>4. \A i \in 1..Len(A) : A[i] \in keep <=> tau < A[i] + Minute
  BY <1>1, <1>3, Bounds
<1>5. \A i \in 1..d : A[i] \notin keep
  <2>1. \A i \in 1..d : i \in 1..Len(A)
    BY <1>3
  <2>. QED  BY <1>2, <1>3, <1>4, <2>1, Bounds
<1>6. \A i, j \in 1..Len(A) : i < j /\ A[i] \in keep => A[j] \in keep
  BY <1>3, <1>4, Bounds
<1>7. PICK e \in 0..Len(A) : /\ SuffixAt(Selected(C, keep), A, e)
                             /\ \A i \in 1..e : A[i] \notin keep
  BY <1>2, <1>5, <1>6, SelectedSuffixAt
<1>8. \A i \in 1..e : A[i] + Minute <= tau
  <2>1. \A i \in 1..e : i \in 1..Len(A)
    BY <1>3
  <2>. QED  BY <1>3, <1>4, <1>7, <2>1, Bounds
<1>. QED  BY <1>1, <1>7, <1>8 DEF Left, Kept

\* With fewer than Limit left, one more keeps the admissions apart.
LEMMA LeftAppend ==
  ASSUME NEW A \in Seq(Stamps), NEW C \in Seq(Stamps), NEW tau \in Stamps, Left(C, A, tau),
         Len(C) < Limit, Spaced(A, Limit, Minute), \A i \in 1..Len(A) : A[i] <= tau
  PROVE  Spaced(Append(A, tau), Limit, Minute) /\ Left(Append(C, tau), Append(A, tau), tau)
<1>1. PICK d \in 0..Len(A) : SuffixAt(C, A, d) /\ \A i \in 1..d : A[i] + Minute <= tau
  BY DEF Left
<1>2. Len(A) \in Nat /\ A \in Seq(Nat) /\ tau \in Nat
  <2>1. Stamps \subseteq Nat
    BY Bounds DEF Stamps
  <2>. QED  BY <2>1, LenProperties, SeqMonotonic
<1>3. Len(A) - d < Limit
  BY <1>1 DEF SuffixAt
<1>4. Spaced(Append(A, tau), Limit, Minute)
  BY <1>1, <1>2, <1>3, Bounds, SpacedAppend
<1>5. d \in 0..Len(Append(A, tau)) /\ SuffixAt(Append(C, tau), Append(A, tau), d)
  BY <1>1, SuffixAppend
<1>6. \A i \in 1..d : Append(A, tau)[i] + Minute <= tau
  <2>1. \A i \in 1..d : i \in 1..Len(A)
    BY <1>2
  <2>2. \A i \in 1..d : Append(A, tau)[i] = A[i]
    BY <2>1, AppendProperties
  <2>. QED  BY <1>1, <2>2
<1>. QED  BY <1>4, <1>5, <1>6 DEF Left

\* One list of one agent is replaced.
LEMMA CountsAt ==
  ASSUME TypeOK, NEW a \in 1..Len(counts), NEW s \in Sessions, NEW x \in Seq(Stamps),
         counts' = [counts EXCEPT ![a][s] = x]
  PROVE  /\ counts' \in Seq([Sessions -> Seq(Stamps)])
         /\ Len(counts') = Len(counts)
         /\ \A k \in 1..Len(counts) : \A v \in Sessions :
              counts'[k][v] = IF k = a /\ v = s THEN x ELSE counts[k][v]
<1>1. counts \in Seq([Sessions -> Seq(Stamps)])
  BY DEF TypeOK, Stamps
<1>2. \A k \in 1..Len(counts) : counts[k] \in [Sessions -> Seq(Stamps)]
  BY <1>1, ElementOfSeq
<1>3. PICK f : f = [counts[a] EXCEPT ![s] = x]
  OBVIOUS
<1>4. f \in [Sessions -> Seq(Stamps)] /\ \A v \in Sessions : f[v] = IF v = s THEN x ELSE counts[a][v]
  BY <1>2, <1>3
<1>5. counts' = [counts EXCEPT ![a] = f]
  BY <1>1, <1>3
<1>6. /\ counts' \in Seq([Sessions -> Seq(Stamps)]) /\ Len(counts') = Len(counts)
      /\ \A k \in 1..Len(counts) : counts'[k] = IF k = a THEN f ELSE counts[k]
  <2>1. PICK F, c : F = [Sessions -> Seq(Stamps)] /\ c = counts
    OBVIOUS
  <2>2. c \in Seq(F) /\ a \in 1..Len(c) /\ f \in F
    BY <1>1, <1>4, <2>1
  <2>3. PICK e : e = [c EXCEPT ![a] = f]
    OBVIOUS
  <2>4. /\ e \in Seq(F) /\ Len(e) = Len(c)
        /\ \A k \in 1..Len(c) : e[k] = IF k = a THEN f ELSE c[k]
    BY ONLY <2>2, <2>3, ExceptSeq
  <2>. QED  BY <1>5, <2>1, <2>3, <2>4
<1>. QED  BY <1>4, <1>6

\* What a thread that is about to check, or checks, has.
LEMMA CheckFacts ==
  ASSUME Inv, NEW t \in Chats, thread[t].pc \in {"checking"} \cup Checking
  PROVE  /\ t \in Threads /\ t \notin Polls /\ thread[t] \in ChatStates
         /\ thread[t].agent \in 1..Len(counts) /\ thread[t].session \in Sessions
         /\ thread[t].now \in Stamps /\ thread[t].since \in Stamps /\ thread[t].kept \in Seq(Stamps)
         /\ Times(t) \in Seq(Stamps) /\ admitted[thread[t].session] \in Seq(Stamps)
         /\ Embeds(Times(t), admitted[thread[t].session])
         /\ clock \in Stamps /\ clock \in Nat /\ Stamps \subseteq Nat
         /\ counts # <<>> /\ agent # 0 /\ proxy # 0
<1>1. TypeOK /\ AgentsInv /\ TimesInv
  BY DEF Inv
<1>2. t \in Threads /\ t \notin Polls /\ thread[t] \in ChatStates
  BY <1>1, ThreadTypes, PointFacts
<1>3. /\ thread[t].session \in Sessions
      /\ thread[t].now \in Stamps /\ thread[t].since \in Stamps /\ thread[t].kept \in Seq(Stamps)
  BY <1>2, ChatFields
<1>4. thread[t].agent \in 1..Len(counts) /\ agent # 0 /\ proxy # 0
  BY <1>1, <1>2, PointFacts DEF AgentsInv, MadeOK
<1>5. counts[thread[t].agent] \in [Sessions -> Seq(Stamps)]
  BY <1>1, <1>4, ElementOfSeq DEF TypeOK, Stamps
<1>6. Times(t) \in Seq(Stamps) /\ admitted[thread[t].session] \in Seq(Stamps)
  BY <1>1, <1>3, <1>5 DEF Times, TypeOK, Stamps
<1>7. Embeds(Times(t), admitted[thread[t].session])
  BY <1>1, <1>3, <1>4 DEF TimesInv, Times
<1>8. clock \in Stamps /\ clock \in Nat /\ Stamps \subseteq Nat
  BY <1>1, Bounds DEF TypeOK, Stamps
<1>9. counts # <<>>
  <2>1. Len(<<>>) = 0
    OBVIOUS
  <2>. QED  BY <1>4, <2>1
<1>. QED  BY <1>2, <1>3, <1>4, <1>6, <1>7, <1>8, <1>9

\* What a step of a check leaves in order whatever it does with the lists.
LEMMA CheckStep ==
  ASSUME Inv, NEW t \in Chats, NEW r \in ChatStates, thread[t].pc \in {"checking"} \cup Checking,
         thread' = [thread EXCEPT ![t] = r],
         r.pc \in Checking => r.agent = thread[t].agent,
         r.pc \notin {"checking"},
         UNCHANGED <<globals, cached, requests, clock>>,
         counts' \in Seq([Sessions -> Seq(Stamps)]), Len(counts') = Len(counts),
         admitted' \in [Sessions -> Seq(Stamps)], raced' \subseteq Sessions
  PROVE  /\ TypeOK' /\ AgentsInv' /\ OverviewInv'
         /\ \A u \in Chats : thread'[u] = IF u = t THEN r ELSE thread[u]
<1>1. TypeOK /\ AgentsInv /\ OverviewInv
  BY DEF Inv
<1>2. /\ t \in Threads /\ t \notin Polls /\ thread[t].agent \in 1..Len(counts)
      /\ counts # <<>> /\ agent # 0 /\ proxy # 0
  BY CheckFacts
<1>3. \A u \in Threads : thread'[u] = IF u = t THEN r ELSE thread[u]
  BY <1>1, <1>2, Moved
<1>4. TypeOK'
  <2>1. /\ thread' \in [Threads -> {Idle} \cup ChatStates \cup PollStates]
        /\ \A u \in Chats : thread'[u] \in {Idle} \cup ChatStates
        /\ \A u \in Polls : thread'[u] \in {Idle} \cup PollStates
    BY <1>1, <1>2, ThreadStep
  <2>. QED  BY <1>1, <2>1 DEF TypeOK, Stamps, globals
<1>5. AgentsInv'
  <2>1. MadeOK(t, r)
    BY <1>2 DEF MadeOK
  <2>2. counts' # <<>>
    <3>1. Len(<<>>) = 0
      OBVIOUS
    <3>. QED  BY <1>2, <3>1
  <2>. QED  BY <1>1, <1>2, <2>1, <2>2, MadeStep
<1>6. OverviewInv'
  <2>1. \A u \in Polls : thread'[u].pc \in Fetching \cup {"returning"} =>
           thread'[u] = thread[u] \/ PollOK(thread'[u], cached[thread'[u].proxy], clock)
    BY <1>2, <1>3 DEF Threads
  <2>. QED  BY <1>1, <2>1, OverviewsKept
<1>. QED  BY <1>3, <1>4, <1>5, <1>6 DEF Threads

\* A session that has used its limit in the minute is refused, any other is not.
LEMMA InvBelowLimit ==
  ASSUME Inv, NEW t \in Chats, BelowLimit(t)
  PROVE  Inv'
<1>1. TypeOK /\ TimesInv /\ ChecksInv /\ LimitInv
  BY DEF Inv
<1>2. PICK old : old = thread[t]
  OBVIOUS
<1>3. PICK r : r = [old EXCEPT !.pc = "appending"]
  OBVIOUS
<1>4. thread[t].pc \in Checking /\ old.pc = "measuring" /\ Len(Times(t)) < Limit
  BY <1>2, PointFacts DEF BelowLimit, At
<1>5. thread[t] \in ChatStates /\ t \in Threads
  BY <1>4, CheckFacts
<1>6. /\ r \in ChatStates /\ r.pc = "appending" /\ r.session = old.session
      /\ r.agent = old.agent /\ r.now = old.now /\ r.since = old.since
  <2>1. old \in ChatStates /\ "appending" \in ChatPoints
    BY <1>2, <1>5, PointFacts
  <2>. QED  BY ONLY <1>3, <2>1, ChatFields
<1>7. thread' = [thread EXCEPT ![t] = r]
  BY <1>1, <1>2, <1>3, <1>5, WentTo DEF BelowLimit
<1>8. UNCHANGED <<globals, counts, cached, requests, clock, admitted, raced>>
  BY DEF BelowLimit, Local, history
<1>9. /\ TypeOK' /\ AgentsInv' /\ OverviewInv'
      /\ \A u \in Chats : thread'[u] = IF u = t THEN r ELSE thread[u]
  <2>1. counts \in Seq([Sessions -> Seq(Stamps)]) /\ admitted \in [Sessions -> Seq(Stamps)]
        /\ raced \subseteq Sessions
    BY <1>1 DEF TypeOK, Stamps
  <2>2. r.pc \in Checking /\ r.pc # "checking"
    BY <1>6, PointFacts
  <2>. QED  BY <1>2, <1>4, <1>6, <1>7, <1>8, <2>1, <2>2, CheckStep
<1>10. TimesInv'
  BY <1>1, <1>8 DEF TimesInv
<1>11. \A u \in Chats : /\ thread'[u].session = thread[u].session /\ Times(u)' = Times(u)
                        /\ thread'[u].now = thread[u].now /\ thread'[u].since = thread[u].since
                        /\ thread'[u].pc \in Checking <=> thread[u].pc \in Checking
  BY <1>2, <1>4, <1>6, <1>8, <1>9, PointFacts DEF Times
<1>12. ChecksInv'
  <2>1. CheckOK(r, Times(t), admitted[r.session])
    <3>1. CheckOK(old, Times(t), admitted[old.session])
      BY <1>1, <1>2, <1>4 DEF ChecksInv
    <3>. QED  BY <1>6, <3>1 DEF CheckOK
  <2>2. ASSUME NEW u \in Chats, thread'[u].pc \in Checking
        PROVE  thread'[u].now <= clock /\ CheckOK(thread'[u], Times(u), admitted[thread'[u].session])
    <3>1. CASE u = t
      BY <1>1, <1>2, <1>4, <1>6, <1>9, <2>1, <3>1 DEF ChecksInv
    <3>2. CASE u # t
      BY <1>1, <1>9, <2>2, <3>2 DEF ChecksInv
    <3>. QED  BY <3>1, <3>2
  <2>3. ASSUME NEW u \in Chats, NEW v \in Chats, thread'[u].pc \in Checking, thread'[v].pc \in Checking,
               thread'[u].session = thread'[v].session
        PROVE  /\ thread'[u].since <= thread'[v].now
               /\ thread'[u].session \notin raced => u = v
    BY <1>1, <1>11, <2>3 DEF ChecksInv
  <2>. QED  BY <1>8, <1>11, <2>2, <2>3 DEF ChecksInv
<1>13. LimitInv'
  <2>1. SUFFICES ASSUME Len(counts) <= 1, NEW s \in Sessions \ raced
                 PROVE  /\ Spaced(admitted[s], Limit, Minute)
                        /\ \A k \in 1..Len(counts) : Left(counts[k][s], admitted[s], clock)
                        /\ \A u \in Chats : thread'[u].pc \in Checking /\ thread'[u].session = s =>
                             AloneOK(thread'[u], Times(u), admitted[s])
    BY <1>8, <1>11 DEF LimitInv
  <2>2. ASSUME NEW u \in Chats, thread'[u].pc \in Checking, thread'[u].session = s
        PROVE  AloneOK(thread'[u], Times(u), admitted[s])
    <3>1. AloneOK(thread[u], Times(u), admitted[s])
      BY <1>1, <1>11, <2>1, <2>2 DEF LimitInv
    <3>2. CASE u = t
      <4>1. AloneOK(old, Times(t), admitted[s]) /\ thread'[t] = r
        BY <1>2, <1>9, <3>1, <3>2
      <4>2. AloneOK(r, Times(t), admitted[s])
        BY <1>4, <1>6, <4>1 DEF AloneOK
      <4>. QED  BY <3>2, <4>1, <4>2
    <3>3. CASE u # t
      BY <1>9, <3>1, <3>3
    <3>. QED  BY <3>2, <3>3
  <2>. QED  BY <1>1, <2>1, <2>2 DEF LimitInv
<1>. QED  BY <1>9, <1>10, <1>12, <1>13 DEF Inv

\* The least of the starts.
LEMMA LeastStart ==
  ASSUME NEW S \in SUBSET Nat, S # {}, NEW m, m = CHOOSE a \in S : \A b \in S : a <= b
  PROVE  m \in S /\ \A b \in S : m <= b
<1>1. \E a \in S : \A b \in S : a <= b
  BY LeastNatural
<1>. QED  BY <1>1

\* A check begins.
LEMMA InvFilterTimes ==
  ASSUME Inv, NEW t \in Chats, FilterTimes(t)
  PROVE  Inv'
<1>1. TypeOK /\ TimesInv /\ ChecksInv /\ LimitInv
  BY DEF Inv
<1>2. PICK old, s, C, A, tau : /\ old = thread[t] /\ s = thread[t].session /\ C = Times(t)
                               /\ A = admitted[thread[t].session] /\ tau = clock
  OBVIOUS
<1>3. PICK others : others = InCheck(s)
  OBVIOUS
<1>4. PICK starts : starts = {tau} \cup {thread[u].now : u \in others}
  OBVIOUS
<1>5. PICK m, K : m = (CHOOSE a \in starts : \A b \in starts : a <= b) /\ K = Kept(C, tau)
  OBVIOUS
<1>6. PICK r : r = [old EXCEPT !.pc = "storing", !.now = tau, !.since = m, !.kept = K]
  OBVIOUS
<1>7. thread[t].pc = "checking" /\ old.pc = "checking"
  BY <1>2 DEF FilterTimes, At
<1>8. /\ t \in Threads /\ old \in ChatStates /\ s \in Sessions /\ old.agent \in 1..Len(counts)
      /\ C \in Seq(Stamps) /\ A \in Seq(Stamps) /\ Embeds(C, A)
      /\ tau \in Stamps /\ tau \in Nat /\ Stamps \subseteq Nat
  BY <1>2, <1>7, CheckFacts
<1>9. \A u \in others : /\ u \in Chats /\ thread[u].pc \in Checking /\ thread[u].session = s
                        /\ thread[u].now \in Stamps /\ thread[u].now \in Nat
  <2>1. \A u \in others : u \in Chats /\ thread[u].pc \in Checking /\ thread[u].session = s
    BY <1>3 DEF InCheck
  <2>2. \A u \in others : thread[u].now \in Stamps
    BY <2>1, CheckFacts
  <2>. QED  BY <1>8, <2>1, <2>2
<1>10. m \in starts /\ \A b \in starts : m <= b
  <2>1. starts \subseteq Nat /\ starts # {}
    BY <1>4, <1>8, <1>9
  <2>. QED  BY <1>5, <2>1, LeastStart
<1>11. m \in Stamps /\ m <= tau /\ \A u \in others : m <= thread[u].now
  BY <1>4, <1>8, <1>9, <1>10
<1>12. K \in Seq(Stamps) /\ Embeds(K, A) /\ \A i \in 1..Len(K) : K[i] + Minute > tau
  BY <1>5, <1>8, KeptFacts
<1>13. /\ r \in ChatStates /\ r.pc = "storing" /\ r.session = s /\ r.agent = old.agent
       /\ r.now = tau /\ r.since = m /\ r.kept = K
  <2>1. old.session = s /\ "storing" \in ChatPoints
    BY <1>2, PointFacts
  <2>. QED  BY <1>6, <1>8, <1>11, <1>12, <2>1 DEF ChatStates, Stamps
<1>14. thread' = [thread EXCEPT ![t] = r]
  <2>1. thread' = [thread EXCEPT ![t].pc = "storing", ![t].now = tau, ![t].since = m, ![t].kept = K]
    BY <1>2, <1>3, <1>4, <1>5 DEF FilterTimes
  <2>. QED  BY <1>1, <1>2, <1>6, <1>8, <2>1 DEF TypeOK
<1>15. /\ UNCHANGED <<globals, counts, cached, requests, clock, admitted>>
       /\ raced' = IF others = {} THEN raced ELSE raced \cup {s}
  BY <1>2, <1>3 DEF FilterTimes
<1>16. /\ TypeOK' /\ AgentsInv' /\ OverviewInv'
       /\ \A u \in Chats : thread'[u] = IF u = t THEN r ELSE thread[u]
  <2>1. /\ counts \in Seq([Sessions -> Seq(Stamps)]) /\ admitted \in [Sessions -> Seq(Stamps)]
        /\ raced' \subseteq Sessions
    BY <1>1, <1>8, <1>15 DEF TypeOK, Stamps
  <2>. QED  BY <1>2, <1>7, <1>13, <1>14, <1>15, <2>1, CheckStep
<1>17. TimesInv'
  BY <1>1, <1>15 DEF TimesInv
<1>18. \A u \in Chats : thread'[u].pc \in Checking /\ u # t =>
         /\ thread'[u] = thread[u] /\ Times(u)' = Times(u) /\ thread[u].pc \in Checking
         /\ thread[u].session = s => u \in others
  <2>1. ASSUME NEW u \in Chats, thread'[u].pc \in Checking, u # t
        PROVE  thread'[u] = thread[u] /\ thread[u].pc \in Checking /\ thread[u] # Idle
    BY <1>16, <2>1, PointFacts DEF Idle
  <2>. QED  BY <1>3, <1>15, <2>1 DEF Times, InCheck
<1>19. Times(t)' = C /\ thread'[t] = r
  BY <1>2, <1>13, <1>15, <1>16 DEF Times
<1>20. ChecksInv'
  <2>1. CheckOK(r, C, A) /\ r.now <= tau
    BY <1>8, <1>11, <1>12, <1>13 DEF CheckOK
  <2>2. ASSUME NEW u \in Chats, thread'[u].pc \in Checking
        PROVE  thread'[u].now <= clock' /\ CheckOK(thread'[u], Times(u)', admitted'[thread'[u].session])
    <3>1. CASE u = t
      BY <1>2, <1>13, <1>15, <1>19, <2>1, <3>1
    <3>2. CASE u # t
      BY <1>1, <1>15, <1>18, <2>2, <3>2 DEF ChecksInv
    <3>. QED  BY <3>1, <3>2
  <2>3. ASSUME NEW u \in Chats, NEW v \in Chats, thread'[u].pc \in Checking, thread'[v].pc \in Checking,
               thread'[u].session = thread'[v].session
        PROVE  /\ thread'[u].since <= thread'[v].now
               /\ thread'[u].session \notin raced' => u = v
    <3>1. CASE u = t /\ v = t
      BY <1>11, <1>13, <1>19, <3>1
    <3>2. CASE u = t /\ v # t
      <4>1. v \in others /\ thread'[v] = thread[v]
        BY <1>13, <1>18, <1>19, <2>3, <3>2
      <4>. QED  BY <1>11, <1>13, <1>15, <1>19, <3>2, <4>1
    <3>3. CASE u # t /\ v = t
      <4>1. u \in others /\ thread'[u] = thread[u]
        BY <1>13, <1>18, <1>19, <2>3, <3>3
      <4>2. thread[u].since <= thread[u].now /\ thread[u].now <= tau
        BY <1>1, <1>2, <1>9, <4>1 DEF ChecksInv, CheckOK
      <4>3. thread[u].since \in Nat /\ thread[u].now \in Nat
        BY <1>8, <1>9, <4>1, CheckFacts
      <4>4. thread[u].since <= tau
        BY <1>8, <4>2, <4>3
      <4>. QED  BY <1>9, <1>13, <1>15, <1>19, <3>3, <4>1, <4>4
    <3>4. CASE u # t /\ v # t
      BY <1>1, <1>15, <1>18, <2>3, <3>4 DEF ChecksInv
    <3>. QED  BY <3>1, <3>2, <3>3, <3>4
  <2>. QED  BY <2>2, <2>3 DEF ChecksInv
<1>21. LimitInv'
  <2>1. SUFFICES ASSUME Len(counts) <= 1, NEW v \in Sessions \ raced'
                 PROVE  /\ Spaced(admitted[v], Limit, Minute)
                        /\ \A k \in 1..Len(counts) : Left(counts[k][v], admitted[v], clock)
                        /\ \A u \in Chats : thread'[u].pc \in Checking /\ thread'[u].session = v =>
                             AloneOK(thread'[u], Times(u)', admitted[v])
    BY <1>15 DEF LimitInv
  <2>2. v \in Sessions \ raced
    BY <1>15, <2>1
  <2>3. /\ Spaced(admitted[v], Limit, Minute)
        /\ \A k \in 1..Len(counts) : Left(counts[k][v], admitted[v], clock)
    BY <1>1, <2>1, <2>2 DEF LimitInv
  <2>4. ASSUME NEW u \in Chats, thread'[u].pc \in Checking, thread'[u].session = v
        PROVE  AloneOK(thread'[u], Times(u)', admitted[v])
    <3>1. CASE u = t
      <4>1. v = s /\ C = counts[old.agent][s] /\ A = admitted[s]
        BY <1>2, <1>13, <1>19, <2>4, <3>1 DEF Times
      <4>2. Left(C, A, tau) /\ Spaced(A, Limit, Minute)
        BY <1>2, <1>8, <2>3, <4>1
      <4>3. Left(K, A, tau)
        BY <1>5, <1>8, <4>2, KeptLeft DEF Spaced
      <4>4. \A i \in 1..Len(A) : A[i] <= tau
        BY <1>1, <1>2, <1>8 DEF TimesInv
      <4>5. AloneOK(r, C, A)
        BY <1>13, <4>3, <4>4 DEF AloneOK
      <4>. QED  BY <1>19, <3>1, <4>1, <4>5
    <3>2. CASE u # t
      BY <1>1, <1>18, <2>1, <2>2, <2>4, <3>2 DEF LimitInv
    <3>. QED  BY <3>1, <3>2
  <2>. QED  BY <2>3, <2>4
<1>. QED  BY <1>16, <1>17, <1>20, <1>21 DEF Inv

\* A check stores its list in place of what is there.
LEMMA InvStoreTimes ==
  ASSUME Inv, NEW t \in Chats, StoreTimes(t)
  PROVE  Inv'
<1>1. TypeOK /\ TimesInv /\ ChecksInv /\ LimitInv
  BY DEF Inv
<1>2. PICK old, s, a, K, A, tau : /\ old = thread[t] /\ s = thread[t].session /\ a = thread[t].agent
                                  /\ K = thread[t].kept /\ A = admitted[thread[t].session] /\ tau = clock
  OBVIOUS
<1>3. PICK r : r = [old EXCEPT !.pc = "measuring", !.kept = <<>>]
  OBVIOUS
<1>4. thread[t].pc \in Checking /\ old.pc = "storing"
  BY <1>2, PointFacts DEF StoreTimes, At
<1>5. /\ t \in Threads /\ old \in ChatStates /\ s \in Sessions /\ a \in 1..Len(counts)
      /\ K \in Seq(Stamps) /\ A \in Seq(Stamps) /\ tau \in Nat /\ Stamps \subseteq Nat
      /\ old.now \in Stamps /\ old.since \in Stamps
  BY <1>2, <1>4, CheckFacts
<1>6. /\ r \in ChatStates /\ r.pc = "measuring" /\ r.session = s /\ r.agent = a
      /\ r.now = old.now /\ r.since = old.since
  <2>1. /\ old \in ChatStates /\ "measuring" \in ChatPoints /\ <<>> \in Seq(0..MaxTime)
        /\ old.session = s /\ old.agent = a
    BY <1>2, <1>5, PointFacts
  <2>. QED  BY ONLY <1>3, <2>1 DEF ChatStates
<1>7. thread' = [thread EXCEPT ![t] = r]
  <2>1. thread' = [thread EXCEPT ![t].pc = "measuring", ![t].kept = <<>>]
    BY DEF StoreTimes
  <2>. QED  BY <1>1, <1>2, <1>3, <1>5, <2>1 DEF TypeOK
<1>8. UNCHANGED <<globals, cached, requests, clock, admitted, raced>>
  BY DEF StoreTimes, history
<1>9. /\ counts' \in Seq([Sessions -> Seq(Stamps)]) /\ Len(counts') = Len(counts)
      /\ \A k \in 1..Len(counts) : \A v \in Sessions :
           counts'[k][v] = IF k = a /\ v = s THEN K ELSE counts[k][v]
  <2>1. counts' = [counts EXCEPT ![a][s] = K]
    BY <1>2 DEF StoreTimes
  <2>2. TypeOK /\ a \in 1..Len(counts) /\ s \in Sessions /\ K \in Seq(Stamps)
    BY <1>1, <1>5
  <2>. QED  BY <2>1, <2>2, CountsAt, Zenon
<1>10. /\ TypeOK' /\ AgentsInv' /\ OverviewInv'
       /\ \A u \in Chats : thread'[u] = IF u = t THEN r ELSE thread[u]
  <2>1. admitted' \in [Sessions -> Seq(Stamps)] /\ raced' \subseteq Sessions
    BY <1>1, <1>8 DEF TypeOK, Stamps
  <2>2. r.pc \in Checking /\ r.pc # "checking"
    BY <1>6, PointFacts
  <2>. QED  BY <1>2, <1>4, <1>6, <1>7, <1>8, <1>9, <2>1, <2>2, CheckStep
<1>11. Embeds(K, A) /\ (\A i \in 1..Len(K) : K[i] + Minute > old.now) /\ old.since <= old.now
  BY <1>1, <1>2, <1>4 DEF ChecksInv, CheckOK
<1>12. TimesInv'
  <2>1. ASSUME NEW k \in 1..Len(counts), NEW v \in Sessions PROVE Embeds(counts'[k][v], admitted[v])
    <3>1. CASE k = a /\ v = s
      <4>1. counts'[k][v] = K /\ admitted[v] = A
        BY <1>2, <1>9, <3>1
      <4>. QED  BY <1>11, <4>1
    <3>2. CASE ~(k = a /\ v = s)
      BY <1>1, <1>9, <3>2 DEF TimesInv
    <3>. QED  BY <3>1, <3>2
  <2>. QED  BY <1>1, <1>8, <1>9, <2>1 DEF TimesInv
<1>13. \A u \in Chats : thread[u].pc \in Checking =>
         /\ thread[u].agent \in 1..Len(counts) /\ thread[u].session \in Sessions
         /\ thread[u].now \in Nat /\ thread[u].since \in Nat
  BY <1>5, CheckFacts
<1>14. \A u \in Chats : /\ thread'[u].session = thread[u].session
                        /\ thread'[u].agent = thread[u].agent
                        /\ thread'[u].now = thread[u].now /\ thread'[u].since = thread[u].since
                        /\ thread'[u].pc \in Checking <=> thread[u].pc \in Checking
  BY <1>2, <1>4, <1>6, <1>10, PointFacts
<1>15. \A u \in Chats : thread[u].pc \in Checking =>
         Times(u)' = IF thread[u].agent = a /\ thread[u].session = s THEN K ELSE Times(u)
  BY <1>9, <1>13, <1>14 DEF Times
<1>16. Times(t)' = K /\ thread'[t] = r /\ thread[t] = old
  BY <1>2, <1>4, <1>10, <1>15
<1>17. \A i \in 1..Len(K) : K[i] \in Nat
  BY <1>5, ElementOfSeq
<1>18. old.now \in Nat /\ old.since \in Nat
  BY <1>5
<1>19. ChecksInv'
  <2>1. ASSUME NEW u \in Chats, thread[u].pc \in Checking
        PROVE  thread'[u].now <= clock' /\ CheckOK(thread'[u], Times(u)', admitted'[thread'[u].session])
    <3>1. CASE u = t
      <4>1. CheckOK(r, K, A)
        <5>1. \A i \in 1..Len(K) : K[i] + Minute > old.since
          BY <1>11, <1>17, <1>18, Bounds
        <5>. QED  BY <1>6, <1>11, <5>1 DEF CheckOK
      <4>2. r.now <= tau
        BY <1>1, <1>2, <1>4, <1>6 DEF ChecksInv
      <4>. QED  BY <1>2, <1>6, <1>8, <1>16, <3>1, <4>1, <4>2
    <3>2. CASE u # t
      <4>1. PICK q, B : q = thread[u] /\ B = admitted[thread[u].session]
        OBVIOUS
      <4>2. thread'[u] = q /\ q.now <= clock /\ CheckOK(q, Times(u), B)
        BY <1>1, <1>10, <2>1, <3>2, <4>1 DEF ChecksInv
      <4>3. CASE Times(u)' = Times(u)
        BY <1>8, <4>1, <4>2, <4>3
      <4>4. CASE Times(u)' = K /\ thread[u].session = s
        <5>1. q.since <= old.now /\ q.since \in Nat
          BY <1>1, <1>2, <1>4, <1>13, <2>1, <4>1, <4>4 DEF ChecksInv
        <5>2. \A i \in 1..Len(K) : K[i] + Minute > q.since
          BY <1>11, <1>17, <1>18, <5>1, Bounds
        <5>3. CheckOK(q, K, B)
          BY <4>2, <5>2 DEF CheckOK
        <5>. QED  BY <1>8, <4>1, <4>2, <4>4, <5>3
      <4>. QED  BY <1>15, <2>1, <4>3, <4>4
    <3>. QED  BY <3>1, <3>2
  <2>2. ASSUME NEW u \in Chats, NEW v \in Chats, thread[u].pc \in Checking, thread[v].pc \in Checking,
               thread[u].session = thread[v].session
        PROVE  /\ thread[u].since <= thread[v].now
               /\ thread[u].session \notin raced => u = v
    BY <1>1, <2>2 DEF ChecksInv
  <2>. QED  BY <1>8, <1>14, <2>1, <2>2 DEF ChecksInv
<1>20. LimitInv'
  <2>1. SUFFICES ASSUME Len(counts) <= 1, NEW v \in Sessions \ raced
                 PROVE  /\ Spaced(admitted[v], Limit, Minute)
                        /\ \A k \in 1..Len(counts) : Left(counts'[k][v], admitted[v], clock)
                        /\ \A u \in Chats : thread[u].pc \in Checking /\ thread[u].session = v =>
                             AloneOK(thread'[u], Times(u)', admitted[v])
    BY <1>8, <1>9, <1>14 DEF LimitInv
  <2>2. /\ Spaced(admitted[v], Limit, Minute)
        /\ \A k \in 1..Len(counts) : Left(counts[k][v], admitted[v], clock)
        /\ \A u \in Chats : thread[u].pc \in Checking /\ thread[u].session = v =>
             AloneOK(thread[u], Times(u), admitted[v])
    BY <1>1, <2>1 DEF LimitInv
  <2>3. v = s => /\ \A i \in 1..Len(A) : A[i] <= old.now
                 /\ Left(K, A, old.now)
    BY <1>2, <1>4, <2>2, PointFacts DEF AloneOK
  <2>4. ASSUME NEW k \in 1..Len(counts) PROVE Left(counts'[k][v], admitted[v], clock)
    <3>1. CASE k = a /\ v = s
      <4>1. old.now <= tau /\ old.now \in Nat
        BY <1>1, <1>2, <1>4, <1>5 DEF ChecksInv
      <4>2. Left(K, A, tau)
        BY <1>5, <2>3, <3>1, <4>1, LeftLater
      <4>3. counts'[k][v] = K /\ admitted[v] = A
        BY <1>2, <1>9, <3>1
      <4>. QED  BY <1>2, <4>2, <4>3
    <3>2. CASE ~(k = a /\ v = s)
      BY <1>9, <2>2, <3>2
    <3>. QED  BY <3>1, <3>2
  <2>5. ASSUME NEW u \in Chats, thread[u].pc \in Checking, thread[u].session = v
        PROVE  AloneOK(thread'[u], Times(u)', admitted[v])
    <3>1. CASE u = t
      <4>1. AloneOK(r, K, A)
        <5>1. v = s
          BY <1>2, <2>5, <3>1
        <5>. QED  BY <1>6, <2>3, <5>1 DEF AloneOK
      <4>. QED  BY <1>2, <1>16, <2>5, <3>1, <4>1
    <3>2. CASE u # t
      <4>1. v # s
        BY <1>1, <1>2, <1>4, <2>1, <2>5, <3>2 DEF ChecksInv
      <4>. QED  BY <1>10, <1>15, <2>2, <2>5, <3>2, <4>1
    <3>. QED  BY <3>1, <3>2
  <2>. QED  BY <2>2, <2>4, <2>5
<1>. QED  BY <1>10, <1>12, <1>19, <1>20 DEF Inv

\* An admission counts from when the check began.
LEMMA InvAdmit ==
  ASSUME Inv, NEW t \in Chats, Admit(t)
  PROVE  Inv'
<1>1. TypeOK /\ TimesInv /\ ChecksInv /\ LimitInv
  BY DEF Inv
<1>2. PICK old, s, a, C, A, tau, x : /\ old = thread[t] /\ s = thread[t].session
                                     /\ a = thread[t].agent /\ C = Times(t)
                                     /\ A = admitted[thread[t].session]
                                     /\ tau = clock /\ x = thread[t].now
  OBVIOUS
<1>3. PICK r, B, D : /\ r = [Message(s) EXCEPT !.pc = "intake"]
                     /\ B = Append(A, x) /\ D = Append(C, x)
  OBVIOUS
<1>4. thread[t].pc \in Checking /\ old.pc = "appending"
  BY <1>2, PointFacts DEF Admit, At
<1>5. /\ t \in Threads /\ old \in ChatStates /\ s \in Sessions /\ a \in 1..Len(counts)
      /\ C \in Seq(Stamps) /\ A \in Seq(Stamps) /\ Embeds(C, A)
      /\ tau \in Nat /\ x \in Stamps /\ x \in Nat
  BY <1>2, <1>4, CheckFacts
<1>6. r \in ChatStates /\ r.pc = "intake"
  <2>1. PICK q : q = Message(s)
    OBVIOUS
  <2>2. q \in ChatStates /\ r = [q EXCEPT !.pc = "intake"] /\ "intake" \in ChatPoints
    BY <1>3, <1>5, <2>1, Bounds, PointFacts DEF Message, ChatStates
  <2>. QED  BY ONLY <2>2, ChatFields
<1>7. thread' = [thread EXCEPT ![t] = r]
  BY <1>2, <1>3 DEF Admit
<1>8. UNCHANGED <<globals, cached, requests, clock, raced>>
  BY DEF Admit
<1>9. B \in Seq(Stamps) /\ D \in Seq(Stamps) /\ Embeds(D, B)
  BY <1>3, <1>5, AppendProperties, EmbedsAppend
<1>10. C = counts[a][s]
  BY <1>2 DEF Times
<1>11. /\ counts' \in Seq([Sessions -> Seq(Stamps)]) /\ Len(counts') = Len(counts)
       /\ \A k \in 1..Len(counts) : \A v \in Sessions :
            counts'[k][v] = IF k = a /\ v = s THEN D ELSE counts[k][v]
  <2>1. counts' = [counts EXCEPT ![a][s] = D]
    <3>1. counts' = [counts EXCEPT ![a][s] = Append(@, x)]
      BY <1>2 DEF Admit
    <3>2. counts \in Seq([Sessions -> Seq(Stamps)])
      BY <1>1 DEF TypeOK, Stamps
    <3>. QED  BY <1>3, <1>5, <1>10, <3>1, <3>2
  <2>2. TypeOK /\ a \in 1..Len(counts) /\ s \in Sessions /\ D \in Seq(Stamps)
    BY <1>1, <1>5, <1>9
  <2>. QED  BY <2>1, <2>2, CountsAt, Zenon
<1>12. /\ admitted' \in [Sessions -> Seq(Stamps)] /\ admitted'[s] = B
       /\ \A v \in Sessions : v # s => admitted'[v] = admitted[v]
  <2>1. admitted \in [Sessions -> Seq(Stamps)] /\ A = admitted[s]
    BY <1>1, <1>2 DEF TypeOK, Stamps
  <2>2. admitted' = [admitted EXCEPT ![s] = B]
    BY <1>2, <1>3, <2>1 DEF Admit
  <2>. QED  BY <1>5, <1>9, <2>1, <2>2
<1>13. /\ TypeOK' /\ AgentsInv' /\ OverviewInv'
       /\ \A u \in Chats : thread'[u] = IF u = t THEN r ELSE thread[u]
  <2>1. raced' \subseteq Sessions
    BY <1>1, <1>8 DEF TypeOK
  <2>2. r.pc \notin Checking /\ r.pc # "checking"
    BY <1>6, PointFacts
  <2>. QED  BY <1>2, <1>4, <1>6, <1>7, <1>8, <1>11, <1>12, <2>1, <2>2, CheckStep
<1>14. x <= tau
  BY <1>1, <1>2, <1>4 DEF ChecksInv
<1>15. TimesInv'
  <2>1. ASSUME NEW v \in Sessions, NEW i \in 1..Len(admitted'[v]) PROVE admitted'[v][i] <= clock'
    <3>1. CASE v = s
      <4>1. Len(B) = Len(A) + 1 /\ B[Len(A) + 1] = x /\ \A j \in 1..Len(A) : B[j] = A[j]
        BY <1>3, <1>5, AppendProperties
      <4>2. \A j \in 1..Len(A) : A[j] <= tau
        BY <1>1, <1>2, <1>5 DEF TimesInv
      <4>3. i \in 1..Len(A) \/ i = Len(A) + 1
        <5>1. Len(A) \in Nat /\ i \in 1..Len(A) + 1
          BY <1>5, <1>12, <3>1, <4>1, LenProperties
        <5>. QED  BY <5>1
      <4>4. B[i] <= tau
        BY <1>14, <4>1, <4>2, <4>3
      <4>. QED  BY <1>2, <1>8, <1>12, <3>1, <4>4
    <3>2. CASE v # s
      BY <1>1, <1>8, <1>12, <3>2 DEF TimesInv
    <3>. QED  BY <3>1, <3>2
  <2>2. ASSUME NEW k \in 1..Len(counts), NEW v \in Sessions PROVE Embeds(counts'[k][v], admitted'[v])
    <3>1. CASE k = a /\ v = s
      BY <1>9, <1>11, <1>12, <3>1
    <3>2. CASE k # a /\ v = s
      <4>1. PICK W : W = counts[k][s]
        OBVIOUS
      <4>2. counts \in Seq([Sessions -> Seq(Stamps)])
        BY <1>1 DEF TypeOK, Stamps
      <4>3. W \in Seq(Stamps)
        BY <1>5, <4>1, <4>2, ElementOfSeq
      <4>4. Embeds(W, A)
        BY <1>1, <1>2, <1>5, <4>1 DEF TimesInv
      <4>5. Embeds(W, B)
        BY <1>3, <1>5, <4>3, <4>4, EmbedsAppend
      <4>. QED  BY <1>11, <1>12, <3>2, <4>1, <4>5
    <3>3. CASE v # s
      BY <1>1, <1>11, <1>12, <3>3 DEF TimesInv
    <3>. QED  BY <3>1, <3>2, <3>3
  <2>. QED  BY <1>11, <2>1, <2>2 DEF TimesInv
<1>16. \A u \in Chats : thread'[u].pc \in Checking =>
         /\ u # t /\ thread'[u] = thread[u] /\ thread[u].pc \in Checking
         /\ thread[u].agent \in 1..Len(counts) /\ thread[u].session \in Sessions
         /\ thread[u].now \in Nat /\ thread[u].since \in Nat /\ thread[u].kept \in Seq(Stamps)
  <2>1. ASSUME NEW u \in Chats, thread'[u].pc \in Checking
        PROVE  u # t /\ thread'[u] = thread[u] /\ thread[u].pc \in Checking
    BY <1>6, <1>13, <2>1, PointFacts
  <2>. QED  BY <2>1, CheckFacts
<1>17. \A u \in Chats : thread'[u].pc \in Checking =>
         Times(u)' = IF thread[u].agent = a /\ thread[u].session = s THEN D ELSE Times(u)
  BY <1>11, <1>16 DEF Times
<1>18. ChecksInv'
  <2>1. ASSUME NEW u \in Chats, thread'[u].pc \in Checking
        PROVE  thread'[u].now <= clock' /\ CheckOK(thread'[u], Times(u)', admitted'[thread'[u].session])
    <3>1. PICK q, E : q = thread[u] /\ E = Times(u)
      OBVIOUS
    <3>2. thread'[u] = q /\ q.now <= clock /\ CheckOK(q, E, admitted[q.session])
      BY <1>1, <1>16, <2>1, <3>1 DEF ChecksInv
    <3>3. CASE q.session # s
      BY <1>8, <1>12, <1>16, <1>17, <2>1, <3>1, <3>2, <3>3
    <3>4. CASE q.session = s
      <4>1. CheckOK(q, E, A)
        BY <1>2, <3>2, <3>4
      <4>2. q.since <= x /\ q.since \in Nat
        BY <1>1, <1>2, <1>4, <1>16, <2>1, <3>1, <3>4 DEF ChecksInv
      <4>3. q.kept \in Seq(Stamps) /\ (q.pc = "storing" => Embeds(q.kept, B))
        <5>1. q.kept \in Seq(Stamps)
          BY <1>16, <2>1, <3>1
        <5>2. PICK W : W = q.kept
          OBVIOUS
        <5>3. Embeds(W, A) => Embeds(W, B)
          BY <1>3, <1>5, <5>1, <5>2, EmbedsAppend
        <5>. QED  BY <4>1, <5>1, <5>2, <5>3 DEF CheckOK
      <4>4. CheckOK(q, E, B)
        BY <4>1, <4>3 DEF CheckOK
      <4>5. CASE q.agent = a
        <5>1. E = C
          BY <1>2, <3>1, <3>4, <4>5 DEF Times
        <5>2. Len(D) = Len(C) + 1 /\ D[Len(C) + 1] = x /\ \A i \in 1..Len(C) : D[i] = C[i]
          BY <1>3, <1>5, AppendProperties
        <5>3. \A i \in 1..Len(D) : i \in 1..Len(C) \/ i = Len(C) + 1
          <6>1. PICK m \in Nat : m = Len(C)
            BY <1>5, LenProperties
          <6>2. \A i \in 1..m + 1 : i \in 1..m \/ i = m + 1
            BY <6>1
          <6>. QED  BY <5>2, <6>1, <6>2
        <5>4. x + Minute > q.since
          BY <1>5, <4>2, Bounds
        <5>5. q.pc = "measuring" => \A i \in 1..Len(D) : D[i] + Minute > q.since
          BY <4>1, <5>1, <5>2, <5>3, <5>4 DEF CheckOK
        <5>6. CheckOK(q, D, B)
          BY <4>4, <5>5 DEF CheckOK
        <5>. QED  BY <1>8, <1>12, <1>17, <2>1, <3>1, <3>2, <3>4, <4>5, <5>6
      <4>6. CASE q.agent # a
        BY <1>8, <1>12, <1>17, <2>1, <3>1, <3>2, <3>4, <4>4, <4>6
      <4>. QED  BY <4>5, <4>6
    <3>. QED  BY <3>3, <3>4
  <2>2. ASSUME NEW u \in Chats, NEW v \in Chats, thread'[u].pc \in Checking, thread'[v].pc \in Checking,
               thread'[u].session = thread'[v].session
        PROVE  /\ thread'[u].since <= thread'[v].now
               /\ thread'[u].session \notin raced => u = v
    BY <1>1, <1>16, <2>2 DEF ChecksInv
  <2>. QED  BY <1>8, <2>1, <2>2 DEF ChecksInv
<1>19. LimitInv'
  <2>1. SUFFICES ASSUME Len(counts) <= 1, NEW v \in Sessions \ raced
                 PROVE  /\ Spaced(admitted'[v], Limit, Minute)
                        /\ \A k \in 1..Len(counts) : Left(counts'[k][v], admitted'[v], clock)
                        /\ \A u \in Chats : thread'[u].pc \in Checking /\ thread'[u].session = v =>
                             AloneOK(thread'[u], Times(u)', admitted'[v])
    BY <1>8, <1>11 DEF LimitInv
  <2>2. /\ Spaced(admitted[v], Limit, Minute)
        /\ \A k \in 1..Len(counts) : Left(counts[k][v], admitted[v], clock)
        /\ \A u \in Chats : thread[u].pc \in Checking /\ thread[u].session = v =>
             AloneOK(thread[u], Times(u), admitted[v])
    BY <1>1, <2>1 DEF LimitInv
  <2>3. CASE v = s
    <3>1. AloneOK(old, C, A)
      BY <1>2, <1>4, <2>2, <2>3
    <3>2. Left(C, A, x) /\ Len(C) < Limit /\ \A i \in 1..Len(A) : A[i] <= x
      BY <1>2, <1>4, <3>1 DEF AloneOK
    <3>3. Spaced(A, Limit, Minute)
      BY <1>2, <2>2, <2>3
    <3>4. Spaced(B, Limit, Minute) /\ Left(D, B, x)
      BY <1>3, <1>5, <3>2, <3>3, LeftAppend
    <3>5. Left(D, B, tau)
      BY <1>5, <1>9, <1>14, <3>4, LeftLater
    <3>6. \A k \in 1..Len(counts) : k = a
      <4>1. PICK n \in Nat : n = Len(counts)
        BY <1>1, LenProperties DEF TypeOK
      <4>2. n <= 1 /\ a \in 1..n
        BY <1>5, <2>1, <4>1
      <4>3. \A k \in 1..n : k = a
        BY ONLY <4>2, n \in Nat
      <4>. QED  BY <4>1, <4>3
    <3>7. \A k \in 1..Len(counts) : counts'[k][v] = D
      BY <1>5, <1>11, <2>3, <3>6
    <3>8. \A u \in Chats : ~(thread'[u].pc \in Checking /\ thread'[u].session = v)
      BY <1>1, <1>2, <1>4, <1>16, <2>1, <2>3 DEF ChecksInv
    <3>. QED  BY <1>2, <1>12, <2>3, <3>4, <3>5, <3>7, <3>8
  <2>4. CASE v # s
    <3>1. admitted'[v] = admitted[v] /\ \A k \in 1..Len(counts) : counts'[k][v] = counts[k][v]
      BY <1>11, <1>12, <2>4
    <3>2. ASSUME NEW u \in Chats, thread'[u].pc \in Checking, thread'[u].session = v
          PROVE  AloneOK(thread'[u], Times(u)', admitted'[v])
      <4>1. thread'[u] = thread[u] /\ Times(u)' = Times(u) /\ thread[u].pc \in Checking
        BY <1>16, <1>17, <2>4, <3>2
      <4>. QED  BY <2>2, <3>1, <3>2, <4>1
    <3>. QED  BY <2>2, <3>1, <3>2
  <2>. QED  BY <2>3, <2>4
<1>. QED  BY <1>13, <1>15, <1>18, <1>19 DEF Inv

---------------------------------------------------------------------------
(* The theorems.                                                           *)

\* The invariant holds in every state of every behaviour.
THEOREM Invariance == Spec => []Inv
<1>1. Inv /\ [Next]_vars => Inv'
  <2>. SUFFICES ASSUME Inv, [Next]_vars PROVE Inv'
    OBVIOUS
  <2>1. ASSUME NEW t \in Threads, SeeAgent(t) \/ SeeProxy(t) \/ TakeAgents(t) PROVE Inv'
    BY <2>1, InvTake
  <2>2. ASSUME NEW t \in Threads, MakeAgent(t) PROVE Inv'
    BY <2>2, InvMakeAgent
  <2>3. ASSUME NEW t \in Threads, MakeProxy(t) PROVE Inv'
    BY <2>3, InvMakeProxy
  <2>4. ASSUME \/ \E t \in Chats : \E s \in Sessions : Receive(t, s)
               \/ \E t \in Polls : Poll(t)
               \/ TurnAway
        PROVE  Inv'
    BY <2>4, InvArrive
  <2>5. ASSUME NEW t \in Chats,
               \/ TooLong(t) \/ Refuse(t) \/ AnsweredAtOnce(t) \/ FetchData(t) \/ Orchestrated(t)
               \/ \E reply \in LlmReplies : Classify(t, reply)
        PROVE  Inv'
    BY <2>5, InvPipeline
  <2>6. ASSUME NEW t \in Chats, FilterTimes(t) PROVE Inv'
    BY <2>6, InvFilterTimes
  <2>7. ASSUME NEW t \in Chats, StoreTimes(t) PROVE Inv'
    BY <2>7, InvStoreTimes
  <2>8. ASSUME NEW t \in Chats, BelowLimit(t) PROVE Inv'
    BY <2>8, InvBelowLimit
  <2>9. ASSUME NEW t \in Chats, Admit(t) PROVE Inv'
    BY <2>9, InvAdmit
  <2>10. ASSUME NEW t \in Polls, NoTwins(t) \/ Return(t) PROVE Inv'
    BY <2>10, InvEndPoll
  <2>11. ASSUME NEW t \in Polls, Look(t) PROVE Inv'
    BY <2>11, InvLook
  <2>12. ASSUME NEW t \in Polls, Overview(t) PROVE Inv'
    BY <2>12, InvOverview
  <2>13. ASSUME NEW t \in Polls, Cache(t) \/ StampCache(t) PROVE Inv'
    BY <2>13, InvCache
  <2>14. CASE Tick
    BY <2>14, InvTick
  <2>15. CASE UNCHANGED vars
    <3>1. UNCHANGED <<agent, proxy, counts, cached, thread, requests, clock, admitted, raced>>
      BY <2>15 DEF vars, globals, history
    <3>2. \A t \in Chats : Times(t)' = Times(t)
      BY <3>1 DEF Times
    <3>3. TypeOK' /\ AgentsInv'
      BY <3>1 DEF Inv, TypeOK, AgentsInv, MadeOK
    <3>4. TimesInv' /\ ChecksInv' /\ LimitInv' /\ OverviewInv'
      BY <3>1, <3>2 DEF Inv, TimesInv, ChecksInv, LimitInv, OverviewInv
    <3>. QED  BY <3>3, <3>4 DEF Inv
  <2>16. CASE Next
    BY <2>1, <2>2, <2>3, <2>4, <2>5, <2>6, <2>7, <2>8, <2>9, <2>10, <2>11, <2>12, <2>13,
       <2>14, <2>16, Zenon DEF Next
  <2>. QED  BY <2>15, <2>16
<1>. QED  BY InvInit, <1>1, PTL DEF Spec

\* Each variable has its type, whatever the threads do.
THEOREM TypeCorrect == Spec => []TypeOK
<1>1. Inv => TypeOK
  BY DEF Inv
<1>. QED  BY <1>1, Invariance, PTL

\* A session is refused a message only when Limit of its messages were admitted
\* in the minute before the earliest check that overlaps, or since; and where no
\* checks of it overlapped and one agent was made, no minute admits more.
THEOREM RateLimit == Spec => []LimitHolds
<1>1. Inv => LimitHolds
  <2>. SUFFICES ASSUME Inv PROVE LimitHolds
    OBVIOUS
  <2>1. TypeOK /\ TimesInv /\ ChecksInv /\ LimitInv
    BY DEF Inv
  <2>2. ASSUME NEW t \in Chats, At(t, "measuring"), Len(Times(t)) >= Limit
        PROVE  Admissions(thread[t].session, thread[t].since - Minute, clock) >= Limit
    <3>1. thread[t].pc = "measuring" /\ thread[t].pc \in Checking
      BY <2>2, PointFacts DEF At
    <3>2. PICK s, W, A, since, tau : /\ s = thread[t].session /\ W = Times(t)
                                     /\ A = admitted[thread[t].session]
                                     /\ since = thread[t].since /\ tau = clock
      OBVIOUS
    <3>3. /\ W \in Seq(Stamps) /\ A \in Seq(Stamps) /\ Embeds(W, A) /\ s \in Sessions
          /\ since \in Nat /\ tau \in Nat /\ Stamps \subseteq Nat
      BY <3>1, <3>2, CheckFacts
    <3>4. \A i \in 1..Len(W) : W[i] + Minute > since
      BY <2>1, <3>1, <3>2 DEF ChecksInv, CheckOK
    <3>5. \A i \in 1..Len(A) : A[i] <= tau /\ A[i] \in Nat
      BY <2>1, <3>2, <3>3, ElementOfSeq DEF TimesInv
    <3>6. PICK I : I = {i \in DOMAIN A : since - Minute < A[i] /\ A[i] <= tau}
      OBVIOUS
    <3>7. DOMAIN A = 1..Len(A)
      BY <3>3, LenProperties
    <3>8. ASSUME NEW i \in 1..Len(A), NEW j \in 1..Len(W), W[j] = A[i] PROVE i \in I
      <4>1. A[i] + Minute > since /\ A[i] \in Nat /\ A[i] <= tau
        BY <3>4, <3>5, <3>8
      <4>2. since - Minute < A[i]
        BY <3>3, <4>1, Bounds
      <4>. QED  BY <3>6, <3>7, <4>1, <4>2
    <3>9. I \subseteq 1..Len(A)
      BY <3>6, <3>7
    <3>10. Cardinality(I) \in Nat /\ Len(W) <= Cardinality(I)
      BY <3>3, <3>8, <3>9, EmbedsCount
    <3>11. Cardinality(I) >= Limit
      BY <2>2, <3>2, <3>3, <3>10, Bounds, LenProperties
    <3>12. Admissions(thread[t].session, thread[t].since - Minute, clock) = Cardinality(I)
      BY <3>2, <3>6 DEF Admissions
    <3>. QED  BY <3>11, <3>12
  <2>3. ASSUME NEW s \in Sessions \ raced, Len(counts) <= 1, NEW tau \in 0..clock
        PROVE  Admissions(s, tau - Minute, tau) <= Limit
    <3>1. PICK A, I : A = admitted[s] /\ I = {i \in DOMAIN A : tau - Minute < A[i] /\ A[i] <= tau}
      OBVIOUS
    <3>2. Spaced(A, Limit, Minute) /\ tau \in Int
      BY <2>1, <2>3, <3>1 DEF LimitInv
    <3>3. A \in Seq(Nat)
      <4>1. A \in Seq(Stamps) /\ Stamps \subseteq Nat
        BY <2>1, <3>1, Bounds DEF TypeOK, Stamps
      <4>. QED  BY <4>1, SeqMonotonic
    <3>4. Cardinality(I) <= Limit
      BY <3>1, <3>2, <3>3, Bounds, SpacedCount
    <3>5. Admissions(s, tau - Minute, tau) = Cardinality(I)
      BY <3>1 DEF Admissions
    <3>. QED  BY <3>4, <3>5
  <2>. QED  BY <2>2, <2>3 DEF LimitHolds
<1>. QED  BY <1>1, Invariance, PTL

\* A poll is answered with an overview no older than an overview is kept and a
\* fetch takes, however polls that began before store and stamp theirs.
THEOREM FreshEnough == Spec => []OverviewFresh
<1>1. Inv => OverviewFresh
  <2>. SUFFICES ASSUME Inv, NEW t \in Polls, At(t, "returning")
                PROVE  cached[thread[t].proxy].overview >= thread[t].now - Fresh - CallTime
    BY DEF OverviewFresh
  <2>1. thread[t].pc = "returning"
    BY DEF At
  <2>2. PollOK(thread[t], cached[thread[t].proxy], clock)
    BY <2>1 DEF Inv, OverviewInv
  <2>. QED  BY <2>1, <2>2 DEF PollOK
<1>. QED  BY <1>1, Invariance, PTL

---------------------------------------------------------------------------
(* The risk engine: arithmetic.                                            *)

\* A quotient is below what times the divisor exceeds the dividend.
LEMMA QuotientBelow ==
  ASSUME NEW a \in Int, NEW b \in Nat \ {0}, NEW g \in Int, a < g * b
  PROVE  a \div b < g
<1>1. PICK q : q = a \div b /\ q \in Int /\ q * b <= a
  OBVIOUS
<1>2. CASE q >= g
  <2>1. PICK d \in Nat : q = g + d
    <3>1. q - g \in Nat /\ q = g + (q - g)
      BY <1>1, <1>2
    <3>. QED  BY <3>1
  <2>2. q * b = g * b + d * b /\ d * b \in Nat /\ g * b \in Int
    BY <2>1
  <2>. QED  BY <1>1, <2>2
<1>. QED  BY <1>1, <1>2

\* One term more on both sides of a bound.
LEMMA BoundStep ==
  ASSUME NEW s \in Int, NEW t \in Nat, NEW x \in Int, NEW y \in Nat, NEW c \in Int,
         s <= c * t, x <= c
  PROVE  s + x * y \in Int /\ t + y \in Nat /\ s + x * y <= c * (t + y) /\ t + y >= y
<1>1. c - x \in Nat
  OBVIOUS
<1>2. (c - x) * y \in Nat
  BY <1>1
<1>3. (c - x) * y = c * y - x * y
  OBVIOUS
<1>4. x * y \in Int /\ c * y \in Int /\ c * t \in Int /\ c * (t + y) = c * t + c * y
  OBVIOUS
<1>. QED  BY <1>2, <1>3, <1>4

\* The sum of products is at most the bound of one factor times the sum of the
\* other, which is at least any of its terms.
LEMMA TotalBound ==
  ASSUME NEW n \in Nat, NEW v \in [1..n -> Int], NEW w \in [1..n -> Nat], NEW c \in Int,
         \A k \in 1..n : v[k] <= c
  PROVE  /\ Total([k \in 1..n |-> v[k] * w[k]]) \in Int /\ Total(w) \in Nat
         /\ Total([k \in 1..n |-> v[k] * w[k]]) <= c * Total(w)
         /\ n >= 1 => Total(w) >= w[n]
<1>1. PICK p : p = [k \in 1..n |-> v[k] * w[k]]
  OBVIOUS
<1>2. p \in [1..n -> Int] /\ \A k \in 1..n : p[k] = v[k] * w[k]
  <2>1. \A x \in Int, y \in Nat : x * y \in Int
    OBVIOUS
  <2>2. ASSUME NEW k \in 1..n PROVE v[k] * w[k] \in Int
    BY <2>1
  <2>. QED  BY <1>1, <2>2
<1>3. p \in Seq(Int) /\ Len(p) = n /\ w \in Seq(Int) /\ Len(w) = n
  <2>1. p \in Seq(Int) /\ Len(p) = n
    BY <1>2
  <2>2. w \in Seq(Nat) /\ Len(w) = n
    OBVIOUS
  <2>. QED  BY <2>1, <2>2, SeqMonotonic
<1>4. PICK f : /\ Total(p) = f[n] /\ f[0] = 0 /\ \A k \in 1..n : f[k] = f[k - 1] + p[k]
  <2>1. \E sum : /\ Total(p) = sum[Len(p)] /\ sum[0] = 0
                /\ \A k \in 1..Len(p) : sum[k] = sum[k - 1] + p[k]
    BY <1>3, SumExists
  <2>. QED  BY <1>3, <2>1
<1>5. PICK g : /\ Total(w) = g[n] /\ g[0] = 0 /\ \A k \in 1..n : g[k] = g[k - 1] + w[k]
  <2>1. \E sum : /\ Total(w) = sum[Len(w)] /\ sum[0] = 0
                /\ \A k \in 1..Len(w) : sum[k] = sum[k - 1] + w[k]
    BY <1>3, SumExists
  <2>. QED  BY <1>3, <2>1
<1>. DEFINE Holds(m) == /\ f[m] \in Int /\ g[m] \in Nat /\ f[m] <= c * g[m]
                        /\ m >= 1 => g[m] >= w[m]
            S == {m \in Nat : m <= n => Holds(m)}
<1>6. 0 \in S
  <2>1. c * 0 = 0
    OBVIOUS
  <2>. QED  BY <1>4, <1>5, <2>1
<1>7. ASSUME NEW m \in Nat, m \in S PROVE m + 1 \in S
  <2>. SUFFICES ASSUME m + 1 <= n
                PROVE  /\ f[m + 1] \in Int /\ g[m + 1] \in Nat /\ f[m + 1] <= c * g[m + 1]
                       /\ g[m + 1] >= w[m + 1]
    OBVIOUS
  <2>1. m + 1 \in 1..n /\ (m + 1) - 1 = m
    OBVIOUS
  <2>2. v[m + 1] \in Int /\ w[m + 1] \in Nat /\ v[m + 1] <= c
    BY <2>1
  <2>3. f[m + 1] = f[m] + v[m + 1] * w[m + 1] /\ g[m + 1] = g[m] + w[m + 1]
    BY <1>2, <1>4, <1>5, <2>1
  <2>4. Holds(m)
    BY <1>7
  <2>5. f[m] \in Int /\ g[m] \in Nat /\ f[m] <= c * g[m]
    BY <2>4
  <2>6. /\ f[m] + v[m + 1] * w[m + 1] \in Int /\ g[m] + w[m + 1] \in Nat
        /\ f[m] + v[m + 1] * w[m + 1] <= c * (g[m] + w[m + 1]) /\ g[m] + w[m + 1] >= w[m + 1]
    BY <2>2, <2>5, BoundStep
  <2>. QED  BY <2>3, <2>6
<1>8. n \in S
  <2>. HIDE DEF S
  <2>. QED  BY <1>6, <1>7, SetInduction
<1>. QED  BY <1>1, <1>4, <1>5, <1>8

\* Every machine has a place, among as many.
LEMMA PlaceRange ==
  ASSUME NEW n \in Nat, NEW risks, DOMAIN risks = 1..n, NEW k \in 1..n,
         \A j \in 1..n : risks[j].score \in Int
  PROVE  Place(risks, k) \in 1..n
<1>. DEFINE H == {j \in DOMAIN risks :
                    risks[j].score > risks[k].score \/ (risks[j].score = risks[k].score /\ j <= k)}
<1>1. H \subseteq 1..n /\ k \in H
  OBVIOUS
<1>2. IsFiniteSet(1..n) /\ Cardinality(1..n) = n
  <2>1. IsFiniteSet(1..n) /\ Cardinality(1..n) = IF 1 > n THEN 0 ELSE n - 1 + 1
    BY FS_Interval
  <2>. QED  BY <2>1
<1>3. IsFiniteSet(H) /\ Cardinality(H) \in Nat /\ Cardinality(H) <= n
  BY <1>1, <1>2, FS_Subset, FS_CardinalityType
<1>4. Cardinality(H) # 0
  BY <1>1, <1>3, FS_EmptySet
<1>. QED  BY <1>3, <1>4 DEF Place

\* Some machine's score is at least the plant's.
LEMMA GlobalIsReached ==
  ASSUME NEW n \in 1..6, NEW risks, DOMAIN risks = 1..n, \A k \in 1..n : risks[k].score \in Int
  PROVE  /\ GlobalScore(risks) \in Int
         /\ \E k \in 1..n : risks[k].score >= GlobalScore(risks)
<1>0. n \in Nat /\ n >= 1
  OBVIOUS
<1>1. PICK w : w = [k \in 1..n |-> 60 \div Place(risks, k)]
  OBVIOUS
<1>2. PICK v : v = [k \in 1..n |-> risks[k].score]
  OBVIOUS
<1>3. v \in [1..n -> Int] /\ \A k \in 1..n : v[k] = risks[k].score
  BY <1>2
<1>4. w \in [1..n -> Nat] /\ w[n] >= 1
  <2>1. ASSUME NEW k \in 1..n PROVE w[k] \in Nat /\ w[k] >= 1
    <3>1. PICK q \in 1..6 : q = Place(risks, k)
      <4>1. Place(risks, k) \in 1..n
        BY PlaceRange
      <4>. QED  BY <4>1
    <3>2. 60 \div q \in Nat /\ 60 \div q >= 1
      BY <3>1
    <3>. QED  BY <1>1, <3>1, <3>2
  <2>. QED  BY <1>1, <2>1
<1>5. PICK p : p = [k \in 1..n |-> v[k] * w[k]]
  OBVIOUS
<1>6. PICK a, b, g : /\ a = Total(p) /\ b = Total(w) /\ g = GlobalScore(risks)
                     /\ g = (2 * a + b) \div (2 * b)
  <2>1. [k \in DOMAIN risks |-> 60 \div Place(risks, k)] = w
    BY <1>1
  <2>2. [k \in DOMAIN risks |-> risks[k].score * w[k]] = p
    BY <1>3, <1>5
  <2>. QED  BY <2>1, <2>2 DEF GlobalScore
<1>7. a \in Int /\ b \in Nat /\ b >= 1
  <2>1. PICK c \in Int : \A k \in 1..n : v[k] <= c
    <3>. DEFINE S == {m \in Nat : m <= n => \E c \in Int : \A k \in 1..m : v[k] <= c}
    <3>1. 0 \in S
      OBVIOUS
    <3>2. ASSUME NEW m \in Nat, m \in S PROVE m + 1 \in S
      <4>. SUFFICES ASSUME m + 1 <= n PROVE \E c \in Int : \A k \in 1..m + 1 : v[k] <= c
        OBVIOUS
      <4>1. PICK c \in Int : \A k \in 1..m : v[k] <= c
        BY <3>2
      <4>2. PICK d \in Int : d >= c /\ d >= v[m + 1]
        <5>1. v[m + 1] \in Int
          BY <1>3
        <5>2. \/ c >= c /\ c >= v[m + 1]
              \/ v[m + 1] >= c /\ v[m + 1] >= v[m + 1]
          BY <5>1
        <5>. QED  BY <5>1, <5>2
      <4>3. ASSUME NEW k \in 1..m + 1 PROVE v[k] <= d
        <5>1. k = m + 1 \/ k \in 1..m
          OBVIOUS
        <5>2. v[k] \in Int
          BY <1>3
        <5>. QED  BY <4>1, <4>2, <5>1, <5>2
      <4>. QED  BY <4>3
    <3>3. n \in S
      <4>. HIDE DEF S
      <4>. QED  BY <3>1, <3>2, SetInduction
    <3>. QED  BY <3>3
  <2>2. /\ Total([k \in 1..n |-> v[k] * w[k]]) \in Int /\ Total(w) \in Nat
        /\ n >= 1 => Total(w) >= w[n]
    BY <1>0, <1>3, <1>4, <2>1, TotalBound
  <2>3. Total(p) \in Int /\ Total(w) >= w[n] /\ w[n] \in Nat
    BY <1>0, <1>4, <1>5, <2>2
  <2>. QED  BY <1>0, <1>4, <1>6, <2>2, <2>3
<1>8. g \in Int
  BY <1>6, <1>7
<1>9. ASSUME \A k \in 1..n : ~(risks[k].score >= g) PROVE FALSE
  <2>1. \A k \in 1..n : v[k] <= g - 1
    BY <1>3, <1>8, <1>9
  <2>2. a <= (g - 1) * b
    <3>1. g - 1 \in Int
      BY <1>8
    <3>2. Total([k \in 1..n |-> v[k] * w[k]]) <= (g - 1) * Total(w)
      BY <1>0, <1>3, <1>4, <2>1, <3>1, TotalBound
    <3>. QED  BY <1>5, <1>6, <3>2
  <2>3. (g - 1) * b = g * b - b /\ g * (2 * b) = 2 * (g * b) /\ g * b \in Int
    BY <1>7, <1>8
  <2>4. 2 * a + b < g * (2 * b)
    BY <1>7, <2>2, <2>3
  <2>5. (2 * a + b) \div (2 * b) < g
    BY <1>7, <1>8, <2>4, QuotientBelow
  <2>. QED  BY <1>6, <1>8, <2>5
<1>. QED  BY <1>6, <1>8, <1>9

---------------------------------------------------------------------------
(* One machine.                                                            *)

\* What is clamped lies between nothing and the top.
LEMMA ClampRange ==
  ASSUME NEW v \in Int, NEW top \in Nat
  PROVE  Clamp(v, top) \in Nat /\ Clamp(v, top) <= top
BY DEF Clamp, AtMost

\* What a quotient is.
LEMMA QuotientFacts ==
  ASSUME NEW a \in Int, NEW b \in Nat \ {0}
  PROVE  \E q \in Int : q = a \div b /\ q * b <= a /\ a < (q + 1) * b
OBVIOUS

\* A machine that nothing heats has no fire risk to warn of, wherever its drift
\* is; one that is heated for 34 seconds has.
LEMMA FireRiskSpread ==
  ASSUME NEW m, m.safeTemp \in 550..900, NEW drift \in {-1, 0, 1},
         NEW boost \in Nat, boost = TempBoost(m), NEW temp, temp = Temperature(m, drift)
  PROVE  /\ FireRisk(m, temp) \in Nat
         /\ boost = 0 => ~(FireRisk(m, temp) > 6000)
         /\ boost >= 272 => FireRisk(m, temp) > 6000
<1>1. PICK safe \in Nat : safe = m.safeTemp /\ safe >= 550 /\ safe <= 900
  OBVIOUS
<1>2. PICK base \in Int : base = (6 * safe) \div 10
  OBVIOUS
<1>3. 10 * base <= 6 * safe /\ 6 * safe <= 10 * base + 9
  BY <1>2
<1>4. temp \in Int /\ temp = base + 80 * drift + boost /\ drift \in Int /\ -1 <= drift /\ drift <= 1
  <2>1. drift \in Int /\ -1 <= drift /\ drift <= 1
    OBVIOUS
  <2>2. temp = base + 80 * drift + boost
    BY <1>1, <1>2 DEF Temperature
  <2>3. base + 80 * drift + boost \in Int
    BY <2>1
  <2>. QED  BY <2>1, <2>2, <2>3
<1>5. PICK a \in Int : a = 20000 * temp
  BY <1>4
<1>6. PICK q \in Int : q = a \div safe /\ q * safe <= a /\ a < (q + 1) * safe
  <2>1. safe \in Nat \ {0}
    BY <1>1
  <2>. QED  BY <2>1, QuotientFacts
<1>7. FireRisk(m, temp) = Clamp(q - 10000, 10000)
  BY <1>1, <1>6, <1>5 DEF FireRisk
<1>8. FireRisk(m, temp) \in Nat
  BY <1>7, ClampRange
<1>9. ASSUME boost = 0 PROVE ~(FireRisk(m, temp) > 6000)
  <2>1. 20000 * temp < 16001 * safe
    BY <1>1, <1>3, <1>4, <1>9
  <2>2. a \div safe < 16001
    <3>1. safe \in Nat \ {0} /\ 16001 \in Int /\ a < 16001 * safe
      BY <1>1, <1>5, <2>1
    <3>. QED  BY <3>1, QuotientBelow
  <2>. QED  BY <1>6, <1>7, <2>2 DEF Clamp, AtMost
<1>10. ASSUME boost >= 272 PROVE FireRisk(m, temp) > 6000
  <2>1. 20000 * temp >= 16001 * safe
    BY <1>1, <1>3, <1>4, <1>10
  <2>2. q >= 16001
    <3>1. CASE q <= 16000
      <4>1. 16000 - q \in Nat /\ (16000 - q) * safe \in Nat
        BY <3>1
      <4>2. (16000 - q) * safe = 16001 * safe - (q + 1) * safe /\ (q + 1) * safe \in Int
        OBVIOUS
      <4>. QED  BY <1>1, <1>4, <1>6, <1>5, <2>1, <4>1, <4>2
    <3>. QED  BY <3>1
  <2>. QED  BY <1>7, <2>2 DEF Clamp, AtMost
<1>. QED  BY <1>8, <1>9, <1>10

\* A composite score is a number, not below zero.
LEMMA CompositeType ==
  ASSUME NEW fire \in Nat, NEW failure \in Nat, NEW intrusion \in Nat, NEW worker \in Nat,
         NEW model \in Nat, NEW present
  PROVE  Composite(fire, failure, intrusion, worker, model, present) \in Nat
<1>1. PICK classical \in Int :
        classical = (40 * fire + 30 * failure + 20 * intrusion + 10 * worker) \div 100
  OBVIOUS
<1>2. PICK composite \in Int : composite = (60 * classical + 25 * model + 15 * model) \div 100
  OBVIOUS
<1>3. PICK more \in Int : more = (composite * 5) \div 4
  OBVIOUS
<1>4. AtMost(more, 10000) \in Int
  BY DEF AtMost
<1>5. PICK amplified \in Int :
        amplified = IF present /\ fire > 5000 THEN AtMost(more, 10000) ELSE composite
  BY <1>4
<1>6. PICK c \in Nat : c = Clamp(amplified, 10000)
  BY ClampRange
<1>7. (c + 5) \div 10 \in Nat
  OBVIOUS
<1>8. Composite(fire, failure, intrusion, worker, model, present) = (c + 5) \div 10
  BY <1>1, <1>2, <1>3, <1>5, <1>6 DEF Composite
<1>. QED  BY <1>7, <1>8

\* What a score says of a machine.
LEMMA ScoreFacts ==
  ASSUME NEW m, NEW temp, FireRisk(m, temp) \in Nat,
         NEW vib, FailureRisk(m, vib) \in Nat,
         NEW present, NEW noise \in {5500, 7500}, NEW model \in {0, 10000},
         NEW r, r = Score(m, temp, vib, present, noise, model)
  PROVE  /\ r.id = m.id /\ r.score \in Nat /\ r.level = MachineLevel(r.score)
         /\ "overheat" \in r.alerts <=> FireRisk(m, temp) > 6000
<1>1. PICK fire \in Nat : fire = FireRisk(m, temp)
  OBVIOUS
<1>2. PICK failure \in Nat : failure = FailureRisk(m, vib)
  OBVIOUS
<1>3. PICK intrusion \in Nat : intrusion = IntrusionRisk(m, present, noise)
  BY DEF IntrusionRisk
<1>4. PICK worker \in Nat : worker = WorkerRisk(fire, present)
  <2>1. PICK x \in Nat : x = (2 * fire) \div 5
    OBVIOUS
  <2>2. AtMost(x + (IF present THEN 3000 ELSE 0), 10000) \in Nat
    BY DEF AtMost
  <2>. QED  BY <2>1, <2>2 DEF WorkerRisk
<1>5. PICK score \in Nat : score = Composite(fire, failure, intrusion, worker, model, present)
  BY CompositeType
<1>6. r = [id |-> m.id, score |-> score, level |-> MachineLevel(score),
           alerts |-> Warnings(fire, failure, intrusion, worker, model)]
  BY <1>1, <1>2, <1>3, <1>4, <1>5 DEF Score
<1>7. r.id = m.id /\ r.score = score /\ r.level = MachineLevel(score)
      /\ r.alerts = Warnings(fire, failure, intrusion, worker, model)
  BY <1>6
<1>8. "overheat" \in Warnings(fire, failure, intrusion, worker, model) <=> fire > 6000
  BY DEF Warnings
<1>. QED  BY <1>1, <1>5, <1>7, <1>8

---------------------------------------------------------------------------
(* A snapshot.                                                             *)

\* No scenario is of the future.
ScenarioStarted == now \in Nat /\ scenario.since \in Nat /\ scenario.since <= now

RiskInv == ScenarioStarted /\ OverheatSeen /\ PlantFollowsMachines

\* A machine is heated by a scenario of its own, for as long as it runs.
Heated(m) == scenario.kind \in {"overheat", "cascade"} /\ scenario.machine = m.id

\* The boost of a machine is nothing before it is heated, and enough after 34
\* seconds.
LEMMA BoostSpread ==
  ASSUME ScenarioStarted, NEW m
  PROVE  /\ TempBoost(m) \in Nat
         /\ ~(Heated(m) /\ now - scenario.since > 0) => TempBoost(m) = 0
         /\ Heated(m) /\ now - scenario.since >= 34 => TempBoost(m) >= 272
<1>1. PICK age \in Nat : age = Age(m)
  BY DEF ScenarioStarted, Age
<1>2. /\ scenario.machine = m.id => age = now - scenario.since
      /\ scenario.machine # m.id => age = 0
  BY <1>1 DEF Age
<1>3. TempBoost(m) = IF scenario.kind = "overheat" THEN AtMost(12 * age, 400)
                     ELSE IF scenario.kind = "cascade" THEN AtMost(8 * age, 300) ELSE 0
  BY <1>1 DEF TempBoost
<1>4. /\ AtMost(12 * age, 400) \in Nat /\ AtMost(8 * age, 300) \in Nat
      /\ age = 0 => AtMost(12 * age, 400) = 0 /\ AtMost(8 * age, 300) = 0
      /\ age >= 34 => AtMost(12 * age, 400) >= 272 /\ AtMost(8 * age, 300) >= 272
  BY DEF AtMost
<1>5. now - scenario.since \in Nat
  BY DEF ScenarioStarted
<1>. QED  BY <1>2, <1>3, <1>4, <1>5 DEF Heated

\* A machine's score is a number, and its alarm goes off when and only when the
\* machine is heated long enough.
LEMMA MachineFacts ==
  ASSUME ScenarioStarted, NEW k \in DOMAIN Bank, NEW drift \in {-1, 0, 1}, NEW swing \in {-1, 0, 1},
         NEW present, NEW noise \in {5500, 7500}, NEW model \in {0, 10000},
         NEW r, r = Score(Bank[k], Temperature(Bank[k], drift), Vibration(Bank[k], swing),
                          present, noise, model)
  PROVE  /\ r.id = Bank[k].id /\ r.score \in Nat /\ r.level = MachineLevel(r.score)
         /\ "overheat" \in r.alerts => Heated(Bank[k]) /\ now - scenario.since > 0
         /\ Heated(Bank[k]) /\ now - scenario.since >= 34 => "overheat" \in r.alerts
<1>1. PICK m : m = Bank[k]
  OBVIOUS
<1>2. m.safeTemp \in 550..900 /\ m.safeVib \in Nat \ {0}
  <2>. DEFINE R == [id : STRING, zone : STRING, safeTemp : Nat \ {0}, safeVib : Nat \ {0}]
  <2>1. \A x \in R : x.safeVib \in Nat \ {0}
    OBVIOUS
  <2>2. Bank \in Seq(R)
    BY EngineAssumption
  <2>. HIDE DEF R
  <2>3. m.safeVib \in Nat \ {0}
    BY <1>1, <2>1, <2>2
  <2>. QED  BY <1>1, <2>3, BankAssumption
<1>3. PICK boost \in Nat : boost = TempBoost(m)
  BY BoostSpread
<1>4. PICK temp : temp = Temperature(m, drift)
  OBVIOUS
<1>5. /\ FireRisk(m, temp) \in Nat
      /\ boost = 0 => ~(FireRisk(m, temp) > 6000)
      /\ boost >= 272 => FireRisk(m, temp) > 6000
  BY <1>2, <1>3, <1>4, FireRiskSpread
<1>6. PICK vib \in Int : vib = Vibration(m, swing)
  <2>1. VibBoost(m) \in Int
    <3>1. Age(m) \in Int
      BY DEF Age, ScenarioStarted
    <3>. QED  BY <3>1 DEF VibBoost, AtMost
  <2>2. m.safeVib \div 2 \in Int
    BY <1>2
  <2>3. swing \in Int
    OBVIOUS
  <2>. QED  BY <2>1, <2>2, <2>3 DEF Vibration
<1>7. FailureRisk(m, vib) \in Nat
  <2>1. PICK s \in Nat \ {0} : s = m.safeVib
    BY <1>2
  <2>2. PICK a \in Int : a = 20000 * (IF vib < 0 THEN 0 ELSE vib)
    OBVIOUS
  <2>3. PICK q \in Int : q = a \div s
    BY QuotientFacts
  <2>4. FailureRisk(m, vib) = Clamp(q - 8000, 10000)
    BY <2>1, <2>2, <2>3 DEF FailureRisk
  <2>. QED  BY <2>4, ClampRange
<1>8. r = Score(m, temp, vib, present, noise, model)
  BY <1>1, <1>4, <1>6
<1>9. /\ r.id = m.id /\ r.score \in Nat /\ r.level = MachineLevel(r.score)
      /\ "overheat" \in r.alerts <=> FireRisk(m, temp) > 6000
  BY <1>5, <1>7, <1>8, ScoreFacts
<1>10. /\ ~(Heated(m) /\ now - scenario.since > 0) => boost = 0
       /\ Heated(m) /\ now - scenario.since >= 34 => boost >= 272
  BY <1>3, BoostSpread
<1>. QED  BY <1>1, <1>5, <1>9, <1>10

\* The ranks of the levels.
LEMMA RankValues ==
  /\ Rank("SAFE") = 1 /\ Rank("LOW") = 2 /\ Rank("MEDIUM") = 3
  /\ Rank("HIGH") = 4 /\ Rank("CRITICAL") = 5
<1>. DEFINE names == <<"SAFE", "LOW", "MEDIUM", "HIGH", "CRITICAL">>
<1>1. /\ names[1] = "SAFE" /\ names[2] = "LOW" /\ names[3] = "MEDIUM"
      /\ names[4] = "HIGH" /\ names[5] = "CRITICAL"
  OBVIOUS
<1>2. \A n \in 1..5 : n = 1 \/ n = 2 \/ n = 3 \/ n = 4 \/ n = 5
  OBVIOUS
<1>. HIDE DEF names
<1>3. ASSUME NEW l \in {"SAFE", "LOW", "MEDIUM", "HIGH", "CRITICAL"}
      PROVE  Rank(l) \in 1..5 /\ names[Rank(l)] = l
  <2>1. \E n \in 1..5 : names[n] = l
    BY <1>1
  <2>2. Rank(l) = CHOOSE n \in 1..5 : names[n] = l
    BY Zenon DEF Rank, names
  <2>. QED  BY <2>1, <2>2
<1>. QED  BY <1>1, <1>2, <1>3

\* A higher score is at a higher level, the plant's as the machine's.
LEMMA LevelsAgree ==
  ASSUME NEW s \in Nat, NEW g \in Int, s >= g
  PROVE  /\ Rank(MachineLevel(s)) >= Rank(GlobalLevel(g))
         /\ g >= 850 <=> GlobalLevel(g) = "CRITICAL"
         /\ g >= 900 => MachineLevel(s) = "CRITICAL"
         /\ g >= 750 => MachineLevel(s) = "CRITICAL" \/ MachineLevel(s) = "HIGH"
BY RankValues DEF MachineLevel, GlobalLevel

\* A field of a snapshot that is true or false.
LEMMA EmergencyField ==
  ASSUME NEW at, NEW of, NEW machines, NEW global, NEW level, NEW emergency, NEW advice, NEW named
  PROVE  [at |-> at, scenario |-> of, machines |-> machines, global |-> global, level |-> level,
          emergency |-> emergency, advice |-> advice, named |-> named].emergency = emergency
OBVIOUS

\* The scores of one to six machines, each at its level.
WellScored(risks, n) ==
  /\ n \in 1..6 /\ DOMAIN risks = 1..n
  /\ \A k \in 1..n : risks[k].score \in Nat /\ risks[k].level = MachineLevel(risks[k].score)

\* What PlantFollowsMachines asks of a snapshot.
Follows(s) ==
  /\ \E k \in DOMAIN s.machines : Rank(s.machines[k].level) >= Rank(s.level)
  /\ s.emergency <=> s.level = "CRITICAL"
  /\ s.advice \in {"lockdown", "dispatch"} => s.named # {}

\* What is said of the plant follows from its machines.
LEMMA AdviceFollows ==
  ASSUME NEW risks, NEW n, WellScored(risks, n)
  PROVE  Follows(Snapshot(risks, GlobalScore(risks)))
<1>1. /\ n \in 1..6 /\ DOMAIN risks = 1..n
      /\ \A k \in 1..n : risks[k].score \in Nat /\ risks[k].level = MachineLevel(risks[k].score)
  BY DEF WellScored
<1>2. PICK s : s = Snapshot(risks, GlobalScore(risks))
  OBVIOUS
<1>3. \A k \in 1..n : risks[k].score \in Int
  BY <1>1
<1>4. PICK g \in Int : g = GlobalScore(risks)
  BY <1>3, <1>1, GlobalIsReached
<1>5. PICK k \in 1..n : risks[k].score >= g
  BY <1>3, <1>4, <1>1, GlobalIsReached
<1>6. PICK a : a = Advice(g, risks)
  OBVIOUS
<1>7. s = [at |-> now, scenario |-> scenario, machines |-> risks, global |-> g,
           level |-> GlobalLevel(g), emergency |-> g >= 850,
           advice |-> a.advice, named |-> a.named]
  BY <1>4, <1>6, <1>2, Zenon DEF Snapshot
<1>8. s.machines = risks /\ s.level = GlobalLevel(g) /\ s.advice = a.advice /\ s.named = a.named
  BY <1>7
<1>9. s.emergency = (g >= 850)
  BY <1>7, EmergencyField
<1>10. /\ Rank(risks[k].level) >= Rank(GlobalLevel(g))
       /\ g >= 850 <=> GlobalLevel(g) = "CRITICAL"
       /\ g >= 900 => risks[k].level = "CRITICAL"
       /\ g >= 750 => risks[k].level = "CRITICAL" \/ risks[k].level = "HIGH"
  BY <1>5, <1>1, LevelsAgree
<1>11. a.advice \in {"lockdown", "dispatch"} => risks[k].id \in a.named
  <2>. DEFINE at(level) == {risks[i].id : i \in {j \in DOMAIN risks : risks[j].level = level}}
  <2>1. \A level : risks[k].level = level => risks[k].id \in at(level)
    BY <1>1
  <2>. HIDE DEF at
  <2>2. a = IF g >= 900 THEN [advice |-> "lockdown", named |-> at("CRITICAL")]
            ELSE IF g >= 750 THEN [advice |-> "dispatch", named |-> at("CRITICAL") \cup at("HIGH")]
            ELSE [advice |-> IF g >= 500 THEN "monitor"
                             ELSE IF g >= 250 THEN "elevated" ELSE "nominal", named |-> {}]
    BY <1>6, Zenon DEF Advice, at
  <2>3. CASE g >= 900
    BY <1>10, <1>1, <2>1, <2>2, <2>3
  <2>4. CASE ~(g >= 900) /\ g >= 750
    BY <1>10, <1>1, <2>1, <2>2, <2>4
  <2>5. CASE ~(g >= 900) /\ ~(g >= 750)
    BY <2>2, <2>5
  <2>. QED  BY <2>3, <2>4, <2>5
<1>12. s.emergency <=> s.level = "CRITICAL"
  BY <1>8, <1>9, <1>10, Zenon
<1>13. Follows(s)
  BY <1>8, <1>10, <1>11, <1>12, <1>1 DEF Follows
<1>. QED  BY <1>2, <1>13

---------------------------------------------------------------------------
(* The steps.                                                              *)

\* There is nothing to say of no snapshot.
LEMMA NoSnapshotFacts == NoSnapshot.machines = <<>> /\ DOMAIN NoSnapshot.machines = {}
BY DEF NoSnapshot

\* The invariant holds at the start.
LEMMA RiskInitInv == RiskInit => RiskInv
<1>. SUFFICES ASSUME RiskInit PROVE RiskInv
  OBVIOUS
<1>1. now = 0 /\ scenario.since = 0 /\ snapshot = NoSnapshot
  BY DEF RiskInit, NoScenario
<1>. QED  BY <1>1, NoSnapshotFacts DEF RiskInv, ScenarioStarted, OverheatSeen, PlantFollowsMachines

\* A snapshot that is computed satisfies it.
LEMMA ComputeRiskInv ==
  ASSUME RiskInv, ComputeRisk
  PROVE  RiskInv'
<1>1. ScenarioStarted /\ UNCHANGED <<scenario, now>>
  BY DEF RiskInv, ComputeRisk
<1>2. PICK drift \in [DOMAIN Bank -> {-1, 0, 1}], noise \in {5500, 7500},
           model \in [DOMAIN Bank -> {0, 10000}] :
        \E risks \in {Scores(drift, workers', noise, model)} :
          snapshot' = Snapshot(risks, GlobalScore(risks))
  BY DEF ComputeRisk
<1>3. PICK risks : /\ risks = Scores(drift, workers', noise, model)
                   /\ snapshot' = Snapshot(risks, GlobalScore(risks))
  BY <1>2
<1>4. PICK n \in 1..6 : n = Len(Bank) /\ DOMAIN Bank = 1..n
  BY EngineAssumption, BankAssumption
<1>5. DOMAIN risks = 1..n
  BY <1>4, <1>3 DEF Scores
<1>6. ASSUME NEW k \in 1..n
      PROVE  /\ risks[k].id = Bank[k].id /\ risks[k].score \in Nat
             /\ risks[k].level = MachineLevel(risks[k].score)
             /\ "overheat" \in risks[k].alerts => Heated(Bank[k]) /\ now - scenario.since > 0
             /\ Heated(Bank[k]) /\ now - scenario.since >= 34 => "overheat" \in risks[k].alerts
  <2>1. drift[k] \in {-1, 0, 1} /\ model[k] \in {0, 10000} /\ k \in DOMAIN Bank
    BY <1>4
  <2>2. PICK present : present = workers'[Bank[k].id]
    OBVIOUS
  <2>3. risks[k] = Score(Bank[k], Temperature(Bank[k], drift[k]),
                         Vibration(Bank[k], drift[k]), present, noise, model[k])
    BY <1>3, <2>1, <2>2 DEF Scores
  <2>. QED  BY <1>1, <2>1, <2>3, MachineFacts
<1>7. PICK s : s = Snapshot(risks, GlobalScore(risks))
  OBVIOUS
<1>8. Follows(s)
  <2>1. WellScored(risks, n)
    <3>1. \A k \in 1..n : risks[k].score \in Nat /\ risks[k].level = MachineLevel(risks[k].score)
      BY <1>6
    <3>2. n \in 1..6
      BY <1>4
    <3>. QED  BY <1>5, <3>1, <3>2 DEF WellScored
  <2>2. Follows(Snapshot(risks, GlobalScore(risks)))
    BY <2>1, AdviceFollows
  <2>. QED  BY <1>7, <2>2
<1>9. s.machines = risks /\ s.scenario = scenario /\ s.at = now
  BY <1>7 DEF Snapshot
<1>10. ASSUME NEW k \in DOMAIN s.machines
      PROVE  LET m == s.machines[k]
                 heated == s.scenario.kind \in {"overheat", "cascade"} /\ s.scenario.machine = m.id
                 age == s.at - s.scenario.since
             IN  /\ "overheat" \in m.alerts => heated /\ age > 0
                 /\ heated /\ age >= 34 => "overheat" \in m.alerts
  <2>1. k \in 1..n
    BY <1>5, <1>9
  <2>2. /\ risks[k].id = Bank[k].id
        /\ "overheat" \in risks[k].alerts => Heated(Bank[k]) /\ now - scenario.since > 0
        /\ Heated(Bank[k]) /\ now - scenario.since >= 34 => "overheat" \in risks[k].alerts
    BY <1>6, <2>1
  <2>. QED  BY <1>9, <2>2 DEF Heated
<1>11. snapshot' = s
  BY <1>3, <1>7
<1>12. OverheatSeen'
  BY <1>10, <1>11 DEF OverheatSeen
<1>13. PlantFollowsMachines'
  BY <1>8, <1>11 DEF PlantFollowsMachines, Follows
<1>14. ScenarioStarted'
  BY <1>1 DEF ScenarioStarted
<1>. QED  BY <1>12, <1>13, <1>14 DEF RiskInv

\* Every step keeps the invariant.
LEMMA RiskStepInv ==
  ASSUME RiskInv, [RiskNext]_riskVars
  PROVE  RiskInv'
<1>1. now \in Nat /\ scenario.since \in Nat /\ scenario.since <= now
  BY DEF RiskInv, ScenarioStarted
<1>2. ASSUME NEW kind, NEW id, InjectScenario(kind, id) PROVE RiskInv'
  <2>1. scenario'.since = now /\ UNCHANGED <<snapshot, now>>
    BY <1>2 DEF InjectScenario
  <2>. QED  BY <1>1, <2>1 DEF RiskInv, ScenarioStarted, OverheatSeen, PlantFollowsMachines
<1>3. CASE ClearScenario
  <2>1. scenario'.since = 0 /\ UNCHANGED <<snapshot, now>>
    BY <1>3 DEF ClearScenario, NoScenario
  <2>. QED  BY <1>1, <2>1 DEF RiskInv, ScenarioStarted, OverheatSeen, PlantFollowsMachines
<1>4. CASE ComputeRisk
  BY <1>4, ComputeRiskInv
<1>5. CASE Send
  <2>1. snapshot' = NoSnapshot /\ UNCHANGED <<scenario, now>>
    BY <1>5 DEF Send
  <2>. QED
    BY <1>1, <2>1, NoSnapshotFacts DEF RiskInv, ScenarioStarted, OverheatSeen, PlantFollowsMachines
<1>6. ASSUME NEW t \in Instants, Wait(t) PROVE RiskInv'
  <2>1. now' = t /\ t > now /\ UNCHANGED <<scenario, snapshot>> /\ t \in Nat
    BY <1>6, EngineAssumption DEF Wait
  <2>. QED  BY <1>1, <2>1 DEF RiskInv, ScenarioStarted, OverheatSeen, PlantFollowsMachines
<1>7. CASE UNCHANGED riskVars
  BY <1>7 DEF riskVars, RiskInv, ScenarioStarted, OverheatSeen, PlantFollowsMachines
<1>. QED  BY <1>2, <1>3, <1>4, <1>5, <1>6, <1>7 DEF RiskNext

\* The invariant of the risk engine.
THEOREM RiskInvariance == RiskSpec => []RiskInv
<1>1. RiskInit => RiskInv
  BY RiskInitInv
<1>2. RiskInv /\ [RiskNext]_riskVars => RiskInv'
  BY RiskStepInv
<1>. QED  BY <1>1, <1>2, PTL DEF RiskSpec

\* A snapshot warns of overheating for a machine that a scenario has been
\* heating for 34 seconds, and never for one that nothing heats, whatever the
\* bank of machines and wherever their drifts are.
THEOREM OverheatingSeen == RiskSpec => []OverheatSeen
<1>1. RiskInv => OverheatSeen
  BY DEF RiskInv
<1>. QED  BY <1>1, RiskInvariance, PTL

\* What a snapshot says of the plant follows from its machines: its level is
\* reached by one of them, and advice to shut down or to send somebody names
\* one.
THEOREM PlantFollows == RiskSpec => []PlantFollowsMachines
<1>1. RiskInv => PlantFollowsMachines
  BY DEF RiskInv
<1>. QED  BY <1>1, RiskInvariance, PTL

================================================================================

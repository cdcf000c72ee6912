---------------------------- MODULE DashboardChat ----------------------------
(***************************************************************************)
(* The dashboard process: chats go through the pipeline of graph/workflow  *)
(* and the conversation agent to Agent 2, and polls ask Agent 2 for the    *)
(* twins and, through a cache, for an overview of them.  Both run in       *)
(* threads over shared objects without a lock: the conversation agent and  *)
(* the proxy that the first of them makes, the rate windows the agent      *)
(* keeps and the cache the proxy keeps.  A step here reads or writes one   *)
(* of them.                                                                *)
(*                                                                         *)
(* What Agent 2 does with an intent is TwinOrchestrator's.                 *)
(***************************************************************************)
EXTENDS Integers, Sequences, FiniteSets, Filtering

CONSTANTS
  Sessions,
  Chats,         \* threads for overlapping messages
  Polls,         \* threads for overlapping polls
  None,
  Limit,         \* rate_limit_per_min (10 in the code)
  Minute,        \* 60 seconds
  Fresh,         \* how long an overview is kept (2 seconds)
  CallTime,      \* the longest fetch of an overview (5 seconds)
  MaxTime,       \* bound: the clock
  MaxRequests    \* bound: messages and polls

ASSUME DashboardAssumption ==
  /\ {Limit, Minute, CallTime} \subseteq Nat \ {0}
  /\ {Fresh, MaxTime, MaxRequests} \subseteq Nat
  /\ Chats \cap Polls = {}

VARIABLES
  agent,       \* _conversation_agent: 0, or the number of an agent
  proxy,       \* _orchestrator_proxy: 0, or the number of a proxy
  counts,      \* _session_counts of every conversation agent made
  cached,      \* _overview_cache and _overview_ts of every proxy made
  thread,      \* what each thread is at
  requests,    \* counter of messages and polls
  clock,
  admitted,    \* history: each session's admissions
  raced        \* history: the sessions of which two checks overlapped

globals == <<agent, proxy>>
history == <<admitted, raced>>
vars == <<globals, counts, cached, thread, requests, clock, history>>

Threads == Chats \cup Polls

Idle == [pc |-> "idle"]
InGetAgents == {"entering", "makingAgent", "afterAgent", "makingProxy", "leaving"}
Checking == {"storing", "measuring", "appending"}
Fetching == {"fetching", "caching", "stamping"}
ChatPoints == {"checking", "intake", "reading", "posting"} \cup InGetAgents \cup Checking
PollPoints == {"asking", "returning"} \cup InGetAgents \cup Fetching

\* When Agent 2 gave an overview, or failed to: what is in it does not matter
\* here.
Overviews == 0..MaxTime

ChatStates == [pc : ChatPoints, session : Sessions, agent : Nat, now : 0..MaxTime,
               since : 0..MaxTime, kept : Seq(0..MaxTime)]
PollStates == [pc : PollPoints, proxy : Nat, now : 0..MaxTime, reply : Overviews \cup {None}]

TypeOK ==
  /\ counts \in Seq([Sessions -> Seq(0..MaxTime)]) /\ agent \in 0..Len(counts)
  /\ cached \in Seq([overview : Overviews \cup {None}, ts : 0..MaxTime])
  /\ proxy \in 0..Len(cached)
  /\ thread \in [Threads -> {Idle} \cup ChatStates \cup PollStates]
  /\ \A t \in Chats : thread[t] \in {Idle} \cup ChatStates
  /\ \A t \in Polls : thread[t] \in {Idle} \cup PollStates
  /\ requests \in 0..MaxRequests /\ clock \in 0..MaxTime
  /\ admitted \in [Sessions -> Seq(0..MaxTime)] /\ raced \subseteq Sessions

Init ==
  /\ agent = 0 /\ proxy = 0
  /\ counts = <<>> /\ cached = <<>>
  /\ thread = [t \in Threads |-> Idle]
  /\ requests = 0 /\ clock = 0
  /\ admitted = [s \in Sessions |-> <<>>]
  /\ raced = {}

At(t, point) == thread[t].pc = point
GoTo(t, point) == thread' = [thread EXCEPT ![t].pc = point]
End(t) == thread' = [thread EXCEPT ![t] = Idle]
Local == UNCHANGED <<globals, counts, cached, requests, clock, history>>

-----------------------------------------------------------------------------
(* Messages and polls come in.                                             *)

Message(s) ==
  [pc |-> "entering", session |-> s, agent |-> 0, now |-> 0, since |-> 0, kept |-> <<>>]

\* A message of a user who is signed in, over HTTP or a socket.
Receive(t, s) ==
  /\ thread[t] = Idle /\ requests < MaxRequests
  /\ requests' = requests + 1
  /\ thread' = [thread EXCEPT ![t] = Message(s)]
  /\ UNCHANGED <<globals, counts, cached, clock, history>>

\* GET /api/dashboard/assets of a user who is signed in.
Poll(t) ==
  /\ thread[t] = Idle /\ requests < MaxRequests
  /\ requests' = requests + 1
  /\ thread' = [thread EXCEPT ![t] =
       [pc |-> "entering", proxy |-> 0, now |-> 0, reply |-> None]]
  /\ UNCHANGED <<globals, counts, cached, clock, history>>

\* A message or a poll without a session that the accounts backend knows: the
\* gate answers it and takes no thread.
TurnAway ==
  /\ requests < MaxRequests
  /\ requests' = requests + 1
  /\ UNCHANGED <<globals, counts, cached, thread, clock, history>>

\* A message longer than the schemas allow: the HTTP handler refuses it before
\* it takes the agents, a socket is closed after.  Neither counts.
TooLong(t) == (At(t, "entering") \/ At(t, "checking")) /\ End(t) /\ Local

-----------------------------------------------------------------------------
(* get_agents.  A pipeline calls it again in later nodes, when all is made. *)

SeeAgent(t) ==
  /\ At(t, "entering")
  /\ GoTo(t, IF agent = 0 THEN "makingAgent" ELSE "afterAgent")
  /\ Local

\* Another thread may have made one since: the last one made stays.
MakeAgent(t) ==
  /\ At(t, "makingAgent")
  /\ counts' = Append(counts, [s \in Sessions |-> <<>>])
  /\ agent' = Len(counts')
  /\ GoTo(t, "afterAgent")
  /\ UNCHANGED <<proxy, cached, requests, clock, history>>

SeeProxy(t) ==
  /\ At(t, "afterAgent")
  /\ GoTo(t, IF proxy = 0 THEN "makingProxy" ELSE "leaving")
  /\ Local

MakeProxy(t) ==
  /\ At(t, "makingProxy")
  /\ cached' = Append(cached, [overview |-> None, ts |-> 0])
  /\ proxy' = Len(cached')
  /\ GoTo(t, "leaving")
  /\ UNCHANGED <<agent, counts, requests, clock, history>>

TakeAgents(t) ==
  /\ At(t, "leaving")
  /\ thread' = [thread EXCEPT ![t] =
       IF t \in Chats THEN [@ EXCEPT !.pc = "checking", !.agent = agent]
                      ELSE [@ EXCEPT !.pc = "asking", !.proxy = proxy]]
  /\ Local

-----------------------------------------------------------------------------
(* _check_rate_limit.                                                      *)

Times(t) == counts[thread[t].agent][thread[t].session]

InCheck(s) == {t \in Chats : thread[t] # Idle /\ thread[t].pc \in Checking /\ thread[t].session = s}

\* Mutant: an admission a whole minute ago still counts.
KeptInclusive(times, now) == Selected(times, {a \in Nat : now - a <= Minute})

Kept(times, now) == Selected(times, {a \in Nat : now - a < Minute})

\* The new list is made from the one that is there.
FilterTimes(t) ==
  LET s == thread[t].session
      others == InCheck(s)
      starts == {clock} \cup {thread[u].now : u \in others}
  IN  /\ At(t, "checking")
      /\ thread' = [thread EXCEPT ![t].pc = "storing", ![t].now = clock,
                    ![t].since = CHOOSE a \in starts : \A b \in starts : a <= b,
                    ![t].kept = Kept(Times(t), clock)]
      /\ raced' = IF others = {} THEN raced ELSE raced \cup {s}
      /\ UNCHANGED <<globals, counts, cached, requests, clock, admitted>>

\* It replaces whatever list is there by now.
StoreTimes(t) ==
  /\ At(t, "storing")
  /\ counts' = [counts EXCEPT ![thread[t].agent][thread[t].session] = thread[t].kept]
  /\ thread' = [thread EXCEPT ![t].pc = "measuring", ![t].kept = <<>>]
  /\ UNCHANGED <<globals, cached, requests, clock, history>>

BelowLimit(t) == At(t, "measuring") /\ Len(Times(t)) < Limit /\ GoTo(t, "appending") /\ Local

Refuse(t) == At(t, "measuring") /\ Len(Times(t)) >= Limit /\ End(t) /\ Local

\* The rest of the pipeline needs no more of the check.
Admit(t) ==
  LET s == thread[t].session IN
  /\ At(t, "appending")
  /\ counts' = [counts EXCEPT ![thread[t].agent][s] = Append(@, thread[t].now)]
  /\ admitted' = [admitted EXCEPT ![s] = Append(@, thread[t].now)]
  /\ thread' = [thread EXCEPT ![t] = [Message(s) EXCEPT !.pc = "intake"]]
  /\ UNCHANGED <<globals, cached, requests, clock, raced>>

-----------------------------------------------------------------------------
(* The rest of the pipeline.                                               *)

Intents == {"CREATE_TWIN", "QUERY_TWIN", "GET_KPI", "LIST_TWINS", "GET_ALERTS",
            "DELETE_TWIN", "UPDATE_TWIN", "GENERAL_QUERY"}

IntentsNeedingData == {"CREATE_TWIN", "GET_KPI", "QUERY_TWIN"}

\* What the rules can find: a pattern of every intent but one.
RuleIntents == Intents \ {"UPDATE_TWIN"}

\* A call of the LLM, where a key for one is configured.
LlmReplies == {"text", "nothing"}

\* What a message is taken for: with a text from the LLM anything it may name.
Classified(reply) == IF reply = "text" THEN Intents ELSE RuleIntents

\* A message that is flagged or that the agent fails on, and a general query,
\* that the LLM or a fixed text answers, go no further.
AnsweredAtOnce(t) == At(t, "intake") /\ End(t) /\ Local

Classify(t, reply) ==
  /\ At(t, "intake")
  /\ \E intent \in Classified(reply) \ {"GENERAL_QUERY"} :
       GoTo(t, IF intent \in IntentsNeedingData THEN "reading" ELSE "posting")
  /\ Local

\* A reading, or none when Agent 3 fails.
FetchData(t) == At(t, "reading") /\ GoTo(t, "posting") /\ Local

\* Agent 2 answers, or it fails or does not answer in time: the user is told.
Orchestrated(t) == At(t, "posting") /\ End(t) /\ Local

-----------------------------------------------------------------------------
(* A poll takes the twins, asked for each time, and an overview of them.   *)

\* Without the twins the poll fails.
NoTwins(t) == At(t, "asking") /\ End(t) /\ Local

Usable(entry, now) == entry.overview # None /\ now - entry.ts <= Fresh

\* The twins come, and an overview is looked for.
Look(t) ==
  /\ At(t, "asking")
  /\ thread' = [thread EXCEPT ![t].now = clock,
       ![t].pc = IF Usable(cached[thread[t].proxy], clock) THEN "returning" ELSE "fetching"]
  /\ Local

\* The overview as it is now; a failure counts as one without twins.
Overview(t) ==
  /\ At(t, "fetching")
  /\ thread' = [thread EXCEPT ![t].pc = "caching", ![t].reply = clock]
  /\ Local

Cache(t) ==
  /\ At(t, "caching")
  /\ cached' = [cached EXCEPT ![thread[t].proxy].overview = thread[t].reply]
  /\ GoTo(t, "stamping")
  /\ UNCHANGED <<globals, counts, requests, clock, history>>

\* Mutant: the overview counts as fetched when it is stored.
StampLate(t) == clock

\* It counts as fetched when the poll looked.
Stamp(t) == thread[t].now

StampCache(t) ==
  /\ At(t, "stamping")
  /\ cached' = [cached EXCEPT ![thread[t].proxy].ts = Stamp(t)]
  /\ GoTo(t, "returning")
  /\ UNCHANGED <<globals, counts, requests, clock, history>>

\* Whatever is cached by now.
Return(t) == At(t, "returning") /\ End(t) /\ Local

-----------------------------------------------------------------------------
\* A fetch of an overview ends within CallTime, by its timeout if by nothing
\* else, and what it brought is stored at once.
Tick ==
  /\ clock < MaxTime
  /\ \A t \in Polls :
       thread[t] # Idle /\ thread[t].pc \in Fetching => clock < thread[t].now + CallTime
  /\ clock' = clock + 1
  /\ UNCHANGED <<globals, counts, cached, thread, requests, history>>

Next ==
  \/ \E t \in Threads :
       SeeAgent(t) \/ MakeAgent(t) \/ SeeProxy(t)
         \/ MakeProxy(t) \/ TakeAgents(t)
  \/ \E t \in Chats :
       \/ \E s \in Sessions : Receive(t, s)
       \/ TooLong(t) \/ FilterTimes(t) \/ StoreTimes(t) \/ BelowLimit(t) \/ Refuse(t)
       \/ Admit(t) \/ AnsweredAtOnce(t) \/ FetchData(t) \/ Orchestrated(t)
       \/ \E reply \in LlmReplies : Classify(t, reply)
  \/ \E t \in Polls :
       Poll(t) \/ NoTwins(t) \/ Look(t) \/ Overview(t) \/ Cache(t) \/ StampCache(t)
         \/ Return(t)
  \/ TurnAway
  \/ Tick

Spec == Init /\ [][Next]_vars

-----------------------------------------------------------------------------
Admissions(s, after, upTo) ==
  Cardinality({i \in DOMAIN admitted[s] : after < admitted[s][i] /\ admitted[s][i] <= upTo})

\* A session is refused a message only when Limit messages of it were
\* admitted in the minute before the earliest check that overlaps this one,
\* or since: a lost update or a second agent lets more through, and refuses
\* no more.  Where no two checks of a session overlapped and one agent was
\* made, no minute admits more than Limit.
LimitHolds ==
  /\ \A t \in Chats : At(t, "measuring") /\ Len(Times(t)) >= Limit =>
       Admissions(thread[t].session, thread[t].since - Minute, clock) >= Limit
  /\ \A s \in Sessions \ raced :
       Len(counts) <= 1 => \A now \in 0..clock : Admissions(s, now - Minute, now) <= Limit

\* A poll is answered with an overview that Agent 2 gave no longer ago than
\* an overview is kept and a fetch takes, however polls that began before
\* store and stamp theirs.
OverviewFresh ==
  \A t \in Polls : At(t, "returning") =>
    cached[thread[t].proxy].overview >= thread[t].now - Fresh - CallTime

=============================================================================

-------------------------- MODULE TwinOrchestrator --------------------------
(***************************************************************************)
(* Agent 2, the twin orchestrator of the conversational system, with the   *)
(* chat pipelines that call it.  A pipeline (graph/workflow.py, one thread *)
(* per chat) fetches a sensor reading and posts the intent to the          *)
(* orchestrator, which handles one intent at a time; the pipeline waits at *)
(* most 30 seconds, then tells its user that the engineering system is     *)
(* unavailable.  The post may still be handled after that, and the user    *)
(* may ask again.                                                          *)
(*                                                                         *)
(* The text of an id or a name has a type, a number and a case; number 0   *)
(* stands for a text that holds the type and no id.  The orchestrator      *)
(* writes ids in upper case; a user may not.                               *)
(***************************************************************************)
EXTENDS Integers, Sequences, FiniteSets

CONSTANTS
  Requests,     \* the chats, each asking for one thing
  Intents,      \* what the conversation agent makes of a message
  Types,        \* asset types, none of which is part of another
  Seeds,        \* the types of the default twins, a sequence
  MaxAttempts,  \* bound: how often a user asks for the same thing
  MaxRestarts   \* bound: restarts of the orchestrator

Flaws == {"none", "level", "type", "components", "energy", "name", "target"}
Texts == [type : Types, n : Nat, lower : BOOLEAN]
\* The empty text is part of every text.
EmptyText == [type |-> "", n |-> 0, lower |-> FALSE]
NoText    == [type |-> "none", n |-> 0, lower |-> FALSE]

\* An intent creates a twin of each type in types, under a name when it has
\* one, or reads twins.  A flaw is an entity of the wrong kind; only a flawed
\* type can differ from one twin of a batch to the next.
ASSUME IntentsAssumption ==
  /\ {"", "none"} \cap Types = {}
  /\ Seeds \in Seq(Types)
  /\ \A i \in Intents :
       /\ i.op \in {"create", "query", "kpi", "list"}
       /\ i.types \in Seq(Types) /\ i.at \in 1..Len(i.types) \cup {1}
       /\ i.name \in Texts \cup {NoText} /\ i.target \in Texts \cup {EmptyText}
       /\ i.flaw \in Flaws
       /\ i.op = "create" => i.types # <<>>
       /\ i.at > 1 => i.flaw = "type"

ASSUME BoundsAssumption == MaxAttempts \in Nat /\ MaxRestarts \in Nat

VARIABLES
  counter, agents, shells, baselines, histories, store,  \* the orchestrator's
  posts,      \* posts on their way to it
  reply,      \* the reply on its way to each request
  wants, phase, attempts, answer,                        \* the pipelines'
  restarts

server == <<counter, agents, shells, baselines, histories, store>>
client == <<wants, phase, attempts, answer>>
vars == <<server, posts, reply, client, restarts>>

Ids      == [type : Types, n : Nat \ {0}, lower : {FALSE}]
Origins  == [req : Requests \cup {"seed"}, no : Nat]
\* No reading: what is computed from the default values.
NoReading == [req |-> "seed", no |-> 0]
Entries  == [id : Ids, name : Texts, by : Origins, kpis : Origins, alerts : Origins]
\* named is a history: the twin that the target of a post with a reading named
\* when its user asked.
Posts    == [req : Requests, no : 1..MaxAttempts, data : BOOLEAN, named : SUBSET Ids]
Answers  == [status : {"success", "error"}, ids : SUBSET Ids, life : 0..MaxRestarts]
NoReply  == [status |-> "none", ids |-> {}, life |-> 0]

TypeOK ==
  /\ counter \in Nat
  /\ agents \in SUBSET Ids /\ shells \in SUBSET Ids
  /\ baselines \in SUBSET Ids /\ histories \in SUBSET Ids
  /\ store \in Seq(Entries)
  /\ posts \in SUBSET Posts
  /\ reply \in [Requests -> Answers \cup {NoReply}]
  /\ wants \in [Requests -> Intents]
  /\ phase \in [Requests -> {"idle", "waiting", "answered", "gaveup"}]
  /\ attempts \in [Requests -> 0..MaxAttempts]
  /\ answer \in [Requests -> Answers \cup {NoReply}]
  /\ restarts \in 0..MaxRestarts

---------------------------------------------------------------------------
(* Creating twins.                                                         *)

\* Mutant: numbered by the size of the store.
NewIdsBySize(types) ==
  [k \in DOMAIN types |-> [type |-> types[k], n |-> Len(store) + k, lower |-> FALSE]]

NewIds(types) ==
  [k \in DOMAIN types |-> [type |-> types[k], n |-> counter + k, lower |-> FALSE]]

\* How many twins of an intent are completed before the flawed one.
Completed(i) == IF i.flaw = "none" THEN Len(i.types) ELSE i.at - 1

\* The steps the flawed twin has been through when its flaw shows.  A reading
\* has the energy: without one the KPIs take the flawed entity and fail.
\* Mutant: a twin is stored before its shell is made.
FlawShowsAfterStore(flaw, data) ==
  CASE flaw = "level"              -> {}
    [] flaw = "type"               -> {"number"}
    [] flaw = "components"         -> {"number", "agent", "store"}
    [] flaw = "energy" /\ ~data    -> {"number", "agent", "shell"}
    [] OTHER -> {"number", "agent", "shell", "baseline", "history"}

FlawShowsAfter(flaw, data) ==
  CASE flaw = "level"              -> {}
    [] flaw = "type"               -> {"number"}
    [] flaw = "components"         -> {"number", "agent"}
    [] flaw = "energy" /\ ~data    -> {"number", "agent", "shell"}
    [] OTHER -> {"number", "agent", "shell", "baseline", "history"}

\* How many of an intent's twins go through a step.
Reach(i, data, step) ==
  Completed(i) + (IF i.flaw # "none" /\ step \in FlawShowsAfter(i.flaw, data) THEN 1 ELSE 0)

FirstOf(ids, m) == {ids[k] : k \in {j \in DOMAIN ids : j <= m}}

\* Mutant: a missing reading is kept as a reading numbered -1.
ReadingUnset(p) == [req |-> p.req, no |-> IF p.data THEN p.no ELSE -1]

Reading(p) == IF p.data THEN [req |-> p.req, no |-> p.no] ELSE NoReading

\* A name that is not given is the id; in a batch, the type and the place in
\* the batch, which is not written as ids are.
NameOf(i, id) ==
  IF i.name # NoText THEN i.name
  ELSE IF Len(i.types) > 1 THEN [id EXCEPT !.n = 0] ELSE id

Entry(p, i, id) ==
  [id |-> id, name |-> NameOf(i, id), by |-> [req |-> p.req, no |-> p.no],
   kpis |-> Reading(p), alerts |-> Reading(p)]

\* The default twins: a batch without a reading.
SeedEntries ==
  [k \in DOMAIN Seeds |->
     [id |-> [type |-> Seeds[k], n |-> k, lower |-> FALSE],
      name |-> [type |-> Seeds[k], n |-> 0, lower |-> FALSE],
      by |-> NoReading, kpis |-> NoReading, alerts |-> NoReading]]
SeedIds == {SeedEntries[k].id : k \in DOMAIN Seeds}

Init ==
  /\ counter = Len(Seeds)
  /\ agents = SeedIds /\ shells = SeedIds /\ baselines = SeedIds
  /\ histories = {}
  /\ store = SeedEntries
  /\ posts = {}
  /\ reply = [r \in Requests |-> NoReply]
  /\ wants \in [Requests -> Intents]
  /\ phase = [r \in Requests |-> "idle"]
  /\ attempts = [r \in Requests |-> 0]
  /\ answer = [r \in Requests |-> NoReply]
  /\ restarts = 0

---------------------------------------------------------------------------
(* The orchestrator.                                                       *)

\* Mutant: a post is handled again.
ConsumedNot(p) == posts

Consumed(p) == posts \ {p}

\* The reply reaches the pipeline if that still waits for this post.
Replied(p, status, ids) ==
  IF phase[p.req] = "waiting" /\ attempts[p.req] = p.no
  THEN [reply EXCEPT ![p.req] = [status |-> status, ids |-> ids, life |-> restarts]]
  ELSE reply

\* Mutant: a batch that fails half-way is reported by its first twins.
StatusOfBatch(i) == IF i.flaw = "none" \/ Completed(i) > 0 THEN "success" ELSE "error"

Status(i) == IF i.flaw = "none" THEN "success" ELSE "error"

Create(p) ==
  LET i   == wants[p.req]
      ids == NewIds(i.types)
      Through(step) == FirstOf(ids, Reach(i, p.data, step))
  IN
  /\ p \in posts /\ i.op = "create"
  /\ counter' = counter + Reach(i, p.data, "number")
  /\ agents' = agents \cup Through("agent")
  /\ shells' = shells \cup Through("shell")
  /\ baselines' = baselines \cup Through("baseline")
  /\ histories' = histories \cup (IF p.data THEN Through("history") ELSE {})
  /\ store' = store \o [k \in 1..Reach(i, p.data, "store") |-> Entry(p, i, ids[k])]
  /\ reply' = Replied(p, Status(i), IF Status(i) = "success" THEN FirstOf(ids, Len(ids)) ELSE {})
  /\ posts' = Consumed(p)
  /\ UNCHANGED <<client, restarts>>

\* `text.lower() in other.lower()`.
Within(text, other) ==
  \/ text = EmptyText
  \/ text.type = other.type /\ text.n \in {0, other.n}

\* The places of the twins a text matches: an id as it is written, or part of an
\* id or a name in any case.
Exact(i) == {k \in DOMAIN store : store[k].id = i.target}
Partial(i) ==
  {k \in DOMAIN store : \/ Within(i.target, store[k].id)
                        \/ i.op = "query" /\ Within(i.target, store[k].name)}

Earliest(S) == CHOOSE k \in S : \A j \in S : k <= j

\* Mutant: the search goes on after the first match.
FoundLast(i) ==
  IF Exact(i) # {} THEN Exact(i)
  ELSE {k \in Partial(i) : \A j \in Partial(i) : j <= k}

Found(i) ==
  IF Exact(i) # {} THEN Exact(i)
  ELSE IF Partial(i) # {} THEN {Earliest(Partial(i))} ELSE {}

Named(i) == {store[k].id : k \in Found(i)}

Refreshed(i, p, entry) ==
  IF i.op = "query" THEN [entry EXCEPT !.kpis = Reading(p), !.alerts = Reading(p)]
                    ELSE [entry EXCEPT !.kpis = Reading(p)]

\* QUERY_TWIN and GET_KPI: a reading refreshes the twin that is found.
Refresh(p) ==
  LET i == wants[p.req]
      S == IF p.data THEN Found(i) ELSE {}
  IN
  /\ p \in posts /\ i.op \in {"query", "kpi"} /\ i.flaw = "none"
  /\ store' = [k \in DOMAIN store |-> IF k \in S THEN Refreshed(i, p, store[k]) ELSE store[k]]
  /\ histories' = IF i.op = "query" THEN histories \cup {store[k].id : k \in S} ELSE histories
  /\ reply' = Replied(p, "success", {})
  /\ posts' = Consumed(p)
  /\ UNCHANGED <<counter, agents, shells, baselines, client, restarts>>

\* LIST_TWINS, GET_ALERTS, and an intent the router does not know; an id that
\* is no text fails the search once there is a twin to compare it with.
ReadOnly(p) ==
  LET i == wants[p.req] IN
  /\ p \in posts /\ i.op # "create" /\ (i.op = "list" \/ i.flaw # "none")
  /\ \E status \in IF i.op = "list" THEN {"success"}
                   ELSE {"error"} \cup (IF store = <<>> THEN {"success"} ELSE {}) :
       reply' = Replied(p, status, {})
  /\ posts' = Consumed(p)
  /\ UNCHANGED <<server, client, restarts>>

Nameless(p) == [p EXCEPT !.named = {}]

\* Everything the orchestrator knows is in its memory.  A post that had not
\* reached the old process may reach the new one; the twin it named is gone.
Restart ==
  /\ restarts < MaxRestarts
  /\ restarts' = restarts + 1
  /\ counter' = Len(Seeds)
  /\ agents' = SeedIds /\ shells' = SeedIds /\ baselines' = SeedIds
  /\ histories' = {}
  /\ store' = SeedEntries
  /\ \E kept \in SUBSET posts : posts' = {Nameless(p) : p \in kept}
  /\ UNCHANGED <<reply, client>>

---------------------------------------------------------------------------
(* The pipelines.                                                          *)

\* The user asks, or asks again when that failed.  A reading is fetched for
\* the intents that take one, unless the sensors' agent fails.
Ask(r) ==
  /\ \/ phase[r] \in {"idle", "gaveup"}
     \/ phase[r] = "answered" /\ answer[r].status = "error"
  /\ attempts[r] < MaxAttempts
  /\ phase' = [phase EXCEPT ![r] = "waiting"]
  /\ attempts' = [attempts EXCEPT ![r] = @ + 1]
  /\ \E data \in IF wants[r].op = "list" THEN {FALSE} ELSE BOOLEAN :
       posts' = posts \cup {[req |-> r, no |-> attempts[r] + 1, data |-> data,
                             named |-> IF data /\ wants[r].op # "create" THEN Named(wants[r])
                                       ELSE {}]}
  /\ UNCHANGED <<server, reply, wants, answer, restarts>>

Receive(r) ==
  /\ phase[r] = "waiting" /\ reply[r] # NoReply
  /\ phase' = [phase EXCEPT ![r] = "answered"]
  /\ answer' = [answer EXCEPT ![r] = reply[r]]
  /\ reply' = [reply EXCEPT ![r] = NoReply]
  /\ UNCHANGED <<server, posts, wants, attempts, restarts>>

\* 30 seconds, or a broken connection.
GiveUp(r) ==
  /\ phase[r] = "waiting"
  /\ phase' = [phase EXCEPT ![r] = "gaveup"]
  /\ reply' = [reply EXCEPT ![r] = NoReply]
  /\ UNCHANGED <<server, posts, wants, attempts, answer, restarts>>

Next ==
  \/ \E p \in posts : Create(p) \/ Refresh(p) \/ ReadOnly(p)
  \/ Restart
  \/ \E r \in Requests : Ask(r) \/ Receive(r) \/ GiveUp(r)

Spec == Init /\ [][Next]_vars

---------------------------------------------------------------------------
(* What the orchestrator promises.                                         *)

\* A twin in the store has its SMIA agent, its shell and its KPI baseline,
\* whatever failed while other twins were made.
TwinIsBacked ==
  \A k \in DOMAIN store : store[k].id \in agents \cap shells \cap baselines

\* A user who was told that twins were created can find them, as many as the
\* intent asked for and by their ids, unless the orchestrator restarted since.
SuccessIsStored ==
  \A r \in Requests :
    (/\ phase[r] = "answered" /\ answer[r].status = "success"
     /\ wants[r].op = "create" /\ answer[r].life = restarts)
    => /\ Cardinality(answer[r].ids) = Len(wants[r].types)
       /\ answer[r].ids \subseteq
            {store[k].id : k \in {j \in DOMAIN store : store[j].by.req = r}}

\* A post makes its twins once: to hold more twins than were asked for, a user
\* must have asked again.
OncePerPost ==
  \A r \in Requests : \A n \in 1..attempts[r] :
    Cardinality({k \in DOMAIN store : store[k].by = [req |-> r, no |-> n]})
      <= Len(wants[r].types)

\* What a failed creation left behind is never taken over by a later twin:
\* the spawner would hand out the old agent as already running.
FreshBacking ==
  [][\A k \in DOMAIN store' \ DOMAIN store :
       store'[k].id \notin agents \cup shells \cup baselines \cup histories]_vars

\* A post changes no stored twin but the one of exactly its target's id; when
\* there is none, no twin but the one that its target, a part of an id or a name
\* in any case or the empty text, named when the user asked, if it named one,
\* whatever twins were made and refreshed while the post was under way
\* (agent.py:528-534, 572-577).
RefreshHitsTarget ==
  [][restarts' = restarts =>
       \A p \in posts \ posts', k \in DOMAIN store :
         store'[k] # store[k] =>
           LET target == wants[p.req].target
           IN  IF target \in {store[j].id : j \in DOMAIN store} THEN store[k].id = target
               ELSE p.named \subseteq {store[k].id}]_vars

=============================================================================

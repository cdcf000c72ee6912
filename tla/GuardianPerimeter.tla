-------------------------- MODULE GuardianPerimeter --------------------------
(***************************************************************************)
(* What surrounds the analyses of the security guardian: the lockdown and  *)
(* the rate limit every request passes, the proxy that forwards requests   *)
(* to other agents and captures what goes in and out, and the listener on  *)
(* the message bus.                                                        *)
(*                                                                         *)
(* A handler runs without interruption up to an await: a forwarded call, a *)
(* message from Redis, an analysis.  How an analysis comes to its verdict  *)
(* is SecurityGuardian's and GuardianScan's; here it is a choice.  One     *)
(* behaviour is one run of the process, whose state is all in memory.      *)
(***************************************************************************)
EXTENDS Integers, Sequences, FiniteSets, SequencesExt, Filtering

CONSTANTS
  Clients,        \* IP addresses
  Inside,         \* those in ALLOWED_IPS
  Slots,          \* requests served at a time
  Agents,         \* the agents in AGENT_URLS
  Stranger,       \* an agent that is not
  Limit,          \* RATE_LIMIT_REQUESTS (100 in the code)
  Window,         \* RATE_LIMIT_WINDOW (60 seconds)
  BufferSize,     \* max_per_agent (500)
  MaxTime,        \* bound: the clock
  MaxArrivals,    \* bound: requests let through to the rate limit
  MaxMessages     \* bound: messages published on the bus

ASSUME PerimeterAssumption ==
  /\ Inside \subseteq Clients /\ Stranger \notin Agents
  /\ {Limit, Window, BufferSize} \subseteq Nat \ {0}
  /\ {MaxTime, MaxArrivals, MaxMessages} \subseteq Nat

VARIABLES
  windows,     \* _rate_counters
  request,     \* what each handler under way awaits
  buffer,      \* io_interceptor._buffer
  captured,    \* io_interceptor._total_captured
  connected,   \* the listener's connection to Redis
  listener,    \* what redis_listener awaits
  queue,       \* messages received for the listener
  clock,
  arrivals, published,  \* counters of requests and messages
  admitted,    \* history: the times at which a client passed the rate limit
  refused,     \* history: the times at which it did not
  tape,        \* history: everything captured of an agent
  finished,    \* history: proxied calls answered
  heard        \* history: messages the listener is done with

limits == <<windows, admitted, refused>>
capture == <<buffer, captured, tape>>
bus == <<connected, listener, queue, published, heard>>
vars == <<limits, request, capture, bus, clock, arrivals, finished>>

At(point) == [pc |-> point]
Idle == At("idle")
\* An event whose signature is missing or wrong is reported, and its report
\* is analysed in its place: both are events here.
Kinds == {"io", "event", "garbled"}
Messages == [kind : Kinds, number : 1..MaxMessages]
Outcomes == {"reply", "failure", "timeout"}
Record == [call : 0..MaxArrivals, direction : {"input", "output", "tap"}]

TypeOK ==
  /\ windows \in [Clients -> Seq(0..MaxTime)] /\ \A c \in Clients : Len(windows[c]) <= Limit
  /\ request \in [Slots -> {Idle}
       \cup [pc : {"forwarding", "analyzing"}, call : 1..MaxArrivals,
             agent : Agents \cup {Stranger}]]
  /\ buffer \in [Agents -> Seq(Record)] /\ \A a \in Agents : Len(buffer[a]) <= BufferSize
  /\ captured \in Nat
  /\ connected \in BOOLEAN
  /\ listener \in [pc : {"starting", "listening", "ended"}]
               \cup [pc : {"judging"}, message : Messages]
  /\ queue \in Seq(Messages)
  /\ clock \in 0..MaxTime /\ arrivals \in 0..MaxArrivals /\ published \in 0..MaxMessages
  /\ admitted \in [Clients -> Seq(0..MaxTime)] /\ refused \in [Clients -> SUBSET (0..MaxTime)]
  /\ tape \in [Agents -> Seq(Record)]
  /\ finished \subseteq [agent : Agents, call : 1..MaxArrivals] /\ heard \subseteq Messages

Init ==
  /\ windows = [c \in Clients |-> <<>>]
  /\ request = [s \in Slots |-> Idle]
  /\ buffer = [a \in Agents |-> <<>>] /\ captured = 0
  /\ connected = FALSE /\ listener = At("starting") /\ queue = <<>>
  /\ clock = 0 /\ arrivals = 0 /\ published = 0
  /\ admitted = [c \in Clients |-> <<>>] /\ refused = [c \in Clients |-> {}]
  /\ tape = [a \in Agents |-> <<>>] /\ finished = {} /\ heard = {}

-----------------------------------------------------------------------------
(* The way in: lockdown, then the rate limit.                              *)

Health == "health"
Paths == {Health, "analyze", "proxy"}

\* Who is inside and, where a key is configured, knows it.
Unlocked(c, path) == path = Health \/ c \in Inside

\* Mutant: an admission a whole window ago still counts.
RecentInclusive(times) == Selected(times, {t \in Nat : t >= clock - Window})

Recent(times) == Selected(times, {t \in Nat : t > clock - Window})

\* Mutant: a client at its limit is admitted once more.
BelowLimitOrAt(c) == Len(Recent(windows[c])) <= Limit

BelowLimit(c) == Len(Recent(windows[c])) < Limit

Pass(c, path) ==
  /\ arrivals < MaxArrivals /\ arrivals' = arrivals + 1
  /\ Unlocked(c, path) /\ BelowLimit(c)
  /\ windows' = [windows EXCEPT ![c] = Append(Recent(@), clock)]
  /\ admitted' = [admitted EXCEPT ![c] = Append(@, clock)]
  /\ UNCHANGED <<refused, clock, bus, finished>>

Refuse(c, path) ==
  /\ arrivals < MaxArrivals /\ arrivals' = arrivals + 1
  /\ Unlocked(c, path) /\ ~BelowLimit(c)
  /\ windows' = [windows EXCEPT ![c] = Recent(@)]
  /\ refused' = [refused EXCEPT ![c] = @ \cup {clock}]
  /\ UNCHANGED <<admitted, request, capture, clock, bus, finished>>

CheckHealth(c) == Pass(c, Health) /\ UNCHANGED <<request, capture>>

Analyze(c, s) ==
  /\ request[s] = Idle
  /\ Pass(c, "analyze")
  /\ request' = [request EXCEPT ![s] = [pc |-> "analyzing", call |-> arrivals', agent |-> Stranger]]
  /\ UNCHANGED capture

-----------------------------------------------------------------------------
(* The proxy and the interceptor.                                          *)

Newest(records) ==
  IF Len(records) > BufferSize THEN SubSeq(records, Len(records) - BufferSize + 1, Len(records))
  ELSE records

Capture(a, record) ==
  /\ buffer' = [buffer EXCEPT ![a] = Newest(Append(@, record))]
  /\ captured' = captured + 1
  /\ tape' = [tape EXCEPT ![a] = Append(@, record)]

Proxy(c, s, a) ==
  /\ request[s] = Idle
  /\ Pass(c, "proxy")
  /\ IF a \in Agents
     THEN /\ Capture(a, [call |-> arrivals', direction |-> "input"])
          /\ request' = [request EXCEPT ![s] =
                           [pc |-> "forwarding", call |-> arrivals', agent |-> a]]
     ELSE /\ request' = [request EXCEPT ![s] =
                           [pc |-> "analyzing", call |-> arrivals', agent |-> a]]
          /\ UNCHANGED capture

\* Mutant: a call that timed out leaves no record.
RecordedReply(outcome) == outcome # "timeout"

\* Whatever a forwarded call ends in is captured as its output.
Recorded(outcome) == TRUE

\* The agent answers, the call fails, or 30 seconds have passed.
Forwarded(s, outcome) ==
  LET r == request[s] IN
  /\ r.pc = "forwarding"
  /\ request' = [request EXCEPT ![s].pc = "analyzing"]
  /\ IF Recorded(outcome)
     THEN Capture(r.agent, [call |-> r.call, direction |-> "output"])
     ELSE UNCHANGED capture
  /\ UNCHANGED <<limits, bus, clock, arrivals, finished>>

\* The analysis of a request ends, and the request is answered; a threat is
\* left to a task that nobody awaits.
Answer(s) ==
  LET r == request[s] IN
  /\ r.pc = "analyzing"
  /\ request' = [request EXCEPT ![s] = Idle]
  /\ finished' = IF r.agent \in Agents THEN finished \cup {[agent |-> r.agent, call |-> r.call]}
                 ELSE finished
  /\ UNCHANGED <<limits, capture, bus, clock, arrivals>>

-----------------------------------------------------------------------------
(* The listener on the bus: one message at a time.                         *)

Subscribe ==
  /\ listener = At("starting")
  /\ connected' = TRUE /\ listener' = At("listening")
  /\ UNCHANGED <<limits, request, capture, queue, published, heard, clock, arrivals, finished>>

\* Redis cannot be reached: there is no second attempt.
CannotSubscribe ==
  /\ listener = At("starting")
  /\ listener' = At("ended")
  /\ UNCHANGED <<limits, request, capture, connected, queue, published, heard, clock, arrivals, finished>>

\* Redis keeps nothing for those who are not subscribed.
Publish(kind) ==
  /\ published < MaxMessages /\ published' = published + 1
  /\ queue' = IF connected THEN Append(queue, [kind |-> kind, number |-> published']) ELSE queue
  /\ UNCHANGED <<limits, request, capture, connected, listener, heard, clock, arrivals, finished>>

\* An I/O message is recorded, a malformed one skipped, an event analysed.
Take(a) ==
  /\ listener = At("listening") /\ queue # <<>>
  /\ queue' = Tail(queue)
  /\ LET m == Head(queue) IN
     /\ IF m.kind = "event"
        THEN listener' = [pc |-> "judging", message |-> m] /\ UNCHANGED heard
        ELSE heard' = heard \cup {m} /\ UNCHANGED listener
     /\ IF m.kind = "io" THEN Capture(a, [call |-> 0, direction |-> "tap"])
        ELSE UNCHANGED capture
  /\ UNCHANGED <<limits, request, connected, published, clock, arrivals, finished>>

\* Mutant: the failure of the broadcast ends the listener.
AfterJudgedUncaught(threat) == IF threat THEN At("ended") ELSE At("listening")

\* A threat is broadcast to the feed.  broadcast_threat assigns to
\* _ws_clients, which makes the name local to it, so it raises before
\* anything is sent; the loop catches that.
AfterJudged(threat) == At("listening")

Judged(threat) ==
  /\ listener.pc = "judging"
  /\ listener' = AfterJudged(threat)
  /\ heard' = heard \cup {listener.message}
  /\ UNCHANGED <<limits, request, capture, connected, queue, published, clock, arrivals, finished>>

\* The connection breaks: of what was sent, some may have been received.
LoseRedis ==
  /\ connected
  /\ connected' = FALSE
  /\ \E n \in 0..Len(queue) : queue' = SubSeq(queue, 1, n)
  /\ UNCHANGED <<limits, request, capture, listener, published, heard, clock, arrivals, finished>>

\* Reading from a broken connection raises out of the loop, for good.
EndListening ==
  /\ listener = At("listening") /\ ~connected /\ queue = <<>>
  /\ listener' = At("ended")
  /\ UNCHANGED <<limits, request, capture, connected, queue, published, heard, clock, arrivals, finished>>

-----------------------------------------------------------------------------
Tick ==
  /\ clock < MaxTime
  /\ clock' = clock + 1
  /\ UNCHANGED <<limits, request, capture, bus, arrivals, finished>>

Next ==
  \/ \E c \in Clients :
       \/ CheckHealth(c)
       \/ \E path \in Paths : Refuse(c, path)
       \/ \E s \in Slots : Analyze(c, s) \/ \E a \in Agents \cup {Stranger} : Proxy(c, s, a)
  \/ \E s \in Slots :
       \/ \E outcome \in Outcomes : Forwarded(s, outcome)
       \/ Answer(s)
  \/ Subscribe \/ CannotSubscribe \/ LoseRedis \/ EndListening
  \/ \E kind \in Kinds : Publish(kind)
  \/ \E a \in Agents : Take(a)
  \/ \E threat \in BOOLEAN : Judged(threat)
  \/ Tick

Spec == Init /\ [][Next]_vars

-----------------------------------------------------------------------------
\* A client is admitted at most Limit times within a window, whatever the
\* interleaving of requests; and it is refused only when it was admitted
\* Limit times within the window that ends there: what is refused, and what
\* is a window old, does not count.
RateExact ==
  \A c \in Clients :
    LET during(t) == {i \in DOMAIN admitted[c] : t - Window < admitted[c][i] /\ admitted[c][i] <= t}
    IN  /\ \A t \in 0..clock : Cardinality(during(t)) <= Limit
        /\ \A t \in refused[c] : Cardinality(during(t)) = Limit

Entries(a, call, direction) ==
  {i \in DOMAIN tape[a] : tape[a][i].call = call /\ tape[a][i].direction = direction}

\* A proxied call that was answered has one input and after it one output
\* among what was captured of its agent, also when the agent failed or did
\* not answer in time; one under way has its input only.  What the
\* interceptor still holds is the newest part of that.
CallsCaptured ==
  /\ \A f \in finished :
       \E i, j \in DOMAIN tape[f.agent] :
         /\ i < j
         /\ Entries(f.agent, f.call, "input") = {i}
         /\ Entries(f.agent, f.call, "output") = {j}
  /\ \A s \in Slots : request[s].pc = "forwarding" =>
       /\ Cardinality(Entries(request[s].agent, request[s].call, "input")) = 1
       /\ Entries(request[s].agent, request[s].call, "output") = {}
  /\ \A a \in Agents : IsSuffix(buffer[a], tape[a])

\* Only the loss of Redis ends the listening, and only after every message
\* received: no malformed message, failed analysis or failed broadcast does.
\* What was received is dealt with once, in the order of the bus.
ListensWhileConnected ==
  /\ listener.pc = "ended" => ~connected /\ queue = <<>>
  /\ LET waiting == IF listener.pc = "judging" THEN <<listener.message>> \o queue ELSE queue IN
     \A i \in DOMAIN waiting :
       /\ waiting[i] \notin heard
       /\ \A m \in heard : m.number < waiting[i].number
       /\ \A j \in DOMAIN waiting : j > i => waiting[j].number > waiting[i].number

=============================================================================

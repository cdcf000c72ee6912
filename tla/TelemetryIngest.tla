--------------------------- MODULE TelemetryIngest ---------------------------
(***************************************************************************)
(* Agent 3, the data and IoT agent: every source of telemetry (posts of    *)
(* the dataset replay, MQTT messages, simulations) goes through            *)
(* ingest_telemetry, which stores a reading, sends it to the WebSocket     *)
(* clients one by one and publishes it on two Redis channels.              *)
(*                                                                         *)
(* The agent runs on one event loop, so a call of ingest_telemetry is      *)
(* atomic between two awaits and calls interleave at them.  A step of a    *)
(* call here ends where the code may suspend.                              *)
(***************************************************************************)
EXTENDS Integers, Sequences, FiniteSets, SequencesExt, Filtering

CONSTANTS
  Clients,      \* WebSocket clients; each connects once
  Posts,        \* slots for overlapping POST /ingest calls
  Sims,         \* simulations that may be asked for
  Deliveries,   \* slots for overlapping deliveries of MQTT messages
  Machines,
  PostBatches, SimBatches, Messages,  \* what the sources may send
  None,
  MaxAlerts,    \* size of the alert buffer (10000 in the code)
  MaxSims,      \* MAX_CONCURRENT_SIMULATIONS (5 in the code)
  MaxTicks,     \* bound: ticks of a simulation
  MaxReadings   \* bound: readings of all sources

Calls   == Posts \cup Sims \cup Deliveries
Samples == [machine : Machines, valid : BOOLEAN, alarm : BOOLEAN]

ASSUME SourcesAssumption ==
  /\ IsFiniteSet(Clients) /\ "mqtt" \notin Calls
  /\ Posts \cap Sims = {} /\ (Posts \cup Sims) \cap Deliveries = {}
  /\ PostBatches \subseteq Seq(Samples) \ {<<>>}
  /\ SimBatches \subseteq Seq(Samples) \ {<<>>}
  /\ Messages \subseteq Samples

ASSUME BoundsAssumption ==
  /\ MaxAlerts \in Nat \ {0} /\ MaxSims \in Nat \ {0}
  /\ MaxTicks \in Nat /\ MaxReadings \in Nat

VARIABLES
  service,       \* the life of the agent
  machineStates, alerts, conns,            \* DataIoTAgent and WebSocketManager
  call,          \* each call of ingest_telemetry under way
  sims, ticks,   \* the simulations' tasks
  redis, mqtt,   \* the connections
  mqttQueue,     \* readings handed by the MQTT thread to the loop
  waiting,       \* the post the replay engine waits for
  peer,          \* each client's end of its socket
  applied,       \* history: the readings in the order they were applied
  clock          \* numbers the readings in the order the sources made them

agent == <<machineStates, alerts, applied>>
links == <<redis, mqtt, mqttQueue, waiting>>
vars == <<service, agent, conns, call, sims, ticks, links, peer, clock>>

Readings == [ts : 1..MaxReadings, src : Calls \cup {"mqtt"}, machine : Machines,
             valid : BOOLEAN, alarm : BOOLEAN]
IdleCall == [pc |-> "idle", rec |-> None, todo |-> <<>>, pos |-> 1, failed |-> {},
             owed |-> {}, behind |-> 0]

CallStates ==
  [pc : {"idle", "sending", "publishing"}, rec : Readings \cup {None},
   todo : Seq(Readings), pos : 1..Cardinality(Clients) + 1,
   failed : SUBSET Clients, owed : SUBSET Clients, behind : Nat]

TypeOK ==
  /\ service \in {"starting", "running", "closing", "stopped"}
  /\ machineStates \in [Machines -> Readings \cup {None}]
  /\ alerts \in Seq(Readings) /\ Len(alerts) <= MaxAlerts
  /\ conns \in Seq(Clients) /\ IsInjective(conns)
  /\ call \in [Calls -> CallStates]
  /\ sims \in [Sims -> {"none", "sleeping", "ingesting", "cancelled", "done"}]
  /\ ticks \in [Sims -> 0..MaxTicks]
  /\ redis \in BOOLEAN /\ mqtt \in {"none", "down", "subscribed"}
  /\ mqttQueue \in Seq(Readings)
  /\ waiting \in Posts \cup {None}
  /\ peer \in [Clients -> {"new", "open", "gone"}]
  /\ applied \in Seq(Readings) /\ clock \in 0..MaxReadings

Init ==
  /\ service = "starting"
  /\ machineStates = [m \in Machines |-> None]
  /\ alerts = <<>> /\ applied = <<>>
  /\ conns = <<>>
  /\ call = [t \in Calls |-> IdleCall]
  /\ sims = [s \in Sims |-> "none"] /\ ticks = [s \in Sims |-> 0]
  /\ redis = FALSE /\ mqtt = "none" /\ mqttQueue = <<>> /\ waiting = None
  /\ peer = [c \in Clients |-> "new"]
  /\ clock = 0

---------------------------------------------------------------------------
(* ingest_telemetry.                                                       *)

\* A sender's samples as readings.
Stamped(batch, src) ==
  [k \in DOMAIN batch |->
     [ts |-> clock + k, src |-> src, machine |-> batch[k].machine,
      valid |-> batch[k].valid, alarm |-> batch[k].alarm]]

\* Mutant: keeps the oldest alerts.
TrimmedOldest(s) == SubSeq(s, 1, IF Len(s) > MaxAlerts THEN MaxAlerts ELSE Len(s))

\* s[-n:] of Python.
LastOf(s, n) == IF n <= 0 THEN SubSeq(s, 1 - n, Len(s))
                ELSE SubSeq(s, IF n < Len(s) THEN Len(s) - n + 1 ELSE 1, Len(s))

\* The alert buffer holds the newest alerts.
Trimmed(s) == IF Len(s) > MaxAlerts THEN LastOf(s, MaxAlerts) ELSE s

\* What GET /alerts answers.
Recent(limit) == LastOf(alerts, limit)

\* Applying a reading: its alert, if any, and the state of its machine.
Apply(r) ==
  /\ alerts' = IF r.alarm THEN Trimmed(Append(alerts, r)) ELSE alerts
  /\ machineStates' = [machineStates EXCEPT ![r.machine] = r]
  /\ applied' = Append(applied, r)

\* A send to a client that has gone may raise or be swallowed.
SendFails(c) == IF peer[c] = "open" THEN {FALSE} ELSE BOOLEAN

\* Mutant: the error handler is around the loop.
SendOrStop(t, sending, cs, others) ==
  LET c == cs[sending.pos]
  IN  \E fails \in SendFails(c) :
        call' = [others EXCEPT ![t] =
          IF fails THEN [sending EXCEPT !.pos = Len(cs) + 1, !.failed = @ \cup {c}]
          ELSE [sending EXCEPT !.pos = @ + 1, !.owed = @ \ {c}]]

\* The send to the next client of cs, after which the call suspends.
Send(t, sending, cs, others) ==
  LET c == cs[sending.pos]
  IN  \E fails \in SendFails(c) :
        call' = [others EXCEPT ![t] =
          [sending EXCEPT !.pos = @ + 1, !.owed = @ \ {c},
                          !.failed = IF fails THEN @ \cup {c} ELSE @]]

\* From the head of todo to the first suspension: invalid readings are
\* skipped, the next valid one is applied and sent to the first client.
Advance(t, todo, cs, others) ==
  LET k == SelectInSeq(todo, LAMBDA r : r.valid)
      sending == [IdleCall EXCEPT !.pc = "sending", !.rec = todo[k],
                    !.todo = SubSeq(todo, k + 1, Len(todo)), !.owed = ToSet(cs)]
  IN  IF k = 0
      THEN call' = [others EXCEPT ![t] = IdleCall] /\ UNCHANGED agent
      ELSE /\ Apply(todo[k])
           /\ IF cs = <<>> THEN call' = [others EXCEPT ![t] = sending]
              ELSE Send(t, sending, cs, others)

\* What the end of call t means to whoever waits for it.
Returns(t) ==
  /\ sims' = IF t \in Sims /\ call'[t].pc = "idle" THEN [sims EXCEPT ![t] = "sleeping"] ELSE sims
  /\ waiting' = IF waiting = t /\ call'[t].pc = "idle" THEN None ELSE waiting

\* broadcast goes on with the next client of the live list.
SendNext(t) ==
  /\ call[t].pc = "sending" /\ call[t].pos <= Len(conns)
  /\ Send(t, call[t], conns, call)
  /\ UNCHANGED <<service, agent, conns, sims, ticks, links, peer, clock>>

\* Removing clients from the list while broadcasts go through it by position:
\* whoever comes after the gap moves up, and a broadcast that is past the gap
\* steps over one of them.  behind (history) counts the clients removed behind
\* a broadcast's position.
Without(cs, gone) == Selected(cs, Clients \ gone)
PassedBy(q, cs) == {cs[i] : i \in {j \in DOMAIN cs : j < q.pos}}
Shake(cs) == [t \in Calls |->
  [call[t] EXCEPT !.behind = @ + Cardinality(PassedBy(call[t], conns) \ ToSet(cs))]]

\* The end of a broadcast: failed clients are removed; without Redis the call
\* goes on with its next reading.
EndBroadcast(t) ==
  LET cs == Without(conns, call[t].failed)
  IN  /\ call[t].pc = "sending" /\ call[t].pos > Len(conns)
      /\ conns' = cs
      /\ IF redis
         THEN /\ call' = [Shake(cs) EXCEPT ![t] =
                           [IdleCall EXCEPT !.pc = "publishing", !.todo = call[t].todo]]
              /\ UNCHANGED agent
         ELSE Advance(t, call[t].todo, cs, Shake(cs))
      /\ Returns(t)
      /\ UNCHANGED <<service, ticks, redis, mqtt, mqttQueue, peer, clock>>

\* The publishes on the telemetry channel and on the agent bus.  Either may
\* fail, and does when the shutdown has closed Redis; a failure is logged.
Publish(t) ==
  /\ call[t].pc = "publishing"
  /\ Advance(t, call[t].todo, conns, call)
  /\ Returns(t)
  /\ UNCHANGED <<service, conns, ticks, redis, mqtt, mqttQueue, peer, clock>>

---------------------------------------------------------------------------
(* The sources.                                                            *)

\* The replay engine posts a batch; the post before it may still be handled.
ReplayPost(p) == \E batch \in PostBatches :
  /\ service = "running" /\ waiting = None /\ call[p].pc = "idle"
  /\ clock + Len(batch) <= MaxReadings
  /\ clock' = clock + Len(batch)
  /\ Advance(p, Stamped(batch, p), conns, call)
  /\ waiting' = IF call'[p].pc = "idle" THEN None ELSE p
  /\ UNCHANGED <<service, conns, sims, ticks, redis, mqtt, mqttQueue, peer>>

\* The engine's client gives up after ten seconds; the handler goes on.
ReplayTimeout ==
  /\ waiting # None
  /\ waiting' = None
  /\ UNCHANGED <<service, agent, conns, call, sims, ticks, redis, mqtt, mqttQueue, peer, clock>>

MqttConnects ==
  /\ mqtt = "down" /\ service = "running"
  /\ mqtt' = "subscribed"
  /\ UNCHANGED <<service, agent, conns, call, sims, ticks, redis, mqttQueue, waiting, peer, clock>>

MqttDisconnects ==
  /\ mqtt = "subscribed"
  /\ mqtt' = "down"
  /\ UNCHANGED <<service, agent, conns, call, sims, ticks, redis, mqttQueue, waiting, peer, clock>>

\* Mutant: the loop runs the newest callback first.
QueuedLast(q, r) == <<r>> \o q

\* Callbacks of other threads run in the order they were handed over.
Queued(q, r) == Append(q, r)

\* The MQTT thread: a message that parses is handed to the loop.
OnMessage == \E sample \in Messages :
  /\ mqtt = "subscribed" /\ clock < MaxReadings
  /\ clock' = clock + 1
  /\ mqttQueue' = Queued(mqttQueue, Stamped(<<sample>>, "mqtt")[1])
  /\ UNCHANGED <<service, agent, conns, call, sims, ticks, redis, mqtt, waiting, peer>>

Deliver(d) ==
  /\ mqttQueue # <<>> /\ call[d].pc = "idle" /\ service # "stopped"
  /\ mqttQueue' = Tail(mqttQueue)
  /\ Advance(d, <<Head(mqttQueue)>>, conns, call)
  /\ UNCHANGED <<service, conns, sims, ticks, redis, mqtt, waiting, peer, clock>>

---------------------------------------------------------------------------
(* Simulations.                                                            *)

Active == {s \in Sims : sims[s] \in {"sleeping", "ingesting", "cancelled"}}

StartSimulation(s) ==
  /\ service = "running" /\ sims[s] = "none"
  /\ Cardinality(Active) < MaxSims
  /\ sims' = [sims EXCEPT ![s] = "sleeping"]
  /\ UNCHANGED <<service, agent, conns, call, ticks, links, peer, clock>>

\* A tick generates one reading per machine and waits for their ingestion.
Tick(s) == \E batch \in SimBatches :
  /\ sims[s] = "sleeping" /\ ticks[s] < MaxTicks
  /\ clock + Len(batch) <= MaxReadings
  /\ clock' = clock + Len(batch)
  /\ ticks' = [ticks EXCEPT ![s] = @ + 1]
  /\ Advance(s, Stamped(batch, s), conns, call)
  /\ sims' = IF call'[s].pc = "idle" THEN sims ELSE [sims EXCEPT ![s] = "ingesting"]
  /\ UNCHANGED <<service, conns, links, peer>>

\* The simulated time is over.
EndSimulation(s) ==
  /\ sims[s] = "sleeping" /\ ticks[s] > 0
  /\ sims' = [sims EXCEPT ![s] = "done"]
  /\ UNCHANGED <<service, agent, conns, call, ticks, links, peer, clock>>

\* A cancelled task ends wherever it waits, in its sleep or in a call.
CancelSimulation(s) ==
  /\ sims[s] = "cancelled"
  /\ sims' = [sims EXCEPT ![s] = "done"]
  /\ call' = [call EXCEPT ![s] = IdleCall]
  /\ UNCHANGED <<service, agent, conns, ticks, links, peer, clock>>

---------------------------------------------------------------------------
(* Clients, and the life of the agent.                                     *)

Connect(c) ==
  /\ service = "running" /\ peer[c] = "new"
  /\ peer' = [peer EXCEPT ![c] = "open"]
  /\ conns' = Append(conns, c)
  /\ UNCHANGED <<service, agent, call, sims, ticks, links, clock>>

ClientGone(c) ==
  /\ peer[c] = "open"
  /\ peer' = [peer EXCEPT ![c] = "gone"]
  /\ UNCHANGED <<service, agent, conns, call, sims, ticks, links, clock>>

\* The receive loop of a client notices that it has gone.
Disconnect(c) ==
  /\ Contains(conns, c) /\ peer[c] = "gone"
  /\ conns' = Without(conns, {c})
  /\ call' = Shake(conns')
  /\ UNCHANGED <<service, agent, sims, ticks, links, peer, clock>>

\* A connection that cannot be made is done without.
Initialize ==
  /\ service = "starting"
  /\ service' = "running"
  /\ redis' \in BOOLEAN /\ mqtt' \in {"none", "down"}
  /\ UNCHANGED <<agent, conns, call, sims, ticks, mqttQueue, waiting, peer, clock>>

\* Mutant: a simulation is told to stop, which it reads between two ticks.
SimsToldToStop == [s \in Sims |-> IF sims[s] = "sleeping" THEN "cancelled" ELSE sims[s]]

SimsCancelled == [s \in Sims |-> IF s \in Active THEN "cancelled" ELSE sims[s]]

\* The server shuts down when its requests and sockets have ended.
Shutdown ==
  /\ service = "running"
  /\ conns = <<>> /\ \A p \in Posts : call[p].pc = "idle"
  /\ service' = "closing"
  /\ sims' = SimsCancelled
  /\ mqtt' = "none"
  /\ UNCHANGED <<agent, conns, call, ticks, redis, mqttQueue, waiting, peer, clock>>

CloseRedis ==
  /\ service = "closing"
  /\ service' = "stopped" /\ redis' = FALSE
  /\ UNCHANGED <<agent, conns, call, sims, ticks, mqtt, mqttQueue, waiting, peer, clock>>

Next ==
  \/ \E t \in Calls : (t \in Sims => sims[t] # "cancelled") /\
       (SendNext(t) \/ EndBroadcast(t) \/ Publish(t))
  \/ \E p \in Posts : ReplayPost(p)
  \/ ReplayTimeout
  \/ MqttConnects \/ MqttDisconnects \/ OnMessage
  \/ \E d \in Deliveries : Deliver(d)
  \/ \E s \in Sims :
       StartSimulation(s) \/ Tick(s) \/ EndSimulation(s) \/ CancelSimulation(s)
  \/ \E c \in Clients : Connect(c) \/ ClientGone(c) \/ Disconnect(c)
  \/ Initialize \/ Shutdown \/ CloseRedis

Spec == Init /\ [][Next]_vars

---------------------------------------------------------------------------
(* Properties.                                                             *)

\* WebSocketManager.broadcast goes through the live list: of the clients
\* listed when it began and listed still, a broadcast that is through has
\* missed at most as many as were removed behind its position; with no such
\* removal it has missed none, whatever failed, joined or left elsewhere.
MissesBounded ==
  \A t \in Calls : call[t].pc = "sending" /\ call[t].pos > Len(conns) =>
    Cardinality(call[t].owed \cap ToSet(conns)) <= call[t].behind

\* The readings of one source are applied in the order the source made them,
\* whatever overlaps: a batch, a simulation's ticks, the MQTT messages.
SourceOrder ==
  \A i, j \in DOMAIN applied :
    (i < j /\ applied[i].src = applied[j].src) => applied[i].ts < applied[j].ts

\* GET /alerts answers the newest alerts of all sources, in the order raised,
\* for every limit up to the size of the buffer.
AlertsAreNewest ==
  LET raised == Selected(applied, {r \in Readings : r.alarm})
  IN  \A limit \in 1..MaxAlerts : Recent(limit) = LastOf(raised, limit)

\* Once the shutdown has cancelled the simulations, none applies a reading.
SilentAfterShutdown ==
  [][(service \in {"closing", "stopped"} /\ applied' # applied)
       => Last(applied').src \notin Sims]_vars

=============================================================================

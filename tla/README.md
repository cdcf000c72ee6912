# TwinForge: TLA+ models, checks and proofs

TwinForge runs a manufacturing floor's digital twins with a handful of Python
services ("agents") that talk over HTTP, Redis and WebSockets. This directory
models the services whose correctness depends on the order in which things
happen, checks the models with TLC on small instances, and proves the main
results for every instance with TLAPS.

Check a module with `tlc -config SecurityGuardian.cfg MCSecurityGuardian.tla`,
and the proofs of a component with `tlapm GuardianProofs.tla`.

## 1. The system

Paths are relative to `src/twinforge/services/` unless they start with `src/`.

| Component | State it keeps | Operations | Interacts with |
|---|---|---|---|
| **Security Guardian** (Agent 5), `agent-security/app` | strikes and quarantine start per agent, alert times per threat type, ring buffer of incidents, learned patterns, rate windows, WebSocket clients, monitors' windows | `/analyze`, `/process`, quarantine list and release, Redis listener, agent proxy | LLM (60 s), Slack, PagerDuty, PostgreSQL, Redis, every other agent |
| **LangGraph orchestrator**, `langgraph-orchestrator/app` | per-request graph state only | `/process`, `/workflow`: security, conversation, orchestrator or data, verifier, respond | the five agents, over HTTP with 30 s timeouts |
| **Twin orchestrator** (Agent 2), `Convesation_and_orchestrator_agents/twinforge/agents/orchestrator` | twin store, counter, SMIA agents, AAS shells, KPI baselines, TFT histories | `process_intent`: create (single or batch), query, KPI, list, alerts | the chat pipeline, through `RemoteOrchestratorProxy` |
| **Chat pipeline, conversation agent, dashboard**, `.../twinforge/graph`, `agents/conversation`, `dashboard` | rate windows per session, cached overview, risk engine | chat over HTTP and WebSocket, sensor and risk feeds, scenario injection | twin orchestrator, sensor simulators, LLM |
| **Risk engine**, `.../agents/risk_engine.py` | online model, machine states, injected scenario | compute risk, inject, clear | dashboard |
| **Data-IoT agent** (Agent 3), `agent-data-iot/app` | machine states, alert buffer, detector windows, WebSocket clients, running simulations | ingest, history, simulate, WebSocket feed | InfluxDB, Redis, MQTT, OPC-UA |
| **Verifier agent** (Agent 4), `agent-verifier/app` | none | numeric checks | LangGraph orchestrator |
| **Dataset replay**, `dataset-replay/app` | cursor | posts a batch per interval | Data-IoT agent |
| **Accounts backend**, `src/Backend/server.js` | login failures per address and IP; users in SQLite; sessions are signed tokens of which nothing is kept | register, log in, log out | frontends |
| **Shared libraries**, `src/twinforge/shared` | none of their own | message bus, signing, vault, metrics | services |
| Frontends, deployment, infrastructure | | | not modelled |

What is hard:

* **Interleaving at awaits.** Each service is one asyncio loop (the dashboard
  uses threads): state read before an `await` is used after it.
* **Timeouts that do not cancel.** An HTTP client that gives up leaves its
  request running at the server. The guardian's LLM call may take 60 seconds
  and its caller waits 30.
* **Failures half-way.** Agent 2 builds a twin in six steps, each of which can
  raise, and catches the exception at the very end.
* **Sliding windows and expiries** (strikes, quarantine, alert cooldown, rate
  limits), cleaned up only when somebody looks.
* **Memory only.** A restart forgets twins, quarantines and counters.

What makes the components correct:

* Guardian: a threat that leaves its agent with enough strikes leaves it under
  monitoring, save where the agent's quarantine runs out while the analysis
  waits (section 6); a quarantine has a burst of strikes behind it
  and lasts until it expires or is released, alerts are spaced, every analysis
  is answered; a limit is raised exactly when the last minute exceeds it, a
  detector's BLOCK is overruled only by something more severe or at the strike
  that puts the sender under monitoring; clients are admitted
  and refused by what they did in one window, a proxied call leaves a complete
  record, and only the loss of Redis ends the listening.
* LangGraph orchestrator: nothing acts for a refused request, a success hides
  neither an open call nor a late block, a request takes one branch and is
  answered.
* Twin orchestrator: a stored twin has everything it is made of, a failed
  creation does not contaminate a later one, what a user was told exists, and a
  reading refreshes the twin whose id its target is or, when there is none, the
  twin that its target named when the user asked, if it named one. The target may be a part of an
  id or of a name, or empty: it then names the first twin that matches.
* Dashboard and chat: a session is refused only for messages it sent, and an
  overview is never older than its cache and its fetch allow, although threads
  share both without a lock.
* Risk engine: an alarm means an incident and an incident raises the alarm,
  whoever injected it; the plant's level follows its machines.
* Data-IoT agent: a broadcast misses no more of the clients that stay
  connected than left behind its position (section 6), the readings of a source
  are applied in order, the alert buffer holds the newest alerts, a shutdown
  silences the simulations; a failure is reported, a failed machine comes back,
  a steady one raises nothing.
* Accounts: an account that was answered 201 stays, with the password it was
  given, and the login lock holds although password comparisons overlap. To sign
  in after a restart further needs `OTP_SECRET` or `DATA_ENCRYPTION_KEYS` to be
  configured: otherwise the address in the row cannot be decrypted and a right
  password is answered 500 (`server.js:23, 60-62, 209-214, 417-420`).

## 2. Modules

| Module | Content |
|---|---|
| `SecurityGuardian` | the guardian's analysis, quarantine, alerts, incidents |
| `GuardianScan` | the guardian's detectors and monitors on one message |
| `GuardianProofs` | theorems about both |
| `GuardianPerimeter`, `GuardianPerimeterProofs` | the guardian's lockdown, rate limit, proxy, captures and Redis listener; its theorems |
| `LangGraphWorkflow`, `LangGraphWorkflowProofs` | the graph of nodes with its agents; its theorems |
| `ScreenedService` | abstract specification of a screened service |
| `TwinOrchestrator`, `TwinOrchestratorProofs` | Agent 2 and the chat pipelines that call it; its theorems |
| `DashboardChat` | the dashboard's threads over the shared agents, rate windows and cache |
| `RiskEngine` | telemetry, scenarios, scores and advice of the bank of machines |
| `DashboardProofs` | theorems about both |
| `TelemetryIngest` | Agent 3: ingestion, WebSocket clients, simulations, MQTT, replay |
| `AnomalyDetector` | Agent 3's checks on one reading; no state of its own |
| `MachineMonitoring` | a simulated machine, composed with the detector that watches it |
| `DataIoTProofs` | theorems about `TelemetryIngest` and `MachineMonitoring` |
| `Accounts`, `AccountsProofs` | registration and login of the accounts backend; its theorems |
| `Filtering`, `FilterLemmas` | the filter of a list by a condition, as in a comprehension, and the sum of a list; what a filter keeps, drops and does at an append |
| `MC...` | the constants TLC uses |

`PROJECT.json` maps every definition to the lines it models, lists the runs, and
names for every property a changed definition (a `Mutant` operator next to the
original) that breaks it: a bug the property would catch.

The three guardian modules split one process by what interacts. `GuardianScan`
says what is found in a message when no LLM suspends the scan; `SecurityGuardian`
takes what is found as a choice and says what becomes of it, with the LLM;
`GuardianPerimeter` takes the verdict as a choice and says what happens around
it. A proof module may cover two components, whose definitions then have names
that tell them apart (`ScanSpec`, `RiskSpec`, `MachineSpec`); no theorem mixes
them. In the same way `DashboardChat` takes Agent 2's answer as a choice, and
`TwinOrchestrator` the way of a message to it.

### SecurityGuardian

A step is what the event loop does between two points where a coroutine really
suspends: the LLM calls of the deep scan and of the rethinking, the Slack call,
the PagerDuty call. `IncidentLogger.log` is a coroutine that awaits nothing, so
everything from the last LLM answer to the first webhook call is one step
(`Respond`): log the incident, record the strike, decide the quarantine, check
the cooldown. `Begin` reads the quarantine (and drops an expired entry);
`ConcludeUnasked` and `ConcludeRethought` are the two ways an analysis gets to
its response, without and with a rethinking; `AnalyzeOffline` is the whole
analysis when no LLM is configured, which suspends nowhere. `Tag` is the
middleware that looks at the quarantine again on the way out, `ListQuarantined`
and `Release` the two endpoints, and `Tick` the clock.

What a detector finds in a text is a choice over `DetectorThreats`, what the
rethinking confirms a choice over `RethinkThreats`. `quarantinedAt` is the
dictionary of start times (0: no entry), `strikes` the strike history without
the severities nobody reads, `incidents` and `learned` the bounded lists.
`alerts` and `began` (when an
analysis that waits began) are history variables.

### LangGraphWorkflow and ScreenedService

`at[r]` is the node a request is at; `call[r][s]` is its call of agent `s`: not
made, under way, lost, or the reply. `Call` posts, `Serve` is the agent acting,
`Answered` is a node that got its reply and `Failed` one whose call timed out or
raised, after which the agent may still act. A reply is taken whatever its HTTP
status: `"refusal"` is a reply without the fields a node looks for. `route` is a
key of the state that the code reads and never writes.

`ScreenedService` is what a user of the orchestrator relies on: a gate that
decides once, workers that act only for admitted requests, one outcome, and
nothing more once a success was reported. `ImplementsService` is the refinement
(gate from `at` and `cleared`, reached workers from the served calls, outcome
from the response); TLC checks it and TLAPS proves it.

### TwinOrchestrator

The server's handlers are coroutines with synchronous bodies, so Agent 2 handles
one post at a time: `Create`, `Refresh` (QUERY_TWIN and GET_KPI), `ReadOnly`.
The pipelines are threads: `Ask` fetches a reading and posts, `Receive` takes a
reply, `GiveUp` is the timeout after which the post may still be handled, and a
user whose request failed may ask again. `Restart` empties Agent 2's memory.

An intent with a `flaw` is one with an entity of the wrong kind, as the LLM's
JSON may have: the creation then stops where the code raises, with what the
steps before it left (`FlawShowsAfter`): nothing; a number; a number and an SMIA
agent; also a shell; also a baseline and a history. A batch shares all its
entities but the type, so only a flawed type can stop it after its first twin.
Ids, names and targets are texts of a type, a number and a case. The exact lookup
(`Exact`) tells the case apart; the search by part of an id or a name (`Within`)
does not, and the empty text is part of every one. So a target in lower case, as
a user may write it, misses the twin it is the id of in the exact lookup, and may
find an earlier one by its name. Two things are left out of `Within`: an id of
100 and more that contains a shorter one, and types that contain each other.
`named`, in a post, is a history: the twin that the post's target named when its
user asked.

### GuardianScan

`Analyze(m)` is phases 1, 2 and 4 of `SecurityAgent.analyze` in one step: five
detectors (`PromptInjection`, `Poisoning`, `Escalation`, `Exfiltration`,
`Spoofing`) and three monitors (`ToolUsage`, `Statistical`, `Bus`), each with
its own windows as state, their threats in the order in which the code appends
them (`Detected`, then `Raised`), and the first of the most severe as the
one answered with (`Chosen`). `StruckAfter`, `Trips`, `Standing` and
`LiftMonitoring` are the strikes and the quarantine: the threat that trips it is
answered with ALERT (`Verdict`). A message is what the checks tell apart: the marks its text
carries (which pattern matches what is the text's business), who sent it, the tool
and channel it names, its sizes.
Time is an input of every window, so the six windows are cut where the code
cuts them, before or after the new event is counted. Outliers are compared in
integers, multiplied out. A signing key is taken to be configured, as the
deployment does, and no LLM: with one, the second opinions are choices of
`SecurityGuardian`.

### GuardianPerimeter

`Pass` and `Refuse` are the lockdown and the rate limit together, as the
middlewares run one after the other without an await. A request that is turned
away by the lockdown changes nothing and is no action. `Analyze` and `Proxy` are
the handlers up to their first await, `Forwarded` what follows the agent's
reply, failure or timeout, `Answer` the rest. `Subscribe`, `Take`, `Judged`,
`LoseRedis` and `EndListening` are `redis_listener`: its loop catches what a
message or its analysis raises, and nothing catches what the connection raises.
One behaviour is one run of the process, as all of its state is in memory.

### DashboardChat

FastAPI runs the dashboard's synchronous handlers in threads, so a step is one
access to shared state: in `get_agents`, looking whether an agent or a proxy is
there and storing a new one (`SeeAgent` ... `TakeAgents`); in the rate limit,
filtering the times, storing the new list, measuring it, appending to it
(`FilterTimes` ... `Admit`); in the cache, looking, fetching, storing the
overview, storing its time, answering (`Look` ... `Return`). Every agent and
proxy that was made keeps its own windows and cache (`counts`, `cached`), of
which the newest are shared. The rest of the pipeline (`AnsweredAtOnce`,
`Classify`, `FetchData`, `Orchestrated`) is where a message goes by its intent;
what is in the answer is abstract. `get_agents` also makes the chat's own data
agent, which has no state and is left out.

### RiskEngine

`compute_risk` has no await, so `ComputeRisk` is one step, and `Send` hands its
snapshot to the session or poll that asked. `InjectScenario` and `ClearScenario`
are the endpoints, which any session calls. Arithmetic is in integers at the
precision of the code's rounding. A drift, a sine of a random phase, is an end or
the middle of its range, and what the online model adds is an end of its range:
every score grows with both, so the ends are the extremes. `Wait` moves to the
next of a few `Instants`, chosen where the boosts start, pass a threshold and
reach their caps. The sorted list of scores is there only for its weights, 1/n for
the n-th highest, so `Place` says which n a score has, and `GlobalScore` multiplies
the weights by 60, which every n up to six divides. `BankAssumption` is what the
code's table `MACHINES` satisfies: six machines, safe up to 55 to 90 degrees.

### TelemetryIngest

Agent 3 is one event loop. `call[t]` is a call of `ingest_telemetry` for a post,
a simulation or an MQTT message: `Advance` applies the next valid reading up to
the first send, `SendNext` sends to the next client *by index into the live
list*, `EndBroadcast` removes the clients that failed, `Publish` is the two
Redis channels. A removal shifts the positions of the clients after it under
every broadcast (`Shake`); the history `behind` counts the clients that were
removed behind a broadcast's position. `OnMessage` runs in the MQTT client's thread and hands the
reading to the loop, which starts `Deliver` tasks in order. `ReplayPost` and
`ReplayTimeout` are the replay engine, whose client gives up while the batch is
still being ingested. `Tick` and `CancelSimulation` are a simulation's task;
`Initialize`, `Shutdown` and `CloseRedis` the agent's life.

### AnomalyDetector and MachineMonitoring

`Detect` and `Remember` are `AnomalyDetector.detect` in integers, with means and
deviations multiplied out. `SpikeAssumption` asks that the spike factors (2.0 and
2.5 in the code) are 1.3 at least. `MachineMonitoring` runs a machine under it: `Produce`,
`Degrade`, `CoolDown` and `Recover` are the four branches of the tick, in the
code's order of priority, and each ends with the reading going to the detector
(`Observe`). Noise is left out; the intensity of production, which follows
shifts, cycles and a ramp, changes at any tick (`Shift`).

### Accounts

Node suspends a handler only where it awaits: the password hash (`Register` to
`FinishRegister`) and the comparison (`Login` to `FinishWrong` or
`FinishRight`). What comes before is read in the first step and used in the
second, as in the code. `Marked` and `AfterCheck` are `markLoginFailure` and
`checkLoginLock`. `Restart` keeps the rows and forgets the failures. Sessions
are signed tokens of which the server keeps nothing.

## 3. Runs

| Run | Instance | Distinct states | Shows |
|---|---|---|---|
| `guardian` | 2 agents, 3 requests, threshold 2, window 3, expiry 1, cooldown 1, PagerDuty only, 2 incidents, clock to 4 | 1.0 million | `EscalationComplete`, `StrikesWindowed`, `QuarantineFollowsBurst`, `QuarantineTenure`, `AlertSpacing` |
| `guardian_live` | 1 agent, 2 requests | small | `EventuallyAnswered` |
| `scan` | 8 messages that between them violate every check, sequences of 4 of them, minute 2, 2 strikes in 2, monitoring for 1, clock to 4 | 0.9 million | `LimitsExact`, `BlockStands` |
| `perimeter` | 2 clients, one inside; 2 slots, 1 agent, limit 2, window 2, buffer 2, 3 arrivals, 2 messages, clock to 2 | 0.7 million | `RateExact`, `CallsCaptured`, `ListensWhileConnected` |
| `langgraph` | 2 requests, an intent of each branch | 0.2 million | `RefusedReachesNobody`, `SuccessIsSettled`, `PassedBlockIsReported`, `ImplementsService`, `EventuallyResponds` |
| `verifier_consulted` | 1 request | small | the disagreement of section 6 |
| `twins` | 2 chats asking at most twice, 1 default twin, 1 restart, 15 intents | 1.2 million | `TwinIsBacked`, `SuccessIsStored`, `OncePerPost`, `FreshBacking`, `RefreshHitsTarget` |
| `dashboard_chat` | 2 chats of one session and 2 polls, 3 requests, limit 1, minute 2, overview kept 1, fetch 1, clock to 3 | 2.3 million | `LimitHolds`, `OverviewFresh` |
| `risk_engine` | the machines with the lowest and the highest safe temperature, one in a restricted zone; times 0, 10, 34, 44, 68 | 42 thousand | `OverheatSeen`, `PlantFollowsMachines` |
| `telemetry` | 2 clients, 2 posts, 1 simulation, 1 MQTT delivery, 3 readings, 1 alert kept | 1.2 million | `MissesBounded`, `SourceOrder`, `AlertsAreNewest`, `SilentAfterShutdown` |
| `monitoring` | one machine with the code's thresholds, intervals 5, 20, 60, cooldowns 60, 100, window 10, 2 shifts | 0.1 million | `QuietWhenSteady`, `FailureReported`, `RecoveryCompletes` |
| `accounts` | 2 overlapping requests, one free address and the seeded one, 3 failures, lock 2, clock to 4, 2 starts | 0.1 million | `CreatedIsKept`, `FailuresBounded`, `LockHolds` |

`TypeOK` is checked for the guardian, the perimeter, the workflow, the twin
orchestrator and the accounts.

Why the bounds are enough. *Guardian*: with threshold 2, three requests give one
agent a burst, a quarantine and a threat after it, or two agents a shared alert
type; expiry (1) is shorter than the window (3), so that an analysis may wait
through an expiry while its agent's strikes still count (in the code, 600 s and
300 s: there new strikes within the quarantine do that), and the clock passes
both ends. An alert that no channel takes is answered at once, so that
without Slack there are both kinds; `guardian_live` has the two channels. The
buffer of two overflows. Agents and requests are interchangeable, hence the symmetry, except
in the liveness run. *Scan*: every limit is lower than four, so four messages
exceed each of them, within a minute and across its end; `CallsKept` is longer
than the minute, as in the code; the second serious message of a sender
within two units trips its monitoring, and the fourth may find it over. A history
of three values is the shortest in which the fourth message can be an outlier. *Perimeter*: three
arrivals meet a limit of two with both ends of the window within reach, and one
proxied call is overtaken by another; two messages of the bus show an order. *LangGraph*: requests share nothing but the agents,
and two show it. *Twins*: two posts of each of two chats make four overlapping
posts, enough for a failed creation between two others and for readings handled
out of order; the targets are an id, the same in lower case, one that may
not exist yet, a type and the empty text. *Dashboard*: two threads are a race and the third request comes
after it; with a limit of one every second message is at the limit; the clock
passes the minute and the age of an overview. *Risk engine*: an alarm depends on
one machine, the plant on how several compare, and two of them with different
bases do; 34 seconds is where the coldest overheating machine must be seen, 44
and 68 lie past the caps. *Telemetry*: two clients are the fewest of
which one is skipped when the other leaves (`MissesBounded` is proved for any
number), three readings are a batch overtaken by another, one alert kept is
a buffer that overflows at the second. *Monitoring*: 20 and 60 do not divide the
thirty seconds of a degradation and 60 does not divide a cooldown of 100; a
window of ten is the shortest in which a deviation is looked for (the code keeps
30, which only takes longer to fill). *Accounts*: two overlapping comparisons
show what a lock misses; the clock passes two locks.
`MaxTime`, `MaxAttempts`, `MaxRestarts`, `MaxStarts`, `MaxRequests`,
`MaxArrivals`, `MaxMessages`, `MaxTicks`, `MaxReadings`, `MaxShifts`, `MaxLog`
and `Instants` bound counters of the models and of nothing in the code. Deadlock
is not checked where an instance ends when its requests are done.

**Fairness.** `SecurityGuardian!FairSpec`: an analysis goes on when the call it
waits for returns (`WF(Resume(r))`); the LLM client and the webhook client set
timeouts and turn every failure into a return. `LangGraphWorkflow!FairSpec`: a
node's call ends (`WF(Progress(r))`), as every node gives its client a timeout
and catches what it raises; no fairness is assumed of the agents.
`MachineMonitoring!MachineSpec`: the run loop sleeps and goes on (`WF(MachineTick)`); it may be
ended at any time, which `RecoveryCompletes` allows for. The other modules have
safety properties only. Their handlers end by the same kind of timeout, which
would be all that a liveness property could say.

**Timing assumptions.** In `DashboardChat`, a fetch of an overview ends within
`CallTime` (its client's timeout) and the thread is not held up before it has
stored what it fetched: without that, no bound on the age of an overview holds.

## 4. Theorems

Proved for every value of the constants that the modules' assumptions admit:
any number of agents, requests, clients, chats and machines, any limits and
windows. The assumptions ask that limits and windows are positive, that
different kinds of actors have different names, that requests (of the accounts)
and clients (of the telemetry) are finitely many, and what section 2 says of the
bank of machines and the spike factors. Every invariant and every action property
that a run checks is stated by a theorem here, and the workflow's refinement; the
inductive invariants were first checked by TLC on small instances.

*GuardianProofs, of SecurityGuardian.* `TypeCorrect`; `StrikesInOneWindow`,
`AlertsSpaced`; the action properties `EscalationsComplete`,
`QuarantinesFollowBursts` and `QuarantinesKeepTenure`. The argument reduces the
actions to two kinds of step (`StepEffect`): a quiet one, which may only drop
expired or released quarantines, and one that answers a threat. The inductive
invariant adds to the properties that the clock is past one cooldown, that every
strike of an agent comes from a request of that agent, that the last alert
time of a type is the time of its latest alert, without which the spacing of
alerts is not inductive, and that an analysis that waits began before the end of
whatever quarantine its agent has an entry for (`BeganInTime`): it drops an expired
entry as it begins (`WaitEffect`), and an entry is only ever made for the present
(`EntryEffect`). So an expired entry that it meets at its end ran out meanwhile.

*GuardianProofs, of GuardianScan.* `ScanTypeCorrect`, `BlockingStands`,
`LimitsAreExact`. Whatever a message contains, what a detector finds blocks just
when it is HIGH or CRITICAL (`Firm`), and what a monitor raises is an alert
(`Mild`). The verdict is the first of the most severe threats and the detectors
come first, so a monitor's alert never stands in for a block as severe; asked in
the other order, it would (`ChosenStands`). Where the chosen threat itself is
demoted, the strikes the code keeps are the serious messages of the sender since
the window began, as the log has them (`StrikesTracked`, `SeriousBurst`), and are
`StrikeLimit` at least. `LimitsExact` compares each limit with the log of all
messages, of which the windows keep a part. `ScanInv` says of each window that,
asked for what is after any cutoff it can still be asked about, it answers as the
log does (`CallsTracked`, `IngestsTracked`, `VolumeTracked`, `ChannelsTracked`):
an equation for every cutoff, as the next step cuts at another one than the last.
It holds although calls are kept for longer than they are counted and documents
are cut only when another one comes. `FailuresTracked` says that the counter of
failures is the length of the last run of them (`Streak`). Each limit is raised by
one of the checks and by no other (`FoundFacts`). Nothing is proved of the outliers,
which are no limits.

*GuardianPerimeterProofs.* `TypeCorrect`, `LimitIsExact`, `CallsAreCaptured`,
`Listens`. The invariant has a part for each of the three mechanisms. `RateOK`:
a client's window is what is left of its admissions when those at its front,
each a window old, are dropped; `Limit` admissions take a window (`Spaced`); and
for every refusal there were `Limit` admissions in the window that ended with it.
`RecordsOK`, `SlotsOK` and `BufferNewest`: a request under way has a number of
its own and has been recorded as far as it has come, which is what makes the
output of an answered call the second and last record of it although calls
overlap. `BusOK`: the messages that wait are numbered in order and after all that
was dealt with.

*LangGraphWorkflowProofs.* `TypeCorrect`, `RefusedStaysOut`, `SuccessSettled`,
`PassedBlockReported`, `BranchIsOne`, and `WorkflowImplementsService`. The
inductive invariant says, per request, which calls the node it is at has behind
it (`CallsFollowGraph`), what the gate and the branch imply, that an open call
left behind is among the errors, and what a response was made from. No request
touches another (`OthersKeep`), so each step is proved for its own request.

*TwinOrchestratorProofs.* `TypeCorrect`, `StoredTwinsBacked`, `ToldIsStored`,
`MadeOnce`, and the action properties `BackingIsFresh` and `ReadingsHitTheirTwin`.
A first invariant (`IInv`) says that no number in use, by a twin or by what a
failed creation left, is above the counter (`NumberedBelow`), so that a new id
meets no leftover, and that the default twins stay stored, so that a restart
stores no new one (`SeedsStored`). That a flaw shows at one step and stops the
steps after it is the lemma `ReachFacts`. A second one (`PostInv`) follows the
posts: a request's posts have numbers of their own (`PostsInv`), one that is on
its way or still to come has made nothing (`MadeInv`), and what a reply of this
life of the orchestrator says was made is stored (`RepliesInv`). Neither
`OncePerPost` nor `SuccessIsStored` is inductive without the other parts: a post
that was given up is handled later, when its chat has asked again. For
`ReadingsHitTheirTwin`, twins keep their ids, names and places and new ones come
after them, so the first twin that a target names stays the first while no twin
has the target as its id (`NamedInv`, `NamedKept`).

*DataIoTProofs, of TelemetryIngest.* `Delivered`, `InSourceOrder`, `NewestAlerts`, `Silent`.
What waits, in a call's batch or in the queue of the MQTT thread, is in the
source's order and newer than what was applied of that source (`Pending`), which
`SourceOrder` needs of every step that applies one reading of many calls. Of
the clients that a broadcast still owes the reading, no more stand behind its
position than were removed there (`OwedInv`): clients keep their order when others
leave (`MovedUp`), so those that slip behind the position are as many as left
behind it (`SlippedCount`); and a client that joins is owed nothing by the
broadcasts under way (`KnownInv`). Once the agent closes, no
simulation sleeps or ingests (`SimsInv`). The alert buffer is the end of the
alarms among the applied readings (`AlertsInv`).

*DataIoTProofs, of MachineMonitoring.* `MachineTypeCorrect`, `SteadyIsQuiet` and the
action property `FailuresReported`. That a failure is detected before the machine
starts needs that a failed machine is always in its cooldown and never in its
countdown (`Cooling`): then the only step out of a failure is the one whose reading
carries the flag. `QuietWhenSteady` is about the windows with the last reading in
them, whereas the detector saw them before (`Observed`): the value that this reading
pushed out of a full window may have been another, so what has to be shown is that
a window flat but for its first value (`NearlyFlat`) raises nothing. For the
deviation this is algebra of one value among n (`NearlyFlatNoDeviation`); a spike
over a lower first value is excluded in five and more readings if the factor is 1.25
or more, which is where `SpikeAssumption` comes from; the failure risk stays below
its threshold without flag and spike (`LowRisk`).

*DashboardProofs, of DashboardChat.* `TypeCorrect`, `RateLimit`, `FreshEnough`. Threads work
only with agents that were made (`AgentsInv`); every list of times, shared or in
a thread's hands, is embedded in the admissions, whatever threads overwrite
(`TimesInv`), so that a full list is made of admissions; a check starts no earlier
than those it overlaps (`ChecksInv`), so that what it dropped is old for them
too. Where checks never overlapped and one agent was made, the list is the last
part of the admissions and `Limit` of them take a minute (`LimitInv`). A cached
overview is no older, relative to its stamp, than its fetch took
(`OverviewInv`), even when two fetches cross.

*DashboardProofs, of RiskEngine.* `OverheatingSeen`, `PlantFollows`. The invariant is
the two properties and that no scenario began in the future (`RiskInv`). For any
safe temperature of 55 to 90 degrees and any drift, the fire risk is below the alarm
without a boost and above it with one of 27.2 degrees (`FireRiskSpread`), which a
scenario of either kind reaches within 34 seconds (`BoostSpread`). For the plant:
every place weighs its score positively, so the weighted mean, rounded, is no more
than the highest score (`GlobalIsReached`), and machines and plant have the same
thresholds (`LevelsAgree`); so the worst machine is at the plant's level at least,
and the advice finds it among the ones it names (`AdviceFollows`).

*AccountsProofs.* `TypeCorrect`, `Kept`, `SpansBounded`, and the action property
`LocksHold`. `IInv`: what is counted for a key and what its comparisons under way
may still add stay within the limit and the number of requests (`CountsBounded`),
and no comparison began while the lock stood that now stands (`BegunBeforeLock`).
`SpanInv` bounds the failures since any time t, by what the entry of the key is
now: as many as there are comparisons when the entry is free or its lock has run
out since, what it counts and what the count before it left when it counts, and
the whole bound, less one for each comparison under way, when it is locked. It is
inductive because a comparison that ends on a locked entry is one less under way,
and nothing begins on a locked key.

*FilterLemmas.* A comprehension is a recursive function (`Selected`), and what it
computes of a list of any length is shown by induction on a number, stated as:
a set of naturals that contains 0 and the successor of each of its members contains
every natural (`SetInduction`, from `LeastNatural`). The lemmas say that a filter
keeps order, that filtering an ordered list by a bound leaves its end
(`SelectedSuffixAt`), and what an append does to it.

The proofs changed the models where these could not be reasoned about. `NameOf`
and `Found` of `TwinOrchestrator` were `CASE`s whose guards overlap: TLC takes the
first that holds, as the code does, but the language leaves the choice open; they
are `IF`s now. The plant's score was sorted with `SortSeq`, which, as it is defined,
has no value when two scores are equal, and the threats came from a set by way of
`SetToSeq`; `Place` and `Alert` say what is meant.

Model-checked only:

* the liveness properties (`EventuallyAnswered`, `EventuallyResponds`,
  `RecoveryCompletes`), which are out of the prover's reach, as is everything
  with `ENABLED`.

## 5. What is not modelled

* What a pattern matches in a text, prompts, and the wording of answers: a
  message carries marks, a classification is a choice.
* How KPIs and forecasts are computed (`tft_engine.py`, `agent.py` of Agent 2)
  and text is retrieved; the scores of the online model, which are a choice
  within their range; noise on simulated readings.
* Pure I/O: InfluxDB, OPC-UA (which nothing starts), Vault and the database
  clients. The incident's write to PostgreSQL is fire-and-forget and nothing
  reads it back.
* The verifier agent, whose checks are stateless and whose answer nobody uses
  (section 6); the chat's sensor agent, a reading per call.
* `agent_tester.py`, a fixed list of requests; the mock MCP server; the shared
  wrappers of Redis, metrics and Vault.
* Frontends (their sockets' reconnections among them), deployment and
  provisioning.
* Python's and JavaScript's integers do not overflow at the sizes in question.

## 6. Where the code and its documentation disagree

* **The verifier is never asked** (`verifier_consulted`): the node looks for the
  branch in `route`, a key that nothing writes. The result of the branch is
  dropped in the same way (`graph.py:58-59`).
* **An escalation can be lost.** `_should_quarantine` calls an agent with an entry
  "Already quarantined" (`agent.py:416`) although the entry may have expired:
  `is_quarantined` ends a quarantine only when asked (`agent.py:106-117`, "Auto-expires
  after QUARANTINE_EXPIRY seconds"). If the quarantine runs out while the analysis
  waits for the LLM, its strike leaves the agent with enough strikes and without
  monitoring. `EscalationComplete` says that this is the only way.
* **A broadcast skips connected clients.** "Broadcast data to all connected
  WebSocket clients" (`websocket_manager.py:40`, and 17-20): the loop goes through
  the live list (line 50), and a client that leaves behind its position, found gone by
  its own receive loop or by another broadcast, makes it step over one that is
  still connected. `MissesBounded` says that it misses no more than left there.
* **An id in another case is another twin's.** The exact lookup (`agent.py:528`)
  tells the case apart, so "cnc-03" may refresh an earlier twin whose name
  contains it although CNC-03 exists; a part of an id, and the empty id, which
  an intent without one has, refresh the first twin that matches, under a comment
  that says "Search by ID or partial match".
* **Old strikes quarantine again.** Only a HIGH or CRITICAL threat prunes the
  strikes (`agent.py:402-418`): after a quarantine ended, a LOW threat brings it
  back on strikes of any age. `REPORT.md:129`: "3 CRITICAL/HIGH threats ...
  within 5 minutes".
* **A SAFE verdict clears nothing.** `None` means "keep the threats" to the
  caller and "Override: no threat" to the parser (`agent.py:251-253, 371`).
* **Agents without twins.** A creation that fails after its SMIA agent was
  spawned leaves the agent; `smia_spawner.py:360` says one per digital twin.
* **The threat feed is dead.** `broadcast_threat` assigns to a module global
  without declaring it, so it raises before it sends (`main.py:63`);
  `AfterJudged` models what its callers make of that.
* **The listener ends for good** when Redis is lost or not there at the start:
  `ListensWhileConnected` promises no more.
* **An overlong message** is refused over HTTP and closes the socket over a
  WebSocket (`server.py:246`, `TooLong`).

Of these, the first is a run that TLC finds violated. The models have the other
behaviours too; the properties named above delimit them, the rest is forbidden by
none.

## 7. Plan

1. Done: the guardian with its detectors and its perimeter, the workflow and
   its refinement, the twin orchestrator, the dashboard's threads, the risk
   engine, the data-IoT agent with its simulations, the accounts, and theorems for
   every safety property of these.
2. A composition of the guardian with the workflow: every request of the
   workflow has the source `langgraph-orchestrator`, so one user's threats
   quarantine the workflow for all, and the threat that trips the quarantine,
   demoted from BLOCK to ALERT (`GuardianScan`), is let through by the workflow.
3. An abstract specification of the sliding windows, which the guardian, its
   perimeter, the monitors and the chat each implement in their own way.

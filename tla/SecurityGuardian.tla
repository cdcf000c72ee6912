------------------------- MODULE SecurityGuardian -------------------------
(***************************************************************************)
(* Agent 5, the Security Guardian: SecurityAgent of                        *)
(* agent-security/app/agent.py with its AlertManager and IncidentLogger.   *)
(*                                                                         *)
(* One asyncio event loop serves every request.  A step of this module is  *)
(* what the code does between two points where a coroutine really          *)
(* suspends: an LLM call, a Slack call, a PagerDuty call.  Everything from *)
(* the answer of the last LLM call to the first webhook call (logging the  *)
(* incident, the strike, the quarantine decision, the alert cooldown) runs *)
(* without suspending, because IncidentLogger.log awaits nothing.          *)
(*                                                                         *)
(* What a detector or the LLM concludes from a payload is data: it is a    *)
(* choice over the outcomes the rest of the agent tells apart.             *)
(***************************************************************************)
EXTENDS Integers, Sequences, FiniteSets

CONSTANTS
  Agents,         \* values of source_agent
  Requests,       \* SecurityEventRequests, each analysed once
  DetectorThreats,  \* what the detectors and monitors may raise
  RethinkThreats,   \* what the LLM's rethinking may conclude, SAFE apart
  Channels,       \* configured webhooks, a subset of {"slack", "pagerduty"}
  Threshold,      \* QUARANTINE_THRESHOLD
  Window,         \* QUARANTINE_WINDOW
  Expiry,         \* QUARANTINE_EXPIRY
  Cooldown,       \* ALERT_COOLDOWN_SECONDS
  MaxBuffer,      \* IncidentLogger._max_buffer
  MaxLearned,     \* SecurityAgent._max_learned
  MaxTime         \* bound of the model: the clock stops here

ASSUME TimesAssumption ==
  /\ Window \in Nat \ {0} /\ Expiry \in Nat \ {0} /\ Cooldown \in Nat \ {0}
  /\ MaxTime \in Nat
ASSUME LimitsAssumption ==
  Threshold \in Nat \ {0} /\ MaxBuffer \in Nat \ {0} /\ MaxLearned \in Nat \ {0}
ASSUME ChannelsAssumption == Channels \subseteq {"slack", "pagerduty"}
ASSUME RequestsAssumption == IsFiniteSet(Requests)

VARIABLES
  configured,     \* llm_client.is_configured, fixed when the service starts
  now,            \* time.time(), in coarse units
  pc,             \* where the analysis of each request is suspended
  src,            \* source_agent of each request
  under,          \* under_quarantine, read when the analysis began
  verdict,        \* what the rethinking loop said of the request
  answer,         \* the ThreatResponse
  strikes,        \* _strike_history
  quarantinedAt,  \* _quarantined_agents; 0 stands for "no entry"
  lastAlert,      \* AlertManager._last_alert; 0 stands for "no entry"
  incidents,      \* IncidentLogger._recent_incidents
  learned,        \* _learned_patterns
  alerts,         \* history: the alerts that passed the cooldown
  began           \* history: when an analysis that waits began

vars == <<configured, now, pc, src, under, verdict, answer, strikes, quarantinedAt,
          lastAlert, incidents, learned, alerts, began>>

Severities == {"LOW", "MEDIUM", "HIGH", "CRITICAL"}
Serious    == {"HIGH", "CRITICAL"}

\* BLOCK, and ALERT for the recommendations that do not block.
Actions == {"BLOCK", "ALERT"}

RethinkType == "RETHINK_CONFIRMED"
Types       == {t.type : t \in DetectorThreats} \cup {RethinkType}

Threats  == [type : Types, severity : Severities, action : Actions]
NoThreat == [type |-> "NONE", severity |-> "NONE", action |-> "NONE"]

ASSUME ThreatsAssumption ==
  /\ DetectorThreats \subseteq Threats
  /\ RethinkThreats \subseteq [type : {RethinkType}, severity : Severities,
                               action : Actions]
  /\ "NONE" \notin Types

Verdicts == {"UNASKED", "FAILED", "SAFE", "CONFIRMED"}
Stages   == {"idle", "scanning", "slack", "pagerduty", "answered", "tagged"}

Responded(r) == pc[r] \notin {"idle", "scanning"}

TypeOK ==
  /\ configured \in BOOLEAN
  /\ now \in Nat
  /\ pc \in [Requests -> Stages]
  /\ src \in [Requests -> Agents]
  /\ under \in [Requests -> BOOLEAN]
  /\ verdict \in [Requests -> Verdicts]
  /\ answer \in [Requests -> Threats \cup {NoThreat}]
  /\ strikes \in [Agents -> SUBSET [req : Requests, ts : Nat]]
  /\ quarantinedAt \in [Agents -> Nat]
  /\ lastAlert \in [Types -> Nat]
  /\ incidents \in Seq(Requests)
  /\ learned \in Seq(Requests)
  /\ alerts \subseteq [req : Requests, type : Types, ts : Nat]
  /\ began \in [Requests -> Nat]

\* The clock is wall-clock time, far past the epoch: more than a cooldown.
Init ==
  /\ configured \in BOOLEAN
  /\ now = Cooldown
  /\ pc = [r \in Requests |-> "idle"]
  /\ src \in [Requests -> Agents]
  /\ under = [r \in Requests |-> FALSE]
  /\ verdict = [r \in Requests |-> "UNASKED"]
  /\ answer = [r \in Requests |-> NoThreat]
  /\ strikes = [a \in Agents |-> {}]
  /\ quarantinedAt = [a \in Agents |-> 0]
  /\ lastAlert = [t \in Types |-> 0]
  /\ incidents = <<>>
  /\ learned = <<>>
  /\ alerts = {}
  /\ began = [r \in Requests |-> 0]

---------------------------------------------------------------------------
(* Quarantine: elevated monitoring, kept in a dictionary of start times.   *)

Expired(a) == quarantinedAt[a] # 0 /\ now - quarantinedAt[a] > Expiry

\* Mutant: an entry past its expiry is reported as none, and kept.
ExpiryCheckKeeps(S) == quarantinedAt

\* is_quarantined: the answer, and the dictionary with a's entry dropped when
\* it is past its expiry.
IsQuarantined(a)    == quarantinedAt[a] # 0 /\ ~Expired(a)
AfterExpiryCheck(S) == [a \in Agents |->
                          IF a \in S /\ Expired(a) THEN 0 ELSE quarantinedAt[a]]

\* Mutant: old strikes are never pruned.
StrikesUnpruned(r, threat) ==
  IF threat.severity \in Serious
  THEN strikes[src[r]] \cup {[req |-> r, ts |-> now]}
  ELSE strikes[src[r]]

\* _record_strike: only HIGH and CRITICAL threats count, and only a strike that
\* counts prunes the strikes that left the window.
StrikesAfter(r, threat) ==
  IF threat.severity \in Serious
  THEN {s \in strikes[src[r]] \cup {[req |-> r, ts |-> now]} : s.ts > now - Window}
  ELSE strikes[src[r]]

\* Mutant: an agent in quarantine is quarantined again.
ShouldQuarantineAgain(a, q, struck) == Cardinality(struck) >= Threshold

\* _should_quarantine, on the strikes as _record_strike left them and on the
\* dictionary q: an entry past its expiry still counts as an entry.
ShouldQuarantine(a, q, struck) == q[a] = 0 /\ Cardinality(struck) >= Threshold

\* A list that keeps its newest `cap` entries.
Keep(list, cap) ==
  IF Len(list) > cap THEN SubSeq(list, Len(list) - cap + 1, Len(list)) ELSE list

---------------------------------------------------------------------------
(* Phase 4 of analyze, up to the first webhook call.                       *)

\* Mutant: off by one at the end of the cooldown.
PassesCooldownEarly(type) == now - lastAlert[type] >= Cooldown - 1

\* AlertManager.send_alert's rate limit, per threat type.
PassesCooldown(type) == now - lastAlert[type] >= Cooldown

\* Where an alert that passed the cooldown suspends first.
FirstCall(severity) ==
  IF "slack" \in Channels THEN "slack"
  ELSE IF "pagerduty" \in Channels /\ severity = "CRITICAL" THEN "pagerduty"
  ELSE "answered"

RespondClean(r, q) ==
  /\ pc' = [pc EXCEPT ![r] = "answered"]
  /\ quarantinedAt' = q
  /\ UNCHANGED <<answer, strikes, lastAlert, incidents, alerts>>

RespondThreat(r, q, threat) ==
  LET a        == src[r]
      struck   == StrikesAfter(r, threat)
      escalate == ShouldQuarantine(a, q, struck)
      alert    == threat.severity \in Serious /\ PassesCooldown(threat.type)
  IN
  /\ incidents' = Keep(Append(incidents, r), MaxBuffer)
  /\ strikes' = [strikes EXCEPT ![a] = struck]
  /\ quarantinedAt' = IF escalate THEN [q EXCEPT ![a] = now] ELSE q
  /\ answer' = [answer EXCEPT
                  ![r] = IF escalate THEN [threat EXCEPT !.action = "ALERT"] ELSE threat]
  /\ lastAlert' = IF alert THEN [lastAlert EXCEPT ![threat.type] = now] ELSE lastAlert
  /\ alerts' = IF alert
               THEN alerts \cup {[req |-> r, type |-> threat.type, ts |-> now]}
               ELSE alerts
  /\ pc' = [pc EXCEPT ![r] = IF alert THEN FirstCall(threat.severity) ELSE "answered"]

Respond(r, q, threat) ==
  IF threat = NoThreat THEN RespondClean(r, q) ELSE RespondThreat(r, q, threat)

---------------------------------------------------------------------------
(* The actions.                                                            *)

\* analyze with an LLM, up to its first call: whether the agent is under
\* elevated monitoring is read here and used until the answer.
Begin(r) ==
  /\ configured /\ pc[r] = "idle"
  /\ under' = [under EXCEPT ![r] = IsQuarantined(src[r])]
  /\ quarantinedAt' = AfterExpiryCheck({src[r]})
  /\ pc' = [pc EXCEPT ![r] = "scanning"]
  /\ began' = [began EXCEPT ![r] = now]
  /\ UNCHANGED <<configured, now, src, verdict, answer, strikes, lastAlert,
                 incidents, learned, alerts>>

\* A request with no threat whose agent was not quarantined asks no verdict.
ConcludeUnasked(r) ==
  /\ pc[r] = "scanning" /\ ~under[r]
  /\ RespondClean(r, quarantinedAt)
  /\ began' = [began EXCEPT ![r] = 0]
  /\ UNCHANGED <<configured, now, src, under, verdict, learned>>

\* Mutant: a verdict that is no severity is passed on as it came.
AfterRethinkRaw(raised, v, confirmed) ==
  IF v = "CONFIRMED" THEN [confirmed EXCEPT !.severity = "UNKNOWN"] ELSE raised

\* The outcome of _rethink: a failed call and a SAFE verdict both return None,
\* on which analyze keeps the detectors' threats; any other verdict replaces
\* them.
AfterRethink(raised, v, confirmed) == IF v = "CONFIRMED" THEN confirmed ELSE raised

\* The last LLM call of a request returns: the rethinking, when a threat was
\* raised or the agent was quarantined as the request began.  An answer may
\* carry a pattern to learn, whatever its verdict.
ConcludeRethought(r) ==
  \E raised \in DetectorThreats \cup {NoThreat}, v \in Verdicts \ {"UNASKED"},
     confirmed \in RethinkThreats, learns \in BOOLEAN :
    /\ pc[r] = "scanning"
    /\ raised # NoThreat \/ under[r]
    /\ verdict' = [verdict EXCEPT ![r] = v]
    /\ v = "FAILED" => ~learns
    /\ learned' = IF learns THEN Keep(Append(learned, r), MaxLearned) ELSE learned
    /\ Respond(r, quarantinedAt, AfterRethink(raised, v, confirmed))
    /\ began' = [began EXCEPT ![r] = 0]
    /\ UNCHANGED <<configured, now, src, under>>

\* analyze without an LLM suspends nowhere before the first webhook call: a
\* deep scan and the rethinking are skipped, quarantined or not.
AnalyzeOffline(r) ==
  \E raised \in DetectorThreats \cup {NoThreat} :
    /\ ~configured /\ pc[r] = "idle"
    /\ under' = [under EXCEPT ![r] = IsQuarantined(src[r])]
    /\ Respond(r, AfterExpiryCheck({src[r]}), raised)
    /\ UNCHANGED <<configured, now, src, verdict, learned, began>>

\* The Slack call returns or fails: send_alert goes on either way.
SlackReturns(r) ==
  /\ pc[r] = "slack"
  /\ pc' = [pc EXCEPT ![r] = IF "pagerduty" \in Channels /\ answer[r].severity = "CRITICAL"
                             THEN "pagerduty" ELSE "answered"]
  /\ UNCHANGED <<configured, now, src, under, verdict, answer, strikes,
                 quarantinedAt, lastAlert, incidents, learned, alerts, began>>

\* Mutant: a failed call is tried again for ever.
PagerDutyRetries(r) == pc[r] = "pagerduty" /\ UNCHANGED vars

PagerDutyReturns(r) ==
  /\ pc[r] = "pagerduty"
  /\ pc' = [pc EXCEPT ![r] = "answered"]
  /\ UNCHANGED <<configured, now, src, under, verdict, answer, strikes,
                 quarantinedAt, lastAlert, incidents, learned, alerts, began>>

\* quarantine_middleware, on the way out of a request that came over HTTP.
Tag(r) ==
  /\ pc[r] = "answered"
  /\ pc' = [pc EXCEPT ![r] = "tagged"]
  /\ quarantinedAt' = AfterExpiryCheck({src[r]})
  /\ UNCHANGED <<configured, now, src, under, verdict, answer, strikes,
                 lastAlert, incidents, learned, alerts, began>>

\* GET /quarantine: get_quarantined drops every expired entry.
ListQuarantined ==
  /\ quarantinedAt' = AfterExpiryCheck(Agents)
  /\ UNCHANGED <<configured, now, pc, src, under, verdict, answer, strikes,
                 lastAlert, incidents, learned, alerts, began>>

\* DELETE /quarantine/{agent_id}: the strikes stay.
Release(a) ==
  /\ quarantinedAt[a] # 0
  /\ quarantinedAt' = [quarantinedAt EXCEPT ![a] = 0]
  /\ UNCHANGED <<configured, now, pc, src, under, verdict, answer, strikes,
                 lastAlert, incidents, learned, alerts, began>>

Tick ==
  /\ now < MaxTime
  /\ now' = now + 1
  /\ UNCHANGED <<configured, pc, src, under, verdict, answer, strikes,
                 quarantinedAt, lastAlert, incidents, learned, alerts, began>>

\* The event loop going on with a request when the call it waits for returns.
Resume(r) ==
  ConcludeUnasked(r) \/ ConcludeRethought(r) \/ SlackReturns(r) \/ PagerDutyReturns(r)

Next ==
  \/ Tick
  \/ ListQuarantined
  \/ \E a \in Agents : Release(a)
  \/ \E r \in Requests : Begin(r) \/ AnalyzeOffline(r) \/ Resume(r) \/ Tag(r)

Spec == Init /\ [][Next]_vars

\* Every call a request waits for ends: the LLM client and the webhook client
\* set timeouts, and turn every failure into a return.
FairSpec == Spec /\ \A r \in Requests : WF_vars(Resume(r))

---------------------------------------------------------------------------
(* Properties.                                                             *)

\* The quarantine of r's agent was in force when the analysis of r began to
\* wait, or was set later, and ran out while it waited.
RanOutMeanwhile(r) ==
  /\ pc[r] = "scanning"
  /\ Expired(src[r])
  /\ began[r] <= quarantinedAt[src[r]] + Expiry

\* A threat whose answer leaves its agent with Threshold strikes leaves the agent
\* under monitoring that is in force.  Only an analysis during whose own wait
\* the agent's quarantine ran out may fail to: it meets the entry that nobody
\* deleted, and takes the agent for one in quarantine already
\* (agent.py:264-267, 413-418).
EscalationComplete ==
  [][\A r \in Requests :
       answer'[r] # answer[r] /\ Cardinality(strikes'[src[r]]) >= Threshold =>
         IsQuarantined(src[r])' \/ RanOutMeanwhile(r)]_vars

\* The strikes kept for an agent lie within one window, none in the future.
StrikesWindowed ==
  \A a \in Agents : \A s, t \in strikes[a] : s.ts <= now /\ t.ts - s.ts < Window

Quarantines(a) == quarantinedAt'[a] # 0 /\ quarantinedAt'[a] # quarantinedAt[a]

\* An agent enters quarantine only with a burst behind it: Threshold serious
\* threats of its own within one window (agent.py:402-418).
QuarantineFollowsBurst ==
  [][\A a \in Agents : Quarantines(a) =>
       /\ Cardinality(strikes'[a]) >= Threshold
       /\ \A s, t \in strikes'[a] : t.ts - s.ts < Window
       /\ \A s \in strikes'[a] : src'[s.req] = a]_vars

\* A quarantine is neither cut short nor renewed: until it expires or an
\* operator releases the agent, its start stays what it was, whatever the
\* agent's later threats (agent.py:106-117, 415).
QuarantineTenure ==
  [][\A a \in Agents :
       quarantinedAt[a] # 0 /\ quarantinedAt'[a] # quarantinedAt[a] =>
         Expired(a) \/ Release(a)]_vars

\* Two alerts of a type are a cooldown apart, also when a second threat is
\* handled while the first alert waits for its webhook (alert_manager.py:50-59).
AlertSpacing ==
  \A x, y \in alerts :
    x # y /\ x.type = y.type => x.ts - y.ts >= Cooldown \/ y.ts - x.ts >= Cooldown

\* Every analysis that began is answered, whatever fails on the way: detection
\* and alerting turn failures and timeouts into returns.
EventuallyAnswered ==
  \A r \in Requests : pc[r] \in {"scanning", "slack", "pagerduty"}
                        ~> pc[r] \in {"answered", "tagged"}

=============================================================================

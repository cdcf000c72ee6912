---------------------------- MODULE GuardianScan ----------------------------
(***************************************************************************)
(* What the detectors and the monitors of the security guardian find in    *)
(* one message, and what it is answered: SecurityAgent.analyze without an  *)
(* LLM, from phase 1 to the strike, the quarantine and the verdict of      *)
(* phase 4.  Nothing in it suspends before the alert, so a scan is one     *)
(* step.  SecurityGuardian models the alert, and analyses that do ask an   *)
(* LLM and overlap.                                                        *)
(*                                                                         *)
(* A message is what the checks tell apart: the marks found in its text,   *)
(* who may do what it asks, and its metadata of the bus.  A tool is named  *)
(* by the agent it is allowed to.  The histories of the monitors are the   *)
(* state; log remembers every message for the properties.                  *)
(***************************************************************************)
EXTENDS Integers, Sequences, FiniteSetsExt, Filtering

CONSTANTS
  Messages,       \* the messages looked at
  MaxCalls,       \* tool calls of an agent in a minute (100 in the code)
  MaxFailures,    \* failed calls in a row (5)
  MaxIngestions,  \* documents of an agent in a minute (20)
  MaxPerChannel,  \* messages of a channel in a minute (200)
  MaxVolume,      \* characters sent by an agent in a minute (500,000)
  MaxPayload,     \* characters of a message (100,000)
  MaxDocument,    \* characters of a document (50,000)
  MinHistory,     \* values before one can be an outlier (10)
  ZThreshold,     \* standard deviations (3)
  HistorySize,    \* values kept (200)
  Minute,         \* the span of every limit
  CallsKept,      \* the span of the calls kept (5 minutes)
  StrikeLimit,    \* QUARANTINE_THRESHOLD (3)
  StrikeWindow,   \* QUARANTINE_WINDOW (5 minutes)
  Tenure,         \* QUARANTINE_EXPIRY (10 minutes)
  LastInstant,    \* bound: the clock
  MaxLog          \* bound: messages scanned

ASSUME ScanAssumption ==
  /\ {MaxCalls, MaxFailures, MaxIngestions, MaxPerChannel, MaxVolume, MaxPayload, MaxDocument,
      MinHistory, ZThreshold, Minute, StrikeLimit, StrikeWindow} \subseteq Nat \ {0}
  /\ Tenure \in Nat
  /\ HistorySize \in Nat /\ HistorySize >= MinHistory
  /\ CallsKept \in Nat /\ CallsKept >= Minute
  /\ LastInstant \in Nat /\ MaxLog \in Nat

ASSUME MessageAssumption ==
  \A m \in Messages : m.size \in Nat /\ m.ingests \in BOOLEAN /\ m.success \in BOOLEAN

VARIABLES
  calls,      \* tool_usage_monitor._call_history: times of an agent's calls
  failed,     \* tool_usage_monitor._consecutive_failures
  ingested,   \* rag_poisoning_detector._ingestion_history
  outbound,   \* data_exfiltration_detector._outbound_volume
  requests,   \* anomaly_monitor._request_timestamps
  rates,      \* anomaly_monitor._history of request_rate
  sizes,      \* anomaly_monitor._history of payload_size
  channels,   \* message_bus_monitor._channel_rates
  struck,     \* agent._strike_history: times of an agent's serious threats
  monitored,  \* agent._quarantined_agents; Unmonitored stands for "no entry"
  outcome,    \* the threats found in the latest message, and the verdict
  clock,
  log         \* history: the messages scanned, their times and severities

scanVars ==
  <<calls, failed, ingested, outbound, requests, rates, sizes, channels, struck, monitored,
    outcome, clock, log>>

Senders == {m.from : m \in Messages}

Registered == {"agent_1", "agent_2", "agent_3", "agent_4", "agent_5", "langgraph",
               "dataset-replay", "mcp-mock-server"}

\* AGENT_PERMISSIONS.
Permitted == {"agent_1", "agent_2", "agent_3", "agent_4", "agent_5"}
CanWriteDb == {"agent_2", "agent_3", "agent_5"}
CanAccessVault == {"agent_5"}
AllowedChannels ==
  [agent_1 |-> {"agent_1_in", "agent_1_out", "orchestrator_in"},
   agent_2 |-> {"orchestrator_in", "orchestrator_out", "agent_1_in", "agent_3_in", "agent_4_in"},
   agent_3 |-> {"agent_3_in", "agent_3_out", "orchestrator_in"},
   agent_4 |-> {"agent_4_in", "agent_4_out", "orchestrator_in"}]

\* CHANNEL_SENDERS.
ChannelSenders ==
  [agent_1_in       |-> {"langgraph", "agent_2"},
   agent_1_out      |-> {"agent_1"},
   orchestrator_in  |-> {"agent_1", "agent_3", "agent_4", "agent_5", "langgraph"},
   orchestrator_out |-> {"agent_2"},
   agent_3_in       |-> {"agent_2", "langgraph"},
   agent_3_out      |-> {"agent_3"},
   agent_4_in       |-> {"agent_2", "langgraph"},
   agent_4_out      |-> {"agent_4"},
   security_events  |-> {"agent_1", "agent_2", "agent_3", "agent_4", "agent_5"}]

TrustedDocumentSources == {"agent_2", "agent_3", "agent_4", "knowledge_base", "mcp-mock-server"}

Low == 1
Medium == 2
High == 3
Critical == 4

-----------------------------------------------------------------------------
(* Windows of time.                                                        *)

\* Mutant: the cutoff itself is kept.
RecentInclusive(times, span) == Selected(times, {t \in Nat : t >= clock - span})

\* The times after a cutoff `span` ago, which itself is dropped.
Recent(times, span) == Selected(times, {t \in Nat : t > clock - span})

\* A window after an event, which is counted before the limit is looked at.
Slid(times, span) == Recent(Append(times, clock), span)

Sendings == [at : Nat, size : Nat]

OutboundAfter(m) ==
  Selected(Append(outbound[m.from], [at |-> clock, size |-> m.size]),
           {e \in Sendings : e.at > clock - Minute})

\* |value - mean| > ZThreshold * standard deviation of h, which must not be
\* zero, multiplied out.
Outlier(value, h) ==
  LET n == Len(h)
      gap == n * value - Total(h)
      spread == n * Total([k \in DOMAIN h |-> h[k] * h[k]]) - Total(h) * Total(h)
  IN  n >= MinHistory /\ spread > 0 /\ gap * gap > ZThreshold * ZThreshold * spread

Remembered(h, value) ==
  IF Len(h) < HistorySize THEN Append(h, value) ELSE Append(Tail(h), value)

-----------------------------------------------------------------------------
(* Detectors: each finds some checks violated, and is as severe as the     *)
(* worst of them.                                                          *)

If(condition, check, severity) == IF condition THEN {[check |-> check, severity |-> severity]} ELSE {}

Finding(kind, issues) ==
  IF issues = {} THEN <<>>
  ELSE LET worst == Max({i.severity : i \in issues}) IN
       <<[kind |-> kind, severity |-> worst, checks |-> {i.check : i \in issues},
          action |-> IF worst >= High THEN "BLOCK" ELSE "ALERT"]>>

\* The four tables of patterns.
InjectionSeverity == [override |-> Critical, role |-> High, format |-> Medium, tease |-> Low]

\* What the patterns match anywhere in the text of a message, however nested.
InjectionMarks(m) == m.marks \cap DOMAIN InjectionSeverity
HidesInstructions(m) == "hidden" \in m.marks
LeaksSecret(m) == "secret" \in m.marks
NamesEndpoint(m) == "external" \in m.marks

PromptInjection(m) ==
  Finding("PROMPT_INJECTION",
          {[check |-> k, severity |-> InjectionSeverity[k]] : k \in InjectionMarks(m)})

IngestedAfter(m) == IF m.ingests THEN Slid(ingested[m.from], Minute) ELSE ingested[m.from]

Poisoning(m) ==
  Finding("RAG_POISONING",
          If(HidesInstructions(m), "hidden_instructions", High)
          \cup If(m.ingests /\ m.source \notin TrustedDocumentSources, "untrusted_source", High)
          \cup If(m.ingests /\ Len(IngestedAfter(m)) > MaxIngestions, "ingestion_rate_spike", Medium)
          \cup If(m.content > MaxDocument, "oversized_document", Low))

Escalation(m) ==
  IF m.from \notin Permitted THEN <<>>
  ELSE Finding("PRIVILEGE_ESCALATION",
          If(m.tool \notin {"", m.from}, "unauthorized_tool", High)
          \cup If(/\ m.target # "" /\ m.from # "agent_5"
                  /\ m.target \notin AllowedChannels[m.from], "unauthorized_channel", Medium)
          \cup If(m.admin /\ m.from # "agent_5", "admin_operation", Critical)
          \cup If(m.writesDb /\ m.from \notin CanWriteDb, "unauthorized_db_write", High)
          \cup If(m.opensVault /\ m.from \notin CanAccessVault, "unauthorized_vault_access", Critical)
          \cup If(m.crossesTenant, "cross_tenant_access", Critical))

Exfiltration(m) ==
  Finding("DATA_EXFILTRATION",
          If(LeaksSecret(m), "sensitive_data_leak", Critical)
          \cup If(m.size > MaxPayload, "oversized_payload", High)
          \cup If(NamesEndpoint(m), "external_endpoint", High)
          \cup If("blob" \in m.marks, "base64_blob", Medium)
          \cup If(LET sent == OutboundAfter(m) IN
                  Total([k \in DOMAIN sent |-> sent[k].size]) > MaxVolume, "volume_spike", Medium))

\* With a signing key configured, as deployed.
Spoofing(m) ==
  Finding("AGENT_SPOOFING",
          If(m.from # "" /\ m.from \notin Registered, "unknown_agent", High)
          \cup If(m.signature = "none", "no_signature", Medium)
          \cup If(m.signature = "wrong", "signature_mismatch", Critical))

-----------------------------------------------------------------------------
(* Monitors: every issue is a threat of its own, and only ever an alert.   *)

Alert(condition, check, severity) ==
  IF condition
  THEN <<[kind |-> "ANOMALY", severity |-> severity, checks |-> {check}, action |-> "ALERT"]>>
  ELSE <<>>

FailedAfter(m) == IF m.success THEN 0 ELSE failed[m.from] + 1
CallsAfter(m) == Slid(calls[m.from], CallsKept)

ToolUsage(m) ==
  Alert(Len(Recent(CallsAfter(m), Minute)) > MaxCalls, "rate_limit_exceeded", High)
  \o Alert(FailedAfter(m) >= MaxFailures, "consecutive_failures", Medium)

Rate(m) == Len(Slid(requests[m.from], Minute))

Statistical(m) ==
  Alert(Outlier(Rate(m), rates[m.from]), "request_rate", Medium)
  \o Alert(Outlier(m.size, sizes[m.from]), "payload_size", Medium)

\* A message with a channel or a sender came over the bus.
OnBus(m) == m.channel # "" \/ m.sender # ""
BusChannel(m) == IF m.channel = "" THEN "unknown" ELSE m.channel
ChannelAfter(m) == Slid(channels[BusChannel(m)], Minute)

Bus(m) ==
  IF ~OnBus(m) THEN <<>>
  ELSE Alert(~m.complete, "missing_fields", Medium)
    \o Alert(Len(ChannelAfter(m)) > MaxPerChannel, "channel_flooding", High)
    \o Alert(/\ m.sender # "" /\ m.channel \in DOMAIN ChannelSenders
             /\ m.sender \notin ChannelSenders[m.channel], "unauthorized_sender", High)
    \o Alert(~m.sealed, "missing_signature", Medium)
    \o Alert(m.flagged, "invalid_signature", Critical)

\* What the detectors find, and what the monitors raise, in the order in
\* which analyze appends it.
Detected(m) ==
  PromptInjection(m) \o Poisoning(m) \o Escalation(m) \o Exfiltration(m) \o Spoofing(m)
Raised(m) == ToolUsage(m) \o Statistical(m) \o Bus(m)

\* Mutant: the monitors are asked before the detectors.
FoundMonitorsFirst(m) == Raised(m) \o Detected(m)

Found(m) == Detected(m) \o Raised(m)

\* The first of the most severe threats.
Highest(threats) ==
  threats[CHOOSE i \in DOMAIN threats :
            \A j \in DOMAIN threats : /\ threats[j].severity <= threats[i].severity
                                      /\ j < i => threats[j].severity < threats[i].severity]

Clear == [kind |-> "NONE", severity |-> 0, checks |-> {}, action |-> "LOG"]

Chosen(threats) == IF threats = <<>> THEN Clear ELSE Highest(threats)

-----------------------------------------------------------------------------
(* Strikes and quarantine.                                                 *)

Unmonitored == -1

\* is_quarantined, asked as the scan begins: an entry past its end is dropped.
Standing(a) ==
  IF monitored[a] # Unmonitored /\ clock - monitored[a] > Tenure THEN Unmonitored ELSE monitored[a]

\* _record_strike: only a serious threat counts, and only then are old ones dropped.
StruckAfter(a, severity) ==
  IF severity >= High THEN Slid(struck[a], StrikeWindow) ELSE struck[a]

\* _should_quarantine, asked when there is a threat.
Trips(a, severity) ==
  /\ severity > 0 /\ Standing(a) = Unmonitored
  /\ Len(StruckAfter(a, severity)) >= StrikeLimit

\* The threat that puts its agent under monitoring is not to be blocked.
Verdict(a, threats) ==
  LET chosen == Chosen(threats) IN
  IF Trips(a, chosen.severity) THEN [chosen EXCEPT !.action = "ALERT"] ELSE chosen

-----------------------------------------------------------------------------
ScanInit ==
  /\ calls = [a \in Senders |-> <<>>] /\ failed = [a \in Senders |-> 0]
  /\ ingested = [a \in Senders |-> <<>>] /\ outbound = [a \in Senders |-> <<>>]
  /\ requests = [a \in Senders |-> <<>>]
  /\ rates = [a \in Senders |-> <<>>] /\ sizes = [a \in Senders |-> <<>>]
  /\ channels = [c \in {BusChannel(m) : m \in Messages} |-> <<>>]
  /\ struck = [a \in Senders |-> <<>>] /\ monitored = [a \in Senders |-> Unmonitored]
  /\ outcome = [threats |-> <<>>, verdict |-> Clear]
  /\ clock = 0 /\ log = <<>>

Analyze(m) ==
  LET threats  == Found(m)
      severity == Chosen(threats).severity
  IN
  /\ Len(log) < MaxLog
  /\ outcome' = [threats |-> threats, verdict |-> Verdict(m.from, threats)]
  /\ struck' = [struck EXCEPT ![m.from] = StruckAfter(m.from, severity)]
  /\ monitored' = [monitored EXCEPT
                     ![m.from] = IF Trips(m.from, severity) THEN clock ELSE Standing(m.from)]
  /\ calls' = [calls EXCEPT ![m.from] = CallsAfter(m)]
  /\ failed' = [failed EXCEPT ![m.from] = FailedAfter(m)]
  /\ ingested' = [ingested EXCEPT ![m.from] = IngestedAfter(m)]
  /\ outbound' = [outbound EXCEPT ![m.from] = OutboundAfter(m)]
  /\ requests' = [requests EXCEPT ![m.from] = Slid(@, Minute)]
  /\ rates' = [rates EXCEPT ![m.from] = Remembered(@, Rate(m))]
  /\ sizes' = [sizes EXCEPT ![m.from] = Remembered(@, m.size)]
  /\ channels' = IF OnBus(m) THEN [channels EXCEPT ![BusChannel(m)] = ChannelAfter(m)]
                 ELSE channels
  /\ log' = Append(log, [message |-> m, at |-> clock, severity |-> severity])
  /\ UNCHANGED clock

\* release_quarantine: the strikes stay.
LiftMonitoring(a) ==
  /\ monitored[a] # Unmonitored
  /\ monitored' = [monitored EXCEPT ![a] = Unmonitored]
  /\ UNCHANGED <<calls, failed, ingested, outbound, requests, rates, sizes, channels, struck,
                 outcome, clock, log>>

ScanTick ==
  /\ clock < LastInstant
  /\ clock' = clock + 1
  /\ UNCHANGED <<calls, failed, ingested, outbound, requests, rates, sizes, channels, struck,
                 monitored, outcome, log>>

ScanNext ==
  \/ ScanTick
  \/ \E m \in Messages : Analyze(m)
  \/ \E a \in Senders : LiftMonitoring(a)

ScanSpec == ScanInit /\ [][ScanNext]_scanVars

-----------------------------------------------------------------------------
Issues == {"hidden_instructions", "untrusted_source", "ingestion_rate_spike",
           "oversized_document", "unauthorized_tool", "unauthorized_channel", "admin_operation",
           "unauthorized_db_write", "unauthorized_vault_access", "cross_tenant_access",
           "sensitive_data_leak", "oversized_payload", "external_endpoint", "base64_blob",
           "volume_spike", "unknown_agent", "no_signature", "signature_mismatch", "override",
           "role", "format", "tease", "rate_limit_exceeded", "consecutive_failures",
           "request_rate", "payload_size", "missing_fields", "channel_flooding",
           "unauthorized_sender", "missing_signature", "invalid_signature"}

Threat == [kind : {"PROMPT_INJECTION", "RAG_POISONING", "PRIVILEGE_ESCALATION",
                   "DATA_EXFILTRATION", "AGENT_SPOOFING", "ANOMALY"},
           severity : Low..Critical, checks : SUBSET Issues, action : {"BLOCK", "ALERT"}]

ScanTypeOK ==
  /\ \A f \in {calls, ingested, requests, struck} :
       \A a \in Senders : f[a] \in Seq(0..LastInstant)
  /\ monitored \in [Senders -> {Unmonitored} \cup 0..LastInstant]
  /\ \A c \in DOMAIN channels : channels[c] \in Seq(0..LastInstant)
  /\ failed \in [Senders -> 0..MaxLog]
  /\ \A a \in Senders : Len(rates[a]) <= HistorySize /\ Len(sizes[a]) = Len(rates[a])
  /\ outcome.threats \in Seq(Threat) /\ outcome.verdict \in Threat \cup {Clear}
  /\ clock \in 0..LastInstant

Entries == [message : Messages, at : Nat, severity : 0..Critical]

\* A monitor raises a limit exactly when the messages of the last minute
\* exceed it, the latest one included: nothing is forgotten too early, and
\* what is older than a minute counts against nobody.  Failed calls count
\* while no call of the agent has succeeded since, however long ago.
LimitsExact ==
  log # <<>> =>
    LET latest == log[Len(log)].message
        cutoff == log[Len(log)].at - Minute
        raised == UNION {outcome.threats[k].checks : k \in DOMAIN outcome.threats}
        mine == Selected(log, {e \in Entries : e.message.from = latest.from})
        sent == Selected(log, {e \in Entries : e.message.from = latest.from /\ e.at > cutoff})
        read == Selected(log, {e \in Entries : /\ e.message.from = latest.from /\ e.message.ingests
                                               /\ e.at > cutoff})
        passed == Selected(log, {e \in Entries : /\ OnBus(e.message)
                                                 /\ BusChannel(e.message) = BusChannel(latest)
                                                 /\ e.at > cutoff})
    IN  /\ "rate_limit_exceeded" \in raised <=> Len(sent) > MaxCalls
        /\ "volume_spike" \in raised <=>
             Total([k \in DOMAIN sent |-> sent[k].message.size]) > MaxVolume
        /\ "ingestion_rate_spike" \in raised <=> latest.ingests /\ Len(read) > MaxIngestions
        /\ "channel_flooding" \in raised <=> OnBus(latest) /\ Len(passed) > MaxPerChannel
        /\ "consecutive_failures" \in raised <=>
             /\ Len(mine) >= MaxFailures
             /\ \A k \in Len(mine) - MaxFailures + 1..Len(mine) : ~mine[k].message.success

\* The verdict is as severe as the worst threat.  A detector that says BLOCK is
\* overruled by a threat more severe than its own, or because the message puts
\* its sender under monitoring: the sender was not under it, and this is the
\* StrikeLimit-th of its serious messages within one window (agent.py:257-277).
BlockStands ==
  [][log' # log =>
       LET a == log'[Len(log')].message.from
           burst == Selected(log', {e \in Entries : /\ e.message.from = a /\ e.severity >= High
                                                    /\ e.at > clock - StrikeWindow})
       IN \A k \in DOMAIN outcome'.threats :
            LET t == outcome'.threats[k] IN
            /\ t.severity <= outcome'.verdict.severity
            /\ t.action = "BLOCK" =>
                 \/ outcome'.verdict.action = "BLOCK"
                 \/ outcome'.verdict.severity > t.severity
                 \/ /\ Len(burst) >= StrikeLimit
                    /\ Standing(a) = Unmonitored /\ monitored'[a] = clock]_scanVars

=============================================================================

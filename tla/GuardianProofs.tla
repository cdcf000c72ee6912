---------------------------- MODULE GuardianProofs ----------------------------
(***************************************************************************)
(* Proofs about the security guardian, for every set of agents, requests   *)
(* and messages and every value of the thresholds: about SecurityGuardian, *)
(* what becomes of a threat, and then about GuardianScan, which threats a  *)
(* message is found to hold.                                               *)
(***************************************************************************)
EXTENDS SecurityGuardian, GuardianScan, FilterLemmas

---------------------------------------------------------------------------
(* SecurityGuardian.                                                       *)

---------------------------------------------------------------------------
(* Facts about the operators.                                              *)

\* What Keep returns of a list is a list of the same kind of elements.
LEMMA KeepType ==
  ASSUME NEW S, NEW list \in Seq(S), NEW cap \in Nat \ {0}
  PROVE  Keep(list, cap) \in Seq(S)
<1>1. CASE Len(list) > cap
  <2>1. Len(list) \in Nat  OBVIOUS
  <2>2. Len(list) - cap + 1 \in 1..Len(list) /\ Len(list) \in 1..Len(list)
    BY <1>1, <2>1
  <2>3. SubSeq(list, Len(list) - cap + 1, Len(list)) \in Seq(S)
    BY <2>2, SubSeqProperties
  <2>. QED  BY <1>1, <2>3 DEF Keep
<1>2. CASE ~(Len(list) > cap)
  BY <1>2 DEF Keep
<1>. QED  BY <1>1, <1>2

\* AfterExpiryCheck yields a dictionary of the same type, and only drops
\* entries that are past their expiry.
LEMMA ExpiryCheckType ==
  ASSUME TypeOK, NEW S
  PROVE  /\ AfterExpiryCheck(S) \in [Agents -> Nat]
         /\ \A a \in Agents : \/ AfterExpiryCheck(S)[a] = quarantinedAt[a]
                              \/ Expired(a) /\ AfterExpiryCheck(S)[a] = 0
BY DEF TypeOK, AfterExpiryCheck

\* The strikes of an answered threat: old ones, and this one at this instant.
LEMMA StrikesAfterFacts ==
  ASSUME TypeOK, NEW r \in Requests, NEW threat
  PROVE  /\ StrikesAfter(r, threat) \in SUBSET [req : Requests, ts : Nat]
         /\ \A s \in StrikesAfter(r, threat) :
              s \in strikes[src[r]] \/ s = [req |-> r, ts |-> now]
         /\ threat.severity \in Serious =>
              \A s \in StrikesAfter(r, threat) : s.ts > now - Window
         /\ threat.severity \notin Serious => StrikesAfter(r, threat) = strikes[src[r]]
<1>1. src[r] \in Agents /\ now \in Nat
      /\ strikes[src[r]] \in SUBSET [req : Requests, ts : Nat]
  BY DEF TypeOK
<1>2. [req |-> r, ts |-> now] \in [req : Requests, ts : Nat]
  BY <1>1
<1>. QED  BY <1>1, <1>2 DEF StrikesAfter

---------------------------------------------------------------------------
(* Types.                                                                  *)

\* Responding to a conclusion keeps every type.
LEMMA RespondType ==
  ASSUME TypeOK, NEW r \in Requests, NEW q \in [Agents -> Nat],
         NEW threat \in Threats \cup {NoThreat}, Respond(r, q, threat)
  PROVE  /\ pc' \in [Requests -> Stages]
         /\ answer' \in [Requests -> Threats \cup {NoThreat}]
         /\ strikes' \in [Agents -> SUBSET [req : Requests, ts : Nat]]
         /\ quarantinedAt' \in [Agents -> Nat]
         /\ lastAlert' \in [Types -> Nat]
         /\ incidents' \in Seq(Requests)
         /\ alerts' \subseteq [req : Requests, type : Types, ts : Nat]
<1>. USE DEF TypeOK
<1>1. CASE RespondClean(r, q)
  BY <1>1 DEF RespondClean, Stages
<1>2. CASE threat \in Threats /\ RespondThreat(r, q, threat)
  <2>1. src[r] \in Agents /\ now \in Nat /\ threat.type \in Types
    BY <1>2 DEF Threats
  <2>2. incidents' \in Seq(Requests)
    <3>1. Append(incidents, r) \in Seq(Requests)  OBVIOUS
    <3>2. Keep(Append(incidents, r), MaxBuffer) \in Seq(Requests)
      BY <3>1, KeepType, LimitsAssumption
    <3>. QED  BY <1>2, <3>2 DEF RespondThreat
  <2>3. strikes' \in [Agents -> SUBSET [req : Requests, ts : Nat]]
    <3>1. StrikesAfter(r, threat) \in SUBSET [req : Requests, ts : Nat]
      BY StrikesAfterFacts
    <3>2. strikes' = [strikes EXCEPT ![src[r]] = StrikesAfter(r, threat)]
      BY <1>2 DEF RespondThreat
    <3>. QED  BY <3>1, <3>2, <2>1
  <2>4. quarantinedAt' \in [Agents -> Nat]
    <3>1. quarantinedAt' = q \/ quarantinedAt' = [q EXCEPT ![src[r]] = now]
      BY <1>2 DEF RespondThreat
    <3>. QED  BY <3>1, <2>1
  <2>5. answer' \in [Requests -> Threats \cup {NoThreat}]
    <3>1. [threat EXCEPT !.action = "ALERT"] \in Threats
      BY <1>2 DEF Threats, Actions
    <3>2. \/ answer' = [answer EXCEPT ![r] = threat]
          \/ answer' = [answer EXCEPT ![r] = [threat EXCEPT !.action = "ALERT"]]
      BY <1>2 DEF RespondThreat
    <3>. QED  BY <1>2, <3>1, <3>2
  <2>6. lastAlert' \in [Types -> Nat]
    BY <1>2, <2>1 DEF RespondThreat
  <2>7. alerts' \subseteq [req : Requests, type : Types, ts : Nat]
    <3>1. [req |-> r, type |-> threat.type, ts |-> now]
            \in [req : Requests, type : Types, ts : Nat]
      BY <2>1
    <3>. QED  BY <1>2, <3>1 DEF RespondThreat
  <2>8. pc' \in [Requests -> Stages]
    <3>1. FirstCall(threat.severity) \in Stages
      BY DEF FirstCall, Stages
    <3>2. \/ pc' = [pc EXCEPT ![r] = FirstCall(threat.severity)]
          \/ pc' = [pc EXCEPT ![r] = "answered"]
      BY <1>2 DEF RespondThreat
    <3>. QED  BY <3>1, <3>2 DEF Stages
  <2>. QED  BY <2>2, <2>3, <2>4, <2>5, <2>6, <2>7, <2>8
<1>. QED  BY <1>1, <1>2 DEF Respond

\* The rethinking's conclusion is a threat or none.
LEMMA AfterRethinkType ==
  ASSUME NEW raised \in DetectorThreats \cup {NoThreat}, NEW v,
         NEW confirmed \in RethinkThreats
  PROVE  AfterRethink(raised, v, confirmed) \in Threats \cup {NoThreat}
BY ThreatsAssumption DEF AfterRethink, Threats, Types

\* The types hold initially.
LEMMA TypeInit == Init => TypeOK
<1>. SUFFICES ASSUME Init PROVE TypeOK  OBVIOUS
<1>1. now \in Nat  BY TimesAssumption DEF Init
<1>2. incidents \in Seq(Requests) /\ learned \in Seq(Requests)  BY DEF Init
<1>. QED  BY <1>1, <1>2 DEF Init, TypeOK, Stages, Verdicts

\* Every step keeps the types.
LEMMA TypeStep == TypeOK /\ [Next]_vars => TypeOK'
<1>. SUFFICES ASSUME TypeOK, [Next]_vars PROVE TypeOK'  OBVIOUS
<1>1. CASE Tick
  BY <1>1 DEF Tick, TypeOK
<1>2. CASE ListQuarantined
  BY <1>2, ExpiryCheckType DEF ListQuarantined, TypeOK
<1>3. ASSUME NEW a \in Agents, Release(a) PROVE TypeOK'
  BY <1>3 DEF Release, TypeOK
<1>4. ASSUME NEW r \in Requests, Begin(r) PROVE TypeOK'
  <2>1. under' \in [Requests -> BOOLEAN]
    BY <1>4 DEF Begin, TypeOK, IsQuarantined
  <2>. QED  BY <1>4, <2>1, ExpiryCheckType DEF Begin, TypeOK, Stages
<1>5. ASSUME NEW r \in Requests, AnalyzeOffline(r) PROVE TypeOK'
  <2>1. PICK raised \in DetectorThreats \cup {NoThreat} :
          /\ under' = [under EXCEPT ![r] = IsQuarantined(src[r])]
          /\ Respond(r, AfterExpiryCheck({src[r]}), raised)
          /\ UNCHANGED <<configured, now, src, verdict, learned, began>>
    BY <1>5 DEF AnalyzeOffline
  <2>2. under' \in [Requests -> BOOLEAN]
    BY <2>1 DEF TypeOK, IsQuarantined
  <2>3. raised \in Threats \cup {NoThreat}  BY ThreatsAssumption
  <2>4. AfterExpiryCheck({src[r]}) \in [Agents -> Nat]  BY ExpiryCheckType
  <2>. QED  BY <2>1, <2>2, <2>3, <2>4, RespondType DEF TypeOK
<1>6. ASSUME NEW r \in Requests, ConcludeUnasked(r) PROVE TypeOK'
  <2>1. quarantinedAt \in [Agents -> Nat]  BY DEF TypeOK
  <2>. QED  BY <1>6, <2>1 DEF ConcludeUnasked, RespondClean, TypeOK, Stages
<1>7. ASSUME NEW r \in Requests, ConcludeRethought(r) PROVE TypeOK'
  <2>1. PICK raised \in DetectorThreats \cup {NoThreat}, v \in Verdicts \ {"UNASKED"},
             confirmed \in RethinkThreats, learns \in BOOLEAN :
          /\ verdict' = [verdict EXCEPT ![r] = v]
          /\ learned' = IF learns THEN Keep(Append(learned, r), MaxLearned) ELSE learned
          /\ Respond(r, quarantinedAt, AfterRethink(raised, v, confirmed))
          /\ began' = [began EXCEPT ![r] = 0]
          /\ UNCHANGED <<configured, now, src, under>>
    BY <1>7 DEF ConcludeRethought
  <2>2. learned' \in Seq(Requests)
    <3>1. Append(learned, r) \in Seq(Requests)  BY DEF TypeOK
    <3>2. Keep(Append(learned, r), MaxLearned) \in Seq(Requests)
      BY <3>1, KeepType, LimitsAssumption
    <3>. QED  BY <2>1, <3>2 DEF TypeOK
  <2>3. verdict' \in [Requests -> Verdicts]  BY <2>1 DEF TypeOK
  <2>4. quarantinedAt \in [Agents -> Nat]  BY DEF TypeOK
  <2>5. AfterRethink(raised, v, confirmed) \in Threats \cup {NoThreat}
    BY AfterRethinkType
  <2>. QED  BY <2>1, <2>2, <2>3, <2>4, <2>5, RespondType DEF TypeOK
<1>8. ASSUME NEW r \in Requests, SlackReturns(r) PROVE TypeOK'
  BY <1>8 DEF SlackReturns, TypeOK, Stages
<1>9. ASSUME NEW r \in Requests, PagerDutyReturns(r) PROVE TypeOK'
  BY <1>9 DEF PagerDutyReturns, TypeOK, Stages
<1>10. ASSUME NEW r \in Requests, Tag(r) PROVE TypeOK'
  BY <1>10, ExpiryCheckType DEF Tag, TypeOK, Stages
<1>11. CASE UNCHANGED vars
  BY <1>11 DEF vars, TypeOK
<1>. QED  BY <1>1, <1>2, <1>3, <1>4, <1>5, <1>6, <1>7, <1>8, <1>9, <1>10, <1>11
          DEF Next, Resume

\* Every state of every behaviour is well typed.
THEOREM TypeCorrect == Spec => []TypeOK
BY TypeInit, TypeStep, PTL DEF Spec

---------------------------------------------------------------------------
(* What a step can do to the strikes, the quarantines and the alerts.      *)

\* A dictionary that lost only entries past their expiry.
Pruned(q) ==
  /\ q \in [Agents -> Nat]
  /\ \A a \in Agents : q[a] = quarantinedAt[a] \/ (Expired(a) /\ q[a] = 0)

\* A step that records no threat may move the clock on, or let quarantines end.
QuietStep ==
  /\ UNCHANGED <<src, answer, strikes, alerts, lastAlert>>
  /\ now' \in Nat /\ now' >= now
  /\ \A a \in Agents :
       \/ quarantinedAt'[a] = quarantinedAt[a]
       \/ quarantinedAt'[a] = 0 /\ (Expired(a) \/ Release(a))

\* A step that answers a threat does so on the dictionary as it is, after a wait,
\* or as the expiry check of this instant leaves it.
ThreatStep ==
  \E r \in Requests, threat \in Threats, q \in [Agents -> Nat] :
    /\ Pruned(q)
    /\ pc[r] = "scanning" \/ q[src[r]] = 0 \/ ~Expired(src[r])
    /\ RespondThreat(r, q, threat) /\ UNCHANGED <<now, src>>

\* A dictionary that was pruned and stored, with nothing else changed.
LEMMA PrunedIsQuiet ==
  ASSUME TypeOK, NEW q, Pruned(q), quarantinedAt' = q,
         UNCHANGED <<now, src, answer, strikes, alerts, lastAlert>>
  PROVE  QuietStep
<1>1. now' \in Nat /\ now' >= now  BY DEF TypeOK
<1>. QED  BY <1>1 DEF QuietStep, Pruned

\* The quarantines as they are, pruned of none.
LEMMA SamePruned == ASSUME TypeOK PROVE Pruned(quarantinedAt)
BY DEF TypeOK, Pruned

\* The expiry check prunes and adds nothing.
LEMMA ExpiryPruned == ASSUME TypeOK, NEW S PROVE Pruned(AfterExpiryCheck(S))
BY ExpiryCheckType DEF Pruned

\* Responding is quiet or records a threat.
LEMMA RespondEffect ==
  ASSUME TypeOK, NEW r \in Requests, NEW q, Pruned(q),
         pc[r] = "scanning" \/ q[src[r]] = 0 \/ ~Expired(src[r]),
         NEW threat \in Threats \cup {NoThreat}, Respond(r, q, threat),
         UNCHANGED <<now, src>>
  PROVE  QuietStep \/ ThreatStep
<1>1. CASE RespondClean(r, q)
  BY <1>1, PrunedIsQuiet DEF RespondClean
<1>2. CASE threat \in Threats /\ RespondThreat(r, q, threat)
  BY <1>2 DEF ThreatStep, Pruned
<1>. QED  BY <1>1, <1>2 DEF Respond

\* A step answers one threat or none.
LEMMA StepEffect == TypeOK /\ [Next]_vars => QuietStep \/ ThreatStep
<1>. SUFFICES ASSUME TypeOK, [Next]_vars PROVE QuietStep \/ ThreatStep  OBVIOUS
<1>0. now \in Nat  BY DEF TypeOK
<1>1. CASE Tick
  BY <1>0, <1>1 DEF Tick, QuietStep
<1>2. CASE ListQuarantined
  BY <1>2, ExpiryPruned, PrunedIsQuiet DEF ListQuarantined
<1>3. ASSUME NEW b \in Agents, Release(b) PROVE QuietStep
  <2>1. ASSUME NEW a \in Agents
        PROVE  \/ quarantinedAt'[a] = quarantinedAt[a]
               \/ quarantinedAt'[a] = 0 /\ Release(a)
    <3>1. CASE a = b  BY <1>3, <3>1 DEF Release, TypeOK
    <3>2. CASE a # b  BY <1>3, <3>2 DEF Release, TypeOK
    <3>. QED  BY <3>1, <3>2
  <2>2. UNCHANGED <<now, src, answer, strikes, alerts, lastAlert>>  BY <1>3 DEF Release
  <2>. QED  BY <1>0, <2>1, <2>2 DEF QuietStep
<1>4. ASSUME NEW r \in Requests, Begin(r) PROVE QuietStep
  BY <1>4, ExpiryPruned, PrunedIsQuiet DEF Begin
<1>5. ASSUME NEW r \in Requests, AnalyzeOffline(r) PROVE QuietStep \/ ThreatStep
  <2>1. PICK raised \in DetectorThreats \cup {NoThreat} :
          /\ Respond(r, AfterExpiryCheck({src[r]}), raised)
          /\ UNCHANGED <<now, src>>
    BY <1>5 DEF AnalyzeOffline
  <2>2. raised \in Threats \cup {NoThreat}  BY ThreatsAssumption
  <2>3. AfterExpiryCheck({src[r]})[src[r]] = 0 \/ ~Expired(src[r])
    BY DEF AfterExpiryCheck, TypeOK
  <2>. QED  BY <2>1, <2>2, <2>3, ExpiryPruned, RespondEffect
<1>6. ASSUME NEW r \in Requests, ConcludeUnasked(r) PROVE QuietStep
  BY <1>6, SamePruned, PrunedIsQuiet DEF ConcludeUnasked, RespondClean
<1>7. ASSUME NEW r \in Requests, ConcludeRethought(r) PROVE QuietStep \/ ThreatStep
  <2>1. PICK raised \in DetectorThreats \cup {NoThreat}, v \in Verdicts \ {"UNASKED"},
             confirmed \in RethinkThreats :
          /\ Respond(r, quarantinedAt, AfterRethink(raised, v, confirmed))
          /\ pc[r] = "scanning"
          /\ UNCHANGED <<now, src>>
    BY <1>7 DEF ConcludeRethought
  <2>. QED  BY <2>1, AfterRethinkType, SamePruned, RespondEffect
<1>8. ASSUME NEW r \in Requests, SlackReturns(r) PROVE QuietStep
  BY <1>0, <1>8 DEF SlackReturns, QuietStep
<1>9. ASSUME NEW r \in Requests, PagerDutyReturns(r) PROVE QuietStep
  BY <1>0, <1>9 DEF PagerDutyReturns, QuietStep
<1>10. ASSUME NEW r \in Requests, Tag(r) PROVE QuietStep
  BY <1>10, ExpiryPruned, PrunedIsQuiet DEF Tag
<1>11. CASE UNCHANGED vars
  BY <1>0, <1>11 DEF vars, QuietStep
<1>. QED  BY <1>1, <1>2, <1>3, <1>4, <1>5, <1>6, <1>7, <1>8, <1>9, <1>10, <1>11
          DEF Next, Resume

---------------------------------------------------------------------------
(* Strikes lie within a window and belong to their agent.                  *)

StrikesOwned == \A a \in Agents : \A s \in strikes[a] : src[s.req] = a

\* A recorded threat leaves its agent's strikes within one window, and its own.
LEMMA StruckWindowed ==
  ASSUME TypeOK, StrikesWindowed, StrikesOwned, NEW r \in Requests, NEW threat
  PROVE  \A s, t \in StrikesAfter(r, threat) :
           s.ts <= now /\ t.ts - s.ts < Window /\ src[s.req] = src[r]
<1>. DEFINE a == src[r]
<1>1. a \in Agents /\ now \in Nat /\ Window \in Nat \ {0}
      /\ strikes[a] \in SUBSET [req : Requests, ts : Nat]
  BY TimesAssumption DEF TypeOK
<1>. SUFFICES ASSUME NEW s \in StrikesAfter(r, threat), NEW t \in StrikesAfter(r, threat)
              PROVE  s.ts <= now /\ t.ts - s.ts < Window /\ src[s.req] = a
  OBVIOUS
<1>2. /\ s \in strikes[a] \/ s = [req |-> r, ts |-> now]
      /\ t \in strikes[a] \/ t = [req |-> r, ts |-> now]
      /\ s.ts \in Nat /\ t.ts \in Nat
  BY StrikesAfterFacts
<1>3. s.ts <= now /\ t.ts <= now /\ src[s.req] = a
  BY <1>1, <1>2 DEF StrikesWindowed, StrikesOwned
<1>4. CASE threat.severity \in Serious
  <2>1. s.ts > now - Window  BY <1>4, StrikesAfterFacts
  <2>. QED  BY <1>1, <1>2, <1>3, <2>1
<1>5. CASE threat.severity \notin Serious
  <2>1. s \in strikes[a] /\ t \in strikes[a]  BY <1>5, StrikesAfterFacts
  <2>. QED  BY <1>1, <1>3, <2>1 DEF StrikesWindowed
<1>. QED  BY <1>4, <1>5

StrikesInv == StrikesWindowed /\ StrikesOwned

\* A step keeps the strikes to the window, and none from the future.
LEMMA StrikesStep == TypeOK /\ StrikesInv /\ [Next]_vars => StrikesInv'
<1>. SUFFICES ASSUME TypeOK, StrikesInv, [Next]_vars PROVE StrikesInv'  OBVIOUS
<1>0. now \in Nat /\ \A a \in Agents : strikes[a] \in SUBSET [req : Requests, ts : Nat]
  BY DEF TypeOK
<1>1. CASE QuietStep
  <2>1. \A a \in Agents : \A s \in strikes[a] : s.ts \in Nat /\ s.ts <= now
    BY <1>0 DEF StrikesInv, StrikesWindowed
  <2>2. \A a \in Agents : \A s \in strikes[a] : s.ts <= now'
    BY <1>0, <1>1, <2>1 DEF QuietStep
  <2>. QED  BY <1>1, <2>2 DEF QuietStep, StrikesInv, StrikesWindowed, StrikesOwned
<1>2. CASE ThreatStep
  <2>1. PICK r \in Requests, threat \in Threats :
          /\ strikes' = [strikes EXCEPT ![src[r]] = StrikesAfter(r, threat)]
          /\ now' = now /\ src' = src
    BY <1>2 DEF ThreatStep, RespondThreat
  <2>2. \A s, t \in StrikesAfter(r, threat) :
          s.ts <= now /\ t.ts - s.ts < Window /\ src[s.req] = src[r]
    BY StruckWindowed DEF StrikesInv
  <2>3. \A a \in Agents : strikes'[a] = IF a = src[r] THEN StrikesAfter(r, threat)
                                        ELSE strikes[a]
    BY <2>1 DEF TypeOK
  <2>4. StrikesWindowed'
    BY <2>1, <2>2, <2>3 DEF StrikesInv, StrikesWindowed
  <2>5. StrikesOwned'
    BY <2>1, <2>2, <2>3 DEF StrikesInv, StrikesOwned
  <2>. QED  BY <2>4, <2>5 DEF StrikesInv
<1>. QED  BY <1>1, <1>2, StepEffect

\* No strike stands initially.
LEMMA StrikesInit == Init => StrikesInv
BY DEF Init, StrikesInv, StrikesWindowed, StrikesOwned

---------------------------------------------------------------------------
(* Which escalations take effect.                                          *)

\* Time zero is no time of the clock, so that it can stand for "no entry".
ClockStarted == now >= Cooldown

\* The clock stays past the start.
LEMMA ClockStep == TypeOK /\ ClockStarted /\ [Next]_vars => ClockStarted'
<1>. SUFFICES ASSUME TypeOK, ClockStarted, [Next]_vars PROVE ClockStarted'  OBVIOUS
<1>1. now' \in Nat /\ now' >= now
  BY StepEffect DEF QuietStep, ThreatStep, TypeOK
<1>. QED  BY <1>1, TimesAssumption DEF ClockStarted, TypeOK

\* A quarantine stands until its end: an analysis that waits began before the
\* end of whatever quarantine its agent has an entry for.
BeganInTime ==
  \A r \in Requests :
    pc[r] = "scanning" =>
      began[r] <= now /\ (quarantinedAt[src[r]] # 0 =>
                            began[r] <= quarantinedAt[src[r]] + Expiry)

\* A request waits since before, or begins to wait and finds no expired entry.
LEMMA WaitEffect ==
  ASSUME TypeOK, [Next]_vars, NEW r \in Requests, pc'[r] = "scanning"
  PROVE  \/ pc[r] = "scanning" /\ began'[r] = began[r]
         \/ /\ began'[r] = now /\ now' = now /\ src' = src
            /\ quarantinedAt'[src[r]] = 0 \/ ~Expired(src[r])
            /\ quarantinedAt'[src[r]] \in {0, quarantinedAt[src[r]]}
<1>1. CASE Tick \/ ListQuarantined \/ \E a \in Agents : Release(a)
  BY <1>1 DEF Tick, ListQuarantined, Release
<1>2. ASSUME NEW p \in Requests, Begin(p)
      PROVE  \/ pc[r] = "scanning" /\ began'[r] = began[r]
             \/ /\ began'[r] = now /\ now' = now /\ src' = src
                /\ quarantinedAt'[src[r]] = 0 \/ ~Expired(src[r])
                /\ quarantinedAt'[src[r]] \in {0, quarantinedAt[src[r]]}
  <2>1. CASE p = r
    BY <1>2, <2>1 DEF Begin, AfterExpiryCheck, TypeOK
  <2>2. CASE p # r
    BY <1>2, <2>2 DEF Begin, TypeOK
  <2>. QED  BY <2>1, <2>2
<1>3. ASSUME NEW p \in Requests, NEW q, NEW threat, Respond(p, q, threat)
      PROVE  p # r /\ pc'[r] = pc[r]
  <2>1. FirstCall(threat.severity) # "scanning"  BY DEF FirstCall
  <2>2. PICK stage : pc' = [pc EXCEPT ![p] = stage] /\ stage # "scanning"
    BY <1>3, <2>1 DEF Respond, RespondClean, RespondThreat
  <2>. QED  BY <2>2 DEF TypeOK
<1>4. ASSUME NEW p \in Requests, AnalyzeOffline(p)
      PROVE  pc[r] = "scanning" /\ began'[r] = began[r]
  BY <1>3, <1>4 DEF AnalyzeOffline
<1>5. ASSUME NEW p \in Requests, ConcludeRethought(p)
      PROVE  pc[r] = "scanning" /\ began'[r] = began[r]
  <2>1. PICK raised, v, confirmed :
          /\ Respond(p, quarantinedAt, AfterRethink(raised, v, confirmed))
          /\ began' = [began EXCEPT ![p] = 0]
    BY <1>5 DEF ConcludeRethought
  <2>2. p # r /\ pc'[r] = pc[r]  BY <1>3, <2>1
  <2>. QED  BY <2>1, <2>2 DEF TypeOK
<1>6. ASSUME NEW p \in Requests, ConcludeUnasked(p)
      PROVE  pc[r] = "scanning" /\ began'[r] = began[r]
  BY <1>6 DEF ConcludeUnasked, RespondClean, TypeOK
<1>7. ASSUME NEW p \in Requests, SlackReturns(p) \/ PagerDutyReturns(p) \/ Tag(p)
      PROVE  pc[r] = "scanning" /\ began'[r] = began[r]
  BY <1>7 DEF SlackReturns, PagerDutyReturns, Tag, TypeOK
<1>8. CASE UNCHANGED vars  BY <1>8 DEF vars
<1>. QED  BY <1>1, <1>2, <1>4, <1>5, <1>6, <1>7, <1>8 DEF Next, Resume

\* An entry stays, goes, or is set at this instant.
LEMMA EntryEffect ==
  ASSUME TypeOK, [Next]_vars, NEW a \in Agents
  PROVE  quarantinedAt'[a] \in {0, quarantinedAt[a], now}
<1>1. CASE QuietStep  BY <1>1 DEF QuietStep
<1>2. CASE ThreatStep
  <2>1. PICK r \in Requests, threat \in Threats, q \in [Agents -> Nat] :
          Pruned(q) /\ RespondThreat(r, q, threat)
    BY <1>2 DEF ThreatStep
  <2>2. q[a] \in {0, quarantinedAt[a]}  BY <2>1 DEF Pruned
  <2>3. quarantinedAt' = q \/ quarantinedAt' = [q EXCEPT ![src[r]] = now]
    BY <2>1 DEF RespondThreat
  <2>. QED  BY <2>2, <2>3
<1>. QED  BY <1>1, <1>2, StepEffect

\* A step keeps every waiting analysis within the quarantine it may outlast.
LEMMA BeganStep == TypeOK /\ BeganInTime /\ [Next]_vars => BeganInTime'
<1>. SUFFICES ASSUME TypeOK, BeganInTime, [Next]_vars,
                     NEW r \in Requests, pc'[r] = "scanning"
              PROVE  began'[r] <= now' /\ (quarantinedAt'[src'[r]] # 0 =>
                                  began'[r] <= quarantinedAt'[src'[r]] + Expiry)
  BY DEF BeganInTime
<1>. DEFINE a == src[r]
<1>1. /\ a \in Agents /\ now \in Nat /\ began[r] \in Nat /\ Expiry \in Nat
      /\ quarantinedAt[a] \in Nat
  BY TimesAssumption DEF TypeOK
<1>2. now' \in Nat /\ now' >= now /\ src' = src
  BY StepEffect DEF QuietStep, ThreatStep, TypeOK
<1>3. quarantinedAt'[a] \in {0, quarantinedAt[a], now}  BY <1>1, EntryEffect
<1>4. CASE pc[r] = "scanning" /\ began'[r] = began[r]
  <2>1. began[r] <= now /\ (quarantinedAt[a] # 0 => began[r] <= quarantinedAt[a] + Expiry)
    BY <1>4 DEF BeganInTime
  <2>. QED  BY <1>1, <1>2, <1>3, <1>4, <2>1
<1>5. CASE /\ began'[r] = now /\ now' = now /\ src' = src
           /\ quarantinedAt'[a] = 0 \/ ~Expired(a)
           /\ quarantinedAt'[a] \in {0, quarantinedAt[a]}
  BY <1>1, <1>5 DEF Expired
<1>. QED  BY <1>4, <1>5, WaitEffect

\* The answer to a threat leaves its agent below the threshold, under monitoring
\* in force, or with an entry that expired while the answer was awaited.
LEMMA EscalationStep ==
  ASSUME TypeOK, ClockStarted, BeganInTime, [Next]_vars, NEW r \in Requests,
         answer'[r] # answer[r], Cardinality(strikes'[src[r]]) >= Threshold
  PROVE  IsQuarantined(src[r])' \/ RanOutMeanwhile(r)
<1>. DEFINE a == src[r]
<1>0. a \in Agents /\ now \in Nat /\ now # 0 /\ Expiry \in Nat /\ quarantinedAt[a] \in Nat
  BY TimesAssumption DEF TypeOK, ClockStarted
<1>1. ThreatStep  BY StepEffect DEF QuietStep
<1>2. PICK p \in Requests, threat \in Threats, q \in [Agents -> Nat] :
        /\ Pruned(q)
        /\ pc[p] = "scanning" \/ q[src[p]] = 0 \/ ~Expired(src[p])
        /\ RespondThreat(p, q, threat) /\ now' = now /\ src' = src
  BY <1>1 DEF ThreatStep
<1>3. p = r
  <2>1. PICK t : answer' = [answer EXCEPT ![p] = t]  BY <1>2 DEF RespondThreat
  <2>. QED  BY <2>1 DEF TypeOK
<1>4. strikes'[a] = StrikesAfter(r, threat)
  BY <1>2, <1>3 DEF RespondThreat, TypeOK
<1>5. CASE q[a] = 0
  <2>1. ShouldQuarantine(a, q, StrikesAfter(r, threat))
    BY <1>4, <1>5 DEF ShouldQuarantine
  <2>2. quarantinedAt' = [q EXCEPT ![a] = now]
    BY <1>2, <1>3, <2>1 DEF RespondThreat
  <2>3. quarantinedAt'[a] = now  BY <1>0, <2>2
  <2>. QED  BY <1>0, <1>2, <2>3 DEF IsQuarantined, Expired
<1>6. CASE q[a] # 0
  <2>1. ~ShouldQuarantine(a, q, StrikesAfter(r, threat))
    BY <1>6 DEF ShouldQuarantine
  <2>2. quarantinedAt' = q  BY <1>2, <1>3, <2>1 DEF RespondThreat
  <2>3. q[a] = quarantinedAt[a]  BY <1>0, <1>2, <1>6 DEF Pruned
  <2>4. CASE Expired(a)
    <3>1. pc[r] = "scanning"  BY <1>2, <1>3, <1>6, <2>4
    <3>2. began[r] <= quarantinedAt[a] + Expiry
      BY <1>6, <2>3, <3>1 DEF BeganInTime
    <3>. QED  BY <2>4, <3>1, <3>2 DEF RanOutMeanwhile
  <2>5. CASE ~Expired(a)
    BY <1>2, <1>6, <2>2, <2>3, <2>5 DEF IsQuarantined, Expired
  <2>. QED  BY <2>4, <2>5
<1>. QED  BY <1>5, <1>6

---------------------------------------------------------------------------
(* Alerts of a type are a cooldown apart.                                  *)

\* The last alert of a type is the latest of its alerts.
LastAlertIsLast ==
  /\ \A t \in Types : lastAlert[t] <= now
  /\ \A x \in alerts : x.ts <= lastAlert[x.type]

\* No alert was sent initially.
LEMMA AlertInit == Init => AlertSpacing /\ LastAlertIsLast
BY TimesAssumption DEF Init, AlertSpacing, LastAlertIsLast

\* A step sends an alert only when the last one is an interval old.
LEMMA AlertStep ==
  TypeOK /\ AlertSpacing /\ LastAlertIsLast /\ [Next]_vars
    => AlertSpacing' /\ LastAlertIsLast'
<1>. SUFFICES ASSUME TypeOK, AlertSpacing, LastAlertIsLast, [Next]_vars
              PROVE  AlertSpacing' /\ LastAlertIsLast'
  OBVIOUS
<1>0. /\ now \in Nat /\ Cooldown \in Nat \ {0} /\ lastAlert \in [Types -> Nat]
      /\ alerts \in SUBSET [req : Requests, type : Types, ts : Nat]
  BY TimesAssumption DEF TypeOK
<1>1. CASE QuietStep
  <2>1. alerts' = alerts /\ lastAlert' = lastAlert /\ now' \in Nat /\ now' >= now
    BY <1>1 DEF QuietStep
  <2>2. \A t \in Types : lastAlert[t] <= now'
    BY <1>0, <2>1 DEF LastAlertIsLast
  <2>. QED  BY <2>1, <2>2 DEF AlertSpacing, LastAlertIsLast
<1>2. CASE ThreatStep
  <2>1. PICK r \in Requests, threat \in Threats, q \in [Agents -> Nat] :
          RespondThreat(r, q, threat) /\ UNCHANGED <<now, src>>
    BY <1>2 DEF ThreatStep
  <2>. DEFINE new == [req |-> r, type |-> threat.type, ts |-> now]
  <2>2. threat.type \in Types  BY DEF Threats
  <2>3. CASE threat.severity \in Serious /\ PassesCooldown(threat.type)
    <3>1. /\ lastAlert' = [lastAlert EXCEPT ![threat.type] = now]
          /\ alerts' = alerts \cup {new} /\ now' = now
      BY <2>1, <2>3 DEF RespondThreat
    <3>2. \A x \in alerts : x.type = threat.type => now - x.ts >= Cooldown
      BY <1>0, <2>2, <2>3 DEF LastAlertIsLast, PassesCooldown
    <3>3. \A x \in alerts' : x \in alerts \/ (x.type = threat.type /\ x.ts = now /\ x = new)
      BY <3>1
    <3>4. AlertSpacing'
      <4>. SUFFICES ASSUME NEW x \in alerts', NEW y \in alerts', x # y, x.type = y.type
                    PROVE  x.ts - y.ts >= Cooldown \/ y.ts - x.ts >= Cooldown
        BY DEF AlertSpacing
      <4>1. CASE x \in alerts /\ y \in alerts  BY <4>1 DEF AlertSpacing
      <4>2. CASE x = new /\ y \in alerts  BY <3>2, <4>2
      <4>3. CASE y = new /\ x \in alerts  BY <3>2, <4>3
      <4>. QED  BY <3>3, <4>1, <4>2, <4>3
    <3>5. LastAlertIsLast'
      <4>1. \A x \in alerts' : x.ts <= lastAlert'[x.type]
        BY <1>0, <2>2, <3>1, <3>3 DEF LastAlertIsLast
      <4>. QED  BY <1>0, <3>1, <4>1 DEF LastAlertIsLast
    <3>. QED  BY <3>4, <3>5
  <2>4. CASE ~(threat.severity \in Serious /\ PassesCooldown(threat.type))
    <3>1. alerts' = alerts /\ lastAlert' = lastAlert /\ now' = now
      BY <2>1, <2>4 DEF RespondThreat
    <3>. QED  BY <3>1 DEF AlertSpacing, LastAlertIsLast
  <2>. QED  BY <2>3, <2>4
<1>. QED  BY <1>1, <1>2, StepEffect

---------------------------------------------------------------------------
(* The theorems.                                                           *)

\* The inductive invariant: the properties, and what relates the histories
\* they read to the dictionaries the code keeps.
IInv ==
  /\ TypeOK
  /\ ClockStarted
  /\ StrikesInv
  /\ BeganInTime
  /\ AlertSpacing /\ LastAlertIsLast

\* The invariant holds in every state.
LEMMA IInvInvariant == Spec => []IInv
<1>1. Init => IInv
  <2>1. Init => ClockStarted  BY TimesAssumption DEF Init, ClockStarted
  <2>2. Init => BeganInTime  BY DEF Init, BeganInTime
  <2>. QED  BY <2>1, <2>2, TypeInit, StrikesInit, AlertInit DEF IInv
<1>2. IInv /\ [Next]_vars => IInv'
  BY TypeStep, ClockStep, StrikesStep, BeganStep, AlertStep DEF IInv
<1>. QED  BY <1>1, <1>2, PTL DEF Spec

\* For any number of agents and interleaved analyses, a threat whose answer
\* leaves its agent with Threshold strikes leaves it under monitoring in force,
\* unless the agent's quarantine ran out while that analysis waited.
THEOREM EscalationsComplete == Spec => EscalationComplete
<1>1. IInv /\ [Next]_vars =>
        [\A r \in Requests :
           answer'[r] # answer[r] /\ Cardinality(strikes'[src[r]]) >= Threshold =>
             IsQuarantined(src[r])' \/ RanOutMeanwhile(r)]_vars
  BY EscalationStep DEF IInv
<1>. QED  BY <1>1, IInvInvariant, PTL DEF Spec, EscalationComplete

\* The strikes kept for an agent always lie within one window.
THEOREM StrikesInOneWindow == Spec => []StrikesWindowed
BY IInvInvariant, PTL DEF IInv, StrikesInv

\* Alerts of one type are always a cooldown apart.
THEOREM AlertsSpaced == Spec => []AlertSpacing
BY IInvInvariant, PTL DEF IInv

\* A step that quarantines an agent finds a burst of its own serious threats.
THEOREM QuarantinesFollowBursts == Spec => QuarantineFollowsBurst
<1>1. IInv /\ IInv' /\ [Next]_vars =>
        [\A a \in Agents : Quarantines(a) =>
           /\ Cardinality(strikes'[a]) >= Threshold
           /\ \A s, t \in strikes'[a] : t.ts - s.ts < Window
           /\ \A s \in strikes'[a] : src'[s.req] = a]_vars
  <2>. SUFFICES ASSUME IInv, IInv', [Next]_vars, NEW a \in Agents, Quarantines(a)
                PROVE  /\ Cardinality(strikes'[a]) >= Threshold
                       /\ \A s, t \in strikes'[a] : t.ts - s.ts < Window
                       /\ \A s \in strikes'[a] : src'[s.req] = a
    OBVIOUS
  <2>1. TypeOK  BY DEF IInv
  <2>2. ~QuietStep  BY DEF QuietStep, Quarantines
  <2>3. ThreatStep  BY <2>1, <2>2, StepEffect
  <2>4. PICK r \in Requests, threat \in Threats, q \in [Agents -> Nat] :
          Pruned(q) /\ RespondThreat(r, q, threat)
    BY <2>3 DEF ThreatStep
  <2>5. ShouldQuarantine(src[r], q, StrikesAfter(r, threat)) /\ a = src[r]
    BY <2>1, <2>4 DEF RespondThreat, Pruned, Quarantines, TypeOK
  <2>6. strikes'[a] = StrikesAfter(r, threat)
    BY <2>1, <2>4, <2>5 DEF RespondThreat, TypeOK
  <2>7. Cardinality(strikes'[a]) >= Threshold
    BY <2>5, <2>6 DEF ShouldQuarantine
  <2>. QED  BY <2>7 DEF IInv, StrikesInv, StrikesWindowed, StrikesOwned
<1>. QED  BY <1>1, IInvInvariant, PTL DEF Spec, QuarantineFollowsBurst

\* A quarantine ends by its expiry or by an operator, and is never renewed
\* before it ended.
THEOREM QuarantinesKeepTenure == Spec => QuarantineTenure
<1>1. TypeOK /\ [Next]_vars =>
        [\A a \in Agents :
           quarantinedAt[a] # 0 /\ quarantinedAt'[a] # quarantinedAt[a] =>
             Expired(a) \/ Release(a)]_vars
  <2>. SUFFICES ASSUME TypeOK, [Next]_vars, NEW a \in Agents,
                       quarantinedAt[a] # 0, quarantinedAt'[a] # quarantinedAt[a]
                PROVE  Expired(a) \/ Release(a)
    OBVIOUS
  <2>1. CASE QuietStep  BY <2>1 DEF QuietStep
  <2>2. CASE ThreatStep
    <3>1. PICK r \in Requests, threat \in Threats, q \in [Agents -> Nat] :
            Pruned(q) /\ RespondThreat(r, q, threat)
      BY <2>2 DEF ThreatStep
    <3>2. CASE q[a] = quarantinedAt[a]
      <4>1. ~ShouldQuarantine(a, q, StrikesAfter(r, threat))
        BY <3>2 DEF ShouldQuarantine
      <4>2. quarantinedAt'[a] = q[a]
        BY <3>1, <4>1 DEF RespondThreat
      <4>. QED  BY <3>2, <4>2
    <3>. QED  BY <3>1, <3>2 DEF Pruned
  <2>. QED  BY <2>1, <2>2, StepEffect
<1>. QED  BY <1>1, TypeCorrect, PTL DEF Spec, QuarantineTenure

---------------------------------------------------------------------------
(* GuardianScan.                                                           *)

---------------------------------------------------------------------------
(* What detectors find and monitors raise.                                 *)

Kinds == {"PROMPT_INJECTION", "RAG_POISONING", "PRIVILEGE_ESCALATION", "DATA_EXFILTRATION",
          "AGENT_SPOOFING", "ANOMALY"}

\* A detector's threat blocks just when it is severe; a monitor's never does.
Firm == {t \in Threat : t.severity >= 3 <=> t.action = "BLOCK"}
Mild == {t \in Threat : t.action = "ALERT"}

\* The checks that a list of threats names.
ChecksOf(s) == UNION {s[k].checks : k \in DOMAIN s}

\* The checks that a set of issues names.
Names(issues) == {i.check : i \in issues}

IssueSet(issues) == \A i \in issues : i.check \in Issues /\ i.severity \in 1..4

\* The checks that count something.
Limits == {"rate_limit_exceeded", "volume_spike", "ingestion_rate_spike", "channel_flooding",
           "consecutive_failures"}

\* What a check contributes, raised and not.
LEMMA IssueFacts ==
  ASSUME NEW check \in Issues, NEW severity \in 1..4
  PROVE  /\ IssueSet({[check |-> check, severity |-> severity]})
         /\ Names({[check |-> check, severity |-> severity]}) = {check}
         /\ IssueSet({}) /\ Names({}) = {}
BY DEF Names, IssueSet

\* Issues of two sets are the issues of their union.
LEMMA IssueUnion ==
  ASSUME NEW A, NEW B, IssueSet(A), IssueSet(B)
  PROVE  /\ IssueSet(A \cup B)
         /\ \A x : x \in Names(A \cup B) <=> x \in Names(A) \/ x \in Names(B)
BY DEF Names, IssueSet

\* There is a worst issue.
LEMMA WorstIssue ==
  ASSUME NEW S \in SUBSET (1..4), S # {}
  PROVE  Max(S) \in S
<1>1. \E x \in S : \A y \in S : x >= y
  <2>1. CASE 4 \in S
    BY <2>1
  <2>2. CASE 4 \notin S /\ 3 \in S
    BY <2>2
  <2>3. CASE 4 \notin S /\ 3 \notin S /\ 2 \in S
    BY <2>3
  <2>4. CASE 4 \notin S /\ 3 \notin S /\ 2 \notin S
    <3>1. \A y \in S : y = 1
      BY <2>4
    <3>2. PICK x \in S : x = 1
      BY <3>1
    <3>. QED  BY <3>1, <3>2
  <2>. QED  BY <2>1, <2>2, <2>3, <2>4
<1>. QED  BY <1>1 DEF Max

\* A detector answers with at most one threat, which names its issues.
LEMMA FindingFacts ==
  ASSUME NEW kind \in Kinds, NEW issues, IssueSet(issues)
  PROVE  /\ Finding(kind, issues) \in Seq(Firm)
         /\ \A x : x \in ChecksOf(Finding(kind, issues)) <=> x \in Names(issues)
<1>1. CASE issues = {}
  <2>1. Finding(kind, issues) = <<>>
    BY <1>1 DEF Finding
  <2>2. \A x : x \notin ChecksOf(<<>>)
    BY DEF ChecksOf
  <2>3. \A x : x \notin Names(issues)
    BY <1>1 DEF Names
  <2>4. <<>> \in Seq(Firm)
    BY EmptySeq
  <2>. QED  BY <2>1, <2>2, <2>3, <2>4
<1>2. CASE issues # {}
  <2>1. PICK worst \in 1..4 : worst = Max({i.severity : i \in issues})
    <3>1. {i.severity : i \in issues} \in SUBSET (1..4) /\ {i.severity : i \in issues} # {}
      BY <1>2 DEF IssueSet
    <3>. QED  BY <3>1, WorstIssue
  <2>2. PICK t : t = [kind |-> kind, severity |-> worst, checks |-> Names(issues),
                      action |-> IF worst >= High THEN "BLOCK" ELSE "ALERT"]
    OBVIOUS
  <2>3. Finding(kind, issues) = <<t>>
    BY <1>2, <2>1, <2>2 DEF Finding, Names
  <2>4. Names(issues) \in SUBSET Issues
    BY DEF Names, IssueSet
  <2>5. t \in Firm
    BY <2>2, <2>4 DEF Firm, Threat, Kinds, High, Low, Critical
  <2>6. ChecksOf(<<t>>) = Names(issues)
    BY <2>2 DEF ChecksOf
  <2>. QED  BY <2>3, <2>5, <2>6
<1>. QED  BY <1>1, <1>2

\* The threat a monitor's check raises.
Notice(check, severity) ==
  [kind |-> "ANOMALY", severity |-> severity, checks |-> {check}, action |-> "ALERT"]

\* A monitor's issue is a threat of its own.
LEMMA NoticeFacts ==
  ASSUME NEW check \in Issues, NEW severity \in 1..4
  PROVE  /\ <<Notice(check, severity)>> \in Seq(Mild) /\ <<>> \in Seq(Mild)
         /\ \A x : x \in ChecksOf(<<Notice(check, severity)>>) <=> x = check
         /\ \A x : x \notin ChecksOf(<<>>)
<1>1. PICK t : t = Notice(check, severity)
  OBVIOUS
<1>2. t \in Threat
  <2>1. {check} \in SUBSET Issues
    OBVIOUS
  <2>. QED  BY <1>1, <2>1 DEF Notice, Threat, Low, Critical
<1>3. t \in Mild
  BY <1>1, <1>2 DEF Notice, Mild
<1>4. <<t>> \in Seq(Mild) /\ <<>> \in Seq(Mild)
  BY <1>3
<1>5. ChecksOf(<<t>>) = {check}
  BY <1>1 DEF ChecksOf, Notice
<1>6. \A x : x \notin ChecksOf(<<>>)
  BY DEF ChecksOf
<1>. QED  BY <1>1, <1>4, <1>5, <1>6

\* One list of threats after another names the checks of both.
LEMMA ChecksConcat ==
  ASSUME NEW T, NEW s \in Seq(T), NEW t \in Seq(T)
  PROVE  /\ s \o t \in Seq(T)
         /\ \A x : x \in ChecksOf(s \o t) <=> x \in ChecksOf(s) \/ x \in ChecksOf(t)
<1>1. /\ s \o t \in Seq(T) /\ Len(s \o t) = Len(s) + Len(t) /\ Len(s) \in Nat /\ Len(t) \in Nat
      /\ \A i \in 1..Len(s) + Len(t) : (s \o t)[i] = IF i <= Len(s) THEN s[i] ELSE t[i - Len(s)]
  BY ConcatProperties, LenProperties
<1>2. DOMAIN s = 1..Len(s) /\ DOMAIN t = 1..Len(t) /\ DOMAIN (s \o t) = 1..Len(s) + Len(t)
  BY <1>1, LenProperties
<1>. HIDE DEF ChecksOf
<1>3. ASSUME NEW x, x \in ChecksOf(s \o t) PROVE x \in ChecksOf(s) \/ x \in ChecksOf(t)
  <2>1. PICK i \in 1..Len(s) + Len(t) : x \in (s \o t)[i].checks
    BY <1>2, <1>3 DEF ChecksOf
  <2>2. CASE i <= Len(s)
    <3>1. i \in DOMAIN s /\ x \in s[i].checks
      BY <1>1, <1>2, <2>1, <2>2
    <3>. QED  BY <3>1 DEF ChecksOf
  <2>3. CASE ~(i <= Len(s))
    <3>1. i - Len(s) \in DOMAIN t /\ x \in t[i - Len(s)].checks
      BY <1>1, <1>2, <2>1, <2>3
    <3>. QED  BY <3>1 DEF ChecksOf
  <2>. QED  BY <2>2, <2>3
<1>4. ASSUME NEW x, x \in ChecksOf(s) PROVE x \in ChecksOf(s \o t)
  <2>1. PICK i \in 1..Len(s) : x \in s[i].checks
    BY <1>2, <1>4 DEF ChecksOf
  <2>2. i \in DOMAIN (s \o t) /\ x \in (s \o t)[i].checks
    BY <1>1, <1>2, <2>1
  <2>. QED  BY <2>2 DEF ChecksOf
<1>5. ASSUME NEW x, x \in ChecksOf(t) PROVE x \in ChecksOf(s \o t)
  <2>1. PICK i \in 1..Len(t) : x \in t[i].checks
    BY <1>2, <1>5 DEF ChecksOf
  <2>2. PICK j : j = i + Len(s)
    OBVIOUS
  <2>3. j \in DOMAIN (s \o t) /\ ~(j <= Len(s)) /\ j - Len(s) = i
    BY <1>1, <1>2, <2>2
  <2>4. x \in (s \o t)[j].checks
    BY <1>1, <1>2, <2>1, <2>3
  <2>. QED  BY <2>3, <2>4 DEF ChecksOf
<1>. QED  BY <1>1, <1>3, <1>4, <1>5

\* Issues none of which is that something has been counted too often.
Silent(issues) == IssueSet(issues) /\ \A x \in Limits : x \notin Names(issues)

\* Issues of a check that counts nothing.
LEMMA SilentIssue ==
  ASSUME NEW check \in Issues, check \notin Limits, NEW severity \in 1..4
  PROVE  Silent({[check |-> check, severity |-> severity]}) /\ Silent({})
<1>1. PICK A : A = {[check |-> check, severity |-> severity]}
  OBVIOUS
<1>2. IssueSet(A) /\ Names(A) = {check} /\ IssueSet({}) /\ Names({}) = {}
  BY <1>1, IssueFacts
<1>3. Silent(A) /\ Silent({})
  BY <1>2 DEF Silent
<1>. QED  BY <1>1, <1>3

\* Silent issues together are silent.
LEMMA SilentUnion ==
  ASSUME NEW A, NEW B, Silent(A), Silent(B)
  PROVE  Silent(A \cup B)
BY IssueUnion DEF Silent

\* A threat of silent issues names no limit.
LEMMA SilentFinding ==
  ASSUME NEW kind \in Kinds, NEW issues, Silent(issues)
  PROVE  /\ Finding(kind, issues) \in Seq(Firm)
         /\ \A x \in Limits : x \notin ChecksOf(Finding(kind, issues))
BY FindingFacts DEF Silent

\* Injected prompts are told by their marks alone.
LEMMA InjectionFinds ==
  ASSUME NEW m \in Messages
  PROVE  /\ PromptInjection(m) \in Seq(Firm)
         /\ \A x \in Limits : x \notin ChecksOf(PromptInjection(m))
<1>1. PICK A : A = {[check |-> k, severity |-> InjectionSeverity[k]] : k \in InjectionMarks(m)}
  OBVIOUS
<1>2. \A k \in InjectionMarks(m) :
        k \in {"override", "role", "format", "tease"} /\ InjectionSeverity[k] \in 1..4
  BY DEF InjectionMarks, InjectionSeverity, Critical, High, Medium, Low
<1>3. {"override", "role", "format", "tease"} \subseteq Issues \ Limits
  BY DEF Issues, Limits
<1>4. Silent(A)
  <2>1. \A i \in A : i.check \in Issues \ Limits /\ i.severity \in 1..4
    BY <1>1, <1>2, <1>3
  <2>. QED  BY <2>1 DEF Silent, IssueSet, Names
<1>5. "PROMPT_INJECTION" \in Kinds
  BY DEF Kinds
<1>. QED  BY <1>1, <1>4, <1>5, SilentFinding DEF PromptInjection

\* A document counts against the limit on documents, whatever else is wrong
\* with it.
LEMMA PoisoningFinds ==
  ASSUME NEW m \in Messages
  PROVE  /\ Poisoning(m) \in Seq(Firm)
         /\ \A x \in Limits : x \in ChecksOf(Poisoning(m)) <=>
              x = "ingestion_rate_spike" /\ m.ingests /\ Len(IngestedAfter(m)) > MaxIngestions
<1>1. PICK A : A = If(HidesInstructions(m), "hidden_instructions", High)
  OBVIOUS
<1>2. Silent(A)
  BY <1>1, SilentIssue DEF If, High, Issues, Limits
<1>3. PICK B : B = If(m.ingests /\ m.source \notin TrustedDocumentSources, "untrusted_source", High)
  OBVIOUS
<1>4. Silent(B)
  BY <1>3, SilentIssue DEF If, High, Issues, Limits
<1>5. PICK C : C = If(m.ingests /\ Len(IngestedAfter(m)) > MaxIngestions, "ingestion_rate_spike", Medium)
  OBVIOUS
<1>6. IssueSet(C) /\ \A x : x \in Names(C) <=>
        x = "ingestion_rate_spike" /\ m.ingests /\ Len(IngestedAfter(m)) > MaxIngestions
  BY <1>5, IssueFacts DEF If, Medium, Issues
<1>7. PICK D : D = If(m.content > MaxDocument, "oversized_document", Low)
  OBVIOUS
<1>8. Silent(D)
  BY <1>7, SilentIssue DEF If, Low, Critical, Issues, Limits
<1>9. Poisoning(m) = Finding("RAG_POISONING", A \cup B \cup C \cup D)
  BY <1>1, <1>3, <1>5, <1>7 DEF Poisoning
<1>10. /\ IssueSet(A \cup B \cup C \cup D)
       /\ \A x \in Limits : x \in Names(A \cup B \cup C \cup D) <=> x \in Names(C)
  <2>1. Silent(A \cup B)
    BY <1>2, <1>4, SilentUnion
  <2>2. /\ IssueSet(A \cup B \cup C)
        /\ \A x : x \in Names(A \cup B \cup C) <=> x \in Names(A \cup B) \/ x \in Names(C)
    BY <1>6, <2>1, IssueUnion DEF Silent
  <2>3. /\ IssueSet(A \cup B \cup C \cup D)
        /\ \A x : x \in Names(A \cup B \cup C \cup D) <=> x \in Names(A \cup B \cup C) \/ x \in Names(D)
    BY <1>8, <2>2, IssueUnion DEF Silent
  <2>. QED  BY <1>8, <2>1, <2>2, <2>3 DEF Silent
<1>11. "RAG_POISONING" \in Kinds
  BY DEF Kinds
<1>. QED  BY <1>6, <1>9, <1>10, <1>11, FindingFacts

\* What an agent may not do says nothing of how often it does it.
LEMMA EscalationFinds ==
  ASSUME NEW m \in Messages
  PROVE  /\ Escalation(m) \in Seq(Firm)
         /\ \A x \in Limits : x \notin ChecksOf(Escalation(m))
<1>1. CASE m.from \notin Permitted
  <2>1. Escalation(m) = <<>>
    BY <1>1 DEF Escalation
  <2>2. <<>> \in Seq(Firm)
    BY EmptySeq
  <2>3. \A x : x \notin ChecksOf(<<>>)
    BY DEF ChecksOf
  <2>. QED  BY <2>1, <2>2, <2>3
<1>2. CASE m.from \in Permitted
  <2>1. PICK A : A = If(m.tool \notin {"", m.from}, "unauthorized_tool", High)
    OBVIOUS
  <2>2. Silent(A)
    <3>1. A = {} \/ A = {[check |-> "unauthorized_tool", severity |-> 3]}
      BY <2>1, Zenon DEF If, High
    <3>2. "unauthorized_tool" \in Issues /\ "unauthorized_tool" \notin Limits
      BY DEF Issues, Limits
    <3>. QED  BY <3>1, <3>2 DEF Silent, IssueSet, Names
  <2>3. PICK B : B = If(/\ m.target # "" /\ m.from # "agent_5"
                        /\ m.target \notin AllowedChannels[m.from], "unauthorized_channel", Medium)
    OBVIOUS
  <2>4. Silent(B)
    <3>1. B = {} \/ B = {[check |-> "unauthorized_channel", severity |-> 2]}
      BY <2>3, Zenon DEF If, Medium
    <3>2. "unauthorized_channel" \in Issues /\ "unauthorized_channel" \notin Limits
      BY DEF Issues, Limits
    <3>. QED  BY <3>1, <3>2 DEF Silent, IssueSet, Names
  <2>5. PICK C : C = If(m.admin /\ m.from # "agent_5", "admin_operation", Critical)
    OBVIOUS
  <2>6. Silent(C)
    BY <2>5, SilentIssue DEF If, Low, Critical, Issues, Limits
  <2>7. PICK D : D = If(m.writesDb /\ m.from \notin CanWriteDb, "unauthorized_db_write", High)
    OBVIOUS
  <2>8. Silent(D)
    BY <2>7, SilentIssue DEF If, High, Issues, Limits
  <2>9. PICK E : E = If(m.opensVault /\ m.from \notin CanAccessVault, "unauthorized_vault_access", Critical)
    OBVIOUS
  <2>10. Silent(E)
    BY <2>9, SilentIssue DEF If, Low, Critical, Issues, Limits
  <2>11. PICK F : F = If(m.crossesTenant, "cross_tenant_access", Critical)
    OBVIOUS
  <2>12. Silent(F)
    BY <2>11, SilentIssue DEF If, Low, Critical, Issues, Limits
  <2>13. Silent(A \cup B)
    BY <2>2, <2>4, SilentUnion
  <2>14. Silent(A \cup B \cup C)
    BY <2>6, <2>13, SilentUnion
  <2>15. Silent(A \cup B \cup C \cup D)
    BY <2>8, <2>14, SilentUnion
  <2>16. Silent(A \cup B \cup C \cup D \cup E)
    BY <2>10, <2>15, SilentUnion
  <2>17. Silent(A \cup B \cup C \cup D \cup E \cup F)
    BY <2>12, <2>16, SilentUnion
  <2>18. Escalation(m) = Finding("PRIVILEGE_ESCALATION", A \cup B \cup C \cup D \cup E \cup F)
    BY <1>2, <2>1, <2>3, <2>5, <2>7, <2>9, <2>11 DEF Escalation
  <2>19. "PRIVILEGE_ESCALATION" \in Kinds
    BY DEF Kinds
  <2>. QED  BY <2>17, <2>18, <2>19, SilentFinding
<1>. QED  BY <1>1, <1>2

\* What an agent has sent counts against the limit on volume.
LEMMA ExfiltrationFinds ==
  ASSUME NEW m \in Messages, NEW sent, sent = OutboundAfter(m)
  PROVE  /\ Exfiltration(m) \in Seq(Firm)
         /\ \A x \in Limits : x \in ChecksOf(Exfiltration(m)) <=>
              x = "volume_spike" /\ Total([k \in DOMAIN sent |-> sent[k].size]) > MaxVolume
<1>. DEFINE volume == Total([k \in DOMAIN sent |-> sent[k].size])
<1>1. PICK A : A = If(LeaksSecret(m), "sensitive_data_leak", Critical)
  OBVIOUS
<1>2. Silent(A)
  BY <1>1, SilentIssue DEF If, Low, Critical, Issues, Limits
<1>3. PICK B : B = If(m.size > MaxPayload, "oversized_payload", High)
  OBVIOUS
<1>4. Silent(B)
  BY <1>3, SilentIssue DEF If, High, Issues, Limits
<1>5. PICK C : C = If(NamesEndpoint(m), "external_endpoint", High)
  OBVIOUS
<1>6. Silent(C)
  BY <1>5, SilentIssue DEF If, High, Issues, Limits
<1>7. PICK D : D = If("blob" \in m.marks, "base64_blob", Medium)
  OBVIOUS
<1>8. Silent(D)
  BY <1>7, SilentIssue DEF If, Medium, Issues, Limits
<1>9. PICK E : E = If(volume > MaxVolume, "volume_spike", Medium)
  OBVIOUS
<1>10. IssueSet(E) /\ \A x : x \in Names(E) <=> x = "volume_spike" /\ volume > MaxVolume
  <2>. HIDE DEF volume
  <2>. QED  BY <1>9, IssueFacts DEF If, Medium, Issues
<1>11. Exfiltration(m) = Finding("DATA_EXFILTRATION", A \cup B \cup C \cup D \cup E)
  BY <1>1, <1>3, <1>5, <1>7, <1>9 DEF Exfiltration
<1>12. /\ IssueSet(A \cup B \cup C \cup D \cup E)
       /\ \A x \in Limits : x \in Names(A \cup B \cup C \cup D \cup E) <=> x \in Names(E)
  <2>1. Silent(A \cup B)
    BY <1>2, <1>4, SilentUnion
  <2>2. Silent(A \cup B \cup C)
    BY <1>6, <2>1, SilentUnion
  <2>3. Silent(A \cup B \cup C \cup D)
    BY <1>8, <2>2, SilentUnion
  <2>4. /\ IssueSet(A \cup B \cup C \cup D \cup E)
        /\ \A x : x \in Names(A \cup B \cup C \cup D \cup E) <=> x \in Names(A \cup B \cup C \cup D) \/ x \in Names(E)
    BY <1>10, <2>3, IssueUnion DEF Silent
  <2>. QED  BY <2>3, <2>4 DEF Silent
<1>13. "DATA_EXFILTRATION" \in Kinds
  BY DEF Kinds
<1>. QED  BY <1>10, <1>11, <1>12, <1>13, FindingFacts

\* A signature says nothing of how often it is seen.
LEMMA SpoofingFinds ==
  ASSUME NEW m \in Messages
  PROVE  /\ Spoofing(m) \in Seq(Firm)
         /\ \A x \in Limits : x \notin ChecksOf(Spoofing(m))
<1>1. PICK A : A = If(m.from # "" /\ m.from \notin Registered, "unknown_agent", High)
  OBVIOUS
<1>2. Silent(A)
  <2>1. A = {} \/ A = {[check |-> "unknown_agent", severity |-> 3]}
    BY <1>1, Zenon DEF If, High
  <2>2. "unknown_agent" \in Issues /\ "unknown_agent" \notin Limits
    BY DEF Issues, Limits
  <2>. QED  BY <2>1, <2>2 DEF Silent, IssueSet, Names
<1>3. PICK B : B = If(m.signature = "none", "no_signature", Medium)
  OBVIOUS
<1>4. Silent(B)
  BY <1>3, SilentIssue DEF If, Medium, Issues, Limits
<1>5. PICK C : C = If(m.signature = "wrong", "signature_mismatch", Critical)
  OBVIOUS
<1>6. Silent(C)
  BY <1>5, SilentIssue DEF If, Low, Critical, Issues, Limits
<1>7. Silent(A \cup B \cup C)
  <2>1. Silent(A \cup B)
    BY <1>2, <1>4, SilentUnion
  <2>. QED  BY <1>6, <2>1, SilentUnion
<1>8. Spoofing(m) = Finding("AGENT_SPOOFING", A \cup B \cup C)
  BY <1>1, <1>3, <1>5 DEF Spoofing
<1>9. "AGENT_SPOOFING" \in Kinds
  BY DEF Kinds
<1>. QED  BY <1>7, <1>8, <1>9, SilentFinding

\* A monitor's check, raised or not.
LEMMA AlertFacts ==
  ASSUME NEW check \in Issues, NEW severity \in 1..4,
         NEW s, s = <<>> \/ s = <<Notice(check, severity)>>
  PROVE  /\ s \in Seq(Mild)
         /\ \A x : x \in ChecksOf(s) <=> x = check /\ s # <<>>
<1>1. PICK n : n = Notice(check, severity)
  OBVIOUS
<1>2. /\ <<n>> \in Seq(Mild) /\ <<>> \in Seq(Mild) /\ <<n>> # <<>>
      /\ \A x : x \in ChecksOf(<<n>>) <=> x = check
      /\ \A x : x \notin ChecksOf(<<>>)
  BY <1>1, NoticeFacts
<1>3. s = <<>> \/ s = <<n>>
  BY <1>1
<1>4. CASE s = <<>>
  BY <1>2, <1>4
<1>5. CASE s = <<n>>
  BY <1>2, <1>5
<1>. QED  BY <1>3, <1>4, <1>5

\* Which limits the tool monitor looks at.
LEMMA ToolUsageFinds ==
  ASSUME NEW m \in Messages
  PROVE  /\ ToolUsage(m) \in Seq(Mild)
         /\ \A x \in Limits : x \in ChecksOf(ToolUsage(m)) <=>
              \/ x = "rate_limit_exceeded" /\ Len(Recent(CallsAfter(m), Minute)) > MaxCalls
              \/ x = "consecutive_failures" /\ FailedAfter(m) >= MaxFailures
<1>1. PICK s : s = Alert(Len(Recent(CallsAfter(m), Minute)) > MaxCalls, "rate_limit_exceeded", High)
  OBVIOUS
<1>2. PICK t : t = Alert(FailedAfter(m) >= MaxFailures, "consecutive_failures", Medium)
  OBVIOUS
<1>3. /\ s = <<>> \/ s = <<Notice("rate_limit_exceeded", 3)>>
      /\ s # <<>> <=> Len(Recent(CallsAfter(m), Minute)) > MaxCalls
  BY <1>1 DEF Alert, Notice, High
<1>4. /\ t = <<>> \/ t = <<Notice("consecutive_failures", 2)>>
      /\ t # <<>> <=> FailedAfter(m) >= MaxFailures
  BY <1>2 DEF Alert, Notice, Medium
<1>5. "rate_limit_exceeded" \in Issues /\ "consecutive_failures" \in Issues
  BY DEF Issues
<1>6. s \in Seq(Mild) /\ \A x : x \in ChecksOf(s) <=> x = "rate_limit_exceeded" /\ s # <<>>
  BY <1>3, <1>5, AlertFacts
<1>7. t \in Seq(Mild) /\ \A x : x \in ChecksOf(t) <=> x = "consecutive_failures" /\ t # <<>>
  BY <1>4, <1>5, AlertFacts
<1>8. ToolUsage(m) = s \o t
  BY <1>1, <1>2 DEF ToolUsage
<1>9. s \o t \in Seq(Mild) /\ \A x : x \in ChecksOf(s \o t) <=> x \in ChecksOf(s) \/ x \in ChecksOf(t)
  BY <1>6, <1>7, ChecksConcat
<1>. QED  BY <1>3, <1>4, <1>6, <1>7, <1>8, <1>9

\* An outlier is not a limit.
LEMMA StatisticalFinds ==
  ASSUME NEW m \in Messages
  PROVE  /\ Statistical(m) \in Seq(Mild)
         /\ \A x \in Limits : x \notin ChecksOf(Statistical(m))
<1>1. PICK s : s = Alert(Outlier(Rate(m), rates[m.from]), "request_rate", Medium)
  OBVIOUS
<1>2. PICK t : t = Alert(Outlier(m.size, sizes[m.from]), "payload_size", Medium)
  OBVIOUS
<1>3. s = <<>> \/ s = <<Notice("request_rate", 2)>>
  BY <1>1 DEF Alert, Notice, Medium
<1>4. t = <<>> \/ t = <<Notice("payload_size", 2)>>
  BY <1>2 DEF Alert, Notice, Medium
<1>5. /\ "request_rate" \in Issues /\ "payload_size" \in Issues
      /\ "request_rate" \notin Limits /\ "payload_size" \notin Limits
  BY DEF Issues, Limits
<1>6. s \in Seq(Mild) /\ \A x : x \in ChecksOf(s) <=> x = "request_rate" /\ s # <<>>
  BY <1>3, <1>5, AlertFacts
<1>7. t \in Seq(Mild) /\ \A x : x \in ChecksOf(t) <=> x = "payload_size" /\ t # <<>>
  BY <1>4, <1>5, AlertFacts
<1>8. Statistical(m) = s \o t
  BY <1>1, <1>2 DEF Statistical
<1>9. s \o t \in Seq(Mild) /\ \A x : x \in ChecksOf(s \o t) <=> x \in ChecksOf(s) \/ x \in ChecksOf(t)
  BY <1>6, <1>7, ChecksConcat
<1>. QED  BY <1>5, <1>6, <1>7, <1>8, <1>9

\* Which limit the monitor of the bus looks at.
LEMMA BusFinds ==
  ASSUME NEW m \in Messages
  PROVE  /\ Bus(m) \in Seq(Mild)
         /\ \A x \in Limits : x \in ChecksOf(Bus(m)) <=>
              x = "channel_flooding" /\ OnBus(m) /\ Len(ChannelAfter(m)) > MaxPerChannel
<1>1. CASE ~OnBus(m)
  <2>1. Bus(m) = <<>>
    BY <1>1 DEF Bus
  <2>2. <<>> \in Seq(Mild)
    BY EmptySeq
  <2>3. \A x : x \notin ChecksOf(<<>>)
    BY DEF ChecksOf
  <2>. QED  BY <1>1, <2>1, <2>2, <2>3
<1>2. CASE OnBus(m)
  <2>1. PICK s : s = Alert(~m.complete, "missing_fields", Medium)
    OBVIOUS
  <2>2. PICK t : t = Alert(Len(ChannelAfter(m)) > MaxPerChannel, "channel_flooding", High)
    OBVIOUS
  <2>3. PICK u : u = Alert(/\ m.sender # "" /\ m.channel \in DOMAIN ChannelSenders
                           /\ m.sender \notin ChannelSenders[m.channel], "unauthorized_sender", High)
    OBVIOUS
  <2>4. PICK v : v = Alert(~m.sealed, "missing_signature", Medium)
    OBVIOUS
  <2>5. PICK w : w = Alert(m.flagged, "invalid_signature", Critical)
    OBVIOUS
  <2>6. s = <<>> \/ s = <<Notice("missing_fields", 2)>>
    BY <2>1 DEF Alert, Notice, Medium
  <2>7. /\ t = <<>> \/ t = <<Notice("channel_flooding", 3)>>
        /\ t # <<>> <=> Len(ChannelAfter(m)) > MaxPerChannel
    BY <2>2 DEF Alert, Notice, High
  <2>8. u = <<>> \/ u = <<Notice("unauthorized_sender", 3)>>
    BY <2>3, Zenon DEF Alert, Notice, High
  <2>9. v = <<>> \/ v = <<Notice("missing_signature", 2)>>
    BY <2>4 DEF Alert, Notice, Medium
  <2>10. w = <<>> \/ w = <<Notice("invalid_signature", 4)>>
    BY <2>5 DEF Alert, Notice, Critical
  <2>11. /\ {"missing_fields", "channel_flooding", "unauthorized_sender", "missing_signature",
             "invalid_signature"} \subseteq Issues
         /\ "missing_fields" \notin Limits /\ "unauthorized_sender" \notin Limits
         /\ "missing_signature" \notin Limits /\ "invalid_signature" \notin Limits
    BY DEF Issues, Limits
  <2>12. s \in Seq(Mild) /\ \A x : x \in ChecksOf(s) <=> x = "missing_fields" /\ s # <<>>
    BY <2>6, <2>11, AlertFacts
  <2>13. t \in Seq(Mild) /\ \A x : x \in ChecksOf(t) <=> x = "channel_flooding" /\ t # <<>>
    BY <2>7, <2>11, AlertFacts
  <2>14. u \in Seq(Mild) /\ \A x : x \in ChecksOf(u) <=> x = "unauthorized_sender" /\ u # <<>>
    BY <2>8, <2>11, AlertFacts
  <2>15. v \in Seq(Mild) /\ \A x : x \in ChecksOf(v) <=> x = "missing_signature" /\ v # <<>>
    BY <2>9, <2>11, AlertFacts
  <2>16. w \in Seq(Mild) /\ \A x : x \in ChecksOf(w) <=> x = "invalid_signature" /\ w # <<>>
    BY <2>10, <2>11, AlertFacts
  <2>17. PICK p, q, r : p = s \o t /\ q = p \o u /\ r = q \o v
    OBVIOUS
  <2>18. p \in Seq(Mild) /\ \A x : x \in ChecksOf(p) <=> x \in ChecksOf(s) \/ x \in ChecksOf(t)
    BY <2>12, <2>13, <2>17, ChecksConcat
  <2>19. q \in Seq(Mild) /\ \A x : x \in ChecksOf(q) <=> x \in ChecksOf(p) \/ x \in ChecksOf(u)
    BY <2>14, <2>17, <2>18, ChecksConcat
  <2>20. r \in Seq(Mild) /\ \A x : x \in ChecksOf(r) <=> x \in ChecksOf(q) \/ x \in ChecksOf(v)
    <3>1. q \in Seq(Mild) /\ v \in Seq(Mild) /\ r = q \o v
      BY <2>15, <2>17, <2>19
    <3>. QED  BY <3>1, ChecksConcat
  <2>21. Bus(m) = r \o w
    BY <1>2, <2>1, <2>2, <2>3, <2>4, <2>5, <2>17 DEF Bus
  <2>22. /\ Bus(m) \in Seq(Mild)
         /\ \A x : x \in ChecksOf(Bus(m)) <=> x \in ChecksOf(r) \/ x \in ChecksOf(w)
    BY <2>16, <2>20, <2>21, ChecksConcat
  <2>23. \A x \in Limits : x \in ChecksOf(Bus(m)) <=> x \in ChecksOf(t)
    BY <2>11, <2>12, <2>14, <2>15, <2>16, <2>18, <2>19, <2>20, <2>22
  <2>. QED  BY <1>2, <2>7, <2>13, <2>22, <2>23
<1>. QED  BY <1>1, <1>2

\* Every limit is looked at by one of them, and by no other.
LEMMA FoundFacts ==
  ASSUME NEW m \in Messages, NEW sent, sent = OutboundAfter(m)
  PROVE  /\ Detected(m) \in Seq(Firm) /\ Raised(m) \in Seq(Mild) /\ Found(m) = Detected(m) \o Raised(m)
         /\ \A x \in Limits : x \in ChecksOf(Found(m)) <=>
              \/ x = "rate_limit_exceeded" /\ Len(Recent(CallsAfter(m), Minute)) > MaxCalls
              \/ x = "consecutive_failures" /\ FailedAfter(m) >= MaxFailures
              \/ x = "volume_spike" /\ Total([k \in DOMAIN sent |-> sent[k].size]) > MaxVolume
              \/ x = "ingestion_rate_spike" /\ m.ingests /\ Len(IngestedAfter(m)) > MaxIngestions
              \/ x = "channel_flooding" /\ OnBus(m) /\ Len(ChannelAfter(m)) > MaxPerChannel
<1>1. PICK A, B, C, D, E : /\ A = PromptInjection(m) /\ B = Poisoning(m) /\ C = Escalation(m)
                           /\ D = Exfiltration(m) /\ E = Spoofing(m)
  OBVIOUS
<1>2. PICK F, G, H : F = ToolUsage(m) /\ G = Statistical(m) /\ H = Bus(m)
  OBVIOUS
<1>3. /\ A \in Seq(Firm) /\ B \in Seq(Firm) /\ C \in Seq(Firm) /\ D \in Seq(Firm) /\ E \in Seq(Firm)
      /\ F \in Seq(Mild) /\ G \in Seq(Mild) /\ H \in Seq(Mild)
  BY <1>1, <1>2, InjectionFinds, PoisoningFinds, EscalationFinds, ExfiltrationFinds, SpoofingFinds,
     ToolUsageFinds, StatisticalFinds, BusFinds
<1>4. PICK P, Q, R, S : P = A \o B /\ Q = P \o C /\ R = Q \o D /\ S = F \o G
  OBVIOUS
<1>5. P \in Seq(Firm) /\ \A x : x \in ChecksOf(P) <=> x \in ChecksOf(A) \/ x \in ChecksOf(B)
  BY <1>3, <1>4, ChecksConcat
<1>6. Q \in Seq(Firm) /\ \A x : x \in ChecksOf(Q) <=> x \in ChecksOf(P) \/ x \in ChecksOf(C)
  <2>1. P \in Seq(Firm) /\ C \in Seq(Firm) /\ Q = P \o C
    BY <1>3, <1>4, <1>5
  <2>. QED  BY <2>1, ChecksConcat
<1>7. R \in Seq(Firm) /\ \A x : x \in ChecksOf(R) <=> x \in ChecksOf(Q) \/ x \in ChecksOf(D)
  <2>1. Q \in Seq(Firm) /\ D \in Seq(Firm) /\ R = Q \o D
    BY <1>3, <1>4, <1>6
  <2>. QED  BY <2>1, ChecksConcat
<1>8. /\ Detected(m) \in Seq(Firm)
      /\ \A x : x \in ChecksOf(Detected(m)) <=> x \in ChecksOf(R) \/ x \in ChecksOf(E)
  <2>1. Detected(m) = R \o E
    BY <1>1, <1>4 DEF Detected
  <2>. QED  BY <1>3, <1>7, <2>1, ChecksConcat
<1>9. S \in Seq(Mild) /\ \A x : x \in ChecksOf(S) <=> x \in ChecksOf(F) \/ x \in ChecksOf(G)
  BY <1>3, <1>4, ChecksConcat
<1>10. /\ Raised(m) \in Seq(Mild)
       /\ \A x : x \in ChecksOf(Raised(m)) <=> x \in ChecksOf(S) \/ x \in ChecksOf(H)
  <2>1. Raised(m) = S \o H
    BY <1>2, <1>4 DEF Raised
  <2>. QED  BY <1>3, <1>9, <2>1, ChecksConcat
<1>11. \A x : x \in ChecksOf(Found(m)) <=> x \in ChecksOf(Detected(m)) \/ x \in ChecksOf(Raised(m))
  <2>1. Detected(m) \in Seq(Threat) /\ Raised(m) \in Seq(Threat)
    <3>1. Firm \subseteq Threat /\ Mild \subseteq Threat
      BY DEF Firm, Mild
    <3>. QED  BY <1>8, <1>10, <3>1, SeqMonotonic
  <2>. QED  BY <2>1, ChecksConcat DEF Found
<1>12. \A x \in Limits : /\ x \notin ChecksOf(A) /\ x \notin ChecksOf(C) /\ x \notin ChecksOf(E)
                         /\ x \notin ChecksOf(G)
  BY <1>1, <1>2, InjectionFinds, EscalationFinds, SpoofingFinds, StatisticalFinds
<1>13. \A x \in Limits : x \in ChecksOf(Found(m)) <=>
         x \in ChecksOf(B) \/ x \in ChecksOf(D) \/ x \in ChecksOf(F) \/ x \in ChecksOf(H)
  BY <1>5, <1>6, <1>7, <1>8, <1>9, <1>10, <1>11, <1>12
<1>14. \A x \in Limits : x \in ChecksOf(B) <=>
         x = "ingestion_rate_spike" /\ m.ingests /\ Len(IngestedAfter(m)) > MaxIngestions
  BY <1>1, PoisoningFinds
<1>15. \A x \in Limits : x \in ChecksOf(D) <=>
         x = "volume_spike" /\ Total([k \in DOMAIN sent |-> sent[k].size]) > MaxVolume
  BY <1>1, ExfiltrationFinds
<1>16. \A x \in Limits : x \in ChecksOf(F) <=>
         \/ x = "rate_limit_exceeded" /\ Len(Recent(CallsAfter(m), Minute)) > MaxCalls
         \/ x = "consecutive_failures" /\ FailedAfter(m) >= MaxFailures
  BY <1>2, ToolUsageFinds
<1>17. \A x \in Limits : x \in ChecksOf(H) <=>
         x = "channel_flooding" /\ OnBus(m) /\ Len(ChannelAfter(m)) > MaxPerChannel
  BY <1>2, BusFinds
<1>18. Found(m) = Detected(m) \o Raised(m)
  BY DEF Found
<1>. QED  BY <1>8, <1>10, <1>13, <1>14, <1>15, <1>16, <1>17, <1>18

---------------------------------------------------------------------------
(* The threat that is chosen.                                              *)

\* There is a first of the most severe threats, and it is the chosen one.
LEMMA FirstChosen ==
  ASSUME NEW s \in Seq(Threat), s # <<>>
  PROVE  \E i \in 1..Len(s) : /\ Chosen(s) = s[i]
                              /\ \A j \in 1..Len(s) : /\ s[j].severity <= s[i].severity
                                                      /\ j < i => s[j].severity < s[i].severity
<1>. DEFINE Worst(i) == \A j \in DOMAIN s : /\ s[j].severity <= s[i].severity
                                            /\ j < i => s[j].severity < s[i].severity
<1>1. Len(s) \in Nat /\ DOMAIN s = 1..Len(s) /\ 1 \in 1..Len(s)
  BY LenProperties, EmptySeq
<1>2. \A j \in 1..Len(s) : s[j].severity \in 1..4
  <2>1. \A j \in 1..Len(s) : s[j] \in Threat
    BY ElementOfSeq
  <2>. QED  BY <2>1 DEF Threat, Low, Critical
<1>3. PICK v \in 1..4 : /\ \E i \in 1..Len(s) : s[i].severity = v
                        /\ \A j \in 1..Len(s) : s[j].severity <= v
  <2>. DEFINE S == {n \in Nat : \E j \in 1..Len(s) : n = 4 - s[j].severity}
  <2>1. 4 - s[1].severity \in S
    BY <1>1, <1>2
  <2>2. PICK n \in S : \A j \in S : n <= j
    BY <2>1, LeastNatural
  <2>3. \A j \in 1..Len(s) : 4 - s[j].severity \in S
    BY <1>2
  <2>4. PICK i \in 1..Len(s) : n = 4 - s[i].severity
    OBVIOUS
  <2>. HIDE DEF S
  <2>5. \A j \in 1..Len(s) : n <= 4 - s[j].severity
    BY <2>2, <2>3
  <2>6. PICK v : v = s[i].severity
    OBVIOUS
  <2>7. v \in 1..4 /\ s[i].severity = v /\ \A j \in 1..Len(s) : s[j].severity <= v
    BY <1>2, <2>4, <2>5, <2>6
  <2>. QED  BY <2>7
<1>4. PICK i \in 1..Len(s) : s[i].severity = v /\ \A j \in 1..Len(s) : s[j].severity = v => i <= j
  <2>. DEFINE S == {j \in 1..Len(s) : s[j].severity = v}
  <2>1. S \in SUBSET Nat /\ S # {}
    BY <1>3
  <2>2. PICK i \in S : \A j \in S : i <= j
    BY <2>1, LeastNatural
  <2>. QED  BY <2>2
<1>5. Worst(i)
  <2>. TAKE j \in DOMAIN s
  <2>1. s[j].severity <= v /\ s[j].severity \in 1..4
    BY <1>1, <1>2, <1>3
  <2>2. j < i => s[j].severity # v
    BY <1>1, <1>4
  <2>. QED  BY <1>4, <2>1, <2>2
<1>6. PICK c \in DOMAIN s : Worst(c) /\ Chosen(s) = s[c]
  <2>. DEFINE c == CHOOSE k \in DOMAIN s : Worst(k)
  <2>1. c \in DOMAIN s /\ Worst(c)
    BY <1>1, <1>5
  <2>2. Chosen(s) = s[c]
    BY DEF Chosen, Highest
  <2>. QED  BY <2>1, <2>2
<1>. QED  BY <1>1, <1>6

\* Detectors are asked before the monitors, whose threats are only alerts:
\* of equally severe threats the chosen one is a detector's, which blocks when
\* any of them does.
LEMMA ChosenStands ==
  ASSUME NEW D \in Seq(Firm), NEW R \in Seq(Mild), NEW s, s = D \o R, NEW k \in DOMAIN s
  PROVE  /\ s[k].severity <= Chosen(s).severity
         /\ s[k].action = "BLOCK" => Chosen(s).action = "BLOCK" \/ Chosen(s).severity > s[k].severity
         /\ s[k].action = "BLOCK" => s[k].severity >= 3
<1>1. /\ Len(D) \in Nat /\ Len(R) \in Nat /\ Len(s) = Len(D) + Len(R)
      /\ \A i \in 1..Len(D) + Len(R) : s[i] = IF i <= Len(D) THEN D[i] ELSE R[i - Len(D)]
  BY ConcatProperties, LenProperties
<1>2. s \in Seq(Threat)
  <2>1. Firm \subseteq Threat /\ Mild \subseteq Threat
    BY DEF Firm, Mild
  <2>2. D \in Seq(Threat) /\ R \in Seq(Threat)
    BY <2>1, SeqMonotonic
  <2>. QED  BY <2>2, ConcatProperties
<1>3. DOMAIN s = 1..Len(s) /\ s # <<>>
  BY <1>2, LenProperties
<1>4. PICK i \in 1..Len(s) : /\ Chosen(s) = s[i]
                             /\ \A j \in 1..Len(s) : /\ s[j].severity <= s[i].severity
                                                     /\ j < i => s[j].severity < s[i].severity
  BY <1>2, <1>3, FirstChosen
<1>5. s[i].severity \in 1..4 /\ s[k].severity \in 1..4
  <2>1. s[i] \in Threat /\ s[k] \in Threat
    BY <1>2, <1>3, ElementOfSeq
  <2>. QED  BY <2>1 DEF Threat, Low, Critical
<1>6. s[k].severity <= s[i].severity /\ (k < i => s[k].severity < s[i].severity)
  BY <1>3, <1>4
<1>7. ASSUME s[k].action = "BLOCK", s[k].severity = s[i].severity PROVE s[i].action = "BLOCK"
  <2>1. k <= Len(D)
    <3>. SUFFICES ASSUME ~(k <= Len(D)) PROVE FALSE
      OBVIOUS
    <3>1. s[k] = R[k - Len(D)] /\ k - Len(D) \in 1..Len(R)
      BY <1>1, <1>3
    <3>2. s[k] \in Mild
      BY <3>1, ElementOfSeq
    <3>. QED  BY <1>7, <3>2 DEF Mild
  <2>2. i <= k
    BY <1>3, <1>5, <1>6, <1>7
  <2>3. i <= Len(D) /\ s[i] = D[i] /\ s[k] = D[k] /\ i \in 1..Len(D) /\ k \in 1..Len(D)
    BY <1>1, <1>3, <2>1, <2>2
  <2>4. s[i] \in Firm /\ s[k] \in Firm
    BY <2>3, ElementOfSeq
  <2>. QED  BY <1>7, <2>4 DEF Firm
<1>8. s[k].action = "BLOCK" => s[k].severity >= 3
  <2>1. CASE k <= Len(D)
    <3>1. s[k] = D[k] /\ k \in 1..Len(D)
      BY <1>1, <1>3, <2>1
    <3>2. s[k] \in Firm
      BY <3>1, ElementOfSeq
    <3>. QED  BY <3>2 DEF Firm
  <2>2. CASE ~(k <= Len(D))
    <3>1. s[k] = R[k - Len(D)] /\ k - Len(D) \in 1..Len(R)
      BY <1>1, <1>3, <2>2
    <3>2. s[k] \in Mild
      BY <3>1, ElementOfSeq
    <3>. QED  BY <3>2 DEF Mild
  <2>. QED  BY <2>1, <2>2
<1>9. CASE s[i].severity > s[k].severity
  BY <1>4, <1>6, <1>8, <1>9
<1>10. CASE s[k].severity = s[i].severity
  BY <1>4, <1>6, <1>7, <1>8, <1>10
<1>11. s[i].severity > s[k].severity \/ s[k].severity = s[i].severity
  <2>. \A a, b \in 1..4 : a <= b => b > a \/ a = b
    OBVIOUS
  <2>. QED  BY <1>5, <1>6
<1>. QED  BY <1>9, <1>10, <1>11

\* What a scan finds are threats, and so is the chosen one.
LEMMA ChosenType ==
  ASSUME NEW m \in Messages
  PROVE  /\ Found(m) \in Seq(Threat) /\ Chosen(Found(m)) \in Threat \cup {Clear}
         /\ Chosen(Found(m)).severity \in 0..4
<1>1. PICK s : s = Found(m)
  OBVIOUS
<1>2. s \in Seq(Threat)
  <2>1. Firm \subseteq Threat /\ Mild \subseteq Threat
    BY DEF Firm, Mild
  <2>2. Detected(m) \in Seq(Threat) /\ Raised(m) \in Seq(Threat) /\ s = Detected(m) \o Raised(m)
    BY <1>1, <2>1, FoundFacts, SeqMonotonic
  <2>. QED  BY <2>2, ConcatProperties
<1>3. CASE s = <<>>
  BY <1>1, <1>2, <1>3 DEF Chosen, Clear
<1>4. CASE s # <<>>
  <2>1. PICK i \in 1..Len(s) : Chosen(s) = s[i]
    BY <1>2, <1>4, FirstChosen
  <2>2. s[i] \in Threat
    BY <1>2, <2>1, ElementOfSeq
  <2>. QED  BY <1>1, <1>2, <2>1, <2>2 DEF Threat, Low, Critical
<1>. QED  BY <1>3, <1>4

---------------------------------------------------------------------------
(* Histories of the monitors.  A history h keeps of the log what concerns  *)
(* one agent or channel, the entries in K, as f tells them; it may have    *)
(* forgotten what is not after `low`.                                      *)

\* What f makes of the elements of a sequence.
Image(f, s) == [k \in DOMAIN s |-> f[s[k]]]

After(X, time, c) == {x \in X : time[x] > c}
Later(K, c) == {e \in K : e.at > c}

\* Asked for the entries after any cutoff from `low` on, history and log agree.
Tracks(h, L, X, time, f, K, low) ==
  \A c \in Int : c >= low => Selected(h, After(X, time, c)) = Image(f, Selected(L, Later(K, c)))

\* f is a view of an entry that keeps its time.
View(X, time, f) ==
  /\ f \in [Entries -> X] /\ time \in [X -> Nat]
  /\ \A e \in Entries : time[f[e]] = e.at /\ e.at \in Nat

\* A view of a sequence has its length and the view of each element.
LEMMA ImageFacts ==
  ASSUME NEW X, NEW f \in [Entries -> X], NEW s \in Seq(Entries)
  PROVE  /\ Image(f, s) \in Seq(X) /\ Len(Image(f, s)) = Len(s)
         /\ \A k \in 1..Len(s) : Image(f, s)[k] = f[s[k]]
<1>1. Len(s) \in Nat /\ DOMAIN s = 1..Len(s) /\ \A k \in 1..Len(s) : s[k] \in Entries
  BY LenProperties, ElementOfSeq
<1>2. Image(f, s) \in [1..Len(s) -> X]
  BY <1>1 DEF Image
<1>. QED  BY <1>1, <1>2 DEF Image

\* A view of a longer sequence is longer by the view of its last element.
LEMMA ImageAppend ==
  ASSUME NEW X, NEW f \in [Entries -> X], NEW s \in Seq(Entries), NEW e \in Entries
  PROVE  Image(f, Append(s, e)) = Append(Image(f, s), f[e])
<1>1. PICK t, u, v : t = Append(s, e) /\ u = Image(f, t) /\ v = Append(Image(f, s), f[e])
  OBVIOUS
<1>2. /\ t \in Seq(Entries) /\ Len(t) = Len(s) + 1 /\ t[Len(s) + 1] = e
      /\ \A k \in 1..Len(s) : t[k] = s[k]
  BY <1>1, AppendProperties
<1>3. u \in Seq(X) /\ Len(u) = Len(t) /\ \A k \in 1..Len(t) : u[k] = f[t[k]]
  BY <1>1, <1>2, ImageFacts
<1>4. PICK w : w = Image(f, s)
  OBVIOUS
<1>5. w \in Seq(X) /\ Len(w) = Len(s) /\ \A k \in 1..Len(s) : w[k] = f[s[k]]
  BY <1>4, ImageFacts
<1>6. /\ v \in Seq(X) /\ Len(v) = Len(w) + 1 /\ v[Len(w) + 1] = f[e]
      /\ \A k \in 1..Len(w) : v[k] = w[k]
  BY <1>1, <1>4, <1>5, AppendProperties
<1>7. Len(s) \in Nat
  BY LenProperties
<1>8. \A k \in 1..Len(u) : u[k] = v[k]
  <2>. TAKE k \in 1..Len(u)
  <2>1. CASE k \in 1..Len(s)
    BY <1>2, <1>3, <1>5, <1>6, <2>1
  <2>2. CASE k = Len(s) + 1
    BY <1>2, <1>3, <1>5, <1>6, <1>7, <2>2
  <2>. QED  BY <1>2, <1>3, <1>7, <2>1, <2>2
<1>9. u = v
  BY <1>2, <1>3, <1>5, <1>6, <1>8, SeqEqual
<1>. QED  BY <1>1, <1>9

\* Of nothing, nothing is kept.
LEMMA TracksNothing ==
  ASSUME NEW X, NEW time, NEW f, NEW K, NEW low
  PROVE  Tracks(<<>>, <<>>, X, time, f, K, low)
<1>1. Image(f, <<>>) = <<>>
  BY DEF Image
<1>. QED  BY <1>1, SelectedEmpty DEF Tracks

\* Agreement about more cutoffs is agreement about fewer.
LEMMA TracksLess ==
  ASSUME NEW h, NEW L, NEW X, NEW time, NEW f, NEW K, NEW low \in Int, NEW high \in Int,
         low <= high, Tracks(h, L, X, time, f, K, low)
  PROVE  Tracks(h, L, X, time, f, K, high)
BY DEF Tracks

\* An entry that does not concern the history changes nothing for it.
LEMMA TracksOther ==
  ASSUME NEW h, NEW L \in Seq(Entries), NEW X, NEW time, NEW f, NEW K, NEW low \in Int,
         Tracks(h, L, X, time, f, K, low), NEW e \in Entries, e \notin K
  PROVE  Tracks(h, Append(L, e), X, time, f, K, low)
<1>. SUFFICES ASSUME NEW c \in Int, c >= low
              PROVE  Selected(h, After(X, time, c)) = Image(f, Selected(Append(L, e), Later(K, c)))
  BY DEF Tracks
<1>1. Selected(h, After(X, time, c)) = Image(f, Selected(L, Later(K, c)))
  BY DEF Tracks
<1>2. e \notin Later(K, c)
  BY DEF Later
<1>3. Selected(Append(L, e), Later(K, c)) = Selected(L, Later(K, c))
  BY <1>2, SelectedAppend
<1>. QED  BY <1>1, <1>3

\* An entry that does is appended to the history, which may then forget
\* what is not after `low`.
LEMMA TracksNext ==
  ASSUME NEW X, NEW time, NEW f, View(X, time, f), NEW h \in Seq(X), NEW L \in Seq(Entries), NEW K,
         NEW low \in Int, Tracks(h, L, X, time, f, K, low), NEW e \in Entries, e \in K
  PROVE  Tracks(Selected(Append(h, f[e]), After(X, time, low)), Append(L, e), X, time, f, K, low)
<1>. SUFFICES ASSUME NEW c \in Int, c >= low
              PROVE  Selected(Selected(Append(h, f[e]), After(X, time, low)), After(X, time, c)) =
                       Image(f, Selected(Append(L, e), Later(K, c)))
  BY DEF Tracks
<1>1. Selected(h, After(X, time, c)) = Image(f, Selected(L, Later(K, c)))
  BY DEF Tracks
<1>2. f \in [Entries -> X] /\ f[e] \in X /\ time \in [X -> Nat] /\ time[f[e]] = e.at
  BY DEF View
<1>3. After(X, time, c) \subseteq After(X, time, low)
  BY <1>2 DEF After
<1>4. PICK g \in Seq(X) : g = Append(h, f[e])
  BY <1>2, AppendProperties
<1>5. Selected(Selected(g, After(X, time, low)), After(X, time, c)) = Selected(g, After(X, time, c))
  BY <1>3, SelectedAgain
<1>6. Selected(g, After(X, time, c)) =
        IF f[e] \in After(X, time, c) THEN Append(Selected(h, After(X, time, c)), f[e])
        ELSE Selected(h, After(X, time, c))
  BY <1>2, <1>4, SelectedAppend
<1>7. Selected(Append(L, e), Later(K, c)) =
        IF e \in Later(K, c) THEN Append(Selected(L, Later(K, c)), e) ELSE Selected(L, Later(K, c))
  BY SelectedAppend
<1>8. f[e] \in After(X, time, c) <=> e \in Later(K, c)
  BY <1>2 DEF After, Later
<1>9. Selected(L, Later(K, c)) \in Seq(Entries)
  BY SelectedType
<1>10. Image(f, Append(Selected(L, Later(K, c)), e)) = Append(Image(f, Selected(L, Later(K, c))), f[e])
  BY <1>2, <1>9, ImageAppend
<1>. QED  BY <1>1, <1>4, <1>5, <1>6, <1>7, <1>8, <1>10

---------------------------------------------------------------------------
(* Failures in a row.                                                      *)

\* The last n entries of s, and no more, are failures.
Streak(n, s) ==
  /\ n \in Nat /\ n <= Len(s)
  /\ \A k \in Len(s) - n + 1..Len(s) : ~s[k].message.success
  /\ n < Len(s) => s[Len(s) - n].message.success

\* A failure makes it longer, a success ends it.
LEMMA StreakNext ==
  ASSUME NEW s \in Seq(Entries), NEW n, Streak(n, s), NEW e \in Entries
  PROVE  Streak(IF e.message.success THEN 0 ELSE n + 1, Append(s, e))
<1>1. PICK t : t = Append(s, e)
  OBVIOUS
<1>2. Len(s) \in Nat /\ n \in Nat /\ n <= Len(s)
  BY LenProperties DEF Streak
<1>3. Len(t) = Len(s) + 1 /\ t[Len(s) + 1] = e /\ \A k \in 1..Len(s) : t[k] = s[k]
  BY <1>1, AppendProperties
<1>4. CASE e.message.success
  <2>1. Streak(0, t)
    BY <1>2, <1>3, <1>4 DEF Streak
  <2>. QED  BY <1>1, <1>4, <2>1
<1>5. CASE ~e.message.success
  <2>1. ASSUME NEW k \in Len(t) - (n + 1) + 1..Len(t) PROVE ~t[k].message.success
    <3>1. k = Len(s) + 1 \/ k \in Len(s) - n + 1..Len(s)
      BY <1>2, <1>3
    <3>2. k \in Len(s) - n + 1..Len(s) => k \in 1..Len(s)
      BY <1>2
    <3>3. k \in Len(s) - n + 1..Len(s) => ~s[k].message.success
      BY DEF Streak
    <3>. QED  BY <1>3, <1>5, <3>1, <3>2, <3>3
  <2>2. ASSUME n + 1 < Len(t) PROVE t[Len(t) - (n + 1)].message.success
    <3>1. n < Len(s) /\ Len(t) - (n + 1) = Len(s) - n /\ Len(s) - n \in 1..Len(s)
      BY <1>2, <1>3, <2>2
    <3>2. s[Len(s) - n].message.success
      BY <3>1 DEF Streak
    <3>. QED  BY <1>3, <3>1, <3>2
  <2>3. n + 1 \in Nat /\ n + 1 <= Len(t)
    BY <1>2, <1>3
  <2>4. Streak(n + 1, t)
    BY <2>1, <2>2, <2>3 DEF Streak
  <2>. QED  BY <1>1, <1>5, <2>4
<1>. QED  BY <1>4, <1>5

\* It is at least so long when the last so many entries are failures.
LEMMA StreakLong ==
  ASSUME NEW s \in Seq(Entries), NEW n, Streak(n, s), NEW k \in Nat \ {0}
  PROVE  n >= k <=> Len(s) >= k /\ \A j \in Len(s) - k + 1..Len(s) : ~s[j].message.success
<1>1. Len(s) \in Nat /\ n \in Nat /\ n <= Len(s)
  BY LenProperties DEF Streak
<1>2. ASSUME n >= k PROVE Len(s) >= k /\ \A j \in Len(s) - k + 1..Len(s) : ~s[j].message.success
  <2>1. \A j \in Len(s) - k + 1..Len(s) : j \in Len(s) - n + 1..Len(s)
    BY <1>1, <1>2
  <2>. QED  BY <1>1, <1>2, <2>1 DEF Streak
<1>3. ASSUME ~(n >= k), Len(s) >= k PROVE \E j \in Len(s) - k + 1..Len(s) : s[j].message.success
  <2>1. n < Len(s) /\ Len(s) - n \in Len(s) - k + 1..Len(s)
    BY <1>1, <1>3
  <2>2. s[Len(s) - n].message.success
    BY <2>1 DEF Streak
  <2>. QED  BY <2>1, <2>2
<1>. QED  BY <1>2, <1>3

---------------------------------------------------------------------------
(* The invariant.                                                          *)

Instants == [t \in Nat |-> t]
TimeOf == [e \in Entries |-> e.at]
SendingTime == [x \in Sendings |-> x.at]
SendingOf == [e \in Entries |-> [at |-> e.at, size |-> e.message.size]]

BusChannels == {BusChannel(m) : m \in Messages}

\* What the log notes of a message.
Noted(m) == [message |-> m, at |-> clock, severity |-> Chosen(Found(m)).severity]

\* The entries that concern an agent, its documents, its strikes, and a channel.
By(a) == {e \in Entries : e.message.from = a}
ReadBy(a) == {e \in Entries : e.message.from = a /\ e.message.ingests}
StruckBy(a) == {e \in Entries : e.message.from = a /\ e.severity >= High}
Over(c) == {e \in Entries : OnBus(e.message) /\ BusChannel(e.message) = c}

Histories ==
  /\ clock \in Nat /\ log \in Seq(Entries)
  /\ calls \in [Senders -> Seq(Nat)] /\ ingested \in [Senders -> Seq(Nat)]
  /\ outbound \in [Senders -> Seq(Sendings)] /\ channels \in [BusChannels -> Seq(Nat)]
  /\ struck \in [Senders -> Seq(Nat)]
  /\ DOMAIN failed = Senders /\ DOMAIN monitored = Senders

CallsTracked ==
  \A a \in Senders : Tracks(calls[a], log, Nat, Instants, TimeOf, By(a), clock - CallsKept)
IngestsTracked ==
  \A a \in Senders : Tracks(ingested[a], log, Nat, Instants, TimeOf, ReadBy(a), clock - Minute)
VolumeTracked ==
  \A a \in Senders :
    Tracks(outbound[a], log, Sendings, SendingTime, SendingOf, By(a), clock - Minute)
ChannelsTracked ==
  \A c \in BusChannels : Tracks(channels[c], log, Nat, Instants, TimeOf, Over(c), clock - Minute)
StrikesTracked ==
  \A a \in Senders : Tracks(struck[a], log, Nat, Instants, TimeOf, StruckBy(a), clock - StrikeWindow)
FailuresTracked == \A a \in Senders : Streak(failed[a], Selected(log, By(a)))

ScanInv ==
  /\ Histories /\ CallsTracked /\ IngestsTracked /\ VolumeTracked /\ ChannelsTracked
  /\ StrikesTracked /\ FailuresTracked /\ LimitsExact

\* The views of an entry are what they should be.
LEMMA Views ==
  /\ View(Nat, Instants, TimeOf) /\ View(Sendings, SendingTime, SendingOf)
  /\ \A c : After(Nat, Instants, c) = {t \in Nat : t > c}
  /\ \A c : After(Sendings, SendingTime, c) = {x \in Sendings : x.at > c}
<1>1. \A e \in Entries : e.at \in Nat /\ e.message \in Messages /\ e.message.size \in Nat
  BY MessageAssumption DEF Entries
<1>2. View(Nat, Instants, TimeOf)
  BY <1>1 DEF View, Instants, TimeOf
<1>3. SendingOf \in [Entries -> Sendings] /\ \A e \in Entries : SendingOf[e].at = e.at
  BY <1>1 DEF SendingOf, Sendings
<1>4. SendingTime \in [Sendings -> Nat] /\ \A x \in Sendings : SendingTime[x] = x.at
  BY DEF SendingTime, Sendings
<1>5. View(Sendings, SendingTime, SendingOf)
  BY <1>1, <1>3, <1>4 DEF View
<1>6. \A c : After(Nat, Instants, c) = {t \in Nat : t > c}
  BY DEF After, Instants
<1>7. \A c : After(Sendings, SendingTime, c) = {x \in Sendings : x.at > c}
  BY <1>4 DEF After
<1>. QED  BY <1>2, <1>5, <1>6, <1>7

\* Before any message there is nothing to forget.
LEMMA ScanInitInv ==
  ASSUME ScanInit
  PROVE  ScanInv
<1>1. \A T : <<>> \in Seq(T)
  BY EmptySeq
<1>2. Histories
  BY <1>1 DEF ScanInit, Histories, BusChannels
<1>3. \A a \in Senders : calls[a] = <<>> /\ ingested[a] = <<>> /\ outbound[a] = <<>> /\ failed[a] = 0
                        /\ struck[a] = <<>>
  BY DEF ScanInit
<1>4. log = <<>> /\ \A c \in BusChannels : channels[c] = <<>>
  BY DEF ScanInit, BusChannels
<1>5. CallsTracked /\ IngestsTracked /\ VolumeTracked /\ StrikesTracked
  BY <1>3, <1>4, TracksNothing DEF CallsTracked, IngestsTracked, VolumeTracked, StrikesTracked
<1>6. ChannelsTracked
  BY <1>4, TracksNothing DEF ChannelsTracked
<1>7. FailuresTracked
  <2>1. \A a \in Senders : Selected(log, By(a)) = <<>>
    BY <1>4, SelectedEmpty
  <2>2. Streak(0, <<>>)
    BY DEF Streak
  <2>. QED  BY <1>3, <2>1, <2>2 DEF FailuresTracked
<1>8. LimitsExact
  BY <1>4 DEF LimitsExact
<1>. QED  BY <1>2, <1>5, <1>6, <1>7, <1>8 DEF ScanInv

\* As time passes the histories are asked about less.
LEMMA ScanTickInv ==
  ASSUME ScanInv, ScanTick
  PROVE  ScanInv'
<1>1. /\ clock \in Nat /\ clock' = clock + 1 /\ Minute \in Nat /\ CallsKept \in Nat
      /\ StrikeWindow \in Nat
      /\ UNCHANGED <<calls, failed, ingested, outbound, channels, struck, monitored, outcome, log>>
  BY ScanAssumption DEF ScanInv, Histories, ScanTick
<1>2. /\ clock - CallsKept \in Int /\ clock' - CallsKept \in Int /\ clock - CallsKept <= clock' - CallsKept
      /\ clock - Minute \in Int /\ clock' - Minute \in Int /\ clock - Minute <= clock' - Minute
      /\ clock - StrikeWindow \in Int /\ clock' - StrikeWindow \in Int
      /\ clock - StrikeWindow <= clock' - StrikeWindow
  BY <1>1
<1>3. Histories'
  BY <1>1 DEF ScanInv, Histories
<1>4. CallsTracked'
  BY <1>1, <1>2, TracksLess DEF ScanInv, CallsTracked
<1>5. IngestsTracked'
  BY <1>1, <1>2, TracksLess DEF ScanInv, IngestsTracked
<1>6. VolumeTracked'
  BY <1>1, <1>2, TracksLess DEF ScanInv, VolumeTracked
<1>7. ChannelsTracked'
  BY <1>1, <1>2, TracksLess DEF ScanInv, ChannelsTracked
<1>8. FailuresTracked'
  BY <1>1 DEF ScanInv, FailuresTracked
<1>9. LimitsExact'
  BY <1>1 DEF ScanInv, LimitsExact
<1>10. StrikesTracked'
  BY <1>1, <1>2, TracksLess DEF ScanInv, StrikesTracked
<1>. QED  BY <1>3, <1>4, <1>5, <1>6, <1>7, <1>8, <1>9, <1>10 DEF ScanInv

\* An operator's release forgets no message.
LEMMA LiftInv ==
  ASSUME ScanInv, NEW a \in Senders, LiftMonitoring(a)
  PROVE  ScanInv'
<1>1. /\ UNCHANGED <<calls, failed, ingested, outbound, channels, struck, outcome, clock, log>>
      /\ DOMAIN monitored' = DOMAIN monitored
  BY DEF LiftMonitoring
<1>. QED  BY <1>1 DEF ScanInv, Histories, CallsTracked, IngestsTracked, VolumeTracked,
                      ChannelsTracked, StrikesTracked, FailuresTracked, LimitsExact

\* A message is one more entry, and what the monitors keep has its type.
LEMMA AnalyzeHistories ==
  ASSUME Histories, NEW m \in Messages, Analyze(m), NEW e, e = Noted(m)
  PROVE  /\ e \in Entries /\ e.message = m /\ e.at = clock /\ log' = Append(log, e) /\ clock' = clock
         /\ m.from \in Senders /\ BusChannel(m) \in BusChannels
         /\ CallsAfter(m) = Selected(Append(calls[m.from], TimeOf[e]),
                                     After(Nat, Instants, clock - CallsKept))
         /\ m.ingests => IngestedAfter(m) = Selected(Append(ingested[m.from], TimeOf[e]),
                                                     After(Nat, Instants, clock - Minute))
         /\ OutboundAfter(m) = Selected(Append(outbound[m.from], SendingOf[e]),
                                        After(Sendings, SendingTime, clock - Minute))
         /\ ChannelAfter(m) = Selected(Append(channels[BusChannel(m)], TimeOf[e]),
                                       After(Nat, Instants, clock - Minute))
         /\ e.severity >= 3 =>
              StruckAfter(m.from, e.severity) = Selected(Append(struck[m.from], TimeOf[e]),
                                                         After(Nat, Instants, clock - StrikeWindow))
         /\ Histories'
<1>1. clock \in Nat /\ m.size \in Nat /\ log \in Seq(Entries)
  BY MessageAssumption DEF Histories
<1>2. /\ e \in Entries /\ e.message = m /\ e.at = clock
      /\ e.severity = Chosen(Found(m)).severity /\ e.severity \in 0..4
  <2>1. Chosen(Found(m)).severity \in 0..4  BY ChosenType
  <2>2. PICK v \in 0..4 : v = Chosen(Found(m)).severity  BY <2>1
  <2>3. e = [message |-> m, at |-> clock, severity |-> v]  BY <2>2 DEF Noted
  <2>. QED  BY <1>1, <2>2, <2>3 DEF Entries, Critical
<1>3. log' = Append(log, e) /\ clock' = clock /\ log' \in Seq(Entries)
  <2>1. log' = Append(log, e) /\ clock' = clock  BY DEF Analyze, Noted
  <2>. QED  BY <1>1, <1>2, <2>1, AppendProperties
<1>4. m.from \in Senders /\ BusChannel(m) \in BusChannels
  BY DEF Senders, BusChannels
<1>5. TimeOf[e] = clock /\ SendingOf[e] = [at |-> clock, size |-> m.size]
  BY <1>2 DEF TimeOf, SendingOf
<1>6. SendingOf[e] \in Sendings
  BY <1>1, <1>5 DEF Sendings
<1>7. /\ CallsAfter(m) = Selected(Append(calls[m.from], TimeOf[e]),
                                  After(Nat, Instants, clock - CallsKept))
      /\ m.ingests => IngestedAfter(m) = Selected(Append(ingested[m.from], TimeOf[e]),
                                                  After(Nat, Instants, clock - Minute))
      /\ ChannelAfter(m) = Selected(Append(channels[BusChannel(m)], TimeOf[e]),
                                    After(Nat, Instants, clock - Minute))
  BY <1>5, Views DEF CallsAfter, IngestedAfter, ChannelAfter, Slid, Recent
<1>8. OutboundAfter(m) = Selected(Append(outbound[m.from], SendingOf[e]),
                                  After(Sendings, SendingTime, clock - Minute))
  BY <1>5, Views DEF OutboundAfter
<1>9. \A h \in Seq(Nat), c \in Int : Selected(Append(h, TimeOf[e]), After(Nat, Instants, c)) \in Seq(Nat)
  BY <1>1, <1>5, AppendProperties, SelectedType
<1>10. \A h \in Seq(Sendings), c \in Int :
         Selected(Append(h, SendingOf[e]), After(Sendings, SendingTime, c)) \in Seq(Sendings)
  BY <1>6, AppendProperties, SelectedType
<1>11. clock - CallsKept \in Int /\ clock - Minute \in Int /\ clock - StrikeWindow \in Int
  BY <1>1, ScanAssumption
<1>12. /\ calls[m.from] \in Seq(Nat) /\ ingested[m.from] \in Seq(Nat)
       /\ outbound[m.from] \in Seq(Sendings) /\ channels[BusChannel(m)] \in Seq(Nat)
  BY <1>4 DEF Histories
<1>13. /\ CallsAfter(m) \in Seq(Nat) /\ IngestedAfter(m) \in Seq(Nat)
       /\ OutboundAfter(m) \in Seq(Sendings) /\ ChannelAfter(m) \in Seq(Nat)
  <2>1. CallsAfter(m) \in Seq(Nat) /\ ChannelAfter(m) \in Seq(Nat)
    BY <1>7, <1>9, <1>11, <1>12
  <2>2. OutboundAfter(m) \in Seq(Sendings)
    BY <1>8, <1>10, <1>11, <1>12
  <2>3. CASE m.ingests
    BY <1>7, <1>9, <1>11, <1>12, <2>1, <2>2, <2>3
  <2>4. CASE ~m.ingests
    BY <1>12, <2>1, <2>2, <2>4 DEF IngestedAfter
  <2>. QED  BY <2>3, <2>4
<1>14. calls' \in [Senders -> Seq(Nat)] /\ ingested' \in [Senders -> Seq(Nat)]
  BY <1>13 DEF Histories, Analyze
<1>15. outbound' \in [Senders -> Seq(Sendings)] /\ DOMAIN failed' = Senders
  BY <1>13 DEF Histories, Analyze
<1>16. channels' \in [BusChannels -> Seq(Nat)]
  BY <1>13 DEF Histories, Analyze
<1>17. e.severity >= 3 =>
         StruckAfter(m.from, e.severity) = Selected(Append(struck[m.from], TimeOf[e]),
                                                    After(Nat, Instants, clock - StrikeWindow))
  BY <1>5, Views DEF StruckAfter, Slid, Recent, High
<1>18. struck' \in [Senders -> Seq(Nat)] /\ DOMAIN monitored' = Senders
  <2>1. struck[m.from] \in Seq(Nat)
    BY <1>4 DEF Histories
  <2>2. StruckAfter(m.from, e.severity) \in Seq(Nat)
    <3>1. CASE e.severity >= 3
      BY <1>9, <1>11, <1>17, <2>1, <3>1
    <3>2. CASE ~(e.severity >= 3)
      BY <2>1, <3>2 DEF StruckAfter, High
    <3>. QED  BY <3>1, <3>2
  <2>3. struck' = [struck EXCEPT ![m.from] = StruckAfter(m.from, e.severity)]
    BY <1>2 DEF Analyze
  <2>4. m.from \in Senders /\ DOMAIN monitored' = Senders
    BY <1>4 DEF Histories, Analyze
  <2>. QED  BY <1>4, <2>2, <2>3, <2>4 DEF Histories
<1>19. Histories'
  BY <1>1, <1>3, <1>14, <1>15, <1>16, <1>18 DEF Histories
<1>. QED  BY <1>2, <1>3, <1>4, <1>7, <1>8, <1>17, <1>19

\* Histories of agents and channels still track the log.
LEMMA AnalyzeTracked ==
  ASSUME ScanInv, NEW m \in Messages, Analyze(m)
  PROVE  CallsTracked' /\ IngestsTracked' /\ VolumeTracked' /\ ChannelsTracked'
<1>1. PICK e : e = Noted(m)
  OBVIOUS
<1>. DEFINE a == m.from
            b == BusChannel(m)
<1>2. Histories /\ clock \in Nat /\ log \in Seq(Entries)
  BY DEF ScanInv, Histories
<1>3. /\ e \in Entries /\ e.message = m /\ log' = Append(log, e) /\ clock' = clock
      /\ a \in Senders /\ b \in BusChannels
      /\ CallsAfter(m) = Selected(Append(calls[a], TimeOf[e]), After(Nat, Instants, clock - CallsKept))
      /\ m.ingests => IngestedAfter(m) = Selected(Append(ingested[a], TimeOf[e]),
                                                  After(Nat, Instants, clock - Minute))
      /\ OutboundAfter(m) = Selected(Append(outbound[a], SendingOf[e]),
                                     After(Sendings, SendingTime, clock - Minute))
      /\ ChannelAfter(m) = Selected(Append(channels[b], TimeOf[e]),
                                    After(Nat, Instants, clock - Minute))
  BY <1>1, <1>2, AnalyzeHistories
<1>4. clock - CallsKept \in Int /\ clock - Minute \in Int
  BY <1>2, ScanAssumption
<1>5. /\ calls[a] \in Seq(Nat) /\ ingested[a] \in Seq(Nat)
      /\ outbound[a] \in Seq(Sendings) /\ channels[b] \in Seq(Nat)
  BY <1>2, <1>3 DEF Histories
<1>6. View(Nat, Instants, TimeOf) /\ View(Sendings, SendingTime, SendingOf)
  BY Views
<1>7. ASSUME NEW x \in Senders, x # a PROVE e \notin By(x) /\ e \notin ReadBy(x)
  BY <1>3, <1>7 DEF By, ReadBy
<1>8. e \in By(a) /\ (e \in ReadBy(a) <=> m.ingests)
  BY <1>3 DEF By, ReadBy
<1>9. \A c \in BusChannels : e \in Over(c) <=> OnBus(m) /\ c = b
  BY <1>3 DEF Over
<1>10. CallsTracked'
  <2>. SUFFICES ASSUME NEW x \in Senders
                PROVE  Tracks(calls'[x], log', Nat, Instants, TimeOf, By(x), clock - CallsKept)
    BY <1>3 DEF CallsTracked
  <2>1. Tracks(calls[x], log, Nat, Instants, TimeOf, By(x), clock - CallsKept)
    BY DEF ScanInv, CallsTracked
  <2>2. CASE x = a
    <3>1. calls'[x] = CallsAfter(m)
      BY <1>2, <2>2 DEF Analyze, Histories
    <3>. QED  BY <1>2, <1>3, <1>4, <1>5, <1>6, <1>8, <2>1, <2>2, <3>1, TracksNext
  <2>3. CASE x # a
    <3>1. calls'[x] = calls[x]
      BY <1>2, <2>3 DEF Analyze, Histories
    <3>. QED  BY <1>2, <1>3, <1>4, <1>7, <2>1, <2>3, <3>1, TracksOther
  <2>. QED  BY <2>2, <2>3
<1>11. IngestsTracked'
  <2>. SUFFICES ASSUME NEW x \in Senders
                PROVE  Tracks(ingested'[x], log', Nat, Instants, TimeOf, ReadBy(x), clock - Minute)
    BY <1>3 DEF IngestsTracked
  <2>1. Tracks(ingested[x], log, Nat, Instants, TimeOf, ReadBy(x), clock - Minute)
    BY DEF ScanInv, IngestsTracked
  <2>2. CASE x = a /\ m.ingests
    <3>1. ingested'[x] = IngestedAfter(m)
      BY <1>2, <2>2 DEF Analyze, Histories
    <3>. QED  BY <1>2, <1>3, <1>4, <1>5, <1>6, <1>8, <2>1, <2>2, <3>1, TracksNext
  <2>3. CASE ~(x = a /\ m.ingests)
    <3>1. ingested'[x] = ingested[x]
      BY <1>2, <2>3 DEF Analyze, Histories, IngestedAfter
    <3>2. e \notin ReadBy(x)
      BY <1>7, <1>8, <2>3
    <3>. QED  BY <1>2, <1>3, <1>4, <2>1, <3>1, <3>2, TracksOther
  <2>. QED  BY <2>2, <2>3
<1>12. VolumeTracked'
  <2>. SUFFICES ASSUME NEW x \in Senders
                PROVE  Tracks(outbound'[x], log', Sendings, SendingTime, SendingOf, By(x), clock - Minute)
    BY <1>3 DEF VolumeTracked
  <2>1. Tracks(outbound[x], log, Sendings, SendingTime, SendingOf, By(x), clock - Minute)
    BY DEF ScanInv, VolumeTracked
  <2>2. CASE x = a
    <3>1. outbound'[x] = OutboundAfter(m)
      BY <1>2, <2>2 DEF Analyze, Histories
    <3>. QED  BY <1>2, <1>3, <1>4, <1>5, <1>6, <1>8, <2>1, <2>2, <3>1, TracksNext
  <2>3. CASE x # a
    <3>1. outbound'[x] = outbound[x]
      BY <1>2, <2>3 DEF Analyze, Histories
    <3>. QED  BY <1>2, <1>3, <1>4, <1>7, <2>1, <2>3, <3>1, TracksOther
  <2>. QED  BY <2>2, <2>3
<1>13. ChannelsTracked'
  <2>. SUFFICES ASSUME NEW c \in BusChannels
                PROVE  Tracks(channels'[c], log', Nat, Instants, TimeOf, Over(c), clock - Minute)
    BY <1>3 DEF ChannelsTracked
  <2>1. Tracks(channels[c], log, Nat, Instants, TimeOf, Over(c), clock - Minute)
    BY DEF ScanInv, ChannelsTracked
  <2>2. CASE OnBus(m) /\ c = b
    <3>1. channels'[c] = ChannelAfter(m)
      BY <1>2, <2>2 DEF Analyze, Histories
    <3>. QED  BY <1>2, <1>3, <1>4, <1>5, <1>6, <1>9, <2>1, <2>2, <3>1, TracksNext
  <2>3. CASE ~(OnBus(m) /\ c = b)
    <3>1. channels'[c] = channels[c]
      BY <1>2, <2>3 DEF Analyze, Histories
    <3>. QED  BY <1>2, <1>3, <1>4, <1>9, <2>1, <2>3, <3>1, TracksOther
  <2>. QED  BY <2>2, <2>3
<1>. QED  BY <1>10, <1>11, <1>12, <1>13

\* So do the strikes, of which a message is one when it is serious.
LEMMA AnalyzeStrikes ==
  ASSUME ScanInv, NEW m \in Messages, Analyze(m)
  PROVE  StrikesTracked'
<1>1. PICK e : e = Noted(m)
  OBVIOUS
<1>2. Histories /\ clock \in Nat /\ log \in Seq(Entries) /\ StrikeWindow \in Nat
  BY ScanAssumption DEF ScanInv, Histories
<1>3. /\ e \in Entries /\ e.message = m /\ log' = Append(log, e) /\ clock' = clock
      /\ m.from \in Senders
      /\ e.severity >= 3 =>
           StruckAfter(m.from, e.severity) = Selected(Append(struck[m.from], TimeOf[e]),
                                                      After(Nat, Instants, clock - StrikeWindow))
  BY <1>1, <1>2, AnalyzeHistories
<1>4. clock - StrikeWindow \in Int
  BY <1>2
<1>5. struck' = [struck EXCEPT ![m.from] = StruckAfter(m.from, e.severity)]
  BY <1>1 DEF Analyze, Noted
<1>6. View(Nat, Instants, TimeOf)
  BY Views
<1>. SUFFICES ASSUME NEW x \in Senders
              PROVE  Tracks(struck'[x], log', Nat, Instants, TimeOf, StruckBy(x), clock - StrikeWindow)
  BY <1>3 DEF StrikesTracked
<1>7. /\ Tracks(struck[x], log, Nat, Instants, TimeOf, StruckBy(x), clock - StrikeWindow)
      /\ struck[x] \in Seq(Nat)
  BY <1>2 DEF ScanInv, StrikesTracked, Histories
<1>8. CASE x = m.from /\ e.severity >= 3
  <2>1. e \in StruckBy(x)
    BY <1>3, <1>8 DEF StruckBy, High
  <2>2. struck'[x] = Selected(Append(struck[x], TimeOf[e]), After(Nat, Instants, clock - StrikeWindow))
    BY <1>2, <1>3, <1>5, <1>8 DEF Histories
  <2>. QED  BY <1>2, <1>3, <1>4, <1>6, <1>7, <2>1, <2>2, TracksNext
<1>9. CASE ~(x = m.from /\ e.severity >= 3)
  <2>1. e \notin StruckBy(x)
    BY <1>3, <1>9 DEF StruckBy, High
  <2>2. struck'[x] = struck[x]
    BY <1>2, <1>3, <1>5, <1>9 DEF Histories, StruckAfter, High
  <2>. QED  BY <1>2, <1>3, <1>4, <1>7, <2>1, <2>2, TracksOther
<1>. QED  BY <1>8, <1>9

\* So do the failures in a row.
LEMMA AnalyzeFailures ==
  ASSUME ScanInv, NEW m \in Messages, Analyze(m)
  PROVE  FailuresTracked'
<1>1. PICK e : e = Noted(m)
  OBVIOUS
<1>2. Histories /\ log \in Seq(Entries) /\ DOMAIN failed = Senders
  BY DEF ScanInv, Histories
<1>3. e \in Entries /\ e.message = m /\ log' = Append(log, e) /\ m.from \in Senders
  BY <1>1, <1>2, AnalyzeHistories
<1>. SUFFICES ASSUME NEW x \in Senders PROVE Streak(failed'[x], Selected(log', By(x)))
  BY DEF FailuresTracked
<1>4. Streak(failed[x], Selected(log, By(x))) /\ Selected(log, By(x)) \in Seq(Entries)
  BY <1>2, SelectedType DEF ScanInv, FailuresTracked
<1>5. Selected(log', By(x)) = IF e \in By(x) THEN Append(Selected(log, By(x)), e) ELSE Selected(log, By(x))
  BY <1>2, <1>3, SelectedAppend
<1>6. CASE x = m.from
  <2>1. failed'[x] = IF e.message.success THEN 0 ELSE failed[x] + 1
    BY <1>2, <1>3, <1>6 DEF Analyze, FailedAfter
  <2>2. e \in By(x)
    BY <1>3, <1>6 DEF By
  <2>. QED  BY <1>3, <1>4, <1>5, <2>1, <2>2, StreakNext
<1>7. CASE x # m.from
  <2>1. failed'[x] = failed[x] /\ e \notin By(x)
    BY <1>2, <1>3, <1>7 DEF Analyze, By
  <2>. QED  BY <1>4, <1>5, <2>1
<1>. QED  BY <1>6, <1>7

\* What a history keeps after a cutoff it keeps the next time too.
LEMMA KeptAgain ==
  ASSUME NEW X, NEW s \in Seq(X), NEW keep
  PROVE  Selected(Selected(s, keep), keep) = Selected(s, keep)
BY SelectedAgain

\* What the latest message is measured against is what the log tells.
LEMMA AnalyzeCounts ==
  ASSUME ScanInv, NEW m \in Messages, Analyze(m), NEW cutoff, cutoff = clock - Minute,
         NEW sent, sent = Selected(log', Later(By(m.from), cutoff)),
         NEW read, read = Selected(log', Later(ReadBy(m.from), cutoff)),
         NEW passed, passed = Selected(log', Later(Over(BusChannel(m)), cutoff)),
         NEW mine, mine = Selected(log', By(m.from))
  PROVE  /\ Len(Recent(CallsAfter(m), Minute)) = Len(sent)
         /\ m.ingests => Len(IngestedAfter(m)) = Len(read)
         /\ OnBus(m) => Len(ChannelAfter(m)) = Len(passed)
         /\ OutboundAfter(m) = Image(SendingOf, sent) /\ sent \in Seq(Entries)
         /\ FailedAfter(m) >= MaxFailures <=>
              /\ Len(mine) >= MaxFailures
              /\ \A k \in Len(mine) - MaxFailures + 1..Len(mine) : ~mine[k].message.success
<1>1. PICK e : e = Noted(m)
  OBVIOUS
<1>. DEFINE a == m.from
            b == BusChannel(m)
<1>2. Histories /\ clock \in Nat /\ Minute \in Nat /\ CallsKept \in Nat /\ Minute <= CallsKept
      /\ MaxFailures \in Nat \ {0}
  BY ScanAssumption DEF ScanInv, Histories
<1>3. cutoff \in Int /\ cutoff >= clock - CallsKept /\ cutoff >= clock - Minute
  BY <1>2
<1>4. /\ e \in Entries /\ e.message = m /\ clock' = clock
      /\ a \in Senders /\ b \in BusChannels
      /\ m.ingests => IngestedAfter(m) = Selected(Append(ingested[a], TimeOf[e]),
                                                  After(Nat, Instants, cutoff))
      /\ OutboundAfter(m) = Selected(Append(outbound[a], SendingOf[e]),
                                     After(Sendings, SendingTime, cutoff))
      /\ ChannelAfter(m) = Selected(Append(channels[b], TimeOf[e]), After(Nat, Instants, cutoff))
      /\ Histories'
  BY <1>1, <1>2, AnalyzeHistories
<1>5. TimeOf \in [Entries -> Nat] /\ SendingOf \in [Entries -> Sendings]
  BY Views DEF View
<1>6. log' \in Seq(Entries)
  BY <1>4 DEF Histories
<1>7. sent \in Seq(Entries) /\ read \in Seq(Entries) /\ passed \in Seq(Entries) /\ mine \in Seq(Entries)
  BY <1>6, SelectedType
<1>8. /\ calls'[a] = CallsAfter(m) /\ outbound'[a] = OutboundAfter(m)
      /\ ingested'[a] = IngestedAfter(m) /\ failed'[a] = FailedAfter(m)
      /\ OnBus(m) => channels'[b] = ChannelAfter(m)
  BY <1>2, <1>4 DEF Analyze, Histories
<1>9. CallsTracked' /\ IngestsTracked' /\ VolumeTracked' /\ ChannelsTracked' /\ FailuresTracked'
  BY AnalyzeTracked, AnalyzeFailures
<1>10. TimeOf[e] \in Nat /\ SendingOf[e] \in Sendings
  BY <1>4, <1>5
<1>11. \A s \in Seq(Entries) : Len(Image(TimeOf, s)) = Len(s)
  BY <1>5, ImageFacts
<1>12. Len(Recent(CallsAfter(m), Minute)) = Len(sent)
  <2>1. Recent(CallsAfter(m), Minute) = Selected(CallsAfter(m), After(Nat, Instants, cutoff))
    BY Views DEF Recent
  <2>2. Selected(calls'[a], After(Nat, Instants, cutoff)) = Image(TimeOf, sent)
    BY <1>3, <1>4, <1>9 DEF CallsTracked, Tracks
  <2>. QED  BY <1>7, <1>8, <1>11, <2>1, <2>2
<1>13. ASSUME m.ingests PROVE Len(IngestedAfter(m)) = Len(read)
  <2>1. PICK g \in Seq(Nat) : g = Append(ingested[a], TimeOf[e])
    BY <1>2, <1>4, <1>10, AppendProperties DEF Histories
  <2>2. Selected(IngestedAfter(m), After(Nat, Instants, cutoff)) = IngestedAfter(m)
    <3>1. Selected(Selected(g, After(Nat, Instants, cutoff)), After(Nat, Instants, cutoff)) =
            Selected(g, After(Nat, Instants, cutoff))
      BY KeptAgain
    <3>. QED  BY <1>4, <1>13, <2>1, <3>1
  <2>3. Selected(ingested'[a], After(Nat, Instants, cutoff)) = Image(TimeOf, read)
    BY <1>3, <1>4, <1>9 DEF IngestsTracked, Tracks
  <2>. QED  BY <1>7, <1>8, <1>11, <2>2, <2>3
<1>14. ASSUME OnBus(m) PROVE Len(ChannelAfter(m)) = Len(passed)
  <2>1. PICK g \in Seq(Nat) : g = Append(channels[b], TimeOf[e])
    BY <1>2, <1>4, <1>10, AppendProperties DEF Histories
  <2>2. Selected(ChannelAfter(m), After(Nat, Instants, cutoff)) = ChannelAfter(m)
    <3>1. Selected(Selected(g, After(Nat, Instants, cutoff)), After(Nat, Instants, cutoff)) =
            Selected(g, After(Nat, Instants, cutoff))
      BY KeptAgain
    <3>. QED  BY <1>4, <2>1, <3>1
  <2>3. Selected(channels'[b], After(Nat, Instants, cutoff)) = Image(TimeOf, passed)
    BY <1>3, <1>4, <1>9 DEF ChannelsTracked, Tracks
  <2>. QED  BY <1>7, <1>8, <1>14, <1>11, <2>2, <2>3
<1>15. OutboundAfter(m) = Image(SendingOf, sent)
  <2>1. PICK g \in Seq(Sendings) : g = Append(outbound[a], SendingOf[e])
    BY <1>2, <1>4, <1>10, AppendProperties DEF Histories
  <2>2. Selected(OutboundAfter(m), After(Sendings, SendingTime, cutoff)) = OutboundAfter(m)
    <3>1. Selected(Selected(g, After(Sendings, SendingTime, cutoff)), After(Sendings, SendingTime, cutoff)) =
            Selected(g, After(Sendings, SendingTime, cutoff))
      BY KeptAgain
    <3>. QED  BY <1>4, <2>1, <3>1
  <2>3. Selected(outbound'[a], After(Sendings, SendingTime, cutoff)) = Image(SendingOf, sent)
    BY <1>3, <1>4, <1>9 DEF VolumeTracked, Tracks
  <2>. QED  BY <1>8, <2>2, <2>3
<1>16. Streak(FailedAfter(m), mine)
  BY <1>4, <1>8, <1>9 DEF FailuresTracked
<1>17. FailedAfter(m) >= MaxFailures <=>
         /\ Len(mine) >= MaxFailures
         /\ \A k \in Len(mine) - MaxFailures + 1..Len(mine) : ~mine[k].message.success
  BY <1>2, <1>7, <1>16, StreakLong
<1>. QED  BY <1>7, <1>12, <1>13, <1>14, <1>15, <1>17

\* The volume of what a history has of the messages is the volume of the messages.
LEMMA SameVolume ==
  ASSUME NEW sent \in Seq(Entries), NEW out, out = Image(SendingOf, sent)
  PROVE  [k \in DOMAIN out |-> out[k].size] = [k \in DOMAIN sent |-> sent[k].message.size]
<1>1. DOMAIN out = DOMAIN sent /\ \A k \in DOMAIN sent : out[k] = SendingOf[sent[k]]
  BY DEF Image
<1>2. \A k \in DOMAIN sent : sent[k] \in Entries
  BY LenProperties, ElementOfSeq
<1>3. \A k \in DOMAIN sent : out[k].size = sent[k].message.size
  BY <1>1, <1>2 DEF SendingOf
<1>. QED  BY <1>1, <1>3

\* The limits that a message is found to exceed are those it exceeds.
LEMMA AnalyzeLimits ==
  ASSUME ScanInv, NEW m \in Messages, Analyze(m)
  PROVE  LimitsExact'
<1>1. PICK e : e = Noted(m)
  OBVIOUS
<1>2. Histories /\ log \in Seq(Entries)
  BY DEF ScanInv, Histories
<1>3. e \in Entries /\ e.message = m /\ e.at = clock /\ log' = Append(log, e)
  BY <1>1, <1>2, AnalyzeHistories
<1>4. log'[Len(log')] = e
  BY <1>2, <1>3, AppendProperties, LenProperties
<1>5. PICK cutoff, sent, read, passed, mine, out :
        /\ cutoff = clock - Minute
        /\ sent = Selected(log', Later(By(m.from), cutoff))
        /\ read = Selected(log', Later(ReadBy(m.from), cutoff))
        /\ passed = Selected(log', Later(Over(BusChannel(m)), cutoff))
        /\ mine = Selected(log', By(m.from))
        /\ out = OutboundAfter(m)
  OBVIOUS
<1>6. /\ Len(Recent(CallsAfter(m), Minute)) = Len(sent)
      /\ m.ingests => Len(IngestedAfter(m)) = Len(read)
      /\ OnBus(m) => Len(ChannelAfter(m)) = Len(passed)
      /\ out = Image(SendingOf, sent) /\ sent \in Seq(Entries)
      /\ FailedAfter(m) >= MaxFailures <=>
           /\ Len(mine) >= MaxFailures
           /\ \A k \in Len(mine) - MaxFailures + 1..Len(mine) : ~mine[k].message.success
  BY <1>5, AnalyzeCounts
<1>7. PICK size : /\ size = Total([k \in DOMAIN sent |-> sent[k].message.size])
                  /\ size = Total([k \in DOMAIN out |-> out[k].size])
  <2>1. [k \in DOMAIN out |-> out[k].size] = [k \in DOMAIN sent |-> sent[k].message.size]
    BY <1>6, SameVolume
  <2>. QED  BY <2>1
<1>8. PICK raised : raised = ChecksOf(Found(m))
  OBVIOUS
<1>9. /\ \A x \in Limits : x \in raised <=>
           \/ x = "rate_limit_exceeded" /\ Len(Recent(CallsAfter(m), Minute)) > MaxCalls
           \/ x = "consecutive_failures" /\ FailedAfter(m) >= MaxFailures
           \/ x = "volume_spike" /\ size > MaxVolume
           \/ x = "ingestion_rate_spike" /\ m.ingests /\ Len(IngestedAfter(m)) > MaxIngestions
           \/ x = "channel_flooding" /\ OnBus(m) /\ Len(ChannelAfter(m)) > MaxPerChannel
  BY <1>5, <1>7, <1>8, FoundFacts
<1>10. /\ "rate_limit_exceeded" \in raised <=> Len(Recent(CallsAfter(m), Minute)) > MaxCalls
       /\ "consecutive_failures" \in raised <=> FailedAfter(m) >= MaxFailures
       /\ "volume_spike" \in raised <=> size > MaxVolume
       /\ "ingestion_rate_spike" \in raised <=> m.ingests /\ Len(IngestedAfter(m)) > MaxIngestions
       /\ "channel_flooding" \in raised <=> OnBus(m) /\ Len(ChannelAfter(m)) > MaxPerChannel
  BY <1>9 DEF Limits
<1>11. /\ sent = Selected(log', {x \in Entries : x.message.from = m.from /\ x.at > cutoff})
       /\ read = Selected(log', {x \in Entries : /\ x.message.from = m.from /\ x.message.ingests
                                                 /\ x.at > cutoff})
       /\ passed = Selected(log', {x \in Entries : /\ OnBus(x.message)
                                                   /\ BusChannel(x.message) = BusChannel(m)
                                                   /\ x.at > cutoff})
       /\ mine = Selected(log', {x \in Entries : x.message.from = m.from})
  BY <1>5 DEF Later, By, ReadBy, Over
<1>12. raised = UNION {outcome'.threats[k].checks : k \in DOMAIN outcome'.threats}
  BY <1>8 DEF Analyze, ChecksOf
<1>13. log'[Len(log')].message = m /\ log'[Len(log')].at - Minute = cutoff
  BY <1>3, <1>4, <1>5
<1>14. /\ "rate_limit_exceeded" \in raised <=> Len(sent) > MaxCalls
       /\ "volume_spike" \in raised <=>
            Total([k \in DOMAIN sent |-> sent[k].message.size]) > MaxVolume
       /\ "ingestion_rate_spike" \in raised <=> m.ingests /\ Len(read) > MaxIngestions
       /\ "channel_flooding" \in raised <=> OnBus(m) /\ Len(passed) > MaxPerChannel
       /\ "consecutive_failures" \in raised <=>
            /\ Len(mine) >= MaxFailures
            /\ \A k \in Len(mine) - MaxFailures + 1..Len(mine) : ~mine[k].message.success
  BY <1>6, <1>7, <1>10
<1>. QED  BY <1>11, <1>12, <1>13, <1>14 DEF LimitsExact

\* What holds of the scans in every state.
THEOREM ScanInvariance == ScanSpec => []ScanInv
<1>1. ScanInit => ScanInv
  BY ScanInitInv
<1>2. ScanInv /\ [ScanNext]_scanVars => ScanInv'
  <2>. SUFFICES ASSUME ScanInv, [ScanNext]_scanVars PROVE ScanInv'
    OBVIOUS
  <2>1. CASE UNCHANGED scanVars
    BY <2>1 DEF ScanInv, scanVars, Histories, CallsTracked, IngestsTracked, VolumeTracked,
                ChannelsTracked, StrikesTracked, FailuresTracked, LimitsExact
  <2>2. CASE ScanTick
    BY <2>2, ScanTickInv
  <2>3. ASSUME NEW m \in Messages, Analyze(m) PROVE ScanInv'
    <3>1. Histories'
      BY <2>3, AnalyzeHistories DEF ScanInv
    <3>. QED  BY <2>3, <3>1, AnalyzeTracked, AnalyzeStrikes, AnalyzeFailures, AnalyzeLimits
              DEF ScanInv
  <2>4. ASSUME NEW a \in Senders, LiftMonitoring(a) PROVE ScanInv'
    BY <2>4, LiftInv
  <2>. QED  BY <2>1, <2>2, <2>3, <2>4 DEF ScanNext
<1>. QED  BY <1>1, <1>2, PTL DEF ScanSpec

\* A limit is raised when and only when the messages of its window exceed
\* it, however the messages of several agents and channels alternate and
\* whatever the histories have dropped.
THEOREM LimitsAreExact == ScanSpec => []LimitsExact
<1>1. ScanInv => LimitsExact
  BY DEF ScanInv
<1>. QED  BY <1>1, ScanInvariance, PTL

\* The strikes kept of the sender of a serious message are its serious messages
\* of the window, this one included.
LEMMA SeriousBurst ==
  ASSUME ScanInv, NEW m \in Messages, Analyze(m), Chosen(Found(m)).severity >= 3
  PROVE  Len(Selected(log', Later(StruckBy(m.from), clock - StrikeWindow)))
           = Len(StruckAfter(m.from, Chosen(Found(m)).severity))
<1>. DEFINE a == m.from
            keep == After(Nat, Instants, clock - StrikeWindow)
<1>1. PICK e, burst : /\ e = Noted(m)
                      /\ burst = Selected(log', Later(StruckBy(a), clock - StrikeWindow))
  OBVIOUS
<1>2. Histories /\ clock \in Nat /\ StrikeWindow \in Nat
  BY ScanAssumption DEF ScanInv, Histories
<1>3. /\ e \in Entries /\ clock' = clock /\ a \in Senders /\ Histories'
      /\ e.severity = Chosen(Found(m)).severity
      /\ e.severity >= 3 => StruckAfter(a, e.severity) = Selected(Append(struck[a], TimeOf[e]), keep)
  BY <1>1, <1>2, AnalyzeHistories DEF Noted
<1>4. TimeOf \in [Entries -> Nat]
  BY Views DEF View
<1>5. PICK g \in Seq(Nat) : g = Append(struck[a], TimeOf[e])
  BY <1>2, <1>3, <1>4, AppendProperties DEF Histories
<1>6. StruckAfter(a, e.severity) = Selected(g, keep)
  BY <1>3, <1>5
<1>7. struck'[a] = StruckAfter(a, e.severity)
  BY <1>2, <1>3 DEF Analyze, Histories
<1>8. Selected(struck'[a], keep) = Image(TimeOf, burst)
  <2>1. PICK c \in Int : c = clock - StrikeWindow
    BY <1>2
  <2>2. c >= clock' - StrikeWindow
    BY <1>2, <1>3, <2>1
  <2>3. StrikesTracked'
    BY AnalyzeStrikes
  <2>4. Selected(struck'[a], After(Nat, Instants, c)) = Image(TimeOf, Selected(log', Later(StruckBy(a), c)))
    BY <1>3, <2>2, <2>3 DEF StrikesTracked, Tracks
  <2>. QED  BY <1>1, <2>1, <2>4
<1>9. Selected(Selected(g, keep), keep) = Selected(g, keep)
  BY KeptAgain
<1>10. burst \in Seq(Entries)
  BY <1>1, <1>3, SelectedType DEF Histories
<1>11. Len(Image(TimeOf, burst)) = Len(burst)
  BY <1>4, <1>10, ImageFacts
<1>. QED  BY <1>1, <1>3, <1>6, <1>7, <1>8, <1>9, <1>11

\* Of a message's threats none is more severe than what it is answered, and a
\* detector's BLOCK gives way to a more severe threat or to the quarantine that
\* the message sets off.
LEMMA AnalyzeStands ==
  ASSUME ScanInv, NEW m \in Messages, Analyze(m),
         NEW burst, burst = Selected(log', Later(StruckBy(m.from), clock - StrikeWindow)),
         NEW k \in DOMAIN outcome'.threats, NEW t, t = outcome'.threats[k]
  PROVE  /\ t.severity <= outcome'.verdict.severity
         /\ t.action = "BLOCK" =>
              \/ outcome'.verdict.action = "BLOCK"
              \/ outcome'.verdict.severity > t.severity
              \/ /\ Len(burst) >= StrikeLimit
                 /\ Standing(m.from) = Unmonitored /\ monitored'[m.from] = clock
<1>. DEFINE a == m.from
<1>1. PICK s, c : s = Found(m) /\ c = Chosen(s)
  OBVIOUS
<1>2. /\ outcome' = [threats |-> s, verdict |-> Verdict(a, s)]
      /\ struck' = [struck EXCEPT ![a] = StruckAfter(a, c.severity)]
      /\ monitored' = [monitored EXCEPT ![a] = IF Trips(a, c.severity) THEN clock ELSE Standing(a)]
  BY <1>1 DEF Analyze
<1>3. outcome'.threats = s /\ outcome'.verdict = Verdict(a, s) /\ k \in DOMAIN s /\ t = s[k]
  BY <1>2
<1>4. /\ t.severity <= c.severity
      /\ t.action = "BLOCK" => c.action = "BLOCK" \/ c.severity > t.severity
      /\ t.action = "BLOCK" => t.severity >= 3
  <2>1. Detected(m) \in Seq(Firm) /\ Raised(m) \in Seq(Mild) /\ s = Detected(m) \o Raised(m)
    BY <1>1, FoundFacts
  <2>. QED  BY <1>1, <1>3, <2>1, ChosenStands
<1>5. c \in Threat \cup {Clear} /\ c.severity \in 0..4
  BY <1>1, ChosenType
<1>6. CASE ~Trips(a, c.severity)
  <2>1. outcome'.verdict = c
    BY <1>1, <1>3, <1>6 DEF Verdict
  <2>. QED  BY <1>4, <2>1
<1>7. CASE Trips(a, c.severity)
  <2>1. outcome'.verdict = [c EXCEPT !.action = "ALERT"]
    BY <1>1, <1>3, <1>7 DEF Verdict
  <2>2. outcome'.verdict.severity = c.severity
    BY <1>5, <2>1 DEF Threat, Clear
  <2>3. a \in Senders /\ DOMAIN monitored = Senders /\ Standing(a) = Unmonitored
        /\ Len(StruckAfter(a, c.severity)) >= StrikeLimit
    BY <1>7 DEF Trips, ScanInv, Histories, Senders
  <2>4. monitored'[a] = clock
    BY <1>2, <1>7, <2>3
  <2>5. ASSUME t.action = "BLOCK" PROVE Len(burst) = Len(StruckAfter(a, c.severity))
    <3>1. t \in Threat /\ t.severity \in 1..4
      <4>1. s \in Seq(Threat)
        BY <1>1, ChosenType
      <4>2. t \in Threat
        BY <1>3, <4>1, LenProperties, ElementOfSeq
      <4>. QED  BY <4>2 DEF Threat, Low, Critical
    <3>2. c.severity >= 3
      BY <1>4, <1>5, <2>5, <3>1
    <3>. QED  BY <1>1, <3>2, SeriousBurst
  <2>. QED  BY <1>4, <2>2, <2>3, <2>4, <2>5
<1>. QED  BY <1>6, <1>7

\* A detector's BLOCK stands whatever the monitors raise beside it, except
\* against a worse threat and on the message that completes a burst: the strikes
\* an agent's history has kept are its serious messages of the window.
THEOREM BlockingStands == ScanSpec => BlockStands
<1>1. ScanInv /\ [ScanNext]_scanVars =>
        [log' # log =>
           LET a == log'[Len(log')].message.from
               burst == Selected(log', {e \in Entries : /\ e.message.from = a /\ e.severity >= High
                                                        /\ e.at > clock - StrikeWindow})
           IN \A k \in DOMAIN outcome'.threats :
                LET t == outcome'.threats[k] IN
                /\ t.severity <= outcome'.verdict.severity
                /\ t.action = "BLOCK" =>
                     \/ outcome'.verdict.action = "BLOCK"
                     \/ outcome'.verdict.severity > t.severity
                     \/ /\ Len(burst) >= StrikeLimit
                        /\ Standing(a) = Unmonitored /\ monitored'[a] = clock]_scanVars
  <2>. SUFFICES ASSUME ScanInv, [ScanNext]_scanVars, log' # log
                PROVE  LET a == log'[Len(log')].message.from
                           burst == Selected(log', {e \in Entries : /\ e.message.from = a /\ e.severity >= High
                                                                    /\ e.at > clock - StrikeWindow})
                       IN \A k \in DOMAIN outcome'.threats :
                            LET t == outcome'.threats[k] IN
                            /\ t.severity <= outcome'.verdict.severity
                            /\ t.action = "BLOCK" =>
                                 \/ outcome'.verdict.action = "BLOCK"
                                 \/ outcome'.verdict.severity > t.severity
                                 \/ /\ Len(burst) >= StrikeLimit
                                    /\ Standing(a) = Unmonitored /\ monitored'[a] = clock
    OBVIOUS
  <2>1. PICK m \in Messages : Analyze(m)
    BY DEF ScanNext, ScanTick, LiftMonitoring, scanVars
  <2>2. log'[Len(log')].message.from = m.from
    <3>1. PICK e : e = Noted(m)
      OBVIOUS
    <3>2. Histories /\ log \in Seq(Entries)
      BY DEF ScanInv, Histories
    <3>3. e \in Entries /\ e.message = m /\ log' = Append(log, e)
      BY <2>1, <3>1, <3>2, AnalyzeHistories
    <3>4. log'[Len(log')] = e
      BY <3>2, <3>3, AppendProperties, LenProperties
    <3>. QED  BY <3>3, <3>4
  <2>3. PICK burst : /\ burst = Selected(log', Later(StruckBy(m.from), clock - StrikeWindow))
                     /\ burst = Selected(log', {e \in Entries : /\ e.message.from = m.from
                                                                /\ e.severity >= High
                                                                /\ e.at > clock - StrikeWindow})
    <3>1. Later(StruckBy(m.from), clock - StrikeWindow) =
            {e \in Entries : /\ e.message.from = m.from /\ e.severity >= High
                             /\ e.at > clock - StrikeWindow}
      BY DEF Later, StruckBy
    <3>. QED  BY <3>1
  <2>. QED  BY <2>1, <2>2, <2>3, AnalyzeStands
<1>. QED  BY <1>1, ScanInvariance, PTL DEF ScanSpec, BlockStands

---------------------------------------------------------------------------
(* Types.                                                                  *)

Kept ==
  /\ clock \in 0..LastInstant /\ Len(log) <= MaxLog /\ failed \in [Senders -> Nat]
  /\ calls \in [Senders -> Seq(0..LastInstant)] /\ ingested \in [Senders -> Seq(0..LastInstant)]
  /\ requests \in [Senders -> Seq(0..LastInstant)]
  /\ struck \in [Senders -> Seq(0..LastInstant)]
  /\ monitored \in [Senders -> {Unmonitored} \cup 0..LastInstant]
  /\ channels \in [BusChannels -> Seq(0..LastInstant)]
  /\ rates \in [Senders -> Seq(Nat)] /\ sizes \in [Senders -> Seq(Nat)]
  /\ \A a \in Senders : Len(rates[a]) <= HistorySize /\ Len(sizes[a]) = Len(rates[a])
  /\ outcome.threats \in Seq(Threat) /\ outcome.verdict \in Threat \cup {Clear}

\* A window is of times.
LEMMA SlidType ==
  ASSUME clock \in 0..LastInstant, NEW times \in Seq(0..LastInstant), NEW span
  PROVE  Slid(times, span) \in Seq(0..LastInstant)
<1>1. PICK s \in Seq(0..LastInstant) : s = Append(times, clock)
  BY AppendProperties
<1>. QED  BY <1>1, SelectedType DEF Slid, Recent

\* A history is full or grows by one.
LEMMA RememberedType ==
  ASSUME NEW h \in Seq(Nat), Len(h) <= HistorySize, NEW value \in Nat
  PROVE  /\ Remembered(h, value) \in Seq(Nat)
         /\ Len(Remembered(h, value)) = IF Len(h) < HistorySize THEN Len(h) + 1 ELSE Len(h)
<1>1. Len(h) \in Nat /\ HistorySize \in Nat /\ HistorySize # 0
  BY LenProperties, ScanAssumption
<1>2. CASE Len(h) < HistorySize
  BY <1>2, AppendProperties DEF Remembered
<1>3. CASE ~(Len(h) < HistorySize)
  <2>1. h # <<>>
    BY <1>1, <1>3, EmptySeq
  <2>2. PICK t \in Seq(Nat) : t = Tail(h) /\ Len(t) = Len(h) - 1
    BY <2>1, HeadTailProperties
  <2>3. Append(t, value) \in Seq(Nat) /\ Len(Append(t, value)) = Len(t) + 1
    BY AppendProperties
  <2>. QED  BY <1>1, <1>3, <2>2, <2>3 DEF Remembered
<1>. QED  BY <1>2, <1>3

\* A scan keeps the types.
LEMMA AnalyzeKept ==
  ASSUME Kept, NEW m \in Messages, Analyze(m), log \in Seq(Entries)
  PROVE  Kept'
<1>1. m.size \in Nat /\ m.from \in Senders /\ BusChannel(m) \in BusChannels /\ clock' = clock
  BY MessageAssumption DEF Senders, BusChannels, Analyze
<1>2. clock \in 0..LastInstant /\ Len(log') <= MaxLog
  <2>1. log' = Append(log, Noted(m)) /\ Len(log) < MaxLog /\ Len(log) \in Nat
    BY LenProperties DEF Analyze, Noted
  <2>2. clock \in 0..LastInstant /\ LastInstant \in Nat /\ MaxLog \in Nat
    BY ScanAssumption DEF Kept
  <2>3. PICK e : e = Noted(m)
    OBVIOUS
  <2>4. e \in Entries
    BY <2>2, <2>3, ChosenType DEF Entries, Noted, Critical
  <2>5. Len(log') = Len(log) + 1
    BY <2>1, <2>3, <2>4, AppendProperties
  <2>. QED  BY <2>1, <2>2, <2>5
<1>3. failed' \in [Senders -> Nat]
  <2>1. FailedAfter(m) \in Nat
    BY <1>1 DEF Kept, FailedAfter
  <2>. QED  BY <2>1 DEF Kept, Analyze
<1>4. calls' \in [Senders -> Seq(0..LastInstant)]
  <2>1. CallsAfter(m) \in Seq(0..LastInstant)
    BY <1>1, <1>2, SlidType DEF Kept, CallsAfter
  <2>. QED  BY <2>1 DEF Kept, Analyze
<1>5. ingested' \in [Senders -> Seq(0..LastInstant)]
  <2>1. ingested[m.from] \in Seq(0..LastInstant)
    BY <1>1 DEF Kept
  <2>2. IngestedAfter(m) \in Seq(0..LastInstant)
    BY <1>2, <2>1, SlidType DEF IngestedAfter
  <2>. QED  BY <2>2 DEF Kept, Analyze
<1>6. requests' \in [Senders -> Seq(0..LastInstant)] /\ Rate(m) \in Nat
  <2>1. Slid(requests[m.from], Minute) \in Seq(0..LastInstant)
    BY <1>1, <1>2, SlidType DEF Kept
  <2>. QED  BY <2>1, LenProperties DEF Kept, Analyze, Rate
<1>7. channels' \in [BusChannels -> Seq(0..LastInstant)]
  <2>1. ChannelAfter(m) \in Seq(0..LastInstant)
    BY <1>1, <1>2, SlidType DEF Kept, ChannelAfter
  <2>. QED  BY <2>1 DEF Kept, Analyze
<1>8. PICK r, z : r = Remembered(rates[m.from], Rate(m)) /\ z = Remembered(sizes[m.from], m.size)
  OBVIOUS
<1>9. r \in Seq(Nat) /\ z \in Seq(Nat) /\ Len(r) <= HistorySize /\ Len(z) = Len(r)
  <2>1. /\ rates[m.from] \in Seq(Nat) /\ sizes[m.from] \in Seq(Nat)
        /\ Len(rates[m.from]) <= HistorySize /\ Len(sizes[m.from]) = Len(rates[m.from])
    BY <1>1 DEF Kept
  <2>2. HistorySize \in Nat /\ Len(rates[m.from]) \in Nat
    BY <2>1, ScanAssumption, LenProperties
  <2>3. /\ r \in Seq(Nat)
        /\ Len(r) = IF Len(rates[m.from]) < HistorySize THEN Len(rates[m.from]) + 1 ELSE Len(rates[m.from])
    BY <1>6, <1>8, <2>1, RememberedType
  <2>4. /\ z \in Seq(Nat)
        /\ Len(z) = IF Len(sizes[m.from]) < HistorySize THEN Len(sizes[m.from]) + 1 ELSE Len(sizes[m.from])
    BY <1>1, <1>8, <2>1, RememberedType
  <2>. QED  BY <2>1, <2>2, <2>3, <2>4
<1>10. rates' = [rates EXCEPT ![m.from] = r] /\ sizes' = [sizes EXCEPT ![m.from] = z]
  BY <1>8 DEF Analyze
<1>11. rates' \in [Senders -> Seq(Nat)] /\ sizes' \in [Senders -> Seq(Nat)]
  BY <1>9, <1>10 DEF Kept
<1>12. \A a \in Senders : Len(rates'[a]) <= HistorySize /\ Len(sizes'[a]) = Len(rates'[a])
  <2>. TAKE a \in Senders
  <2>1. CASE a = m.from
    BY <1>9, <1>10, <2>1 DEF Kept
  <2>2. CASE a # m.from
    BY <1>10, <2>2 DEF Kept
  <2>. QED  BY <2>1, <2>2
<1>13. outcome'.threats \in Seq(Threat) /\ outcome'.verdict \in Threat \cup {Clear}
  <2>1. PICK s, c : s = Found(m) /\ c = Chosen(s)
    OBVIOUS
  <2>2. s \in Seq(Threat) /\ c \in Threat \cup {Clear}
    BY <2>1, ChosenType
  <2>3. outcome' = [threats |-> s, verdict |-> Verdict(m.from, s)]
    BY <2>1 DEF Analyze
  <2>4. Verdict(m.from, s) \in Threat \cup {Clear}
    <3>1. CASE Trips(m.from, c.severity)
      <4>1. c # Clear  BY <3>1 DEF Trips, Clear
      <4>2. [c EXCEPT !.action = "ALERT"] \in Threat  BY <2>2, <4>1 DEF Threat
      <4>. QED  BY <2>1, <3>1, <4>2 DEF Verdict
    <3>2. CASE ~Trips(m.from, c.severity)
      BY <2>1, <2>2, <3>2 DEF Verdict
    <3>. QED  BY <3>1, <3>2
  <2>. QED  BY <2>2, <2>3, <2>4
<1>14. struck' \in [Senders -> Seq(0..LastInstant)]
  <2>1. PICK v : v = Chosen(Found(m)).severity
    OBVIOUS
  <2>2. struck[m.from] \in Seq(0..LastInstant)
    BY <1>1 DEF Kept
  <2>3. StruckAfter(m.from, v) \in Seq(0..LastInstant)
    BY <1>2, <2>2, SlidType DEF StruckAfter
  <2>4. struck' = [struck EXCEPT ![m.from] = StruckAfter(m.from, v)]
    BY <2>1 DEF Analyze
  <2>. QED  BY <2>3, <2>4 DEF Kept
<1>15. monitored' \in [Senders -> {Unmonitored} \cup 0..LastInstant]
  <2>1. PICK v : monitored' = [monitored EXCEPT ![m.from] = v] /\ v \in {clock, Standing(m.from)}
    BY DEF Analyze
  <2>2. v \in {Unmonitored} \cup 0..LastInstant
    BY <1>1, <1>2, <2>1 DEF Standing, Kept
  <2>. QED  BY <2>1, <2>2 DEF Kept
<1>. QED  BY <1>1, <1>2, <1>3, <1>4, <1>5, <1>6, <1>7, <1>11, <1>12, <1>13, <1>14, <1>15 DEF Kept

\* The types of the histories and of the verdict.
THEOREM ScanTypeCorrect == ScanSpec => []ScanTypeOK
<1>1. ScanInit => Kept
  <2>. SUFFICES ASSUME ScanInit PROVE Kept
    OBVIOUS
  <2>1. \A T : <<>> \in Seq(T) /\ Len(<<>>) = 0
    BY EmptySeq
  <2>2. LastInstant \in Nat /\ MaxLog \in Nat /\ HistorySize \in Nat
    BY ScanAssumption
  <2>. QED  BY <2>1, <2>2 DEF ScanInit, Kept, BusChannels, Clear
<1>2. ScanInv /\ Kept /\ [ScanNext]_scanVars => Kept'
  <2>. SUFFICES ASSUME ScanInv, Kept, [ScanNext]_scanVars PROVE Kept'
    OBVIOUS
  <2>1. CASE UNCHANGED scanVars
    BY <2>1 DEF Kept, scanVars
  <2>2. CASE ScanTick
    <3>1. clock' \in 0..LastInstant
      <4>1. clock \in 0..LastInstant /\ LastInstant \in Nat
        BY ScanAssumption DEF Kept
      <4>2. clock < LastInstant /\ clock' = clock + 1
        BY <2>2 DEF ScanTick
      <4>. QED  BY <4>1, <4>2
    <3>2. UNCHANGED <<calls, failed, ingested, outbound, requests, rates, sizes, channels, struck,
                      monitored, outcome, log>>
      BY <2>2 DEF ScanTick
    <3>. QED  BY <3>1, <3>2 DEF Kept
  <2>3. ASSUME NEW m \in Messages, Analyze(m) PROVE Kept'
    BY <2>3, AnalyzeKept DEF ScanInv, Histories
  <2>4. ASSUME NEW a \in Senders, LiftMonitoring(a) PROVE Kept'
    BY <2>4 DEF LiftMonitoring, Kept
  <2>. QED  BY <2>1, <2>2, <2>3, <2>4 DEF ScanNext
<1>3. ScanInv /\ Kept => ScanTypeOK
  <2>. SUFFICES ASSUME ScanInv, Kept PROVE ScanTypeOK
    OBVIOUS
  <2>1. failed \in [Senders -> 0..MaxLog]
    <3>1. ASSUME NEW a \in Senders PROVE failed[a] \in 0..MaxLog
      <4>1. PICK s : s = Selected(log, By(a))
        OBVIOUS
      <4>2. log \in Seq(Entries) /\ Len(log) <= MaxLog /\ MaxLog \in Nat
        BY ScanAssumption DEF ScanInv, Histories, Kept
      <4>3. s \in Seq(Entries) /\ Len(s) <= Len(log) /\ Len(s) \in Nat /\ Len(log) \in Nat
        BY <4>1, <4>2, SelectedType, LenProperties
      <4>4. failed[a] \in Nat /\ failed[a] <= Len(s)
        BY <4>1 DEF ScanInv, FailuresTracked, Streak
      <4>. QED  BY <4>2, <4>3, <4>4
    <3>. QED  BY <3>1 DEF Kept
  <2>2. \A c \in DOMAIN channels : channels[c] \in Seq(0..LastInstant)
    BY DEF Kept
  <2>3. \A f \in {calls, ingested, requests, struck} : \A a \in Senders : f[a] \in Seq(0..LastInstant)
    BY DEF Kept
  <2>. QED  BY <2>1, <2>2, <2>3 DEF Kept, ScanTypeOK
<1>. QED  BY <1>1, <1>2, <1>3, ScanInvariance, PTL DEF ScanSpec

=============================================================================

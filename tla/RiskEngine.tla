----------------------------- MODULE RiskEngine -----------------------------
(***************************************************************************)
(* The risk engine: simulated telemetry of a bank of machines, an incident *)
(* scenario that anyone may inject or clear, and the scores, levels and    *)
(* alerts of a snapshot.  Every dashboard session and every poll computes  *)
(* a snapshot of the one engine.                                           *)
(*                                                                         *)
(* Numbers are integers: temperatures in tenths of a degree, vibration and *)
(* the risks in hundredths, scores in tenths.  The drift of a machine      *)
(* follows a sine of unknown phase, so it is one of the ends or the middle *)
(* of its range.  What the models make of a reading is at an end of its    *)
(* range, too: everything computed from it grows with it.                  *)
(***************************************************************************)
EXTENDS Integers, Sequences, FiniteSets, Filtering

CONSTANTS
  Bank,           \* MACHINES: a sequence of records id, zone, safeTemp, safeVib
  Elsewhere,      \* the id of a machine that is not in the bank
  Instants        \* bound: the times looked at, in seconds

ASSUME EngineAssumption ==
  /\ Bank \in Seq([id : STRING, zone : STRING, safeTemp : Nat \ {0}, safeVib : Nat \ {0}])
  /\ Instants \subseteq Nat

\* MACHINES: six machines, safe up to 55 to 90 degrees.
ASSUME BankAssumption ==
  Len(Bank) \in 1..6 /\ \A k \in DOMAIN Bank : Bank[k].safeTemp \in 550..900

VARIABLES
  scenario,   \* _sim.active_scenario, scenario_machine and scenario_t
  workers,    \* _sim.machines[id]["workers_present"]
  samples,    \* the readings in _ml.windows[id], as far as they count
  snapshot,   \* what compute_risk returned, until it is sent
  now

riskVars == <<scenario, workers, samples, snapshot, now>>

RestrictedZones == {"A", "C"}
Ids == {Bank[k].id : k \in DOMAIN Bank}
NoScenario == [kind |-> "none", machine |-> Elsewhere, since |-> 0]
NoSnapshot == [at |-> 0, scenario |-> NoScenario, machines |-> <<>>, global |-> 0,
               level |-> "SAFE", emergency |-> FALSE, advice |-> "nominal", named |-> {}]

AtMost(v, top) == IF v > top THEN top ELSE v
Clamp(v, top) == IF v < 0 THEN 0 ELSE AtMost(v, top)

-----------------------------------------------------------------------------
(* Telemetry.                                                              *)

Age(m) == IF scenario.machine = m.id THEN now - scenario.since ELSE 0

\* Mutant: the boost of an overheating machine is capped where a cascade's
\* vibration is.
TempBoostLow(m) ==
  IF scenario.kind = "overheat" THEN AtMost(12 * Age(m), 50)
  ELSE IF scenario.kind = "cascade" THEN AtMost(8 * Age(m), 300) ELSE 0

TempBoost(m) ==
  IF scenario.kind = "overheat" THEN AtMost(12 * Age(m), 400)
  ELSE IF scenario.kind = "cascade" THEN AtMost(8 * Age(m), 300) ELSE 0

VibBoost(m) == IF scenario.kind = "cascade" THEN AtMost(15 * Age(m), 500) ELSE 0

Temperature(m, drift) == (6 * m.safeTemp) \div 10 + 80 * drift + TempBoost(m)
Vibration(m, drift) == m.safeVib \div 2 + 80 * drift + VibBoost(m)

\* Workers come and go; an intrusion puts one there, and leaves it there.
Present(m, move) ==
  \/ workers[m.id] # move
  \/ scenario.kind = "intrusion" /\ scenario.machine = m.id

Presence(move) ==
  [i \in Ids |-> \E k \in DOMAIN Bank : Bank[k].id = i /\ Present(Bank[k], move[k])]

-----------------------------------------------------------------------------
(* Scores of one machine.                                                  *)

FireRisk(m, temp) == Clamp((20000 * temp) \div m.safeTemp - 10000, 10000)
FailureRisk(m, vib) == Clamp((20000 * (IF vib < 0 THEN 0 ELSE vib)) \div m.safeVib - 8000, 10000)
IntrusionRisk(m, present, noise) ==
  IF m.zone \in RestrictedZones /\ present THEN noise ELSE 0
WorkerRisk(fire, present) == AtMost((2 * fire) \div 5 + (IF present THEN 3000 ELSE 0), 10000)

\* The anomaly score of a reading, and its z-score: both are 0 for the
\* first two readings of a machine.
ModelScores(n) == IF n <= 2 THEN {0} ELSE {0, 10000}

\* Mutant: the machine's copy of the thresholds is another than the plant's.
MachineLevelHigher(score) ==
  IF score >= 900 THEN "CRITICAL" ELSE IF score >= 750 THEN "HIGH"
  ELSE IF score >= 500 THEN "MEDIUM" ELSE IF score >= 250 THEN "LOW" ELSE "SAFE"

MachineLevel(score) ==
  IF score >= 850 THEN "CRITICAL" ELSE IF score >= 650 THEN "HIGH"
  ELSE IF score >= 400 THEN "MEDIUM" ELSE IF score >= 200 THEN "LOW" ELSE "SAFE"

\* The four risks with the scores of the two models, in tenths of a percent.
Composite(fire, failure, intrusion, worker, model, present) ==
  LET classical == (40 * fire + 30 * failure + 20 * intrusion + 10 * worker) \div 100
      composite == (60 * classical + 25 * model + 15 * model) \div 100
      amplified == IF present /\ fire > 5000 THEN AtMost((composite * 5) \div 4, 10000) ELSE composite
  IN  (Clamp(amplified, 10000) + 5) \div 10

Warnings(fire, failure, intrusion, worker, model) ==
  {a \in {"overheat", "failure", "intruder", "health", "anomaly", "outlier"} :
     \/ a = "overheat" /\ fire > 6000
     \/ a = "failure" /\ failure > 5500
     \/ a = "intruder" /\ intrusion > 5000
     \/ a = "health" /\ worker > 6000
     \/ a = "anomaly" /\ model > 6000
     \/ a = "outlier" /\ model > 7000}

Score(m, temp, vib, present, noise, model) ==
  LET fire == FireRisk(m, temp)
      failure == FailureRisk(m, vib)
      intrusion == IntrusionRisk(m, present, noise)
      worker == WorkerRisk(fire, present)
      score == Composite(fire, failure, intrusion, worker, model, present)
  IN  [id |-> m.id, score |-> score, level |-> MachineLevel(score),
       alerts |-> Warnings(fire, failure, intrusion, worker, model)]

-----------------------------------------------------------------------------
(* The plant.                                                              *)

GlobalLevel(score) ==
  IF score >= 850 THEN "CRITICAL" ELSE IF score >= 650 THEN "HIGH"
  ELSE IF score >= 400 THEN "MEDIUM" ELSE IF score >= 200 THEN "LOW" ELSE "SAFE"

\* The place of a score in the list sorted by falling scores.
Place(risks, k) ==
  Cardinality({j \in DOMAIN risks :
                 risks[j].score > risks[k].score \/ (risks[j].score = risks[k].score /\ j <= k)})

\* The mean of the scores, the n-th highest with weight 1/n; 60 divides by
\* every n up to 6.
GlobalScore(risks) ==
  LET weights == [k \in DOMAIN risks |-> 60 \div Place(risks, k)]
      total == Total([k \in DOMAIN risks |-> risks[k].score * weights[k]])
  IN  (2 * total + Total(weights)) \div (2 * Total(weights))

\* _recommend: the advice, and the machines it may name.
Advice(score, risks) ==
  LET at(level) == {risks[k].id : k \in {j \in DOMAIN risks : risks[j].level = level}} IN
  IF score >= 900 THEN [advice |-> "lockdown", named |-> at("CRITICAL")]
  ELSE IF score >= 750 THEN [advice |-> "dispatch", named |-> at("CRITICAL") \cup at("HIGH")]
  ELSE [advice |-> IF score >= 500 THEN "monitor" ELSE IF score >= 250 THEN "elevated" ELSE "nominal",
        named |-> {}]

-----------------------------------------------------------------------------
RiskInit ==
  /\ scenario = NoScenario
  /\ workers = [i \in Ids |-> FALSE] /\ samples = [i \in Ids |-> 0]
  /\ snapshot = NoSnapshot
  /\ now = 0

InjectScenario(kind, id) ==
  /\ scenario' = [kind |-> kind, machine |-> id, since |-> now]
  /\ snapshot = NoSnapshot
  /\ UNCHANGED <<workers, samples, snapshot, now>>

ClearScenario ==
  /\ scenario' = NoScenario
  /\ snapshot = NoSnapshot
  /\ UNCHANGED <<workers, samples, snapshot, now>>

Scores(drift, present, noise, model) ==
  [k \in DOMAIN Bank |-> Score(Bank[k], Temperature(Bank[k], drift[k]), Vibration(Bank[k], drift[k]),
                               present[Bank[k].id], noise, model[k])]

Snapshot(risks, global) ==
  LET advice == Advice(global, risks) IN
  [at |-> now, scenario |-> scenario, machines |-> risks, global |-> global,
   level |-> GlobalLevel(global), emergency |-> global >= 850,
   advice |-> advice.advice, named |-> advice.named]

ComputeRisk ==
  /\ snapshot = NoSnapshot
  /\ \E drift \in [DOMAIN Bank -> {-1, 0, 1}], move \in [DOMAIN Bank -> BOOLEAN],
       noise \in {5500, 7500} :
      /\ samples' = [i \in Ids |-> AtMost(samples[i] + 1, 3)]
      /\ workers' = Presence(move)
      /\ \E model \in [DOMAIN Bank -> {0, 10000}] :
           /\ \A k \in DOMAIN Bank : model[k] \in ModelScores(samples'[Bank[k].id])
           /\ \E risks \in {Scores(drift, workers', noise, model)} :
                snapshot' = Snapshot(risks, GlobalScore(risks))
  /\ UNCHANGED <<scenario, now>>

\* It is handed to the session or the poll that asked for it before anything
\* else happens.
Send ==
  /\ snapshot # NoSnapshot
  /\ snapshot' = NoSnapshot
  /\ UNCHANGED <<scenario, workers, samples, now>>

Wait(t) ==
  /\ t > now
  /\ now' = t
  /\ snapshot = NoSnapshot
  /\ UNCHANGED <<scenario, workers, samples, snapshot>>

RiskNext ==
  \/ \E kind \in {"overheat", "intrusion", "cascade"}, id \in Ids \cup {Elsewhere} :
       InjectScenario(kind, id)
  \/ ClearScenario \/ ComputeRisk \/ Send
  \/ \E t \in Instants : Wait(t)

RiskSpec == RiskInit /\ [][RiskNext]_riskVars

-----------------------------------------------------------------------------
\* A snapshot warns of overheating only for the machine that a scenario has
\* been heating, and for that one from 34 seconds on, wherever its drift
\* is: neither does a drift raise the alarm, nor does it hide an incident.
OverheatSeen ==
  \A k \in DOMAIN snapshot.machines :
    LET m == snapshot.machines[k]
        heated == snapshot.scenario.kind \in {"overheat", "cascade"} /\ snapshot.scenario.machine = m.id
        age == snapshot.at - snapshot.scenario.since
    IN  /\ "overheat" \in m.alerts => heated /\ age > 0
        /\ heated /\ age >= 34 => "overheat" \in m.alerts

Rank(level) == CHOOSE n \in 1..5 : <<"SAFE", "LOW", "MEDIUM", "HIGH", "CRITICAL">>[n] = level

\* The plant is never at a higher level than its worst machine, an
\* emergency is a critical level, and advice to shut down or to send
\* somebody names a machine.
PlantFollowsMachines ==
  snapshot.machines # <<>> =>
    /\ \E k \in DOMAIN snapshot.machines : Rank(snapshot.machines[k].level) >= Rank(snapshot.level)
    /\ snapshot.emergency <=> snapshot.level = "CRITICAL"
    /\ snapshot.advice \in {"lockdown", "dispatch"} => snapshot.named # {}

=============================================================================

--------------------------- MODULE AnomalyDetector ---------------------------
(***************************************************************************)
(* The checks of AnomalyDetector on one reading of a machine, given the    *)
(* windows of its previous readings.  Energy, water, vibration and         *)
(* temperature are integers, in tenths of their units; a comparison with a *)
(* mean or a standard deviation is multiplied out, so it is exact.         *)
(***************************************************************************)
EXTENDS Integers, Sequences, SequencesExt, Filtering

CONSTANTS
  VibrationThreshold, TemperatureThreshold,  \* 8.0 mm/s, 95.0 degrees
  EnergySpike, WaterSpike,  \* factors 2.0 and 2.5, in tenths
  Deviation,                \* factor 2.5, in halves
  WindowSize                \* 30 readings

ASSUME DetectorAssumption ==
  {VibrationThreshold, TemperatureThreshold, EnergySpike, WaterSpike, Deviation, WindowSize}
    \subseteq Nat \ {0}

\* With a factor below 1.3, the last of five equal readings after a lower one
\* would be a spike.
ASSUME SpikeAssumption == EnergySpike >= 13 /\ WaterSpike >= 13

Squares(w) == Total([k \in DOMAIN w |-> w[k] * w[k]])

\* value > factor * mean of w.
AboveMean(value, w, factor) == 10 * value * Len(w) > factor * Total(w)

Spikes(value, w, factor) ==
  Len(w) >= 5 /\ Total(w) > 0 /\ AboveMean(value, w, factor)

\* Mutant: the standard deviation may be zero.
DeviatesFromFlat(value, w) ==
  LET n == Len(w)
      gap == n * value - Total(w)
      spread == n * Squares(w) - Total(w) * Total(w)
  IN  n >= 10 /\ 4 * gap * gap >= Deviation * Deviation * spread

\* |value - mean| > Deviation * standard deviation, which must not be zero.
Deviates(value, w) ==
  LET n == Len(w)
      gap == n * value - Total(w)
      spread == n * Squares(w) - Total(w) * Total(w)
  IN  n >= 10 /\ spread > 0 /\ 4 * gap * gap > Deviation * Deviation * spread

\* compute_failure_risk(r) > 0.7: three tenths each for vibration and
\* temperature in proportion to their thresholds, two tenths each for an
\* energy spike and for the failure flag.
AtRisk(r, w) ==
  LET capped(v, threshold) == IF v < 0 THEN 0 ELSE IF v > threshold THEN threshold ELSE v
      spike == Len(w.energy) > 5 /\ Total(w.energy) > 0
               /\ AboveMean(r.energy, w.energy, EnergySpike)
      one == VibrationThreshold * TemperatureThreshold
  IN    3 * capped(r.vibration, VibrationThreshold) * TemperatureThreshold
      + 3 * capped(r.temperature, TemperatureThreshold) * VibrationThreshold
      + (IF spike THEN 2 * one ELSE 0) + (IF r.flag THEN 2 * one ELSE 0)
      > 7 * one

\* The types of the alerts that detect raises.
Detect(r, w) ==
  {a \in {"vibration_threshold", "temperature_threshold", "energy_spike", "water_spike",
          "vibration_deviation", "temperature_deviation", "failure_detected",
          "failure_predicted"} :
     \/ a = "vibration_threshold"   /\ r.vibration > VibrationThreshold
     \/ a = "temperature_threshold" /\ r.temperature > TemperatureThreshold
     \/ a = "energy_spike"          /\ Spikes(r.energy, w.energy, EnergySpike)
     \/ a = "water_spike"           /\ Spikes(r.water, w.water, WaterSpike)
     \/ a = "vibration_deviation"   /\ Deviates(r.vibration, w.vibration)
     \/ a = "temperature_deviation" /\ Deviates(r.temperature, w.temperature)
     \/ a = "failure_detected"      /\ r.flag
     \/ a = "failure_predicted"     /\ AtRisk(r, w)}

\* The windows after a reading: bounded queues of the newest values.
Slide(q, v) ==
  IF Len(q) < WindowSize THEN Append(q, v) ELSE Append(Tail(q), v)

Remember(r, w) ==
  [energy |-> Slide(w.energy, r.energy), water |-> Slide(w.water, r.water),
   vibration |-> Slide(w.vibration, r.vibration),
   temperature |-> Slide(w.temperature, r.temperature)]

NoWindows == [energy |-> <<>>, water |-> <<>>, vibration |-> <<>>, temperature |-> <<>>]

=============================================================================

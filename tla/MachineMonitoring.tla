-------------------------- MODULE MachineMonitoring --------------------------
(***************************************************************************)
(* A simulated machine (simulation_engine.py) and the anomaly detector     *)
(* that watches its readings.  A machine produces, degrades, fails, cools  *)
(* down and recovers; each tick of the simulation gives a reading of where *)
(* it is, and the detector compares the reading with fixed thresholds and  *)
(* with the windows of the machine's last readings.                        *)
(*                                                                         *)
(* The noise of the readings is left out; the intensity of production,     *)
(* which follows shifts, cycles and ramps, changes at any tick.            *)
(***************************************************************************)
EXTENDS AnomalyDetector

CONSTANTS
  BaseEnergy, BaseWater, BaseVibration, BaseTemperature,  \* in tenths
  Intensities,   \* percent of full production
  Intervals,     \* sampling intervals a simulation may be configured with
  Cooldowns,     \* how long a failure may last, in seconds
  MaxShifts      \* bound: changes of the intensity

ASSUME MachineAssumption ==
  /\ {BaseEnergy, BaseWater, BaseVibration, BaseTemperature} \subseteq Nat
  /\ Intensities \subseteq 0..100
  /\ Intervals \subseteq 1..60
  /\ Cooldowns \subseteq 60..300
  /\ MaxShifts \in Nat

VARIABLES
  interval,   \* the configured sampling interval
  running,    \* the run loop goes on
  intensity, shifts,  \* of production, and how often it changed
  machine,    \* the profile of the machine
  reading,    \* its last reading
  windows, detected  \* the detector's windows, and what it said of the reading

machineVars == <<interval, running, intensity, shifts, machine, reading, windows, detected>>

Statuses == {"running", "idle", "failure", "starting"}
Profiles == [status : Statuses, countdown : 0..30, cooldown : 0..300,
             recovering : BOOLEAN, progress : 0..20]
MachineReadings == [status : Statuses, flag : BOOLEAN, energy : Nat, water : Nat,
             vibration : Nat, temperature : Int]
Windows == [energy : Seq(Nat), water : Seq(Nat), vibration : Seq(Nat), temperature : Seq(Int)]

NoReading == [status |-> "idle", flag |-> FALSE, energy |-> 0, water |-> 0,
              vibration |-> 0, temperature |-> 0]

MachineTypeOK ==
  /\ interval \in Intervals /\ running \in BOOLEAN
  /\ intensity \in Intensities /\ shifts \in 0..MaxShifts
  /\ machine \in Profiles /\ reading \in MachineReadings /\ windows \in Windows
  /\ \A k \in DOMAIN windows : Len(windows[k]) <= WindowSize

MachineInit ==
  /\ interval \in Intervals /\ running = TRUE
  /\ intensity \in Intensities /\ shifts = 0
  /\ machine = [status |-> "running", countdown |-> 0, cooldown |-> 0,
                recovering |-> FALSE, progress |-> 0]
  /\ reading = NoReading
  /\ windows = NoWindows /\ detected = {}

---------------------------------------------------------------------------
(* Readings, at intensity i.                                               *)

NormalReading(status, i) ==
  [status |-> status, flag |-> FALSE,
   energy |-> (BaseEnergy * i) \div 100,
   water |-> (BaseWater * i * 8) \div 1000,
   vibration |-> (BaseVibration * (100 + i)) \div 200,
   temperature |-> BaseTemperature + 2 * i]

\* gone: the seconds of the thirty-second degradation that are over.
PreFailureReading(i, gone) ==
  [status |-> "running", flag |-> FALSE,
   energy |-> (BaseEnergy * i * (300 + 8 * gone)) \div 30000,
   water |-> (BaseWater * i * 8) \div 1000,
   vibration |-> (BaseVibration * (30 + 3 * gone)) \div 30,
   temperature |-> BaseTemperature + 250 + 5 * gone]

\* Mutant: the reading carries the profile's flag, which the end of the
\* cooldown has cleared.
FailureReadingOf(status) ==
  [status |-> "failure", flag |-> status = "failure", energy |-> 12, water |-> 2,
   vibration |-> 10, temperature |-> BaseTemperature - 100]

\* The reading of a failed machine, whatever its status is by now.
FailureReading(status) ==
  [status |-> "failure", flag |-> TRUE, energy |-> 12, water |-> 2,
   vibration |-> 10, temperature |-> BaseTemperature - 100]

\* progress is in twentieths.
RecoveryReading(i, progress) ==
  [status |-> "starting", flag |-> FALSE,
   energy |-> (BaseEnergy * i * progress) \div 2000,
   water |-> (BaseWater * i * progress * 8) \div 20000,
   vibration |-> (BaseVibration * (20 + progress)) \div 40,
   temperature |-> BaseTemperature + (150 * progress * i) \div 2000]

---------------------------------------------------------------------------
(* One tick.                                                               *)

\* The agent's pipeline: what the detector says of a reading, and its windows
\* with the reading in them.
Observe(r) ==
  /\ reading' = r
  /\ detected' = Detect(r, windows)
  /\ windows' = Remember(r, windows)

AfterInterval(seconds) == seconds - interval

\* Mutant: the countdown is left where it went.
FailedStillCounting(cooldown) ==
  [machine EXCEPT !.status = "failure", !.cooldown = cooldown,
                  !.countdown = AfterInterval(machine.countdown)]

Failed(cooldown) ==
  [machine EXCEPT !.status = "failure", !.cooldown = cooldown, !.countdown = 0]

\* Degrading: the machine fails when the countdown is over, and its reading is
\* then, for one tick, that of normal production.
Degrade(i) ==
  LET left == AfterInterval(machine.countdown)
  IN  /\ machine.countdown > 0
      /\ IF left <= 0
         THEN \E cooldown \in Cooldowns :
                /\ machine' = Failed(cooldown)
                /\ Observe(NormalReading("failure", i))
         ELSE /\ machine' = [machine EXCEPT !.countdown = left]
              /\ Observe(PreFailureReading(i, 30 - machine.countdown))

\* Mutant: the intervals are expected to fill the cooldown exactly.
CooledDownExactly(left) == left = 0

CooledDown(left) == left <= 0

CoolDown ==
  LET left == AfterInterval(machine.cooldown)
  IN  /\ machine.countdown <= 0 /\ machine.cooldown > 0
      /\ machine' = IF CooledDown(left)
                    THEN [machine EXCEPT !.cooldown = 0, !.recovering = TRUE, !.progress = 0,
                                         !.status = "starting"]
                    ELSE [machine EXCEPT !.cooldown = left]
      /\ Observe(FailureReading(machine'.status))

Recover(i) ==
  LET progress == machine.progress + 1
  IN  /\ machine.countdown <= 0 /\ machine.cooldown <= 0 /\ machine.recovering
      /\ machine' = IF progress >= 20
                    THEN [machine EXCEPT !.progress = 20, !.recovering = FALSE,
                                         !.status = "running"]
                    ELSE [machine EXCEPT !.progress = progress]
      /\ Observe(RecoveryReading(i, progress))

\* Normal production; a failure may announce itself.
Produce(i) ==
  /\ machine.countdown <= 0 /\ machine.cooldown <= 0 /\ ~machine.recovering
  /\ \E fails \in BOOLEAN :
       machine' = [machine EXCEPT !.status = IF i < 15 THEN "idle" ELSE "running",
                                  !.countdown = IF fails THEN 30 ELSE 0]
  /\ Observe(NormalReading(machine'.status, i))

MachineTick ==
  /\ running
  /\ \/ CoolDown
     \/ Degrade(intensity)
     \/ Recover(intensity)
     \/ Produce(intensity)
  /\ UNCHANGED <<interval, running, intensity, shifts>>

\* A shift ends, a production cycle turns, the ramp at the start is over.
Shift ==
  /\ running /\ shifts < MaxShifts
  /\ intensity' \in Intensities \ {intensity}
  /\ shifts' = shifts + 1
  /\ UNCHANGED <<interval, running, machine, reading, windows, detected>>

\* The simulated time is over, or the task is cancelled.
End ==
  /\ running /\ running' = FALSE
  /\ UNCHANGED <<interval, intensity, shifts, machine, reading, windows, detected>>

MachineNext == MachineTick \/ Shift \/ End

\* The run loop sleeps between two ticks and goes on.
MachineSpec == MachineInit /\ [][MachineNext]_machineVars /\ WF_machineVars(MachineTick)

---------------------------------------------------------------------------
(* Properties.                                                             *)

\* A failure does not pass unnoticed: by the time the machine starts again, a
\* failure was detected, although the tick that fails it reports no failure
\* and the cooldown may be over within one tick.
FailureReported ==
  [][(machine.status = "failure" /\ machine'.status # "failure")
       => "failure_detected" \in detected']_machineVars

\* A machine below its thresholds that reads the same all along the windows
\* raises nothing: no spike of a constant, no deviation from a spread of zero.
QuietWhenSteady ==
  (/\ \A k \in DOMAIN windows : \A v \in ToSet(windows[k]) : v = reading[k]
   /\ reading.vibration <= VibrationThreshold
   /\ reading.temperature <= TemperatureThreshold
   /\ ~reading.flag)
  => detected = {}

\* A failed machine is started and then runs again, unless the simulation
\* ends before: neither the cooldown nor the recovery is missed by a step that
\* is not a divisor of it.
RecoveryCompletes ==
  /\ machine.status = "failure" ~> machine.status = "starting" \/ ~running
  /\ machine.status = "starting" ~> machine.status = "running" \/ ~running

=============================================================================

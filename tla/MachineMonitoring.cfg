SPECIFICATION MachineSpec
CONSTANTS
  VibrationThreshold = 80
  TemperatureThreshold = 950
  EnergySpike = 20
  WaterSpike = 25
  Deviation = 5
  WindowSize = 10
  BaseEnergy = 100
  BaseWater = 30
  BaseVibration = 25
  BaseTemperature = 650
  Intensities = {10, 70}
  Intervals = {5, 20, 60}
  Cooldowns = {60, 100}
  MaxShifts = 2
CHECK_DEADLOCK FALSE
INVARIANTS
  QuietWhenSteady
PROPERTIES
  FailureReported
  RecoveryCompletes

------------------------- MODULE MCMachineMonitoring -------------------------
(* MachineMonitoring with values for TLC: the thresholds of config.py, one *)
(* machine profile, a window just long enough for every check.             *)
EXTENDS MachineMonitoring
=============================================================================

------------------------- MODULE MCGuardianPerimeter -------------------------
(* GuardianPerimeter with values for TLC. *)
EXTENDS GuardianPerimeter, TLC

Symmetry == Permutations(Slots)
=============================================================================

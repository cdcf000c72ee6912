---------------------------- MODULE MCRiskEngine ----------------------------
(* RiskEngine with values for TLC: the machines of the bank with the       *)
(* lowest and the highest safe temperature, one in a restricted zone.      *)
EXTENDS RiskEngine

MCBank ==
  <<[id |-> "CNV-003", zone |-> "B", safeTemp |-> 550, safeVib |-> 300],
   [id |-> "WLD-005", zone |-> "C", safeTemp |-> 900, safeVib |-> 550]>>
MCElsewhere == "elsewhere"
MCInstants == {0, 10, 34, 44, 68}
=============================================================================

------------------------ MODULE MCSecurityGuardian ------------------------
(* SecurityGuardian on a small instance.                                   *)
EXTENDS SecurityGuardian, TLC

CONSTANTS a1, a2, r1, r2, r3

Symmetry == Permutations(Agents) \cup Permutations(Requests)

\* With the rethinking's: one threat that counts as a strike and pages, one
\* that only counts as a strike, one that does neither.
MCDetectorThreats ==
  {[type |-> "INJECTION", severity |-> "CRITICAL", action |-> "BLOCK"],
   [type |-> "INJECTION", severity |-> "LOW", action |-> "ALERT"]}

MCRethinkThreats ==
  {[type |-> RethinkType, severity |-> "HIGH", action |-> "ALERT"]}

MCChannels  == {"slack", "pagerduty"}
MCPagerDuty == {"pagerduty"}

===========================================================================

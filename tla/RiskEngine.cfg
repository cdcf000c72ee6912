SPECIFICATION RiskSpec
CONSTANTS
  Bank <- MCBank
  Elsewhere <- MCElsewhere
  Instants <- MCInstants
INVARIANTS
  OverheatSeen
  PlantFollowsMachines

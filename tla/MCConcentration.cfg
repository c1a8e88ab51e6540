CONSTANTS
  RouteWindow = 4
  Route = "BTD"
  MaxEvidence = 5
  Prices <- MCPrices
  Frames <- MCFrames
  Rule <- MCRule
  WiderRule <- MCWiderRule
  ChronologicalRule <- MCChronologicalRule
SPECIFICATION EvidenceSpec
INVARIANTS VerdictIsExhaustive SeedIsTightest CoreIsMaximalInterval ScenariosAreOrdered
CHECK_DEADLOCK FALSE

CONSTANTS
  RouteWindow = 3
  NoMRZ = NoMRZ
  Observation <- MCObservation
  Promotions <- MCPromotions
  Evaluate <- MCEvaluate
SPECIFICATION Spec
INVARIANTS HistoryIsAChain SuccessorIsExternal
PROPERTY EnvelopeHolds
CHECK_DEADLOCK FALSE

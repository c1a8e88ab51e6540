CONSTANTS
  RouteWindow = 3
  NoMRZ = NoMRZ
  NoConfirmation = NoConfirmation
  NoCandidate = NoCandidate
  Observation <- MCObservation
  Promotions = {}
  Evaluate <- MCEvaluate
  NearMisses <- MCNearMisses
SPECIFICATION StoreSpec
INVARIANTS PromotionKeepsAuthority
PROPERTIES InOrderStepsDeliver LateEventsKeepThePast PromotionTakesEffect ConfirmationIsRetained
CHECK_DEADLOCK FALSE

CONSTANTS
  RouteWindow = 20
  NoMRZ = NoMRZ
  NoConfirmation = NoConfirmation
  NoCandidate = NoCandidate
  Observation <- MCObservation
  Promotions = {}
  Evaluate <- MCEvaluate
  NearMisses <- MCNearMisses
  Deployments <- MCDeployments
  Late <- MCLate
  Repeats <- MCRepeats
  MaxFaults = 1
  MaxPasses = 2
SPECIFICATION PressureSpec
INVARIANTS PersistedMatchesEvidence RepeatedAlarmsAreReal DeploymentIsQuiet GivingUpIsSafe
PROPERTIES PressureCatchesUp
CHECK_DEADLOCK FALSE

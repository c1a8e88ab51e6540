CONSTANTS
  RouteWindow = 3
  NoMRZ = NoMRZ
  NoConfirmation = NoConfirmation
  NoCandidate = NoCandidate
  Observation <- MCObservation
  Promotions = {}
  Evaluate <- MCEvaluate
  NearMisses <- MCNearMisses
  Deployments <- MCDeployments
  Late = {}
  MaxFaults = 2
SPECIFICATION OutboxSpec
INVARIANTS AnnouncedOnce DeploymentIsSilent NothingIsForgotten
PROPERTY ScheduledAreAnnounced
CHECK_DEADLOCK FALSE

CONSTANTS
  x = x
  y = y
  Symbol = {x, y}
  Route = {"BTD", "STR"}
  RouteWindow = 3
  NoMRZ = NoMRZ
  Observation <- MCObservation
  Arrivals <- MCArrivals
  Activates <- MCActivates
  NearMisses <- MCNearMisses
SPECIFICATION Spec
INVARIANTS OpenEpisodesAreListed
PROPERTIES MembershipIsOneEpisode EntriesAreAnnounced
CHECK_DEADLOCK FALSE

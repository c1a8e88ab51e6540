CONSTANTS
  x = x
  y = y
  Symbol = {x, y}
  Route = {"BTD", "STR"}
  RouteWindow = 3
  NoMRZ = NoMRZ
  Observation <- MCObservation
  Arrivals <- MCArrivals
  Activates <- MCActivates
  NearMisses <- MCNearMisses
SPECIFICATION FreshSpec
INVARIANT PromotionClosesEpisodes
CHECK_DEADLOCK FALSE

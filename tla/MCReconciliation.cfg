CONSTANTS
  Symbols <- MCSymbols
  Rank <- MCRank
  Events <- MCEvents
  Rules = {1, 2}
  Replay <- MCReplay
  Deployed <- MCDeployed
  Tools = {t1, t2}
  Requests <- MCRequests
  NoMRZ = NoMRZ
  NoPlan = NoPlan
  Free = Free
SPECIFICATION Spec
INVARIANTS RefusalsHaveACause
PROPERTIES AppliedIsInStep OnlyReviewedChanges AppliesEnd
CHECK_DEADLOCK FALSE

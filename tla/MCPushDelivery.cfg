CONSTANTS
  Notifications = 1
  Subscriptions = 1
  Keys = {k1, k2}
  Pass = {w1, w2, w3}
  MaxAttempts = 3
  MaxAbandoned = 2
SPECIFICATION FairSpec
INVARIANTS ClaimsAreExclusive PushesAreAttempts
PROPERTIES KeepsContract ExpiryIsPermanent DeliveriesSettle

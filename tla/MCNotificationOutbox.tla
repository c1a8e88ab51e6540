------------------------- MODULE MCNotificationOutbox -------------------------
(* The rule of MCSymbolStore.  BTD 10, 11 activate; STR 24, 26 migrate     *)
(* across EQM.  BTD 4 and 10 nearly miss and can be promoted: over STR 22, *)
(* 24, 26, which lie together below the EQM of the wider frame, the        *)
(* promotion migrates at once.                                             *)
EXTENDS NotificationOutbox

N == INSTANCE NearMiss

O(id, route, price) ==
  [id |-> id, at |-> id, route |-> route, price |-> price,
   tick |-> 1, low |-> 0, high |-> IF id \in {5, 6} THEN 49 ELSE 40]

MCObservation ==
  {O(1, "BTD", 10), O(2, "BTD", 11), O(3, "BTD", 4),
   O(4, "STR", 22), O(5, "STR", 24), O(6, "STR", 26)}

MCDeployments == {{}, {O(1, "BTD", 10), O(2, "BTD", 11)}}

MCRule == [algorithm |-> "A", minimum |-> 2, num |-> 1, den |-> 10]
MCEvaluate(S, route) == N!EvaluateConcentration(S, route, MCRule)
MCNearMisses(S) == N!CurrentNearMisses(S, MCRule)
==============================================================================

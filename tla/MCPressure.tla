------------------------------ MODULE MCPressure ------------------------------
(* The rule of MCSymbolStore.  BTD 10, 11 activate, with the envelope      *)
(* 8..13; with one of the two, BTD 18 is a near miss that can be promoted  *)
(* and BTD 10, arriving late, puts an activation before that promotion.    *)
(* BTD 18, 34 and 38 press up, STR 3 down; none can found a successor.     *)
EXTENDS Pressure

N == INSTANCE NearMiss

O(id, route, price) ==
  [id |-> id, at |-> id, route |-> route, price |-> price,
   tick |-> 1, low |-> 0, high |-> 40]

MCObservation ==
  {O(1, "BTD", 10), O(2, "BTD", 11), O(3, "BTD", 18), O(4, "BTD", 34),
   O(5, "STR", 3), O(6, "BTD", 38)}

MCDeployments ==
  {{}, {O(1, "BTD", 10), O(2, "BTD", 11), O(3, "BTD", 18), O(4, "BTD", 34)}}

MCLate == {O(1, "BTD", 10)}
MCRepeats == {O(4, "BTD", 34)}

MCRule == [algorithm |-> "A", minimum |-> 2, num |-> 1, den |-> 10]
MCEvaluate(S, route) == N!EvaluateConcentration(S, route, MCRule)
MCNearMisses(S) == N!CurrentNearMisses(S, MCRule)
==============================================================================

---------------------------- MODULE MCStateEngine ----------------------------
(* Two observations cluster; an allowance of a tenth of a 40-wide frame    *)
(* admits a span of 4, and envelopes reach at most 8 beyond a core, so     *)
(* evidence at 4, 10, 18 (BTD) and 30, 34 (STR) migrates down, up, across  *)
(* EQM and back.  Each slot offers two observations and may be skipped.    *)
EXTENDS StateEngine

C == INSTANCE Concentration

O(id, route, price) ==
  [id |-> id, at |-> (id + 1) \div 2, route |-> route, price |-> price,
   tick |-> 1, low |-> 0, high |-> 40]

MCObservation ==
  {O(1, "BTD", 10), O(2, "STR", 30), O(3, "BTD", 11), O(4, "STR", 31),
   O(5, "BTD", 4), O(6, "STR", 30), O(7, "BTD", 5), O(8, "STR", 23),
   O(9, "BTD", 10), O(10, "STR", 22), O(11, "BTD", 12), O(12, "STR", 30),
   O(13, "BTD", 18), O(14, "BTD", 20)}

MCRule == [algorithm |-> "A", minimum |-> 2, num |-> 1, den |-> 10]

MCEvaluate(S, route) == C!EvaluateConcentration(S, route, MCRule)

\* Near misses of the rule above: a pair of observations with a span of 6.
MCPromotions ==
  {[owner |-> "BTD", lower |-> 4, upper |-> 10, location |-> "deep_discount",
    confirming |-> 2, supporting |-> 2, trigger |-> 5,
    source |-> "OPERATOR_PROMOTED", tick |-> 1]}
==============================================================================

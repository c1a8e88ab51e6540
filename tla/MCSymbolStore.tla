---------------------------- MODULE MCSymbolStore -----------------------------
(* Two observations cluster within 4 of a 40-wide frame and nearly miss    *)
(* within 8.  BTD 4 and 10 can be promoted; BTD 5 between them would have  *)
(* activated; STR 21, 22 confirm inside the promoted envelope (-8..22);    *)
(* STR 24, 26 migrate beyond it, BTD 15, 19 back.  BTD 21, arriving late   *)
(* between these two, withdraws the authority they had activated.  STR 17  *)
(* and 22 miss narrowly, but below EQM.  The frame of STR 24, 26 is wider: *)
(* with STR 22 their cluster lies below EQM and activates nothing, yet a   *)
(* promotion then migrates at once to the two that are beyond it.          *)
EXTENDS SymbolStore

N == INSTANCE NearMiss

O(id, at, route, price) ==
  [id |-> id, at |-> at, route |-> route, price |-> price,
   tick |-> 1, low |-> 0, high |-> IF id \in {6, 7} THEN 49 ELSE 40]

MCObservation ==
  {O(1, 1, "BTD", 4), O(2, 2, "BTD", 5), O(3, 2, "BTD", 10), O(4, 3, "STR", 21),
   O(5, 4, "STR", 22), O(6, 5, "STR", 24), O(7, 6, "STR", 26),
   O(8, 7, "BTD", 15), O(9, 8, "BTD", 21), O(10, 9, "BTD", 19),
   O(11, 10, "STR", 17)}

MCRule == [algorithm |-> "A", minimum |-> 2, num |-> 1, den |-> 10]

MCEvaluate(S, route) == N!EvaluateConcentration(S, route, MCRule)
MCNearMisses(S) == N!CurrentNearMisses(S, MCRule)
==============================================================================

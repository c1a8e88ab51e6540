--------------------------- MODULE MCConcentration ---------------------------
(* A window of four, groups of three, an allowance of a quarter of the     *)
(* IPDA width: the narrow frame allows a span of 2, the wide one of 4, so  *)
(* evidence concentrates, disperses, ages out and straddles EQM.           *)
EXTENDS ConcentrationSpec

MCPrices == {0, 1, 3, 4}
MCFrames == {<<0, 8>>, <<0, 16>>}
MCRule == [algorithm |-> "A", minimum |-> 3, num |-> 1, den |-> 4]
MCWiderRule == [MCRule EXCEPT !.num = 2]
MCChronologicalRule == [MCRule EXCEPT !.algorithm = "B"]

==============================================================================

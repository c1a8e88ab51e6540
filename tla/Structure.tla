------------------------------ MODULE Structure ------------------------------
(***************************************************************************)
(* Structural geometry of the 20-week IPDA range (app/structure.py): where *)
(* a price stands between the range's low and high, and which locations    *)
(* each route accepts.                                                     *)
(*                                                                         *)
(* Prices are integers on a tick grid.  The engine classifies midpoints of *)
(* two prices, so every operator takes TWICE the value it classifies and   *)
(* compares with the geometry scaled accordingly: no division, no rounding *)
(* (the code computes with exact decimals).                                *)
(***************************************************************************)
EXTENDS Integers

Routes == {"BTD", "STR"}

DiscountLocations == {"deep_discount", "shallow_discount"}
PremiumLocations  == {"shallow_premium", "deep_premium"}
PriceLocations    == DiscountLocations \cup PremiumLocations
                        \cup {"at_eqm", "below_ipda_range", "above_ipda_range"}

\* The answer of classify_structural_location when the route refuses a location.
NoLocation == "none"

ClassifyIpdaLocation(twice, high, low) ==
  CASE twice < 2 * low                -> "below_ipda_range"
    [] /\ twice >= 2 * low
       /\ 2 * twice < 3 * low + high  -> "deep_discount"
    [] /\ 2 * twice >= 3 * low + high
       /\ twice < low + high          -> "shallow_discount"
    [] twice = low + high             -> "at_eqm"
    [] /\ twice > low + high
       /\ 2 * twice <= low + 3 * high -> "shallow_premium"
    [] /\ 2 * twice > low + 3 * high
       /\ twice <= 2 * high           -> "deep_premium"
    [] twice > 2 * high               -> "above_ipda_range"

RouteLocations(route) ==
  IF route = "BTD" THEN DiscountLocations ELSE PremiumLocations

ClassifyStructuralLocation(route, twice, high, low) ==
  LET location == ClassifyIpdaLocation(twice, high, low)
  IN  IF location \in RouteLocations(route) THEN location ELSE NoLocation

StructurallyValid(route, twice, high, low) ==
  ClassifyStructuralLocation(route, twice, high, low) # NoLocation

IpdaWidth(o) == o.high - o.low
==============================================================================

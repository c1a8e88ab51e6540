------------------------------- MODULE NearMiss -------------------------------
(***************************************************************************)
(* Current production near misses (app/activation_feasibility.py): the     *)
(* newest seed of a route that misses the allowance by at most a factor of *)
(* two, on a route that never qualified.  It is what an operator may       *)
(* promote.                                                                *)
(***************************************************************************)
EXTENDS Concentration

UpTo(S, o) == {p \in S : ~Before(o, p)}

\* evaluate_sequence's first_qualification, on the route of S.
EverQualified(S, route, rule) ==
  \E o \in S : EvaluateConcentration(UpTo(S, o), route, rule).result = "QUALIFIES"

\* production_near_misses: over the allowance, at most twice the allowance.
MissesNarrowly(e, width, rule) ==
  /\ e.result = "TOO_DISPERSED"
  /\ e.structural
  /\ WithinAllowance(e.seedUpper - e.seedLower, 2 * width, rule)

(* The candidates of a symbol without authority: one per route at most.    *)
(* candidate_identity hashes route, bounds, evidence, newest observation   *)
(* and time, so equal records have equal identities.                       *)
CurrentNearMisses(observations, rule) ==
  LET group(route) == {o \in observations : o.route = route}
      current(route) == EvaluateConcentration(group(route), route, rule)
      near(route) == /\ Cardinality(group(route)) >= rule.minimum
                     /\ ~EverQualified(group(route), route, rule)
                     /\ MissesNarrowly(current(route), IpdaWidth(NewestOf(group(route))), rule)
  IN  {[route |-> r, evidence |-> current(r).seed, newest |-> NewestOf(group(r)),
        lower |-> current(r).seedLower, upper |-> current(r).seedUpper] :
         r \in {route \in Routes : near(route)}}
==============================================================================

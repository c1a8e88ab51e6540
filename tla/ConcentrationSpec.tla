-------------------------- MODULE ConcentrationSpec --------------------------
(***************************************************************************)
(* The evidence of one route, growing by one observation at a time, and    *)
(* what the concentration algorithm answers after each: its answers are    *)
(* compared with definitions that do not sort, scan or expand anything.    *)
(***************************************************************************)
EXTENDS Concentration

CONSTANTS Route,          \* the route whose evidence grows
          Prices,         \* observation prices
          Frames,         \* pairs <<low, high>> of IPDA frames
          MaxEvidence,    \* bound: observations delivered
          Rule,           \* the production rule
          WiderRule,      \* the same rule with a larger allowance
          ChronologicalRule \* the same rule with algorithm B

IsAllowance(rule) == rule.num \in Nat /\ rule.den \in Nat \ {0}

ASSUME RuleAssumption ==
  /\ Rule.minimum \in Nat \ {0} /\ WiderRule.minimum = Rule.minimum
  /\ IsAllowance(Rule) /\ IsAllowance(WiderRule)
  /\ Rule.num * WiderRule.den <= WiderRule.num * Rule.den
  /\ Rule.algorithm = "A" /\ WiderRule.algorithm = "A"
  /\ ChronologicalRule = [Rule EXCEPT !.algorithm = "B"]

ASSUME EvidenceAssumption ==
  /\ Route \in Routes /\ Prices \subseteq Int
  /\ \A f \in Frames : f[1] \in Int /\ f[2] \in Int /\ f[1] < f[2]

VARIABLE evidence

EvidenceInit == evidence = {}

\* The next observation of the route, later than all before it.
Arrive(price, frame) ==
  LET n == Cardinality(evidence) + 1
  IN  /\ n <= MaxEvidence
      /\ evidence' = evidence \cup
           {[id |-> n, at |-> n, route |-> Route, price |-> price, tick |-> 1,
             low |-> frame[1], high |-> frame[2]]}

EvidenceNext == \E price \in Prices, frame \in Frames : Arrive(price, frame)

EvidenceSpec == EvidenceInit /\ [][EvidenceNext]_evidence
------------------------------------------------------------------------------
Retained   == LatestRouteWindow(evidence)
Incoming   == NewestOf(evidence)
Evaluation == EvaluateConcentration(evidence, Route, Rule)

\* The span of a set of observations, without sorting it.
PriceSpan(T) ==
  LET p == {o.price : o \in T}
  IN  (CHOOSE x \in p : \A y \in p : x >= y) - (CHOOSE x \in p : \A y \in p : x <= y)

\* Every group of the required size that the newest observation belongs to.
Groups(minimum) ==
  {T \in SUBSET Retained : Cardinality(T) = minimum /\ Incoming \in T}

Concentrated(result) == result \in {"QUALIFIES", "STRUCTURALLY_INELIGIBLE"}

(* The verdict of evaluate_concentration is the one the README states: the *)
(* evidence is concentrated exactly when SOME group of at least `minimum`  *)
(* retained observations, the newest among them, lies within the           *)
(* allowance; scanning contiguous price windows misses none.               *)
VerdictIsExhaustive ==
  evidence # {} =>
    Concentrated(Evaluation.result) <=>
      \E T \in Groups(Rule.minimum) :
        WithinAllowance(PriceSpan(T), IpdaWidth(Incoming), Rule)

(* _select_seed_and_cluster: no group with the newest observation is       *)
(* tighter than the chosen seed, whose span is the near-miss allowance the *)
(* operator sees.                                                          *)
SeedIsTightest ==
  Evaluation.result # "INSUFFICIENT_OBSERVATIONS" =>
    /\ Evaluation.seed \in Groups(Rule.minimum)
    /\ \A T \in Groups(Rule.minimum) : PriceSpan(Evaluation.seed) <= PriceSpan(T)

(* expand_selected_seed: the core is every retained observation between    *)
(* its bounds, contains the seed and cannot take in one observation more.  *)
CoreIsMaximalInterval ==
  Concentrated(Evaluation.result) =>
    /\ Evaluation.members = {o \in Retained :
                               o.price >= Evaluation.lower /\ o.price <= Evaluation.upper}
    /\ Evaluation.seed \subseteq Evaluation.members
    /\ WithinAllowance(PriceSpan(Evaluation.members), IpdaWidth(Incoming), Rule)
    /\ \A o \in Retained \ Evaluation.members :
         ~WithinAllowance(PriceSpan(Evaluation.members \cup {o}), IpdaWidth(Incoming), Rule)

(* The scenarios the feasibility report compares are ordered: a larger     *)
(* allowance never loses concentration, and the chronological algorithm B  *)
(* never finds concentration that algorithm A misses.                      *)
ScenariosAreOrdered ==
  evidence # {} =>
    LET wider  == EvaluateConcentration(evidence, Route, WiderRule)
        chrono == EvaluateConcentration(evidence, Route, ChronologicalRule)
    IN  /\ Concentrated(Evaluation.result) => Concentrated(wider.result)
        /\ Concentrated(chrono.result) => Concentrated(Evaluation.result)
==============================================================================

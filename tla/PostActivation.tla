---------------------------- MODULE PostActivation ----------------------------
(***************************************************************************)
(* What observations say about the authority that was active before them   *)
(* (app/mrz_robustness.py): where they stand relative to its core and      *)
(* migration envelope, whether they press it up or down, and whether they  *)
(* could found a successor.  It is shown to the operator and its direction *)
(* is what Pressure persists and announces.  Labels, percentages and the   *)
(* median displacement are display and left out.                           *)
(***************************************************************************)
EXTENDS StateEngine
LOCAL INSTANCE SequencesExt
LOCAL INSTANCE FiniteSetsExt

MeaningfulOutside == 2       \* MIN_MEANINGFUL_OUTSIDE_ENVELOPE_OBSERVATIONS
DirectionalLead == 2         \* MIN_DIRECTIONAL_ENVELOPE_LEAD
ShareNumerator == 3          \* DIRECTIONAL_ENVELOPE_SHARE_NUMERATOR
ShareDenominator == 5        \* DIRECTIONAL_ENVELOPE_SHARE_DENOMINATOR
RecentWindow == 4            \* CURRENT_PRESSURE_RECENT_WINDOW
ConfirmationCount == 3       \* CURRENT_PRESSURE_CONFIRMATION_COUNT

Directions == {"NEUTRAL", "UP", "DOWN"}

Reading(status, direction) == [status |-> status, direction |-> direction]

\* Later than the activation's observation in the replay order.
PostActivationObservations(m, S) ==
  {o \in S : \E a \in S : a.id = m.trigger /\ Before(a, o)}

MateriallyDominates(dominant, other) ==
  /\ dominant - other >= DirectionalLead
  /\ dominant * ShareDenominator >= (dominant + other) * ShareNumerator

\* The cumulative direction, from the counts of a lifecycle.
ClassifyPostActivationState(total, above, below) ==
  IF total = 0 THEN Reading("NO_EVIDENCE", "NEUTRAL")
  ELSE IF above + below < MeaningfulOutside THEN Reading("STABLE", "NEUTRAL")
  ELSE IF MateriallyDominates(above, below) THEN Reading("UNDER_PRESSURE", "UP")
  ELSE IF MateriallyDominates(below, above) THEN Reading("UNDER_PRESSURE", "DOWN")
  ELSE Reading("STABLE", "NEUTRAL")

\* The regime of the latest four directions of a sequence.
ClassifyCurrentPressure(directions) ==
  LET recent == SubSeq(directions,
                       Max({1, Len(directions) - RecentWindow + 1}), Len(directions))
      count(side) == Cardinality({i \in DOMAIN recent : recent[i] = side})
  IN  CASE recent = <<>> -> Reading("NO_EVIDENCE", "NEUTRAL")
        [] recent # <<>> /\ Len(recent) < ConfirmationCount ->
             Reading("INSUFFICIENT_EVIDENCE", "NEUTRAL")
        [] count("UP") >= ConfirmationCount -> Reading("UNDER_PRESSURE", "UP")
        [] count("DOWN") >= ConfirmationCount -> Reading("UNDER_PRESSURE", "DOWN")
        [] OTHER -> Reading("STABLE", "NEUTRAL")

\* The current regime and the time since which its direction holds, 0 when
\* there has been none but neutral.
CurrentPressure(m, post) ==
  LET outside == SetToSortSeq({o \in post : ExternalSide(m, o.price) # "NONE"}, Before)
      sides == [i \in DOMAIN outside |-> ExternalSide(m, outside[i].price)]
      direction(i) == ClassifyCurrentPressure(SubSeq(sides, 1, i)).direction
      turns == {i \in DOMAIN outside : direction(i) # direction(i - 1)}
  IN  [reading |-> ClassifyCurrentPressure(sides),
       since |-> IF turns = {} THEN 0 ELSE outside[Max(turns)].at]

\* Whether all evidence has kept the owner's route and structure.
RouteIntegrity(m, post) ==
  IF post = {} THEN "NO_POST_ACTIVATION_EVIDENCE"
  ELSE IF \A o \in post : /\ o.route = m.owner
                          /\ StructurallyValid(m.owner, 2 * o.price, o.high, o.low)
  THEN "MAINTAINED"
  ELSE "MIXED"

\* The external pools, one per route and side, without the migration gates.
DiagnosticSuccessorGroups(m, post) ==
  LET pool(route, side) ==
        {o \in LatestRouteWindow({p \in post : p.route = route}) :
           ExternalSide(m, o.price) = side}
      group(r, s) ==
        [route |-> r, side |-> s, pool |-> pool(r, s), evaluation |-> Evaluate(pool(r, s), r)]
  IN  {group(g[1], g[2]) : g \in {h \in Routes \X {"UP", "DOWN"} : pool(h[1], h[2]) # {}}}

LatestGroup(groups) ==
  CHOOSE g \in groups : \A h \in groups \ {g} : Before(NewestOf(h.pool), NewestOf(g.pool))

Qualifying(groups) == {g \in groups : g.evaluation.result = "QUALIFIES"}

SuccessorStatus(m, post, groups) ==
  IF Qualifying(groups) # {} THEN "SUCCESSOR_CANDIDATE"
  ELSE IF \E g \in groups : g.evaluation.result # "INSUFFICIENT_OBSERVATIONS"
  THEN "NO_QUALIFYING_SUCCESSOR"
  ELSE IF \E o \in post : ExternalSide(m, o.price) # "NONE" THEN "EXTERNAL_OBSERVATIONS"
  ELSE "NO_SUCCESSOR_CANDIDATE"

\* build_successor_mrz on the candidate's newest member: would it be accepted.
OperationalMigrationEligible(m, groups) ==
  LET e == LatestGroup(Qualifying(groups)).evaluation
      confirming == NewestOf(e.members)
  IN  IF Qualifying(groups) = {} THEN "NOT_ASSESSED"
      ELSE IF QualifiesFor(e, confirming) /\ WhollyExternal(m, e, confirming)
      THEN "SATISFIED" ELSE "NOT_SATISFIED"

\* active_mrz_report: the part that depends on the evidence.
ReportOf(m, post, groups) ==
  LET count(P(_)) == Cardinality({o \in post : P(o)})
      aboveEnvelope == count(LAMBDA o : ExternalSide(m, o.price) = "UP")
      belowEnvelope == count(LAMBDA o : ExternalSide(m, o.price) = "DOWN")
  IN  [total |-> Cardinality(post),
       above |-> count(LAMBDA o : o.price > m.upper),
       inside |-> count(LAMBDA o : m.lower <= o.price /\ o.price <= m.upper),
       below |-> count(LAMBDA o : o.price < m.lower),
       upperTests |-> count(LAMBDA o : o.price >= m.upper),
       lowerTests |-> count(LAMBDA o : o.price <= m.lower),
       aboveEnvelope |-> aboveEnvelope,
       belowEnvelope |-> belowEnvelope,
       pressure |-> ClassifyPostActivationState(Cardinality(post), aboveEnvelope, belowEnvelope),
       current |-> CurrentPressure(m, post),
       integrity |-> RouteIntegrity(m, post),
       successor |-> SuccessorStatus(m, post, groups),
       eligible |-> OperationalMigrationEligible(m, groups)]

ActiveMRZReport(m, S) ==
  LET post == PostActivationObservations(m, S)
  IN  ReportOf(m, post, DiagnosticSuccessorGroups(m, post))
==============================================================================

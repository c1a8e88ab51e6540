---------------------------- MODULE Concentration ----------------------------
(***************************************************************************)
(* The concentration algorithm (app/concentration.py): from the newest     *)
(* ROUTE_OBSERVATION_WINDOW observations of one route, choose the tightest *)
(* contiguous price seed that contains the newest observation, expand it   *)
(* greedily while it stays within the allowance, classify the result.      *)
(*                                                                         *)
(* A rule is [algorithm, minimum, num, den]: num/den is the allowance as a *)
(* fraction of the IPDA width.  Production is ["A", 4, 1, 100].            *)
(***************************************************************************)
EXTENDS Observations, Sequences, SequencesExt

\* Strictly earlier by (price, order key).
Cheaper(a, b) == a.price < b.price \/ (a.price = b.price /\ Before(a, b))

\* Each observation where as many are cheaper as stand before it.  (TLC
\* evaluates a concatenation once, a function anew for each place.)
PriceSorted(S) ==
  <<>> \o [i \in 1..Cardinality(S) |->
            CHOOSE o \in S : Cardinality({p \in S : Cheaper(p, o)}) = i - 1]

SpanOf(sorted, left, right) == sorted[right].price - sorted[left].price

(* Seed selection.  Algorithm A compares (span, lower, upper, order keys,  *)
(* start); in a price-sorted sequence the smallest start has the smallest  *)
(* of the last four, so (span, start) decides alike.                       *)
\* Mutant of the next definition: windows without the newest observation are
\* inspected too.
MutNewestNotRequired(sorted, newest, minimum) == 1..(Len(sorted) - minimum + 1)

SeedStarts(sorted, newest, minimum) ==
  {s \in 1..(Len(sorted) - minimum + 1) :
     \E i \in s..(s + minimum - 1) : sorted[i] = newest}

\* Mutant of the next definition: the first window instead of the tightest.
MutFirstSeed(sorted, newest, minimum) ==
  LET start == CHOOSE s \in SeedStarts(sorted, newest, minimum) :
                 \A t \in SeedStarts(sorted, newest, minimum) : s <= t
  IN  start..(start + minimum - 1)

TightestSeed(sorted, newest, minimum) ==
  LET starts == SeedStarts(sorted, newest, minimum)
      span(s) == SpanOf(sorted, s, s + minimum - 1)
      best == CHOOSE s \in starts : \A t \in starts :
                \/ span(s) < span(t)
                \/ span(s) = span(t) /\ s <= t
  IN  best..(best + minimum - 1)

\* Algorithm B of the feasibility report: the latest observations, wherever
\* their prices stand.
ChronologicalSeed(sorted, minimum) ==
  {i \in 1..Len(sorted) :
     Cardinality({j \in 1..Len(sorted) : Before(sorted[i], sorted[j])}) < minimum}

SeedPositions(sorted, newest, rule) ==
  IF rule.algorithm = "A"
  THEN TightestSeed(sorted, newest, rule.minimum)
  ELSE ChronologicalSeed(sorted, rule.minimum)

WithinAllowance(span, width, rule) == span * rule.den <= rule.num * width

\* Mutant of the next definition: the seed grows upwards only.
MutGrowRightOnly(sorted, left, right, width, rule) ==
  LET grow[r \in 1..Len(sorted)] ==
        IF /\ r < Len(sorted)
           /\ WithinAllowance(SpanOf(sorted, left, r + 1), width, rule)
        THEN grow[r + 1] ELSE r
  IN  <<left, grow[right]>>

(* expand_selected_seed: grow by the neighbour that gives the smaller      *)
(* span, the left one on a tie, until neither fits.                        *)
ExpandedBounds(sorted, left, right, width, rule) ==
  LET fits(l, r) == /\ l >= 1 /\ r <= Len(sorted)
                    /\ WithinAllowance(SpanOf(sorted, l, r), width, rule)
      leftFirst(l, r) == /\ fits(l - 1, r)
                         /\ fits(l, r + 1) =>
                              SpanOf(sorted, l - 1, r) <= SpanOf(sorted, l, r + 1)
      grow[b \in (1..Len(sorted)) \X (1..Len(sorted))] ==
        IF leftFirst(b[1], b[2]) THEN grow[<<b[1] - 1, b[2]>>]
        ELSE IF fits(b[1], b[2] + 1) THEN grow[<<b[1], b[2] + 1>>]
        ELSE b
  IN  grow[<<left, right>>]

(* The evaluation: its result, the seed (what diagnostics and near misses  *)
(* report) and the cluster's bounds and members (what an MRZ is built      *)
(* from, the seed's when it is too dispersed).                             *)
NoEvaluation ==
  [result |-> "INSUFFICIENT_OBSERVATIONS", seed |-> {}, seedLower |-> 0,
   seedUpper |-> 0, members |-> {}, lower |-> 0, upper |-> 0,
   structural |-> FALSE]

\* The verdict on a seed, from the positions of its ends and of the core's.
Evaluated(sorted, newest, seed, ends, passes, core, route) ==
  LET valid == StructurallyValid(route, sorted[core[1]].price + sorted[core[2]].price,
                                 newest.high, newest.low)
  IN  [result    |-> IF ~passes THEN "TOO_DISPERSED"
                     ELSE IF valid THEN "QUALIFIES"
                     ELSE "STRUCTURALLY_INELIGIBLE",
       seed      |-> {sorted[i] : i \in seed},
       seedLower |-> sorted[ends[1]].price,
       seedUpper |-> sorted[ends[2]].price,
       members   |-> IF passes THEN {sorted[i] : i \in core[1]..core[2]} ELSE {},
       lower     |-> sorted[core[1]].price,
       upper     |-> sorted[core[2]].price,
       structural |-> valid]

\* A seed within the allowance is expanded.
EvaluateSeed(sorted, newest, seed, ends, route, rule) ==
  LET width  == IpdaWidth(newest)
      passes == WithinAllowance(SpanOf(sorted, ends[1], ends[2]), width, rule)
      core   == IF passes THEN ExpandedBounds(sorted, ends[1], ends[2], width, rule)
                ELSE ends
  IN  Evaluated(sorted, newest, seed, ends, passes, core, route)

Ends(positions) == <<CHOOSE i \in positions : \A j \in positions : i <= j,
                     CHOOSE i \in positions : \A j \in positions : i >= j>>

EvaluateSorted(sorted, newest, route, rule) ==
  LET seed == SeedPositions(sorted, newest, rule)
  IN  EvaluateSeed(sorted, newest, seed, Ends(seed), route, rule)

EvaluateConcentration(S, route, rule) ==
  LET retained == RouteDeque(S, route)
  IN  IF Cardinality(retained) < rule.minimum THEN NoEvaluation
      ELSE EvaluateSorted(PriceSorted(retained), NewestOf(retained), route, rule)
==============================================================================

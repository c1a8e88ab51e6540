-------------------------- MODULE MCNearMissEpisodes --------------------------
(* The rule of MCSymbolStore: two observations cluster within 4 and nearly *)
(* miss within 8.  x: STR 24 and 30 nearly miss, 36 moves the candidate;   *)
(* BTD 15 and 19 activate, unless BTD 21, arriving late, comes between;    *)
(* 15 and 21 nearly miss.  y: BTD 4 and 10 nearly miss.                    *)
EXTENDS NearMissEpisodes

CONSTANTS x, y, RouteWindow, NoMRZ

O(id, route, price) ==
  [id |-> id, at |-> id, route |-> route, price |-> price,
   tick |-> 1, low |-> 0, high |-> 40]

OfX == {O(1, "STR", 24), O(2, "STR", 30), O(3, "BTD", 15), O(4, "BTD", 21),
        O(5, "BTD", 19), O(6, "STR", 36)}
OfY == {O(7, "BTD", 4), O(8, "BTD", 10)}

MCObservation == OfX \cup OfY
MCArrivals == [s \in Symbol |-> IF s = x THEN OfX ELSE OfY]

N == INSTANCE NearMiss
MCRule == [algorithm |-> "A", minimum |-> 2, num |-> 1, den |-> 10]
MCEvaluate(S, route) == N!EvaluateConcentration(S, route, MCRule)

\* The replay of the store, none of whose tables it reads.
R == INSTANCE SymbolStore WITH
       Promotions <- {}, Evaluate <- MCEvaluate, NearMisses <- LAMBDA S : {},
       NoConfirmation <- "none", NoCandidate <- "none",
       seen <- {}, active <- NoMRZ, transitions <- <<>>, promotion <- NoMRZ,
       confirmation <- "none", reviewed <- "none", Observation <- MCObservation

MCActivates(S) == R!Replay(S, NoMRZ).active # NoMRZ
MCNearMisses(S) == N!CurrentNearMisses(S, MCRule)

\* A database without rows from before the episodes were introduced.
FreshSpec == rows = [s \in Symbol |-> {}] /\ Spec
==============================================================================

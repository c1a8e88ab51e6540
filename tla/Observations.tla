---------------------------- MODULE Observations -----------------------------
(***************************************************************************)
(* Observations of one symbol and their replay order (app/domain.py).      *)
(*                                                                         *)
(* An observation is a record [id, at, route, price, tick, high, low]: id  *)
(* is its insertion id, at its observed_at, high and low its IPDA frame.   *)
(* received_at is a column default read while the symbol lock is held, so  *)
(* within a symbol it grows with id, and the order key (observed_at,       *)
(* received_at, id) is (at, id).                                           *)
(***************************************************************************)
EXTENDS Structure, FiniteSets

CONSTANT RouteWindow      \* ROUTE_OBSERVATION_WINDOW, 20 in production

ASSUME RouteWindowAssumption == RouteWindow \in Nat \ {0}

\* Strictly earlier by order_key.
Before(a, b) == \/ a.at < b.at
                \/ a.at = b.at /\ a.id < b.id

NewestOf(S) == CHOOSE o \in S : \A p \in S \ {o} : Before(p, o)

LatestRouteWindow(S) ==
  {o \in S : Cardinality({p \in S : Before(o, p)}) < RouteWindow}

\* The deque of one route once the observations in S have been appended.
RouteDeque(S, route) == LatestRouteWindow({o \in S : o.route = route})
==============================================================================

----------------------------- MODULE StateEngine -----------------------------
(***************************************************************************)
(* The MRZ state engine (app/state_engine.py, replay_symbol): one symbol's *)
(* observations, taken in replay order, decide which MRZ is authoritative  *)
(* and write the transition history.  One Deliver step is one iteration of *)
(* the replay loop, which is also one in-order webhook.                    *)
(*                                                                         *)
(* The concentration algorithm is the parameter Evaluate(S, route).  What  *)
(* the engine relies on is the assumption EvaluatorContract, which TLC     *)
(* evaluates for the algorithm of module Concentration.                    *)
(***************************************************************************)
EXTENDS Observations, Sequences

CONSTANTS Observation,     \* the observations that may arrive
          Promotions,      \* authorities an operator may have promoted
          NoMRZ,           \* no active authority, no promotion
          Evaluate(_, _)   \* evaluate_concentration of a set, for a route

Sources   == {"PRODUCTION_QUALIFIED", "OPERATOR_PROMOTED"}
Locations == DiscountLocations \cup PremiumLocations

MRZ == [owner : Routes, lower : Int, upper : Int, location : Locations,
        confirming : Nat, supporting : Nat, trigger : Int,
        source : Sources, tick : Nat \ {0}]

Transition == [type : {"MRZ_ACTIVATED", "MRZ_MIGRATED", "ROUTE_CHANGED"},
               trigger : Int, old : MRZ \cup {NoMRZ}, new : MRZ]

ASSUME ObservationAssumption ==
  /\ Observation \subseteq [id : Int, at : Int, route : Routes, price : Int,
                            tick : Nat \ {0}, high : Int, low : Int]
  /\ \A a, b \in Observation :
       a # b => a.id # b.id /\ (Before(a, b) \/ Before(b, a))

ASSUME NoMRZAssumption == NoMRZ \notin MRZ

ASSUME PromotionAssumption ==
  /\ Promotions \subseteq MRZ
  /\ \A p \in Promotions : p.lower <= p.upper /\ p.source = "OPERATOR_PROMOTED"

(* evaluate_concentration: a qualifying cluster is a part of the evidence   *)
(* that holds the newest observation of the route, and its bounds are      *)
(* prices of members between which all members lie.                        *)
QualifiesProperly(e, S, route) ==
  e.result = "QUALIFIES" =>
    /\ e.members \subseteq S
    /\ e.lower \in Int /\ e.upper \in Int
    /\ Cardinality(e.members) \in Nat
    /\ \E o \in e.members : o.price = e.lower
    /\ \E o \in e.members : o.price = e.upper
    /\ \A o \in e.members : e.lower <= o.price /\ o.price <= e.upper
    /\ \E o \in e.members : \A p \in e.members : o.tick <= p.tick
    /\ \E o \in e.members : \A p \in S : p.route = route => ~Before(o, p)

ASSUME EvaluatorContract ==
  \A S \in SUBSET Observation : IsFiniteSet(S) =>
    \A route \in Routes : QualifiesProperly(Evaluate(S, route), S, route)

VARIABLES seen,            \* observations replayed so far
          active,          \* the active authority, or NoMRZ
          transitions,     \* the transition history, oldest first
          promotion        \* the symbol's promotion row, or NoMRZ

vars == <<seen, active, transitions, promotion>>
------------------------------------------------------------------------------
EffectiveInstrumentTick(members) ==
  CHOOSE t \in {o.tick : o \in members} : \A o \in members : t <= o.tick

\* build_active_mrz, once its structural guard holds.
BuildActiveMRZ(o, e, source) ==
  [owner |-> o.route, lower |-> e.lower, upper |-> e.upper,
   location |-> ClassifyStructuralLocation(o.route, e.lower + e.upper, o.high, o.low),
   confirming |-> Cardinality(e.members), supporting |-> Cardinality(e.members),
   trigger |-> o.id, source |-> source,
   tick |-> EffectiveInstrumentTick(e.members)]

EffectiveWidth(m) ==
  IF m.upper - m.lower >= m.tick THEN m.upper - m.lower ELSE m.tick

LowerMigrationBoundary(m) == m.lower - 2 * EffectiveWidth(m)
UpperMigrationBoundary(m) == m.upper + 2 * EffectiveWidth(m)

\* Mutant of the next definition: the core's bounds instead of the envelope's.
MutSideOfCore(m, price) ==
  IF price > m.upper THEN "UP" ELSE IF price < m.lower THEN "DOWN" ELSE "NONE"

\* successor_external_side: strictly outside the migration envelope.
ExternalSide(m, price) ==
  IF price > UpperMigrationBoundary(m) THEN "UP"
  ELSE IF price < LowerMigrationBoundary(m) THEN "DOWN"
  ELSE "NONE"

SuccessorPool(m, window, o) ==
  {x \in window : /\ x.route = o.route
                  /\ ExternalSide(m, x.price) = ExternalSide(m, o.price)}

QualifiesFor(e, o) ==
  /\ e.result = "QUALIFIES"
  /\ StructurallyValid(o.route, e.lower + e.upper, o.high, o.low)

\* build_successor_mrz's own guard: every member on the incoming route and side.
WhollyExternal(m, e, o) ==
  /\ ExternalSide(m, o.price) # "NONE"
  /\ \A x \in e.members : /\ x.route = o.route
                          /\ ExternalSide(m, x.price) = ExternalSide(m, o.price)

SupportsActiveCore(m, o) ==
  /\ o.route = m.owner
  /\ m.lower <= o.price /\ o.price <= m.upper
  /\ StructurallyValid(o.route, 2 * o.price, o.high, o.low)
------------------------------------------------------------------------------
Recorded(type, o, old, new) == [type |-> type, trigger |-> o.id, old |-> old, new |-> new]

Result(m, history) == [active |-> m, transitions |-> history]

\* No authority yet: the promotion seeds it at its trigger, else a
\* qualifying cluster of the incoming route activates one.
WithoutAuthority(r, window, o, promo) ==
  LET e == Evaluate(window, o.route)
      m == IF promo # NoMRZ /\ o.id = promo.trigger THEN promo
           ELSE IF QualifiesFor(e, o) THEN BuildActiveMRZ(o, e, "PRODUCTION_QUALIFIED")
           ELSE NoMRZ
  IN  IF m = NoMRZ THEN r
      ELSE Result(m, Append(r.transitions, Recorded("MRZ_ACTIVATED", o, NoMRZ, m)))

\* The successor replaces the authority; a change of owner is recorded too.
MigrateTo(r, o, m) ==
  LET migrated == Append(r.transitions, Recorded("MRZ_MIGRATED", o, r.active, m))
  IN  Result(m, IF m.owner = r.active.owner THEN migrated
                ELSE Append(migrated, Recorded("ROUTE_CHANGED", o, r.active, m)))

WithAuthority(r, window, o) ==
  LET e == Evaluate(SuccessorPool(r.active, window, o), o.route)
  IN  IF SupportsActiveCore(r.active, o)
      THEN Result([r.active EXCEPT !.supporting = @ + 1], r.transitions)
      ELSE IF /\ ExternalSide(r.active, o.price) # "NONE"
              /\ QualifiesFor(e, o)
              /\ WhollyExternal(r.active, e, o)
      THEN MigrateTo(r, o, BuildActiveMRZ(o, e, r.active.source))
      ELSE r

\* Mutant of the next definition: the promotion seeds without looking whether
\* an authority is already active.
MutPromotionReseeds(r, window, o, promo) ==
  IF r.active = NoMRZ \/ (promo # NoMRZ /\ o.id = promo.trigger)
  THEN WithoutAuthority(r, window, o, promo)
  ELSE WithAuthority(r, window, o)

\* One iteration of the replay loop; window is the incoming route's deque.
ReplayStep(r, window, o, promo) ==
  IF r.active = NoMRZ THEN WithoutAuthority(r, window, o, promo)
  ELSE WithAuthority(r, window, o)

Init ==
  /\ seen = {}
  /\ active = NoMRZ
  /\ transitions = <<>>
  /\ promotion \in Promotions \cup {NoMRZ}

Deliver(o) ==
  /\ \A p \in seen : Before(p, o)
  /\ seen' = seen \cup {o}
  /\ LET r == ReplayStep(Result(active, transitions), RouteDeque(seen', o.route), o, promotion)
     IN  active' = r.active /\ transitions' = r.transitions
  /\ UNCHANGED promotion

Next == \E o \in Observation : Deliver(o)

Spec == Init /\ [][Next]_vars
------------------------------------------------------------------------------
TypeOK ==
  /\ seen \subseteq Observation /\ IsFiniteSet(seen)
  /\ active \in MRZ \cup {NoMRZ}
  /\ transitions \in Seq(Transition)
  /\ promotion \in Promotions \cup {NoMRZ}

\* What identifies an authority: everything but the support it has gathered.
AuthoritySignature(m) ==
  <<m.owner, m.lower, m.upper, m.location, m.confirming, m.trigger, m.source, m.tick>>

SameAuthority(m, n) == AuthoritySignature(m) = AuthoritySignature(n)

Beyond(m, n) == \/ n.lower > UpperMigrationBoundary(m)
                \/ n.upper < LowerMigrationBoundary(m)

Chain(a, t) ==
  /\ (a = NoMRZ) <=> (t = <<>>)
  /\ a # NoMRZ => /\ SameAuthority(a, t[Len(t)].new)
                  /\ a.supporting >= t[Len(t)].new.supporting
  /\ \A i \in DOMAIN t : (t[i].type = "MRZ_ACTIVATED") <=> (i = 1)
  /\ \A i \in DOMAIN t :
       t[i].type = "MRZ_MIGRATED" =>
         /\ t[i].old # NoMRZ
         /\ SameAuthority(t[i].old, t[i - 1].new)
         /\ t[i].old.supporting >= t[i - 1].new.supporting

(* replay_symbol: the history is one unbroken chain.  It opens with the    *)
(* only activation; each later entry leaves the authority the entry before *)
(* it established; the active row is the authority of the last entry.  So  *)
(* no authority appears, disappears or moves without an event.             *)
HistoryIsAChain == Chain(active, transitions)

(* build_successor_mrz: every migration lands wholly beyond the migration  *)
(* envelope it leaves, on one side, never straddling or touching it.       *)
SuccessorIsExternal ==
  \A i \in DOMAIN transitions :
    transitions[i].type = "MRZ_MIGRATED" =>
      Beyond(transitions[i].old, transitions[i].new)

(* An observation inside the migration envelope never changes the          *)
(* authority, and no step rewrites or removes recorded history.            *)
EnvelopeHolds ==
  [][\A o \in seen' \ seen :
       /\ /\ active # NoMRZ
          /\ LowerMigrationBoundary(active) <= o.price
          /\ o.price <= UpperMigrationBoundary(active)
          => SameAuthority(active', active) /\ UNCHANGED transitions
       /\ SubSeq(transitions', 1, Len(transitions)) = transitions]_vars
==============================================================================

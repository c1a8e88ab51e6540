----------------------------- MODULE SymbolStore ------------------------------
(***************************************************************************)
(* One symbol in the database (app/repository.py).  Webhooks arrive in any *)
(* order and more than once; an operator promotes a candidate seen on an   *)
(* earlier page.  Every accepted write replays all stored observations and *)
(* replaces the derived rows, in one transaction under the symbol's lock,  *)
(* so each action below is one transaction.                                *)
(*                                                                         *)
(* The engine's variables are the tables: seen is observations, active is  *)
(* active_mrz, transitions is mrz_events, promotion is                     *)
(* operator_mrz_promotions.                                                *)
(***************************************************************************)
EXTENDS StateEngine

CONSTANTS NearMisses(_),     \* current_production_near_misses of the rows
          NoConfirmation,    \* no Production Confirmation row
          NoCandidate        \* the operator has no candidate on the page

(* production_near_misses: a candidate has a core of prices, and its newest *)
(* observation is the newest of its route.                                  *)
IsCandidate(c, S) ==
  /\ c.route \in Routes /\ c.lower \in Int /\ c.upper \in Int
  /\ c.newest \in S /\ c.newest.route = c.route
  /\ \A o \in S : o.route = c.route => ~Before(c.newest, o)

ASSUME NearMissContract ==
  \A S \in SUBSET Observation : IsFiniteSet(S) =>
    \A c \in NearMisses(S) : IsCandidate(c, S)

VARIABLES confirmation,      \* the mrz_production_confirmations row
          reviewed           \* the candidate shown to the operator

storeVars == <<seen, active, transitions, promotion, confirmation, reviewed>>
------------------------------------------------------------------------------
\* Mutants of the next definition: a window lacks the incoming observation,
\* or is taken from all stored rows.
MutIncomingLeftOut(S, promo) ==
  LET after[T \in SUBSET S] ==
        IF T = {} THEN Result(NoMRZ, <<>>)
        ELSE LET o == NewestOf(T)
             IN  ReplayStep(after[T \ {o}], RouteDeque(T \ {o}, o.route), o, promo)
  IN  after[S]

MutAllEvidence(S, promo) ==
  LET after[T \in SUBSET S] ==
        IF T = {} THEN Result(NoMRZ, <<>>)
        ELSE LET o == NewestOf(T)
             IN  ReplayStep(after[T \ {o}], RouteDeque(S, o.route), o, promo)
  IN  after[S]

(* replay_symbol over the stored rows, ordered by observed_at, received_at *)
(* and id: the newest is taken last, with the windows of all up to it.     *)
Replay(S, promo) ==
  LET after[T \in SUBSET S] ==
        IF T = {} THEN Result(NoMRZ, <<>>)
        ELSE LET o == NewestOf(T)
             IN  ReplayStep(after[T \ {o}], RouteDeque(T, o.route), o, promo)
  IN  after[S]

Earlier(S, o) == {p \in S : ~Before(o, p)}

MigrationTriggers(history) ==
  {history[i].trigger : i \in {j \in DOMAIN history : history[j].type = "MRZ_MIGRATED"}}

\* Mutant of the next definition: the search goes on after a migration.
MutSearchPastMigration(S, promo, history) ==
  {o \in S : \E t \in S : t.id = promo.trigger /\ Before(t, o)}

\* Where a confirmation is looked for: after the promotion's trigger and
\* before the first migration that follows it.
ConfirmationRange(S, promo, history) ==
  LET after == {o \in S : \E t \in S : t.id = promo.trigger /\ Before(t, o)}
  IN  {o \in after : \A m \in after :
         m.id \in MigrationTriggers(history) => Before(o, m)}

(* _replace_production_confirmation: the first full-route cluster in that  *)
(* range that meets the production rule.                                   *)
ProductionConfirmation(S, promo, history) ==
  LET e(o) == Evaluate(RouteDeque(Earlier(S, o), o.route), o.route)
      qualified == {o \in ConfirmationRange(S, promo, history) : QualifiesFor(e(o), o)}
      first == CHOOSE o \in qualified : \A p \in qualified \ {o} : Before(o, p)
  IN  IF qualified = {} THEN NoConfirmation
      ELSE [route |-> first.route, trigger |-> first.id,
            lower |-> e(first).lower, upper |-> e(first).upper]

(* _replace_derived_state: without an authority it returns before it looks *)
(* at the confirmation.                                                    *)
ReplaceDerivedState(r) ==
  /\ active' = r.active
  /\ transitions' = r.transitions
  /\ confirmation' = IF r.active = NoMRZ \/ promotion' = NoMRZ THEN confirmation
                     ELSE ProductionConfirmation(seen', promotion', r.transitions)
------------------------------------------------------------------------------
StoreInit ==
  /\ seen = {} /\ active = NoMRZ /\ transitions = <<>> /\ promotion = NoMRZ
  /\ confirmation = NoConfirmation /\ reviewed = NoCandidate

\* Observations with one observed_at are numbered in the order received.
Receivable(o) == \A p \in seen : p.at = o.at => p.id < o.id

\* Mutant of the next definition: the promotion row is not read.
MutForgetPromotion(o) ==
  /\ o \notin seen
  /\ Receivable(o)
  /\ seen' = seen \cup {o}
  /\ UNCHANGED <<promotion, reviewed>>
  /\ ReplaceDerivedState(Replay(seen', NoMRZ))
\* ingest of an event_id that is not stored.
Ingest(o) ==
  /\ o \notin seen
  /\ Receivable(o)
  /\ seen' = seen \cup {o}
  /\ UNCHANGED <<promotion, reviewed>>
  /\ ReplaceDerivedState(Replay(seen', promotion))

\* ingest of a stored event_id: ON CONFLICT DO NOTHING, early return.
IngestDuplicate(o) == o \in seen /\ UNCHANGED storeVars

\* The operator loads the report; it lists nothing for an active symbol.
Review ==
  /\ active = NoMRZ
  /\ reviewed' \in NearMisses(seen)
  /\ UNCHANGED <<seen, active, transitions, promotion, confirmation>>

\* promoted_active_from_row of the row written for a candidate.
PromotedAuthority(c) ==
  [owner |-> c.route, lower |-> c.lower, upper |-> c.upper,
   location |-> ClassifyStructuralLocation(c.route, c.lower + c.upper,
                                           c.newest.high, c.newest.low),
   confirming |-> Cardinality(c.evidence), supporting |-> Cardinality(c.evidence),
   trigger |-> c.newest.id, source |-> "OPERATOR_PROMOTED",
   tick |-> EffectiveInstrumentTick(c.evidence)]

\* Mutant of the next definition: the identity is not compared, so the
\* command acts on the candidate the operator saw.
MutPromoteReviewed ==
  /\ reviewed # NoCandidate
  /\ promotion = NoMRZ /\ active = NoMRZ
  /\ promotion' = PromotedAuthority(reviewed)
  /\ UNCHANGED <<seen, reviewed>>
  /\ ReplaceDerivedState(Replay(seen, promotion'))

\* The command's own guards on the candidate it re-evaluated.
Promotable(c) ==
  /\ c \in NearMisses(seen)
  /\ c.newest \in c.evidence /\ c.evidence \subseteq seen
  /\ StructurallyValid(c.route, c.lower + c.upper, c.newest.high, c.newest.low)

(* promote_current_near_miss: the candidate must still be current, with    *)
(* the identity the operator saw.  A repeated or a conflicting command     *)
(* changes nothing.                                                        *)
Promote ==
  /\ reviewed # NoCandidate
  /\ promotion = NoMRZ /\ active = NoMRZ
  /\ Promotable(reviewed)
  /\ promotion' = PromotedAuthority(reviewed)
  /\ Replay(seen, promotion').active # NoMRZ
  /\ UNCHANGED <<seen, reviewed>>
  /\ ReplaceDerivedState(Replay(seen, promotion'))

PromoteRejected ==
  /\ reviewed # NoCandidate
  /\ \/ promotion # NoMRZ
     \/ active # NoMRZ
     \/ ~Promotable(reviewed)
  /\ UNCHANGED storeVars

StoreNext ==
  \/ \E o \in Observation : Ingest(o) \/ IngestDuplicate(o)
  \/ Review
  \/ Promote
  \/ PromoteRejected

StoreSpec == StoreInit /\ [][StoreNext]_storeVars
------------------------------------------------------------------------------
(* An observation that is newest by the canonical order moves the rows as  *)
(* one iteration of the engine: the store implements StateEngine.          *)
InOrderStepsDeliver ==
  [][\A o \in seen' \ seen : (\A p \in seen : Before(p, o)) => Deliver(o)]_storeVars

\* The entries of a history that observations before o have caused.
Settled(o, history, S) ==
  {i \in DOMAIN history : \E p \in S : p.id = history[i].trigger /\ Before(p, o)}

(* docs/architecture.md, Rolling window and late events: a late packet     *)
(* rewrites history from its own time on, never what precedes it.          *)
LateEventsKeepThePast ==
  [][\A o \in seen' \ seen :
       /\ Settled(o, transitions', seen') = Settled(o, transitions, seen)
       /\ \A i \in Settled(o, transitions, seen) : transitions'[i] = transitions[i]]_storeVars

(* promote_current_near_miss: a promoted symbol is never left without an   *)
(* authority, whatever arrives later or late.                              *)
PromotionKeepsAuthority == promotion # NoMRZ => active # NoMRZ

(* README, Activation and migration: a candidate that evidence received    *)
(* since its page has superseded is refused; the exact candidate promoted  *)
(* is activated at its newest observation, and what the history holds      *)
(* beyond that activation are migrations to later evidence of the other    *)
(* route that was stored already; without one it is authoritative.         *)
PromotionTakesEffect ==
  [][promotion = NoMRZ /\ promotion' # NoMRZ =>
       \E t \in seen :
         /\ t.id = promotion'.trigger
         /\ ~\E o \in seen : o.route = t.route /\ Before(t, o)
         /\ transitions' # <<>>
         /\ transitions'[1] = [type |-> "MRZ_ACTIVATED", trigger |-> t.id,
                               old |-> NoMRZ, new |-> promotion']
         /\ \A i \in 2..Len(transitions') : \E o \in seen :
              /\ o.id = transitions'[i].trigger
              /\ o.route # t.route /\ Before(t, o)
         /\ Len(transitions') = 1 => active' = promotion']_storeVars

(* docs/architecture.md, Frozen bounds: under a promoted authority the     *)
(* first confirmation is retained and the search ends at the first         *)
(* migration, so in-order evidence never replaces, withdraws or, once      *)
(* migrated, adds one.                                                     *)
ConfirmationIsRetained ==
  [][/\ active # NoMRZ /\ active.source = "OPERATOR_PROMOTED"
     /\ \A o \in seen' \ seen : \A p \in seen : Before(p, o)
     =>
       \/ confirmation' = confirmation
       \/ /\ confirmation = NoConfirmation
          /\ MigrationTriggers(transitions') = {}
          /\ transitions' = transitions]_storeVars
==============================================================================

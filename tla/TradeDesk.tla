------------------------------- MODULE TradeDesk ------------------------------
(***************************************************************************)
(* The TradeDesk lifecycle of one symbol (app/repository.py): events of    *)
(* setups and their entries arrive in any order and more than once, each   *)
(* in a transaction under its setup's lock.  A webhook replaces the        *)
(* symbol's migrations and refreshes the trade results under the symbol's  *)
(* lock, so it may overlap an ingestion.  A transaction is two steps here: *)
(* the reads that its last write is computed from, and the commit.         *)
(***************************************************************************)
EXTENDS TradeDeskEvents

CONSTANTS Messages,        \* the messages the emitter may send
          MigrationTimes,  \* when the symbol's authority may migrate
          MaxEvents        \* bound on the stored events

VARIABLES events,          \* tradedesk_lifecycle_events
          setups,          \* tradedesk_setups, by setup
          attempts,        \* tradedesk_entry_attempts, by entry
          results,         \* tradedesk_trade_results, by entry
          migrations,      \* times of the symbol's MRZ_MIGRATED rows
          lifecycle,       \* by setup, the ingestion holding its lock
          webhook          \* the webhook holding the symbol's lock

tables == <<events, setups, attempts, results, migrations>>
vars == <<tables, lifecycle, webhook>>
------------------------------------------------------------------------------
\* What the endpoint stores: the messages that pass the request model.
Accepted ==
  {NormalizeCompactSchema12(m) : m \in
     {r \in Messages : CompactAdmissible(r) /\ EntryContract(NormalizeCompactSchema12(r))}}

Setups == {e.setup : e \in Accepted}
EntryOf(e) == IF e.type \in EntryTypes THEN <<e.setup, e.attempt>> ELSE Null
Entries == {EntryOf(e) : e \in Accepted} \ {Null}
EventsOf(E, entry) == {e \in E : EntryOf(e) = entry}

\* ORDER BY event_at, event_id.
Precedes(d, e) == d.at < e.at \/ (d.at = e.at /\ d.id < e.id)
FirstOf(S) == CHOOSE e \in S : \A d \in S \ {e} : Precedes(e, d)
OfType(E, type) == {e \in E : e.type = type}
------------------------------------------------------------------------------
RRFields == {"rr_qualified_at", "rr_source", "rr_reference_price", "setup_rr"}
SetupGrade(e) == IF e.grade \in {"A", "A+"} THEN e.grade ELSE Null
SetupStatus(e) ==
  CASE e.type = "SETUP_FAILED" -> "FAILED"
    [] e.type = "SETUP_RETIRED" -> "RETIRED"
    [] e.type = "TARGET_TAKEN" -> "TARGET_TAKEN"
    [] OTHER -> "LIVE"

\* A row of tradedesk_setups; none of them is the NULL that stands for no row.
SetupRow ==
  [long : {e.long : e \in Accepted},
   rr : [RRFields -> {Null} \cup UNION {{e.rr[f] : f \in RRFields} : e \in Accepted}],
   grade : {"A", "A+", Null}, status : {"LIVE", "FAILED", "RETIRED", "TARGET_TAKEN"},
   last : {e.at : e \in Accepted}]

\* A row of tradedesk_entry_attempts.
AttemptRow ==
  LET Column(f) == {e[f] : e \in Accepted}
  IN  [zone : Column("zone"), long : Column("long"), touched : Column("touched"),
       minimum : Column("minimum"), gradeAtTouch : Column("gradeAtTouch"),
       gradeAtConfirmation : Column("gradeAtConfirmation"),
       confirmed : Column("confirmed"), price : Column("price"), stop : Column("stop"),
       last : Column("at"),
       status : {"CANDIDATE", "CONFIRMED", "INVALIDATED", "STOPPED", "TARGET_TAKEN", "AMBIGUOUS"}]

\* event_id is unique.
ASSUME EventsAssumption ==
  /\ \A e \in Accepted : /\ e.id \in Int /\ e.at \in Int
                         /\ e.rr \in [RRFields -> {e.rr[f] : f \in RRFields}]
  /\ \A d, e \in Accepted : d.id = e.id => d = e
  /\ Null \notin SetupRow \cup AttemptRow \cup Accepted \cup {e.at : e \in Accepted}

NewSetup(e) ==
  [long |-> e.long, rr |-> e.rr, grade |-> SetupGrade(e), status |-> SetupStatus(e),
   last |-> e.at]

\* Mutants of the next definition: an event changes the RR; a retired setup
\* cannot take its target.
MutLatestRR(row, e) ==
  [row EXCEPT !.rr = [f \in RRFields |-> IF e.rr[f] = Null THEN @[f] ELSE e.rr[f]]]
MutTerminalIsFinal(row, e) ==
  [row EXCEPT
     !.rr = [f \in RRFields |-> IF @[f] = Null THEN e.rr[f] ELSE @[f]],
     !.grade = IF GradeRank(SetupGrade(e)) > GradeRank(@) THEN SetupGrade(e) ELSE @,
     !.status = IF @ = "LIVE" THEN SetupStatus(e) ELSE @,
     !.last = Max({@, e.at})]

\* The frozen RR keeps the first value of each field, the grade its highest.
MergedSetup(row, e) ==
  [row EXCEPT
     !.rr = [f \in RRFields |-> IF @[f] = Null THEN e.rr[f] ELSE @[f]],
     !.grade = IF GradeRank(SetupGrade(e)) > GradeRank(@) THEN SetupGrade(e) ELSE @,
     !.status = IF @ = "LIVE" \/ (@ = "RETIRED" /\ SetupStatus(e) = "TARGET_TAKEN")
                THEN SetupStatus(e) ELSE @,
     !.last = Max({@, e.at})]
------------------------------------------------------------------------------
\* _tradedesk_entry_status: the status the events of an entry give it.
EntryStatus(E) ==
  LET confirmed == {e.confirmed : e \in E} \ {Null}
      invalidated == {e.at : e \in OfType(E, "ENTRY_INVALIDATED")}
      terminal == OfType(E, "ENTRY_STOPPED") \cup OfType(E, "ENTRY_TARGET_TAKEN")
      first == {e.type : e \in {d \in terminal : \A c \in terminal : d.at <= c.at}}
  IN  CASE /\ invalidated # {}
           /\ confirmed = {} \/ Min(invalidated) < Min(confirmed) -> "INVALIDATED"
        [] OTHER ->
           CASE OfType(E, "ENTRY_AMBIGUOUS") # {} -> "AMBIGUOUS"
             [] OTHER ->
                CASE Cardinality(first) = 2 -> "AMBIGUOUS"
                  [] first = {"ENTRY_STOPPED"} -> "STOPPED"
                  [] first = {"ENTRY_TARGET_TAKEN"} -> "TARGET_TAKEN"
                  [] first = {} -> IF confirmed = {} THEN "CANDIDATE" ELSE "CONFIRMED"

NewAttempt(e) ==
  [zone |-> e.zone, long |-> e.long, touched |-> e.touched, minimum |-> e.minimum,
   gradeAtTouch |-> e.gradeAtTouch, gradeAtConfirmation |-> e.gradeAtConfirmation,
   confirmed |-> e.confirmed, price |-> e.price, stop |-> e.stop,
   last |-> e.at, status |-> "CANDIDATE"]

Coalesce(a, b) == IF a = Null THEN b ELSE a

\* Mutant of the next definition: the confirmation fields are not filled in.
MutMergedAttempt(row, e) ==
  [row EXCEPT !.minimum = Coalesce(@, e.minimum),
              !.gradeAtTouch = Coalesce(@, e.gradeAtTouch), !.last = Max({@, e.at})]

MergedAttempt(row, e) ==
  [row EXCEPT !.minimum = Coalesce(@, e.minimum),
              !.gradeAtTouch = Coalesce(@, e.gradeAtTouch),
              !.gradeAtConfirmation = Coalesce(@, e.gradeAtConfirmation),
              !.confirmed = Coalesce(@, e.confirmed),
              !.price = Coalesce(@, e.price),
              !.stop = Coalesce(@, e.stop),
              !.last = Max({@, e.at})]

\* _ingest_tradedesk_entry_attempt up to the result; E are the entry's
\* events, the new one included.
IngestedAttempt(row, e, E) ==
  [(IF row = Null THEN NewAttempt(e) ELSE MergedAttempt(row, e))
   EXCEPT !.status = EntryStatus(E)]
------------------------------------------------------------------------------
(* _rebuild_tradedesk_trade_result, in parts.  An ENTRY_AMBIGUOUS decides   *)
(* whenever it comes; otherwise the first stop or target, unless both were *)
(* taken on that bar.                                                      *)
Outcome(E, opened) ==
  LET ambiguous == {e \in OfType(E, "ENTRY_AMBIGUOUS") : e.at > opened}
      closing == {e \in OfType(E, "ENTRY_STOPPED") \cup OfType(E, "ENTRY_TARGET_TAKEN") :
                    e.at > opened}
      first == {e \in closing : \A d \in closing : e.at <= d.at}
  IN  CASE ambiguous # {} -> [status |-> "AMBIGUOUS", event |-> FirstOf(ambiguous)]
        [] ambiguous = {} /\ closing = {} -> [status |-> "OPEN", event |-> Null]
        [] ambiguous = {} /\ closing # {} ->
             [event |-> FirstOf(first),
              status |-> IF Cardinality({e.type : e \in first}) = 2 THEN "AMBIGUOUS"
                         ELSE IF FirstOf(first).type = "ENTRY_STOPPED" THEN "LOSS" ELSE "WIN"]

Ladder(confirmation) == IF confirmation.ladder = Null THEN <<>> ELSE confirmation.ladder
Kind(terminal) ==
  IF terminal = Null \/ terminal.terminalLevels = Null THEN Null ELSE terminal.terminalLevels.kind

\* Reaches of a frozen destination strictly while the trade is open.
CountedReaches(E, ladder, opened, terminal) ==
  {e \in OfType(E, "ENTRY_EXIT_LEVEL_REACHED") :
     /\ opened < e.at /\ (terminal = Null \/ e.at < terminal.at)
     /\ \E i \in 1..Len(ladder) : /\ ladder[i].order # 0
                                  /\ ladder[i].ids = e.level.ids
                                  /\ ladder[i].price = e.level.price}

\* The first reach of each group, in market order.
ReachedLevels(reaches) ==
  LET first == {e \in reaches : ~\E d \in reaches : d.level.ids = e.level.ids /\ Precedes(d, e)}
      sorted == SetToSortSeq(first, Precedes)
  IN  [i \in 1..Len(sorted) |-> sorted[i].level]

BestReach(reaches) ==
  LET most == {e \in reaches : \A d \in reaches : d.level.excursion <= e.level.excursion}
      best == FirstOf(most)
  IN  [ids |-> best.level.ids, price |-> best.level.price,
       r |-> best.level.excursion, at |-> best.at]

\* A terminal with a reached mask stands for the reaches.
SummaryLevels(ladder, mask, attempt) ==
  LET groups == SelectSeq(ladder, LAMBDA g : g.order # 0 /\ g.ids \cap DecodeMask(mask) # {})
  IN  [i \in 1..Len(groups) |->
         [ids |-> groups[i].ids, price |-> groups[i].price,
          excursion |-> Positive(Sign(attempt.long) * (groups[i].price - attempt.price))]]

SummaryBest(ladder, mask, attempt) ==
  LET groups == {i \in 1..Len(ladder) :
                   ladder[i].order # 0 /\ ladder[i].ids \cap DecodeMask(mask) # {}}
      best == ladder[CHOOSE i \in groups : \A j \in groups : ladder[j].order <= ladder[i].order]
  IN  [ids |-> best.ids, price |-> best.price, at |-> Null,
       r |-> Positive(Sign(attempt.long) * (best.price - attempt.price))]

BestLevel(ladder, reaches, terminal, attempt) ==
  CASE Kind(terminal) = "reached" ->
         IF SummaryLevels(ladder, terminal.terminalLevels.mask, attempt) = <<>> THEN terminal.best
         ELSE SummaryBest(ladder, terminal.terminalLevels.mask, attempt)
    [] Kind(terminal) = "levels" -> IF reaches = {} THEN terminal.best ELSE BestReach(reaches)
    [] Kind(terminal) \notin {"reached", "levels"} ->
         IF terminal = Null THEN Null ELSE terminal.best

TerminalLevels(ladder, terminal) ==
  CASE Kind(terminal) \in {Null, "reached"} -> Null
    [] Kind(terminal) = "verbose" -> terminal.terminalLevels.levels
    [] Kind(terminal) = "levels" ->
         LET touched == SelectSeq(ladder, LAMBDA g :
                          g.ids \cap DecodeMask(terminal.terminalLevels.mask) # {})
         IN  [i \in 1..Len(touched) |-> [ids |-> touched[i].ids, price |-> touched[i].price]]

EvidenceVersion(confirmation, terminal) ==
  IF confirmation.version # "1.2" \/ (terminal # Null /\ terminal.version # "1.2")
  THEN "1.1-legacy"
  ELSE IF Kind(terminal) \in {"reached", "levels"} THEN "1.2-core" ELSE "1.2"

WhileOpen(times, opened, terminal) ==
  {t \in times : opened < t /\ (terminal = Null \/ t < terminal.at)}

ResultRow(E, attempt, times, confirmation, outcome) ==
  LET opened == confirmation.confirmed
      terminal == outcome.event
      ladder == Ladder(confirmation)
      reaches == IF Kind(terminal) = "reached" THEN {}
                 ELSE CountedReaches(E, ladder, opened, terminal)
      tied == outcome.status = "AMBIGUOUS" /\ terminal.type # "ENTRY_AMBIGUOUS"
  IN  [status |-> outcome.status, opened |-> opened,
       closed |-> IF terminal = Null THEN Null ELSE terminal.at,
       terminal |-> IF terminal = Null \/ tied THEN Null ELSE terminal.id,
       terminalType |-> IF terminal = Null THEN Null
                        ELSE IF tied THEN "ENTRY_AMBIGUOUS" ELSE terminal.type,
       risk |-> IF confirmation.risk # Null THEN confirmation.risk
                ELSE Distance(attempt.price, attempt.stop),
       context |-> confirmation.context,
       ladder |-> ladder,
       reached |-> IF Kind(terminal) = "reached"
                   THEN SummaryLevels(ladder, terminal.terminalLevels.mask, attempt)
                   ELSE ReachedLevels(reaches),
       best |-> BestLevel(ladder, reaches, terminal, attempt),
       mfe |-> IF terminal = Null THEN Null ELSE terminal.mfe,
       levels |-> TerminalLevels(ladder, terminal),
       migrated |-> WhileOpen(times, opened, terminal),
       version |-> EvidenceVersion(confirmation, terminal)]

\* The row of an entry, or none: without an ENTRY_CONFIRMED it is deleted.
TradeResult(E, attempt, times) ==
  LET confirmations == OfType(E, "ENTRY_CONFIRMED")
  IN  IF confirmations = {} THEN Null
      ELSE ResultRow(E, attempt, times, FirstOf(confirmations),
                     Outcome(E, FirstOf(confirmations).confirmed))
------------------------------------------------------------------------------
Init ==
  /\ events = {} /\ migrations = {}
  /\ setups = [s \in Setups |-> Null]
  /\ attempts = [n \in Entries |-> Null]
  /\ results = [n \in Entries |-> Null]
  /\ lifecycle = [s \in Setups |-> Null]
  /\ webhook = Null

(* ingest_tradedesk_lifecycle takes the setup's lock; what it reads beyond *)
(* its own setup, and only for an entry event, is the migrations.          *)
BeginIngest(e) ==
  /\ lifecycle[e.setup] = Null
  /\ e \in events \/ Cardinality(events) < MaxEvents
  /\ lifecycle' = [lifecycle EXCEPT ![e.setup] = [event |-> e, migrations |-> migrations]]
  /\ UNCHANGED <<tables, webhook>>

\* ON CONFLICT DO NOTHING: a stored event changes last_received_at alone.
CommitDuplicate(s) ==
  /\ lifecycle[s] # Null /\ lifecycle[s].event \in events
  /\ lifecycle' = [lifecycle EXCEPT ![s] = Null]
  /\ UNCHANGED <<tables, webhook>>

CommitSetupEvent(s) ==
  /\ lifecycle[s] # Null /\ lifecycle[s].event \notin events
  /\ EntryOf(lifecycle[s].event) = Null
  /\ LET e == lifecycle[s].event
     IN  /\ events' = events \cup {e}
         /\ setups' = [setups EXCEPT ![s] = IF @ = Null THEN NewSetup(e) ELSE MergedSetup(@, e)]
  /\ lifecycle' = [lifecycle EXCEPT ![s] = Null]
  /\ UNCHANGED <<attempts, results, migrations, webhook>>

CommitEntryEvent(s) ==
  /\ lifecycle[s] # Null /\ lifecycle[s].event \notin events
  /\ EntryOf(lifecycle[s].event) # Null
  /\ LET e == lifecycle[s].event
         entry == EntryOf(e)
         E == EventsOf(events, entry) \cup {e}
     IN  /\ events' = events \cup {e}
         /\ setups' = [setups EXCEPT ![s] = IF @ = Null THEN NewSetup(e) ELSE MergedSetup(@, e)]
         /\ attempts' = [attempts EXCEPT ![entry] = IngestedAttempt(@, e, E)]
         /\ results' = [results EXCEPT ![entry] =
                          TradeResult(E, attempts'[entry], lifecycle[s].migrations)]
  /\ lifecycle' = [lifecycle EXCEPT ![s] = Null]
  /\ UNCHANGED <<migrations, webhook>>

(* A webhook, a promotion or a reconciliation has replaced the migrations  *)
(* by those of a replay and reads what _refresh_tradedesk_migration_context *)
(* rebuilds: the symbol's results and the events of each.                  *)
BeginRefresh(times) ==
  /\ webhook = Null
  /\ webhook' = [migrations |-> times, events |-> events, attempts |-> attempts,
                 entries |-> {n \in Entries : results[n] # Null}]
  /\ UNCHANGED <<tables, lifecycle>>

CommitRefresh ==
  /\ webhook # Null
  /\ migrations' = webhook.migrations
  /\ results' = [n \in Entries |->
       IF n \in webhook.entries
       THEN TradeResult(EventsOf(webhook.events, n), webhook.attempts[n], webhook.migrations)
       ELSE results[n]]
  /\ webhook' = Null
  /\ UNCHANGED <<events, setups, attempts, lifecycle>>

\* rebuild_tradedesk_trade_results, a maintenance call: on an idle system.
RebuildResults ==
  /\ webhook = Null /\ \A s \in Setups : lifecycle[s] = Null
  /\ results' = [n \in Entries |-> TradeResult(EventsOf(events, n), attempts[n], migrations)]
  /\ UNCHANGED <<events, setups, attempts, migrations, lifecycle, webhook>>

Next ==
  \/ \E e \in Accepted : BeginIngest(e)
  \/ \E s \in Setups : CommitDuplicate(s) \/ CommitSetupEvent(s) \/ CommitEntryEvent(s)
  \/ \E times \in SUBSET MigrationTimes : BeginRefresh(times)
  \/ CommitRefresh
  \/ RebuildResults

Spec == Init /\ [][Next]_vars
------------------------------------------------------------------------------
SetupEvents(s) == {e \in events : e.setup = s}

(* A setup's row against the events received, in whatever order they came: *)
(* it is live until one ends it, a target taken after retirement counts,   *)
(* and it carries the best grade and some RR if any event did.             *)
SetupsSummariseEvents ==
  \A s \in Setups :
    LET E == SetupEvents(s)
        ends == {SetupStatus(e) : e \in E} \ {"LIVE"}
    IN  IF E = {} THEN setups[s] = Null
        ELSE /\ IF ends = {} THEN setups[s].status = "LIVE" ELSE setups[s].status \in ends
             /\ "TARGET_TAKEN" \in ends => setups[s].status # "RETIRED"
             /\ setups[s].grade \in {SetupGrade(e) : e \in E}
             /\ \A e \in E : GradeRank(SetupGrade(e)) <= GradeRank(setups[s].grade)
             /\ \A f \in RRFields : (setups[s].rr[f] = Null) <=> \A e \in E : e.rr[f] = Null
             /\ setups[s].last = Max({e.at : e \in E})

(* What has been frozen stays: no later, late or repeated event changes a  *)
(* setup's RR or withdraws its failure or its target, nor an entry's       *)
(* geometry and confirmation.                                              *)
FrozenFieldsStand ==
  [][/\ \A s \in Setups : setups[s] # Null =>
          /\ \A f \in RRFields : setups[s].rr[f] \in {Null, setups'[s].rr[f]}
          /\ setups[s].status \in {"FAILED", "TARGET_TAKEN"} =>
               setups'[s].status = setups[s].status
     /\ \A n \in Entries : attempts[n] # Null =>
          /\ attempts'[n].zone = attempts[n].zone
          /\ attempts'[n].touched = attempts[n].touched
          /\ attempts[n].confirmed \in {Null, attempts'[n].confirmed}
          /\ attempts[n].price \in {Null, attempts'[n].price}]_vars

LastOf(S) == CHOOSE e \in S : \A d \in S \ {e} : Precedes(d, e)

\* The attempt after its events are ingested one by one in market order.
InMarketOrder(E) ==
  LET after[S \in SUBSET E] ==
        IF S = {} THEN Null ELSE IngestedAttempt(after[S \ {LastOf(S)}], LastOf(S), S)
  IN  after[E]

\* What the emitter writes once and sends with every event of the entry from
\* then on, TradeDesk.pine, f_queueEntryEvent: at the touch, and later.
EntryIsFrozen(d, e) ==
  /\ \A f \in {"zone", "long", "touched"} : d[f] = e[f]
  /\ \A f \in {"minimum", "gradeAtTouch", "gradeAtConfirmation", "confirmed", "price", "stop"} :
       d[f] = e[f] \/ Null \in {d[f], e[f]}

EntriesAreFrozen ==
  \A d, e \in Accepted : EntryOf(d) # Null /\ EntryOf(d) = EntryOf(e) => EntryIsFrozen(d, e)

\* An attempt that the emitter invalidated it does not confirm
\* (TradeDesk.pine, f_entryInvalidate and f_entryAfterSetup).
InvalidatedIsNotConfirmed ==
  \A d, e \in Accepted :
    EntryOf(d) # Null /\ EntryOf(d) = EntryOf(e) /\ d.type = "ENTRY_INVALIDATED" =>
      e.type \notin ConfirmedTypes

(* docs/trade-desk/README.md, Current operating workflow: entry            *)
(* projections follow market event time rather than HTTP arrival order.    *)
AttemptsFollowMarketTime ==
  \A n \in Entries : attempts[n] = InMarketOrder(EventsOf(events, n))

ResultFor(status) ==
  CASE status = "CONFIRMED" -> "OPEN"
    [] status = "STOPPED" -> "LOSS"
    [] status = "TARGET_TAKEN" -> "WIN"
    [] status = "AMBIGUOUS" -> "AMBIGUOUS"

\* A reach event of the entry, strictly between the entry and the exit.
ReachedWhileOpen(E, level, r) ==
  \E e \in OfType(E, "ENTRY_EXIT_LEVEL_REACHED") :
    e.level = level /\ r.opened < e.at /\ (r.closed = Null \/ e.at < r.closed)

\* The terminal that closed r, if its levels are of one of these kinds.
ClosedBy(E, r, kinds) == \E e \in E : e.at = r.closed /\ e.type = r.terminalType /\ Kind(e) \in kinds

\* The level of a reach between the entry and the target, on the ladder.
OnTheWay(e, r, price) ==
  /\ Sign(e.long) * (e.level.price - price) > 0
  /\ Sign(e.long) * (e.target - e.level.price) >= 0
  /\ \E i \in 1..Len(r.ladder) : r.ladder[i].price = e.level.price

(* A result exists once the confirmation is received, tells the same story *)
(* as its entry, and has the migrations of the time the trade was open.    *)
SameStory(n) ==
  LET r == results[n]
  IN  /\ (r = Null) <=> OfType(EventsOf(events, n), "ENTRY_CONFIRMED") = {}
      /\ r # Null =>
           /\ r.opened = attempts[n].confirmed
           /\ r.status = ResultFor(attempts[n].status)
           /\ (r.closed = Null) <=> r.status = "OPEN"
           /\ r.migrated = {t \in migrations : r.opened < t /\ (r.closed = Null \/ t < r.closed)}

(* It counts what happened while the trade was open, every level on the    *)
(* way and no other, and its best level is the farthest one reached.       *)
CountsReaches(n) ==
  LET E == EventsOf(events, n)
      r == results[n]
  IN  r # Null =>
        /\ ~ClosedBy(E, r, {"reached"}) =>
             \A e \in OfType(E, "ENTRY_EXIT_LEVEL_REACHED") :
               ReachedWhileOpen(E, e.level, r) /\ OnTheWay(e, r, attempts[n].price) =>
                 \E i \in 1..Len(r.reached) : r.reached[i].price = e.level.price
        /\ \A i \in 1..Len(r.reached) :
             /\ r.reached[i].excursion > 0
             /\ \A j \in 1..Len(r.reached) \ {i} : r.reached[i].ids \cap r.reached[j].ids = {}
             /\ ReachedWhileOpen(E, r.reached[i], r) \/ ClosedBy(E, r, {"reached"})
             /\ ClosedBy(E, r, {"reached", "levels"}) =>
                  r.best # Null /\ r.reached[i].excursion <= r.best.r

\* A result against the evidence.
Agrees(n) == SameStory(n) /\ CountsReaches(n)

\* A write of the entry's result from reads that still hold.
CurrentWrite(n) ==
  \/ \E s \in Setups : /\ lifecycle[s] # Null /\ lifecycle'[s] = Null
                      /\ events' # events /\ EntryOf(lifecycle[s].event) = n
                      /\ lifecycle[s].migrations = migrations
  \/ /\ webhook # Null /\ webhook' = Null
     /\ webhook.events = events /\ n \in webhook.entries

(* docs/trade-desk/README.md, Current operating workflow: a write that was *)
(* not overtaken, since what it read is still so when it commits, leaves   *)
(* the results it wrote in agreement with the evidence.                    *)
CurrentWritesAgree == [][\A n \in Entries : CurrentWrite(n) => Agrees(n)']_vars

(* app/repository.py, _rebuild_tradedesk_trade_result: one trade result is *)
(* rebuilt only from immutable lifecycle and MRZ authority, so when nothing *)
(* is in flight every result agrees with them.                             *)
ResultsFollowEvidence ==
  webhook = Null /\ (\A s \in Setups : lifecycle[s] = Null) =>
    \A n \in Entries : Agrees(n)
==============================================================================

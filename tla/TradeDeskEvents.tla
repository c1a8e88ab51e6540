---------------------------- MODULE TradeDeskEvents ---------------------------
(***************************************************************************)
(* The messages of POST /api/tradedesk/lifecycle (app/validation.py): what *)
(* a compact message is normalised to and which events are admitted.       *)
(*                                                                         *)
(* Prices and times are integers; a field the message leaves out is Null.  *)
(* An excursion in R is the price move it was divided from: within one     *)
(* entry the divisor, its initial risk, is the same positive number.       *)
(***************************************************************************)
EXTENDS Integers, FiniteSets, Sequences, SequencesExt

CONSTANT Null

SetupTypes == {"MSS_CONFIRMED", "RR_QUALIFIED", "GRADE_A", "GRADE_A_PLUS",
               "SETUP_FAILED", "SETUP_RETIRED", "TARGET_TAKEN"}
TerminalTypes == {"ENTRY_STOPPED", "ENTRY_TARGET_TAKEN", "ENTRY_AMBIGUOUS"}
ConfirmedTypes == TerminalTypes \cup {"ENTRY_CONFIRMED", "ENTRY_EXIT_LEVEL_REACHED"}
EntryTypes == ConfirmedTypes \cup {"ENTRY_TOUCHED", "ENTRY_INVALIDATED"}

\* TRADEDESK_EXIT_LEVEL_ORDER: of the current and the previous authority.
Levels == <<"C-MID", "C-2W", "C-1W", "C+1W", "C+2W", "EQM",
            "P-MID", "P-2W", "P-1W", "P+1W", "P+2W">>
LevelIds == {Levels[i] : i \in 1..Len(Levels)}

\* The fields of a message and their defaults (prose and times of receipt
\* are left out, and with them the entry's reward to risk).
Message(id, setup, type, at) ==
  [id |-> id, setup |-> setup, type |-> type, version |-> "1.2", at |-> at, mss |-> 1,
   long |-> TRUE, target |-> 0, grade |-> Null,
   rr |-> [f \in {"rr_qualified_at", "rr_source", "rr_reference_price", "setup_rr"} |-> Null],
   attempt |-> Null, source |-> Null, zone |-> Null, ote |-> Null, oteRequired |-> Null,
   range |-> Null, minimum |-> Null, gradeAtTouch |-> Null, gradeAtConfirmation |-> Null,
   touched |-> Null, confirmed |-> Null, price |-> Null, stop |-> Null,
   context |-> Null, available |-> Null, ladder |-> Null, risk |-> Null,
   level |-> Null, mfe |-> Null, best |-> Null, terminalLevels |-> Null]

Sign(long) == IF long THEN 1 ELSE -1
Positive(n) == IF n > 0 THEN n ELSE 0
Distance(a, b) == IF a > b THEN a - b ELSE b - a
------------------------------------------------------------------------------
(* app/tradedesk_entry.py: the zone of an entry is its source inside the   *)
(* favourable third of the range and, if required, inside the OTE band.    *)
(* Bounds are in thirds of a price.                                        *)
RangeThirdBounds(long, range) ==
  IF long THEN [bottom |-> 3 * range.low, top |-> 3 * range.low + range.high - range.low]
          ELSE [bottom |-> 3 * range.high - (range.high - range.low), top |-> 3 * range.high]

IntersectEntryZone(long, range, source, oteRequired, ote) ==
  LET third == RangeThirdBounds(long, range)
      bands == {third, [bottom |-> 3 * source.bottom, top |-> 3 * source.top]}
               \cup IF oteRequired /\ ote # Null
                    THEN {[bottom |-> 3 * ote.bottom, top |-> 3 * ote.top]} ELSE {}
      bottom == CHOOSE x \in {b.bottom : b \in bands} : \A b \in bands : b.bottom <= x
      top == CHOOSE x \in {b.top : b \in bands} : \A b \in bands : x <= b.top
  IN  IF (oteRequired /\ ote = Null) \/ top <= bottom THEN Null
      ELSE [bottom |-> bottom, top |-> top]

\* A close beyond the middle of the zone, or beyond its far edge.
ConfirmationSatisfied(long, method, close, zone) ==
  LET threshold == IF method = "CE_RECLAIM" THEN zone.bottom + zone.top
                   ELSE 2 * (IF long THEN zone.top ELSE zone.bottom)
  IN  Sign(long) * (2 * close - threshold) > 0

GradeRank(grade) == IF grade = "A+" THEN 2 ELSE IF grade = "A" THEN 1 ELSE 0
GradeMeets(grade, required) == GradeRank(grade) >= GradeRank(required)
------------------------------------------------------------------------------
DecodeMask(mask) ==
  {Levels[i] : i \in {k \in 1..Len(Levels) : (mask \div 2^(k - 1)) % 2 = 1}}

\* n/d to the nearest multiple of tick, a half away from zero.
RoundedToTick(n, d, tick) ==
  LET up(x) == ((2 * x + d * tick) \div (2 * d * tick)) * tick
  IN  IF n < 0 THEN -up(-n) ELSE up(n)

\* b: upper and lower bound of the current and of the previous authority.
LadderPricesFromBounds(b, tick) ==
  LET at(n, d) == RoundedToTick(n, d, tick)
      width == b.upper - b.lower
      before == b.previousUpper - b.previousLower
      mid == at(b.upper + b.lower, 2)
      previousMid == at(b.previousUpper + b.previousLower, 2)
  IN  <<mid, at(b.lower - 2 * width, 1), at(b.lower - width, 1),
        at(b.upper + width, 1), at(b.upper + 2 * width, 1),
        at(mid + previousMid, 2), previousMid,
        at(b.previousLower - 2 * before, 1), at(b.previousLower - before, 1),
        at(b.previousUpper + before, 1), at(b.previousUpper + 2 * before, 1)>>

\* Levels within half a tick of a group's first price share the group.
GroupLevels(prices, tick) ==
  FoldLeft(LAMBDA groups, i :
             LET near == {g \in 1..Len(groups) : 2 * Distance(groups[g].price, prices[i]) <= tick}
                 g == CHOOSE k \in near : \A j \in near : k <= j
             IN  IF near = {} THEN Append(groups, [ids |-> {Levels[i]}, price |-> prices[i]])
                 ELSE [groups EXCEPT ![g].ids = @ \cup {Levels[i]}],
           <<>>, [i \in 1..Len(prices) |-> i])

\* Mutant of the next definition: the target itself is not a destination.
MutBeforeTarget(group, long, entry, target) ==
  /\ Sign(long) * (group.price - entry) > 0
  /\ Sign(long) * (target - group.price) > 0

\* A destination lies beyond the entry and not beyond the target.
Destination(group, long, entry, target) ==
  /\ Sign(long) * (group.price - entry) > 0
  /\ Sign(long) * (target - group.price) >= 0

\* order numbers the destinations by distance; it is 0 for the others.
NormalizeCompactLadder(prices, long, entry, target, tick) ==
  LET groups == GroupLevels(prices, tick)
      eligible == {i \in 1..Len(groups) : Destination(groups[i], long, entry, target)}
      nearer(i) == {j \in eligible : Distance(groups[j].price, entry)
                                     < Distance(groups[i].price, entry)}
  IN  [i \in 1..Len(groups) |->
         [ids |-> groups[i].ids, price |-> groups[i].price,
          order |-> IF i \in eligible THEN 1 + Cardinality(nearer(i)) ELSE 0]]
------------------------------------------------------------------------------
(* A raw message is an event whose fields ladder, level, terminalLevels may *)
(* hold compact evidence: a ladder of bounds or prices with a tick, levels  *)
(* as a mask.                                                               *)
Compact(ladder) == ladder # Null /\ "tick" \in DOMAIN ladder

FrozenLadder(m) ==
  IF ~Compact(m.ladder) THEN m.ladder
  ELSE IF ~m.available THEN <<>>
  ELSE NormalizeCompactLadder(
         IF "bounds" \in DOMAIN m.ladder
         THEN LadderPricesFromBounds(m.ladder.bounds, m.ladder.tick) ELSE m.ladder.prices,
         m.long, m.price, m.target, m.ladder.tick)

ReachedLevel(m) ==
  IF m.level = Null \/ "mask" \notin DOMAIN m.level THEN m.level
  ELSE [ids |-> DecodeMask(m.level.mask), price |-> m.level.price,
        excursion |-> Positive(Sign(m.long) * (m.level.price - m.price))]

UsesCompact(m) ==
  \/ Compact(m.ladder)
  \/ m.level # Null /\ "mask" \in DOMAIN m.level
  \/ m.terminalLevels # Null /\ m.terminalLevels.kind # "verbose"

\* The favourable excursion before the terminal bar of a compact terminal.
TerminalExcursion(m) ==
  IF m.terminalLevels = Null \/ m.terminalLevels.kind = "verbose" \/ m.mfe = Null THEN m.mfe
  ELSE [price |-> m.mfe.price, r |-> Positive(Sign(m.long) * (m.mfe.price - m.price))]

NormalizeCompactSchema12(m) ==
  [m EXCEPT !.ladder = FrozenLadder(m),
            !.level = ReachedLevel(m),
            !.mfe = TerminalExcursion(m),
            !.risk = IF UsesCompact(m) /\ @ = Null /\ m.price # Null /\ m.stop # Null
                     THEN Distance(m.price, m.stop) ELSE @]

\* The refusals of the normalisation itself.
CompactAdmissible(m) ==
  /\ UsesCompact(m) => m.version = "1.2"
  /\ Compact(m.ladder) =>
       IF m.available
       THEN /\ m.ladder.tick > 0
            /\ "bounds" \in DOMAIN m.ladder =>
                 /\ m.ladder.bounds.upper > m.ladder.bounds.lower
                 /\ m.ladder.bounds.previousUpper > m.ladder.bounds.previousLower
       ELSE m.context = Null
  /\ m.level # Null /\ "mask" \in DOMAIN m.level => m.level.mask \in 1..(2^Len(Levels) - 1)
------------------------------------------------------------------------------
\* decimal_tick of integer prices.
Tolerance == 1

EntryTimes(e) ==
  /\ e.touched # Null
  /\ e.ote # Null => e.ote.at <= e.touched
  /\ e.mss < e.touched /\ e.touched <= e.at
  /\ e.type = "ENTRY_TOUCHED" => e.at = e.touched

EntryZone(e) ==
  /\ e.zone # Null /\ e.range # Null /\ e.source # Null
  /\ e.oteRequired # FALSE => e.ote # Null
  /\ e.zone.bottom < e.zone.top /\ e.range.low < e.range.high
  /\ e.ote # Null => e.ote.bottom < e.ote.top
  /\ e.source # (IF e.long THEN "SIBI" ELSE "BISI")
  /\ LET third == RangeThirdBounds(e.long, e.range)
     IN  /\ 3 * e.zone.bottom >= third.bottom - 3 * Tolerance
         /\ 3 * e.zone.top <= third.top + 3 * Tolerance
  /\ e.oteRequired # FALSE =>
       /\ e.zone.bottom >= e.ote.bottom - Tolerance
       /\ e.zone.top <= e.ote.top + Tolerance

\* Mutant of the next definition: a terminal may share the confirmation bar.
MutConfirmation(e) ==
  IF e.type \notin ConfirmedTypes
  THEN e.confirmed = Null /\ e.price = Null /\ e.stop = Null
  ELSE /\ Null \notin {e.confirmed, e.price, e.stop}
       /\ e.touched < e.confirmed /\ e.confirmed <= e.at
       /\ e.type = "ENTRY_CONFIRMED" => e.at = e.confirmed

\* A terminal is later than the confirmation, on a bar of its own.
Confirmation(e) ==
  IF e.type \notin ConfirmedTypes
  THEN e.confirmed = Null /\ e.price = Null /\ e.stop = Null
  ELSE /\ Null \notin {e.confirmed, e.price, e.stop}
       /\ e.touched < e.confirmed /\ e.confirmed <= e.at
       /\ e.type = "ENTRY_CONFIRMED" => e.at = e.confirmed
       /\ e.type \in TerminalTypes => e.confirmed < e.at
       /\ Sign(e.long) * (e.price - e.stop) > 0
       /\ Sign(e.long) * (e.target - e.price) > 0
       /\ LET third == RangeThirdBounds(e.long, e.range)
          IN  IF e.long THEN 3 * e.price <= third.top + 3 * Tolerance
              ELSE 3 * e.price >= third.bottom - 3 * Tolerance

\* A group of a frozen ladder or of a terminal bar.
LevelGroup(g) == g.ids # {} /\ g.ids \subseteq LevelIds

\* The frozen ladder names each of the 11 levels once and numbers its
\* destinations 1, 2, ...
LadderContract(ladder) ==
  LET orders == {ladder[i].order : i \in 1..Len(ladder)} \ {0}
  IN  /\ \A i \in 1..Len(ladder) : LevelGroup(ladder[i])
      /\ \A id \in LevelIds : Cardinality({i \in 1..Len(ladder) : id \in ladder[i].ids}) = 1
      /\ \A i, j \in 1..Len(ladder) : i # j /\ ladder[i].order # 0 => ladder[i].order # ladder[j].order
      /\ orders = 1..Cardinality(orders)

ConfirmationEvidence(e) ==
  e.version = "1.2" /\ e.type = "ENTRY_CONFIRMED" =>
    /\ e.risk # Null /\ e.risk > 0
    /\ e.available # Null /\ e.ladder # Null
    /\ IF e.available
       THEN e.context # Null /\ e.ladder # <<>> /\ LadderContract(e.ladder)
       ELSE e.context = Null /\ e.ladder = <<>>

ReachEvidence(e) ==
  e.type = "ENTRY_EXIT_LEVEL_REACHED" =>
    /\ e.version = "1.2" /\ e.level # Null
    /\ e.level.ids # {} /\ e.level.ids \subseteq LevelIds /\ e.level.excursion >= 0

TerminalEvidence(e) ==
  e.version = "1.2" /\ e.type \in TerminalTypes =>
    /\ e.risk # Null /\ e.risk > 0
    /\ e.mfe # Null /\ e.mfe.r >= 0
    /\ e.terminalLevels # Null
    /\ e.terminalLevels.kind = "verbose" =>
         \A i \in 1..Len(e.terminalLevels.levels) : LevelGroup(e.terminalLevels.levels[i])
    /\ e.best # Null => /\ e.best.ids \subseteq LevelIds /\ e.best.r >= 0
                        /\ e.confirmed < e.best.at /\ e.best.at < e.at

LegacyEvidence(e) ==
  e.version # "1.2" =>
    /\ e.context = Null /\ e.available = Null /\ e.ladder = Null /\ e.risk = Null
    /\ e.level = Null /\ e.mfe = Null /\ e.best = Null /\ e.terminalLevels = Null

\* validate_entry_contract: what an event must be to be stored.
EntryContract(e) ==
  IF e.type \notin EntryTypes THEN e.version = "1.0" => e.attempt = Null
  ELSE /\ e.version \in {"1.1", "1.2"} /\ e.attempt # Null
       /\ EntryTimes(e) /\ EntryZone(e) /\ Confirmation(e)
       /\ ConfirmationEvidence(e) /\ ReachEvidence(e) /\ TerminalEvidence(e) /\ LegacyEvidence(e)
       /\ GradeMeets(e.gradeAtTouch, e.minimum)
       /\ e.type \in ConfirmedTypes => GradeMeets(e.gradeAtConfirmation, e.minimum)
==============================================================================

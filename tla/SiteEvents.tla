------------------------------ MODULE SiteEvents ------------------------------
(***************************************************************************)
(* The in-site notification: an open page polls the outbox for the rows    *)
(* above the last id it knows and shows a toast for each (site_events_after *)
(* and latest_notification_id of app/notifications.py, the route           *)
(* /api/notifications/events, pollEvents of app/static/notifications.js).  *)
(*                                                                         *)
(* Ids are drawn when a row is inserted and become visible when its        *)
(* transaction commits, in any order.  The route makes its two reads on    *)
(* two connections.  The page's timer does not wait for an answer, so      *)
(* polls overlap and are answered in any order, or fail without a word.    *)
(***************************************************************************)
EXTENDS Integers, FiniteSets, FiniteSetsExt

CONSTANTS MaxId,           \* bound: rows of the outbox
          Kind,            \* the event type of each row
          SymbolOf,        \* and its symbol
          Preferences,     \* what operators choose: [scope, kinds]
          Groups,          \* the symbols that saved groups may come to hold
          Limit,           \* rows in an answer
          Slots,           \* bound: polls of the page at a time
          MaxFaults,       \* bound: polls that fail
          NoPoll

Ids == 1 .. MaxId

ASSUME SiteEventsAssumption ==
  /\ MaxId \in Nat /\ Limit \in Nat \ {0} /\ MaxFaults \in Nat
  /\ DOMAIN Kind = Ids /\ DOMAIN SymbolOf = Ids

\* A poll in flight: what it was sent with, and what its answer holds so far.
PollState ==
  [stage : {"sent", "events", "answered"}, after : 0 .. MaxId, before : SUBSET Ids,
   events : SUBSET Ids, latest : 0 .. MaxId, passed : SUBSET Ids]

ASSUME NoPollAssumption == NoPoll \notin PollState

VARIABLES row,           \* each id: "free", "drawn", "visible" or "rolled_back"
          preferences, tracked,
          page,          \* "closed" or "open"
          start,         \* the cursor it was opened with
          cursor,
          shown,         \* the rows it has shown a toast for
          polls,         \* its polls in flight
          faults,        \* polls that have failed
          passed         \* rows it may have passed over, with the cause below

storeVars == <<row, preferences, tracked>>
pageVars == <<page, start, cursor, shown>>
vars == <<storeVars, pageVars, polls, faults, passed>>
------------------------------------------------------------------------------
Visible == {i \in Ids : row[i] = "visible"}

\* latest_notification_id
Latest == Max(Visible \cup {0})

\* notification_preferences: the types that are enabled, and the scope.
Wanted(i) ==
  /\ Kind[i] \in preferences.kinds
  /\ preferences.scope = "ALL_SYMBOLS" \/ SymbolOf[i] \in tracked

WantedAfter(after) == {i \in Visible : i > after /\ Wanted(i)}

\* Mutant of the next definition: the newest rows first.
MutNewestFirst(after) ==
  {i \in WantedAfter(after) : Cardinality({j \in WantedAfter(after) : j > i}) < Limit}

\* site_events_after: the first rows above the cursor, at most Limit.
SiteEventsAfter(after) ==
  {i \in WantedAfter(after) : Cardinality({j \in WantedAfter(after) : j < i}) < Limit}

\* What an answer passes over: rows that are not wanted, and rows beyond the
\* limit.
PassedOver(after) ==
  {i \in Visible : /\ i > after
                   /\ Wanted(i) => Cardinality({j \in WantedAfter(after) : j < i}) >= Limit}

Poll(stage, after) ==
  [stage |-> stage, after |-> after, before |-> shown, events |-> {}, latest |-> 0, passed |-> {}]

Init ==
  /\ row = [i \in Ids |-> "free"]
  /\ preferences \in Preferences /\ tracked \in Groups
  /\ page = "closed" /\ start = 0 /\ cursor = 0 /\ shown = {}
  /\ polls = [k \in Slots |-> NoPoll]
  /\ faults = 0 /\ passed = {}
------------------------------------------------------------------------------
\* An insert draws the next value of the sequence.
Draw(i) ==
  /\ row[i] = "free" /\ \A j \in Ids : j < i => row[j] # "free"
  /\ row' = [row EXCEPT ![i] = "drawn"]
  /\ UNCHANGED <<preferences, tracked, pageVars, polls, faults, passed>>

\* The rows of a transaction become visible together.  Those the page's
\* cursor or a poll in flight has gone beyond are passed over.
CommitRows(S) ==
  /\ S # {} /\ \A i \in S : row[i] = "drawn"
  /\ row' = [i \in Ids |-> IF i \in S THEN "visible" ELSE row[i]]
  /\ passed' = IF page = "open" THEN passed \cup {i \in S : i < cursor} ELSE passed
  /\ polls' = [k \in Slots |->
       IF polls[k] = NoPoll \/ polls[k].stage = "sent" THEN polls[k]
       ELSE [polls[k] EXCEPT !.passed = @ \cup
               {i \in S : polls[k].stage = "answered" => i < polls[k].latest}]]
  /\ UNCHANGED <<preferences, tracked, pageVars, faults>>

RollBack(i) ==
  /\ row[i] = "drawn"
  /\ row' = [row EXCEPT ![i] = "rolled_back"]
  /\ UNCHANGED <<preferences, tracked, pageVars, polls, faults, passed>>

UpdatePreferences(new) ==
  /\ preferences' = new
  /\ UNCHANGED <<row, tracked, pageVars, polls, faults, passed>>

SaveGroups(new) ==
  /\ tracked' = new
  /\ UNCHANGED <<row, preferences, pageVars, polls, faults, passed>>

\* loadConfig: what is there when the page opens is not news to it.
LoadConfig ==
  /\ page = "closed"
  /\ page' = "open" /\ start' = Latest /\ cursor' = Latest
  /\ UNCHANGED <<storeVars, shown, polls, faults, passed>>

\* The timer of startEventPolling; an earlier poll may still be under way.
SendPoll(k) ==
  /\ page = "open" /\ polls[k] = NoPoll
  /\ polls' = [polls EXCEPT ![k] = Poll("sent", cursor)]
  /\ UNCHANGED <<storeVars, pageVars, faults, passed>>

\* The route's first read.
ReadEvents(k) ==
  /\ polls[k] # NoPoll /\ polls[k].stage = "sent"
  /\ polls' = [polls EXCEPT ![k].stage = "events",
                            ![k].events = SiteEventsAfter(polls[k].after),
                            ![k].passed = PassedOver(polls[k].after)]
  /\ UNCHANGED <<storeVars, pageVars, faults, passed>>

\* The route's second read.
ReadLatest(k) ==
  /\ polls[k] # NoPoll /\ polls[k].stage = "events"
  /\ polls' = [polls EXCEPT ![k].stage = "answered", ![k].latest = Latest]
  /\ UNCHANGED <<storeVars, pageVars, faults, passed>>

\* Mutant of the next definition: the answer replaces the cursor.
MutAnswerIsCursor(answer) == Max({answer.latest} \cup answer.events)

CursorAfter(answer) == Max({cursor, answer.latest} \cup answer.events)

\* pollEvents receives its answer.
Receive(k) ==
  /\ polls[k] # NoPoll /\ polls[k].stage = "answered"
  /\ shown' = shown \cup polls[k].events
  /\ cursor' = CursorAfter(polls[k])
  /\ passed' = passed \cup polls[k].passed
  /\ polls' = [polls EXCEPT ![k] = NoPoll]
  /\ UNCHANGED <<storeVars, page, start, faults>>

\* Mutant of the next definition: a failed poll is taken to be under way.
MutStaysInFlight(k) ==
  /\ polls[k] # NoPoll /\ polls[k].stage # "failed" /\ faults < MaxFaults
  /\ faults' = faults + 1
  /\ polls' = [polls EXCEPT ![k].stage = "failed"]
  /\ UNCHANGED <<storeVars, pageVars, passed>>

\* A failed poll is quiet: the next one asks again.
PollFails(k) ==
  /\ polls[k] # NoPoll /\ faults < MaxFaults
  /\ faults' = faults + 1
  /\ polls' = [polls EXCEPT ![k] = NoPoll]
  /\ UNCHANGED <<storeVars, pageVars, passed>>

Next ==
  \/ \E i \in Ids : Draw(i) \/ RollBack(i)
  \/ \E S \in SUBSET Ids : CommitRows(S)
  \/ \E new \in Preferences : UpdatePreferences(new)
  \/ \E new \in Groups : SaveGroups(new)
  \/ LoadConfig
  \/ \E k \in Slots : \/ SendPoll(k) \/ ReadEvents(k) \/ ReadLatest(k)
                      \/ Receive(k) \/ PollFails(k)

\* The timer goes on while the operator comes back to the page, and what is
\* asked is answered or fails.
Spec ==
  /\ Init /\ [][Next]_vars
  /\ \A k \in Slots : WF_polls(SendPoll(k)) /\ WF_polls(ReadEvents(k) \/ ReadLatest(k) \/ Receive(k))
------------------------------------------------------------------------------
TypeOK ==
  /\ row \in [Ids -> {"free", "drawn", "visible", "rolled_back"}]
  /\ page \in {"closed", "open"}
  /\ start \in 0 .. MaxId /\ cursor \in 0 .. MaxId
  /\ shown \subseteq Ids /\ passed \subseteq Ids
  /\ polls \in [Slots -> PollState \cup {NoPoll}]

(* A poll brings nothing that the page had shown when it was sent: a toast *)
(* is repeated only by polls that overlap.  An answer that comes after a   *)
(* later one must not move the cursor back.                                *)
NothingShownIsAskedAgain ==
  \A k \in Slots : polls[k] # NoPoll => polls[k].events \cap polls[k].before = {}

(* A row that the cursor has gone beyond without a toast was passed over   *)
(* for one of four causes: it was not wanted when it was asked for, the    *)
(* answer was full, it was committed between the two reads of an answer,   *)
(* or after a row with a larger id.                                        *)
PassedForACause ==
  page = "open" =>
    \A i \in Visible : start < i /\ i <= cursor => i \in shown \cup passed

(* Whatever fails or is overtaken, a page comes to every row that is       *)
(* committed after it was opened: it shows it or passes it over.           *)
RowsAreReached ==
  \A i \in Ids : (page = "open" /\ i \in Visible /\ i > start) ~> (i \in shown \cup passed)
==============================================================================

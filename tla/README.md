# Formal model of EDGE 2

EDGE 2 receives observations of financial instruments from TradingView
webhooks, decides from them which price range of an instrument is its active
*MRZ* (the authority), lets an operator promote a candidate that narrowly
missed the production rule, follows the trades that a second emitter (TradeDesk)
reports, and notifies browsers by Web Push and in the open page.  It is one
FastAPI process over PostgreSQL; every write is a transaction under advisory
locks, every accepted write starts a background pass that reconciles
notifications and sends them.

## 1. Inventory

| Component (source) | State it keeps | Operations | Modelled in |
|---|---|---|---|
| Concentration and structure (`app/concentration.py`, `app/structure.py`) | none | seed selection, expansion, verdict, structural location | `Structure`, `Concentration`, `ConcentrationSpec` |
| State engine (`app/state_engine.py`, `app/domain.py`) | authority and event history of one replay | activate, promote at trigger, support, migrate, change route | `Observations`, `StateEngine` |
| Symbol store and promotion (`app/repository.py`) | `observations`, `active_mrz`, `mrz_events`, `operator_mrz_promotions`, `mrz_production_confirmations` | ingest, duplicate, review, promote, confirm | `NearMiss`, `SymbolStore` |
| Near-miss episodes (`app/repository.py`) | `current_production_near_miss_episodes` | reconcile on every webhook, close on promotion | `NearMissEpisodes` |
| Push delivery (`app/notifications.py`) | `web_push_notifications`, `_subscriptions`, `_delivery_attempts`, preferences | list, claim, send, record, subscribe, disable | `PushContract`, `PushDelivery` |
| Notification outbox (`app/notifications.py`) | `web_push_notifications` | reconcile transitions and episodes into rows, recover at the start | `NotificationOutbox` |
| Post-activation pressure (`app/mrz_robustness.py`, `app/notifications.py`) | `post_activation_pressure_states` | snapshot and classify, compare and persist, announce | `PostActivation`, `Pressure` |
| TradeDesk lifecycle (`app/validation.py`, `app/tradedesk_entry.py`, `app/repository.py`) | lifecycle events, setups, entry attempts, trade results | validate, ingest, project, refresh, rebuild | `TradeDeskEvents`, `TradeDesk` |
| Reconciliation tool (`app/reconciliation.py`) | none of its own | dry run with digest, apply, verify | `Reconciliation` |
| Site events (`app/notifications.py`, `app/api.py`, `app/static/notifications.js`) | the page's cursor, preferences, saved groups | poll, show | `SiteEvents` |
| Near-miss diagnosis, API, migrations, reports, groups and taxonomy, pages, Pine scripts | none, or one row at a time | | not modelled (section 8) |

How they interact.  A webhook calls `ingest`: under the symbol's advisory lock
it inserts the observation, replays all of the symbol's observations with the
state engine, replaces the derived rows, refreshes the symbol's trade results,
then takes the lock of the episodes and reconciles the episodes of *every*
symbol, and commits.  A promotion takes the symbol's lock only, re-evaluates
the near misses, compares the candidate's identity with the one the operator
saw, inserts the promotion row, replays and closes the symbol's episodes.  Both
schedule a background pass, which turns new events and episodes into outbox
rows, evaluates the pressure on the authority, and works through the pairs of
notification and subscription that still need an attempt.  A TradeDesk event is
ingested under the lock of its setup, not of its symbol.  The reconciliation
tool takes the symbols' locks.  Open pages poll the outbox.

What is hard to test, and is in `PROJECT.json` as hazards:

- observations arrive late, so history is rewritten by a replay whose prefix
  must not move and whose promotion must not get lost;
- exact boundary arithmetic decides who succeeds whom, and which level of a
  trade counts;
- webhooks of different symbols and a promotion interleave inside the
  reconciliation of the episodes, whose statements see different snapshots;
- pressure is computed in one transaction and persisted in another;
- events of one trade arrive in any order, and a refresh overlaps them under
  another lock;
- several background passes send from listings that went stale, die between
  claim and record, and see the subscription expire or come back meanwhile;
- retried or rewritten events must not be announced twice, and what was
  committed before a crash or a failed answer must still be announced;
- a plan is applied to a database that moved since it was reviewed;
- a page polls by id while ids become visible out of order.

## 2. Modules

### The evaluators: `Structure`, `Observations`, `Concentration`, `NearMiss`, `PostActivation`

Operators only.  Prices are integers, the allowance is a fraction `num/den` of
the frame's width, and midpoints are compared doubled, so no rounding is
introduced: the code uses `Decimal`.  Display texts are left out.
`ConcentrationSpec` grows the evidence of one route by one observation at a
time and compares the algorithm with definitions that search every group of
observations instead of scanning sorted windows.  `PostActivation` is
`active_mrz_report`: the evidence after the activation, split by the envelope,
the direction with its material dominance and its recent regime, and the
successor groups; percentages and labels are left out.

### `StateEngine` and `SymbolStore`

`StateEngine` is the replay loop of `replay_symbol`; one `Deliver` is one
iteration.  `seen` is what has been iterated over, `active` and `transitions`
are the local variables of the loop, `promotion` is its argument.  The
evaluator is a CONSTANT operator `Evaluate`: `MCStateEngine` gives it the real
algorithm of `Concentration`, the engine's proofs use only `EvaluatorContract`,
and the algorithm is proved to keep that contract (section 5).

`SymbolStore` extends `StateEngine`: its variables are the tables, and each
action is one transaction under the symbol's lock.  Its derived rows are
replaced by a replay of all rows.  `Replay` is a recursive function on sets of
observations: the replay of a set is one iteration for its newest observation,
from the replay of the rest.  So `InOrderStepsDeliver` is the statement that
the store implements the engine: an event that is newest by the canonical order
moves the tables by `StateEngine!Deliver`.

### `NearMissEpisodes`

Several symbols.  An ingest is two steps, because other transactions commit
between the reconciliation's reads: `BeginIngest` takes both locks and reads
the observations and the active symbols (READ COMMITTED: each statement has
its own snapshot), `CommitIngest` reads the open episodes, writes and commits.
Between the two nothing but a promotion can commit.  A promotion is two steps
as well: the update of the open episodes it can see, and the commit.  The
evaluators are tables (`AuthorityOf`, `NearMissesOf`); `MCNearMissEpisodes`
fills them with `SymbolStore!Replay` and `NearMiss!CurrentNearMisses`.  A
symbol with a promotion row counts as active, which is what `SymbolStore`
checks as `PromotionKeepsAuthority`.  Not a behaviour of its own: a promotion
whose update waits for a reconciliation that already holds the rows; it then
misses an episode that the reconciliation inserts, an outcome that is also
reached when the promotion begins earlier.

### `PushContract` and `PushDelivery`

`PushContract` is what delivery promises for a pair of notification and
subscription, without passes or listings: attempts one after another, each
pushed at most once, nothing after a settled outcome, no success without a
push.  `PushDelivery` has the outbox rows as given.  A pass is `BeginPass` (the
listing), and for each pair `Claim`, `Send`, `Record`: three transactions or
calls with the network in between.  The push service's answer is
nondeterministic, and an exception may follow a push that reached the device.
`Abandon` is a crash, or a database error, at any point of a pass.  `created`
and `since` stand for the timestamps that `pending_deliveries` compares: a
subscription's `since` is the notifications created after its `enabled_at`.
`KeepsContract` is the refinement: `tries` is the number of attempt rows of a
pair, `outcome` the last of them, `pushes` what the device received.

### `NotificationOutbox` and `Pressure`

Both extend `SymbolStore` by what the API does around it.  A webhook or a
promotion commits and then schedules a pass (`due`); if reading the answer's
detail fails in between, the commit stays and no pass is scheduled.  A crash
forgets what is scheduled.  `failed` is a history variable: the triggers whose
pass or answer failed since the start.

In `NotificationOutbox`, `Pass` is `process_trigger_event` and inserts the rows
of one trigger, `Restart` is `recover` and inserts all that are missing.
`old` is what was received before the cutover of migration 006, `Baseline` the
rows that migrations 005 and 006 leave.  `promotedOver` is a history variable:
the observations that were stored when the promotion was accepted.  Which near misses become deliverable
entries is what `NearMissEpisodes` checks as `EntriesAreAnnounced`, for a
symbol that is not active; here they are a set of keys.

In `Pressure`, a pass is two transactions.  `Snapshot` reads the authority and
the observations and derives the report; `Persist` compares the report with
what is stored by then (`Current`) and writes the lifecycle's row and at most
one announcement.  `received` is the order of receipt, which is what "newest"
means to the code, and `cutover` how many were received before the feature;
what is stored at the deployment was received in one of `Receipts`, the orders
in which only late observations come after ones that are newer.  `promotedAt` is
how many had been received at the promotion: that a lifecycle is live is read
from the evidence up to a receipt, and the promotion counts from there on.

### `TradeDeskEvents` and `TradeDesk`

`TradeDeskEvents` is the request model: decoding a compact message
(`NormalizeCompactSchema12`: level masks, the ladder rebuilt from four bounds
and a tick, excursions) and what it must satisfy (`EntryContract`).
`TradeDesk` is one symbol's tables.  An ingestion, under its setup's lock, and
a webhook's refresh of the trade results, under the symbol's lock, are two
steps each: the reads that the last write is computed from, and the commit.
The projections are operators of a row and an event (`MergedSetup`,
`MergedAttempt`) or of all events of an entry (`EntryStatus`, `TradeResult`).
Times are bars.  `Messages` are what the emitter may send; what the endpoint
stores is `Accepted`, those that pass the request model.

### `Reconciliation`

`DryRun` is one read-only snapshot, and its reports are what the operator
reviews (the digest is the set of reports).  An apply is one READ COMMITTED
transaction, statement by statement: names, advisory locks, the plan, the
replacement, the verification, the commit, with `pc` standing for the place in
the code; `View` is what its own statements see.  A webhook on a symbol is one
step and waits for the locks.  What replay derives is a constant, one table for
each production rule; a deployment installs the next rule.  How an apply ends is
its last `pc`: `Refused` are the ends that its operator must look into,
`"unknown"` is a symbol named without a plan that has no active row or no
observation, `"failed"` a statement of the replacement that raised.
`disturbed` is a history variable: what others wrote or deployed since the tool
first looked.

### `SiteEvents`

The page's cursor and its polls.  `Draw` and `CommitRows` separate the drawing
of an id from its visibility.  The route's two reads, `ReadEvents` and
`ReadLatest`, are two steps, since they use two connections.  The timer sends a
poll whether or not an earlier one was answered; `Receive` and `PollFails` come
in any order.  `passed` is a history variable: rows an answer left out, with
the cause.

### Proofs

`SymbolStoreProofs` (the algorithm, the engine and the store), `OutboxProofs`, `PressureProofs`,
`PushDeliveryProofs`, `NearMissEpisodesProofs`, `SiteEventsProofs`,
`TradeDeskProofs` and `ReconciliationProofs` hold the proofs (section 5).

## 3. Runs

| Run | Question | Bounds and why they suffice |
|---|---|---|
| `concentration` | does the window scan decide what an exhaustive search decides? | up to 5 observations, a window of 4 and groups of 3, prices with ties and gaps, two frames: evidence ages out, ties are broken, the frame of the newest counts |
| `state_engine` | is every history a chain of exact, external successions? | seven slots of two observations, each may be skipped, with and without a promotion; activates, supports, migrates down, up and across EQM, ages out of a window of 3 |
| `symbol_store` | does the store implement the engine, and do late events, promotions and confirmations keep what was decided? | eleven observations delivered in any order, with duplicates and a promotion in between |
| `near_miss_episodes` | do the episodes follow the list? | two symbols, both routes, all 256 sets of rows a migration may find, one late observation that withdraws an authority and one that moves a candidate; promotions at every point |
| `promotion_closes_episodes` | does a promotion close its symbol's episodes? | as above from an empty database; violated (section 6) |
| `push_delivery` | do concurrent passes together keep the contract of a pair, and does every wanted delivery settle? | three passes on one pair, two of them cut short, three attempts, two keys: one pass sends, one has a stale listing, one arrives after; pairs are independent, and the theorems are about any number of them |
| `notification_outbox` | is every event announced once, is none forgotten, is history silent? | six observations in order, each repeatable: an activation or a promotion, a migration across EQM, a promotion that migrates at once to evidence already stored, entries on the list; deployment over an empty and over an active history; two crashes, failed answers or failed passes, so that a recovery may fail after a crash |
| `tradedesk` | do the rows depend on the order of arrival, and is a result that was written from current reads right? | up to four of fifteen messages, of which one is refused by the request model: three setup events beside the target, the touch and the invalidation of a first entry, of a second entry a touch, a confirmation, three reaches, a stop, a target, an ambiguity and a stop on the bar of the confirmation; a migration on the bar of the exit or none; four events are a confirmation, two reaches and a terminal in any order |
| `trade_result_race` | is every result at rest that of its evidence? | as above; violated (section 6) |
| `pressure` | is the persisted pressure that of its evidence, are alarms real, does a row that is behind catch up? | six observations, one of which may be late and one repeated; two passes at a time, so one is overtaken by the other; a promotion, one fault; deployment over nothing or over a lifecycle already under pressure, received in either order that its late observation allows |
| `reconciliation` | is what an apply commits in step and reviewed, does a refusal have a cause, do two applies ever wait for each other? | two symbols, two applies of all or one symbol, five states an earlier rule may have left (another authority, the same by another history, none, or one the replay does not have), the observations not yet stored received meanwhile, and one deployment of another rule |
| `site_events` | what does a page ask for again, pass over and reach? | two rows committed in either order or rolled back, an answer of at most one row, two polls at a time, two of which fail; preferences and groups that change; two rows are enough for an id below the cursor, and the theorems are about any number |

Late and duplicated webhooks are orders of `Ingest`.  Every write is one
transaction, so a crash loses only what is in memory: a pass under way
(`PushDelivery!Abandon`) and the passes scheduled (`NotificationOutbox!Crash`,
`Pressure!Crash`).

Type correctness of `StateEngine`, `PushDelivery`, `NearMissEpisodes`,
`SiteEvents`, `TradeDesk` and `Reconciliation` is a theorem, not a run; that of
the store, the outbox and the pressure is part of their invariants.

Every property has a mutant of the code that violates it (`PROJECT.json`,
`mutants`): a definition `Mut...` next to the one it changes.

`CHECK_DEADLOCK FALSE` is set where the model runs out of its finite
observations or requests; the system then waits for the next.

## 4. Fairness

- `PushDelivery`: each pass has weak fairness on its own steps: beginning
  (every webhook, promotion and start of the process begins a pass, and
  webhooks keep arriving), claiming, sending (the sender has a timeout, after
  which it raises), recording.  The operator's actions and crashes have none;
  crashes are bounded by `MaxAbandoned`.  `DeliveriesSettle` says a wanted
  delivery becomes delivered, refused or out of attempts, with one exception it
  names: `Orphaned`.  A process that dies between claim and record leaves a
  `CLAIMED` row, the listing skips it, and nothing ever settles it.
  docs/web-push.md accepts this ("at most once" over a crash).
- `NotificationOutbox`, `Pressure`: a scheduled pass runs (the framework runs
  background tasks after the response, in its thread pool) until it ends, well
  or with an exception, and a process that is down is started again.  Passes
  that fail and crashes have no fairness and are bounded by `MaxFaults`.
  Nothing makes a failed pass run again but the next start or a repeated
  webhook, so the liveness properties except what is in `failed`.
- `Reconciliation`: an apply that has begun goes on as soon as no lock stops
  it.  No other step is fair: no webhook or operator has to come.
- `SiteEvents`: the timer goes on and what is asked is answered or fails.
  Failures are bounded; the poll that follows one asks again.

The other specifications state no fairness and claim no liveness.

## 5. Proofs

All theorems hold for every value of the constants, under these assumptions,
which TLC evaluates on the instances of the runs:

- `RouteWindowAssumption`, `NoMRZAssumption`, `BoundsAssumption`,
  `SiteEventsAssumption`, `NoPollAssumption`: the kinds of the constants, and
  that a null value is not a record;
- `ObservationAssumption`: observations have ids of their own, and so are
  totally ordered by the canonical key (`order_key` ends in the row id);
- `NearMissContract`: a near miss is of a route and has integer bounds, and its
  newest observation is the newest of that route among those evaluated;
- `DeploymentAssumption`, `PressureAssumption`: what was stored at a deployment
  is a finite set of observations;
- `PromotionAssumption`: a promotion row has ordered bounds, a CHECK of
  migration 008;
- `EvaluatorContract`: of a finite set of observations, a qualifying cluster is
  a part that contains the newest of the route, and its bounds are prices of
  members between which all members lie.  Both contracts are theorems about the
  algorithms of `Concentration` and `NearMiss`, so a reader who gives `Evaluate`
  and `NearMisses` those values assumes neither;
- `RuleAssumption`, `EvidenceAssumption` (ConcentrationSpec): prices and frames
  are integers, a frame has a width (`evaluate_concentration` raises on one that
  has none), an allowance is a fraction of it that is not negative, and the
  compared scenarios differ as their names say;
- `EventsAssumption` (TradeDesk): times and identities are integers, an identity
  is of one event (`event_id` is unique), an event has all RR columns, and NULL
  is not a row, an event or a time;
- `ReconciliationAssumption`: there is a symbol, symbols are ordered, the
  deployed rows and observations are functions of the symbols, rows are an
  active row and a history, no evidence gives no rows;
- `EvaluatorAssumption` (episodes): the near misses of a set of rows are at
  most one per route, and each names a row of the set as its newest.

`SymbolStoreProofs`, the algorithm: `VerdictTheorem` (`VerdictIsExhaustive`),
`SeedIsTightestTheorem` (`SeedIsTightest`), `CoreTheorem`
(`CoreIsMaximalInterval`), `ScenariosTheorem` (`ScenariosAreOrdered`), and
`AlgorithmQualifiesProperly` and `NearMissesAreCandidates`, the two contracts.
The argument that a scan of sorted windows misses no group is `GroupHasWindow`:
the members of a group occupy places between a first and a last; a run of as
many places around the newest observation fits between these two and spans no
more.  What the greedy expansion comes to is known by a smallest counterexample
on the room that is left at the ends (`Expansion`): both neighbours are too far.
Then so is everything beyond them, and an observation that has the price of an
end cannot be beyond it (`CoreOf`).  `PriceSorted` puts each observation at the
place that the number of cheaper ones gives (`Ranks`); tlapm does not expand the
`SortSeq` of the TLC module, so the sort is defined that way.  `Verdict` collects
what is proved of one window; the invariants follow from it and from
`EvidenceInv`.

`SymbolStoreProofs`, the engine: `TypeCorrect`, `ChainTheorem`
(`HistoryIsAChain`), `ExternalTheorem` (`SuccessorIsExternal`), `EnvelopeTheorem`
(`EnvelopeHolds`).
The chain is inductive together with the types: each branch of the loop appends
nothing, one event or two, and the lemmas on `Append` carry the entries before
it.  The route change that follows a migration is the case that makes the last
entry's `new`, not its position, the thing to relate to the active authority.
That a migration lands beyond the envelope needs the contract: the bounds are
prices of members, and every member of the successor pool is strictly outside
on one side.  `EnvelopeTheorem` is the converse: a step that migrates was taken
by an observation outside.

`SymbolStoreProofs`, the store: `StoreInvariant`, `PromotionKeepsAuthorityTheorem`,
`StoredHistoryTheorem` (`HistoryIsAChain` and `SuccessorIsExternal`, of the stored
rows), `InOrderTheorem` (`InOrderStepsDeliver`), `LateEventsTheorem`
(`LateEventsKeepThePast`), `ConfirmationTheorem` (`ConfirmationIsRetained`),
`PromotionTakesEffectTheorem`.  `Replay` is a recursive function, and the library
proves by induction only with an operator as a parameter, so what is said of
every replay is said by a smallest counterexample: a set of stored observations
that lacks the property while each of its proper subsets has it
(`SmallestExists`).  So it is proved that the replay exists and satisfies its
equation (`ReplayEquation`), and that it has the shape of a history: typed, a
chain, each entry caused by an observation of the set, in their order, with a
promotion's activation in it (`ReplayShape`).  The invariant is then short:
`StoreInv` says that the rows are the replay of what is stored, that the
promotion's trigger is stored, and that the confirmation is that of the rows.
`LateEventsTheorem` compares two replays, of which one has an observation more:
they are equal up to it, again by a smallest counterexample.

`OutboxProofs`: `AnnouncedOnceTheorem`, `DeploymentIsSilentTheorem`,
`NothingIsForgottenTheorem`, each under `Late = {}`: webhooks arrive in the order
of their observations.  A late one renumbers the history and with it the keys
(section 6, item 6), which is what the invariant rests on.
`AnnouncedOnce` speaks of keys, which hold sequence numbers; so the invariant
`OutboxInv` adds to `StoreInv` that every row is of an entry or of an event of the
history under the key that the event still has, and that the history still
begins with what it was at the cutover, whose rows are there and are not to be
delivered.  A step in order extends the history (`InOrderExtends`), so no key moves; that an observation causes at most
one activation or migration (`ReplayHasOneEach`) makes its keys distinct; and a
promotion finds no authority, so no history that it could renumber.  What is
notifiable and has no row waits for somebody: `NothingIsForgotten` is inductive
only together with that.

`PressureProofs`: `PressureInvariant`, `PersistedTheorem`
(`PersistedMatchesEvidence`), `RepeatedAlarmsTheorem` (`RepeatedAlarmsAreReal`),
`DeploymentIsQuietTheorem`, `GivingUpTheorem` (`GivingUpIsSafe`); late
observations are admitted.  The properties speak of what a lifecycle's direction
*was*, so `PressureInv` does as well: a row's direction is the one its lifecycle
had when the row's observation was the newest received, a report that is still
of the newest observation is of the authority and evidence of now, and between
an announcement and its row, or the next announcement, there is a receipt after
which the lifecycle had another direction, unless the row still has it.  Since
it is stated of the receipts up to a place, a later receipt, however late its
observation, disturbs none of it (`PastKept`).

`PushDeliveryProofs`: `TypeCorrect`, `ExclusiveClaims` (`ClaimsAreExclusive`),
`RetryTheorem`, `PushTheorem` (`PushesAreAttempts`), `SettledTheorem`,
`ExpiryTheorem` (`ExpiryIsPermanent`), `ContractTheorem` (`KeepsContract`).
`ClaimsAreExclusive` is not inductive: a claim appends to a list whose last
element another pass might hold open.  The invariant `IInv` adds that only the
last attempt of a pair may be open or unretried (`OnlyRetryableIsRetried`), and
that a pass that is still sending has not yet been counted
(`SendingIsUnanswered`, which `PushesAreAttempts` needs: a push is counted when
sent, an attempt when claimed).  The refinement needs one more invariant,
`SuccessWasPushed`: a pass that holds an answer of success, and a delivered
pair, have a push.  Each claim maps to `Attempt`, a send that reaches the
device to `Push`, a record to `Settle`, everything else to a stutter.

`NearMissEpisodesProofs`: `TypeCorrect`, `ListedTheorem`
(`OpenEpisodesAreListed`), `MembershipTheorem` (`MembershipIsOneEpisode`),
`EntriesTheorem` (`EntriesAreAnnounced`).  A reconciliation writes what it
derived from reads that promotions may have outdated.  `ReconcilingInvariant`
says how far: its observations are those it will commit over, and its active
symbols lack only symbols promoted since; `PromotionInvariant` says the same of
a promotion's update.  `TriggersAreStored` makes the key of a new episode new:
its trigger is the observation being ingested.

`SiteEventsProofs`: `TypeCorrect`, `AskedOnceTheorem`
(`NothingShownIsAskedAgain`), `PassedTheorem` (`PassedForACause`).  Both
properties speak of the cursor, and what moves it is an answer read earlier, in
two reads, while rows became visible below and above.  `CursorInvariant` and
`PollInvariant` say what the cursor and each poll in flight still owe.  That
the latest id is a maximum is a lemma from the well-foundedness of the naturals.

`TradeDeskProofs`: `TypeCorrect`, `SetupsTheorem` (`SetupsSummariseEvents`),
`FrozenTheorem` (`FrozenFieldsStand`), `AttemptsTheorem`, `StoryTheorem`.  A setup's row is written event by event
and the property is about their set, so the invariant is the property itself,
column by column, with the types; the time of the last event is carried as a
bound that an event reaches, and turned into `Max` at the end.  Only the lock of
the setup makes the merge one of the row that the ingestion has read.

`AttemptsTheorem` is `AttemptsFollowMarketTime` under `EntriesAreFrozen`: the
emitter writes an entry's zone, direction and touch once and never changes a
grade, price, stop or confirmation that it has written.  `f_queueEntryEvent`
(`pine/TradeDesk.pine:2155`) sends all of them with every event, from variables
that the touch (2388) and the confirmation (2426) assign; the minimum grade is a
setting, the same as long as the script's settings are.  Without it the first
event to arrive decides, and `COALESCE` keeps what it brought, so the hypothesis
is needed.  `EntriesFollow` is the invariant: the status and the last time are
those of the set of events (this needs no hypothesis), and each column is that
of the events that have one.  Under the hypothesis one row at most fits a set
of events (`OneRow`), so it remains that the recursion that defines
`InMarketOrder` has a solution (`RecursionExists`) and that every solution gives
rows that fit (`RecursionGivesRows`), both by a smallest counterexample among
the sets of events.  TLC evaluates `EntriesAreFrozen` of the run's messages.

`StoryTheorem` is the first half of `CurrentWritesAgree` (`SameStory`): a write
of a result from reads that still hold leaves a result if and only if the
confirmation was received, opened when its entry was confirmed, with the outcome
that the entry's status has, closed unless open, and with the migrations of the
time in between.  `_tradedesk_entry_status` counts every terminal,
`_rebuild_tradedesk_trade_result` those later than the confirmation; they agree
because the request model refuses a terminal on the bar of its confirmation
(`MessageContract`) and the confirmation time is frozen (`ConfirmedTimes`).  It
assumes further `InvalidatedIsNotConfirmed`: the emitter, which leaves state 1
when it invalidates (`pine/TradeDesk.pine:2314`), does not confirm that attempt
(2416); the server would give its row and its result different endings.
`NullIsNoResult` says that NULL is not a row.  That nobody overtook a write is
`CurrentWrite`; `RefreshFollows` turns "no event came since" into "the entries
are those I read".

`ReconciliationProofs`: `TypeCorrect`, `RefusalTheorem` (`RefusalsHaveACause`),
`AppliedTheorem` (`AppliedIsInStep`), `ReviewedTheorem` (`OnlyReviewedChanges`),
`LockOrderTheorem`.  The first property says what an apply does *not* do, so `IInv` follows a run for as
long as there is no cause: what its operator reviewed is still so
(`PlanStands`), each statement reads the same rows whatever came between, a
report of the first pass is that of the committed rows, and what the run has
replaced, or has found not to differ, is in step in the second
(`PassStands`).  `SameSymbols` is the lemma that a second look finds the names
of the first, also when it found none.  A commit of another tool is a cause
unless it wrote nothing, and then it changed nothing.

`AppliedTheorem` and `ReviewedTheorem` assume `[]FoundASymbol`: an apply under
way found a symbol when it began.  They cannot be theorems of all constants
without it: a tool that found no symbol works on all of them later without their
locks (section 6, item 7), also on one that another apply has verified and is
about to commit.  The run of `reconciliation` does not assume it, and has such a
tool meet another apply.  `OwnedInv` says what an apply owns: it holds the lock
of every symbol it has come to and of every symbol its reports cover (`Holds`),
so nobody else writes their evidence or their rows, and its reports are those of
the committed rows or of its own writes (`Follows`).  A deployment is not kept
out by a lock: the model lets one happen only while no apply is under way, since
whoever deploys runs the tool, and the invariant uses that.

`LockOrderTheorem` needs no hypothesis: an apply waits only for a symbol ranked
above every symbol it holds (`_symbol_names` sorts), so applies never wait for
each other in a circle.  That they end, `AppliesEnd`, is this and fairness, and
is TLC's.

Only model-checked:

- liveness;
- which candidates are near misses (`NearMiss`; that each keeps its contract is
  proved);
- the reached levels of a trade result (`CountsReaches`, the second half of
  `CurrentWritesAgree`).  That a reach names a step of its entry's ladder, at
  the ladder's price, is the emitter's, and the theorem would have to assume of
  it most of what the property says.

## 6. Disagreements between code and documentation

Two are runs that TLC violates, and findings in `PROJECT.json`:

1. `PromotionClosesEpisodes` (`promotion_closes_episodes`).  A webhook of
   another symbol has read the active symbols, the promotion commits, the
   webhook finds no open episode for a history it takes as listed and opens one
   for the promoted symbol.  The next accepted webhook of any symbol ends it as
   `SYMBOL_ACTIVATED`, not as `OPERATOR_PROMOTED`.
2. `ResultsFollowEvidence` (`trade_result_race`).  A webhook's refresh reads an
   entry's events, a stop commits its own result, and the refresh writes `OPEN`
   over it; or an ingestion reads the migrations before one commits.  The two
   hold different locks.  The row stays so until the symbol's next write.

Others were met while modelling.  No run holds them; the properties are stated
so that they hold in spite of them, or say where they do not apply:

3. A late observation that completes a production cluster before a promotion's
   trigger makes the lifecycle `PRODUCTION_QUALIFIED`
   (`app/state_engine.py:173`); README.md:124 calls the promotion an immutable
   origin.  The promotion row stays.
4. A late observation takes a symbol's authority away and lists it again.  The
   list before the webhook is computed as if the symbol had not been active
   (`app/repository.py:1994`), so the entry is a baseline, not announced, and
   its key may be that of an episode that ended at the activation: then no
   episode is opened at all.  `EntriesAreAnnounced` excepts active symbols.
5. A promotion closes the episodes of both routes of its symbol and writes the
   promoted route's candidate into both snapshots (`app/repository.py:1812`).
6. The key of an event holds its sequence number (`app/domain.py:153`).  A late
   observation that puts a migration before an announced one renumbers it, and
   the next start or repeated webhook announces the same migration again.
   `notification_outbox` therefore admits no late observation.
7. `if symbols` takes an empty tuple for "all" (`app/reconciliation.py:186`): a
   tool that found no active symbol reports, in its later passes, on symbols
   that became active since, unlocked.
8. A reviewed plan that covers a symbol whose replay has no authority cannot be
   applied, however often it is reviewed: the verification refuses it
   (README.md:156 describes apply without that case).
   `RefusalsHaveACause` names it as a cause.
9. An open page never shows a row that was committed after one with a larger
   id, or between the two reads of an answer (`app/api.py:577`), or that is
   beyond the tenth of an answer whose latest id becomes the cursor
   (`app/notifications.py:656`).  Polls overlap (`notifications.js:317`), so a
   toast may be shown twice.  These are the causes of `PassedForACause`; the
   push and the inbox still have the row.
10. A promotion replays all stored observations (`app/repository.py:1786`), so
   right after it the authority may migrate to evidence of the other route that
   is newer than the promotion's trigger and was stored already.  The pass that
   the API schedules (`app/api.py:664`) is for the promotion's trigger; the
   migration has another, and is announced only by the next start or a repeated
   webhook.  `NothingIsForgotten` names these migrations as its exception, and
   its run reaches one.

## 7. Where to go on

- A refinement of an abstract outbox that announces each event once, by
  `NotificationOutbox`; of an abstract authority by `StateEngine`.
- `Diagnosis`: windows and merges of closed episodes, as operators.
- The composition of `NearMissEpisodes` with `NotificationOutbox`, which share
  the key of an entry; each is checked with the other's part as a set.

## 8. Not modelled

- Near-miss diagnosis: a read model over closed episodes that stores nothing.
- The inbox: read and dismissed marks are one idempotent UPDATE each, and
  nothing else reads them.
- HTTP parsing, authentication, configuration, logging: no state that matters
  here.  What the API schedules is in `NotificationOutbox!Schedule`,
  `Pressure!SchedulePass` and `PushDelivery!BeginPass`.
- Migrations run once before the server starts; their constraints are guards
  and types of the modelled tables, their baselines are initial states.
- Peer pressure, robustness and feasibility reports: stateless statistics and
  wording.  The evaluators that decide authority, candidates and pressure are
  modelled.
- Saved groups and the taxonomy import: one-row updates.  That groups change
  while a page polls is in `SiteEvents!SaveGroups`.
- Browser pages other than the poll, and Pine scripts: outside of the server.
- Timestamps that only label rows (`created_at`, `updated_at`), the divisions
  by the initial risk in trade results, and the metrics counters.

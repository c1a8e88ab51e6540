------------------------------- MODULE Pressure -------------------------------
(***************************************************************************)
(* The persisted post-activation pressure of one symbol                    *)
(* (app/notifications.py, reconcile_pressure and reconcile_pressure_state) *)
(* beside the store whose evidence it reads.                               *)
(*                                                                         *)
(* A pass has two transactions.  Snapshot reads authority and observations *)
(* in one read-only transaction and derives the report; Persist compares   *)
(* the report with what is stored by then, under the symbol's pressure     *)
(* lock, and writes the lifecycle's row and at most one announcement.      *)
(* Webhooks, promotions and other passes may commit in between.  Persist   *)
(* reads the authority before the newest observation: a webhook that       *)
(* commits between these reads is the newest, so the pass gives up; one    *)
(* that commits later might as well come after.  So Persist is one step.   *)
(***************************************************************************)
EXTENDS SymbolStore, PostActivation

CONSTANTS Deployments,   \* what may be stored when pressure is introduced
          Late,          \* observations that may arrive after newer ones
          Repeats,       \* bound: observations whose webhook may be sent again
          MaxFaults,     \* bound on crashes and failed requests or passes
          MaxPasses      \* bound on passes that wait or run when one is added

ASSUME PressureAssumption ==
  /\ \A S \in Deployments : S \subseteq Observation /\ IsFiniteSet(S)
  /\ Late \subseteq Observation /\ Repeats \subseteq Observation
  /\ MaxFaults \in Nat /\ MaxPasses \in Nat

VARIABLES received,      \* the observations in the order of their receipt
          cutover,       \* how many were received before the cutover
          promotedAt,    \* and before the promotion, if there is one
          pressure,      \* post_activation_pressure_states, by activation
          announced,     \* the outbox rows of pressure changes, by id
          due,           \* triggers of the passes that are scheduled
          reports,       \* reports of passes between their transactions
          failed,        \* triggers whose pass failed since the start
          up,            \* the process is running
          faults         \* faults so far

pressureVars == <<received, cutover, promotedAt, pressure, announced, due, reports,
                  failed, up, faults>>
pvars == <<storeVars, pressureVars>>
------------------------------------------------------------------------------
Newest == received[Len(received)]
Position(id) == CHOOSE i \in DOMAIN received : received[i].id = id

\* promoted_at, or else received_at of the activation, is past the cutover.
LifecycleIsLive(activation) ==
  \/ promotion # NoMRZ /\ promotion.trigger = activation /\ promotedAt >= cutover
  \/ \A i \in 1..cutover : received[i].id # activation

\* What a pass derives from its snapshot, for the newest observation in it.
SnapshotReport(trigger) ==
  [trigger |-> trigger, activation |-> active.trigger, newest |-> Newest.id,
   report |-> ActiveMRZReport(active, seen)]

\* Mutant of the next definition: a newer observation is not looked for.
MutIgnoreNewer(r) ==
  /\ active # NoMRZ /\ active.trigger = r.activation
  /\ r.activation \in DOMAIN pressure =>
       Position(pressure[r.activation].at) < Len(received)

\* The report is of the authority and the newest observation, and is news.
Current(r) ==
  /\ active # NoMRZ /\ active.trigger = r.activation
  /\ Newest.id = r.newest
  /\ r.activation \in DOMAIN pressure =>
       Position(pressure[r.activation].at) < Position(r.newest)

\* Mutants of the next definition: the stored direction is not read; nor is
\* the cutover.
MutForgetStored(r) == "NEUTRAL"
MutForgetCutover(r) ==
  IF r.activation \in DOMAIN pressure THEN pressure[r.activation].direction ELSE "NEUTRAL"

PreviousDirection(r) ==
  IF r.activation \in DOMAIN pressure THEN pressure[r.activation].direction
  ELSE IF LifecycleIsLive(r.activation) THEN "NEUTRAL"
  ELSE r.report.pressure.direction

TransitionCount(r) ==
  IF r.activation \in DOMAIN pressure THEN pressure[r.activation].transitions ELSE 0

\* The row of an evaluation; it is evaluated at the newest observation.
PressureRow(r) ==
  [direction |-> r.report.pressure.direction, status |-> r.report.pressure.status,
   total |-> r.report.total, above |-> r.report.above, inside |-> r.report.inside,
   below |-> r.report.below, aboveEnvelope |-> r.report.aboveEnvelope,
   belowEnvelope |-> r.report.belowEnvelope, successor |-> r.report.successor,
   transitions |-> TransitionCount(r) +
     (IF PreviousDirection(r) = r.report.pressure.direction THEN 0 ELSE 1),
   at |-> Newest.id]

ShouldNotify(previous, direction) == previous # direction /\ direction \in {"UP", "DOWN"}

Announcement(r) ==
  [activation |-> r.activation, at |-> r.newest,
   previous |-> PreviousDirection(r), direction |-> r.report.pressure.direction]

\* reconcile_pressure_state.
ReconcilePressureState(r) ==
  IF Current(r)
  THEN /\ pressure' = [a \in DOMAIN pressure \cup {r.activation} |->
                         IF a = r.activation THEN PressureRow(r) ELSE pressure[a]]
       /\ announced' = IF ShouldNotify(PreviousDirection(r), r.report.pressure.direction)
                       THEN Append(announced, Announcement(r)) ELSE announced
  ELSE UNCHANGED <<pressure, announced>>

\* The orders in which the webhooks of S may have been received.
Receipts(S) ==
  {s \in [1..Cardinality(S) -> S] :
     /\ \A o \in S : \E i \in DOMAIN s : s[i] = o
     /\ \A i, j \in DOMAIN s : i < j =>
          Before(s[i], s[j]) \/ (s[j] \in Late /\ s[i].at # s[j].at)}

\* The deployment that introduces the table restarts the process.
PressureInit ==
  /\ seen \in Deployments /\ promotion = NoMRZ
  /\ LET r == Replay(seen, NoMRZ)
     IN  active = r.active /\ transitions = r.transitions
  /\ confirmation = NoConfirmation /\ reviewed = NoCandidate
  /\ received \in Receipts(seen) /\ cutover = Cardinality(seen) /\ promotedAt = 0
  /\ pressure = <<>> /\ announced = <<>>
  /\ due = {} /\ reports = {} /\ failed = {} /\ up = FALSE /\ faults = 0
------------------------------------------------------------------------------
\* The pass of an event is scheduled with the answer, unless that fails.
SchedulePass(trigger) ==
  /\ Cardinality(due) + Cardinality(reports) < MaxPasses
  /\ \/ due' = due \cup {trigger} /\ UNCHANGED <<failed, faults>>
     \/ /\ faults < MaxFaults
        /\ failed' = failed \cup {trigger} /\ faults' = faults + 1
        /\ UNCHANGED due

Webhook(o) ==
  /\ up
  /\ o \in Late \/ \A p \in seen : Before(p, o)
  /\ Ingest(o)
  /\ received' = Append(received, o)
  /\ SchedulePass(o.id)
  /\ UNCHANGED <<cutover, promotedAt, pressure, announced, reports, up>>

\* A duplicate's answer reads nothing that could fail.
DuplicateWebhook(o) ==
  /\ up
  /\ o \in Repeats
  /\ Cardinality(due) + Cardinality(reports) < MaxPasses
  /\ IngestDuplicate(o)
  /\ due' = due \cup {o.id}
  /\ UNCHANGED <<received, cutover, promotedAt, pressure, announced, reports, failed,
                 up, faults>>

Look == up /\ Review /\ UNCHANGED pressureVars

\* Mutant of the next definition: no pass is scheduled.
MutPromoteSilently ==
  /\ up
  /\ Promote
  /\ promotedAt' = Len(received)
  /\ UNCHANGED <<received, cutover, pressure, announced, due, reports, failed, up,
                 faults>>

PromoteCommand ==
  /\ up
  /\ Promote
  /\ promotedAt' = Len(received)
  /\ SchedulePass(promotion'.trigger)
  /\ UNCHANGED <<received, cutover, pressure, announced, reports, up>>

\* The first transaction of a pass; without authority the pass is over.
Snapshot(trigger) ==
  /\ up
  /\ trigger \in due
  /\ due' = due \ {trigger}
  /\ IF active = NoMRZ THEN UNCHANGED reports
     ELSE \E r \in {SnapshotReport(trigger)} : reports' = reports \cup {r}
  /\ UNCHANGED <<storeVars, received, cutover, promotedAt, pressure, announced, failed,
                 up, faults>>

\* The second.
Persist(trigger) ==
  /\ up
  /\ \E r \in {s \in reports : s.trigger = trigger} :
       /\ reports' = reports \ {r}
       /\ ReconcilePressureState(r)
  /\ UNCHANGED <<storeVars, received, cutover, promotedAt, due, failed, up, faults>>

\* An exception at any point: it is logged and the transaction rolled back.
PassFails(trigger) ==
  /\ up /\ faults < MaxFaults
  /\ \/ trigger \in due /\ due' = due \ {trigger} /\ UNCHANGED reports
     \/ /\ \E r \in reports : r.trigger = trigger /\ reports' = reports \ {r}
        /\ UNCHANGED due
  /\ failed' = failed \cup {trigger}
  /\ faults' = faults + 1
  /\ UNCHANGED <<storeVars, received, cutover, promotedAt, pressure, announced, up>>

Crash ==
  /\ up /\ faults < MaxFaults
  /\ up' = FALSE
  /\ due' = {} /\ reports' = {} /\ failed' = {}
  /\ faults' = faults + 1
  /\ UNCHANGED <<storeVars, received, cutover, promotedAt, pressure, announced>>

\* Mutant of the next definition: the start evaluates no pressure.
MutRestartUnevaluated ==
  /\ ~up
  /\ up' = TRUE
  /\ UNCHANGED <<storeVars, received, cutover, promotedAt, pressure, announced, due, reports, failed, faults>>

\* The recovery at the start, before the first request is served.
Restart ==
  /\ ~up
  /\ up' = TRUE
  /\ IF active = NoMRZ THEN UNCHANGED <<pressure, announced>>
     ELSE \E r \in {SnapshotReport(Newest.id)} : ReconcilePressureState(r)
  /\ UNCHANGED <<storeVars, received, cutover, promotedAt, due, reports, failed, faults>>

RestartFails ==
  /\ ~up /\ faults < MaxFaults
  /\ up' = TRUE
  /\ failed' = {o.id : o \in seen}
  /\ faults' = faults + 1
  /\ UNCHANGED <<storeVars, received, cutover, promotedAt, pressure, announced, due, reports>>

PressureNext ==
  \/ \E o \in Observation : Webhook(o) \/ DuplicateWebhook(o)
  \/ Look
  \/ PromoteCommand
  \/ \E o \in Observation : Snapshot(o.id) \/ Persist(o.id) \/ PassFails(o.id)
  \/ Crash
  \/ Restart
  \/ RestartFails

(* The thread pool runs waiting passes, in no promised order, until they   *)
(* end, well or with an exception; a process that is down is started.      *)
TakePass == up /\ \E t \in due : due' = due \ {t}
EndPass == up /\ \E r \in reports : reports' = reports \ {r}
Start == ~up /\ up' = TRUE

PressureFairness == WF_due(TakePass) /\ WF_reports(EndPass) /\ WF_up(Start)

PressureSpec == PressureInit /\ [][PressureNext]_pvars /\ PressureFairness
------------------------------------------------------------------------------
\* The row of the authority is missing or precedes the newest observation.
Behind ==
  /\ active # NoMRZ
  /\ \/ active.trigger \notin DOMAIN pressure
     \/ pressure[active.trigger].at # Newest.id

(* reconcile_pressure_state, its comparison with the newest observation: a *)
(* row that claims to be evaluated at the newest observation holds the     *)
(* direction and the counts of all the evidence stored by then, although   *)
(* they were computed from a snapshot that any commit may have outdated.   *)
PersistedMatchesEvidence ==
  ~Behind /\ active # NoMRZ =>
    \E row \in {pressure[active.trigger]}, now \in {ActiveMRZReport(active, seen)} :
      /\ row.direction = now.pressure.direction
      /\ row.status = now.pressure.status
      /\ row.total = now.total
      /\ <<row.above, row.inside, row.below>> = <<now.above, now.inside, now.below>>
      /\ row.aboveEnvelope = now.aboveEnvelope /\ row.belowEnvelope = now.belowEnvelope
      /\ row.successor = now.successor

\* The rows as they were after the first k receipts.
SeenAfter(k) == {received[i] : i \in 1..k}
PromotionAfter(k) == IF k >= promotedAt THEN promotion ELSE NoMRZ
ActiveAfter(k) == Replay(SeenAfter(k), PromotionAfter(k)).active

\* By then the lifecycle was active in another direction.
OtherwiseAt(k, activation, direction) ==
  \E m \in {ActiveAfter(k)} :
    /\ m # NoMRZ /\ m.trigger = activation
    /\ ActiveMRZReport(m, SeenAfter(k)).pressure.direction # direction

(* docs/web-push.md: a change into UP or DOWN creates one notification.    *)
(* However passes are repeated, overtaken or lost, a lifecycle is only     *)
(* announced in the same direction again if, between the two observations  *)
(* announced, the stored evidence once gave another direction.             *)
RepeatedAlarmsAreReal ==
  \A i, j \in DOMAIN announced :
    i < j /\ announced[i].activation = announced[j].activation
          /\ announced[i].direction = announced[j].direction =>
      \E k \in Position(announced[i].at) + 1 .. Position(announced[j].at) - 1 :
        OtherwiseAt(k, announced[j].activation, announced[j].direction)

(* docs/web-push.md: the first evaluation of a lifecycle that predates the *)
(* cutover is silent, whenever it happens, so what is announced of such a  *)
(* lifecycle is a change since the deployment.                             *)
DeploymentIsQuiet ==
  \A i \in DOMAIN announced :
    LifecycleIsLive(announced[i].activation) \/
      \E k \in cutover .. Position(announced[i].at) - 1 :
        OtherwiseAt(k, announced[i].activation, announced[i].direction)

\* The newest event and the promotion schedule passes for the current row.
Owed == {Newest.id} \cup (IF promotion = NoMRZ THEN {} ELSE {promotion.trigger})
Pending == due \cup {r.trigger : r \in reports}

(* reconcile_pressure_state gives up when a newer packet has committed and *)
(* says that the packet's own pass or the recovery will evaluate it: a row *)
(* that is behind has such a pass, unless that pass or its scheduling has  *)
(* failed or the process is down.                                          *)
GivingUpIsSafe == Behind /\ up => Owed \cap (Pending \cup failed) # {}

(* And with the passes running, it catches up in the end.                  *)
PressureCatchesUp ==
  Behind /\ (~up \/ Owed \cap Pending # {}) ~> ~Behind \/ Owed \cap failed # {}
==============================================================================

-------------------------- MODULE NotificationOutbox --------------------------
(***************************************************************************)
(* The outbox of logical notifications (app/notifications.py,              *)
(* reconcile_notifiable_events) beside the symbol store that feeds it.     *)
(*                                                                         *)
(* An accepted or duplicate webhook and a promotion schedule a background  *)
(* pass for their event once they have committed.  The pass inserts one    *)
(* row per notifiable event that its trigger caused; the start of the      *)
(* process inserts the rows of all of them.  A crash forgets the passes    *)
(* that are scheduled.  Delivery of the rows is PushDelivery.              *)
(***************************************************************************)
EXTENDS SymbolStore, SequencesExt

CONSTANTS Deployments,   \* what may be stored when notifications are introduced
          Late,          \* observations that may arrive after newer ones
          MaxFaults      \* bound on crashes and failed requests or passes

ASSUME DeploymentAssumption ==
  /\ \A S \in Deployments : S \subseteq Observation /\ IsFiniteSet(S)
  /\ Late \subseteq Observation
  /\ MaxFaults \in Nat

VARIABLES old,           \* observations received before the cutover
          promotedOver,  \* and before the promotion, if there is one
          entries,       \* deliverable near-miss episodes, by their key
          outbox,        \* web_push_notifications, in the order of their ids
          due,           \* triggers of the passes that are scheduled
          failed,        \* triggers whose pass failed since the start
          up,            \* the process is running
          faults         \* faults so far

outboxVars == <<old, promotedOver, entries, outbox, due, failed, up, faults>>
vars_ == <<storeVars, outboxVars>>
------------------------------------------------------------------------------
\* MRZTransition.event_key of a history, and the episode_key of an entry.
EventKey(history, i) ==
  [type |-> history[i].type, sequence |-> i, trigger |-> history[i].trigger]
EntryKey(c, trigger) == [type |-> "MRZ_NEAR_MISS", route |-> c.route, trigger |-> trigger]

\* The authority query: activations, and migrations received since the cutover.
NotifiableEvents(history, before) ==
  {EventKey(history, i) : i \in {j \in DOMAIN history :
     \/ history[j].type = "MRZ_ACTIVATED"
     \/ /\ history[j].type = "MRZ_MIGRATED"
        /\ \A o \in before : o.id # history[j].trigger}}

Notifiable == NotifiableEvents(transitions, old) \cup entries

KeysOf(rs) == {rs[i].key : i \in DOMAIN rs}

\* Mutant of the next definition: ON CONFLICT is left out.
MutInsertAll(rs, keys) ==
  rs \o SetToSeq({[key |-> k, deliverable |-> TRUE] : k \in keys})

\* INSERT ... ON CONFLICT (source_event_key) DO NOTHING.
Inserted(rs, keys) ==
  rs \o SetToSeq({[key |-> k, deliverable |-> TRUE] : k \in keys \ KeysOf(rs)})

\* Mutant of the next definition: no baseline is taken.
MutNoBaseline(history) == <<>>

\* The baselines of migrations 005 and 006.
Baseline(history) ==
  SetToSeq({[key |-> EventKey(history, i), deliverable |-> FALSE] :
              i \in {j \in DOMAIN history : history[j].type # "ROUTE_CHANGED"}})

\* Routes that the new observation puts on the list of near misses
\* (NearMissEpisodes, EntriesAreAnnounced).
Entered(o) ==
  IF active' # NoMRZ THEN {}
  ELSE {EntryKey(c, o.id) : c \in {d \in NearMisses(seen') :
          \A e \in NearMisses(seen) : e.route # d.route}}

OutboxInit ==
  /\ old \in Deployments
  /\ seen = old /\ promotion = NoMRZ
  /\ LET r == Replay(old, NoMRZ)
     IN  /\ active = r.active /\ transitions = r.transitions
         /\ outbox = Baseline(r.transitions)
  /\ confirmation = NoConfirmation /\ reviewed = NoCandidate
  /\ promotedOver = {} /\ entries = {} /\ due = {} /\ failed = {}
  /\ up = TRUE /\ faults = 0
------------------------------------------------------------------------------
(* The pass of an event is scheduled with the answer.  If the answer fails *)
(* (symbol_detail raises) the commit stays and no pass is scheduled.       *)
Schedule(trigger) ==
  \/ due' = due \cup {trigger} /\ UNCHANGED <<failed, faults>>
  \/ /\ faults < MaxFaults
     /\ failed' = failed \cup {trigger} /\ faults' = faults + 1
     /\ UNCHANGED due

Webhook(o) ==
  /\ up
  /\ o \in Late \/ \A p \in seen : Before(p, o)
  /\ Ingest(o)
  /\ entries' = entries \cup Entered(o)
  /\ Schedule(o.id)
  /\ UNCHANGED <<old, promotedOver, outbox, up>>

\* A duplicate's answer reads nothing that could fail.
DuplicateWebhook(o) ==
  /\ up
  /\ IngestDuplicate(o)
  /\ due' = due \cup {o.id}
  /\ UNCHANGED <<old, promotedOver, entries, outbox, failed, up, faults>>

\* Mutant of the next definition: the command schedules no pass.
MutPromoteSilently ==
  /\ up
  /\ Promote
  /\ promotedOver' = seen
  /\ UNCHANGED <<old, entries, outbox, due, failed, up, faults>>

\* A promotion, or its repetition.
PromoteCommand ==
  /\ up
  /\ \/ Promote /\ promotedOver' = seen
     \/ /\ reviewed # NoCandidate /\ promotion # NoMRZ
        /\ promotion = PromotedAuthority(reviewed)
        /\ PromoteRejected
        /\ UNCHANGED promotedOver
  /\ Schedule(promotion'.trigger)
  /\ UNCHANGED <<old, entries, outbox, up>>

Look == up /\ Review /\ UNCHANGED outboxVars

\* process_trigger_event: the rows of what one event caused.
Pass(trigger) ==
  /\ up
  /\ trigger \in due
  /\ due' = due \ {trigger}
  /\ outbox' = Inserted(outbox, {k \in Notifiable : k.trigger = trigger})
  /\ UNCHANGED <<storeVars, old, promotedOver, entries, failed, up, faults>>

\* The pass raises; run_notification_trigger logs it.
PassFails(trigger) ==
  /\ up
  /\ trigger \in due /\ faults < MaxFaults
  /\ due' = due \ {trigger}
  /\ failed' = failed \cup {trigger}
  /\ faults' = faults + 1
  /\ UNCHANGED <<storeVars, old, promotedOver, entries, outbox, up>>

Crash ==
  /\ up /\ faults < MaxFaults
  /\ up' = FALSE
  /\ due' = {} /\ failed' = {}
  /\ faults' = faults + 1
  /\ UNCHANGED <<storeVars, old, promotedOver, entries, outbox>>

\* Mutant of the next definition: the start only delivers what is there.
MutRecoverDeliversOnly ==
  /\ ~up
  /\ up' = TRUE
  /\ UNCHANGED <<storeVars, old, promotedOver, entries, outbox, due, failed, faults>>

\* lifespan: recover runs before the first request is served.
Restart ==
  /\ ~up
  /\ up' = TRUE
  /\ outbox' = Inserted(outbox, Notifiable)
  /\ UNCHANGED <<storeVars, old, promotedOver, entries, due, failed, faults>>

\* recover raises; run_notification_recovery logs it and the process serves.
RestartFails ==
  /\ ~up /\ faults < MaxFaults
  /\ up' = TRUE
  /\ failed' = {o.id : o \in seen}
  /\ faults' = faults + 1
  /\ UNCHANGED <<storeVars, old, promotedOver, entries, outbox, due>>

OutboxNext ==
  \/ \E o \in Observation : Webhook(o) \/ DuplicateWebhook(o)
  \/ PromoteCommand
  \/ Look
  \/ \E o \in Observation : Pass(o.id) \/ PassFails(o.id)
  \/ Crash
  \/ Restart
  \/ RestartFails

\* The thread pool runs every scheduled pass to its end, good or bad, and a
\* process that is down is started again.
RunPass(trigger) == up /\ trigger \in due /\ due' = due \ {trigger}
Start == ~up /\ up' = TRUE

OutboxFairness ==
  /\ \A o \in Observation : WF_due(RunPass(o.id))
  /\ WF_up(Start)

OutboxSpec == OutboxInit /\ [][OutboxNext]_vars_ /\ OutboxFairness
------------------------------------------------------------------------------
\* What an operator would call the same event: its kind, cause and route.
SameEvent(k, l) ==
  /\ k.type = l.type /\ k.trigger = l.trigger
  /\ k.type = "MRZ_NEAR_MISS" => k.route = l.route

(* docs/web-push.md: neither deployment, restart, a duplicate nor a replay *)
(* sends a transition or an entry that was sent before.                    *)
AnnouncedOnce ==
  \A i, j \in DOMAIN outbox :
    SameEvent(outbox[i].key, outbox[j].key) => i = j

(* docs/web-push.md: what the history contained when notifications were    *)
(* introduced is never sent, whatever is received, repeated or restarted.  *)
DeploymentIsSilent ==
  LET history == Replay(old, NoMRZ).transitions
  IN  \A i \in DOMAIN outbox : outbox[i].deliverable =>
        \A j \in DOMAIN history : ~SameEvent(outbox[i].key, EventKey(history, j))

(* The background tasks and the recovery at the start: with nothing late   *)
(* nothing notifiable is ever forgotten; it is in the outbox, or its       *)
(* pass is scheduled or has failed, or the process is down.  The exception *)
(* is a migration that the promotion's own replay finds in evidence stored *)
(* by then: the command schedules a pass for the promotion's trigger only. *)
NothingIsForgotten ==
  \A k \in Notifiable \ KeysOf(outbox) :
    \/ ~up
    \/ k.trigger \in due \cup failed
    \/ k.type = "MRZ_MIGRATED" /\ \E o \in promotedOver : o.id = k.trigger

(* docs/web-push.md, Recovery: an event whose pass was scheduled, or died  *)
(* with the process, is announced in the end, unless its pass fails.       *)
ScheduledAreAnnounced ==
  \A o \in Observation :
    LET owed == {k \in Notifiable \ KeysOf(outbox) : k.trigger = o.id}
    IN  (owed # {} /\ (o.id \in due \/ ~up)) ~> (owed = {} \/ o.id \in failed)
==============================================================================

---------------------------- MODULE PushDelivery ------------------------------
(***************************************************************************)
(* Delivery of logical notifications to push subscriptions                 *)
(* (app/notifications.py, dispatch_pending and the tables it uses).        *)
(*                                                                         *)
(* Every webhook and promotion starts a background pass and several run at *)
(* once.  A pass reads the pending pairs once, then for each pair claims   *)
(* an attempt, sends, and records the outcome: three transactions with the *)
(* network in between.  A crash, or a database error that escapes the      *)
(* pass, leaves the rest of the pass undone.                               *)
(***************************************************************************)
EXTENDS Naturals, Sequences

CONSTANTS Notifications,   \* how many logical notifications are created
          Subscriptions,   \* how many endpoints may subscribe
          Keys,            \* key material a browser may subscribe with
          Pass,            \* background passes that may run at once
          MaxAttempts,     \* MAX_DELIVERY_ATTEMPTS, 3 in production
          MaxAbandoned     \* bound on the passes a crash cuts short

ASSUME BoundsAssumption ==
  /\ Notifications \in Nat /\ Subscriptions \in Nat
  /\ MaxAttempts \in Nat \ {0}
  /\ MaxAbandoned \in Nat

Notification == 1..Notifications
Subscription == 1..Subscriptions
Pair == Notification \X Subscription

VARIABLES created,      \* notification ids given so far
          muted,        \* notifications the preferences filter out
          subs,         \* subscription rows
          attempts,     \* outcomes of each pair's attempts, by attempt_number
          pass,         \* what each background pass is doing
          received,     \* pushes that reached the device
          abandoned     \* passes cut short so far

vars == <<created, muted, subs, attempts, pass, received, abandoned>>

\* A FAILED attempt is RETRYABLE or not by its retryable column.
Outcome == {"CLAIMED", "DELIVERED", "RETRYABLE", "FAILED"}
Status  == {"absent", "enabled", "operator", "expired"}

(* The sender's answers: a 2xx; 404 or 410; 408, 425, 429 or 5xx; another  *)
(* 4xx; an exception, which may follow a push that did reach the device.   *)
Answers == {"ok", "gone", "busy", "refused", "exception"}

Idle == [at |-> "idle"]
------------------------------------------------------------------------------
Last(s) == s[Len(s)]

\* Mutant of the next definition: a failure need not have been retryable.
MutRetryRefused(a) ==
  /\ Len(a) < MaxAttempts
  /\ \A i \in DOMAIN a : a[i] \notin {"DELIVERED", "CLAIMED"}

\* Another attempt is due: asked by the listing and again by the claim.
Attemptable(a) ==
  /\ Len(a) < MaxAttempts
  /\ \A i \in DOMAIN a : a[i] \notin {"DELIVERED", "CLAIMED"}
  /\ a = <<>> \/ Last(a) = "RETRYABLE"

\* Mutant of the next definition: failed deliveries are not listed again.
MutListFreshOnly(p) ==
  /\ p[1] \in created \ muted
  /\ subs[p[2]].status = "enabled"
  /\ p[1] \in subs[p[2]].since
  /\ attempts[p] = <<>>

\* pending_deliveries: deliverable, wanted, to an enabled subscription that
\* was enabled before the notification was created.
Pending(p) ==
  /\ p[1] \in created \ muted
  /\ subs[p[2]].status = "enabled"
  /\ p[1] \in subs[p[2]].since
  /\ Attemptable(attempts[p])

Init ==
  /\ created = {}
  /\ muted = {}
  /\ subs = [s \in Subscription |-> [status |-> "absent", keys |-> {}, since |-> {}]]
  /\ attempts = [p \in Pair |-> <<>>]
  /\ pass = [w \in Pass |-> Idle]
  /\ received = [p \in Pair |-> 0]
  /\ abandoned = 0

\* An outbox row is inserted; a subscription's enabled_at precedes it.
CreateNotification(n) ==
  /\ n \notin created /\ \A m \in Notification : m < n => m \in created
  /\ created' = created \cup {n}
  /\ subs' = [s \in Subscription |->
               IF subs[s].status = "absent" THEN subs[s]
               ELSE [subs[s] EXCEPT !.since = @ \cup {n}]]
  /\ UNCHANGED <<muted, attempts, pass, received, abandoned>>

SetPreferences(m) ==
  /\ muted' = m
  /\ UNCHANGED <<created, subs, attempts, pass, received, abandoned>>

(* upsert_subscription: an endpoint that expired with the same keys stays  *)
(* expired; any other is enabled, and enabled_at moves unless it already   *)
(* was.                                                                    *)
Subscribe(s, k) ==
  /\ subs' = [subs EXCEPT ![s] =
       [status |-> IF @.status = "expired" /\ @.keys = {k} THEN "expired" ELSE "enabled",
        keys   |-> {k},
        since  |-> IF \/ @.status = "enabled"
                      \/ @.status = "expired" /\ @.keys = {k}
                   THEN @.since ELSE {}]]
  /\ UNCHANGED <<created, muted, attempts, pass, received, abandoned>>

\* Mutant of the next definition: the update is not limited to enabled rows.
MutDisableAny(s) ==
  /\ subs[s].status # "absent"
  /\ subs' = [subs EXCEPT ![s].status = "operator"]
  /\ UNCHANGED <<created, muted, attempts, pass, received, abandoned>>

DisableSubscription(s) ==
  /\ subs[s].status = "enabled"
  /\ subs' = [subs EXCEPT ![s].status = "operator"]
  /\ UNCHANGED <<created, muted, attempts, pass, received, abandoned>>
------------------------------------------------------------------------------
\* The pairs a pass still has to visit: ORDER BY n.id, s.id.
Visiting(todo) == IF todo = {} THEN Idle ELSE [at |-> "visiting", todo |-> todo]

\* The pass starts: process_trigger_event and recover end in a sweep.
BeginPass(w) ==
  /\ pass[w] = Idle
  /\ pass' = [pass EXCEPT ![w] = Visiting({p \in Pair : Pending(p)})]
  /\ UNCHANGED <<created, muted, subs, attempts, received, abandoned>>

\* Mutants of the next definition: the listing is trusted; a pair that could
\* not be claimed is sent all the same.
MutClaimListed(w) ==
  /\ pass[w].at = "visiting"
  /\ \E p \in pass[w].todo :
       /\ \A q \in pass[w].todo : p[1] < q[1] \/ (p[1] = q[1] /\ p[2] <= q[2])
       /\ Len(attempts[p]) < MaxAttempts
       /\ attempts' = [attempts EXCEPT ![p] = Append(@, "CLAIMED")]
       /\ pass' = [pass EXCEPT ![w] =
            [at |-> "sending", todo |-> @.todo \ {p}, pair |-> p,
             attempt |-> Len(attempts[p]) + 1]]
  /\ UNCHANGED <<created, muted, subs, received, abandoned>>
MutSendUnclaimed(w) ==
  /\ pass[w].at = "visiting"
  /\ \E p \in pass[w].todo :
       /\ \A q \in pass[w].todo : p[1] < q[1] \/ (p[1] = q[1] /\ p[2] <= q[2])
       /\ attempts' = IF Attemptable(attempts[p])
                      THEN [attempts EXCEPT ![p] = Append(@, "CLAIMED")] ELSE attempts
       /\ pass' = [pass EXCEPT ![w] =
            [at |-> "sending", todo |-> @.todo \ {p}, pair |-> p,
             attempt |-> Len(attempts'[p])]]
  /\ UNCHANGED <<created, muted, subs, received, abandoned>>

(* claim_delivery: the attempts are read again and the next one inserted,  *)
(* in one statement; the unique attempt_number turns a concurrent claim    *)
(* into no row.                                                            *)
Claim(w) ==
  /\ pass[w].at = "visiting"
  /\ \E p \in pass[w].todo :
       /\ \A q \in pass[w].todo : p[1] < q[1] \/ (p[1] = q[1] /\ p[2] <= q[2])
       /\ IF Attemptable(attempts[p])
          THEN /\ attempts' = [attempts EXCEPT ![p] = Append(@, "CLAIMED")]
               /\ pass' = [pass EXCEPT ![w] =
                    [at |-> "sending", todo |-> @.todo \ {p}, pair |-> p,
                     attempt |-> Len(attempts[p]) + 1]]
          ELSE /\ pass' = [pass EXCEPT ![w] = Visiting(@.todo \ {p})]
               /\ UNCHANGED attempts
  /\ UNCHANGED <<created, muted, subs, received, abandoned>>

\* The push service answers, having pushed or not.
Send(w, answer) ==
  /\ pass[w].at = "sending"
  /\ pass' = [pass EXCEPT ![w] =
       [at |-> "answered", todo |-> @.todo, pair |-> @.pair,
        attempt |-> @.attempt, answer |-> answer]]
  /\ \E reached \in {0, 1} :
       /\ answer = "ok" => reached = 1
       /\ answer \in {"gone", "busy", "refused"} => reached = 0
       /\ received' = [received EXCEPT ![pass[w].pair] = @ + reached]
  /\ UNCHANGED <<created, muted, subs, attempts, abandoned>>

Recorded(answer) ==
  CASE answer = "ok" -> "DELIVERED"
    [] answer \in {"gone", "refused"} -> "FAILED"
    [] answer \in {"busy", "exception"} -> "RETRYABLE"

(* record_delivery_success, record_delivery_failure: the claim is settled; *)
(* a permanent failure disables the subscription as it is by now.          *)
Record(w) ==
  /\ pass[w].at = "answered"
  /\ LET p == pass[w].pair
         i == pass[w].attempt
     IN  /\ attempts' = IF attempts[p][i] = "CLAIMED"
                        THEN [attempts EXCEPT ![p][i] = Recorded(pass[w].answer)]
                        ELSE attempts
         /\ subs' = IF pass[w].answer = "gone"
                    THEN [subs EXCEPT ![p[2]].status = "expired"]
                    ELSE subs
  /\ pass' = [pass EXCEPT ![w] = Visiting(@.todo)]
  /\ UNCHANGED <<created, muted, received, abandoned>>

\* The process dies, or a database error ends the pass.
Abandon(w) ==
  /\ pass[w] # Idle
  /\ abandoned < MaxAbandoned
  /\ abandoned' = abandoned + 1
  /\ pass' = [pass EXCEPT ![w] = Idle]
  /\ UNCHANGED <<created, muted, subs, attempts, received>>

Next ==
  \/ \E n \in Notification : CreateNotification(n)
  \/ \E m \in SUBSET Notification : SetPreferences(m)
  \/ \E s \in Subscription, k \in Keys : Subscribe(s, k)
  \/ \E s \in Subscription : DisableSubscription(s)
  \/ \E w \in Pass : \/ BeginPass(w)
                     \/ Claim(w)
                     \/ \E answer \in Answers : Send(w, answer)
                     \/ Record(w)
                     \/ Abandon(w)

Spec == Init /\ [][Next]_vars
------------------------------------------------------------------------------
PassState ==
  {Idle} \cup
  [at : {"visiting"}, todo : SUBSET Pair] \cup
  [at : {"sending"}, todo : SUBSET Pair, pair : Pair, attempt : Nat \ {0}] \cup
  [at : {"answered"}, todo : SUBSET Pair, pair : Pair, attempt : Nat \ {0},
   answer : Answers]

TypeOK ==
  /\ created \in SUBSET Notification
  /\ muted \in SUBSET Notification
  /\ subs \in [Subscription -> [status : Status, keys : SUBSET Keys,
                                since : SUBSET Notification]]
  /\ attempts \in [Pair -> Seq(Outcome)]
  /\ \A p \in Pair : Len(attempts[p]) <= MaxAttempts
  /\ pass \in [Pass -> PassState]
  /\ received \in [Pair -> Nat]
  /\ abandoned \in 0..MaxAbandoned

Holding(w) == pass[w].at \in {"sending", "answered"}

(* claim_delivery: of the passes that run at once at most one is sending a *)
(* pair, and what it sends under is the pair's open attempt, so that its   *)
(* outcome is never recorded over another one.                             *)
ClaimsAreExclusive ==
  \A w \in Pass : Holding(w) =>
    LET p == pass[w].pair
    IN  /\ pass[w].attempt = Len(attempts[p])
        /\ Last(attempts[p]) = "CLAIMED"
        /\ \A v \in Pass \ {w} : Holding(v) => pass[v].pair # p

(* docs/web-push.md: success is terminal and only a retryable failure is   *)
(* followed by another attempt, whatever passes ran at once.               *)
OnlyRetryableIsRetried ==
  \A p \in Pair : \A i \in 1..(Len(attempts[p]) - 1) : attempts[p][i] = "RETRYABLE"

(* Each push the device receives is an attempt of its own, and a second    *)
(* one needs a first whose outcome is unknown or was a retryable failure.  *)
PushesAreAttempts == \A p \in Pair : received[p] <= Len(attempts[p])

(* record_delivery_success and failure: a settled attempt is never         *)
(* reopened, overwritten or followed by another.                           *)
SettledIsFinal ==
  [][\A p \in Pair :
       attempts[p] # <<>> /\ Last(attempts[p]) \in {"DELIVERED", "FAILED"} =>
         attempts'[p] = attempts[p]]_vars

(* docs/web-push.md: a 404 or 410 permanently disables the subscription;   *)
(* only new keys bring the endpoint back, whatever the operator does.      *)
ExpiryIsPermanent ==
  [][\A s \in Subscription :
       subs[s].status = "expired" /\ subs'[s].status # "expired" =>
         subs'[s].keys # subs[s].keys]_vars
\* The pair's attempts as the contract sees them.
Contract == INSTANCE PushContract WITH
  tries   <- [p \in Pair |-> Len(attempts[p])],
  outcome <- [p \in Pair |-> IF attempts[p] = <<>> THEN "NONE" ELSE Last(attempts[p])],
  pushes  <- received

(* docs/web-push.md: whatever passes run at once, from whatever listings,  *)
(* and wherever they are cut short, a pair is attempted as the contract    *)
(* allows, and an attempt is DELIVERED only if the device has the push.    *)
KeepsContract == Contract!Spec
------------------------------------------------------------------------------
(* Webhooks keep arriving, each starts a pass, and a pass runs on; the     *)
(* operator leaves the subscription alone.                                 *)
Fairness == \A w \in Pass : WF_vars(BeginPass(w) \/ Claim(w)
                                    \/ (\E answer \in Answers : Send(w, answer))
                                    \/ Record(w))

FairSpec == Spec /\ Fairness

Wanted(p) == /\ p[1] \in created \ muted
             /\ subs[p[2]].status = "enabled" /\ p[1] \in subs[p[2]].since

Settled(p) == /\ attempts[p] # <<>>
              /\ \/ Last(attempts[p]) \in {"DELIVERED", "FAILED"}
                 \/ Len(attempts[p]) = MaxAttempts /\ Last(attempts[p]) = "RETRYABLE"

\* A crash between claim and record leaves a claim that nobody holds.
Orphaned(p) == /\ attempts[p] # <<>> /\ Last(attempts[p]) = "CLAIMED"
               /\ \A w \in Pass : Holding(w) => pass[w].pair # p

(* docs/web-push.md: a wanted delivery is retried by later passes until it *)
(* is delivered, refused or out of attempts, unless the operator stops     *)
(* wanting it or a crash orphans its claim.                                *)
DeliveriesSettle ==
  \A p \in Pair : Wanted(p) ~> (Settled(p) \/ Orphaned(p) \/ ~Wanted(p))
==============================================================================

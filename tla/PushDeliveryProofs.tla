-------------------------- MODULE PushDeliveryProofs --------------------------
(***************************************************************************)
(* The safety of module PushDelivery for every number of notifications,    *)
(* subscriptions and concurrent passes.  ClaimsAreExclusive is what the    *)
(* other facts rest on: the pass that holds a pair is alone with it and    *)
(* the pair's last attempt is its open claim.  PushesAreAttempts is not    *)
(* inductive without SendingIsUnanswered.                                  *)
(***************************************************************************)
EXTENDS PushDelivery, TLAPS

SendingIsUnanswered ==
  \A w \in Pass : pass[w].at = "sending" =>
    received[pass[w].pair] < Len(attempts[pass[w].pair])

IInv == /\ TypeOK
        /\ ClaimsAreExclusive
        /\ OnlyRetryableIsRetried
        /\ SendingIsUnanswered
        /\ PushesAreAttempts

USE BoundsAssumption
------------------------------------------------------------------------------
(* Settling one attempt keeps the others and their number.                 *)
LEMMA ReplacedAttempt ==
  ASSUME NEW s \in Seq(Outcome), NEW i \in 1..Len(s), NEW x \in Outcome
  PROVE  /\ [s EXCEPT ![i] = x] \in Seq(Outcome)
         /\ Len([s EXCEPT ![i] = x]) = Len(s)
         /\ [s EXCEPT ![i] = x][i] = x
         /\ \A j \in 1..Len(s) : j # i => [s EXCEPT ![i] = x][j] = s[j]
  OBVIOUS

(* A claim is appended and leaves the earlier attempts as they are.        *)
LEMMA AppendedClaim ==
  ASSUME NEW s \in Seq(Outcome), NEW x \in Outcome
  PROVE  /\ Append(s, x) \in Seq(Outcome)
         /\ Len(Append(s, x)) = Len(s) + 1
         /\ Append(s, x)[Len(s) + 1] = x
         /\ \A j \in 1..Len(s) : Append(s, x)[j] = s[j]
  OBVIOUS

(* An attemptable pair has only retryable failures behind it.              *)
LEMMA AttemptableHasNoClaim ==
  ASSUME NEW s \in Seq(Outcome), Attemptable(s)
  PROVE  /\ Len(s) < MaxAttempts
         /\ \A i \in 1..Len(s) : s[i] \notin {"DELIVERED", "CLAIMED"}
         /\ s # <<>> => Last(s) = "RETRYABLE"
  BY DEF Attemptable

LEMMA VisitingState ==
  ASSUME NEW todo \in SUBSET Pair
  PROVE  /\ Visiting(todo) \in PassState
         /\ Visiting(todo).at \notin {"sending", "answered"}
  BY DEF Visiting, PassState, Idle
------------------------------------------------------------------------------
LEMMA InitHolds == Init => IInv
  <1>1. Init => TypeOK
    BY DEF Init, TypeOK, Status, PassState
  <1>2. Init => /\ ClaimsAreExclusive
                /\ SendingIsUnanswered
    BY DEF Init, ClaimsAreExclusive, SendingIsUnanswered, Holding, Idle
  <1>3. Init => /\ OnlyRetryableIsRetried
                /\ PushesAreAttempts
    BY DEF Init, OnlyRetryableIsRetried, PushesAreAttempts
  <1> QED  BY <1>1, <1>2, <1>3 DEF IInv

(* What the operator and the outbox do leaves the passes' work alone.      *)
LEMMA OperatorStep ==
  ASSUME IInv,
         \/ \E n \in Notification : CreateNotification(n)
         \/ \E m \in SUBSET Notification : SetPreferences(m)
         \/ \E s \in Subscription, k \in Keys : Subscribe(s, k)
         \/ \E s \in Subscription : DisableSubscription(s)
  PROVE  IInv'
  <1>1. UNCHANGED <<attempts, pass, received, abandoned>>
    BY DEF CreateNotification, SetPreferences, Subscribe, DisableSubscription
  <1>2. created' \in SUBSET Notification /\ muted' \in SUBSET Notification
    BY DEF IInv, TypeOK, CreateNotification, SetPreferences, Subscribe, DisableSubscription
  <1>3. subs' \in [Subscription -> [status : Status, keys : SUBSET Keys,
                                    since : SUBSET Notification]]
    <2>1. CASE \E n \in Notification : CreateNotification(n)
      BY <2>1 DEF IInv, TypeOK, CreateNotification
    <2>2. CASE \E m \in SUBSET Notification : SetPreferences(m)
      BY <2>2 DEF IInv, TypeOK, SetPreferences
    <2>3. CASE \E s \in Subscription, k \in Keys : Subscribe(s, k)
      BY <2>3 DEF IInv, TypeOK, Subscribe, Status
    <2>4. CASE \E s \in Subscription : DisableSubscription(s)
      <3>1. PICK s \in Subscription : DisableSubscription(s)
        BY <2>4
      <3>2. subs \in [Subscription -> [status : Status, keys : SUBSET Keys,
                                       since : SUBSET Notification]]
        BY DEF IInv, TypeOK
      <3>3. [subs[s] EXCEPT !.status = "operator"] \in
               [status : Status, keys : SUBSET Keys, since : SUBSET Notification]
        BY <3>2 DEF Status
      <3>4. subs' = [subs EXCEPT ![s] = [subs[s] EXCEPT !.status = "operator"]]
        BY <3>1 DEF DisableSubscription
      <3> QED  BY <3>2, <3>3, <3>4
    <2> QED  BY <2>1, <2>2, <2>3, <2>4
  <1>4. TypeOK'
    BY <1>1, <1>2, <1>3 DEF IInv, TypeOK
  <1> QED
    BY <1>1, <1>4 DEF IInv, ClaimsAreExclusive, OnlyRetryableIsRetried,
       SendingIsUnanswered, PushesAreAttempts, Holding, Last

(* A pass that starts, gives up or moves on holds nothing.                 *)
LEMMA LetGo ==
  ASSUME IInv, NEW w \in Pass, NEW todo \in SUBSET Pair,
         \/ pass' = [pass EXCEPT ![w] = Visiting(todo)]
         \/ pass' = [pass EXCEPT ![w] = Idle],
         abandoned' \in 0..MaxAbandoned,
         UNCHANGED <<created, muted, subs, attempts, received>>
  PROVE  IInv'
  <1>1. PICK free \in PassState : /\ pass' = [pass EXCEPT ![w] = free]
                                  /\ free.at \notin {"sending", "answered"}
    <2>1. Idle \in PassState /\ Idle.at \notin {"sending", "answered"}
      BY DEF PassState, Idle
    <2> QED  BY <2>1, VisitingState
  <1>2. pass \in [Pass -> PassState]
    BY DEF IInv, TypeOK
  <1>3. /\ pass' \in [Pass -> PassState]
        /\ pass'[w].at \notin {"sending", "answered"}
        /\ \A v \in Pass \ {w} : pass'[v] = pass[v]
    BY <1>1, <1>2
  <1>4. TypeOK'
    BY <1>3 DEF IInv, TypeOK
  <1>5. ClaimsAreExclusive' /\ SendingIsUnanswered'
    BY <1>3 DEF IInv, ClaimsAreExclusive, SendingIsUnanswered, Holding, Last
  <1> QED  BY <1>4, <1>5 DEF IInv, OnlyRetryableIsRetried, PushesAreAttempts

(* A claim is exclusive because an attemptable pair has no open claim, and *)
(* every pass that holds a pair holds its open claim.                      *)
LEMMA ClaimStep ==
  ASSUME IInv, NEW w \in Pass, Claim(w)
  PROVE  IInv'
  <1> DEFINE todo == pass[w].todo
  <1>0. /\ attempts \in [Pair -> Seq(Outcome)]
        /\ pass \in [Pass -> PassState]
        /\ received \in [Pair -> Nat]
        /\ abandoned \in 0..MaxAbandoned
    BY DEF IInv, TypeOK
  <1>1. todo \in SUBSET Pair /\ pass[w].at = "visiting"
    BY <1>0 DEF PassState, Idle, Claim
  <1>2. PICK p \in todo :
          IF Attemptable(attempts[p])
          THEN /\ attempts' = [attempts EXCEPT ![p] = Append(@, "CLAIMED")]
               /\ pass' = [pass EXCEPT ![w] =
                    [at |-> "sending", todo |-> @.todo \ {p}, pair |-> p,
                     attempt |-> Len(attempts[p]) + 1]]
          ELSE /\ pass' = [pass EXCEPT ![w] = Visiting(@.todo \ {p})]
               /\ UNCHANGED attempts
    BY DEF Claim
  <1>3. UNCHANGED <<created, muted, subs, received, abandoned>>
    BY DEF Claim
  <1>4. CASE ~Attemptable(attempts[p])
    <2>1. pass' = [pass EXCEPT ![w] = Visiting(todo \ {p})] /\ UNCHANGED attempts
      BY <1>2, <1>4
    <2>2. todo \ {p} \in SUBSET Pair
      BY <1>1
    <2> QED  BY <2>1, <2>2, <1>0, <1>3, LetGo
  <1>5. CASE Attemptable(attempts[p])
    <2> DEFINE claim == [at |-> "sending", todo |-> todo \ {p}, pair |-> p,
                         attempt |-> Len(attempts[p]) + 1]
               more == Append(attempts[p], "CLAIMED")
    <2>1. p \in Pair /\ attempts[p] \in Seq(Outcome) /\ Len(attempts[p]) \in Nat
      BY <1>0, <1>1
    <2>2. /\ more \in Seq(Outcome)
          /\ Len(more) = Len(attempts[p]) + 1
          /\ more[Len(attempts[p]) + 1] = "CLAIMED"
          /\ \A j \in 1..Len(attempts[p]) : more[j] = attempts[p][j]
      BY <2>1, AppendedClaim DEF Outcome
    <2>3. /\ Len(attempts[p]) < MaxAttempts
          /\ \A i \in 1..Len(attempts[p]) : attempts[p][i] \notin {"DELIVERED", "CLAIMED"}
          /\ attempts[p] # <<>> => Last(attempts[p]) = "RETRYABLE"
      BY <2>1, <1>5, AttemptableHasNoClaim
    <2>4. /\ attempts' = [attempts EXCEPT ![p] = more]
          /\ pass' = [pass EXCEPT ![w] = claim]
      BY <1>2, <1>5
    <2>5. claim \in PassState
      BY <2>1, <1>1 DEF PassState
    <2> HIDE DEF more, claim
    <2>6. /\ attempts' \in [Pair -> Seq(Outcome)]
          /\ attempts'[p] = more
          /\ \A q \in Pair \ {p} : attempts'[q] = attempts[q]
      BY <2>1, <2>2, <2>4, <1>0
    <2>7. /\ pass' \in [Pass -> PassState]
          /\ pass'[w] = claim
          /\ \A v \in Pass \ {w} : pass'[v] = pass[v]
      BY <2>4, <2>5, <1>0
    <2>8. claim.at = "sending" /\ claim.pair = p /\ claim.attempt = Len(more)
      BY <2>2 DEF claim
    <2>9. TypeOK'
      <3>1. \A q \in Pair : Len(attempts'[q]) <= MaxAttempts
        BY <2>1, <2>2, <2>3, <2>6 DEF IInv, TypeOK
      <3> QED  BY <3>1, <2>6, <2>7, <1>3 DEF IInv, TypeOK
    <2>10. \A v \in Pass \ {w} : Holding(v) => pass[v].pair # p /\ pass[v].pair \in Pair
      <3> SUFFICES ASSUME NEW v \in Pass \ {w}, Holding(v)
                   PROVE  pass[v].pair # p /\ pass[v].pair \in Pair
        OBVIOUS
      <3>1. pass[v].pair \in Pair /\ pass[v].attempt \in Nat \ {0}
        BY <1>0 DEF PassState, Holding, Idle
      <3>2. /\ pass[v].attempt = Len(attempts[pass[v].pair])
            /\ attempts[pass[v].pair][Len(attempts[pass[v].pair])] = "CLAIMED"
        BY DEF IInv, ClaimsAreExclusive, Last
      <3> QED  BY <3>1, <3>2, <2>3, <2>1
    <2>11. ClaimsAreExclusive'
      <3> SUFFICES ASSUME NEW v \in Pass, Holding(v)'
                   PROVE  /\ pass'[v].attempt = Len(attempts'[pass'[v].pair])
                          /\ Last(attempts'[pass'[v].pair]) = "CLAIMED"
                          /\ \A u \in Pass \ {v} :
                               Holding(u)' => pass'[u].pair # pass'[v].pair
        BY DEF ClaimsAreExclusive
      <3>1. CASE v = w
        BY <3>1, <2>2, <2>6, <2>7, <2>8, <2>10 DEF Holding, Last
      <3>2. CASE v # w
        <4>1. pass'[v] = pass[v] /\ Holding(v)
          BY <3>2, <2>7 DEF Holding
        <4>2. attempts'[pass'[v].pair] = attempts[pass[v].pair] /\ pass'[v].pair # p
          BY <4>1, <3>2, <2>6, <2>10
        <4>3. /\ pass[v].attempt = Len(attempts[pass[v].pair])
              /\ Last(attempts[pass[v].pair]) = "CLAIMED"
              /\ \A u \in Pass \ {v} : Holding(u) => pass[u].pair # pass[v].pair
          BY <4>1 DEF IInv, ClaimsAreExclusive
        <4>4. ASSUME NEW u \in Pass \ {v}, Holding(u)'
              PROVE  pass'[u].pair # pass'[v].pair
          BY <4>1, <4>2, <4>3, <4>4, <2>7, <2>8 DEF Holding
        <4> QED  BY <4>1, <4>2, <4>3, <4>4 DEF Last
      <3> QED  BY <3>1, <3>2
    <2>12. OnlyRetryableIsRetried'
      <3> SUFFICES ASSUME NEW q \in Pair, NEW i \in 1..(Len(attempts'[q]) - 1)
                   PROVE  attempts'[q][i] = "RETRYABLE"
        BY DEF OnlyRetryableIsRetried
      <3>1. CASE q # p
        BY <3>1, <2>6 DEF IInv, OnlyRetryableIsRetried
      <3>2. CASE q = p
        <4>1. i \in 1..Len(attempts[p]) /\ attempts'[q][i] = attempts[p][i]
          BY <3>2, <2>1, <2>2, <2>6
        <4>2. CASE i = Len(attempts[p])
          BY <4>1, <4>2, <2>1, <2>3 DEF Last
        <4>3. CASE i < Len(attempts[p])
          BY <4>1, <4>3, <2>1 DEF IInv, OnlyRetryableIsRetried
        <4> QED  BY <4>1, <4>2, <4>3, <2>1
      <3> QED  BY <3>1, <3>2
    <2>13. SendingIsUnanswered'
      <3> SUFFICES ASSUME NEW v \in Pass, pass'[v].at = "sending"
                   PROVE  received'[pass'[v].pair] < Len(attempts'[pass'[v].pair])
        BY DEF SendingIsUnanswered
      <3>1. CASE v = w
        BY <3>1, <2>1, <2>2, <2>6, <2>7, <2>8, <1>0, <1>3 DEF IInv, PushesAreAttempts
      <3>2. CASE v # w
        BY <3>2, <2>6, <2>7, <2>10, <1>3 DEF IInv, SendingIsUnanswered, Holding
      <3> QED  BY <3>1, <3>2
    <2>14. PushesAreAttempts'
      <3> SUFFICES ASSUME NEW q \in Pair
                   PROVE  received[q] <= Len(attempts'[q])
        BY <1>3 DEF PushesAreAttempts
      <3>1. received[q] <= Len(attempts[q]) /\ received[q] \in Nat
        BY <1>0 DEF IInv, PushesAreAttempts
      <3>2. CASE q = p
        BY <3>1, <3>2, <2>1, <2>2, <2>6
      <3>3. CASE q # p
        BY <3>1, <3>3, <2>6
      <3> QED  BY <3>2, <3>3
    <2> QED  BY <2>9, <2>11, <2>12, <2>13, <2>14 DEF IInv
  <1> QED  BY <1>4, <1>5

LEMMA SendStep ==
  ASSUME IInv, NEW w \in Pass, NEW answer \in Answers, Send(w, answer)
  PROVE  IInv'
  <1> DEFINE p == pass[w].pair
             told == [at |-> "answered", todo |-> pass[w].todo, pair |-> p,
                      attempt |-> pass[w].attempt, answer |-> answer]
  <1>0. /\ attempts \in [Pair -> Seq(Outcome)]
        /\ pass \in [Pass -> PassState]
        /\ received \in [Pair -> Nat]
    BY DEF IInv, TypeOK
  <1>1. /\ p \in Pair /\ pass[w].todo \in SUBSET Pair
        /\ pass[w].attempt \in Nat \ {0} /\ pass[w].at = "sending"
    BY <1>0 DEF PassState, Idle, Send
  <1>2. PICK reached \in {0, 1} : received' = [received EXCEPT ![p] = @ + reached]
    BY DEF Send
  <1>3. pass' = [pass EXCEPT ![w] = told] /\ UNCHANGED <<created, muted, subs, attempts, abandoned>>
    BY DEF Send
  <1>4. told \in PassState /\ told.at = "answered" /\ told.pair = p
        /\ told.attempt = pass[w].attempt
    BY <1>1 DEF PassState
  <1> HIDE DEF told
  <1>5. /\ pass' \in [Pass -> PassState]
        /\ pass'[w] = told
        /\ \A v \in Pass \ {w} : pass'[v] = pass[v]
    BY <1>3, <1>4, <1>0
  <1>6. /\ received' \in [Pair -> Nat]
        /\ received'[p] \in {received[p], received[p] + 1}
        /\ \A q \in Pair \ {p} : received'[q] = received[q]
    BY <1>0, <1>1, <1>2
  <1>7. TypeOK'
    BY <1>3, <1>5, <1>6 DEF IInv, TypeOK
  <1>8. ClaimsAreExclusive'
    BY <1>1, <1>3, <1>4, <1>5 DEF IInv, ClaimsAreExclusive, Holding, Last
  <1>9. \A v \in Pass \ {w} : pass[v].at = "sending" =>
          pass[v].pair # p /\ pass[v].pair \in Pair
    <2>1. \A v \in Pass : pass[v].at = "sending" => pass[v].pair \in Pair
      BY <1>0 DEF PassState, Idle
    <2> QED  BY <2>1, <1>1 DEF IInv, ClaimsAreExclusive, Holding
  <1>10. SendingIsUnanswered'
    BY <1>3, <1>4, <1>5, <1>6, <1>9 DEF IInv, SendingIsUnanswered
  <1>11. PushesAreAttempts'
    <2> SUFFICES ASSUME NEW q \in Pair
                 PROVE  received'[q] <= Len(attempts[q])
      BY <1>3 DEF PushesAreAttempts
    <2>1. CASE q = p
      <3>1. received[p] < Len(attempts[p]) /\ received[p] \in Nat /\ Len(attempts[p]) \in Nat
        BY <1>0, <1>1 DEF IInv, SendingIsUnanswered
      <3> QED  BY <3>1, <2>1, <1>6
    <2>2. CASE q # p
      BY <2>2, <1>6 DEF IInv, PushesAreAttempts
    <2> QED  BY <2>1, <2>2
  <1> QED
    BY <1>3, <1>7, <1>8, <1>10, <1>11 DEF IInv, OnlyRetryableIsRetried

LEMMA RecordStep ==
  ASSUME IInv, NEW w \in Pass, Record(w)
  PROVE  IInv'
  <1> DEFINE p == pass[w].pair
             i == pass[w].attempt
             settled == [attempts[p] EXCEPT ![i] = Recorded(pass[w].answer)]
  <1>0. /\ attempts \in [Pair -> Seq(Outcome)]
        /\ pass \in [Pass -> PassState]
        /\ received \in [Pair -> Nat]
    BY DEF IInv, TypeOK
  <1>1. /\ p \in Pair /\ pass[w].todo \in SUBSET Pair /\ pass[w].answer \in Answers
        /\ pass[w].at = "answered"
    <2>1. pass[w].at = "answered" /\ pass[w] \in PassState
      BY <1>0 DEF Record
    <2> QED  BY <2>1 DEF PassState, Idle
  <1>2. /\ i = Len(attempts[p]) /\ attempts[p][i] = "CLAIMED"
        /\ \A v \in Pass \ {w} : Holding(v) => pass[v].pair # p
    BY <1>1 DEF IInv, ClaimsAreExclusive, Holding, Last
  <1>3. attempts[p] \in Seq(Outcome) /\ Recorded(pass[w].answer) \in Outcome
        /\ i \in 1..Len(attempts[p])
    <2>1. attempts[p] \in Seq(Outcome) /\ i \in Nat \ {0}
      BY <1>0, <1>1 DEF PassState, Idle
    <2> QED  BY <2>1, <1>1, <1>2 DEF Recorded, Outcome, Answers
  <1>4. /\ settled \in Seq(Outcome) /\ Len(settled) = Len(attempts[p])
        /\ \A j \in 1..Len(attempts[p]) : j # i => settled[j] = attempts[p][j]
    BY <1>3, ReplacedAttempt
  <1>5. /\ attempts' = [attempts EXCEPT ![p] = settled]
        /\ pass' = [pass EXCEPT ![w] = Visiting(pass[w].todo)]
        /\ UNCHANGED <<created, muted, received, abandoned>>
    BY <1>2 DEF Record
  <1> HIDE DEF settled
  <1>6. /\ attempts' \in [Pair -> Seq(Outcome)]
        /\ attempts'[p] = settled
        /\ \A q \in Pair \ {p} : attempts'[q] = attempts[q]
    BY <1>0, <1>1, <1>4, <1>5
  <1>7. /\ pass' \in [Pass -> PassState]
        /\ pass'[w].at \notin {"sending", "answered"}
        /\ \A v \in Pass \ {w} : pass'[v] = pass[v]
    <2>1. /\ Visiting(pass[w].todo) \in PassState
          /\ Visiting(pass[w].todo).at \notin {"sending", "answered"}
      BY <1>1, VisitingState
    <2> QED  BY <2>1, <1>0, <1>5
  <1>8. TypeOK'
    <2>1. subs' \in [Subscription -> [status : Status, keys : SUBSET Keys,
                                      since : SUBSET Notification]]
      <3>1. subs \in [Subscription -> [status : Status, keys : SUBSET Keys,
                                       since : SUBSET Notification]]
        BY DEF IInv, TypeOK
      <3>2. p[2] \in Subscription
        BY <1>1 DEF Pair
      <3>3. [subs[p[2]] EXCEPT !.status = "expired"] \in
               [status : Status, keys : SUBSET Keys, since : SUBSET Notification]
        BY <3>1, <3>2 DEF Status
      <3>4. \/ subs' = [subs EXCEPT ![p[2]] = [subs[p[2]] EXCEPT !.status = "expired"]]
            \/ subs' = subs
        BY DEF Record
      <3> QED  BY <3>1, <3>2, <3>3, <3>4
    <2>2. \A q \in Pair : Len(attempts'[q]) <= MaxAttempts
      BY <1>4, <1>6 DEF IInv, TypeOK
    <2> QED  BY <2>1, <2>2, <1>5, <1>6, <1>7 DEF IInv, TypeOK
  <1>9. \A v \in Pass : Holding(v)' =>
          /\ v # w /\ Holding(v) /\ pass'[v] = pass[v]
          /\ pass[v].pair \in Pair \ {p}
    <2>1. \A v \in Pass : Holding(v) => pass[v].pair \in Pair
      BY <1>0 DEF PassState, Idle, Holding
    <2> QED  BY <2>1, <1>2, <1>7 DEF Holding
  <1>10. ClaimsAreExclusive'
    BY <1>6, <1>9 DEF IInv, ClaimsAreExclusive, Last
  <1>11. SendingIsUnanswered'
    BY <1>5, <1>6, <1>9 DEF IInv, SendingIsUnanswered, Holding
  <1>12. OnlyRetryableIsRetried'
    <2> SUFFICES ASSUME NEW q \in Pair, NEW j \in 1..(Len(attempts'[q]) - 1)
                 PROVE  attempts'[q][j] = "RETRYABLE"
      BY DEF OnlyRetryableIsRetried
    <2>1. CASE q # p
      BY <2>1, <1>6 DEF IInv, OnlyRetryableIsRetried
    <2>2. CASE q = p
      <3>1. j \in 1..(Len(attempts[p]) - 1) /\ j # i /\ j \in 1..Len(attempts[p])
        BY <2>2, <1>2, <1>3, <1>4, <1>6
      <3> QED  BY <3>1, <2>2, <1>1, <1>4, <1>6 DEF IInv, OnlyRetryableIsRetried
    <2> QED  BY <2>1, <2>2
  <1>13. PushesAreAttempts'
    BY <1>4, <1>5, <1>6 DEF IInv, PushesAreAttempts
  <1> QED  BY <1>8, <1>10, <1>11, <1>12, <1>13 DEF IInv

LEMMA StutterStep ==
  ASSUME IInv, UNCHANGED vars
  PROVE  IInv'
  <1>1. TypeOK'
    BY DEF IInv, TypeOK, vars
  <1> QED
    BY <1>1 DEF IInv, vars, ClaimsAreExclusive, OnlyRetryableIsRetried,
       SendingIsUnanswered, PushesAreAttempts, Holding, Last

THEOREM Invariance == Spec => []IInv
  <1>1. Init => IInv
    BY InitHolds
  <1>2. IInv /\ [Next]_vars => IInv'
    <2> SUFFICES ASSUME IInv, [Next]_vars PROVE IInv'
      OBVIOUS
    <2>1. CASE UNCHANGED vars
      BY <2>1, StutterStep
    <2>2. CASE \/ \E n \in Notification : CreateNotification(n)
               \/ \E m \in SUBSET Notification : SetPreferences(m)
               \/ \E s \in Subscription, k \in Keys : Subscribe(s, k)
               \/ \E s \in Subscription : DisableSubscription(s)
      BY <2>2, OperatorStep
    <2>3. ASSUME NEW w \in Pass, BeginPass(w) PROVE IInv'
      <3>1. /\ pass' = [pass EXCEPT ![w] = Visiting({p \in Pair : Pending(p)})]
            /\ UNCHANGED <<created, muted, subs, attempts, received, abandoned>>
        BY <2>3 DEF BeginPass
      <3>2. abandoned' \in 0..MaxAbandoned
        BY <3>1 DEF IInv, TypeOK
      <3>3. {p \in Pair : Pending(p)} \in SUBSET Pair
        OBVIOUS
      <3> QED  BY <3>1, <3>2, <3>3, LetGo
    <2>4. ASSUME NEW w \in Pass, Claim(w) PROVE IInv'
      BY <2>4, ClaimStep
    <2>5. ASSUME NEW w \in Pass, NEW answer \in Answers, Send(w, answer) PROVE IInv'
      BY <2>5, SendStep
    <2>6. ASSUME NEW w \in Pass, Record(w) PROVE IInv'
      BY <2>6, RecordStep
    <2>7. ASSUME NEW w \in Pass, Abandon(w) PROVE IInv'
      <3>1. abandoned' \in 0..MaxAbandoned
        BY <2>7 DEF Abandon, IInv, TypeOK
      <3>2. {} \in SUBSET Pair
        OBVIOUS
      <3> QED  BY <2>7, <3>1, <3>2, LetGo DEF Abandon
    <2> QED
      BY <2>1, <2>2, <2>3, <2>4, <2>5, <2>6, <2>7 DEF Next
  <1> QED  BY <1>1, <1>2, PTL DEF Spec

(* The tables keep their types and no pair has more than MaxAttempts.      *)
THEOREM TypeCorrect == Spec => []TypeOK
  BY Invariance, PTL DEF IInv

(* At most one pass at a time sends a pair, under the pair's open claim.   *)
THEOREM ExclusiveClaims == Spec => []ClaimsAreExclusive
  BY Invariance, PTL DEF IInv

(* Success is terminal and only retryable failures are retried.            *)
THEOREM RetryTheorem == Spec => []OnlyRetryableIsRetried
  BY Invariance, PTL DEF IInv

(* The device never receives more pushes than attempts were claimed.       *)
THEOREM PushTheorem == Spec => []PushesAreAttempts
  BY Invariance, PTL DEF IInv

(* Only a claim and a record touch the attempts; the one needs a pair that *)
(* is attemptable, the other an open claim.                                *)
LEMMA SettledStep ==
  ASSUME IInv, Next, NEW p \in Pair, attempts[p] # <<>>,
         Last(attempts[p]) \in {"DELIVERED", "FAILED"}
  PROVE  attempts'[p] = attempts[p]
  <1>0. attempts \in [Pair -> Seq(Outcome)] /\ pass \in [Pass -> PassState]
    BY DEF IInv, TypeOK
  <1>1. Len(attempts[p]) \in Nat \ {0}
    BY <1>0
  <1>2. ASSUME NEW w \in Pass, Claim(w) PROVE attempts'[p] = attempts[p]
    <2>1. PICK q \in pass[w].todo :
            \/ Attemptable(attempts[q]) /\ attempts' = [attempts EXCEPT ![q] = Append(@, "CLAIMED")]
            \/ UNCHANGED attempts
      BY <1>2 DEF Claim
    <2>2. CASE Attemptable(attempts[q]) /\ attempts' = [attempts EXCEPT ![q] = Append(@, "CLAIMED")]
      <3>1. ~Attemptable(attempts[p])
        BY <1>0, <1>1 DEF Attemptable, Last
      <3> QED  BY <2>2, <3>1, <1>0
    <2> QED  BY <2>1, <2>2
  <1>3. ASSUME NEW w \in Pass, Record(w) PROVE attempts'[p] = attempts[p]
    <2>1. pass[w].at = "answered" /\ pass[w].attempt = Len(attempts[pass[w].pair])
          /\ Last(attempts[pass[w].pair]) = "CLAIMED"
      <3>1. pass[w].at = "answered"
        BY <1>3 DEF Record
      <3> QED  BY <3>1 DEF IInv, ClaimsAreExclusive, Holding
    <2>2. pass[w].pair # p
      BY <2>1
    <2>3. \/ UNCHANGED attempts
          \/ attempts' = [attempts EXCEPT ![pass[w].pair] =
               [attempts[pass[w].pair] EXCEPT ![pass[w].attempt] = Recorded(pass[w].answer)]]
      BY <1>3 DEF Record
    <2> QED  BY <2>2, <2>3, <1>0
  <1>4. CASE UNCHANGED attempts
    BY <1>4
  <1> QED
    BY <1>2, <1>3, <1>4 DEF Next, CreateNotification, SetPreferences, Subscribe,
       DisableSubscription, BeginPass, Send, Abandon

(* A delivered or refused pair is never attempted or rewritten again.      *)
THEOREM SettledTheorem == Spec => SettledIsFinal
  <1> DEFINE Kept == \A p \in Pair :
        attempts[p] # <<>> /\ Last(attempts[p]) \in {"DELIVERED", "FAILED"} =>
          attempts'[p] = attempts[p]
  <1>1. IInv /\ [Next]_vars => [Kept]_vars
    BY SettledStep
  <1>2. Spec => [][Kept]_vars
    BY <1>1, Invariance, PTL DEF Spec
  <1> QED  BY <1>2 DEF SettledIsFinal

(* Only new keys bring an expired subscription back.                       *)
THEOREM ExpiryTheorem == Spec => ExpiryIsPermanent
  <1> DEFINE Kept == \A s \in Subscription :
        subs[s].status = "expired" /\ subs'[s].status # "expired" =>
          subs'[s].keys # subs[s].keys
  <1>1. IInv /\ [Next]_vars => [Kept]_vars
    <2> SUFFICES ASSUME IInv, Next, NEW s \in Subscription,
                        subs[s].status = "expired", subs'[s].status # "expired"
                 PROVE  subs'[s].keys # subs[s].keys
      OBVIOUS
    <2>0. subs \in [Subscription -> [status : Status, keys : SUBSET Keys,
                                     since : SUBSET Notification]]
      BY DEF IInv, TypeOK
    <2>1. CASE \E n \in Notification : CreateNotification(n)
      BY <2>0, <2>1 DEF CreateNotification
    <2>2. CASE \E t \in Subscription, k \in Keys : Subscribe(t, k)
      BY <2>0, <2>2 DEF Subscribe
    <2>3. CASE \E t \in Subscription : DisableSubscription(t)
      BY <2>0, <2>3 DEF DisableSubscription
    <2>4. CASE \E w \in Pass : Record(w)
      BY <2>0, <2>4 DEF Record
    <2>5. CASE UNCHANGED subs
      BY <2>5
    <2> QED
      BY <2>1, <2>2, <2>3, <2>4, <2>5 DEF Next, SetPreferences, BeginPass, Claim, Send, Abandon
  <1>2. Spec => [][Kept]_vars
    BY <1>1, Invariance, PTL DEF Spec
  <1> QED  BY <1>2 DEF ExpiryIsPermanent
------------------------------------------------------------------------------
\* An answer of success is that of a push that reached the device.
SuccessWasPushed ==
  \A w \in Pass : pass[w].at = "answered" /\ pass[w].answer = "ok" =>
    received[pass[w].pair] > 0

(* Only Send makes an answer, and no step takes a push back.               *)
LEMMA SuccessStep ==
  ASSUME IInv, SuccessWasPushed, [Next]_vars
  PROVE  SuccessWasPushed'
  <1>0. pass \in [Pass -> PassState] /\ received \in [Pair -> Nat]
    BY DEF IInv, TypeOK
  <1>1. ASSUME UNCHANGED received, NEW w \in Pass,
               \A v \in Pass \ {w} : pass'[v] = pass[v], pass'[w].at # "answered"
        PROVE  SuccessWasPushed'
    BY <1>1 DEF SuccessWasPushed
  <1>2. CASE UNCHANGED <<pass, received>>
    BY <1>2 DEF SuccessWasPushed
  <1>3. ASSUME NEW w \in Pass, BeginPass(w) PROVE SuccessWasPushed'
    BY <1>0, <1>1, <1>3 DEF BeginPass, Visiting, Idle
  <1>4. ASSUME NEW w \in Pass, Claim(w) PROVE SuccessWasPushed'
    BY <1>0, <1>1, <1>4 DEF Claim, Visiting, Idle
  <1>5. ASSUME NEW w \in Pass, Record(w) PROVE SuccessWasPushed'
    BY <1>0, <1>1, <1>5 DEF Record, Visiting, Idle
  <1>6. ASSUME NEW w \in Pass, Abandon(w) PROVE SuccessWasPushed'
    BY <1>0, <1>1, <1>6 DEF Abandon, Idle
  <1>7. ASSUME NEW w \in Pass, NEW answer \in Answers, Send(w, answer)
        PROVE  SuccessWasPushed'
    <2> DEFINE p == pass[w].pair
    <2>1. pass[w].at = "sending" /\ p \in Pair
      BY <1>0, <1>7 DEF Send, PassState, Idle
    <2>2. PICK reached \in {0, 1} :
            /\ answer = "ok" => reached = 1
            /\ received' = [received EXCEPT ![p] = @ + reached]
      BY <1>7 DEF Send
    <2>3. /\ pass'[w].pair = p
          /\ pass'[w].answer = answer
          /\ \A v \in Pass \ {w} : pass'[v] = pass[v]
      BY <1>0, <1>7 DEF Send
    <2>4. /\ \A q \in Pair : received'[q] >= received[q] /\ received[q] \in Nat
          /\ answer = "ok" => received'[p] > 0
      BY <1>0, <2>1, <2>2
    <2>5. \A v \in Pass : pass[v].at = "answered" => pass[v].pair \in Pair
      BY <1>0 DEF PassState, Idle
    <2> SUFFICES ASSUME NEW v \in Pass, pass'[v].at = "answered", pass'[v].answer = "ok"
                 PROVE  received'[pass'[v].pair] > 0
      BY DEF SuccessWasPushed
    <2>6. CASE v = w
      BY <2>3, <2>4, <2>6
    <2>7. CASE v # w
      <3>1. pass'[v] = pass[v]
        BY <2>3, <2>7
      <3>2. pass[v].pair \in Pair /\ received[pass[v].pair] > 0
        BY <2>5, <3>1 DEF SuccessWasPushed
      <3>3. received'[pass[v].pair] \in Nat
        BY <1>0, <2>2, <3>2
      <3> QED
        BY <2>4, <3>1, <3>2, <3>3
    <2> QED
      BY <2>6, <2>7
  <1> QED
    BY <1>2, <1>3, <1>4, <1>5, <1>6, <1>7 DEF Next, vars, CreateNotification,
       SetPreferences, Subscribe, DisableSubscription

LEMMA SuccessInvariance == Spec => []SuccessWasPushed
  <1>1. Init => SuccessWasPushed
    BY DEF Init, SuccessWasPushed, Idle
  <1>2. IInv /\ SuccessWasPushed /\ [Next]_vars => SuccessWasPushed'
    BY SuccessStep
  <1> QED  BY <1>1, <1>2, Invariance, PTL DEF Spec

\* The contract's view of the attempts.
Tries   == [p \in Pair |-> Len(attempts[p])]
Outcomes == [p \in Pair |-> IF attempts[p] = <<>> THEN "NONE" ELSE Last(attempts[p])]

(* A claim is an attempt of the contract: an attemptable pair has none, or *)
(* a retryable failure behind it.                                          *)
LEMMA ClaimIsAttempt ==
  ASSUME IInv, NEW w \in Pass, Claim(w), attempts' # attempts
  PROVE  \E p \in Pair : Contract!Attempt(p)
  <1>0. attempts \in [Pair -> Seq(Outcome)] /\ pass \in [Pass -> PassState]
    BY DEF IInv, TypeOK
  <1>1. pass[w].todo \in SUBSET Pair
    BY <1>0 DEF Claim, PassState, Idle
  <1>2. PICK p \in pass[w].todo :
          Attemptable(attempts[p]) /\ attempts' = [attempts EXCEPT ![p] = Append(@, "CLAIMED")]
    BY DEF Claim
  <1> DEFINE more == Append(attempts[p], "CLAIMED")
  <1>3. p \in Pair /\ attempts[p] \in Seq(Outcome)
    BY <1>0, <1>1
  <1>4. /\ Len(more) = Len(attempts[p]) + 1 /\ more # <<>>
        /\ more[Len(attempts[p]) + 1] = "CLAIMED"
    BY <1>3
  <1>5. /\ Len(attempts[p]) < MaxAttempts
        /\ attempts[p] # <<>> => Last(attempts[p]) = "RETRYABLE"
    BY <1>2, <1>3, AttemptableHasNoClaim
  <1>6. attempts' = [attempts EXCEPT ![p] = more]
    BY <1>2
  <1> HIDE DEF more
  <1>7. /\ Outcomes[p] \in {"NONE", "RETRYABLE"} /\ Tries[p] < MaxAttempts
        /\ Tries' = [Tries EXCEPT ![p] = @ + 1]
        /\ Outcomes' = [Outcomes EXCEPT ![p] = "CLAIMED"]
    <2>1. attempts'[p] = more /\ \A q \in Pair \ {p} : attempts'[q] = attempts[q]
      BY <1>0, <1>3, <1>6
    <2>2. Outcomes[p] \in {"NONE", "RETRYABLE"} /\ Tries[p] < MaxAttempts
      BY <1>3, <1>5 DEF Outcomes, Tries
    <2>3. Tries' = [Tries EXCEPT ![p] = @ + 1]
      BY <1>3, <1>4, <2>1 DEF Tries
    <2>4. Last(more) = "CLAIMED"
      BY <1>4 DEF Last
    <2>5. Outcomes' = [Outcomes EXCEPT ![p] = "CLAIMED"]
      BY <1>3, <1>4, <2>1, <2>4 DEF Outcomes, Last
    <2> QED
      BY <2>2, <2>3, <2>5
  <1>8. UNCHANGED received
    BY DEF Claim
  <1> QED
    BY <1>3, <1>7, <1>8 DEF Contract!Attempt, Tries, Outcomes

(* A push is one of the open attempt, which has had none.                  *)
LEMMA SendIsPush ==
  ASSUME IInv, NEW w \in Pass, NEW answer \in Answers, Send(w, answer)
  PROVE  \/ UNCHANGED <<attempts, received>>
         \/ \E p \in Pair : Contract!Push(p)
  <1> DEFINE p == pass[w].pair
  <1>0. /\ attempts \in [Pair -> Seq(Outcome)] /\ pass \in [Pass -> PassState]
        /\ received \in [Pair -> Nat]
    BY DEF IInv, TypeOK
  <1>1. pass[w].at = "sending" /\ p \in Pair
    BY <1>0 DEF Send, PassState, Idle
  <1>2. /\ UNCHANGED attempts
        /\ \/ received' = [received EXCEPT ![p] = @ + 0]
           \/ received' = [received EXCEPT ![p] = @ + 1]
    BY DEF Send
  <1>3. received[p] < Len(attempts[p]) /\ Last(attempts[p]) = "CLAIMED"
    BY <1>1 DEF IInv, SendingIsUnanswered, ClaimsAreExclusive, Holding
  <1>4. attempts[p] # <<>>
    BY <1>0, <1>1, <1>3
  <1>5. Tries[p] = Len(attempts[p]) /\ Outcomes[p] = "CLAIMED"
    BY <1>1, <1>3, <1>4 DEF Tries, Outcomes
  <1>6. UNCHANGED <<Tries, Outcomes>>
    BY <1>2 DEF Tries, Outcomes, Last
  <1>7. CASE received' = [received EXCEPT ![p] = @ + 0]
    BY <1>0, <1>1, <1>2, <1>7
  <1>8. CASE received' = [received EXCEPT ![p] = @ + 1]
    BY <1>1, <1>3, <1>5, <1>6, <1>8 DEF Contract!Push, Tries, Outcomes
  <1> QED
    BY <1>2, <1>7, <1>8

(* A record settles the open attempt, as DELIVERED only what was pushed.   *)
LEMMA RecordIsSettle ==
  ASSUME IInv, SuccessWasPushed, NEW w \in Pass, Record(w)
  PROVE  \E p \in Pair : \E result \in {"DELIVERED", "RETRYABLE", "FAILED"} :
           Contract!Settle(p, result)
  <1> DEFINE p == pass[w].pair
             i == pass[w].attempt
             result == Recorded(pass[w].answer)
             settled == [attempts[p] EXCEPT ![i] = result]
  <1>0. attempts \in [Pair -> Seq(Outcome)] /\ pass \in [Pass -> PassState]
    BY DEF IInv, TypeOK
  <1>1. pass[w].at = "answered" /\ p \in Pair /\ pass[w].answer \in Answers
    BY <1>0 DEF Record, PassState, Idle
  <1>2. i = Len(attempts[p]) /\ Last(attempts[p]) = "CLAIMED"
    BY <1>1 DEF IInv, ClaimsAreExclusive, Holding
  <1>3. attempts[p] \in Seq(Outcome) /\ attempts[p] # <<>> /\ i \in 1..Len(attempts[p])
    <2>1. i \in Nat \ {0}
      BY <1>0, <1>1 DEF PassState, Idle
    <2> QED
      BY <1>0, <1>1, <1>2, <2>1
  <1>4. /\ result \in {"DELIVERED", "RETRYABLE", "FAILED"}
        /\ result = "DELIVERED" => pass[w].answer = "ok"
    BY <1>1 DEF Recorded, Answers
  <1>5. result = "DELIVERED" => received[p] > 0
    BY <1>1, <1>4 DEF SuccessWasPushed
  <1>6. /\ attempts' = [attempts EXCEPT ![p] = settled]
        /\ UNCHANGED received
    BY <1>2 DEF Record, Last
  <1> HIDE DEF result
  <1>7. Len(settled) = Len(attempts[p]) /\ settled # <<>> /\ settled[i] = result
    <2>1. result \in Outcome
      BY <1>4 DEF Outcome
    <2> QED
      BY <1>3, <2>1, ReplacedAttempt
  <1> HIDE DEF settled
  <1>8. attempts'[p] = settled /\ \A q \in Pair \ {p} : attempts'[q] = attempts[q]
    BY <1>0, <1>1, <1>6
  <1>9. Tries' = Tries
    BY <1>1, <1>7, <1>8 DEF Tries
  <1>10. Last(settled) = result
    BY <1>2, <1>7 DEF Last
  <1>11. Outcomes' = [Outcomes EXCEPT ![p] = result]
    BY <1>1, <1>7, <1>8, <1>10 DEF Outcomes, Last
  <1>12. Outcomes[p] = "CLAIMED"
    BY <1>1, <1>2, <1>3 DEF Outcomes
  <1>13. PICK q \in Pair, r \in {"DELIVERED", "RETRYABLE", "FAILED"} : q = p /\ r = result
    BY <1>1, <1>4
  <1>14. Contract!Settle(q, r)
    BY <1>5, <1>6, <1>9, <1>11, <1>12, <1>13 DEF Contract!Settle, Tries, Outcomes
  <1> QED
    BY <1>14

(* KeepsContract: concurrent passes with stale listings, interrupted at    *)
(* any point, implement the contract of the documentation: every step is   *)
(* an attempt, a push or a settlement that the contract allows, or none.   *)
THEOREM ContractTheorem == Spec => KeepsContract
  <1>1. Init => Contract!Init
    BY DEF Init, Contract!Init
  <1>2. IInv /\ SuccessWasPushed /\ [Next]_vars => [Contract!Next]_Contract!vars
    <2> SUFFICES ASSUME IInv, SuccessWasPushed, [Next]_vars
                 PROVE  Contract!Next \/ UNCHANGED Contract!vars
      OBVIOUS
    <2>1. CASE UNCHANGED <<attempts, received>>
      BY <2>1 DEF Contract!vars, Last
    <2>2. ASSUME NEW w \in Pass, Claim(w) PROVE Contract!Next \/ UNCHANGED Contract!vars
      BY <2>1, <2>2, ClaimIsAttempt DEF Contract!Next, Claim
    <2>3. ASSUME NEW w \in Pass, NEW answer \in Answers, Send(w, answer)
          PROVE  Contract!Next \/ UNCHANGED Contract!vars
      BY <2>1, <2>3, SendIsPush DEF Contract!Next
    <2>4. ASSUME NEW w \in Pass, Record(w) PROVE Contract!Next \/ UNCHANGED Contract!vars
      BY <2>4, RecordIsSettle DEF Contract!Next
    <2> QED
      BY <2>1, <2>2, <2>3, <2>4 DEF Next, vars, CreateNotification, SetPreferences,
         Subscribe, DisableSubscription, BeginPass, Abandon
  <1> QED
    BY <1>1, <1>2, Invariance, SuccessInvariance, PTL DEF Spec, KeepsContract, Contract!Spec
==============================================================================

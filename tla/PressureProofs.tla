---------------------------- MODULE PressureProofs ----------------------------
(***************************************************************************)
(* Proofs about post-activation pressure, for every set of observations,   *)
(* every deployment, every evaluator and every list of near misses that    *)
(* satisfy the assumptions, any number of passes and any number of faults. *)
(*                                                                         *)
(* What is announced is a statement about the past, so the invariant       *)
(* speaks of the rows as they were after the first k receipts.  The        *)
(* operators below say that of explicit values: a step compares them with  *)
(* the same of the primed variables.                                       *)
(***************************************************************************)
EXTENDS Pressure, SymbolStoreProofs

Latest(s) == s[Len(s)]
PositionIn(s, id) == CHOOSE i \in DOMAIN s : s[i].id = id
Received(s, id) == \E i \in DOMAIN s : s[i].id = id
FirstOf(s, k) == {s[i] : i \in 1..k}

\* The authority after k receipts, of a promotion p written after n of them.
ActiveOf(s, p, n, k) == Replay(FirstOf(s, k), IF k >= n THEN p ELSE NoMRZ).active

DirectionOf(m, S) == ActiveMRZReport(m, S).pressure.direction

\* After k receipts lifecycle a was active in direction d, or in another.
Held(s, p, n, k, a, d) ==
  \E m \in {ActiveOf(s, p, n, k)} :
    m # NoMRZ /\ m.trigger = a /\ DirectionOf(m, FirstOf(s, k)) = d
Other(s, p, n, k, a, d) ==
  \E m \in {ActiveOf(s, p, n, k)} :
    m # NoMRZ /\ m.trigger = a /\ DirectionOf(m, FirstOf(s, k)) # d

Live(s, p, n, c, a) ==
  \/ p # NoMRZ /\ p.trigger = a /\ n >= c
  \/ \A i \in 1..c : s[i].id # a

\* What a row or a report that is up to date says of the evidence.
Matches(row, now) ==
  /\ row.direction = now.pressure.direction
  /\ row.status = now.pressure.status
  /\ row.total = now.total
  /\ row.above = now.above /\ row.inside = now.inside /\ row.below = now.below
  /\ row.aboveEnvelope = now.aboveEnvelope /\ row.belowEnvelope = now.belowEnvelope
  /\ row.successor = now.successor

AnnouncementType ==
  [activation : Int, at : Int, previous : Directions, direction : {"UP", "DOWN"}]
------------------------------------------------------------------------------
(* The receipts are the stored observations, each once.                    *)
ReceiptsInv ==
  /\ received \in Seq(Observation)
  /\ seen = {received[i] : i \in DOMAIN received}
  /\ \A i, j \in DOMAIN received : i # j => received[i] # received[j]
  /\ cutover \in Nat /\ cutover <= Len(received)
  /\ promotedAt \in Nat /\ promotedAt <= Len(received)

(* A report that still is of the newest observation is of the authority    *)
(* and the evidence: an authority that changes without a receipt is a      *)
(* promotion, before which there was none to report on.  The pass of the   *)
(* newest observation has read at least that.                              *)
ReportInv(r) ==
  /\ Received(received, r.trigger) /\ Received(received, r.newest)
  /\ r.newest = Latest(received).id =>
       /\ active # NoMRZ /\ r.activation = active.trigger
       /\ r.report = ActiveMRZReport(active, seen)
  /\ r.trigger = Latest(received).id => r.newest = Latest(received).id

ReportsInv == \A r \in reports : ReportInv(r)
DueInv == \A t \in due : Received(received, t)

(* A row is what its lifecycle was when the row's observation was newest.  *)
RowInv(a, row) ==
  /\ Received(received, row.at)
  /\ PositionIn(received, row.at) >= cutover
  /\ Held(received, promotion, promotedAt, PositionIn(received, row.at), a, row.direction)
  /\ row.at = Latest(received).id =>
       /\ active # NoMRZ /\ a = active.trigger
       /\ Matches(row, ActiveMRZReport(active, seen))

RowsInv == \A a \in DOMAIN pressure : RowInv(a, pressure[a])

(* An announcement precedes its lifecycle's row.  Either the row still has *)
(* the direction announced, or there has been another in between.          *)
AnnouncementInv(n) ==
  /\ Received(received, n.at)
  /\ n.activation \in DOMAIN pressure
  /\ PositionIn(received, n.at) <= PositionIn(received, pressure[n.activation].at)
  /\ \/ pressure[n.activation].direction = n.direction
     \/ \E k \in PositionIn(received, n.at) + 1 ..
                 PositionIn(received, pressure[n.activation].at) :
          Other(received, promotion, promotedAt, k, n.activation, n.direction)
  /\ \/ Live(received, promotion, promotedAt, cutover, n.activation)
     \/ \E k \in cutover .. PositionIn(received, n.at) - 1 :
          Other(received, promotion, promotedAt, k, n.activation, n.direction)

(* Of two announcements in one direction, another came in between.         *)
RepeatInv(n1, n2) ==
  n1.activation = n2.activation /\ n1.direction = n2.direction =>
    \E k \in PositionIn(received, n1.at) + 1 .. PositionIn(received, n2.at) - 1 :
      Other(received, promotion, promotedAt, k, n2.activation, n2.direction)

AnnouncedInv ==
  /\ announced \in Seq(AnnouncementType)
  /\ \A i \in DOMAIN announced : AnnouncementInv(announced[i])
  /\ \A i, j \in DOMAIN announced : i < j => RepeatInv(announced[i], announced[j])

(* Somebody will bring a row that is behind up to date: a pass that is     *)
(* scheduled, a report of the newest observation, or it has failed.        *)
OwedInv ==
  Behind /\ up =>
    \/ Latest(received).id \in due \cup failed
    \/ promotion # NoMRZ /\ promotion.trigger \in due \cup failed
    \/ \E r \in reports :
         /\ r.newest = Latest(received).id
         /\ \/ r.trigger = Latest(received).id
            \/ promotion # NoMRZ /\ r.trigger = promotion.trigger

PressureInv ==
  /\ StoreInv
  /\ ReceiptsInv
  /\ ReportsInv
  /\ DueInv
  /\ RowsInv
  /\ AnnouncedInv
  /\ OwedInv
------------------------------------------------------------------------------
(* The direction of a report is one of three.                              *)
LEMMA DirectionIsOne ==
  ASSUME NEW m, NEW S
  PROVE  DirectionOf(m, S) \in Directions
<1> DEFINE post == PostActivationObservations(m, S)
           up_ == Cardinality({o \in post : ExternalSide(m, o.price) = "UP"})
           down_ == Cardinality({o \in post : ExternalSide(m, o.price) = "DOWN"})
<1>1. DirectionOf(m, S) =
        ClassifyPostActivationState(Cardinality(post), up_, down_).direction
  BY DEF DirectionOf, ActiveMRZReport, ReportOf
<1>2. \A total, above, below :
        ClassifyPostActivationState(total, above, below).direction \in Directions
  BY DEF ClassifyPostActivationState, Reading, Directions
<1> QED
  BY <1>1, <1>2

(* Every receipt has its position.                                         *)
LEMMA PositionIs ==
  ASSUME ReceiptsInv
  PROVE  /\ Len(received) \in Nat /\ DOMAIN received = 1..Len(received)
         /\ \A k \in DOMAIN received :
              /\ Received(received, received[k].id)
              /\ PositionIn(received, received[k].id) = k
         /\ \A id : Received(received, id) =>
              /\ PositionIn(received, id) \in 1..Len(received)
              /\ received[PositionIn(received, id)].id = id
<1>1. Len(received) \in Nat /\ DOMAIN received = 1..Len(received)
  BY DEF ReceiptsInv
<1>2. \A k \in DOMAIN received : received[k] \in Observation
  BY DEF ReceiptsInv
<1>3. \A i, j \in DOMAIN received : received[i].id = received[j].id => i = j
  BY <1>2, ObservationAssumption DEF ReceiptsInv
<1>4. \A k \in DOMAIN received : /\ Received(received, received[k].id)
                                 /\ PositionIn(received, received[k].id) = k
  BY <1>3 DEF PositionIn, Received
<1>5. \A id : Received(received, id) =>
         /\ PositionIn(received, id) \in DOMAIN received
         /\ received[PositionIn(received, id)].id = id
  BY DEF PositionIn, Received
<1> QED
  BY <1>1, <1>4, <1>5

LEMMA LatestIs ==
  ASSUME ReceiptsInv, received # <<>>
  PROVE  /\ Latest(received) \in seen /\ Received(received, Latest(received).id)
         /\ PositionIn(received, Latest(received).id) = Len(received)
         /\ \A id : Received(received, id) /\ PositionIn(received, id) = Len(received)
                      => id = Latest(received).id
<1>1. Len(received) \in Nat /\ Len(received) # 0
  BY DEF ReceiptsInv
<1>2. Len(received) \in 1..Len(received)
  BY <1>1
<1> QED
  BY <1>2, PositionIs DEF ReceiptsInv, Latest

LEMMA AllReceived ==
  ASSUME ReceiptsInv
  PROVE  /\ FirstOf(received, Len(received)) = seen
         /\ \A o \in seen : Received(received, o.id)
BY DEF ReceiptsInv, FirstOf, Received

(* An authority is that of all receipts, of which there is one at least.   *)
LEMMA AuthorityHasEvidence ==
  ASSUME StoreInv, ReceiptsInv
  PROVE  /\ ActiveOf(received, promotion, promotedAt, Len(received)) = active
         /\ active # NoMRZ => received # <<>>
<1>1. (IF Len(received) >= promotedAt THEN promotion ELSE NoMRZ) = promotion
  BY PositionIs DEF ReceiptsInv
<1>2. ActiveOf(received, promotion, promotedAt, Len(received)) = active
  BY <1>1, AllReceived DEF ActiveOf, StoreInv, Result
<1>3. received = <<>> => active = NoMRZ
  <2> SUFFICES ASSUME received = <<>> PROVE active = NoMRZ
    OBVIOUS
  <2>1. seen = {}
    BY DEF ReceiptsInv
  <2>2. Replay(seen, promotion) = Result(NoMRZ, <<>>)
    BY <2>1, ReplayEquation DEF StoreInv
  <2> QED
    BY <2>2 DEF StoreInv, Result
<1> QED
  BY <1>2, <1>3
------------------------------------------------------------------------------
(* What a step leaves as it was: the past.                                 *)
PastKept ==
  /\ \A id : Received(received, id) =>
       Received(received', id) /\ PositionIn(received', id) = PositionIn(received, id)
  /\ \A k \in 0..Len(received) : \A a, d :
       /\ Held(received, promotion, promotedAt, k, a, d) =>
            Held(received', promotion', promotedAt', k, a, d)
       /\ Other(received, promotion, promotedAt, k, a, d) =>
            Other(received', promotion', promotedAt', k, a, d)
  /\ cutover' = cutover
  /\ \A a : Live(received, promotion, promotedAt, cutover, a) =>
              Live(received', promotion', promotedAt', cutover', a)

LEMMA ReceiptKeepsPast ==
  ASSUME ReceiptsInv, NEW o \in Observation, o \notin seen,
         received' = Append(received, o), seen' = seen \cup {o},
         UNCHANGED <<cutover, promotedAt, promotion>>
  PROVE  /\ ReceiptsInv' /\ PastKept
         /\ Latest(received') = o /\ Received(received', o.id)
         /\ ~Received(received, o.id)
<1> DEFINE n == Len(received)
           s == received'
<1>1. /\ n \in Nat /\ DOMAIN received = 1..n
      /\ s \in Seq(Observation) /\ Len(s) = n + 1 /\ DOMAIN s = 1..(n + 1)
      /\ s[n + 1] = o /\ \A i \in 1..n : s[i] = received[i]
  BY DEF ReceiptsInv
<1>2. \A i \in 1..(n + 1) : i \in 1..n \/ i = n + 1
  BY <1>1
<1>3. \A i \in 1..n : received[i] \in seen /\ received[i] # o
  BY <1>1 DEF ReceiptsInv
<1>4. ReceiptsInv'
  <2>1. seen' = {s[i] : i \in DOMAIN s}
    <3>1. \A x \in seen : \E i \in 1..(n + 1) : x = s[i]
      BY <1>1 DEF ReceiptsInv
    <3>2. n + 1 \in 1..(n + 1)
      BY <1>1
    <3>3. \A i \in 1..(n + 1) : s[i] \in seen \cup {o}
      BY <1>1, <1>2, <1>3
    <3> QED
      BY <1>1, <3>1, <3>2, <3>3
  <2>2. \A i, j \in DOMAIN s : i # j => s[i] # s[j]
    <3> HIDE DEF s
    <3> QED
      BY <1>1, <1>2, <1>3 DEF ReceiptsInv
  <2>3. cutover' \in Nat /\ cutover' <= Len(s) /\ promotedAt' \in Nat /\ promotedAt' <= Len(s)
    BY <1>1 DEF ReceiptsInv
  <2> QED
    BY <1>1, <2>1, <2>2, <2>3 DEF ReceiptsInv
<1>5. Latest(s) = o /\ Received(s, o.id)
  <2>1. n + 1 \in DOMAIN s /\ s[n + 1] = o
    BY <1>1
  <2>2. Latest(s) = o
    BY <1>1 DEF Latest
  <2> QED
    BY <2>1, <2>2 DEF Received
<1>6. ~Received(received, o.id)
  <2>1. seen \subseteq Observation
    BY DEF ReceiptsInv
  <2> QED
    BY <1>1, <1>3, <2>1, ObservationAssumption DEF Received
<1>7. ASSUME NEW id, Received(received, id)
      PROVE  Received(s, id) /\ PositionIn(s, id) = PositionIn(received, id)
  <2>1. PICK k \in 1..n : received[k].id = id
    BY <1>1, <1>7 DEF Received
  <2>2. PositionIn(received, id) = k
    BY <1>1, <2>1, PositionIs
  <2>3. k \in DOMAIN s /\ s[k].id = id
    BY <1>1, <2>1
  <2>4. ReceiptsInv' => \A i \in DOMAIN s : Received(s, s[i].id) /\ PositionIn(s, s[i].id) = i
    <3>1. \A i \in DOMAIN s : s[i] \in Observation
      BY <1>1
    <3>2. ReceiptsInv' => \A i, j \in DOMAIN s : s[i].id = s[j].id => i = j
      BY <3>1, ObservationAssumption DEF ReceiptsInv
    <3> QED
      BY <3>2 DEF PositionIn, Received
  <2> QED
    BY <1>4, <2>2, <2>3, <2>4
<1>8. \A k \in 0..n : FirstOf(s, k) = FirstOf(received, k)
  <2> SUFFICES ASSUME NEW k \in 0..n PROVE FirstOf(s, k) = FirstOf(received, k)
    OBVIOUS
  <2>1. \A i \in 1..k : i \in 1..n
    BY <1>1
  <2>2. \A i \in 1..k : s[i] = received[i]
    BY <1>1, <2>1
  <2> HIDE DEF s
  <2> QED
    BY <2>2 DEF FirstOf
<1>9. \A k \in 0..n : \A a, d :
        /\ Held(received, promotion, promotedAt, k, a, d) =>
             Held(s, promotion', promotedAt', k, a, d)
        /\ Other(received, promotion, promotedAt, k, a, d) =>
             Other(s, promotion', promotedAt', k, a, d)
  <2> HIDE DEF s, n
  <2> QED
    BY <1>8 DEF Held, Other, ActiveOf
<1>10. \A a : Live(received, promotion, promotedAt, cutover, a) =>
                Live(s, promotion', promotedAt', cutover', a)
  <2>1. \A i \in 1..cutover : s[i] = received[i]
    BY <1>1 DEF ReceiptsInv
  <2> HIDE DEF s
  <2> QED
    BY <2>1 DEF Live
<1> QED
  BY <1>4, <1>5, <1>6, <1>7, <1>9, <1>10 DEF PastKept

LEMMA PromotionKeepsPast ==
  ASSUME StoreInv, ReceiptsInv, promotion = NoMRZ, active = NoMRZ,
         promotedAt' = Len(received), UNCHANGED <<received, seen, cutover>>
  PROVE  ReceiptsInv' /\ PastKept
<1>1. Len(received) \in Nat
  BY PositionIs
<1>2. ReceiptsInv'
  BY <1>1 DEF ReceiptsInv
<1>3. ASSUME NEW k \in 0..Len(received),
             ActiveOf(received, promotion, promotedAt, k) # NoMRZ
      PROVE  ActiveOf(received', promotion', promotedAt', k) =
               ActiveOf(received, promotion, promotedAt, k)
  <2>1. k # Len(received)
    BY <1>3, AuthorityHasEvidence
  <2>2. ~(k >= promotedAt')
    BY <1>1, <2>1
  <2> QED
    BY <2>2 DEF ActiveOf
<1>4. \A k \in 0..Len(received) : \A a, d :
        /\ Held(received, promotion, promotedAt, k, a, d) =>
             Held(received', promotion', promotedAt', k, a, d)
        /\ Other(received, promotion, promotedAt, k, a, d) =>
             Other(received', promotion', promotedAt', k, a, d)
  BY <1>3 DEF Held, Other
<1>5. \A a : Live(received, promotion, promotedAt, cutover, a) =>
               Live(received', promotion', promotedAt', cutover', a)
  BY DEF Live
<1> QED
  BY <1>2, <1>4, <1>5 DEF PastKept

LEMMA NothingReceived ==
  ASSUME ReceiptsInv, UNCHANGED <<received, seen, cutover, promotedAt, promotion>>
  PROVE  ReceiptsInv' /\ PastKept
BY DEF ReceiptsInv, PastKept

(* With the past, what was announced and what the rows say of it is kept.  *)
LEMMA AnnouncementsKept ==
  ASSUME ReceiptsInv, RowsInv, AnnouncedInv, PastKept, UNCHANGED <<pressure, announced>>
  PROVE  AnnouncedInv'
<1> DEFINE P(id) == PositionIn(received, id)
           O(k, a, d) == Other(received, promotion, promotedAt, k, a, d)
           O2(k, a, d) == Other(received', promotion', promotedAt', k, a, d)
<1>1. \A id : Received(received, id) =>
        /\ P(id) \in 1..Len(received)
        /\ Received(received', id) /\ PositionIn(received', id) = P(id)
  BY PositionIs DEF PastKept
<1>2. \A k \in 0..Len(received) : \A a, d : O(k, a, d) => O2(k, a, d)
  BY DEF PastKept
<1>3. Len(received) \in Nat /\ cutover \in Nat /\ cutover' = cutover
  BY PositionIs DEF ReceiptsInv, PastKept
<1>4. ASSUME NEW n, AnnouncementInv(n)
      PROVE  /\ AnnouncementInv(n)'
             /\ Received(received, n.at)
  <2>1. /\ Received(received, n.at)
        /\ n.activation \in DOMAIN pressure
        /\ Received(received, pressure[n.activation].at)
    BY <1>4 DEF AnnouncementInv, RowsInv, RowInv
  <2> DEFINE i == P(n.at)
             j == P(pressure[n.activation].at)
             a == n.activation
             d == n.direction
  <2>2. /\ i \in 1..Len(received) /\ j \in 1..Len(received)
        /\ PositionIn(received', n.at) = i
        /\ PositionIn(received', pressure'[n.activation].at) = j
    BY <1>1, <2>1
  <2>3. /\ i <= j
        /\ pressure[a].direction = d \/ \E k \in i + 1 .. j : O(k, a, d)
        /\ \/ Live(received, promotion, promotedAt, cutover, a)
           \/ \E k \in cutover .. i - 1 : O(k, a, d)
    BY <1>4 DEF AnnouncementInv
  <2> HIDE DEF i, j, O, O2, P
  <2>4. /\ \A k \in i + 1 .. j : k \in 0..Len(received)
        /\ \A k \in cutover .. i - 1 : k \in 0..Len(received)
    BY <1>3, <2>2
  <2>5. \/ pressure'[a].direction = d
        \/ \E k \in i + 1 .. j : O2(k, a, d)
    BY <1>2, <2>3, <2>4
  <2>6. \/ Live(received', promotion', promotedAt', cutover', a)
        \/ \E k \in cutover' .. i - 1 : O2(k, a, d)
    BY <1>2, <1>3, <2>3, <2>4 DEF PastKept
  <2>7. Received(received', n.at) /\ a \in DOMAIN pressure'
    BY <1>1, <2>1
  <2> QED
    BY <2>1, <2>2, <2>3, <2>5, <2>6, <2>7 DEF AnnouncementInv, O2
<1>5. ASSUME NEW n1, NEW n2, Received(received, n1.at), Received(received, n2.at),
             RepeatInv(n1, n2)
      PROVE  RepeatInv(n1, n2)'
  <2> DEFINE i == P(n1.at)
             j == P(n2.at)
  <2>1. /\ i \in 1..Len(received) /\ j \in 1..Len(received)
        /\ PositionIn(received', n1.at) = i /\ PositionIn(received', n2.at) = j
    BY <1>1, <1>5
  <2> SUFFICES ASSUME n1.activation = n2.activation, n1.direction = n2.direction
               PROVE  \E k \in i + 1 .. j - 1 : O2(k, n2.activation, n2.direction)
    BY <2>1 DEF RepeatInv
  <2>2. PICK k \in i + 1 .. j - 1 : O(k, n2.activation, n2.direction)
    BY <1>5 DEF RepeatInv
  <2> HIDE DEF i, j, O, O2, P
  <2>3. k \in 0..Len(received)
    BY <1>3, <2>1
  <2> QED
    BY <1>2, <2>2, <2>3
<1> QED
  BY <1>4, <1>5 DEF AnnouncedInv

LEMMA RowsKept ==
  ASSUME ReceiptsInv, RowsInv, PastKept, UNCHANGED pressure,
         \A a \in DOMAIN pressure : pressure[a].at = Latest(received').id =>
           /\ pressure[a].at = Latest(received).id
           /\ UNCHANGED <<active, seen>>
  PROVE  RowsInv'
<1> SUFFICES ASSUME NEW a \in DOMAIN pressure PROVE RowInv(a, pressure[a])'
  BY DEF RowsInv
<1> DEFINE row == pressure[a]
           k == PositionIn(received, row.at)
<1>1. RowInv(a, row)
  BY DEF RowsInv
<1>2. /\ Received(received', row.at) /\ PositionIn(received', row.at) = k
      /\ cutover' = cutover /\ k >= cutover
      /\ k \in 0..Len(received)
  BY <1>1, PositionIs DEF RowInv, PastKept
<1>3. Held(received', promotion', promotedAt', k, a, row.direction)
  BY <1>1, <1>2 DEF RowInv, PastKept
<1>4. row.at = Latest(received').id =>
        /\ active' # NoMRZ /\ a = active'.trigger
        /\ Matches(row, ActiveMRZReport(active', seen'))
  BY <1>1 DEF RowInv
<1> QED
  BY <1>2, <1>3, <1>4 DEF RowInv
------------------------------------------------------------------------------
(* A current report brings its lifecycle's row up to date, and announces a *)
(* change of direction that the evidence has made since the row before.    *)
LEMMA CurrentIs ==
  ASSUME StoreInv, ReceiptsInv, RowsInv, NEW r, ReportInv(r)
  PROVE  /\ Current(r) =>
              /\ active # NoMRZ /\ received # <<>>
              /\ r.newest = Latest(received).id
              /\ r.activation \in DOMAIN pressure =>
                   PositionIn(received, pressure[r.activation].at) < Len(received)
         /\ r.newest = Latest(received).id /\ ~Current(r) =>
              /\ r.activation \in DOMAIN pressure
              /\ pressure[r.activation].at = Latest(received).id
         /\ Current(r) => PositionIn(received, Newest.id) = Len(received)
<1>1. Newest = Latest(received) /\ \A id : Position(id) = PositionIn(received, id)
  BY DEF Newest, Latest, Position, PositionIn
<1>2. active # NoMRZ => received # <<>>
  BY AuthorityHasEvidence
<1>3. received # <<>> => /\ PositionIn(received, Latest(received).id) = Len(received)
                         /\ \A id : Received(received, id) /\
                              PositionIn(received, id) = Len(received) => id = Latest(received).id
  BY LatestIs
<1>4. \A a \in DOMAIN pressure : /\ Received(received, pressure[a].at)
                                 /\ PositionIn(received, pressure[a].at) \in 1..Len(received)
  BY PositionIs DEF RowsInv, RowInv
<1>5. Len(received) \in Nat
  BY PositionIs
<1>6. r.newest = Latest(received).id => active # NoMRZ /\ active.trigger = r.activation
  BY DEF ReportInv
<1>7. ASSUME Current(r)
      PROVE  /\ active # NoMRZ /\ received # <<>>
             /\ r.newest = Latest(received).id
             /\ PositionIn(received, Newest.id) = Len(received)
             /\ r.activation \in DOMAIN pressure =>
                   PositionIn(received, pressure[r.activation].at) < Len(received)
  <2>1. active # NoMRZ /\ r.newest = Latest(received).id
    BY <1>1, <1>7 DEF Current
  <2>2. PositionIn(received, Latest(received).id) = Len(received)
    BY <1>2, <1>3, <2>1
  <2> QED
    BY <1>1, <1>2, <1>7, <2>1, <2>2 DEF Current
<1>8. ASSUME r.newest = Latest(received).id, ~Current(r)
      PROVE  /\ r.activation \in DOMAIN pressure
             /\ pressure[r.activation].at = Latest(received).id
  <2> DEFINE k == PositionIn(received, pressure[r.activation].at)
  <2>1. PositionIn(received, r.newest) = Len(received)
    BY <1>2, <1>3, <1>6, <1>8
  <2>2. r.activation \in DOMAIN pressure /\ ~(k < Len(received))
    BY <1>1, <1>6, <1>8, <2>1 DEF Current
  <2>3. k \in 1..Len(received) /\ Received(received, pressure[r.activation].at)
    BY <1>4, <2>2
  <2> HIDE DEF k
  <2>4. k = Len(received)
    BY <1>5, <2>2, <2>3
  <2> QED
    BY <1>2, <1>3, <1>6, <1>8, <2>2, <2>3, <2>4 DEF k
<1> QED
  BY <1>7, <1>8

LEMMA RowIsRight ==
  ASSUME StoreInv, ReceiptsInv, RowsInv, NEW r, ReportInv(r), Current(r)
  PROVE  RowInv(r.activation, PressureRow(r))
<1> DEFINE row == PressureRow(r)
           n == Len(received)
<1>1. /\ active # NoMRZ /\ received # <<>> /\ r.newest = Latest(received).id
      /\ r.activation = active.trigger /\ r.report = ActiveMRZReport(active, seen)
  BY CurrentIs DEF ReportInv
<1>2. /\ row.at = Latest(received).id /\ Received(received, row.at)
      /\ PositionIn(received, row.at) = n /\ n \in Nat
  BY <1>1, LatestIs, PositionIs DEF PressureRow, Newest, Latest
<1>3. Matches(row, ActiveMRZReport(active, seen))
  BY <1>1 DEF Matches, PressureRow
<1>4. row.direction = DirectionOf(active, seen)
  BY <1>1 DEF PressureRow, DirectionOf
<1>5. Held(received, promotion, promotedAt, n, r.activation, row.direction)
  <2> HIDE DEF row, n
  <2> QED
    BY <1>1, <1>4, AuthorityHasEvidence, AllReceived DEF Held, n
<1>6. n >= cutover
  BY DEF ReceiptsInv
<1> HIDE DEF row, n
<1>7. RowInv(r.activation, row)
  BY <1>1, <1>2, <1>3, <1>5, <1>6 DEF RowInv
<1> QED
  BY <1>7 DEF row

LEMMA HeldIsOther ==
  ASSUME NEW s, NEW p, NEW n, NEW k, NEW a, NEW d, Held(s, p, n, k, a, d)
  PROVE  d \in Directions /\ \A e : e # d => Other(s, p, n, k, a, e)
BY DirectionIsOne DEF Held, Other

(* What a current report announces has its reason in the rows before it.   *)
LEMMA AnnouncementIsNews ==
  ASSUME StoreInv, ReceiptsInv, RowsInv, AnnouncedInv, NEW r, ReportInv(r), Current(r),
         ShouldNotify(PreviousDirection(r), r.report.pressure.direction)
  PROVE  LET n == Announcement(r)
             d == n.direction
             N == Len(received)
         IN  /\ n \in AnnouncementType
             /\ n.at = Latest(received).id
             /\ \/ Live(received, promotion, promotedAt, cutover, n.activation)
                \/ \E k \in cutover .. N - 1 :
                     Other(received, promotion, promotedAt, k, n.activation, d)
             /\ \A i \in DOMAIN announced :
                  announced[i].activation = n.activation /\ announced[i].direction = d =>
                    \E k \in PositionIn(received, announced[i].at) + 1 .. N - 1 :
                      Other(received, promotion, promotedAt, k, n.activation, d)
<1> DEFINE a == r.activation
           d == r.report.pressure.direction
           before == PreviousDirection(r)
           N == Len(received)
           k0 == PositionIn(received, pressure[a].at)
           O(k) == Other(received, promotion, promotedAt, k, a, d)
<1>1. /\ active # NoMRZ /\ received # <<>> /\ r.newest = Latest(received).id
      /\ a = active.trigger /\ r.report = ActiveMRZReport(active, seen)
      /\ a \in DOMAIN pressure => k0 < N
  BY CurrentIs DEF ReportInv
<1>2. before # d /\ d \in {"UP", "DOWN"}
  BY DEF ShouldNotify
<1>3. N \in Nat /\ cutover \in Nat
  BY PositionIs DEF ReceiptsInv
<1>4. ASSUME a \in DOMAIN pressure
      PROVE  /\ before = pressure[a].direction /\ before \in Directions
             /\ k0 \in 1..N /\ k0 >= cutover /\ O(k0)
  <2>1. before = pressure[a].direction
    BY <1>4 DEF PreviousDirection
  <2>2. RowInv(a, pressure[a])
    BY <1>4 DEF RowsInv
  <2>3. k0 \in 1..N /\ k0 >= cutover
    BY <2>2, PositionIs DEF RowInv
  <2>4. Held(received, promotion, promotedAt, k0, a, before)
    BY <2>1, <2>2 DEF RowInv
  <2>5. before \in Directions /\ O(k0)
    BY <1>2, <2>4, HeldIsOther
  <2> QED
    BY <2>1, <2>3, <2>5
<1>5. ASSUME a \notin DOMAIN pressure
      PROVE  before = "NEUTRAL" /\ Live(received, promotion, promotedAt, cutover, a)
  BY <1>2, <1>5 DEF PreviousDirection, LifecycleIsLive, Live
<1>6. Announcement(r) \in AnnouncementType
  <2>1. active \in MRZ
    <3>1. Shape(Result(active, transitions), seen, promotion)
      BY ReplayShape DEF StoreInv
    <3> QED
      BY <1>1, <3>1 DEF Shape, ReplayState, Result
  <2>2. a \in Int
    BY <1>1, <2>1 DEF MRZ
  <2>3. r.newest \in Int
    <3>1. Latest(received) \in Observation
      BY <1>1, LatestIs, Parts DEF StoreInv
    <3> QED
      BY <1>1, <3>1, ObservationAssumption
  <2>4. before \in Directions
    BY <1>4, <1>5 DEF Directions
  <2> HIDE DEF before, a
  <2> QED
    BY <1>2, <2>2, <2>3, <2>4 DEF Announcement, AnnouncementType, before, a
<1>7. \/ Live(received, promotion, promotedAt, cutover, a)
      \/ \E k \in cutover .. N - 1 : O(k)
  <2>1. CASE a \in DOMAIN pressure
    <3> HIDE DEF O, k0, N
    <3>1. k0 \in cutover .. N - 1
      BY <1>1, <1>3, <1>4, <2>1
    <3> QED
      BY <1>4, <2>1, <3>1
  <2> QED
    BY <1>5, <2>1
<1>8. ASSUME NEW i \in DOMAIN announced,
             announced[i].activation = a, announced[i].direction = d
      PROVE  \E k \in PositionIn(received, announced[i].at) + 1 .. N - 1 : O(k)
  <2> DEFINE i0 == PositionIn(received, announced[i].at)
  <2>1. AnnouncementInv(announced[i])
    BY DEF AnnouncedInv
  <2>2. a \in DOMAIN pressure /\ i0 \in 1..N
    BY <1>8, <2>1, PositionIs DEF AnnouncementInv
  <2>3. pressure[a].direction # d
    BY <1>2, <1>4, <2>2
  <2>4. PICK k \in i0 + 1 .. k0 : O(k)
    BY <1>8, <2>1, <2>3 DEF AnnouncementInv
  <2> HIDE DEF i0, k0, N, O
  <2>5. k \in i0 + 1 .. N - 1
    BY <1>1, <1>3, <1>4, <2>2, <2>4
  <2> QED
    BY <2>4, <2>5 DEF i0
<1> QED
  BY <1>1, <1>6, <1>7, <1>8 DEF Announcement

LEMMA Reconciled ==
  ASSUME StoreInv, ReceiptsInv, RowsInv, AnnouncedInv, NEW r, ReportInv(r),
         ReconcilePressureState(r), UNCHANGED <<storeVars, received, cutover, promotedAt>>
  PROVE  /\ RowsInv' /\ AnnouncedInv'
         /\ r.newest = Latest(received).id => ~Behind'
         /\ r.newest # Latest(received).id => UNCHANGED pressure
<1> DEFINE a0 == r.activation
           row == PressureRow(r)
           N == Len(received)
<1>0. UNCHANGED <<seen, active, promotion, received, cutover, promotedAt>> /\ PastKept
  BY NothingReceived DEF storeVars
<1>1. Newest' = Latest(received)
  BY <1>0 DEF Newest, Latest
<1>2. CASE ~Current(r)
  <2>1. UNCHANGED <<pressure, announced>>
    BY <1>2 DEF ReconcilePressureState
  <2>2. RowsInv'
    BY <1>0, <2>1, RowsKept
  <2>3. AnnouncedInv'
    BY <1>0, <2>1, AnnouncementsKept
  <2>4. ASSUME r.newest = Latest(received).id PROVE ~Behind'
    <3>1. a0 \in DOMAIN pressure /\ pressure[a0].at = Latest(received).id
      BY <1>2, <2>4, CurrentIs
    <3>2. active # NoMRZ /\ a0 = active.trigger
      BY <2>4 DEF ReportInv
    <3> QED
      BY <1>0, <1>1, <2>1, <3>1, <3>2 DEF Behind
  <2> QED
    BY <2>1, <2>2, <2>3, <2>4
<1>3. CASE Current(r)
  <2>1. /\ active # NoMRZ /\ r.newest = Latest(received).id /\ a0 = active.trigger
        /\ PositionIn(received, Newest.id) = N
        /\ a0 \in DOMAIN pressure => PositionIn(received, pressure[a0].at) < N
    BY <1>3, CurrentIs DEF ReportInv
  <2>2. /\ DOMAIN pressure' = DOMAIN pressure \cup {a0}
        /\ pressure'[a0] = row
        /\ \A a \in DOMAIN pressure \ {a0} : pressure'[a] = pressure[a]
    BY <1>3 DEF ReconcilePressureState
  <2>3. RowInv(a0, row)
    BY <1>3, RowIsRight
  <2>4. /\ row.at = Newest.id /\ row.direction = r.report.pressure.direction
    BY DEF PressureRow
  <2>5. N \in Nat /\ cutover \in Nat /\ \A id : Received(received, id) =>
                                     PositionIn(received, id) \in 1..N
    BY PositionIs DEF ReceiptsInv
  <2> HIDE DEF row, a0, N
  <2>6. RowsInv'
    <3>1. \A a, x : RowInv(a, x) => RowInv(a, x)'
      BY <1>0 DEF RowInv, Latest
    <3>2. \A a \in DOMAIN pressure' : RowInv(a, pressure'[a])
      BY <2>2, <2>3 DEF RowsInv
    <3> QED
      BY <3>1, <3>2 DEF RowsInv
  <2>7. ~Behind'
    BY <1>0, <1>1, <2>1, <2>2, <2>4 DEF Behind, Newest, Latest
  <2>8. ASSUME NEW n, AnnouncementInv(n) PROVE AnnouncementInv(n)'
    <3>1. CASE n.activation = a0
      <4> DEFINE i0 == PositionIn(received, n.at)
      <4>1. /\ a0 \in DOMAIN pressure /\ Received(received, n.at)
            /\ i0 <= PositionIn(received, pressure[a0].at)
            /\ Received(received, pressure[a0].at)
        BY <2>8, <3>1 DEF AnnouncementInv, RowsInv, RowInv
      <4>2. i0 \in 1..N /\ PositionIn(received, pressure[a0].at) \in 1..N
        BY <2>5, <4>1
      <4>3. i0 <= N /\ N \in i0 + 1 .. N
        BY <2>1, <2>5, <4>1, <4>2
      <4>4. Held(received, promotion, promotedAt, N, a0, row.direction)
        BY <2>1, <2>3, <2>4 DEF RowInv
      <4>5. \/ row.direction = n.direction
            \/ Other(received, promotion, promotedAt, N, a0, n.direction)
        BY <4>4, HeldIsOther
      <4>6. PositionIn(received, row.at) = N
        BY <2>1, <2>4
      <4> QED
        BY <1>0, <2>2, <2>8, <3>1, <4>1, <4>3, <4>5, <4>6 DEF AnnouncementInv
    <3>2. CASE n.activation # a0
      <4>1. n.activation \in DOMAIN pressure /\ pressure'[n.activation] = pressure[n.activation]
        BY <2>2, <2>8, <3>2 DEF AnnouncementInv
      <4> QED
        BY <1>0, <2>2, <2>8, <4>1 DEF AnnouncementInv
    <3> QED
      BY <3>1, <3>2
  <2>9. \A n1, n2 : RepeatInv(n1, n2) => RepeatInv(n1, n2)'
    BY <1>0 DEF RepeatInv
  <2>10. ASSUME announced' = announced PROVE AnnouncedInv'
    BY <2>8, <2>9, <2>10 DEF AnnouncedInv
  <2>11. ASSUME ShouldNotify(PreviousDirection(r), r.report.pressure.direction),
                announced' = Append(announced, Announcement(r))
         PROVE  AnnouncedInv'
    <3> DEFINE L == Len(announced)
    <3>a. PICK m : m = Announcement(r)
      OBVIOUS
    <3>b. PICK u : u = announced'
      OBVIOUS
    <3>1. /\ m \in AnnouncementType
          /\ m.at = Latest(received).id
          /\ \/ Live(received, promotion, promotedAt, cutover, m.activation)
             \/ \E k \in cutover .. N - 1 :
                  Other(received, promotion, promotedAt, k, m.activation, m.direction)
          /\ \A i \in DOMAIN announced :
               announced[i].activation = m.activation /\ announced[i].direction = m.direction =>
                 \E k \in PositionIn(received, announced[i].at) + 1 .. N - 1 :
                   Other(received, promotion, promotedAt, k, m.activation, m.direction)
      BY <1>3, <2>11, <3>a, AnnouncementIsNews DEF N
    <3>2. m.activation = a0 /\ m.direction = row.direction
      BY <2>4, <3>a DEF Announcement, a0
    <3>3. /\ L \in Nat /\ DOMAIN announced = 1..L
          /\ u \in Seq(AnnouncementType) /\ DOMAIN u = 1..(L + 1)
          /\ u[L + 1] = m /\ \A i \in 1..L : u[i] = announced[i]
      BY <2>11, <3>a, <3>b, <3>1 DEF AnnouncedInv
    <3>4. PositionIn(received, m.at) = N
      BY <2>1, <3>1 DEF Newest, Latest
    <3>5. AnnouncementInv(m)'
      <4>1. Received(received, m.at)
        BY <2>3, <2>4, <3>1 DEF RowInv, Newest, Latest
      <4>2. a0 \in DOMAIN pressure' /\ pressure'[a0].direction = m.direction
        BY <2>2, <3>2
      <4>3. PositionIn(received, m.at) <= PositionIn(received, pressure'[a0].at)
        BY <2>1, <2>2, <2>4, <2>5, <3>4
      <4> QED
        BY <1>0, <3>1, <3>2, <3>4, <4>1, <4>2, <4>3 DEF AnnouncementInv
    <3>6. \A i \in 1..L : RepeatInv(announced[i], m)
      BY <3>1, <3>3, <3>4 DEF RepeatInv
    <3>7. \A i \in 1..(L + 1) : i \in 1..L \/ i = L + 1
      BY <3>3
    <3>8. \A i \in DOMAIN u : AnnouncementInv(u[i])'
      <4>1. ASSUME NEW i \in 1..L PROVE AnnouncementInv(u[i])'
        <5>1. AnnouncementInv(u[i])
          BY <3>3 DEF AnnouncedInv
        <5> QED
          BY <2>8, <5>1
      <4> QED
        BY <3>3, <3>5, <3>7, <4>1
    <3>9. \A i, j \in DOMAIN u : i < j => RepeatInv(u[i], u[j])'
      <4> SUFFICES ASSUME NEW i \in 1..(L + 1), NEW j \in 1..(L + 1), i < j
                   PROVE  RepeatInv(u[i], u[j])
        BY <2>9, <3>3
      <4>1. i \in 1..L
        BY <3>3
      <4>2. CASE j \in 1..L
        BY <3>3, <4>1, <4>2 DEF AnnouncedInv
      <4>3. CASE j = L + 1
        BY <3>3, <3>6, <4>1, <4>3
      <4> QED
        BY <3>7, <4>2, <4>3
    <3> QED
      BY <3>b, <3>3, <3>8, <3>9 DEF AnnouncedInv
  <2> QED
    BY <1>3, <2>1, <2>6, <2>7, <2>10, <2>11 DEF ReconcilePressureState
<1> QED
  BY <1>2, <1>3
------------------------------------------------------------------------------
LEMMA StoreMoves ==
  ASSUME [PressureNext]_pvars
  PROVE  [StoreNext]_storeVars
BY DEF PressureNext, Webhook, DuplicateWebhook, Look, PromoteCommand, Snapshot, Persist,
       PassFails, Crash, Restart, RestartFails, StoreNext, pvars, storeVars

(* A report is right when it is derived.                                   *)
LEMMA SnapshotIs ==
  ASSUME StoreInv, ReceiptsInv, active # NoMRZ, NEW t, Received(received, t)
  PROVE  /\ ReportInv(SnapshotReport(t))
         /\ SnapshotReport(t).newest = Latest(received).id /\ SnapshotReport(t).trigger = t
<1>1. received # <<>>
  BY AuthorityHasEvidence
<1>2. Received(received, Latest(received).id)
  BY <1>1, LatestIs
<1> QED
  BY <1>2 DEF ReportInv, SnapshotReport, Newest, Latest

(* A step that receives, promotes and writes nothing.                      *)
LEMMA Quiet ==
  ASSUME PressureInv,
         UNCHANGED <<seen, active, promotion, received, cutover, promotedAt, pressure, announced>>
  PROVE  /\ ReceiptsInv' /\ RowsInv' /\ AnnouncedInv'
         /\ \A r : ReportInv(r) => ReportInv(r)'
         /\ Behind' => Behind
<1>1. ReceiptsInv' /\ PastKept
  BY NothingReceived DEF PressureInv
<1>2. RowsInv'
  BY <1>1, RowsKept DEF PressureInv
<1>3. AnnouncedInv'
  BY <1>1, AnnouncementsKept DEF PressureInv
<1>4. \A r : ReportInv(r) => ReportInv(r)'
  BY DEF ReportInv
<1>5. Behind' => Behind
  BY DEF Behind, Newest
<1> QED
  BY <1>1, <1>2, <1>3, <1>4, <1>5

LEMMA WebhookStep ==
  ASSUME PressureInv, StoreInv', NEW o \in Observation, Webhook(o)
  PROVE  PressureInv'
<1>1. /\ o \notin seen /\ seen' = seen \cup {o} /\ received' = Append(received, o)
      /\ UNCHANGED <<cutover, promotedAt, promotion, pressure, announced, reports, up>>
  BY DEF Webhook, Ingest
<1>2. /\ ReceiptsInv' /\ PastKept
      /\ Latest(received') = o /\ Received(received', o.id) /\ ~Received(received, o.id)
  BY <1>1, ReceiptKeepsPast DEF PressureInv
<1>3. /\ due' \subseteq due \cup {o.id}
      /\ o.id \in due' \cup failed'
  BY DEF Webhook, SchedulePass
<1>5. ReportsInv'
  <2> SUFFICES ASSUME NEW r \in reports PROVE ReportInv(r)'
    BY <1>1 DEF ReportsInv
  <2>1. ReportInv(r)
    BY DEF PressureInv, ReportsInv
  <2>2. r.newest # o.id /\ r.trigger # o.id
    BY <1>2, <2>1 DEF ReportInv
  <2> QED
    BY <1>2, <2>1, <2>2 DEF ReportInv, PastKept
<1>6. DueInv'
  BY <1>2, <1>3 DEF PressureInv, DueInv, PastKept
<1>7. RowsInv'
  <2>1. \A a \in DOMAIN pressure : pressure[a].at # Latest(received').id
    BY <1>2 DEF PressureInv, RowsInv, RowInv
  <2> QED
    BY <1>1, <1>2, <2>1, RowsKept DEF PressureInv
<1>8. AnnouncedInv'
  BY <1>1, <1>2, AnnouncementsKept DEF PressureInv
<1>9. OwedInv'
  BY <1>2, <1>3 DEF OwedInv
<1> QED
  BY <1>2, <1>5, <1>6, <1>7, <1>8, <1>9 DEF PressureInv

LEMMA PromoteStep ==
  ASSUME PressureInv, StoreInv', PromoteCommand
  PROVE  PressureInv'
<1>1. /\ promotion = NoMRZ /\ active = NoMRZ /\ promotedAt' = Len(received)
      /\ Promotable(reviewed) /\ promotion' = PromotedAuthority(reviewed)
      /\ UNCHANGED <<seen, received, cutover, pressure, announced, reports, up>>
  BY DEF PromoteCommand, Promote
<1>2. ReceiptsInv' /\ PastKept
  BY <1>1, PromotionKeepsPast DEF PressureInv
<1>3. /\ due' \subseteq due \cup {promotion'.trigger}
      /\ promotion'.trigger \in due' \cup failed'
  BY DEF PromoteCommand, SchedulePass
<1>4. promotion' # NoMRZ /\ Received(received, promotion'.trigger)
  <2>1. /\ promotion' # NoMRZ
        /\ \E t \in seen : t.id = promotion'.trigger
    BY <1>1, PromotedIsSeed DEF PressureInv, StoreInv, Seeds
  <2> QED
    BY <2>1, AllReceived DEF PressureInv
<1>5. ReportsInv'
  <2> SUFFICES ASSUME NEW r \in reports PROVE ReportInv(r)'
    BY <1>1 DEF ReportsInv
  <2>1. ReportInv(r)
    BY DEF PressureInv, ReportsInv
  <2>2. r.newest # Latest(received).id /\ r.trigger # Latest(received).id
    BY <1>1, <2>1 DEF ReportInv
  <2> QED
    BY <1>1, <2>1, <2>2 DEF ReportInv
<1>6. DueInv'
  BY <1>1, <1>3, <1>4 DEF PressureInv, DueInv
<1>7. RowsInv'
  <2>1. \A a \in DOMAIN pressure : pressure[a].at # Latest(received).id
    BY <1>1 DEF PressureInv, RowsInv, RowInv
  <2> QED
    BY <1>1, <1>2, <2>1, RowsKept DEF PressureInv
<1>8. AnnouncedInv'
  BY <1>1, <1>2, AnnouncementsKept DEF PressureInv
<1>9. OwedInv'
  BY <1>3, <1>4 DEF OwedInv
<1> QED
  BY <1>2, <1>5, <1>6, <1>7, <1>8, <1>9 DEF PressureInv

LEMMA SnapshotStep ==
  ASSUME PressureInv, StoreInv', NEW t, Snapshot(t)
  PROVE  PressureInv'
<1>1. /\ UNCHANGED <<seen, active, promotion, received, cutover, promotedAt, pressure, announced>>
      /\ t \in due /\ due' = due \ {t} /\ UNCHANGED <<failed, up>>
      /\ IF active = NoMRZ THEN reports' = reports
         ELSE reports' = reports \cup {SnapshotReport(t)}
  BY DEF Snapshot, storeVars
<1>2. /\ ReceiptsInv' /\ RowsInv' /\ AnnouncedInv'
      /\ \A r : ReportInv(r) => ReportInv(r)'
      /\ Behind' => Behind
  BY <1>1, Quiet
<1>3. active # NoMRZ => /\ ReportInv(SnapshotReport(t))
                        /\ SnapshotReport(t).newest = Latest(received).id
                        /\ SnapshotReport(t).trigger = t
  BY <1>1, SnapshotIs DEF PressureInv, DueInv
<1>4. ReportsInv'
  <2>1. \A r \in reports' : ReportInv(r)
    BY <1>1, <1>3 DEF PressureInv, ReportsInv
  <2> QED
    BY <1>2, <2>1 DEF ReportsInv
<1>5. DueInv'
  BY <1>1 DEF PressureInv, DueInv
<1>6. OwedInv'
  <2> SUFFICES ASSUME Behind, up
               PROVE  \/ Latest(received).id \in due' \cup failed
                      \/ promotion # NoMRZ /\ promotion.trigger \in due' \cup failed
                      \/ \E r \in reports' :
                           /\ r.newest = Latest(received).id
                           /\ \/ r.trigger = Latest(received).id
                              \/ promotion # NoMRZ /\ r.trigger = promotion.trigger
    BY <1>1, <1>2 DEF OwedInv
  <2>1. active # NoMRZ
    BY DEF Behind
  <2>2. reports' = reports \cup {SnapshotReport(t)}
    BY <1>1, <2>1
  <2>3. CASE Latest(received).id = t \/ (promotion # NoMRZ /\ promotion.trigger = t)
    BY <1>3, <2>1, <2>2, <2>3
  <2>4. CASE Latest(received).id # t /\ ~(promotion # NoMRZ /\ promotion.trigger = t)
    BY <1>1, <2>2, <2>4 DEF PressureInv, OwedInv
  <2> QED
    BY <2>3, <2>4
<1> QED
  BY <1>2, <1>4, <1>5, <1>6 DEF PressureInv

LEMMA PersistStep ==
  ASSUME PressureInv, StoreInv', NEW t, Persist(t)
  PROVE  PressureInv'
<1>1. PICK r \in reports : reports' = reports \ {r} /\ ReconcilePressureState(r)
  BY DEF Persist
<1>2. UNCHANGED <<storeVars, received, cutover, promotedAt, due, failed, up>>
  BY DEF Persist
<1>3. ReportInv(r) /\ UNCHANGED <<seen, active, promotion>>
  BY <1>2 DEF PressureInv, ReportsInv, storeVars
<1>4. /\ RowsInv' /\ AnnouncedInv'
      /\ r.newest = Latest(received).id => ~Behind'
      /\ r.newest # Latest(received).id => UNCHANGED pressure
  BY <1>1, <1>2, <1>3, Reconciled DEF PressureInv
<1>5. ReceiptsInv'
  BY <1>2, <1>3, NothingReceived DEF PressureInv
<1>6. ReportsInv' /\ DueInv'
  <2>1. \A q : ReportInv(q) => ReportInv(q)'
    BY <1>2, <1>3 DEF ReportInv
  <2> QED
    BY <1>1, <1>2, <2>1 DEF PressureInv, ReportsInv, DueInv
<1>7. OwedInv'
  <2>1. CASE r.newest = Latest(received).id
    BY <1>4, <2>1 DEF OwedInv
  <2>2. CASE r.newest # Latest(received).id
    <3>1. Behind' => Behind
      BY <1>2, <1>3, <1>4, <2>2 DEF Behind, Newest
    <3> QED
      BY <1>1, <1>2, <1>3, <2>2, <3>1 DEF PressureInv, OwedInv
  <2> QED
    BY <2>1, <2>2
<1> QED
  BY <1>4, <1>5, <1>6, <1>7 DEF PressureInv

LEMMA RestartStep ==
  ASSUME PressureInv, StoreInv', Restart
  PROVE  PressureInv'
<1>1. UNCHANGED <<storeVars, received, cutover, promotedAt, due, reports, failed>>
  BY DEF Restart
<1>2. UNCHANGED <<seen, active, promotion>>
  BY <1>1 DEF storeVars
<1>3. ReceiptsInv'
  BY <1>1, <1>2, NothingReceived DEF PressureInv
<1>4. ReportsInv' /\ DueInv'
  <2>1. \A q : ReportInv(q) => ReportInv(q)'
    BY <1>1, <1>2 DEF ReportInv
  <2> QED
    BY <1>1, <2>1 DEF PressureInv, ReportsInv, DueInv
<1>5. CASE active = NoMRZ
  <2>1. UNCHANGED <<pressure, announced>>
    BY <1>5 DEF Restart
  <2>2. RowsInv' /\ AnnouncedInv'
    BY <1>1, <1>2, <2>1, Quiet
  <2>3. OwedInv'
    BY <1>2, <1>5 DEF OwedInv, Behind
  <2> QED
    BY <1>3, <1>4, <2>2, <2>3 DEF PressureInv
<1>6. CASE active # NoMRZ
  <2> DEFINE r == SnapshotReport(Newest.id)
  <2>1. ReconcilePressureState(r)
    BY <1>6 DEF Restart
  <2>2. ReportInv(r) /\ r.newest = Latest(received).id
    <3>1. received # <<>>
      BY <1>6, AuthorityHasEvidence DEF PressureInv
    <3>2. Received(received, Newest.id)
      BY <3>1, LatestIs DEF PressureInv, Newest, Latest
    <3> QED
      BY <1>6, <3>2, SnapshotIs DEF PressureInv
  <2>a. PICK q : q = r
    OBVIOUS
  <2>3. RowsInv' /\ AnnouncedInv' /\ ~Behind'
    BY <1>1, <2>1, <2>2, <2>a, Reconciled DEF PressureInv
  <2> QED
    BY <1>3, <1>4, <2>3 DEF PressureInv, OwedInv
<1> QED
  BY <1>5, <1>6

(* The steps that only lose or add a pass.                                 *)
LEMMA PassStep ==
  ASSUME PressureInv, StoreInv',
         \/ \E o \in Observation : DuplicateWebhook(o) \/ PassFails(o.id)
         \/ Look \/ Crash \/ RestartFails \/ UNCHANGED pvars
  PROVE  PressureInv'
<1>1. UNCHANGED <<seen, active, promotion, received, cutover, promotedAt, pressure, announced>>
  BY DEF DuplicateWebhook, IngestDuplicate, PassFails, Look, Review, Crash, RestartFails,
         pvars, storeVars, pressureVars
<1>2. /\ ReceiptsInv' /\ RowsInv' /\ AnnouncedInv'
      /\ \A r : ReportInv(r) => ReportInv(r)'
      /\ Behind' => Behind
  BY <1>1, Quiet
<1>3. reports' \subseteq reports
  BY DEF DuplicateWebhook, PassFails, Look, Crash, RestartFails, pvars, pressureVars
<1>4. ReportsInv'
  BY <1>2, <1>3 DEF PressureInv, ReportsInv
<1>5. DueInv'
  <2>1. due' \subseteq due \cup {o.id : o \in seen}
    BY DEF DuplicateWebhook, IngestDuplicate, PassFails, Look, Crash, RestartFails,
           pvars, pressureVars
  <2> QED
    BY <1>1, <2>1, AllReceived DEF PressureInv, DueInv
<1>6. OwedInv'
  <2> SUFFICES ASSUME Behind, up'
               PROVE  \/ Latest(received).id \in due' \cup failed'
                      \/ promotion # NoMRZ /\ promotion.trigger \in due' \cup failed'
                      \/ \E r \in reports' :
                           /\ r.newest = Latest(received).id
                           /\ \/ r.trigger = Latest(received).id
                              \/ promotion # NoMRZ /\ r.trigger = promotion.trigger
    BY <1>1, <1>2 DEF OwedInv
  <2>1. ASSUME NEW o \in Observation, DuplicateWebhook(o)
        PROVE  up /\ due \subseteq due' /\ failed' = failed /\ reports' = reports
    BY <2>1 DEF DuplicateWebhook
  <2>2. ASSUME NEW o \in Observation, PassFails(o.id)
        PROVE  /\ up /\ due \ {o.id} \subseteq due' /\ failed' = failed \cup {o.id}
               /\ \A r \in reports : r \in reports' \/ r.trigger = o.id
    BY <2>2 DEF PassFails
  <2>3. Look \/ UNCHANGED pvars =>
          up' = up /\ due' = due /\ failed' = failed /\ reports' = reports
    BY DEF Look, pvars, pressureVars
  <2>4. ~Crash
    BY DEF Crash
  <2>5. RestartFails => Latest(received).id \in failed'
    <3>1. Latest(received) \in seen
      BY AuthorityHasEvidence, LatestIs DEF PressureInv, Behind
    <3> QED
      BY <3>1 DEF RestartFails
  <2>6. ASSUME NEW o \in Observation, PassFails(o.id)
        PROVE  \/ Latest(received).id \in due' \cup failed'
               \/ promotion # NoMRZ /\ promotion.trigger \in due' \cup failed'
               \/ \E r \in reports' :
                    /\ r.newest = Latest(received).id
                    /\ \/ r.trigger = Latest(received).id
                       \/ promotion # NoMRZ /\ r.trigger = promotion.trigger
    BY <2>2, <2>6 DEF PressureInv, OwedInv
  <2>7. ASSUME NEW o \in Observation, DuplicateWebhook(o)
        PROVE  \/ Latest(received).id \in due' \cup failed'
               \/ promotion # NoMRZ /\ promotion.trigger \in due' \cup failed'
               \/ \E r \in reports' :
                    /\ r.newest = Latest(received).id
                    /\ \/ r.trigger = Latest(received).id
                       \/ promotion # NoMRZ /\ r.trigger = promotion.trigger
    BY <2>1, <2>7 DEF PressureInv, OwedInv
  <2> QED
    BY <2>3, <2>4, <2>5, <2>6, <2>7 DEF PressureInv, OwedInv
<1> QED
  BY <1>2, <1>4, <1>5, <1>6 DEF PressureInv

LEMMA PressureStep ==
  ASSUME PressureInv, [PressureNext]_pvars
  PROVE  PressureInv'
<1>1. StoreInv'
  BY StoreMoves, StoreStep DEF PressureInv
<1>2. ASSUME NEW o \in Observation, Webhook(o) PROVE PressureInv'
  BY <1>1, <1>2, WebhookStep
<1>3. PromoteCommand => PressureInv'
  BY <1>1, PromoteStep
<1>4. ASSUME NEW o \in Observation, Snapshot(o.id) PROVE PressureInv'
  BY <1>1, <1>4, SnapshotStep
<1>5. ASSUME NEW o \in Observation, Persist(o.id) PROVE PressureInv'
  BY <1>1, <1>5, PersistStep
<1>6. Restart => PressureInv'
  BY <1>1, RestartStep
<1>7. (\/ \E o \in Observation : DuplicateWebhook(o) \/ PassFails(o.id)
       \/ Look \/ Crash \/ RestartFails \/ UNCHANGED pvars) => PressureInv'
  BY <1>1, PassStep
<1> QED
  BY <1>2, <1>3, <1>4, <1>5, <1>6, <1>7 DEF PressureNext

LEMMA PressureStarts ==
  ASSUME PressureInit
  PROVE  PressureInv
<1>1. seen \in Evidence
  BY PressureAssumption DEF PressureInit, Evidence, FiniteSubsetsOf
<1>2. StoreInv
  <2> DEFINE r == Replay(seen, NoMRZ)
  <2>1. NoMRZ \in Seed
    BY DEF Seed
  <2>2. r = Result(r.active, r.transitions)
    BY <1>1, <2>1, ReplayShape DEF Shape
  <2>3. active = r.active /\ transitions = r.transitions /\ promotion = NoMRZ
    BY DEF PressureInit
  <2> HIDE DEF r
  <2>4. r = Result(active, transitions)
    BY <2>2, <2>3
  <2> QED
    BY <1>1, <2>1, <2>3, <2>4 DEF StoreInv, r
<1>3. ReceiptsInv
  <2> DEFINE n == Cardinality(seen)
  <2>1. n \in Nat /\ seen \subseteq Observation
    BY <1>1, Parts, FS_CardinalityType
  <2>2. received \in [1..n -> seen] /\ cutover = n /\ promotedAt = 0
    BY DEF PressureInit, Receipts
  <2> HIDE DEF n
  <2>3. /\ received \in Seq(Observation) /\ Len(received) = n /\ DOMAIN received = 1..n
    BY <2>1, <2>2
  <2>4. seen = {received[i] : i \in DOMAIN received}
    BY <2>2, <2>3 DEF PressureInit, Receipts
  <2>5. \A i, j \in DOMAIN received : i < j => received[i] # received[j]
    <3> SUFFICES ASSUME NEW i \in DOMAIN received, NEW j \in DOMAIN received, i < j
                 PROVE  received[i] # received[j]
      OBVIOUS
    <3>1. Before(received[i], received[j]) \/ received[i].at # received[j].at
      BY DEF PressureInit, Receipts
    <3>2. received[i] \in Observation /\ received[j] \in Observation
      BY <2>3
    <3> QED
      BY <3>1, <3>2, BeforeIsAnOrder
  <2>6. \A i, j \in DOMAIN received : i # j => received[i] # received[j]
    BY <2>3, <2>5
  <2> QED
    BY <2>1, <2>2, <2>3, <2>4, <2>6 DEF ReceiptsInv
<1>4. ReportsInv /\ DueInv /\ RowsInv /\ AnnouncedInv
  BY DEF PressureInit, ReportsInv, DueInv, RowsInv, AnnouncedInv
<1>5. OwedInv
  BY DEF PressureInit, OwedInv
<1> QED
  BY <1>2, <1>3, <1>4, <1>5 DEF PressureInv

(* The invariant of the symbol's rows, its receipts, the reports that wait *)
(* and the announcements.                                                  *)
THEOREM PressureInvariant == PressureSpec => []PressureInv
<1>1. PressureInit => PressureInv
  BY PressureStarts
<1>2. PressureInv /\ [PressureNext]_pvars => PressureInv'
  BY PressureStep
<1> QED
  BY <1>1, <1>2, PTL DEF PressureSpec
------------------------------------------------------------------------------
(* PersistedMatchesEvidence: a row that claims to be evaluated at the      *)
(* newest observation holds what all the stored evidence says.             *)
THEOREM PersistedTheorem == PressureSpec => []PersistedMatchesEvidence
<1>1. PressureInv => PersistedMatchesEvidence
  <2> SUFFICES ASSUME PressureInv, ~Behind, active # NoMRZ
               PROVE  PersistedMatchesEvidence
    BY DEF PersistedMatchesEvidence
  <2>1. /\ active.trigger \in DOMAIN pressure
        /\ pressure[active.trigger].at = Latest(received).id
    BY DEF Behind, Newest, Latest
  <2>2. Matches(pressure[active.trigger], ActiveMRZReport(active, seen))
    BY <2>1 DEF PressureInv, RowsInv, RowInv
  <2> QED
    BY <2>2 DEF PersistedMatchesEvidence, Matches
<1> QED
  BY <1>1, PressureInvariant, PTL

LEMMA OtherwiseIs ==
  ASSUME NEW k, NEW a, NEW d
  PROVE  Other(received, promotion, promotedAt, k, a, d) => OtherwiseAt(k, a, d)
BY DEF Other, OtherwiseAt, ActiveOf, ActiveAfter, SeenAfter, PromotionAfter, FirstOf, DirectionOf

(* RepeatedAlarmsAreReal: a lifecycle is announced twice in one direction  *)
(* only if the evidence gave another one in between.                       *)
THEOREM RepeatedAlarmsTheorem == PressureSpec => []RepeatedAlarmsAreReal
<1>1. PressureInv => RepeatedAlarmsAreReal
  <2>1. \A id : Position(id) = PositionIn(received, id)
    BY DEF Position, PositionIn
  <2> QED
    BY <2>1, OtherwiseIs DEF PressureInv, AnnouncedInv, RepeatInv, RepeatedAlarmsAreReal
<1> QED
  BY <1>1, PressureInvariant, PTL

(* DeploymentIsQuiet: of a lifecycle that predates the cutover only what   *)
(* has changed since is announced.                                         *)
THEOREM DeploymentIsQuietTheorem == PressureSpec => []DeploymentIsQuiet
<1>1. PressureInv => DeploymentIsQuiet
  <2>1. \A id : Position(id) = PositionIn(received, id)
    BY DEF Position, PositionIn
  <2>2. \A a : Live(received, promotion, promotedAt, cutover, a) => LifecycleIsLive(a)
    BY DEF Live, LifecycleIsLive
  <2> QED
    BY <2>1, <2>2, OtherwiseIs DEF PressureInv, AnnouncedInv, AnnouncementInv, DeploymentIsQuiet
<1> QED
  BY <1>1, PressureInvariant, PTL

(* GivingUpIsSafe: while the process runs, a row that is behind the newest *)
(* observation has a pass that will bring it up to date, or the failure of *)
(* that pass has been logged.                                              *)
THEOREM GivingUpTheorem == PressureSpec => []GivingUpIsSafe
<1>1. PressureInv => GivingUpIsSafe
  BY DEF PressureInv, OwedInv, GivingUpIsSafe, Owed, Pending, Newest, Latest
<1> QED
  BY <1>1, PressureInvariant, PTL
==============================================================================

--------------------------- MODULE SiteEventsProofs ---------------------------
(***************************************************************************)
(* What a page asks for again and what it passes over, for every number of *)
(* rows, of rows in an answer and of polls in flight, whatever fails.      *)
(*                                                                         *)
(* Neither property is inductive: both speak of the cursor, and what moves *)
(* the cursor is an answer that was read earlier, in two reads, while rows *)
(* became visible below and above it.  CursorInvariant and PollInvariant   *)
(* say what the cursor and each poll in flight still owe the page.         *)
(***************************************************************************)
EXTENDS SiteEvents, FiniteSetTheorems, TLAPS

\* The cursor is a row that can be seen, beyond all that was shown.
CursorInvariant ==
  /\ cursor \in Visible \cup {0}
  /\ start <= cursor
  /\ \A i \in shown : i <= cursor
  /\ page = "closed" => shown = {} /\ \A k \in Slots : polls[k] = NoPoll

\* A poll was sent from a cursor that all it knew as shown lies below, and
\* the rows between that cursor and what its answer says are accounted for.
PollAccounts(p, rows, reached) ==
  /\ p.after <= reached
  /\ \A i \in p.before : i <= p.after
  /\ \A i \in p.events : i > p.after /\ i \in rows
  /\ p.stage = "sent" => p.events = {}
  /\ p.stage = "events" =>
       \A i \in rows : i > p.after => i \in p.events \cup p.passed
  /\ p.stage = "answered" =>
       /\ p.latest \in rows \cup {0}
       /\ \A i \in p.events : i <= p.latest
       /\ \A i \in rows : p.after < i /\ i <= p.latest => i \in p.events \cup p.passed

PollInvariant == \A k \in Slots : polls[k] # NoPoll => PollAccounts(polls[k], Visible, cursor)

IInv == TypeOK /\ CursorInvariant /\ PollInvariant /\ PassedForACause

USE SiteEventsAssumption
------------------------------------------------------------------------------
(* A non-empty set of bounded naturals has a maximum: the mirror image of  *)
(* the set has a least element.                                            *)
LEMMA BoundedHasMaximum ==
  ASSUME NEW S \in SUBSET (0 .. MaxId), S # {}
  PROVE  /\ Max(S) \in S
         /\ \A y \in S : y <= Max(S)
<1> DEFINE Below == {ss \in Nat \X Nat : ss[1] < ss[2]}
           T == {MaxId - x : x \in S}
<1>1. IsWellFoundedOn(Below, Nat)
  BY NatLessThanWellFounded DEF OpToRel
<1>2. T \subseteq Nat /\ T # {}
  <2>1. \A x \in S : MaxId - x \in Nat
    OBVIOUS
  <2>2. T # {}
    BY Zenon
  <2> QED
    BY <2>1, <2>2, Zenon
<1>3. PICK d \in T : \A y \in T : <<y, d>> \notin Below
  <2> HIDE DEF Below, T
  <2> QED
    BY <1>1, <1>2, WFMin
<1>4. \A y \in T : d <= y
  <2> TAKE y \in T
  <2>1. <<y, d>> \notin Below /\ y \in Nat /\ d \in Nat
    BY <1>2, <1>3
  <2> QED
    BY <2>1
<1>5. PICK x \in S : d = MaxId - x
  OBVIOUS
<1>6. \A y \in S : x >= y
  <2> TAKE y \in S
  <2>1. d <= MaxId - y
    BY <1>4
  <2> QED
    BY <1>5, <2>1
<1>7. \E m \in S : \A y \in S : m >= y
  BY <1>6
<1>8. Max(S) \in S /\ \A y \in S : Max(S) >= y
  BY <1>7 DEF Max
<1> QED
  BY <1>8

(* The latest id is that of a row that can be seen, and no row is newer.   *)
LEMMA LatestIsNewest ==
  ASSUME TypeOK
  PROVE  /\ Latest \in 0 .. MaxId
         /\ Latest \in Visible \cup {0}
         /\ \A i \in Visible : i <= Latest
<1> DEFINE S == Visible \cup {0}
<1>1. S \in SUBSET (0 .. MaxId) /\ S # {}
  BY DEF Visible, Ids
<1>2. Max(S) \in S /\ \A y \in S : y <= Max(S)
  <2> HIDE DEF S
  <2> QED
    BY <1>1, BoundedHasMaximum
<1> QED
  BY <1>1, <1>2 DEF Latest

(* An answer and what it passes over are the rows above the cursor.        *)
LEMMA AnswerIsAccounted ==
  ASSUME NEW after \in 0 .. MaxId
  PROVE  /\ SiteEventsAfter(after) \subseteq {i \in Visible : i > after}
         /\ PassedOver(after) \subseteq Visible
         /\ \A i \in Visible : i > after => i \in SiteEventsAfter(after) \cup PassedOver(after)
<1> DEFINE Rank(i) == Cardinality({j \in WantedAfter(after) : j < i})
<1>1. \A i : Rank(i) \in Nat
  <2> TAKE i
  <2>1. IsFiniteSet(Ids)
    BY FS_Interval DEF Ids
  <2>2. {j \in WantedAfter(after) : j < i} \subseteq Ids
    BY DEF WantedAfter, Visible
  <2>3. IsFiniteSet({j \in WantedAfter(after) : j < i})
    BY <2>1, <2>2, FS_Subset
  <2> QED
    BY <2>3, FS_CardinalityType
<1>2. SiteEventsAfter(after) = {i \in WantedAfter(after) : Rank(i) < Limit}
  BY DEF SiteEventsAfter
<1>3. PassedOver(after) = {i \in Visible : i > after /\ (Wanted(i) => Rank(i) >= Limit)}
  BY DEF PassedOver
<1> HIDE DEF Rank
<1>4. ASSUME NEW i \in Visible, i > after
      PROVE  i \in SiteEventsAfter(after) \cup PassedOver(after)
  <2>1. Rank(i) < Limit \/ Rank(i) >= Limit
    BY <1>1
  <2> QED
    BY <1>2, <1>3, <1>4, <2>1 DEF WantedAfter
<1> QED
  BY <1>2, <1>3, <1>4 DEF WantedAfter
------------------------------------------------------------------------------
LEMMA InitHolds == Init => IInv
<1> SUFFICES ASSUME Init PROVE IInv
  OBVIOUS
<1>1. Visible = {}
  BY DEF Init, Visible
<1>2. TypeOK
  BY DEF Init, TypeOK
<1>3. CursorInvariant /\ PollInvariant /\ PassedForACause
  BY <1>1 DEF Init, CursorInvariant, PollInvariant, PassedForACause
<1> QED
  BY <1>2, <1>3 DEF IInv

(* What rows and choices do while what can be seen stays, the page and its *)
(* polls do not notice.                                                    *)
LEMMA UnseenKeeps ==
  ASSUME IInv, TypeOK', Visible' = Visible,
         UNCHANGED <<pageVars, polls, passed>>
  PROVE  IInv'
BY DEF IInv, CursorInvariant, PollInvariant, PollAccounts, PassedForACause, pageVars

LEMMA RowsKeep ==
  ASSUME IInv, NEW i \in Ids, Draw(i) \/ RollBack(i)
  PROVE  IInv'
<1>1. row[i] \in {"free", "drawn"} /\ \E v \in {"drawn", "rolled_back"} : row' = [row EXCEPT ![i] = v]
  BY DEF Draw, RollBack
<1>2. UNCHANGED <<pageVars, polls, passed>>
  BY DEF Draw, RollBack
<1>3. TypeOK'
  BY <1>1, <1>2 DEF IInv, TypeOK, pageVars
<1>4. Visible' = Visible
  BY <1>1 DEF IInv, TypeOK, Visible
<1> QED
  BY <1>2, <1>3, <1>4, UnseenKeeps

LEMMA ChoicesKeep ==
  ASSUME IInv, NEW new, UpdatePreferences(new) \/ SaveGroups(new)
  PROVE  IInv'
<1>1. UNCHANGED <<row, pageVars, polls, passed>>
  BY DEF UpdatePreferences, SaveGroups
<1>2. TypeOK'
  BY <1>1 DEF IInv, TypeOK, pageVars
<1>3. Visible' = Visible
  BY <1>1 DEF Visible
<1> QED
  BY <1>1, <1>2, <1>3, UnseenKeeps

(* The rows of a commit that lie below the cursor, or below what a poll    *)
(* in flight will bring, are the ones that are marked as passed over.      *)
LEMMA CommitKeeps ==
  ASSUME IInv, NEW S \in SUBSET Ids, CommitRows(S)
  PROVE  IInv'
<1>1. /\ TypeOK /\ CursorInvariant /\ PollInvariant /\ PassedForACause
      /\ \A i \in S : row[i] = "drawn"
      /\ UNCHANGED pageVars
  BY DEF IInv, CommitRows
<1>2. /\ Visible' = Visible \cup S
      /\ row' \in [Ids -> {"free", "drawn", "visible", "rolled_back"}]
  BY DEF IInv, TypeOK, CommitRows, Visible
<1>3. S \cap Visible = {} /\ 0 \notin S
  BY <1>1 DEF Visible, Ids
<1>4. passed' = IF page = "open" THEN passed \cup {i \in S : i < cursor} ELSE passed
  BY DEF CommitRows
<1>5. ASSUME NEW k \in Slots
      PROVE  /\ polls'[k] \in PollState \cup {NoPoll}
             /\ polls'[k] # NoPoll => PollAccounts(polls'[k], Visible', cursor')
             /\ polls[k] = NoPoll => polls'[k] = NoPoll
  <2> DEFINE p == polls[k]
             more == {i \in S : p.stage = "answered" => i < p.latest}
  <2>1. polls'[k] = IF p = NoPoll \/ p.stage = "sent" THEN p
                    ELSE [p EXCEPT !.passed = @ \cup more]
    BY DEF CommitRows
  <2>2. p \in PollState \cup {NoPoll} /\ (p # NoPoll => PollAccounts(p, Visible, cursor))
    BY <1>1 DEF TypeOK, PollInvariant
  <2>3. CASE p = NoPoll
    BY <2>1, <2>3
  <2>4. CASE p # NoPoll /\ p.stage = "sent"
    <3>1. polls'[k] = p
      BY <2>1, <2>4
    <3>2. PollAccounts(p, Visible', cursor')
      BY <1>1, <1>2, <2>2, <2>4, <3>1 DEF PollAccounts, pageVars
    <3> QED
      BY <2>2, <2>4, <3>1, <3>2
  <2>5. CASE p # NoPoll /\ p.stage # "sent"
    <3> DEFINE q == [p EXCEPT !.passed = @ \cup more]
    <3>1. polls'[k] = q
      BY <2>1, <2>5
    <3>2. /\ q \in PollState
          /\ q.stage = p.stage /\ q.after = p.after /\ q.before = p.before
          /\ q.events = p.events /\ q.latest = p.latest
          /\ q.passed = p.passed \cup more
          /\ p.stage \in {"events", "answered"}
          /\ p.latest \in 0 .. MaxId
      BY <2>2, <2>5 DEF PollState
    <3> HIDE DEF q, p
    <3>3. p.stage = "events" => \A i \in Visible' : i > q.after => i \in q.events \cup q.passed
      BY <1>2, <2>2, <2>5, <3>2 DEF PollAccounts
    <3>4. p.stage = "answered" =>
            \A i \in Visible' : q.after < i /\ i <= q.latest => i \in q.events \cup q.passed
      <4> SUFFICES ASSUME p.stage = "answered", NEW i \in Visible', q.after < i, i <= q.latest
                   PROVE  i \in q.events \cup q.passed
        OBVIOUS
      <4>1. CASE i \in Visible
        BY <2>2, <2>5, <3>2, <4>1 DEF PollAccounts
      <4>2. CASE i \in S
        <5>1. q.latest \in Visible \cup {0}
          BY <2>2, <2>5, <3>2 DEF PollAccounts
        <5>2. i # q.latest
          BY <1>3, <4>2, <5>1
        <5>3. i \in Int /\ q.latest \in Int
          BY <3>2, <4>2 DEF Ids
        <5>4. i < q.latest
          BY <5>2, <5>3
        <5> QED
          BY <3>2, <4>2, <5>4
      <4> QED
        BY <1>2, <4>1, <4>2
    <3>5. PollAccounts(q, Visible', cursor')
      BY <1>1, <1>2, <2>2, <2>5, <3>1, <3>2, <3>3, <3>4 DEF PollAccounts, pageVars
    <3> QED
      BY <2>5, <3>1, <3>2, <3>5 DEF p
  <2> QED
    BY <2>3, <2>4, <2>5
<1>6. polls' = [k \in Slots |-> polls'[k]]
  BY DEF CommitRows
<1>7. TypeOK'
  <2>1. polls' \in [Slots -> PollState \cup {NoPoll}]
    BY <1>5, <1>6
  <2>2. passed' \subseteq Ids
    BY <1>1, <1>4 DEF TypeOK
  <2> QED
    BY <1>1, <1>2, <2>1, <2>2 DEF TypeOK, pageVars
<1>8. CursorInvariant'
  BY <1>1, <1>2, <1>5 DEF CursorInvariant, pageVars
<1>9. PollInvariant'
  BY <1>5 DEF PollInvariant
<1>10. PassedForACause'
  <2> SUFFICES ASSUME page = "open", NEW i \in Visible', start < i, i <= cursor
               PROVE  i \in shown \cup passed'
    BY <1>1 DEF PassedForACause, pageVars
  <2>1. CASE i \in Visible
    BY <1>1, <1>4, <2>1 DEF PassedForACause
  <2>2. CASE i \in S
    <3>1. i # cursor
      BY <1>1, <1>3, <2>2 DEF CursorInvariant
    <3>2. i \in Int /\ cursor \in Int
      BY <1>1, <2>2 DEF TypeOK, Ids
    <3> QED
      BY <1>4, <2>2, <3>1, <3>2
  <2> QED
    BY <1>2, <2>1, <2>2
<1> QED
  BY <1>7, <1>8, <1>9, <1>10 DEF IInv
------------------------------------------------------------------------------
LEMMA LoadKeeps ==
  ASSUME IInv, LoadConfig
  PROVE  IInv'
<1>1. /\ TypeOK /\ CursorInvariant /\ page = "closed"
      /\ page' = "open" /\ start' = Latest /\ cursor' = Latest
      /\ UNCHANGED <<row, shown, polls, passed>>
  BY DEF IInv, LoadConfig, storeVars
<1>2. Latest \in 0 .. MaxId /\ Latest \in Visible \cup {0}
  BY <1>1, LatestIsNewest
<1>3. shown = {} /\ (\A k \in Slots : polls[k] = NoPoll) /\ Visible' = Visible
  BY <1>1 DEF CursorInvariant, Visible
<1>4. TypeOK'
  BY <1>1, <1>2 DEF TypeOK
<1>5. CursorInvariant'
  BY <1>1, <1>2, <1>3 DEF CursorInvariant
<1>6. PollInvariant'
  BY <1>1, <1>3 DEF PollInvariant
<1>7. PassedForACause'
  <2>1. \A i \in Visible : ~(start' < i /\ i <= cursor')
    BY <1>1, <1>2 DEF Visible, Ids
  <2> QED
    BY <1>3, <2>1 DEF PassedForACause
<1> QED
  BY <1>4, <1>5, <1>6, <1>7 DEF IInv

(* A step that only changes one poll keeps the invariant if the poll's new *)
(* state keeps its account.                                                *)
LEMMA PollStepKeeps ==
  ASSUME IInv, NEW k \in Slots, NEW q \in PollState \cup {NoPoll},
         polls' = [polls EXCEPT ![k] = q], page = "closed" => q = NoPoll,
         q # NoPoll => PollAccounts(q, Visible, cursor),
         UNCHANGED <<storeVars, pageVars, passed>>
  PROVE  IInv'
<1>1. /\ TypeOK /\ CursorInvariant /\ PollInvariant /\ PassedForACause
      /\ UNCHANGED <<row, page, start, cursor, shown, passed>> /\ Visible' = Visible
  BY DEF IInv, storeVars, pageVars, Visible
<1>2. \A j \in Slots : polls'[j] = IF j = k THEN q ELSE polls[j]
  BY <1>1 DEF TypeOK
<1>3. TypeOK'
  BY <1>1 DEF TypeOK
<1>4. CursorInvariant'
  BY <1>1, <1>2 DEF CursorInvariant
<1>5. ASSUME NEW j \in Slots, polls'[j] # NoPoll PROVE PollAccounts(polls'[j], Visible', cursor')
  <2>1. PollAccounts(polls'[j], Visible, cursor)
    BY <1>1, <1>2, <1>5 DEF PollInvariant
  <2> QED
    BY <1>1, <2>1 DEF PollAccounts
<1>6. PollInvariant'
  BY <1>5 DEF PollInvariant
<1>7. PassedForACause'
  BY <1>1 DEF PassedForACause
<1> QED
  BY <1>3, <1>4, <1>6, <1>7 DEF IInv

LEMMA SendKeeps ==
  ASSUME IInv, NEW k \in Slots, SendPoll(k)
  PROVE  IInv'
<1> DEFINE q == Poll("sent", cursor)
<1>1. TypeOK /\ CursorInvariant
  BY DEF IInv
<1>2. q \in PollState
  BY <1>1 DEF Poll, PollState, TypeOK
<1>3. PollAccounts(q, Visible, cursor)
  BY <1>1 DEF Poll, PollAccounts, CursorInvariant, TypeOK
<1>4. /\ polls' = [polls EXCEPT ![k] = q] /\ page = "open"
      /\ UNCHANGED <<storeVars, pageVars, passed>>
  BY DEF SendPoll
<1> HIDE DEF q
<1> QED
  BY <1>2, <1>3, <1>4, PollStepKeeps

LEMMA ReadEventsKeeps ==
  ASSUME IInv, NEW k \in Slots, ReadEvents(k)
  PROVE  IInv'
<1> DEFINE p == polls[k]
           a == SiteEventsAfter(p.after)
           b == PassedOver(p.after)
           q == [p EXCEPT !.stage = "events", !.events = a, !.passed = b]
<1>1. TypeOK /\ p # NoPoll /\ p \in PollState /\ PollAccounts(p, Visible, cursor)
  BY DEF IInv, TypeOK, PollInvariant, ReadEvents
<1>2. p.after \in 0 .. MaxId
  BY <1>1 DEF PollState
<1>3. /\ a \subseteq {i \in Visible : i > p.after}
      /\ b \subseteq Visible
      /\ \A i \in Visible : i > p.after => i \in a \cup b
  BY <1>2, AnswerIsAccounted
<1>4. a \subseteq Ids /\ b \subseteq Ids
  BY <1>3 DEF Visible
<1>5. /\ polls' = [polls EXCEPT ![k] = q]
      /\ UNCHANGED <<storeVars, pageVars, passed>>
  BY DEF ReadEvents
<1>6. page # "closed"
  BY <1>1 DEF IInv, CursorInvariant
<1> HIDE DEF a, b, p
<1>7. /\ q \in PollState
      /\ q.stage = "events" /\ q.after = p.after /\ q.before = p.before
      /\ q.events = a /\ q.passed = b
  BY <1>1, <1>4 DEF PollState
<1> HIDE DEF q
<1>8. PollAccounts(q, Visible, cursor)
  BY <1>1, <1>3, <1>7 DEF PollAccounts
<1> QED
  BY <1>5, <1>6, <1>7, <1>8, PollStepKeeps

LEMMA ReadLatestKeeps ==
  ASSUME IInv, NEW k \in Slots, ReadLatest(k)
  PROVE  IInv'
<1> DEFINE p == polls[k]
           q == [p EXCEPT !.stage = "answered", !.latest = Latest]
<1>1. TypeOK /\ p # NoPoll /\ p \in PollState /\ PollAccounts(p, Visible, cursor) /\ p.stage = "events"
  BY DEF IInv, TypeOK, PollInvariant, ReadLatest
<1>2. /\ Latest \in 0 .. MaxId
      /\ Latest \in Visible \cup {0}
      /\ \A i \in Visible : i <= Latest
  BY <1>1, LatestIsNewest
<1>3. /\ polls' = [polls EXCEPT ![k] = q]
      /\ UNCHANGED <<storeVars, pageVars, passed>>
  BY DEF ReadLatest
<1>4. page # "closed"
  BY <1>1 DEF IInv, CursorInvariant
<1> HIDE DEF p
<1>5. /\ q \in PollState
      /\ q.stage = "answered" /\ q.after = p.after /\ q.before = p.before
      /\ q.events = p.events /\ q.passed = p.passed /\ q.latest = Latest
  BY <1>1, <1>2 DEF PollState
<1> HIDE DEF q
<1>6. PollAccounts(q, Visible, cursor)
  BY <1>1, <1>2, <1>5 DEF PollAccounts
<1> QED
  BY <1>3, <1>4, <1>5, <1>6, PollStepKeeps

LEMMA FailKeeps ==
  ASSUME IInv, NEW k \in Slots, PollFails(k)
  PROVE  IInv'
BY PollStepKeeps DEF PollFails

(* The answer moves the cursor no further than the rows it accounts for.   *)
LEMMA ReceiveKeeps ==
  ASSUME IInv, NEW k \in Slots, Receive(k)
  PROVE  IInv'
<1> DEFINE p == polls[k]
           S == {cursor, p.latest} \cup p.events
           m == CursorAfter(p)
<1>1. /\ TypeOK /\ CursorInvariant /\ PollInvariant /\ PassedForACause
      /\ p # NoPoll /\ p.stage = "answered"
      /\ shown' = shown \cup p.events /\ cursor' = m
      /\ passed' = passed \cup p.passed
      /\ polls' = [polls EXCEPT ![k] = NoPoll]
      /\ UNCHANGED <<row, page, start>> /\ Visible' = Visible
  BY DEF IInv, Receive, storeVars, Visible
<1>2. p \in PollState /\ PollAccounts(p, Visible, cursor)
  BY <1>1 DEF TypeOK, PollInvariant
<1>3. /\ p.latest \in 0 .. MaxId /\ p.events \subseteq Ids /\ p.passed \subseteq Ids
      /\ cursor \in 0 .. MaxId
  BY <1>1, <1>2 DEF PollState, TypeOK
<1>4. m \in S /\ \A y \in S : y <= m
  <2>1. S \in SUBSET (0 .. MaxId) /\ S # {}
    BY <1>3 DEF Ids
  <2>2. m = Max(S)
    BY DEF CursorAfter
  <2> HIDE DEF S, m
  <2> QED
    BY <2>1, <2>2, BoundedHasMaximum
<1> HIDE DEF m
<1>5. /\ m \in 0 .. MaxId /\ cursor <= m
      /\ m \in Visible \cup {0}
      /\ \A i \in p.events : i <= m
      /\ m > cursor => m <= p.latest
  BY <1>1, <1>2, <1>3, <1>4 DEF CursorInvariant, PollAccounts, Ids
<1> HIDE DEF S, p
<1>6. TypeOK'
  BY <1>1, <1>3, <1>5 DEF TypeOK
<1>7. CursorInvariant'
  <2>1. start <= m
    BY <1>1, <1>3, <1>5 DEF CursorInvariant, TypeOK
  <2>2. \A i \in shown' : i <= m
    BY <1>1, <1>3, <1>5 DEF CursorInvariant, TypeOK, Ids
  <2>3. page # "closed"
    BY <1>1 DEF CursorInvariant, p
  <2> QED
    BY <1>1, <1>5, <2>1, <2>2, <2>3 DEF CursorInvariant
<1>8. PollInvariant'
  <2> SUFFICES ASSUME NEW j \in Slots, polls'[j] # NoPoll PROVE PollAccounts(polls'[j], Visible', cursor')
    BY DEF PollInvariant
  <2>1. polls'[j] = polls[j] /\ polls[j] # NoPoll
    BY <1>1 DEF TypeOK
  <2>2. PollAccounts(polls[j], Visible, cursor) /\ polls[j] \in PollState
    BY <1>1, <2>1 DEF PollInvariant, TypeOK
  <2>3. polls[j].after <= cursor'
    BY <1>1, <1>3, <1>5, <2>2 DEF PollAccounts, PollState
  <2> QED
    BY <1>1, <2>1, <2>2, <2>3 DEF PollAccounts
<1>9. PassedForACause'
  <2> SUFFICES ASSUME page = "open", NEW i \in Visible, start < i, i <= m
               PROVE  i \in shown' \cup passed'
    BY <1>1 DEF PassedForACause
  <2>1. CASE i <= cursor
    BY <1>1, <2>1 DEF PassedForACause
  <2>2. CASE ~(i <= cursor)
    <3>1. i \in Int
      BY DEF Visible, Ids
    <3>2. p.after < i /\ i <= p.latest
      BY <1>2, <1>3, <1>5, <2>2, <3>1 DEF PollAccounts, PollState
    <3> QED
      BY <1>1, <1>2, <3>2 DEF PollAccounts
  <2> QED
    BY <2>1, <2>2
<1> QED
  BY <1>6, <1>7, <1>8, <1>9 DEF IInv
------------------------------------------------------------------------------
LEMMA NextHolds == IInv /\ [Next]_vars => IInv'
<1> SUFFICES ASSUME IInv, [Next]_vars PROVE IInv'
  OBVIOUS
<1>1. CASE UNCHANGED vars
  <2>1. TypeOK' /\ Visible' = Visible /\ UNCHANGED <<pageVars, polls, passed>>
    BY <1>1 DEF IInv, TypeOK, Visible, vars, storeVars, pageVars
  <2> QED
    BY <2>1, UnseenKeeps
<1>2. ASSUME NEW i \in Ids, Draw(i) \/ RollBack(i) PROVE IInv'
  BY <1>2, RowsKeep
<1>3. ASSUME NEW S \in SUBSET Ids, CommitRows(S) PROVE IInv'
  BY <1>3, CommitKeeps
<1>4. ASSUME NEW new, UpdatePreferences(new) \/ SaveGroups(new) PROVE IInv'
  BY <1>4, ChoicesKeep
<1>5. CASE LoadConfig
  BY <1>5, LoadKeeps
<1>6. ASSUME NEW k \in Slots,
             SendPoll(k) \/ ReadEvents(k) \/ ReadLatest(k) \/ Receive(k) \/ PollFails(k)
      PROVE  IInv'
  BY <1>6, SendKeeps, ReadEventsKeeps, ReadLatestKeeps, ReceiveKeeps, FailKeeps
<1> QED
  BY <1>1, <1>2, <1>3, <1>4, <1>5, <1>6 DEF Next

LEMMA Invariance == Spec => []IInv
BY InitHolds, NextHolds, PTL DEF Spec

(* Type correctness of the outbox ids, the page and its polls.             *)
THEOREM TypeCorrect == Spec => []TypeOK
<1>1. IInv => TypeOK
  BY DEF IInv
<1> QED
  BY <1>1, Invariance, PTL

(* NothingShownIsAskedAgain: however polls overlap and are answered, none  *)
(* brings what had been shown when it was sent.                            *)
THEOREM AskedOnceTheorem == Spec => []NothingShownIsAskedAgain
<1>1. IInv => NothingShownIsAskedAgain
  <2> SUFFICES ASSUME IInv, NEW k \in Slots, polls[k] # NoPoll
               PROVE  polls[k].events \cap polls[k].before = {}
    BY DEF NothingShownIsAskedAgain
  <2>1. polls[k] \in PollState /\ PollAccounts(polls[k], Visible, cursor)
    BY DEF IInv, TypeOK, PollInvariant
  <2>2. polls[k].after \in Int /\ polls[k].events \subseteq Int
    BY <2>1 DEF PollState, Ids
  <2> QED
    BY <2>1, <2>2 DEF PollAccounts
<1> QED
  BY <1>1, Invariance, PTL

(* PassedForACause: whatever commits between the reads, late or beyond the *)
(* limit, a row the cursor has gone beyond without a toast was passed over *)
(* for one of the four causes.                                             *)
THEOREM PassedTheorem == Spec => []PassedForACause
<1>1. IInv => PassedForACause
  BY DEF IInv
<1> QED
  BY <1>1, Invariance, PTL
===============================================================================

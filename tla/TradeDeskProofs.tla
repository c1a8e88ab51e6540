---------------------------- MODULE TradeDeskProofs ---------------------------
(***************************************************************************)
(* The rows of setups and entries, for any messages in any order, any      *)
(* number of times, and webhooks that refresh the symbol's results.        *)
(*                                                                         *)
(* What a setup's row says of its events is inductive once the row is      *)
(* known to have its type, and its last event's time is stated as a bound  *)
(* that is reached instead of a maximum.  An entry's row depends on the    *)
(* set of its events alone if the emitter never changes what it wrote; the *)
(* recursion over market order is then shown to give that row.  Its result *)
(* tells the same story if the read events were all the events.            *)
(***************************************************************************)
EXTENDS TradeDesk, FiniteSetTheorems, TLAPS

\* An ingestion holds the lock of the setup of its event.
LocksMatch ==
  \A s \in Setups : lifecycle[s] # Null =>
    lifecycle[s].event \in Accepted /\ lifecycle[s].event.setup = s

\* What is known of the fields of an entry's row, whose values stay open.
IsAttempt(row) ==
  row = [zone |-> row.zone, long |-> row.long, touched |-> row.touched,
         minimum |-> row.minimum, gradeAtTouch |-> row.gradeAtTouch,
         gradeAtConfirmation |-> row.gradeAtConfirmation, confirmed |-> row.confirmed,
         price |-> row.price, stop |-> row.stop, last |-> row.last, status |-> row.status]

TypeOK ==
  /\ events \subseteq Accepted
  /\ setups \in [Setups -> SetupRow \cup {Null}]
  /\ DOMAIN attempts = Entries
  /\ attempts = [n \in Entries |-> attempts[n]]
  /\ \A n \in Entries : attempts[n] # Null => IsAttempt(attempts[n])
  /\ lifecycle = [s \in Setups |-> lifecycle[s]]
  /\ LocksMatch

\* The events E of a setup against its row.
Ends(E) == {SetupStatus(e) : e \in E} \ {"LIVE"}

StatusFits(E, row) ==
  /\ IF Ends(E) = {} THEN row.status = "LIVE" ELSE row.status \in Ends(E)
  /\ "TARGET_TAKEN" \in Ends(E) => row.status # "RETIRED"

GradeFits(E, row) ==
  /\ row.grade \in {SetupGrade(e) : e \in E}
  /\ \A e \in E : GradeRank(SetupGrade(e)) <= GradeRank(row.grade)

RRFits(E, row) == \A f \in RRFields : (row.rr[f] = Null) <=> \A e \in E : e.rr[f] = Null

LastFits(E, row) ==
  /\ row.last \in {e.at : e \in E}
  /\ \A e \in E : e.at <= row.last

Fits(E, row) == StatusFits(E, row) /\ GradeFits(E, row) /\ RRFits(E, row) /\ LastFits(E, row)

SetupsFit ==
  \A s \in Setups : IF SetupEvents(s) = {} THEN setups[s] = Null
                    ELSE setups[s] # Null /\ Fits(SetupEvents(s), setups[s])

USE EventsAssumption
------------------------------------------------------------------------------
LEMMA MaximumIsReached ==
  ASSUME NEW T \in SUBSET Int, NEW m \in T, \A t \in T : t <= m
  PROVE  Max(T) = m
<1>1. \E x \in T : \A t \in T : x >= t
  OBVIOUS
<1>2. Max(T) \in T /\ \A t \in T : Max(T) >= t
  BY <1>1 DEF Max
<1>3. Max(T) \in Int /\ m \in Int /\ Max(T) >= m /\ Max(T) <= m
  BY <1>2
<1> QED
  BY <1>3

LEMMA MaximumOfTwo ==
  ASSUME NEW a \in Int, NEW b \in Int
  PROVE  /\ Max({a, b}) \in {a, b}
         /\ a <= Max({a, b}) /\ b <= Max({a, b})
<1>1. CASE a <= b
  <2>1. Max({a, b}) = b
    <3>1. \A t \in {a, b} : t <= b
      BY <1>1
    <3> QED
      BY <3>1, MaximumIsReached
  <2> QED
    BY <1>1, <2>1
<1>2. CASE b <= a
  <2>1. Max({a, b}) = a
    <3>1. \A t \in {a, b} : t <= a
      BY <1>2
    <3> QED
      BY <3>1, MaximumIsReached
  <2> QED
    BY <1>2, <2>1
<1> QED
  BY <1>1, <1>2

LEMMA RankIsNatural == \A g : GradeRank(g) \in 0..2
BY DEF GradeRank

LEMMA StatusIsTyped == \A e : SetupStatus(e) \in {"LIVE", "FAILED", "RETIRED", "TARGET_TAKEN"}
BY DEF SetupStatus

LEMMA GradeIsTyped == \A e : SetupGrade(e) \in {"A", "A+", Null}
BY DEF SetupGrade

\* The values that the columns of a setup's row may hold.
RRValues == {Null} \cup UNION {{e.rr[f] : f \in RRFields} : e \in Accepted}

LEMMA EventRR ==
  ASSUME NEW e \in Accepted
  PROVE  e.rr \in [RRFields -> RRValues]
<1>1. \A f \in RRFields : e.rr[f] \in RRValues
  BY DEF RRValues
<1>2. e.rr \in [RRFields -> {e.rr[f] : f \in RRFields}]
  OBVIOUS
<1> QED
  BY <1>1, <1>2

LEMMA NewSetupIsTyped ==
  ASSUME NEW e \in Accepted
  PROVE  NewSetup(e) \in SetupRow
<1>1. e.long \in {d.long : d \in Accepted} /\ e.at \in {d.at : d \in Accepted}
  OBVIOUS
<1> QED
  BY <1>1, EventRR, StatusIsTyped, GradeIsTyped DEF NewSetup, SetupRow, RRValues

\* The row of the first event.
LEMMA NewSetupFits ==
  ASSUME NEW e \in Accepted
  PROVE  Fits({e}, NewSetup(e))
<1>1. StatusFits({e}, NewSetup(e))
  BY StatusIsTyped DEF StatusFits, Ends, NewSetup
<1>2. GradeFits({e}, NewSetup(e))
  BY RankIsNatural DEF GradeFits, NewSetup
<1>3. RRFits({e}, NewSetup(e))
  BY DEF RRFits, NewSetup
<1>4. LastFits({e}, NewSetup(e))
  BY DEF LastFits, NewSetup
<1> QED
  BY <1>1, <1>2, <1>3, <1>4 DEF Fits

\* What a merge writes to each column.
LEMMA MergedColumns ==
  ASSUME NEW row \in SetupRow, NEW e \in Accepted
  PROVE  LET merged == MergedSetup(row, e)
         IN  /\ merged \in SetupRow
             /\ \A f \in RRFields :
                  merged.rr[f] = IF row.rr[f] = Null THEN e.rr[f] ELSE row.rr[f]
             /\ merged.grade = IF GradeRank(SetupGrade(e)) > GradeRank(row.grade)
                               THEN SetupGrade(e) ELSE row.grade
             /\ merged.status = IF row.status = "LIVE"
                                     \/ (row.status = "RETIRED" /\ SetupStatus(e) = "TARGET_TAKEN")
                                THEN SetupStatus(e) ELSE row.status
             /\ merged.last \in {row.last, e.at}
             /\ row.last <= merged.last /\ e.at <= merged.last
<1> DEFINE rr == [f \in RRFields |-> IF row.rr[f] = Null THEN e.rr[f] ELSE row.rr[f]]
           grade == IF GradeRank(SetupGrade(e)) > GradeRank(row.grade)
                    THEN SetupGrade(e) ELSE row.grade
           status == IF row.status = "LIVE"
                          \/ (row.status = "RETIRED" /\ SetupStatus(e) = "TARGET_TAKEN")
                     THEN SetupStatus(e) ELSE row.status
           last == Max({row.last, e.at})
           merged == [row EXCEPT !.rr = rr, !.grade = grade, !.status = status, !.last = last]
<1>1. MergedSetup(row, e) = merged
  BY DEF MergedSetup
<1>2. rr \in [RRFields -> RRValues]
  BY EventRR DEF SetupRow, RRValues
<1>3. grade \in {"A", "A+", Null}
  BY GradeIsTyped DEF SetupRow
<1>4. status \in {"LIVE", "FAILED", "RETIRED", "TARGET_TAKEN"}
  BY StatusIsTyped DEF SetupRow
<1>5. /\ last \in {row.last, e.at}
      /\ row.last <= last /\ e.at <= last
      /\ last \in {d.at : d \in Accepted}
  <2>1. row.last \in {d.at : d \in Accepted} /\ e.at \in {d.at : d \in Accepted}
    BY DEF SetupRow
  <2>2. row.last \in Int /\ e.at \in Int
    BY <2>1
  <2> QED
    BY <2>1, <2>2, MaximumOfTwo
<1>6. \A f \in RRFields : rr[f] = IF row.rr[f] = Null THEN e.rr[f] ELSE row.rr[f]
  OBVIOUS
<1> HIDE DEF rr, grade, status, last
<1>7. merged \in SetupRow
  BY <1>2, <1>3, <1>4, <1>5 DEF SetupRow, RRValues
<1>8. merged.rr = rr /\ merged.grade = grade /\ merged.status = status /\ merged.last = last
  BY DEF SetupRow
<1> HIDE DEF merged
<1> QED
  BY <1>1, <1>5, <1>6, <1>7, <1>8 DEF grade, status

\* The row after one more event.
LEMMA MergedSetupFits ==
  ASSUME NEW E \in SUBSET Accepted, NEW row \in SetupRow, NEW e \in Accepted, Fits(E, row)
  PROVE  Fits(E \cup {e}, MergedSetup(row, e))
<1> DEFINE merged == MergedSetup(row, e)
           F == E \cup {e}
<1> HIDE DEF merged
<1>1. StatusFits(F, merged)
  <2>1. Ends(F) = Ends(E) \cup ({SetupStatus(e)} \ {"LIVE"})
    BY DEF Ends
  <2>2. merged.status = IF row.status = "LIVE"
                             \/ (row.status = "RETIRED" /\ SetupStatus(e) = "TARGET_TAKEN")
                        THEN SetupStatus(e) ELSE row.status
    BY MergedColumns DEF merged
  <2>3. StatusFits(E, row) /\ "LIVE" \notin Ends(E)
    BY DEF Fits, Ends
  <2>4. CASE SetupStatus(e) = "LIVE"
    BY <2>1, <2>2, <2>3, <2>4 DEF StatusFits
  <2>5. CASE SetupStatus(e) # "LIVE"
    BY <2>1, <2>2, <2>3, <2>5 DEF StatusFits
  <2> QED
    BY <2>4, <2>5
<1>2. GradeFits(F, merged)
  <2>1. merged.grade = IF GradeRank(SetupGrade(e)) > GradeRank(row.grade)
                       THEN SetupGrade(e) ELSE row.grade
    BY MergedColumns DEF merged
  <2>2. GradeFits(E, row)
    BY DEF Fits
  <2> QED
    BY <2>1, <2>2, RankIsNatural DEF GradeFits
<1>3. RRFits(F, merged)
  <2>1. \A f \in RRFields : merged.rr[f] = IF row.rr[f] = Null THEN e.rr[f] ELSE row.rr[f]
    BY MergedColumns DEF merged
  <2>2. RRFits(E, row)
    BY DEF Fits
  <2> QED
    BY <2>1, <2>2 DEF RRFits
<1>4. LastFits(F, merged)
  <2>1. /\ merged.last \in {row.last, e.at}
        /\ row.last <= merged.last /\ e.at <= merged.last
    BY MergedColumns DEF merged
  <2>2. LastFits(E, row)
    BY DEF Fits
  <2>3. merged.last \in {d.at : d \in F}
    BY <2>1, <2>2 DEF LastFits
  <2>4. row.last \in Int /\ \A d \in F : d.at \in Int
    BY <2>2 DEF LastFits
  <2> QED
    BY <2>1, <2>2, <2>3, <2>4 DEF LastFits
<1> QED
  BY <1>1, <1>2, <1>3, <1>4 DEF Fits, merged
------------------------------------------------------------------------------
\* An entry's row keeps what is frozen and fills in what was unknown.
LEMMA IngestedColumns ==
  ASSUME NEW row, NEW e, NEW E, row # Null => IsAttempt(row)
  PROVE  LET ingested == IngestedAttempt(row, e, E)
         IN  /\ IsAttempt(ingested)
             /\ row # Null => /\ ingested.zone = row.zone
                              /\ ingested.touched = row.touched
                              /\ ingested.confirmed = Coalesce(row.confirmed, e.confirmed)
                              /\ ingested.price = Coalesce(row.price, e.price)
<1> DEFINE status == EntryStatus(E)
           last == Max({row.last, e.at})
<1>1. CASE row = Null
  <2>1. IngestedAttempt(row, e, E) = [NewAttempt(e) EXCEPT !.status = status]
    BY <1>1 DEF IngestedAttempt
  <2> HIDE DEF status
  <2> QED
    BY <1>1, <2>1 DEF NewAttempt, IsAttempt
<1>2. CASE row # Null
  <2>1. IngestedAttempt(row, e, E) =
          [[row EXCEPT !.minimum = Coalesce(@, e.minimum),
                       !.gradeAtTouch = Coalesce(@, e.gradeAtTouch),
                       !.gradeAtConfirmation = Coalesce(@, e.gradeAtConfirmation),
                       !.confirmed = Coalesce(@, e.confirmed),
                       !.price = Coalesce(@, e.price),
                       !.stop = Coalesce(@, e.stop),
                       !.last = last] EXCEPT !.status = status]
    BY <1>2 DEF IngestedAttempt, MergedAttempt
  <2>2. IsAttempt(row)
    BY <1>2
  <2> HIDE DEF status, last
  <2> QED
    BY <1>2, <2>1, <2>2 DEF IsAttempt
<1> QED
  BY <1>1, <1>2

IInv == TypeOK /\ SetupsFit

LEMMA Initially == Init => IInv
<1> SUFFICES ASSUME Init PROVE IInv
  OBVIOUS
<1>1. TypeOK
  BY DEF Init, TypeOK, LocksMatch
<1>2. SetupsFit
  BY DEF Init, SetupsFit, SetupEvents
<1> QED
  BY <1>1, <1>2 DEF IInv

\* A commit that adds the event e of setup s to it.
SetupCommit(s, e) ==
  /\ events' = events \cup {e}
  /\ setups' = [setups EXCEPT ![s] = IF @ = Null THEN NewSetup(e) ELSE MergedSetup(@, e)]

LEMMA SetupCommitKeeps ==
  ASSUME IInv, NEW s \in Setups, NEW e \in Accepted, e.setup = s, SetupCommit(s, e)
  PROVE  /\ events' \subseteq Accepted
         /\ setups' \in [Setups -> SetupRow \cup {Null}]
         /\ SetupsFit'
<1>1. events' \subseteq Accepted
  BY DEF SetupCommit, IInv, TypeOK
<1> DEFINE old == setups[s]
           new == IF old = Null THEN NewSetup(e) ELSE MergedSetup(old, e)
<1>2. old \in SetupRow \cup {Null} /\ setups \in [Setups -> SetupRow \cup {Null}]
  BY DEF IInv, TypeOK
<1>3. new \in SetupRow
  BY <1>2, NewSetupIsTyped, MergedColumns
<1>4. setups' = [setups EXCEPT ![s] = new]
  BY DEF SetupCommit
<1>5. SetupEvents(s)' = SetupEvents(s) \cup {e}
  BY DEF SetupCommit, SetupEvents
<1>6. \A u \in Setups \ {s} : SetupEvents(u)' = SetupEvents(u)
  BY DEF SetupCommit, SetupEvents
<1>7. Fits(SetupEvents(s) \cup {e}, new)
  <2>1. IF SetupEvents(s) = {} THEN old = Null ELSE old # Null /\ Fits(SetupEvents(s), old)
    BY DEF IInv, SetupsFit
  <2>2. SetupEvents(s) \in SUBSET Accepted
    BY DEF IInv, TypeOK, SetupEvents
  <2>3. CASE SetupEvents(s) = {}
    BY <2>1, <2>3, NewSetupFits
  <2>4. CASE SetupEvents(s) # {}
    BY <1>2, <2>1, <2>2, <2>4, MergedSetupFits
  <2> QED
    BY <2>3, <2>4
<1> HIDE DEF new
<1>8. setups' \in [Setups -> SetupRow \cup {Null}]
  BY <1>2, <1>3, <1>4
<1>9. SetupsFit'
  <2> SUFFICES ASSUME NEW u \in Setups
               PROVE  IF SetupEvents(u)' = {} THEN setups'[u] = Null
                      ELSE setups'[u] # Null /\ Fits(SetupEvents(u)', setups'[u])
    BY DEF SetupsFit, Fits, StatusFits, GradeFits, RRFits, LastFits, Ends
  <2>1. CASE u = s
    <3>1. setups'[u] = new /\ new # Null
      BY <1>2, <1>3, <1>4, <2>1
    <3> QED
      BY <1>5, <1>7, <2>1, <3>1
  <2>2. CASE u # s
    <3>1. setups'[u] = setups[u]
      BY <1>2, <1>4, <2>2
    <3>2. IF SetupEvents(u) = {} THEN setups[u] = Null
          ELSE setups[u] # Null /\ Fits(SetupEvents(u), setups[u])
      BY DEF IInv, SetupsFit
    <3> QED
      BY <1>6, <2>2, <3>1, <3>2
  <2> QED
    BY <2>1, <2>2
<1> QED
  BY <1>1, <1>8, <1>9

\* Steps that leave the events and the rows of setups alone.
LEMMA SetupsFitStands ==
  ASSUME SetupsFit, UNCHANGED <<events, setups>>
  PROVE  SetupsFit'
<1>1. \A s \in Setups : SetupEvents(s)' = SetupEvents(s) /\ setups'[s] = setups[s]
  BY DEF SetupEvents
<1>2. \A s \in Setups : IF SetupEvents(s)' = {} THEN setups'[s] = Null
                        ELSE setups'[s] # Null /\ Fits(SetupEvents(s)', setups'[s])
  BY <1>1, Zenon DEF SetupsFit
<1> QED
  BY <1>2, Zenon DEF SetupsFit, Fits, StatusFits, GradeFits, RRFits, LastFits, Ends

LEMMA ReleaseKeepsLocks ==
  ASSUME TypeOK, NEW s \in Setups, lifecycle' = [lifecycle EXCEPT ![s] = Null]
  PROVE  /\ lifecycle' = [u \in Setups |-> lifecycle'[u]]
         /\ LocksMatch'
BY DEF TypeOK, LocksMatch

LEMMA BeginIngestKeeps ==
  ASSUME IInv, NEW e \in Accepted, BeginIngest(e)
  PROVE  IInv'
<1>1. e.setup \in Setups
  BY DEF Setups
<1>2. lifecycle' = [u \in Setups |-> lifecycle'[u]]
  BY DEF BeginIngest, IInv, TypeOK
<1>3. LocksMatch'
  <2> SUFFICES ASSUME NEW u \in Setups, lifecycle'[u] # Null
               PROVE  lifecycle'[u].event \in Accepted /\ lifecycle'[u].event.setup = u
    BY DEF LocksMatch
  <2>1. CASE u = e.setup
    BY <1>1, <2>1 DEF BeginIngest, IInv, TypeOK
  <2>2. CASE u # e.setup
    BY <2>2 DEF BeginIngest, IInv, TypeOK, LocksMatch
  <2> QED
    BY <2>1, <2>2
<1>4. TypeOK'
  BY <1>2, <1>3 DEF BeginIngest, tables, IInv, TypeOK
<1>5. SetupsFit'
  BY SetupsFitStands DEF BeginIngest, tables, IInv
<1> QED
  BY <1>4, <1>5 DEF IInv

LEMMA CommitDuplicateKeeps ==
  ASSUME IInv, NEW s \in Setups, CommitDuplicate(s)
  PROVE  IInv'
<1>1. /\ lifecycle' = [u \in Setups |-> lifecycle'[u]]
      /\ LocksMatch'
  BY ReleaseKeepsLocks DEF CommitDuplicate, IInv
<1>2. TypeOK'
  BY <1>1 DEF CommitDuplicate, tables, IInv, TypeOK
<1>3. SetupsFit'
  BY SetupsFitStands DEF CommitDuplicate, tables, IInv
<1> QED
  BY <1>2, <1>3 DEF IInv

LEMMA CommitSetupEventKeeps ==
  ASSUME IInv, NEW s \in Setups, CommitSetupEvent(s)
  PROVE  IInv'
<1> DEFINE e == lifecycle[s].event
<1>1. e \in Accepted /\ e.setup = s
  BY DEF CommitSetupEvent, IInv, TypeOK, LocksMatch
<1>2. SetupCommit(s, e)
  BY DEF CommitSetupEvent, SetupCommit
<1>3. /\ events' \subseteq Accepted
      /\ setups' \in [Setups -> SetupRow \cup {Null}]
      /\ SetupsFit'
  BY <1>1, <1>2, SetupCommitKeeps
<1>4. /\ lifecycle' = [u \in Setups |-> lifecycle'[u]]
      /\ LocksMatch'
  BY ReleaseKeepsLocks DEF CommitSetupEvent, IInv
<1>5. TypeOK'
  BY <1>3, <1>4 DEF CommitSetupEvent, IInv, TypeOK
<1> QED
  BY <1>3, <1>5 DEF IInv

LEMMA CommitEntryEventKeeps ==
  ASSUME IInv, NEW s \in Setups, CommitEntryEvent(s)
  PROVE  IInv'
<1> DEFINE e == lifecycle[s].event
           entry == EntryOf(e)
           E == EventsOf(events, entry) \cup {e}
           ingested == IngestedAttempt(attempts[entry], e, E)
<1>1. e \in Accepted /\ e.setup = s
  BY DEF CommitEntryEvent, IInv, TypeOK, LocksMatch
<1>2. SetupCommit(s, e)
  BY DEF CommitEntryEvent, SetupCommit
<1>3. /\ events' \subseteq Accepted
      /\ setups' \in [Setups -> SetupRow \cup {Null}]
      /\ SetupsFit'
  BY <1>1, <1>2, SetupCommitKeeps
<1>4. /\ lifecycle' = [u \in Setups |-> lifecycle'[u]]
      /\ LocksMatch'
  BY ReleaseKeepsLocks DEF CommitEntryEvent, IInv
<1>5. entry \in Entries
  BY <1>1 DEF CommitEntryEvent, Entries
<1>6. IsAttempt(ingested)
  BY <1>5, IngestedColumns DEF IInv, TypeOK
<1>7. attempts' = [attempts EXCEPT ![entry] = ingested]
  BY DEF CommitEntryEvent
<1> HIDE DEF ingested, entry, e
<1>8. /\ DOMAIN attempts' = Entries
      /\ attempts' = [n \in Entries |-> attempts'[n]]
      /\ attempts'[entry] = ingested
      /\ \A n \in Entries \ {entry} : attempts'[n] = attempts[n]
  BY <1>5, <1>7 DEF IInv, TypeOK
<1>9. \A n \in Entries : attempts'[n] # Null => IsAttempt(attempts'[n])
  BY <1>6, <1>8 DEF IInv, TypeOK
<1>10. TypeOK'
  BY <1>3, <1>4, <1>8, <1>9, Zenon DEF TypeOK, IsAttempt
<1> QED
  BY <1>3, <1>10 DEF IInv

LEMMA OthersKeep ==
  ASSUME IInv, UNCHANGED <<events, setups, attempts, lifecycle>>
  PROVE  IInv'
<1>1. TypeOK'
  BY DEF IInv, TypeOK, LocksMatch, IsAttempt
<1>2. SetupsFit'
  BY SetupsFitStands DEF IInv
<1> QED
  BY <1>1, <1>2 DEF IInv

LEMMA Invariance == IInv /\ [Next]_vars => IInv'
<1> SUFFICES ASSUME IInv, [Next]_vars PROVE IInv'
  OBVIOUS
<1>1. ASSUME NEW e \in Accepted, BeginIngest(e) PROVE IInv'
  BY <1>1, BeginIngestKeeps
<1>2. ASSUME NEW s \in Setups, CommitDuplicate(s) PROVE IInv'
  BY <1>2, CommitDuplicateKeeps
<1>3. ASSUME NEW s \in Setups, CommitSetupEvent(s) PROVE IInv'
  BY <1>3, CommitSetupEventKeeps
<1>4. ASSUME NEW s \in Setups, CommitEntryEvent(s) PROVE IInv'
  BY <1>4, CommitEntryEventKeeps
<1>5. ASSUME NEW times \in SUBSET MigrationTimes, BeginRefresh(times) PROVE IInv'
  BY <1>5, OthersKeep DEF BeginRefresh, tables
<1>6. CASE CommitRefresh
  BY <1>6, OthersKeep DEF CommitRefresh
<1>7. CASE RebuildResults
  BY <1>7, OthersKeep DEF RebuildResults
<1>8. CASE UNCHANGED vars
  BY <1>8, OthersKeep DEF vars, tables
<1> QED
  BY <1>1, <1>2, <1>3, <1>4, <1>5, <1>6, <1>7, <1>8 DEF Next

LEMMA Invariant == Spec => []IInv
BY Initially, Invariance, PTL DEF Spec
------------------------------------------------------------------------------
(* The rows and the locks keep their types: what a merge writes is a row   *)
(* again, and an ingestion only holds the lock of its own event's setup.   *)
THEOREM TypeCorrect == Spec => []TypeOK
<1>1. IInv => TypeOK
  BY DEF IInv
<1> QED
  BY <1>1, Invariant, PTL

(* ingest_tradedesk_lifecycle: the row of a setup is that of the set of    *)
(* events received, in whatever order and however often they came.         *)
THEOREM SetupsTheorem == Spec => []SetupsSummariseEvents
<1>1. IInv => SetupsSummariseEvents
  <2> SUFFICES ASSUME IInv, NEW s \in Setups, SetupEvents(s) # {}
               PROVE  /\ StatusFits(SetupEvents(s), setups[s])
                      /\ GradeFits(SetupEvents(s), setups[s])
                      /\ RRFits(SetupEvents(s), setups[s])
                      /\ setups[s].last = Max({e.at : e \in SetupEvents(s)})
    BY DEF SetupsSummariseEvents, IInv, SetupsFit, StatusFits, GradeFits, RRFits, Ends
  <2>1. Fits(SetupEvents(s), setups[s])
    BY DEF IInv, SetupsFit
  <2> DEFINE T == {e.at : e \in SetupEvents(s)}
             m == setups[s].last
  <2>2. T \in SUBSET Int
    BY DEF IInv, TypeOK, SetupEvents
  <2>3. m \in T /\ \A t \in T : t <= m
    BY <2>1 DEF Fits, LastFits
  <2> HIDE DEF T, m
  <2>4. Max(T) = m
    BY <2>2, <2>3, MaximumIsReached
  <2> QED
    BY <2>1, <2>4 DEF Fits, T, m
<1> QED
  BY <1>1, Invariant, PTL
------------------------------------------------------------------------------
\* What FrozenFieldsStand says of a setup's row and of an entry's row.
SetupStands(s) ==
  setups[s] # Null =>
    /\ \A f \in RRFields : setups[s].rr[f] \in {Null, setups'[s].rr[f]}
    /\ setups[s].status \in {"FAILED", "TARGET_TAKEN"} => setups'[s].status = setups[s].status

AttemptStands(n) ==
  attempts[n] # Null =>
    /\ attempts'[n].zone = attempts[n].zone
    /\ attempts'[n].touched = attempts[n].touched
    /\ attempts[n].confirmed \in {Null, attempts'[n].confirmed}
    /\ attempts[n].price \in {Null, attempts'[n].price}

LEMMA SetupCommitStands ==
  ASSUME IInv, NEW s \in Setups, NEW e \in Accepted, SetupCommit(s, e), NEW u \in Setups
  PROVE  SetupStands(u)
<1>1. setups \in [Setups -> SetupRow \cup {Null}]
  BY DEF IInv, TypeOK
<1>2. CASE u # s
  BY <1>1, <1>2 DEF SetupCommit, SetupStands
<1>3. CASE u = s /\ setups[s] # Null
  <2> DEFINE merged == MergedSetup(setups[s], e)
  <2>1. setups'[s] = merged
    BY <1>1, <1>3 DEF SetupCommit
  <2>2. setups[s] \in SetupRow
    BY <1>1, <1>3
  <2>3. /\ \A f \in RRFields :
             merged.rr[f] = IF setups[s].rr[f] = Null THEN e.rr[f] ELSE setups[s].rr[f]
        /\ merged.status = IF setups[s].status = "LIVE"
                                \/ (setups[s].status = "RETIRED" /\ SetupStatus(e) = "TARGET_TAKEN")
                           THEN SetupStatus(e) ELSE setups[s].status
    BY <2>2, MergedColumns
  <2> HIDE DEF merged
  <2> QED
    BY <1>3, <2>1, <2>3 DEF SetupStands
<1> QED
  BY <1>2, <1>3 DEF SetupStands

LEMMA EntryCommitStands ==
  ASSUME IInv, NEW s \in Setups, CommitEntryEvent(s), NEW n \in Entries
  PROVE  AttemptStands(n)
<1> DEFINE e == lifecycle[s].event
           entry == EntryOf(e)
           E == EventsOf(events, entry) \cup {e}
           ingested == IngestedAttempt(attempts[entry], e, E)
<1>1. attempts' = [attempts EXCEPT ![entry] = ingested]
  BY DEF CommitEntryEvent
<1>2. DOMAIN attempts = Entries /\ (attempts[n] # Null => IsAttempt(attempts[n]))
  BY DEF IInv, TypeOK
<1>3. CASE n # entry
  <2> HIDE DEF ingested, entry
  <2> QED
    BY <1>1, <1>2, <1>3 DEF AttemptStands
<1>4. CASE n = entry /\ attempts[n] # Null
  <2>1. /\ ingested.zone = attempts[n].zone
        /\ ingested.touched = attempts[n].touched
        /\ ingested.confirmed = Coalesce(attempts[n].confirmed, e.confirmed)
        /\ ingested.price = Coalesce(attempts[n].price, e.price)
    BY <1>2, <1>4, IngestedColumns
  <2> HIDE DEF ingested, entry, e
  <2>2. attempts'[n] = ingested
    BY <1>1, <1>2, <1>4
  <2> QED
    BY <2>1, <2>2 DEF AttemptStands, Coalesce
<1> QED
  BY <1>3, <1>4 DEF AttemptStands

(* _ingest_tradedesk_entry_attempt and ingest_tradedesk_lifecycle: no      *)
(* later, late or repeated event, and no refresh, changes what is frozen.  *)
THEOREM FrozenTheorem == Spec => FrozenFieldsStand
<1> DEFINE Kept == (\A s \in Setups : SetupStands(s)) /\ (\A n \in Entries : AttemptStands(n))
<1>1. IInv /\ [Next]_vars => Kept
  <2> SUFFICES ASSUME IInv, [Next]_vars PROVE Kept
    OBVIOUS
  <2>1. ASSUME UNCHANGED attempts PROVE \A n \in Entries : AttemptStands(n)
    BY <2>1 DEF AttemptStands
  <2>2. ASSUME UNCHANGED setups PROVE \A s \in Setups : SetupStands(s)
    BY <2>2 DEF SetupStands
  <2>3. ASSUME NEW s \in Setups, CommitSetupEvent(s) PROVE Kept
    <3>1. /\ SetupCommit(s, lifecycle[s].event) /\ UNCHANGED attempts
          /\ lifecycle[s].event \in Accepted
      BY <2>3 DEF CommitSetupEvent, SetupCommit, IInv, TypeOK, LocksMatch
    <3> QED
      BY <2>1, <3>1, SetupCommitStands
  <2>4. ASSUME NEW s \in Setups, CommitEntryEvent(s) PROVE Kept
    <3>1. SetupCommit(s, lifecycle[s].event) /\ lifecycle[s].event \in Accepted
      BY <2>4 DEF CommitEntryEvent, SetupCommit, IInv, TypeOK, LocksMatch
    <3> QED
      BY <2>4, <3>1, SetupCommitStands, EntryCommitStands
  <2>5. CASE UNCHANGED <<setups, attempts>>
    BY <2>1, <2>2, <2>5
  <2>6. \/ \E s \in Setups : CommitSetupEvent(s) \/ CommitEntryEvent(s)
        \/ UNCHANGED <<setups, attempts>>
    BY DEF Next, vars, tables, BeginIngest, CommitDuplicate, BeginRefresh, CommitRefresh,
           RebuildResults
  <2> HIDE DEF Kept
  <2> QED
    BY <2>3, <2>4, <2>5, <2>6
<1>2. Kept => \A s \in Setups : setups[s] # Null =>
                /\ \A f \in RRFields : setups[s].rr[f] \in {Null, setups'[s].rr[f]}
                /\ setups[s].status \in {"FAILED", "TARGET_TAKEN"} =>
                     setups'[s].status = setups[s].status
  BY DEF SetupStands
<1>3. Kept => \A n \in Entries : attempts[n] # Null =>
                /\ attempts'[n].zone = attempts[n].zone
                /\ attempts'[n].touched = attempts[n].touched
                /\ attempts[n].confirmed \in {Null, attempts'[n].confirmed}
                /\ attempts[n].price \in {Null, attempts'[n].price}
  BY DEF AttemptStands
<1> HIDE DEF Kept
<1>4. Spec => [][Kept]_vars
  BY <1>1, Invariant, PTL DEF Spec
<1> QED
  BY <1>2, <1>3, <1>4, PTL DEF FrozenFieldsStand
------------------------------------------------------------------------------
(* Entries.  What is known of a row is known of the set of its events, and *)
(* if the emitter froze the entry, nothing else is: then the row is that   *)
(* of any order of the events, that of the market included.                *)
Evidence == {E \in SUBSET Accepted : IsFiniteSet(E)}

\* A set of sets of events that is not empty has a smallest member.
LEMMA SmallestEvidence ==
  ASSUME NEW Bad \in SUBSET Evidence, Bad # {}
  PROVE  \E S \in Bad : \A T \in SUBSET S : T # S => T \notin Bad
<1> DEFINE R == StrictSubsetOrdering(Accepted)
<1>1. IsWellFoundedOn(R, Evidence)
  BY FS_StrictSubsetOrderingWellFounded DEF Evidence, FiniteSubsetsOf
<1>2. PICK S \in Bad : \A T \in Bad : ~ (<<T, S>> \in R)
  BY <1>1, WFMin
<1>3. ASSUME NEW T \in SUBSET S, T # S, T \in Bad PROVE <<T, S>> \in R
  BY <1>3 DEF StrictSubsetOrdering, Evidence, FiniteSubsetsOf
<1> HIDE DEF R
<1>4. \A T \in SUBSET S : T # S => T \notin Bad
  BY <1>2, <1>3
<1> QED
  BY <1>4

LEMMA EvidenceParts ==
  ASSUME NEW E \in Evidence, NEW x
  PROVE  E \subseteq Accepted /\ E \ {x} \in Evidence
BY FS_RemoveElement DEF Evidence

LEMMA PrecedesIsAnOrder ==
  ASSUME NEW a \in Accepted, NEW b \in Accepted, NEW c \in Accepted
  PROVE  /\ Precedes(a, b) /\ Precedes(b, c) => Precedes(a, c)
         /\ a # b => Precedes(a, b) \/ Precedes(b, a)
<1>1. /\ a.at \in Int /\ b.at \in Int /\ c.at \in Int
      /\ a.id \in Int /\ b.id \in Int /\ c.id \in Int
      /\ a # b => a.id # b.id
  BY EventsAssumption
<1>2. ASSUME a # b PROVE Precedes(a, b) \/ Precedes(b, a)
  <2> DEFINE i == a.at   j == b.at   l == a.id   m == b.id
  <2>1. i \in Int /\ j \in Int /\ l \in Int /\ m \in Int /\ l # m
    BY <1>1, <1>2
  <2>2. \/ i < j \/ (i = j /\ l < m)
        \/ j < i \/ (j = i /\ m < l)
    <3> HIDE DEF i, j, l, m
    <3> QED
      BY <2>1
  <2> QED
    BY <2>2 DEF Precedes
<1>3. ASSUME Precedes(a, b), Precedes(b, c) PROVE Precedes(a, c)
  <2> DEFINE i == a.at   j == b.at   k == c.at
             l == a.id   m == b.id   n == c.id
  <2>1. /\ i < j \/ (i = j /\ l < m)
        /\ j < k \/ (j = k /\ m < n)
    BY <1>3 DEF Precedes
  <2>2. /\ i \in Int /\ j \in Int /\ k \in Int
        /\ l \in Int /\ m \in Int /\ n \in Int
    BY <1>1
  <2>3. i < k \/ (i = k /\ l < n)
    <3> HIDE DEF i, j, k, l, m, n
    <3> QED
      BY <2>1, <2>2
  <2> QED
    BY <2>3 DEF Precedes
<1> QED
  BY <1>2, <1>3

LEMMA LastExists ==
  ASSUME NEW E \in Evidence, E # {}
  PROVE  LastOf(E) \in E /\ \A d \in E \ {LastOf(E)} : Precedes(d, LastOf(E))
<1> DEFINE Has(T) == \E e \in T : \A d \in T \ {e} : Precedes(d, e)
           Bad == {T \in Evidence : T # {} /\ ~Has(T)}
<1>1. Bad = {}
  <2> SUFFICES ASSUME Bad # {} PROVE FALSE
    OBVIOUS
  <2>1. PICK T \in Bad : \A U \in SUBSET T : U # T => U \notin Bad
    BY SmallestEvidence
  <2>2. PICK x : x \in T
    OBVIOUS
  <2>3. T \subseteq Accepted /\ T \ {x} \in Evidence
    BY EvidenceParts
  <2>4. CASE T \ {x} = {}
    BY <2>2, <2>4
  <2>5. CASE T \ {x} # {}
    <3>1. PICK y \in T \ {x} : \A d \in (T \ {x}) \ {y} : Precedes(d, y)
      <4>1. T \ {x} \notin Bad
        BY <2>1, <2>2
      <4> QED
        BY <2>3, <2>5, <4>1
    <3>2. CASE Precedes(x, y)
      BY <3>1, <3>2
    <3>3. CASE Precedes(y, x)
      <4>1. \A d \in T \ {x} : Precedes(d, x)
        BY <2>2, <2>3, <3>1, <3>3, PrecedesIsAnOrder
      <4> QED
        BY <2>2, <4>1
    <3> QED
      BY <2>2, <2>3, <3>1, <3>2, <3>3, PrecedesIsAnOrder
  <2> QED
    BY <2>4, <2>5
<1>2. Has(E)
  BY <1>1
<1> QED
  BY <1>2 DEF LastOf

Statuses == {"CANDIDATE", "CONFIRMED", "INVALIDATED", "STOPPED", "TARGET_TAKEN", "AMBIGUOUS"}

LEMMA CardinalityOfBoth == Cardinality({"ENTRY_STOPPED", "ENTRY_TARGET_TAKEN"}) = 2
<1>1. IsFiniteSet({"ENTRY_STOPPED"}) /\ Cardinality({"ENTRY_STOPPED"}) = 1
  BY FS_Singleton
<1>2. "ENTRY_TARGET_TAKEN" \notin {"ENTRY_STOPPED"}
  OBVIOUS
<1>3. Cardinality({"ENTRY_STOPPED"} \cup {"ENTRY_TARGET_TAKEN"}) = 2
  <2> DEFINE one == {"ENTRY_STOPPED"}
             other == "ENTRY_TARGET_TAKEN"
  <2>1. IsFiniteSet(one) /\ Cardinality(one) = 1 /\ other \notin one
    BY <1>1, <1>2
  <2>2. Cardinality(one \cup {other}) = Cardinality(one) + 1
    <3> HIDE DEF one, other
    <3> QED
      BY <2>1, FS_AddElement
  <2>3. Cardinality(one \cup {other}) = 2
    <3> HIDE DEF one, other
    <3> QED
      BY <2>1, <2>2
  <2> QED
    BY <2>3
<1>4. {"ENTRY_STOPPED", "ENTRY_TARGET_TAKEN"} = {"ENTRY_STOPPED"} \cup {"ENTRY_TARGET_TAKEN"}
  OBVIOUS
<1> QED
  BY <1>3, <1>4

\* The cases of an entry's status are all.
LEMMA EntryStatusIsTyped == \A E : EntryStatus(E) \in Statuses
<1> SUFFICES ASSUME NEW E PROVE EntryStatus(E) \in Statuses
  OBVIOUS
<1> DEFINE confirmed == {e.confirmed : e \in E} \ {Null}
           terminal == OfType(E, "ENTRY_STOPPED") \cup OfType(E, "ENTRY_TARGET_TAKEN")
           first == {e.type : e \in {d \in terminal : \A c \in terminal : d.at <= c.at}}
           last == CASE Cardinality(first) = 2 -> "AMBIGUOUS"
                     [] first = {"ENTRY_STOPPED"} -> "STOPPED"
                     [] first = {"ENTRY_TARGET_TAKEN"} -> "TARGET_TAKEN"
                     [] first = {} -> IF confirmed = {} THEN "CANDIDATE" ELSE "CONFIRMED"
<1>1. first \subseteq {"ENTRY_STOPPED", "ENTRY_TARGET_TAKEN"}
  BY DEF OfType
<1>2. Cardinality({"ENTRY_STOPPED", "ENTRY_TARGET_TAKEN"}) = 2
  BY CardinalityOfBoth
<1>3. last \in Statuses
  <2> HIDE DEF first, confirmed
  <2>1. \/ first = {} \/ first = {"ENTRY_STOPPED"} \/ first = {"ENTRY_TARGET_TAKEN"}
        \/ first = {"ENTRY_STOPPED", "ENTRY_TARGET_TAKEN"}
    BY <1>1
  <2>2. Cardinality(first) # 2 => first # {"ENTRY_STOPPED", "ENTRY_TARGET_TAKEN"}
    BY <1>2
  <2> QED
    BY <2>1, <2>2 DEF Statuses
<1>4. EntryStatus(E) \in {"INVALIDATED", "AMBIGUOUS", last}
  BY DEF EntryStatus
<1> QED
  BY <1>3, <1>4 DEF Statuses

TouchFields == {"zone", "long", "touched"}
LaterFields == {"minimum", "gradeAtTouch", "gradeAtConfirmation", "confirmed", "price", "stop"}

LEMMA RowFields ==
  ASSUME NEW row \in AttemptRow
  PROVE  /\ row.last \in Int /\ row.status \in Statuses
         /\ \A f \in TouchFields \cup LaterFields : row[f] \in {e[f] : e \in Accepted}
         /\ IsAttempt(row)
BY DEF AttemptRow, TouchFields, LaterFields, Statuses, IsAttempt

LEMMA FieldsDecide ==
  ASSUME NEW a \in AttemptRow, NEW b \in AttemptRow, a.last = b.last, a.status = b.status,
         \A f \in TouchFields \cup LaterFields : a[f] = b[f]
  PROVE  a = b
BY RowFields DEF IsAttempt, TouchFields, LaterFields

LEMMA AttemptIsTyped ==
  ASSUME NEW row, IsAttempt(row), row.last \in {e.at : e \in Accepted}, row.status \in Statuses,
         \A f \in TouchFields \cup LaterFields : row[f] \in {e[f] : e \in Accepted}
  PROVE  row \in AttemptRow
BY DEF AttemptRow, TouchFields, LaterFields, Statuses, IsAttempt

\* What an ingestion makes of a row, column by column.
Columns(row, e, E, ingested) ==
  /\ ingested \in AttemptRow
  /\ ingested.status = EntryStatus(E)
  /\ row = Null => /\ \A f \in TouchFields \cup LaterFields : ingested[f] = e[f]
                   /\ ingested.last = e.at
  /\ row # Null => /\ \A f \in TouchFields : ingested[f] = row[f]
                   /\ \A f \in LaterFields : ingested[f] = Coalesce(row[f], e[f])
                   /\ ingested.last = Max({row.last, e.at})

LEMMA AttemptColumns ==
  ASSUME NEW row \in AttemptRow \cup {Null}, NEW e \in Accepted, NEW E,
         NEW ingested, ingested = IngestedAttempt(row, e, E)
  PROVE  Columns(row, e, E, ingested)
<1> DEFINE status == EntryStatus(E)
           last == Max({row.last, e.at})
<1>1. status \in Statuses
  BY EntryStatusIsTyped
<1>2. CASE row = Null
  <2>1. IngestedAttempt(row, e, E) = [NewAttempt(e) EXCEPT !.status = status]
    BY <1>2 DEF IngestedAttempt
  <2> HIDE DEF status
  <2>2. /\ IsAttempt(ingested) /\ ingested.status = status /\ ingested.last = e.at
        /\ \A f \in TouchFields \cup LaterFields : ingested[f] = e[f]
    BY <1>2, <2>1 DEF NewAttempt, IsAttempt, TouchFields, LaterFields
  <2>3. ingested \in AttemptRow
    BY <1>1, <2>2, AttemptIsTyped
  <2> QED
    BY <1>2, <2>2, <2>3 DEF status, Columns
<1>3. CASE row # Null
  <2>1. IngestedAttempt(row, e, E) =
          [[row EXCEPT !.minimum = Coalesce(@, e.minimum),
                       !.gradeAtTouch = Coalesce(@, e.gradeAtTouch),
                       !.gradeAtConfirmation = Coalesce(@, e.gradeAtConfirmation),
                       !.confirmed = Coalesce(@, e.confirmed),
                       !.price = Coalesce(@, e.price),
                       !.stop = Coalesce(@, e.stop),
                       !.last = last] EXCEPT !.status = status]
    BY <1>3 DEF IngestedAttempt, MergedAttempt
  <2>2. /\ IsAttempt(row) /\ row.last \in {d.at : d \in Accepted} /\ row.last \in Int
        /\ \A f \in TouchFields \cup LaterFields : row[f] \in {d[f] : d \in Accepted}
    BY <1>3, RowFields DEF AttemptRow
  <2>3. last \in {row.last, e.at}
    BY <2>2, MaximumOfTwo
  <2> HIDE DEF status, last
  <2>4. /\ IsAttempt(ingested) /\ ingested.status = status /\ ingested.last = last
        /\ \A f \in TouchFields : ingested[f] = row[f]
        /\ \A f \in LaterFields : ingested[f] = Coalesce(row[f], e[f])
    BY <1>3, <2>1, <2>2 DEF IsAttempt, TouchFields, LaterFields
  <2>5. \A f \in TouchFields \cup LaterFields : ingested[f] \in {d[f] : d \in Accepted}
    BY <2>2, <2>4 DEF Coalesce
  <2>6. ingested \in AttemptRow
    BY <1>1, <2>2, <2>3, <2>4, <2>5, AttemptIsTyped
  <2> QED
    BY <1>3, <2>4, <2>6 DEF status, last, Columns
<1> QED
  BY <1>2, <1>3

\* The row of the events E: whatever the emitter sends, and what it froze.
RowFits(E, row) == row \in AttemptRow /\ LastFits(E, row) /\ row.status = EntryStatus(E)

FrozenFits(E, row) ==
  /\ \A f \in TouchFields : \A e \in E : row[f] = e[f]
  /\ \A f \in LaterFields : /\ \E e \in E : row[f] = e[f]
                            /\ \A e \in E : e[f] \in {Null, row[f]}

Frozen(E) == \A d, e \in E : EntryIsFrozen(d, e)

\* An ingestion makes the row of one more event, or of the first.
LEMMA IngestedFits ==
  ASSUME NEW E \in SUBSET Accepted, NEW e \in Accepted, NEW row,
         NEW ingested, ingested = IngestedAttempt(row, e, E \cup {e}),
         IF E = {} THEN row = Null ELSE RowFits(E, row)
  PROVE  /\ RowFits(E \cup {e}, ingested)
         /\ Frozen(E \cup {e}) /\ (E # {} => FrozenFits(E, row)) =>
              FrozenFits(E \cup {e}, ingested)
<1> DEFINE G == E \cup {e}
<1>0. row \in AttemptRow \cup {Null} /\ (row = Null <=> E = {})
  BY DEF RowFits
<1>1. Columns(row, e, G, ingested)
  BY <1>0, AttemptColumns, Zenon
<1>2. LastFits(G, ingested)
  <2>1. CASE E = {}
    BY <1>0, <1>1, <2>1 DEF LastFits, Columns
  <2>2. CASE E # {}
    <3>1. row.last \in {d.at : d \in E} /\ \A d \in E : d.at <= row.last
      BY <2>2 DEF RowFits, LastFits
    <3>2. /\ ingested.last \in {row.last, e.at} /\ row.last \in Int
          /\ row.last <= ingested.last /\ e.at <= ingested.last
      <4>1. row.last \in Int /\ e.at \in Int
        BY <3>1
      <4>2. ingested.last = Max({row.last, e.at})
        BY <1>0, <1>1, <2>2 DEF Columns
      <4> DEFINE i == row.last   j == e.at   m == Max({i, j})
      <4>3. m \in {i, j} /\ i <= m /\ j <= m
        BY <4>1, MaximumOfTwo
      <4> QED
        BY <4>1, <4>2, <4>3
    <3>3. \A d \in G : d.at <= ingested.last
      <4> SUFFICES ASSUME NEW d \in E PROVE d.at <= ingested.last
        BY <3>2
      <4>1. d.at \in Int /\ d.at <= row.last /\ ingested.last \in Int
        BY <3>1, <3>2
      <4> QED
        BY <3>2, <4>1
    <3> QED
      BY <3>1, <3>2, <3>3 DEF LastFits
  <2> QED
    BY <2>1, <2>2
<1>3. ASSUME Frozen(G), E # {} => FrozenFits(E, row) PROVE FrozenFits(G, ingested)
  <2>1. CASE E = {}
    BY <1>0, <1>1, <2>1 DEF FrozenFits, Columns
  <2>2. CASE E # {}
    <3>1. \A f \in TouchFields : \A d \in G : ingested[f] = d[f]
      <4> SUFFICES ASSUME NEW f \in TouchFields, NEW d \in G PROVE ingested[f] = d[f]
        OBVIOUS
      <4>1. PICK c \in E : TRUE
        BY <2>2
      <4>2. row[f] = c[f] /\ c[f] = d[f]
        BY <1>3, <2>2 DEF FrozenFits, Frozen, EntryIsFrozen, TouchFields
      <4> QED
        BY <1>0, <1>1, <2>2, <4>2 DEF Columns
    <3>2. ASSUME NEW f \in LaterFields
          PROVE  (\E d \in G : ingested[f] = d[f]) /\ \A d \in G : d[f] \in {Null, ingested[f]}
      <4>1. ingested[f] = Coalesce(row[f], e[f])
        BY <1>0, <1>1, <2>2 DEF Columns
      <4>2. PICK c \in E : row[f] = c[f]
        BY <1>3, <2>2 DEF FrozenFits
      <4>3. \A d \in E : d[f] \in {Null, row[f]}
        BY <1>3, <2>2 DEF FrozenFits
      <4>4. \A d \in G : d[f] = e[f] \/ Null \in {d[f], e[f]}
        BY <1>3 DEF Frozen, EntryIsFrozen, LaterFields
      <4> QED
        BY <4>1, <4>2, <4>3, <4>4 DEF Coalesce
    <3> QED
      BY <3>1, <3>2 DEF FrozenFits
  <2> QED
    BY <2>1, <2>2
<1> QED
  BY <1>1, <1>2, <1>3 DEF RowFits, Columns

LEMMA OneRowFits ==
  ASSUME NEW E \in SUBSET Accepted, E # {}, NEW a, NEW b,
         RowFits(E, a), RowFits(E, b), FrozenFits(E, a), FrozenFits(E, b)
  PROVE  a = b
<1>1. a \in AttemptRow /\ b \in AttemptRow /\ a.status = b.status
  BY DEF RowFits
<1>2. a.last = b.last
  <2>1. /\ a.last \in {e.at : e \in E} /\ \A e \in E : e.at <= a.last
        /\ b.last \in {e.at : e \in E} /\ \A e \in E : e.at <= b.last
    BY DEF RowFits, LastFits
  <2>2. a.last \in Int /\ b.last \in Int /\ a.last <= b.last /\ b.last <= a.last
    BY <2>1
  <2> QED
    BY <2>2
<1>3. ASSUME NEW f \in TouchFields PROVE a[f] = b[f]
  BY DEF FrozenFits
<1>4. ASSUME NEW f \in LaterFields PROVE a[f] = b[f]
  BY DEF FrozenFits
<1> QED
  BY <1>1, <1>2, <1>3, <1>4, FieldsDecide

\* The row of the events E, whatever their order, if the emitter froze them.
IsRowOf(E, row) ==
  IF E = {} THEN row = Null ELSE RowFits(E, row) /\ FrozenFits(E, row)

LEMMA OneRow ==
  ASSUME NEW E \in SUBSET Accepted, NEW a, NEW b, IsRowOf(E, a), IsRowOf(E, b)
  PROVE  a = b
BY OneRowFits DEF IsRowOf

LEMMA NextRow ==
  ASSUME NEW E \in SUBSET Accepted, NEW e \in Accepted, Frozen(E \cup {e}),
         NEW row, IsRowOf(E, row)
  PROVE  IsRowOf(E \cup {e}, IngestedAttempt(row, e, E \cup {e}))
<1> DEFINE ingested == IngestedAttempt(row, e, E \cup {e})
<1>1. /\ IF E = {} THEN row = Null ELSE RowFits(E, row)
      /\ E # {} => FrozenFits(E, row)
  BY DEF IsRowOf
<1>2. RowFits(E \cup {e}, ingested) /\ FrozenFits(E \cup {e}, ingested)
  BY <1>1, IngestedFits
<1> QED
  BY <1>2 DEF IsRowOf

\* The row after all but the last event, and then the last.
LEMMA LastRow ==
  ASSUME NEW E \in Evidence, E # {}, Frozen(E), NEW row, IsRowOf(E \ {LastOf(E)}, row)
  PROVE  IsRowOf(E, IngestedAttempt(row, LastOf(E), E))
<1> DEFINE e == LastOf(E)
           D == E \ {e}
<1>1. e \in E /\ D \in SUBSET Accepted /\ e \in Accepted
  BY LastExists, EvidenceParts
<1>2. D \cup {e} = E
  BY <1>1
<1> HIDE DEF e
<1>3. IsRowOf(D \cup {e}, IngestedAttempt(row, e, D \cup {e}))
  <2>1. IsRowOf(D, row)
    BY DEF e
  <2>2. Frozen(D \cup {e})
    BY <1>2
  <2> HIDE DEF D
  <2> QED
    BY <1>1, <2>1, <2>2, NextRow
<1> QED
  BY <1>2, <1>3 DEF e

LEMMA PartsOfEvidence ==
  ASSUME NEW E \in Evidence, NEW S \in SUBSET E, Frozen(E)
  PROVE  S \in Evidence /\ Frozen(S)
<1>1. S \in Evidence
  BY FS_Subset DEF Evidence
<1> QED
  BY <1>1 DEF Frozen

\* Events that the emitter froze have a row.
LEMMA RowExists ==
  ASSUME NEW E \in Evidence, Frozen(E)
  PROVE  \E row : IsRowOf(E, row)
<1> DEFINE Bad == {S \in SUBSET E : ~\E row : IsRowOf(S, row)}
<1>1. Bad = {}
  <2> SUFFICES ASSUME Bad # {} PROVE FALSE
    OBVIOUS
  <2>1. Bad \in SUBSET Evidence
    BY PartsOfEvidence
  <2>2. PICK S \in Bad : \A T \in SUBSET S : T # S => T \notin Bad
    <3> HIDE DEF Bad
    <3> QED
      BY <2>1, SmallestEvidence
  <2>3. S \in Evidence /\ Frozen(S) /\ S \subseteq E
    BY PartsOfEvidence
  <2>4. S # {}
    <3>1. IsRowOf({}, Null)
      BY DEF IsRowOf
    <3> QED
      BY <3>1
  <2>5. LastOf(S) \in S
    BY <2>3, <2>4, LastExists
  <2>6. PICK row : IsRowOf(S \ {LastOf(S)}, row)
    <3>1. S \ {LastOf(S)} \notin Bad
      BY <2>2, <2>5
    <3> QED
      BY <2>3, <3>1
  <2>7. IsRowOf(S, IngestedAttempt(row, LastOf(S), S))
    BY <2>3, <2>4, <2>6, LastRow
  <2> QED
    BY <2>7
<1> QED
  BY <1>1

(* InMarketOrder is defined by a recursion on the events: a function that  *)
(* satisfies it exists, and gives each set of events its row.              *)
Recursion(after, E) ==
  after = [S \in SUBSET E |->
             IF S = {} THEN Null
             ELSE IngestedAttempt(after[S \ {LastOf(S)}], LastOf(S), S)]

LEMMA RecursionExists ==
  ASSUME NEW E \in Evidence, Frozen(E)
  PROVE  \E after : Recursion(after, E)
<1> DEFINE g == [S \in SUBSET E |-> CHOOSE row : IsRowOf(S, row)]
<1>1. \A S \in SUBSET E : IsRowOf(S, g[S])
  <2> SUFFICES ASSUME NEW S \in SUBSET E PROVE IsRowOf(S, g[S])
    OBVIOUS
  <2>1. \E row : IsRowOf(S, row)
    BY PartsOfEvidence, RowExists
  <2>2. IsRowOf(S, CHOOSE row : IsRowOf(S, row))
    BY <2>1
  <2> QED
    BY <2>2
<1>2. DOMAIN g = SUBSET E /\ g = [S \in SUBSET E |-> g[S]]
  OBVIOUS
<1> HIDE DEF g
<1>3. ASSUME NEW S \in SUBSET E
      PROVE  g[S] = IF S = {} THEN Null
                    ELSE IngestedAttempt(g[S \ {LastOf(S)}], LastOf(S), S)
  <2>1. CASE S = {}
    BY <1>1, <2>1 DEF IsRowOf
  <2>2. CASE S # {}
    <3> DEFINE row == g[S \ {LastOf(S)}]
    <3>1. S \in Evidence /\ Frozen(S)
      BY PartsOfEvidence
    <3>2. IsRowOf(S \ {LastOf(S)}, row)
      BY <1>1
    <3>3. IsRowOf(S, IngestedAttempt(row, LastOf(S), S))
      <4> HIDE DEF row
      <4> QED
        BY <2>2, <3>1, <3>2, LastRow
    <3>4. IsRowOf(S, g[S]) /\ S \in SUBSET Accepted
      BY <1>1, <3>1 DEF Evidence
    <3>5. g[S] = IngestedAttempt(row, LastOf(S), S)
      <4> HIDE DEF row
      <4> QED
        BY <3>3, <3>4, OneRow
    <3> QED
      BY <2>2, <3>5
  <2> QED
    BY <2>1, <2>2
<1>4. Recursion(g, E)
  BY <1>2, <1>3, Zenon DEF Recursion
<1> QED
  BY <1>4

LEMMA RecursionGivesRows ==
  ASSUME NEW E \in Evidence, Frozen(E), NEW after, Recursion(after, E)
  PROVE  IsRowOf(E, after[E])
<1> DEFINE Bad == {S \in SUBSET E : ~IsRowOf(S, after[S])}
<1>1. \A S \in SUBSET E :
        after[S] = IF S = {} THEN Null
                   ELSE IngestedAttempt(after[S \ {LastOf(S)}], LastOf(S), S)
  BY Zenon DEF Recursion
<1>2. Bad = {}
  <2> SUFFICES ASSUME Bad # {} PROVE FALSE
    OBVIOUS
  <2>1. Bad \in SUBSET Evidence
    BY PartsOfEvidence
  <2>2. PICK S \in Bad : \A T \in SUBSET S : T # S => T \notin Bad
    <3> HIDE DEF Bad
    <3> QED
      BY <2>1, SmallestEvidence
  <2>3. S \in Evidence /\ Frozen(S) /\ S \in SUBSET E
    BY PartsOfEvidence
  <2>4. S # {}
    BY <1>1 DEF IsRowOf
  <2>5. LastOf(S) \in S
    BY <2>3, <2>4, LastExists
  <2> DEFINE row == after[S \ {LastOf(S)}]
  <2>6. IsRowOf(S \ {LastOf(S)}, row)
    <3>1. S \ {LastOf(S)} \notin Bad
      BY <2>2, <2>5
    <3> QED
      BY <2>3, <3>1
  <2>7. after[S] = IngestedAttempt(row, LastOf(S), S)
    BY <1>1, <2>3, <2>4
  <2>8. IsRowOf(S, IngestedAttempt(row, LastOf(S), S))
    <3> HIDE DEF row
    <3> QED
      BY <2>3, <2>4, <2>6, LastRow
  <2> QED
    BY <2>7, <2>8
<1> QED
  BY <1>2

LEMMA MarketOrderGivesRows ==
  ASSUME NEW E \in Evidence, Frozen(E)
  PROVE  IsRowOf(E, InMarketOrder(E))
<1> DEFINE after == CHOOSE g : Recursion(g, E)
<1>1. Recursion(after, E)
  BY RecursionExists
<1>2. InMarketOrder(E) = after[E]
  BY DEF InMarketOrder, Recursion
<1> HIDE DEF after
<1> QED
  BY <1>1, <1>2, RecursionGivesRows
------------------------------------------------------------------------------
\* A stored row is the row of the entry's events.
RowFollows(E, row) ==
  /\ IF E = {} THEN row = Null ELSE RowFits(E, row)
  /\ Frozen(E) /\ E # {} => FrozenFits(E, row)

EntriesFollow ==
  /\ IsFiniteSet(events)
  /\ \A n \in Entries : RowFollows(EventsOf(events, n), attempts[n])

LEMMA IngestedFollows ==
  ASSUME NEW E \in SUBSET Accepted, NEW e \in Accepted, NEW row, RowFollows(E, row)
  PROVE  RowFollows(E \cup {e}, IngestedAttempt(row, e, E \cup {e}))
<1> DEFINE ingested == IngestedAttempt(row, e, E \cup {e})
<1>1. IF E = {} THEN row = Null ELSE RowFits(E, row)
  BY DEF RowFollows
<1>2. /\ RowFits(E \cup {e}, ingested)
      /\ Frozen(E \cup {e}) /\ (E # {} => FrozenFits(E, row)) => FrozenFits(E \cup {e}, ingested)
  BY <1>1, IngestedFits
<1>3. Frozen(E \cup {e}) => Frozen(E)
  BY DEF Frozen
<1> HIDE DEF ingested
<1>4. RowFollows(E \cup {e}, ingested)
  BY <1>2, <1>3 DEF RowFollows
<1> QED
  BY <1>4 DEF ingested

\* A stored event is one of its entry's, and of no other's.
LEMMA EventsOfMore ==
  ASSUME NEW E, NEW e, NEW n
  PROVE  EventsOf(E \cup {e}, n) = IF EntryOf(e) = n THEN EventsOf(E, n) \cup {e}
                                   ELSE EventsOf(E, n)
BY DEF EventsOf

LEMMA EntriesFollowAfterEntryEvent ==
  ASSUME IInv, EntriesFollow, NEW s \in Setups, CommitEntryEvent(s)
  PROVE  EntriesFollow'
<1> DEFINE e == lifecycle[s].event
           entry == EntryOf(e)
           E == EventsOf(events, entry)
           ingested == IngestedAttempt(attempts[entry], e, E \cup {e})
<1>1. e \in Accepted /\ events \subseteq Accepted /\ DOMAIN attempts = Entries
  BY DEF CommitEntryEvent, IInv, TypeOK, LocksMatch
<1>2. events' = events \cup {e} /\ attempts' = [attempts EXCEPT ![entry] = ingested]
  BY DEF CommitEntryEvent
<1>3. entry \in Entries
  BY <1>1 DEF CommitEntryEvent, Entries
<1>4. IsFiniteSet(events')
  <2> HIDE DEF e
  <2> QED
    BY <1>2, FS_AddElement DEF EntriesFollow
<1>5. RowFollows(E \cup {e}, ingested)
  <2>1. RowFollows(E, attempts[entry]) /\ E \in SUBSET Accepted
    BY <1>1, <1>3 DEF EntriesFollow, EventsOf
  <2> HIDE DEF E, e, entry
  <2> QED
    BY <1>1, <2>1, IngestedFollows
<1>6. ASSUME NEW n \in Entries PROVE RowFollows(EventsOf(events', n), attempts'[n])
  <2>1. CASE n = entry
    <3>1. EventsOf(events', n) = E \cup {e}
      BY <1>2, <2>1, EventsOfMore
    <3>2. attempts'[n] = ingested
      <4> HIDE DEF ingested, entry
      <4> QED
        BY <1>1, <1>2, <1>3, <2>1
    <3> HIDE DEF ingested, E, e
    <3> QED
      BY <1>5, <3>1, <3>2
  <2>2. CASE n # entry
    <3>1. EventsOf(events', n) = EventsOf(events, n)
      BY <1>2, <2>2, EventsOfMore
    <3>2. attempts'[n] = attempts[n]
      <4> HIDE DEF ingested, entry
      <4> QED
        BY <1>1, <1>2, <2>2
    <3> QED
      BY <3>1, <3>2 DEF EntriesFollow
  <2> QED
    BY <2>1, <2>2
<1> HIDE DEF e, entry, E, ingested
<1> QED
  BY <1>4, <1>6, Zenon DEF EntriesFollow, EventsOf, RowFollows, RowFits, FrozenFits, Frozen, LastFits

LEMMA EntriesFollowAfterSetupEvent ==
  ASSUME EntriesFollow, NEW s \in Setups, CommitSetupEvent(s)
  PROVE  EntriesFollow'
<1> DEFINE e == lifecycle[s].event
<1>1. events' = events \cup {e} /\ attempts' = attempts /\ EntryOf(e) = Null
  BY DEF CommitSetupEvent
<1> HIDE DEF e
<1>2. IsFiniteSet(events')
  BY <1>1, FS_AddElement DEF EntriesFollow
<1>3. ASSUME NEW n \in Entries PROVE RowFollows(EventsOf(events', n), attempts'[n])
  <2>1. n # Null
    BY DEF Entries
  <2>2. EventsOf(events', n) = EventsOf(events, n)
    BY <1>1, <2>1, EventsOfMore
  <2> QED
    BY <1>1, <2>2 DEF EntriesFollow
<1> QED
  BY <1>2, <1>3, Zenon DEF EntriesFollow, EventsOf, RowFollows, RowFits, FrozenFits, Frozen, LastFits

LEMMA EntriesFollowThroughout == Spec => []EntriesFollow
<1>1. Init => EntriesFollow
  BY FS_EmptySet DEF Init, EntriesFollow, EventsOf, RowFollows
<1>2. IInv /\ EntriesFollow /\ [Next]_vars => EntriesFollow'
  <2> SUFFICES ASSUME IInv, EntriesFollow, [Next]_vars PROVE EntriesFollow'
    OBVIOUS
  <2>1. ASSUME NEW s \in Setups, CommitSetupEvent(s) PROVE EntriesFollow'
    BY <2>1, EntriesFollowAfterSetupEvent
  <2>2. ASSUME NEW s \in Setups, CommitEntryEvent(s) PROVE EntriesFollow'
    BY <2>2, EntriesFollowAfterEntryEvent
  <2>3. CASE UNCHANGED <<events, attempts>>
    <3>1. \A n \in Entries : RowFollows(EventsOf(events', n), attempts'[n])
      BY <2>3 DEF EntriesFollow
    <3> HIDE EventsAssumption
    <3> QED
      BY <2>3, <3>1, Zenon
      DEF EntriesFollow, EventsOf, RowFollows, RowFits, FrozenFits, Frozen, LastFits
  <2>4. \/ \E s \in Setups : CommitSetupEvent(s) \/ CommitEntryEvent(s)
        \/ UNCHANGED <<events, attempts>>
    BY DEF Next, vars, tables, BeginIngest, CommitDuplicate, BeginRefresh, CommitRefresh,
           RebuildResults
  <2> QED
    BY <2>1, <2>2, <2>3, <2>4
<1> QED
  BY <1>1, <1>2, Invariant, PTL DEF Spec

\* The stored events of an entry and its row.
EntriesKnown ==
  \A n \in Entries : /\ n # Null /\ EventsOf(events, n) \in Evidence
                     /\ RowFollows(EventsOf(events, n), attempts[n])

LEMMA EntriesFollowNow == IInv /\ EntriesFollow => EntriesKnown
<1> SUFFICES ASSUME IInv, EntriesFollow, NEW n \in Entries
             PROVE  EventsOf(events, n) \in Evidence
  BY DEF EntriesKnown, EntriesFollow, Entries
<1> DEFINE E == EventsOf(events, n)
<1>1. E \subseteq events /\ events \subseteq Accepted /\ IsFiniteSet(events)
  BY DEF IInv, TypeOK, EntriesFollow, EventsOf
<1> HIDE DEF E
<1>2. E \in Evidence
  BY <1>1, FS_Subset DEF Evidence
<1> QED
  BY <1>2 DEF E

LEMMA FrozenEvidence ==
  ASSUME EntriesAreFrozen, NEW n, NEW E \in Evidence, \A e \in E : EntryOf(e) = n /\ n # Null
  PROVE  Frozen(E)
<1>1. ASSUME NEW d \in E, NEW e \in E PROVE EntryIsFrozen(d, e)
  <2>1. d \in Accepted /\ e \in Accepted /\ EntryOf(d) # Null /\ EntryOf(d) = EntryOf(e)
    BY DEF Evidence
  <2> QED
    BY <2>1 DEF EntriesAreFrozen
<1> QED
  BY <1>1 DEF Frozen

(* _ingest_tradedesk_entry_attempt: whatever order an entry's events come  *)
(* in and however often, its row is the one that they leave in market      *)
(* order, provided the emitter does not change what it once wrote.         *)
THEOREM AttemptsTheorem ==
  ASSUME EntriesAreFrozen
  PROVE  Spec => []AttemptsFollowMarketTime
<1>1. IInv /\ EntriesFollow => AttemptsFollowMarketTime
  <2> SUFFICES ASSUME IInv, EntriesFollow, NEW n \in Entries
               PROVE  attempts[n] = InMarketOrder(EventsOf(events, n))
    BY DEF AttemptsFollowMarketTime
  <2> DEFINE E == EventsOf(events, n)
  <2>1. /\ E \in Evidence /\ E \in SUBSET Accepted /\ RowFollows(E, attempts[n])
        /\ \A e \in E : EntryOf(e) = n /\ n # Null
    BY EntriesFollowNow DEF Evidence, EntriesKnown, EventsOf
  <2> HIDE DEF E
  <2>2. Frozen(E)
    BY <2>1, FrozenEvidence
  <2>3. IsRowOf(E, attempts[n])
    BY <2>1, <2>2 DEF RowFollows, IsRowOf
  <2>4. IsRowOf(E, InMarketOrder(E))
    BY <2>1, <2>2, MarketOrderGivesRows
  <2>5. attempts[n] = InMarketOrder(E)
    BY <2>1, <2>3, <2>4, OneRow
  <2> QED
    BY <2>5 DEF E
<1> QED
  BY <1>1, Invariant, EntriesFollowThroughout, PTL
------------------------------------------------------------------------------
(* Results.  A trade result and the status of its entry are computed from  *)
(* the same events by two pieces of code; what makes them one story is     *)
(* what the request model refuses, message by message.                     *)
LEMMA FirstExists ==
  ASSUME NEW E \in Evidence, E # {}
  PROVE  FirstOf(E) \in E /\ \A d \in E \ {FirstOf(E)} : Precedes(FirstOf(E), d)
<1> DEFINE Has(T) == \E e \in T : \A d \in T \ {e} : Precedes(e, d)
           Bad == {T \in Evidence : T # {} /\ ~Has(T)}
<1>1. Bad = {}
  <2> SUFFICES ASSUME Bad # {} PROVE FALSE
    OBVIOUS
  <2>1. PICK T \in Bad : \A U \in SUBSET T : U # T => U \notin Bad
    BY SmallestEvidence
  <2>2. PICK x : x \in T
    OBVIOUS
  <2>3. T \subseteq Accepted /\ T \ {x} \in Evidence
    BY EvidenceParts
  <2>4. CASE T \ {x} = {}
    BY <2>2, <2>4
  <2>5. CASE T \ {x} # {}
    <3>1. PICK y \in T \ {x} : \A d \in (T \ {x}) \ {y} : Precedes(y, d)
      <4>1. T \ {x} \notin Bad
        BY <2>1, <2>2
      <4> QED
        BY <2>3, <2>5, <4>1
    <3>2. CASE Precedes(y, x)
      BY <3>1, <3>2
    <3>3. CASE Precedes(x, y)
      <4>1. \A d \in T \ {x} : Precedes(x, d)
        BY <2>2, <2>3, <3>1, <3>3, PrecedesIsAnOrder
      <4> QED
        BY <2>2, <4>1
    <3> QED
      BY <2>2, <2>3, <3>1, <3>2, <3>3, PrecedesIsAnOrder
  <2> QED
    BY <2>4, <2>5
<1>2. Has(E)
  BY <1>1
<1> QED
  BY <1>2 DEF FirstOf

\* The events with the first time of a set.
Earliest(S) == {e \in S : \A d \in S : e.at <= d.at}

LEMMA EarliestExists ==
  ASSUME NEW E \in Evidence, E # {}
  PROVE  FirstOf(E) \in Earliest(E) /\ Earliest(E) \in Evidence
<1>1. FirstOf(E) \in E /\ \A d \in E \ {FirstOf(E)} : Precedes(FirstOf(E), d)
  BY FirstExists
<1>2. Earliest(E) \in Evidence
  BY FS_Subset DEF Earliest, Evidence
<1>3. ASSUME NEW d \in E PROVE FirstOf(E).at <= d.at
  <2>1. d.at \in Int /\ FirstOf(E).at \in Int
    BY <1>1 DEF Evidence
  <2>2. d = FirstOf(E) \/ FirstOf(E).at < d.at \/ FirstOf(E).at = d.at
    BY <1>1 DEF Precedes
  <2> QED
    BY <2>1, <2>2
<1> QED
  BY <1>1, <1>2, <1>3 DEF Earliest

\* What the request model refuses of one message.
LEMMA MessageContract ==
  ASSUME NEW e \in Accepted, e.type \in ConfirmedTypes
  PROVE  /\ e.confirmed # Null
         /\ e.type = "ENTRY_CONFIRMED" => e.at = e.confirmed
         /\ e.type \in TerminalTypes => e.confirmed < e.at
<1>1. EntryContract(e)
  BY DEF Accepted
<1>2. Confirmation(e)
  BY <1>1 DEF EntryContract, EntryTypes
<1> QED
  BY <1>2 DEF Confirmation

\* The events of one entry that is confirmed and was not invalidated.
Confirmed(E) ==
  /\ E \in Evidence /\ Frozen(E)
  /\ OfType(E, "ENTRY_CONFIRMED") # {} /\ OfType(E, "ENTRY_INVALIDATED") = {}

Terminals(E) == OfType(E, "ENTRY_STOPPED") \cup OfType(E, "ENTRY_TARGET_TAKEN")

LEMMA ConfirmedTimes ==
  ASSUME NEW E, Confirmed(E), NEW c \in OfType(E, "ENTRY_CONFIRMED")
  PROVE  /\ c.confirmed \in Int /\ c.confirmed # Null
         /\ {e.confirmed : e \in E} \ {Null} = {c.confirmed}
         /\ \A e \in OfType(E, "ENTRY_AMBIGUOUS") \cup Terminals(E) : e.at > c.confirmed
<1>1. E \subseteq Accepted /\ c \in E /\ c.type = "ENTRY_CONFIRMED"
  BY DEF Confirmed, Evidence, OfType
<1>2. c.confirmed \in Int /\ c.confirmed # Null
  BY <1>1, MessageContract DEF ConfirmedTypes
<1>3. \A e \in E : e.confirmed \in {Null, c.confirmed}
  BY <1>1, <1>2, Zenon DEF Confirmed, Frozen, EntryIsFrozen
<1>4. ASSUME NEW e \in OfType(E, "ENTRY_AMBIGUOUS") \cup Terminals(E)
      PROVE  e.at > c.confirmed
  <2>1. e \in E /\ e \in Accepted /\ e.type \in TerminalTypes
    BY <1>1, <1>4 DEF OfType, Terminals, TerminalTypes
  <2>2. e.confirmed # Null /\ e.confirmed < e.at
    BY <2>1, MessageContract DEF ConfirmedTypes
  <2>3. e.confirmed = c.confirmed /\ e.at \in Int
    BY <1>3, <2>1, <2>2
  <2> QED
    BY <1>2, <2>2, <2>3
<1>5. {e.confirmed : e \in E} \ {Null} = {c.confirmed}
  BY <1>1, <1>2, <1>3
<1> QED
  BY <1>2, <1>4, <1>5

\* The types of the terminals on their first bar.
FirstTypes(E) == {e.type : e \in Earliest(Terminals(E))}

LEMMA TerminalsAreEvidence ==
  ASSUME NEW E \in Evidence
  PROVE  /\ Terminals(E) \in Evidence /\ OfType(E, "ENTRY_AMBIGUOUS") \in Evidence
         /\ OfType(E, "ENTRY_CONFIRMED") \in Evidence
BY FS_Subset DEF Terminals, OfType, Evidence

\* The status of the entry.
LEMMA StatusOfConfirmed ==
  ASSUME NEW E, Confirmed(E)
  PROVE  EntryStatus(E) =
           CASE OfType(E, "ENTRY_AMBIGUOUS") # {} -> "AMBIGUOUS"
             [] OTHER ->
                CASE Cardinality(FirstTypes(E)) = 2 -> "AMBIGUOUS"
                  [] FirstTypes(E) = {"ENTRY_STOPPED"} -> "STOPPED"
                  [] FirstTypes(E) = {"ENTRY_TARGET_TAKEN"} -> "TARGET_TAKEN"
                  [] FirstTypes(E) = {} -> "CONFIRMED"
<1>1. {e.confirmed : e \in E} \ {Null} # {}
  <2>1. PICK c : c \in OfType(E, "ENTRY_CONFIRMED")
    BY DEF Confirmed
  <2>2. {e.confirmed : e \in E} \ {Null} = {c.confirmed}
    BY <2>1, ConfirmedTimes
  <2> QED
    BY <2>2
<1>2. {e.at : e \in OfType(E, "ENTRY_INVALIDATED")} = {}
  BY DEF Confirmed
<1> QED
  BY <1>1, <1>2, Zenon DEF EntryStatus, FirstTypes, Earliest, Terminals

\* The outcome of the trade.
LEMMA OutcomeOfConfirmed ==
  ASSUME NEW E, Confirmed(E), NEW opened \in Int,
         \A e \in OfType(E, "ENTRY_AMBIGUOUS") \cup Terminals(E) : e.at > opened
  PROVE  Outcome(E, opened) =
           CASE OfType(E, "ENTRY_AMBIGUOUS") # {} ->
                  [status |-> "AMBIGUOUS", event |-> FirstOf(OfType(E, "ENTRY_AMBIGUOUS"))]
             [] OfType(E, "ENTRY_AMBIGUOUS") = {} /\ Terminals(E) = {} ->
                  [status |-> "OPEN", event |-> Null]
             [] OfType(E, "ENTRY_AMBIGUOUS") = {} /\ Terminals(E) # {} ->
                  [event |-> FirstOf(Earliest(Terminals(E))),
                   status |-> IF Cardinality(FirstTypes(E)) = 2 THEN "AMBIGUOUS"
                              ELSE IF FirstOf(Earliest(Terminals(E))).type = "ENTRY_STOPPED"
                                   THEN "LOSS" ELSE "WIN"]
<1>1. {e \in OfType(E, "ENTRY_AMBIGUOUS") : e.at > opened} = OfType(E, "ENTRY_AMBIGUOUS")
  OBVIOUS
<1>2. {e \in Terminals(E) : e.at > opened} = Terminals(E)
  OBVIOUS
<1> QED
  BY <1>1, <1>2, Zenon DEF Outcome, FirstTypes, Earliest, Terminals

\* Both of them see the same first bar.
LEMMA FirstTypesOfTerminals ==
  ASSUME NEW E \in Evidence
  PROVE  /\ Terminals(E) = {} => FirstTypes(E) = {} /\ Cardinality(FirstTypes(E)) = 0
         /\ Terminals(E) # {} =>
              LET first == FirstOf(Earliest(Terminals(E)))
              IN  /\ first \in Terminals(E) /\ first.type \in FirstTypes(E)
                  /\ Cardinality(FirstTypes(E)) # 2 => FirstTypes(E) = {first.type}
<1>1. FirstTypes(E) \subseteq {"ENTRY_STOPPED", "ENTRY_TARGET_TAKEN"}
  BY DEF FirstTypes, Earliest, Terminals, OfType
<1>2. CASE Terminals(E) = {}
  <2>1. FirstTypes(E) = {}
    BY <1>2 DEF FirstTypes, Earliest
  <2> QED
    BY <1>2, <2>1, FS_EmptySet
<1>3. CASE Terminals(E) # {}
  <2> DEFINE first == FirstOf(Earliest(Terminals(E)))
  <2>1. Earliest(Terminals(E)) # {} /\ Earliest(Terminals(E)) \in Evidence
    BY <1>3, TerminalsAreEvidence, EarliestExists
  <2>2. first \in Earliest(Terminals(E))
    BY <2>1, FirstExists
  <2>3. first \in Terminals(E) /\ first.type \in FirstTypes(E)
    BY <2>2 DEF Earliest, FirstTypes
  <2>4. Cardinality({"ENTRY_STOPPED", "ENTRY_TARGET_TAKEN"}) = 2
    BY CardinalityOfBoth
  <2>5. Cardinality(FirstTypes(E)) # 2 => FirstTypes(E) # {"ENTRY_STOPPED", "ENTRY_TARGET_TAKEN"}
    BY <2>4
  <2> HIDE DEF first
  <2>6. Cardinality(FirstTypes(E)) # 2 => FirstTypes(E) = {first.type}
    BY <1>1, <2>3, <2>5
  <2> QED
    BY <1>3, <2>3, <2>6 DEF first
<1> QED
  BY <1>2, <1>3

\* The result of an entry against the entry, its events and migrations.
Story(E, attempt, times, r) ==
  /\ r.opened = attempt.confirmed
  /\ r.status = ResultFor(attempt.status)
  /\ (r.closed = Null) <=> r.status = "OPEN"
  /\ r.migrated = {t \in times : r.opened < t /\ (r.closed = Null \/ t < r.closed)}

LEMMA OutcomeTellsTheStory ==
  ASSUME NEW E, Confirmed(E), NEW opened \in Int,
         \A e \in OfType(E, "ENTRY_AMBIGUOUS") \cup Terminals(E) : e.at > opened
  PROVE  /\ Outcome(E, opened).status = ResultFor(EntryStatus(E))
         /\ Outcome(E, opened).event = Null <=> Outcome(E, opened).status = "OPEN"
         /\ Outcome(E, opened).event \in Accepted \cup {Null}
<1>1. E \in Evidence /\ \A S \in SUBSET E : S \subseteq Accepted
  BY DEF Confirmed, Evidence
<1>2. CASE OfType(E, "ENTRY_AMBIGUOUS") # {}
  <2>1. Outcome(E, opened) =
          [status |-> "AMBIGUOUS", event |-> FirstOf(OfType(E, "ENTRY_AMBIGUOUS"))]
    BY <1>2, OutcomeOfConfirmed
  <2>2. EntryStatus(E) = "AMBIGUOUS"
    BY <1>2, StatusOfConfirmed
  <2>3. FirstOf(OfType(E, "ENTRY_AMBIGUOUS")) \in OfType(E, "ENTRY_AMBIGUOUS")
    BY <1>1, <1>2, TerminalsAreEvidence, FirstExists
  <2>4. FirstOf(OfType(E, "ENTRY_AMBIGUOUS")) \in Accepted
    BY <1>1, <2>3 DEF OfType
  <2> QED
    BY <2>1, <2>2, <2>4 DEF ResultFor
<1>3. CASE OfType(E, "ENTRY_AMBIGUOUS") = {} /\ Terminals(E) = {}
  <2>1. Outcome(E, opened) = [status |-> "OPEN", event |-> Null]
    BY <1>3, OutcomeOfConfirmed
  <2>2. FirstTypes(E) = {} /\ Cardinality(FirstTypes(E)) = 0
    BY <1>1, <1>3, FirstTypesOfTerminals
  <2>3. EntryStatus(E) = "CONFIRMED"
    BY <1>3, <2>2, StatusOfConfirmed
  <2> QED
    BY <2>1, <2>3 DEF ResultFor
<1>4. CASE OfType(E, "ENTRY_AMBIGUOUS") = {} /\ Terminals(E) # {}
  <2> DEFINE first == FirstOf(Earliest(Terminals(E)))
  <2>1. Outcome(E, opened) =
          [event |-> first,
           status |-> IF Cardinality(FirstTypes(E)) = 2 THEN "AMBIGUOUS"
                      ELSE IF first.type = "ENTRY_STOPPED" THEN "LOSS" ELSE "WIN"]
    BY <1>4, OutcomeOfConfirmed
  <2>2. /\ first \in Terminals(E) /\ first.type \in FirstTypes(E)
        /\ Cardinality(FirstTypes(E)) # 2 => FirstTypes(E) = {first.type}
    BY <1>1, <1>4, FirstTypesOfTerminals
  <2>3. first \in Accepted /\ first.type \in {"ENTRY_STOPPED", "ENTRY_TARGET_TAKEN"}
    BY <1>1, <2>2 DEF Terminals, OfType
  <2>4. EntryStatus(E) =
          CASE Cardinality(FirstTypes(E)) = 2 -> "AMBIGUOUS"
            [] FirstTypes(E) = {"ENTRY_STOPPED"} -> "STOPPED"
            [] FirstTypes(E) = {"ENTRY_TARGET_TAKEN"} -> "TARGET_TAKEN"
            [] FirstTypes(E) = {} -> "CONFIRMED"
    BY <1>4, StatusOfConfirmed
  <2> HIDE DEF first
  <2>5. CASE Cardinality(FirstTypes(E)) = 2
    <3>1. FirstTypes(E) # {"ENTRY_STOPPED"} /\ FirstTypes(E) # {"ENTRY_TARGET_TAKEN"} /\ FirstTypes(E) # {}
      <4>1. /\ Cardinality({"ENTRY_STOPPED"}) = 1 /\ Cardinality({"ENTRY_TARGET_TAKEN"}) = 1
            /\ Cardinality({}) = 0
        BY FS_Singleton, FS_EmptySet
      <4>2. 2 # 1 /\ 2 # 0
        OBVIOUS
      <4> QED
        BY <2>5, <4>1, <4>2, Zenon
    <3>2. EntryStatus(E) = "AMBIGUOUS"
      BY <2>4, <2>5, <3>1
    <3> QED
      BY <2>1, <2>3, <2>5, <3>2 DEF ResultFor
  <2>6. CASE Cardinality(FirstTypes(E)) # 2
    <3>1. EntryStatus(E) = IF first.type = "ENTRY_STOPPED" THEN "STOPPED" ELSE "TARGET_TAKEN"
      BY <2>2, <2>3, <2>4, <2>6
    <3> QED
      BY <2>1, <2>3, <2>6, <3>1 DEF ResultFor
  <2> QED
    BY <2>5, <2>6
<1> QED
  BY <1>2, <1>3, <1>4

LEMMA ResultTellsTheStory ==
  ASSUME NEW E, Confirmed(E), NEW attempt, RowFits(E, attempt), FrozenFits(E, attempt), NEW times
  PROVE  Story(E, attempt, times, TradeResult(E, attempt, times))
<1> DEFINE c == FirstOf(OfType(E, "ENTRY_CONFIRMED"))
           opened == c.confirmed
           outcome == Outcome(E, opened)
           r == ResultRow(E, attempt, times, c, outcome)
<1>1. c \in OfType(E, "ENTRY_CONFIRMED") /\ c \in E
  <2>1. OfType(E, "ENTRY_CONFIRMED") # {} /\ OfType(E, "ENTRY_CONFIRMED") \in Evidence
    BY TerminalsAreEvidence DEF Confirmed
  <2> QED
    BY <2>1, FirstExists DEF OfType
<1>2. TradeResult(E, attempt, times) = r
  BY DEF TradeResult, Confirmed
<1>3. /\ opened \in Int /\ opened # Null
      /\ \A e \in OfType(E, "ENTRY_AMBIGUOUS") \cup Terminals(E) : e.at > opened
  BY <1>1, ConfirmedTimes
<1>4. attempt.confirmed = opened
  BY <1>1, <1>3 DEF FrozenFits, LaterFields
<1>5. /\ outcome.status = ResultFor(attempt.status)
      /\ outcome.event = Null <=> outcome.status = "OPEN"
      /\ outcome.event \in Accepted \cup {Null}
  <2> HIDE DEF opened
  <2> QED
    BY <1>3, OutcomeTellsTheStory DEF RowFits
<1>6. /\ r.status = outcome.status /\ r.opened = opened
      /\ r.closed = IF outcome.event = Null THEN Null ELSE outcome.event.at
      /\ r.migrated = WhileOpen(times, opened, outcome.event)
  <2> HIDE DEF outcome
  <2> QED
    BY DEF ResultRow
<1> HIDE DEF opened, outcome, r
<1>7. r.closed = Null <=> outcome.event = Null
  BY <1>5, <1>6
<1>8. r.migrated = {t \in times : r.opened < t /\ (r.closed = Null \/ t < r.closed)}
  BY <1>6, <1>7 DEF WhileOpen
<1> QED
  BY <1>2, <1>4, <1>5, <1>6, <1>7, <1>8 DEF Story
------------------------------------------------------------------------------
\* What a refresh has read of the entries is so as long as no event came.
RefreshFollows ==
  webhook # Null => /\ webhook.events \subseteq events
                    /\ webhook.events = events => webhook.attempts = attempts

LEMMA RefreshFollowsThroughout == Spec => []RefreshFollows
<1>1. Init => RefreshFollows
  BY DEF Init, RefreshFollows
<1>2. RefreshFollows /\ [Next]_vars => RefreshFollows'
  <2> SUFFICES ASSUME RefreshFollows, [Next]_vars PROVE RefreshFollows'
    OBVIOUS
  <2>1. CASE UNCHANGED <<events, attempts, webhook>>
    BY <2>1 DEF RefreshFollows
  <2>2. ASSUME NEW s \in Setups, CommitSetupEvent(s) \/ CommitEntryEvent(s) PROVE RefreshFollows'
    <3>1. /\ events' = events \cup {lifecycle[s].event} /\ lifecycle[s].event \notin events
          /\ webhook' = webhook
      BY <2>2 DEF CommitSetupEvent, CommitEntryEvent
    <3>2. webhook # Null => webhook.events \subseteq events' /\ webhook.events # events'
      BY <3>1 DEF RefreshFollows
    <3> QED
      BY <3>1, <3>2 DEF RefreshFollows
  <2>3. ASSUME NEW times, BeginRefresh(times) PROVE RefreshFollows'
    BY <2>3 DEF BeginRefresh, tables, RefreshFollows
  <2>4. CASE CommitRefresh
    BY <2>4 DEF CommitRefresh, RefreshFollows
  <2>5. \/ \E s \in Setups : CommitSetupEvent(s) \/ CommitEntryEvent(s)
        \/ \E times \in SUBSET MigrationTimes : BeginRefresh(times)
        \/ CommitRefresh
        \/ UNCHANGED <<events, attempts, webhook>>
    BY DEF Next, vars, tables, BeginIngest, CommitDuplicate, RebuildResults
  <2> QED
    BY <2>1, <2>2, <2>3, <2>4, <2>5
<1> QED
  BY <1>1, <1>2, PTL DEF Spec

\* A write from current reads is one from all the events and migrations.
CurrentResult(n) ==
  results'[n] = TradeResult(EventsOf(events', n), attempts'[n], migrations')

LEMMA CurrentEventResult ==
  ASSUME IInv, DOMAIN results = Entries, NEW s \in Setups, CommitEntryEvent(s), NEW n \in Entries,
         EntryOf(lifecycle[s].event) = n, lifecycle[s].migrations = migrations
  PROVE  CurrentResult(n)
<1> DEFINE e == lifecycle[s].event
           E == EventsOf(events, n) \cup {e}
           new == TradeResult(E, attempts'[n], migrations)
<1>1. results' = [results EXCEPT ![n] = new] /\ migrations' = migrations /\ events' = events \cup {e}
  BY DEF CommitEntryEvent
<1>2. results'[n] = new
  <2> HIDE DEF new
  <2> QED
    BY <1>1
<1>3. EventsOf(events', n) = E
  BY <1>1, EventsOfMore
<1> QED
  BY <1>1, <1>2, <1>3 DEF CurrentResult

LEMMA CurrentRefreshResult ==
  ASSUME RefreshFollows, CommitRefresh, NEW n \in Entries,
         webhook.events = events, n \in webhook.entries
  PROVE  CurrentResult(n)
BY DEF CommitRefresh, RefreshFollows, CurrentResult

LEMMA CurrentWritesAreCurrent ==
  ASSUME IInv, RefreshFollows, DOMAIN results = Entries, [Next]_vars,
         NEW n \in Entries, CurrentWrite(n)
  PROVE  CurrentResult(n)
<1>0. n # Null
  BY DEF Entries
<1>1. ASSUME NEW s \in Setups, lifecycle[s] # Null, lifecycle'[s] = Null, events' # events,
             EntryOf(lifecycle[s].event) = n, lifecycle[s].migrations = migrations
      PROVE  CurrentResult(n)
  <2>1. PICK u \in Setups : CommitSetupEvent(u) \/ CommitEntryEvent(u)
    BY <1>1 DEF Next, vars, tables, BeginIngest, CommitDuplicate, BeginRefresh, CommitRefresh,
                RebuildResults
  <2>2. lifecycle' = [lifecycle EXCEPT ![u] = Null]
    BY <2>1 DEF CommitSetupEvent, CommitEntryEvent
  <2>3. u = s
    BY <1>1, <2>2 DEF IInv, TypeOK
  <2>4. CommitEntryEvent(s)
    BY <1>0, <1>1, <2>1, <2>3 DEF CommitSetupEvent
  <2> QED
    BY <1>1, <2>4, CurrentEventResult
<1>2. ASSUME webhook # Null, webhook' = Null, webhook.events = events, n \in webhook.entries
      PROVE  CurrentResult(n)
  <2>1. CommitRefresh
    BY <1>2 DEF Next, vars, tables, BeginIngest, CommitDuplicate, CommitSetupEvent,
                CommitEntryEvent, BeginRefresh, RebuildResults
  <2> QED
    BY <1>2, <2>1, CurrentRefreshResult
<1> QED
  BY <1>1, <1>2 DEF CurrentWrite

LEMMA ResultsOfEntries == Spec => [](DOMAIN results = Entries)
<1>1. Init => DOMAIN results = Entries
  BY DEF Init
<1>2. DOMAIN results = Entries /\ [Next]_vars => (DOMAIN results = Entries)'
  <2> SUFFICES ASSUME DOMAIN results = Entries, [Next]_vars PROVE DOMAIN results' = Entries
    OBVIOUS
  <2>1. ASSUME NEW s \in Setups, CommitEntryEvent(s) PROVE DOMAIN results' = Entries
    <3> DEFINE new == TradeResult(EventsOf(events, EntryOf(lifecycle[s].event)) \cup {lifecycle[s].event},
                                  attempts'[EntryOf(lifecycle[s].event)], lifecycle[s].migrations)
    <3>1. results' = [results EXCEPT ![EntryOf(lifecycle[s].event)] = new]
      BY <2>1 DEF CommitEntryEvent
    <3> HIDE DEF new
    <3> QED
      BY <3>1
  <2>2. CASE CommitRefresh \/ RebuildResults
    BY <2>2 DEF CommitRefresh, RebuildResults
  <2>3. \/ \E s \in Setups : CommitEntryEvent(s)
        \/ CommitRefresh \/ RebuildResults \/ results' = results
    BY DEF Next, vars, tables, BeginIngest, CommitDuplicate, CommitSetupEvent, BeginRefresh
  <2> QED
    BY <2>1, <2>2, <2>3
<1> QED
  BY <1>1, <1>2, PTL DEF Spec

\* NULL is not a row of tradedesk_trade_results.
NullIsNoResult ==
  \A E, attempt, times, confirmation, outcome :
    ResultRow(E, attempt, times, confirmation, outcome) # Null

(* _tradedesk_entry_status and _rebuild_tradedesk_trade_result: a write of *)
(* a trade result that was not overtaken leaves it telling the same story  *)
(* as the entry's row, whatever order the events came in.                  *)
THEOREM StoryTheorem ==
  ASSUME EntriesAreFrozen, InvalidatedIsNotConfirmed, NullIsNoResult
  PROVE  Spec => [][\A n \in Entries : CurrentWrite(n) => SameStory(n)']_vars
<1>1. ASSUME IInv, RefreshFollows, DOMAIN results = Entries, [Next]_vars,
             EntriesKnown', NEW n \in Entries, CurrentWrite(n)
      PROVE  SameStory(n)'
  <2> DEFINE E == EventsOf(events', n)
             r == results'[n]
             attempt == attempts'[n]
  <2>1. r = TradeResult(E, attempt, migrations')
    BY <1>1, CurrentWritesAreCurrent DEF CurrentResult
  <2>2. E \in Evidence /\ RowFollows(E, attempt) /\ \A e \in E : EntryOf(e) = n /\ n # Null
    BY <1>1 DEF EntriesKnown, EventsOf
  <2> HIDE DEF E, r, attempt
  <2>3. Frozen(E)
    BY <2>2, FrozenEvidence
  <2>4. CASE OfType(E, "ENTRY_CONFIRMED") = {}
    <3>1. r = Null
      BY <2>1, <2>4 DEF TradeResult
    <3> QED
      BY <2>4, <3>1 DEF SameStory, E, r
  <2>5. CASE OfType(E, "ENTRY_CONFIRMED") # {}
    <3>1. OfType(E, "ENTRY_INVALIDATED") = {}
      <4>1. PICK c : c \in OfType(E, "ENTRY_CONFIRMED")
        BY <2>5
      <4>2. c \in E /\ c \in Accepted /\ c.type \in ConfirmedTypes
        BY <2>2, <4>1 DEF OfType, ConfirmedTypes, Evidence
      <4>3. \A e \in E : e \in Accepted /\ e.type # "ENTRY_INVALIDATED"
        BY <2>2, <4>2 DEF InvalidatedIsNotConfirmed, Evidence
      <4> QED
        BY <4>3 DEF OfType
    <3>2. Confirmed(E) /\ RowFits(E, attempt) /\ FrozenFits(E, attempt)
      BY <2>2, <2>3, <2>5, <3>1 DEF Confirmed, RowFollows, OfType
    <3>3. Story(E, attempt, migrations', r)
      BY <2>1, <3>2, ResultTellsTheStory
    <3>4. r # Null
      BY <2>1, <2>5 DEF TradeResult, NullIsNoResult
    <3> QED
      BY <2>5, <3>3, <3>4 DEF SameStory, Story, E, r, attempt
  <2> QED
    BY <2>4, <2>5
<1>2. IInv /\ RefreshFollows /\ DOMAIN results = Entries /\ EntriesKnown' /\ [Next]_vars =>
        \A n \in Entries : CurrentWrite(n) => SameStory(n)'
  BY <1>1
<1>3. Spec => [](IInv /\ RefreshFollows /\ DOMAIN results = Entries) /\ []EntriesKnown
  BY Invariant, EntriesFollowThroughout, EntriesFollowNow, RefreshFollowsThroughout,
     ResultsOfEntries, PTL
<1> QED
  BY <1>2, <1>3, PTL DEF Spec
==============================================================================

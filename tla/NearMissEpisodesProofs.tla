------------------------ MODULE NearMissEpisodesProofs ------------------------
(***************************************************************************)
(* The episodes follow the list, for any number of symbols, routes and     *)
(* observations, any evaluators, and webhooks and promotions of all        *)
(* symbols at once.                                                        *)
(*                                                                         *)
(* A reconciliation writes what it derived from reads that promotions may  *)
(* have outdated.  ReconcilingInvariant says how far: its observations are *)
(* those it will commit over, and its active symbols lack only symbols     *)
(* that have been promoted since.                                          *)
(***************************************************************************)
EXTENDS NearMissEpisodes, TLAPS

Endings == {"OPEN", "SYMBOL_ACTIVATED", "NO_LONGER_CURRENT", "OPERATOR_PROMOTED"}
Key == [symbol : Symbol, route : Route, trigger : Observation, candidate : Candidate]
Episode == [key : Key, deliverable : BOOLEAN, canonical : Candidate, ended : Endings]

Population == [Symbol -> SUBSET Observation]

TxState ==
  {Idle} \cup
  [at : {"reconciling"}, new : Observation, rows : Population, active : SUBSET Symbol] \cup
  [at : {"promoting"}, candidate : Candidate, closes : SUBSET Key]

TypeOK ==
  /\ rows \in Population
  /\ promoted \subseteq Symbol /\ active \subseteq Symbol
  /\ episodes \subseteq Episode
  /\ tx \in [Symbol -> TxState]

ReconcilingInvariant ==
  \A s \in Symbol : tx[s].at = "reconciling" =>
    /\ tx[s].new \notin rows[s]
    /\ tx[s].rows = [rows EXCEPT ![s] = @ \cup {tx[s].new}]
    /\ \A u \in Symbol \ {s} : /\ u \in tx[s].active => u \in active
                               /\ u \in active => u \in tx[s].active \cup promoted
    /\ s \in promoted => s \in tx[s].active
    /\ \A u \in Symbol : tx[u].at = "reconciling" => u = s

PromotionInvariant ==
  /\ promoted \subseteq active
  /\ \A s \in Symbol : tx[s].at = "promoting" => \A k \in tx[s].closes : k.symbol = s

\* The trigger of an episode has been committed.
TriggersAreStored == \A e \in episodes : e.key.trigger \in rows[e.key.symbol]

IInv == /\ TypeOK
        /\ ReconcilingInvariant
        /\ PromotionInvariant
        /\ TriggersAreStored
        /\ OpenEpisodesAreListed
------------------------------------------------------------------------------
(* A history's candidates: at most one, of rows that are there.            *)
LEMMA ListedIsOne ==
  ASSUME NEW population \in Population, NEW skip, NEW h \in History
  PROVE  LET L == Listed(population, skip, h)
         IN  /\ L \subseteq Candidate
             /\ \A c \in L : c.newest \in population[h[1]] /\ c.newest \in Observation
             /\ L # {} => The(L) \in L /\ L = {The(L)}
             /\ h[1] \in skip => L = {}
<1> DEFINE L == Listed(population, skip, h)
           S == population[h[1]]
<1>1. S \in SUBSET Observation
  BY DEF History, Population
<1>2. /\ NearMissesOf[S] \subseteq Candidate
      /\ \A c, d \in NearMissesOf[S] : c.newest \in S /\ (c.route = d.route => c = d)
  BY <1>1, EvaluatorAssumption
<1>3. L \subseteq NearMissesOf[S] /\ (\A c \in L : c.route = h[2]) /\ (h[1] \in skip => L = {})
  BY DEF Listed
<1> HIDE DEF L, S
<1>4. L # {} => The(L) \in L
  BY DEF The
<1>5. \A c, d \in L : c = d
  BY <1>2, <1>3
<1> QED
  BY <1>1, <1>2, <1>3, <1>4, <1>5 DEF L, S

(* The list of a history depends on its own symbol only.                   *)
LEMMA ListedIsLocal ==
  ASSUME NEW p, NEW q, NEW skip, NEW other, NEW h,
         p[h[1]] = q[h[1]], h[1] \in skip <=> h[1] \in other
  PROVE  Listed(p, skip, h) = Listed(q, other, h)
BY DEF Listed

LEMMA EpisodeHistory ==
  ASSUME NEW e \in Episode
  PROVE  /\ HistoryOf(e) \in History
         /\ HistoryOf(e)[1] = e.key.symbol
         /\ HistoryOf(e)[2] = e.key.route
BY DEF Episode, Key, HistoryOf, History
------------------------------------------------------------------------------
LEMMA InitHolds == Init => IInv
<1> SUFFICES ASSUME Init PROVE IInv
  OBVIOUS
<1>1. TypeOK
  <2>1. \A s \in Symbol : Arrivals[s] \subseteq Observation
    BY EvaluatorAssumption
  <2> QED
    BY <2>1 DEF Init, TypeOK, Population, TxState
<1>2. ReconcilingInvariant /\ PromotionInvariant /\ TriggersAreStored /\ OpenEpisodesAreListed
  BY DEF Init, ReconcilingInvariant, PromotionInvariant, TriggersAreStored,
     OpenEpisodesAreListed, Open, Idle
<1> QED
  BY <1>1, <1>2 DEF IInv

LEMMA TxTyped ==
  ASSUME TypeOK, NEW s \in Symbol
  PROVE  /\ tx[s].at = "reconciling" =>
              /\ tx[s].new \in Observation /\ tx[s].rows \in Population
              /\ tx[s].active \in SUBSET Symbol
         /\ tx[s].at = "promoting" => tx[s].candidate \in Candidate
BY DEF TypeOK, TxState, Idle

LEMMA BeginIngestKeeps ==
  ASSUME IInv, NEW s \in Symbol, NEW o \in Observation, BeginIngest(s, o)
  PROVE  IInv'
<1> DEFINE population == [rows EXCEPT ![s] = @ \cup {o}]
           authorities == IF s \in promoted \/ AuthorityOf[population[s]]
                          THEN active \cup {s} ELSE active \ {s}
           begun == [at |-> "reconciling", new |-> o, rows |-> population,
                     active |-> authorities]
<1>1. /\ TypeOK /\ ReconcilingInvariant /\ PromotionInvariant
      /\ \A u \in Symbol : tx[u].at # "reconciling"
      /\ o \notin rows[s]
      /\ tx' = [tx EXCEPT ![s] = begun]
      /\ UNCHANGED <<rows, promoted, active, episodes>>
  BY DEF IInv, BeginIngest
<1>2. population \in Population /\ authorities \in SUBSET Symbol
  BY <1>1 DEF TypeOK, Population
<1>3. /\ \A u \in Symbol \ {s} : u \in authorities <=> u \in active
      /\ s \in promoted => s \in authorities
  OBVIOUS
<1> HIDE DEF authorities
<1>4. begun \in TxState
  BY <1>2 DEF TxState
<1>5. /\ begun.at = "reconciling" /\ begun.new = o /\ begun.rows = population
      /\ begun.active = authorities
  OBVIOUS
<1> HIDE DEF begun
<1>6. \A u \in Symbol : tx'[u] = IF u = s THEN begun ELSE tx[u]
  BY <1>1 DEF TypeOK
<1>7. TypeOK'
  BY <1>1, <1>4 DEF TypeOK
<1>8. ReconcilingInvariant'
  <2> SUFFICES ASSUME NEW v \in Symbol, tx'[v].at = "reconciling"
               PROVE  /\ begun.new \notin rows[s]
                      /\ begun.rows = [rows EXCEPT ![s] = @ \cup {begun.new}]
                      /\ \A u \in Symbol \ {s} :
                           /\ u \in begun.active => u \in active
                           /\ u \in active => u \in begun.active \cup promoted
                      /\ s \in promoted => s \in begun.active
                      /\ v = s
                      /\ \A u \in Symbol : tx'[u].at = "reconciling" => u = s
    BY <1>1, <1>6 DEF ReconcilingInvariant
  <2>1. v = s /\ \A u \in Symbol : tx'[u].at = "reconciling" => u = s
    BY <1>1, <1>6
  <2> QED
    BY <1>1, <1>3, <1>5, <2>1
<1>9. PromotionInvariant'
  BY <1>1, <1>5, <1>6 DEF PromotionInvariant
<1> QED
  BY <1>1, <1>7, <1>8, <1>9 DEF IInv, TriggersAreStored, OpenEpisodesAreListed,
     ListedNow, Listed, Open, HistoryOf

LEMMA BeginPromoteKeeps ==
  ASSUME IInv, NEW s \in Symbol, NEW c \in NearMissesOf[rows[s]], BeginPromote(s, c)
  PROVE  IInv'
<1> DEFINE mine == {e.key : e \in {d \in Open(episodes) : d.key.symbol = s}}
           begun == [at |-> "promoting", candidate |-> c, closes |-> mine]
<1>1. /\ TypeOK /\ ReconcilingInvariant /\ PromotionInvariant
      /\ tx' = [tx EXCEPT ![s] = begun] /\ tx[s] = Idle
      /\ UNCHANGED <<rows, promoted, active, episodes>>
  BY DEF IInv, BeginPromote
<1>2. c \in Candidate
  <2>1. rows[s] \in SUBSET Observation
    BY <1>1 DEF TypeOK, Population
  <2> QED
    BY <2>1, EvaluatorAssumption
<1>3. mine \in SUBSET Key /\ \A k \in mine : k.symbol = s
  BY <1>1 DEF TypeOK, Open, Episode
<1> HIDE DEF mine
<1>4. begun \in TxState /\ begun.at = "promoting" /\ begun.closes = mine
  BY <1>2, <1>3 DEF TxState
<1> HIDE DEF begun
<1>5. \A u \in Symbol : tx'[u] = IF u = s THEN begun ELSE tx[u]
  BY <1>1 DEF TypeOK
<1>6. TypeOK'
  BY <1>1, <1>4 DEF TypeOK
<1>7. ReconcilingInvariant'
  <2>1. \A u \in Symbol : tx'[u].at = "reconciling" => u # s /\ tx'[u] = tx[u]
    BY <1>4, <1>5
  <2> QED
    BY <1>1, <2>1 DEF ReconcilingInvariant
<1>8. PromotionInvariant'
  BY <1>1, <1>3, <1>4, <1>5 DEF PromotionInvariant
<1> QED
  BY <1>1, <1>6, <1>7, <1>8 DEF IInv, TriggersAreStored, OpenEpisodesAreListed,
     ListedNow, Listed, Open, HistoryOf

(* A promotion takes its symbol off the list and leaves the others.        *)
LEMMA CommitPromoteKeeps ==
  ASSUME IInv, NEW s \in Symbol, CommitPromote(s)
  PROVE  IInv'
<1> DEFINE closed(e) == [e EXCEPT !.canonical = tx[s].candidate, !.ended = "OPERATOR_PROMOTED"]
<1>1. /\ TypeOK /\ ReconcilingInvariant /\ PromotionInvariant
      /\ TriggersAreStored /\ OpenEpisodesAreListed
      /\ tx[s].at = "promoting"
      /\ promoted' = promoted \cup {s} /\ active' = active \cup {s}
      /\ tx' = [tx EXCEPT ![s] = Idle] /\ UNCHANGED rows
      /\ episodes' = {IF e.key \in tx[s].closes THEN closed(e) ELSE e : e \in episodes}
  BY DEF IInv, CommitPromote
<1>2. tx[s].candidate \in Candidate
  BY <1>1, TxTyped
<1>3. ASSUME NEW e \in episodes
      PROVE  closed(e) \in Episode /\ closed(e).key = e.key /\ closed(e).ended # "OPEN"
  BY <1>1, <1>2, <1>3 DEF TypeOK, Episode, Endings
<1>4. \A u \in Symbol : tx'[u] = IF u = s THEN Idle ELSE tx[u]
  BY <1>1 DEF TypeOK
<1> HIDE DEF closed
<1>5. ASSUME NEW f \in episodes'
      PROVE  /\ f \in Episode
             /\ \E e \in episodes : f.key = e.key
             /\ f.ended = "OPEN" => f \in episodes
  <2>1. PICK e \in episodes : f = IF e.key \in tx[s].closes THEN closed(e) ELSE e
    BY <1>1
  <2> QED
    BY <1>1, <1>3, <2>1 DEF TypeOK
<1>6. TypeOK'
  BY <1>1, <1>5 DEF TypeOK, TxState
<1>7. ReconcilingInvariant'
  BY <1>1, <1>4 DEF ReconcilingInvariant, Idle
<1>8. PromotionInvariant'
  BY <1>1, <1>4 DEF PromotionInvariant, Idle
<1>9. TriggersAreStored'
  BY <1>1, <1>5 DEF TriggersAreStored
<1>10. OpenEpisodesAreListed'
  <2> SUFFICES ASSUME NEW f \in episodes', f.ended = "OPEN", f.key.symbol \notin promoted'
               PROVE  Listed(rows', active', HistoryOf(f)) = {f.canonical}
    BY DEF OpenEpisodesAreListed, Open, ListedNow
  <2>1. f \in episodes /\ f \in Episode
    BY <1>5
  <2>2. Listed(rows, active, HistoryOf(f)) = {f.canonical} /\ f.key.symbol # s
    BY <1>1, <2>1 DEF OpenEpisodesAreListed, Open, ListedNow
  <2>3. Listed(rows', active', HistoryOf(f)) = Listed(rows, active, HistoryOf(f))
    BY <1>1, <2>1, <2>2, EpisodeHistory, ListedIsLocal
  <2> QED
    BY <2>2, <2>3
<1> QED
  BY <1>6, <1>7, <1>8, <1>9, <1>10 DEF IInv
------------------------------------------------------------------------------
(* What the reconciliation of a webhook takes as the list is the list that *)
(* it commits, but for symbols promoted meanwhile; and what it takes as    *)
(* the list before is the list it found.                                   *)
LEMMA ReconcilingSees ==
  ASSUME IInv, NEW s \in Symbol, CommitIngest(s), NEW h \in History
  PROVE  /\ h[1] \notin promoted =>
              CurrentOf(s, h) = Listed(rows', active', h)
         /\ Listed(rows', active', h) # {} => CurrentOf(s, h) = Listed(rows', active', h)
         /\ h[1] \notin active => PreviousOf(s, h) = Listed(rows, active, h)
         /\ CurrentOf(s, h) # {} /\ PreviousOf(s, h) = {} => h[1] = s
<1> DEFINE t == tx[s]
           before == [t.rows EXCEPT ![s] = @ \ {t.new}]
           skip == IF s \in active THEN t.active ELSE t.active \ {s}
<1>1. /\ TypeOK /\ ReconcilingInvariant /\ t.at = "reconciling"
      /\ rows' = [rows EXCEPT ![s] = @ \cup {t.new}]
      /\ active' = IF s \in t.active THEN active \cup {s} ELSE active \ {s}
      /\ UNCHANGED promoted
  BY DEF IInv, CommitIngest
<1>2. /\ t.new \notin rows[s]
      /\ t.rows = rows'
      /\ \A u \in Symbol \ {s} : /\ u \in t.active => u \in active
                                 /\ u \in active => u \in t.active \cup promoted
      /\ s \in promoted => s \in t.active
  BY <1>1 DEF ReconcilingInvariant
<1>3. h[1] \in Symbol
  BY DEF History
<1>4. rows \in Population /\ rows' \in Population
  <2>1. t.new \in Observation
    BY <1>1, TxTyped
  <2> QED
    BY <1>1, <2>1 DEF TypeOK, Population
<1>5. h[1] \in t.active => h[1] \in active'
  BY <1>1, <1>2, <1>3
<1>6. h[1] \in active' => h[1] \in t.active \cup promoted
  BY <1>1, <1>2, <1>3
<1>7. CurrentOf(s, h) = Listed(rows', t.active, h)
  BY <1>2 DEF CurrentOf
<1>8. PreviousOf(s, h) = Listed(before, skip, h)
  BY DEF PreviousOf
<1>9. before[h[1]] = rows[h[1]]
  BY <1>1, <1>2, <1>3, <1>4 DEF Population
<1>10. /\ h[1] # s => rows'[h[1]] = rows[h[1]] /\ (h[1] \in skip <=> h[1] \in t.active)
       /\ h[1] \notin active => h[1] \notin skip
  BY <1>1, <1>2, <1>3, <1>4 DEF Population
<1> HIDE DEF before, skip, t
<1>11. h[1] \notin promoted => CurrentOf(s, h) = Listed(rows', active', h)
  BY <1>5, <1>6, <1>7, ListedIsLocal
<1>12. ASSUME Listed(rows', active', h) # {}
       PROVE  CurrentOf(s, h) = Listed(rows', active', h)
  <2>1. h[1] \notin active'
    BY <1>12 DEF Listed
  <2>2. h[1] \notin t.active
    BY <1>5, <2>1
  <2> QED
    BY <1>7, <2>1, <2>2, ListedIsLocal
<1>13. ASSUME h[1] \notin active
       PROVE  PreviousOf(s, h) = Listed(rows, active, h)
  <2>1. h[1] \notin skip
    BY <1>10, <1>13
  <2> QED
    BY <1>8, <1>9, <1>13, <2>1, ListedIsLocal
<1>14. ASSUME h[1] # s
       PROVE  PreviousOf(s, h) = CurrentOf(s, h)
  <2>1. before[h[1]] = rows'[h[1]] /\ (h[1] \in skip <=> h[1] \in t.active)
    BY <1>9, <1>10, <1>14
  <2> QED
    BY <1>7, <1>8, <2>1, ListedIsLocal
<1> QED
  BY <1>11, <1>12, <1>13, <1>14

(* The two kinds of episodes that a reconciliation writes.                 *)
LEMMA ContinuedEpisode ==
  ASSUME IInv, NEW s \in Symbol, tx[s].at = "reconciling", NEW e \in episodes, e.ended = "OPEN"
  PROVE  LET f == Continued(s, e)
             current == CurrentOf(s, HistoryOf(e))
         IN  /\ f \in Episode /\ f.key = e.key
             /\ current # {} => f.ended = "OPEN" /\ current = {f.canonical}
             /\ current = {} => f.ended # "OPEN"
<1> DEFINE h == HistoryOf(e)
           current == CurrentOf(s, h)
           previous == PreviousOf(s, h)
           why == IF h[1] \in tx[s].active THEN "SYMBOL_ACTIVATED" ELSE "NO_LONGER_CURRENT"
           last == IF previous # {} THEN The(previous) ELSE e.canonical
<1>1. TypeOK /\ e \in Episode /\ h \in History
  BY EpisodeHistory DEF IInv, TypeOK
<1>2. tx[s].rows \in Population /\ [tx[s].rows EXCEPT ![s] = @ \ {tx[s].new}] \in Population
  BY <1>1, TxTyped DEF Population
<1>3. /\ current # {} => The(current) \in Candidate /\ current = {The(current)}
      /\ previous # {} => The(previous) \in Candidate
  BY <1>1, <1>2, ListedIsOne DEF CurrentOf, PreviousOf
<1>4. Continued(s, e) = IF current # {} THEN [e EXCEPT !.canonical = The(current)]
                        ELSE [e EXCEPT !.ended = why, !.canonical = last]
  BY DEF Continued
<1>5. last \in Candidate
  BY <1>1, <1>3 DEF Episode
<1> HIDE DEF h, current, previous, last
<1>6. CASE current # {}
  BY <1>1, <1>3, <1>4, <1>6 DEF Episode, h, current
<1>7. CASE current = {}
  BY <1>1, <1>4, <1>5, <1>7 DEF Episode, Endings, h, current
<1> QED
  BY <1>6, <1>7

LEMMA OpenedEpisode ==
  ASSUME IInv, NEW s \in Symbol, CommitIngest(s), NEW h \in History, CurrentOf(s, h) # {}
  PROVE  LET f == Opened(s, h)
             source == The(PreviousOf(s, h))
         IN  /\ f \in Episode /\ f.ended = "OPEN"
             /\ f.key.symbol = h[1] /\ f.key.route = h[2]
             /\ CurrentOf(s, h) = {f.canonical}
             /\ f.deliverable <=> PreviousOf(s, h) = {}
             /\ f.deliverable => h[1] = s /\ f.key.trigger = tx[s].new
             /\ f.key.trigger \in rows'[h[1]]
<1> DEFINE current == CurrentOf(s, h)
           previous == PreviousOf(s, h)
           before == [tx[s].rows EXCEPT ![s] = @ \ {tx[s].new}]
           candidate == The(current)
           source == IF previous # {} THEN The(previous) ELSE candidate
           trigger == IF previous = {} THEN tx[s].new ELSE source.newest
           key == [symbol |-> h[1], route |-> h[2], trigger |-> trigger, candidate |-> source]
<1>1. /\ TypeOK /\ tx[s].at = "reconciling"
      /\ rows' = [rows EXCEPT ![s] = @ \cup {tx[s].new}]
      /\ tx[s].rows = rows' /\ tx[s].new \notin rows[s]
  BY DEF IInv, CommitIngest, ReconcilingInvariant
<1>2. /\ tx[s].new \in Observation /\ rows' \in Population /\ before \in Population
      /\ before[h[1]] \subseteq rows'[h[1]]
  <2>1. tx[s].new \in Observation /\ rows' \in Population
    BY <1>1, TxTyped
  <2>2. before \in Population /\ h[1] \in Symbol
    BY <1>1, <2>1 DEF Population, History
  <2>3. \A u \in Symbol : before[u] \subseteq rows'[u]
    BY <1>1, <2>1 DEF Population
  <2> QED
    BY <2>1, <2>2, <2>3
<1>3. /\ candidate \in Candidate /\ current = {candidate}
      /\ previous # {} => /\ The(previous) \in Candidate
                          /\ The(previous).newest \in before[h[1]]
                          /\ The(previous).newest \in Observation
  <2>1. current # {}
    OBVIOUS
  <2>2. /\ candidate \in current /\ current = {candidate} /\ current \subseteq Candidate
    <3>1. current = Listed(rows', tx[s].active, h)
      BY <1>1 DEF CurrentOf
    <3> HIDE DEF current
    <3> QED
      BY <1>2, <2>1, <3>1, ListedIsOne
  <2>3. PICK skip : previous = Listed(before, skip, h)
    <3> DEFINE without == IF s \in active THEN tx[s].active ELSE tx[s].active \ {s}
    <3>1. previous = Listed(before, without, h)
      BY DEF PreviousOf
    <3> QED
      BY <3>1
  <2>4. previous # {} => /\ The(previous) \in previous /\ previous \subseteq Candidate
                         /\ \A c \in previous : c.newest \in before[h[1]] /\ c.newest \in Observation
    <3> HIDE DEF previous, before
    <3> QED
      BY <1>2, <2>3, ListedIsOne
  <2> HIDE DEF current, previous, before
  <2> QED
    BY <2>2, <2>4
<1>4. previous = {} => h[1] = s
  BY ReconcilingSees
<1>5. source \in Candidate /\ trigger \in Observation /\ trigger \in rows'[h[1]]
  <2>1. tx[s].new \in rows'[s]
    BY <1>1 DEF TypeOK, Population
  <2> QED
    BY <1>2, <1>3, <1>4, <2>1
<1>6. h[1] \in Symbol /\ h[2] \in Route
  BY DEF History
<1>7. Opened(s, h) = [key |-> key, deliverable |-> previous = {}, canonical |-> candidate,
                      ended |-> "OPEN"]
  BY DEF Opened
<1> HIDE DEF current, previous, before, candidate, source
<1>8. key \in Key /\ key.symbol = h[1] /\ key.route = h[2] /\ key.trigger = trigger
  BY <1>5, <1>6 DEF Key
<1>9. previous = {} => trigger = tx[s].new
  OBVIOUS
<1> HIDE DEF key, trigger
<1>10. Opened(s, h) \in Episode
  BY <1>3, <1>7, <1>8 DEF Episode, Endings
<1>11. /\ Opened(s, h).ended = "OPEN" /\ Opened(s, h).key = key
       /\ Opened(s, h).canonical = candidate
  BY <1>7
<1>12. Opened(s, h).deliverable <=> previous = {}
  <2> DEFINE unlisted == previous = {}
  <2>1. Opened(s, h) = [key |-> key, deliverable |-> unlisted, canonical |-> candidate,
                        ended |-> "OPEN"]
    BY <1>7
  <2>2. unlisted <=> previous = {}
    OBVIOUS
  <2> HIDE DEF unlisted
  <2>3. Opened(s, h).deliverable = unlisted
    BY <2>1
  <2> QED
    BY <2>2, <2>3
<1>13. current = {Opened(s, h).canonical}
  BY <1>3, <1>11
<1>14. /\ Opened(s, h).key.symbol = h[1] /\ Opened(s, h).key.route = h[2]
       /\ Opened(s, h).key.trigger \in rows'[h[1]]
  BY <1>5, <1>8, <1>11
<1>15. Opened(s, h).deliverable => h[1] = s /\ Opened(s, h).key.trigger = tx[s].new
  BY <1>4, <1>8, <1>9, <1>11, <1>12
<1> QED
  BY <1>10, <1>11, <1>12, <1>13, <1>14, <1>15 DEF current, previous

\* What a reconciliation may write: an episode it leaves, continues or opens.
LEMMA ReconciledEpisode ==
  ASSUME NEW s \in Symbol, CommitIngest(s), NEW f \in episodes'
  PROVE  \/ f \in episodes /\ f.ended # "OPEN"
         \/ \E e \in episodes : e.ended = "OPEN" /\ f = Continued(s, e)
         \/ \E h \in History : /\ CurrentOf(s, h) # {} /\ OpenOf(episodes, h) = {}
                               /\ f = Opened(s, h)
                               /\ \A e \in episodes : e.key # f.key
BY DEF CommitIngest, Reconciled

LEMMA CommitIngestKeeps ==
  ASSUME IInv, NEW s \in Symbol, CommitIngest(s)
  PROVE  IInv'
<1>1. /\ TypeOK /\ ReconcilingInvariant /\ PromotionInvariant
      /\ TriggersAreStored /\ OpenEpisodesAreListed
      /\ tx[s].at = "reconciling"
      /\ rows' = [rows EXCEPT ![s] = @ \cup {tx[s].new}]
      /\ active' = IF s \in tx[s].active THEN active \cup {s} ELSE active \ {s}
      /\ tx' = [tx EXCEPT ![s] = Idle]
      /\ UNCHANGED promoted
  BY DEF IInv, CommitIngest
<1>2. /\ tx[s].new \in Observation
      /\ rows' \in Population
      /\ \A u \in Symbol : rows[u] \subseteq rows'[u]
      /\ \A u \in Symbol : tx'[u] = IF u = s THEN Idle ELSE tx[u]
      /\ s \in promoted => s \in tx[s].active
      /\ \A u \in Symbol : tx[u].at = "reconciling" => u = s
  <2>1. tx[s].new \in Observation /\ rows \in Population
    BY <1>1, TxTyped DEF TypeOK
  <2>2. rows' \in Population /\ \A u \in Symbol : rows[u] \subseteq rows'[u]
    BY <1>1, <2>1 DEF Population
  <2>3. \A u \in Symbol : tx'[u] = IF u = s THEN Idle ELSE tx[u]
    BY <1>1 DEF TypeOK
  <2> QED
    BY <1>1, <2>1, <2>2, <2>3 DEF ReconcilingInvariant
<1>3. ASSUME NEW f \in episodes'
      PROVE  /\ f \in Episode
             /\ f.key.trigger \in rows'[f.key.symbol]
             /\ f.ended = "OPEN" => CurrentOf(s, HistoryOf(f)) = {f.canonical}
  <2>1. CASE f \in episodes /\ f.ended # "OPEN"
    <3>1. f \in Episode /\ f.key.symbol \in Symbol
      BY <1>1, <2>1 DEF TypeOK, Episode, Key
    <3> QED
      BY <1>1, <1>2, <2>1, <3>1 DEF TriggersAreStored
  <2>2. ASSUME NEW e \in episodes, e.ended = "OPEN", f = Continued(s, e)
        PROVE  /\ f \in Episode
               /\ f.key.trigger \in rows'[f.key.symbol]
               /\ f.ended = "OPEN" => CurrentOf(s, HistoryOf(f)) = {f.canonical}
    <3>1. /\ f \in Episode /\ f.key = e.key
          /\ f.ended = "OPEN" => CurrentOf(s, HistoryOf(e)) = {f.canonical}
      BY <1>1, <2>2, ContinuedEpisode
    <3>2. e.key.symbol \in Symbol
      BY <1>1 DEF TypeOK, Episode, Key
    <3> QED
      BY <1>1, <1>2, <3>1, <3>2 DEF TriggersAreStored, HistoryOf
  <2>3. ASSUME NEW h \in History, CurrentOf(s, h) # {}, f = Opened(s, h)
        PROVE  /\ f \in Episode
               /\ f.key.trigger \in rows'[f.key.symbol]
               /\ f.ended = "OPEN" => CurrentOf(s, HistoryOf(f)) = {f.canonical}
    <3>1. /\ f \in Episode /\ f.key.symbol = h[1] /\ f.key.route = h[2]
          /\ CurrentOf(s, h) = {f.canonical} /\ f.key.trigger \in rows'[h[1]]
      BY <2>3, OpenedEpisode
    <3>2. HistoryOf(f) = h
      BY <3>1 DEF HistoryOf, History
    <3> QED
      BY <3>1, <3>2
  <2> QED
    BY <2>1, <2>2, <2>3, ReconciledEpisode
<1>4. TypeOK'
  BY <1>1, <1>2, <1>3 DEF TypeOK, TxState
<1>5. ReconcilingInvariant'
  BY <1>2 DEF ReconcilingInvariant, Idle
<1>6. PromotionInvariant'
  BY <1>1, <1>2 DEF PromotionInvariant, Idle
<1>7. TriggersAreStored'
  BY <1>3 DEF TriggersAreStored
<1>8. OpenEpisodesAreListed'
  <2> SUFFICES ASSUME NEW f \in episodes', f.ended = "OPEN", f.key.symbol \notin promoted
               PROVE  Listed(rows', active', HistoryOf(f)) = {f.canonical}
    BY <1>1 DEF OpenEpisodesAreListed, Open, ListedNow
  <2>1. HistoryOf(f) \in History /\ HistoryOf(f)[1] \notin promoted
    BY <1>3, EpisodeHistory
  <2> QED
    BY <1>3, <2>1, ReconcilingSees
<1> QED
  BY <1>4, <1>5, <1>6, <1>7, <1>8 DEF IInv

LEMMA NextHolds == IInv /\ [Next]_vars => IInv'
<1> SUFFICES ASSUME IInv, [Next]_vars PROVE IInv'
  OBVIOUS
<1>1. CASE UNCHANGED vars
  BY <1>1 DEF IInv, vars, TypeOK, ReconcilingInvariant, PromotionInvariant,
     TriggersAreStored, OpenEpisodesAreListed, ListedNow, Listed, Open, HistoryOf
<1>2. ASSUME NEW s \in Symbol, NEW o \in Observation, BeginIngest(s, o) PROVE IInv'
  BY <1>2, BeginIngestKeeps
<1>3. ASSUME NEW s \in Symbol, CommitIngest(s) PROVE IInv'
  BY <1>3, CommitIngestKeeps
<1>4. ASSUME NEW s \in Symbol, NEW c \in NearMissesOf[rows[s]], BeginPromote(s, c) PROVE IInv'
  BY <1>4, BeginPromoteKeeps
<1>5. ASSUME NEW s \in Symbol, CommitPromote(s) PROVE IInv'
  BY <1>5, CommitPromoteKeeps
<1> QED
  BY <1>1, <1>2, <1>3, <1>4, <1>5 DEF Next

LEMMA Invariance == Spec => []IInv
BY InitHolds, NextHolds, PTL DEF Spec

(* Type correctness of the tables and transactions.                        *)
THEOREM TypeCorrect == Spec => []TypeOK
<1>1. IInv => TypeOK
  BY DEF IInv
<1> QED
  BY <1>1, Invariance, PTL

(* OpenEpisodesAreListed: whichever webhooks and promotions run, an open   *)
(* episode of a symbol that is not promoted is on the list, with the       *)
(* candidate that is listed.                                               *)
THEOREM ListedTheorem == Spec => []OpenEpisodesAreListed
<1>1. IInv => OpenEpisodesAreListed
  BY DEF IInv
<1> QED
  BY <1>1, Invariance, PTL
------------------------------------------------------------------------------
\* The steps in which something is committed.
LEMMA OnlyCommits ==
  ASSUME [Next]_vars
  PROVE  \/ UNCHANGED <<rows, active, episodes>>
         \/ \E s \in Symbol : CommitIngest(s) \/ CommitPromote(s)
BY DEF Next, vars, BeginIngest, BeginPromote

LEMMA PromoteStep ==
  ASSUME IInv, NEW s \in Symbol, CommitPromote(s)
  PROVE  /\ \A f \in episodes' : \E e \in episodes : f.key = e.key
         /\ \A h \in History : Listed(rows', active', h) =
                               IF h[1] = s THEN {} ELSE Listed(rows, active, h)
         /\ \A e \in episodes : e.key.symbol # s => e \in episodes'
<1> DEFINE closed(e) == [e EXCEPT !.canonical = tx[s].candidate, !.ended = "OPERATOR_PROMOTED"]
<1>1. /\ TypeOK /\ PromotionInvariant /\ tx[s].at = "promoting"
      /\ active' = active \cup {s} /\ rows' = rows
      /\ episodes' = {IF e.key \in tx[s].closes THEN closed(e) ELSE e : e \in episodes}
  BY DEF IInv, CommitPromote
<1>2. \A e \in episodes : closed(e).key = e.key
  BY <1>1 DEF TypeOK, Episode
<1> HIDE DEF closed
<1>3. \A f \in episodes' : \E e \in episodes : f.key = e.key
  BY <1>1, <1>2
<1>4. ASSUME NEW h \in History
      PROVE  Listed(rows', active', h) = IF h[1] = s THEN {} ELSE Listed(rows, active, h)
  BY <1>1 DEF Listed
<1>5. \A e \in episodes : e.key.symbol # s => e \in episodes'
  BY <1>1 DEF PromotionInvariant
<1> QED
  BY <1>3, <1>4, <1>5

(* MembershipIsOneEpisode: an episode whose history stays on the list      *)
(* stays open under its key, whoever reconciles it.                        *)
THEOREM MembershipTheorem == Spec => MembershipIsOneEpisode
<1> DEFINE Kept == \A e \in Open(episodes) :
             ListedNow(HistoryOf(e))' # {} => \E f \in Open(episodes') : f.key = e.key
<1>1. IInv /\ [Next]_vars => Kept
  <2> SUFFICES ASSUME IInv, [Next]_vars, NEW e \in episodes, e.ended = "OPEN",
                      Listed(rows', active', HistoryOf(e)) # {}
               PROVE  \E f \in episodes' : f.ended = "OPEN" /\ f.key = e.key
    BY DEF Open, ListedNow, HistoryOf
  <2>1. /\ e \in Episode /\ HistoryOf(e) \in History
        /\ HistoryOf(e)[1] = e.key.symbol
    BY EpisodeHistory DEF IInv, TypeOK
  <2>2. CASE UNCHANGED <<rows, active, episodes>>
    BY <2>2
  <2>3. ASSUME NEW s \in Symbol, CommitIngest(s)
        PROVE  \E f \in episodes' : f.ended = "OPEN" /\ f.key = e.key
    <3>1. CurrentOf(s, HistoryOf(e)) # {} /\ tx[s].at = "reconciling"
      BY <2>1, <2>3, ReconcilingSees DEF CommitIngest
    <3>2. Continued(s, e).ended = "OPEN" /\ Continued(s, e).key = e.key
      BY <3>1, ContinuedEpisode
    <3>3. Continued(s, e) \in episodes'
      BY <2>3 DEF CommitIngest, Reconciled
    <3> QED
      BY <3>2, <3>3
  <2>4. ASSUME NEW s \in Symbol, CommitPromote(s)
        PROVE  \E f \in episodes' : f.ended = "OPEN" /\ f.key = e.key
    <3>1. e.key.symbol # s
      BY <2>1, <2>4, PromoteStep
    <3> QED
      BY <2>4, <3>1, PromoteStep
  <2> QED
    BY <2>2, <2>3, <2>4, OnlyCommits
<1> QED
  BY <1>1, Invariance, PTL DEF Spec, MembershipIsOneEpisode

\* The announced episodes of a history that a step adds.
Announced(h) == {e \in episodes' \ episodes : /\ HistoryOf(e) = h /\ e.deliverable
                                              /\ \A f \in episodes : f.key # e.key}

(* What a webhook announces is what it opens on a history that was not     *)
(* listed.                                                                 *)
LEMMA AnnouncedIsOpened ==
  ASSUME IInv, NEW s \in Symbol, CommitIngest(s), NEW h \in History, NEW e \in Announced(h)
  PROVE  e = Opened(s, h) /\ CurrentOf(s, h) # {} /\ PreviousOf(s, h) = {}
<1>1. /\ e \in episodes' /\ e \notin episodes /\ HistoryOf(e) = h /\ e.deliverable
      /\ \A f \in episodes : f.key # e.key
  BY DEF Announced
<1>2. \A f \in episodes : f.ended = "OPEN" => Continued(s, f).key = f.key
  BY ContinuedEpisode DEF CommitIngest
<1>3. PICK g \in History : CurrentOf(s, g) # {} /\ e = Opened(s, g)
  BY <1>1, <1>2, ReconciledEpisode
<1>4. /\ e.key.symbol = g[1] /\ e.key.route = g[2]
      /\ e.deliverable <=> PreviousOf(s, g) = {}
  BY <1>3, OpenedEpisode
<1>5. g = h
  BY <1>1, <1>4 DEF HistoryOf, History
<1> QED
  BY <1>1, <1>3, <1>4, <1>5

(* EntriesAreAnnounced: a history that enters the list is announced by one *)
(* open episode, and one that was listed is not.                           *)
THEOREM EntriesTheorem == Spec => EntriesAreAnnounced
<1> DEFINE Entered(h) == ListedNow(h) = {} /\ ListedNow(h)' # {} /\ h[1] \notin active
           Kept == \A h \in History :
             LET announced == {e \in episodes' \ episodes : /\ HistoryOf(e) = h /\ e.deliverable
                                                           /\ \A f \in episodes : f.key # e.key}
             IN  IF ListedNow(h) = {} /\ ListedNow(h)' # {} /\ h[1] \notin active
                 THEN \E e \in announced : announced = {e} /\ e.ended = "OPEN"
                 ELSE ListedNow(h) # {} => announced = {}
<1>1. IInv /\ [Next]_vars => Kept
  <2> SUFFICES ASSUME IInv, [Next]_vars, NEW h \in History
               PROVE  IF Entered(h)
                      THEN \E e \in Announced(h) : Announced(h) = {e} /\ e.ended = "OPEN"
                      ELSE ListedNow(h) # {} => Announced(h) = {}
    BY DEF Announced
  <2>1. CASE UNCHANGED <<rows, active, episodes>>
    BY <2>1 DEF Announced, ListedNow, Listed
  <2>2. ASSUME NEW s \in Symbol, CommitPromote(s)
        PROVE  ~Entered(h) /\ Announced(h) = {}
    BY <2>2, PromoteStep DEF Announced, ListedNow
  <2>3. ASSUME NEW s \in Symbol, CommitIngest(s), ListedNow(h) # {}
        PROVE  Announced(h) = {}
    <3>1. h[1] \notin active
      BY <2>3 DEF ListedNow, Listed
    <3>2. PreviousOf(s, h) # {}
      BY <2>3, <3>1, ReconcilingSees DEF ListedNow
    <3> QED
      BY <2>3, <3>2, AnnouncedIsOpened
  <2>4. ASSUME NEW s \in Symbol, CommitIngest(s), Entered(h)
        PROVE  \E e \in Announced(h) : Announced(h) = {e} /\ e.ended = "OPEN"
    <3> DEFINE e == Opened(s, h)
    <3>1. CurrentOf(s, h) # {} /\ PreviousOf(s, h) = {}
      BY <2>4, ReconcilingSees DEF ListedNow
    <3>2. /\ e.ended = "OPEN" /\ e.deliverable
          /\ e.key.symbol = h[1] /\ e.key.route = h[2]
          /\ h[1] = s /\ e.key.trigger = tx[s].new
      BY <2>4, <3>1, OpenedEpisode
    <3>3. HistoryOf(e) = h
      BY <3>2 DEF HistoryOf, History
    <3>4. tx[s].new \notin rows[s]
      BY <2>4 DEF IInv, ReconcilingInvariant, CommitIngest
    <3> HIDE DEF e
    <3>5. \A f \in episodes : f.key # e.key
      BY <3>2, <3>4 DEF IInv, TriggersAreStored
    <3>6. OpenOf(episodes, h) = {}
      <4> SUFFICES ASSUME NEW f \in episodes, f.ended = "OPEN", HistoryOf(f) = h PROVE FALSE
        BY DEF OpenOf, Open
      <4>1. h[1] = f.key.symbol
        BY EpisodeHistory DEF IInv, TypeOK
      <4>2. f.key.symbol \notin promoted
        BY <2>4, <4>1 DEF IInv, PromotionInvariant
      <4>3. ListedNow(h) = {f.canonical}
        BY <4>2 DEF IInv, OpenEpisodesAreListed, Open
      <4> QED
        BY <2>4, <4>3
    <3>7. e \in episodes'
      BY <2>4, <3>1, <3>5, <3>6 DEF CommitIngest, Reconciled, e
    <3>8. e \in Announced(h)
      BY <3>2, <3>3, <3>5, <3>7 DEF Announced
    <3>9. \A f \in Announced(h) : f = e
      BY <2>4, AnnouncedIsOpened DEF e
    <3> QED
      BY <3>2, <3>8, <3>9
  <2> QED
    BY <2>1, <2>2, <2>3, <2>4, OnlyCommits
<1> QED
  BY <1>1, Invariance, PTL DEF Spec, EntriesAreAnnounced
==============================================================================

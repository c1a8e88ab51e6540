--------------------------- MODULE NearMissEpisodes ---------------------------
(***************************************************************************)
(* The episodes of the list of current production near misses              *)
(* (app/repository.py, _sync_near_miss_episodes).  Every accepted webhook, *)
(* of whatever symbol, reconciles the episodes of all symbols with the     *)
(* list, under a lock of their own; a promotion closes the episodes of its *)
(* symbol under that symbol's lock alone.                                  *)
(*                                                                         *)
(* Transactions run under READ COMMITTED, each statement sees what is      *)
(* committed when it starts.  An ingest is two steps: it takes both locks  *)
(* and reads the observations and the active symbols; it reads the open    *)
(* episodes, writes and commits.  A promotion is two steps: it updates its *)
(* rows, and commits.  Only promotions commit between the two reads.       *)
(***************************************************************************)
EXTENDS Integers, FiniteSets

CONSTANTS Symbol,
          Route,
          Observation,
          Arrivals,      \* the observations each symbol may receive
          Activates(_),  \* whether the replay of a set of rows has an authority
          NearMisses(_)  \* the near misses of a set of rows: one per route

\* A candidate with the evidence that identifies it, as in NearMiss.
Candidate == [route : Route, evidence : SUBSET Observation, newest : Observation,
              lower : Int, upper : Int]

\* The evaluators as tables.
AuthorityOf == [S \in SUBSET Observation |-> Activates(S)]
NearMissesOf == [S \in SUBSET Observation |-> NearMisses(S)]

ASSUME EvaluatorAssumption ==
  /\ Arrivals \in [Symbol -> SUBSET Observation]
  /\ AuthorityOf \in [SUBSET Observation -> BOOLEAN]
  /\ NearMissesOf \in [SUBSET Observation -> SUBSET Candidate]
  /\ \A S \in SUBSET Observation : \A c, d \in NearMissesOf[S] :
       c.newest \in S /\ (c.route = d.route => c = d)

VARIABLES rows,          \* committed observations of each symbol
          promoted,      \* symbols with a promotion row
          active,        \* symbols in active_mrz
          episodes,      \* the episode rows
          tx             \* what each symbol's transaction is doing

vars == <<rows, promoted, active, episodes, tx>>

Idle == [at |-> "idle"]
History == Symbol \X Route
------------------------------------------------------------------------------
(* current_production_near_misses of all symbols' rows, with the symbols   *)
(* in skip left out: the candidates of a history, one or none.             *)
Listed(population, skip, h) ==
  {c \in NearMissesOf[population[h[1]]] : h[1] \notin skip /\ c.route = h[2]}

The(S) == CHOOSE c \in S : TRUE

HistoryOf(e) == <<e.key.symbol, e.key.route>>
Open(rs) == {e \in rs : e.ended = "OPEN"}
OpenOf(rs, h) == {e \in Open(rs) : HistoryOf(e) = h}

Init ==
  /\ rows \in {r \in [Symbol -> SUBSET Observation] : \A s \in Symbol : r[s] \subseteq Arrivals[s]}
  /\ promoted = {}
  /\ active = {s \in Symbol : AuthorityOf[rows[s]]}
  /\ episodes = {}
  /\ tx = [s \in Symbol |-> Idle]
------------------------------------------------------------------------------
\* Mutant of the next definition: the episodes are reconciled without a lock
\* of their own.
MutNoGlobalLock(s, o) ==
  /\ tx[s] = Idle
  /\ o \in Arrivals[s] \ rows[s]
  /\ LET population == [rows EXCEPT ![s] = @ \cup {o}]
         authorities == IF s \in promoted \/ AuthorityOf[population[s]]
                        THEN active \cup {s} ELSE active \ {s}
     IN  tx' = [tx EXCEPT ![s] = [at |-> "reconciling", new |-> o,
                                  rows |-> population, active |-> authorities]]
  /\ UNCHANGED <<rows, promoted, active, episodes>>

(* ingest up to the second read of the reconciliation, under the symbol's  *)
(* lock and the lock of the episodes.  A promoted symbol always replays to *)
(* an authority (SymbolStore, PromotionKeepsAuthority).                    *)
BeginIngest(s, o) ==
  /\ tx[s] = Idle
  /\ \A u \in Symbol : tx[u].at # "reconciling"
  /\ o \in Arrivals[s] \ rows[s]
  /\ LET population == [rows EXCEPT ![s] = @ \cup {o}]
         authorities == IF s \in promoted \/ AuthorityOf[population[s]]
                        THEN active \cup {s} ELSE active \ {s}
     IN  tx' = [tx EXCEPT ![s] = [at |-> "reconciling", new |-> o,
                                  rows |-> population, active |-> authorities]]
  /\ UNCHANGED <<rows, promoted, active, episodes>>

\* The list with the new observation, and as it was before it: the symbol
\* counts as active before only if it is still active after.
CurrentOf(s, h) == Listed(tx[s].rows, tx[s].active, h)
PreviousOf(s, h) ==
  Listed([tx[s].rows EXCEPT ![s] = @ \ {tx[s].new}],
         IF s \in active THEN tx[s].active ELSE tx[s].active \ {s}, h)

\* Mutant of the next definition: an episode whose candidate changed is ended,
\* for a reason of its own.
MutEndOnChange(s, e) ==
  LET h == HistoryOf(e)
  IN  IF CurrentOf(s, h) = {e.canonical} THEN e
      ELSE [e EXCEPT !.ended = "CANDIDATE_CHANGED"]

\* An open episode is refreshed while its history is listed, and otherwise
\* ends with the last candidate it had.
Continued(s, e) ==
  LET h == HistoryOf(e)
      current == CurrentOf(s, h)
      previous == PreviousOf(s, h)
  IN  IF current # {} THEN [e EXCEPT !.canonical = The(current)]
      ELSE [e EXCEPT
              !.ended = IF h[1] \in tx[s].active THEN "SYMBOL_ACTIVATED"
                        ELSE "NO_LONGER_CURRENT",
              !.canonical = IF previous # {} THEN The(previous) ELSE @]

\* Mutant of the next definition: the baseline is announced too.
MutAnnounceBaseline(s, h) ==
  LET candidate == The(CurrentOf(s, h))
  IN  [key |-> [symbol |-> h[1], route |-> h[2], trigger |-> tx[s].new, candidate |-> candidate],
       deliverable |-> TRUE, canonical |-> candidate, ended |-> "OPEN"]

(* A listed history without an open episode gets one; it is announced only *)
(* if it was not listed before.  episode_key is unique: a key that is      *)
(* taken inserts nothing.                                                  *)
Opened(s, h) ==
  LET candidate == The(CurrentOf(s, h))
      previous == PreviousOf(s, h)
      source == IF previous # {} THEN The(previous) ELSE candidate
      deliverable == previous = {}
  IN  [key |-> [symbol |-> h[1], route |-> h[2],
                trigger |-> IF deliverable THEN tx[s].new ELSE source.newest,
                candidate |-> source],
       deliverable |-> deliverable, canonical |-> candidate, ended |-> "OPEN"]

Reconciled(s) ==
  LET opened == {Opened(s, h) : h \in {g \in History :
                   CurrentOf(s, g) # {} /\ OpenOf(episodes, g) = {}}}
  IN  {IF e.ended = "OPEN" THEN Continued(s, e) ELSE e : e \in episodes}
        \cup {e \in opened : \A f \in episodes : f.key # e.key}

\* The open episodes are read FOR UPDATE, which waits for a promotion that
\* has updated some; the reconciliation is written and committed.
CommitIngest(s) ==
  /\ tx[s].at = "reconciling"
  /\ \A u \in Symbol : tx[u].at = "promoting" => tx[u].closes = {}
  /\ rows' = [rows EXCEPT ![s] = @ \cup {tx[s].new}]
  /\ active' = IF s \in tx[s].active THEN active \cup {s} ELSE active \ {s}
  /\ episodes' = Reconciled(s)
  /\ tx' = [tx EXCEPT ![s] = Idle]
  /\ UNCHANGED promoted

\* promote_current_near_miss up to the update of the symbol's open episodes.
BeginPromote(s, c) ==
  /\ tx[s] = Idle
  /\ s \notin promoted \cup active
  /\ c \in NearMissesOf[rows[s]]
  /\ tx' = [tx EXCEPT ![s] =
       [at |-> "promoting", candidate |-> c,
        closes |-> {e.key : e \in {d \in Open(episodes) : d.key.symbol = s}}]]
  /\ UNCHANGED <<rows, promoted, active, episodes>>

CommitPromote(s) ==
  /\ tx[s].at = "promoting"
  /\ promoted' = promoted \cup {s}
  /\ active' = active \cup {s}
  /\ episodes' = {IF e.key \in tx[s].closes
                  THEN [e EXCEPT !.canonical = tx[s].candidate, !.ended = "OPERATOR_PROMOTED"]
                  ELSE e : e \in episodes}
  /\ tx' = [tx EXCEPT ![s] = Idle]
  /\ UNCHANGED rows

Next ==
  \E s \in Symbol :
    \/ \E o \in Observation : BeginIngest(s, o)
    \/ CommitIngest(s)
    \/ \E c \in NearMissesOf[rows[s]] : BeginPromote(s, c)
    \/ CommitPromote(s)

Spec == Init /\ [][Next]_vars
------------------------------------------------------------------------------
\* The histories on the list of the committed state.
ListedNow(h) == Listed(rows, active, h)

(* docs/architecture.md, Transaction path: exit closes an episode, and the *)
(* snapshot of an open one is the listed candidate, whichever webhooks and *)
(* promotions ran.                                                         *)
OpenEpisodesAreListed ==
  \A e \in Open(episodes) :
    e.key.symbol \in promoted \/ ListedNow(HistoryOf(e)) = {e.canonical}

(* docs/near-miss-diagnosis.md: continuous membership is the same episode  *)
(* even if the candidate changes or other symbols' webhooks reconcile it.  *)
MembershipIsOneEpisode ==
  [][\A e \in Open(episodes) :
       ListedNow(HistoryOf(e))' # {} => \E f \in Open(episodes') : f.key = e.key]_vars

(* docs/web-push.md: an entry into the list is announced, once and only    *)
(* then; what was listed before is not.  (A symbol that loses its          *)
(* authority is not covered: the code may list it without an entry.)       *)
EntriesAreAnnounced ==
  [][\A h \in History :
       LET announced == {e \in episodes' \ episodes : /\ HistoryOf(e) = h /\ e.deliverable
                                                     /\ \A f \in episodes : f.key # e.key}
       IN  IF ListedNow(h) = {} /\ ListedNow(h)' # {} /\ h[1] \notin active
           THEN \E e \in announced : announced = {e} /\ e.ended = "OPEN"
           ELSE ListedNow(h) # {} => announced = {}]_vars

(* docs/architecture.md, Operator promotion transaction: the promotion     *)
(* closes the episodes of its symbol.                                      *)
PromotionClosesEpisodes == \A e \in Open(episodes) : e.key.symbol \notin promoted
==============================================================================

---------------------------- MODULE Reconciliation ----------------------------
(***************************************************************************)
(* The maintenance tool that rebuilds derived rows after a change of the   *)
(* production rule (app/reconciliation.py): a dry run reports how the rows *)
(* of each symbol differ from a replay; an apply replaces what differs, if *)
(* the plan is still the one reviewed, and verifies the outcome.           *)
(*                                                                         *)
(* The dry run is one snapshot.  The apply is one READ COMMITTED           *)
(* transaction: each statement sees what is committed by then and its own  *)
(* writes, so each statement that matters is a step here, and webhooks and *)
(* other applies run in between.  A webhook is one step, the whole         *)
(* transaction of SymbolStore.                                             *)
(***************************************************************************)
EXTENDS Integers, Sequences, FiniteSets

CONSTANTS Symbols,
          Rank,            \* the place of a symbol in the order of their names
          Events,          \* the observations of each symbol
          Rules,           \* the production rules, 1 .. n in the order of their deployment
          Replay,          \* the rows that a rule's replay derives from a symbol's evidence
          Deployed,        \* what earlier versions may have left: [stored, derived]
          Tools,           \* runs of the tool
          Requests,        \* the --symbol arguments, {} for every symbol
          NoMRZ,           \* no active row
          NoPlan,          \* no dry run, no expected digest
          Free             \* nobody holds the symbol's advisory lock

\* A row of active_mrz, or NoMRZ, and the symbol's rows of mrz_events.
IsRows(rows) == rows = [active |-> rows.active, events |-> rows.events]

ASSUME ReconciliationAssumption ==
  /\ Symbols # {} /\ Rank \in [Symbols -> Nat]
  /\ \A s, u \in Symbols : Rank[s] = Rank[u] => s = u
  /\ Free \notin Tools
  /\ Requests \subseteq SUBSET Symbols
  /\ \A d \in Deployed : /\ d.derived = [s \in Symbols |-> d.derived[s]]
                          /\ d.stored = [s \in Symbols |-> d.stored[s]]
                          /\ \A s \in Symbols : /\ d.stored[s] \subseteq Events[s]
                                               /\ IsRows(d.derived[s])
  /\ Rules \subseteq Nat /\ 1 \in Rules
  /\ \A n \in Rules, s \in Symbols : \A E \in SUBSET Events[s] : IsRows(Replay[n][s][E])
  /\ \A n \in Rules, s \in Symbols : Replay[n][s][{}] = [active |-> NoMRZ, events |-> {}]

VARIABLES rule,          \* the production rule that is deployed
          stored,        \* observations, by symbol
          derived,       \* the committed active_mrz and mrz_events rows
          holder,        \* who holds a symbol's advisory lock
          pc,            \* where each tool stands
          request,       \* the symbols its operator named
          reviewed,      \* the plan its operator reviewed, or NoPlan
          todo,          \* the symbols left in its current loop
          names,         \* the symbols it found at first
          current,       \* the symbol of the iteration it is in
          read,          \* the observations it has read of that symbol
          reports,       \* the reports it has built in the current pass
          writes,        \* its uncommitted rows
          disturbed      \* symbols others have written since it first looked

toolVars == <<pc, request, reviewed, todo, names, current, read, reports, writes>>
vars == <<rule, stored, derived, holder, toolVars, disturbed>>
------------------------------------------------------------------------------
Keys(events) == {e.key : e \in events}

\* Mutant of the next definition: only the active row is compared.
MutCompareActiveOnly(s, replay, rows) ==
  [symbol |-> s, persisted |-> rows.active, replay |-> replay.active,
   missing |-> {}, removed |-> {}, changed |-> {},
   path |-> {<<e.key, e.bounds>> : e \in replay.events}]

\* compare_derived_state: a symbol's rows against the replay of its evidence.
\* The digest of a plan covers exactly its reports.
CompareDerivedState(s, replay, rows) ==
  [symbol |-> s, persisted |-> rows.active, replay |-> replay.active,
   missing |-> Keys(replay.events) \ Keys(rows.events),
   removed |-> Keys(rows.events) \ Keys(replay.events),
   changed |-> {k \in Keys(replay.events) \cap Keys(rows.events) :
                  {e \in replay.events : e.key = k} # {e \in rows.events : e.key = k}},
   path |-> {<<e.key, e.bounds>> : e \in replay.events}]

Required(report) ==
  \/ report.replay # report.persisted
  \/ report.missing # {} \/ report.removed # {} \/ report.changed # {}

\* _symbol_names: the symbols with an active row and evidence.  No symbols
\* at all, even an empty tuple of names found earlier, ask for all of them.
Found(evidence, rows, asked) ==
  {s \in Symbols : /\ rows[s].active # NoMRZ /\ evidence[s] # {}
                   /\ asked # {} => s \in asked}

Missing(evidence, rows, asked) == asked \ Found(evidence, rows, asked)

\* Mutant of the next definition: ORDER BY is left out.
MutAnyOrder(S) == S

\* ORDER BY symbol: which of the symbols left in a loop is its next.
NextOf(S) == {s \in S : \A u \in S : Rank[s] <= Rank[u]}

\* What the tool's own statements see: its writes over the committed rows.
View(t) ==
  [s \in Symbols |-> IF s \in DOMAIN writes[t] THEN writes[t][s] ELSE derived[s]]

NoWrites == <<>>

Refused == {"unavailable", "plan_changed", "unresolved"}
Ended == Refused \cup {"applied", "unknown", "failed"}

\* The row locks of uncommitted writes.
RowLocked(s) == \E t \in Tools : s \in DOMAIN writes[t]

Init ==
  /\ rule = 1
  /\ \E d \in Deployed : stored = d.stored /\ derived = d.derived
  /\ holder = [s \in Symbols |-> Free]
  /\ pc = [t \in Tools |-> "idle"]
  /\ request = [t \in Tools |-> {}]
  /\ reviewed = [t \in Tools |-> NoPlan]
  /\ todo = [t \in Tools |-> {}]
  /\ names = [t \in Tools |-> {}]
  /\ current = [t \in Tools |-> NoPlan]
  /\ read = [t \in Tools |-> {}]
  /\ reports = [t \in Tools |-> {}]
  /\ writes = [t \in Tools |-> NoWrites]
  /\ disturbed = [t \in Tools |-> {}]
------------------------------------------------------------------------------
\* ingest, on any symbol: it waits for the advisory and the row locks.
Webhook(s, o) ==
  /\ o \in Events[s] \ stored[s]
  /\ holder[s] = Free /\ ~RowLocked(s)
  /\ stored' = [stored EXCEPT ![s] = @ \cup {o}]
  /\ derived' = [derived EXCEPT ![s] = Replay[rule][s][stored'[s]]]
  /\ disturbed' = [t \in Tools |-> disturbed[t] \cup {s}]
  /\ UNCHANGED <<rule, holder, toolVars>>

\* The next rule is deployed.  Whoever deploys runs the tool, so no apply
\* is under way; a dry run may have been made under the old rule.
Deploy ==
  /\ rule + 1 \in Rules
  /\ \A t \in Tools : pc[t] \in {"idle"} \cup Ended
  /\ rule' = rule + 1
  /\ disturbed' = [t \in Tools |-> Symbols]
  /\ UNCHANGED <<stored, derived, holder, toolVars>>

\* dry_run: one read-only snapshot; the operator keeps its digest.
DryRun(t, asked) ==
  /\ pc[t] = "idle" /\ reviewed[t] = NoPlan
  /\ Missing(stored, derived, asked) = {}
  /\ request' = [request EXCEPT ![t] = asked]
  /\ reviewed' = [reviewed EXCEPT ![t] =
       {CompareDerivedState(s, Replay[rule][s][stored[s]], derived[s]) : s \in Found(stored, derived, asked)}]
  /\ disturbed' = [disturbed EXCEPT ![t] = {}]
  /\ UNCHANGED <<rule, stored, derived, holder, pc, todo, names, current, read, reports, writes>>

\* The transaction ends, its locks go with it, and so does the process.
End(t, how) ==
  /\ pc' = [pc EXCEPT ![t] = how]
  /\ holder' = [s \in Symbols |-> IF holder[s] = t THEN Free ELSE holder[s]]
  /\ writes' = [writes EXCEPT ![t] = NoWrites]
  /\ request' = [request EXCEPT ![t] = {}]
  /\ reviewed' = [reviewed EXCEPT ![t] = NoPlan]
  /\ todo' = [todo EXCEPT ![t] = {}]
  /\ names' = [names EXCEPT ![t] = {}]
  /\ current' = [current EXCEPT ![t] = NoPlan]
  /\ read' = [read EXCEPT ![t] = {}]
  /\ reports' = [reports EXCEPT ![t] = {}]

Abort(t, why) == End(t, why) /\ UNCHANGED <<rule, stored, derived, disturbed>>

\* apply begins with the names, before it holds any lock.  With an expected
\* digest it is run with the arguments of the dry run; without, its operator
\* may name a symbol that has no active row or no observation.
Begin(t, asked) ==
  /\ pc[t] = "idle"
  /\ reviewed[t] # NoPlan => asked = request[t]
  /\ IF Missing(stored, derived, asked) # {}
     THEN Abort(t, IF reviewed[t] = NoPlan THEN "unknown" ELSE "unavailable")
     ELSE /\ pc' = [pc EXCEPT ![t] = "lock"]
          /\ request' = [request EXCEPT ![t] = asked]
          /\ names' = [names EXCEPT ![t] = Found(stored, derived, asked)]
          /\ todo' = [todo EXCEPT ![t] = Found(stored, derived, asked)]
          /\ disturbed' = IF reviewed[t] = NoPlan THEN [disturbed EXCEPT ![t] = {}]
                          ELSE disturbed
          /\ UNCHANGED <<rule, stored, derived, holder, reviewed, current, read, reports, writes>>

Lock(t) ==
  /\ pc[t] = "lock"
  /\ \E s \in NextOf(todo[t]) :
       /\ holder[s] = Free
       /\ holder' = [holder EXCEPT ![s] = t]
       /\ todo' = [todo EXCEPT ![t] = @ \ {s}]
  /\ UNCHANGED <<rule, stored, derived, pc, request, reviewed, names, current, read, reports, writes, disturbed>>

\* _build_reports starts a pass with the names found at first.
Scope(t) ==
  /\ \/ pc[t] = "lock" /\ todo[t] = {}
     \/ pc[t] = "replace" /\ todo[t] = {}
  /\ IF Missing(stored, View(t), names[t]) # {} THEN Abort(t, "unavailable")
     ELSE /\ pc' = [pc EXCEPT ![t] = IF @ = "lock" THEN "plan" ELSE "verify"]
          /\ todo' = [todo EXCEPT ![t] = Found(stored, View(t), names[t])]
          /\ reports' = [reports EXCEPT ![t] = {}]
          /\ UNCHANGED <<rule, stored, derived, holder, request, reviewed, names, current, read, writes, disturbed>>

Reading == [plan |-> "plan_read", verify |-> "verify_read", replace |-> "write"]

\* _read_symbol's first statement, in either pass and before a replacement.
ReadObservations(t) ==
  /\ pc[t] \in DOMAIN Reading
  /\ \E s \in NextOf(todo[t]) :
       /\ current' = [current EXCEPT ![t] = s]
       /\ read' = [read EXCEPT ![t] = stored[s]]
       /\ todo' = [todo EXCEPT ![t] = @ \ {s}]
  /\ pc' = [pc EXCEPT ![t] = Reading[@]]
  /\ UNCHANGED <<rule, stored, derived, holder, request, reviewed, names, reports, writes, disturbed>>

\* _read_symbol's other statements, and the comparison.
ReadRows(t) ==
  LET s == current[t]
  IN  /\ pc[t] \in {"plan_read", "verify_read"}
      /\ IF View(t)[s].active = NoMRZ THEN Abort(t, "unavailable")
         ELSE /\ pc' = [pc EXCEPT ![t] = IF @ = "plan_read" THEN "plan" ELSE "verify"]
              /\ reports' = [reports EXCEPT ![t] =
                   @ \cup {CompareDerivedState(s, Replay[rule][s][read[t]], View(t)[s])}]
              /\ read' = [read EXCEPT ![t] = {}]
              /\ UNCHANGED <<rule, stored, derived, holder, request, reviewed, todo, names, current, writes, disturbed>>

\* Mutants of the next definition: the digest is not compared; it covers
\* the time of the run.
MutAnyPlan(t) == TRUE
MutDigestOfTime(t) == reviewed[t] = NoPlan

PlanExpected(t) == reviewed[t] = NoPlan \/ reviewed[t] = reports[t]

\* The digest is compared before anything is replaced.
CheckPlan(t) ==
  /\ pc[t] = "plan" /\ todo[t] = {}
  /\ IF ~PlanExpected(t) THEN Abort(t, "plan_changed")
     ELSE /\ pc' = [pc EXCEPT ![t] = "replace"]
          /\ todo' = [todo EXCEPT ![t] = {r.symbol : r \in {x \in reports[t] : Required(x)}}]
          /\ reports' = [reports EXCEPT ![t] = {}]
          /\ UNCHANGED <<rule, stored, derived, holder, request, reviewed, names, current, read, writes, disturbed>>

\* _replace_derived_state with the replay of what was just read.
Replace(t) ==
  LET s == current[t]
  IN  /\ pc[t] = "write"
      /\ \A u \in Tools \ {t} : s \notin DOMAIN writes[u]
      /\ IF View(t)[s].active = NoMRZ THEN Abort(t, "unavailable")
         ELSE /\ writes' = [writes EXCEPT ![t] =
                   [x \in DOMAIN @ \cup {s} |-> IF x = s THEN Replay[rule][s][read[t]] ELSE @[x]]]
              /\ pc' = [pc EXCEPT ![t] = "replace"]
              /\ read' = [read EXCEPT ![t] = {}]
              /\ UNCHANGED <<rule, stored, derived, holder, request, reviewed, todo, names, current, reports, disturbed>>

\* A statement of the replacement fails.
ReplaceFails(t) == pc[t] = "write" /\ Abort(t, "failed")

Resolved(t) == \A r \in reports[t] : ~Required(r)

\* The verification, and the commit.
Commit(t) ==
  /\ pc[t] = "verify" /\ todo[t] = {}
  /\ IF ~Resolved(t) THEN Abort(t, "unresolved")
     ELSE /\ End(t, "applied")
          /\ derived' = View(t)
          /\ disturbed' = [u \in Tools |-> IF u = t THEN disturbed[u]
                                           ELSE disturbed[u] \cup DOMAIN writes[t]]
          /\ UNCHANGED <<rule, stored>>

Next ==
  \/ \E s \in Symbols : \E o \in Events[s] : Webhook(s, o)
  \/ Deploy
  \/ \E t \in Tools, asked \in Requests : DryRun(t, asked) \/ Begin(t, asked)
  \/ \E t \in Tools : \/ Lock(t) \/ Scope(t) \/ ReadObservations(t) \/ ReadRows(t)
                      \/ CheckPlan(t) \/ Replace(t) \/ ReplaceFails(t) \/ Commit(t)

\* An apply that has begun goes on as soon as no lock stops it.
Running(t) == Lock(t) \/ Scope(t) \/ ReadObservations(t) \/ ReadRows(t)
                \/ CheckPlan(t) \/ Replace(t) \/ Commit(t)

Spec == Init /\ [][Next]_vars /\ \A t \in Tools : WF_vars(Running(t))
------------------------------------------------------------------------------
InStep(s) == derived[s] = Replay[rule][s][stored[s]]

(* README, Deterministic ordering and replay: apply replaces differing     *)
(* state in one verified transaction.  When it commits, every symbol with  *)
(* an authority that was named, or all of them, is in step.                *)
AppliedIsInStep ==
  [][\A t \in Tools : pc[t] # "applied" /\ pc'[t] = "applied" =>
       \A s \in names[t] : InStep(s)']_vars

(* --expected-plan-digest: whatever was deployed or received since, what   *)
(* an apply commits under a reviewed plan is a difference its operator has *)
(* seen, from the rows that were shown to the rows that were shown.        *)
OnlyReviewedChanges ==
  [][\A t \in Tools : pc[t] # "applied" /\ pc'[t] = "applied" /\ reviewed[t] # NoPlan =>
       \A s \in Symbols : derived'[s] # derived[s] =>
         \E r \in reviewed[t] : /\ r.symbol = s /\ Required(r)
                                /\ r.persisted = derived[s].active
                                /\ r.replay = derived'[s].active]_vars

(* An apply is refused for a cause: since the review, or since it began,   *)
(* someone else wrote one of the symbols or deployed another rule, or the  *)
(* replay of a symbol with evidence has no authority.                      *)
RefusalsHaveACause ==
  \A t \in Tools : pc[t] \in Refused =>
    \/ disturbed[t] # {}
    \/ \E s \in Symbols : stored[s] # {} /\ Replay[rule][s][stored[s]].active = NoMRZ

(* The advisory locks are taken in the order of the names: two applies,    *)
(* whatever symbols they name, never wait for each other, so each ends.    *)
AppliesEnd == \A t \in Tools : pc[t] = "lock" ~> pc[t] \in Ended
==============================================================================

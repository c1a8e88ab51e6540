-------------------------- MODULE ReconciliationProofs ------------------------
(***************************************************************************)
(* An apply is refused only for a cause, commits only what is in step and  *)
(* was reviewed, and waits only for symbols of a higher rank than those it *)
(* holds, for any symbols, rules, replays, states earlier versions left,   *)
(* and number of tools and webhooks.                                       *)
(*                                                                         *)
(* The first invariant follows one apply while nobody else writes its      *)
(* symbols: what it reads, in whatever order its statements come, is what  *)
(* its operator reviewed, and what it has replaced is in step.  The second *)
(* follows an apply that owns every symbol its reports cover, and so needs *)
(* one to have been found when it began; the third is the order of locks.  *)
(***************************************************************************)
EXTENDS Reconciliation, TLAPS

Stages == {"idle", "lock", "plan", "plan_read", "replace", "write", "verify", "verify_read"} \cup Ended
Planning == {"lock", "plan", "plan_read"}
Replacing == {"replace", "write"}
Verifying == {"verify", "verify_read"}
AtSymbol == {"plan_read", "write", "verify_read"}
Applying == Planning \cup Replacing \cup Verifying

OnTools(f) == f = [t \in Tools |-> f[t]]

TypeOK ==
  /\ derived = [s \in Symbols |-> derived[s]]
  /\ pc \in [Tools -> Stages]
  /\ OnTools(request) /\ OnTools(reviewed) /\ OnTools(todo) /\ OnTools(names)
  /\ OnTools(current) /\ OnTools(read) /\ OnTools(reports) /\ OnTools(writes)
  /\ OnTools(disturbed)
  /\ \A t \in Tools : pc[t] = "idle" => DOMAIN writes[t] = {}

Report(s) == CompareDerivedState(s, Replay[rule][s][stored[s]], derived[s])
Plan(S) == {Report(s) : s \in S}

HasAuthority ==
  \A s \in Symbols : stored[s] # {} => Replay[rule][s][stored[s]].active # NoMRZ

\* Nothing that could explain a refusal has happened to tool t.
NoCause(t) == disturbed[t] = {} /\ HasAuthority

\* What the operator of t reviewed is still so, and t works on its symbols.
PlanStands(t) ==
  /\ pc[t] \notin Refused
  /\ reviewed[t] # NoPlan => /\ Missing(stored, derived, request[t]) = {}
                             /\ reviewed[t] = Plan(Found(stored, derived, request[t]))
  /\ pc[t] \in Applying => /\ Missing(stored, derived, request[t]) = {}
                           /\ names[t] = Found(stored, derived, request[t])
                           /\ todo[t] \subseteq names[t]
  /\ pc[t] \in AtSymbol => current[t] \in names[t] \ todo[t] /\ read[t] = stored[current[t]]

\* The symbols that t has reported on in its current pass.
Done(t) == (names[t] \ todo[t]) \ (IF pc[t] \in AtSymbol THEN {current[t]} ELSE {})

PassStands(t) ==
  /\ pc[t] \in Planning => DOMAIN writes[t] = {}
  /\ pc[t] \in {"plan", "plan_read"} => reports[t] = Plan(Done(t))
  /\ pc[t] \in Replacing \cup Verifying =>
       /\ DOMAIN writes[t] \subseteq names[t]
       /\ \A s \in DOMAIN writes[t] : writes[t][s] = Replay[rule][s][stored[s]]
  /\ pc[t] \in Replacing => \A s \in Done(t) \ DOMAIN writes[t] : ~Required(Report(s))
  /\ pc[t] \in Verifying =>
       /\ \A s \in names[t] \ DOMAIN writes[t] : ~Required(Report(s))
       /\ \A r \in reports[t] : ~Required(r)

Undisturbed(t) == PlanStands(t) /\ PassStands(t)

IInv == TypeOK /\ \A t \in Tools : NoCause(t) => Undisturbed(t)
------------------------------------------------------------------------------
\* A step of another tool or of the environment leaves u's run alone.
Kept(u) ==
  /\ pc'[u] = pc[u] /\ request'[u] = request[u] /\ reviewed'[u] = reviewed[u]
  /\ todo'[u] = todo[u] /\ names'[u] = names[u] /\ current'[u] = current[u]
  /\ read'[u] = read[u] /\ reports'[u] = reports[u] /\ writes'[u] = writes[u]

LEMMA KeptStands ==
  ASSUME UNCHANGED <<rule, stored, derived>>, NEW u \in Tools, Kept(u), Undisturbed(u)
  PROVE  Undisturbed(u)'
<1>1. PlanStands(u)'
  BY DEF Kept, Undisturbed, PlanStands, Plan, Report
<1>2. PassStands(u)'
  BY DEF Kept, Undisturbed, PassStands, Done, Plan, Report
<1> QED
  BY <1>1, <1>2 DEF Undisturbed

LEMMA AuthorityStands ==
  ASSUME UNCHANGED <<rule, stored>>
  PROVE  HasAuthority' <=> HasAuthority
BY DEF HasAuthority

\* A step of t over the same rows keeps the invariant if t's run stands.
LEMMA StepOfOne ==
  ASSUME IInv, NEW t \in Tools, TypeOK', UNCHANGED <<rule, stored, derived>>,
         \A u \in Tools \ {t} : Kept(u) /\ disturbed'[u] = disturbed[u],
         NoCause(t)' => Undisturbed(t)'
  PROVE  IInv'
<1> SUFFICES ASSUME NEW u \in Tools, NoCause(u)' PROVE Undisturbed(u)'
  BY Zenon DEF IInv
<1>1. CASE u = t
  BY <1>1
<1>2. CASE u # t
  <2>1. NoCause(u)
    BY <1>2, AuthorityStands DEF NoCause
  <2> QED
    BY <1>2, <2>1, KeptStands DEF IInv
<1> QED
  BY <1>1, <1>2

\* A run that is over without a refusal stands.
LEMMA OverStands ==
  ASSUME NEW t \in Tools, pc[t] \in {"applied", "unknown", "failed"}, reviewed[t] = NoPlan
  PROVE  Undisturbed(t)
BY DEF Undisturbed, PlanStands, PassStands, Refused, Applying, Planning, Replacing,
       Verifying, AtSymbol

LEMMA EndKeeps ==
  ASSUME TypeOK, NEW t \in Tools, NEW how \in Ended, End(t, how)
  PROVE  /\ pc' \in [Tools -> Stages] /\ pc'[t] = how /\ reviewed'[t] = NoPlan
         /\ OnTools(request)' /\ OnTools(reviewed)' /\ OnTools(todo)' /\ OnTools(names)'
         /\ OnTools(current)' /\ OnTools(read)' /\ OnTools(reports)' /\ OnTools(writes)'
         /\ \A u \in Tools \ {t} : Kept(u)
<1>1. pc' \in [Tools -> Stages] /\ pc'[t] = how /\ \A u \in Tools \ {t} : pc'[u] = pc[u]
  BY DEF End, TypeOK, Stages
<1>2. /\ OnTools(request)' /\ OnTools(reviewed)' /\ OnTools(todo)' /\ OnTools(names)'
      /\ reviewed'[t] = NoPlan
      /\ \A u \in Tools \ {t} : /\ request'[u] = request[u] /\ reviewed'[u] = reviewed[u]
                                /\ todo'[u] = todo[u] /\ names'[u] = names[u]
  BY DEF End, TypeOK, OnTools
<1>3. /\ OnTools(current)' /\ OnTools(read)' /\ OnTools(reports)' /\ OnTools(writes)'
      /\ \A u \in Tools \ {t} : /\ current'[u] = current[u] /\ read'[u] = read[u]
                                /\ reports'[u] = reports[u] /\ writes'[u] = writes[u]
  BY DEF End, TypeOK, OnTools
<1> QED
  BY <1>1, <1>2, <1>3 DEF Kept

\* An abort keeps the invariant if it is no refusal, or has a cause.
LEMMA AbortKeeps ==
  ASSUME IInv, NEW t \in Tools, NEW why \in Ended, Abort(t, why),
         why \in Refused => ~NoCause(t), why # "applied"
  PROVE  IInv'
<1>1. End(t, why) /\ UNCHANGED <<rule, stored, derived, disturbed>>
  BY DEF Abort
<1>2. /\ pc' \in [Tools -> Stages] /\ pc'[t] = why /\ reviewed'[t] = NoPlan
      /\ OnTools(request)' /\ OnTools(reviewed)' /\ OnTools(todo)' /\ OnTools(names)'
      /\ OnTools(current)' /\ OnTools(read)' /\ OnTools(reports)' /\ OnTools(writes)'
      /\ \A u \in Tools \ {t} : Kept(u)
  BY <1>1, EndKeeps DEF IInv
<1>3. TypeOK'
  BY <1>1, <1>2 DEF IInv, TypeOK, OnTools, Kept, Ended, Refused
<1>4. NoCause(t)' => Undisturbed(t)'
  <2>1. CASE why \in Refused
    <3>1. NoCause(t)' => NoCause(t)
      BY <1>1, AuthorityStands DEF NoCause
    <3> QED
      BY <2>1, <3>1
  <2>2. CASE why \notin Refused
    <3>1. pc'[t] \in {"applied", "unknown", "failed"} /\ reviewed'[t] = NoPlan
      BY <1>2, <2>2 DEF Ended
    <3> QED
      BY <3>1 DEF Undisturbed, PlanStands, PassStands, Refused, Applying, Planning, Replacing,
                  Verifying, AtSymbol
  <2> QED
    BY <2>1, <2>2
<1> QED
  BY <1>1, <1>2, <1>3, <1>4, StepOfOne
------------------------------------------------------------------------------
\* A step of t that leaves the rows alone is a fact about t's own run.
OwnStep(t) ==
  /\ TypeOK' /\ UNCHANGED <<rule, stored, derived>>
  /\ \A u \in Tools \ {t} : Kept(u) /\ disturbed'[u] = disturbed[u]

\* Names found at first are what every later look finds, also through the
\* tool's own writes.
LEMMA SameSymbols ==
  ASSUME NEW t \in Tools, HasAuthority, Undisturbed(t), pc[t] \in Applying
  PROVE  /\ Found(stored, View(t), names[t]) = names[t]
         /\ Missing(stored, View(t), names[t]) = {}
         /\ \A s \in names[t] : s \in Symbols /\ View(t)[s].active # NoMRZ
<1>1. /\ Missing(stored, derived, request[t]) = {}
      /\ names[t] = Found(stored, derived, request[t])
  BY DEF Undisturbed, PlanStands
<1>2. /\ DOMAIN writes[t] \subseteq names[t]
      /\ \A s \in DOMAIN writes[t] : writes[t][s] = Replay[rule][s][stored[s]]
  BY DEF Undisturbed, PassStands, Applying
<1>3. \A s \in names[t] : /\ s \in Symbols /\ stored[s] # {}
                          /\ derived[s].active # NoMRZ
  BY <1>1 DEF Found
<1>4. \A s \in names[t] : View(t)[s].active # NoMRZ
  BY <1>2, <1>3 DEF View, HasAuthority
<1>5. Found(stored, View(t), names[t]) = names[t]
  <2>1. CASE names[t] # {}
    BY <2>1, <1>3, <1>4 DEF Found
  <2>2. CASE names[t] = {}
    <3>1. request[t] = {} /\ \A s \in Symbols : View(t)[s] = derived[s]
      BY <2>2, <1>1, <1>2 DEF Missing, View
    <3> QED
      BY <2>2, <3>1, <1>1 DEF Found
  <2> QED
    BY <2>1, <2>2
<1> QED
  BY <1>3, <1>4, <1>5 DEF Missing

LEMMA LockKeeps ==
  ASSUME IInv, NEW t \in Tools, Lock(t)
  PROVE  IInv'
<1>1. PICK s \in NextOf(todo[t]) : todo' = [todo EXCEPT ![t] = @ \ {s}]
  BY DEF Lock
<1>2. /\ UNCHANGED <<rule, stored, derived, pc, request, reviewed, names, current, read, reports, writes, disturbed>>
      /\ pc[t] = "lock"
  BY DEF Lock
<1>3. OwnStep(t)
  BY <1>1, <1>2 DEF IInv, TypeOK, OnTools, OwnStep, Kept
<1>4. NoCause(t)' => Undisturbed(t)'
  <2> SUFFICES ASSUME NoCause(t)' PROVE Undisturbed(t)'
    OBVIOUS
  <2>1. Undisturbed(t)
    BY <1>2, AuthorityStands DEF NoCause, IInv
  <2>2. todo'[t] \subseteq todo[t]
    BY <1>1 DEF IInv, TypeOK, OnTools
  <2> QED
    BY <1>2, <2>1, <2>2 DEF Undisturbed, PlanStands, PassStands, Refused, Applying, Planning,
                             Replacing, Verifying, AtSymbol, Plan, Report
<1> QED
  BY <1>3, <1>4, StepOfOne DEF OwnStep

LEMMA ScopeKeeps ==
  ASSUME IInv, NEW t \in Tools, Scope(t)
  PROVE  IInv'
<1>1. pc[t] \in {"lock", "replace"} /\ todo[t] = {}
  BY DEF Scope
<1>2. NoCause(t) => /\ Found(stored, View(t), names[t]) = names[t]
                    /\ Missing(stored, View(t), names[t]) = {}
  BY <1>1, SameSymbols DEF NoCause, IInv, Applying, Planning, Replacing
<1>3. CASE Missing(stored, View(t), names[t]) # {}
  <2>1. Abort(t, "unavailable") /\ ~NoCause(t)
    BY <1>2, <1>3 DEF Scope
  <2> QED
    BY <2>1, AbortKeeps DEF Ended, Refused
<1>4. CASE Missing(stored, View(t), names[t]) = {}
  <2>1. /\ pc' = [pc EXCEPT ![t] = IF @ = "lock" THEN "plan" ELSE "verify"]
        /\ todo' = [todo EXCEPT ![t] = Found(stored, View(t), names[t])]
        /\ reports' = [reports EXCEPT ![t] = {}]
        /\ UNCHANGED <<rule, stored, derived, holder, request, reviewed, names, current, read, writes, disturbed>>
    BY <1>4 DEF Scope
  <2>2. OwnStep(t)
    <3>1. pc' \in [Tools -> Stages] /\ pc'[t] # "idle" /\ \A u \in Tools \ {t} : pc'[u] = pc[u]
      BY <2>1 DEF IInv, TypeOK, Stages
    <3>2. OnTools(todo)' /\ OnTools(reports)'
          /\ \A u \in Tools \ {t} : todo'[u] = todo[u] /\ reports'[u] = reports[u]
      BY <2>1 DEF IInv, TypeOK, OnTools
    <3> QED
      BY <2>1, <3>1, <3>2 DEF IInv, TypeOK, OnTools, OwnStep, Kept
  <2>3. NoCause(t)' => Undisturbed(t)'
    <3> SUFFICES ASSUME NoCause(t)' PROVE Undisturbed(t)'
      OBVIOUS
    <3>1. NoCause(t) /\ Undisturbed(t)
      BY <2>1, AuthorityStands DEF NoCause, IInv
    <3>2. todo'[t] = names[t] /\ reports'[t] = {}
      BY <2>1, <3>1, <1>2 DEF IInv, TypeOK, OnTools
    <3>3. CASE pc[t] = "lock"
      <4>1. pc'[t] = "plan"
        BY <3>3, <2>1 DEF IInv, TypeOK
      <4>2. PlanStands(t)'
        BY <2>1, <3>1, <3>2, <3>3, <4>1 DEF Undisturbed, PlanStands, Refused, Applying, Planning,
             AtSymbol, Plan, Report
      <4>3. Plan(Done(t))' = {}
        BY <2>1, <3>2, <4>1 DEF Done, Plan
      <4> QED
        BY <2>1, <3>1, <3>2, <3>3, <4>1, <4>2, <4>3 DEF Undisturbed, PassStands, Planning, Replacing,
             Verifying
    <3>4. CASE pc[t] = "replace"
      <4>1. pc'[t] = "verify" /\ todo[t] = {}
        BY <3>4, <2>1, <1>1 DEF IInv, TypeOK
      <4>2. PlanStands(t)'
        BY <2>1, <3>1, <3>2, <3>4, <4>1 DEF Undisturbed, PlanStands, Refused, Applying, Replacing,
             Verifying, AtSymbol, Plan, Report
      <4>3. Done(t) = names[t]
        BY <3>4, <4>1 DEF Done, AtSymbol
      <4> QED
        BY <2>1, <3>1, <3>2, <3>4, <4>1, <4>2, <4>3 DEF Undisturbed, PassStands, Planning, Replacing,
             Verifying, Report
    <3> QED
      BY <1>1, <3>3, <3>4
  <2> QED
    BY <2>2, <2>3, StepOfOne DEF OwnStep
<1> QED
  BY <1>3, <1>4

LEMMA ReadObservationsKeeps ==
  ASSUME IInv, NEW t \in Tools, ReadObservations(t)
  PROVE  IInv'
<1>1. PICK s \in NextOf(todo[t]) :
        /\ current' = [current EXCEPT ![t] = s]
        /\ read' = [read EXCEPT ![t] = stored[s]]
        /\ todo' = [todo EXCEPT ![t] = @ \ {s}]
  BY DEF ReadObservations
<1>2. /\ pc' = [pc EXCEPT ![t] = Reading[@]]
      /\ pc[t] \in {"plan", "verify", "replace"}
      /\ UNCHANGED <<rule, stored, derived, holder, request, reviewed, names, reports, writes, disturbed>>
  BY DEF ReadObservations, Reading
<1>3. /\ pc[t] = "plan" => pc'[t] = "plan_read"
      /\ pc[t] = "verify" => pc'[t] = "verify_read"
      /\ pc[t] = "replace" => pc'[t] = "write"
      /\ pc' \in [Tools -> Stages] /\ \A u \in Tools \ {t} : pc'[u] = pc[u]
  BY <1>2 DEF IInv, TypeOK, Stages, Reading
<1>4. /\ OnTools(current)' /\ OnTools(read)' /\ OnTools(todo)'
      /\ current'[t] = s /\ read'[t] = stored[s] /\ todo'[t] = todo[t] \ {s}
      /\ \A u \in Tools \ {t} : current'[u] = current[u] /\ read'[u] = read[u] /\ todo'[u] = todo[u]
  BY <1>1 DEF IInv, TypeOK, OnTools
<1>5. OwnStep(t)
  BY <1>2, <1>3, <1>4 DEF IInv, TypeOK, OnTools, OwnStep, Kept
<1>6. NoCause(t)' => Undisturbed(t)'
  <2> SUFFICES ASSUME NoCause(t)' PROVE Undisturbed(t)'
    OBVIOUS
  <2>1. Undisturbed(t)
    BY <1>2, AuthorityStands DEF NoCause, IInv
  <2>2. s \in todo[t] /\ todo[t] \subseteq names[t]
    BY <1>2, <2>1 DEF NextOf, Undisturbed, PlanStands, Applying, Planning, Replacing, Verifying
  <2>3. PlanStands(t)'
    BY <1>2, <1>3, <1>4, <2>1, <2>2 DEF Undisturbed, PlanStands, Refused, Applying, Planning, Replacing,
         Verifying, AtSymbol, Plan, Report
  <2>4. Done(t)' = Done(t)
    BY <1>2, <1>3, <1>4, <2>2 DEF Done, AtSymbol
  <2> QED
    BY <1>2, <1>3, <2>1, <2>3, <2>4 DEF Undisturbed, PassStands, Planning, Replacing, Verifying,
         Plan, Report
<1> QED
  BY <1>5, <1>6, StepOfOne DEF OwnStep

\* Rows are in step with a replay they equal.
LEMMA ReplayIsInStep ==
  ASSUME NEW s, NEW R
  PROVE  ~Required(CompareDerivedState(s, R, R))
BY DEF Required, CompareDerivedState

LEMMA ReadRowsKeeps ==
  ASSUME IInv, NEW t \in Tools, ReadRows(t)
  PROVE  IInv'
<1> DEFINE s == current[t]
           r == CompareDerivedState(s, Replay[rule][s][read[t]], View(t)[s])
<1>1. pc[t] \in {"plan_read", "verify_read"}
  BY DEF ReadRows
<1>2. NoCause(t) => /\ s \in names[t] \ todo[t] /\ s \in Symbols /\ read[t] = stored[s]
                    /\ View(t)[s].active # NoMRZ
  BY <1>1, SameSymbols DEF NoCause, IInv, Applying, Planning, Verifying, Undisturbed, PlanStands, AtSymbol
<1>3. CASE View(t)[s].active = NoMRZ
  <2>1. Abort(t, "unavailable") /\ ~NoCause(t)
    BY <1>2, <1>3 DEF ReadRows
  <2> QED
    BY <2>1, AbortKeeps DEF Ended, Refused
<1>4. CASE View(t)[s].active # NoMRZ
  <2>1. /\ pc' = [pc EXCEPT ![t] = IF @ = "plan_read" THEN "plan" ELSE "verify"]
        /\ reports' = [reports EXCEPT ![t] = @ \cup {r}]
        /\ read' = [read EXCEPT ![t] = {}]
        /\ UNCHANGED <<rule, stored, derived, holder, request, reviewed, todo, names, current, writes, disturbed>>
    BY <1>4 DEF ReadRows
  <2>2. OnTools(reports)' /\ reports'[t] = reports[t] \cup {r}
        /\ \A u \in Tools \ {t} : reports'[u] = reports[u]
    <3> HIDE DEF r
    <3> QED
      BY <2>1 DEF IInv, TypeOK, OnTools
  <2>3. OnTools(read)' /\ \A u \in Tools \ {t} : read'[u] = read[u]
    BY <2>1 DEF IInv, TypeOK, OnTools
  <2>4. /\ pc[t] = "plan_read" => pc'[t] = "plan"
        /\ pc[t] = "verify_read" => pc'[t] = "verify"
        /\ pc' \in [Tools -> Stages] /\ \A u \in Tools \ {t} : pc'[u] = pc[u]
    BY <1>1, <2>1 DEF IInv, TypeOK, Stages
  <2>5. OwnStep(t)
    BY <1>1, <2>1, <2>2, <2>3, <2>4 DEF IInv, TypeOK, OnTools, OwnStep, Kept
  <2>6. NoCause(t)' => Undisturbed(t)'
    <3> SUFFICES ASSUME NoCause(t)' PROVE Undisturbed(t)'
      OBVIOUS
    <3>1. NoCause(t) /\ Undisturbed(t)
      BY <2>1, AuthorityStands DEF NoCause, IInv
    <3>2. PlanStands(t)'
      BY <1>1, <2>1, <2>4, <3>1 DEF Undisturbed, PlanStands, Refused, Applying, Planning, Replacing,
           Verifying, AtSymbol, Plan, Report
    <3>3. Done(t)' = Done(t) \cup {s}
      BY <1>1, <1>2, <2>1, <2>4, <3>1 DEF Done, AtSymbol
    <3>4. CASE pc[t] = "plan_read"
      <4>1. View(t)[s] = derived[s]
        BY <3>1, <3>4, <1>2 DEF Undisturbed, PassStands, Planning, View
      <4>2. r = Report(s)
        BY <4>1, <3>1, <1>2 DEF Report
      <4>3. Plan(Done(t) \cup {s}) = Plan(Done(t)) \cup {Report(s)}
        BY DEF Plan
      <4>4. reports'[t] = Plan(Done(t))'
        <5> HIDE DEF r
        <5> QED
          BY <2>1, <2>2, <3>1, <3>3, <3>4, <4>2, <4>3 DEF Undisturbed, PassStands, Plan, Report
      <4> QED
        BY <2>1, <2>4, <3>1, <3>2, <3>4, <4>4 DEF Undisturbed, PassStands, Planning, Replacing, Verifying
    <3>5. CASE pc[t] = "verify_read"
      <4>1. ~Required(r)
        <5>1. CASE s \in DOMAIN writes[t]
          <6>1. View(t)[s] = Replay[rule][s][read[t]]
            BY <3>1, <3>5, <1>2, <5>1 DEF Undisturbed, PassStands, Verifying, View
          <6> QED
            BY <6>1, ReplayIsInStep
        <5>2. CASE s \notin DOMAIN writes[t]
          <6>1. r = Report(s)
            BY <3>1, <1>2, <5>2 DEF Report, View
          <6> QED
            BY <6>1, <3>1, <3>5, <1>2, <5>2 DEF Undisturbed, PassStands, Verifying
        <5> QED
          BY <5>1, <5>2
      <4> HIDE DEF r
      <4>2. \A x \in reports'[t] : ~Required(x)
        BY <2>2, <3>1, <3>5, <4>1 DEF Undisturbed, PassStands, Verifying
      <4> QED
        BY <2>1, <2>4, <3>1, <3>2, <3>5, <4>2 DEF Undisturbed, PassStands, Planning, Replacing, Verifying,
             Report
    <3> QED
      BY <1>1, <3>4, <3>5
  <2> QED
    BY <2>5, <2>6, StepOfOne DEF OwnStep
<1> QED
  BY <1>3, <1>4

LEMMA CheckPlanKeeps ==
  ASSUME IInv, NEW t \in Tools, CheckPlan(t)
  PROVE  IInv'
<1>1. pc[t] = "plan" /\ todo[t] = {}
  BY DEF CheckPlan
<1>2. NoCause(t) => /\ reports[t] = Plan(names[t]) /\ PlanExpected(t)
                    /\ names[t] \subseteq Symbols
  <2> SUFFICES ASSUME NoCause(t)
               PROVE  reports[t] = Plan(names[t]) /\ PlanExpected(t) /\ names[t] \subseteq Symbols
    OBVIOUS
  <2>1. Undisturbed(t)
    BY DEF IInv
  <2>2. Done(t) = names[t]
    BY <1>1 DEF Done, AtSymbol
  <2>3. reports[t] = Plan(names[t])
    BY <1>1, <2>1, <2>2 DEF Undisturbed, PassStands
  <2>4. names[t] = Found(stored, derived, request[t])
    BY <1>1, <2>1 DEF Undisturbed, PlanStands, Applying, Planning
  <2>5. PlanExpected(t)
    BY <2>1, <2>3, <2>4 DEF PlanExpected, Undisturbed, PlanStands
  <2> QED
    BY <2>3, <2>4, <2>5 DEF Found
<1>3. CASE ~PlanExpected(t)
  <2>1. Abort(t, "plan_changed") /\ ~NoCause(t)
    BY <1>2, <1>3 DEF CheckPlan
  <2> QED
    BY <2>1, AbortKeeps DEF Ended, Refused
<1>4. CASE PlanExpected(t)
  <2> DEFINE left == {x.symbol : x \in {y \in reports[t] : Required(y)}}
  <2>1. /\ pc' = [pc EXCEPT ![t] = "replace"]
        /\ todo' = [todo EXCEPT ![t] = left]
        /\ reports' = [reports EXCEPT ![t] = {}]
        /\ UNCHANGED <<rule, stored, derived, holder, request, reviewed, names, current, read, writes, disturbed>>
    BY <1>4 DEF CheckPlan
  <2>2. NoCause(t) => /\ left \subseteq names[t]
                      /\ \A s \in names[t] \ left : ~Required(Report(s))
    <3>1. \A s : Report(s).symbol = s
      BY DEF Report, CompareDerivedState
    <3>2. ASSUME NoCause(t) PROVE reports[t] = Plan(names[t])
      BY <1>2, <3>2
    <3> QED
      BY <3>1, <3>2 DEF Plan
  <2> HIDE DEF left
  <2>3. /\ OnTools(todo)' /\ OnTools(reports)' /\ todo'[t] = left
        /\ \A u \in Tools \ {t} : todo'[u] = todo[u] /\ reports'[u] = reports[u]
    BY <2>1 DEF IInv, TypeOK, OnTools
  <2>4. /\ pc'[t] = "replace" /\ pc' \in [Tools -> Stages]
        /\ \A u \in Tools \ {t} : pc'[u] = pc[u]
    BY <2>1 DEF IInv, TypeOK, Stages
  <2>5. OwnStep(t)
    BY <2>1, <2>3, <2>4 DEF IInv, TypeOK, OnTools, OwnStep, Kept
  <2>6. NoCause(t)' => Undisturbed(t)'
    <3> SUFFICES ASSUME NoCause(t)' PROVE Undisturbed(t)'
      OBVIOUS
    <3>1. NoCause(t) /\ Undisturbed(t)
      BY <2>1, AuthorityStands DEF NoCause, IInv
    <3>2. PlanStands(t)'
      BY <1>1, <2>1, <2>2, <2>3, <2>4, <3>1 DEF Undisturbed, PlanStands, Refused, Applying, Planning,
           Replacing, Verifying, AtSymbol, Plan, Report
    <3>3. Done(t)' = names[t] \ left /\ DOMAIN writes'[t] = {}
      BY <1>1, <2>1, <2>3, <2>4, <3>1 DEF Done, AtSymbol, Undisturbed, PassStands, Planning
    <3> QED
      BY <2>1, <2>2, <2>4, <3>1, <3>2, <3>3 DEF Undisturbed, PassStands, Planning, Replacing, Verifying,
           Report
  <2> QED
    BY <2>5, <2>6, StepOfOne DEF OwnStep
<1> QED
  BY <1>3, <1>4

LEMMA ReplaceKeeps ==
  ASSUME IInv, NEW t \in Tools, Replace(t)
  PROVE  IInv'
<1> DEFINE s == current[t]
           w == [x \in DOMAIN writes[t] \cup {s} |->
                   IF x = s THEN Replay[rule][s][read[t]] ELSE writes[t][x]]
<1>1. pc[t] = "write"
  BY DEF Replace
<1>2. NoCause(t) => /\ s \in names[t] \ todo[t] /\ read[t] = stored[s]
                    /\ View(t)[s].active # NoMRZ
  BY <1>1, SameSymbols DEF NoCause, IInv, Applying, Replacing, Undisturbed, PlanStands, AtSymbol
<1>3. CASE View(t)[s].active = NoMRZ
  <2>1. Abort(t, "unavailable") /\ ~NoCause(t)
    BY <1>2, <1>3 DEF Replace
  <2> QED
    BY <2>1, AbortKeeps DEF Ended, Refused
<1>4. CASE View(t)[s].active # NoMRZ
  <2>1. /\ writes' = [writes EXCEPT ![t] = w]
        /\ pc' = [pc EXCEPT ![t] = "replace"]
        /\ read' = [read EXCEPT ![t] = {}]
        /\ UNCHANGED <<rule, stored, derived, holder, request, reviewed, todo, names, current, reports, disturbed>>
    BY <1>4 DEF Replace
  <2>2. OnTools(writes)' /\ writes'[t] = w /\ \A u \in Tools \ {t} : writes'[u] = writes[u]
    <3> HIDE DEF w
    <3> QED
      BY <2>1 DEF IInv, TypeOK, OnTools
  <2>3. OnTools(read)' /\ \A u \in Tools \ {t} : read'[u] = read[u]
    BY <2>1 DEF IInv, TypeOK, OnTools
  <2>4. /\ pc'[t] = "replace" /\ pc' \in [Tools -> Stages]
        /\ \A u \in Tools \ {t} : pc'[u] = pc[u]
    BY <2>1 DEF IInv, TypeOK, Stages
  <2>5. OwnStep(t)
    <3> HIDE DEF w
    <3> QED
      BY <2>1, <2>2, <2>3, <2>4 DEF IInv, TypeOK, OnTools, OwnStep, Kept
  <2>6. NoCause(t)' => Undisturbed(t)'
    <3> SUFFICES ASSUME NoCause(t)' PROVE Undisturbed(t)'
      OBVIOUS
    <3>1. NoCause(t) /\ Undisturbed(t)
      BY <2>1, AuthorityStands DEF NoCause, IInv
    <3>2. PlanStands(t)'
      BY <1>1, <2>1, <2>4, <3>1 DEF Undisturbed, PlanStands, Refused, Applying, Replacing, AtSymbol,
           Plan, Report
    <3>3. Done(t)' = Done(t) \cup {s}
      BY <1>1, <1>2, <2>1, <2>4, <3>1 DEF Done, AtSymbol
    <3>4. /\ DOMAIN w = DOMAIN writes[t] \cup {s} /\ w[s] = Replay[rule][s][read[t]]
          /\ \A x \in DOMAIN writes[t] : x # s => w[x] = writes[t][x]
      OBVIOUS
    <3> HIDE DEF w
    <3>5. /\ DOMAIN w \subseteq names[t]
          /\ \A x \in DOMAIN w : w[x] = Replay[rule][x][stored[x]]
      BY <1>1, <1>2, <3>1, <3>4 DEF Undisturbed, PassStands, Replacing
    <3>6. \A x \in Done(t)' \ DOMAIN w : ~Required(Report(x))
      BY <1>1, <3>1, <3>3, <3>4 DEF Undisturbed, PassStands, Replacing
    <3> QED
      BY <2>1, <2>2, <2>4, <3>2, <3>5, <3>6 DEF Undisturbed, PassStands, Planning, Replacing, Verifying,
           Report
  <2> QED
    BY <2>5, <2>6, StepOfOne DEF OwnStep
<1> QED
  BY <1>3, <1>4
------------------------------------------------------------------------------
\* What others write, and a deployment, is a cause for everyone.
LEMMA WebhookKeeps ==
  ASSUME IInv, NEW s \in Symbols, NEW o \in Events[s], Webhook(s, o)
  PROVE  IInv'
<1>1. \A t \in Tools : disturbed'[t] # {}
  BY DEF Webhook
<1>2. derived' = [x \in Symbols |-> derived'[x]]
  <2> DEFINE rows == Replay[rule][s][stored'[s]]
  <2>1. derived' = [derived EXCEPT ![s] = rows]
    BY DEF Webhook
  <2> HIDE DEF rows
  <2> QED
    BY <2>1 DEF IInv, TypeOK
<1>3. OnTools(disturbed)'
  BY DEF Webhook, OnTools
<1>4. TypeOK'
  BY <1>2, <1>3 DEF Webhook, toolVars, IInv, TypeOK, OnTools
<1> QED
  BY <1>1, <1>4 DEF IInv, NoCause

LEMMA DeployKeeps ==
  ASSUME IInv, Deploy
  PROVE  IInv'
<1>1. TypeOK'
  BY DEF Deploy, toolVars, IInv, TypeOK, OnTools
<1>2. \A t \in Tools : disturbed'[t] # {}
  BY ReconciliationAssumption DEF Deploy
<1> QED
  BY <1>1, <1>2 DEF IInv, NoCause

LEMMA DryRunKeeps ==
  ASSUME IInv, NEW t \in Tools, NEW asked, DryRun(t, asked)
  PROVE  IInv'
<1>1. /\ pc[t] = "idle" /\ Missing(stored, derived, asked) = {}
      /\ request' = [request EXCEPT ![t] = asked]
      /\ reviewed' = [reviewed EXCEPT ![t] = Plan(Found(stored, derived, asked))]
      /\ disturbed' = [disturbed EXCEPT ![t] = {}]
      /\ UNCHANGED <<rule, stored, derived, holder, pc, todo, names, current, read, reports, writes>>
  BY DEF DryRun, Plan, Report
<1>2. /\ OnTools(request)' /\ OnTools(reviewed)' /\ OnTools(disturbed)'
      /\ request'[t] = asked /\ reviewed'[t] = Plan(Found(stored, derived, asked))
      /\ \A u \in Tools \ {t} : /\ request'[u] = request[u] /\ reviewed'[u] = reviewed[u]
                                /\ disturbed'[u] = disturbed[u]
  BY <1>1 DEF IInv, TypeOK, OnTools
<1>3. OwnStep(t)
  BY <1>1, <1>2 DEF IInv, TypeOK, OnTools, OwnStep, Kept
<1>4. Undisturbed(t)'
  <2>1. Plan(Found(stored, derived, request[t]))' = Plan(Found(stored, derived, asked))
    BY <1>1, <1>2 DEF Plan, Report
  <2> QED
    BY <1>1, <1>2, <2>1 DEF Undisturbed, PlanStands, PassStands, Refused, Applying, Planning,
                            Replacing, Verifying, AtSymbol
<1> QED
  BY <1>3, <1>4, StepOfOne DEF OwnStep

LEMMA BeginKeeps ==
  ASSUME IInv, NEW t \in Tools, NEW asked, Begin(t, asked)
  PROVE  IInv'
<1>1. pc[t] = "idle" /\ (reviewed[t] # NoPlan => asked = request[t])
  BY DEF Begin
<1>2. CASE Missing(stored, derived, asked) # {}
  <2>1. CASE reviewed[t] = NoPlan
    <3>1. Abort(t, "unknown")
      BY <1>2, <2>1 DEF Begin
    <3> QED
      BY <3>1, AbortKeeps DEF Ended, Refused
  <2>2. CASE reviewed[t] # NoPlan
    <3>1. Abort(t, "unavailable")
      BY <1>2, <2>2 DEF Begin
    <3>2. ~NoCause(t)
      BY <1>1, <1>2, <2>2 DEF IInv, Undisturbed, PlanStands
    <3> QED
      BY <3>1, <3>2, AbortKeeps DEF Ended, Refused
  <2> QED
    BY <2>1, <2>2
<1>3. CASE Missing(stored, derived, asked) = {}
  <2>1. /\ pc' = [pc EXCEPT ![t] = "lock"]
        /\ request' = [request EXCEPT ![t] = asked]
        /\ names' = [names EXCEPT ![t] = Found(stored, derived, asked)]
        /\ todo' = [todo EXCEPT ![t] = Found(stored, derived, asked)]
        /\ disturbed' = IF reviewed[t] = NoPlan THEN [disturbed EXCEPT ![t] = {}] ELSE disturbed
        /\ UNCHANGED <<rule, stored, derived, holder, reviewed, current, read, reports, writes>>
    BY <1>3 DEF Begin
  <2>2. /\ OnTools(request)' /\ OnTools(names)' /\ OnTools(todo)'
        /\ request'[t] = asked /\ names'[t] = Found(stored, derived, asked)
        /\ todo'[t] = Found(stored, derived, asked)
        /\ \A u \in Tools \ {t} : request'[u] = request[u] /\ names'[u] = names[u] /\ todo'[u] = todo[u]
    BY <2>1 DEF IInv, TypeOK, OnTools
  <2>3. /\ OnTools(disturbed)' /\ \A u \in Tools \ {t} : disturbed'[u] = disturbed[u]
        /\ reviewed[t] # NoPlan => disturbed'[t] = disturbed[t]
    BY <2>1 DEF IInv, TypeOK, OnTools
  <2>4. /\ pc'[t] = "lock" /\ pc' \in [Tools -> Stages] /\ \A u \in Tools \ {t} : pc'[u] = pc[u]
    BY <2>1 DEF IInv, TypeOK, Stages
  <2>5. OwnStep(t)
    BY <2>1, <2>2, <2>3, <2>4 DEF IInv, TypeOK, OnTools, OwnStep, Kept
  <2>6. NoCause(t)' => Undisturbed(t)'
    <3> SUFFICES ASSUME NoCause(t)' PROVE Undisturbed(t)'
      OBVIOUS
    <3>1. reviewed[t] # NoPlan => Undisturbed(t) /\ asked = request[t]
      BY <1>1, <2>1, <2>3, AuthorityStands DEF NoCause, IInv
    <3>2. reviewed[t] # NoPlan => reviewed[t] = Plan(Found(stored, derived, asked))
      BY <3>1 DEF Undisturbed, PlanStands
    <3>3. PlanStands(t)'
      <4>1. Plan(Found(stored, derived, request[t]))' = Plan(Found(stored, derived, asked))
        BY <2>1, <2>2 DEF Plan, Report
      <4> QED
        BY <1>3, <2>1, <2>2, <2>4, <3>2, <4>1 DEF PlanStands, Refused, Applying, Planning, AtSymbol
    <3>4. DOMAIN writes'[t] = {}
      BY <1>1, <2>1 DEF IInv, TypeOK
    <3> QED
      BY <2>4, <3>3, <3>4 DEF Undisturbed, PassStands, Planning, Replacing, Verifying
  <2> QED
    BY <2>5, <2>6, StepOfOne DEF OwnStep
<1> QED
  BY <1>2, <1>3

\* A commit is a cause for the others if it writes anything.
LEMMA CommitKeeps ==
  ASSUME IInv, NEW t \in Tools, Commit(t)
  PROVE  IInv'
<1>1. pc[t] = "verify"
  BY DEF Commit
<1>2. NoCause(t) => Resolved(t)
  BY <1>1 DEF IInv, Undisturbed, PassStands, Verifying, Resolved
<1>3. CASE ~Resolved(t)
  <2>1. Abort(t, "unresolved") /\ ~NoCause(t)
    BY <1>2, <1>3 DEF Commit
  <2> QED
    BY <2>1, AbortKeeps DEF Ended, Refused
<1>4. CASE Resolved(t)
  <2>1. /\ End(t, "applied") /\ derived' = View(t) /\ UNCHANGED <<rule, stored>>
        /\ disturbed' = [u \in Tools |-> IF u = t THEN disturbed[u]
                                         ELSE disturbed[u] \cup DOMAIN writes[t]]
    BY <1>4 DEF Commit
  <2>2. /\ pc' \in [Tools -> Stages] /\ pc'[t] = "applied" /\ reviewed'[t] = NoPlan
        /\ OnTools(request)' /\ OnTools(reviewed)' /\ OnTools(todo)' /\ OnTools(names)'
        /\ OnTools(current)' /\ OnTools(read)' /\ OnTools(reports)' /\ OnTools(writes)'
        /\ \A u \in Tools \ {t} : Kept(u)
    BY <2>1, EndKeeps DEF IInv, Ended
  <2>3. TypeOK'
    <3>1. derived' = [s \in Symbols |-> derived'[s]]
      BY <2>1 DEF View
    <3>2. OnTools(disturbed)'
      BY <2>1 DEF OnTools
    <3>3. \A u \in Tools : pc'[u] = "idle" => DOMAIN writes'[u] = {}
      BY <2>2 DEF IInv, TypeOK, Kept
    <3> QED
      BY <2>2, <3>1, <3>2, <3>3 DEF TypeOK
  <2>4. ASSUME NEW u \in Tools, NoCause(u)' PROVE Undisturbed(u)'
    <3>1. CASE u = t
      BY <2>2, <3>1 DEF Undisturbed, PlanStands, PassStands, Refused, Applying, Planning, Replacing,
                        Verifying, AtSymbol
    <3>2. CASE u # t
      <4>1. disturbed'[u] = disturbed[u] \cup DOMAIN writes[t]
        BY <2>1, <3>2
      <4>2. DOMAIN writes[t] = {} /\ disturbed[u] = {}
        BY <2>4, <4>1 DEF NoCause
      <4>3. derived' = derived
        BY <2>1, <4>2 DEF View, IInv, TypeOK
      <4>4. NoCause(u)
        BY <2>1, <2>4, <4>2, AuthorityStands DEF NoCause
      <4> QED
        BY <2>1, <2>2, <3>2, <4>3, <4>4, KeptStands DEF IInv
    <3> QED
      BY <3>1, <3>2
  <2> QED
    BY <2>3, <2>4 DEF IInv
<1> QED
  BY <1>3, <1>4

LEMMA Invariance ==
  ASSUME IInv, [Next]_vars
  PROVE  IInv'
<1>1. CASE \E s \in Symbols : \E o \in Events[s] : Webhook(s, o)
  BY <1>1, WebhookKeeps
<1>2. CASE Deploy
  BY <1>2, DeployKeeps
<1>3. CASE \E t \in Tools, asked \in Requests : DryRun(t, asked) \/ Begin(t, asked)
  BY <1>3, DryRunKeeps, BeginKeeps
<1>4. ASSUME NEW t \in Tools,
             \/ Lock(t) \/ Scope(t) \/ ReadObservations(t) \/ ReadRows(t)
             \/ CheckPlan(t) \/ Replace(t) \/ ReplaceFails(t) \/ Commit(t)
      PROVE  IInv'
  <2>1. CASE ReplaceFails(t)
    <3>1. Abort(t, "failed") /\ "failed" \in Ended \ Refused
      BY <2>1 DEF ReplaceFails, Ended, Refused
    <3> QED
      BY <3>1, AbortKeeps
  <2> QED
    BY <1>4, <2>1, LockKeeps, ScopeKeeps, ReadObservationsKeeps, ReadRowsKeeps, CheckPlanKeeps,
       ReplaceKeeps, CommitKeeps
<1>5. CASE UNCHANGED vars
  <2>1. TypeOK'
    BY <1>5 DEF vars, toolVars, IInv, TypeOK, OnTools
  <2>2. ASSUME NEW u \in Tools, NoCause(u)' PROVE Undisturbed(u)'
    <3>1. Kept(u) /\ disturbed'[u] = disturbed[u] /\ UNCHANGED <<rule, stored, derived>>
      BY <1>5 DEF vars, toolVars, Kept
    <3> QED
      BY <2>2, <3>1, AuthorityStands, KeptStands DEF NoCause, IInv
  <2> QED
    BY <2>1, <2>2 DEF IInv
<1> QED
  BY <1>1, <1>2, <1>3, <1>4, <1>5 DEF Next

LEMMA Initially ==
  ASSUME Init
  PROVE  IInv
<1>1. TypeOK
  <2>1. derived = [s \in Symbols |-> derived[s]]
    BY ReconciliationAssumption DEF Init
  <2>2. pc \in [Tools -> Stages] /\ DOMAIN NoWrites = {}
    BY DEF Init, Stages, NoWrites
  <2> QED
    BY <2>1, <2>2 DEF Init, TypeOK, OnTools
<1>2. \A t \in Tools : Undisturbed(t)
  BY DEF Init, Undisturbed, PlanStands, PassStands, Refused, Applying, Planning, Replacing,
         Verifying, AtSymbol
<1> QED
  BY <1>1, <1>2 DEF IInv

LEMMA Invariant == Spec => []IInv
BY Initially, Invariance, PTL DEF Spec

(* The rows are a function of the symbols, and every run of the tool has   *)
(* one of its stages, its own data, and no writes before it begins.        *)
THEOREM TypeCorrect == Spec => []TypeOK
<1>1. IInv => TypeOK
  BY DEF IInv
<1> QED
  BY <1>1, Invariant, PTL

(* An apply is refused only if someone else wrote one of the symbols or    *)
(* deployed a rule since its operator looked, or if the evidence of some   *)
(* symbol gives no authority.                                              *)
THEOREM RefusalTheorem == Spec => []RefusalsHaveACause
<1>1. IInv => RefusalsHaveACause
  BY DEF IInv, RefusalsHaveACause, Undisturbed, PlanStands, NoCause, HasAuthority
<1> QED
  BY <1>1, Invariant, PTL
------------------------------------------------------------------------------
(* What an apply commits, as long as every apply finds a symbol when it     *)
(* begins: one that found none goes on to all symbols, without their locks. *)
FoundASymbol == \A t \in Tools : pc[t] \in Applying => names[t] # {}

RowsOK ==
  /\ rule \in Rules
  /\ stored = [s \in Symbols |-> stored[s]]
  /\ holder = [s \in Symbols |-> holder[s]]
  /\ \A s \in Symbols : stored[s] \subseteq Events[s] /\ IsRows(derived[s])

\* What the verification of t reports on s.
Outcome(t, s) == CompareDerivedState(s, Replay[rule][s][stored[s]], View(t)[s])

\* What differed when t compared the plan.
Differing(t) == {s \in names[t] : Required(Report(s))}

\* An apply holds the locks of the symbols that it has passed in its first
\* loop, then those of all that it found, and reads nothing else.
Holds(t) ==
  /\ names[t] \subseteq Symbols /\ todo[t] \subseteq names[t]
  /\ \A s \in names[t] : pc[t] # "lock" \/ s \notin todo[t] => holder[s] = t
  /\ pc[t] \in AtSymbol => current[t] \in names[t] \ todo[t] /\ read[t] = stored[current[t]]

\* So what it has read, planned and written is still so.
Follows(t) ==
  /\ pc[t] \in Planning => DOMAIN writes[t] = {}
  /\ pc[t] \in {"plan", "plan_read"} => reports[t] = Plan(Done(t))
  /\ pc[t] \in Replacing \cup Verifying =>
       /\ reviewed[t] # NoPlan => reviewed[t] = Plan(names[t])
       /\ DOMAIN writes[t] \subseteq Differing(t)
       /\ \A s \in DOMAIN writes[t] : writes[t][s] = Replay[rule][s][stored[s]]
  /\ pc[t] \in Replacing => todo[t] \subseteq Differing(t)
  /\ pc[t] = "write" => current[t] \in Differing(t)
  /\ pc[t] \in Verifying => reports[t] = {Outcome(t, s) : s \in Done(t)}

Owned(t) ==
  /\ pc[t] \in Applying => Holds(t) /\ Follows(t)
  /\ pc[t] \notin Applying => DOMAIN writes[t] = {}

OwnedInv == RowsOK /\ \A t \in Tools : Owned(t)
------------------------------------------------------------------------------
\* What u holds stays as it is, and so does what u has made of it.
SafeFor(u) ==
  \A s \in Symbols : holder[s] = u =>
    holder'[s] = u /\ stored'[s] = stored[s] /\ derived'[s] = derived[s]

LEMMA OwnedStands ==
  ASSUME NEW u \in Tools, Owned(u), Kept(u), SafeFor(u), rule' = rule
  PROVE  Owned(u)'
<1>1. CASE pc[u] \notin Applying
  BY <1>1 DEF Owned, Kept
<1>2. CASE pc[u] = "lock"
  BY <1>2 DEF Owned, Kept, Holds, Follows, SafeFor, Applying, Planning, Replacing, Verifying, AtSymbol
<1>3. CASE pc[u] \in Applying /\ pc[u] # "lock"
  <2>1. \A s \in names[u] : /\ s \in Symbols /\ holder'[s] = u
                            /\ stored'[s] = stored[s] /\ derived'[s] = derived[s]
    BY <1>3 DEF Owned, Holds, SafeFor
  <2>2. \A s \in names[u] : Report(s)' = Report(s)
    BY <2>1 DEF Report
  <2>3. \A s \in names[u] : Outcome(u, s)' = Outcome(u, s)
    BY <2>1 DEF Outcome, View, Kept
  <2>4. Holds(u)'
    BY <1>3, <2>1 DEF Owned, Holds, Kept
  <2>5. Done(u)' = Done(u) /\ Done(u) \subseteq names[u] /\ names'[u] = names[u]
    BY DEF Done, Kept
  <2>6. Plan(Done(u))' = Plan(Done(u)) /\ Plan(names[u])' = Plan(names[u])
    BY <2>2, <2>5 DEF Plan
  <2>7. Differing(u)' = Differing(u)
    BY <2>2, <2>5 DEF Differing
  <2>8. {Outcome(u, s) : s \in Done(u)}' = {Outcome(u, s) : s \in Done(u)}
    BY <2>3, <2>5
  <2>9. \A s \in DOMAIN writes[u] : s \in Differing(u) => stored'[s] = stored[s]
    BY <2>1 DEF Differing
  <2>10. Follows(u)'
    BY <1>3, <2>6, <2>7, <2>8, <2>9 DEF Owned, Follows, Kept
  <2> QED
    BY <1>3, <2>4, <2>10 DEF Owned, Kept
<1> QED
  BY <1>1, <1>2, <1>3

LEMMA OwnedOfOne ==
  ASSUME OwnedInv, NEW t \in Tools, RowsOK', rule' = rule, Owned(t)',
         \A u \in Tools \ {t} : Kept(u) /\ SafeFor(u)
  PROVE  OwnedInv'
<1> SUFFICES ASSUME NEW u \in Tools PROVE Owned(u)'
  BY Zenon DEF OwnedInv
<1> QED
  BY OwnedStands DEF OwnedInv

\* Rows that do not differ are the same.
LEMMA SameRows ==
  ASSUME NEW s, NEW P, NEW R, IsRows(P), IsRows(R), ~Required(CompareDerivedState(s, P, R))
  PROVE  P = R
<1>1. P.active = R.active
  BY DEF Required, CompareDerivedState
<1>2. Keys(P.events) = Keys(R.events)
  BY DEF Required, CompareDerivedState
<1>3. \A k \in Keys(P.events) : {e \in P.events : e.key = k} = {e \in R.events : e.key = k}
  BY <1>2 DEF Required, CompareDerivedState
<1>4. \A e : (e \in P.events => e.key \in Keys(P.events)) /\ (e \in R.events => e.key \in Keys(R.events))
  BY DEF Keys
<1>5. \A e : e \in P.events <=> e \in R.events
  BY <1>2, <1>3, <1>4
<1>6. P.events = R.events
  BY <1>5
<1> QED
  BY <1>1, <1>6 DEF IsRows

\* A run ends, and its locks and uncommitted rows go.
LEMMA EndOwned ==
  ASSUME TypeOK, OwnedInv, NEW t \in Tools, NEW how \in Ended, End(t, how), rule' = rule,
         stored' = stored, \A u \in Tools \ {t} : SafeFor(u),
         \A s \in Symbols : IsRows(derived'[s])
  PROVE  OwnedInv'
<1>1. /\ pc'[t] = how /\ \A u \in Tools \ {t} : Kept(u)
  BY EndKeeps
<1>2. DOMAIN writes'[t] = {}
  BY DEF End, TypeOK, OnTools, NoWrites
<1>3. pc'[t] \notin Applying
  BY <1>1 DEF Ended, Refused, Applying, Planning, Replacing, Verifying
<1>4. RowsOK'
  BY DEF OwnedInv, RowsOK, End
<1> QED
  BY <1>1, <1>2, <1>3, <1>4, OwnedOfOne DEF Owned

LEMMA AbortOwned ==
  ASSUME TypeOK, OwnedInv, NEW t \in Tools, NEW why \in Ended, Abort(t, why)
  PROVE  OwnedInv'
<1>1. /\ End(t, why) /\ UNCHANGED <<rule, stored, derived>>
      /\ holder' = [s \in Symbols |-> IF holder[s] = t THEN Free ELSE holder[s]]
  BY DEF Abort, End
<1>2. \A u \in Tools \ {t} : SafeFor(u)
  BY <1>1 DEF SafeFor
<1> QED
  BY <1>1, <1>2, EndOwned DEF OwnedInv, RowsOK
------------------------------------------------------------------------------
LEMMA LockOwned ==
  ASSUME TypeOK, OwnedInv, NEW t \in Tools, Lock(t)
  PROVE  OwnedInv'
<1>1. PICK s \in NextOf(todo[t]) : /\ holder[s] = Free
                                   /\ holder' = [holder EXCEPT ![s] = t]
                                   /\ todo' = [todo EXCEPT ![t] = @ \ {s}]
  BY DEF Lock
<1>2. /\ UNCHANGED <<rule, stored, derived, pc, request, reviewed, names, current, read, reports, writes>>
      /\ pc[t] = "lock"
  BY DEF Lock
<1>3. /\ todo'[t] = todo[t] \ {s} /\ s \in todo[t]
      /\ \A u \in Tools \ {t} : todo'[u] = todo[u]
  BY <1>1 DEF TypeOK, OnTools, NextOf
<1>4. Holds(t) /\ Follows(t) /\ s \in Symbols
  BY <1>2, <1>3 DEF OwnedInv, Owned, Holds, Applying, Planning
<1>5. /\ holder' = [x \in Symbols |-> holder'[x]] /\ holder'[s] = t
      /\ \A x \in Symbols : x # s => holder'[x] = holder[x]
  BY <1>1, <1>4 DEF OwnedInv, RowsOK
<1>6. \A u \in Tools \ {t} : Kept(u) /\ SafeFor(u)
  BY <1>1, <1>2, <1>3, <1>5, ReconciliationAssumption DEF Kept, SafeFor
<1>7. RowsOK'
  BY <1>2, <1>5 DEF OwnedInv, RowsOK
<1>8. Owned(t)'
  BY <1>2, <1>3, <1>4, <1>5 DEF Owned, Holds, Follows, Applying, Planning, Replacing, Verifying, AtSymbol
<1> QED
  BY <1>2, <1>6, <1>7, <1>8, OwnedOfOne

\* A step of t that leaves the rows and the locks alone.
LEMMA OwnedByOwnStep ==
  ASSUME OwnedInv, NEW t \in Tools, UNCHANGED <<rule, stored, derived, holder>>, Owned(t)',
         \A u \in Tools \ {t} : Kept(u)
  PROVE  OwnedInv'
<1>1. RowsOK'
  BY DEF OwnedInv, RowsOK
<1>2. \A u \in Tools \ {t} : SafeFor(u)
  BY DEF SafeFor
<1> QED
  BY <1>1, <1>2, OwnedOfOne

LEMMA ScopeOwned ==
  ASSUME TypeOK, OwnedInv, FoundASymbol, NEW t \in Tools, Scope(t)
  PROVE  OwnedInv'
<1>1. pc[t] \in {"lock", "replace"} /\ todo[t] = {}
  BY DEF Scope
<1>2. CASE Missing(stored, View(t), names[t]) # {}
  <2>1. Abort(t, "unavailable")
    BY <1>2 DEF Scope
  <2> QED
    BY <2>1, AbortOwned DEF Ended, Refused
<1>3. CASE Missing(stored, View(t), names[t]) = {}
  <2>1. /\ pc' = [pc EXCEPT ![t] = IF @ = "lock" THEN "plan" ELSE "verify"]
        /\ todo' = [todo EXCEPT ![t] = Found(stored, View(t), names[t])]
        /\ reports' = [reports EXCEPT ![t] = {}]
        /\ UNCHANGED <<rule, stored, derived, holder, request, reviewed, names, current, read, writes>>
    BY <1>3 DEF Scope
  <2>2. Holds(t) /\ Follows(t) /\ names[t] # {}
    BY <1>1 DEF OwnedInv, Owned, FoundASymbol, Applying, Planning, Replacing
  <2>3. Found(stored, View(t), names[t]) = names[t]
    BY <1>3, <2>2 DEF Found, Missing
  <2>4. /\ todo'[t] = names[t] /\ reports'[t] = {}
        /\ \A u \in Tools \ {t} : todo'[u] = todo[u] /\ reports'[u] = reports[u]
    BY <2>1, <2>3 DEF TypeOK, OnTools
  <2>5. /\ pc[t] = "lock" => pc'[t] = "plan"
        /\ pc[t] = "replace" => pc'[t] = "verify"
        /\ \A u \in Tools \ {t} : pc'[u] = pc[u]
    BY <2>1 DEF TypeOK
  <2>6. \A u \in Tools \ {t} : Kept(u)
    BY <2>1, <2>4, <2>5 DEF Kept
  <2>7. Holds(t)'
    BY <1>1, <2>1, <2>2, <2>4, <2>5 DEF Holds, AtSymbol
  <2>8. Done(t)' = {}
    BY <2>1, <2>4 DEF Done
  <2>9. Plan(Done(t))' = {} /\ {Outcome(t, s) : s \in Done(t)}' = {}
    BY <2>8 DEF Plan
  <2>10. Plan(names[t])' = Plan(names[t]) /\ Differing(t)' = Differing(t)
    BY <2>1 DEF Plan, Differing, Report
  <2>11. Follows(t)'
    BY <1>1, <2>1, <2>2, <2>4, <2>5, <2>9, <2>10 DEF Follows, Planning, Replacing, Verifying
  <2>12. Owned(t)'
    BY <1>1, <2>5, <2>7, <2>11 DEF Owned, Applying, Planning, Replacing, Verifying
  <2> QED
    BY <2>1, <2>6, <2>12, OwnedByOwnStep
<1> QED
  BY <1>2, <1>3

LEMMA ReadObservationsOwned ==
  ASSUME TypeOK, OwnedInv, NEW t \in Tools, ReadObservations(t)
  PROVE  OwnedInv'
<1>1. PICK s \in NextOf(todo[t]) :
        /\ current' = [current EXCEPT ![t] = s]
        /\ read' = [read EXCEPT ![t] = stored[s]]
        /\ todo' = [todo EXCEPT ![t] = @ \ {s}]
  BY DEF ReadObservations
<1>2. /\ pc' = [pc EXCEPT ![t] = Reading[@]]
      /\ pc[t] \in {"plan", "verify", "replace"}
      /\ UNCHANGED <<rule, stored, derived, holder, request, reviewed, names, reports, writes>>
  BY DEF ReadObservations, Reading
<1>3. /\ pc[t] = "plan" => pc'[t] = "plan_read"
      /\ pc[t] = "verify" => pc'[t] = "verify_read"
      /\ pc[t] = "replace" => pc'[t] = "write"
      /\ \A u \in Tools \ {t} : pc'[u] = pc[u]
  BY <1>2 DEF TypeOK, Stages, Reading
<1>4. /\ current'[t] = s /\ read'[t] = stored[s] /\ todo'[t] = todo[t] \ {s} /\ s \in todo[t]
      /\ \A u \in Tools \ {t} : current'[u] = current[u] /\ read'[u] = read[u] /\ todo'[u] = todo[u]
  BY <1>1 DEF TypeOK, OnTools, NextOf
<1>5. \A u \in Tools \ {t} : Kept(u)
  BY <1>2, <1>3, <1>4 DEF Kept
<1>6. Holds(t) /\ Follows(t)
  BY <1>2 DEF OwnedInv, Owned, Applying, Planning, Replacing, Verifying
<1>7. Holds(t)'
  BY <1>2, <1>3, <1>4, <1>6 DEF Holds
<1>8. Done(t)' = Done(t)
  BY <1>2, <1>3, <1>4, <1>6 DEF Done, AtSymbol, Holds
<1>9. /\ Plan(Done(t))' = Plan(Done(t)) /\ Plan(names[t])' = Plan(names[t])
      /\ Differing(t)' = Differing(t)
      /\ {Outcome(t, x) : x \in Done(t)}' = {Outcome(t, x) : x \in Done(t)}
  BY <1>2, <1>8 DEF Plan, Differing, Report, Outcome, View
<1>10. Follows(t)'
  BY <1>2, <1>3, <1>4, <1>6, <1>9 DEF Follows, Planning, Replacing, Verifying
<1>11. Owned(t)'
  BY <1>2, <1>3, <1>7, <1>10 DEF Owned, Applying, Planning, Replacing, Verifying
<1> QED
  BY <1>2, <1>5, <1>11, OwnedByOwnStep

LEMMA ReadRowsOwned ==
  ASSUME TypeOK, OwnedInv, NEW t \in Tools, ReadRows(t)
  PROVE  OwnedInv'
<1> DEFINE s == current[t]
           r == CompareDerivedState(s, Replay[rule][s][read[t]], View(t)[s])
<1>1. pc[t] \in {"plan_read", "verify_read"}
  BY DEF ReadRows
<1>2. Holds(t) /\ Follows(t)
  BY <1>1 DEF OwnedInv, Owned, Applying, Planning, Verifying
<1>3. s \in names[t] \ todo[t] /\ s \in Symbols /\ read[t] = stored[s]
  BY <1>1, <1>2 DEF Holds, AtSymbol
<1>4. CASE View(t)[s].active = NoMRZ
  <2>1. Abort(t, "unavailable")
    BY <1>4 DEF ReadRows
  <2> QED
    BY <2>1, AbortOwned DEF Ended, Refused
<1>5. CASE View(t)[s].active # NoMRZ
  <2>1. /\ pc' = [pc EXCEPT ![t] = IF @ = "plan_read" THEN "plan" ELSE "verify"]
        /\ reports' = [reports EXCEPT ![t] = @ \cup {r}]
        /\ read' = [read EXCEPT ![t] = {}]
        /\ UNCHANGED <<rule, stored, derived, holder, request, reviewed, todo, names, current, writes>>
    BY <1>5 DEF ReadRows
  <2>2. r = Outcome(t, s)
    BY <1>3 DEF Outcome
  <2>3. reports'[t] = reports[t] \cup {r} /\ \A u \in Tools \ {t} : reports'[u] = reports[u]
    <3> HIDE DEF r
    <3> QED
      BY <2>1 DEF TypeOK, OnTools
  <2>4. \A u \in Tools \ {t} : read'[u] = read[u]
    BY <2>1 DEF TypeOK, OnTools
  <2>5. /\ pc[t] = "plan_read" => pc'[t] = "plan"
        /\ pc[t] = "verify_read" => pc'[t] = "verify"
        /\ \A u \in Tools \ {t} : pc'[u] = pc[u]
    BY <1>1, <2>1 DEF TypeOK, Stages
  <2>6. \A u \in Tools \ {t} : Kept(u)
    BY <2>1, <2>3, <2>4, <2>5 DEF Kept
  <2>7. Holds(t)'
    BY <1>1, <1>2, <2>1, <2>5 DEF Holds, AtSymbol
  <2>8. Done(t)' = Done(t) \cup {s}
    BY <1>1, <1>3, <2>1, <2>5 DEF Done, AtSymbol
  <2>9. /\ Plan(names[t])' = Plan(names[t]) /\ Differing(t)' = Differing(t)
        /\ \A x : Report(x)' = Report(x) /\ Outcome(t, x)' = Outcome(t, x)
    BY <2>1 DEF Plan, Differing, Report, Outcome, View
  <2>10. CASE pc[t] = "plan_read"
    <3>1. Outcome(t, s) = Report(s)
      BY <1>2, <1>3, <2>10 DEF Outcome, Report, View, Follows, Planning
    <3>2. Plan(Done(t))' = Plan(Done(t)) \cup {Report(s)}
      BY <2>8, <2>9 DEF Plan
    <3>3. reports'[t] = Plan(Done(t))'
      BY <1>2, <2>2, <2>3, <2>10, <3>1, <3>2 DEF Follows
    <3> QED
      BY <1>2, <2>1, <2>5, <2>6, <2>7, <2>10, <3>3, OwnedByOwnStep
      DEF Owned, Follows, Applying, Planning, Replacing, Verifying
  <2>11. CASE pc[t] = "verify_read"
    <3>1. {Outcome(t, x) : x \in Done(t)}' = {Outcome(t, x) : x \in Done(t)} \cup {r}
      <4> HIDE DEF r
      <4> QED
        BY <2>2, <2>8, <2>9
    <3>2. reports'[t] = {Outcome(t, x) : x \in Done(t)}'
      BY <1>2, <2>3, <2>11, <3>1 DEF Follows, Verifying
    <3>3. Follows(t)'
      BY <1>2, <2>1, <2>5, <2>9, <2>11, <3>2 DEF Follows, Planning, Replacing, Verifying
    <3>4. Owned(t)'
      BY <2>5, <2>7, <2>11, <3>3 DEF Owned, Applying, Verifying
    <3> QED
      BY <2>1, <2>6, <3>4, OwnedByOwnStep
  <2> QED
    BY <1>1, <2>10, <2>11
<1> QED
  BY <1>4, <1>5

LEMMA CheckPlanOwned ==
  ASSUME TypeOK, OwnedInv, NEW t \in Tools, CheckPlan(t)
  PROVE  OwnedInv'
<1>1. pc[t] = "plan" /\ todo[t] = {}
  BY DEF CheckPlan
<1>2. CASE ~PlanExpected(t)
  <2>1. Abort(t, "plan_changed")
    BY <1>2 DEF CheckPlan
  <2> QED
    BY <2>1, AbortOwned DEF Ended, Refused
<1>3. CASE PlanExpected(t)
  <2> DEFINE left == {x.symbol : x \in {y \in reports[t] : Required(y)}}
  <2>1. /\ pc' = [pc EXCEPT ![t] = "replace"]
        /\ todo' = [todo EXCEPT ![t] = left]
        /\ reports' = [reports EXCEPT ![t] = {}]
        /\ UNCHANGED <<rule, stored, derived, holder, request, reviewed, names, current, read, writes>>
    BY <1>3 DEF CheckPlan
  <2>2. Holds(t) /\ Follows(t)
    BY <1>1 DEF OwnedInv, Owned, Applying, Planning
  <2>3. reports[t] = Plan(names[t])
    BY <1>1, <2>2 DEF Done, AtSymbol, Follows
  <2>4. left = Differing(t)
    <3>1. \A x : Report(x).symbol = x
      BY DEF Report, CompareDerivedState
    <3> QED
      BY <2>3, <3>1 DEF Plan, Differing
  <2> HIDE DEF left
  <2>5. /\ todo'[t] = left
        /\ \A u \in Tools \ {t} : todo'[u] = todo[u] /\ reports'[u] = reports[u]
    BY <2>1 DEF TypeOK, OnTools
  <2>6. pc'[t] = "replace" /\ \A u \in Tools \ {t} : pc'[u] = pc[u]
    BY <2>1 DEF TypeOK
  <2>7. \A u \in Tools \ {t} : Kept(u)
    BY <2>1, <2>5, <2>6 DEF Kept
  <2>8. Plan(names[t])' = Plan(names[t]) /\ Differing(t)' = Differing(t)
    BY <2>1 DEF Plan, Differing, Report
  <2>9. Holds(t)'
    BY <1>1, <2>1, <2>2, <2>4, <2>5, <2>6 DEF Holds, AtSymbol, Differing
  <2>10. Follows(t)'
    BY <1>1, <1>3, <2>1, <2>2, <2>3, <2>4, <2>5, <2>6, <2>8
    DEF Follows, PlanExpected, Planning, Replacing, Verifying
  <2>11. Owned(t)'
    BY <2>6, <2>9, <2>10 DEF Owned, Applying, Replacing
  <2> QED
    BY <2>1, <2>7, <2>11, OwnedByOwnStep
<1> QED
  BY <1>2, <1>3

LEMMA ReplaceOwned ==
  ASSUME TypeOK, OwnedInv, NEW t \in Tools, Replace(t)
  PROVE  OwnedInv'
<1> DEFINE s == current[t]
           w == [x \in DOMAIN writes[t] \cup {s} |->
                   IF x = s THEN Replay[rule][s][read[t]] ELSE writes[t][x]]
<1>1. pc[t] = "write"
  BY DEF Replace
<1>2. Holds(t) /\ Follows(t)
  BY <1>1 DEF OwnedInv, Owned, Applying, Replacing
<1>3. s \in names[t] \ todo[t] /\ read[t] = stored[s] /\ s \in Differing(t)
  BY <1>1, <1>2 DEF Holds, Follows, AtSymbol
<1>4. CASE View(t)[s].active = NoMRZ
  <2>1. Abort(t, "unavailable")
    BY <1>4 DEF Replace
  <2> QED
    BY <2>1, AbortOwned DEF Ended, Refused
<1>5. CASE View(t)[s].active # NoMRZ
  <2>1. /\ writes' = [writes EXCEPT ![t] = w]
        /\ pc' = [pc EXCEPT ![t] = "replace"]
        /\ read' = [read EXCEPT ![t] = {}]
        /\ UNCHANGED <<rule, stored, derived, holder, request, reviewed, todo, names, current, reports>>
    BY <1>5 DEF Replace
  <2>2. /\ DOMAIN w = DOMAIN writes[t] \cup {s} /\ w[s] = Replay[rule][s][read[t]]
        /\ \A x \in DOMAIN writes[t] : x # s => w[x] = writes[t][x]
    OBVIOUS
  <2> HIDE DEF w
  <2>3. writes'[t] = w /\ \A u \in Tools \ {t} : writes'[u] = writes[u] /\ read'[u] = read[u]
    BY <2>1 DEF TypeOK, OnTools
  <2>4. pc'[t] = "replace" /\ \A u \in Tools \ {t} : pc'[u] = pc[u]
    BY <2>1 DEF TypeOK
  <2>5. \A u \in Tools \ {t} : Kept(u)
    BY <2>1, <2>3, <2>4 DEF Kept
  <2>6. Plan(names[t])' = Plan(names[t]) /\ Differing(t)' = Differing(t)
    BY <2>1 DEF Plan, Differing, Report
  <2>7. Holds(t)'
    BY <1>1, <1>2, <2>1, <2>4 DEF Holds, AtSymbol
  <2>8. /\ DOMAIN w \subseteq Differing(t)
        /\ \A x \in DOMAIN w : w[x] = Replay[rule][x][stored[x]]
    BY <1>1, <1>2, <1>3, <2>2 DEF Follows, Replacing
  <2>9. Follows(t)'
    BY <1>1, <1>2, <2>1, <2>3, <2>4, <2>6, <2>8 DEF Follows, Planning, Replacing, Verifying
  <2>10. Owned(t)'
    BY <2>4, <2>7, <2>9 DEF Owned, Applying, Replacing
  <2> QED
    BY <2>1, <2>5, <2>10, OwnedByOwnStep
<1> QED
  BY <1>4, <1>5

\* A webhook writes no symbol that is locked.
LEMMA WebhookOwned ==
  ASSUME TypeOK, OwnedInv, NEW s \in Symbols, NEW o \in Events[s], Webhook(s, o)
  PROVE  OwnedInv'
<1> DEFINE rows == Replay[rule][s][stored'[s]]
<1>1. /\ holder[s] = Free /\ UNCHANGED <<rule, holder, toolVars>>
      /\ stored' = [stored EXCEPT ![s] = @ \cup {o}] /\ derived' = [derived EXCEPT ![s] = rows]
  BY DEF Webhook
<1>2. /\ stored' = [x \in Symbols |-> stored'[x]] /\ stored'[s] \subseteq Events[s]
      /\ \A x \in Symbols : x # s => stored'[x] = stored[x]
  BY <1>1 DEF OwnedInv, RowsOK
<1>3. IsRows(rows)
  BY <1>2, ReconciliationAssumption DEF OwnedInv, RowsOK
<1> HIDE DEF rows
<1>4. derived'[s] = rows /\ \A x \in Symbols : x # s => derived'[x] = derived[x]
  BY <1>1 DEF TypeOK
<1>5. RowsOK'
  BY <1>1, <1>2, <1>3, <1>4 DEF OwnedInv, RowsOK
<1>6. ASSUME NEW u \in Tools PROVE Owned(u)'
  <2>1. Kept(u)
    BY <1>1 DEF Kept, toolVars
  <2>2. SafeFor(u)
    BY <1>1, <1>2, <1>4, ReconciliationAssumption DEF SafeFor
  <2> QED
    BY <1>1, <2>1, <2>2, OwnedStands DEF OwnedInv
<1> QED
  BY <1>5, <1>6 DEF OwnedInv

\* Nothing is deployed while an apply is under way.
LEMMA DeployOwned ==
  ASSUME TypeOK, OwnedInv, Deploy
  PROVE  OwnedInv'
<1>1. /\ rule' \in Rules /\ UNCHANGED <<stored, derived, holder, toolVars>>
      /\ \A t \in Tools : pc[t] \in {"idle"} \cup Ended
  BY DEF Deploy
<1>2. RowsOK'
  BY <1>1 DEF OwnedInv, RowsOK
<1>3. \A t \in Tools : Owned(t)'
  BY <1>1 DEF OwnedInv, Owned, toolVars, Applying, Planning, Replacing, Verifying, Ended, Refused
<1> QED
  BY <1>2, <1>3 DEF OwnedInv

LEMMA DryRunOwned ==
  ASSUME TypeOK, OwnedInv, NEW t \in Tools, NEW asked, DryRun(t, asked)
  PROVE  OwnedInv'
<1> DEFINE plan == {CompareDerivedState(s, Replay[rule][s][stored[s]], derived[s]) :
                      s \in Found(stored, derived, asked)}
<1>1. /\ pc[t] = "idle"
      /\ request' = [request EXCEPT ![t] = asked]
      /\ reviewed' = [reviewed EXCEPT ![t] = plan]
      /\ UNCHANGED <<rule, stored, derived, holder, pc, todo, names, current, read, reports, writes>>
  BY DEF DryRun
<1> HIDE DEF plan
<1>2. \A u \in Tools \ {t} : Kept(u)
  BY <1>1 DEF TypeOK, OnTools, Kept
<1>3. Owned(t)'
  BY <1>1 DEF OwnedInv, Owned, Applying, Planning, Replacing, Verifying
<1> QED
  BY <1>1, <1>2, <1>3, OwnedByOwnStep

LEMMA BeginOwned ==
  ASSUME TypeOK, OwnedInv, NEW t \in Tools, NEW asked, Begin(t, asked)
  PROVE  OwnedInv'
<1>1. pc[t] = "idle"
  BY DEF Begin
<1>2. CASE Missing(stored, derived, asked) # {}
  <2>1. Abort(t, "unknown") \/ Abort(t, "unavailable")
    BY <1>2 DEF Begin
  <2> QED
    BY <2>1, AbortOwned DEF Ended, Refused
<1>3. CASE Missing(stored, derived, asked) = {}
  <2> DEFINE found == Found(stored, derived, asked)
  <2>1. /\ pc' = [pc EXCEPT ![t] = "lock"]
        /\ request' = [request EXCEPT ![t] = asked]
        /\ names' = [names EXCEPT ![t] = found]
        /\ todo' = [todo EXCEPT ![t] = found]
        /\ UNCHANGED <<rule, stored, derived, holder, reviewed, current, read, reports, writes>>
    BY <1>3 DEF Begin
  <2>2. found \subseteq Symbols
    BY DEF Found
  <2> HIDE DEF found
  <2>3. /\ names'[t] = found /\ todo'[t] = found
        /\ \A u \in Tools \ {t} : request'[u] = request[u] /\ names'[u] = names[u] /\ todo'[u] = todo[u]
    BY <2>1 DEF TypeOK, OnTools
  <2>4. pc'[t] = "lock" /\ \A u \in Tools \ {t} : pc'[u] = pc[u]
    BY <2>1 DEF TypeOK
  <2>5. \A u \in Tools \ {t} : Kept(u)
    BY <2>1, <2>3, <2>4 DEF Kept
  <2>6. Owned(t)'
    BY <1>1, <2>1, <2>2, <2>3, <2>4
    DEF TypeOK, Owned, Holds, Follows, Applying, Planning, Replacing, Verifying, AtSymbol
  <2> QED
    BY <2>1, <2>5, <2>6, OwnedByOwnStep
<1> QED
  BY <1>2, <1>3

\* What a commit writes is a difference of the plan, and in step.
Committed(t) ==
  /\ \A s \in names[t] : InStep(s)'
  /\ \A s \in Symbols : derived'[s] # derived[s] =>
       /\ holder[s] = t
       /\ s \in Differing(t) /\ derived'[s] = Replay[rule][s][stored[s]]

LEMMA CommitWrites ==
  ASSUME TypeOK, OwnedInv, NEW t \in Tools, Commit(t), Resolved(t)
  PROVE  Committed(t) /\ \A s \in Symbols : IsRows(derived'[s])
<1>1. pc[t] = "verify" /\ todo[t] = {}
  BY DEF Commit
<1>2. Holds(t) /\ Follows(t)
  BY <1>1 DEF OwnedInv, Owned, Applying, Verifying
<1>3. derived' = View(t) /\ UNCHANGED <<rule, stored>>
  BY DEF Commit
<1>4. \A s \in DOMAIN writes[t] : s \in Differing(t) /\ writes[t][s] = Replay[rule][s][stored[s]]
  BY <1>1, <1>2 DEF Follows, Verifying
<1>5. \A s \in Symbols : IsRows(Replay[rule][s][stored[s]])
  BY ReconciliationAssumption DEF OwnedInv, RowsOK
<1>6. \A s \in Symbols : IsRows(View(t)[s])
  BY <1>4, <1>5 DEF OwnedInv, RowsOK, View
<1>7. ASSUME NEW s \in names[t] PROVE InStep(s)'
  <2>1. s \in Symbols /\ s \in Done(t)
    BY <1>1, <1>2 DEF Holds, Done, AtSymbol
  <2>2. ~Required(Outcome(t, s))
    BY <1>1, <1>2, <2>1 DEF Follows, Verifying, Resolved
  <2>3. Replay[rule][s][stored[s]] = View(t)[s]
    BY <1>5, <1>6, <2>1, <2>2, SameRows DEF Outcome
  <2> QED
    BY <1>3, <2>3 DEF InStep
<1>8. \A s \in Symbols : derived'[s] # derived[s] => s \in DOMAIN writes[t]
  BY <1>3 DEF View
<1>9. \A s \in DOMAIN writes[t] : s \in Symbols => derived'[s] = writes[t][s]
  BY <1>3 DEF View
<1>10. \A s \in Differing(t) : holder[s] = t
  BY <1>1, <1>2 DEF Holds, Differing
<1> QED
  BY <1>3, <1>4, <1>6, <1>7, <1>8, <1>9, <1>10 DEF Committed

LEMMA CommitOwned ==
  ASSUME TypeOK, OwnedInv, NEW t \in Tools, Commit(t)
  PROVE  OwnedInv'
<1>1. CASE ~Resolved(t)
  <2>1. Abort(t, "unresolved")
    BY <1>1 DEF Commit
  <2> QED
    BY <2>1, AbortOwned DEF Ended, Refused
<1>2. CASE Resolved(t)
  <2>1. /\ End(t, "applied") /\ UNCHANGED <<rule, stored>>
        /\ holder' = [s \in Symbols |-> IF holder[s] = t THEN Free ELSE holder[s]]
    BY <1>2 DEF Commit, End
  <2>2. Committed(t) /\ \A s \in Symbols : IsRows(derived'[s])
    BY <1>2, CommitWrites
  <2>3. \A u \in Tools \ {t} : SafeFor(u)
    BY <2>1, <2>2 DEF SafeFor, Committed
  <2> QED
    BY <2>1, <2>2, <2>3, EndOwned DEF Ended
<1> QED
  BY <1>1, <1>2

LEMMA OwnedInvariance ==
  ASSUME TypeOK, FoundASymbol, OwnedInv, [Next]_vars
  PROVE  OwnedInv'
<1>1. CASE \E s \in Symbols : \E o \in Events[s] : Webhook(s, o)
  BY <1>1, WebhookOwned
<1>2. CASE Deploy
  BY <1>2, DeployOwned
<1>3. CASE \E t \in Tools, asked \in Requests : DryRun(t, asked) \/ Begin(t, asked)
  BY <1>3, DryRunOwned, BeginOwned
<1>4. ASSUME NEW t \in Tools,
             \/ Lock(t) \/ Scope(t) \/ ReadObservations(t) \/ ReadRows(t)
             \/ CheckPlan(t) \/ Replace(t) \/ ReplaceFails(t) \/ Commit(t)
      PROVE  OwnedInv'
  <2>1. CASE ReplaceFails(t)
    BY <2>1, AbortOwned DEF ReplaceFails, Ended
  <2> QED
    BY <1>4, <2>1, LockOwned, ScopeOwned, ReadObservationsOwned, ReadRowsOwned, CheckPlanOwned,
       ReplaceOwned, CommitOwned
<1>5. CASE UNCHANGED vars
  <2>1. RowsOK'
    BY <1>5 DEF vars, OwnedInv, RowsOK
  <2>2. \A u \in Tools : Kept(u) /\ SafeFor(u) /\ rule' = rule
    BY <1>5 DEF vars, toolVars, Kept, SafeFor
  <2> QED
    BY <2>1, <2>2, OwnedStands DEF OwnedInv
<1> QED
  BY <1>1, <1>2, <1>3, <1>4, <1>5 DEF Next

LEMMA OwnedInitially ==
  ASSUME Init
  PROVE  OwnedInv
<1>1. RowsOK
  BY ReconciliationAssumption DEF Init, RowsOK
<1>2. \A t \in Tools : Owned(t)
  BY DEF Init, Owned, Applying, Planning, Replacing, Verifying, NoWrites
<1> QED
  BY <1>1, <1>2 DEF OwnedInv

LEMMA OwnedInvariant == Spec /\ []FoundASymbol => []OwnedInv
BY OwnedInitially, OwnedInvariance, TypeCorrect, PTL DEF Spec

\* A step that makes an apply "applied" is its commit.
LEMMA OnlyCommits ==
  ASSUME TypeOK, [Next]_vars, NEW t \in Tools, pc[t] # "applied", pc'[t] = "applied"
  PROVE  Commit(t) /\ Resolved(t)
<1>1. ASSUME NEW u \in Tools, NEW why \in Ended \ {"applied"}, Abort(u, why) PROVE FALSE
  BY <1>1 DEF Abort, End, TypeOK
<1>2. ASSUME NEW u \in Tools, NEW asked, Begin(u, asked) PROVE FALSE
  BY <1>1, <1>2 DEF Begin, TypeOK, Ended, Refused
<1>3. ASSUME NEW u \in Tools, Scope(u) PROVE FALSE
  BY <1>1, <1>3 DEF Scope, TypeOK, Ended, Refused
<1>4. ASSUME NEW u \in Tools, ReadObservations(u) PROVE FALSE
  BY <1>4 DEF ReadObservations, Reading, TypeOK
<1>5. ASSUME NEW u \in Tools, ReadRows(u) PROVE FALSE
  BY <1>1, <1>5 DEF ReadRows, TypeOK, Ended, Refused
<1>6. ASSUME NEW u \in Tools, CheckPlan(u) PROVE FALSE
  BY <1>1, <1>6 DEF CheckPlan, TypeOK, Ended, Refused
<1>7. ASSUME NEW u \in Tools, Replace(u) \/ ReplaceFails(u) PROVE FALSE
  BY <1>1, <1>7 DEF Replace, ReplaceFails, TypeOK, Ended, Refused
<1>8. ASSUME NEW u \in Tools, Commit(u) PROVE Commit(t) /\ Resolved(t)
  BY <1>1, <1>8 DEF Commit, End, TypeOK, Ended, Refused
<1>9. UNCHANGED pc => FALSE
  OBVIOUS
<1> QED
  BY <1>2, <1>3, <1>4, <1>5, <1>6, <1>7, <1>8, <1>9
  DEF Next, Webhook, Deploy, DryRun, Lock, vars, toolVars

LEMMA CommitsFollow ==
  ASSUME TypeOK, OwnedInv, [Next]_vars, NEW t \in Tools, pc[t] # "applied", pc'[t] = "applied"
  PROVE  /\ Committed(t) /\ UNCHANGED <<rule, stored>>
         /\ reviewed[t] # NoPlan => reviewed[t] = Plan(names[t])
<1>1. Commit(t) /\ Resolved(t)
  BY OnlyCommits
<1>2. pc[t] = "verify" /\ UNCHANGED <<rule, stored>>
  BY <1>1 DEF Commit
<1>3. Follows(t)
  BY <1>2 DEF OwnedInv, Owned, Applying, Verifying
<1> QED
  BY <1>1, <1>2, <1>3, CommitWrites DEF Follows, Verifying

(* As long as every apply found a symbol when it began, an apply leaves    *)
(* every symbol that it was asked for in step with the evidence stored and *)
(* the rule deployed, whatever webhooks and other applies did meanwhile.   *)
THEOREM AppliedTheorem == Spec /\ []FoundASymbol => AppliedIsInStep
<1> DEFINE InStepAfter == \A t \in Tools : pc[t] # "applied" /\ pc'[t] = "applied" =>
                       \A s \in names[t] : InStep(s)'
<1>1. TypeOK /\ OwnedInv /\ [Next]_vars => InStepAfter
  BY CommitsFollow DEF Committed
<1>2. Spec => [][Next]_vars
  BY PTL DEF Spec
<1> HIDE DEF InStepAfter
<1>3. Spec /\ []FoundASymbol => [][InStepAfter]_vars
  BY <1>1, <1>2, OwnedInvariant, TypeCorrect, PTL
<1> QED
  BY <1>3 DEF InStepAfter, AppliedIsInStep

(* As long as every apply found a symbol when it began, what it commits    *)
(* under a reviewed plan is a difference of that plan, from the rows shown *)
(* to the rows shown.                                                      *)
THEOREM ReviewedTheorem == Spec /\ []FoundASymbol => OnlyReviewedChanges
<1> DEFINE Shown == \A t \in Tools : pc[t] # "applied" /\ pc'[t] = "applied" /\ reviewed[t] # NoPlan =>
              \A s \in Symbols : derived'[s] # derived[s] =>
                \E r \in reviewed[t] : /\ r.symbol = s /\ Required(r)
                                       /\ r.persisted = derived[s].active
                                       /\ r.replay = derived'[s].active
<1>1. TypeOK /\ OwnedInv /\ [Next]_vars => Shown
  <2> SUFFICES ASSUME TypeOK, OwnedInv, [Next]_vars,
                      NEW t \in Tools, pc[t] # "applied", pc'[t] = "applied", reviewed[t] # NoPlan,
                      NEW s \in Symbols, derived'[s] # derived[s]
               PROVE  \E r \in reviewed[t] : /\ r.symbol = s /\ Required(r)
                                             /\ r.persisted = derived[s].active
                                             /\ r.replay = derived'[s].active
    OBVIOUS
  <2>1. /\ s \in names[t] /\ Required(Report(s)) /\ derived'[s] = Replay[rule][s][stored[s]]
        /\ reviewed[t] = Plan(names[t])
    BY CommitsFollow DEF Committed, Differing
  <2>2. Report(s) \in reviewed[t]
    BY <2>1 DEF Plan
  <2>3. /\ Report(s).symbol = s /\ Report(s).persisted = derived[s].active
        /\ Report(s).replay = Replay[rule][s][stored[s]].active
    BY DEF Report, CompareDerivedState
  <2> QED
    BY <2>1, <2>2, <2>3
<1>2. Spec => [][Next]_vars
  BY PTL DEF Spec
<1> HIDE DEF Shown
<1>3. Spec /\ []FoundASymbol => [][Shown]_vars
  BY <1>1, <1>2, OwnedInvariant, TypeCorrect, PTL
<1> QED
  BY <1>3 DEF Shown, OnlyReviewedChanges
------------------------------------------------------------------------------
\* The locks that t holds belong to its run, and while it takes them they
\* come before those it has still to take.
Orderly(t) ==
  /\ pc[t] \notin Applying => \A s \in Symbols : holder[s] # t
  /\ pc[t] = "lock" => /\ todo[t] \subseteq Symbols
                       /\ \A s \in Symbols : holder[s] = t => \A x \in todo[t] : Rank[s] < Rank[x]

OrderInv == holder = [s \in Symbols |-> holder[s]] /\ \A t \in Tools : Orderly(t)

\* Apply t waits for the lock of s.
Waits(t, s) == pc[t] = "lock" /\ s \in NextOf(todo[t]) /\ holder[s] # Free

\* Along waits the names increase.
WaitsIncrease ==
  \A t, u \in Tools : \A s, x \in Symbols :
    Waits(t, s) /\ holder[s] = u /\ Waits(u, x) => Rank[s] < Rank[x]

LEMMA OrderlyStep ==
  ASSUME OrderInv, NEW t \in Tools, holder' = holder, Orderly(t)',
         \A u \in Tools \ {t} : Kept(u)
  PROVE  OrderInv'
BY DEF OrderInv, Orderly, Kept

LEMMA OrderlyEnd ==
  ASSUME TypeOK, OrderInv, NEW t \in Tools, NEW how \in Ended, End(t, how)
  PROVE  OrderInv'
<1>1. pc'[t] = how /\ \A u \in Tools \ {t} : Kept(u)
  BY EndKeeps
<1>2. pc'[t] # "lock" /\ \A s \in Symbols : holder'[s] # t
  BY <1>1, ReconciliationAssumption DEF End, Ended, Refused
<1>3. \A u \in Tools \ {t} : Orderly(u)'
  BY <1>1, ReconciliationAssumption DEF OrderInv, Orderly, Kept, End
<1> QED
  BY <1>2, <1>3 DEF OrderInv, Orderly, End

LEMMA OrderlyLock ==
  ASSUME TypeOK, OrderInv, NEW t \in Tools, Lock(t)
  PROVE  OrderInv'
<1>1. PICK s \in NextOf(todo[t]) : /\ holder[s] = Free
                                   /\ holder' = [holder EXCEPT ![s] = t]
                                   /\ todo' = [todo EXCEPT ![t] = @ \ {s}]
  BY DEF Lock
<1>2. UNCHANGED <<pc, request, reviewed, names, current, read, reports, writes>> /\ pc[t] = "lock"
  BY DEF Lock
<1>3. /\ todo'[t] = todo[t] \ {s} /\ s \in todo[t] /\ \A x \in todo[t] : Rank[s] <= Rank[x]
      /\ \A u \in Tools \ {t} : todo'[u] = todo[u]
  BY <1>1 DEF TypeOK, OnTools, NextOf
<1>4. todo[t] \subseteq Symbols /\ s \in Symbols
  BY <1>2, <1>3 DEF OrderInv, Orderly
<1>5. /\ holder' = [x \in Symbols |-> holder'[x]] /\ holder'[s] = t
      /\ \A x \in Symbols : x # s => holder'[x] = holder[x]
  BY <1>1, <1>4 DEF OrderInv
<1>6. \A x \in todo'[t] : Rank[s] < Rank[x]
  BY <1>3, <1>4, ReconciliationAssumption
<1>7. Orderly(t)'
  BY <1>2, <1>3, <1>4, <1>5, <1>6 DEF OrderInv, Orderly, Applying, Planning
<1>8. ASSUME NEW u \in Tools \ {t} PROVE Orderly(u)'
  BY <1>2, <1>3, <1>5 DEF OrderInv, Orderly
<1> QED
  BY <1>5, <1>7, <1>8 DEF OrderInv

LEMMA OrderlyBegin ==
  ASSUME TypeOK, OrderInv, NEW t \in Tools, NEW asked, Begin(t, asked)
  PROVE  OrderInv'
<1>1. pc[t] = "idle"
  BY DEF Begin
<1>2. CASE Missing(stored, derived, asked) # {}
  <2>1. Abort(t, "unknown") \/ Abort(t, "unavailable")
    BY <1>2 DEF Begin
  <2> QED
    BY <2>1, OrderlyEnd DEF Abort, Ended, Refused
<1>3. CASE Missing(stored, derived, asked) = {}
  <2>1. /\ pc' = [pc EXCEPT ![t] = "lock"] /\ holder' = holder
        /\ todo' = [todo EXCEPT ![t] = Found(stored, derived, asked)]
    BY <1>3 DEF Begin
  <2>2. \A u \in Tools \ {t} : pc'[u] = pc[u] /\ todo'[u] = todo[u]
    BY <2>1 DEF TypeOK, OnTools
  <2>3. todo'[t] \subseteq Symbols /\ \A s \in Symbols : holder[s] # t
    BY <1>1, <2>1 DEF TypeOK, OnTools, Found, OrderInv, Orderly, Applying, Planning, Replacing, Verifying
  <2>4. Orderly(t)'
    BY <2>1, <2>3 DEF TypeOK, Orderly, Applying, Planning
  <2> QED
    BY <2>1, <2>2, <2>4 DEF OrderInv, Orderly
<1> QED
  BY <1>2, <1>3

\* The steps of an apply that holds its locks.
LEMMA OrderlyRun ==
  ASSUME TypeOK, OrderInv, NEW t \in Tools, holder' = holder,
         NEW stage \in Applying \ {"lock"}, pc' = [pc EXCEPT ![t] = stage],
         \A u \in Tools \ {t} : todo'[u] = todo[u]
  PROVE  OrderInv'
BY DEF TypeOK, OrderInv, Orderly

LEMMA OrderInvariance ==
  ASSUME TypeOK, OrderInv, [Next]_vars
  PROVE  OrderInv'
<1>1. ASSUME NEW t \in Tools, NEW why \in Ended, Abort(t, why) PROVE OrderInv'
  BY <1>1, OrderlyEnd DEF Abort
<1>2. ASSUME NEW t \in Tools, Scope(t) PROVE OrderInv'
  <2>1. CASE Missing(stored, View(t), names[t]) # {}
    BY <1>1, <1>2, <2>1 DEF Scope, Ended, Refused
  <2>2. CASE Missing(stored, View(t), names[t]) = {}
    <3>1. PICK stage \in {"plan", "verify"} : pc' = [pc EXCEPT ![t] = stage]
      BY <1>2, <2>2 DEF Scope
    <3>2. holder' = holder /\ \A u \in Tools \ {t} : todo'[u] = todo[u]
      BY <1>2, <2>2 DEF Scope, TypeOK, OnTools
    <3> QED
      BY <3>1, <3>2, OrderlyRun DEF Applying, Planning, Verifying
  <2> QED
    BY <2>1, <2>2
<1>3. ASSUME NEW t \in Tools, ReadObservations(t) PROVE OrderInv'
  <2> DEFINE next == Reading[pc[t]]
  <2>1. next \in {"plan_read", "verify_read", "write"} /\ pc' = [pc EXCEPT ![t] = next]
    BY <1>3 DEF ReadObservations, Reading
  <2>2. holder' = holder /\ \A u \in Tools \ {t} : todo'[u] = todo[u]
    BY <1>3 DEF ReadObservations, TypeOK, OnTools
  <2> HIDE DEF next
  <2> QED
    BY <2>1, <2>2, OrderlyRun DEF Applying, Planning, Replacing, Verifying
<1>4. ASSUME NEW t \in Tools, ReadRows(t) PROVE OrderInv'
  <2>1. CASE View(t)[current[t]].active = NoMRZ
    BY <1>1, <1>4, <2>1 DEF ReadRows, Ended, Refused
  <2>2. CASE View(t)[current[t]].active # NoMRZ
    <3>1. PICK stage \in {"plan", "verify"} : pc' = [pc EXCEPT ![t] = stage]
      BY <1>4, <2>2 DEF ReadRows
    <3> QED
      BY <1>4, <2>2, <3>1, OrderlyRun DEF ReadRows, Applying, Planning, Verifying
  <2> QED
    BY <2>1, <2>2
<1>5. ASSUME NEW t \in Tools, CheckPlan(t) PROVE OrderInv'
  <2>1. CASE ~PlanExpected(t)
    BY <1>1, <1>5, <2>1 DEF CheckPlan, Ended, Refused
  <2>2. CASE PlanExpected(t)
    <3>1. pc' = [pc EXCEPT ![t] = "replace"] /\ holder' = holder
          /\ \A u \in Tools \ {t} : todo'[u] = todo[u]
      BY <1>5, <2>2 DEF CheckPlan, TypeOK, OnTools
    <3> QED
      BY <3>1, OrderlyRun DEF Applying, Replacing
  <2> QED
    BY <2>1, <2>2
<1>6. ASSUME NEW t \in Tools, Replace(t) PROVE OrderInv'
  <2>1. CASE View(t)[current[t]].active = NoMRZ
    BY <1>1, <1>6, <2>1 DEF Replace, Ended, Refused
  <2>2. CASE View(t)[current[t]].active # NoMRZ
    <3>1. pc' = [pc EXCEPT ![t] = "replace"] /\ holder' = holder /\ todo' = todo
      BY <1>6, <2>2 DEF Replace
    <3> QED
      BY <3>1, OrderlyRun DEF Applying, Replacing
  <2> QED
    BY <2>1, <2>2
<1>7. ASSUME NEW t \in Tools, ReplaceFails(t) \/ Commit(t) PROVE OrderInv'
  BY <1>1, <1>7, OrderlyEnd DEF ReplaceFails, Commit, Ended, Refused
<1>8. ASSUME UNCHANGED <<pc, todo, holder>> PROVE OrderInv'
  BY <1>8 DEF OrderInv, Orderly
<1>9. ASSUME NEW s \in Symbols, NEW o \in Events[s], Webhook(s, o) PROVE OrderInv'
  BY <1>8, <1>9 DEF Webhook, toolVars
<1>10. ASSUME Deploy \/ UNCHANGED vars PROVE OrderInv'
  BY <1>8, <1>10 DEF Deploy, vars, toolVars
<1>11. ASSUME NEW t \in Tools, NEW asked, DryRun(t, asked) PROVE OrderInv'
  BY <1>8, <1>11 DEF DryRun
<1> QED
  BY <1>2, <1>3, <1>4, <1>5, <1>6, <1>7, <1>9, <1>10, <1>11, OrderlyLock, OrderlyBegin DEF Next

LEMMA OrderInitially ==
  ASSUME Init
  PROVE  OrderInv
BY ReconciliationAssumption DEF Init, OrderInv, Orderly

(* The safety half of AppliesEnd: when an apply waits for a symbol whose   *)
(* lock is held by an apply that waits itself, the latter waits for a      *)
(* symbol of a later name, so no applies wait for each other in a circle,  *)
(* whatever symbols their operators named or they found.                   *)
THEOREM LockOrderTheorem == Spec => []WaitsIncrease
<1>1. OrderInv => WaitsIncrease
  BY DEF OrderInv, Orderly, WaitsIncrease, Waits, NextOf
<1> QED
  BY <1>1, OrderInitially, OrderInvariance, TypeCorrect, PTL DEF Spec
==============================================================================

--------------------------- MODULE MCReconciliation ---------------------------
(* Two symbols and two applies.  Each observation that is received moves   *)
(* the authority of its symbol; "late", received by ALPHA, withdraws it.   *)
(* The second rule draws another authority from the evidence of BETA.      *)
(* The rows an earlier rule left: a different authority, the same          *)
(* authority by another history, none, or one the rule does not have.      *)
EXTENDS Reconciliation, TLC

MCSymbols == {"ALPHA", "BETA"}
MCRank == "ALPHA" :> 1 @@ "BETA" :> 2
MCEvents == "ALPHA" :> {"a1", "a2", "late"} @@ "BETA" :> {"b1"}

Event(key, bounds) == [key |-> key, bounds |-> bounds]
Rows(active, events) == [active |-> active, events |-> events]
Nothing == Rows(NoMRZ, {})

Alpha(E) ==
  IF "late" \in E \/ "a1" \notin E THEN Nothing
  ELSE IF "a2" \in E THEN Rows("A2", {Event("1:a1", "A1"), Event("2:a2", "A2")})
  ELSE Rows("A1", {Event("1:a1", "A1")})

Beta(E) == IF E = {} THEN Nothing ELSE Rows("B1", {Event("1:b1", "B1")})
NextBeta(E) == IF E = {} THEN Nothing ELSE Rows("B2", {Event("1:b1", "B2")})

Rule(B(_)) == "ALPHA" :> [E \in SUBSET {"a1", "a2", "late"} |-> Alpha(E)]
           @@ "BETA" :> [E \in SUBSET {"b1"} |-> B(E)]
MCReplay == <<Rule(Beta), Rule(NextBeta)>>

Left(alpha, alphaRows, beta, betaRows) ==
  [stored |-> "ALPHA" :> alpha @@ "BETA" :> beta,
   derived |-> "ALPHA" :> alphaRows @@ "BETA" :> betaRows]

MCDeployed ==
  {Left({"a2"}, Nothing, {}, Nothing),
   Left({"a1"}, Nothing, {"b1"}, Rows("B0", {Event("1:b1", "B0")})),
   Left({"a1"}, Rows("A0", {Event("1:a1", "A0")}), {"b1"}, Beta({"b1"})),
   Left({"a1", "a2"}, Rows("A2", {Event("1:a2", "A2")}), {"b1"}, Rows("B0", {Event("1:b1", "B0")})),
   Left({"a1", "late"}, Rows("A1", {Event("1:a1", "A1")}), {"b1"}, Rows("B0", {Event("1:b1", "B0")}))}

MCRequests == {{}, {"ALPHA"}}
==============================================================================

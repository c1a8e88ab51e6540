----------------------------- MODULE PushContract -----------------------------
(***************************************************************************)
(* What push delivery promises for a pair of notification and subscription *)
(* (docs/web-push.md), without passes, claims, listings or crashes: at     *)
(* most MaxAttempts attempts one after another, each pushed at most once;  *)
(* only a retryable failure is followed by another attempt; success and    *)
(* refusal are terminal, and success means that the device has it.         *)
(***************************************************************************)
EXTENDS Naturals

CONSTANTS Pair, MaxAttempts

VARIABLES tries,     \* attempts made of each pair
          outcome,   \* the outcome of the last one, "NONE" before the first
          pushes     \* pushes that reached the device

vars == <<tries, outcome, pushes>>

Init ==
  /\ tries = [p \in Pair |-> 0]
  /\ outcome = [p \in Pair |-> "NONE"]
  /\ pushes = [p \in Pair |-> 0]

Attempt(p) ==
  /\ outcome[p] \in {"NONE", "RETRYABLE"} /\ tries[p] < MaxAttempts
  /\ tries' = [tries EXCEPT ![p] = @ + 1]
  /\ outcome' = [outcome EXCEPT ![p] = "CLAIMED"]
  /\ UNCHANGED pushes

Push(p) ==
  /\ outcome[p] = "CLAIMED" /\ pushes[p] < tries[p]
  /\ pushes' = [pushes EXCEPT ![p] = @ + 1]
  /\ UNCHANGED <<tries, outcome>>

Settle(p, result) ==
  /\ outcome[p] = "CLAIMED"
  /\ result = "DELIVERED" => pushes[p] > 0
  /\ outcome' = [outcome EXCEPT ![p] = result]
  /\ UNCHANGED <<tries, pushes>>

Next == \E p \in Pair : \/ Attempt(p) \/ Push(p)
                        \/ \E result \in {"DELIVERED", "RETRYABLE", "FAILED"} : Settle(p, result)

Spec == Init /\ [][Next]_vars
===============================================================================

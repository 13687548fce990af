----------------------------- MODULE SpendLedger -----------------------------
(***************************************************************************)
(* What limitabl-core's budget tracker promises: a verdict is a function   *)
(* of every charge ever reported for the key, of which only those of the   *)
(* last period count, and of which a cost that is not a finite number >= 0 *)
(* is worth nothing.                                                       *)
(***************************************************************************)
EXTENDS Integers, FiniteSets, FiniteSetsExt

CONSTANTS
  Keys,         \* resolved limit keys
  None,         \* "no verdict yet"
  Costs,        \* what callers report as spent
  Estimates,    \* what callers announce before a call
  MaxSpend,     \* BudgetConfig.maxSpend
  PeriodMs      \* BudgetConfig.periodMs

VARIABLES
  now,          \* Date.now()
  ledger,       \* ledger[k]: every charge ever reported for k
  verdict       \* the last answer given, and the key it was for

vars == <<now, ledger, verdict>>

Worth(cost) == IF cost \in Nat THEN cost ELSE 0

Spent(k, t) ==
  MapThenSumSet(LAMBDA r : Worth(r.cost),
                {r \in ledger[k] : r.at > t - PeriodMs})

Init ==
  /\ now = 0
  /\ ledger = [k \in Keys |-> {}]
  /\ verdict = None

Tick ==
  /\ now' \in Nat
  /\ now' > now
  /\ UNCHANGED <<ledger, verdict>>

(* One more charge to k.                                                   *)
Post(k, cost) ==
  ledger' = [ledger EXCEPT ![k] =
    @ \cup {[nth |-> Cardinality(@) + 1, at |-> now, cost |-> cost]}]

Charge(k) ==
  /\ \E cost \in Costs : Post(k, cost)
  /\ UNCHANGED <<now, verdict>>

Query(k) ==
  /\ \E estimate \in Estimates :
       verdict' = [key          |-> k,
                   allowed      |-> Spent(k, now) + Worth(estimate) <= MaxSpend,
                   currentSpend |-> Spent(k, now)]
  /\ UNCHANGED <<now, ledger>>

Next == Tick \/ \E k \in Keys : Charge(k) \/ Query(k)

Spec == Init /\ [][Next]_vars
==============================================================================

---------------------------- MODULE BudgetTracker ----------------------------
(***************************************************************************)
(* packages/limitabl-core/src/budgetTracker.ts: InMemoryBudgetTracker, a   *)
(* Map from resolved keys to arrays of UsageRecords, trimmed by a          *)
(* setInterval cleanup alone.                                              *)
(*                                                                         *)
(* An array of records is a set of [nth, at, cost], nth numbering the      *)
(* records of a key.  Costs are integers or one of JavaScript's non-finite *)
(* numbers; sums and comparisons treat those as JavaScript does.           *)
(***************************************************************************)
EXTENDS Integers, FiniteSets, FiniteSetsExt, LimitKeys, Sanitize

CONSTANTS
  Costs,        \* what callers report as spent: integers, NaN, Infinity
  Estimates,    \* what they estimate before a call: likewise, or Undefined
  MaxSpend,     \* config.maxSpend
  PeriodMs,     \* config.periodMs
  Steps,        \* by how many milliseconds the clock may advance at once
  MaxTime,      \* bound on the clock
  MaxRecords    \* bound on the records of one key

ASSUME BudgetAssumption ==
  /\ Costs \subseteq Int \cup {NaN, Infinity}
  /\ Estimates \subseteq Int \cup {NaN, Infinity, Undefined}
  /\ MaxSpend \in Nat
  /\ PeriodMs \in Nat \ {0}
  /\ Steps \subseteq Nat \ {0}
  /\ MaxTime \in Nat
  /\ MaxRecords \in Nat

VARIABLES
  now,          \* Date.now()
  budgets,      \* this.budgets: a function on the keys the Map holds
  cleanupAt,    \* when the interval timer is next due; None after destroy()
  ledger,       \* history: every charge ever reported, as reported
  verdict       \* history: the last BudgetCheckResult, and the key it is for

vars == <<now, budgets, cleanupAt, ledger, verdict>>

-----------------------------------------------------------------------------
(* records.reduce((sum, r) => sum + r.cost, 0)                             *)
SumOf(records) ==
  IF \E r \in records : r.cost = NaN THEN NaN
  ELSE IF \E r \in records : r.cost = Infinity THEN Infinity
  ELSE MapThenSumSet(LAMBDA r : r.cost, records)

Plus(a, b) ==
  IF NaN \in {a, b} THEN NaN
  ELSE IF Infinity \in {a, b} THEN Infinity
  ELSE a + b

(* a > b, false when a is NaN                                              *)
Exceeds(a, b) == a # NaN /\ (a = Infinity \/ a > b)

(* records.filter((r) => r.timestamp > periodStart)                        *)
InPeriod(records) == {r \in records : r.at > now - PeriodMs}

Entry(k) == IF k \in DOMAIN budgets THEN budgets[k] ELSE {}

GetCurrentSpend(k) == SumOf(InPeriod(Entry(k)))

(* A slip: the cleanup takes the whole Map entry when its oldest record    *)
(* has expired.                                                            *)
CleanupDropsEntry ==
  /\ cleanupAt # None
  /\ now >= cleanupAt
  /\ budgets' = [k \in {x \in DOMAIN budgets : InPeriod(budgets[x]) = budgets[x]}
                   |-> budgets[k]]
  /\ cleanupAt' = now + PeriodMs \div 10
  /\ UNCHANGED <<now, ledger, verdict>>

(* A slip: the cleanup trims the arrays and forgets to delete empty ones.  *)
CleanupKeepsEmpty ==
  /\ cleanupAt # None
  /\ now >= cleanupAt
  /\ budgets' = [k \in DOMAIN budgets |-> InPeriod(budgets[k])]
  /\ cleanupAt' = now + PeriodMs \div 10
  /\ UNCHANGED <<now, ledger, verdict>>

-----------------------------------------------------------------------------
(* constructor: an empty Map, and an interval of a tenth of the period.    *)
Init ==
  /\ now = 0
  /\ budgets = [k \in {} |-> {}]
  /\ cleanupAt = PeriodMs \div 10
  /\ ledger = [k \in Keys |-> {}]
  /\ verdict = None

Tick ==
  /\ \E d \in Steps : now' = now + d
  /\ now' <= MaxTime
  /\ UNCHANGED <<budgets, cleanupAt, ledger, verdict>>

(* check(): reads the Map and never changes it.                            *)
Check(c, estimatedCost) ==
  LET k              == ResolveKey(c)
      currentSpend   == GetCurrentSpend(k)
      effectiveSpend == Plus(currentSpend, SanitizeCost(estimatedCost))
  IN  /\ verdict' = [key          |-> k,
                      allowed      |-> ~Exceeds(effectiveSpend, MaxSpend),
                      currentSpend |-> currentSpend]
      /\ UNCHANGED <<now, budgets, cleanupAt, ledger>>

(* record(), with the timestamp limitabl's recordUsage gives it.           *)
Record(c, cost) ==
  LET k   == ResolveKey(c)
      nth == Cardinality(ledger[k]) + 1
      new == [nth |-> nth, at |-> now, cost |-> SanitizeCost(cost)]
  IN  /\ nth <= MaxRecords
      /\ budgets' = [x \in DOMAIN budgets \cup {k} |->
                       IF x = k THEN Entry(k) \cup {new} ELSE budgets[x]]
      /\ ledger' = [ledger EXCEPT ![k] =
                      @ \cup {[nth |-> nth, at |-> now, cost |-> cost]}]
      /\ UNCHANGED <<now, cleanupAt, verdict>>

(* The interval callback, which may run late but never early.              *)
Cleanup ==
  /\ cleanupAt # None
  /\ now >= cleanupAt
  /\ budgets' = [k \in {x \in DOMAIN budgets : InPeriod(budgets[x]) # {}}
                   |-> InPeriod(budgets[k])]
  /\ cleanupAt' = now + PeriodMs \div 10
  /\ UNCHANGED <<now, ledger, verdict>>

(* destroy(): clearInterval.                                               *)
Destroy ==
  /\ cleanupAt # None
  /\ cleanupAt' = None
  /\ UNCHANGED <<now, budgets, ledger, verdict>>

Next ==
  \/ Tick
  \/ \E c \in Callers, estimatedCost \in Estimates :
       Check(c, estimatedCost)
  \/ \E c \in Callers, cost \in Costs : Record(c, cost)
  \/ Cleanup
  \/ Destroy

Spec == Init /\ [][Next]_vars

-----------------------------------------------------------------------------
RecordType == [nth : Nat \ {0}, at : Nat, cost : Nat]

ChargeType == [nth : Nat \ {0}, at : Nat, cost : Costs]

Verdict == [key : Keys, allowed : BOOLEAN, currentSpend : Nat]

(* The state has its types: what is stored, and what is summed from it,    *)
(* is a finite number however wild the reported costs are.                 *)
TypeOK ==
  /\ now \in 0 .. MaxTime
  /\ DOMAIN budgets \subseteq Keys
  /\ budgets \in [DOMAIN budgets -> SUBSET RecordType]
  /\ cleanupAt \in Nat \cup {None}
  /\ ledger \in [Keys -> SUBSET ChargeType]
  /\ verdict \in Verdict \cup {None}

(* Spend goes down only because time has passed: no report, however        *)
(* negative or non-finite, and no cleanup gives a key its budget back.     *)
NoRefund ==
  [][now' = now =>
       \A k \in Keys : GetCurrentSpend(k)' >= GetCurrentSpend(k)]_vars

(* While the interval is not overdue, every key of the Map was charged in  *)
(* the last eleven tenths of a period.                                     *)
FootprintBound ==
  (cleanupAt # None /\ now <= cleanupAt) =>
    \A k \in DOMAIN budgets :
      \E r \in budgets[k] : r.at > now - PeriodMs - PeriodMs \div 10

(* Every verdict is the one the full list of reported charges demands,     *)
(* though the Map is trimmed, emptied and filled again in between.         *)
SL == INSTANCE SpendLedger
ImplementsLedger == SL!Spec
==============================================================================

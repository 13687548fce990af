------------------------- MODULE BudgetTrackerProofs -------------------------
(***************************************************************************)
(* The budget tracker answers from the full list of charges, for every set *)
(* of callers, every cost, every limit and every pace of the clock.        *)
(***************************************************************************)
EXTENDS BudgetTracker, FoldFacts

(* What record() files for a charge.                                       *)
Filed(r) == [nth |-> r.nth, at |-> r.at, cost |-> SanitizeCost(r.cost)]

Recent(k) == {r \in ledger[k] : r.at > now - PeriodMs}

(* The charges of a key are finite in number, and numbered apart.          *)
Numbered ==
  \A k \in Keys :
    /\ IsFiniteSet(ledger[k])
    /\ \A r \in ledger[k] : r.nth <= Cardinality(ledger[k]) /\ r.at <= now
    /\ \A r, s \in ledger[k] : r.nth = s.nth => r = s

(* The Map holds charges of the ledger only, and every one of the period.  *)
NothingForgotten ==
  /\ \A k \in DOMAIN budgets : \A b \in budgets[k] :
       \E r \in ledger[k] : b = Filed(r)
  /\ \A k \in Keys : \A r \in Recent(k) :
       k \in DOMAIN budgets /\ Filed(r) \in budgets[k]

(* The interval is never further off than its length, and when it is next  *)
(* due every key will still have been charged in the last eleven tenths.   *)
Touched ==
  cleanupAt # None =>
    /\ cleanupAt <= now + PeriodMs \div 10
    /\ \A k \in DOMAIN budgets : \E r \in budgets[k] :
         r.at > cleanupAt - PeriodMs - PeriodMs \div 10

StateType ==
  /\ now \in 0 .. MaxTime
  /\ DOMAIN budgets \subseteq Keys
  /\ budgets \in [DOMAIN budgets -> SUBSET RecordType]
  /\ cleanupAt \in Nat \cup {None}
  /\ ledger \in [Keys -> SUBSET ChargeType]

IInv == StateType /\ Numbered /\ NothingForgotten /\ Touched

-----------------------------------------------------------------------------
LEMMA Clamped ==
  ASSUME NEW cost \in Int \cup NonNumbers
  PROVE  SanitizeCost(cost) \in Nat /\ SL!Worth(cost) = SanitizeCost(cost)
BY NonNumbersAssumption DEF SanitizeCost, NonNumbers, SL!Worth

LEMMA CostsAreClamped ==
  /\ \A cost \in Costs : SanitizeCost(cost) \in Nat
                           /\ SL!Worth(cost) = SanitizeCost(cost)
  /\ \A cost \in Estimates : SanitizeCost(cost) \in Nat
                               /\ SL!Worth(cost) = SanitizeCost(cost)
BY BudgetAssumption, Clamped DEF NonNumbers

(* What is filed for the period is what was charged in it.                 *)
LEMMA InPeriodIsRecent ==
  ASSUME IInv, NEW k \in Keys
  PROVE  InPeriod(Entry(k)) = {Filed(r) : r \in Recent(k)}
<1>1. ASSUME NEW b \in InPeriod(Entry(k))
      PROVE  \E r \in Recent(k) : b = Filed(r)
  <2>1. k \in DOMAIN budgets /\ b \in budgets[k] /\ b.at > now - PeriodMs
    BY DEF InPeriod, Entry
  <2>2. PICK r \in ledger[k] : b = Filed(r)
    BY <2>1 DEF IInv, NothingForgotten
  <2>. QED
    BY <2>1, <2>2 DEF Filed, Recent
<1>2. ASSUME NEW r \in Recent(k)
      PROVE  Filed(r) \in InPeriod(Entry(k))
  BY DEF IInv, NothingForgotten, InPeriod, Entry, Recent, Filed
<1>. QED
  BY <1>1, <1>2

LEMMA RecentFacts ==
  ASSUME IInv, NEW k \in Keys
  PROVE  /\ IsFiniteSet(Recent(k))
         /\ Recent(k) \subseteq ChargeType
         /\ \A r, s \in Recent(k) : Filed(r) = Filed(s) => r = s
<1>1. IsFiniteSet(Recent(k))
  BY FS_Subset DEF Recent, IInv, Numbered
<1>2. Recent(k) \subseteq ChargeType
  BY DEF Recent, IInv, StateType
<1>3. ASSUME NEW r \in Recent(k), NEW s \in Recent(k), Filed(r) = Filed(s)
      PROVE  r = s
  <2>1. r.nth = s.nth
    BY <1>3 DEF Filed
  <2>. QED
    BY <2>1 DEF IInv, Numbered, Recent
<1>. QED
  BY <1>1, <1>2, <1>3

LEMMA SpentIsTotal ==
  ASSUME IInv, NEW k \in Keys
  PROVE  SL!Spent(k, now)
           = Total([r \in Recent(k) |-> SL!Worth(r.cost)], Recent(k))
<1>. DEFINE S == Recent(k)
<1>1. SL!Spent(k, now) = MapThenSumSet(LAMBDA r : Worth(r.cost), S)
  BY Zenon DEF SL!Spent, SL!Worth, Worth, SL!MapThenSumSet, SL!MapThenFoldSet,
               MapThenSumSet, MapThenFoldSet, Recent
<1>2. [r \in S |-> SL!Worth(r.cost)] = [r \in S |-> Worth(r.cost)]
  BY DEF SL!Worth, Worth
<1>. QED
  BY <1>1, <1>2, RecentFacts, WorthTotal, Zenon

(* The sum the tracker forms is the ledger's.                              *)
LEMMA SpendIsSpent ==
  ASSUME IInv, NEW k \in Keys
  PROVE  /\ GetCurrentSpend(k) = SL!Spent(k, now)
         /\ SL!Spent(k, now) \in Nat
<1>. DEFINE S == Recent(k)
            R == InPeriod(Entry(k))
            w == [r \in S |-> SL!Worth(r.cost)]
            v == [b \in R |-> b.cost]
            m == [r \in S |-> Filed(r)]
<1>1. R = {m[r] : r \in S}
  BY InPeriodIsRecent
<1>2. \A r \in S : w[r] \in Nat /\ v[m[r]] = w[r]
  <2>1. \A r \in S : r.cost \in Costs /\ m[r] \in R
    BY <1>1, RecentFacts DEF ChargeType
  <2>. QED
    BY <2>1, CostsAreClamped DEF Filed
<1>3. \A r, s \in S : m[r] = m[s] => r = s
  BY RecentFacts
<1>4. IsFiniteSet(S)
  BY RecentFacts
<1>5. \A b \in R : b.cost \in Nat
  BY <1>1, <1>2
<1>. HIDE DEF S, R, w, v, m
<1>6. IsFiniteSet(R) /\ Total(v, R) = Total(w, S)
  <2>1. /\ IsFiniteSet({m[r] : r \in S})
        /\ Total(v, {m[r] : r \in S}) = Total(w, S)
    BY <1>2, <1>3, <1>4, TotalImage
  <2>. QED
    BY <1>1, <2>1
<1>7. Total(w, S) \in Nat
  BY <1>2, <1>4, TotalNat
<1>8. SL!Spent(k, now) = Total(w, S)
  BY SpentIsTotal DEF S, w
<1>9. GetCurrentSpend(k) = MapThenSumSet(LAMBDA r : r.cost, R)
  <2>1. ~ \E b \in R : b.cost = NaN \/ b.cost = Infinity
    BY <1>5, NonNumbersAssumption DEF NonNumbers
  <2>. QED
    BY <2>1, Zenon DEF GetCurrentSpend, SumOf, R
<1>10. GetCurrentSpend(k) = Total(v, R)
  BY <1>5, <1>6, <1>9, CostsTotal, Zenon DEF v
<1>. QED
  BY <1>6, <1>7, <1>8, <1>10

-----------------------------------------------------------------------------
LEMMA InitIInv == Init => IInv
<1>. SUFFICES ASSUME Init PROVE IInv
  OBVIOUS
<1>1. DOMAIN budgets = {} /\ \A k \in Keys : ledger[k] = {}
  BY DEF Init
<1>2. StateType
  BY <1>1, BudgetAssumption DEF Init, StateType
<1>3. Numbered
  BY <1>1, FS_EmptySet DEF Numbered
<1>4. NothingForgotten
  BY <1>1 DEF NothingForgotten, Recent
<1>5. Touched
  BY <1>1, BudgetAssumption DEF Init, Touched
<1>. QED
  BY <1>2, <1>3, <1>4, <1>5 DEF IInv

(* Time and the end of the interval take charges out of the period.        *)
LEMMA TickIInv ==
  ASSUME IInv, Tick
  PROVE  IInv'
<1>1. PICK d \in Nat : now' = now + d /\ now' <= MaxTime
  BY BudgetAssumption DEF Tick
<1>2. now \in Nat /\ PeriodMs \in Nat
  BY BudgetAssumption DEF IInv, StateType
<1>3. UNCHANGED <<budgets, cleanupAt, ledger>>
  BY DEF Tick
<1>4. StateType'
  BY <1>1, <1>2, <1>3 DEF IInv, StateType
<1>5. Numbered'
  <2>1. \A k \in Keys : \A r \in ledger[k] : r.at \in Nat
    BY DEF IInv, StateType, ChargeType
  <2>. QED
    BY <1>1, <1>2, <1>3, <2>1 DEF IInv, Numbered
<1>6. NothingForgotten'
  <2>1. \A k \in Keys : \A r \in ledger[k] : r.at \in Nat
    BY DEF IInv, StateType, ChargeType
  <2>2. \A k \in Keys : Recent(k)' \subseteq Recent(k)
    BY <1>1, <1>2, <1>3, <2>1 DEF Recent
  <2>. QED
    BY <1>3, <2>2 DEF IInv, NothingForgotten, Filed
<1>7. Touched'
  <2>1. CASE cleanupAt # None
    <3>1. cleanupAt \in Nat /\ PeriodMs \div 10 \in Nat
      BY <1>2, <2>1 DEF IInv, StateType
    <3>. QED
      BY <1>1, <1>2, <1>3, <2>1, <3>1 DEF IInv, Touched
  <2>2. CASE cleanupAt = None
    BY <1>3, <2>2 DEF Touched
  <2>. QED
    BY <2>1, <2>2
<1>. QED
  BY <1>4, <1>5, <1>6, <1>7 DEF IInv

LEMMA RecordFacts ==
  ASSUME IInv, NEW c \in Callers, NEW cost \in Costs, Record(c, cost),
         NEW k, k = ResolveKey(c)
  PROVE  \E charge \in ChargeType :
           /\ k \in Keys
           /\ charge.cost = cost
           /\ charge.nth = Cardinality(ledger[k]) + 1
           /\ charge.at = now
           /\ Filed(charge) \in RecordType
           /\ ledger' = [ledger EXCEPT ![k] = @ \cup {charge}]
           /\ budgets' = [x \in DOMAIN budgets \cup {k} |->
                            IF x = k THEN Entry(k) \cup {Filed(charge)}
                            ELSE budgets[x]]
           /\ UNCHANGED <<now, cleanupAt, verdict>>
<1>. DEFINE charge == [nth |-> Cardinality(ledger[k]) + 1, at |-> now, cost |-> cost]
<1>1. k \in Keys
  BY DEF Keys
<1>2. Cardinality(ledger[k]) \in Nat /\ now \in Nat
  BY <1>1, FS_CardinalityType, BudgetAssumption DEF IInv, Numbered, StateType
<1>3. charge \in ChargeType
  BY <1>2 DEF ChargeType
<1>4. Filed(charge) \in RecordType
  BY <1>2, CostsAreClamped DEF Filed, RecordType
<1>5. Filed(charge) = [nth |-> Cardinality(ledger[k]) + 1, at |-> now,
                       cost |-> SanitizeCost(cost)]
  BY DEF Filed
<1>6. /\ ledger' = [ledger EXCEPT ![k] = @ \cup {charge}]
      /\ budgets' = [x \in DOMAIN budgets \cup {k} |->
                       IF x = k THEN Entry(k) \cup {Filed(charge)}
                       ELSE budgets[x]]
      /\ UNCHANGED <<now, cleanupAt, verdict>>
  BY <1>5 DEF Record
<1>. QED
  BY <1>1, <1>3, <1>4, <1>6

LEMMA RecordIInv ==
  ASSUME IInv, NEW c \in Callers, NEW cost \in Costs, Record(c, cost)
  PROVE  IInv'
<1>. DEFINE k == ResolveKey(c)
<1>1. PICK charge \in ChargeType :
        /\ k \in Keys
        /\ charge.nth = Cardinality(ledger[k]) + 1
        /\ charge.at = now
        /\ Filed(charge) \in RecordType
        /\ ledger' = [ledger EXCEPT ![k] = @ \cup {charge}]
        /\ budgets' = [x \in DOMAIN budgets \cup {k} |->
                         IF x = k THEN Entry(k) \cup {Filed(charge)}
                         ELSE budgets[x]]
        /\ UNCHANGED <<now, cleanupAt>>
  BY RecordFacts
<1>. HIDE DEF k
<1>2. /\ ledger'[k] = ledger[k] \cup {charge}
      /\ \A x \in Keys : x # k => ledger'[x] = ledger[x]
      /\ DOMAIN budgets' = DOMAIN budgets \cup {k}
      /\ budgets'[k] = Entry(k) \cup {Filed(charge)}
      /\ \A x \in DOMAIN budgets : x # k => budgets'[x] = budgets[x]
  BY <1>1 DEF IInv, StateType
<1>3. now \in Nat /\ PeriodMs \in Nat \ {0} /\ PeriodMs \div 10 \in Nat
  BY BudgetAssumption DEF IInv, StateType
<1>4. IsFiniteSet(ledger[k]) /\ Cardinality(ledger[k]) \in Nat
  BY <1>1, FS_CardinalityType DEF IInv, Numbered
<1>5. StateType'
  <2>1. ledger' \in [Keys -> SUBSET ChargeType]
    BY <1>1, <1>2 DEF IInv, StateType
  <2>2. Entry(k) \in SUBSET RecordType
    BY DEF Entry, IInv, StateType
  <2>3. \A x \in DOMAIN budgets' : budgets'[x] \in SUBSET RecordType
    BY <1>1, <1>2, <2>2 DEF IInv, StateType
  <2>. QED
    BY <1>1, <1>2, <2>1, <2>3 DEF IInv, StateType
<1>6. Numbered'
  <2>. SUFFICES ASSUME NEW x \in Keys
                PROVE  /\ IsFiniteSet(ledger'[x])
                       /\ \A r \in ledger'[x] :
                            r.nth <= Cardinality(ledger'[x]) /\ r.at <= now
                       /\ \A r, s \in ledger'[x] : r.nth = s.nth => r = s
    BY <1>1 DEF Numbered
  <2>1. CASE x = k
    <3>1. \A r \in ledger[k] : r.nth \in Nat /\ r.nth <= Cardinality(ledger[k])
      BY <1>1 DEF IInv, Numbered, StateType, ChargeType
    <3>2. charge \notin ledger[k]
      BY <1>1, <1>4, <3>1
    <3>3. /\ IsFiniteSet(ledger'[k])
          /\ Cardinality(ledger'[k]) = Cardinality(ledger[k]) + 1
      BY <1>2, <1>4, <3>2, FS_AddElement
    <3>4. \A r \in ledger'[k] : r.nth <= Cardinality(ledger'[k]) /\ r.at <= now
      BY <1>1, <1>2, <1>3, <1>4, <3>1, <3>3 DEF IInv, Numbered
    <3>5. \A r \in ledger[k] : r.nth # charge.nth
      BY <1>1, <1>4, <3>1
    <3>6. \A r, s \in ledger'[k] : r.nth = s.nth => r = s
      BY <1>1, <1>2, <3>5 DEF IInv, Numbered
    <3>. QED
      BY <2>1, <3>3, <3>4, <3>6
  <2>2. CASE x # k
    BY <1>2, <2>2 DEF IInv, Numbered
  <2>. QED
    BY <2>1, <2>2
<1>7. NothingForgotten'
  <2>1. ASSUME NEW x \in DOMAIN budgets', NEW b \in budgets'[x]
        PROVE  \E r \in ledger'[x] : b = Filed(r)
    <3>1. CASE x = k /\ b = Filed(charge)
      BY <1>2, <3>1
    <3>2. CASE ~(x = k /\ b = Filed(charge))
      <4>1. x \in DOMAIN budgets /\ b \in budgets[x] /\ x \in Keys
        BY <1>2, <2>1, <3>2 DEF Entry, IInv, StateType
      <4>2. PICK r \in ledger[x] : b = Filed(r)
        BY <4>1 DEF IInv, NothingForgotten
      <4>. QED
        BY <1>2, <4>1, <4>2
    <3>. QED
      BY <3>1, <3>2
  <2>2. ASSUME NEW x \in Keys, NEW r \in ledger'[x], r.at > now - PeriodMs
        PROVE  x \in DOMAIN budgets' /\ Filed(r) \in budgets'[x]
    <3>1. CASE x = k /\ r = charge
      BY <1>2, <3>1
    <3>2. CASE ~(x = k /\ r = charge)
      <4>1. r \in Recent(x)
        BY <1>2, <2>2, <3>2 DEF Recent
      <4>2. x \in DOMAIN budgets /\ Filed(r) \in budgets[x]
        BY <4>1 DEF IInv, NothingForgotten
      <4>. QED
        BY <1>2, <4>2 DEF Entry
    <3>. QED
      BY <3>1, <3>2
  <2>. QED
    BY <1>1, <2>1, <2>2 DEF NothingForgotten, Recent, Filed
<1>8. Touched'
  <2>. SUFFICES ASSUME cleanupAt # None
                PROVE  /\ cleanupAt <= now + PeriodMs \div 10
                       /\ \A x \in DOMAIN budgets' : \E r \in budgets'[x] :
                            r.at > cleanupAt - PeriodMs - PeriodMs \div 10
    BY <1>1 DEF Touched
  <2>1. /\ cleanupAt <= now + PeriodMs \div 10
        /\ \A x \in DOMAIN budgets : \E r \in budgets[x] :
             r.at > cleanupAt - PeriodMs - PeriodMs \div 10
        /\ cleanupAt \in Nat
    BY DEF IInv, Touched, StateType
  <2>2. Filed(charge).at > cleanupAt - PeriodMs - PeriodMs \div 10
    <3>1. Filed(charge).at = now
      BY <1>1 DEF Filed
    <3>. QED
      BY <1>3, <2>1, <3>1
  <2>3. \A x \in DOMAIN budgets' : \E r \in budgets'[x] :
          r.at > cleanupAt - PeriodMs - PeriodMs \div 10
    BY <1>2, <2>1, <2>2
  <2>. QED
    BY <2>1, <2>3
<1>. QED
  BY <1>5, <1>6, <1>7, <1>8 DEF IInv

LEMMA CleanupIInv ==
  ASSUME IInv, Cleanup
  PROVE  IInv'
<1>1. now \in Nat /\ PeriodMs \in Nat \ {0} /\ PeriodMs \div 10 \in Nat
  BY BudgetAssumption DEF IInv, StateType
<1>2. /\ DOMAIN budgets' = {k \in DOMAIN budgets : InPeriod(budgets[k]) # {}}
      /\ \A k \in DOMAIN budgets' : budgets'[k] = InPeriod(budgets[k])
      /\ budgets' = [k \in DOMAIN budgets' |-> budgets'[k]]
      /\ cleanupAt' = now + PeriodMs \div 10
      /\ UNCHANGED <<now, ledger>>
  BY DEF Cleanup
<1>3. \A k \in DOMAIN budgets : InPeriod(budgets[k]) \subseteq budgets[k]
  BY DEF InPeriod
<1>4. StateType'
  BY <1>1, <1>2, <1>3 DEF IInv, StateType
<1>5. Numbered'
  BY <1>2 DEF IInv, Numbered
<1>6. NothingForgotten'
  <2>1. ASSUME NEW k \in DOMAIN budgets', NEW b \in budgets'[k]
        PROVE  \E r \in ledger[k] : b = Filed(r)
    BY <1>2, <1>3 DEF IInv, NothingForgotten
  <2>2. ASSUME NEW k \in Keys, NEW r \in Recent(k)
        PROVE  k \in DOMAIN budgets' /\ Filed(r) \in budgets'[k]
    <3>1. k \in DOMAIN budgets /\ Filed(r) \in budgets[k]
      BY DEF IInv, NothingForgotten
    <3>2. Filed(r) \in InPeriod(budgets[k])
      BY <3>1 DEF InPeriod, Recent, Filed
    <3>. QED
      BY <1>2, <3>1, <3>2
  <2>. QED
    BY <1>2, <2>1, <2>2 DEF NothingForgotten, Recent, Filed
<1>7. Touched'
  <2>1. ASSUME NEW k \in DOMAIN budgets'
        PROVE  \E r \in budgets'[k] :
                 r.at > cleanupAt' - PeriodMs - PeriodMs \div 10
    <3>1. PICK r \in InPeriod(budgets[k]) : TRUE
      BY <1>2
    <3>2. k \in DOMAIN budgets /\ r \in budgets[k] /\ r.at > now - PeriodMs
      BY <1>2, <3>1 DEF InPeriod
    <3>3. r.at \in Nat
      BY <3>2 DEF IInv, StateType, RecordType
    <3>. QED
      BY <1>1, <1>2, <3>1, <3>2, <3>3
  <2>. QED
    BY <1>1, <1>2, <2>1 DEF Touched
<1>. QED
  BY <1>4, <1>5, <1>6, <1>7 DEF IInv

LEMMA SameIInv ==
  ASSUME IInv, UNCHANGED <<now, budgets, ledger>>, cleanupAt' \in {cleanupAt, None}
  PROVE  IInv'
<1>1. StateType'
  BY DEF IInv, StateType
<1>2. Numbered' /\ NothingForgotten'
  BY DEF IInv, Numbered, NothingForgotten, Recent, Filed
<1>3. Touched'
  BY DEF IInv, Touched
<1>. QED
  BY <1>1, <1>2, <1>3 DEF IInv

LEMMA NextIInv == IInv /\ [Next]_vars => IInv'
<1>. SUFFICES ASSUME IInv, [Next]_vars PROVE IInv'
  OBVIOUS
<1>1. ASSUME NEW c \in Callers, NEW estimate \in Estimates, Check(c, estimate)
      PROVE  IInv'
  BY <1>1, SameIInv DEF Check
<1>2. CASE Destroy
  BY <1>2, SameIInv DEF Destroy
<1>3. CASE UNCHANGED vars
  BY <1>3, SameIInv DEF vars
<1>. QED
  BY <1>1, <1>2, <1>3, TickIInv, RecordIInv, CleanupIInv DEF Next

LEMMA Mechanism == Spec => []IInv
BY InitIInv, NextIInv, PTL DEF Spec

-----------------------------------------------------------------------------
LEMMA AllSpent ==
  IInv => \A k \in Keys : /\ GetCurrentSpend(k) = SL!Spent(k, now)
                          /\ SL!Spent(k, now) \in Nat
BY SpendIsSpent

LEMMA AllTotals ==
  IInv => \A k \in Keys :
            /\ IsFiniteSet(Recent(k))
            /\ \A r \in Recent(k) : SL!Worth(r.cost) \in Nat
            /\ SL!Spent(k, now)
                 = Total([r \in Recent(k) |-> SL!Worth(r.cost)], Recent(k))
<1>. SUFFICES ASSUME IInv, NEW k \in Keys
              PROVE  /\ IsFiniteSet(Recent(k))
                     /\ \A r \in Recent(k) : SL!Worth(r.cost) \in Nat
                     /\ SL!Spent(k, now)
                          = Total([r \in Recent(k) |-> SL!Worth(r.cost)],
                                  Recent(k))
  OBVIOUS
<1>1. \A r \in Recent(k) : SL!Worth(r.cost) \in Nat
  BY DEF SL!Worth
<1>. QED
  BY <1>1, RecentFacts, SpentIsTotal

(* check() answers what a query of the ledger would be answered.           *)
LEMMA CheckIsQuery ==
  ASSUME IInv, NEW c \in Callers, NEW estimate \in Estimates, Check(c, estimate)
  PROVE  /\ SL!Query(ResolveKey(c))
         /\ ResolveKey(c) \in Keys
         /\ verdict' \in Verdict
<1>. DEFINE k     == ResolveKey(c)
            spent == SL!Spent(k, now)
            worth == SL!Worth(estimate)
<1>1. k \in Keys
  BY DEF Keys
<1>2. /\ GetCurrentSpend(k) = spent
      /\ spent \in Nat
  BY <1>1, SpendIsSpent
<1>3. SanitizeCost(estimate) = worth /\ worth \in Nat
  BY CostsAreClamped
<1>. HIDE DEF spent, worth
<1>4. /\ Plus(spent, worth) = spent + worth
      /\ (~Exceeds(spent + worth, MaxSpend)) = (spent + worth <= MaxSpend)
  BY <1>2, <1>3, NonNumbersAssumption, BudgetAssumption
     DEF Plus, Exceeds, NonNumbers
<1>5. verdict' = [key          |-> k,
                  allowed      |-> spent + worth <= MaxSpend,
                  currentSpend |-> spent]
  <2>1. Plus(GetCurrentSpend(k), SanitizeCost(estimate)) = spent + worth
    BY <1>2, <1>3, <1>4
  <2>2. verdict' = [key          |-> k,
                    allowed      |-> ~Exceeds(spent + worth, MaxSpend),
                    currentSpend |-> spent]
    BY <1>2, <2>1 DEF Check
  <2>. QED
    BY <1>4, <2>2
<1>6. UNCHANGED <<now, ledger>>
  BY DEF Check
<1>7. verdict' \in Verdict
  BY <1>1, <1>2, <1>5 DEF Verdict
<1>. QED
  BY <1>1, <1>5, <1>6, <1>7 DEF SL!Query, spent, worth

(* The state has its types, and what is summed from it is a number.        *)
THEOREM TypeCorrect == Spec => []TypeOK
<1>. DEFINE Answered == verdict \in Verdict \cup {None}
<1>1. Init => Answered
  BY DEF Init
<1>2. ASSUME IInv, Answered, [Next]_vars
      PROVE  Answered'
  <2>1. ASSUME NEW c \in Callers, NEW estimate \in Estimates, Check(c, estimate)
        PROVE  Answered'
    BY <1>2, <2>1, CheckIsQuery
  <2>2. CASE UNCHANGED verdict
    BY <1>2, <2>2
  <2>. QED
    BY <1>2, <2>1, <2>2 DEF Next, vars, Tick, Record, Cleanup, Destroy
<1>3. IInv /\ Answered => TypeOK
  BY DEF IInv, StateType, TypeOK
<1>. QED
  BY <1>1, <1>2, <1>3, Mechanism, PTL DEF Spec

(* The Map is never larger than the callers of eleven tenths of a period,  *)
(* as long as the interval callback is on time.                            *)
THEOREM FootprintBounded == Spec => []FootprintBound
<1>1. IInv => FootprintBound
  <2>. SUFFICES ASSUME IInv, cleanupAt # None, now <= cleanupAt,
                       NEW k \in DOMAIN budgets
                PROVE  \E r \in budgets[k] :
                         r.at > now - PeriodMs - PeriodMs \div 10
    BY DEF FootprintBound
  <2>1. PICK r \in budgets[k] : r.at > cleanupAt - PeriodMs - PeriodMs \div 10
    BY DEF IInv, Touched
  <2>2. /\ r.at \in Nat /\ now \in Nat /\ cleanupAt \in Nat
        /\ PeriodMs \in Nat /\ PeriodMs \div 10 \in Nat
    BY BudgetAssumption DEF IInv, StateType, RecordType
  <2>. QED
    BY <2>1, <2>2
<1>. QED
  BY <1>1, Mechanism, PTL

(* No call gives a key back what it has spent.                             *)
THEOREM NothingRefunded == Spec => NoRefund
<1>. DEFINE Spends(k) == GetCurrentSpend(k)' >= GetCurrentSpend(k)
<1>1. IInv' => (\A k \in Keys :
                  /\ IsFiniteSet(Recent(k))
                  /\ \A r \in Recent(k) : SL!Worth(r.cost) \in Nat
                  /\ SL!Spent(k, now)
                       = Total([r \in Recent(k) |-> SL!Worth(r.cost)], Recent(k)))'
  BY AllTotals, PTL
<1>2. IInv' => (\A k \in Keys : /\ GetCurrentSpend(k) = SL!Spent(k, now)
                                /\ SL!Spent(k, now) \in Nat)'
  BY AllSpent, PTL
<1>3. ASSUME IInv, IInv', [Next]_vars, now' = now, NEW k \in Keys
      PROVE  Spends(k)
  <2>1. ledger[k] \subseteq ledger'[k]
    <3>1. ASSUME NEW c \in Callers, NEW cost \in Costs, Record(c, cost)
          PROVE  ledger[k] \subseteq ledger'[k]
      <4>1. PICK charge : ledger' = [ledger EXCEPT ![ResolveKey(c)] = @ \cup {charge}]
        BY <3>1 DEF Record
      <4>2. ledger'[k] \in {ledger[k], ledger[k] \cup {charge}}
        BY <1>3, <4>1 DEF IInv, StateType
      <4>. QED
        BY <4>2
    <3>2. CASE UNCHANGED ledger
      BY <3>2
    <3>. QED
      BY <1>3, <3>1, <3>2 DEF Next, vars, Tick, Check, Cleanup, Destroy
  <2>2. Recent(k) \subseteq Recent(k)'
    BY <1>3, <2>1 DEF Recent
  <2>. DEFINE R == Recent(k)
              S == Recent(k)'
              w == [r \in R |-> SL!Worth(r.cost)]
              v == [r \in S |-> SL!Worth(r.cost)]
  <2>3. /\ IsFiniteSet(R) /\ IsFiniteSet(S)
        /\ GetCurrentSpend(k) = Total(w, R)
        /\ GetCurrentSpend(k)' = Total(v, S)
        /\ \A r \in S : v[r] \in Nat
        /\ \A r \in R : v[r] = w[r]
    BY <1>1, <1>2, <1>3, <2>2, AllTotals, AllSpent
  <2>. HIDE DEF R, S, w, v
  <2>4. Total(v, R) <= Total(v, S)
    BY <2>2, <2>3, TotalGrows DEF R, S
  <2>5. Total(v, R) = Total(w, R)
    BY <2>2, <2>3, TotalSame DEF R, S
  <2>6. Total(v, S) \in Nat /\ Total(v, R) \in Nat
    <3>1. \A r \in R : v[r] \in Nat
      BY <2>2, <2>3 DEF R, S
    <3>. QED
      BY <2>3, <3>1, TotalNat
  <2>. QED
    BY <2>3, <2>4, <2>5, <2>6
<1>4. IInv /\ IInv' /\ [Next]_vars
        => [now' = now => \A k \in Keys : Spends(k)]_vars
  BY <1>3
<1>. QED
  BY <1>4, Mechanism, PTL DEF Spec, NoRefund

-----------------------------------------------------------------------------
(* Trimmed, emptied and filled again, the Map answers as the ledger does.  *)
THEOREM TrackerImplementsLedger == Spec => ImplementsLedger
<1>1. Init => SL!Init
  BY DEF Init, SL!Init
<1>2. ASSUME IInv, [Next]_vars
      PROVE  [SL!Next]_(SL!vars)
  <2>. USE <1>2
  <2>1. CASE Tick
    <3>1. now' \in Nat /\ now' > now
      BY <2>1, BudgetAssumption DEF Tick, IInv, StateType
    <3>. QED
      BY <2>1, <3>1 DEF Tick, SL!Next, SL!Tick
  <2>2. ASSUME NEW c \in Callers, NEW estimate \in Estimates, Check(c, estimate)
        PROVE  SL!Next
    BY <2>2, CheckIsQuery DEF SL!Next
  <2>3. ASSUME NEW c \in Callers, NEW cost \in Costs, Record(c, cost)
        PROVE  SL!Next
    <3>1. ResolveKey(c) \in Keys
      BY DEF Keys
    <3>2. SL!Post(ResolveKey(c), cost)
      BY <2>3 DEF Record, SL!Post, SL!Cardinality, Cardinality
    <3>3. SL!Charge(ResolveKey(c))
      BY <2>3, <3>2 DEF SL!Charge, Record
    <3>. QED
      BY <3>1, <3>3 DEF SL!Next
  <2>4. CASE Cleanup
    BY <2>4 DEF Cleanup, SL!vars
  <2>5. CASE Destroy
    BY <2>5 DEF Destroy, SL!vars
  <2>6. CASE UNCHANGED vars
    BY <2>6 DEF vars, SL!vars
  <2>. QED
    BY <2>1, <2>2, <2>3, <2>4, <2>5, <2>6 DEF Next
<1>. QED
  BY <1>1, <1>2, Mechanism, PTL DEF Spec, ImplementsLedger, SL!Spec
=============================================================================

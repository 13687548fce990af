------------------------ MODULE LimitablEngineProofs ------------------------
(***************************************************************************)
(* How far a workflow can go over its limits, for every set of callers and *)
(* workflow ids, every number of handlers running at once, every           *)
(* configuration and every limit.                                          *)
(***************************************************************************)
EXTENDS LimitablEngine, FoldFacts

-----------------------------------------------------------------------------
(* What the proof needs of the state: the guard's Map and the slots.       *)
GuardType ==
  /\ now \in Nat
  /\ workflows \in [DOMAIN workflows -> AG!WorkflowState]
  /\ ~Guarded => DOMAIN workflows = {}
  /\ requests \in [Requests -> Running \cup {None}]

(* The slots whose handlers run under w.                                   *)
Under(w) == {r \in Requests : requests[r] # None /\ requests[r].workflow = w}

(***************************************************************************)
(* GuardOvershoot is not inductive: what the handlers now running are yet  *)
(* to report counts too.                                                   *)
(***************************************************************************)
Fits(state, running) ==
  /\ state.toolCallCount + running <= (MaxToolCalls - 1) + AtOnce
  /\ state.totalCost + HighestCost * running
       <= (MaxWorkflowCost - 1) + AtOnce * HighestCost

Covered == \A w \in DOMAIN workflows : Fits(workflows[w], Cardinality(Under(w)))

IInv == GuardType /\ Covered

-----------------------------------------------------------------------------
LEMMA Products ==
  ASSUME NEW h \in Nat, NEW m \in Nat, NEW n \in Nat
  PROVE  /\ h * m \in Nat
         /\ h * m = m * h
         /\ h * (m + 1) = h * m + h
         /\ m <= n => h * m <= h * n
<1>1. ASSUME m <= n PROVE h * m <= h * n
  <2>1. PICK d \in Nat : n = m + d
    BY <1>1, n - m \in Nat
  <2>2. h * n = h * m + h * d /\ h * d \in Nat /\ h * m \in Nat
    BY <2>1
  <2>. QED
    BY <2>2
<1>. QED
  BY <1>1

LEMMA SlotsAreFinite ==
  ASSUME NEW w
  PROVE  /\ IsFiniteSet(Under(w))
         /\ Cardinality(Under(w)) \in Nat
         /\ AtOnce \in Nat
         /\ Cardinality(Under(w)) <= AtOnce
BY FS_Subset, FS_CardinalityType, EngineAssumption DEF Under, AtOnce

LEMMA WorthIsBounded ==
  ASSUME NEW cost \in Costs
  PROVE  AG!SanitizeCost(cost) \in Nat /\ AG!SanitizeCost(cost) <= HighestCost
BY EngineAssumption, NonNumbersAssumption
   DEF AG!SanitizeCost, AG!NonNumbers, SanitizeCost, NonNumbers

(* What getOrCreate() finds, or makes.                                     *)
LEMMA GetOrCreateFacts ==
  ASSUME GuardType, NEW w
  PROVE  /\ DOMAIN AG!Swept \subseteq DOMAIN workflows
         /\ \A x \in DOMAIN AG!Swept : AG!Swept[x] = workflows[x]
         /\ AG!GetOrCreate(w) \in AG!WorkflowState
         /\ \/ w \in DOMAIN workflows /\ AG!GetOrCreate(w) = workflows[w]
            \/ /\ AG!GetOrCreate(w).toolCallCount = 0
               /\ AG!GetOrCreate(w).totalCost = 0
<1>1. /\ DOMAIN AG!Swept \subseteq DOMAIN workflows
      /\ \A x \in DOMAIN AG!Swept : AG!Swept[x] = workflows[x]
  BY DEF AG!Swept, GuardType
<1>. QED
  BY <1>1 DEF AG!GetOrCreate, AG!WorkflowState, GuardType

LEMMA FreshFits ==
  ASSUME NEW n \in Nat, n <= AtOnce, NEW state,
         state.toolCallCount = 0, state.totalCost = 0
  PROVE  Fits(state, n)
<1>1. /\ HighestCost \in Nat
      /\ MaxToolCalls - 1 \in Nat
      /\ MaxWorkflowCost - 1 \in Nat
      /\ AtOnce \in Nat
  BY EngineAssumption, SlotsAreFinite
<1>2. HighestCost * n \in Nat /\ HighestCost * n <= AtOnce * HighestCost
  BY <1>1, Products
<1>. QED
  BY <1>1, <1>2 DEF Fits

(* A state that a check lets through leaves room for every slot.           *)
LEMMA WithinLimitsFits ==
  ASSUME NEW n \in Nat, n <= AtOnce, NEW state \in AG!WorkflowState,
         AG!WithinLimits(state)
  PROVE  Fits(state, n)
<1>1. /\ HighestCost \in Nat
      /\ MaxToolCalls \in Nat \ {0}
      /\ MaxWorkflowCost \in Nat \ {0}
      /\ AtOnce \in Nat
  BY EngineAssumption, SlotsAreFinite
<1>2. HighestCost * n \in Nat /\ HighestCost * n <= AtOnce * HighestCost
  BY <1>1, Products
<1>3. /\ state.toolCallCount \in Nat /\ state.toolCallCount < MaxToolCalls
      /\ state.totalCost \in Nat /\ state.totalCost < MaxWorkflowCost
  BY DEF AG!WithinLimits, AG!WorkflowState
<1>4. AtOnce * HighestCost \in Nat
  BY <1>1, Products
<1>5. state.toolCallCount + n <= (MaxToolCalls - 1) + AtOnce
  BY <1>1, <1>3
<1>6. state.totalCost + HighestCost * n
        <= (MaxWorkflowCost - 1) + AtOnce * HighestCost
  BY <1>1, <1>2, <1>3, <1>4
<1>. QED
  BY <1>5, <1>6 DEF Fits

LEMMA CountedIsState ==
  ASSUME NEW old \in AG!WorkflowState, NEW cost \in Costs
  PROVE  /\ AG!Counted(old, cost) \in AG!WorkflowState
         /\ AG!Counted(old, cost).startedAt = old.startedAt
         /\ AG!Counted(old, cost).toolCallCount = old.toolCallCount + 1
<1>1. PICK worth \in Nat : worth = AG!SanitizeCost(cost)
  BY WorthIsBounded
<1>2. AG!Counted(old, cost) = [old EXCEPT !.toolCallCount = @ + 1,
                                          !.totalCost     = @ + worth]
  BY <1>1 DEF AG!Counted
<1>3. AG!Counted(old, cost) = [startedAt     |-> old.startedAt,
                               toolCallCount |-> old.toolCallCount + 1,
                               totalCost     |-> old.totalCost + worth]
  BY <1>2 DEF AG!WorkflowState
<1>. QED
  BY <1>3 DEF AG!WorkflowState

(* Recording a call takes from what runs what it adds to what is counted.  *)
LEMMA CountedFits ==
  ASSUME NEW n \in Nat, NEW state \in AG!WorkflowState, Fits(state, n + 1),
         NEW cost \in Costs
  PROVE  /\ AG!Counted(state, cost) \in AG!WorkflowState
         /\ Fits(AG!Counted(state, cost), n)
<1>1. PICK worth \in Nat : worth = AG!SanitizeCost(cost) /\ worth <= HighestCost
  BY WorthIsBounded
<1>2. AG!Counted(state, cost) = [state EXCEPT !.toolCallCount = @ + 1,
                                              !.totalCost     = @ + worth]
  BY <1>1 DEF AG!Counted
<1>3. AG!Counted(state, cost) = [startedAt     |-> state.startedAt,
                                 toolCallCount |-> state.toolCallCount + 1,
                                 totalCost     |-> state.totalCost + worth]
  BY <1>2 DEF AG!WorkflowState
<1>4. /\ HighestCost \in Nat
      /\ HighestCost * n \in Nat
      /\ HighestCost * (n + 1) = HighestCost * n + HighestCost
  BY EngineAssumption, Products
<1>5. /\ state.toolCallCount \in Nat /\ state.totalCost \in Nat
      /\ state.startedAt \in Nat
  BY DEF AG!WorkflowState
<1>6. /\ state.toolCallCount + (n + 1) <= (MaxToolCalls - 1) + AtOnce
      /\ state.totalCost + HighestCost * (n + 1)
           <= (MaxWorkflowCost - 1) + AtOnce * HighestCost
  BY DEF Fits
<1>7. PICK a, b \in Int : /\ a = (MaxToolCalls - 1) + AtOnce
                          /\ b = (MaxWorkflowCost - 1) + AtOnce * HighestCost
  BY EngineAssumption, SlotsAreFinite
<1>8. /\ (state.toolCallCount + 1) + n <= a
      /\ (state.totalCost + worth) + HighestCost * n <= b
  BY <1>1, <1>4, <1>5, <1>6, <1>7
<1>9. AG!Counted(state, cost) \in AG!WorkflowState
  BY <1>3, <1>5 DEF AG!WorkflowState
<1>. QED
  BY <1>3, <1>7, <1>8, <1>9 DEF Fits

-----------------------------------------------------------------------------
(* A call that files a fitting state for w, while no other workflow gets   *)
(* more handlers, keeps the invariant.                                     *)
LEMMA StoreIInv ==
  ASSUME IInv, Guarded,
         NEW w, NEW state \in AG!WorkflowState,
         AG!Store(w, state),
         now' = now, configured' = configured,
         requests' \in [Requests -> Running \cup {None}],
         Fits(state, Cardinality(Under(w)')),
         \A x \in DOMAIN workflows : x # w => Under(x)' = Under(x)
  PROVE  IInv'
<1>1. /\ DOMAIN workflows' = DOMAIN AG!Swept \cup {w}
      /\ workflows'[w] = state
      /\ \A x \in DOMAIN AG!Swept : x # w => workflows'[x] = workflows[x]
      /\ workflows' \in [DOMAIN workflows' -> AG!WorkflowState]
  BY GetOrCreateFacts DEF AG!Store, IInv, GuardType
<1>2. GuardType'
  BY <1>1 DEF IInv, GuardType, Guarded
<1>3. ASSUME NEW x \in DOMAIN workflows'
      PROVE  Fits(workflows'[x], Cardinality(Under(x)'))
  <2>1. CASE x = w
    BY <1>1, <2>1
  <2>2. CASE x # w
    <3>1. x \in DOMAIN workflows /\ workflows'[x] = workflows[x]
      BY <1>1, <2>2, GetOrCreateFacts DEF IInv
    <3>. QED
      BY <2>2, <3>1 DEF IInv, Covered
  <2>. QED
    BY <2>1, <2>2
<1>4. Covered'
  BY <1>3 DEF Covered, Fits, AtOnce
<1>. QED
  BY <1>2, <1>4 DEF IInv

LEMMA DenyGuardIInv ==
  ASSUME IInv, NEW c \in Callers, NEW id \in WorkflowIds, DenyGuard(c, id)
  PROVE  IInv'
<1>. DEFINE w     == WorkflowKey(c, id)
            state == AG!GetOrCreate(w)
<1>. HIDE DEF w
<1>1. /\ Guarded
      /\ AG!Store(w, state)
      /\ UNCHANGED <<now, configured, requests>>
  BY DEF DenyGuard, GuardChecks, w
<1>2. \A x : Under(x)' = Under(x)
  BY <1>1 DEF Under
<1>3. state \in AG!WorkflowState
  BY GetOrCreateFacts DEF IInv
<1>4. Fits(state, Cardinality(Under(w)))
  <2>1. CASE w \in DOMAIN workflows /\ state = workflows[w]
    BY <2>1 DEF IInv, Covered
  <2>2. CASE state.toolCallCount = 0 /\ state.totalCost = 0
    BY <2>2, FreshFits, SlotsAreFinite
  <2>. QED
    BY <2>1, <2>2, GetOrCreateFacts DEF IInv
<1>. HIDE DEF state
<1>5. requests' \in [Requests -> Running \cup {None}]
  BY <1>1 DEF IInv, GuardType
<1>. QED
  BY <1>1, <1>2, <1>3, <1>4, <1>5, StoreIInv

LEMMA AllowIInv ==
  ASSUME IInv, NEW r \in Requests, NEW c \in Callers,
         NEW id \in WorkflowIds \cup {None}, Allow(r, c, id)
  PROVE  IInv'
<1>. DEFINE w     == WorkflowKey(c, id)
            entry == [key |-> ResolveKey(c), workflow |-> w]
            state == AG!GetOrCreate(w)
<1>1. w \in WorkflowKeys \cup {None}
  BY DEF WorkflowKey, WorkflowKeys
<1>2. entry \in Running
  BY <1>1 DEF Running, Keys
<1>. HIDE DEF w
<1>3. /\ requests[r] = None
      /\ requests' = [requests EXCEPT ![r] = entry]
      /\ UNCHANGED <<now, configured>>
      /\ Guarded => AG!WithinLimits(state)
      /\ GuardChecks(w)
  BY DEF Allow, w
<1>4. requests' \in [Requests -> Running \cup {None}]
  BY <1>2, <1>3 DEF IInv, GuardType
<1>5. \A x : x # w => Under(x)' = Under(x)
  BY <1>3 DEF Under, IInv, GuardType
<1>6. CASE Guarded
  <2>1. AG!Store(w, state) /\ state \in AG!WorkflowState
    BY <1>3, <1>6, GetOrCreateFacts DEF GuardChecks, IInv
  <2>2. Cardinality(Under(w)') \in Nat /\ Cardinality(Under(w)') <= AtOnce
    BY FS_Subset, FS_CardinalityType, EngineAssumption DEF Under, AtOnce
  <2>3. Fits(state, Cardinality(Under(w)'))
    BY <1>3, <1>6, <2>1, <2>2, WithinLimitsFits
  <2>. HIDE DEF state, entry
  <2>. QED
    BY <1>3, <1>4, <1>5, <1>6, <2>1, <2>3, StoreIInv
<1>7. CASE ~Guarded
  <2>1. workflows' = workflows /\ DOMAIN workflows = {}
    BY <1>3, <1>7 DEF GuardChecks, IInv, GuardType
  <2>. QED
    BY <1>3, <1>4, <1>7, <2>1 DEF IInv, GuardType, Covered, Guarded
<1>. QED
  BY <1>6, <1>7

LEMMA FewerFit ==
  ASSUME NEW state \in AG!WorkflowState,
         NEW m \in Nat, NEW n \in Nat, n <= m, Fits(state, m)
  PROVE  Fits(state, n)
<1>1. /\ HighestCost * n \in Nat /\ HighestCost * m \in Nat
      /\ HighestCost * n <= HighestCost * m
  BY EngineAssumption, Products
<1>2. PICK a, b \in Int : /\ a = (MaxToolCalls - 1) + AtOnce
                          /\ b = (MaxWorkflowCost - 1) + AtOnce * HighestCost
  BY EngineAssumption, SlotsAreFinite
<1>. QED
  BY <1>1, <1>2 DEF Fits, AG!WorkflowState

(* Slots that fall free leave the invariant as it is.                      *)
LEMMA FreeIInv ==
  ASSUME IInv,
         UNCHANGED <<configured, workflows>>, now' \in Nat,
         requests' \in [Requests -> Running \cup {None}],
         \A x : Under(x)' \subseteq Under(x)
  PROVE  IInv'
<1>1. GuardType'
  BY DEF IInv, GuardType, Guarded
<1>2. ASSUME NEW x \in DOMAIN workflows
      PROVE  Fits(workflows[x], Cardinality(Under(x)'))
  <2>1. /\ Cardinality(Under(x)') \in Nat
        /\ Cardinality(Under(x)') <= Cardinality(Under(x))
    BY SlotsAreFinite, FS_Subset, FS_CardinalityType
  <2>2. workflows[x] \in AG!WorkflowState
    BY DEF IInv, GuardType
  <2>. QED
    BY <2>1, <2>2, FewerFit, SlotsAreFinite DEF IInv, Covered
<1>3. Covered'
  BY <1>2 DEF Covered, Fits, AtOnce
<1>. QED
  BY <1>1, <1>3 DEF IInv

LEMMA RecordIInv ==
  ASSUME IInv, NEW r \in Requests, NEW cost \in Costs, RecordUsage(r, cost)
  PROVE  IInv'
<1>1. PICK w : w = requests[r].workflow
  OBVIOUS
<1>2. /\ requests[r] # None
      /\ requests' = [requests EXCEPT ![r] = None]
      /\ UNCHANGED <<now, configured>>
      /\ RecordGuard(w, cost)
  BY <1>1 DEF RecordUsage
<1>3. requests' \in [Requests -> Running \cup {None}]
  BY <1>2 DEF IInv, GuardType
<1>4. /\ Under(w)' = Under(w) \ {r} /\ r \in Under(w)
      /\ \A x : x # w => Under(x)' = Under(x)
  BY <1>1, <1>2 DEF Under, IInv, GuardType
<1>5. CASE Guarded /\ w # None
  <2>1. PICK n : n = Cardinality(Under(w)')
    OBVIOUS
  <2>2. n \in Nat /\ Cardinality(Under(w)) = n + 1 /\ n + 1 <= AtOnce
    <3>1. PICK S : S = Under(w) /\ n = Cardinality(S \ {r}) /\ r \in S
      BY <1>4, <2>1
    <3>2. /\ IsFiniteSet(S) /\ Cardinality(S) \in Nat /\ AtOnce \in Nat
          /\ Cardinality(S) <= AtOnce
      BY <3>1, SlotsAreFinite
    <3>3. IsFiniteSet(S \ {r}) /\ Cardinality(S \ {r}) = Cardinality(S) - 1
      BY <3>1, <3>2, FS_RemoveElement
    <3>4. Cardinality(S \ {r}) \in Nat
      BY <3>3, FS_CardinalityType
    <3>. QED
      BY <3>1, <3>2, <3>3, <3>4
  <2>3. PICK old : old = AG!GetOrCreate(w)
    OBVIOUS
  <2>4. old \in AG!WorkflowState
    BY <2>3, GetOrCreateFacts DEF IInv
  <2>5. Fits(old, n + 1)
    <3>1. CASE w \in DOMAIN workflows /\ old = workflows[w]
      BY <2>2, <3>1 DEF IInv, Covered
    <3>2. CASE old.toolCallCount = 0 /\ old.totalCost = 0
      BY <2>2, <3>2, FreshFits
    <3>. QED
      BY <2>3, <3>1, <3>2, GetOrCreateFacts DEF IInv
  <2>6. PICK counted : counted = AG!Counted(old, cost)
    OBVIOUS
  <2>7. counted \in AG!WorkflowState /\ Fits(counted, n)
    BY <2>2, <2>4, <2>5, <2>6, CountedFits
  <2>8. AG!Store(w, counted)
    BY <1>2, <1>5, <2>3, <2>6 DEF RecordGuard
  <2>. QED
    BY <1>2, <1>3, <1>4, <1>5, <2>1, <2>7, <2>8, StoreIInv
<1>6. CASE ~(Guarded /\ w # None)
  <2>1. UNCHANGED workflows
    BY <1>2, <1>6 DEF RecordGuard
  <2>2. \A x : Under(x)' \subseteq Under(x)
    BY <1>4
  <2>3. now' \in Nat
    BY <1>2 DEF IInv, GuardType
  <2>. QED
    BY <1>2, <1>3, <2>1, <2>2, <2>3, FreeIInv
<1>. QED
  BY <1>5, <1>6

LEMMA InitIInv == Init => IInv
BY EngineAssumption DEF Init, IInv, GuardType, Covered

LEMMA NextIInv == IInv /\ [Next]_vars => IInv'
<1>. SUFFICES ASSUME IInv, [Next]_vars PROVE IInv'
  OBVIOUS
<1>1. ASSUME UNCHANGED <<configured, workflows, requests>>, now' \in Nat
      PROVE  IInv'
  <2>1. \A x : Under(x)' \subseteq Under(x)
    BY <1>1 DEF Under
  <2>. QED
    BY <1>1, <2>1, FreeIInv DEF IInv, GuardType
<1>2. CASE Tick
  BY <1>1, <1>2, EngineAssumption DEF Tick, IInv, GuardType
<1>3. ASSUME NEW c \in Callers, DenyRate(c) PROVE IInv'
  BY <1>1, <1>3 DEF DenyRate, IInv, GuardType
<1>4. ASSUME NEW c \in Callers, DenyBudget(c) PROVE IInv'
  BY <1>1, <1>4 DEF DenyBudget, IInv, GuardType
<1>5. ASSUME NEW c \in Callers, DenyUnguarded(c) PROVE IInv'
  BY <1>1, <1>5 DEF DenyUnguarded, IInv, GuardType
<1>6. ASSUME NEW r \in Requests, Abandon(r) PROVE IInv'
  <2>1. \A x : Under(x)' \subseteq Under(x)
    BY <1>6 DEF Abandon, Under, IInv, GuardType
  <2>. QED
    BY <1>6, <2>1, FreeIInv DEF Abandon, IInv, GuardType
<1>7. CASE UNCHANGED vars
  BY <1>1, <1>7 DEF vars, IInv, GuardType
<1>. QED
  BY <1>2, <1>3, <1>4, <1>5, <1>6, <1>7, DenyGuardIInv, AllowIInv, RecordIInv
     DEF Next

LEMMA Mechanism == Spec => []IInv
BY InitIInv, NextIInv, PTL DEF Spec

-----------------------------------------------------------------------------
(* Requests that pass the guard while the calls of others are unreported   *)
(* take a workflow over its limits by no more than one call for every      *)
(* handler that can run at once.                                           *)
THEOREM OvershootIsBounded == Spec => []GuardOvershoot
<1>1. IInv => GuardOvershoot
  <2>. SUFFICES ASSUME IInv, NEW w \in DOMAIN workflows
                PROVE  /\ workflows[w].toolCallCount
                            <= (MaxToolCalls - 1) + AtOnce
                       /\ workflows[w].totalCost
                            <= (MaxWorkflowCost - 1) + AtOnce * HighestCost
    BY DEF GuardOvershoot
  <2>1. workflows[w] \in AG!WorkflowState
    BY DEF IInv, GuardType
  <2>2. Fits(workflows[w], 0)
    BY <2>1, SlotsAreFinite, FewerFit DEF IInv, Covered
  <2>3. HighestCost * 0 = 0
    BY EngineAssumption
  <2>. QED
    BY <2>1, <2>2, <2>3 DEF Fits, AG!WorkflowState
<1>. QED
  BY <1>1, Mechanism, PTL

-----------------------------------------------------------------------------
(* The types, with what makes the histories countable.                     *)
Finite ==
  /\ \A k \in Keys : IsFiniteSet(granted[k]) /\ IsFiniteSet(ledger[k])
  /\ \A w \in WorkflowKeys : IsFiniteSet(calls[w])

(* What the state says has happened has happened by now.                   *)
Past ==
  /\ \A w \in WorkflowKeys : \A x \in calls[w] : x.at <= now
  /\ \A w \in DOMAIN workflows : workflows[w].startedAt <= now

Kept == TypeOK /\ Finite /\ Past

LEMMA KeptGuard == Kept => GuardType
<1>. SUFFICES ASSUME Kept PROVE GuardType
  OBVIOUS
<1>1. ~Guarded => DOMAIN workflows = {}
  <2>1. DOMAIN workflows \subseteq IF Guarded THEN WorkflowKeys ELSE {}
    BY DEF Kept, TypeOK
  <2>. QED
    BY <2>1
<1>. QED
  BY <1>1 DEF Kept, TypeOK, GuardType

LEMMA PassKeeps ==
  ASSUME Kept, NEW k \in Keys, PassRateLimit(k)
  PROVE  /\ granted' \in [Keys -> SUBSET [nth : Nat, at : Nat]]
         /\ \A j \in Keys : IsFiniteSet(granted'[j])
<1>1. CASE granted' = granted
  BY <1>1 DEF Kept, TypeOK, Finite
<1>2. CASE SW!Pass(k)
  <2>1. PICK g : g = [nth |-> Cardinality(granted[k]) + 1, at |-> now]
    OBVIOUS
  <2>2. granted' = [granted EXCEPT ![k] = granted[k] \cup {g}]
    BY <1>2, <2>1 DEF SW!Pass, SW!Cardinality, Cardinality, Kept, TypeOK
  <2>3. g \in [nth : Nat, at : Nat]
    BY <2>1, FS_CardinalityType DEF Kept, TypeOK, Finite
  <2>4. IsFiniteSet(granted[k] \cup {g})
    BY FS_AddElement DEF Kept, Finite
  <2>. QED
    BY <2>2, <2>3, <2>4 DEF Kept, TypeOK, Finite
<1>. QED
  BY <1>1, <1>2 DEF PassRateLimit

LEMMA ChargeKeeps ==
  ASSUME Kept, NEW k \in Keys, NEW cost \in Costs, RecordBudget(k, cost)
  PROVE  /\ ledger' \in [Keys -> SUBSET [nth : Nat, at : Nat, cost : Costs]]
         /\ \A j \in Keys : IsFiniteSet(ledger'[j])
         /\ \E r : /\ r.at = now /\ r.cost = cost
                   /\ ledger'[k] \subseteq ledger[k] \cup {r}
         /\ \A j \in Keys : j # k => ledger'[j] = ledger[j]
<1>. DEFINE r == [nth |-> Cardinality(ledger[k]) + 1, at |-> now, cost |-> cost]
<1>1. r.at = now /\ r.cost = cost
  OBVIOUS
<1>2. r \in [nth : Nat, at : Nat, cost : Costs]
  BY FS_CardinalityType DEF Kept, TypeOK, Finite
<1>3. CASE SL!Post(k, cost)
  <2>1. ledger' = [ledger EXCEPT ![k] = ledger[k] \cup {r}]
    BY <1>3 DEF SL!Post, SL!Cardinality, Cardinality, Kept, TypeOK
  <2>. HIDE DEF r
  <2>2. IsFiniteSet(ledger[k] \cup {r})
    BY FS_AddElement DEF Kept, Finite
  <2>. QED
    BY <1>1, <1>2, <2>1, <2>2 DEF Kept, TypeOK, Finite
<1>4. CASE ledger' = ledger
  BY <1>1, <1>4 DEF Kept, TypeOK, Finite
<1>. QED
  BY <1>3, <1>4 DEF RecordBudget

(* What a call stores for a workflow has a time that has come.             *)
LEMMA StoreKeeps ==
  ASSUME Kept, Guarded, NEW w \in WorkflowKeys, NEW state \in AG!WorkflowState,
         state.startedAt <= now, AG!Store(w, state), now' = now,
         configured' = configured
  PROVE  /\ workflows' \in [DOMAIN workflows' -> AG!WorkflowState]
         /\ (DOMAIN workflows \subseteq IF Guarded THEN WorkflowKeys ELSE {})'
         /\ lastSweepAt' \in 0 .. now'
         /\ \A x \in DOMAIN workflows' : workflows'[x].startedAt <= now'
<1>1. GuardType
  BY KeptGuard
<1>2. /\ DOMAIN workflows' = DOMAIN AG!Swept \cup {w}
      /\ workflows'[w] = state
      /\ \A x \in DOMAIN AG!Swept : x # w => workflows'[x] = workflows[x]
      /\ workflows' \in [DOMAIN workflows' -> AG!WorkflowState]
  BY <1>1, GetOrCreateFacts DEF AG!Store, GuardType
<1>3. DOMAIN AG!Swept \subseteq DOMAIN workflows
  BY <1>1, GetOrCreateFacts
<1>4. lastSweepAt' \in 0 .. now'
  BY DEF AG!Store, Kept, TypeOK
<1>. QED
  BY <1>2, <1>3, <1>4 DEF Kept, TypeOK, Past, Guarded

LEMMA GetOrCreateIsPast ==
  ASSUME Kept, NEW w
  PROVE  /\ AG!GetOrCreate(w) \in AG!WorkflowState
         /\ AG!GetOrCreate(w).startedAt <= now
<1>1. GuardType
  BY KeptGuard
<1>2. AG!GetOrCreate(w) \in AG!WorkflowState
  BY <1>1, GetOrCreateFacts
<1>3. AG!GetOrCreate(w).startedAt <= now
  <2>1. CASE w \in DOMAIN AG!Swept
    <3>1. w \in DOMAIN workflows /\ AG!GetOrCreate(w) = workflows[w]
      BY <1>1, <2>1, GetOrCreateFacts DEF AG!GetOrCreate
    <3>. QED
      BY <3>1 DEF Kept, Past
  <2>2. CASE w \notin DOMAIN AG!Swept
    BY <2>2 DEF AG!GetOrCreate, Kept, TypeOK
  <2>. QED
    BY <2>1, <2>2
<1>. QED
  BY <1>2, <1>3

LEMMA NoteKeeps ==
  ASSUME Kept, NEW w \in WorkflowKeys \cup {None}, NoteCall(w)
  PROVE  /\ calls' \in [WorkflowKeys -> SUBSET [nth : Nat, at : Nat]]
         /\ \A x \in WorkflowKeys : IsFiniteSet(calls'[x])
         /\ \A x \in WorkflowKeys : \A c \in calls'[x] : c.at <= now
         /\ Guarded /\ w # None =>
              \E c : c.at = now /\ calls' = [calls EXCEPT ![w] = calls[w] \cup {c}]
<1>1. CASE Guarded /\ w # None
  <2>. DEFINE c == [nth |-> Cardinality(calls[w]) + 1, at |-> now]
  <2>1. w \in WorkflowKeys
    BY <1>1
  <2>2. calls' = [calls EXCEPT ![w] = calls[w] \cup {c}]
    BY <1>1, <2>1 DEF NoteCall, Kept, TypeOK
  <2>3. c \in [nth : Nat, at : Nat] /\ c.at = now
    BY <2>1, FS_CardinalityType DEF Kept, TypeOK, Finite
  <2>. HIDE DEF c
  <2>4. IsFiniteSet(calls[w] \cup {c})
    BY <2>1, FS_AddElement DEF Kept, Finite
  <2>5. now <= now
    BY DEF Kept, TypeOK
  <2>. QED
    BY <2>1, <2>2, <2>3, <2>4, <2>5 DEF Kept, TypeOK, Finite, Past
<1>2. CASE ~(Guarded /\ w # None)
  BY <1>2 DEF NoteCall, Kept, TypeOK, Finite, Past
<1>. QED
  BY <1>1, <1>2

LEMMA RespondKeeps ==
  ASSUME NEW allowed \in BOOLEAN, NEW details, Respond(allowed, details)
  PROVE  response' \in Response
BY DEF Respond, Response

LEMMA KeysKept ==
  ASSUME NEW c \in Callers
  PROVE  /\ ResolveKey(c) \in Keys
         /\ \A id \in WorkflowIds : WorkflowKey(c, id) \in WorkflowKeys
         /\ \A id \in WorkflowIds \cup {None} :
              WorkflowKey(c, id) \in WorkflowKeys \cup {None}
BY DEF Keys, WorkflowKeys, WorkflowKey

LEMMA InitKept == Init => Kept
<1>. SUFFICES ASSUME Init PROVE Kept
  OBVIOUS
<1>1. TypeOK
  BY EngineAssumption DEF Init, TypeOK
<1>2. Finite
  BY FS_EmptySet DEF Init, Finite
<1>. QED
  BY <1>1, <1>2 DEF Kept, Past, Init

LEMMA NextKept == Kept /\ [Next]_vars => Kept'
<1>. SUFFICES ASSUME Kept, [Next]_vars PROVE Kept'
  OBVIOUS
<1>1. CASE Tick
  <2>1. now' \in 0 .. MaxTime /\ now' >= now
    BY <1>1, EngineAssumption DEF Tick, Kept, TypeOK
  <2>2. TypeOK'
    BY <1>1, <2>1 DEF Tick, Kept, TypeOK, Guarded
  <2>3. Past'
    <3>1. /\ now \in Nat
          /\ \A w \in DOMAIN workflows : workflows[w].startedAt \in Nat
          /\ \A w \in WorkflowKeys : \A x \in calls[w] : x.at \in Nat
      BY DEF Kept, TypeOK, AG!WorkflowState
    <3>. QED
      BY <1>1, <2>1, <3>1 DEF Tick, Kept, Past
  <2>. QED
    BY <1>1, <2>2, <2>3 DEF Tick, Kept, Finite
<1>2. ASSUME NEW c \in Callers, DenyRate(c) PROVE Kept'
  <2>1. response' \in Response
    BY <1>2, RespondKeeps DEF DenyRate
  <2>. QED
    BY <1>2, <2>1 DEF DenyRate, Kept, TypeOK, Finite, Past, Guarded
<1>3. ASSUME NEW c \in Callers, DenyBudget(c) \/ DenyUnguarded(c) PROVE Kept'
  <2>1. response' \in Response
    BY <1>3, RespondKeeps DEF DenyBudget, DenyUnguarded
  <2>2. /\ granted' \in [Keys -> SUBSET [nth : Nat, at : Nat]]
        /\ \A j \in Keys : IsFiniteSet(granted'[j])
    BY <1>3, KeysKept, PassKeeps DEF DenyBudget, DenyUnguarded
  <2>3. UNCHANGED <<now, configured, ledger, workflows, lastSweepAt, requests,
                    calls>>
    BY <1>3 DEF DenyBudget, DenyUnguarded
  <2>. QED
    BY <2>1, <2>2, <2>3 DEF Kept, TypeOK, Finite, Past, Guarded
<1>4. ASSUME NEW c \in Callers, NEW id \in WorkflowIds, DenyGuard(c, id)
      PROVE  Kept'
  <2>. DEFINE w     == WorkflowKey(c, id)
              state == AG!GetOrCreate(w)
  <2>1. w \in WorkflowKeys
    BY KeysKept
  <2>. HIDE DEF w
  <2>2. response' \in Response
    BY <1>4, RespondKeeps DEF DenyGuard
  <2>3. /\ granted' \in [Keys -> SUBSET [nth : Nat, at : Nat]]
        /\ \A j \in Keys : IsFiniteSet(granted'[j])
    BY <1>4, KeysKept, PassKeeps DEF DenyGuard
  <2>4. /\ Guarded /\ AG!Store(w, state)
        /\ UNCHANGED <<now, configured, ledger, requests, calls>>
    BY <1>4 DEF DenyGuard, GuardChecks, w
  <2>5. state \in AG!WorkflowState /\ state.startedAt <= now
    BY GetOrCreateIsPast
  <2>. HIDE DEF state
  <2>6. /\ workflows' \in [DOMAIN workflows' -> AG!WorkflowState]
        /\ (DOMAIN workflows \subseteq IF Guarded THEN WorkflowKeys ELSE {})'
        /\ lastSweepAt' \in 0 .. now'
        /\ \A x \in DOMAIN workflows' : workflows'[x].startedAt <= now'
    BY <2>1, <2>4, <2>5, StoreKeeps
  <2>7. TypeOK'
    BY <2>2, <2>3, <2>4, <2>6 DEF Kept, TypeOK
  <2>. QED
    BY <2>3, <2>4, <2>6, <2>7 DEF Kept, Finite, Past
<1>5. ASSUME NEW r \in Requests, NEW c \in Callers,
             NEW id \in WorkflowIds \cup {None}, Allow(r, c, id)
      PROVE  Kept'
  <2>. DEFINE w     == WorkflowKey(c, id)
              state == AG!GetOrCreate(w)
              entry == [key |-> ResolveKey(c), workflow |-> w]
  <2>1. w \in WorkflowKeys \cup {None} /\ entry \in Running
    BY KeysKept DEF Running
  <2>. HIDE DEF w
  <2>2. response' \in Response
    BY <1>5, RespondKeeps DEF Allow
  <2>3. /\ granted' \in [Keys -> SUBSET [nth : Nat, at : Nat]]
        /\ \A j \in Keys : IsFiniteSet(granted'[j])
    BY <1>5, KeysKept, PassKeeps DEF Allow
  <2>4. /\ GuardChecks(w)
        /\ Guarded => w # None
        /\ requests' = [requests EXCEPT ![r] = entry]
        /\ UNCHANGED <<now, configured, ledger, calls>>
    BY <1>5 DEF Allow, w
  <2>5. state \in AG!WorkflowState /\ state.startedAt <= now
    BY GetOrCreateIsPast
  <2>6. requests' \in [Requests -> Running \cup {None}]
    <3>. HIDE DEF entry
    <3>. QED
      BY <2>1, <2>4 DEF Kept, TypeOK
  <2>7. /\ workflows' \in [DOMAIN workflows' -> AG!WorkflowState]
        /\ (DOMAIN workflows \subseteq IF Guarded THEN WorkflowKeys ELSE {})'
        /\ lastSweepAt' \in 0 .. now'
        /\ \A x \in DOMAIN workflows' : workflows'[x].startedAt <= now'
    <3>1. CASE Guarded
      <4>1. AG!Store(w, state)
        BY <2>4, <3>1 DEF GuardChecks
      <4>. HIDE DEF state
      <4>. QED
        BY <2>1, <2>4, <2>5, <3>1, <4>1, StoreKeeps
    <3>2. CASE ~Guarded
      BY <2>4, <3>2 DEF GuardChecks, Kept, TypeOK, Past, Guarded
    <3>. QED
      BY <3>1, <3>2
  <2>8. TypeOK'
    BY <2>2, <2>3, <2>4, <2>6, <2>7 DEF Kept, TypeOK
  <2>. QED
    BY <2>3, <2>4, <2>7, <2>8 DEF Kept, Finite, Past
<1>6. ASSUME NEW r \in Requests, Abandon(r) PROVE Kept'
  <2>1. requests' \in [Requests -> Running \cup {None}]
    BY <1>6 DEF Abandon, Kept, TypeOK
  <2>. QED
    BY <1>6, <2>1 DEF Abandon, Kept, TypeOK, Finite, Past, Guarded
<1>7. ASSUME NEW r \in Requests, NEW cost \in Costs, RecordUsage(r, cost)
      PROVE  Kept'
  <2>1. PICK k, w : k = requests[r].key /\ w = requests[r].workflow
    OBVIOUS
  <2>2. k \in Keys /\ w \in WorkflowKeys \cup {None}
    BY <1>7, <2>1 DEF RecordUsage, Kept, TypeOK, Running
  <2>3. /\ RecordBudget(k, cost) /\ RecordGuard(w, cost) /\ NoteCall(w)
        /\ requests' = [requests EXCEPT ![r] = None]
        /\ UNCHANGED <<now, configured, granted, response>>
    BY <1>7, <2>1 DEF RecordUsage
  <2>4. /\ ledger' \in [Keys -> SUBSET [nth : Nat, at : Nat, cost : Costs]]
        /\ \A j \in Keys : IsFiniteSet(ledger'[j])
    BY <2>2, <2>3, ChargeKeeps
  <2>5. /\ calls' \in [WorkflowKeys -> SUBSET [nth : Nat, at : Nat]]
        /\ \A x \in WorkflowKeys : IsFiniteSet(calls'[x])
        /\ \A x \in WorkflowKeys : \A c \in calls'[x] : c.at <= now
    BY <2>2, <2>3, NoteKeeps
  <2>6. requests' \in [Requests -> Running \cup {None}]
    BY <2>3 DEF Kept, TypeOK
  <2>7. /\ workflows' \in [DOMAIN workflows' -> AG!WorkflowState]
        /\ (DOMAIN workflows \subseteq IF Guarded THEN WorkflowKeys ELSE {})'
        /\ lastSweepAt' \in 0 .. now'
        /\ \A x \in DOMAIN workflows' : workflows'[x].startedAt <= now'
    <3>1. CASE Guarded /\ w # None
      <4>1. PICK old : old = AG!GetOrCreate(w)
        OBVIOUS
      <4>2. old \in AG!WorkflowState /\ old.startedAt <= now
        BY <4>1, GetOrCreateIsPast
      <4>3. PICK new : new = AG!Counted(old, cost)
        OBVIOUS
      <4>4. new \in AG!WorkflowState /\ new.startedAt = old.startedAt
        BY <4>2, <4>3, CountedIsState
      <4>5. AG!Store(w, new)
        BY <2>3, <3>1, <4>1, <4>3 DEF RecordGuard
      <4>. QED
        BY <2>2, <2>3, <3>1, <4>2, <4>4, <4>5, StoreKeeps
    <3>2. CASE ~(Guarded /\ w # None)
      BY <2>3, <3>2 DEF RecordGuard, Kept, TypeOK, Past, Guarded
    <3>. QED
      BY <3>1, <3>2
  <2>8. TypeOK'
    BY <2>3, <2>4, <2>5, <2>6, <2>7 DEF Kept, TypeOK
  <2>. QED
    BY <2>3, <2>4, <2>5, <2>7, <2>8 DEF Kept, Finite, Past
<1>8. CASE UNCHANGED vars
  BY <1>8 DEF vars, Kept, TypeOK, Finite, Past, Guarded
<1>. QED
  BY <1>1, <1>2, <1>3, <1>4, <1>5, <1>6, <1>7, <1>8 DEF Next

LEMMA KeptHolds == Spec => []Kept
BY InitKept, NextKept, PTL DEF Spec

(* Every variable keeps its type, and a part of the engine that is not     *)
(* configured keeps nothing.                                               *)
THEOREM TypeCorrect == Spec => []TypeOK
<1>1. Kept => TypeOK
  BY DEF Kept
<1>. QED
  BY <1>1, KeptHolds, PTL
-----------------------------------------------------------------------------
(* What a key has spent this period, as a set.                             *)
Charges(k) == {r \in ledger[k] : r.at > now - PeriodMs}

(* The slots whose handlers will report under k.                           *)
Charging(k) == {r \in Requests : requests[r] # None /\ requests[r].key = k}

(* Like Covered: what the running handlers of a key are yet to report      *)
(* counts as spent.                                                        *)
SpendFits(k) ==
  SL!Spent(k, now) + HighestCost * Cardinality(Charging(k))
    <= MaxSpend + AtOnce * HighestCost

SpendCovered == "budget" \in configured => \A k \in Keys : SpendFits(k)

Worths(S) == [r \in S |-> Worth(r.cost)]

LEMMA SpentIsTotal ==
  Kept => \A k \in Keys :
            /\ IsFiniteSet(Charges(k))
            /\ SL!Spent(k, now) = Total(Worths(Charges(k)), Charges(k))
            /\ SL!Spent(k, now) \in Nat
<1>. SUFFICES ASSUME Kept, NEW k \in Keys
              PROVE  /\ IsFiniteSet(Charges(k))
                     /\ SL!Spent(k, now) = Total(Worths(Charges(k)), Charges(k))
                     /\ SL!Spent(k, now) \in Nat
  OBVIOUS
<1>. DEFINE S == Charges(k)
<1>1. SL!Spent(k, now) = MapThenSumSet(LAMBDA r : Worth(r.cost), S)
  BY Zenon DEF SL!Spent, SL!Worth, Worth, SL!MapThenSumSet, SL!MapThenFoldSet,
               MapThenSumSet, MapThenFoldSet, Charges
<1>2. IsFiniteSet(S)
  <2>1. IsFiniteSet(ledger[k]) /\ S \subseteq ledger[k]
    BY DEF Kept, Finite, Charges
  <2>. QED
    BY <2>1, FS_Subset
<1>3. \A r \in S : Worths(S)[r] \in Nat
  BY DEF Worths, Worth
<1>. HIDE DEF S
<1>4. SL!Spent(k, now) = Total(Worths(S), S)
  BY <1>1, <1>2, WorthTotal, Zenon DEF Worths
<1>. QED
  BY <1>2, <1>3, <1>4, TotalNat DEF S

LEMMA SpentIsTotalNext ==
  Kept' => (\A k \in Keys :
              /\ IsFiniteSet(Charges(k))
              /\ SL!Spent(k, now) = Total(Worths(Charges(k)), Charges(k))
              /\ SL!Spent(k, now) \in Nat)'
BY SpentIsTotal, PTL

LEMMA ChargingIsFinite ==
  ASSUME NEW k
  PROVE  /\ IsFiniteSet(Charging(k))
         /\ Cardinality(Charging(k)) \in Nat
         /\ AtOnce \in Nat
         /\ Cardinality(Charging(k)) <= AtOnce
BY FS_Subset, FS_CardinalityType, EngineAssumption DEF Charging, AtOnce

LEMMA ChargedWorth ==
  ASSUME NEW cost \in Costs
  PROVE  Worth(cost) \in Nat /\ Worth(cost) <= HighestCost
<1>1. cost \in Nat => Worth(cost) = SanitizeCost(cost)
  BY NonNumbersAssumption DEF Worth, SanitizeCost, NonNumbers
<1>2. cost \notin Nat => Worth(cost) = 0
  BY DEF Worth
<1>3. Worth(cost) \in Nat
  BY DEF Worth
<1>4. SanitizeCost(cost) <= HighestCost /\ HighestCost \in Nat
  BY EngineAssumption
<1>. QED
  BY <1>1, <1>2, <1>3, <1>4

(* Fewer charges are worth less, one more is worth what it costs.          *)
LEMMA SpentShrinks ==
  ASSUME Kept, Kept', NEW k \in Keys, Charges(k)' \subseteq Charges(k)
  PROVE  SL!Spent(k, now)' <= SL!Spent(k, now)
<1>. DEFINE S == Charges(k)
            R == Charges(k)'
<1>1. /\ SL!Spent(k, now) = Total(Worths(S), S) /\ IsFiniteSet(S)
      /\ SL!Spent(k, now) \in Nat
  BY SpentIsTotal
<1>2. SL!Spent(k, now)' = Total(Worths(R), R) /\ IsFiniteSet(R)
  BY SpentIsTotalNext
<1>3. \A r \in S : Worths(S)[r] \in Nat
  BY DEF Worths, Worth
<1>4. \A r \in R : Worths(S)[r] = Worths(R)[r]
  BY DEF Worths
<1>5. R \subseteq S
  OBVIOUS
<1>. HIDE DEF S, R
<1>6. Total(Worths(S), R) = Total(Worths(R), R)
  BY <1>2, <1>3, <1>4, <1>5, TotalSame
<1>7. Total(Worths(S), R) <= Total(Worths(S), S)
  BY <1>1, <1>3, <1>5, TotalGrows
<1>. QED
  BY <1>1, <1>2, <1>6, <1>7

LEMMA SpentGrows ==
  ASSUME Kept, Kept', NEW k \in Keys, NEW r, r.cost \in Costs,
         Charges(k)' \subseteq Charges(k) \cup {r}
  PROVE  SL!Spent(k, now)' <= SL!Spent(k, now) + HighestCost
<1>. DEFINE S == Charges(k)
            R == Charges(k)'
            T == S \cup {r}
<1>1. /\ SL!Spent(k, now) = Total(Worths(S), S) /\ IsFiniteSet(S)
      /\ SL!Spent(k, now) \in Nat
  BY SpentIsTotal
<1>2. SL!Spent(k, now)' = Total(Worths(R), R) /\ IsFiniteSet(R)
  BY SpentIsTotalNext
<1>3. \A x \in T : Worths(T)[x] \in Nat
  BY DEF Worths, Worth
<1>4. /\ \A x \in R : Worths(T)[x] = Worths(R)[x]
      /\ \A x \in S : Worths(T)[x] = Worths(S)[x]
  BY DEF Worths
<1>5. R \subseteq T /\ Worths(T)[r] = Worth(r.cost)
  BY DEF Worths
<1>6. Worth(r.cost) \in Nat /\ Worth(r.cost) <= HighestCost /\ HighestCost \in Nat
  BY ChargedWorth, EngineAssumption
<1>. HIDE DEF S, R
<1>7. IsFiniteSet(T)
  BY <1>1, FS_AddElement
<1>8. Total(Worths(T), S) = Total(Worths(S), S)
  BY <1>1, <1>3, <1>4, TotalSame
<1>9. Total(Worths(T), T) <= Total(Worths(T), S) + HighestCost
  <2>1. CASE r \in S
    <3>1. Total(Worths(T), T) = Total(Worths(T), S)
      <4>1. T = S
        BY <2>1
      <4>. HIDE DEF T
      <4>. QED
        BY <4>1
    <3>2. Total(Worths(T), S) \in Nat
      BY <1>1, <1>8
    <3>. HIDE DEF T
    <3>. QED
      BY <1>6, <3>1, <3>2
  <2>2. CASE r \notin S
    <3>1. PICK w : w = Worths(T)
      OBVIOUS
    <3>2. Total(w, S \cup {r}) = Total(w, S) + w[r]
      BY <1>1, <1>3, <2>2, <3>1, TotalAdd
    <3>. QED
      BY <1>1, <1>5, <1>6, <1>8, <3>1, <3>2
  <2>. QED
    BY <2>1, <2>2
<1>10. PICK w : w = Worths(T)
  OBVIOUS
<1>11. Total(w, R) <= Total(w, T)
  <2>. HIDE DEF T
  <2>. QED
    BY <1>3, <1>5, <1>7, <1>10, TotalGrows
<1>12. Total(w, R) = Total(Worths(R), R)
  BY <1>2, <1>3, <1>4, <1>5, <1>10, TotalSame
<1>13. Total(w, T) \in Nat /\ Total(w, R) \in Nat
  <2>. HIDE DEF T
  <2>. QED
    BY <1>2, <1>3, <1>5, <1>7, <1>10, TotalNat
<1>. QED
  BY <1>1, <1>2, <1>6, <1>8, <1>9, <1>10, <1>11, <1>12, <1>13

LEMMA SpendKeeps ==
  ASSUME Kept, Kept', NEW k \in Keys, SpendFits(k),
         SL!Spent(k, now)' <= SL!Spent(k, now), Charging(k)' \subseteq Charging(k)
  PROVE  SpendFits(k)'
<1>1. /\ Cardinality(Charging(k)') \in Nat /\ Cardinality(Charging(k)) \in Nat
      /\ Cardinality(Charging(k)') <= Cardinality(Charging(k))
  BY ChargingIsFinite, FS_Subset, FS_CardinalityType
<1>2. /\ HighestCost * Cardinality(Charging(k)') \in Nat
      /\ HighestCost * Cardinality(Charging(k)) \in Nat
      /\ HighestCost * Cardinality(Charging(k)')
           <= HighestCost * Cardinality(Charging(k))
  BY <1>1, Products, EngineAssumption
<1>3. SL!Spent(k, now) \in Nat /\ SL!Spent(k, now)' \in Nat
  BY SpentIsTotal, SpentIsTotalNext
<1>4. PICK most \in Int : most = MaxSpend + AtOnce * HighestCost
  BY EngineAssumption, ChargingIsFinite
<1>5. SL!Spent(k, now)' + HighestCost * Cardinality(Charging(k)') <= most
  BY <1>2, <1>3, <1>4 DEF SpendFits
<1>. QED
  BY <1>4, <1>5 DEF SpendFits, AtOnce

LEMMA AllowSpend ==
  ASSUME Kept, Kept', SpendCovered, NEW r \in Requests, NEW c \in Callers,
         NEW id \in WorkflowIds \cup {None}, Allow(r, c, id)
  PROVE  SpendCovered'
<1>1. PICK k \in Keys : k = ResolveKey(c)
  BY KeysKept
<1>2. PICK w : w = WorkflowKey(c, id)
  OBVIOUS
<1>3. /\ ~OverBudget(k) /\ UNCHANGED <<now, configured, ledger>>
      /\ requests' = [requests EXCEPT ![r] = [key |-> k, workflow |-> w]]
  BY <1>1, <1>2 DEF Allow
<1>. SUFFICES ASSUME "budget" \in configured, NEW j \in Keys
              PROVE  SpendFits(j)'
  BY <1>3 DEF SpendCovered
<1>4. Charges(j)' = Charges(j)
  BY <1>3 DEF Charges
<1>5. SL!Spent(j, now)' <= SL!Spent(j, now)
  BY <1>4, SpentShrinks
<1>6. CASE j = k
  <2>1. SL!Spent(k, now) <= MaxSpend
    BY <1>3, SpentIsTotal, EngineAssumption DEF OverBudget
  <2>2. /\ Cardinality(Charging(j)') \in Nat /\ AtOnce \in Nat
        /\ Cardinality(Charging(j)') <= AtOnce
    BY FS_Subset, FS_CardinalityType, EngineAssumption DEF Charging, AtOnce
  <2>3. /\ HighestCost * Cardinality(Charging(j)') \in Nat
        /\ HighestCost * Cardinality(Charging(j)') <= AtOnce * HighestCost
        /\ AtOnce * HighestCost \in Nat
    BY <2>2, Products, EngineAssumption
  <2>4. SL!Spent(j, now)' \in Nat /\ SL!Spent(j, now) \in Nat /\ MaxSpend \in Nat
    BY SpentIsTotal, SpentIsTotalNext, EngineAssumption
  <2>5. SL!Spent(j, now)' + HighestCost * Cardinality(Charging(j)')
          <= MaxSpend + AtOnce * HighestCost
    BY <1>5, <1>6, <2>1, <2>3, <2>4
  <2>. QED
    BY <2>5 DEF SpendFits, AtOnce
<1>7. CASE j # k
  <2>1. Charging(j)' \subseteq Charging(j)
    BY <1>3, <1>7 DEF Charging, Kept, TypeOK
  <2>. QED
    BY <1>5, <2>1, SpendKeeps DEF SpendCovered
<1>. QED
  BY <1>6, <1>7

LEMMA RecordSpend ==
  ASSUME Kept, Kept', SpendCovered,
         NEW r \in Requests, NEW cost \in Costs, RecordUsage(r, cost)
  PROVE  SpendCovered'
<1>1. PICK k \in Keys : k = requests[r].key
  BY DEF RecordUsage, Kept, TypeOK, Running
<1>2. /\ requests[r] # None /\ RecordBudget(k, cost)
      /\ requests' = [requests EXCEPT ![r] = None]
      /\ UNCHANGED <<now, configured>>
  BY <1>1 DEF RecordUsage
<1>3. /\ \E e : /\ e.at = now /\ e.cost = cost
                /\ ledger'[k] \subseteq ledger[k] \cup {e}
      /\ \A j \in Keys : j # k => ledger'[j] = ledger[j]
  BY <1>2, ChargeKeeps
<1>. SUFFICES ASSUME "budget" \in configured, NEW j \in Keys
              PROVE  SpendFits(j)'
  BY <1>2 DEF SpendCovered
<1>4. CASE j = k
  <2>1. PICK e : e.cost = cost /\ ledger'[k] \subseteq ledger[k] \cup {e}
    BY <1>3
  <2>2. Charges(k)' \subseteq Charges(k) \cup {e}
    BY <1>2, <2>1 DEF Charges
  <2>3. SL!Spent(k, now)' <= SL!Spent(k, now) + HighestCost
    BY <2>1, <2>2, SpentGrows
  <2>4. PICK S : S = Charging(k) /\ Charging(k)' = S \ {r} /\ r \in S
    <3>1. Charging(k)' = Charging(k) \ {r} /\ r \in Charging(k)
      BY <1>1, <1>2 DEF Charging, Kept, TypeOK
    <3>. QED
      BY <3>1
  <2>5. PICK n \in Nat : Cardinality(Charging(k)') = n
                           /\ Cardinality(Charging(k)) = n + 1
    <3>1. IsFiniteSet(S) /\ Cardinality(S) \in Nat
      BY <2>4, ChargingIsFinite
    <3>2. IsFiniteSet(S \ {r}) /\ Cardinality(S \ {r}) = Cardinality(S) - 1
      BY <2>4, <3>1, FS_RemoveElement
    <3>3. Cardinality(S \ {r}) \in Nat
      BY <3>2, FS_CardinalityType
    <3>. QED
      BY <2>4, <3>1, <3>2, <3>3
  <2>6. /\ HighestCost * n \in Nat /\ HighestCost \in Nat
        /\ HighestCost * (n + 1) = HighestCost * n + HighestCost
    BY Products, EngineAssumption
  <2>7. SL!Spent(k, now) \in Nat /\ SL!Spent(k, now)' \in Nat
    BY SpentIsTotal, SpentIsTotalNext
  <2>8. PICK most \in Int : most = MaxSpend + AtOnce * HighestCost
    BY EngineAssumption, ChargingIsFinite
  <2>9. SL!Spent(k, now) + HighestCost * (n + 1) <= most
    BY <2>5, <2>8 DEF SpendCovered, SpendFits
  <2>10. SL!Spent(k, now)' + HighestCost * n <= most
    BY <2>3, <2>6, <2>7, <2>8, <2>9
  <2>. QED
    BY <1>4, <2>5, <2>8, <2>10 DEF SpendFits, AtOnce
<1>5. CASE j # k
  <2>1. Charges(j)' = Charges(j)
    BY <1>2, <1>3, <1>5 DEF Charges
  <2>2. SL!Spent(j, now)' <= SL!Spent(j, now)
    BY <2>1, SpentShrinks
  <2>3. Charging(j)' \subseteq Charging(j)
    BY <1>2 DEF Charging, Kept, TypeOK
  <2>. QED
    BY <2>2, <2>3, SpendKeeps DEF SpendCovered
<1>. QED
  BY <1>4, <1>5

LEMMA NextSpend == Kept /\ Kept' /\ SpendCovered /\ [Next]_vars => SpendCovered'
<1>. SUFFICES ASSUME Kept, Kept', SpendCovered, [Next]_vars
              PROVE  SpendCovered'
  OBVIOUS
<1>1. ASSUME UNCHANGED <<configured, ledger>>, now' >= now,
             \A k \in Keys : Charging(k)' \subseteq Charging(k)
      PROVE  SpendCovered'
  <2>. SUFFICES ASSUME "budget" \in configured, NEW k \in Keys
                PROVE  SpendFits(k)'
    BY <1>1 DEF SpendCovered
  <2>1. Charges(k)' \subseteq Charges(k)
    <3>1. /\ now \in Nat /\ now' \in Nat /\ PeriodMs \in Nat
          /\ \A r \in ledger[k] : r.at \in Nat
      BY EngineAssumption DEF Kept, TypeOK
    <3>. QED
      BY <1>1, <3>1 DEF Charges
  <2>. QED
    BY <1>1, <2>1, SpentShrinks, SpendKeeps DEF SpendCovered
<1>2. now >= now /\ now \in Nat
  BY DEF Kept, TypeOK
<1>3. CASE Tick
  BY <1>1, <1>2, <1>3, EngineAssumption DEF Tick, Charging
<1>4. ASSUME NEW c \in Callers, DenyRate(c) \/ DenyBudget(c) \/ DenyUnguarded(c)
      PROVE  SpendCovered'
  BY <1>1, <1>2, <1>4 DEF DenyRate, DenyBudget, DenyUnguarded, Charging
<1>5. ASSUME NEW c \in Callers, NEW id \in WorkflowIds, DenyGuard(c, id)
      PROVE  SpendCovered'
  BY <1>1, <1>2, <1>5 DEF DenyGuard, Charging
<1>6. ASSUME NEW r \in Requests, Abandon(r) PROVE SpendCovered'
  BY <1>1, <1>2, <1>6 DEF Abandon, Charging, Kept, TypeOK
<1>7. CASE UNCHANGED vars
  BY <1>1, <1>2, <1>7 DEF vars, Charging
<1>. QED
  BY <1>3, <1>4, <1>5, <1>6, <1>7, AllowSpend, RecordSpend DEF Next

LEMMA InitSpend == Init => SpendCovered
<1>. SUFFICES ASSUME Init, NEW k \in Keys PROVE SpendFits(k)
  BY DEF SpendCovered
<1>1. Charges(k) = {} /\ Charging(k) = {}
  BY DEF Init, Charges, Charging
<1>2. SL!Spent(k, now) = 0
  BY <1>1, InitKept, SpentIsTotal, TotalOfNone
<1>3. Cardinality(Charging(k)) = 0
  BY <1>1, FS_EmptySet
<1>4. HighestCost * 0 = 0 /\ MaxSpend + AtOnce * HighestCost >= 0
  <2>1. AtOnce * HighestCost \in Nat
    BY EngineAssumption, ChargingIsFinite, Products
  <2>. QED
    BY <2>1, EngineAssumption
<1>. QED
  BY <1>2, <1>3, <1>4 DEF SpendFits

(* What a key spends in a period goes over its budget by no more than one  *)
(* call of every handler that can run at once.                             *)
THEOREM BudgetOvershootIsBounded == Spec => []BudgetOvershoot
<1>1. Kept /\ SpendCovered => BudgetOvershoot
  <2>. SUFFICES ASSUME Kept, SpendCovered, "budget" \in configured, NEW k \in Keys
                PROVE  SL!Spent(k, now) <= MaxSpend + AtOnce * HighestCost
    BY DEF BudgetOvershoot
  <2>1. HighestCost * Cardinality(Charging(k)) \in Nat
    BY ChargingIsFinite, Products, EngineAssumption
  <2>2. PICK most \in Int : most = MaxSpend + AtOnce * HighestCost
    BY EngineAssumption, ChargingIsFinite
  <2>3. SL!Spent(k, now) + HighestCost * Cardinality(Charging(k)) <= most
    BY <2>2 DEF SpendCovered, SpendFits
  <2>. QED
    BY <2>1, <2>2, <2>3, SpentIsTotal
<1>. QED
  BY <1>1, InitSpend, NextSpend, KeptHolds, PTL DEF Spec
-----------------------------------------------------------------------------
(* The most that one life of a workflow can count.                         *)
MostCalls == (MaxToolCalls - 1) + AtOnce

(* No call of S is later than t, and few lie within a duration before it.  *)
Few(S, t) ==
  /\ \A x \in S : x.at <= t
  /\ Cardinality({x \in S : x.at > t - MaxDurationMs}) <= MostCalls

(* The calls of a workflow the Map holds are its own, no more than it has  *)
(* counted, and those of earlier lives, of which only the last reaches     *)
(* into the duration before this life began.  One that is not in the Map   *)
(* had expired when the guard was last swept.                              *)
Life(w) ==
  IF w \in DOMAIN workflows
  THEN \E own \in SUBSET calls[w] :
         /\ Cardinality(own) <= workflows[w].toolCallCount
         /\ Few(calls[w] \ own, workflows[w].startedAt)
  ELSE Few(calls[w], lastSweepAt)

Lives == \A w \in WorkflowKeys : Life(w)

LEMMA MostCallsIsNat == MostCalls \in Nat
<1>1. AtOnce \in Nat
  BY FS_CardinalityType, EngineAssumption DEF AtOnce
<1>. QED
  BY <1>1, EngineAssumption DEF MostCalls

LEMMA FewLater ==
  ASSUME NEW S, IsFiniteSet(S), \A x \in S : x.at \in Int,
         NEW t \in Int, NEW u \in Int, t <= u, Few(S, t)
  PROVE  Few(S, u)
<1>1. MaxDurationMs \in Nat
  BY EngineAssumption
<1>2. {x \in S : x.at > u - MaxDurationMs}
        \subseteq {x \in S : x.at > t - MaxDurationMs}
  BY <1>1
<1>3. IsFiniteSet({x \in S : x.at > t - MaxDurationMs})
  BY FS_Subset
<1>4. /\ Cardinality({x \in S : x.at > u - MaxDurationMs}) \in Nat
      /\ Cardinality({x \in S : x.at > t - MaxDurationMs}) \in Nat
      /\ Cardinality({x \in S : x.at > u - MaxDurationMs})
           <= Cardinality({x \in S : x.at > t - MaxDurationMs})
  BY <1>2, <1>3, FS_Subset, FS_CardinalityType
<1>. QED
  BY <1>4, MostCallsIsNat DEF Few

LEMMA FewOfFewer ==
  ASSUME NEW S, IsFiniteSet(S), NEW R, R \subseteq S, NEW t, Few(S, t)
  PROVE  Few(R, t)
<1>1. {x \in R : x.at > t - MaxDurationMs}
        \subseteq {x \in S : x.at > t - MaxDurationMs}
  OBVIOUS
<1>2. IsFiniteSet({x \in S : x.at > t - MaxDurationMs})
  BY FS_Subset
<1>3. /\ Cardinality({x \in R : x.at > t - MaxDurationMs}) \in Nat
      /\ Cardinality({x \in S : x.at > t - MaxDurationMs}) \in Nat
      /\ Cardinality({x \in R : x.at > t - MaxDurationMs})
           <= Cardinality({x \in S : x.at > t - MaxDurationMs})
  BY <1>1, <1>2, FS_Subset, FS_CardinalityType
<1>. QED
  BY <1>3, MostCallsIsNat DEF Few

(* What a workflow has counted in this life.                               *)
LEMMA CountIsBounded ==
  ASSUME IInv, NEW w \in DOMAIN workflows
  PROVE  /\ workflows[w].toolCallCount \in Nat
         /\ workflows[w].toolCallCount <= MostCalls
<1>1. workflows[w] \in AG!WorkflowState
  BY DEF IInv, GuardType
<1>2. Fits(workflows[w], 0)
  BY <1>1, SlotsAreFinite, FewerFit DEF IInv, Covered
<1>. QED
  BY <1>1, <1>2, MostCallsIsNat DEF Fits, MostCalls, AG!WorkflowState

LEMMA CallFacts ==
  ASSUME Kept, NEW w \in WorkflowKeys
  PROVE  /\ IsFiniteSet(calls[w])
         /\ \A x \in calls[w] : x.at \in Nat /\ x.at <= now
         /\ now \in Nat /\ lastSweepAt \in Nat /\ lastSweepAt <= now
         /\ \A x \in DOMAIN workflows : /\ workflows[x].startedAt \in Nat
                                        /\ workflows[x].startedAt <= now
BY DEF Kept, TypeOK, Finite, Past, AG!WorkflowState

(* When a workflow is swept, the life it has led leaves few calls behind:  *)
(* it had expired, so that those of its earlier lives are too old.         *)
LEMMA SweptLeavesFew ==
  ASSUME Kept, IInv, Lives, NEW w \in WorkflowKeys, w \notin DOMAIN AG!Swept
  PROVE  /\ Few(calls[w], now)
         /\ Few(calls[w], IF AG!SweepDue THEN now ELSE lastSweepAt)
<1>1. /\ IsFiniteSet(calls[w]) /\ \A x \in calls[w] : x.at \in Nat /\ x.at <= now
      /\ now \in Nat /\ lastSweepAt \in Nat /\ lastSweepAt <= now
  BY CallFacts
<1>2. CASE w \notin DOMAIN workflows
  <2>1. Few(calls[w], lastSweepAt)
    BY <1>2 DEF Lives, Life
  <2>2. Few(calls[w], now)
    BY <1>1, <2>1, FewLater
  <2>. QED
    BY <2>1, <2>2
<1>3. CASE w \in DOMAIN workflows
  <2>1. AG!SweepDue /\ AG!Expired(workflows[w])
    BY <1>3 DEF AG!Swept
  <2>2. PICK s \in Nat : s = workflows[w].startedAt /\ now - s > MaxDurationMs
    BY <1>3, <2>1, CallFacts DEF AG!Expired
  <2>3. PICK own \in SUBSET calls[w] :
          /\ Cardinality(own) <= workflows[w].toolCallCount
          /\ Few(calls[w] \ own, s)
    BY <1>3, <2>2 DEF Lives, Life
  <2>4. {x \in calls[w] : x.at > now - MaxDurationMs} \subseteq own
    <3>1. \A x \in calls[w] \ own : x.at <= s
      BY <2>3 DEF Few
    <3>2. MaxDurationMs \in Nat
      BY EngineAssumption
    <3>3. \A x \in calls[w] \ own : ~(x.at > now - MaxDurationMs)
      BY <1>1, <2>2, <3>1, <3>2
    <3>. QED
      BY <3>3
  <2>5. IsFiniteSet(own)
    BY <1>1, FS_Subset
  <2>6. PICK W : W = {x \in calls[w] : x.at > now - MaxDurationMs}
    OBVIOUS
  <2>7. /\ Cardinality(W) \in Nat /\ Cardinality(own) \in Nat
        /\ Cardinality(W) <= Cardinality(own)
    BY <2>4, <2>5, <2>6, FS_Subset, FS_CardinalityType
  <2>8. Cardinality(W) <= MostCalls
    BY <1>3, <2>3, <2>7, CountIsBounded, MostCallsIsNat
  <2>9. Few(calls[w], now)
    BY <1>1, <2>6, <2>8 DEF Few
  <2>. QED
    BY <2>1, <2>9
<1>. QED
  BY <1>2, <1>3

(* A call that files a state for w and notes the calls X leaves every      *)
(* workflow with a life as described.                                      *)
LEMMA StoreLives ==
  ASSUME Kept, IInv, Lives, NEW w \in WorkflowKeys,
         NEW state \in AG!WorkflowState, AG!Store(w, state), NEW old,
         old = AG!GetOrCreate(w), state.startedAt = old.startedAt,
         NEW X, IsFiniteSet(X),
         state.toolCallCount = old.toolCallCount + Cardinality(X),
         calls'[w] = calls[w] \cup X,
         \A x \in WorkflowKeys : x # w => calls'[x] = calls[x]
  PROVE  Lives'
<1>1. /\ DOMAIN workflows' = DOMAIN AG!Swept \cup {w}
      /\ workflows'[w] = state
      /\ \A x \in DOMAIN AG!Swept : x # w => workflows'[x] = workflows[x]
      /\ DOMAIN AG!Swept \subseteq DOMAIN workflows
      /\ lastSweepAt' = IF AG!SweepDue THEN now ELSE lastSweepAt
  BY KeptGuard, GetOrCreateFacts DEF AG!Store
<1>. SUFFICES ASSUME NEW x \in WorkflowKeys PROVE Life(x)'
  BY DEF Lives
<1>2. CASE x # w /\ x \in DOMAIN AG!Swept
  BY <1>1, <1>2 DEF Lives, Life, Few, MostCalls, AtOnce
<1>3. CASE x # w /\ x \notin DOMAIN AG!Swept
  <2>1. Few(calls[x], lastSweepAt')
    BY <1>1, <1>3, SweptLeavesFew
  <2>. QED
    BY <1>1, <1>3, <2>1 DEF Life, Few, MostCalls, AtOnce
<1>4. CASE x = w
  <2>1. PICK own \in SUBSET calls[w] :
          /\ Cardinality(own) <= old.toolCallCount
          /\ Few(calls[w] \ own, old.startedAt)
    <3>1. CASE w \in DOMAIN AG!Swept
      <4>1. w \in DOMAIN workflows /\ old = workflows[w]
        BY <1>1, <3>1, KeptGuard, GetOrCreateFacts DEF AG!GetOrCreate
      <4>. QED
        BY <4>1 DEF Lives, Life
    <3>2. CASE w \notin DOMAIN AG!Swept
      <4>1. old.startedAt = now /\ old.toolCallCount = 0
        BY <3>2 DEF AG!GetOrCreate
      <4>2. Few(calls[w] \ {}, now)
        BY <3>2, SweptLeavesFew
      <4>3. Cardinality({}) <= 0
        BY FS_EmptySet
      <4>. QED
        BY <4>1, <4>2, <4>3
    <3>. QED
      BY <3>1, <3>2
  <2>2. IsFiniteSet(calls[w]) /\ IsFiniteSet(own)
    BY CallFacts, FS_Subset
  <2>3. PICK mine : mine = own \cup X
    OBVIOUS
  <2>4. Cardinality(mine) <= state.toolCallCount /\ mine \in SUBSET calls'[w]
    <3>1. /\ IsFiniteSet(mine)
          /\ Cardinality(mine)
               = Cardinality(own) + Cardinality(X) - Cardinality(own \cap X)
      BY <2>2, <2>3, FS_Union
    <3>2. IsFiniteSet(own \cap X)
      BY <2>2, FS_Subset
    <3>3. /\ Cardinality(mine) \in Nat /\ Cardinality(own) \in Nat
          /\ Cardinality(X) \in Nat /\ Cardinality(own \cap X) \in Nat
      BY <2>2, <3>1, <3>2, FS_CardinalityType
    <3>4. old.toolCallCount \in Nat
      BY KeptGuard, GetOrCreateFacts DEF AG!WorkflowState
    <3>. QED
      BY <2>1, <2>3, <3>1, <3>3, <3>4
  <2>5. Few(calls'[w] \ mine, state.startedAt)
    <3>1. calls'[w] \ mine \subseteq calls[w] \ own
      BY <2>3
    <3>2. IsFiniteSet(calls[w] \ own)
      BY <2>2, FS_Subset
    <3>. QED
      BY <2>1, <3>1, <3>2, FewOfFewer
  <2>. QED
    BY <1>1, <1>4, <2>4, <2>5 DEF Life, Few, MostCalls, AtOnce
<1>. QED
  BY <1>2, <1>3, <1>4

(* What the guard's Map does not see leaves the lives alone.               *)
LEMMA LivesStay ==
  ASSUME Lives, UNCHANGED <<workflows, lastSweepAt, calls>>
  PROVE  Lives'
BY DEF Lives, Life, Few, MostCalls, AtOnce

LEMMA InitLives == Init => Lives
<1>. SUFFICES ASSUME Init, NEW w \in WorkflowKeys PROVE Life(w)
  BY DEF Lives
<1>1. calls[w] = {} /\ w \notin DOMAIN workflows
  BY DEF Init
<1>2. {x \in {} : x.at > lastSweepAt - MaxDurationMs} = {}
  OBVIOUS
<1>3. Few({}, lastSweepAt)
  BY <1>2, FS_EmptySet, MostCallsIsNat DEF Few
<1>. QED
  BY <1>1, <1>3 DEF Life

LEMMA RecordLives ==
  ASSUME Kept, IInv, Lives,
         NEW r \in Requests, NEW cost \in Costs, RecordUsage(r, cost)
  PROVE  Lives'
<1>1. PICK w \in WorkflowKeys \cup {None} : w = requests[r].workflow
  BY DEF RecordUsage, Kept, TypeOK, Running
<1>2. RecordGuard(w, cost) /\ NoteCall(w)
  BY <1>1 DEF RecordUsage
<1>3. CASE Guarded /\ w # None
  <2>1. PICK old : old = AG!GetOrCreate(w)
    OBVIOUS
  <2>2. old \in AG!WorkflowState
    BY <2>1, GetOrCreateIsPast
  <2>3. PICK new : new = AG!Counted(old, cost)
    OBVIOUS
  <2>4. /\ new \in AG!WorkflowState /\ new.startedAt = old.startedAt
        /\ new.toolCallCount = old.toolCallCount + 1
    BY <2>2, <2>3, CountedIsState
  <2>5. AG!Store(w, new)
    BY <1>2, <1>3, <2>1, <2>3 DEF RecordGuard
  <2>6. PICK c : calls' = [calls EXCEPT ![w] = calls[w] \cup {c}]
    BY <1>2, <1>3, NoteKeeps
  <2>7. PICK X : X = {c} /\ IsFiniteSet(X) /\ Cardinality(X) = 1
    BY FS_Singleton
  <2>8. /\ w \in WorkflowKeys
        /\ calls'[w] = calls[w] \cup X
        /\ \A x \in WorkflowKeys : x # w => calls'[x] = calls[x]
    BY <1>3, <2>6, <2>7 DEF Kept, TypeOK
  <2>9. new.toolCallCount = old.toolCallCount + Cardinality(X)
    BY <2>4, <2>7
  <2>. QED
    BY <2>1, <2>4, <2>5, <2>7, <2>8, <2>9, StoreLives
<1>4. CASE ~(Guarded /\ w # None)
  BY <1>2, <1>4, LivesStay DEF RecordGuard, NoteCall
<1>. QED
  BY <1>3, <1>4

(* A check only sweeps, and begins a life if there is none.                *)
LEMMA CheckLives ==
  ASSUME Kept, IInv, Lives, NEW w, Guarded => w \in WorkflowKeys,
         GuardChecks(w), UNCHANGED calls
  PROVE  Lives'
<1>1. CASE Guarded
  <2>1. PICK state : state = AG!GetOrCreate(w)
    OBVIOUS
  <2>2. state \in AG!WorkflowState
    BY <2>1, GetOrCreateIsPast
  <2>3. AG!Store(w, state)
    BY <1>1, <2>1 DEF GuardChecks
  <2>4. PICK X : X = {} /\ IsFiniteSet(X) /\ Cardinality(X) = 0
    BY FS_EmptySet
  <2>5. state.toolCallCount = state.toolCallCount + Cardinality(X)
    BY <2>2, <2>4 DEF AG!WorkflowState
  <2>6. calls'[w] = calls[w] \cup X
    BY <2>4
  <2>. QED
    BY <1>1, <2>1, <2>2, <2>3, <2>4, <2>5, <2>6, StoreLives
<1>2. CASE ~Guarded
  BY <1>2, LivesStay DEF GuardChecks
<1>. QED
  BY <1>1, <1>2

LEMMA NextLives == Kept /\ IInv /\ Lives /\ [Next]_vars => Lives'
<1>. SUFFICES ASSUME Kept, IInv, Lives, [Next]_vars PROVE Lives'
  OBVIOUS
<1>1. CASE Tick
  BY <1>1, LivesStay DEF Tick
<1>2. ASSUME NEW c \in Callers, DenyRate(c) \/ DenyBudget(c) \/ DenyUnguarded(c)
      PROVE  Lives'
  BY <1>2, LivesStay DEF DenyRate, DenyBudget, DenyUnguarded
<1>3. ASSUME NEW c \in Callers, NEW id \in WorkflowIds, DenyGuard(c, id)
      PROVE  Lives'
  BY <1>3, KeysKept, CheckLives DEF DenyGuard
<1>4. ASSUME NEW r \in Requests, NEW c \in Callers,
             NEW id \in WorkflowIds \cup {None}, Allow(r, c, id)
      PROVE  Lives'
  <2>1. PICK w \in WorkflowKeys \cup {None} : w = WorkflowKey(c, id)
    BY KeysKept
  <2>2. GuardChecks(w) /\ (Guarded => w # None) /\ UNCHANGED calls
    BY <1>4, <2>1 DEF Allow
  <2>. QED
    BY <2>2, CheckLives
<1>5. ASSUME NEW r \in Requests, Abandon(r) PROVE Lives'
  BY <1>5, LivesStay DEF Abandon
<1>6. CASE UNCHANGED vars
  BY <1>6, LivesStay DEF vars
<1>. QED
  BY <1>1, <1>2, <1>3, <1>4, <1>5, <1>6, RecordLives DEF Next

-----------------------------------------------------------------------------
(* The calls of the last duration are those of this life and of the last.  *)
Within(w, t) == {x \in calls[w] : t - MaxDurationMs < x.at /\ x.at <= t}

LEMMA RateNow ==
  Kept /\ IInv /\ Lives =>
    \A w \in WorkflowKeys : Cardinality(Within(w, now)) <= 2 * MostCalls
<1>. SUFFICES ASSUME Kept, IInv, Lives, NEW w \in WorkflowKeys
              PROVE  Cardinality(Within(w, now)) <= 2 * MostCalls
  OBVIOUS
<1>1. /\ IsFiniteSet(calls[w]) /\ \A x \in calls[w] : x.at \in Nat /\ x.at <= now
      /\ now \in Nat /\ lastSweepAt \in Nat /\ lastSweepAt <= now
      /\ MaxDurationMs \in Nat /\ MostCalls \in Nat
  BY CallFacts, MostCallsIsNat, EngineAssumption
<1>2. PICK own \in SUBSET calls[w], t \in Nat :
        /\ Cardinality(own) <= MostCalls
        /\ t <= now
        /\ Few(calls[w] \ own, t)
  <2>1. CASE w \in DOMAIN workflows
    <3>1. PICK own \in SUBSET calls[w] :
            /\ Cardinality(own) <= workflows[w].toolCallCount
            /\ Few(calls[w] \ own, workflows[w].startedAt)
      BY <2>1 DEF Lives, Life
    <3>2. IsFiniteSet(own)
      BY <1>1, FS_Subset
    <3>3. Cardinality(own) <= MostCalls
      BY <1>1, <2>1, <3>1, <3>2, CountIsBounded, FS_CardinalityType
    <3>. QED
      BY <2>1, <3>1, <3>3, CallFacts
  <2>2. CASE w \notin DOMAIN workflows
    <3>1. Few(calls[w] \ {}, lastSweepAt)
      BY <2>2 DEF Lives, Life
    <3>2. Cardinality({}) <= MostCalls
      BY <1>1, FS_EmptySet
    <3>. QED
      BY <1>1, <3>1, <3>2
  <2>. QED
    BY <2>1, <2>2
<1>3. PICK late : late = {x \in calls[w] \ own : x.at > t - MaxDurationMs}
  OBVIOUS
<1>4. Cardinality(late) <= MostCalls
  BY <1>2, <1>3 DEF Few
<1>5. IsFiniteSet(own) /\ IsFiniteSet(late)
  BY <1>1, <1>3, FS_Subset
<1>6. Within(w, now) \subseteq own \cup late
  BY <1>1, <1>2, <1>3 DEF Within
<1>7. /\ IsFiniteSet(own \cup late)
      /\ Cardinality(own \cup late)
           = Cardinality(own) + Cardinality(late) - Cardinality(own \cap late)
      /\ IsFiniteSet(own \cap late)
  BY <1>5, FS_Union, FS_Subset
<1>8. /\ Cardinality(Within(w, now)) \in Nat
      /\ Cardinality(Within(w, now)) <= Cardinality(own \cup late)
  BY <1>6, <1>7, FS_Subset, FS_CardinalityType
<1>9. /\ Cardinality(own) \in Nat /\ Cardinality(late) \in Nat
      /\ Cardinality(own \cap late) \in Nat /\ Cardinality(own \cup late) \in Nat
  BY <1>5, <1>7, FS_CardinalityType
<1>. QED
  BY <1>1, <1>2, <1>4, <1>7, <1>8, <1>9

LEMMA RateNowNext ==
  (Kept /\ IInv /\ Lives)' =>
    (\A w \in WorkflowKeys : Cardinality(Within(w, now)) <= 2 * MostCalls)'
BY RateNow, PTL

(* A step adds calls of this instant only.                                 *)
LEMMA CallsGrow ==
  ASSUME Kept, [Next]_vars, NEW w \in WorkflowKeys
  PROVE  /\ now' >= now
         /\ \/ calls'[w] = calls[w]
            \/ \E c : now' = now /\ c.at = now /\ calls'[w] = calls[w] \cup {c}
<1>. now \in Nat
  BY DEF Kept, TypeOK
<1>1. ASSUME NEW r \in Requests, NEW cost \in Costs, RecordUsage(r, cost)
      PROVE  /\ now' >= now
             /\ \/ calls'[w] = calls[w]
                \/ \E c : now' = now /\ c.at = now /\ calls'[w] = calls[w] \cup {c}
  <2>1. PICK v \in WorkflowKeys \cup {None} : v = requests[r].workflow
    BY <1>1 DEF RecordUsage, Kept, TypeOK, Running
  <2>2. NoteCall(v) /\ now' = now
    BY <1>1, <2>1 DEF RecordUsage
  <2>3. CASE Guarded /\ v # None
    <3>1. PICK c : c.at = now /\ calls' = [calls EXCEPT ![v] = calls[v] \cup {c}]
      BY <2>2, <2>3, NoteKeeps
    <3>. QED
      BY <2>2, <2>3, <3>1 DEF Kept, TypeOK
  <2>4. CASE ~(Guarded /\ v # None)
    BY <2>2, <2>4 DEF NoteCall
  <2>. QED
    BY <2>3, <2>4
<1>2. CASE Tick
  BY <1>2, EngineAssumption DEF Tick
<1>3. ASSUME NEW c \in Callers,
             \/ DenyRate(c) \/ DenyBudget(c) \/ DenyUnguarded(c)
             \/ \E id \in WorkflowIds : DenyGuard(c, id)
             \/ \E r \in Requests, id \in WorkflowIds \cup {None} : Allow(r, c, id)
      PROVE  now' = now /\ calls' = calls
  BY <1>3 DEF DenyRate, DenyBudget, DenyUnguarded, DenyGuard, Allow
<1>4. ASSUME NEW r \in Requests, Abandon(r)
      PROVE  now' = now /\ calls' = calls
  BY <1>4 DEF Abandon
<1>5. CASE UNCHANGED vars
  BY <1>5 DEF vars
<1>. QED
  BY <1>1, <1>2, <1>3, <1>4, <1>5 DEF Next

LEMMA NextRate ==
  /\ Kept /\ IInv /\ Lives
  /\ (Kept /\ IInv /\ Lives)'
  /\ RunawayRate /\ [Next]_vars
  => RunawayRate'
<1>. SUFFICES ASSUME Kept, IInv, Lives, (Kept /\ IInv /\ Lives)',
                     RunawayRate, [Next]_vars,
                     NEW w \in WorkflowKeys, NEW last \in calls'[w]
              PROVE  Cardinality({x \in calls'[w] :
                                    /\ last.at - MaxDurationMs < x.at
                                    /\ x.at <= last.at})
                       <= 2 * ((MaxToolCalls - 1) + AtOnce)
  BY DEF RunawayRate, AtOnce
<1>1. /\ now \in Nat /\ now' \in Nat /\ last.at \in Nat /\ last.at <= now'
      /\ \A x \in calls[w] : x.at \in Nat /\ x.at <= now
  BY DEF Kept, TypeOK, Past
<1>2. CASE last.at = now'
  <2>1. (Cardinality(Within(w, now)) <= 2 * MostCalls)'
    BY RateNowNext
  <2>2. Within(w, now)' = {x \in calls'[w] : /\ last.at - MaxDurationMs < x.at
                                             /\ x.at <= last.at}
    BY <1>2 DEF Within
  <2>. QED
    BY <2>1, <2>2 DEF MostCalls, AtOnce
<1>3. CASE last.at # now'
  <2>1. /\ last \in calls[w]
        /\ {x \in calls'[w] : /\ last.at - MaxDurationMs < x.at
                              /\ x.at <= last.at}
             = {x \in calls[w] : /\ last.at - MaxDurationMs < x.at
                                 /\ x.at <= last.at}
    BY <1>1, <1>3, CallsGrow
  <2>. QED
    BY <2>1 DEF RunawayRate
<1>. QED
  BY <1>2, <1>3

LEMMA InitRate == Init => RunawayRate
BY DEF Init, RunawayRate

(* A workflow never ended, swept and begun again as often as its user      *)
(* likes, gets no more than twice its limit in any stretch of              *)
(* maxDurationMs.                                                          *)
THEOREM RunawaysAreHeld == Spec => []RunawayRate
BY InitLives, NextLives, InitRate, NextRate, KeptHolds, Mechanism, PTL DEF Spec

-----------------------------------------------------------------------------
(***************************************************************************)
(* The rate limit.  A check counts a request and a later check may deny    *)
(* it, other requests come in between: however they interleave, no window  *)
(* of windowMs, ending at any instant, holds more than maxRequests of one  *)
(* key, so that no more of its handlers begin in one.                      *)
(***************************************************************************)
InWindow(k, t) == {g \in granted[k] : t - WindowMs < g.at /\ g.at <= t}

RateBound ==
  "rateLimit" \in configured =>
    \A k \in Keys : \A t \in Int : Cardinality(InWindow(k, t)) <= MaxRequests

LEMMA PassBounds ==
  ASSUME Kept, RateBound, NEW k \in Keys, PassRateLimit(k),
         now' = now, configured' = configured
  PROVE  RateBound'
<1>. SUFFICES ASSUME "rateLimit" \in configured, NEW x \in Keys, NEW t \in Int
              PROVE  Cardinality(InWindow(x, t)') <= MaxRequests
  BY DEF RateBound
<1>1. SW!HasRoom(k, now) /\ SW!Pass(k)
  BY DEF PassRateLimit, RateLimited
<1>2. PICK g : g = [nth |-> Cardinality(granted[k]) + 1, at |-> now]
  OBVIOUS
<1>3. granted' = [granted EXCEPT ![k] = granted[k] \cup {g}]
  BY <1>1, <1>2 DEF SW!Pass, SW!Cardinality, Cardinality, Kept, TypeOK
<1>4. /\ granted'[k] = granted[k] \cup {g}
      /\ \A j \in Keys : j # k => granted'[j] = granted[j]
  BY <1>3 DEF Kept, TypeOK
<1>5. g.at = now /\ now \in Int
  BY <1>2 DEF Kept, TypeOK
<1>6. Cardinality(InWindow(x, t)) <= MaxRequests
  BY DEF RateBound
<1>7. CASE x # k \/ ~(t - WindowMs < now /\ now <= t)
  <2>1. InWindow(x, t)' = InWindow(x, t)
    BY <1>4, <1>5, <1>7 DEF InWindow
  <2>. QED
    BY <1>6, <2>1
<1>8. CASE x = k /\ t - WindowMs < now /\ now <= t
  <2>. DEFINE counted == SW!Counted(k, now)
  <2>1. InWindow(x, t)' \subseteq counted \cup {g}
    BY <1>4, <1>5, <1>8, EngineAssumption DEF InWindow, SW!Counted, Kept, TypeOK
  <2>2. IsFiniteSet(counted)
    BY FS_Subset DEF SW!Counted, Kept, Finite
  <2>3. Cardinality(counted) < MaxRequests
    BY <1>1 DEF SW!HasRoom, SW!Cardinality, Cardinality
  <2>. HIDE DEF counted
  <2>4. /\ IsFiniteSet(counted \cup {g})
        /\ Cardinality(counted \cup {g}) <= Cardinality(counted) + 1
        /\ Cardinality(counted) \in Nat
        /\ Cardinality(counted \cup {g}) \in Nat
    <3>1. /\ IsFiniteSet(counted \cup {g})
          /\ Cardinality(counted \cup {g}) = IF g \in counted THEN Cardinality(counted)
                                             ELSE Cardinality(counted) + 1
      BY <2>2, FS_AddElement
    <3>2. Cardinality(counted) \in Nat /\ Cardinality(counted \cup {g}) \in Nat
      BY <2>2, <3>1, FS_CardinalityType
    <3>. QED
      BY <3>1, <3>2
  <2>5. /\ Cardinality(InWindow(x, t)') <= Cardinality(counted \cup {g})
        /\ Cardinality(InWindow(x, t)') \in Nat
    BY <2>1, <2>4, FS_Subset, FS_CardinalityType
  <2>. QED
    BY <2>3, <2>4, <2>5, EngineAssumption
<1>. QED
  BY <1>7, <1>8

LEMMA NextRateBound == Kept /\ RateBound /\ [Next]_vars => RateBound'
<1>. SUFFICES ASSUME Kept, RateBound, [Next]_vars PROVE RateBound'
  OBVIOUS
<1>1. ASSUME UNCHANGED <<granted, configured>> PROVE RateBound'
  BY <1>1 DEF RateBound, InWindow
<1>2. ASSUME NEW c \in Callers,
             DenyBudget(c) \/ DenyUnguarded(c)
             \/ (\E id \in WorkflowIds : DenyGuard(c, id))
             \/ (\E r \in Requests, id \in WorkflowIds \cup {None} : Allow(r, c, id))
      PROVE  RateBound'
  <2>1. ResolveKey(c) \in Keys
    BY KeysKept
  <2>2. /\ PassRateLimit(ResolveKey(c))
        /\ now' = now /\ configured' = configured
    BY <1>2 DEF DenyBudget, DenyUnguarded, DenyGuard, Allow
  <2>. QED
    BY <2>1, <2>2, PassBounds
<1>3. ASSUME NEW r \in Requests, NEW cost \in Costs, RecordUsage(r, cost)
      PROVE  RateBound'
  BY <1>1, <1>3 DEF RecordUsage
<1>. QED
  BY <1>1, <1>2, <1>3 DEF Next, vars, Tick, DenyRate, Abandon

LEMMA InitRateBound == Init => RateBound
<1>. SUFFICES ASSUME Init, NEW k \in Keys, NEW t \in Int
              PROVE  Cardinality(InWindow(k, t)) <= MaxRequests
  BY DEF RateBound
<1>1. InWindow(k, t) = {}
  BY DEF Init, InWindow
<1>. QED
  BY <1>1, FS_EmptySet, EngineAssumption

(* However the checks of all handlers interleave, and whatever denies them *)
(* after the rate limit, no window of windowMs, whenever it ends, holds    *)
(* more than maxRequests requests that one key got through preflight()'s   *)
(* first check.                                                            *)
THEOREM RateIsBounded == Spec => []RateBound
BY KeptHolds, InitRateBound, NextRateBound, PTL DEF Spec
==============================================================================

--------------------------- MODULE AgentGuardProofs ---------------------------
(***************************************************************************)
(* What holds of the agent guard for every set of workflow ids, every      *)
(* limit, every reported cost and every clock bound.                       *)
(***************************************************************************)
EXTENDS AgentGuard, TLAPS

(***************************************************************************)
(* The invariant of the mechanism.  SweptLately: the last sweep is less    *)
(* than a duration before the last call, and left nothing begun more than  *)
(* a duration before it.  Traced: a workflow the Map holds is the latest   *)
(* of those begun under its id, and one it does not hold had expired at    *)
(* the last sweep.                                                         *)
(***************************************************************************)
SweptLately ==
  /\ lastSweepAt <= now
  /\ lastCallAt <= now
  /\ lastCallAt - lastSweepAt < MaxDurationMs
  /\ \A w \in DOMAIN workflows :
       workflows[w].startedAt >= lastSweepAt - MaxDurationMs

Traced ==
  /\ \A w \in DOMAIN workflows : workflows[w].startedAt \in starts[w]
  /\ \A w \in Workflows : \A s \in starts[w] :
       /\ s <= now
       /\ IF w \in DOMAIN workflows
          THEN workflows[w].startedAt >= s
          ELSE lastSweepAt - s > MaxDurationMs

IInv == TypeOK /\ SweptLately /\ Traced /\ ResetsAreRare

LEMMA CostsAreCounted ==
  ASSUME NEW cost \in Costs
  PROVE  SanitizeCost(cost) \in Nat
BY GuardAssumption, NonNumbersAssumption DEF SanitizeCost, NonNumbers

LEMMA CountedIsState ==
  ASSUME NEW old \in WorkflowState, NEW cost \in Costs
  PROVE  /\ Counted(old, cost) \in WorkflowState
         /\ Counted(old, cost).startedAt = old.startedAt
<1>1. PICK worth \in Nat : worth = SanitizeCost(cost)
  BY CostsAreCounted
<1>2. Counted(old, cost) = [old EXCEPT !.toolCallCount = @ + 1,
                                       !.totalCost     = @ + worth]
  BY <1>1 DEF Counted
<1>3. Counted(old, cost) = [startedAt     |-> old.startedAt,
                            toolCallCount |-> old.toolCallCount + 1,
                            totalCost     |-> old.totalCost + worth]
  BY <1>2 DEF WorkflowState
<1>. QED
  BY <1>3 DEF WorkflowState

(* What a call finds: the swept Map holds well-typed states, none of them  *)
(* expired if a sweep was due.                                             *)
LEMMA SweptFacts ==
  ASSUME IInv
  PROVE  /\ DOMAIN Swept \subseteq DOMAIN workflows
         /\ \A w \in DOMAIN Swept : /\ Swept[w] = workflows[w]
                                    /\ Swept[w] \in WorkflowState
                                    /\ SweepDue => ~Expired(workflows[w])
         /\ \A w \in DOMAIN workflows \ DOMAIN Swept :
              SweepDue /\ Expired(workflows[w])
BY DEF Swept, IInv, TypeOK

LEMMA GetOrCreateFacts ==
  ASSUME IInv, NEW w \in Workflows
  PROVE  /\ GetOrCreate(w) \in WorkflowState
         /\ w \in DOMAIN Swept => GetOrCreate(w) = workflows[w]
         /\ w \notin DOMAIN Swept => GetOrCreate(w).startedAt = now
         /\ now \in Nat
BY SweptFacts DEF GetOrCreate, WorkflowState, IInv, TypeOK

(* Every call that files a state begun when getOrCreate() says keeps the   *)
(* invariant.                                                              *)
LEMMA StoreIInv ==
  ASSUME IInv, NEW w \in Workflows, NEW state \in WorkflowState,
         NEW old, old = GetOrCreate(w), state.startedAt = old.startedAt,
         Store(w, state), Note(w, old),
         now' = now,
         verdict' \in Verdict \cup {None}
  PROVE  IInv'
<1>1. PICK t \in Nat : t = state.startedAt
  BY DEF WorkflowState
<1>2. /\ now \in Nat /\ now \in 0 .. MaxTime
      /\ lastSweepAt \in Nat /\ lastSweepAt <= now
      /\ MaxDurationMs \in Nat \ {0}
      /\ starts \in [Workflows -> SUBSET Nat]
      /\ workflows \in [DOMAIN workflows -> WorkflowState]
      /\ DOMAIN workflows \subseteq Workflows
  BY GuardAssumption DEF IInv, TypeOK, SweptLately
<1>3. /\ lastSweepAt' = IF SweepDue THEN now ELSE lastSweepAt
      /\ lastCallAt' = now
      /\ SweepDue <=> now - lastSweepAt >= MaxDurationMs
  BY DEF Store, Note, SweepDue
<1>4. /\ DOMAIN workflows' = DOMAIN Swept \cup {w}
      /\ workflows'[w] = state
      /\ \A x \in DOMAIN Swept : x # w => workflows'[x] = workflows[x]
      /\ workflows' \in [DOMAIN workflows' -> WorkflowState]
      /\ DOMAIN workflows' \subseteq Workflows
  BY <1>2, SweptFacts DEF Store
<1>5. /\ starts' \in [Workflows -> SUBSET Nat]
      /\ starts'[w] = starts[w] \cup {t}
      /\ \A x \in Workflows : x # w => starts'[x] = starts[x]
  BY <1>1, <1>2 DEF Note
<1>6. TypeOK'
  BY <1>2, <1>3, <1>4, <1>5 DEF TypeOK
<1>7. \A x \in DOMAIN workflows : workflows[x].startedAt \in Nat
  BY <1>2 DEF WorkflowState
<1>8. /\ \A s \in starts[w] : s <= t /\ (s < t => t - s > MaxDurationMs)
      /\ t <= now
      /\ t >= lastSweepAt' - MaxDurationMs
  <2>1. \A s \in starts[w] : s \in Nat /\ s <= now
    BY <1>2 DEF IInv, Traced
  <2>2. CASE w \in DOMAIN Swept
    <3>1. t = workflows[w].startedAt /\ w \in DOMAIN workflows
      BY <1>1, <2>2, GetOrCreateFacts, SweptFacts
    <3>2. t \in starts[w] /\ \A s \in starts[w] : s <= t
      BY <2>1, <3>1, <1>1 DEF IInv, Traced
    <3>3. t >= lastSweepAt' - MaxDurationMs
      <4>1. CASE SweepDue
        BY <1>2, <1>3, <2>2, <3>1, <4>1, SweptFacts DEF Expired
      <4>2. CASE ~SweepDue
        BY <1>2, <1>3, <3>1, <4>2 DEF IInv, SweptLately
      <4>. QED
        BY <4>1, <4>2
    <3>. QED
      BY <2>1, <3>2, <3>3 DEF IInv, ResetsAreRare
  <2>3. CASE w \notin DOMAIN Swept
    <3>1. t = now
      BY <1>1, <2>3, GetOrCreateFacts
    <3>2. \A s \in starts[w] : now - s > MaxDurationMs
      <4>1. CASE w \in DOMAIN workflows
        <5>1. now - workflows[w].startedAt > MaxDurationMs
          BY <2>3, <4>1, SweptFacts DEF Expired
        <5>2. \A s \in starts[w] : s <= workflows[w].startedAt
          BY <4>1 DEF IInv, Traced
        <5>. QED
          BY <1>2, <1>7, <2>1, <4>1, <5>1, <5>2
      <4>2. CASE w \notin DOMAIN workflows
        BY <1>2, <2>1, <4>2 DEF IInv, Traced
      <4>. QED
        BY <4>1, <4>2
    <3>3. t >= lastSweepAt' - MaxDurationMs
      BY <1>2, <1>3, <3>1
    <3>. QED
      BY <1>2, <2>1, <3>1, <3>2, <3>3
  <2>. QED
    BY <2>2, <2>3
<1>9. SweptLately'
  <2>1. lastCallAt' - lastSweepAt' < MaxDurationMs /\ lastSweepAt' <= now
    BY <1>2, <1>3
  <2>2. ASSUME NEW x \in DOMAIN workflows'
        PROVE  workflows'[x].startedAt >= lastSweepAt' - MaxDurationMs
    <3>1. CASE x = w
      BY <1>1, <1>4, <1>8, <3>1
    <3>2. CASE x # w
      <4>1. x \in DOMAIN Swept /\ workflows'[x] = workflows[x]
        BY <1>4, <3>2
      <4>2. x \in DOMAIN workflows /\ workflows[x].startedAt \in Nat
        BY <1>7, <4>1, SweptFacts
      <4>3. CASE SweepDue
        BY <1>2, <1>3, <4>1, <4>2, <4>3, SweptFacts DEF Expired
      <4>4. CASE ~SweepDue
        BY <1>3, <4>1, <4>2, <4>4 DEF IInv, SweptLately
      <4>. QED
        BY <4>3, <4>4
    <3>. QED
      BY <3>1, <3>2
  <2>. QED
    BY <1>2, <1>3, <2>1, <2>2 DEF SweptLately
<1>10. Traced'
  <2>1. ASSUME NEW x \in DOMAIN workflows'
        PROVE  workflows'[x].startedAt \in starts'[x]
    BY <1>1, <1>2, <1>4, <1>5, SweptFacts DEF IInv, Traced
  <2>2. ASSUME NEW x \in Workflows, NEW s \in starts'[x]
        PROVE  /\ s <= now
               /\ IF x \in DOMAIN workflows'
                  THEN workflows'[x].startedAt >= s
                  ELSE lastSweepAt' - s > MaxDurationMs
    <3>1. CASE x = w
      BY <1>1, <1>2, <1>4, <1>5, <1>8, <2>2, <3>1 DEF IInv, Traced
    <3>2. CASE x # w
      <4>1. s \in starts[x] /\ s \in Nat /\ s <= now
        BY <1>2, <1>5, <2>2, <3>2 DEF IInv, Traced
      <4>2. CASE x \in DOMAIN Swept
        BY <1>4, <3>2, <4>1, <4>2, SweptFacts DEF IInv, Traced
      <4>3. CASE x \in DOMAIN workflows /\ x \notin DOMAIN Swept
        <5>1. SweepDue /\ now - workflows[x].startedAt > MaxDurationMs
          BY <4>3, SweptFacts DEF Expired
        <5>2. workflows[x].startedAt >= s /\ workflows[x].startedAt \in Nat
          BY <1>7, <4>1, <4>3 DEF IInv, Traced
        <5>3. now - s > MaxDurationMs
          BY <1>2, <4>1, <5>1, <5>2
        <5>. QED
          BY <1>3, <1>4, <3>2, <4>1, <4>3, <5>1, <5>3
      <4>4. CASE x \notin DOMAIN workflows
        <5>1. lastSweepAt - s > MaxDurationMs
          BY <4>1, <4>4 DEF IInv, Traced
        <5>2. lastSweepAt' \in Nat /\ lastSweepAt' >= lastSweepAt
          BY <1>2, <1>3
        <5>. QED
          BY <1>2, <1>4, <3>2, <4>1, <4>4, <5>1, <5>2, SweptFacts
      <4>. QED
        BY <4>2, <4>3, <4>4
    <3>. QED
      BY <3>1, <3>2
  <2>. QED
    BY <2>1, <2>2 DEF Traced
<1>11. ResetsAreRare'
  <2>. SUFFICES ASSUME NEW x \in Workflows,
                       NEW r \in starts'[x], NEW s \in starts'[x], r < s
                PROVE  s - r > MaxDurationMs
    BY DEF ResetsAreRare
  <2>1. CASE x = w
    <3>1. CASE r \in starts[w] /\ s \in starts[w]
      BY <3>1 DEF IInv, ResetsAreRare
    <3>2. CASE r = t
      BY <1>2, <1>5, <1>8, <2>1, <3>2
    <3>3. CASE r \in starts[w] /\ s = t
      BY <1>8, <3>3
    <3>. QED
      BY <1>5, <2>1, <3>1, <3>2, <3>3
  <2>2. CASE x # w
    BY <1>5, <2>2 DEF IInv, ResetsAreRare
  <2>. QED
    BY <2>1, <2>2
<1>. QED
  BY <1>6, <1>9, <1>10, <1>11 DEF IInv

LEMMA EndIInv ==
  ASSUME IInv, NEW w \in Workflows, EndWorkflow(w)
  PROVE  IInv'
<1>1. /\ DOMAIN workflows' = DOMAIN workflows \ {w}
      /\ \A x \in DOMAIN workflows' : workflows'[x] = workflows[x]
      /\ starts'[w] = {}
      /\ \A x \in Workflows : x # w => starts'[x] = starts[x]
      /\ UNCHANGED <<now, lastSweepAt, lastCallAt, verdict>>
  BY DEF EndWorkflow, IInv, TypeOK
<1>2. TypeOK'
  <2>1. workflows' \in [DOMAIN workflows' -> WorkflowState]
    BY <1>1 DEF EndWorkflow, IInv, TypeOK
  <2>2. starts' \in [Workflows -> SUBSET Nat]
    BY DEF EndWorkflow, IInv, TypeOK
  <2>. QED
    BY <1>1, <2>1, <2>2 DEF IInv, TypeOK
<1>3. SweptLately'
  BY <1>1 DEF IInv, SweptLately
<1>4. Traced'
  BY <1>1 DEF IInv, Traced, TypeOK
<1>5. ResetsAreRare'
  BY <1>1 DEF IInv, ResetsAreRare
<1>. QED
  BY <1>2, <1>3, <1>4, <1>5 DEF IInv

LEMMA InitIInv == Init => IInv
BY GuardAssumption
   DEF Init, IInv, TypeOK, SweptLately, Traced, ResetsAreRare

LEMMA NextIInv == IInv /\ [Next]_vars => IInv'
<1>. SUFFICES ASSUME IInv, [Next]_vars PROVE IInv'
  OBVIOUS
<1>1. CASE Tick
  <2>1. /\ now' \in 0 .. MaxTime /\ now' >= now /\ now \in Nat
        /\ UNCHANGED <<workflows, lastSweepAt, lastCallAt, starts, verdict>>
    BY <1>1, GuardAssumption DEF Tick, IInv, TypeOK
  <2>2. TypeOK' /\ ResetsAreRare'
    BY <2>1 DEF IInv, TypeOK, ResetsAreRare
  <2>3. SweptLately'
    BY <2>1 DEF IInv, SweptLately, TypeOK
  <2>4. Traced'
    BY <2>1 DEF IInv, Traced, TypeOK
  <2>. QED
    BY <2>2, <2>3, <2>4 DEF IInv
<1>2. ASSUME NEW w \in Workflows, Check(w) PROVE IInv'
  <2>. DEFINE state == GetOrCreate(w)
  <2>1. /\ Store(w, state) /\ Note(w, state) /\ now' = now
        /\ verdict' = [workflow |-> w, at |-> now, allowed |-> WithinLimits(state)]
    BY <1>2 DEF Check
  <2>2. state \in WorkflowState /\ now \in Nat
    BY GetOrCreateFacts
  <2>3. verdict' \in Verdict
    <3>1. WithinLimits(state) \in BOOLEAN
      BY DEF WithinLimits
    <3>. HIDE DEF state
    <3>. QED
      BY <2>1, <2>2, <3>1 DEF Verdict
  <2>. QED
    BY <2>1, <2>2, <2>3, StoreIInv
<1>3. ASSUME NEW w \in Workflows, NEW cost \in Costs, RecordToolCall(w, cost)
      PROVE  IInv'
  <2>. DEFINE old   == GetOrCreate(w)
              state == Counted(old, cost)
  <2>1. Store(w, state) /\ Note(w, old) /\ now' = now /\ verdict' = verdict
    BY <1>3 DEF RecordToolCall
  <2>2. old \in WorkflowState
    BY GetOrCreateFacts
  <2>. HIDE DEF old
  <2>3. state \in WorkflowState /\ state.startedAt = old.startedAt
    BY <2>2, CountedIsState
  <2>4. verdict' \in Verdict \cup {None}
    BY <2>1 DEF IInv, TypeOK
  <2>. HIDE DEF state
  <2>. QED
    BY <2>1, <2>3, <2>4, StoreIInv DEF old
<1>4. ASSUME NEW w \in Workflows, EndWorkflow(w) PROVE IInv'
  BY <1>4, EndIInv
<1>5. CASE UNCHANGED vars
  BY <1>5
     DEF vars, IInv, TypeOK, SweptLately, Traced, ResetsAreRare
<1>. QED
  BY <1>1, <1>2, <1>3, <1>4, <1>5 DEF Next

LEMMA Mechanism == Spec => []IInv
BY InitIInv, NextIInv, PTL DEF Spec

-----------------------------------------------------------------------------
(* The state has its types, whatever costs are reported.                   *)
THEOREM TypeCorrect == Spec => []TypeOK
<1>1. IInv => TypeOK
  BY DEF IInv
<1>. QED
  BY <1>1, Mechanism, PTL

(* However many ids its clients rotate through, and in whatever order they *)
(* call, the guard holds no workflow begun two durations or more before    *)
(* the last call.                                                          *)
THEOREM MemoryIsBounded == Spec => []MemoryBound
<1>1. IInv => MemoryBound
  <2>. SUFFICES ASSUME IInv, NEW w \in DOMAIN workflows
                PROVE  workflows[w].startedAt > lastCallAt - 2 * MaxDurationMs
    BY DEF MemoryBound
  <2>1. /\ workflows[w].startedAt >= lastSweepAt - MaxDurationMs
        /\ lastCallAt - lastSweepAt < MaxDurationMs
    BY DEF IInv, SweptLately
  <2>2. /\ workflows[w].startedAt \in Nat
        /\ lastSweepAt \in Nat /\ lastCallAt \in Nat
    BY DEF IInv, TypeOK, WorkflowState
  <2>. QED
    BY <2>1, <2>2, GuardAssumption
<1>. QED
  BY <1>1, Mechanism, PTL

(* A workflow that is not ended never gets fresh counters within a whole   *)
(* duration of the last time it got them.                                  *)
THEOREM FreshCountersAreRare == Spec => []ResetsAreRare
<1>1. IInv => ResetsAreRare
  BY DEF IInv
<1>. QED
  BY <1>1, Mechanism, PTL
==============================================================================

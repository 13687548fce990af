------------------------------ MODULE AgentGuard ------------------------------
(***************************************************************************)
(* packages/limitabl-core/src/agentGuard.ts: AgentGuard, a Map from        *)
(* workflow ids to counters, swept of old workflows by the calls           *)
(* themselves, at most once in every maxDurationMs.                        *)
(***************************************************************************)
EXTENDS Integers, Sanitize

CONSTANTS
  None,             \* no verdict yet
  Workflows,        \* workflow ids in use
  Costs,            \* what callers report as the cost of a tool call
  MaxToolCalls,     \* config.maxToolCalls
  MaxWorkflowCost,  \* config.maxWorkflowCost
  MaxDurationMs,    \* config.maxDurationMs
  Steps,            \* by how many milliseconds the clock may advance at once
  MaxTime,          \* bound on the clock
  MaxCounted        \* bound on the calls recorded of one workflow

ASSUME GuardAssumption ==
  /\ Costs \subseteq Int \cup NonNumbers
  /\ MaxToolCalls \in Nat \ {0}
  /\ MaxWorkflowCost \in Nat \ {0}
  /\ MaxDurationMs \in Nat \ {0}
  /\ Steps \subseteq Nat \ {0}
  /\ MaxTime \in Nat
  /\ MaxCounted \in Nat

VARIABLES
  now,          \* Date.now()
  workflows,    \* this.workflows: a function on the ids the Map holds
  lastSweepAt,  \* this.lastSweepAt
  lastCallAt,   \* history: when the guard was last called
  starts,       \* history: when each workflow was created since its last end
  verdict       \* history: the last AgentGuardResult

vars == <<now, workflows, lastSweepAt, lastCallAt, starts, verdict>>

-----------------------------------------------------------------------------
SweepDue == now - lastSweepAt >= MaxDurationMs

(* Slips: a workflow expires one instant too soon; none ever does.         *)
ExpiredTooSoon(state) == now - state.startedAt >= MaxDurationMs

ExpiredNever(state) == FALSE

Expired(state) == now - state.startedAt > MaxDurationMs

(* this.workflows as getOrCreate() finds it, once sweepExpired() is done.  *)
Swept ==
  IF SweepDue
  THEN [w \in {x \in DOMAIN workflows : ~Expired(workflows[x])} |-> workflows[w]]
  ELSE workflows

GetOrCreate(w) ==
  IF w \in DOMAIN Swept
  THEN Swept[w]
  ELSE [startedAt |-> now, toolCallCount |-> 0, totalCost |-> 0]

(* What every call leaves behind: the swept Map, holding `state` for w.    *)
Store(w, state) ==
  /\ workflows' = [x \in DOMAIN Swept \cup {w} |->
                     IF x = w THEN state ELSE Swept[x]]
  /\ lastSweepAt' = IF SweepDue THEN now ELSE lastSweepAt

(* What the histories note of it.                                          *)
Note(w, state) ==
  /\ lastCallAt' = now
  /\ starts' = [starts EXCEPT ![w] = @ \cup {state.startedAt}]

(* A slip: the call that reaches the limit is let through.                 *)
WithinLimitsInclusive(state) ==
  /\ ~Expired(state)
  /\ state.toolCallCount <= MaxToolCalls
  /\ state.totalCost <= MaxWorkflowCost

WithinLimits(state) ==
  /\ ~Expired(state)
  /\ state.toolCallCount < MaxToolCalls
  /\ state.totalCost < MaxWorkflowCost

-----------------------------------------------------------------------------
Init ==
  /\ now = 0
  /\ workflows = [w \in {} |-> {}]
  /\ lastSweepAt = now
  /\ lastCallAt = now
  /\ starts = [w \in Workflows |-> {}]
  /\ verdict = None

Tick ==
  /\ \E d \in Steps : now' = now + d
  /\ now' <= MaxTime
  /\ UNCHANGED <<workflows, lastSweepAt, lastCallAt, starts, verdict>>

Check(w) ==
  LET state == GetOrCreate(w)
  IN  /\ Store(w, state)
      /\ Note(w, state)
      /\ verdict' = [workflow |-> w, at |-> now, allowed |-> WithinLimits(state)]
      /\ UNCHANGED now

Counted(state, cost) ==
  [state EXCEPT !.toolCallCount = @ + 1,
                !.totalCost     = @ + SanitizeCost(cost)]

RecordToolCall(w, cost) ==
  LET state == GetOrCreate(w)
  IN  /\ state.toolCallCount < MaxCounted
      /\ Store(w, Counted(state, cost))
      /\ Note(w, state)
      /\ UNCHANGED <<now, verdict>>

EndWorkflow(w) ==
  /\ workflows' = [x \in DOMAIN workflows \ {w} |-> workflows[x]]
  /\ starts' = [starts EXCEPT ![w] = {}]
  /\ UNCHANGED <<now, lastSweepAt, lastCallAt, verdict>>

Next ==
  \/ Tick
  \/ \E w \in Workflows :
       \/ Check(w)
       \/ \E cost \in Costs : RecordToolCall(w, cost)
       \/ EndWorkflow(w)

Spec == Init /\ [][Next]_vars

-----------------------------------------------------------------------------
WorkflowState == [startedAt : Nat, toolCallCount : Nat, totalCost : Nat]

Verdict == [workflow : Workflows, at : Nat, allowed : BOOLEAN]

(* The state has its types; no reported cost makes a total negative or     *)
(* not a number.                                                           *)
TypeOK ==
  /\ now \in 0 .. MaxTime
  /\ DOMAIN workflows \subseteq Workflows
  /\ workflows \in [DOMAIN workflows -> WorkflowState]
  /\ lastSweepAt \in Nat
  /\ lastCallAt \in Nat
  /\ starts \in [Workflows -> SUBSET Nat]
  /\ verdict \in Verdict \cup {None}

(* A client that rotates workflow ids does not grow the Map without bound: *)
(* after any call it holds only workflows begun within the two durations   *)
(* before that call.                                                       *)
MemoryBound ==
  \A w \in DOMAIN workflows :
    workflows[w].startedAt > lastCallAt - 2 * MaxDurationMs

(* A workflow that was not ended gets fresh counters only after more than  *)
(* a whole duration: no order of checks, records and sweeps gives a client *)
(* its tool calls back any sooner.                                         *)
ResetsAreRare ==
  \A w \in Workflows : \A s, t \in starts[w] :
    s < t => t - s > MaxDurationMs

(* The duration cap as the comment on sweepExpired() has it: a workflow    *)
(* older than maxDurationMs is denied, so that evicting its state makes no *)
(* difference.                                                             *)
ExpiredStaysDenied ==
  (verdict # None /\ verdict.allowed) =>
    \A s \in starts[verdict.workflow] : verdict.at - s <= MaxDurationMs
==============================================================================

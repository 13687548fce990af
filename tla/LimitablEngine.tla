--------------------------- MODULE LimitablEngine ---------------------------
(***************************************************************************)
(* packages/limitabl-core/src/preflight.ts, LimitablEngine, behind the     *)
(* Express middleware of packages/limitabl/src/index.ts.  A request is     *)
(* checked before its handler runs and its usage is recorded after; the    *)
(* handler awaits in between, so that other requests are checked against   *)
(* usage not yet recorded.                                                 *)
(*                                                                         *)
(* The rate limiter and the budget tracker take part by what they promise  *)
(* (SlidingWindow, SpendLedger), the agent guard as it is (AgentGuard).    *)
(***************************************************************************)
EXTENDS Integers, FiniteSets, LimitKeys, Sanitize

CONSTANTS
  Requests,         \* request slots: how many handlers may run at once
  WorkflowIds,      \* values of the x-workflow-id header; None: no header
  Configs,          \* which limits an engine may be configured with
  Costs,            \* what handlers report as the cost of a call
  HighestCost,      \* and the most that any of them is worth
  MaxRequests, WindowMs,
  MaxSpend, PeriodMs,
  MaxToolCalls, MaxWorkflowCost, MaxDurationMs,
  Steps,            \* by how many milliseconds the clock may advance at once
  MaxTime,          \* bound on the clock
  MaxRecorded       \* bound on the calls recorded under one key

ASSUME EngineAssumption ==
  /\ IsFiniteSet(Requests)
  /\ Costs \subseteq Int \cup NonNumbers
  /\ HighestCost \in Nat
  /\ \A cost \in Costs : SanitizeCost(cost) <= HighestCost
  /\ MaxRequests \in Nat \ {0}
  /\ WindowMs \in Nat \ {0}
  /\ MaxSpend \in Nat
  /\ PeriodMs \in Nat \ {0}
  /\ MaxToolCalls \in Nat \ {0}
  /\ MaxWorkflowCost \in Nat \ {0}
  /\ MaxDurationMs \in Nat \ {0}
  /\ Configs \subseteq SUBSET {"rateLimit", "budget", "agentGuard"}
  /\ Steps \subseteq Nat \ {0}
  /\ MaxTime \in Nat
  /\ MaxRecorded \in Nat

(* workflowKeyFor: the client's workflow id under the principal, which is  *)
(* resolved in another order than the limit key and leaves the tenant out. *)
WorkflowKey(c, id) ==
  IF id = None THEN None
  ELSE <<IF c.sub # None THEN c.sub
         ELSE IF c.tenantId # None THEN c.tenantId
         ELSE IF c.orgId # None THEN c.orgId
         ELSE c.ip, id>>

WorkflowKeys == {WorkflowKey(c, id) : c \in Callers, id \in WorkflowIds}

VARIABLES
  now,          \* Date.now()
  configured,   \* which of the three members the constructor has set
  granted,      \* the rate limiter: every request of a key let through
  ledger,       \* the budget tracker: every charge reported for a key
  workflows,    \* the agent guard
  lastSweepAt,
  requests,     \* requests[r]: what Phase 1 attached to a request running
                \* its handler; None when the slot is free
  response,     \* the last answer of the middleware
  calls         \* history: every call recorded under a workflow key

vars == <<now, configured, granted, ledger, workflows, lastSweepAt, requests,
          response, calls>>

SW == INSTANCE SlidingWindow WITH replies <- None

SL == INSTANCE SpendLedger WITH verdict <- None, Estimates <- {Undefined}

AG == INSTANCE AgentGuard
        WITH Workflows <- WorkflowKeys, MaxCounted <- MaxRecorded,
             lastCallAt <- now, starts <- None, verdict <- None

-----------------------------------------------------------------------------
(* Slips: the budget check looks at the estimate of this call alone; the   *)
(* guard runs whether or not it is configured.                             *)
OverBudgetAlone(k) == "budget" \in configured /\ SanitizeCost(Undefined) > MaxSpend

GuardChecksAlways(w) == AG!Store(w, AG!GetOrCreate(w))

RateLimited(k) == "rateLimit" \in configured /\ ~SW!HasRoom(k, now)

OverBudget(k) == "budget" \in configured /\ SL!Spent(k, now) > MaxSpend

Guarded == "agentGuard" \in configured

(* rateLimiter.check() lets the request through, and has counted it even   *)
(* if a later check denies it.                                             *)
PassRateLimit(k) ==
  /\ ~RateLimited(k)
  /\ IF "rateLimit" \in configured THEN SW!Pass(k) ELSE UNCHANGED granted

(* agentGuard.check(), which may sweep and create.                         *)
GuardChecks(w) ==
  IF Guarded THEN AG!Store(w, AG!GetOrCreate(w))
  ELSE UNCHANGED <<workflows, lastSweepAt>>

(* The middleware's answer to a PreflightResult with `details` in it.      *)
Respond(allowed, details) ==
  response' =
    [status  |-> IF allowed THEN "next"
                 ELSE IF "rateLimit" \in details THEN "429" ELSE "403",
     headers |-> IF "rateLimit" \notin details THEN {}
                 ELSE IF allowed
                 THEN {"X-RateLimit-Remaining", "X-RateLimit-Reset"}
                 ELSE {"Retry-After"}]

-----------------------------------------------------------------------------
Init ==
  /\ now = 0
  /\ configured \in Configs
  /\ granted = [k \in Keys |-> {}]
  /\ ledger = [k \in Keys |-> {}]
  /\ workflows = [w \in {} |-> {}]
  /\ lastSweepAt = now
  /\ requests = [r \in Requests |-> None]
  /\ response = None
  /\ calls = [w \in WorkflowKeys |-> {}]

Tick ==
  /\ \E d \in Steps : now' = now + d
  /\ now' <= MaxTime
  /\ UNCHANGED <<configured, granted, ledger, workflows, lastSweepAt, requests,
                 response, calls>>

(* preflight() in its order: rate limit, budget, guard.                    *)
DenyRate(c) ==
  /\ RateLimited(ResolveKey(c))
  /\ Respond(FALSE, {"rateLimit"})
  /\ UNCHANGED <<now, configured, granted, ledger, workflows, lastSweepAt,
                 requests, calls>>

DenyBudget(c) ==
  /\ PassRateLimit(ResolveKey(c))
  /\ OverBudget(ResolveKey(c))
  /\ Respond(FALSE, {"budget"})
  /\ UNCHANGED <<now, configured, ledger, workflows, lastSweepAt, requests,
                 calls>>

DenyUnguarded(c) ==
  /\ PassRateLimit(ResolveKey(c))
  /\ ~OverBudget(ResolveKey(c))
  /\ Guarded
  /\ Respond(FALSE, {})
  /\ UNCHANGED <<now, configured, ledger, workflows, lastSweepAt, requests,
                 calls>>

DenyGuard(c, id) ==
  LET w == WorkflowKey(c, id)
  IN  /\ PassRateLimit(ResolveKey(c))
      /\ ~OverBudget(ResolveKey(c))
      /\ Guarded
      /\ ~AG!WithinLimits(AG!GetOrCreate(w))
      /\ GuardChecks(w)
      /\ Respond(FALSE, {"agentGuard"})
      /\ UNCHANGED <<now, configured, ledger, requests, calls>>

Allow(r, c, id) ==
  LET w == WorkflowKey(c, id)
  IN  /\ requests[r] = None
      /\ PassRateLimit(ResolveKey(c))
      /\ ~OverBudget(ResolveKey(c))
      /\ Guarded => w # None /\ AG!WithinLimits(AG!GetOrCreate(w))
      /\ GuardChecks(w)
      /\ Respond(TRUE, {})
      /\ requests' = [requests EXCEPT ![r] = [key |-> ResolveKey(c), workflow |-> w]]
      /\ UNCHANGED <<now, configured, ledger, calls>>

(* A slip: recordUsage() leaves the guard out.                             *)
RecordGuardNot(w, cost) == UNCHANGED <<workflows, lastSweepAt>>

RecordBudget(key, cost) ==
  IF "budget" \in configured THEN SL!Post(key, cost) ELSE UNCHANGED ledger

RecordGuard(w, cost) ==
  IF Guarded /\ w # None
  THEN AG!Store(w, AG!Counted(AG!GetOrCreate(w), cost))
  ELSE UNCHANGED <<workflows, lastSweepAt>>

NoteCall(w) ==
  IF Guarded /\ w # None
  THEN calls' = [calls EXCEPT ![w] =
         @ \cup {[nth |-> Cardinality(@) + 1, at |-> now]}]
  ELSE UNCHANGED calls

(* recordUsage() once the handler is done.                                 *)
RecordUsage(r, cost) ==
  /\ requests[r] # None
  /\ RecordBudget(requests[r].key, cost)
  /\ RecordGuard(requests[r].workflow, cost)
  /\ NoteCall(requests[r].workflow)
  /\ \A k \in Keys : Cardinality(ledger'[k]) <= MaxRecorded
  /\ \A w \in WorkflowKeys : Cardinality(calls'[w]) <= MaxRecorded
  /\ requests' = [requests EXCEPT ![r] = None]
  /\ UNCHANGED <<now, configured, granted, response>>

(* A handler that fails, or does not report: nothing is recorded.          *)
Abandon(r) ==
  /\ requests[r] # None
  /\ requests' = [requests EXCEPT ![r] = None]
  /\ UNCHANGED <<now, configured, granted, ledger, workflows, lastSweepAt,
                 response, calls>>

Next ==
  \/ Tick
  \/ \E c \in Callers :
       \/ DenyRate(c)
       \/ DenyBudget(c)
       \/ DenyUnguarded(c)
       \/ \E id \in WorkflowIds : DenyGuard(c, id)
       \/ \E r \in Requests, id \in WorkflowIds \cup {None} : Allow(r, c, id)
  \/ \E r \in Requests : Abandon(r) \/ \E cost \in Costs : RecordUsage(r, cost)

Spec == Init /\ [][Next]_vars

-----------------------------------------------------------------------------
Running == [key : Keys, workflow : WorkflowKeys \cup {None}]

Response == [status : {"next", "403", "429"},
             headers : SUBSET {"X-RateLimit-Remaining", "X-RateLimit-Reset",
                               "Retry-After"}]

(* The state has its types; a part that is not configured keeps nothing.   *)
TypeOK ==
  /\ now \in 0 .. MaxTime
  /\ configured \in Configs
  /\ granted \in [Keys -> SUBSET [nth : Nat, at : Nat]]
  /\ ledger \in [Keys -> SUBSET [nth : Nat, at : Nat, cost : Costs]]
  /\ workflows \in [DOMAIN workflows -> AG!WorkflowState]
  /\ DOMAIN workflows \subseteq IF Guarded THEN WorkflowKeys ELSE {}
  /\ lastSweepAt \in 0 .. now
  /\ requests \in [Requests -> Running \cup {None}]
  /\ response \in Response \cup {None}
  /\ calls \in [WorkflowKeys -> SUBSET [nth : Nat, at : Nat]]

AtOnce == Cardinality(Requests)

(* However checks, handlers and reports interleave, a workflow goes over   *)
(* its limits by no more than the handlers that can be running at once,    *)
(* also when its state is swept from under them.                           *)
GuardOvershoot ==
  \A w \in DOMAIN workflows :
    /\ workflows[w].toolCallCount <= MaxToolCalls - 1 + AtOnce
    /\ workflows[w].totalCost <= MaxWorkflowCost - 1 + AtOnce * HighestCost

(* Likewise what a key spends in a period goes over its budget by no more  *)
(* than one call of every handler running at once.                         *)
BudgetOvershoot ==
  "budget" \in configured =>
    \A k \in Keys : SL!Spent(k, now) <= MaxSpend + AtOnce * HighestCost

(* A workflow never ended, swept and begun again, is held to twice its     *)
(* limit in any stretch of maxDurationMs, and no more.                     *)
RunawayRate ==
  \A w \in WorkflowKeys : \A last \in calls[w] :
    Cardinality({x \in calls[w] :
                   last.at - MaxDurationMs < x.at /\ x.at <= last.at})
      <= 2 * (MaxToolCalls - 1 + AtOnce)
==============================================================================

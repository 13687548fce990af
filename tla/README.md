# A verification project for GatewayStack

GatewayStack is a set of TypeScript packages that sit between AI clients and the
APIs they call: they identify the user behind a request, bound what she may
spend, check what she may do, rewrite what she sends, route it, and log it. This
directory holds TLA+ models of its parts, the TLC configurations that check them
and TLAPS proofs about them. Paths below are relative to `src/`.

    tlc -workers 2 -config MCRateLimiter.cfg MCRateLimiter     # one run
    tlapm RateLimiterProofs.tla                                # one proof module

`PROJECT.json` lists the components, the runs, the source lines every definition
stands for, a mutant of the code that each checked property catches, the hazards
of the code and the theorems.

## 1. The system

### 1.1 How a request passes through it

`apps/gateway-server/src/app.ts` puts the packages into one Express chain: body
parser, `request-context` (one `AsyncLocalStorage` context per request, mutated
in place by whoever comes later), `explicabl` logging (one event when the response
ends), then per path

    /prm, /protected   preAuthLimiter -> identifiabl -> limitabl -> transformabl -> handlers
    /tools             preAuthLimiter -> identifiabl -> proxyabl (router)
    /webhooks/auth0    explicabl's router

Node runs one JavaScript turn at a time: a stretch of code with no `await` is
atomic, and at every `await` any other request may run. That decides the grain of
every model here: one action per stretch between two awaits.

### 1.2 Inventory

| component | state it keeps | operations | what is hard about it | what makes it correct |
|---|---|---|---|---|
| limitabl-core `rateLimiter.ts` | a Map from keys to lists of times; a cleanup timer | `check`, `cleanup`, `destroy` | lazy pruning, eviction by a timer in any order with checks, off-by-one at the window's edge, keys derived from four optional fields | never more than the limit in any window; what it tells the client stays true; memory bounded |
| limitabl-core `budgetTracker.ts` | a Map from keys to spends; a cleanup timer | `check`, `record`, `cleanup`, `destroy` | costs that are negative, infinite or NaN; a Map trimmed by the timer alone | no cost refunds or poisons a budget; trimming is invisible |
| limitabl-core `agentGuard.ts` | a Map from workflow ids to counters, time of the last sweep | `check`, `recordToolCall`, `endWorkflow` | swept off the back of other calls, also of the very call asking | memory bounded for rotating ids; counters not handed back early; an expired workflow denied |
| limitabl-core `preflight.ts`, limitabl `index.ts` | the three of them, and what is attached to the request | `preflight`, `recordUsage`, the middleware | check before the handler, record after it: anything may run in between | overshoot bounded by what runs at once |
| explicabl `webhooks/auth0LogWebhook.ts` | none of its own; Auth0 holds it | the log stream's handler | up to seven remote calls a client, each of which may fail or be interleaved; repeated deliveries; read-modify-write of a shared list | nobody unpromoted is enabled; a 200 means done; a repeat does no harm |
| explicabl logging, health | none | one event per response; probes | aborted connections, errors after the context is lost | exactly one event per request, with the right outcome |
| proxyabl `router.ts`, `oidc-helpers.ts` | discovery caches | MCP `initialize`/`tools/list`/`tools/call`, REST tools, proxy, OAuth metadata | timeouts racing answers and bodies, rejected promises in async handlers, retries | every request is answered exactly once |
| proxyabl `tool-gateway.ts` | none | MCP and REST calls of tools on one path, proxy, webhook, OAuth metadata | two entrances to the same tools with checks in different orders; calls outside any `try` | the gateway signs for the entitled alone; requests are answered |
| proxyabl-core | none that is used (`oidc.ts` caches keys, but `index.ts` exports another verifier) | `executeProxyRequest`, providers, auth modes, URL and header checks, configuration | two lookups of one name, timer against answer and body, header precedence | public addresses are called; credentials go where they belong; a call ends |
| validatabl-core, validatabl | none | permissions, policies, schema; `decision`; middleware | rule order with defaulted priorities, default deny, a body that is a string by now | only priorities decide; what is forwarded is what was decided on |
| transformabl-core, transformabl | none | detect, redact, classify, normalise | overlapping, nested and touching matches, offsets through stripped characters, caps | of what is detected nothing survives, and nothing else is lost |
| identifiabl-core, identifiabl | JWKS set held by `jose` | verify a token, map claims | expiry against clock tolerance, key rotation | no identity without a verified token |
| request-context | one context per asynchronous chain | `runWithGatewayContext`, getters | lost or shared context across callbacks | no request sees another's context |
| gateway-server | the chain | set-up | the order of middleware | every guarded path is guarded |
| demos, admin UI, examples, tools, compat, integrations | - | - | - | - |

Two facts from reading the callers shape the models. Nothing in the repository
calls `recordUsage` except tests and READMEs, so that a report after the handler is
what its documentation says it is; and the middleware never passes an estimated
cost, so that in the composition the budget check looks at what was spent alone.

### 1.3 What is modelled

| code | modules |
|---|---|
| `resolveKey` of `limitabl-core/src/rateLimiter.ts`; `sanitize.ts` | `LimitKeys`, `Sanitize` |
| `limitabl-core/src/rateLimiter.ts` | `RateLimiter`, implementing the abstract `SlidingWindow`; `RateLimiterProofs` |
| `limitabl-core/src/budgetTracker.ts` | `BudgetTracker`, implementing the abstract `SpendLedger`; `BudgetTrackerProofs` |
| `limitabl-core/src/agentGuard.ts` | `AgentGuard`, `AgentGuardProofs` |
| `limitabl-core/src/preflight.ts`, `limitabl/src/index.ts` | `LimitablEngine`, composed of `SlidingWindow`, `SpendLedger` and `AgentGuard`; `LimitablEngineProofs` |
| `explicabl/src/webhooks/auth0LogWebhook.ts` | `DcrWebhook`, `DcrWebhookProofs` |
| `gateway-server/src/app.ts`, `request-context`, `explicabl`'s logging, `identifiabl`, the MCP, REST and proxy handlers of `proxyabl/src/router.ts` | `GatewayServer`, `GatewayServerProofs` |
| `transformabl-core/src/{normalize,detect,redact,classify,transform}.ts` | `Redaction` |
| `validatabl-core/src/{scopes,permissions,policy,schema,decision}.ts` | `Policy` |
| `transformabl/src/index.ts`, `validatabl/src/middleware.ts`, `proxyabl-core/src/{providers,auth-modes,security,execute}.ts` | `GovernedCall`, composed of `Redaction` and `Policy`; `ProxyPlaneProofs` |
| `proxyabl/src/tool-gateway.ts` | `ToolGateway`; `ProxyPlaneProofs` |
| `proxyabl/src/oidc-helpers.ts` and the well-known documents of `router.ts` and `tool-gateway.ts` | `Discovery`; `ProxyPlaneProofs` |
| the log webhook in `router.ts` and in `tool-gateway.ts` | `ProxyablDcr`, implementing `DcrWebhook`; `ProxyPlaneProofs` |
| `isDcrEventRaw` and its filter, which the three webhooks share | `LogEvents` |

`MC*` modules instantiate these for TLC. `FoldFacts` models no code: it holds the lemmas
about sums, greatest members and filters that the proofs of several modules cite.

## 2. The modules

### 2.1 Common: `LimitKeys`, `Sanitize`

`ResolveKey` is `resolveKey()`: the first of subject, organisation and address that
is present, under the tenant where there is one. Callers that resolve to the same
key share limits, and the instances of `Callers` include that case.

`SanitizeCost` is `sanitizeCost()`: numbers are integers, plus the values `NaN`,
`Infinity` and `Undefined` which JavaScript may hand over instead. Everything
downstream adds what it returns.

### 2.2 Rate limiter

State: `now` (`Date.now()`), `windows` (`this.windows`, a function on the keys the
Map holds), `cleanupAt` (when the timer is due), `granted` (history: every grant),
`replies` (history: the last answer to each key). Actions: `Admit` and
`Deny` (the two ends of `check()`), `Cleanup`, `Destroy`, `Tick`.

* `WindowBound`: no window holds more than `MaxRequests` grants of a key.
* `PromiseKept`: `remaining`, `resetAt` and `retryAfterSec` of the last answer are
  still true, whatever other keys and the cleanup have done since.
* `FootprintBound`: while the cleanup is not overdue, the Map holds only keys
  granted within three windows.
* `ImplementsSlidingWindow`: the limiter with its Map, pruning and cleanup
  implements `SlidingWindow`, which keeps every grant for ever and forgets nothing.

### 2.3 Budget tracker

State: `budgets` (the Map), `cleanupAt` (the timer), `ledger` (history: every
charge as reported), `verdict`. Actions: `Check` with an estimate, `Record` with a
cost, `Cleanup`, `Destroy`, `Tick`. `check()` filters what it sums and stores
nothing: the timer alone trims the Map.

* `NoRefund`: what a key has spent goes down only because time has passed.
* `FootprintBound`: while the cleanup is not overdue, every key in the Map was
  charged in the last eleven tenths of a period.
* `ImplementsLedger`: every verdict is the one that the full list of charges gives
  (`SpendLedger`).

### 2.4 Agent guard

State: `workflows` (the Map), `lastSweepAt`; histories of when each workflow
was begun and of the last verdict. `GetOrCreate` includes the sweep, since every
call starts with it. Actions: `Check`, `RecordToolCall`, `EndWorkflow`, `Tick`.

* `MemoryBound`: after any call the Map holds only workflows begun within two
  durations before that call, however many ids clients make up.
* `ResetsAreRare`: a workflow that was not ended gets fresh counters only after
  more than a whole duration.
* `ExpiredStaysDenied` (violated, section 5).

### 2.5 Engine and middleware

`LimitablEngine` takes the rate limiter and the tracker by their abstract
specifications, which 2.2 and 2.3 justify, and the guard as it is. A request
occupies one of `Requests` from the check that lets it through (`Allow`) until its
usage is recorded (`RecordUsage`) or the handler drops out (`Abandon`). The denials
are actions of their own, in the order of `preflight()`, and keep what the code
has done by then: a request that the budget denies has used up a grant.

* `GuardOvershoot`, `BudgetOvershoot`: limits are exceeded by no more than the
  handlers running at once can report.
* `RunawayRate`: a workflow swept and begun again gets no more than twice its
  limit in any stretch of `maxDurationMs`.

One observation is kept out of the model: `preflight()` returns no `rateLimit` part
when it allows, so that the middleware's block for `X-RateLimit-*` headers, which
`limitabl/README.md:77` describes, never runs.

### 2.6 DCR webhook

Auth0's log stream posts batches of events; a handler runs through the events of a
registration and for each makes the management calls in turn. Between two calls
(each an `await`) another handler runs. `handlers[s].step` names the call to be
made next. A call that fails may have had its effect: PATCH and POST then leave
Auth0 in either state. `Crash` loses all handlers. A repeated delivery is another
`Deliver` of the same batch. The gates in front (secret, rate limit, configuration,
no event of interest) are `Refuse`. Auth0 is external, modelled by what the calls
made of it presuppose. The copies of this handler in proxyabl are section 2.13's.

* `OnlyPromotedClients`: a client is enabled or granted only after it was promoted.
* `AcknowledgedAreGranted`: what is answered 200 is promoted and granted.
* `EnabledUnlessOverlapped`: as long as no two handlers were between reading and
  writing `enabled_clients`, every acknowledged client stays enabled.
* `AcknowledgedAreEnabled`, `HealthyDeliverySucceeds` (violated, section 5).

### 2.7 Gateway server

`GatewayServer` follows requests through the whole chain. `requests[r]` is the
context, the response and the handler's progress of the request in slot `r`;
`step` names the await it is at: `verify` (jose), `headers` and `body` (the upstream
`fetch` and its body), or `done`. `Arrive` is everything up to the first await,
refusals of the rate limiters and of a missing token included; `Identify` is
everything from jose's verdict to the handler's answer or its `fetch`, since no other
request can run in between; `Reject`, `Headers`, `Body`, `UpstreamFails` and
`TimerFires` are what the awaits can come to; `Finish` and `Close` are the two
events explicabl listens to. `Close` can come at any time: clients hang up.
`ContextOf` says whose context `AsyncLocalStorage` gives the code that asks.

A rejected `fetch` has three outcomes in the code, and the model keeps them apart:
the REST handler answers 500, the proxy 502, and `tools/call`, whose `fetch` stands
outside any `try` in a handler nobody awaits, ends the process (`Die`).

* `AuditedOnce`: one event for each closed request, never two, whatever the order
  of `finish` and `close`.
* `AuditIsTrue`: the event of an answered request tells its status and its user.
* `NoStrangerUpstream`: upstream calls are made for the user of the request, and tools
  are called for entitled users alone.
* `OnlyCallsTakeDown` (action property): a request vanishes without an event only in
  a crash, and only `tools/call` crashes.
* `Accountable` (liveness): every request gets its event, or is lost in a crash,
  unless it waits for an upstream server while no timer runs.
* `ErrorsAreReturned` (violated, section 5).

### 2.8 Redaction

`Redaction` has operators only. A text is its length, its invisible characters and
whether a safety pattern finds something; its i-th character is the number i, so that
a property can say which characters are left. The regular expressions are external:
what they find is any set of non-empty hits in which no two of one pattern overlap.
`StripInvisible` is `stripInvisible()` with its map, `Match` the way back to offsets
of the original text, `DetectPii` the matches as a set, since `redactPii()` sorts them
again. The merging loop over the sorted matches is written as what it amounts to: which
matches open a span (`Opens`), which belong to the span that starts at a place
(`Members`), where the furthest of them ends and which of them names it (`Span`,
`Outranks`). `RedactPii` substitutes the spans from the right, a fold that takes the
least start last. A placeholder is one token that is no character of the text.
`Covered`, `InsideGap` and `NearAnEnd` say what redaction is to achieve without spans.

### 2.9 Policy

`Policy` has operators only, too. A string is the sequence of its words, since spaces
are what the code splits at; a JavaScript value is a record with a kind. `ResolveField`,
`MatchesCondition` and `ApplyPolicies` are the functions of these names in `policy.ts`;
the first matching rule is the one ahead of every other in the order of the stable
sort. `Decision` can throw: a rule without conditions is refused when a request
comes, not when the middleware is mounted, and Express answers 500.

### 2.10 Governed call

`GovernedCall` is one call of a tool through `transformabl()`, `validatabl()` and
`executeProxyRequest()`, in the order their READMEs give. `call.step` is where it is;
`job` is the request with its configuration; `dns` is what the provider's name
resolves to, `connected` the address that was called in the end. Actions: `Transform`,
`Validate`, `Resolve` (provider, credential, URL and headers, up to the lookup),
`Lookup`, `Headed`, `Unreachable`, `TimeOut`, `Bodied` and, from outside, `Rebind`.
The body is what its three parts the code looks at have become: a redacted JSON syntax
makes it a string without a name, a redacted name another tool.

* `RedactionCovers`, `RedactionIsExact`: of what the wanted hits cover nothing is left,
  or in mask mode `maskKeep` characters at the ends of what is masked in one piece (two
  matches that overlap are masked as one); nothing else is taken or moved.
* `ForwardedIsEntitled`: what is called upstream satisfies permissions, policy
  and schema, for the body that is forwarded. An allow rule must match ahead of every
  deny rule that does.
* `PriorityDecides`: writing rules down in another order, ties kept, changes no decision.
* `PrivateOnlyIfRebound`: the address called is public unless the name was rebound
  between the check and `fetch`, the only place where `Rebind` happens. The property
  states the blocks by their first two bytes, the code by text.
* `CredentialWins`: no custom header replaces the credential, the caller's own token
  reaches no provider that is not to have it unless somebody configured the very same
  value, and no header that is to be blocked is sent, unless the provider's key is
  configured to travel in it.
* `CallEnds` (liveness): a call ends, or waits for a body.

### 2.11 Tool gateway

`ToolGateway` is `tool-gateway.ts`: `sockets[s]` is the request in slot `s`, `Kind`
the part of `toolGatewayImpl()` it comes to. `Dispatch` is everything up to the first
await, `Verify` from jose's verdict to the answer or the `fetch`, and `ToolHeaders`,
`ToolBody`, `ToolFails` and `ProxyTimeout` what the awaits can come to.
`toolGatewayRouter` sends tool calls on `/` and `/mcp` alone to the implementation;
the REST form is reached through the exported `toolGatewayImpl`. A token that does not
verify is answered 500 by the REST form and 401 elsewhere.

* `SignedForEntitled`: calls are signed for the subject of the request's own token,
  with all scopes of the tool asked for, in the message or in the path; nobody else
  gets an answer of a tool.
* `OnlyMcpIsFatal` (action property): requests are lost only when a tool called by MCP
  fails, and then every slot is emptied.
* `GatewayAnswers` (liveness): every request is answered, handed over or lost so, or waits
  for a tool or a body.

### 2.12 Discovery

`Discovery` is `fetchJsonWithRetry()` behind the well-known documents. The router
answers for its resource and does not wait for the document it has asked for;
`tool-gateway.ts` does wait. `DocumentHeaders`, `FetchFails`, `TryTimesOut`,
`DocumentBody` and `PauseEnds` are the ends of its awaits. A fetch that fails by
itself leaves its timer armed through the pause.

* `GivesUpAfterThree`: 502 only after three failed tries, never a fourth, a success is
  the last.
* `QueriesSettle` (liveness): a query settles, or waits for a body: the timer
  is cleared with the headers.

### 2.13 The webhook's copies

`ProxyablDcr` is the webhook of `router.ts` and of `tool-gateway.ts`, which differ in
their gates alone. They know of no grants. A call and its body are two awaits here.
`ImplementsExplicabl` maps each step to one of `DcrWebhook` or to none: what section 2.6
says of that module, its lost update included, holds of the copies.

### 2.14 The proxy plane

`ProxyPlane` puts 2.8 to 2.13 side by side. Each initial state chooses a
deployment, `"call"`, `"gateway"`, `"discovery"` or `"webhook"`, and only that part
moves. The parts share no state in the code either, so that running them together
would add interleavings and no behaviour. Where no call is made, the governed call's
variables rest at the request `Parked`. `MCProxyPlane` gives the constants their values.

## 3. The runs

Sizes are distinct states; every passing run explores its whole state space.

| run | instance | states | shows |
|---|---|---|---|
| `rate_limiter` | two callers sharing a key and one with its own; limit 2, window 1000 ms, steps of 500, to 4000; 3 grants a key | 1,329,964 | section 2.2 |
| `budget_tracker` | two keys; costs -1, 2, Infinity; estimates undefined, 2, NaN; limit 3, period 20, steps of 10, to 30; 2 charges a key | 466,533 | section 2.3 |
| `agent_guard` | two workflows; costs -1, 1, NaN; limits 2, duration 2, steps of 1 and 2, to 8; 2 calls counted in a life | 2,531,004 | section 2.4 |
| `agent_guard_expiry` | the same | violation | finding 1 |
| `limitabl_engine` | one user in two tenants, one workflow id, two handlers at once; three configurations; limits 1 or 2, window 2, period 3, duration 2, to 3; 5 reports | 1,189,725 | section 2.5 |
| `dcr_webhook` | two clients, four kinds of batch, four sets of settings, two handlers at once, three deliveries, one fault | 1,052,053 | section 2.6 |
| `dcr_lost_update` | the same | violation | finding 2 |
| `dcr_redelivery` | the same | violation | finding 3 |
| `gateway_server` | two requests at once, two users of whom one is entitled, forged and missing tokens, one crash | 438,048 | section 2.7 |
| `gateway_crash` | the same | violation | finding 4 |
| `proxy_plane` | four deployments: texts of 3 to 6 characters with up to 3 hits of two patterns, three redactions; 10 policies or none, with and without permissions and schema; five providers, five address sets; 37 requests to the tool gateway in two slots, one death; one query; two apps, four batches, two handlers, two deliveries, one failure | 214,149 | sections 2.8 to 2.13 |
| `mask_keep_zero` | the call's deployment with `maskKeep` 0 | violation | finding 5 |

**Why the bounds are enough.** The rate limiter and the tracker treat keys apart, so
two keys show what one does to another; a limit of two grants over four windows lets a
key fill, be refused, be pruned in part and fill again, or be evicted and come back,
and steps that divide the window put grants on its very edge. The cleanup of the rate
limiter is due after two windows, the tracker's after a tenth of a period, so that
both fire, late ones included, several times. Rounding of `retryAfterSec` is exercised
by 500 ms against whole seconds. The guard is swept at most once per duration: eight
units are four durations, enough for a workflow to be begun, swept, begun again and
swept again while another rotates ids. Two handlers are the least that can both pass
on one count, and two deliveries the least that lose an update; the third is the
repeat. One fault with two clients in a batch leaves the batch half done. In
`gateway_server` two requests are the least that can be mixed up, and the crash takes
the other one with it.

In `proxy_plane`, three hits are the least that can nest, overlap and touch at once,
and the caps (5 characters normalised, 4 scanned) let each of the texts meet one: too
long to be normalised, longer than what is scanned, and with an invisible character
inside a match. The policies hold priorities against the order written, ties,
defaults, rules without conditions and none at all. The addresses hold one of each
kind of block. The requests to the tool gateway take every branch of `Dispatch` and of
`Verified`, with both users. Long texts are not paired with all policies, as decisions
look at the three parts of the body alone.

`MaxTime`, `MaxGrants`, `MaxRecords`, `MaxCounted`, `MaxRecorded`, `MaxDeliveries`,
`MaxFaults`, `MaxCrashes`, `MaxDeaths`, `MaxLogs` and `MaxFailures` bound TLC's
exploration; the code has no such bounds, and the proofs hold for each value of them.

`SYMMETRY` over slots is used in the engine's and the webhook's runs, where no
liveness is checked and no slot is told from another. `CHECK_DEADLOCK FALSE` stands in
`rate_limiter` and `budget_tracker`: after `destroy()` and at the end of time
they do stop; and in the runs of `MCProxyPlane`: a call that is done is done.

**Fairness.** `GatewayServer`, `GovernedCall`, `ToolGateway` and `Discovery` state
some, for `Accountable`, `CallEnds`, `GatewayAnswers` and `QueriesSettle`; all other
properties are of safety. Assumed is that jose ends, one way or the other (its key
fetch has a timeout of its own), that an armed timer fires, and that a response that
was ended is taken by the client or its connection closes. Nothing is assumed of an
upstream server: it may never answer, and then the REST tools and `tools/call` wait
for ever, as does the proxy for a body; `AwaitsUpstream` says so. The other three
modules assume the same and no more: timers fire, pauses end, a lookup and jose's
verdict come one way or the other, code that is not waiting goes on. All leave stalled
bodies out, since every timer of the repository is cleared with the headers.

## 4. The proofs

`tlapm` checks these for all values of the constants, from the assumptions named in
the modules (limits are positive numbers, non-numbers are not integers, slots are
finite, `None` is not a record, addresses are addresses, `maskKeep` is not negative, the
request at rest has an address); TLC evaluates every one of the
assumptions.

| module | theorem | of |
|---|---|---|
| `RateLimiterProofs` | `TypeCorrect`, `WindowNeverExceeded`, `WindowBoundHolds`, `PromisesAreKept`, `FootprintBounded`, `LimiterImplementsSlidingWindow` | `RateLimiter` |
| `BudgetTrackerProofs` | `TypeCorrect`, `FootprintBounded`, `NothingRefunded`, `TrackerImplementsLedger` | `BudgetTracker` |
| `AgentGuardProofs` | `TypeCorrect`, `MemoryIsBounded`, `FreshCountersAreRare` | `AgentGuard` |
| `LimitablEngineProofs` | `TypeCorrect`, `OvershootIsBounded`, `BudgetOvershootIsBounded`, `RunawaysAreHeld`, `RateIsBounded` | `LimitablEngine` |
| `DcrWebhookProofs` | `TypeCorrect`, `OnlyPromotedIsEnabled`, `AcknowledgedIsGranted`, `EnabledUnlessWritesOverlap`, `EachCallNearsTheAnswer` | `DcrWebhook` |
| `GatewayServerProofs` | `TypeCorrect`, `OneEventEach`, `EventsAreTrue`, `OnlyTheirOwnCalls`, `OnlyCallsAreFatal`, `EachStepNearsTheEnd` | `GatewayServer` |
| `ProxyPlaneProofs` | `Entitlement`, `PublicCalls`, `CallsGoWhereAllowed`, `Credentials`, `CallTyped`, `CallsOnlyGoOn` | `GovernedCall` |
| | `OrderIsIrrelevant`, `RulesActOneWay` | `Policy` |
| | `NothingDetectedStays`, `NothingElseGoes` | `Redaction` in `GovernedCall` |
| | `GatewayTyped`, `Signatures`, `Losses`, `SocketsOnlyGoOn` | `ToolGateway` |
| | `ThreeTries`, `QueriesTyped`, `TriesRunOut` | `Discovery` |
| | `CopiesImplementWebhook`, `CopiesTyped`, `LanesOnlyGoOn` | `ProxyablDcr` |
| | `PartsRun`, `PlaneTyped`, `PlaneIsSafe` | `ProxyPlane` |

**Sums, greatest members, filters** (`FoldFacts`). The models sum charges, take the
greatest of a set and filter a log by folds of the community modules, which are defined
by a recursive function inside a `LET`. That the function exists, is the only one, and
keeps its values where its step leads is proved of any such function by the least set
that would be an exception, so that no induction schema is needed. From there: a sum over
a finite set is a natural number and does not depend on the order in which elements are
chosen, a subset sums to no more, a renaming of elements to the same; the fold of
`max` is the greatest member; and the filter of a log is a sequence of registrations.

**Rate limiter.** The Map alone does not say what was granted. `NothingForgotten`
does: it holds granted stamps only, and every one that still counts. From it
`check()`'s count is the count of the window, and the cleanup, which drops what no
window can contain any more, changes no answer. The refinement to `SlidingWindow` is
that invariant once more: under it each step of the limiter is a step of the limiter
that remembers everything, or a stutter. That a finite set of times has an oldest,
which `resetAt` is read from, is `LeastNumber`, by counting.

**Budget tracker.** `NothingForgotten` says the same of spends: the Map holds charges of
the ledger, and every one of the period. `Numbered` keeps two equal charges apart, so
that the Map's sum and the ledger's are sums of one weight over two sets that stand in a
bijection; then every verdict is the ledger's, whatever the timer trimmed. `Touched`
says for how long every key in the Map will have been charged when the timer is next due.
`NoRefund` follows since a sanitised cost is never negative and the sum is monotone.

**Agent guard.** `MemoryBound` speaks of the moment of a call. What carries it from call
to call is `SweptLately` (the last sweep is less than a duration old, and left
nothing older than a duration) and `Traced` (what the Map does not hold any more had
expired when it was swept).

**Engine.** `GuardOvershoot` is not inductive: a report raises the counter while the
check that let it in lies in the past. `Covered` counts what the handlers now running
have yet to report as if it had been, and holds over every step: a check adds one
running handler below the limit, a report moves one from the one sum to the other, a
sweep sets the counter to nothing. `SpendCovered` is the same of budgets, where a
report adds its cost to a sum. For `RunawayRate`, `Life` splits the calls of a workflow
into its own, those of its present life, which its counter counts, and the earlier ones, of
which no more than one life's lie within a duration before this life began: a stretch of
`maxDurationMs` meets at most two lives, and `OvershootIsBounded` bounds what each counts.
`RateIsBounded` says of `preflight()` what `WindowBoundHolds` says of the limiter alone:
the rate limit is the first check and counts a request the later ones deny, and still no
window, whenever it ends, holds more than `maxRequests` of a key. A grant is never taken
back and the clock does not go back, so that a window that ends before the new grant
keeps what it held, and one that it falls into holds at most what the check counted.

**Webhook.** The invariant says for each handler what the code at its step relies on:
past the promotion its client is promoted; what it has read of the connection is
promoted; while nothing overlapped, what it has read is what the connection holds and
nobody else is between the read and the write. `Served` says what was done for the
clients a handler is through with, and passes to `acknowledged` with the answer.
`TypeCorrect` needs one thing more, that the list a handler runs through holds clients
and events without one: the filter's lemma.

**The copies of the webhook.** `CopiesImplementWebhook` is a step-by-step refinement.
`Seen` is a handler as `DcrWebhook` would have it, and each of the three ways in which a
step ends (`Then`, `Respond`, `Loop`) is one lemma to its counterpart there; every action
then is a lemma of its own. Two steps may be stutters (`StaysPut`): the status of the
token's call, whose body is the abstract step, and the body of the connection's, whose
status is, since that is when Auth0 reads the list. The invariant `Relies` is needed for
two of the steps: after a 404 the handler is marked as one whose call has failed, and from
the promotion on it has a client. Because the assumption of `DcrWebhook` holds under the
substitution (`CopiesMeetAssumption`), what `DcrWebhookProofs` shows of that module for
all constants is true of both copies, its `EnabledUnlessWritesOverlap` among it.
`ProxyablDcrAssumption` asks that `NoApp`, which stands for an empty slot, is not a
handler.

**Gateway.** `Sound` is one predicate on a single request: how `emitted`, `events`,
`open` and `finished` go together, that past `verify` the identity is the token's,
and that an answer without identity is a 401 or 429. Every action changes one
request, or all of them to nothing, so that the proof is one lemma per kind of change.

**Governed call.** `ForwardedIsEntitled` speaks of the moment of the call; the
decision was taken steps before. `Carries` keeps it: from `"resolve"` on, `Decision`
of the body in hand was "allow". That an allowing decision implies the property, which
never mentions a sort, is `AllowEntitles`. `Goes` keeps that every address of `dns`
passed the check as long as nothing was rebound, and `PublicIsOutside` that what
passes is outside the blocks by arithmetic. Assumed is that addresses are addresses
(`GovernedAssumption`). Neither needs to know what redaction does.

**Redaction.** `Redacts` says of a call that was analysed that it carries
`RedactPii` of what `DetectPii` makes of its hits; the rest is about operators, for a text
of any length with any hits. What is detected are matches (`MatchesAre`), because the
stripped text keeps its characters in order (`StrippedInOrder`). Of the spans: they are
not empty and do not overlap (`SpansApart`); every match lies within one
(`MatchesInSpans`), and none goes across an end of one (`NothingStraddles`); every
character of a span lies in one of its matches (`SpansAreCovered`): were one left out,
the first of the span's matches behind it would open another. Of the substitution:
`Redone` describes a text in which the spans of some set have been replaced, the part
before the first of them still being where it was, and `SubstituteKeeps` is one round of
the loop under it. `RedactPiiIs` is the whole loop, by the fold facts and `ByRemoving`,
which stands in for induction over a finite set. Both theorems say what they do of each
call whose configuration does not mask with `maskKeep` 0 (`Covers(job.how)`), for which
the code does otherwise (finding 5); the default is 2, and the other modes are not
concerned.

`PriorityDecides` is about two sequences of rules, the second a permutation of the first.
A rule ahead of all other matching rules in the one is carried by the permutation to a
rule ahead of all others in the other, since ties keep their order; there is at most one
such rule in each, as the order is total; hence both decide by the same rule or by the
default. `CredentialWins` looks at the headers when the call is made; `Sends` keeps from
`"lookup"` on that they are those of the provider and that it resolved. Of a provider that
is not to have the caller's token the property says that it is sent only what is
configured for it or the request's other tokens; that holds whatever the values are.

**Tool gateway.** `Regular` says of a request what the code after each await relies
on: one that is being verified has passed the checks of its form, one that waits for a
tool has a signed call it is entitled to. Each step is a lemma on one request;
`StepIs` says that a step changes one slot or kills the process.

**Discovery.** `QueryCounted` ties the loop's counter to the failures and fetches the
property counts apart.

**Policies with one more rule.** `RulesActOneWay` compares a decision with the one the
same request would get with a rule appended. It needs both directions of the order: a
rule that still decides was ahead of all others before; and when an allowing rule comes
first it is ahead of whatever the old first rule was ahead of. A denying rule without
conditions makes `decision()` throw, which allows nothing; an allowing one is excluded.

**Where a call goes.** `GoesWhereAllowed` is `assertUrlSafe()`'s verdict kept from the
moment the headers are made; the provider is the one of the request throughout.

**The plane.** `StepsOfParts`: a step of the plane is a step of one part and a stutter of
the others. Hence each part's specification follows from the plane's, and its
theorems hold there; `PartsRun` states it of the tool gateway, discovery and the older
webhooks, while the governed call, which rests where it is not deployed, has
`NoCallStays`. `PlaneTyped` is the run's `TypeOK`; `PlaneIsSafe` is all the rest of its
safety.

**Progress.** Liveness under fairness is out of the prover's reach, and its safe half
is not: that the code never goes round. Each of `CallsOnlyGoOn`, `SocketsOnlyGoOn`,
`TriesRunOut`, `LanesOnlyGoOn`, `EachCallNearsTheAnswer` and `EachStepNearsTheEnd` gives a
request a natural number (`CallAhead`, `SocketAhead`, `QueryAhead`, `LaneAhead`, `CallsLeft`,
`Ahead`: the awaits it may still come to, its timer, the tries and events left), and shows
that each step of its own lowers it, while every other request's step leaves the request
as it is. So a governed call takes at most 13 steps, a request of the gateway server nine,
and a delivery of n registrations 7n + 1 calls, the second pass after a 404 included.
What remains for TLC is that a step is taken at all.

**Only model-checked**: `Accountable`, `CallEnds`, `GatewayAnswers` and `QueriesSettle`,
which are liveness; their safe half is proved, as said above.
`OnlyPromotedClients` and the like of the copies have no theorem of their own, since the
prover cannot cite a theorem of an instantiated module (the argument is above). Out of
the prover's reach are liveness under fairness, `ENABLED`, the library's induction
theorems, and recursive operators; no module declares one.

## 5. Where the code and its documents part

1. `agent_guard_expiry`. `agentGuard.ts:38` says of workflows older than
   `maxDurationMs` that they "are already denied by the duration check". `check()` calls
   `getOrCreate()` first, whose sweep deletes the workflow and begins it anew: when a
   sweep is due, the call that should be denied is let through with fresh counters.
   `FreshCountersAreRare` bounds the harm.
2. `dcr_lost_update`. `auth0LogWebhook.ts:162` calls adding a client to
   `enabled_clients` idempotent. Two deliveries that read the list before either
   writes it lose one of their clients, and both are answered 200.
   `EnabledUnlessWritesOverlap` shows that nothing else does.
3. `dcr_redelivery`. `docs/auth0/dcr-log-webhook.md:114` says the call is there "to
   ensure" the grant. It can only create it: a second event about a client, or a
   repeated batch, meets a conflict and is answered 500, and so again with each retry.
4. `gateway_crash`. `docs/architecture.md:11` says proxyabl will "try alternative
   providers, then return error". A `tools/call` whose tool server cannot be reached
   rejects a promise nobody handles, and Node ends the process with every request in
   it. `OnlyCallsAreFatal` shows that no other route does that.
5. `mask_keep_zero`. `transformabl-core/src/types.ts:47` says of `maskKeep`: "Number of
   characters to keep visible at start/end when masking". With 0 the mask is followed
   by the whole value, because `slice(-0)` is `slice(0)`.

Seen while modelling, and not checked by a run: `detect.ts:203` loops for ever with a
custom pattern that lacks the `g` flag or matches nothing at all; `transformabl()`
does not look at `scanTruncated`; with `classify: false` the risk score is 0 and
`blockThreshold` blocks nothing; policies have no field for what classification found,
though the middleware's comment says that they can reference it;
`proxyabl-core/src/config.ts:132` says that invalid JSON makes the scopes "fail closed
with empty config", and a tool without an entry needs no scope. `TOOL_SCOPES` is read as
a bare property (`tool-gateway.ts:212`, `425`, `516`), so a name every object inherits
(`toString`) passes for a configured tool that needs no scope, while the comment at line
211 asks for an entry. In `ToolGateway`, where the request chooses the name, `Tools` has
own keys only, so `SignedForEntitled` says nothing of the inherited ones.

## 6. What is left out, and why

* **Abstractions.** The clock never goes back. `maxRequests` is at least 1: with 0
  the code computes with an undefined time. Numbers are integers where the code has
  doubles. Auth0 keeps a call's effect before it answers or not at all: a call still
  under way when the process dies has no late effect. The limiter in front of the
  webhook and those in front of identifiabl are `express-rate-limit`'s and may refuse at
  any time. limitabl's own refusal in `GatewayServer` is a choice; its state is
  `LimitablEngine`'s. Statuses nothing tells apart stand for each other.
  A signed call's time stamp is left out. Names on `Object.prototype` are left out:
  registries are functions on the names configured. For providers the configuration
  chooses the name, for tools the request does (section 5). `SanitizeProxyPath` checks the
  path as it came; what `new URL()` makes of it afterwards (`tool-gateway.ts:1254`; a
  percent-encoded dot counts as a dot there) is not part of the state. The path of a
  governed call is any: `Resolve` may end in `buildUrl()`'s throw.
* **Pure I/O**: `health.ts` and the readiness probes, `config.ts` of proxyabl-core,
  which reads the environment. **String work**: the patterns of `detect.ts` and of
  policies (external), the parsing of URLs, paths and scope lists.
* **Only cut or clamped**: the cap on response sizes and the ranges of time limits in
  `execute.ts`; labels and metadata of `classifyContent()`.
* **Dead**: `proxyabl-core/src/oidc.ts`, whose verifier nothing calls. Demos, admin
  UI, tools, `compat` and `integrations` have no logic of the gateway's own.
* **Public routes** of the gateway server (`/health`, `/prm`, the test echo) keep
  nothing and call nobody.

## 7. The plan

The order was the order of risk: what bounds users' spend (2.2 to 2.5), what changes
state elsewhere by unreliable calls (2.6), the chain that everything passes through
(2.7), and then what decides on a call and makes it (2.8 to 2.13). The
invariants, action properties and refinements of the passing runs all have their
theorems; the four liveness properties are model-checked. What is left is what section 6
lists: the clock that may go back, and the parts that are modelled in part or not at all.

----------------------------- MODULE RateLimiter -----------------------------
(***************************************************************************)
(* packages/limitabl-core/src/rateLimiter.ts: InMemoryRateLimiter, a Map   *)
(* from resolved keys to arrays of timestamps, pruned lazily by check()    *)
(* and by a setInterval cleanup.                                           *)
(*                                                                         *)
(* An array of timestamps is a set of stamps [nth, at]: `at` is the pushed *)
(* Date.now() and `nth` numbers the pushes of that key, so equal           *)
(* timestamps stay apart and element 0 of the array is the least nth.      *)
(* Date.now() is assumed not to step back.                                 *)
(***************************************************************************)
EXTENDS Integers, FiniteSets, LimitKeys

CONSTANTS
  MaxRequests,  \* config.maxRequests
  WindowMs,     \* config.windowMs
  Steps,        \* by how many milliseconds the clock may advance at once
  MaxTime,      \* bound on the clock
  MaxGrants     \* bound on the requests of one key let through

ASSUME LimitsAssumption ==
  /\ MaxRequests \in Nat \ {0}
  /\ WindowMs \in Nat \ {0}
  /\ Steps \subseteq Nat \ {0}
  /\ MaxTime \in Nat
  /\ MaxGrants \in Nat

VARIABLES
  now,          \* Date.now()
  windows,      \* this.windows: a function on the keys the Map holds
  cleanupAt,    \* when the interval timer is next due; None after destroy()
  granted,      \* history: every stamp ever pushed for a key
  replies       \* history: the last RateLimitResult returned for a key

vars == <<now, windows, cleanupAt, granted, replies>>

-----------------------------------------------------------------------------
(* Plausible slips in the helpers and in the cleanup below, one per        *)
(* definition: with one put in the place of the definition it is named      *)
(* after, TLC must find a property violated.                               *)

UnexpiredInclusive(stamps) == {s \in stamps : s.at >= now - WindowMs}

FullOffByOne(stamps) == Cardinality(stamps) > MaxRequests

FloorSec(ms) == ms \div 1000

-----------------------------------------------------------------------------
(* timestamps.filter((t) => t > windowStart)                               *)
Unexpired(stamps) == {s \in stamps : s.at > now - WindowMs}

Full(stamps) == Cardinality(stamps) >= MaxRequests

Entry(k) == IF k \in DOMAIN windows THEN windows[k] ELSE {}

Put(k, stamps) ==
  [x \in DOMAIN windows \cup {k} |-> IF x = k THEN stamps ELSE windows[x]]

(* timestamps[0]                                                           *)
Oldest(stamps) == CHOOSE s \in stamps : \A t \in stamps : s.nth <= t.nth

CeilSec(ms) == (ms + 999) \div 1000

-----------------------------------------------------------------------------
(* constructor: an empty Map, and an interval of two windows.              *)
Init ==
  /\ now = 0
  /\ windows = [k \in {} |-> {}]
  /\ cleanupAt = 2 * WindowMs
  /\ granted = [k \in Keys |-> {}]
  /\ replies = [k \in Keys |-> None]

Tick ==
  /\ \E d \in Steps : now' = now + d
  /\ now' <= MaxTime
  /\ UNCHANGED <<windows, cleanupAt, granted, replies>>

(* check(), the window full: prune, push nothing.                          *)
Deny(c) ==
  LET k       == ResolveKey(c)
      kept    == Unexpired(Entry(k))
      resetAt == Oldest(kept).at + WindowMs
  IN  /\ Full(kept)
      /\ windows' = Put(k, kept)
      /\ replies' = [replies EXCEPT ![k] =
           [allowed       |-> FALSE,
            at            |-> now,
            remaining     |-> 0,
            resetAt       |-> resetAt,
            retryAfterSec |-> CeilSec(resetAt - now)]]
      /\ UNCHANGED <<now, cleanupAt, granted>>

(* check(), the window not full: prune and push.                           *)
Admit(c) ==
  LET k     == ResolveKey(c)
      kept  == Unexpired(Entry(k))
      stamp == [nth |-> Cardinality(granted[k]) + 1, at |-> now]
  IN  /\ stamp.nth <= MaxGrants
      /\ ~Full(kept)
      /\ windows' = Put(k, kept \cup {stamp})
      /\ granted' = [granted EXCEPT ![k] = @ \cup {stamp}]
      /\ replies' = [replies EXCEPT ![k] =
           [allowed       |-> TRUE,
            at            |-> now,
            remaining     |-> MaxRequests - Cardinality(kept \cup {stamp}),
            resetAt       |-> now + WindowMs,
            retryAfterSec |-> 0]]
      /\ UNCHANGED <<now, cleanupAt>>

(* A slip: the cleanup prunes the arrays and forgets to delete empty ones.  *)
CleanupKeepsEmpty ==
  /\ cleanupAt # None
  /\ now >= cleanupAt
  /\ windows' = [k \in DOMAIN windows |-> Unexpired(windows[k])]
  /\ cleanupAt' = now + 2 * WindowMs
  /\ UNCHANGED <<now, granted, replies>>

(* The interval callback, which may run late but never early.              *)
Cleanup ==
  /\ cleanupAt # None
  /\ now >= cleanupAt
  /\ windows' = [k \in {x \in DOMAIN windows : Unexpired(windows[x]) # {}}
                   |-> Unexpired(windows[k])]
  /\ cleanupAt' = now + 2 * WindowMs
  /\ UNCHANGED <<now, granted, replies>>

(* destroy(): clearInterval; check() goes on working.                      *)
Destroy ==
  /\ cleanupAt # None
  /\ cleanupAt' = None
  /\ UNCHANGED <<now, windows, granted, replies>>

Next ==
  \/ Tick
  \/ \E c \in Callers : Deny(c) \/ Admit(c)
  \/ Cleanup
  \/ Destroy

Spec == Init /\ [][Next]_vars

-----------------------------------------------------------------------------
Stamp == [nth : Nat \ {0}, at : Nat]

Reply == [allowed : BOOLEAN, at : Nat, remaining : Nat, resetAt : Nat,
          retryAfterSec : Nat]

(* The state has its types, and the Map holds pushed stamps only.          *)
TypeOK ==
  /\ now \in 0 .. MaxTime
  /\ DOMAIN windows \subseteq Keys
  /\ windows \in [DOMAIN windows -> SUBSET Stamp]
  /\ cleanupAt \in Nat \cup {None}
  /\ granted \in [Keys -> SUBSET Stamp]
  /\ replies \in [Keys -> Reply \cup {None}]

(* check() never lets through more than maxRequests of one key in any      *)
(* window of windowMs, over the whole history: pruning, deleting an idle   *)
(* key and creating it afresh never forget a request that still counts.    *)
InWindowEndingAt(k, t) ==
  {g \in granted[k] : t - WindowMs < g.at /\ g.at <= t}

WindowBound ==
  \A k \in Keys : \A g \in granted[k] :
    Cardinality(InWindowEndingAt(k, g.at)) <= MaxRequests

(* What check() told a caller stays true until the key is used again.  An  *)
(* allowed caller has `remaining` more requests, and an empty window from  *)
(* resetAt on.  A denied caller would be denied again before resetAt, and  *)
(* is let through once it has waited retryAfterSec.                        *)
PromiseKept ==
  \A k \in Keys : replies[k] # None =>
    LET r    == replies[k]
        used == Cardinality(Unexpired(Entry(k)))
    IN  IF r.allowed
        THEN /\ used + r.remaining <= MaxRequests
             /\ now >= r.resetAt => used = 0
        ELSE /\ now < r.resetAt => used >= MaxRequests
             /\ now >= r.at + 1000 * r.retryAfterSec => used < MaxRequests

(* The Map does not grow with keys long gone: while the interval is not    *)
(* overdue, every key it holds was let through in the last three windows.  *)
FootprintBound ==
  (cleanupAt # None /\ now <= cleanupAt) =>
    \A k \in DOMAIN windows :
      \E s \in windows[k] : s.at > now - 3 * WindowMs

(* The limiter implements the promise made over the full history.          *)
SW == INSTANCE SlidingWindow
ImplementsSlidingWindow == SW!Spec
==============================================================================

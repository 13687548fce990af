---------------------------- MODULE SlidingWindow ----------------------------
(***************************************************************************)
(* What limitabl-core's rate limiter promises its callers, with none of    *)
(* the mechanism: no Map, no lazy pruning, no cleanup timer.  The promise  *)
(* is a function of the whole history of granted requests.                 *)
(***************************************************************************)
EXTENDS Integers, FiniteSets

CONSTANTS
  Keys,         \* resolved limit keys
  None,         \* "no reply yet"
  MaxRequests,  \* RateLimitConfig.maxRequests
  WindowMs      \* RateLimitConfig.windowMs

VARIABLES
  now,          \* Date.now(), milliseconds
  granted,      \* granted[k]: every request of k ever let through
  replies       \* replies[k]: the last answer given to k

vars == <<now, granted, replies>>

(* The grants of k that still count at instant t: those of (t - W, t].     *)
Counted(k, t) == {g \in granted[k] : g.at > t - WindowMs}

HasRoom(k, t) == Cardinality(Counted(k, t)) < MaxRequests

(* r is the instant at which k, left alone, gets room again.               *)
RoomFrom(k, r) == HasRoom(k, r) /\ ~HasRoom(k, r - 1)

(* sec whole seconds from now reach r, and one fewer does not.             *)
ReachesFirst(sec, r) == now + 1000 * sec >= r /\ now + 1000 * (sec - 1) < r

Init ==
  /\ now = 0
  /\ granted = [k \in Keys |-> {}]
  /\ replies = [k \in Keys |-> None]

Tick ==
  /\ now' \in Nat
  /\ now' > now
  /\ UNCHANGED <<granted, replies>>

(* One more request of k is let through.                                   *)
Pass(k) ==
  granted' = [granted EXCEPT ![k] =
                @ \cup {[nth |-> Cardinality(@) + 1, at |-> now]}]

Grant(k) ==
  /\ HasRoom(k, now)
  /\ Pass(k)
  /\ replies' = [replies EXCEPT ![k] =
       [allowed       |-> TRUE,
        at            |-> now,
        remaining     |-> MaxRequests - (Cardinality(Counted(k, now)) + 1),
        resetAt       |-> now + WindowMs,
        retryAfterSec |-> 0]]
  /\ UNCHANGED now

Refuse(k) ==
  /\ ~HasRoom(k, now)
  /\ \E g \in granted[k], sec \in 1 .. (WindowMs \div 1000) + 1 :
       LET reset == g.at + WindowMs
       IN  /\ RoomFrom(k, reset)
           /\ ReachesFirst(sec, reset)
           /\ replies' = [replies EXCEPT ![k] =
                [allowed       |-> FALSE,
                 at            |-> now,
                 remaining     |-> 0,
                 resetAt       |-> reset,
                 retryAfterSec |-> sec]]
  /\ UNCHANGED <<now, granted>>

Next == Tick \/ \E k \in Keys : Grant(k) \/ Refuse(k)

Spec == Init /\ [][Next]_vars
==============================================================================

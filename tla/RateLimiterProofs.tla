-------------------------- MODULE RateLimiterProofs --------------------------
(***************************************************************************)
(* What holds of the rate limiter for every set of callers, every limit    *)
(* and every clock bound.                                                  *)
(***************************************************************************)
EXTENDS RateLimiter, FoldFacts

-----------------------------------------------------------------------------
(* Facts about the data.                                                   *)

(* The stamp to evict is the one that was made first.                      *)
LEMMA OldestIsLeast ==
  ASSUME NEW S, S \subseteq Stamp, IsFiniteSet(S), S # {}
  PROVE  /\ Oldest(S) \in S
         /\ \A t \in S : Oldest(S).nth <= t.nth
<1>. DEFINE N == {s.nth : s \in S}
<1>1. N \subseteq Int /\ N # {}
  BY DEF Stamp
<1>2. IsFiniteSet(N)
  <2>. DEFINE f == [s \in S |-> s.nth]
  <2>1. f \in Surjection(S, N)
    BY DEF Surjection
  <2>. QED
    BY <2>1, FS_Surjection
<1>3. PICK n \in N : \A m \in N : n <= m
  BY <1>1, <1>2, LeastNumber
<1>4. \E s \in S : \A t \in S : s.nth <= t.nth
  BY <1>3
<1>. QED
  BY <1>4 DEF Oldest

(* One more in a finite set, and what fits in a finite set.                *)
LEMMA CardinalityAdd ==
  ASSUME NEW S, IsFiniteSet(S), NEW x, x \notin S
  PROVE  /\ IsFiniteSet(S \cup {x})
         /\ Cardinality(S \cup {x}) = Cardinality(S) + 1
BY FS_AddElement

LEMMA CardinalitySub ==
  ASSUME NEW S, IsFiniteSet(S), NEW T, T \subseteq S
  PROVE  /\ IsFiniteSet(T)
         /\ Cardinality(T) \in Nat
         /\ Cardinality(S) \in Nat
         /\ Cardinality(T) <= Cardinality(S)
BY FS_Subset, FS_CardinalityType

LEMMA CeilSecIsLeast ==
  ASSUME NEW ms \in Nat \ {0}
  PROVE  /\ CeilSec(ms) \in 1 .. (ms \div 1000) + 1
         /\ 1000 * CeilSec(ms) >= ms
         /\ 1000 * (CeilSec(ms) - 1) < ms
BY DEF CeilSec

-----------------------------------------------------------------------------
(***************************************************************************)
(* The invariant of the mechanism.  Numbered: the history of a key is      *)
(* finite, numbered in the order of its pushes, and its times follow the   *)
(* numbers.  NothingForgotten: the Map holds granted stamps only, and      *)
(* every one that still counts.                                            *)
(***************************************************************************)
Numbered ==
  \A k \in Keys :
    /\ IsFiniteSet(granted[k])
    /\ \A g \in granted[k] : g.nth <= Cardinality(granted[k]) /\ g.at <= now
    /\ \A g, h \in granted[k] : g.nth <= h.nth => g.at <= h.at

NothingForgotten ==
  /\ \A k \in DOMAIN windows : windows[k] \subseteq granted[k]
  /\ \A k \in Keys : \A g \in granted[k] :
       g.at > now - WindowMs => k \in DOMAIN windows /\ g \in windows[k]

IInv == TypeOK /\ Numbered /\ NothingForgotten

(* What check() computes with, in terms of the history.                    *)
Kept(k) == Unexpired(Entry(k))

NextStamp(k) == [nth |-> Cardinality(granted[k]) + 1, at |-> now]

LEMMA KeptIsCounted ==
  ASSUME IInv, NEW k \in Keys
  PROVE  /\ Kept(k) = SW!Counted(k, now)
         /\ Kept(k) \subseteq granted[k]
         /\ granted[k] \subseteq Stamp
         /\ IsFiniteSet(Kept(k))
         /\ Cardinality(Kept(k)) \in Nat
         /\ Cardinality(granted[k]) \in Nat
<1>1. Kept(k) = SW!Counted(k, now)
  BY DEF IInv, NothingForgotten, Kept, Unexpired, Entry, SW!Counted
<1>2. Kept(k) \subseteq granted[k]
  BY <1>1 DEF SW!Counted
<1>3. IsFiniteSet(granted[k]) /\ granted[k] \subseteq Stamp
  BY DEF IInv, Numbered, TypeOK
<1>. QED
  BY <1>1, <1>2, <1>3, CardinalitySub

LEMMA StampIsFresh ==
  ASSUME IInv, NEW k \in Keys
  PROVE  /\ NextStamp(k) \in Stamp
         /\ NextStamp(k) \notin granted[k]
         /\ IsFiniteSet(Kept(k) \cup {NextStamp(k)})
         /\ Cardinality(Kept(k) \cup {NextStamp(k)}) = Cardinality(Kept(k)) + 1
         /\ IsFiniteSet(granted[k] \cup {NextStamp(k)})
         /\ Cardinality(granted[k] \cup {NextStamp(k)})
              = Cardinality(granted[k]) + 1
<1>1. Cardinality(granted[k]) \in Nat /\ now \in Nat /\ IsFiniteSet(granted[k])
  BY KeptIsCounted DEF IInv, TypeOK, Numbered
<1>2. NextStamp(k) \in Stamp
  BY <1>1 DEF NextStamp, Stamp
<1>3. NextStamp(k) \notin granted[k]
  BY <1>1 DEF NextStamp, IInv, Numbered
<1>4. IsFiniteSet(Kept(k)) /\ NextStamp(k) \notin Kept(k)
  BY <1>3, KeptIsCounted
<1>. QED
  BY <1>1, <1>2, <1>3, <1>4, CardinalityAdd

(* A denial names the oldest stamp that counts, and a wait of at least a   *)
(* second.                                                                 *)
LEMMA DenialFacts ==
  ASSUME IInv, NEW k \in Keys, Full(Kept(k)),
         NEW o, o = Oldest(Kept(k))
  PROVE  /\ o \in Kept(k)
         /\ \A s \in Kept(k) : o.at <= s.at
         /\ o.at + WindowMs \in Nat
         /\ (o.at + WindowMs) - now \in 1 .. WindowMs
<1>1. Kept(k) # {}
  BY KeptIsCounted, FS_EmptySet, LimitsAssumption DEF Full
<1>2. o \in Kept(k) /\ \A s \in Kept(k) : o.nth <= s.nth
  BY <1>1, KeptIsCounted, OldestIsLeast
<1>3. \A s \in Kept(k) : o.at <= s.at
  BY <1>2, KeptIsCounted DEF IInv, Numbered
<1>4. o \in Stamp /\ o.at > now - WindowMs /\ o.at <= now
  BY <1>2, KeptIsCounted DEF SW!Counted, IInv, Numbered
<1>5. now \in Nat /\ WindowMs \in Nat \ {0}
  BY LimitsAssumption DEF IInv, TypeOK
<1>. QED
  BY <1>2, <1>3, <1>4, <1>5 DEF Stamp

LEMMA InitIInv == Init => IInv
<1>. SUFFICES ASSUME Init PROVE IInv
  OBVIOUS
<1>. USE LimitsAssumption DEF Init
<1>1. TypeOK
  BY DEF TypeOK
<1>2. Numbered
  BY FS_EmptySet DEF Numbered
<1>3. NothingForgotten
  BY DEF NothingForgotten
<1>. QED
  BY <1>1, <1>2, <1>3 DEF IInv

LEMMA AdmitIInv ==
  ASSUME IInv, NEW c \in Callers, Admit(c)
  PROVE  IInv'
<1>. DEFINE k == ResolveKey(c)
            s == NextStamp(k)
<1>1. k \in Keys
  BY DEF Keys
<1>. HIDE DEF k, s
<1>2. /\ ~Full(Kept(k))
      /\ windows' = Put(k, Kept(k) \cup {s})
      /\ granted' = [granted EXCEPT ![k] = @ \cup {s}]
      /\ UNCHANGED <<now, cleanupAt>>
      /\ replies' = [replies EXCEPT ![k] =
           [allowed       |-> TRUE,
            at            |-> now,
            remaining     |-> MaxRequests - Cardinality(Kept(k) \cup {s}),
            resetAt       |-> now + WindowMs,
            retryAfterSec |-> 0]]
  BY DEF Admit, Kept, NextStamp, k, s
<1>3. /\ s \in Stamp
      /\ s.nth = Cardinality(granted[k]) + 1
      /\ s.at = now
      /\ IsFiniteSet(granted[k] \cup {s})
      /\ Cardinality(granted[k] \cup {s}) = Cardinality(granted[k]) + 1
      /\ Cardinality(Kept(k) \cup {s}) = Cardinality(Kept(k)) + 1
  BY <1>1, StampIsFresh DEF s, NextStamp
<1>4. /\ Kept(k) = {g \in granted[k] : g.at > now - WindowMs}
      /\ Cardinality(Kept(k)) \in Nat
      /\ Cardinality(granted[k]) \in Nat
  BY <1>1, KeptIsCounted DEF SW!Counted
<1>5. /\ granted'[k] = granted[k] \cup {s}
      /\ \A x \in Keys : x # k => granted'[x] = granted[x]
      /\ granted' \in [Keys -> SUBSET Stamp]
  BY <1>1, <1>2, <1>3 DEF IInv, TypeOK
<1>6. /\ DOMAIN windows' = DOMAIN windows \cup {k}
      /\ windows'[k] = Kept(k) \cup {s}
      /\ \A x \in DOMAIN windows : x # k => windows'[x] = windows[x]
      /\ windows' \in [DOMAIN windows' -> SUBSET Stamp]
      /\ DOMAIN windows' \subseteq Keys
  <2>1. Kept(k) \cup {s} \subseteq Stamp
    BY <1>1, <1>3, KeptIsCounted
  <2>. QED
    BY <1>1, <1>2, <2>1 DEF Put, IInv, TypeOK
<1>7. TypeOK'
  <2>1. MaxRequests - Cardinality(Kept(k) \cup {s}) \in Nat
    BY <1>2, <1>3, <1>4, LimitsAssumption DEF Full
  <2>2. now \in Nat /\ now + WindowMs \in Nat
    BY LimitsAssumption DEF IInv, TypeOK
  <2>3. replies' \in [Keys -> Reply \cup {None}]
    BY <1>1, <1>2, <2>1, <2>2 DEF Reply, IInv, TypeOK
  <2>. QED
    BY <1>2, <1>5, <1>6, <2>3 DEF IInv, TypeOK
<1>8. Numbered'
  <2>. SUFFICES ASSUME NEW x \in Keys
                PROVE  /\ IsFiniteSet(granted'[x])
                       /\ \A g \in granted'[x] :
                            g.nth <= Cardinality(granted'[x]) /\ g.at <= now
                       /\ \A g, h \in granted'[x] :
                            g.nth <= h.nth => g.at <= h.at
    BY <1>2 DEF Numbered
  <2>1. CASE x # k
    BY <1>5, <2>1 DEF IInv, Numbered
  <2>2. CASE x = k
    <3>1. granted[k] \subseteq Stamp /\ now \in Nat
      BY <1>1 DEF IInv, TypeOK
    <3>2. /\ \A g \in granted[k] : g.nth <= Cardinality(granted[k]) /\ g.at <= now
          /\ \A g, h \in granted[k] : g.nth <= h.nth => g.at <= h.at
      BY <1>1 DEF IInv, Numbered
    <3>3. \A g \in granted'[k] :
            \/ g = s
            \/ /\ g \in granted[k]
               /\ g.nth \in Nat /\ g.at \in Nat
               /\ g.nth < s.nth /\ g.at <= s.at
      BY <1>3, <1>4, <1>5, <3>1, <3>2 DEF Stamp
    <3>4. \A g \in granted'[k] :
            g.nth <= Cardinality(granted'[k]) /\ g.at <= now
      BY <1>3, <1>4, <1>5, <3>1, <3>2, <3>3
    <3>5. \A g, h \in granted'[k] : g.nth <= h.nth => g.at <= h.at
      BY <1>3, <1>4, <3>1, <3>2, <3>3
    <3>. QED
      BY <1>3, <1>5, <2>2, <3>4, <3>5
  <2>. QED
    BY <2>1, <2>2
<1>9. NothingForgotten'
  <2>1. \A x \in DOMAIN windows' : windows'[x] \subseteq granted'[x]
    BY <1>4, <1>5, <1>6 DEF IInv, NothingForgotten, TypeOK
  <2>2. ASSUME NEW x \in Keys, NEW g \in granted'[x], g.at > now - WindowMs
        PROVE  x \in DOMAIN windows' /\ g \in windows'[x]
    <3>1. CASE x = k
      BY <1>4, <1>5, <1>6, <2>2, <3>1
    <3>2. CASE x # k
      BY <1>5, <1>6, <2>2, <3>2 DEF IInv, NothingForgotten
    <3>. QED
      BY <3>1, <3>2
  <2>. QED
    BY <1>2, <2>1, <2>2 DEF NothingForgotten
<1>. QED
  BY <1>7, <1>8, <1>9 DEF IInv

LEMMA DenyIInv ==
  ASSUME IInv, NEW c \in Callers, Deny(c)
  PROVE  IInv'
<1>. DEFINE k == ResolveKey(c)
            o == Oldest(Kept(k))
<1>1. k \in Keys
  BY DEF Keys
<1>. HIDE DEF k, o
<1>2. /\ Full(Kept(k))
      /\ windows' = Put(k, Kept(k))
      /\ UNCHANGED <<now, cleanupAt, granted>>
      /\ replies' = [replies EXCEPT ![k] =
           [allowed       |-> FALSE,
            at            |-> now,
            remaining     |-> 0,
            resetAt       |-> o.at + WindowMs,
            retryAfterSec |-> CeilSec((o.at + WindowMs) - now)]]
  BY DEF Deny, Kept, k, o
<1>3. /\ Kept(k) = {g \in granted[k] : g.at > now - WindowMs}
      /\ Kept(k) \subseteq Stamp
  BY <1>1, KeptIsCounted DEF SW!Counted
<1>4. /\ DOMAIN windows' = DOMAIN windows \cup {k}
      /\ windows'[k] = Kept(k)
      /\ \A x \in DOMAIN windows : x # k => windows'[x] = windows[x]
      /\ windows' \in [DOMAIN windows' -> SUBSET Stamp]
      /\ DOMAIN windows' \subseteq Keys
  BY <1>1, <1>2, <1>3 DEF Put, IInv, TypeOK
<1>5. TypeOK'
  <2>1. o.at + WindowMs \in Nat /\ (o.at + WindowMs) - now \in 1 .. WindowMs
    BY <1>1, <1>2, DenialFacts DEF o
  <2>2. CeilSec((o.at + WindowMs) - now) \in Nat
    BY <2>1, CeilSecIsLeast, LimitsAssumption
  <2>3. replies' \in [Keys -> Reply \cup {None}]
    BY <1>1, <1>2, <2>1, <2>2 DEF Reply, IInv, TypeOK
  <2>. QED
    BY <1>2, <1>4, <2>3 DEF IInv, TypeOK
<1>6. Numbered'
  BY <1>2 DEF IInv, Numbered
<1>7. NothingForgotten'
  BY <1>2, <1>3, <1>4 DEF IInv, NothingForgotten
<1>. QED
  BY <1>5, <1>6, <1>7 DEF IInv

LEMMA CleanupIInv ==
  ASSUME IInv, Cleanup
  PROVE  IInv'
<1>1. /\ DOMAIN windows' = {x \in DOMAIN windows : Unexpired(windows[x]) # {}}
      /\ \A k \in DOMAIN windows' : windows'[k] = Unexpired(windows[k])
      /\ windows' = [k \in DOMAIN windows' |-> windows'[k]]
      /\ UNCHANGED <<now, granted, replies>>
  BY DEF Cleanup
<1>2. TypeOK'
  BY <1>1, LimitsAssumption DEF Cleanup, IInv, TypeOK, Unexpired
<1>3. Numbered'
  BY <1>1 DEF IInv, Numbered
<1>4. NothingForgotten'
  BY <1>1 DEF IInv, NothingForgotten, Unexpired
<1>. QED
  BY <1>2, <1>3, <1>4 DEF IInv

LEMMA TickIInv ==
  ASSUME IInv, Tick
  PROVE  IInv'
<1>1. /\ now \in Nat /\ now' \in 0 .. MaxTime /\ now' > now
      /\ UNCHANGED <<windows, cleanupAt, granted, replies>>
  BY LimitsAssumption DEF Tick, IInv, TypeOK
<1>2. \A k \in Keys : \A g \in granted[k] : g.at \in Nat
  BY DEF IInv, TypeOK, Stamp
<1>3. TypeOK'
  BY <1>1 DEF IInv, TypeOK
<1>4. Numbered'
  BY <1>1, <1>2 DEF IInv, Numbered
<1>5. NothingForgotten'
  BY <1>1, <1>2, LimitsAssumption DEF IInv, NothingForgotten
<1>. QED
  BY <1>3, <1>4, <1>5 DEF IInv

LEMMA NextIInv == IInv /\ [Next]_vars => IInv'
<1>. SUFFICES ASSUME IInv, [Next]_vars PROVE IInv'
  OBVIOUS
<1>1. CASE Tick
  BY <1>1, TickIInv
<1>2. ASSUME NEW c \in Callers, Deny(c) PROVE IInv'
  BY <1>2, DenyIInv
<1>3. ASSUME NEW c \in Callers, Admit(c) PROVE IInv'
  BY <1>3, AdmitIInv
<1>4. CASE Cleanup
  BY <1>4, CleanupIInv
<1>5. CASE Destroy
  BY <1>5 DEF Destroy, IInv, TypeOK, Numbered, NothingForgotten
<1>6. CASE UNCHANGED vars
  BY <1>6 DEF vars, IInv, TypeOK, Numbered, NothingForgotten
<1>. QED
  BY <1>1, <1>2, <1>3, <1>4, <1>5, <1>6 DEF Next

LEMMA Mechanism == Spec => []IInv
BY InitIInv, NextIInv, PTL DEF Spec

(* The state of the limiter keeps its types.                               *)
THEOREM TypeCorrect == Spec => []TypeOK
BY Mechanism, PTL DEF IInv

-----------------------------------------------------------------------------
(* The window bound.  EveryWindow is WindowBound for windows ending at any *)
(* instant; it is inductive beside IInv because the stamps of a window     *)
(* that holds the new one all still count, and those check() has counted.  *)
EveryWindow ==
  \A k \in Keys : \A t \in Int :
    Cardinality(InWindowEndingAt(k, t)) <= MaxRequests

LEMMA AdmitEveryWindow ==
  ASSUME IInv, EveryWindow, NEW c \in Callers, Admit(c)
  PROVE  EveryWindow'
<1>. DEFINE k == ResolveKey(c)
            s == NextStamp(k)
<1>1. k \in Keys
  BY DEF Keys
<1>. HIDE DEF k, s
<1>2. ~Full(Kept(k)) /\ granted' = [granted EXCEPT ![k] = @ \cup {s}]
  BY DEF Admit, Kept, NextStamp, k, s
<1>3. /\ granted'[k] = granted[k] \cup {s}
      /\ \A x \in Keys : x # k => granted'[x] = granted[x]
  BY <1>1, <1>2 DEF IInv, TypeOK
<1>4. s.at = now
  BY DEF s, NextStamp
<1>5. now \in Nat /\ \A g \in granted[k] : g.at \in Nat /\ g.at <= now
  BY <1>1 DEF IInv, TypeOK, Numbered, Stamp
<1>. SUFFICES ASSUME NEW x \in Keys, NEW t \in Int
              PROVE  Cardinality(InWindowEndingAt(x, t)') <= MaxRequests
  BY DEF EveryWindow
<1>6. CASE x # k
  <2>1. InWindowEndingAt(x, t)' = InWindowEndingAt(x, t)
    BY <1>3, <1>6 DEF InWindowEndingAt
  <2>. QED
    BY <2>1 DEF EveryWindow
<1>7. CASE x = k /\ t - WindowMs < now /\ now <= t
  <2>1. InWindowEndingAt(x, t)' \subseteq Kept(k) \cup {s}
    <3>1. Kept(k) = {g \in granted[k] : g.at > now - WindowMs}
      BY <1>1, KeptIsCounted DEF SW!Counted
    <3>. QED
      BY <1>3, <1>5, <1>7, <3>1, LimitsAssumption DEF InWindowEndingAt
  <2>2. /\ IsFiniteSet(Kept(k) \cup {s})
        /\ Cardinality(Kept(k) \cup {s}) = Cardinality(Kept(k)) + 1
    BY <1>1, StampIsFresh DEF s
  <2>3. Cardinality(Kept(k) \cup {s}) <= MaxRequests
    BY <1>1, <1>2, <2>2, KeptIsCounted, LimitsAssumption DEF Full
  <2>4. Cardinality(InWindowEndingAt(x, t)') <= Cardinality(Kept(k) \cup {s})
    BY <2>1, <2>2, CardinalitySub
  <2>. QED
    BY <1>1, <2>1, <2>2, <2>3, <2>4, CardinalitySub, LimitsAssumption
<1>8. CASE x = k /\ ~(t - WindowMs < now /\ now <= t)
  <2>1. InWindowEndingAt(x, t)' = InWindowEndingAt(x, t)
    BY <1>3, <1>4, <1>8 DEF InWindowEndingAt
  <2>. QED
    BY <2>1 DEF EveryWindow
<1>. QED
  BY <1>6, <1>7, <1>8

LEMMA NextEveryWindow == IInv /\ EveryWindow /\ [Next]_vars => EveryWindow'
<1>. SUFFICES ASSUME IInv, EveryWindow, [Next]_vars PROVE EveryWindow'
  OBVIOUS
<1>1. ASSUME NEW c \in Callers, Admit(c) PROVE EveryWindow'
  BY <1>1, AdmitEveryWindow
<1>2. ASSUME UNCHANGED granted PROVE EveryWindow'
  BY <1>2 DEF EveryWindow, InWindowEndingAt
<1>. QED
  BY <1>1, <1>2 DEF Next, vars, Tick, Deny, Cleanup, Destroy

LEMMA InitEveryWindow == Init => EveryWindow
<1>. SUFFICES ASSUME Init, NEW k \in Keys, NEW t \in Int
              PROVE  Cardinality(InWindowEndingAt(k, t)) <= MaxRequests
  BY DEF EveryWindow
<1>1. InWindowEndingAt(k, t) = {}
  BY DEF Init, InWindowEndingAt
<1>. QED
  BY <1>1, FS_EmptySet, LimitsAssumption

(* At most maxRequests requests of a key pass in any window of windowMs,   *)
(* wherever it lies.                                                       *)
THEOREM WindowNeverExceeded == Spec => []EveryWindow
BY Mechanism, InitEveryWindow, NextEveryWindow, PTL DEF Spec

(* The same for the windows TLC looks at, those that end at a grant.       *)
THEOREM WindowBoundHolds == Spec => []WindowBound
<1>1. IInv /\ EveryWindow => WindowBound
  BY DEF IInv, TypeOK, Stamp, EveryWindow, WindowBound
<1>. QED
  BY <1>1, Mechanism, WindowNeverExceeded, PTL

-----------------------------------------------------------------------------
(* The footprint.  Every key in the Map holds a stamp no older than one    *)
(* window before the last cleanup (or the start), which was two windows    *)
(* before the next one is due.                                             *)
TouchedSinceCleanup ==
  cleanupAt # None =>
    /\ now >= cleanupAt - 2 * WindowMs
    /\ \A k \in DOMAIN windows :
         \E s \in windows[k] : s.at > cleanupAt - 3 * WindowMs

LEMMA CheckTouched ==
  ASSUME IInv, IInv', TouchedSinceCleanup, NEW c \in Callers,
         Admit(c) \/ Deny(c)
  PROVE  TouchedSinceCleanup'
<1>. DEFINE k == ResolveKey(c)
<1>1. k \in Keys
  BY DEF Keys
<1>. HIDE DEF k
<1>2. UNCHANGED <<now, cleanupAt>>
  BY DEF Admit, Deny
<1>3. PICK S : windows' = Put(k, S) /\ \E s \in S : s.at > now - WindowMs
  <2>1. CASE Admit(c)
    <3>1. windows' = Put(k, Kept(k) \cup {NextStamp(k)})
      BY <2>1 DEF Admit, Kept, NextStamp, k
    <3>2. NextStamp(k).at > now - WindowMs
      BY LimitsAssumption DEF NextStamp, IInv, TypeOK
    <3>. QED
      BY <3>1, <3>2
  <2>2. CASE Deny(c)
    <3>1. windows' = Put(k, Kept(k)) /\ Full(Kept(k))
      BY <2>2 DEF Deny, Kept, k
    <3>2. PICK s \in Kept(k) : TRUE
      BY <1>1, <3>1, DenialFacts
    <3>. QED
      BY <3>1, <3>2 DEF Kept, Unexpired
  <2>. QED
    BY <2>1, <2>2
<1>4. /\ DOMAIN windows' = DOMAIN windows \cup {k}
      /\ windows'[k] = S
      /\ \A x \in DOMAIN windows : x # k => windows'[x] = windows[x]
  BY <1>3 DEF Put
<1>. SUFFICES ASSUME cleanupAt # None
              PROVE  /\ now >= cleanupAt - 2 * WindowMs
                     /\ \A x \in DOMAIN windows' :
                          \E s \in windows'[x] : s.at > cleanupAt - 3 * WindowMs
  BY <1>2 DEF TouchedSinceCleanup
<1>5. now >= cleanupAt - 2 * WindowMs
  BY DEF TouchedSinceCleanup
<1>6. PICK s \in windows'[k] : s.at > now - WindowMs
  BY <1>3, <1>4
<1>7. s.at \in Nat /\ now \in Nat /\ cleanupAt \in Nat /\ WindowMs \in Nat
  BY <1>4, <1>6, LimitsAssumption DEF IInv, TypeOK, Stamp
<1>8. s.at > cleanupAt - 3 * WindowMs
  BY <1>5, <1>6, <1>7
<1>. QED
  BY <1>4, <1>5, <1>6, <1>8 DEF TouchedSinceCleanup

LEMMA NextTouched ==
  IInv /\ IInv' /\ TouchedSinceCleanup /\ [Next]_vars => TouchedSinceCleanup'
<1>. SUFFICES ASSUME IInv, IInv', TouchedSinceCleanup, [Next]_vars
              PROVE  TouchedSinceCleanup'
  OBVIOUS
<1>1. CASE Tick
  BY <1>1, LimitsAssumption DEF Tick, TouchedSinceCleanup, IInv, TypeOK
<1>2. ASSUME NEW c \in Callers, Admit(c) \/ Deny(c)
      PROVE  TouchedSinceCleanup'
  BY <1>2, CheckTouched
<1>3. CASE Cleanup
  <2>1. /\ cleanupAt' = now + 2 * WindowMs /\ now' = now
        /\ now \in Nat /\ WindowMs \in Nat
    BY <1>3, LimitsAssumption DEF Cleanup, IInv, TypeOK
  <2>2. ASSUME NEW k \in DOMAIN windows'
        PROVE  \E s \in windows'[k] : s.at > now - WindowMs
    BY <1>3, <2>2 DEF Cleanup, Unexpired
  <2>3. cleanupAt' - 3 * WindowMs = now - WindowMs
    BY <2>1
  <2>. QED
    BY <2>1, <2>2, <2>3 DEF TouchedSinceCleanup
<1>4. CASE Destroy
  BY <1>4 DEF Destroy, TouchedSinceCleanup
<1>5. CASE UNCHANGED vars
  BY <1>5 DEF vars, TouchedSinceCleanup
<1>. QED
  BY <1>1, <1>2, <1>3, <1>4, <1>5 DEF Next

(* As long as the interval fires on time, the Map holds no key that was    *)
(* last let through more than three windows ago.                           *)
THEOREM FootprintBounded == Spec => []FootprintBound
<1>1. Init => TouchedSinceCleanup
  BY LimitsAssumption DEF Init, TouchedSinceCleanup
<1>2. IInv /\ TouchedSinceCleanup => FootprintBound
  <2>. SUFFICES ASSUME IInv, TouchedSinceCleanup, cleanupAt # None,
                       now <= cleanupAt, NEW k \in DOMAIN windows
                PROVE  \E s \in windows[k] : s.at > now - 3 * WindowMs
    BY DEF FootprintBound
  <2>1. PICK s \in windows[k] : s.at > cleanupAt - 3 * WindowMs
    BY DEF TouchedSinceCleanup
  <2>2. s.at \in Nat /\ now \in Nat /\ cleanupAt \in Nat /\ WindowMs \in Nat
    BY <2>1, LimitsAssumption DEF IInv, TypeOK, Stamp
  <2>. QED
    BY <2>1, <2>2
<1>. QED
  BY <1>1, <1>2, Mechanism, NextTouched, PTL DEF Spec

-----------------------------------------------------------------------------
(* The refinement.  Every step of the mechanism is a step of SlidingWindow *)
(* or leaves its variables alone.                                          *)
LEMMA SameCardinality ==
  ASSUME NEW S
  PROVE  SW!Cardinality(S) = Cardinality(S)
BY DEF SW!Cardinality, Cardinality

LEMMA RoomIsCardinality ==
  ASSUME NEW k, NEW t
  PROVE  SW!HasRoom(k, t) <=> Cardinality(SW!Counted(k, t)) < MaxRequests
BY SameCardinality DEF SW!HasRoom

LEMMA CountedIsFinite ==
  ASSUME IInv, NEW k \in Keys, NEW t \in Int
  PROVE  /\ IsFiniteSet(SW!Counted(k, t))
         /\ Cardinality(SW!Counted(k, t)) \in Nat
<1>1. IsFiniteSet(granted[k]) /\ SW!Counted(k, t) \subseteq granted[k]
  BY DEF IInv, Numbered, SW!Counted
<1>. QED
  BY <1>1, CardinalitySub

LEMMA KeptFits ==
  ASSUME IInv, EveryWindow, NEW k \in Keys
  PROVE  Cardinality(Kept(k)) <= MaxRequests
<1>1. now \in Int /\ Kept(k) = InWindowEndingAt(k, now)
  BY KeptIsCounted
     DEF IInv, TypeOK, Numbered, SW!Counted, InWindowEndingAt
<1>. QED
  BY <1>1 DEF EveryWindow

(* The instant a denial names is the first at which the key has room.      *)
LEMMA ResetIsFirstRoom ==
  ASSUME IInv, EveryWindow, NEW k \in Keys, Full(Kept(k)),
         NEW o, o = Oldest(Kept(k))
  PROVE  SW!RoomFrom(k, o.at + WindowMs)
<1>. DEFINE r == o.at + WindowMs
<1>0. r = o.at + WindowMs
  OBVIOUS
<1>. HIDE DEF r
<1>1. /\ o \in Kept(k) /\ \A s \in Kept(k) : o.at <= s.at
      /\ r \in Nat /\ r > now
  BY <1>0, DenialFacts DEF IInv, TypeOK
<1>2. /\ Kept(k) = {g \in granted[k] : g.at > now - WindowMs}
      /\ IsFiniteSet(Kept(k)) /\ Cardinality(Kept(k)) \in Nat
      /\ \A g \in granted[k] : g.at \in Nat
      /\ now \in Nat /\ WindowMs \in Nat
  BY KeptIsCounted, LimitsAssumption DEF SW!Counted, IInv, TypeOK, Stamp
<1>3. SW!HasRoom(k, r)
  <2>1. SW!Counted(k, r) \subseteq Kept(k) \ {o}
    <3>1. o.at \in Nat /\ r - WindowMs = o.at
      BY <1>0, <1>1, <1>2
    <3>. QED
      BY <1>1, <1>2, <3>1 DEF SW!Counted
  <2>2. /\ IsFiniteSet(Kept(k) \ {o})
        /\ Cardinality(Kept(k) \ {o}) = Cardinality(Kept(k)) - 1
    BY <1>1, <1>2, FS_RemoveElement
  <2>3. Cardinality(Kept(k)) <= MaxRequests
    BY KeptFits
  <2>4. Cardinality(SW!Counted(k, r)) <= Cardinality(Kept(k) \ {o})
    BY <2>1, <2>2, CardinalitySub
  <2>5. Cardinality(SW!Counted(k, r)) \in Nat
    BY <1>1, CountedIsFinite
  <2>. QED
    BY <1>2, <2>2, <2>3, <2>4, <2>5, RoomIsCardinality, LimitsAssumption
<1>4. ~SW!HasRoom(k, r - 1)
  <2>1. r - 1 \in Int /\ Kept(k) \subseteq SW!Counted(k, r - 1)
    <3>1. o.at \in Nat /\ (r - 1) - WindowMs = o.at - 1
      BY <1>0, <1>1, <1>2
    <3>. QED
      BY <1>1, <1>2, <3>1 DEF SW!Counted
  <2>2. /\ IsFiniteSet(SW!Counted(k, r - 1))
        /\ Cardinality(SW!Counted(k, r - 1)) \in Nat
    BY <2>1, CountedIsFinite
  <2>3. Cardinality(Kept(k)) <= Cardinality(SW!Counted(k, r - 1))
    BY <2>1, <2>2, CardinalitySub
  <2>. QED
    BY <1>2, <2>2, <2>3, RoomIsCardinality, LimitsAssumption DEF Full
<1>. QED
  BY <1>0, <1>3, <1>4 DEF SW!RoomFrom

LEMMA AdmitIsGrant ==
  ASSUME IInv, NEW c \in Callers, Admit(c)
  PROVE  SW!Grant(ResolveKey(c))
<1>. DEFINE k == ResolveKey(c)
<1>1. k \in Keys
  BY DEF Keys
<1>. HIDE DEF k
<1>2. /\ ~Full(Kept(k))
      /\ granted' = [granted EXCEPT ![k] = @ \cup {NextStamp(k)}]
      /\ UNCHANGED now
      /\ replies' = [replies EXCEPT ![k] =
           [allowed       |-> TRUE,
            at            |-> now,
            remaining     |-> MaxRequests
                                - Cardinality(Kept(k) \cup {NextStamp(k)}),
            resetAt       |-> now + WindowMs,
            retryAfterSec |-> 0]]
  BY DEF Admit, Kept, NextStamp, k
<1>3. /\ Kept(k) = SW!Counted(k, now)
      /\ Cardinality(Kept(k)) \in Nat
      /\ Cardinality(Kept(k) \cup {NextStamp(k)}) = Cardinality(Kept(k)) + 1
  BY <1>1, KeptIsCounted, StampIsFresh
<1>4. SW!HasRoom(k, now)
  BY <1>2, <1>3, RoomIsCardinality, LimitsAssumption DEF Full
<1>5. granted' = [granted EXCEPT ![k] =
                    @ \cup {[nth |-> SW!Cardinality(@) + 1, at |-> now]}]
  BY <1>1, <1>2, SameCardinality DEF NextStamp, IInv, TypeOK
<1>6. MaxRequests - Cardinality(Kept(k) \cup {NextStamp(k)})
        = MaxRequests - (SW!Cardinality(SW!Counted(k, now)) + 1)
  BY <1>3, SameCardinality
<1>. QED
  BY <1>2, <1>4, <1>5, <1>6 DEF SW!Grant, SW!Pass, k

LEMMA DenyIsRefuse ==
  ASSUME IInv, EveryWindow, NEW c \in Callers, Deny(c)
  PROVE  SW!Refuse(ResolveKey(c))
<1>. DEFINE k   == ResolveKey(c)
            o   == Oldest(Kept(k))
            sec == CeilSec((o.at + WindowMs) - now)
<1>1. k \in Keys
  BY DEF Keys
<1>. HIDE DEF k, o, sec
<1>2. /\ Full(Kept(k))
      /\ UNCHANGED <<now, granted>>
      /\ replies' = [replies EXCEPT ![k] =
           [allowed       |-> FALSE,
            at            |-> now,
            remaining     |-> 0,
            resetAt       |-> o.at + WindowMs,
            retryAfterSec |-> sec]]
  BY DEF Deny, Kept, k, o, sec
<1>3. /\ o \in Kept(k)
      /\ o.at + WindowMs \in Nat
      /\ (o.at + WindowMs) - now \in 1 .. WindowMs
  BY <1>1, <1>2, DenialFacts DEF o
<1>4. o \in granted[k] /\ now \in Nat
  BY <1>1, <1>3, KeptIsCounted DEF IInv, TypeOK
<1>5. ~SW!HasRoom(k, now)
  BY <1>1, <1>2, KeptIsCounted, RoomIsCardinality, LimitsAssumption DEF Full
<1>6. SW!RoomFrom(k, o.at + WindowMs)
  BY <1>1, <1>2, ResetIsFirstRoom DEF o
<1>7. /\ sec \in 1 .. (WindowMs \div 1000) + 1
      /\ SW!ReachesFirst(sec, o.at + WindowMs)
  <2>1. /\ sec \in 1 .. (((o.at + WindowMs) - now) \div 1000) + 1
        /\ 1000 * sec >= (o.at + WindowMs) - now
        /\ 1000 * (sec - 1) < (o.at + WindowMs) - now
    BY <1>3, CeilSecIsLeast DEF sec
  <2>. DEFINE d == (o.at + WindowMs) - now
  <2>2. d \div 1000 <= WindowMs \div 1000
    BY <1>3, LimitsAssumption
  <2>3. sec \in 1 .. (WindowMs \div 1000) + 1
    BY <1>3, <2>1, <2>2, LimitsAssumption
  <2>. QED
    BY <1>3, <1>4, <2>1, <2>3 DEF SW!ReachesFirst
<1>. HIDE DEF k
<1>8. SW!Refuse(k)
  BY <1>2, <1>4, <1>5, <1>6, <1>7 DEF SW!Refuse
<1>. QED
  BY <1>8 DEF k

(* The limiter answers every call as the full history of grants demands,   *)
(* though it keeps only a pruned and periodically emptied Map.             *)
THEOREM LimiterImplementsSlidingWindow == Spec => ImplementsSlidingWindow
<1>1. Init => SW!Init
  BY DEF Init, SW!Init
<1>2. IInv /\ EveryWindow /\ [Next]_vars => [SW!Next]_(SW!vars)
  <2>. SUFFICES ASSUME IInv, EveryWindow, [Next]_vars
                PROVE  SW!Next \/ UNCHANGED SW!vars
    OBVIOUS
  <2>1. CASE Tick
    BY <2>1, LimitsAssumption DEF Tick, IInv, TypeOK, SW!Next, SW!Tick
  <2>2. ASSUME NEW c \in Callers, Deny(c) PROVE SW!Next
    BY <2>2, DenyIsRefuse DEF SW!Next, Keys
  <2>3. ASSUME NEW c \in Callers, Admit(c) PROVE SW!Next
    BY <2>3, AdmitIsGrant DEF SW!Next, Keys
  <2>4. CASE Cleanup \/ Destroy \/ UNCHANGED vars
    BY <2>4 DEF Cleanup, Destroy, vars, SW!vars
  <2>. QED
    BY <2>1, <2>2, <2>3, <2>4 DEF Next
<1>. QED
  BY <1>1, <1>2, Mechanism, WindowNeverExceeded, PTL
     DEF Spec, ImplementsSlidingWindow, SW!Spec

-----------------------------------------------------------------------------
(* The promise.  What a reply says is tied to the history as it was when   *)
(* the reply was made; nothing has been granted to the key since.          *)
AllowedReply(k, r) ==
  /\ r.resetAt = r.at + WindowMs
  /\ Cardinality(SW!Counted(k, r.at)) + r.remaining <= MaxRequests

DeniedReply(k, r) ==
  /\ Cardinality(SW!Counted(k, r.at)) = MaxRequests
  /\ \E o \in SW!Counted(k, r.at) :
       /\ r.resetAt = o.at + WindowMs
       /\ \A g \in SW!Counted(k, r.at) : o.at <= g.at
  /\ r.at + 1000 * r.retryAfterSec >= r.resetAt

ReplyOf(k, r) ==
  /\ r.at <= now
  /\ \A g \in granted[k] : g.at <= r.at
  /\ IF r.allowed THEN AllowedReply(k, r) ELSE DeniedReply(k, r)

RepliesRecorded ==
  \A k \in Keys : \A r : (r = replies[k] /\ r # None) => ReplyOf(k, r)

(* A reply stays true while time passes and its key is left alone.         *)
LEMMA ReplyStays ==
  ASSUME NEW k, NEW r, ReplyOf(k, r),
         granted'[k] = granted[k],
         now \in Nat, now' \in Nat, now <= now', r.at \in Nat
  PROVE  ReplyOf(k, r)'
<1>1. SW!Counted(k, r.at)' = SW!Counted(k, r.at)
  BY DEF SW!Counted
<1>2. AllowedReply(k, r) => AllowedReply(k, r)'
  BY <1>1 DEF AllowedReply
<1>3. DeniedReply(k, r) => DeniedReply(k, r)'
  BY <1>1 DEF DeniedReply
<1>4. r.at <= now' /\ \A g \in granted'[k] : g.at <= r.at
  BY DEF ReplyOf
<1>. QED
  BY <1>2, <1>3, <1>4 DEF ReplyOf

LEMMA ReplyType ==
  ASSUME IInv, NEW k \in Keys, replies[k] # None
  PROVE  replies[k].at \in Nat
BY DEF IInv, TypeOK, Reply

(* A call about k leaves the replies about other keys true.                *)
LEMMA OthersRecorded ==
  ASSUME IInv, RepliesRecorded, NEW k \in Keys, NEW r,
         replies' = [replies EXCEPT ![k] = r],
         \A x \in Keys : x # k => granted'[x] = granted[x],
         now' = now,
         ReplyOf(k, r)'
  PROVE  RepliesRecorded'
<1>. SUFFICES ASSUME NEW x \in Keys, NEW q, q = replies'[x], q # None
              PROVE  ReplyOf(x, q)'
  BY DEF RepliesRecorded
<1>1. CASE x = k
  BY <1>1 DEF IInv, TypeOK
<1>2. CASE x # k
  <2>1. q = replies[x] /\ granted'[x] = granted[x]
    BY <1>2 DEF IInv, TypeOK
  <2>2. ReplyOf(x, q) /\ q.at \in Nat
    BY <2>1, ReplyType DEF RepliesRecorded
  <2>. QED
    BY <2>1, <2>2, ReplyStays DEF IInv, TypeOK
<1>. QED
  BY <1>1, <1>2

LEMMA AdmitRecorded ==
  ASSUME IInv, RepliesRecorded, NEW c \in Callers, Admit(c)
  PROVE  RepliesRecorded'
<1>. DEFINE k == ResolveKey(c)
            s == NextStamp(k)
            r == [allowed       |-> TRUE,
                  at            |-> now,
                  remaining     |-> MaxRequests - Cardinality(Kept(k) \cup {s}),
                  resetAt       |-> now + WindowMs,
                  retryAfterSec |-> 0]
<1>1. k \in Keys
  BY DEF Keys
<1>. HIDE DEF k, s
<1>2. /\ ~Full(Kept(k))
      /\ now' = now
      /\ granted' = [granted EXCEPT ![k] = @ \cup {s}]
      /\ replies' = [replies EXCEPT ![k] = r]
  BY DEF Admit, Kept, NextStamp, k, s
<1>3. /\ granted'[k] = granted[k] \cup {s}
      /\ \A x \in Keys : x # k => granted'[x] = granted[x]
  BY <1>1, <1>2 DEF IInv, TypeOK
<1>4. /\ s.at = now /\ now \in Nat /\ WindowMs \in Nat \ {0}
      /\ \A g \in granted[k] : g.at \in Nat /\ g.at <= now
      /\ Kept(k) = {g \in granted[k] : g.at > now - WindowMs}
      /\ Cardinality(Kept(k) \cup {s}) \in Nat
  <2>1. Cardinality(Kept(k) \cup {s}) \in Nat
    BY <1>1, StampIsFresh, FS_CardinalityType DEF s
  <2>2. s.at = now /\ now \in Nat /\ WindowMs \in Nat \ {0}
    BY LimitsAssumption DEF s, NextStamp, IInv, TypeOK
  <2>3. \A g \in granted[k] : g.at \in Nat /\ g.at <= now
    BY <1>1 DEF IInv, TypeOK, Numbered, Stamp
  <2>4. Kept(k) = {g \in granted[k] : g.at > now - WindowMs}
    BY <1>1, KeptIsCounted DEF SW!Counted
  <2>. QED
    BY <2>1, <2>2, <2>3, <2>4
<1>5. PICK q : q = r
  OBVIOUS
<1>6. /\ q.allowed /\ q.at = now /\ q.resetAt = now + WindowMs
      /\ q.remaining = MaxRequests - Cardinality(Kept(k) \cup {s})
  BY <1>5
<1>7. PICK n : n = now
  OBVIOUS
<1>8. ReplyOf(k, q)'
  <2>1. SW!Counted(k, n)' = Kept(k) \cup {s}
    BY <1>3, <1>4, <1>7 DEF SW!Counted
  <2>2. q.at = n /\ q.allowed /\ q.resetAt = n + WindowMs
    BY <1>6, <1>7
  <2>3. AllowedReply(k, q)'
    <3>1. PICK m \in Nat : m = Cardinality(Kept(k) \cup {s})
      BY <1>4
    <3>2. SW!Counted(k, q.at)' = Kept(k) \cup {s}
      BY <2>1, <2>2
    <3>3. Cardinality(SW!Counted(k, q.at))' = m /\ q.remaining = MaxRequests - m
      BY <1>6, <3>1, <3>2
    <3>. QED
      BY <2>2, <3>1, <3>3, LimitsAssumption DEF AllowedReply
  <2>4. \A g \in granted'[k] : g.at <= n
    BY <1>3, <1>4, <1>7
  <2>. QED
    BY <1>2, <1>4, <1>7, <2>2, <2>3, <2>4 DEF ReplyOf
<1>. HIDE DEF r
<1>. QED
  BY <1>1, <1>2, <1>3, <1>5, <1>8, OthersRecorded

LEMMA DenyRecorded ==
  ASSUME IInv, EveryWindow, RepliesRecorded, NEW c \in Callers, Deny(c)
  PROVE  RepliesRecorded'
<1>. DEFINE k == ResolveKey(c)
            o == Oldest(Kept(k))
            r == [allowed       |-> FALSE,
                  at            |-> now,
                  remaining     |-> 0,
                  resetAt       |-> o.at + WindowMs,
                  retryAfterSec |-> CeilSec((o.at + WindowMs) - now)]
<1>1. k \in Keys
  BY DEF Keys
<1>. HIDE DEF k, o
<1>2. /\ Full(Kept(k))
      /\ now' = now /\ granted' = granted
      /\ replies' = [replies EXCEPT ![k] = r]
  BY DEF Deny, Kept, k, o
<1>3. /\ o \in Kept(k) /\ \A s \in Kept(k) : o.at <= s.at
      /\ (o.at + WindowMs) - now \in 1 .. WindowMs
      /\ o.at + WindowMs \in Nat
  BY <1>1, <1>2, DenialFacts DEF o
<1>4. /\ Kept(k) = SW!Counted(k, now)
      /\ Cardinality(Kept(k)) \in Nat
      /\ now \in Nat
      /\ \A g \in granted[k] : g.at <= now
  BY <1>1, KeptIsCounted DEF IInv, TypeOK, Numbered
<1>5. Cardinality(Kept(k)) = MaxRequests
  BY <1>1, <1>2, <1>4, KeptFits, LimitsAssumption DEF Full
<1>6. PICK q, n, e : q = r /\ n = now /\ e = o
  OBVIOUS
<1>7. /\ q.allowed = FALSE /\ q.at = n /\ q.resetAt = e.at + WindowMs
      /\ q.retryAfterSec = CeilSec((o.at + WindowMs) - now)
  BY <1>6
<1>8. q.at + 1000 * q.retryAfterSec >= q.resetAt
  <2>1. /\ q.retryAfterSec \in Nat
        /\ 1000 * q.retryAfterSec >= (o.at + WindowMs) - now
    BY <1>3, <1>7, CeilSecIsLeast, LimitsAssumption
  <2>. QED
    BY <1>3, <1>4, <1>6, <1>7, <2>1
<1>. HIDE DEF r
<1>9. ReplyOf(k, q)'
  <2>1. SW!Counted(k, n)' = Kept(k)
    BY <1>2, <1>4, <1>6 DEF SW!Counted
  <2>2. DeniedReply(k, q)'
    BY <1>3, <1>5, <1>6, <1>7, <1>8, <2>1 DEF DeniedReply
  <2>. QED
    BY <1>2, <1>4, <1>6, <1>7, <2>2 DEF ReplyOf
<1>. QED
  BY <1>1, <1>2, <1>6, <1>9, OthersRecorded

LEMMA NextRecorded ==
  IInv /\ EveryWindow /\ RepliesRecorded /\ [Next]_vars => RepliesRecorded'
<1>. SUFFICES ASSUME IInv, EveryWindow, RepliesRecorded, [Next]_vars
              PROVE  RepliesRecorded'
  OBVIOUS
<1>1. ASSUME now' \in Nat, now <= now', UNCHANGED <<granted, replies>>
      PROVE  RepliesRecorded'
  <2>. SUFFICES ASSUME NEW x \in Keys, NEW q, q = replies'[x], q # None
                PROVE  ReplyOf(x, q)'
    BY DEF RepliesRecorded
  <2>1. q = replies[x] /\ granted'[x] = granted[x] /\ now \in Nat
    BY <1>1 DEF IInv, TypeOK
  <2>2. ReplyOf(x, q) /\ q.at \in Nat
    BY <2>1, ReplyType DEF RepliesRecorded
  <2>. QED
    BY <1>1, <2>1, <2>2, ReplyStays
<1>2. ASSUME NEW c \in Callers, Deny(c) PROVE RepliesRecorded'
  BY <1>2, DenyRecorded
<1>3. ASSUME NEW c \in Callers, Admit(c) PROVE RepliesRecorded'
  BY <1>3, AdmitRecorded
<1>4. CASE Tick
  BY <1>1, <1>4, LimitsAssumption DEF Tick, IInv, TypeOK
<1>5. CASE Cleanup \/ Destroy \/ UNCHANGED vars
  BY <1>1, <1>5 DEF Cleanup, Destroy, vars, IInv, TypeOK
<1>. QED
  BY <1>2, <1>3, <1>4, <1>5 DEF Next

LEMMA RecordedIsKept == IInv /\ RepliesRecorded => PromiseKept
<1>. SUFFICES ASSUME IInv, RepliesRecorded, NEW k \in Keys, replies[k] # None,
                     NEW r, r = replies[k]
              PROVE  IF r.allowed
                     THEN /\ Cardinality(Kept(k)) + r.remaining <= MaxRequests
                          /\ now >= r.resetAt => Cardinality(Kept(k)) = 0
                     ELSE /\ now < r.resetAt =>
                               Cardinality(Kept(k)) >= MaxRequests
                          /\ now >= r.at + 1000 * r.retryAfterSec =>
                               Cardinality(Kept(k)) < MaxRequests
  BY DEF PromiseKept, Kept
<1>1. /\ r \in Reply /\ ReplyOf(k, r)
      /\ now \in Nat /\ WindowMs \in Nat \ {0}
      /\ \A g \in granted[k] : g.at \in Nat
  BY LimitsAssumption DEF IInv, TypeOK, RepliesRecorded, Stamp
<1>2. /\ r.at \in Nat /\ r.at <= now /\ r.resetAt \in Nat
      /\ r.remaining \in Nat /\ r.retryAfterSec \in Nat
  BY <1>1 DEF Reply, ReplyOf
<1>3. Kept(k) = {g \in granted[k] : g.at > now - WindowMs}
  BY KeptIsCounted DEF SW!Counted
<1>. DEFINE then == SW!Counted(k, r.at)
<1>4. /\ then = {g \in granted[k] : g.at > r.at - WindowMs}
      /\ IsFiniteSet(then) /\ Cardinality(then) \in Nat
  BY <1>2, CountedIsFinite DEF SW!Counted
<1>. HIDE DEF then
<1>5. /\ Kept(k) \subseteq then
      /\ Cardinality(Kept(k)) <= Cardinality(then)
      /\ Cardinality(Kept(k)) \in Nat
  <2>1. Kept(k) \subseteq then
    BY <1>1, <1>2, <1>3, <1>4
  <2>. QED
    BY <1>4, <2>1, CardinalitySub
<1>6. CASE r.allowed
  <2>1. /\ r.resetAt = r.at + WindowMs
        /\ Cardinality(then) + r.remaining <= MaxRequests
        /\ \A g \in granted[k] : g.at <= r.at
    BY <1>1, <1>6 DEF ReplyOf, AllowedReply, then
  <2>2. ASSUME now >= r.resetAt PROVE Cardinality(Kept(k)) = 0
    <3>1. Kept(k) = {}
      BY <1>1, <1>2, <1>3, <2>1, <2>2
    <3>. QED
      BY <3>1, FS_EmptySet
  <2>3. Cardinality(Kept(k)) + r.remaining <= MaxRequests
    BY <1>2, <1>4, <1>5, <2>1, LimitsAssumption
  <2>. QED
    BY <1>6, <2>2, <2>3
<1>7. CASE ~r.allowed
  <2>1. /\ Cardinality(then) = MaxRequests
        /\ r.at + 1000 * r.retryAfterSec >= r.resetAt
    BY <1>1, <1>7 DEF ReplyOf, DeniedReply, then
  <2>2. PICK o \in then : /\ r.resetAt = o.at + WindowMs
                          /\ \A g \in then : o.at <= g.at
    BY <1>1, <1>7 DEF ReplyOf, DeniedReply, then
  <2>3. o.at \in Nat /\ \A g \in then : g \in granted[k] /\ g.at \in Nat
    BY <1>1, <1>4
  <2>4. ASSUME now < r.resetAt PROVE Cardinality(Kept(k)) >= MaxRequests
    <3>1. Kept(k) = then
      BY <1>1, <1>3, <1>5, <2>2, <2>3, <2>4
    <3>. QED
      BY <2>1, <3>1, LimitsAssumption
  <2>5. ASSUME now >= r.at + 1000 * r.retryAfterSec
        PROVE  Cardinality(Kept(k)) < MaxRequests
    <3>1. now >= r.resetAt
      BY <1>1, <1>2, <2>1, <2>5
    <3>2. o \notin Kept(k)
      BY <1>1, <1>3, <2>2, <2>3, <3>1
    <3>3. Cardinality(Kept(k)) # Cardinality(then)
      BY <1>4, <1>5, <2>2, <3>2, FS_Subset
    <3>. QED
      BY <1>4, <1>5, <2>1, <3>3, LimitsAssumption
  <2>. QED
    BY <1>7, <2>4, <2>5
<1>. QED
  BY <1>6, <1>7

(* Whatever check() told a caller, about the calls it has left or when to  *)
(* come back, holds until the key is used again.                           *)
THEOREM PromisesAreKept == Spec => []PromiseKept
<1>1. Init => RepliesRecorded
  BY DEF Init, RepliesRecorded
<1>. QED
  BY <1>1, NextRecorded, RecordedIsKept, Mechanism, WindowNeverExceeded, PTL
     DEF Spec
==============================================================================

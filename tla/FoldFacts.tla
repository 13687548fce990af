------------------------------- MODULE FoldFacts -----------------------------
(***************************************************************************)
(* Facts about folds over finite sets: the recursive function inside       *)
(* MapThenFoldSet exists, is unique and stays among the values its step    *)
(* leads to.  Hence the sums that ledgers take, which do not depend on the *)
(* order of their elements, and the filter of LogEvents.                   *)
(***************************************************************************)
EXTENDS LogEvents, Integers, FiniteSets, FiniteSetsExt, FiniteSetTheorems,
        SequenceTheorems, TLAPS

(* What a recursive fold over a set is: the element pick[s] of s is taken  *)
(* last, and step takes it to the result so far.                           *)
Folds(step, pick, base, g, U) ==
  g = [s \in SUBSET U |->
         IF s = {} THEN base ELSE step[pick[s]][g[s \ {pick[s]}]]]

Picks(pick, U) == \A s \in SUBSET U : s # {} => pick[s] \in s

First(s) == CHOOSE x \in s : TRUE

(* g is the sum of the weights w over every subset of U.                   *)
Adds(w, g, U) ==
  g = [s \in SUBSET U |-> IF s = {} THEN 0 ELSE w[First(s)] + g[s \ {First(s)}]]

Adding(w, U) == [x \in U |-> [n \in Nat |-> w[x] + n]]

Firsts(U) == [s \in SUBSET U |-> First(s)]

(* What a reported cost counts for.                                       *)
Worth(cost) == IF cost \in Nat THEN cost ELSE 0

Total(w, S) == MapThenSumSet(LAMBDA x : w[x], S)

-----------------------------------------------------------------------------
(* A finite set of numbers has a least element: the map from an element to *)
(* how many elements lie below it is one to one, hence onto, so some       *)
(* element has none below.                                                 *)
LEMMA LeastNumber ==
  ASSUME NEW S, S \subseteq Int, IsFiniteSet(S), S # {}
  PROVE  \E x \in S : \A y \in S : x <= y
<1>. DEFINE n       == Cardinality(S)
            Below(x) == {y \in S : y < x}
            rank    == [x \in S |-> Cardinality(Below(x))]
<1>1. n \in Nat /\ n # 0
  BY FS_CardinalityType, FS_EmptySet
<1>2. \A x \in S : /\ IsFiniteSet(Below(x))
                   /\ Cardinality(Below(x)) \in Nat
                   /\ Cardinality(Below(x)) < n
  <2>. SUFFICES ASSUME NEW x \in S
                PROVE  /\ IsFiniteSet(Below(x))
                       /\ Cardinality(Below(x)) \in Nat
                       /\ Cardinality(Below(x)) < n
    OBVIOUS
  <2>1. Below(x) \in SUBSET S /\ x \notin Below(x)
    OBVIOUS
  <2>2. /\ IsFiniteSet(Below(x))
        /\ Cardinality(Below(x)) <= n
        /\ Cardinality(S) = Cardinality(Below(x)) => S = Below(x)
    BY <2>1, FS_Subset
  <2>3. Cardinality(Below(x)) \in Nat
    BY <2>2, FS_CardinalityType
  <2>. QED
    BY <1>1, <2>1, <2>2, <2>3
<1>3. \A x, y \in S : x < y => Cardinality(Below(x)) < Cardinality(Below(y))
  <2>. HIDE DEF Below
  <2>. SUFFICES ASSUME NEW x \in S, NEW y \in S, x < y
                PROVE  Cardinality(Below(x)) < Cardinality(Below(y))
    OBVIOUS
  <2>1. Below(x) \in SUBSET Below(y) /\ x \in Below(y) /\ x \notin Below(x)
    <3>1. x \in Int /\ y \in Int /\ \A z \in S : z \in Int
      OBVIOUS
    <3>2. \A z \in S : z < x => z < y
      BY <3>1
    <3>3. x \in Below(y) /\ x \notin Below(x)
      BY <3>1 DEF Below
    <3>. QED
      BY <3>2, <3>3 DEF Below
  <2>2. /\ Cardinality(Below(x)) <= Cardinality(Below(y))
        /\ Cardinality(Below(y)) = Cardinality(Below(x)) => Below(y) = Below(x)
    BY <1>2, <2>1, FS_Subset
  <2>. QED
    BY <1>2, <2>1, <2>2
<1>4. rank \in [S -> 0 .. n - 1]
  BY <1>1, <1>2
<1>5. rank \in Injection(S, 0 .. n - 1)
  <2>1. \A x, y \in S : rank[x] = rank[y] => x = y
    BY <1>2, <1>3
  <2>. QED
    BY <1>4, <2>1 DEF Injection, IsInjective
<1>6. IsFiniteSet(0 .. n - 1) /\ Cardinality(0 .. n - 1) = n
  BY <1>1, FS_Interval
<1>7. rank \in Surjection(S, 0 .. n - 1)
  BY <1>5, <1>6, FS_Injection
<1>8. PICK x \in S : rank[x] = 0
  <2>1. 0 \in 0 .. n - 1
    BY <1>1
  <2>. HIDE DEF rank, n
  <2>. QED
    BY <1>7, <2>1 DEF Surjection
<1>9. Below(x) = {}
  BY <1>2, <1>8, FS_EmptySet
<1>. QED
  BY <1>9

(* Hence induction over finite sets: where there is a counterexample there *)
(* is one that nothing smaller precedes.                                   *)
LEMMA Smallest ==
  ASSUME NEW U, IsFiniteSet(U), NEW Bad, Bad \subseteq SUBSET U, Bad # {}
  PROVE  \E s \in Bad : \A x \in s : s \ {x} \notin Bad
<1>1. \A s \in SUBSET U : IsFiniteSet(s) /\ Cardinality(s) \in Nat
  BY FS_Subset, FS_CardinalityType
<1>. DEFINE sizes == {Cardinality(s) : s \in Bad}
<1>2. sizes # {} /\ sizes \subseteq 0 .. Cardinality(U)
  BY <1>1, FS_Subset, FS_CardinalityType
<1>3. sizes \subseteq Int /\ IsFiniteSet(sizes)
  <2>1. PICK n \in Nat : n = Cardinality(U)
    BY FS_CardinalityType
  <2>2. IsFiniteSet(0 .. n)
    BY <2>1, FS_Interval
  <2>. HIDE DEF sizes
  <2>3. sizes \subseteq 0 .. n
    BY <1>2, <2>1
  <2>4. IsFiniteSet(sizes)
    BY <2>2, <2>3, FS_Subset
  <2>5. 0 .. n \subseteq Int
    BY <2>1
  <2>. QED
    BY <2>3, <2>4, <2>5
<1>4. PICK n \in sizes : \A m \in sizes : n <= m
  <2>. HIDE DEF sizes
  <2>. QED
    BY <1>2, <1>3, LeastNumber
<1>5. PICK s \in Bad : n = Cardinality(s)
  BY <1>4
<1>6. ASSUME NEW x \in s, s \ {x} \in Bad PROVE FALSE
  <2>1. Cardinality(s \ {x}) = Cardinality(s) - 1
    BY <1>1, <1>6, FS_RemoveElement
  <2>2. Cardinality(s) <= Cardinality(s \ {x})
    BY <1>4, <1>5, <1>6
  <2>. QED
    BY <1>1, <2>1, <2>2
<1>. QED
  BY <1>6

-----------------------------------------------------------------------------
(* The same, as a rule: what holds of the empty set, and of every other    *)
(* one if it does without some element of it, holds of all.                *)
LEMMA ByRemoving ==
  ASSUME NEW U, IsFiniteSet(U), NEW Good, {} \in Good,
         \A s \in SUBSET U : s # {} => \E x \in s : s \ {x} \in Good => s \in Good
  PROVE  SUBSET U \subseteq Good
<1>. DEFINE Bad == (SUBSET U) \ Good
<1>1. ASSUME Bad # {} PROVE FALSE
  <2>1. PICK s \in Bad : \A x \in s : s \ {x} \notin Bad
    <3>. HIDE DEF Bad
    <3>1. Bad \subseteq SUBSET U
      BY DEF Bad
    <3>. QED
      BY <1>1, <3>1, Smallest
  <2>2. s \in SUBSET U /\ s # {} /\ s \notin Good
    BY <2>1
  <2>3. PICK x \in s : s \ {x} \in Good => s \in Good
    BY <2>2
  <2>4. s \ {x} \in SUBSET U /\ s \ {x} \notin Bad
    BY <2>1, <2>2
  <2>. QED
    BY <2>2, <2>3, <2>4
<1>. QED
  BY <1>1

LEMMA FoldsUnfolds ==
  ASSUME NEW step, NEW pick, NEW base,
         NEW U, NEW g, Folds(step, pick, base, g, U)
  PROVE  /\ g[{}] = base
         /\ \A s \in SUBSET U :
              s # {} => g[s] = step[pick[s]][g[s \ {pick[s]}]]
<1>1. \A s \in SUBSET U :
        g[s] = IF s = {} THEN base ELSE step[pick[s]][g[s \ {pick[s]}]]
  BY DEF Folds
<1>. QED
  BY <1>1

LEMMA FoldsAt ==
  ASSUME NEW step, NEW pick, NEW base,
         NEW U, NEW g, Folds(step, pick, base, g, U),
         NEW s \in SUBSET U, s # {}, NEW x, x = pick[s]
  PROVE  g[s] = step[x][g[s \ {x}]]
<1>1. g[s] = IF s = {} THEN base ELSE step[pick[s]][g[s \ {pick[s]}]]
  BY DEF Folds
<1>. QED
  BY <1>1

(* Two such functions agree where both are defined.                        *)
LEMMA FoldsAgree ==
  ASSUME NEW step, NEW pick, NEW base,
         NEW U, IsFiniteSet(U), NEW g, Folds(step, pick, base, g, U),
         NEW V, NEW h, Folds(step, pick, base, h, V),
         NEW S, S \subseteq U, S \subseteq V, Picks(pick, S)
  PROVE  g[S] = h[S]
<1>. DEFINE Bad == {s \in SUBSET S : g[s] # h[s]}
<1>1. ASSUME Bad # {} PROVE FALSE
  <2>1. IsFiniteSet(S)
    BY FS_Subset
  <2>2. PICK s \in Bad : \A x \in s : s \ {x} \notin Bad
    <3>. HIDE DEF Bad
    <3>1. Bad \subseteq SUBSET S
      BY DEF Bad
    <3>. QED
      BY <1>1, <2>1, <3>1, Smallest
  <2>3. s # {} /\ s \subseteq S
    BY <2>2, FoldsUnfolds
  <2>4. PICK x \in s : x = pick[s]
    BY <2>3 DEF Picks
  <2>5. g[s \ {x}] = h[s \ {x}]
    BY <2>2, <2>3, <2>4
  <2>6. g[s] = step[x][g[s \ {x}]] /\ h[s] = step[x][h[s \ {x}]]
    <3>1. s \in SUBSET U /\ s \in SUBSET V
      BY <2>3
    <3>. QED
      BY <2>3, <2>4, <3>1, FoldsAt
  <2>. QED
    BY <2>2, <2>5, <2>6
<1>. QED
  BY <1>1

LEMMA FoldsExist ==
  ASSUME NEW step, NEW pick, NEW base,
         NEW U, IsFiniteSet(U), Picks(pick, U)
  PROVE  \E g : Folds(step, pick, base, g, U)
<1>. DEFINE Bad == {T \in SUBSET U : ~ \E g : Folds(step, pick, base, g, T)}
<1>1. ASSUME Bad # {} PROVE FALSE
  <2>1. PICK T \in Bad : \A x \in T : T \ {x} \notin Bad
    <3>. HIDE DEF Bad
    <3>1. Bad \subseteq SUBSET U
      BY DEF Bad
    <3>. QED
      BY <1>1, <3>1, Smallest
  <2>. DEFINE G(s) == CHOOSE g : Folds(step, pick, base, g, s)
              rest(s) == s \ {pick[s]}
              g == [s \in SUBSET T |->
                      IF s = {} THEN base ELSE step[pick[s]][G(rest(s))[rest(s)]]]
  <2>2. ASSUME NEW s \in SUBSET T, s # {}
        PROVE  Folds(step, pick, base, G(rest(s)), rest(s))
    <3>1. \E h : Folds(step, pick, base, h, rest(s))
      <4>1. pick[s] \in T /\ pick[s] \in s
        BY <2>2 DEF Picks
      <4>2. PICK h : Folds(step, pick, base, h, T \ {pick[s]})
        BY <2>1, <4>1
      <4>. DEFINE k == [r \in SUBSET rest(s) |-> h[r]]
      <4>3. ASSUME NEW r \in SUBSET rest(s)
            PROVE  k[r] = IF r = {} THEN base ELSE step[pick[r]][k[r \ {pick[r]}]]
        <5>1. r \in SUBSET (T \ {pick[s]}) /\ r \ {pick[r]} \in SUBSET rest(s)
          OBVIOUS
        <5>2. PICK V : V = T \ {pick[s]}
          OBVIOUS
        <5>3. Folds(step, pick, base, h, V) /\ r \in SUBSET V
          BY <4>2, <5>1, <5>2
        <5>4. /\ h[{}] = base
              /\ r # {} => h[r] = step[pick[r]][h[r \ {pick[r]}]]
          BY <5>3, FoldsUnfolds, FoldsAt
        <5>. QED
          BY <5>1, <5>4
      <4>4. Folds(step, pick, base, k, rest(s))
        <5>. HIDE DEF rest
        <5>. QED
          BY <4>3 DEF Folds
      <4>. QED
        BY <4>4
    <3>. QED
      BY <3>1
  <2>3. ASSUME NEW s \in SUBSET T, s # {}
        PROVE  G(rest(s))[rest(s)] = g[rest(s)]
    <3>1. PICK r \in SUBSET T : r = rest(s)
      BY <2>3
    <3>2. Folds(step, pick, base, G(r), r)
      BY <2>2, <2>3, <3>1
    <3>3. CASE r = {}
      <4>1. g[r] = base
        BY <3>3
      <4>2. G(r)[r] = base
        <5>. HIDE DEF G
        <5>. QED
          BY <3>2, <3>3, FoldsUnfolds
      <4>. QED
        BY <3>1, <4>1, <4>2
    <3>4. CASE r # {}
      <4>1. g[r] = step[pick[r]][G(rest(r))[rest(r)]]
        BY <3>4
      <4>2. Folds(step, pick, base, G(rest(r)), rest(r))
        BY <2>2, <3>4
      <4>. HIDE DEF G, g
      <4>3. G(r)[r] = step[pick[r]][G(r)[rest(r)]]
        BY <3>2, <3>4, FoldsAt
      <4>4. IsFiniteSet(r) /\ rest(r) \subseteq r
        BY FS_Subset
      <4>. HIDE DEF rest
      <4>5. Picks(pick, rest(r))
        BY <3>1, <4>4 DEF Picks
      <4>6. G(r)[rest(r)] = G(rest(r))[rest(r)]
        BY <3>2, <4>2, <4>4, <4>5, FoldsAgree
      <4>. QED
        BY <3>1, <4>1, <4>3, <4>6
    <3>. QED
      BY <3>3, <3>4
  <2>4. g = [s \in SUBSET T |->
               IF s = {} THEN base ELSE step[pick[s]][g[s \ {pick[s]}]]]
    <3>1. ASSUME NEW s \in SUBSET T
          PROVE  g[s] = IF s = {} THEN base ELSE step[pick[s]][g[s \ {pick[s]}]]
      <4>1. CASE s = {}
        BY <4>1
      <4>2. CASE s # {}
        <5>1. g[s] = step[pick[s]][G(rest(s))[rest(s)]]
          BY <4>2
        <5>. HIDE DEF g, G
        <5>. QED
          BY <2>3, <4>2, <5>1
      <4>. QED
        BY <4>1, <4>2
    <3>2. g = [s \in SUBSET T |-> g[s]]
      OBVIOUS
    <3>. HIDE DEF g
    <3>. QED
      BY <3>1, <3>2
  <2>5. Folds(step, pick, base, g, T)
    <3>. HIDE DEF g
    <3>. QED
      BY <2>4 DEF Folds
  <2>. QED
    BY <2>1, <2>5
<1>. QED
  BY <1>1

(* What a step from any value of R makes stays in R.                       *)
LEMMA FoldsStay ==
  ASSUME NEW step, NEW pick, NEW base, NEW U, IsFiniteSet(U), Picks(pick, U),
         NEW g, Folds(step, pick, base, g, U), NEW R, base \in R,
         \A x \in U : \A r \in R : step[x][r] \in R
  PROVE  \A s \in SUBSET U : g[s] \in R
<1>. DEFINE Bad == {s \in SUBSET U : g[s] \notin R}
<1>1. ASSUME Bad # {} PROVE FALSE
  <2>1. PICK s \in Bad : \A x \in s : s \ {x} \notin Bad
    <3>. HIDE DEF Bad
    <3>1. Bad \subseteq SUBSET U
      BY DEF Bad
    <3>. QED
      BY <1>1, <3>1, Smallest
  <2>2. s # {} /\ s \subseteq U
    <3>1. g[{}] = base
      BY FoldsUnfolds
    <3>. QED
      BY <2>1, <3>1
  <2>3. PICK x \in s : x = pick[s]
    BY <2>2 DEF Picks
  <2>4. g[s \ {x}] \in R
    BY <2>1, <2>2, <2>3
  <2>5. g[s] = step[x][g[s \ {x}]]
    <3>. HIDE DEF Bad
    <3>. QED
      BY <2>2, <2>3, FoldsAt
  <2>. QED
    BY <2>1, <2>2, <2>4, <2>5
<1>. QED
  BY <1>1

-----------------------------------------------------------------------------
(* Sums are such folds.                                                    *)
LEMMA FirstIsOne ==
  ASSUME NEW s, s # {}
  PROVE  First(s) \in s
BY DEF First

LEMMA AddsUnfolds ==
  ASSUME NEW w, NEW U, NEW g, Adds(w, g, U)
  PROVE  /\ g[{}] = 0
         /\ \A s \in SUBSET U :
              s # {} => g[s] = w[First(s)] + g[s \ {First(s)}]
<1>1. \A s \in SUBSET U :
        g[s] = IF s = {} THEN 0 ELSE w[First(s)] + g[s \ {First(s)}]
  BY DEF Adds
<1>. QED
  BY <1>1

LEMMA AddsNat ==
  ASSUME NEW w, NEW U, IsFiniteSet(U), \A x \in U : w[x] \in Nat,
         NEW g, Adds(w, g, U), NEW S, S \subseteq U
  PROVE  g[S] \in Nat
<1>. DEFINE Bad == {s \in SUBSET U : g[s] \notin Nat}
<1>1. ASSUME Bad # {} PROVE FALSE
  <2>1. PICK s \in Bad : \A x \in s : s \ {x} \notin Bad
    <3>. HIDE DEF Bad
    <3>1. Bad \subseteq SUBSET U
      BY DEF Bad
    <3>. QED
      BY <1>1, <3>1, Smallest
  <2>2. s # {} /\ s \subseteq U
    <3>1. g[{}] = 0
      BY AddsUnfolds
    <3>. QED
      BY <2>1, <3>1
  <2>3. PICK x \in s : x = First(s)
    BY <2>2, FirstIsOne
  <2>4. g[s \ {x}] \in Nat /\ w[x] \in Nat
    BY <2>1, <2>2, <2>3
  <2>5. g[s] = w[x] + g[s \ {x}]
    <3>. HIDE DEF Bad
    <3>. QED
      BY <2>2, <2>3, AddsUnfolds
  <2>6. g[s] \in Nat
    BY <2>4, <2>5
  <2>. QED
    BY <2>1, <2>6
<1>. QED
  BY <1>1

LEMMA AddsAreFolds ==
  ASSUME NEW w, NEW W, \A x \in W : w[x] \in Nat,
         NEW U, IsFiniteSet(U), U \subseteq W, NEW g
  PROVE  Adds(w, g, U) <=> Folds(Adding(w, W), Firsts(W), 0, g, U)
<1>. DEFINE step == Adding(w, W)
            pick == Firsts(W)
<1>1. Picks(pick, U)
  BY FirstIsOne DEF Picks, Firsts
<1>2. \A x \in U : \A n \in Nat : step[x][n] = w[x] + n
  BY DEF Adding
<1>3. \A s \in SUBSET U : pick[s] = First(s)
  BY DEF Firsts
<1>. HIDE DEF step, pick
<1>4. ASSUME Adds(w, g, U) PROVE Folds(step, pick, 0, g, U)
  <2>1. ASSUME NEW s \in SUBSET U
        PROVE  g[s] = IF s = {} THEN 0 ELSE step[pick[s]][g[s \ {pick[s]}]]
    <3>1. CASE s = {}
      BY <1>4, <3>1, AddsUnfolds
    <3>2. CASE s # {}
      <4>1. PICK x \in s : x = First(s) /\ x = pick[s]
        BY <1>3, <3>2, FirstIsOne
      <4>2. g[s \ {x}] \in Nat
        BY <1>4, AddsNat
      <4>3. g[s] = w[x] + g[s \ {x}]
        <5>1. g[s] = IF s = {} THEN 0 ELSE w[First(s)] + g[s \ {First(s)}]
          BY <1>4 DEF Adds
        <5>. QED
          BY <3>2, <4>1, <5>1
      <4>. QED
        BY <1>2, <3>2, <4>1, <4>2, <4>3
    <3>. QED
      BY <3>1, <3>2
  <2>2. g = [s \in SUBSET U |-> g[s]]
    BY <1>4 DEF Adds
  <2>. QED
    BY <2>1, <2>2 DEF Folds
<1>5. ASSUME Folds(step, pick, 0, g, U) PROVE Adds(w, g, U)
  <2>1. \A x \in U : \A n \in Nat : step[x][n] \in Nat
    BY <1>2
  <2>2. \A s \in SUBSET U : g[s] \in Nat
    BY <1>1, <1>5, <2>1, FoldsStay
  <2>3. ASSUME NEW s \in SUBSET U
        PROVE  g[s] = IF s = {} THEN 0 ELSE w[First(s)] + g[s \ {First(s)}]
    <3>1. CASE s = {}
      BY <1>5, <3>1, FoldsUnfolds
    <3>2. CASE s # {}
      <4>1. PICK x \in s : x = First(s) /\ x = pick[s]
        BY <1>3, <3>2, FirstIsOne
      <4>2. g[s] = step[x][g[s \ {x}]]
        BY <1>5, <3>2, <4>1, FoldsAt
      <4>. QED
        BY <1>2, <2>2, <3>2, <4>1, <4>2
    <3>. QED
      BY <3>1, <3>2
  <2>4. g = [s \in SUBSET U |-> g[s]]
    BY <1>5 DEF Folds
  <2>. QED
    BY <2>3, <2>4 DEF Adds
<1>. QED
  BY <1>4, <1>5 DEF step, pick

LEMMA FirstsPick ==
  ASSUME NEW W, NEW U, U \subseteq W
  PROVE  Picks(Firsts(W), U)
BY FirstIsOne DEF Picks, Firsts

LEMMA AddsAgree ==
  ASSUME NEW w, NEW U, IsFiniteSet(U), \A x \in U : w[x] \in Nat,
         NEW g, Adds(w, g, U), NEW S, S \subseteq U, NEW h, Adds(w, h, S)
  PROVE  g[S] = h[S]
<1>1. IsFiniteSet(S)
  BY FS_Subset
<1>2. /\ Folds(Adding(w, U), Firsts(U), 0, g, U)
      /\ Folds(Adding(w, U), Firsts(U), 0, h, S)
  BY <1>1, AddsAreFolds
<1>. QED
  BY <1>2, FirstsPick, FoldsAgree

LEMMA AddsExists ==
  ASSUME NEW w, NEW U, IsFiniteSet(U), \A x \in U : w[x] \in Nat
  PROVE  \E g : Adds(w, g, U)
BY AddsAreFolds, FirstsPick, FoldsExist

(* Any element may be the one that is added last.                          *)
LEMMA AddsAny ==
  ASSUME NEW w, NEW U, IsFiniteSet(U), \A x \in U : w[x] \in Nat,
         NEW g, Adds(w, g, U), NEW S, S \subseteq U, NEW e \in S
  PROVE  g[S] = w[e] + g[S \ {e}]
<1>. DEFINE Holds(s) == \A x \in s : g[s] = w[x] + g[s \ {x}]
            Bad      == {s \in SUBSET U : ~Holds(s)}
<1>1. ASSUME Bad # {} PROVE FALSE
  <2>1. PICK s \in Bad : \A x \in s : s \ {x} \notin Bad
    <3>. HIDE DEF Bad
    <3>1. Bad \subseteq SUBSET U
      BY DEF Bad
    <3>. QED
      BY <1>1, <3>1, Smallest
  <2>2. s \subseteq U
    OBVIOUS
  <2>3. PICK x \in s : g[s] # w[x] + g[s \ {x}]
    BY <2>1
  <2>4. PICK y \in s : y = First(s)
    BY <2>3, FirstIsOne
  <2>5. g[s] = w[y] + g[s \ {y}]
    BY <2>2, <2>4, AddsUnfolds
  <2>6. x # y
    BY <2>3, <2>5
  <2>7. Holds(s \ {x}) /\ Holds(s \ {y})
    BY <2>1, <2>2, <2>3, <2>4
  <2>8. PICK r \in SUBSET U :
          /\ r = (s \ {x}) \ {y} /\ r = (s \ {y}) \ {x}
          /\ g[s \ {x}] = w[y] + g[r]
          /\ g[s \ {y}] = w[x] + g[r]
    <3>1. y \in s \ {x} /\ x \in s \ {y}
      BY <2>6
    <3>2. (s \ {x}) \ {y} = (s \ {y}) \ {x}
      OBVIOUS
    <3>3. /\ g[s \ {x}] = w[y] + g[(s \ {x}) \ {y}]
          /\ g[s \ {y}] = w[x] + g[(s \ {y}) \ {x}]
      BY <2>7, <3>1
    <3>. QED
      BY <2>2, <3>2, <3>3
  <2>9. w[x] \in Nat /\ w[y] \in Nat /\ g[r] \in Nat
    BY <2>2, AddsNat
  <2>. QED
    BY <2>3, <2>5, <2>8, <2>9
<1>. QED
  BY <1>1

-----------------------------------------------------------------------------
(* The same about the operator.                                            *)
LEMMA TotalIs ==
  ASSUME NEW w, NEW U, IsFiniteSet(U), \A x \in U : w[x] \in Nat,
         NEW g, Adds(w, g, U), NEW S, S \subseteq U
  PROVE  Total(w, S) = g[S]
<1>1. IsFiniteSet(S)
  BY FS_Subset
<1>2. PICK f : Adds(w, f, S)
  BY <1>1, AddsExists
<1>3. f = [s \in SUBSET S |->
             IF s = {} THEN 0
             ELSE w[CHOOSE x \in s : TRUE] + f[s \ {CHOOSE x \in s : TRUE}]]
  BY <1>2 DEF Adds, First
<1>4. PICK h :
        /\ h = [s \in SUBSET S |->
                 IF s = {} THEN 0
                 ELSE w[CHOOSE x \in s : TRUE] + h[s \ {CHOOSE x \in s : TRUE}]]
        /\ Total(w, S) = h[S]
  BY <1>3, Zenon DEF Total, MapThenSumSet, MapThenFoldSet
<1>5. Adds(w, h, S)
  BY <1>4 DEF Adds, First
<1>. QED
  BY <1>4, <1>5, AddsAgree

LEMMA TotalOfNone ==
  ASSUME NEW w
  PROVE  Total(w, {}) = 0
<1>1. IsFiniteSet({}) /\ \A x \in {} : w[x] \in Nat
  BY FS_EmptySet
<1>2. PICK g : Adds(w, g, {})
  BY <1>1, AddsExists
<1>3. Total(w, {}) = g[{}]
  BY <1>1, <1>2, TotalIs
<1>. QED
  BY <1>2, <1>3, AddsUnfolds

LEMMA TotalNat ==
  ASSUME NEW w, NEW S, IsFiniteSet(S), \A x \in S : w[x] \in Nat
  PROVE  Total(w, S) \in Nat
<1>1. PICK g : Adds(w, g, S)
  BY AddsExists
<1>. QED
  BY <1>1, TotalIs, AddsNat

LEMMA TotalAdd ==
  ASSUME NEW w, NEW S, IsFiniteSet(S), NEW e, e \notin S,
         \A x \in S \cup {e} : w[x] \in Nat
  PROVE  Total(w, S \cup {e}) = Total(w, S) + w[e]
<1>1. PICK U : U = S \cup {e} /\ IsFiniteSet(U) /\ S = U \ {e} /\ S \subseteq U
  <2>1. IsFiniteSet(S \cup {e})
    BY FS_AddElement
  <2>2. S = (S \cup {e}) \ {e}
    OBVIOUS
  <2>. QED
    BY <2>1, <2>2
<1>2. PICK g : Adds(w, g, U)
  BY <1>1, AddsExists
<1>3. Total(w, U) = g[U] /\ Total(w, S) = g[S]
  BY <1>1, <1>2, TotalIs
<1>4. g[U] = w[e] + g[S]
  BY <1>1, <1>2, AddsAny
<1>5. g[S] \in Nat /\ w[e] \in Nat
  BY <1>1, <1>2, AddsNat
<1>. QED
  BY <1>1, <1>3, <1>4, <1>5

(* A subset weighs no more.                                                *)
LEMMA TotalGrows ==
  ASSUME NEW w, NEW S, IsFiniteSet(S), NEW R, R \subseteq S,
         \A x \in S : w[x] \in Nat
  PROVE  Total(w, R) <= Total(w, S)
<1>. DEFINE Bad == {s \in SUBSET S : R \subseteq s /\ ~(Total(w, R) <= Total(w, s))}
<1>1. ASSUME Bad # {} PROVE FALSE
  <2>1. PICK s \in Bad : \A x \in s : s \ {x} \notin Bad
    <3>. HIDE DEF Bad
    <3>1. Bad \subseteq SUBSET S
      BY DEF Bad
    <3>. QED
      BY <1>1, <3>1, Smallest
  <2>2. IsFiniteSet(R) /\ IsFiniteSet(s) /\ s \subseteq S /\ R \subseteq s
    BY <2>1, FS_Subset
  <2>3. Total(w, R) \in Nat
    BY <2>2, TotalNat
  <2>4. s # R
    BY <2>1, <2>3
  <2>5. PICK x \in s : x \notin R
    BY <2>2, <2>4
  <2>6. PICK r : r = s \ {x} /\ R \subseteq r /\ s = r \cup {x} /\ r \subseteq S
    <3>1. s = (s \ {x}) \cup {x}
      OBVIOUS
    <3>. QED
      BY <2>2, <2>5, <3>1
  <2>7. Total(w, R) <= Total(w, r)
    BY <2>1, <2>6
  <2>8. IsFiniteSet(r) /\ x \notin r
    BY <2>2, <2>6, FS_Subset
  <2>9. Total(w, s) = Total(w, r) + w[x]
    BY <2>2, <2>6, <2>8, TotalAdd
  <2>10. Total(w, r) \in Nat /\ w[x] \in Nat
    BY <2>2, <2>6, <2>8, TotalNat
  <2>11. Total(w, R) <= Total(w, s)
    BY <2>3, <2>7, <2>9, <2>10
  <2>. QED
    BY <2>1, <2>11
<1>. QED
  BY <1>1

(* Sets whose elements correspond one to one and weigh the same.           *)
LEMMA TotalImage ==
  ASSUME NEW w, NEW v, NEW m, NEW S, IsFiniteSet(S),
         \A x \in S : w[x] \in Nat /\ v[m[x]] = w[x],
         \A x, y \in S : m[x] = m[y] => x = y
  PROVE  /\ IsFiniteSet({m[x] : x \in S})
         /\ Total(v, {m[x] : x \in S}) = Total(w, S)
<1>. DEFINE Image(s) == {m[x] : x \in s}
            Holds(s) == IsFiniteSet(Image(s)) /\ Total(v, Image(s)) = Total(w, s)
            Bad      == {s \in SUBSET S : ~Holds(s)}
<1>1. ASSUME Bad # {} PROVE FALSE
  <2>1. PICK s \in Bad : \A x \in s : s \ {x} \notin Bad
    <3>. HIDE DEF Bad
    <3>1. Bad \subseteq SUBSET S
      BY DEF Bad
    <3>. QED
      BY <1>1, <3>1, Smallest
  <2>2. CASE s = {}
    <3>1. Image(s) = {}
      BY <2>2
    <3>2. Holds(s)
      BY <2>2, <3>1, TotalOfNone, FS_EmptySet
    <3>. QED
      BY <2>1, <3>2
  <2>3. CASE s # {}
    <3>1. PICK e \in s : TRUE
      BY <2>3
    <3>2. PICK r : r = s \ {e} /\ s = r \cup {e} /\ r \subseteq S /\ e \in S
      <4>1. s = (s \ {e}) \cup {e}
        OBVIOUS
      <4>. QED
        BY <4>1
    <3>3. IsFiniteSet(r) /\ e \notin r
      BY <3>2, FS_Subset
    <3>4. IsFiniteSet(Image(r)) /\ Total(v, Image(r)) = Total(w, r)
      BY <2>1, <3>2
    <3>5. /\ Image(s) = Image(r) \cup {m[e]}
          /\ m[e] \notin Image(r)
          /\ \A y \in Image(r) \cup {m[e]} : v[y] \in Nat
      BY <3>2, <3>3
    <3>6. IsFiniteSet(Image(s))
      <4>. HIDE DEF Image
      <4>. QED
        BY <3>4, <3>5, FS_AddElement
    <3>7. Total(v, Image(s)) = Total(v, Image(r)) + v[m[e]]
      <4>. HIDE DEF Image
      <4>. QED
        BY <3>4, <3>5, TotalAdd
    <3>8. Total(w, s) = Total(w, r) + w[e]
      BY <3>2, <3>3, TotalAdd
    <3>9. Holds(s)
      <4>. HIDE DEF Image
      <4>. QED
        BY <3>2, <3>4, <3>6, <3>7, <3>8
    <3>. QED
      BY <2>1, <3>9
  <2>. QED
    BY <2>2, <2>3
<1>. QED
  BY <1>1

(* The same elements under other weights that agree on them.               *)
LEMMA TotalSame ==
  ASSUME NEW w, NEW v, NEW S, IsFiniteSet(S),
         \A x \in S : v[x] \in Nat /\ v[x] = w[x]
  PROVE  Total(v, S) = Total(w, S)
<1>1. PICK g : Adds(w, g, S)
  <2>1. \A x \in S : w[x] \in Nat
    OBVIOUS
  <2>. QED
    BY <2>1, AddsExists
<1>2. ASSUME NEW s \in SUBSET S
      PROVE  g[s] = IF s = {} THEN 0 ELSE v[First(s)] + g[s \ {First(s)}]
  <2>1. g[s] = IF s = {} THEN 0 ELSE w[First(s)] + g[s \ {First(s)}]
    BY <1>1 DEF Adds
  <2>2. s # {} => v[First(s)] = w[First(s)]
    BY FirstIsOne
  <2>. QED
    BY <2>1, <2>2
<1>3. g = [s \in SUBSET S |-> g[s]]
  BY <1>1 DEF Adds
<1>4. Adds(v, g, S)
  BY <1>2, <1>3 DEF Adds
<1>. QED
  BY <1>1, <1>4, TotalIs

-----------------------------------------------------------------------------
(* The two sums over records that the models take.                         *)
LEMMA CostsTotal ==
  ASSUME NEW S, IsFiniteSet(S), \A r \in S : r.cost \in Nat
  PROVE  MapThenSumSet(LAMBDA r : r.cost, S) = Total([r \in S |-> r.cost], S)
<1>. DEFINE w == [r \in S |-> r.cost]
<1>1. \A r \in S : w[r] \in Nat
  OBVIOUS
<1>2. PICK f : Adds(w, f, S)
  BY <1>1, AddsExists
<1>3. ASSUME NEW g, NEW s \in SUBSET S
      PROVE  (IF s = {} THEN 0 ELSE w[First(s)] + g[s \ {First(s)}])
               = IF s = {} THEN 0
                 ELSE (CHOOSE x \in s : TRUE).cost
                        + g[s \ {CHOOSE x \in s : TRUE}]
  BY FirstIsOne DEF First
<1>. HIDE DEF w
<1>4. f = [s \in SUBSET S |->
             IF s = {} THEN 0
             ELSE (CHOOSE x \in s : TRUE).cost + f[s \ {CHOOSE x \in s : TRUE}]]
  BY <1>2, <1>3, Zenon DEF Adds
<1>5. PICK h :
        /\ h = [s \in SUBSET S |->
                 IF s = {} THEN 0
                 ELSE (CHOOSE x \in s : TRUE).cost
                        + h[s \ {CHOOSE x \in s : TRUE}]]
        /\ MapThenSumSet(LAMBDA r : r.cost, S) = h[S]
  BY <1>4, Zenon DEF MapThenSumSet, MapThenFoldSet
<1>6. Adds(w, h, S)
  <2>1. ASSUME NEW s \in SUBSET S
        PROVE  h[s] = IF s = {} THEN 0 ELSE w[First(s)] + h[s \ {First(s)}]
    <3>1. h[s] = IF s = {} THEN 0
                 ELSE (CHOOSE x \in s : TRUE).cost
                        + h[s \ {CHOOSE x \in s : TRUE}]
      BY <1>5, Zenon
    <3>2. (IF s = {} THEN 0 ELSE w[First(s)] + h[s \ {First(s)}])
            = IF s = {} THEN 0
              ELSE (CHOOSE x \in s : TRUE).cost
                     + h[s \ {CHOOSE x \in s : TRUE}]
      BY <1>3, Zenon
    <3>. QED
      BY <3>1, <3>2, Zenon
  <2>2. h = [s \in SUBSET S |-> h[s]]
    BY <1>5, Zenon
  <2>. QED
    BY <2>1, <2>2, Zenon DEF Adds
<1>. QED
  BY <1>1, <1>5, <1>6, TotalIs DEF w

LEMMA WorthTotal ==
  ASSUME NEW S, IsFiniteSet(S)
  PROVE  MapThenSumSet(LAMBDA r : Worth(r.cost), S)
           = Total([r \in S |-> Worth(r.cost)], S)
<1>. DEFINE w == [r \in S |-> Worth(r.cost)]
<1>1. \A r \in S : w[r] \in Nat
  BY DEF Worth
<1>2. PICK f : Adds(w, f, S)
  BY <1>1, AddsExists
<1>3. ASSUME NEW g, NEW s \in SUBSET S
      PROVE  (IF s = {} THEN 0 ELSE w[First(s)] + g[s \ {First(s)}])
               = IF s = {} THEN 0
                 ELSE Worth((CHOOSE x \in s : TRUE).cost)
                        + g[s \ {CHOOSE x \in s : TRUE}]
  BY FirstIsOne DEF First
<1>. HIDE DEF w
<1>4. f = [s \in SUBSET S |->
             IF s = {} THEN 0
             ELSE Worth((CHOOSE x \in s : TRUE).cost)
                    + f[s \ {CHOOSE x \in s : TRUE}]]
  BY <1>2, <1>3, Zenon DEF Adds
<1>5. PICK h :
        /\ h = [s \in SUBSET S |->
                 IF s = {} THEN 0
                 ELSE Worth((CHOOSE x \in s : TRUE).cost)
                        + h[s \ {CHOOSE x \in s : TRUE}]]
        /\ MapThenSumSet(LAMBDA r : Worth(r.cost), S) = h[S]
  BY <1>4, Zenon DEF MapThenSumSet, MapThenFoldSet
<1>6. Adds(w, h, S)
  <2>1. ASSUME NEW s \in SUBSET S
        PROVE  h[s] = IF s = {} THEN 0 ELSE w[First(s)] + h[s \ {First(s)}]
    <3>1. h[s] = IF s = {} THEN 0
                 ELSE Worth((CHOOSE x \in s : TRUE).cost)
                        + h[s \ {CHOOSE x \in s : TRUE}]
      BY <1>5, Zenon
    <3>2. (IF s = {} THEN 0 ELSE w[First(s)] + h[s \ {First(s)}])
            = IF s = {} THEN 0
              ELSE Worth((CHOOSE x \in s : TRUE).cost)
                     + h[s \ {CHOOSE x \in s : TRUE}]
      BY <1>3, Zenon
    <3>. QED
      BY <3>1, <3>2, Zenon
  <2>2. h = [s \in SUBSET S |-> h[s]]
    BY <1>5, Zenon
  <2>. QED
    BY <2>1, <2>2, Zenon DEF Adds
<1>. QED
  BY <1>1, <1>5, <1>6, TotalIs DEF w

-----------------------------------------------------------------------------
(* Folds along a sequence take its greatest index last.                    *)
LEMMA GreatestNumber ==
  ASSUME NEW S, S \subseteq Int, IsFiniteSet(S), S # {}
  PROVE  Max(S) \in S /\ \A x \in S : x <= Max(S)
<1>. DEFINE T == {0 - x : x \in S}
<1>1. T \subseteq Int /\ T # {}
  <2>1. PICK x \in S : TRUE
    OBVIOUS
  <2>2. 0 - x \in T
    OBVIOUS
  <2>. QED
    BY <2>2
<1>2. IsFiniteSet(T)
  <2>. DEFINE neg == [x \in S |-> 0 - x]
  <2>1. T = {neg[x] : x \in S}
    OBVIOUS
  <2>2. neg \in Surjection(S, T)
    BY <2>1 DEF Surjection
  <2>. HIDE DEF neg, T
  <2>. QED
    BY <2>2, FS_Surjection
<1>3. PICK y \in T : \A z \in T : y <= z
  <2>. HIDE DEF T
  <2>. QED
    BY <1>1, <1>2, LeastNumber
<1>4. PICK x \in S : y = 0 - x
  BY <1>3
<1>5. \A z \in S : x >= z
  <2>1. \A z \in S : y <= 0 - z
    BY <1>3
  <2>2. x \in Int /\ \A z \in S : z \in Int
    OBVIOUS
  <2>. QED
    BY <1>4, <2>1, <2>2
<1>6. Max(S) \in S /\ \A z \in S : Max(S) >= z
  BY <1>5 DEF Max
<1>7. Max(S) \in Int /\ \A z \in S : z \in Int
  BY <1>6
<1>. QED
  BY <1>6, <1>7

LEMMA LeastIsMin ==
  ASSUME NEW S, S \subseteq Int, IsFiniteSet(S), S # {}
  PROVE  Min(S) \in S /\ \A x \in S : Min(S) <= x
BY LeastNumber DEF Min

LEMMA RangeIsFinite ==
  ASSUME NEW n \in Nat, NEW S, S \subseteq 0 .. n
  PROVE  IsFiniteSet(S) /\ S \subseteq Int
<1>1. IsFiniteSet(0 .. n) /\ 0 .. n \subseteq Int
  BY FS_Interval
<1>2. IsFiniteSet(S)
  BY <1>1, FS_Subset
<1>. QED
  BY <1>1, <1>2

(* What the filter keeps, and that it is a sequence.                       *)
LEMMA RegistrationsAreEvents ==
  ASSUME NEW E, NEW other, NEW log \in Seq(E \cup {other})
  PROVE  Registrations(log, other) \in Seq(E)
<1>. DEFINE U == DOMAIN log
            R == Seq(E)
            step == [i \in U |-> [kept \in R |->
                       IF log[i] # other THEN Append(kept, log[i]) ELSE kept]]
            pick == [s \in SUBSET U |-> Max(s)]
<1>1. U \subseteq Int /\ IsFiniteSet(U)
  <2>1. U = 1 .. Len(log) /\ Len(log) \in Nat
    OBVIOUS
  <2>. QED
    BY <2>1, FS_Interval
<1>2. \A s \in SUBSET U : s # {} => Max(s) \in s
  BY <1>1, FS_Subset, GreatestNumber
<1>3. <<>> \in R
  OBVIOUS
<1>4. \A i \in U : \A kept \in R :
        (IF log[i] # other THEN Append(kept, log[i]) ELSE kept) \in R
  <2>. SUFFICES ASSUME NEW i \in U, NEW kept \in R, log[i] # other
                PROVE  Append(kept, log[i]) \in R
    OBVIOUS
  <2>1. log[i] \in E
    OBVIOUS
  <2>. QED
    BY <2>1
<1>5. Picks(pick, U)
  BY <1>2 DEF Picks
<1>6. /\ \A i \in U : \A kept \in R :
           step[i][kept] = IF log[i] # other THEN Append(kept, log[i]) ELSE kept
      /\ \A s \in SUBSET U : pick[s] = Max(s)
  OBVIOUS
<1>. HIDE DEF R, step, pick
<1>7. PICK f : Folds(step, pick, <<>>, f, U)
  BY <1>1, <1>5, FoldsExist
<1>8. \A s \in SUBSET U : f[s] \in R
  <2>1. \A i \in U : \A kept \in R : step[i][kept] \in R
    BY <1>4, <1>6
  <2>. QED
    BY <1>1, <1>3, <1>5, <1>7, <2>1, FoldsStay
<1>9. f = [s \in SUBSET U |->
             IF s = {} THEN <<>>
             ELSE IF log[Max(s)] # other
                  THEN Append(f[s \ {Max(s)}], log[Max(s)])
                  ELSE f[s \ {Max(s)}]]
  <2>1. ASSUME NEW s \in SUBSET U, s # {}
        PROVE  f[s] = IF log[Max(s)] # other
                      THEN Append(f[s \ {Max(s)}], log[Max(s)])
                      ELSE f[s \ {Max(s)}]
    <3>1. PICK x \in U : x = Max(s)
      BY <1>2, <2>1
    <3>2. f[s] = step[x][f[s \ {x}]]
      BY <1>6, <1>7, <2>1, <3>1, FoldsAt
    <3>3. f[s \ {x}] \in R
      BY <1>8
    <3>. QED
      BY <1>6, <3>1, <3>2, <3>3
  <2>2. f[{}] = <<>>
    BY <1>7, FoldsUnfolds
  <2>3. f = [s \in SUBSET U |-> f[s]]
    BY <1>7 DEF Folds
  <2>. HIDE DEF U
  <2>. QED
    BY <2>1, <2>2, <2>3
<1>10. PICK h :
         /\ h = [s \in SUBSET U |->
                  IF s = {} THEN <<>>
                  ELSE IF log[Max(s)] # other
                       THEN Append(h[s \ {Max(s)}], log[Max(s)])
                       ELSE h[s \ {Max(s)}]]
         /\ Registrations(log, other) = h[U]
  BY <1>9, Zenon DEF Registrations, FoldLeft, MapThenFoldSet
<1>. DEFINE Bad == {s \in SUBSET U : h[s] \notin R}
<1>11. ASSUME Bad # {} PROVE FALSE
  <2>1. PICK s \in Bad : \A x \in s : s \ {x} \notin Bad
    <3>. HIDE DEF Bad
    <3>1. Bad \subseteq SUBSET U
      BY DEF Bad
    <3>. QED
      BY <1>1, <1>11, <3>1, Smallest
  <2>2. h[{}] = <<>>
    BY <1>10
  <2>3. s \in SUBSET U /\ s # {} /\ h[s] \notin R
    BY <1>3, <2>1, <2>2
  <2>4. PICK x \in s : x = Max(s)
    BY <1>2, <2>3
  <2>5. h[s \ {x}] \in R /\ x \in U
    BY <2>1, <2>3, <2>4
  <2>6. h[s] = IF log[x] # other THEN Append(h[s \ {x}], log[x])
               ELSE h[s \ {x}]
    <3>. HIDE DEF U, Bad
    <3>. QED
      BY <1>10, <2>3, <2>4
  <2>. QED
    BY <1>4, <2>3, <2>5, <2>6
<1>. QED
  BY <1>10, <1>11 DEF R
=============================================================================

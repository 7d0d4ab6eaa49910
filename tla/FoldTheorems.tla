---------------------------- MODULE FoldTheorems ----------------------------
(***************************************************************************)
(* Facts about loops over a sequence, which the models write as folds.     *)
(*                                                                         *)
(* FoldLeft iterates a function on the sets of indices.  A proof about a   *)
(* fold has to know first that this function exists, then that the fold    *)
(* goes through one value per element, each made from the one before it;   *)
(* an induction on the index gives the rest.  The lemmas below say so for  *)
(* any operator Op that stays in a set V.  A module about a fold takes them *)
(* with INSTANCE FoldTheorems WITH Op <- the operator folded.              *)
(***************************************************************************)
EXTENDS Integers, Sequences, FiniteSetsExt, WellFoundedInduction, TLAPS

CONSTANT Op(_, _)

\* FoldLeft(Op, base, s), with the function it iterates named.
Iterated(base, s) ==
    CHOOSE f : f = [u \in SUBSET DOMAIN s |->
                      IF u = {} THEN base ELSE Op(f[u \ {Max(u)}], s[Max(u)])]

Folded(base, s) == Iterated(base, s)[DOMAIN s]

\* Op stays in V when it is given elements of E.
Closed(V, E) == \A v \in V, e \in E : Op(v, e) \in V

\* f are the values in V that the fold of s goes through.
Goes(f, base, s, V) ==
    /\ f \in [0..Len(s) -> V] /\ f[0] = base /\ f[Len(s)] = Folded(base, s)
    /\ \A k \in 1..Len(s) : f[k - 1] \in V /\ f[k] = Op(f[k - 1], s[k])

\* g is an operator on V at each of n indices.
Operates(g, n, V) == g \in [1..n -> [V -> V]]

\* f is the function that MapThenFoldSet iterates with g.
Iterates(f, base, g, n, V) ==
    /\ f = [u \in SUBSET (1..n) |-> IF u = {} THEN base ELSE g[Max(u)][f[u \ {Max(u)}]]]
    /\ \A u \in SUBSET (1..n) : f[u] \in V /\ (u # {} => Max(u) \in 1..n)

\* f are the values that a fold goes through.
Runs(f, base, g, n, V) ==
    /\ f \in [0..n -> V]
    /\ f[0] = base
    /\ \A k \in 1..n : f[k - 1] \in V /\ f[k] = g[k][f[k - 1]]

\* f is a function that is defined by recursion up to n.
Recurs(f, base, h, n, V) ==
    /\ f = [k \in 0..n |-> IF k = 0 THEN base ELSE h[f[k - 1]]]
    /\ \A k \in 0..n : f[k] \in V

\* A set of numbers that is not empty has a least one.
LEMMA LeastNumber ==
    ASSUME NEW T \in SUBSET Nat, T # {}
    PROVE  \E n \in T : \A m \in T : n <= m
<1> DEFINE R == OpToRel(<, Nat)
<1>1. IsWellFoundedOn(R, Nat)
  BY NatLessThanWellFounded
<1>2. \A x, y \in Nat : <<x, y>> \in R <=> x < y
  BY DEF OpToRel
<1> HIDE DEF R
<1>3. PICK x \in T : \A y \in T : ~ (<<y, x>> \in R)
  BY <1>1, WFMin, Zenon
<1>4. \A y \in T : ~ (y < x)
  BY <1>2, <1>3
<1>5. \A y \in T : x <= y
  BY <1>4
<1>6. QED
  BY <1>5

\* Induction, over a set instead of a predicate.
LEMMA Induct ==
    ASSUME NEW S, 0 \in S, \A n \in Nat : n \in S => n + 1 \in S
    PROVE  \A n \in Nat : n \in S
<1>1. SUFFICES ASSUME NEW n \in Nat, n \notin S
               PROVE  FALSE
  OBVIOUS
<1> DEFINE T == Nat \ S
<1>2. T \in SUBSET Nat /\ T # {}
  BY <1>1
<1>3. \E k \in T : \A m \in T : k <= m
  BY <1>2, LeastNumber
<1>4. PICK k \in Nat \ S : \A m \in Nat \ S : k <= m
  BY <1>3
<1>5. k # 0 /\ k - 1 \in Nat /\ k - 1 + 1 = k
  BY <1>4
<1>6. k - 1 \in S
  BY <1>4, <1>5
<1>7. QED
  BY <1>4, <1>5, <1>6

\* A set of numbers up to n that is not empty has a greatest one.
LEMMA GreatestNumber ==
    ASSUME NEW n \in Nat, NEW u \in SUBSET (1..n), u # {}
    PROVE  Max(u) \in u /\ \A y \in u : y <= Max(u)
<1> DEFINE T == {m \in Nat : \A y \in u : y <= m}
<1>1. n \in T
  OBVIOUS
<1>2. T \in SUBSET Nat /\ T # {}
  BY <1>1
<1>3. \E m \in T : \A k \in T : m <= k
  BY <1>2, LeastNumber
<1>4. PICK m \in T : \A k \in T : m <= k
  BY <1>3
<1>5. m \in Nat /\ \A y \in u : y <= m
  BY <1>4
<1>6. m \in u
  <2>1. SUFFICES ASSUME m \notin u
                 PROVE  FALSE
    OBVIOUS
  <2>2. m # 0
    <3>1. PICK y \in u : y \in 1..n
      OBVIOUS
    <3>2. QED
      BY <1>5, <3>1
  <2>3. \A y \in u : y \in Nat /\ y <= m /\ y # m
    BY <1>5, <2>1
  <2>4. m - 1 \in Nat /\ (\A y \in u : y <= m - 1) /\ ~ (m <= m - 1)
    BY <1>5, <2>2, <2>3
  <2>5. QED
    BY <1>4, <1>5, <2>4
<1>7. \E x \in u : \A y \in u : x >= y
  BY <1>5, <1>6
<1>8. Max(u) \in u /\ \A y \in u : Max(u) >= y
  BY <1>7, Zenon DEF Max
<1>9. QED
  BY <1>8

\* The greatest number up to k is k.
LEMMA TopOfRange ==
    ASSUME NEW k \in Nat \ {0}
    PROVE  Max(1..k) = k /\ (1..k) \ {k} = 1..(k - 1) /\ 1..k # {}
<1>1. k \in Nat /\ 1..k \in SUBSET (1..k) /\ k \in 1..k
  OBVIOUS
<1>2. 1..k # {}
  BY <1>1
<1>3. Max(1..k) \in 1..k /\ \A y \in 1..k : y <= Max(1..k)
  BY <1>1, <1>2, GreatestNumber
<1>4. k <= Max(1..k)
  BY <1>1, <1>3
<1>5. Max(1..k) = k
  BY <1>3, <1>4
<1>6. (1..k) \ {k} = 1..(k - 1)
  OBVIOUS
<1>7. QED
  BY <1>2, <1>5, <1>6

\* What a fold's step at k looks at: the indices up to k and those before.
LEMMA IndicesUpTo ==
    ASSUME NEW n \in Nat
    PROVE  \A k \in 1..n : /\ 1..k \in SUBSET (1..n) /\ 1..k # {}
                           /\ Max(1..k) = k /\ (1..k) \ {Max(1..k)} = 1..(k - 1)
<1>1. TAKE k \in 1..n
<1>2. k \in Nat \ {0} /\ 1..k \in SUBSET (1..n)
  OBVIOUS
<1>3. Max(1..k) = k /\ (1..k) \ {k} = 1..(k - 1) /\ 1..k # {}
  BY <1>2, TopOfRange
<1>4. QED
  BY <1>2, <1>3

\* What is left of a set of numbers without its greatest is below that.
LEMMA BelowGreatest ==
    ASSUME NEW n \in Nat, NEW k \in Nat, k + 1 <= n,
           NEW u \in SUBSET (1..(k + 1)), u # {}
    PROVE  Max(u) \in 1..n /\ u \ {Max(u)} \in SUBSET (1..k)
<1>1. Max(u) \in u /\ \A y \in u : y <= Max(u)
  <2> DEFINE m == k + 1
  <2>1. m \in Nat /\ u \in SUBSET (1..m)
    OBVIOUS
  <2> HIDE DEF m
  <2>2. QED
    BY <2>1, GreatestNumber
<1>2. Max(u) \in 1..(k + 1)
  BY <1>1
<1>2a. Max(u) \in 1..n
  BY <1>2
<1>3. \A y \in u \ {Max(u)} : y \in 1..(k + 1) /\ y <= Max(u) /\ y # Max(u) /\ Max(u) \in 1..(k + 1)
  BY <1>1
<1>4. \A y \in u \ {Max(u)} : y \in 1..k
  BY <1>3
<1>5. QED
  BY <1>2a, <1>4

\* The function that MapThenFoldSet iterates exists: g says what the fold's
\* operator does to a value of V at each index.
LEMMA FoldExists ==
    ASSUME NEW V, NEW base \in V, NEW n \in Nat, NEW g, Operates(g, n, V)
    PROVE  \E f : Iterates(f, base, g, n, V)
<1>0. g \in [1..n -> [V -> V]]
  BY DEF Operates
<1> DEFINE Exists(k) ==
             \E f \in [SUBSET (1..k) -> V] :
                \A u \in SUBSET (1..k) :
                   f[u] = IF u = {} THEN base ELSE g[Max(u)][f[u \ {Max(u)}]]
           S == {k \in Nat : k <= n => Exists(k)}
<1> HIDE DEF Exists
<1>1. 0 \in S
  <2> DEFINE f == [u \in SUBSET (1..0) |-> base]
  <2>1. f \in [SUBSET (1..0) -> V]
    OBVIOUS
  <2>2. \A u \in SUBSET (1..0) : f[u] = base
    OBVIOUS
  <2>a. \A u \in SUBSET (1..0) : u = {}
    OBVIOUS
  <2>3. \A u \in SUBSET (1..0) :
           f[u] = IF u = {} THEN base ELSE g[Max(u)][f[u \ {Max(u)}]]
    BY <2>2, <2>a
  <2> HIDE DEF f
  <2>4. Exists(0)
    BY <2>1, <2>3 DEF Exists
  <2>5. QED
    BY <2>4
<1>2. ASSUME NEW k \in Nat, k \in S
      PROVE  k + 1 \in S
  <2>1. SUFFICES ASSUME k + 1 <= n
                 PROVE  Exists(k + 1)
    OBVIOUS
  <2>2. Exists(k)
    BY <1>2, <2>1
  <2>3. PICK f \in [SUBSET (1..k) -> V] :
           \A u \in SUBSET (1..k) :
              f[u] = IF u = {} THEN base ELSE g[Max(u)][f[u \ {Max(u)}]]
    BY <2>2 DEF Exists
  <2> DEFINE h == [u \in SUBSET (1..(k + 1)) |->
                     IF u = {} THEN base ELSE g[Max(u)][f[u \ {Max(u)}]]]
  <2>4. \A u \in SUBSET (1..(k + 1)) :
           u # {} => Max(u) \in 1..n /\ u \ {Max(u)} \in SUBSET (1..k)
    BY <2>1, BelowGreatest
  <2>5. \A u \in SUBSET (1..(k + 1)) : u # {} => g[Max(u)][f[u \ {Max(u)}]] \in V
    BY <1>0, <2>4
  <2>6. h \in [SUBSET (1..(k + 1)) -> V]
    BY <2>5
  <2>7. \A u \in SUBSET (1..k) : u \in SUBSET (1..(k + 1)) /\ h[u] = f[u]
    <3>1. \A u \in SUBSET (1..k) : u \in SUBSET (1..(k + 1))
      OBVIOUS
    <3>2. QED
      BY <2>3, <3>1
  <2>8. ASSUME NEW u \in SUBSET (1..(k + 1))
        PROVE  h[u] = IF u = {} THEN base ELSE g[Max(u)][h[u \ {Max(u)}]]
    <3>1. h[u] = IF u = {} THEN base ELSE g[Max(u)][f[u \ {Max(u)}]]
      OBVIOUS
    <3> HIDE DEF h
    <3>2. u # {} => h[u \ {Max(u)}] = f[u \ {Max(u)}]
      BY <2>4, <2>7
    <3>3. QED
      BY <3>1, <3>2
  <2> HIDE DEF h
  <2>9. \A u \in SUBSET (1..(k + 1)) :
           h[u] = IF u = {} THEN base ELSE g[Max(u)][h[u \ {Max(u)}]]
    BY <2>8
  <2>10. QED
    BY <2>6, <2>9 DEF Exists
<1> HIDE DEF S
<1>3. \A k \in Nat : k \in S
  BY <1>1, <1>2, Induct
<1>4. Exists(n)
  BY <1>3 DEF S
<1>5. PICK f \in [SUBSET (1..n) -> V] :
         \A u \in SUBSET (1..n) : f[u] = IF u = {} THEN base ELSE g[Max(u)][f[u \ {Max(u)}]]
  BY <1>4 DEF Exists
<1>6. f = [u \in SUBSET (1..n) |-> IF u = {} THEN base ELSE g[Max(u)][f[u \ {Max(u)}]]]
  BY <1>5
<1>7. \A u \in SUBSET (1..n) : u # {} => Max(u) \in 1..n
  BY GreatestNumber
<1>8. \A u \in SUBSET (1..n) : f[u] \in V
  BY <1>5
<1>9. QED
  BY <1>6, <1>7, <1>8 DEF Iterates

\* A function that takes these steps goes through one value of V per index.
LEMMA FoldRuns ==
    ASSUME NEW V, NEW base \in V, NEW n \in Nat, NEW g, Operates(g, n, V), NEW it, it[{}] = base,
           \A k \in 1..n : it[1..(k - 1)] \in V => it[1..k] = g[k][it[1..(k - 1)]]
    PROVE  \E f : Runs(f, base, g, n, V) /\ f[n] = it[1..n]
<1>0. g \in [1..n -> [V -> V]]
  BY DEF Operates
<1> DEFINE S == {k \in Nat : k <= n => it[1..k] \in V}
<1>1. 1..0 = {}
  OBVIOUS
<1>2. 0 \in S
  BY <1>1
<1>3. ASSUME NEW k \in Nat, k \in S
      PROVE  k + 1 \in S
  <2>1. SUFFICES ASSUME k + 1 <= n
                 PROVE  it[1..(k + 1)] \in V
    OBVIOUS
  <2>2. k + 1 \in 1..n /\ k + 1 - 1 = k
    BY <2>1
  <2>3. it[1..k] \in V
    BY <1>3, <2>1
  <2>4. it[1..(k + 1)] = g[k + 1][it[1..k]]
    BY <2>2, <2>3
  <2>5. QED
    BY <1>0, <2>2, <2>3, <2>4
<1>4. \A k \in Nat : k \in S
  <2> HIDE DEF S
  <2>1. QED
    BY <1>2, <1>3, Induct
<1>5. \A k \in 0..n : it[1..k] \in V
  BY <1>4
<1> HIDE DEF S
<1> DEFINE f == [k \in 0..n |-> it[1..k]]
<1>6. f \in [0..n -> V]
  BY <1>5
<1>7. f[0] = base /\ f[n] = it[1..n]
  BY <1>1
<1>8. ASSUME NEW k \in 1..n
      PROVE  f[k] = g[k][f[k - 1]]
  <2>1. k \in 0..n /\ k - 1 \in 0..n
    OBVIOUS
  <2>2. f[k] = it[1..k] /\ f[k - 1] = it[1..(k - 1)]
    BY <2>1
  <2>3. QED
    BY <1>5, <2>1, <2>2
<1>9. \A k \in 1..n : f[k - 1] \in V
  <2>1. \A k \in 1..n : k - 1 \in 0..n
    OBVIOUS
  <2>2. QED
    BY <1>6, <2>1
<1> HIDE DEF f
<1>10. QED
  BY <1>6, <1>7, <1>8, <1>9 DEF Runs

\* A fold goes through one value of V per element of the sequence.
LEMMA FoldSteps ==
    ASSUME NEW V, NEW E, Closed(V, E), NEW base \in V, NEW s \in Seq(E)
    PROVE  \E f : Goes(f, base, s, V)
<1> DEFINE n == Len(s)
           g == [k \in 1..n |-> [v \in V |-> Op(v, s[k])]]
           it == Iterated(base, s)
<1>1. n \in Nat /\ DOMAIN s = 1..n /\ \A k \in 1..n : s[k] \in E
  OBVIOUS
<1>2. Operates(g, n, V)
  BY <1>1 DEF Operates, Closed
<1> HIDE DEF g, n, it
<1>3. PICK f : Iterates(f, base, g, n, V)
  BY <1>1, <1>2, FoldExists
<1>4. f = [u \in SUBSET DOMAIN s |-> IF u = {} THEN base ELSE Op(f[u \ {Max(u)}], s[Max(u)])]
  BY <1>1, <1>3 DEF Iterates, g
<1>5. it = [u \in SUBSET DOMAIN s |->
              IF u = {} THEN base ELSE Op(it[u \ {Max(u)}], s[Max(u)])]
  BY <1>4, Zenon DEF it, Iterated
<1>6. it[{}] = base
  BY <1>5
<1>7. \A k \in 1..n : it[1..(k - 1)] \in V => it[1..k] = g[k][it[1..(k - 1)]]
  <2>1. TAKE k \in 1..n
  <2>2. /\ 1..k \in SUBSET DOMAIN s /\ 1..k # {}
        /\ Max(1..k) = k /\ (1..k) \ {Max(1..k)} = 1..(k - 1)
    BY <1>1, IndicesUpTo
  <2>3. it[1..k] = Op(it[1..(k - 1)], s[k])
    BY <1>5, <2>2
  <2>4. QED
    BY <2>3 DEF g
<1>8. PICK e : Runs(e, base, g, n, V) /\ e[n] = it[1..n]
  BY <1>1, <1>2, <1>6, <1>7, FoldRuns
<1>9. /\ e \in [0..n -> V] /\ e[0] = base
      /\ \A k \in 1..n : e[k - 1] \in V /\ e[k] = g[k][e[k - 1]]
  BY <1>8 DEF Runs
<1>10. \A k \in 1..n : e[k - 1] \in V /\ e[k] = Op(e[k - 1], s[k])
  BY <1>9 DEF g
<1>11. Folded(base, s) = e[n]
  BY <1>1, <1>8 DEF Folded, it
<1>12. QED
  BY <1>9, <1>10, <1>11, Zenon DEF n, Goes

\* The fold stays in V.
LEMMA FoldType ==
    ASSUME NEW V, NEW E, Closed(V, E), NEW base \in V, NEW s \in Seq(E)
    PROVE  Folded(base, s) \in V
<1>1. PICK f : Goes(f, base, s, V)
  BY FoldSteps
<1>2. Len(s) \in 0..Len(s)
  OBVIOUS
<1>3. QED
  BY <1>1, <1>2 DEF Goes

\* A recursion over the numbers up to n.
LEMMA RecursionExists ==
    ASSUME NEW V, NEW base \in V, NEW n \in Nat, NEW h, h \in [V -> V]
    PROVE  \E f : Recurs(f, base, h, n, V)
<1> DEFINE Exists(m) ==
             \E f \in [0..m -> V] : \A k \in 0..m : f[k] = IF k = 0 THEN base ELSE h[f[k - 1]]
           S == {m \in Nat : Exists(m)}
<1> HIDE DEF Exists
<1>1. 0 \in S
  <2> DEFINE f == [k \in 0..0 |-> base]
  <2>1. f \in [0..0 -> V] /\ \A k \in 0..0 : k = 0 /\ f[k] = base
    OBVIOUS
  <2> HIDE DEF f
  <2>2. Exists(0)
    BY <2>1 DEF Exists
  <2>3. QED
    BY <2>2
<1>2. ASSUME NEW m \in Nat, m \in S
      PROVE  m + 1 \in S
  <2>1. SUFFICES Exists(m + 1)
    OBVIOUS
  <2>2. Exists(m)
    BY <1>2
  <2>3. PICK f \in [0..m -> V] :
           \A k \in 0..m : f[k] = IF k = 0 THEN base ELSE h[f[k - 1]]
    BY <2>2 DEF Exists
  <2> DEFINE e == [k \in 0..(m + 1) |-> IF k = m + 1 THEN h[f[m]] ELSE f[k]]
  <2>4. m \in 0..m /\ m + 1 # 0 /\ m + 1 - 1 = m
    OBVIOUS
  <2>5. h[f[m]] \in V /\ \A k \in 0..(m + 1) : k # m + 1 => k \in 0..m
    BY <2>4
  <2>6. e \in [0..(m + 1) -> V]
    BY <2>5
  <2>7. e[m + 1] = h[f[m]] /\ \A k \in 0..m : e[k] = f[k]
    OBVIOUS
  <2> HIDE DEF e
  <2>8. ASSUME NEW k \in 0..(m + 1)
        PROVE  e[k] = IF k = 0 THEN base ELSE h[e[k - 1]]
    <3>1. CASE k = m + 1
      BY <2>4, <2>7, <3>1
    <3>2. CASE k \in 0..m
      <4>1. k # 0 => k - 1 \in 0..m
        BY <3>2
      <4>2. QED
        BY <2>3, <2>7, <3>2, <4>1
    <3>3. QED
      BY <2>5, <3>1, <3>2
  <2>9. \A k \in 0..(m + 1) : e[k] = IF k = 0 THEN base ELSE h[e[k - 1]]
    BY <2>8
  <2>10. QED
    BY <2>6, <2>9 DEF Exists
<1> HIDE DEF S
<1>3. \A m \in Nat : m \in S
  BY <1>1, <1>2, Induct
<1>4. Exists(n)
  BY <1>3 DEF S
<1>5. PICK f \in [0..n -> V] : \A k \in 0..n : f[k] = IF k = 0 THEN base ELSE h[f[k - 1]]
  BY <1>4 DEF Exists
<1>6. f = [k \in 0..n |-> IF k = 0 THEN base ELSE h[f[k - 1]]]
  BY <1>5
<1>7. QED
  BY <1>5, <1>6 DEF Recurs

\* The fold of nothing is its base.
LEMMA FoldNothing ==
    ASSUME NEW V, NEW E, Closed(V, E), NEW base \in V
    PROVE  Folded(base, <<>>) = base
<1> DEFINE s == <<>>
<1>1. s \in Seq(E) /\ Len(s) = 0
  OBVIOUS
<1> HIDE DEF s
<1>2. PICK f : Goes(f, base, s, V)
  BY <1>1, FoldSteps
<1>3. f[0] = base /\ f[0] = Folded(base, s)
  BY <1>1, <1>2 DEF Goes
<1>4. QED
  BY <1>3 DEF s

\* The fold of one element more is one step more.
LEMMA FoldAppends ==
    ASSUME NEW V, NEW E, Closed(V, E), NEW base \in V, NEW s \in Seq(E), NEW e \in E
    PROVE  Folded(base, Append(s, e)) = Op(Folded(base, s), e)
<1> DEFINE n == Len(s)
           t == Append(s, e)
<1>1. t \in Seq(E) /\ Len(t) = n + 1 /\ t[n + 1] = e /\ \A k \in 1..n : t[k] = s[k]
  OBVIOUS
<1>2. n \in Nat
  OBVIOUS
<1> HIDE DEF t, n
<1>3. PICK f : Goes(f, base, s, V)
  BY FoldSteps
<1>4. PICK g : Goes(g, base, t, V)
  BY <1>1, FoldSteps
<1>5. /\ f[0] = base /\ f[n] = Folded(base, s)
      /\ \A k \in 1..n : f[k] = Op(f[k - 1], s[k])
  BY <1>3 DEF Goes, n
<1>6. /\ g[0] = base /\ g[n + 1] = Folded(base, t)
      /\ \A k \in 1..(n + 1) : g[k] = Op(g[k - 1], t[k])
  BY <1>1, <1>4 DEF Goes
<1> DEFINE S == {k \in Nat : k <= n => f[k] = g[k]}
<1>7. 0 \in S
  BY <1>5, <1>6
<1>8. ASSUME NEW k \in Nat, k \in S
      PROVE  k + 1 \in S
  <2>1. SUFFICES ASSUME k + 1 <= n
                 PROVE  f[k + 1] = g[k + 1]
    OBVIOUS
  <2>2. f[k] = g[k]
    BY <1>2, <1>8, <2>1
  <2>3. k + 1 \in 1..n /\ k + 1 \in 1..(n + 1) /\ k + 1 - 1 = k
    BY <1>2, <2>1
  <2>4. f[k + 1] = Op(f[k], s[k + 1])
    BY <1>5, <2>3
  <2>5. g[k + 1] = Op(g[k], t[k + 1])
    BY <1>6, <2>3
  <2>6. t[k + 1] = s[k + 1]
    BY <1>1, <2>3
  <2>7. QED
    BY <2>2, <2>4, <2>5, <2>6
<1>9. \A k \in Nat : k \in S
  <2> HIDE DEF S
  <2>1. QED
    BY <1>7, <1>8, Induct
<1>10. f[n] = g[n]
  BY <1>2, <1>9
<1>11. g[n + 1] = Op(g[n], t[n + 1])
  <2> DEFINE k == n + 1
  <2>1. k \in 1..(n + 1) /\ k - 1 = n
    BY <1>2
  <2> HIDE DEF k
  <2>2. g[k] = Op(g[k - 1], t[k])
    BY <1>6, <2>1
  <2>3. g[k] = Op(g[n], t[k])
    BY <2>1, <2>2
  <2>4. QED
    BY <2>3 DEF k
<1>12. Folded(base, t) = Op(Folded(base, s), e)
  BY <1>1, <1>5, <1>6, <1>10, <1>11
<1>13. QED
  BY <1>12 DEF t

\* g are the steps of a recursion over the numbers up to n.
Climbs(f, base, g, n) == f = [k \in 0..n |-> IF k = 0 THEN base ELSE g[k][f[k - 1]]]

\* A recursion over the numbers up to n whose step depends on the number.
LEMMA StepsExist ==
    ASSUME NEW V, NEW base \in V, NEW n \in Nat, NEW g, Operates(g, n, V)
    PROVE  \E f : Climbs(f, base, g, n) /\ f \in [0..n -> V]
<1>0. g \in [1..n -> [V -> V]]
  BY DEF Operates
<1> DEFINE Exists(m) ==
             \E f \in [0..m -> V] : \A k \in 0..m : f[k] = IF k = 0 THEN base ELSE g[k][f[k - 1]]
           S == {m \in Nat : m <= n => Exists(m)}
<1> HIDE DEF Exists
<1>1. 0 \in S
  <2> DEFINE f == [k \in 0..0 |-> base]
  <2>1. f \in [0..0 -> V] /\ \A k \in 0..0 : k = 0 /\ f[k] = base
    OBVIOUS
  <2> HIDE DEF f
  <2>2. Exists(0)
    BY <2>1 DEF Exists
  <2>3. QED
    BY <2>2
<1>2. ASSUME NEW m \in Nat, m \in S
      PROVE  m + 1 \in S
  <2>1. SUFFICES ASSUME m + 1 <= n
                 PROVE  Exists(m + 1)
    OBVIOUS
  <2>2. Exists(m)
    BY <1>2, <2>1
  <2>3. PICK f \in [0..m -> V] :
           \A k \in 0..m : f[k] = IF k = 0 THEN base ELSE g[k][f[k - 1]]
    BY <2>2 DEF Exists
  <2> DEFINE e == [k \in 0..(m + 1) |-> IF k = m + 1 THEN g[m + 1][f[m]] ELSE f[k]]
  <2>4. m \in 0..m /\ m + 1 # 0 /\ m + 1 - 1 = m /\ m + 1 \in 1..n
    BY <2>1
  <2>5. g[m + 1][f[m]] \in V /\ \A k \in 0..(m + 1) : k # m + 1 => k \in 0..m
    BY <1>0, <2>4
  <2>6. e \in [0..(m + 1) -> V]
    BY <2>5
  <2>7. e[m + 1] = g[m + 1][f[m]] /\ \A k \in 0..m : e[k] = f[k]
    OBVIOUS
  <2> HIDE DEF e
  <2>8. ASSUME NEW k \in 0..(m + 1)
        PROVE  e[k] = IF k = 0 THEN base ELSE g[k][e[k - 1]]
    <3>1. CASE k = m + 1
      BY <2>4, <2>7, <3>1
    <3>2. CASE k \in 0..m
      <4>1. k # 0 => k - 1 \in 0..m
        BY <3>2
      <4>2. QED
        BY <2>3, <2>7, <3>2, <4>1
    <3>3. QED
      BY <2>5, <3>1, <3>2
  <2>9. QED
    BY <2>6, <2>8 DEF Exists
<1> HIDE DEF S
<1>3. \A m \in Nat : m \in S
  BY <1>1, <1>2, Induct
<1>4. Exists(n)
  BY <1>3 DEF S
<1>5. PICK f \in [0..n -> V] : \A k \in 0..n : f[k] = IF k = 0 THEN base ELSE g[k][f[k - 1]]
  BY <1>4 DEF Exists
<1>6. f = [k \in 0..n |-> IF k = 0 THEN base ELSE g[k][f[k - 1]]]
  BY <1>5
<1>7. QED
  BY <1>6 DEF Climbs

\* f is defined by recursion over all numbers, or over those up to n.
Descends(f, base) == f = [k \in Nat |-> IF k = 0 THEN base ELSE Op(f[k - 1], k)]
DescendsTo(f, base, n) == f = [k \in 0..n |-> IF k = 0 THEN base ELSE Op(f[k - 1], k)]

LEMMA DescendsToEach ==
    ASSUME NEW base
    PROVE  \A n \in Nat : \E f : DescendsTo(f, base, n)
<1> DEFINE S == {n \in Nat : \E f : DescendsTo(f, base, n)}
<1>1. 0 \in S
  <2> DEFINE f == [k \in 0..0 |-> base]
  <2>1. f = [k \in 0..0 |-> IF k = 0 THEN base ELSE Op(f[k - 1], k)]
    OBVIOUS
  <2> HIDE DEF f
  <2>2. QED
    BY <2>1 DEF DescendsTo
<1>2. ASSUME NEW n \in Nat, n \in S
      PROVE  n + 1 \in S
  <2>1. PICK f : DescendsTo(f, base, n)
    BY <1>2
  <2>2. f = [k \in 0..n |-> IF k = 0 THEN base ELSE Op(f[k - 1], k)]
    BY <2>1 DEF DescendsTo
  <2> DEFINE e == [k \in 0..(n + 1) |-> IF k = n + 1 THEN Op(f[n], n + 1) ELSE f[k]]
  <2>3. e[n + 1] = Op(f[n], n + 1) /\ \A k \in 0..n : e[k] = f[k]
    OBVIOUS
  <2>4. e = [k \in 0..(n + 1) |-> e[k]]
    OBVIOUS
  <2> HIDE DEF e
  <2>5. ASSUME NEW k \in 0..(n + 1)
        PROVE  e[k] = IF k = 0 THEN base ELSE Op(e[k - 1], k)
    <3>1. CASE k = n + 1
      <4>1. k # 0 /\ k - 1 = n /\ n \in 0..n
        BY <3>1
      <4>2. e[k - 1] = f[n]
        BY <2>3, <4>1
      <4>3. QED
        BY <2>3, <3>1, <4>1, <4>2
    <3>2. CASE k \in 0..n
      <4>1. k # 0 => k - 1 \in 0..n
        BY <3>2
      <4>2. f[k] = IF k = 0 THEN base ELSE Op(f[k - 1], k)
        BY <2>2, <3>2
      <4>3. QED
        BY <2>3, <3>2, <4>1, <4>2
    <3>3. QED
      BY <3>1, <3>2
  <2>6. e = [k \in 0..(n + 1) |-> IF k = 0 THEN base ELSE Op(e[k - 1], k)]
    BY <2>4, <2>5
  <2>7. QED
    BY <2>6 DEF DescendsTo
<1> HIDE DEF S
<1>3. \A n \in Nat : n \in S
  BY <1>1, <1>2, Induct
<1>4. QED
  BY <1>3 DEF S

LEMMA DescendsAlike ==
    ASSUME NEW base, NEW m \in Nat, NEW n \in Nat, m <= n,
           NEW f, DescendsTo(f, base, m), NEW e, DescendsTo(e, base, n)
    PROVE  \A k \in 0..m : f[k] = e[k]
<1>1. \A k \in 0..m : f[k] = IF k = 0 THEN base ELSE Op(f[k - 1], k)
  BY DEF DescendsTo
<1>2. \A k \in 0..m : e[k] = IF k = 0 THEN base ELSE Op(e[k - 1], k)
  BY DEF DescendsTo
<1> DEFINE S == {k \in Nat : k <= m => f[k] = e[k]}
<1>3. 0 \in S
  BY <1>1, <1>2
<1>4. ASSUME NEW k \in Nat, k \in S
      PROVE  k + 1 \in S
  <2>1. SUFFICES ASSUME k + 1 <= m
                 PROVE  f[k + 1] = e[k + 1]
    OBVIOUS
  <2>2. f[k] = e[k] /\ k + 1 \in 0..m /\ k + 1 # 0 /\ k + 1 - 1 = k
    BY <1>4, <2>1
  <2>3. f[k + 1] = Op(f[k], k + 1) /\ e[k + 1] = Op(e[k], k + 1)
    BY <1>1, <1>2, <2>2
  <2>4. QED
    BY <2>2, <2>3
<1> HIDE DEF S
<1>5. \A k \in Nat : k \in S
  BY <1>3, <1>4, Induct
<1>6. QED
  BY <1>5 DEF S

\* A function can be defined by recursion over the numbers, whatever its step.
LEMMA RecursionDefined ==
    ASSUME NEW base
    PROVE  \E f : Descends(f, base)
<1> DEFINE To(n) == CHOOSE f : DescendsTo(f, base, n)
           F == [n \in Nat |-> To(n)[n]]
<1>1. \A n \in Nat : DescendsTo(To(n), base, n)
  BY DescendsToEach
<1> HIDE DEF To
<1>2. F = [n \in Nat |-> F[n]] /\ \A n \in Nat : F[n] = To(n)[n]
  OBVIOUS
<1> HIDE DEF F
<1>3. ASSUME NEW k \in Nat
      PROVE  F[k] = IF k = 0 THEN base ELSE Op(F[k - 1], k)
  <2>1. k \in 0..k
    OBVIOUS
  <2>2. To(k)[k] = IF k = 0 THEN base ELSE Op(To(k)[k - 1], k)
    BY <1>1, <2>1 DEF DescendsTo
  <2>3. ASSUME k # 0
        PROVE  To(k)[k - 1] = F[k - 1]
    <3>1. k - 1 \in Nat /\ k - 1 <= k /\ k - 1 \in 0..(k - 1)
      BY <2>3
    <3> DEFINE m == k - 1
    <3>2. m \in Nat /\ m <= k /\ m \in 0..m
      BY <3>1
    <3> HIDE DEF m
    <3>3. To(m)[m] = To(k)[m]
      BY <1>1, <3>2, DescendsAlike
    <3>4. To(k)[m] = F[m]
      BY <1>2, <3>2, <3>3
    <3>5. QED
      BY <3>4 DEF m
  <2>4. QED
    BY <1>2, <2>2, <2>3
<1>4. F = [k \in Nat |-> IF k = 0 THEN base ELSE Op(F[k - 1], k)]
  BY <1>2, <1>3
<1>5. QED
  BY <1>4 DEF Descends
=============================================================================

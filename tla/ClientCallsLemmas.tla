--------------------------- MODULE ClientCallsLemmas ---------------------------
(***************************************************************************)
(* Lemmas about the recursive definitions that ClientCalls is built from:  *)
(* numbers read digit by digit, error trees, URL paths, sorted catalogs.   *)
(* Induction is over sets, from the least element of a set of naturals; a  *)
(* recursive function is shown to exist before what it satisfies is used.  *)
(***************************************************************************)
EXTENDS Classifier, Allowlist, Endpoint, CatalogAnswer, FiniteSetTheorems,
        SequenceTheorems, WellFoundedInduction, TLAPS

(* A set of naturals has a least element, by the well-foundedness of the   *)
(* strict subsets of a finite set;                                         *)
LEMMA LeastNumber ==
  ASSUME NEW T \in SUBSET Nat, T # {}
  PROVE  \E m \in T : \A n \in T : m <= n
<1>1. PICK t \in T : TRUE
  OBVIOUS
<1> DEFINE S == 0..t
           F == {0..n : n \in T \cap S}
           R == StrictSubsetOrdering(S)
<1>2. IsWellFoundedOn(R, SUBSET S)
  <2>0. IsFiniteSet(S)
    BY FS_Interval
  <2>1. FiniteSubsetsOf(S) = SUBSET S
    BY <2>0, FS_FiniteSubsetsOfFinite
  <2> QED
    BY <2>1, FS_StrictSubsetOrderingWellFounded
<1>3. F \in SUBSET SUBSET S /\ F # {}
  BY <1>1
<1>4. \A x, y \in SUBSET S : <<y, x>> \in R <=> y \subseteq x /\ y # x
  BY DEF StrictSubsetOrdering
<1>5. \E x \in F : \A y \in F : ~(<<y, x>> \in R)
  <2> HIDE DEF R
  <2> QED
    BY <1>2, <1>3, WFMin
<1>6. PICK x \in F : \A y \in F : ~(y \subseteq x /\ y # x)
  BY <1>3, <1>4, <1>5
<1>7. PICK m \in T \cap S : x = 0..m
  OBVIOUS
<1>8. ASSUME NEW n \in T, n < m PROVE FALSE
  <2>1. n \in T \cap S
    BY <1>7, <1>8
  <2>2. 0..n \in F
    BY <2>1
  <2>3. 0..n \subseteq x /\ 0..n # x
    BY <1>7, <1>8
  <2> QED
    BY <1>6, <2>2, <2>3
<1> QED
  BY <1>7, <1>8

(* so what holds of 0, and of n + 1 if of n, holds of each. *)
LEMMA Induction ==
  ASSUME NEW T, 0 \in T, \A n \in Nat : n \in T => n + 1 \in T
  PROVE  Nat \subseteq T
<1> SUFFICES ASSUME Nat \ T # {} PROVE FALSE
  OBVIOUS
<1>1. PICK m \in Nat \ T : \A n \in Nat \ T : m <= n
  BY LeastNumber
<1>2. m # 0 /\ m - 1 \in Nat /\ m - 1 \notin Nat \ T
  BY <1>1
<1> QED
  BY <1>1, <1>2

(* The same up to n, and down from n.                                      *)
LEMMA Upwards ==
  ASSUME NEW n \in Nat, NEW T, 0 \in T, \A k \in 1..n : k - 1 \in T => k \in T
  PROVE  0..n \subseteq T
<1> DEFINE U == {k \in Nat : k <= n => k \in T}
<1>1. 0 \in U
  OBVIOUS
<1>2. ASSUME NEW k \in Nat, k \in U PROVE k + 1 \in U
  BY <1>2
<1>3. Nat \subseteq U
  <2> HIDE DEF U
  <2> QED
    BY <1>1, <1>2, Induction
<1> QED
  BY <1>3

LEMMA MinIn ==
  ASSUME NEW S \in SUBSET Nat, S # {}
  PROVE  Min(S) \in S /\ \A k \in S : Min(S) <= k
  BY LeastNumber DEF Min

LEMMA MaxIn ==
  ASSUME NEW n \in Nat, NEW S \in SUBSET (0..n), S # {}
  PROVE  Max(S) \in S /\ \A k \in S : k <= Max(S)
<1> DEFINE T == {n - k : k \in S}
<1>1. T \in SUBSET Nat /\ T # {}
  <2>1. \A k \in S : n - k \in Nat
    OBVIOUS
  <2> QED
    BY <2>1
<1>2. PICK m \in T : \A k \in T : m <= k
  BY <1>1, LeastNumber
<1>3. PICK x \in S : m = n - x
  OBVIOUS
<1>4. \A k \in S : n - k \in T
  OBVIOUS
<1>5. \A k \in S : k <= x
  BY <1>2, <1>3, <1>4
<1> QED
  BY <1>3, <1>5 DEF Max

LEMMA MaxOf ==
  ASSUME NEW n \in Nat, NEW S \in SUBSET (1..n), S # {}
  PROVE  Max(S) \in 1..n /\ Max(S) \in S /\ \A k \in S : k <= Max(S)
<1>1. S \in SUBSET (0..n)
  OBVIOUS
<1> QED
  BY <1>1, MaxIn

LEMMA Interval ==
  ASSUME NEW k \in Nat \ {0}
  PROVE  1..k # {} /\ Max(1..k) = k /\ (1..k) \ {Max(1..k)} = 1..k-1
<1>1. Max(1..k) = k
  BY DEF Max
<1> QED
  BY <1>1

LEMMA Downwards ==
  ASSUME NEW n \in Nat, NEW T, \A e \in 1..n : (\A k \in e+1..n : k \in T) => e \in T
  PROVE  1..n \subseteq T
<1> DEFINE S == (1..n) \ T
<1> SUFFICES ASSUME S # {} PROVE FALSE
  OBVIOUS
<1>1. S \in SUBSET (1..n)
  OBVIOUS
<1>2. Max(S) \in S /\ \A k \in S : k <= Max(S)
  <2> HIDE DEF S
  <2> QED
    BY <1>1, MaxOf
<1> DEFINE e == Max(S)
<1>3. e \in 1..n /\ e \notin T /\ \A k \in S : k <= e
  BY <1>2
<1> HIDE DEF e
<1>4. \A k \in e+1..n : k \in T
  BY <1>3
<1> QED
  BY <1>3, <1>4
-----------------------------------------------------------------------------
(* D gives a function's value in V at each place in S from the values that *)
(* the function has at places of a lower rank r.                           *)
Defines(D, S, V, r) ==
  /\ \A e \in S, g \in [S -> V] : D[e][g] \in V
  /\ \A e \in S, g, h \in [S -> V] :
       (\A k \in S : r[k] < r[e] => g[k] = h[k]) => D[e][g] = D[e][h]

(* There is such a function: by induction on the rank below which it is    *)
(* determined.                                                             *)
LEMMA Recursion ==
  ASSUME NEW S, NEW V, V # {}, NEW N \in Nat, NEW r \in [S -> 0..N], NEW D,
         Defines(D, S, V, r)
  PROVE  \E f \in [S -> V] : \A e \in S : f[e] = D[e][f]
<1> DEFINE Upto(m, f) == \A e \in S : r[e] < m => f[e] = D[e][f]
           T == {m \in Nat : \E f \in [S -> V] : Upto(m, f)}
<1>1. 0 \in T
  <2>1. PICK v \in V : TRUE
    OBVIOUS
  <2>2. [e \in S |-> v] \in [S -> V] /\ \A e \in S : ~(r[e] < 0)
    OBVIOUS
  <2> QED
    BY <2>2
<1>2. ASSUME NEW m \in Nat, m \in T PROVE m + 1 \in T
  <2>1. PICK f \in [S -> V] : Upto(m, f)
    BY <1>2
  <2> DEFINE g == [e \in S |-> IF r[e] < m THEN f[e] ELSE D[e][f]]
  <2>2. g \in [S -> V]
    BY DEF Defines
  <2>3. ASSUME NEW e \in S, r[e] < m + 1 PROVE g[e] = D[e][g]
    <3>1. \A k \in S : r[k] < r[e] => f[k] = g[k]
      BY <2>3
    <3>2. D[e][f] = D[e][g]
      BY <2>2, <3>1 DEF Defines
    <3> QED
      BY <2>1, <2>3, <3>2
  <2>4. Upto(m + 1, g)
    BY <2>3
  <2> HIDE DEF g, Upto
  <2> QED
    BY <2>2, <2>4
<1>3. N + 1 \in T
  <2> HIDE DEF T
  <2> QED
    BY <1>1, <1>2, Induction
<1> QED
  BY <1>3

(* D[i] takes what a walk over 1..n has made of 1..i-1 to what it makes of *)
(* 1..i, values in V;                                                      *)
Steps(D, n, V) == \A i \in 1..n, v \in V : D[i][v] \in V

(* f is that walk as FoldLeft defines it, and g from one place to the next. *)
Folds(f, D, n, base) ==
  \A S \in SUBSET (1..n) :
    f[S] = IF S = {} THEN base ELSE D[Max(S)][f[S \ {Max(S)}]]

Runs(g, D, n, base) == g[0] = base /\ \A k \in 1..n : g[k] = D[k][g[k-1]]

(* As Folds, wherever the values are known to be in V.                     *)
FoldsWithin(f, D, n, base, V) ==
  /\ f[{}] = base
  /\ \A S \in SUBSET (1..n) :
       S # {} /\ f[S \ {Max(S)}] \in V => f[S] = D[Max(S)][f[S \ {Max(S)}]]

(* There is such an f, so the one that FoldLeft chooses is such an f,      *)
LEMMA FoldWitness ==
  ASSUME NEW n \in Nat, NEW V, NEW base \in V, NEW D, Steps(D, n, V)
  PROVE  \E f \in [SUBSET (1..n) -> V] : Folds(f, D, n, base)
<1> DEFINE P == SUBSET (1..n)
           r == [S \in P |-> IF S = {} THEN 0 ELSE Max(S)]
           E == [S \in P |-> [g \in [P -> V] |->
                   IF S = {} THEN base ELSE D[Max(S)][g[S \ {Max(S)}]]]]
<1>1. ASSUME NEW S \in P, S # {}
      PROVE  Max(S) \in 1..n /\ S \ {Max(S)} \in P /\ \A k \in S : k <= Max(S)
  <2>1. S \in SUBSET (0..n)
    OBVIOUS
  <2> QED
    BY <1>1, <2>1, MaxIn
<1>2. r \in [P -> 0..n]
  BY <1>1
<1>3. \A S \in P, g \in [P -> V] : E[S][g] \in V
  BY <1>1 DEF Steps
<1>4. ASSUME NEW S \in P, S # {} PROVE r[S \ {Max(S)}] < r[S]
  <2> DEFINE U == S \ {Max(S)}
  <2> SUFFICES r[U] < r[S]
    OBVIOUS
  <2>1. U \in P /\ r[S] = Max(S) /\ r[S] \in 1..n
    BY <1>1, <1>4
  <2>2. CASE U = {}
    BY <2>1, <2>2
  <2>3. CASE U # {}
    <3>1. r[U] = Max(U) /\ Max(U) \in U
      <4> HIDE DEF U
      <4>1. U \in SUBSET (0..n)
        BY <2>1
      <4> QED
        BY <2>1, <2>3, <4>1, MaxIn
    <3>2. Max(U) <= Max(S) /\ Max(U) # Max(S) /\ Max(U) \in 1..n
      BY <1>1, <1>4, <3>1
    <3>3. r[S] = Max(S) /\ Max(S) \in 1..n
      BY <2>1
    <3> HIDE DEF r, U
    <3> QED
      BY <3>1, <3>2, <3>3
  <2> QED
    BY <2>2, <2>3
<1>5. ASSUME NEW S \in P, NEW g \in [P -> V], NEW h \in [P -> V],
             \A k \in P : r[k] < r[S] => g[k] = h[k]
      PROVE  E[S][g] = E[S][h]
  <2>1. S # {} => g[S \ {Max(S)}] = h[S \ {Max(S)}]
    BY <1>1, <1>4, <1>5
  <2> QED
    BY <2>1
<1>6. \E f \in [P -> V] : \A S \in P : f[S] = E[S][f]
  <2>1. Defines(E, P, V, r) /\ V # {}
    BY <1>3, <1>5 DEF Defines
  <2> HIDE DEF P, E, r
  <2> QED
    BY <1>2, <2>1, Recursion
<1>7. PICK f \in [P -> V] : \A S \in P : f[S] = E[S][f]
  BY <1>6
<1>8. \A S \in P : E[S][f] = IF S = {} THEN base ELSE D[Max(S)][f[S \ {Max(S)}]]
  OBVIOUS
<1> HIDE DEF E
<1> QED
  BY <1>7, <1>8 DEF Folds

(* and its values for 1..k are those of a walk.                            *)
LEMMA FoldRuns ==
  ASSUME NEW n \in Nat, NEW V, NEW base \in V, NEW D, Steps(D, n, V),
         NEW iter, FoldsWithin(iter, D, n, base, V)
  PROVE  \E f \in [0..n -> V] : Runs(f, D, n, base) /\ f[n] = iter[1..n]
<1> DEFINE f == [k \in 0..n |-> iter[1..k]]
           T == {k \in 0..n : f[k] \in V}
<1>1. \A k \in 0..n : f[k] = iter[1..k]
  OBVIOUS
<1>2. f[0] = base /\ f[n] = iter[1..n]
  BY <1>1 DEF FoldsWithin
<1>8. ASSUME NEW k \in 1..n, iter[1..k-1] \in V PROVE iter[1..k] = D[k][iter[1..k-1]]
  <2>1. 1..k \in SUBSET (1..n) /\ k \in Nat \ {0}
    OBVIOUS
  <2>2. 1..k # {} /\ Max(1..k) = k /\ (1..k) \ {Max(1..k)} = 1..k-1
    BY <2>1, Interval
  <2>3. iter[(1..k) \ {Max(1..k)}] \in V
    BY <1>8, <2>2
  <2>4. iter[1..k] = D[Max(1..k)][iter[(1..k) \ {Max(1..k)}]]
    BY <2>1, <2>2, <2>3 DEF FoldsWithin
  <2> QED
    BY <2>2, <2>4
<1>3. ASSUME NEW k \in 1..n, f[k-1] \in V PROVE f[k] = D[k][f[k-1]] /\ f[k] \in V
  <2>1. f[k-1] = iter[1..k-1] /\ f[k] = iter[1..k]
    OBVIOUS
  <2> HIDE DEF f
  <2> QED
    BY <1>3, <1>8, <2>1 DEF Steps
<1>4. 0..n \subseteq T
  <2>1. 0 \in T
    BY <1>2
  <2>2. ASSUME NEW k \in 1..n, k - 1 \in T PROVE k \in T
    <3> HIDE DEF f
    <3> QED
      BY <1>3, <2>2
  <2> HIDE DEF T
  <2> QED
    BY <2>1, <2>2, Upwards
<1>5. \A k \in 1..n : k - 1 \in 0..n /\ k \in 0..n
  OBVIOUS
<1>6. \A k \in 1..n : f[k] = D[k][f[k-1]]
  BY <1>3, <1>4, <1>5
<1>7. f \in [0..n -> V]
  BY <1>4
<1> QED
  BY <1>2, <1>6, <1>7 DEF Runs
-----------------------------------------------------------------------------
(* Numbers: strconv.Atoi goes from digit to digit.                         *)
LEMMA AtoiSteps ==
  ASSUME NEW digits \in Seq(0..9)
  PROVE  \E value \in [0..Len(digits) -> Nat] :
           /\ value[0] = 0 /\ value[Len(digits)] = Atoi(digits)
           /\ \A k \in 1..Len(digits) : value[k] = 10 * value[k-1] + digits[k]
<1> DEFINE n == Len(digits)
           Eq(f) == f = [S \in SUBSET DOMAIN digits |->
                           IF S = {} THEN 0 ELSE 10 * f[S \ {Max(S)}] + digits[Max(S)]]
           iter == CHOOSE f : Eq(f)
           D == [i \in 1..n |-> [v \in Nat |-> 10 * v + digits[i]]]
<1>1. n \in Nat /\ DOMAIN digits = 1..n /\ \A i \in 1..n : digits[i] \in 0..9
  OBVIOUS
<1> HIDE DEF n
<1>2. \A v \in Nat, i \in 1..n : D[i][v] = 10 * v + digits[i]
  OBVIOUS
<1>3. Steps(D, n, Nat)
  BY <1>1, <1>2 DEF Steps
<1> HIDE DEF D
<1>4. Eq(iter)
  <2>1. PICK f \in [SUBSET (1..n) -> Nat] : Folds(f, D, n, 0)
    BY <1>1, <1>3, FoldWitness
  <2>2. ASSUME NEW S \in SUBSET (1..n), S # {}
        PROVE  D[Max(S)][f[S \ {Max(S)}]] = 10 * f[S \ {Max(S)}] + digits[Max(S)]
    <3>1. Max(S) \in 1..n /\ f[S \ {Max(S)}] \in Nat
      BY <1>1, <2>2, MaxOf
    <3> QED
      BY <1>2, <3>1
  <2>3. f = [S \in SUBSET (1..n) |->
              IF S = {} THEN 0 ELSE 10 * f[S \ {Max(S)}] + digits[Max(S)]]
    BY <2>1, <2>2 DEF Folds
  <2>4. Eq(f)
    BY <1>1, <2>3
  <2> QED
    BY <2>4
<1>5. Atoi(digits) = iter[1..n]
  BY <1>1 DEF Atoi, FoldLeft, MapThenFoldSet
<1>6. \A S \in SUBSET (1..n) :
         iter[S] = IF S = {} THEN 0 ELSE 10 * iter[S \ {Max(S)}] + digits[Max(S)]
  BY <1>1, <1>4
<1> HIDE DEF iter
<1>7. ASSUME NEW S \in SUBSET (1..n), S # {}, iter[S \ {Max(S)}] \in Nat
      PROVE  iter[S] = D[Max(S)][iter[S \ {Max(S)}]]
  <2>1. Max(S) \in 1..n
    BY <1>1, <1>7, MaxOf
  <2> QED
    BY <1>2, <1>6, <1>7, <2>1
<1>8. PICK f \in [0..n -> Nat] : Runs(f, D, n, 0) /\ f[n] = iter[1..n]
  <2> DEFINE V == Nat  zero == 0
  <2>1. FoldsWithin(iter, D, n, zero, V)
    BY <1>6, <1>7 DEF FoldsWithin
  <2>2. zero \in V /\ Steps(D, n, V)
    BY <1>3
  <2>3. \E f \in [0..n -> V] : Runs(f, D, n, zero) /\ f[n] = iter[1..n]
    <3> HIDE DEF V, zero
    <3> QED
      BY <1>1, <2>1, <2>2, FoldRuns
  <2> QED
    BY <2>3
<1>9. \A k \in 1..n : f[k] = 10 * f[k-1] + digits[k]
  <2>1. \A k \in 1..n : f[k-1] \in Nat
    BY <1>1
  <2> QED
    BY <1>2, <1>8, <2>1 DEF Runs
<1> QED
  BY <1>5, <1>8, <1>9 DEF n, Runs

(* v[k] is the number that the first k of n digits make.                   *)
Counts(v, s, n) ==
  /\ n \in Nat /\ v \in [0..n -> Nat] /\ v[0] = 0
  /\ \A k \in 1..n : s[k] \in 0..9 /\ v[k] = 10 * v[k-1] + s[k]

LEMMA AtoiCounts ==
  ASSUME NEW s \in Seq(0..9)
  PROVE  \E v : Counts(v, s, Len(s)) /\ v[Len(s)] = Atoi(s)
<1>1. PICK v \in [0..Len(s) -> Nat] :
        /\ v[0] = 0 /\ v[Len(s)] = Atoi(s)
        /\ \A k \in 1..Len(s) : v[k] = 10 * v[k-1] + s[k]
  BY AtoiSteps
<1>2. \A k \in 1..Len(s) : s[k] \in 0..9
  OBVIOUS
<1>3. Len(s) \in Nat
  OBVIOUS
<1> QED
  BY <1>1, <1>2, <1>3 DEF Counts

(* A number that is ahead stays ahead, as many digits behind each;         *)
LEMMA Ahead ==
  ASSUME NEW n, NEW m, NEW v, NEW w, NEW s, NEW t, Counts(v, s, n), Counts(w, t, m),
         NEW d \in Nat, n = m + d, NEW j \in 0..m, v[j+d] > w[j]
  PROVE  v[n] > w[m]
<1> DEFINE T == {k \in 0..m : j <= k => v[k+d] > w[k]}
<1>1. n \in Nat /\ m \in Nat
  BY DEF Counts
<1>2. 0 \in T
  BY <1>1
<1>3. ASSUME NEW k \in 1..m, k - 1 \in T PROVE k \in T
  <2> SUFFICES ASSUME j < k PROVE v[k+d] > w[k]
    BY <1>1
  <2>1. k + d \in 1..n /\ (k + d) - 1 = (k - 1) + d /\ (k-1)+d \in 0..n /\ k - 1 \in 0..m
    BY <1>1
  <2>2. v[(k-1)+d] > w[k-1]
    BY <1>1, <1>3
  <2>3. v[k+d] = 10 * v[(k-1)+d] + s[k+d] /\ s[k+d] \in 0..9 /\ v[(k-1)+d] \in Nat
    BY <2>1 DEF Counts
  <2>4. w[k] = 10 * w[k-1] + t[k] /\ t[k] \in 0..9 /\ w[k-1] \in Nat
    BY <2>1 DEF Counts
  <2> HIDE DEF T
  <2> QED
    BY <2>2, <2>3, <2>4
<1>4. 0..m \subseteq T
  <2> HIDE DEF T
  <2> QED
    BY <1>1, <1>2, <1>3, Upwards
<1> QED
  BY <1>1, <1>4

(* and zeros in front do not count.                                        *)
LEMMA Suffix ==
  ASSUME NEW n, NEW m, NEW v, NEW w, NEW s, NEW t, Counts(v, s, n), Counts(w, t, m),
         NEW d \in Nat, n = m + d, \A k \in 1..d : s[k] = 0,
         \A k \in 1..m : t[k] = s[k+d]
  PROVE  v[n] = w[m]
<1> DEFINE Z == {k \in 0..d : v[k] = 0}
           T == {k \in 0..m : v[k+d] = w[k]}
<1>1. n \in Nat /\ m \in Nat
  BY DEF Counts
<1>2. 0..d \subseteq Z
  <2>1. 0 \in Z
    BY DEF Counts
  <2>2. ASSUME NEW k \in 1..d, k - 1 \in Z PROVE k \in Z
    <3>1. k \in 1..n /\ v[k] = 10 * v[k-1] + s[k]
      BY <1>1 DEF Counts
    <3> QED
      BY <2>2, <3>1
  <2> HIDE DEF Z
  <2> QED
    BY <2>1, <2>2, Upwards
<1>3. 0 \in T
  BY <1>1, <1>2 DEF Counts
<1>4. ASSUME NEW k \in 1..m, k - 1 \in T PROVE k \in T
  <2>1. k + d \in 1..n /\ (k + d) - 1 = (k - 1) + d
    BY <1>1
  <2>2. v[k+d] = 10 * v[(k-1)+d] + s[k+d]
    BY <2>1 DEF Counts
  <2>3. w[k] = 10 * w[k-1] + t[k]
    BY DEF Counts
  <2> QED
    BY <1>4, <2>2, <2>3
<1>5. 0..m \subseteq T
  <2> HIDE DEF T
  <2> QED
    BY <1>1, <1>3, <1>4, Upwards
<1> QED
  BY <1>1, <1>5

LEMMA Positive ==
  ASSUME NEW n, NEW v, NEW s, Counts(v, s, n), n > 0, s[1] # 0
  PROVE  \A k \in 1..n : v[k] > 0
<1> DEFINE T == {k \in 0..n : k > 0 => v[k] > 0}
<1>1. n \in Nat /\ 0 \in T
  BY DEF Counts
<1>2. ASSUME NEW k \in 1..n, k - 1 \in T PROVE k \in T
  <2>1. v[k] = 10 * v[k-1] + s[k] /\ s[k] \in 0..9 /\ v[k-1] \in Nat
    BY <1>1 DEF Counts
  <2>2. CASE k = 1
    BY <2>1, <2>2, <1>1
  <2>3. CASE k # 1
    <3>1. v[k-1] > 0
      BY <1>1, <1>2, <2>3
    <3> QED
      BY <2>1, <3>1
  <2> QED
    BY <2>2, <2>3
<1>3. 0..n \subseteq T
  <2> HIDE DEF T
  <2> QED
    BY <1>1, <1>2, Upwards
<1> QED
  BY <1>1, <1>3

LEMMA SignificantDigits ==
  ASSUME NEW s \in Seq(0..9)
  PROVE  LET a == Significant(s) IN
         /\ a \in Seq(0..9) /\ Atoi(a) = Atoi(s)
         /\ Len(a) > 0 => a[1] # 0
<1> DEFINE n == Len(s)
           zeros == {i \in 0..n : \A j \in 1..i : s[j] = 0}
           z == Max(zeros)
           a == SubSeq(s, z + 1, n)
<1>1. n \in Nat /\ \A k \in 1..n : s[k] \in 0..9
  OBVIOUS
<1>2. zeros \in SUBSET (0..n) /\ zeros # {}
  <2>1. 0 \in zeros
    BY <1>1
  <2> QED
    BY <2>1
<1>3. z \in zeros /\ \A k \in zeros : k <= z
  <2> HIDE DEF zeros, n
  <2> QED
    BY <1>1, <1>2, MaxIn
<1>4. z \in 0..n /\ \A k \in 1..z : s[k] = 0
  <2> HIDE DEF z
  <2> QED
    BY <1>3
<1> HIDE DEF z
<1>5. a \in Seq(0..9) /\ Len(a) = n - z /\ \A k \in 1..n-z : a[k] = s[k+z]
  BY <1>1, <1>4
<1>6. Significant(s) = a
  BY DEF Significant, z
<1> HIDE DEF a
<1>7. ASSUME Len(a) > 0, a[1] = 0 PROVE FALSE
  <2>1. z + 1 \in 1..n /\ s[z+1] = 0
    BY <1>1, <1>4, <1>5, <1>7
  <2>2. \A j \in 1..z+1 : s[j] = 0
    BY <1>4, <2>1
  <2>3. z + 1 \in zeros
    BY <1>1, <1>4, <2>1, <2>2
  <2> QED
    BY <1>3, <1>4, <2>3
<1>8. Atoi(a) = Atoi(s)
  <2>1. PICK v : Counts(v, s, n) /\ v[n] = Atoi(s)
    BY AtoiCounts
  <2>2. PICK w : Counts(w, a, Len(a)) /\ w[Len(a)] = Atoi(a)
    BY <1>5, AtoiCounts
  <2>3. /\ n = Len(a) + z /\ z \in Nat /\ \A k \in 1..z : s[k] = 0
        /\ \A k \in 1..Len(a) : a[k] = s[k+z]
    BY <1>1, <1>4, <1>5
  <2>4. ASSUME NEW m, m = Len(a) PROVE v[n] = w[m]
    <3>1. /\ n = m + z /\ z \in Nat /\ \A k \in 1..z : s[k] = 0
          /\ \A k \in 1..m : a[k] = s[k+z]
      BY <2>3, <2>4
    <3>2. Counts(v, s, n) /\ Counts(w, a, m)
      BY <2>1, <2>2, <2>4
    <3> HIDE DEF n
    <3> QED
      BY <3>1, <3>2, Suffix
  <2> QED
    BY <2>1, <2>2, <2>4
<1> QED
  BY <1>5, <1>6, <1>7, <1>8

(* To compare the digits is to compare the numbers.                        *)
LEMMA GreaterCounts ==
  ASSUME NEW s \in Seq(0..9), NEW t \in Seq(0..9), Greater(s, t)
  PROVE  Atoi(s) > Atoi(t)
<1> DEFINE a == Significant(s)  n == Len(a)
           b == Significant(t)  m == Len(b)
<1>1. /\ a \in Seq(0..9) /\ Atoi(a) = Atoi(s) /\ (n > 0 => a[1] # 0)
      /\ b \in Seq(0..9) /\ Atoi(b) = Atoi(t)
  BY SignificantDigits
<1>2. \/ n > m
      \/ n = m /\ \E i \in 1..n : a[i] > b[i] /\ \A j \in 1..i-1 : a[j] = b[j]
  BY DEF Greater
<1> HIDE DEF a, b
<1>3. PICK v : Counts(v, a, n) /\ v[n] = Atoi(a)
  BY <1>1, AtoiCounts
<1>4. PICK w : Counts(w, b, m) /\ w[m] = Atoi(b)
  BY <1>1, AtoiCounts
<1>5. n \in Nat /\ m \in Nat
  BY <1>1
<1> HIDE DEF n, m
<1>6. CASE n > m
  <2>1. \A k \in 1..n : v[k] > 0
    BY <1>1, <1>3, <1>5, <1>6, Positive
  <2>2. w[0] = 0 /\ n - m \in 1..n /\ n - m \in Nat /\ n = m + (n - m) /\ 0 \in 0..m
    BY <1>4, <1>5, <1>6 DEF Counts
  <2>3. v[0 + (n - m)] > w[0]
    BY <2>1, <2>2
  <2>4. v[n] > w[m]
    BY <1>3, <1>4, <2>2, <2>3, Ahead
  <2> QED
    BY <1>1, <1>3, <1>4, <2>4
<1>7. CASE n = m /\ \E i \in 1..n : a[i] > b[i] /\ \A j \in 1..i-1 : a[j] = b[j]
  <2>1. PICK i \in 1..n : a[i] > b[i] /\ \A j \in 1..i-1 : a[j] = b[j]
    BY <1>7
  <2> DEFINE T == {k \in 0..i-1 : v[k] = w[k]}
  <2>2. 0 \in T
    BY <1>3, <1>4 DEF Counts
  <2>3. ASSUME NEW k \in 1..i-1, k - 1 \in T PROVE k \in T
    <3>1. k \in 1..n /\ k \in 1..m
      BY <1>5, <1>7
    <3>2. v[k] = 10 * v[k-1] + a[k] /\ w[k] = 10 * w[k-1] + b[k]
      BY <1>3, <1>4, <3>1 DEF Counts
    <3> QED
      BY <2>1, <2>3, <3>2
  <2>4. 0..i-1 \subseteq T
    <3>1. i - 1 \in Nat
      OBVIOUS
    <3> HIDE DEF T
    <3> QED
      BY <2>2, <2>3, <3>1, Upwards
  <2>5. /\ v[i] = 10 * v[i-1] + a[i] /\ v[i-1] \in Nat /\ a[i] \in 0..9
        /\ w[i] = 10 * w[i-1] + b[i] /\ b[i] \in 0..9
    <3>1. i \in 1..m /\ i - 1 \in 0..n
      BY <1>5, <1>7
    <3> QED
      BY <1>3, <1>4, <3>1 DEF Counts
  <2>6. v[i-1] = w[i-1]
    BY <2>4
  <2>7. v[i] > w[i]
    <3>1. \A x \in Nat, d, e \in 0..9 : d > e => 10 * x + d > 10 * x + e
      OBVIOUS
    <3> HIDE DEF T
    <3> QED
      BY <2>1, <2>5, <2>6, <3>1
  <2>8. v[i+0] > w[i] /\ n = m + 0 /\ i \in 0..m /\ 0 \in Nat
    BY <1>5, <1>7, <2>7
  <2>9. v[n] > w[m]
    BY <1>3, <1>4, <2>8, Ahead
  <2> QED
    BY <1>1, <1>3, <1>4, <2>9
<1> QED
  BY <1>2, <1>6, <1>7

LEMMA NotGreaterCounts ==
  ASSUME NEW s \in Seq(0..9), NEW t \in Seq(0..9), ~Greater(t, s)
  PROVE  Atoi(s) >= Atoi(t)
<1> DEFINE a == Significant(s)
           b == Significant(t)
           D == {i \in 1..Len(a) : a[i] # b[i]}
<1>1. a \in Seq(0..9) /\ Atoi(a) = Atoi(s) /\ b \in Seq(0..9) /\ Atoi(b) = Atoi(t)
  BY SignificantDigits
<1>2. Atoi(s) \in Nat /\ Atoi(t) \in Nat
  BY AtoiSteps
<1>3. CASE Greater(s, t)
  BY <1>2, <1>3, GreaterCounts
<1>4. CASE ~Greater(s, t)
  <2>1. Len(a) = Len(b)
    <3>1. ~(Len(a) > Len(b)) /\ ~(Len(b) > Len(a))
      BY <1>4 DEF Greater
    <3>2. Len(a) \in Nat /\ Len(b) \in Nat
      BY <1>1
    <3> HIDE DEF a, b
    <3> QED
      BY <3>1, <3>2
  <2>2. ASSUME NEW i \in 1..Len(a), \A j \in 1..i-1 : a[j] = b[j]
        PROVE  a[i] = b[i]
    <3>1. ~(a[i] > b[i]) /\ ~(b[i] > a[i])
      BY <1>4, <2>1, <2>2 DEF Greater
    <3>2. a[i] \in 0..9 /\ b[i] \in 0..9
      <4> HIDE DEF a, b
      <4> QED
        BY <1>1, <2>1
    <3> HIDE DEF a, b
    <3> QED
      BY <3>1, <3>2, SMTT(20)
  <2> HIDE DEF a, b
  <2>3. D = {}
    <3> SUFFICES ASSUME D # {} PROVE FALSE
      OBVIOUS
    <3>1. D \in SUBSET Nat
      OBVIOUS
    <3>2. PICK i \in D : \A j \in D : i <= j
      <4> HIDE DEF D
      <4> QED
        BY <3>1, LeastNumber
    <3>3. \A j \in 1..i-1 : a[j] = b[j]
      BY <1>1, <3>2
    <3> QED
      BY <2>2, <3>2, <3>3
  <2>4. a = b
    BY <1>1, <2>1, <2>3
  <2> QED
    BY <1>1, <1>2, <2>4
<1> QED
  BY <1>3, <1>4
-----------------------------------------------------------------------------
(* Error trees: the nodes below one are those that follow it in the walk,  *)
(* up to the first that is not below it.                                   *)
LEMMA Nodes == \E n \in Nat \ {0} : Node = 1..n
<1>1. Cardinality(Node) \in Nat
  BY ClassifierAssumption, FS_CardinalityType
<1>2. Cardinality(Node) # 0
  BY ClassifierAssumption, <1>1
<1> QED
  BY ClassifierAssumption, <1>1, <1>2

Tree(t) ==
  /\ t.parent \in [Node -> Nat] /\ t.joined \in [Node -> BOOLEAN]
  /\ t.code \in [Node -> Code] /\ IsTree(t.parent, t.joined)

(* e and what is below it.                                                 *)
Sub(t, e) == {k \in Node : e <= k /\ \A i \in e+1..k : t.parent[i] >= e}

LEMMA WrappedLater ==
  ASSUME NEW t, Tree(t), NEW e \in Node
  PROVE  \A k \in Wrapped(t, e) : k \in Node /\ k > e /\ t.parent[k] = e
<1>1. PICK n \in Nat \ {0} : Node = 1..n
  BY Nodes
<1> SUFFICES ASSUME NEW k \in Node, t.parent[k] = e PROVE k > e
  BY DEF Wrapped
<1>2. k # 1 /\ t.parent[k] \in 1..k-1
  BY <1>1 DEF Tree, IsTree
<1> QED
  BY <1>1, <1>2

(* What is below e is below one of those that it wraps, in their order.    *)
LEMMA SubOfWrapped ==
  ASSUME NEW t, Tree(t), NEW e \in Node
  PROVE  Sub(t, e) = {e} \cup UNION {Sub(t, c) : c \in Wrapped(t, e)}
<1> DEFINE p == t.parent
           W == Wrapped(t, e)
<1>1. PICK n \in Nat \ {0} : Node = 1..n
  BY Nodes
<1>2. /\ p \in [Node -> Nat] /\ \A k \in Node \ {1} : p[k] \in 1..k-1
      /\ \A j, k \in Node : j < k => p[k] \notin p[j]+1..j-1
  BY DEF Tree, IsTree
<1>3. \A k \in W : k \in Node /\ k > e /\ p[k] = e
  BY WrappedLater
<1>4. \A k \in Node : p[k] = e => k \in W
  BY DEF Wrapped
<1>5. \A c \in Node : \A k : k \in Sub(t, c) <=>
        k \in Node /\ c <= k /\ \A i \in c+1..k : p[i] >= c
  BY DEF Sub
<1> HIDE DEF p, W
<1>6. e \in Sub(t, e)
  BY <1>1, <1>5
<1>7. ASSUME NEW c \in W, NEW k \in Sub(t, c) PROVE k \in Sub(t, e)
  <2>1. c \in Node /\ c > e /\ p[c] = e /\ k \in Node /\ c <= k
    BY <1>3, <1>5
  <2>2. ASSUME NEW i \in e+1..k PROVE p[i] >= e
    <3>1. i \in Node \ {1}
      BY <1>1, <2>1
    <3>2. CASE i > c
      <4>1. p[i] >= c
        BY <1>1, <1>5, <2>1, <3>2
      <4> QED
        BY <1>1, <1>2, <2>1, <3>1, <4>1
    <3>3. CASE i = c
      BY <1>1, <2>1, <3>3
    <3>4. CASE i < c
      <4>1. p[c] \notin p[i]+1..i-1 /\ p[i] \in Nat
        BY <1>2, <2>1, <3>1, <3>4
      <4> QED
        BY <1>1, <2>1, <3>1, <4>1
    <3> QED
      BY <1>1, <2>1, <3>1, <3>2, <3>3, <3>4
  <2> QED
    BY <1>1, <1>5, <2>1, <2>2
<1>8. ASSUME NEW k \in Sub(t, e), k # e PROVE \E c \in W : k \in Sub(t, c)
  <2> DEFINE S == {i \in e+1..k : p[i] = e}
             c == Max(S)
  <2>1. k \in Node /\ e < k /\ \A i \in e+1..k : p[i] >= e
    BY <1>1, <1>5, <1>8
  <2>2. e + 1 \in S
    <3>1. e + 1 \in Node \ {1} /\ e + 1 \in e+1..k
      BY <1>1, <2>1
    <3>2. p[e+1] \in 1..(e+1)-1 /\ p[e+1] >= e
      BY <1>2, <2>1, <3>1
    <3> QED
      BY <1>1, <3>1, <3>2
  <2>3. S \in SUBSET (1..n) /\ S # {}
    BY <1>1, <2>1, <2>2
  <2>4. c \in S /\ \A i \in S : i <= c
    <3> HIDE DEF S
    <3> QED
      BY <2>3, MaxOf
  <2>5. c \in e+1..k /\ p[c] = e /\ \A i \in e+1..k : p[i] = e => i <= c
    BY <2>4
  <2> HIDE DEF c, S
  <2>6. c \in Node
    BY <1>1, <2>1, <2>5
  <2>7. ASSUME NEW i \in c+1..k PROVE p[i] >= c
    <3>1. i \in Node \ {1} /\ i \in e+1..k /\ c < i
      BY <1>1, <2>1, <2>5
    <3>2. p[i] \in Nat /\ p[i] >= e /\ p[i] # e
      BY <1>1, <1>2, <2>1, <2>5, <2>6, <3>1, SMTT(20)
    <3>3. p[i] \notin p[c]+1..c-1
      BY <1>2, <2>6, <3>1
    <3> QED
      BY <1>1, <2>5, <2>6, <3>2, <3>3
  <2> QED
    BY <1>1, <1>4, <1>5, <2>1, <2>5, <2>6, <2>7
<1> QED
  BY <1>6, <1>7, <1>8 DEF W

LEMMA SubsInOrder ==
  ASSUME NEW t, Tree(t), NEW e \in Node, NEW c \in Wrapped(t, e),
         NEW d \in Wrapped(t, e), c < d, NEW k \in Sub(t, c), NEW l \in Sub(t, d)
  PROVE  k < l
<1>1. PICK n \in Nat \ {0} : Node = 1..n
  BY Nodes
<1>2. c \in Node /\ c > e /\ d \in Node /\ t.parent[d] = e
  BY WrappedLater
<1>3. k \in Node /\ l \in Node /\ d <= l /\ \A i \in c+1..k : t.parent[i] >= c
  BY DEF Sub
<1>4. ~(d \in c+1..k)
  BY <1>1, <1>2, <1>3
<1> QED
  BY <1>1, <1>2, <1>3, <1>4

(* A single error that is wrapped is the next.                             *)
LEMMA OnlyWrapped ==
  ASSUME NEW t, Tree(t), NEW e \in Node, ~t.joined[e], Wrapped(t, e) # {}
  PROVE  Wrapped(t, e) = {e + 1} /\ Min(Wrapped(t, e)) = e + 1 /\ e + 1 \in Node
<1>1. PICK n \in Nat \ {0} : Node = 1..n
  BY Nodes
<1>2. PICK k \in Wrapped(t, e) : TRUE
  OBVIOUS
<1>3. k \in Node /\ k > e /\ t.parent[k] = e
  BY WrappedLater
<1>4. e + 1 \in Node \ {1}
  BY <1>1, <1>3
<1>5. /\ t.parent[e+1] \in 1..(e+1)-1
      /\ e + 1 < k => t.parent[k] \notin t.parent[e+1]+1..(e+1)-1
  BY <1>3, <1>4 DEF Tree, IsTree
<1>6. t.parent[e+1] = e
  BY <1>1, <1>3, <1>4, <1>5
<1>7. ASSUME NEW j \in Wrapped(t, e) PROVE j = e + 1
  <2>1. j \in Node /\ t.parent[j] = e
    BY WrappedLater
  <2> QED
    BY <1>4, <1>6, <2>1 DEF Tree, IsTree
<1>8. Wrapped(t, e) = {e + 1}
  BY <1>4, <1>6, <1>7 DEF Wrapped
<1>9. Min({e + 1}) = e + 1
  BY <1>1, <1>4 DEF Min
<1> QED
  BY <1>4, <1>8, <1>9

(* What errors.As does at each error.                                      *)
LEMMA FirstJoinedSteps ==
  ASSUME NEW t, Tree(t)
  PROVE  \A e \in Node :
           /\ FirstJoined(t)[e] \in Nat
           /\ t.joined[e] => FirstJoined(t)[e] = e
           /\ ~t.joined[e] /\ Wrapped(t, e) = {} => FirstJoined(t)[e] = 0
           /\ ~t.joined[e] /\ Wrapped(t, e) # {} =>
                FirstJoined(t)[e] = FirstJoined(t)[e+1]
<1> DEFINE Eq(f) == f = [e \in Node |->
                           IF t.joined[e] THEN e
                           ELSE IF Wrapped(t, e) = {} THEN 0
                           ELSE f[Min(Wrapped(t, e))]]
           D == [e \in Node |-> [g \in [Node -> Nat] |->
                           IF t.joined[e] THEN e
                           ELSE IF Wrapped(t, e) = {} THEN 0
                           ELSE g[Min(Wrapped(t, e))]]]
           r == [e \in Node |-> Cardinality(Node) - e]
           As == CHOOSE f : Eq(f)
<1>1. PICK n \in Nat \ {0} : Node = 1..n /\ n = Cardinality(Node)
  <2>1. Cardinality(Node) \in Nat
    BY ClassifierAssumption, FS_CardinalityType
  <2> QED
    BY <2>1, ClassifierAssumption
<1>2. \A e \in Node : ~t.joined[e] /\ Wrapped(t, e) # {} =>
        Min(Wrapped(t, e)) = e + 1 /\ e + 1 \in Node
  BY OnlyWrapped
<1>3. r \in [Node -> 0..n]
  BY <1>1
<1>4. Defines(D, Node, Nat, r)
  <2>1. \A e \in Node, g \in [Node -> Nat] : D[e][g] \in Nat
    BY <1>1, <1>2
  <2>2. ASSUME NEW e \in Node, NEW g \in [Node -> Nat], NEW h \in [Node -> Nat],
               \A k \in Node : r[k] < r[e] => g[k] = h[k]
        PROVE  D[e][g] = D[e][h]
    <3>1. e + 1 \in Node => r[e+1] < r[e]
      BY <1>1
    <3> QED
      BY <1>2, <2>2, <3>1
  <2> QED
    BY <2>1, <2>2 DEF Defines
<1>5. PICK f \in [Node -> Nat] : \A e \in Node : f[e] = D[e][f]
  <2> DEFINE V == Nat
  <2>1. V # {} /\ Defines(D, Node, V, r)
    BY <1>4
  <2>2. \E f \in [Node -> V] : \A e \in Node : f[e] = D[e][f]
    <3> HIDE DEF D, r, V
    <3> QED
      BY <1>3, <2>1, Recursion
  <2> QED
    BY <2>2
<1>6. Eq(f)
  BY <1>5
<1>7. Eq(As)
  <2> HIDE DEF Eq
  <2> QED
    BY <1>6
<1>8. FirstJoined(t) = As
  BY DEF FirstJoined
<1> HIDE DEF As
<1>9. \A e \in Node : As[e] = IF t.joined[e] THEN e
                              ELSE IF Wrapped(t, e) = {} THEN 0
                              ELSE As[Min(Wrapped(t, e))]
  BY <1>7
<1>10. \A e \in Node : As[e] \in Nat
  <2> DEFINE T == {e \in Node : As[e] \in Nat}
  <2>1. ASSUME NEW e \in 1..n, \A k \in e+1..n : k \in T PROVE e \in T
    <3>1. e + 1 \in Node => e + 1 \in T
      BY <1>1, <2>1
    <3> QED
      BY <1>1, <1>2, <1>9, <3>1
  <2>2. 1..n \subseteq T
    <3> HIDE DEF T
    <3> QED
      BY <2>1, Downwards
  <2> QED
    BY <1>1, <2>2
<1> QED
  BY <1>2, <1>8, <1>9, <1>10

(* On the way down to the first joined error each error wraps the next and *)
(* nothing else;                                                           *)
WayDown(t, e, m) ==
  /\ m \in Node /\ e <= m /\ t.joined[m]
  /\ \A k \in e..m-1 : ~t.joined[k] /\ t.parent[k+1] = k /\ FirstJoined(t)[k+1] = m

LEMMA JoinedBelow ==
  ASSUME NEW t, Tree(t)
  PROVE  \A e \in Node : FirstJoined(t)[e] # 0 => WayDown(t, e, FirstJoined(t)[e])
<1> DEFINE J == FirstJoined(t)
           T == {e \in Node : J[e] # 0 => WayDown(t, e, J[e])}
<1>1. PICK n \in Nat \ {0} : Node = 1..n
  BY Nodes
<1>2. \A e \in Node :
           /\ J[e] \in Nat /\ (t.joined[e] => J[e] = e)
           /\ ~t.joined[e] /\ Wrapped(t, e) = {} => J[e] = 0
           /\ ~t.joined[e] /\ Wrapped(t, e) # {} => J[e] = J[e+1]
  BY FirstJoinedSteps
<1>3. ASSUME NEW e \in 1..n, \A k \in e+1..n : k \in T PROVE e \in T
  <2> SUFFICES ASSUME J[e] # 0 PROVE WayDown(t, e, J[e])
    BY <1>1
  <2>1. CASE t.joined[e]
    <3>1. J[e] = e
      BY <1>1, <1>2, <2>1
    <3> QED
      BY <1>1, <2>1, <3>1 DEF WayDown
  <2>2. CASE ~t.joined[e]
    <3>1. Wrapped(t, e) # {} /\ J[e] = J[e+1]
      BY <1>1, <1>2, <2>2
    <3>2. Wrapped(t, e) = {e + 1} /\ e + 1 \in Node
      BY <1>1, <2>2, <3>1, OnlyWrapped
    <3>3. WayDown(t, e + 1, J[e])
      BY <1>1, <1>3, <3>1, <3>2
    <3>4. t.parent[e+1] = e
      BY <3>2 DEF Wrapped
    <3>5. \A k \in e..J[e]-1 : k = e \/ k \in e+1..J[e]-1
      BY <1>1, <1>2
    <3>6. J[e] \in Node /\ e + 1 <= J[e] /\ t.joined[J[e]]
      BY <3>3 DEF WayDown
    <3> HIDE DEF J
    <3> QED
      BY <1>1, <2>2, <3>1, <3>3, <3>4, <3>5, <3>6 DEF WayDown, J
  <2> QED
    BY <2>1, <2>2
<1>4. 1..n \subseteq T
  <2> HIDE DEF T
  <2> QED
    BY <1>3, Downwards
<1> QED
  BY <1>1, <1>4

(* what is below the first is below the last, or on the way.               *)
LEMMA SubOfWayDown ==
  ASSUME NEW t, Tree(t), NEW e \in Node, NEW m, WayDown(t, e, m)
  PROVE  Sub(t, e) = (e..m-1) \cup Sub(t, m)
<1> DEFINE p == t.parent
           j == t.joined
<1>1. PICK n \in Nat \ {0} : Node = 1..n
  BY Nodes
<1>2. /\ m \in Node /\ e <= m
      /\ \A k \in e..m-1 : ~j[k] /\ p[k+1] = k
  BY DEF WayDown
<1>3. /\ p \in [Node -> Nat]
      /\ \A i, k \in Node : i # k /\ p[i] = p[k] => j[p[k]]
  BY DEF Tree, IsTree
<1>4. \A c \in Node : \A k : k \in Sub(t, c) <=>
        k \in Node /\ c <= k /\ \A i \in c+1..k : p[i] >= c
  BY DEF Sub
<1> HIDE DEF p, j
<1>5. \A i \in e+1..m : p[i] = i - 1
  <2> SUFFICES ASSUME NEW i \in e+1..m PROVE p[i] = i - 1
    OBVIOUS
  <2>1. i - 1 \in e..m-1 /\ (i - 1) + 1 = i
    BY <1>1, <1>2
  <2> QED
    BY <1>2, <2>1
<1>6. \A k \in e..m-1 : k \in Sub(t, e)
  BY <1>1, <1>2, <1>4, <1>5, SMTT(20)
<1>7. ASSUME NEW k \in Sub(t, m) PROVE k \in Sub(t, e)
  <2>1. \A i \in e+1..k : i \in e+1..m \/ i \in m+1..k
    BY <1>1, <1>2, <1>4
  <2>2. k \in Node /\ m <= k /\ \A i \in m+1..k : p[i] >= m
    BY <1>2, <1>4
  <2>3. ASSUME NEW i \in e+1..k PROVE p[i] >= e
    <3>1. CASE i \in e+1..m
      BY <1>1, <1>5, <3>1
    <3>2. CASE i \in m+1..k
      <4>1. p[i] >= m /\ p[i] \in Nat
        BY <1>1, <1>2, <1>3, <2>2, <3>2
      <4> QED
        BY <1>1, <1>2, <4>1
    <3> QED
      BY <2>1, <3>1, <3>2
  <2> QED
    BY <1>1, <1>2, <1>4, <2>2, <2>3
<1>8. ASSUME NEW k \in Sub(t, e), k \notin e..m-1 PROVE k \in Sub(t, m)
  <2>1. k \in Node /\ m <= k /\ \A i \in e+1..k : p[i] >= e
    BY <1>1, <1>2, <1>4, <1>8
  <2>2. ASSUME NEW i \in m+1..k, ~(p[i] >= m) PROVE FALSE
    <3>1. i \in Node /\ i \in e+1..k /\ i > m
      BY <1>1, <1>2, <2>1
    <3>2. p[i] \in e..m-1 /\ p[i] + 1 \in Node /\ p[i] + 1 # i
      BY <1>1, <1>2, <1>3, <2>1, <2>2, <3>1, SMTT(20)
    <3>3. p[p[i]+1] = p[i] /\ ~j[p[i]]
      BY <1>2, <3>2
    <3> QED
      BY <1>3, <3>1, <3>2, <3>3
  <2> QED
    BY <1>2, <1>4, <2>1, <2>2
<1> QED
  BY <1>6, <1>7, <1>8

(* Where findErrorCode looks below an error without a code.                *)
Below(t, e) ==
  Wrapped(t, IF FirstJoined(t)[e] = 0 THEN e ELSE FirstJoined(t)[e])

Coded(t, f, e) == {k \in Below(t, e) : f[k] # NoCode}

FoundBy(t, f) ==
  \A e \in Node :
    f[e] = IF t.code[e] # NoCode THEN t.code[e]
           ELSE IF Coded(t, f, e) = {} THEN NoCode ELSE f[Min(Coded(t, f, e))]

LEMMA BelowLater ==
  ASSUME NEW t, Tree(t), NEW e \in Node
  PROVE  \A k \in Below(t, e) : k \in Node /\ k > e
<1>1. PICK n \in Nat \ {0} : Node = 1..n
  BY Nodes
<1>2. CASE FirstJoined(t)[e] = 0
  BY <1>2, WrappedLater DEF Below
<1>3. CASE FirstJoined(t)[e] # 0
  <2> DEFINE m == FirstJoined(t)[e]
  <2>1. m \in Node /\ e <= m
    BY <1>3, JoinedBelow DEF WayDown
  <2>2. Below(t, e) = Wrapped(t, m)
    BY <1>3 DEF Below
  <2> HIDE DEF m
  <2>3. \A k \in Wrapped(t, m) : k \in Node /\ k > m
    BY <2>1, WrappedLater
  <2> QED
    BY <1>1, <2>1, <2>2, <2>3
<1> QED
  BY <1>2, <1>3

(* What findErrorCode does at each error.                                  *)
LEMMA Finding ==
  ASSUME NEW t, Tree(t)
  PROVE  \E f \in [Node -> Code] : FoundBy(t, f) /\ findErrorCode(t) = f[1]
<1> DEFINE Eq(f) == f = [e \in Node |->
                      IF t.code[e] # NoCode THEN t.code[e]
                      ELSE LET below == Wrapped(t, IF FirstJoined(t)[e] = 0 THEN e
                                               ELSE FirstJoined(t)[e])
                               coded == {k \in below : f[k] # NoCode}
                           IN IF coded = {} THEN NoCode ELSE f[Min(coded)]]
           D == [e \in Node |-> [g \in [Node -> Code] |->
                      IF t.code[e] # NoCode THEN t.code[e]
                      ELSE IF Coded(t, g, e) = {} THEN NoCode ELSE g[Min(Coded(t, g, e))]]]
           r == [e \in Node |-> Cardinality(Node) - e]
           Found == CHOOSE f : Eq(f)
<1>1. PICK n \in Nat \ {0} : Node = 1..n /\ n = Cardinality(Node)
  <2>1. Cardinality(Node) \in Nat
    BY ClassifierAssumption, FS_CardinalityType
  <2> QED
    BY <2>1, ClassifierAssumption
<1>2. ASSUME NEW e \in Node, NEW g, Coded(t, g, e) # {}
      PROVE  /\ Min(Coded(t, g, e)) \in Coded(t, g, e)
             /\ Min(Coded(t, g, e)) \in Node /\ Min(Coded(t, g, e)) > e
  <2>1. \A k \in Coded(t, g, e) : k \in Node /\ k > e
    BY BelowLater DEF Coded
  <2>2. Coded(t, g, e) \in SUBSET Nat
    BY <1>1, <2>1
  <2>3. Min(Coded(t, g, e)) \in Coded(t, g, e)
    BY <1>2, <2>2, MinIn
  <2> QED
    BY <2>1, <2>3
<1>3. r \in [Node -> 0..n]
  BY <1>1
<1>4. Defines(D, Node, Code, r)
  <2>1. ASSUME NEW e \in Node, NEW g \in [Node -> Code] PROVE D[e][g] \in Code
    <3>1. Coded(t, g, e) # {} => Min(Coded(t, g, e)) \in Node
      BY <1>2
    <3>2. NoCode \in Code /\ t.code[e] \in Code
      BY DEF Code, Tree
    <3> QED
      BY <3>1, <3>2
  <2>2. ASSUME NEW e \in Node, NEW g \in [Node -> Code], NEW h \in [Node -> Code],
               \A k \in Node : r[k] < r[e] => g[k] = h[k]
        PROVE  D[e][g] = D[e][h]
    <3>1. \A k \in Below(t, e) : g[k] = h[k]
      <4> SUFFICES ASSUME NEW k \in Below(t, e) PROVE g[k] = h[k]
        OBVIOUS
      <4>1. k \in Node /\ k > e
        BY BelowLater
      <4>2. r[k] < r[e]
        BY <1>1, <4>1
      <4> QED
        BY <2>2, <4>1, <4>2
    <3>2. Coded(t, g, e) = Coded(t, h, e)
      BY <3>1 DEF Coded
    <3>3. Coded(t, g, e) # {} => g[Min(Coded(t, g, e))] = h[Min(Coded(t, g, e))]
      <4>1. Coded(t, g, e) # {} => Min(Coded(t, g, e)) \in Below(t, e)
        BY <1>2 DEF Coded
      <4> QED
        BY <3>1, <4>1
    <3> QED
      BY <3>2, <3>3
  <2> QED
    BY <2>1, <2>2 DEF Defines
<1>5. PICK f \in [Node -> Code] : \A e \in Node : f[e] = D[e][f]
  <2> DEFINE V == Code
  <2>1. V # {} /\ Defines(D, Node, V, r)
    BY <1>4 DEF Code
  <2>2. \E f \in [Node -> V] : \A e \in Node : f[e] = D[e][f]
    <3> HIDE DEF D, r, V
    <3> QED
      BY <1>3, <2>1, Recursion
  <2> QED
    BY <2>2
<1>6. Eq(f)
  BY <1>5 DEF Coded, Below
<1>7. Eq(Found)
  <2> HIDE DEF Eq
  <2> QED
    BY <1>6
<1>8. findErrorCode(t) = Found[1]
  BY DEF findErrorCode
<1> HIDE DEF Found
<1>9. FoundBy(t, Found)
  BY <1>7 DEF FoundBy, Coded, Below
<1>10. Found \in [Node -> Code]
  <2> DEFINE T == {e \in Node : Found[e] \in Code}
  <2>1. ASSUME NEW e \in 1..n, \A k \in e+1..n : k \in T PROVE e \in T
    <3>1. \A k \in Node : k > e => k \in T
      BY <1>1, <2>1
    <3>2. Coded(t, Found, e) # {} => Found[Min(Coded(t, Found, e))] \in Code
      BY <1>1, <1>2, <3>1
    <3>3. NoCode \in Code /\ t.code[e] \in Code
      BY <1>1 DEF Code, Tree
    <3> QED
      BY <1>1, <1>9, <3>2, <3>3 DEF FoundBy
  <2>2. 1..n \subseteq T
    <3> HIDE DEF T
    <3> QED
      BY <2>1, Downwards
  <2>3. Found = [e \in Node |-> Found[e]]
    BY <1>7
  <2> QED
    BY <1>1, <2>2, <2>3
<1> QED
  BY <1>8, <1>9, <1>10

(* What is below e with a code, errors that are passed over left out.      *)
Live(t, e) == {k \in Sub(t, e) \ PassedOver(t) : t.code[k] # NoCode}

(* Without a code, e hides nothing of what is below but what is passed     *)
(* over;                                                                   *)
LEMMA LiveBelow ==
  ASSUME NEW t, Tree(t), NEW e \in Node, t.code[e] = NoCode
  PROVE  Live(t, e) = UNION {Live(t, c) : c \in Below(t, e)}
<1>1. PICK n \in Nat \ {0} : Node = 1..n
  BY Nodes
<1>2. CASE FirstJoined(t)[e] = 0
  <2>1. Below(t, e) = Wrapped(t, e)
    BY <1>2 DEF Below
  <2>2. Sub(t, e) = {e} \cup UNION {Sub(t, c) : c \in Wrapped(t, e)}
    BY SubOfWrapped
  <2> QED
    BY <2>1, <2>2 DEF Live
<1>3. CASE FirstJoined(t)[e] # 0
  <2> DEFINE m == FirstJoined(t)[e]
  <2>1. WayDown(t, e, m) /\ m \in Node /\ e <= m
    BY <1>3, JoinedBelow DEF WayDown
  <2>2. Below(t, e) = Wrapped(t, m)
    BY <1>3 DEF Below
  <2>3. Sub(t, e) = (e..m-1) \cup Sub(t, m)
    BY <2>1, SubOfWayDown
  <2>4. Sub(t, m) = {m} \cup UNION {Sub(t, c) : c \in Wrapped(t, m)}
    BY <2>1, SubOfWrapped
  <2>5. m # 0
    BY <1>3
  <2> HIDE DEF m
  <2>6. ASSUME NEW k \in e..m, k # e PROVE k \in PassedOver(t)
    <3>1. k - 1 \in e..m-1 /\ (k - 1) + 1 = k /\ k \in Node \ {1}
      BY <1>1, <2>1, <2>6
    <3>2. ~t.joined[k-1] /\ t.parent[k] = k - 1 /\ FirstJoined(t)[k] = m
      BY <2>1, <3>1 DEF WayDown
    <3> QED
      BY <2>5, <3>1, <3>2 DEF PassedOver
  <2>7. Sub(t, e) = (e..m) \cup UNION {Sub(t, c) : c \in Wrapped(t, m)}
    BY <1>1, <2>1, <2>3, <2>4
  <2>8. \A k \in e..m : k \notin Live(t, e)
    BY <2>6 DEF Live
  <2>9. \A c \in Wrapped(t, m) : Sub(t, c) \subseteq Sub(t, e)
    BY <2>7
  <2>10. \A k \in Live(t, e) : \E c \in Wrapped(t, m) : k \in Sub(t, c)
    BY <2>7, <2>8 DEF Live
  <2> QED
    BY <2>2, <2>9, <2>10 DEF Live
<1> QED
  BY <1>2, <1>3

(* and where findErrorCode looks nothing is passed over.                   *)
LEMMA BelowCounts ==
  ASSUME NEW t, Tree(t), NEW e \in Node
  PROVE  \A c \in Below(t, e) : c \notin PassedOver(t)
<1>1. CASE FirstJoined(t)[e] # 0
  <2>1. t.joined[FirstJoined(t)[e]] /\ FirstJoined(t)[e] \in Node
    BY <1>1, JoinedBelow DEF WayDown
  <2>2. \A c \in Below(t, e) : t.parent[c] = FirstJoined(t)[e]
    BY <1>1, <2>1, WrappedLater DEF Below
  <2> QED
    BY <2>1, <2>2 DEF PassedOver
<1>2. CASE FirstJoined(t)[e] = 0
  <2> SUFFICES ASSUME NEW c \in Wrapped(t, e), c \in PassedOver(t) PROVE FALSE
    BY <1>2 DEF Below
  <2>1. c \in Node /\ t.parent[c] = e
    BY WrappedLater
  <2>2. ~t.joined[e] /\ FirstJoined(t)[c] # 0
    BY <2>1 DEF PassedOver
  <2>3. c = e + 1 /\ Wrapped(t, e) # {}
    BY <2>2, OnlyWrapped
  <2> QED
    BY <1>2, <2>2, <2>3, FirstJoinedSteps
<1> QED
  BY <1>1, <1>2

(* So the code that is found is the first of those that count,             *)
LEMMA FoundFirst ==
  ASSUME NEW t, Tree(t), NEW f \in [Node -> Code], FoundBy(t, f)
  PROVE  \A e \in Node : e \notin PassedOver(t) =>
           f[e] = IF Live(t, e) = {} THEN NoCode ELSE t.code[Min(Live(t, e))]
<1> DEFINE First(e) == f[e] = IF Live(t, e) = {} THEN NoCode ELSE t.code[Min(Live(t, e))]
           T == {e \in Node : e \notin PassedOver(t) => First(e)}
<1>1. PICK n \in Nat \ {0} : Node = 1..n
  BY Nodes
<1>2. \A e : Live(t, e) \in SUBSET Nat
  BY <1>1 DEF Live, Sub
<1>3. \A e : Live(t, e) # {} =>
        Min(Live(t, e)) \in Live(t, e) /\ \A k \in Live(t, e) : Min(Live(t, e)) <= k
  BY <1>2, MinIn
<1>4. ASSUME NEW e \in 1..n, \A k \in e+1..n : k \in T PROVE e \in T
  <2> SUFFICES ASSUME e \notin PassedOver(t) PROVE First(e)
    BY <1>1
  <2> DEFINE coded == Coded(t, f, e)
  <2>1. CASE t.code[e] # NoCode
    <3>1. e \in Live(t, e) /\ \A k \in Live(t, e) : e <= k
      BY <1>1, <2>1 DEF Live, Sub
    <3>2. Min(Live(t, e)) \in Live(t, e) /\ Min(Live(t, e)) <= e
      BY <1>3, <3>1
    <3>3. Min(Live(t, e)) = e
      BY <1>2, <3>1, <3>2
    <3> QED
      BY <1>1, <2>1, <3>1, <3>3 DEF FoundBy
  <2>2. CASE t.code[e] = NoCode
    <3>1. Live(t, e) = UNION {Live(t, c) : c \in Below(t, e)}
      BY <1>1, <2>2, LiveBelow
    <3>2. \A c \in Below(t, e) : c \in Node /\ c > e /\ First(c)
      <4>1. \A c \in Below(t, e) : c \in Node /\ c > e /\ c \notin PassedOver(t)
        BY <1>1, BelowLater, BelowCounts
      <4>2. \A c \in Below(t, e) : c \in e+1..n
        BY <1>1, <4>1
      <4>3. \A c \in Below(t, e) : c \in T
        BY <1>4, <4>2
      <4> QED
        BY <4>1, <4>3
    <3>3. \A c \in Below(t, e) : c \in coded <=> Live(t, c) # {}
      <4>1. \A c, k : k \in Live(t, c) => t.code[k] # NoCode
        BY DEF Live
      <4> QED
        BY <1>3, <3>2, <4>1 DEF Coded
    <3>4. f[e] = IF coded = {} THEN NoCode ELSE f[Min(coded)]
      BY <1>1, <2>2 DEF FoundBy
    <3>5. CASE coded = {}
      <4>1. Live(t, e) = {}
        BY <3>1, <3>3, <3>5
      <4> QED
        BY <3>4, <3>5, <4>1
    <3>6. CASE coded # {}
      <4> DEFINE c == Min(coded)
                 k == Min(Live(t, c))
      <4>1. coded \in SUBSET Nat
        BY <1>1, <3>2 DEF Coded
      <4>2. c \in coded /\ \A d \in coded : c <= d
        <5> HIDE DEF coded
        <5> QED
          BY <3>6, <4>1, MinIn
      <4>3. c \in Below(t, e) /\ Live(t, c) # {}
        BY <3>3, <4>2 DEF Coded
      <4>4. f[c] = t.code[k] /\ k \in Live(t, c) /\ \A l \in Live(t, c) : k <= l
        BY <1>3, <3>2, <4>3
      <4>5. k \in Live(t, e)
        BY <3>1, <4>3, <4>4
      <4> HIDE DEF c, k
      <4>6. ASSUME NEW l \in Live(t, e) PROVE k <= l
        <5>1. PICK d \in Below(t, e) : l \in Live(t, d)
          BY <3>1
        <5>2. d \in coded /\ c <= d /\ d \in Node /\ c \in Node
          BY <3>2, <3>3, <4>2, <4>3, <5>1
        <5>3. CASE c = d
          BY <4>4, <5>1, <5>3
        <5>4. CASE c < d
          <6>1. PICK m \in Node : Below(t, e) = Wrapped(t, m)
            <7>1. FirstJoined(t)[e] # 0 => FirstJoined(t)[e] \in Node
              BY <1>1, JoinedBelow DEF WayDown
            <7> QED
              BY <1>1, <7>1 DEF Below
          <6>2. k \in Sub(t, c) /\ l \in Sub(t, d)
            BY <4>4, <5>1 DEF Live
          <6>3. k < l
            BY <4>3, <5>1, <5>4, <6>1, <6>2, SubsInOrder
          <6> QED
            BY <1>2, <4>5, <6>3
        <5> QED
          BY <1>1, <5>2, <5>3, <5>4
      <4>7. Min(Live(t, e)) = k
        <5>1. Min(Live(t, e)) \in Live(t, e) /\ Min(Live(t, e)) <= k
          BY <1>3, <4>5
        <5>2. k <= Min(Live(t, e)) /\ k \in Nat /\ Min(Live(t, e)) \in Nat
          BY <1>2, <4>5, <4>6, <5>1
        <5> QED
          BY <5>1, <5>2
      <4> QED
        BY <3>4, <3>6, <4>4, <4>5, <4>7 DEF c
    <3> QED
      BY <3>5, <3>6
  <2> QED
    BY <2>1, <2>2
<1>5. 1..n \subseteq T
  <2> HIDE DEF T
  <2> QED
    BY <1>4, Downwards
<1> QED
  BY <1>1, <1>5

(* and an error is classed by it.                                          *)
LEMMA ClassifiedByFirst ==
  ASSUME NEW t, Tree(t)
  PROVE  ClassifyCodexError(t) = ClassOf(t)
<1>1. PICK n \in Nat \ {0} : Node = 1..n
  BY Nodes
<1>2. PICK f \in [Node -> Code] : FoundBy(t, f) /\ findErrorCode(t) = f[1]
  BY Finding
<1>3. 1 \in Node /\ 1 \notin PassedOver(t)
  BY <1>1 DEF PassedOver
<1>4. Sub(t, 1) = Node
  <2>1. \A k \in Node : 1 <= k /\ \A i \in 2..k : t.parent[i] >= 1
    <3> SUFFICES ASSUME NEW k \in Node, NEW i \in 2..k PROVE t.parent[i] >= 1
      BY <1>1
    <3>1. i \in Node \ {1}
      BY <1>1
    <3>2. t.parent[i] \in 1..i-1
      BY <3>1 DEF Tree, IsTree
    <3> QED
      BY <1>1, <3>1, <3>2
  <2>2. 1 + 1 = 2
    OBVIOUS
  <2> QED
    BY <2>1, <2>2 DEF Sub
<1> DEFINE coded == {e \in Node \ PassedOver(t) : t.code[e] # NoCode}
<1>5. Live(t, 1) = coded
  BY <1>4 DEF Live
<1>6. findErrorCode(t) = IF coded = {} THEN NoCode ELSE t.code[Min(coded)]
  <2>1. f[1] = IF Live(t, 1) = {} THEN NoCode ELSE t.code[Min(Live(t, 1))]
    BY <1>2, <1>3, FoundFirst
  <2> HIDE DEF coded
  <2> QED
    BY <1>2, <1>5, <2>1
<1>7. Sentinel(NoCode) = "generic"
  BY ClassifierAssumption DEF Sentinel
<1> HIDE DEF coded
<1>8. ClassOf(t) = IF coded = {} THEN "generic" ELSE Sentinel(t.code[Min(coded)])
  BY DEF ClassOf, coded
<1> QED
  BY <1>6, <1>7, <1>8 DEF ClassifyCodexError
-----------------------------------------------------------------------------
(* Paths: url.Parse puts the parts of the segments one after the other.    *)
LEMMA FlattenRuns ==
  ASSUME NEW S, NEW s \in Seq(Seq(S))
  PROVE  \E f \in [0..Len(s) -> Seq(S)] :
           /\ f[0] = <<>> /\ f[Len(s)] = FlattenSeq(s)
           /\ \A k \in 1..Len(s) : f[k] = f[k-1] \o s[k]
<1> DEFINE n == Len(s)
           V == Seq(S)
           Eq(f) == f = [i \in 1..n |-> IF i = 1 THEN s[i] ELSE f[i-1] \o s[i]]
           flatten == CHOOSE f : Eq(f)
           D == [i \in 1..n |-> [g \in [1..n -> V] |-> IF i = 1 THEN s[i] ELSE g[i-1] \o s[i]]]
           r == [i \in 1..n |-> i]
           f0 == [k \in 0..n |-> IF k = 0 THEN <<>> ELSE flatten[k]]
<1>1. n \in Nat /\ \A i \in 1..n : s[i] \in V
  OBVIOUS
<1>2. \A x, y \in V : x \o y \in V
  OBVIOUS
<1>3. V # {} /\ <<>> \in V /\ \A x \in V : <<>> \o x = x
  OBVIOUS
<1> HIDE DEF n
<1>4. r \in [1..n -> 0..n]
  BY <1>1
<1>5. Defines(D, 1..n, V, r)
  <2> HIDE DEF V
  <2>1. ASSUME NEW i \in 1..n, NEW g \in [1..n -> V] PROVE D[i][g] \in V
    <3>1. i # 1 => i - 1 \in 1..n
      BY <1>1
    <3> QED
      BY <1>1, <1>2, <3>1
  <2>2. ASSUME NEW i \in 1..n, NEW g \in [1..n -> V], NEW h \in [1..n -> V],
               \A k \in 1..n : r[k] < r[i] => g[k] = h[k]
        PROVE  D[i][g] = D[i][h]
    <3>1. i # 1 => i - 1 \in 1..n /\ r[i-1] < r[i]
      BY <1>1
    <3> QED
      BY <2>2, <3>1
  <2> QED
    BY <2>1, <2>2 DEF Defines
<1>6. PICK f \in [1..n -> V] : \A i \in 1..n : f[i] = D[i][f]
  <2> DEFINE P == 1..n
  <2>1. n \in Nat /\ V # {} /\ r \in [P -> 0..n] /\ Defines(D, P, V, r)
    BY <1>1, <1>3, <1>4, <1>5
  <2>2. \E f \in [P -> V] : \A i \in P : f[i] = D[i][f]
    <3> HIDE DEF D, r, V, P
    <3> QED
      BY <2>1, Recursion
  <2> QED
    BY <2>2
<1>7. Eq(f)
  <2> HIDE DEF V
  <2> QED
    BY <1>6
<1>8. Eq(flatten)
  <2> HIDE DEF Eq
  <2> QED
    BY <1>7
<1>9. FlattenSeq(s) = IF n = 0 THEN s ELSE flatten[n]
  BY DEF FlattenSeq, n
<1> HIDE DEF flatten
<1>10. \A k \in 1..n : flatten[k] = IF k = 1 THEN s[k] ELSE flatten[k-1] \o s[k]
  BY <1>8
<1>11. \A k \in 1..n : f0[k] = f0[k-1] \o s[k]
  <2> SUFFICES ASSUME NEW k \in 1..n PROVE f0[k] = f0[k-1] \o s[k]
    OBVIOUS
  <2>1. k \in 0..n /\ k - 1 \in 0..n /\ k # 0
    BY <1>1
  <2>2. CASE k = 1
    BY <1>1, <1>3, <1>10, <2>1, <2>2, SMTT(20)
  <2>3. CASE k # 1
    <3>1. k - 1 # 0
      BY <2>3
    <3> QED
      BY <1>10, <2>1, <2>3, <3>1
  <2> QED
    BY <2>2, <2>3
<1> DEFINE T == {k \in 0..n : f0[k] \in V}
<1>12. f0[0] = <<>> /\ 0 \in T
  BY <1>1, <1>3
<1>13. 0..n \subseteq T
  <2>1. ASSUME NEW k \in 1..n, k - 1 \in T PROVE k \in T
    <3> HIDE DEF f0, V
    <3>1. f0[k-1] \in V /\ s[k] \in V /\ k \in 0..n
      BY <1>1, <2>1
    <3>2. f0[k-1] \o s[k] \in V
      BY <1>2, <3>1
    <3> QED
      BY <1>11, <3>1, <3>2
  <2> HIDE DEF T
  <2> QED
    BY <1>1, <1>12, <2>1, Upwards
<1>14. f0 \in [0..n -> V]
  BY <1>13
<1>15. f0[n] = FlattenSeq(s)
  <2>1. n = 0 => s = <<>>
    BY DEF n
  <2> QED
    BY <1>1, <1>9, <2>1
<1> HIDE DEF f0
<1> QED
  BY <1>11, <1>12, <1>14, <1>15 DEF n

LEMMA FlattenAppend ==
  ASSUME NEW S, NEW s \in Seq(Seq(S)), NEW x \in Seq(S)
  PROVE  FlattenSeq(Append(s, x)) = FlattenSeq(s) \o x
<1> DEFINE n == Len(s)
           s2 == Append(s, x)
<1>1. n \in Nat /\ s2 \in Seq(Seq(S)) /\ Len(s2) = n + 1 /\ s2[n+1] = x
      /\ \A k \in 1..n : s2[k] = s[k]
  OBVIOUS
<1> HIDE DEF s2
<1>2. PICK f \in [0..n -> Seq(S)] :
           /\ f[0] = <<>> /\ f[n] = FlattenSeq(s)
           /\ \A k \in 1..n : f[k] = f[k-1] \o s[k]
  BY FlattenRuns
<1>3. PICK g \in [0..Len(s2) -> Seq(S)] :
           /\ g[0] = <<>> /\ g[Len(s2)] = FlattenSeq(s2)
           /\ \A k \in 1..Len(s2) : g[k] = g[k-1] \o s2[k]
  BY <1>1, FlattenRuns
<1> HIDE DEF n
<1> DEFINE T == {k \in 0..n : f[k] = g[k]}
<1>4. 0 \in T
  BY <1>1, <1>2, <1>3
<1>5. ASSUME NEW k \in 1..n, k - 1 \in T PROVE k \in T
  <2>1. k \in 0..n /\ k \in 1..Len(s2) /\ s2[k] = s[k]
    BY <1>1, SMTT(20)
  <2>2. f[k] = f[k-1] \o s[k] /\ g[k] = g[k-1] \o s2[k]
    BY <1>2, <1>3, <2>1
  <2> QED
    BY <1>5, <2>1, <2>2
<1>6. 0..n \subseteq T
  <2> HIDE DEF T
  <2> QED
    BY <1>1, <1>4, <1>5, Upwards
<1>7. f[n] = g[n] /\ g[n+1] = g[(n+1)-1] \o s2[n+1]
  <2>1. n + 1 \in 1..Len(s2) /\ n \in 0..n
    BY <1>1
  <2> QED
    BY <1>3, <1>6, <2>1
<1>8. (n + 1) - 1 = n
  BY <1>1
<1> QED
  BY <1>1, <1>2, <1>3, <1>7, <1>8 DEF s2

LEMMA FlattenSingles ==
  ASSUME NEW S, NEW p \in Seq(S)
  PROVE  /\ [i \in DOMAIN p |-> <<p[i]>>] \in Seq(Seq(S))
         /\ FlattenSeq([i \in DOMAIN p |-> <<p[i]>>]) = p
<1> DEFINE n == Len(p)
           s == [i \in DOMAIN p |-> <<p[i]>>]
<1>1. n \in Nat /\ s \in Seq(Seq(S)) /\ Len(s) = n /\ \A k \in 1..n : s[k] = <<p[k]>>
  <2>1. n \in Nat /\ DOMAIN p = 1..n /\ \A k \in 1..n : <<p[k]>> \in Seq(S)
    OBVIOUS
  <2>2. s \in [1..n -> Seq(S)]
    BY <2>1
  <2>3. s \in Seq(Seq(S))
    BY <2>1, <2>2
  <2> QED
    BY <2>1, <2>3
<1> HIDE DEF s
<1>2. PICK f \in [0..n -> Seq(S)] :
           /\ f[0] = <<>> /\ f[n] = FlattenSeq(s)
           /\ \A k \in 1..n : f[k] = f[k-1] \o s[k]
  <2>1. PICK f \in [0..Len(s) -> Seq(S)] :
           /\ f[0] = <<>> /\ f[Len(s)] = FlattenSeq(s)
           /\ \A k \in 1..Len(s) : f[k] = f[k-1] \o s[k]
    BY <1>1, FlattenRuns
  <2> QED
    BY <1>1, <2>1
<1> DEFINE T == {k \in 0..n : f[k] = SubSeq(p, 1, k)}
<1>3. 0 \in T
  BY <1>1, <1>2
<1>4. ASSUME NEW k \in 1..n, k - 1 \in T PROVE k \in T
  <2>1. f[k] = SubSeq(p, 1, k-1) \o <<p[k]>>
    BY <1>1, <1>2, <1>4
  <2>2. SubSeq(p, 1, k-1) \o <<p[k]>> = SubSeq(p, 1, k)
    OBVIOUS
  <2> QED
    BY <2>1, <2>2
<1>5. 0..n \subseteq T
  <2> HIDE DEF T, n
  <2> QED
    BY <1>1, <1>3, <1>4, Upwards
<1>6. f[n] = SubSeq(p, 1, n)
  <2>1. n \in 0..n
    BY <1>1
  <2>2. n \in T
    <3> HIDE DEF T, n
    <3> QED
      BY <1>5, <2>1
  <2> QED
    BY <2>2
<1>7. SubSeq(p, 1, n) = p
  OBVIOUS
<1> QED
  BY <1>1, <1>2, <1>6, <1>7 DEF s

(* The segments of a path, and those that path.Clean keeps.                *)
Segment == STRING \cup {"", "models"}
Name == Segment \ {"", ".", ".."}

LEMMA Appended ==
  ASSUME NEW S, NEW p \in Seq(S), NEW x \in S
  PROVE  /\ Append(p, x) \in Seq(S) /\ Len(Append(p, x)) = Len(p) + 1
         /\ Append(p, x)[Len(p)+1] = x /\ \A j \in 1..Len(p) : Append(p, x)[j] = p[j]
         /\ SubSeq(Append(p, x), 1, Len(p) + 1) = Append(p, x)
         /\ \A m \in 0..Len(p) : SubSeq(Append(p, x), 1, m) = SubSeq(p, 1, m)
  OBVIOUS

LEMMA Beginnings ==
  ASSUME NEW S, NEW p \in Seq(S)
  PROVE  /\ Len(p) \in Nat /\ \A j \in 1..Len(p) : p[j] \in S
         /\ \A m \in 0..Len(p) : SubSeq(p, 1, m) \in Seq(S)
         /\ SubSeq(p, 1, 0) = <<>> /\ SubSeq(p, 1, Len(p)) = p
         /\ \A k \in 1..Len(p) : Append(SubSeq(p, 1, k-1), p[k]) = SubSeq(p, 1, k)
  OBVIOUS

LEMMA Widened ==
  ASSUME NEW S, NEW T, S \subseteq T, NEW p \in Seq(S)
  PROVE  p \in Seq(T)
  OBVIOUS

(* A step of path.Clean.                                                   *)
Cleaned(clean, s) ==
  CASE s \in {"", "."} -> clean
    [] s = ".."        -> SubSeq(clean, 1, Len(clean) - 1)
    [] OTHER           -> Append(clean, s)

LEMMA CleanRuns ==
  ASSUME NEW p \in Seq(Segment)
  PROVE  \E f \in [0..Len(p) -> Seq(Name)] :
           /\ f[0] = <<>> /\ f[Len(p)] = Clean(p)
           /\ \A k \in 1..Len(p) : f[k] = Cleaned(f[k-1], p[k])
<1> DEFINE n == Len(p)
           V == Seq(Name)
           Eq(f) == f = [S \in SUBSET DOMAIN p |->
                           IF S = {} THEN <<>> ELSE Cleaned(f[S \ {Max(S)}], p[Max(S)])]
           iter == CHOOSE f : Eq(f)
           D == [i \in 1..n |-> [v \in V |-> Cleaned(v, p[i])]]
<1>1. n \in Nat /\ DOMAIN p = 1..n /\ \A i \in 1..n : p[i] \in Segment
  OBVIOUS
<1>2. Clean(p) = iter[1..n]
  BY <1>1 DEF Clean, FoldLeft, MapThenFoldSet, Cleaned
<1> HIDE DEF n
<1>3. \A v \in V, i \in 1..n : D[i][v] = Cleaned(v, p[i])
  OBVIOUS
<1>4. Steps(D, n, V)
  <2>1. ASSUME NEW v \in V, NEW s \in Segment PROVE Cleaned(v, s) \in V
    <3>1. CASE s \in {"", "."}
      BY <3>1 DEF Cleaned
    <3>2. CASE s = ".."
      <4>1. SubSeq(v, 1, Len(v) - 1) \in V
        OBVIOUS
      <4> QED
        BY <3>2, <4>1 DEF Cleaned
    <3>3. CASE s \in Name
      <4>1. Append(v, s) \in V
        BY <3>3, Appended
      <4> QED
        BY <3>3, <4>1 DEF Cleaned, Name
    <3> QED
      BY <3>1, <3>2, <3>3 DEF Name
  <2> HIDE DEF D, V
  <2> QED
    BY <1>1, <1>3, <2>1 DEF Steps
<1>5. <<>> \in V
  OBVIOUS
<1> HIDE DEF D
<1>6. Eq(iter)
  <2> DEFINE base == <<>>
  <2>1. n \in Nat /\ base \in V /\ Steps(D, n, V)
    BY <1>1, <1>4, <1>5
  <2>2. \E f \in [SUBSET (1..n) -> V] : Folds(f, D, n, base)
    <3> HIDE DEF V, base
    <3> QED
      BY <2>1, FoldWitness
  <2>3. PICK f \in [SUBSET (1..n) -> V] : Folds(f, D, n, base)
    BY <2>2
  <2> HIDE DEF V
  <2>4. ASSUME NEW S \in SUBSET (1..n), S # {}
        PROVE  D[Max(S)][f[S \ {Max(S)}]] = Cleaned(f[S \ {Max(S)}], p[Max(S)])
    <3>1. Max(S) \in 1..n /\ f[S \ {Max(S)}] \in V
      BY <1>1, <2>4, MaxOf
    <3> QED
      BY <1>3, <3>1
  <2>5. f = [S \in SUBSET (1..n) |->
              IF S = {} THEN <<>> ELSE Cleaned(f[S \ {Max(S)}], p[Max(S)])]
    BY <2>3, <2>4 DEF Folds
  <2>6. Eq(f)
    BY <1>1, <2>5
  <2> HIDE DEF Eq
  <2> QED
    BY <2>6
<1>7. \A S \in SUBSET (1..n) :
         iter[S] = IF S = {} THEN <<>> ELSE Cleaned(iter[S \ {Max(S)}], p[Max(S)])
  BY <1>1, <1>6
<1> HIDE DEF iter
<1>8. ASSUME NEW S \in SUBSET (1..n), S # {}, iter[S \ {Max(S)}] \in V
      PROVE  iter[S] = D[Max(S)][iter[S \ {Max(S)}]]
  <2> HIDE DEF V
  <2>1. Max(S) \in 1..n
    BY <1>1, <1>8, MaxOf
  <2> QED
    BY <1>3, <1>7, <1>8, <2>1
<1>9. PICK f \in [0..n -> V] : Runs(f, D, n, <<>>) /\ f[n] = iter[1..n]
  <2> DEFINE base == <<>>
  <2>1. FoldsWithin(iter, D, n, base, V)
    BY <1>7, <1>8 DEF FoldsWithin
  <2>2. n \in Nat /\ base \in V /\ Steps(D, n, V)
    BY <1>1, <1>4, <1>5
  <2>3. \E f \in [0..n -> V] : Runs(f, D, n, base) /\ f[n] = iter[1..n]
    <3> HIDE DEF V, base
    <3> QED
      BY <2>1, <2>2, FoldRuns
  <2> QED
    BY <2>3
<1>10. \A k \in 1..n : f[k] = Cleaned(f[k-1], p[k])
  <2> HIDE DEF V
  <2>1. \A k \in 1..n : f[k-1] \in V
    BY <1>1
  <2> QED
    BY <1>3, <1>9, <2>1 DEF Runs
<1> QED
  BY <1>2, <1>9, <1>10 DEF n, Runs

(* A clean path has only names, and stays as it is.                        *)
LEMMA CleanNames ==
  ASSUME NEW p \in Seq(Segment)
  PROVE  Clean(p) \in Seq(Name)
<1>1. PICK f \in [0..Len(p) -> Seq(Name)] : f[Len(p)] = Clean(p)
  BY CleanRuns
<1>2. Len(p) \in 0..Len(p)
  OBVIOUS
<1> QED
  BY <1>1, <1>2

LEMMA CleanStays ==
  ASSUME NEW p \in Seq(Name)
  PROVE  Clean(p) = p
<1> DEFINE n == Len(p)
<1>1. n \in Nat /\ p \in Seq(Segment) /\ \A k \in 1..n : p[k] \in Name
  <2> DEFINE V == Segment
             W == Name
  <2>1. W \subseteq V
    BY DEF Name
  <2>2. p \in Seq(V)
    <3> HIDE DEF V, W
    <3>1. p \in Seq(W)
      BY DEF W
    <3> QED
      BY <2>1, <3>1, Widened
  <2>3. n \in Nat /\ \A k \in 1..n : p[k] \in Name
    OBVIOUS
  <2> QED
    BY <2>2, <2>3
<1>2. PICK f \in [0..n -> Seq(Name)] :
           /\ f[0] = <<>> /\ f[n] = Clean(p)
           /\ \A k \in 1..n : f[k] = Cleaned(f[k-1], p[k])
  BY <1>1, CleanRuns
<1> DEFINE U == {k \in 0..n : f[k] = SubSeq(p, 1, k)}
<1>3. 0 \in U
  BY <1>1, <1>2
<1>4. ASSUME NEW k \in 1..n, k - 1 \in U PROVE k \in U
  <2>1. f[k] = Append(f[k-1], p[k])
    BY <1>1, <1>2 DEF Cleaned, Name
  <2>2. Append(SubSeq(p, 1, k-1), p[k]) = SubSeq(p, 1, k)
    BY Beginnings
  <2>3. f[k-1] = SubSeq(p, 1, k-1) /\ k \in 0..n
    BY <1>1, <1>4
  <2> QED
    BY <2>1, <2>2, <2>3
<1>5. 0..n \subseteq U
  <2> HIDE DEF U, n
  <2> QED
    BY <1>1, <1>3, <1>4, Upwards
<1>6. n \in U
  <2> HIDE DEF U
  <2> QED
    BY <1>1, <1>5
<1>7. SubSeq(p, 1, n) = p
  OBVIOUS
<1> QED
  BY <1>2, <1>6, <1>7

(* p without the e at its end.                                             *)
Trimmed(p, e) ==
  SubSeq(p, 1, Min({i \in 0..Len(p) : \A j \in i+1..Len(p) : p[j] = e}))

LEMMA TrimAppend ==
  ASSUME NEW S, NEW p \in Seq(S), NEW e \in S
  PROVE  /\ Trimmed(Append(p, e), e) = Trimmed(p, e)
         /\ \A s \in S \ {e} : Trimmed(Append(p, s), e) = Append(p, s)
         /\ Trimmed(p, e) \in Seq(S)
<1> DEFINE n == Len(p)
           Kept(q) == {i \in 0..Len(q) : \A j \in i+1..Len(q) : q[j] = e}
<1>1. n \in Nat /\ \A m \in 0..n : SubSeq(p, 1, m) \in Seq(S)
  OBVIOUS
<1>2. \A q : Trimmed(q, e) = SubSeq(q, 1, Min(Kept(q)))
  BY DEF Trimmed
<1>3. Kept(p) \in SUBSET Nat /\ n \in Kept(p) /\ Kept(p) \subseteq 0..n
  BY <1>1
<1>4. Min(Kept(p)) \in Kept(p) /\ \A k \in Kept(p) : Min(Kept(p)) <= k
  <2> HIDE DEF Kept
  <2> QED
    BY <1>3, MinIn
<1>5. Min(Kept(p)) \in 0..n
  <2> HIDE DEF Kept
  <2> QED
    BY <1>3, <1>4
<1>6. Trimmed(p, e) \in Seq(S)
  <2> HIDE DEF Kept
  <2> QED
    BY <1>1, <1>2, <1>5
<1>7. Trimmed(Append(p, e), e) = Trimmed(p, e)
  <2> DEFINE q == Append(p, e)
  <2>1. /\ Len(q) = n + 1 /\ q[n+1] = e /\ \A j \in 1..n : q[j] = p[j]
        /\ \A m \in 0..n : SubSeq(q, 1, m) = SubSeq(p, 1, m)
    BY Appended
  <2> HIDE DEF q
  <2>2. Kept(q) = Kept(p) \cup {n + 1}
    <3>1. \A i \in 0..n : i+1..n+1 = (i+1..n) \cup {n + 1}
      BY <1>1
    <3>2. \A i \in 0..n : (\A j \in i+1..n+1 : q[j] = e) <=> \A j \in i+1..n : p[j] = e
      BY <1>1, <2>1, <3>1
    <3>3. n+2..n+1 = {} /\ 0..n+1 = (0..n) \cup {n + 1}
      BY <1>1
    <3>4. (n + 1) + 1 = n + 2
      BY <1>1
    <3> HIDE DEF n
    <3>5. Kept(q) = {i \in 0..n+1 : \A j \in i+1..n+1 : q[j] = e}
      BY <2>1
    <3>6. Kept(p) = {i \in 0..n : \A j \in i+1..n : p[j] = e}
      BY DEF n
    <3> QED
      BY <3>2, <3>3, <3>4, <3>5, <3>6
  <2>3. Min(Kept(q)) = Min(Kept(p))
    <3> DEFINE K == Kept(p)
               L == Kept(q)
    <3> HIDE DEF Kept
    <3>1. L \in SUBSET Nat /\ L # {} /\ L = K \cup {n + 1} /\ K \in SUBSET Nat
      BY <1>1, <1>3, <2>2
    <3>2. Min(K) \in K /\ n \in K /\ \A k \in K : Min(K) <= k
      BY <1>3, <1>4
    <3> HIDE DEF K, L, n
    <3>3. Min(L) \in L /\ \A k \in L : Min(L) <= k
      BY <3>1, MinIn
    <3>4. Min(L) \in Nat /\ Min(K) \in Nat
      BY <3>1, <3>2, <3>3
    <3>5. n \in Nat
      BY <1>1
    <3>6. Min(L) <= Min(K)
      BY <3>1, <3>2, <3>3
    <3>7. Min(K) <= Min(L)
      <4>1. CASE Min(L) \in K
        BY <3>2, <4>1
      <4>2. CASE Min(L) = n + 1
        <5>1. Min(K) <= n
          BY <3>2
        <5> QED
          BY <3>4, <3>5, <4>2, <5>1
      <4> QED
        BY <3>1, <3>3, <4>1, <4>2
    <3> QED
      BY <3>4, <3>6, <3>7 DEF K, L
  <2> HIDE DEF Kept
  <2> QED
    BY <1>2, <1>5, <2>1, <2>3 DEF q
<1>8. ASSUME NEW s \in S \ {e} PROVE Trimmed(Append(p, s), e) = Append(p, s)
  <2> DEFINE q == Append(p, s)
  <2>1. Len(q) = n + 1 /\ q[n+1] = s /\ SubSeq(q, 1, n + 1) = q /\ s # e
    BY Appended
  <2> HIDE DEF q
  <2>2. Kept(q) = {n + 1}
    BY <1>1, <2>1
  <2>3. Min({n + 1}) = n + 1
    <3>1. n + 1 \in Nat
      BY <1>1
    <3> QED
      BY <3>1 DEF Min
  <2> HIDE DEF Kept
  <2> QED
    BY <1>2, <2>1, <2>2, <2>3 DEF q
<1> QED
  BY <1>6, <1>7, <1>8

LEMMA Names ==
  "" \in Segment /\ "models" \in Name /\ "models" # "" /\ Name \subseteq Segment
  BY DEF Name, Segment

LEMMA Fronts ==
  ASSUME NEW S, NEW p \in Seq(S)
  PROVE  /\ p # <<>> => Front(p) \in Seq(S)
         /\ \A x \in S : Front(Append(p, x)) = p /\ Append(p, x) # <<>>
<1>1. p # <<>> => Front(p) \in Seq(S)
  BY DEF Front
<1>2. ASSUME NEW x \in S PROVE Front(Append(p, x)) = p /\ Append(p, x) # <<>>
  <2> DEFINE q == Append(p, x)
  <2>1. Len(q) = Len(p) + 1 /\ SubSeq(q, 1, Len(p)) = p /\ Len(p) \in Nat
    BY Appended
  <2> HIDE DEF q
  <2>2. q # <<>>
    BY <2>1
  <2>3. Len(q) - 1 = Len(p)
    BY <2>1
  <2> QED
    BY <2>1, <2>2, <2>3 DEF Front, q
<1> QED
  BY <1>1, <1>2

LEMMA TrimmedPath ==
  ASSUME NEW p \in Seq(Segment)
  PROVE  /\ TrimRight(p) \in Seq(Segment)
         /\ TrimRight(Append(p, "")) = TrimRight(p)
         /\ \A s \in Segment \ {""} : TrimRight(Append(p, s)) = Append(p, s)
<1> DEFINE e == ""
           V == Segment
<1>1. \A q : TrimRight(q) = Trimmed(q, e)
  BY DEF TrimRight, Trimmed
<1>2. p \in Seq(V) /\ e \in V
  BY Names, Zenon
<1> SUFFICES /\ TrimRight(p) \in Seq(V)
             /\ TrimRight(Append(p, e)) = TrimRight(p)
             /\ \A s \in V \ {e} : TrimRight(Append(p, s)) = Append(p, s)
  OBVIOUS
<1> HIDE DEF e, V
<1>3. /\ Trimmed(p, e) \in Seq(V)
      /\ Trimmed(Append(p, e), e) = Trimmed(p, e)
      /\ \A s \in V \ {e} : Trimmed(Append(p, s), e) = Append(p, s)
  BY <1>2, TrimAppend
<1> QED
  BY <1>1, <1>3

(* The models path has a models path of its own, itself.                   *)
LEMMA ModelsPath ==
  ASSUME NEW p \in Seq(Segment)
  PROVE  LET mp == modelsPath(p)  t == TrimRight(p) IN
         /\ mp \in Seq(Segment) /\ modelsPath(mp) = mp
         /\ t # <<>> /\ Clean(t) = t => mp = Append(Front(t), "models")
<1> DEFINE last == "models"
           V == Segment
           W == Name
           t == TrimRight(p)
           c == IF t = <<>> THEN <<>> ELSE Clean(Front(t))
           mp == modelsPath(p)
<1>1. last \in W /\ last \in V /\ W \subseteq V /\ last # ""
  BY Names, Zenon
<1>2. t \in Seq(V)
  BY <1>1, TrimmedPath
<1>3. \A q : modelsPath(q) = IF TrimRight(q) = <<>> THEN <<last>>
                             ELSE Append(Clean(Front(TrimRight(q))), last)
  BY DEF modelsPath
<1>4. Append(<<>>, last) = <<last>>
  OBVIOUS
<1>5. \A q \in Seq(V) : Clean(q) \in Seq(W)
  BY CleanNames
<1>6. \A q \in Seq(W) : Clean(q) = q
  BY CleanStays
<1>7. \A q \in Seq(V) : TrimRight(Append(q, last)) = Append(q, last)
  BY <1>1, TrimmedPath
<1> SUFFICES /\ mp \in Seq(V) /\ modelsPath(mp) = mp
             /\ t # <<>> /\ Clean(t) = t => mp = Append(Front(t), last)
  OBVIOUS
<1> HIDE DEF last, V, W, t, mp
<1>8. c \in Seq(W)
  <2>1. <<>> \in Seq(W)
    OBVIOUS
  <2>2. t # <<>> => Front(t) \in Seq(V)
    BY <1>2, Fronts
  <2> QED
    BY <1>5, <2>1, <2>2
<1>9. mp = Append(c, last)
  BY <1>3, <1>4 DEF mp, t
<1> HIDE DEF c
<1>10. c \in Seq(V)
  BY <1>1, <1>8, Widened
<1>11. Append(c, last) \in Seq(V)
  BY <1>1, <1>10, Appended
<1>12. Front(Append(c, last)) = c /\ Append(c, last) # <<>>
  BY <1>1, <1>10, Fronts
<1>13. modelsPath(mp) = mp
  BY <1>3, <1>6, <1>7, <1>8, <1>9, <1>10, <1>12
<1>14. ASSUME t # <<>>, Clean(t) = t PROVE mp = Append(Front(t), last)
  <2>1. t \in Seq(W)
    BY <1>2, <1>5, <1>14
  <2>2. Clean(Front(t)) = Front(t)
    BY <1>6, <1>14, <2>1, Fronts
  <2> QED
    BY <1>9, <1>14, <2>2 DEF c
<1> QED
  BY <1>9, <1>11, <1>13, <1>14

LEMMA AppendedTwice ==
  ASSUME NEW S, NEW p \in Seq(S), NEW x \in S
  PROVE  Append(p, x) \in Seq(S) /\ p \o <<x, x>> = Append(Append(p, x), x)
<1> DEFINE q == Append(Append(p, x), x)
           r == p \o <<x, x>>
<1>1. Append(p, x) \in Seq(S) /\ q \in Seq(S) /\ r \in Seq(S)
  OBVIOUS
<1>2. Len(q) = Len(p) + 2 /\ Len(r) = Len(p) + 2
  OBVIOUS
<1>3. \A i \in 1..Len(p)+2 : r[i] = q[i]
  OBVIOUS
<1> HIDE DEF q, r
<1>4. r = q
  BY <1>1, <1>2, <1>3
<1> QED
  BY <1>1, <1>4 DEF q, r

LEMMA FlattenTwo ==
  ASSUME NEW V, NEW e \in V, NEW p \in Seq(Seq(V))
  PROVE  /\ FlattenSeq(p) \in Seq(V)
         /\ FlattenSeq(p \o <<<<e>>, <<e>>>>) = Append(Append(FlattenSeq(p), e), e)
<1> DEFINE f == FlattenSeq(p)
<1>1. <<e>> \in Seq(V)
  OBVIOUS
<1>2. f \in Seq(V)
  <2>1. PICK g \in [0..Len(p) -> Seq(V)] : g[Len(p)] = FlattenSeq(p)
    BY FlattenRuns
  <2>2. Len(p) \in 0..Len(p)
    OBVIOUS
  <2> QED
    BY <2>1, <2>2
<1>3. /\ p \o <<<<e>>, <<e>>>> = Append(Append(p, <<e>>), <<e>>)
      /\ Append(p, <<e>>) \in Seq(Seq(V))
  BY <1>1, AppendedTwice
<1>4. FlattenSeq(Append(Append(p, <<e>>), <<e>>)) = (f \o <<e>>) \o <<e>>
  <2>1. FlattenSeq(Append(p, <<e>>)) = f \o <<e>>
    BY <1>1, FlattenAppend
  <2>2. FlattenSeq(Append(Append(p, <<e>>), <<e>>)) = FlattenSeq(Append(p, <<e>>)) \o <<e>>
    BY <1>1, <1>3, FlattenAppend
  <2> QED
    BY <2>1, <2>2
<1> HIDE DEF f
<1>5. f \o <<e>> = Append(f, e) /\ Append(f, e) \in Seq(V)
      /\ Append(f, e) \o <<e>> = Append(Append(f, e), e)
  BY <1>2
<1> QED
  BY <1>2, <1>3, <1>4, <1>5 DEF f

(* Slashes at the end of a raw path are trimmed.                           *)
LEMMA SlashesTrimmed ==
  ASSUME NEW p \in Seq(Seq(Segment))
  PROVE  /\ FlattenSeq(p) \in Seq(Segment)
         /\ TrimRight(FlattenSeq(p \o <<<<"">>, <<"">>>>)) = TrimRight(FlattenSeq(p))
<1>1. /\ FlattenSeq(p) \in Seq(Segment)
      /\ FlattenSeq(p \o <<<<"">>, <<"">>>>) = Append(Append(FlattenSeq(p), ""), "")
  <2> DEFINE e == ""
             V == Segment
  <2>1. p \in Seq(Seq(V)) /\ e \in V
    BY Names, Zenon
  <2>2. /\ FlattenSeq(p) \in Seq(V)
        /\ FlattenSeq(p \o <<<<e>>, <<e>>>>) = Append(Append(FlattenSeq(p), e), e)
    <3> HIDE DEF e, V
    <3> QED
      BY <2>1, FlattenTwo
  <2> QED
    BY <2>2
<1> DEFINE f == FlattenSeq(p)
<1>2. f \in Seq(Segment) /\ Append(f, "") \in Seq(Segment)
  <2> DEFINE e == ""
             V == Segment
  <2>1. f \in Seq(V) /\ e \in V
    BY <1>1, Names, Zenon
  <2>2. Append(f, e) \in Seq(V)
    <3> HIDE DEF e, V, f
    <3> QED
      BY <2>1, Appended
  <2> QED
    BY <2>1, <2>2
<1> HIDE DEF f
<1>3. TrimRight(Append(Append(f, ""), "")) = TrimRight(Append(f, ""))
  BY <1>2, TrimmedPath
<1>4. TrimRight(Append(f, "")) = TrimRight(f)
  BY <1>2, TrimmedPath
<1> QED
  BY <1>1, <1>3, <1>4 DEF f
-----------------------------------------------------------------------------
(* Catalogs: x comes before y, by priority and then by place.              *)
Before(x, y) ==
  \/ x.priority < y.priority
  \/ x.priority = y.priority /\ x.slug < y.slug

InOrder(q) == \A a, b \in DOMAIN q : a < b => Before(q[a], q[b])

(* q has the first k members of entries and nothing else.                  *)
HasFirst(q, entries, k) ==
  /\ \A a \in DOMAIN q : \E j \in 1..k : q[a] = entries[j]
  /\ \A j \in 1..k : \E a \in DOMAIN q : q[a] = entries[j]

LEMMA Inserted ==
  ASSUME NEW S, NEW s \in Seq(S), NEW e \in S, NEW x \in 0..Len(s)
  PROVE  /\ InsertAt(s, x + 1, e) \in Seq(S)
         /\ Len(InsertAt(s, x + 1, e)) = Len(s) + 1
         /\ \A a \in 1..Len(s)+1 :
              InsertAt(s, x + 1, e)[a] =
                IF a <= x THEN s[a] ELSE IF a = x + 1 THEN e ELSE s[a-1]
<1> DEFINE n == Len(s)
           u == SubSeq(s, 1, x)
           v == SubSeq(s, x + 1, n)
<1>1. n \in Nat /\ x \in 0..n /\ (x + 1) - 1 = x
  OBVIOUS
<1>2. u \in Seq(S) /\ Len(u) = x /\ \A a \in 1..x : u[a] = s[a]
  OBVIOUS
<1>3. v \in Seq(S) /\ Len(v) = n - x /\ \A a \in 1..n-x : v[a] = s[x+a]
  OBVIOUS
<1>4. InsertAt(s, x + 1, e) = u \o <<e>> \o v
  BY <1>1 DEF InsertAt
<1> HIDE DEF u, v
<1>5. /\ u \o <<e>> \in Seq(S) /\ Len(u \o <<e>>) = x + 1
      /\ \A a \in 1..x : (u \o <<e>>)[a] = s[a]
      /\ (u \o <<e>>)[x+1] = e
  BY <1>1, <1>2
<1> DEFINE w == u \o <<e>>
<1> HIDE DEF w
<1>6. w \in Seq(S) /\ Len(w) = x + 1 /\ w[x+1] = e /\ \A a \in 1..x : w[a] = s[a]
  BY <1>5 DEF w
<1>7. w \o v \in Seq(S) /\ Len(w \o v) = (x + 1) + (n - x)
  <2>1. w \in Seq(S) /\ v \in Seq(S)
    BY <1>3, <1>6
  <2>2. w \o v \in Seq(S) /\ Len(w \o v) = Len(w) + Len(v)
    BY <2>1
  <2> HIDE DEF n
  <2> QED
    BY <1>3, <1>6, <2>2
<1>8. \A a \in 1..n+1 : (w \o v)[a] = IF a <= x + 1 THEN w[a] ELSE v[a-(x+1)]
  <2>1. w \in Seq(S) /\ v \in Seq(S)
    BY <1>3, <1>6
  <2>2. \A a \in 1..Len(w)+Len(v) :
           (w \o v)[a] = IF a <= Len(w) THEN w[a] ELSE v[a-Len(w)]
    BY <2>1
  <2>3. Len(w) = x + 1 /\ Len(w) + Len(v) = n + 1
    BY <1>1, <1>3, <1>6
  <2> HIDE DEF n
  <2> QED
    BY <2>2, <2>3
<1>9. \A a \in 1..n+1 : a > x + 1 => v[a-(x+1)] = s[a-1]
  <2> SUFFICES ASSUME NEW a \in 1..n+1, a > x + 1 PROVE v[a-(x+1)] = s[a-1]
    OBVIOUS
  <2>1. a - (x+1) \in 1..n-x /\ x + (a - (x+1)) = a - 1
    BY <1>1
  <2> HIDE DEF n
  <2> QED
    BY <1>3, <2>1
<1>10. \A a \in 1..n+1 : (w \o v)[a] =
                IF a <= x THEN s[a] ELSE IF a = x + 1 THEN e ELSE s[a-1]
  <2> SUFFICES ASSUME NEW a \in 1..n+1
               PROVE  (w \o v)[a] = IF a <= x THEN s[a] ELSE IF a = x + 1 THEN e ELSE s[a-1]
    OBVIOUS
  <2> HIDE DEF n
  <2>1. CASE a <= x
    BY <1>1, <1>6, <1>8, <2>1
  <2>2. CASE a = x + 1
    BY <1>1, <1>6, <1>8, <2>2
  <2>3. CASE a > x + 1
    <3>1. ~(a <= x) /\ a # x + 1 /\ ~(a <= x + 1)
      BY <1>1, <2>3
    <3> QED
      BY <1>8, <1>9, <2>3, <3>1
  <2>4. a <= x \/ a = x + 1 \/ a > x + 1
    BY <1>1
  <2> QED
    BY <2>1, <2>2, <2>3, <2>4
<1>11. (x + 1) + (n - x) = n + 1
  BY <1>1
<1> HIDE DEF n
<1> QED
  BY <1>4, <1>7, <1>10, <1>11 DEF w, n

(* An entry put behind all that come before it and in front of the others. *)
LEMMA InsertedInOrder ==
  ASSUME NEW S, NEW s \in Seq(S), NEW e \in S, NEW x \in 0..Len(s), InOrder(s),
         \A a \in 1..x : Before(s[a], e), \A a \in x+1..Len(s) : Before(e, s[a]),
         NEW entries, NEW k \in Nat \ {0}, HasFirst(s, entries, k - 1), entries[k] = e
  PROVE  LET q == InsertAt(s, x + 1, e) IN
         q \in Seq(S) /\ InOrder(q) /\ HasFirst(q, entries, k)
<1> DEFINE n == Len(s)
           q == InsertAt(s, x + 1, e)
<1>1. /\ n \in Nat /\ x \in 0..n /\ DOMAIN s = 1..n
      /\ q \in Seq(S) /\ Len(q) = n + 1
      /\ \A a \in 1..n+1 : q[a] = IF a <= x THEN s[a] ELSE IF a = x + 1 THEN e ELSE s[a-1]
  <2>1. n \in Nat /\ x \in 0..n /\ DOMAIN s = 1..n
    OBVIOUS
  <2>2. /\ q \in Seq(S) /\ Len(q) = n + 1
        /\ \A a \in 1..n+1 :
             q[a] = IF a <= x THEN s[a] ELSE IF a = x + 1 THEN e ELSE s[a-1]
    <3> HIDE DEF q
    <3> QED
      BY Inserted DEF q
  <2> QED
    BY <2>1, <2>2
<1> HIDE DEF q
<1>2. DOMAIN q = 1..n+1
  BY <1>1
<1> HIDE DEF n
<1>3. /\ \A a \in 1..x : a \in 1..n+1 /\ a \in 1..n /\ q[a] = s[a]
      /\ x + 1 \in 1..n+1 /\ q[x+1] = e
      /\ \A a \in x+2..n+1 :
           a \in 1..n+1 /\ a - 1 \in 1..n /\ a - 1 \in x+1..n /\ q[a] = s[a-1]
  BY <1>1
<1>4. \A a \in 1..n+1 : a \in 1..x \/ a = x + 1 \/ a \in x+2..n+1
  BY <1>1
<1>5. InOrder(q)
  <2> SUFFICES ASSUME NEW a \in 1..n+1, NEW b \in 1..n+1, a < b
               PROVE  Before(q[a], q[b])
    BY <1>2 DEF InOrder
  <2>1. \A i, j \in 1..n : i < j => Before(s[i], s[j])
    BY <1>1 DEF InOrder
  <2>2. CASE a \in 1..x /\ b \in 1..x
    BY <1>3, <2>1, <2>2
  <2>3. CASE a \in 1..x /\ b = x + 1
    BY <1>3, <2>3
  <2>4. CASE a \in 1..x /\ b \in x+2..n+1
    <3>1. a < b - 1
      BY <1>1, <2>4
    <3> QED
      BY <1>3, <2>1, <2>4, <3>1
  <2>5. CASE a = x + 1 /\ b \in x+2..n+1
    BY <1>3, <2>5 DEF n
  <2>6. CASE a \in x+2..n+1 /\ b \in x+2..n+1
    <3>1. a - 1 < b - 1
      BY <1>1, <2>6
    <3> QED
      BY <1>3, <2>1, <2>6, <3>1
  <2> QED
    BY <1>1, <1>4, <2>2, <2>3, <2>4, <2>5, <2>6
<1>6. HasFirst(q, entries, k)
  <2>1. /\ \A a \in 1..n : \E j \in 1..k-1 : s[a] = entries[j]
        /\ \A j \in 1..k-1 : \E a \in 1..n : s[a] = entries[j]
    BY <1>1 DEF HasFirst
  <2>2. \A j : j \in 1..k <=> j \in 1..k-1 \/ j = k
    OBVIOUS
  <2>3. \A a \in 1..n+1 : \E j \in 1..k : q[a] = entries[j]
    BY <1>3, <1>4, <2>1, <2>2
  <2>4. \A b \in 1..n : \E a \in 1..n+1 : q[a] = s[b]
    <3> SUFFICES ASSUME NEW b \in 1..n PROVE \E a \in 1..n+1 : q[a] = s[b]
      OBVIOUS
    <3>1. CASE b <= x
      <4>1. b \in 1..x
        BY <1>1, <3>1
      <4> QED
        BY <1>3, <4>1
    <3>2. CASE b > x
      <4>1. b + 1 \in x+2..n+1 /\ (b + 1) - 1 = b
        BY <1>1, <3>2
      <4>2. b + 1 \in 1..n+1 /\ q[b+1] = s[b]
        BY <1>3, <4>1
      <4> QED
        BY <4>2
    <3> QED
      BY <1>1, <3>1, <3>2
  <2>5. \A j \in 1..k : \E a \in 1..n+1 : q[a] = entries[j]
    <3> SUFFICES ASSUME NEW j \in 1..k PROVE \E a \in 1..n+1 : q[a] = entries[j]
      OBVIOUS
    <3>1. CASE j = k
      BY <1>3, <3>1
    <3>2. CASE j \in 1..k-1
      <4>1. PICK b \in 1..n : s[b] = entries[j]
        BY <2>1, <3>2
      <4> QED
        BY <2>4, <4>1
    <3> QED
      BY <2>2, <3>1, <3>2
  <2> QED
    BY <1>2, <2>3, <2>5 DEF HasFirst
<1> QED
  BY <1>1, <1>5, <1>6 DEF q

LEMMA PlacedAt ==
  ASSUME NEW S, NEW s \in Seq(S), NEW e \in S, \A y \in S : y.priority \in Int
  PROVE  \E x \in 0..Len(s) :
           /\ Placed(s, e) = InsertAt(s, x + 1, e)
           /\ x # 0 => s[x].priority <= e.priority
           /\ \A a \in x+1..Len(s) : ~(s[a].priority <= e.priority)
<1> DEFINE n == Len(s)
           before == {k \in DOMAIN s : s[k].priority <= e.priority}
           K == before \cup {0}
           x == Max(K)
<1>1. n \in Nat /\ DOMAIN s = 1..n
  OBVIOUS
<1>2. K \in SUBSET (0..n) /\ K # {}
  BY <1>1
<1>3. x \in K /\ \A a \in K : a <= x
  <2> HIDE DEF K
  <2> QED
    BY <1>1, <1>2, MaxIn
<1>4. Placed(s, e) = InsertAt(s, x + 1, e)
  BY DEF Placed
<1> HIDE DEF x
<1>5. x # 0 => s[x].priority <= e.priority
  BY <1>3
<1>6. ASSUME NEW a \in x+1..n, s[a].priority <= e.priority PROVE FALSE
  <2>1. x \in 0..n
    BY <1>2, <1>3
  <2>2. a \in 1..n /\ ~(a <= x)
    BY <1>1, <2>1
  <2>3. a \in K
    BY <1>1, <1>6, <2>2
  <2> QED
    BY <1>3, <2>2, <2>3
<1>7. x \in 0..Len(s)
  BY <1>2, <1>3
<1> QED
  BY <1>4, <1>5, <1>6, <1>7

(* The sort goes from entry to entry, as does the loop before it.          *)
LEMMA PlacedRuns ==
  ASSUME NEW S, NEW entries \in Seq(S), \A y \in S : y.priority \in Int
  PROVE  \E f \in [0..Len(entries) -> Seq(S)] :
           /\ f[0] = <<>> /\ f[Len(entries)] = SliceStable(entries)
           /\ \A k \in 1..Len(entries) : f[k] = Placed(f[k-1], entries[k])
<1> DEFINE n == Len(entries)
           V == Seq(S)
           base == <<>>
           Eq(f) == f = [U \in SUBSET DOMAIN entries |->
                           IF U = {} THEN <<>> ELSE Placed(f[U \ {Max(U)}], entries[Max(U)])]
           iter == CHOOSE f : Eq(f)
           D == [i \in 1..n |-> [v \in V |-> Placed(v, entries[i])]]
<1>1. n \in Nat /\ DOMAIN entries = 1..n /\ \A i \in 1..n : entries[i] \in S
  OBVIOUS
<1>2. SliceStable(entries) = iter[1..n]
  BY <1>1 DEF SliceStable, FoldLeft, MapThenFoldSet
<1> HIDE DEF n
<1>3. \A v \in V, i \in 1..n : D[i][v] = Placed(v, entries[i])
  OBVIOUS
<1>4. Steps(D, n, V)
  <2>1. ASSUME NEW v \in V, NEW e \in S PROVE Placed(v, e) \in V
    BY PlacedAt, Inserted
  <2> HIDE DEF D, V
  <2> QED
    BY <1>1, <1>3, <2>1 DEF Steps
<1>5. n \in Nat /\ base \in V /\ Steps(D, n, V)
  BY <1>1, <1>4
<1> HIDE DEF D, V
<1>6. \E f \in [SUBSET (1..n) -> V] : Folds(f, D, n, base)
  <2> HIDE DEF base
  <2> QED
    BY <1>5, FoldWitness
<1>7. PICK f \in [SUBSET (1..n) -> V] : Folds(f, D, n, base)
  BY <1>6
<1>8. ASSUME NEW U \in SUBSET (1..n), U # {}
      PROVE  D[Max(U)][f[U \ {Max(U)}]] = Placed(f[U \ {Max(U)}], entries[Max(U)])
  <2>1. Max(U) \in 1..n /\ f[U \ {Max(U)}] \in V
    BY <1>1, <1>8, MaxOf
  <2> QED
    BY <1>3, <2>1
<1>9. f = [U \in SUBSET (1..n) |->
            IF U = {} THEN <<>> ELSE Placed(f[U \ {Max(U)}], entries[Max(U)])]
  BY <1>7, <1>8 DEF Folds
<1>10. Eq(f)
  BY <1>1, <1>9
<1>11. Eq(iter)
  <2> HIDE DEF Eq
  <2> QED
    BY <1>10
<1>12. \A U \in SUBSET (1..n) :
         iter[U] = IF U = {} THEN <<>> ELSE Placed(iter[U \ {Max(U)}], entries[Max(U)])
  BY <1>1, <1>11
<1> HIDE DEF iter
<1>13. ASSUME NEW U \in SUBSET (1..n), U # {}, iter[U \ {Max(U)}] \in V
       PROVE  iter[U] = D[Max(U)][iter[U \ {Max(U)}]]
  <2>1. Max(U) \in 1..n
    BY <1>1, <1>13, MaxOf
  <2> QED
    BY <1>3, <1>12, <1>13, <2>1
<1>14. FoldsWithin(iter, D, n, base, V)
  BY <1>12, <1>13 DEF FoldsWithin
<1>15. \E g \in [0..n -> V] : Runs(g, D, n, base) /\ g[n] = iter[1..n]
  <2> HIDE DEF base
  <2> QED
    BY <1>5, <1>14, FoldRuns
<1>16. PICK g \in [0..n -> V] : Runs(g, D, n, base) /\ g[n] = iter[1..n]
  BY <1>15
<1>17. \A k \in 1..n : g[k] = Placed(g[k-1], entries[k])
  <2>1. \A k \in 1..n : g[k-1] \in V
    BY <1>1
  <2> QED
    BY <1>3, <1>16, <2>1 DEF Runs
<1> QED
  BY <1>2, <1>16, <1>17 DEF n, V, Runs

LEMMA ShownRuns ==
  ASSUME NEW S, NEW models \in Seq(S)
  PROVE  \E f \in [0..Len(models) -> Seq(S)] :
           /\ f[0] = <<>> /\ f[Len(models)] = Shown(models)
           /\ \A k \in 1..Len(models) :
                f[k] = IF models[k].visibility = "list"
                         THEN Append(f[k-1], models[k]) ELSE f[k-1]
<1> DEFINE n == Len(models)
           V == Seq(S)
           base == <<>>
           Next(v, wire) == IF convertModelCatalogEntry(wire).visible
                              THEN Append(v, wire) ELSE v
           Eq(f) == f = [U \in SUBSET DOMAIN models |->
                           IF U = {} THEN <<>> ELSE Next(f[U \ {Max(U)}], models[Max(U)])]
           iter == CHOOSE f : Eq(f)
           D == [i \in 1..n |-> [v \in V |-> Next(v, models[i])]]
<1>1. n \in Nat /\ DOMAIN models = 1..n /\ \A i \in 1..n : models[i] \in S
  OBVIOUS
<1>2. Shown(models) = iter[1..n]
  BY <1>1 DEF Shown, FoldLeft, MapThenFoldSet
<1> HIDE DEF n
<1>3. \A v \in V, i \in 1..n : D[i][v] = Next(v, models[i])
  OBVIOUS
<1>4. \A v, wire : Next(v, wire) =
         IF wire.visibility = "list" THEN Append(v, wire) ELSE v
  BY DEF convertModelCatalogEntry
<1>5. n \in Nat /\ base \in V /\ Steps(D, n, V)
  <2>1. ASSUME NEW v \in V, NEW e \in S PROVE Next(v, e) \in V
    <3>1. Append(v, e) \in V
      OBVIOUS
    <3> HIDE DEF V
    <3> QED
      BY <3>1
  <2>2. base \in V
    OBVIOUS
  <2> HIDE DEF D, V, Next
  <2> QED
    BY <1>1, <1>3, <2>1, <2>2 DEF Steps
<1> HIDE DEF D, V, Next
<1>6. \E f \in [SUBSET (1..n) -> V] : Folds(f, D, n, base)
  <2> HIDE DEF base
  <2> QED
    BY <1>5, FoldWitness
<1>7. PICK f \in [SUBSET (1..n) -> V] : Folds(f, D, n, base)
  BY <1>6
<1>8. ASSUME NEW U \in SUBSET (1..n), U # {}
      PROVE  D[Max(U)][f[U \ {Max(U)}]] = Next(f[U \ {Max(U)}], models[Max(U)])
  <2>1. Max(U) \in 1..n /\ f[U \ {Max(U)}] \in V
    BY <1>1, <1>8, MaxOf
  <2> QED
    BY <1>3, <2>1
<1>9. f = [U \in SUBSET (1..n) |->
            IF U = {} THEN <<>> ELSE Next(f[U \ {Max(U)}], models[Max(U)])]
  BY <1>7, <1>8 DEF Folds
<1>10. Eq(f)
  BY <1>1, <1>9
<1>11. Eq(iter)
  <2> HIDE DEF Eq
  <2> QED
    BY <1>10
<1>12. \A U \in SUBSET (1..n) :
         iter[U] = IF U = {} THEN <<>> ELSE Next(iter[U \ {Max(U)}], models[Max(U)])
  BY <1>1, <1>11
<1> HIDE DEF iter
<1>13. ASSUME NEW U \in SUBSET (1..n), U # {}, iter[U \ {Max(U)}] \in V
       PROVE  iter[U] = D[Max(U)][iter[U \ {Max(U)}]]
  <2>1. Max(U) \in 1..n
    BY <1>1, <1>13, MaxOf
  <2> QED
    BY <1>3, <1>12, <1>13, <2>1
<1>14. FoldsWithin(iter, D, n, base, V)
  BY <1>12, <1>13 DEF FoldsWithin
<1>15. \E g \in [0..n -> V] : Runs(g, D, n, base) /\ g[n] = iter[1..n]
  <2> HIDE DEF base
  <2> QED
    BY <1>5, <1>14, FoldRuns
<1>16. PICK g \in [0..n -> V] : Runs(g, D, n, base) /\ g[n] = iter[1..n]
  BY <1>15
<1>17. \A k \in 1..n : g[k] = Next(g[k-1], models[k])
  <2>1. \A k \in 1..n : g[k-1] \in V
    BY <1>1
  <2> QED
    BY <1>3, <1>16, <2>1 DEF Runs
<1>18. \A k \in 1..n : g[k] = IF models[k].visibility = "list"
                                THEN Append(g[k-1], models[k]) ELSE g[k-1]
  BY <1>4, <1>17
<1> QED
  BY <1>2, <1>16, <1>18 DEF n, V, Runs

(* Entries in their order are sorted, none lost and none twice.            *)
LEMMA SliceSorts ==
  ASSUME NEW S, \A y \in S : y.priority \in Int /\ y.slug \in Nat,
         NEW entries \in Seq(S),
         \A i, j \in 1..Len(entries) : i < j => entries[i].slug < entries[j].slug
  PROVE  LET q == SliceStable(entries) IN
         q \in Seq(S) /\ InOrder(q) /\ HasFirst(q, entries, Len(entries))
<1> DEFINE n == Len(entries)
<1>1. PICK f \in [0..n -> Seq(S)] :
           /\ f[0] = <<>> /\ f[n] = SliceStable(entries)
           /\ \A k \in 1..n : f[k] = Placed(f[k-1], entries[k])
  BY PlacedRuns
<1>2. n \in Nat /\ \A k \in 1..n : entries[k] \in S
  OBVIOUS
<1> HIDE DEF n
<1> DEFINE T == {k \in 0..n : InOrder(f[k]) /\ HasFirst(f[k], entries, k)}
<1>3. 0 \in T
  BY <1>1, <1>2 DEF InOrder, HasFirst
<1>4. ASSUME NEW k \in 1..n, k - 1 \in T PROVE k \in T
  <2> DEFINE s == f[k-1]
             e == entries[k]
  <2>1. s \in Seq(S) /\ e \in S /\ InOrder(s) /\ HasFirst(s, entries, k - 1)
    BY <1>1, <1>2, <1>4
  <2>2. f[k] = Placed(s, e)
    BY <1>1
  <2>3. \A a \in 1..Len(s) : s[a].slug < e.slug
    <3> SUFFICES ASSUME NEW a \in 1..Len(s) PROVE s[a].slug < e.slug
      OBVIOUS
    <3>1. a \in DOMAIN s
      BY <2>1
    <3>2. PICK j \in 1..k-1 : s[a] = entries[j]
      BY <2>1, <3>1 DEF HasFirst
    <3>3. j \in 1..n /\ j < k
      BY <1>2, <1>4
    <3> QED
      BY <3>2, <3>3 DEF n
  <2> HIDE DEF s, e
  <2>4. PICK x \in 0..Len(s) :
           /\ Placed(s, e) = InsertAt(s, x + 1, e)
           /\ x # 0 => s[x].priority <= e.priority
           /\ \A a \in x+1..Len(s) : ~(s[a].priority <= e.priority)
    BY <2>1, PlacedAt
  <2>5. Len(s) \in Nat /\ DOMAIN s = 1..Len(s) /\ \A a \in 1..Len(s) : s[a] \in S
    BY <2>1
  <2>6. e.priority \in Int /\ e.slug \in Nat
    BY <2>1
  <2>7. \A a \in 1..Len(s) : s[a].priority \in Int /\ s[a].slug \in Nat
    BY <2>5
  <2>8. ASSUME NEW a \in 1..x PROVE Before(s[a], e)
    <3>1. x \in 1..Len(s) /\ a \in 1..Len(s) /\ x # 0 /\ (a < x \/ a = x)
      BY <2>4, <2>5
    <3>2. a < x => Before(s[a], s[x])
      BY <2>1, <2>5, <3>1 DEF InOrder
    <3>3. s[a].priority <= s[x].priority
      BY <2>7, <3>1, <3>2 DEF Before
    <3>4. s[a].priority <= e.priority
      BY <2>4, <2>6, <2>7, <3>1, <3>3
    <3> QED
      BY <2>3, <2>6, <2>7, <3>1, <3>4 DEF Before
  <2>9. ASSUME NEW a \in x+1..Len(s) PROVE Before(e, s[a])
    <3>1. a \in 1..Len(s)
      BY <2>4, <2>5
    <3>2. ~(s[a].priority <= e.priority) /\ s[a].priority \in Int
      BY <2>4, <2>7, <2>9, <3>1
    <3>3. e.priority < s[a].priority
      BY <2>6, <3>2
    <3> QED
      BY <3>3 DEF Before
  <2>10. k \in Nat \ {0} /\ entries[k] = e /\ k \in 0..n
    BY <1>2 DEF e
  <2>11. InOrder(InsertAt(s, x + 1, e)) /\ HasFirst(InsertAt(s, x + 1, e), entries, k)
    BY <2>1, <2>8, <2>9, <2>10, InsertedInOrder
  <2> QED
    BY <2>2, <2>4, <2>10, <2>11
<1>5. n \in T
  <2>1. 0..n \subseteq T
    <3> HIDE DEF T
    <3> QED
      BY <1>2, <1>3, <1>4, Upwards
  <2> HIDE DEF T
  <2> QED
    BY <1>2, <2>1
<1>6. f[n] \in Seq(S)
  BY <1>1, <1>2
<1> QED
  BY <1>1, <1>5, <1>6 DEF n

(* The first k models, without those that are hidden, in their order.      *)
ShowsFirst(q, models, k) ==
  /\ \A a \in DOMAIN q : \E i \in 1..k : models[i].visibility = "list" /\ q[a] = models[i]
  /\ \A i \in 1..k : models[i].visibility = "list" => \E a \in DOMAIN q : q[a] = models[i]
  /\ \A a, b \in DOMAIN q : a < b => q[a].slug < q[b].slug

LEMMA ShownInOrder ==
  ASSUME NEW S, NEW models \in Seq(S), \A i \in 1..Len(models) : models[i].slug = i
  PROVE  Shown(models) \in Seq(S) /\ ShowsFirst(Shown(models), models, Len(models))
<1> DEFINE n == Len(models)
<1>1. PICK f \in [0..n -> Seq(S)] :
           /\ f[0] = <<>> /\ f[n] = Shown(models)
           /\ \A k \in 1..n :
                f[k] = IF models[k].visibility = "list"
                         THEN Append(f[k-1], models[k]) ELSE f[k-1]
  BY ShownRuns
<1>2. n \in Nat /\ \A k \in 1..n : models[k] \in S /\ models[k].slug = k
  OBVIOUS
<1> HIDE DEF n
<1> DEFINE T == {k \in 0..n : ShowsFirst(f[k], models, k)}
<1>3. 0 \in T
  BY <1>1, <1>2 DEF ShowsFirst
<1>4. ASSUME NEW k \in 1..n, k - 1 \in T PROVE k \in T
  <2> DEFINE s == f[k-1]
             q == f[k]
             m == models[k]
             visible == m.visibility = "list"
  <2>1. s \in Seq(S) /\ m \in S /\ m.slug = k /\ ShowsFirst(s, models, k - 1)
    BY <1>1, <1>2, <1>4
  <2>2. q = IF visible THEN Append(s, m) ELSE s
    BY <1>1
  <2>3. k \in 0..n /\ k \in Nat \ {0} /\ (\A i : i \in 1..k <=> i \in 1..k-1 \/ i = k)
    BY <1>2
  <2>4. ASSUME NEW a \in DOMAIN s PROVE s[a].slug < k
    <3>1. PICK i \in 1..k-1 : s[a] = models[i]
      BY <2>1 DEF ShowsFirst
    <3>2. i \in 1..n /\ i < k
      BY <1>2
    <3> QED
      BY <1>2, <3>1, <3>2
  <2> SUFFICES ShowsFirst(q, models, k)
    BY <2>3
  <2> HIDE DEF s
  <2>5. CASE ~visible
    <3>1. q = s /\ models[k].visibility # "list"
      BY <2>2, <2>5
    <3> HIDE DEF q, m, visible
    <3> QED
      BY <2>1, <2>3, <3>1 DEF ShowsFirst
  <2>6. CASE visible
    <3> DEFINE l == Len(s)
    <3>1. q = Append(s, m) /\ l \in Nat /\ DOMAIN s = 1..l
      BY <2>1, <2>2, <2>6
    <3>2. DOMAIN q = 1..l+1 /\ q[l+1] = m /\ \A a \in 1..l : q[a] = s[a]
      BY <2>1, <3>1
    <3>3. models[k].visibility = "list"
      BY <2>6
    <3> HIDE DEF q, m, visible, l
    <3>4. \A a : a \in DOMAIN q <=> a \in DOMAIN s \/ a = l + 1
      BY <3>1, <3>2
    <3>5. \A a \in DOMAIN q : \E i \in 1..k : models[i].visibility = "list" /\ q[a] = models[i]
      BY <2>1, <2>3, <3>1, <3>2, <3>3, <3>4, SMTT(20) DEF ShowsFirst, m
    <3>6. \A i \in 1..k : models[i].visibility = "list" => \E a \in DOMAIN q : q[a] = models[i]
      BY <2>1, <2>3, <3>1, <3>2, <3>4 DEF ShowsFirst, m
    <3>7. ASSUME NEW a \in DOMAIN q, NEW b \in DOMAIN q, a < b
          PROVE  q[a].slug < q[b].slug
      <4>1. a \in DOMAIN s
        BY <3>1, <3>2, <3>4, <3>7
      <4>2. CASE b = l + 1
        BY <2>1, <2>4, <3>1, <3>2, <4>1, <4>2
      <4>3. CASE b \in DOMAIN s
        BY <2>1, <3>1, <3>2, <3>7, <4>1, <4>3 DEF ShowsFirst
      <4> QED
        BY <3>4, <4>2, <4>3
    <3> QED
      BY <3>5, <3>6, <3>7 DEF ShowsFirst
  <2> QED
    BY <2>5, <2>6
<1>5. n \in T
  <2>1. 0..n \subseteq T
    <3> HIDE DEF T
    <3> QED
      BY <1>2, <1>3, <1>4, Upwards
  <2> HIDE DEF T
  <2> QED
    BY <1>2, <2>1
<1>6. f[n] \in Seq(S)
  BY <1>1, <1>2
<1> QED
  BY <1>1, <1>5, <1>6 DEF n

(* A catalog that is returned has each visible model once, by priority and *)
(* then in the server's order.                                             *)
LEMMA CatalogInOrder ==
  ASSUME NEW models \in Seq(modelCatalogWireEntry),
         \A i \in 1..Len(models) : models[i].slug = i
  PROVE  LET q     == SliceStable(Shown(models))
             order == [k \in DOMAIN q |-> q[k].slug]
         IN /\ Range(order) = {i \in DOMAIN models : models[i].visibility = "list"}
            /\ \A j, k \in DOMAIN order : j < k =>
                 \/ models[order[j]].priority < models[order[k]].priority
                 \/ /\ models[order[j]].priority = models[order[k]].priority
                    /\ order[j] < order[k]
<1> DEFINE W == modelCatalogWireEntry
           e == Shown(models)
           q == SliceStable(e)
           order == [k \in DOMAIN q |-> q[k].slug]
           n == Len(models)
<1>1. \A y \in W : y.priority \in Int /\ y.slug \in Nat
  BY DEF modelCatalogWireEntry
<1>2. models \in Seq(W) /\ \A i \in 1..n : models[i].slug = i
  OBVIOUS
<1>3. n \in Nat /\ DOMAIN models = 1..n
  OBVIOUS
<1> SUFFICES /\ Range(order) = {i \in 1..n : models[i].visibility = "list"}
             /\ \A j, k \in DOMAIN order : j < k =>
                 \/ models[order[j]].priority < models[order[k]].priority
                 \/ /\ models[order[j]].priority = models[order[k]].priority
                    /\ order[j] < order[k]
  BY <1>3
<1> HIDE DEF W, e, q
<1>4. e \in Seq(W) /\ ShowsFirst(e, models, n)
  BY <1>2, ShownInOrder DEF e
<1> HIDE DEF n
<1>5. DOMAIN e = 1..Len(e)
  BY <1>4
<1>6. \A i, j \in 1..Len(e) : i < j => e[i].slug < e[j].slug
  BY <1>4, <1>5 DEF ShowsFirst
<1>7. q \in Seq(W) /\ InOrder(q) /\ HasFirst(q, e, Len(e))
  BY <1>1, <1>4, <1>6, SliceSorts DEF q
<1>8. \A k \in DOMAIN q : \E i \in 1..n : models[i].visibility = "list" /\ q[k] = models[i]
  <2> SUFFICES ASSUME NEW k \in DOMAIN q
               PROVE \E i \in 1..n : models[i].visibility = "list" /\ q[k] = models[i]
    OBVIOUS
  <2>1. PICK j \in 1..Len(e) : q[k] = e[j]
    BY <1>7 DEF HasFirst
  <2> QED
    BY <1>4, <1>5, <2>1 DEF ShowsFirst
<1>9. \A i \in 1..n : models[i].visibility = "list" => \E k \in DOMAIN q : q[k] = models[i]
  <2> SUFFICES ASSUME NEW i \in 1..n, models[i].visibility = "list"
               PROVE \E k \in DOMAIN q : q[k] = models[i]
    OBVIOUS
  <2>1. PICK j \in 1..Len(e) : e[j] = models[i]
    BY <1>4, <1>5 DEF ShowsFirst
  <2> QED
    BY <1>7, <2>1 DEF HasFirst
<1>10. DOMAIN order = DOMAIN q /\ \A k \in DOMAIN q : order[k] = q[k].slug
  OBVIOUS
<1> HIDE DEF order
<1>11. \A k \in DOMAIN q : order[k] \in 1..n /\ models[order[k]].visibility = "list"
                           /\ q[k] = models[order[k]]
  BY <1>2, <1>8, <1>10
<1>12. \A i \in 1..n : models[i].visibility = "list" => \E k \in DOMAIN q : order[k] = i
  BY <1>2, <1>9, <1>10
<1>13. Range(order) = {i \in 1..n : models[i].visibility = "list"}
  BY <1>10, <1>11, <1>12 DEF Range
<1>14. ASSUME NEW j \in DOMAIN order, NEW k \in DOMAIN order, j < k
       PROVE  \/ models[order[j]].priority < models[order[k]].priority
              \/ /\ models[order[j]].priority = models[order[k]].priority
                 /\ order[j] < order[k]
  <2>1. Before(q[j], q[k])
    BY <1>7, <1>10, <1>14 DEF InOrder
  <2> QED
    BY <1>10, <1>11, <2>1 DEF Before
<1> QED
  BY <1>13, <1>14
=============================================================================

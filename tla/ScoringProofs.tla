--------------------------- MODULE ScoringProofs ---------------------------
(***************************************************************************)
(* What the scores of an evaluation mean, for any packages, numbers of     *)
(* tests and objectives: the verdict and the score of a classic evaluation *)
(* agree with its rows, the full score against a baseline means as good as *)
(* the baseline up to the rounding, and every part of the state of an      *)
(* evaluation is of its type.                                              *)
(***************************************************************************)
EXTENDS GradingProofs, WellFoundedInduction

-----------------------------------------------------------------------------
(***************************************************************************)
(* Induction over numbers, in a form first-order provers can use: a set of *)
(* numbers that is not empty has a least element.                          *)
(***************************************************************************)

\* The least number of a set.
LEMMA LeastNumber ==
    ASSUME NEW T \in SUBSET Nat, T # {}
    PROVE  \E x \in T : \A y \in T : x <= y
  <1>1. PICK x \in T : \A y \in T : ~ (<<y, x>> \in OpToRel(<, Nat))
    BY WFMin, NatLessThanWellFounded
  <1>2. \A y \in T : ~ (y < x)
    BY <1>1 DEF OpToRel
  <1> QED BY <1>2

\* What holds of 0, and of n + 1 where it holds of n, holds up to N.
LEMMA CountUp ==
    ASSUME NEW N \in Nat, NEW S, 0 \in S, \A n \in 0 .. N : n \in S /\ n < N => n + 1 \in S
    PROVE  \A n \in 0 .. N : n \in S
  <1> DEFINE T == {n \in 0 .. N : n \notin S}
  <1> SUFFICES ASSUME T # {} PROVE FALSE
    OBVIOUS
  <1>1. T \in SUBSET Nat
    OBVIOUS
  <1>2. PICK x \in T : \A y \in T : x <= y
    BY <1>1, LeastNumber
  <1>3. x \in 0 .. N /\ x \notin S /\ x # 0
    OBVIOUS
  <1>4. x - 1 \in 0 .. N /\ x - 1 < N /\ x - 1 \notin T
    BY <1>2, <1>3
  <1> QED BY <1>3, <1>4

\* The greatest number of a set below a bound.
LEMMA GreatestNumber ==
    ASSUME NEW N \in Nat, NEW T \in SUBSET (0 .. N), T # {}
    PROVE  \E x \in T : \A y \in T : y <= x
  <1> DEFINE U == {N - n : n \in T}
  <1>1. U \in SUBSET Nat /\ U # {}
    <2>1. \A n \in T : N - n \in Nat
      OBVIOUS
    <2>2. PICK t : t \in T
      OBVIOUS
    <2> QED BY <2>1, <2>2
  <1>2. PICK u \in U : \A v \in U : u <= v
    BY <1>1, LeastNumber
  <1>3. PICK x \in T : u = N - x
    OBVIOUS
  <1>4. ASSUME NEW y \in T PROVE y <= x
    <2>1. N - x <= N - y
      BY <1>2, <1>3
    <2> QED BY <2>1
  <1> QED BY <1>4

-----------------------------------------------------------------------------
\* A function on 0 .. N that starts at c and takes a step at every n.
Recurs(f, N, c, step) == f[0] = c /\ \A n \in 1 .. N : f[n] = step[n][f[n - 1]]

\* There is one.
LEMMA RecursionExists ==
    ASSUME NEW N \in Nat, NEW S, NEW c \in S, NEW step \in [1 .. N -> [S -> S]]
    PROVE  \E f \in [0 .. N -> S] : Recurs(f, N, c, step)
  <1> DEFINE Is(f, k) == f[0] = c /\ \A n \in 1 .. k : f[n] = step[n][f[n - 1]]
             T == {k \in 0 .. N : \E f \in [0 .. k -> S] : Is(f, k)}
  <1>1. 0 \in T
    <2> DEFINE f == [n \in 0 .. 0 |-> c]
    <2>1. f \in [0 .. 0 -> S] /\ Is(f, 0)
      OBVIOUS
    <2> HIDE DEF f, Is
    <2> QED BY <2>1
  <1>2. ASSUME NEW k \in 0 .. N, k \in T, k < N PROVE k + 1 \in T
    <2>1. PICK f \in [0 .. k -> S] : Is(f, k)
      BY <1>2
    <2>2. k + 1 \in 1 .. N /\ f[k] \in S /\ step[k + 1] \in [S -> S] /\ step[k + 1][f[k]] \in S
      BY <1>2
    <2> DEFINE g == [n \in 0 .. k + 1 |-> IF n = k + 1 THEN step[k + 1][f[k]] ELSE f[n]]
    <2>3. g \in [0 .. k + 1 -> S]
      BY <2>2
    <2>4. g[k + 1] = step[k + 1][f[k]] /\ \A n \in 0 .. k : g[n] = f[n]
      OBVIOUS
    <2> HIDE DEF g
    <2>5. Is(g, k + 1)
      <3>1. g[0] = c
        BY <2>1, <2>4
      <3>2. ASSUME NEW n \in 1 .. k + 1 PROVE g[n] = step[n][g[n - 1]]
        <4>1. CASE n = k + 1
          BY <2>4, <4>1
        <4>2. CASE n \in 1 .. k
          <5>1. n - 1 \in 0 .. k /\ n \in 0 .. k
            BY <4>2
          <5> QED BY <2>1, <2>4, <4>2, <5>1
        <4> QED BY <4>1, <4>2
      <3> QED BY <3>1, <3>2
    <2> HIDE DEF Is
    <2> QED BY <1>2, <2>3, <2>5
  <1> HIDE DEF T, Is
  <1>3. \A k \in 0 .. N : k \in T
    BY <1>1, <1>2, CountUp
  <1>4. N \in T
    BY <1>3
  <1> QED BY <1>4 DEF T, Is, Recurs

-----------------------------------------------------------------------------
\* The partial sums and the partial products of a.
IsSum(f, a, N) == f = [n \in 0 .. N |-> IF n = 0 THEN 0 ELSE f[n - 1] + a[n]]
IsProduct(f, a, N) == f = [n \in 0 .. N |-> IF n = 0 THEN 1 ELSE f[n - 1] * a[n]]

\* Partial sums exist and are numbers.
LEMMA SumsAreNumbers ==
    ASSUME NEW N \in Nat, NEW a \in [1 .. N -> Nat]
    PROVE  /\ \E f : IsSum(f, a, N)
           /\ \A f : IsSum(f, a, N) => /\ f \in [0 .. N -> Nat] /\ f[0] = 0
                                       /\ \A n \in 1 .. N : f[n] = f[n - 1] + a[n]
  <1>1. \E f : IsSum(f, a, N)
    <2> DEFINE step == [n \in 1 .. N |-> [x \in Nat |-> x + a[n]]]
    <2>1. step \in [1 .. N -> [Nat -> Nat]]
      OBVIOUS
    <2>2. PICK f \in [0 .. N -> Nat] : Recurs(f, N, 0, step)
      <3> HIDE DEF step
      <3> QED BY <2>1, RecursionExists
    <2>3. ASSUME NEW n \in 1 .. N PROVE f[n] = f[n - 1] + a[n]
      <3>1. n - 1 \in 0 .. N /\ f[n - 1] \in Nat
        OBVIOUS
      <3> QED BY <2>2, <3>1 DEF Recurs
    <2>4. IsSum(f, a, N)
      BY <2>2, <2>3 DEF IsSum, Recurs
    <2> QED BY <2>4
  <1>2. ASSUME NEW f, IsSum(f, a, N)
        PROVE  /\ f \in [0 .. N -> Nat] /\ f[0] = 0
               /\ \A n \in 1 .. N : f[n] = f[n - 1] + a[n]
    <2>1. DOMAIN f = 0 .. N /\ f[0] = 0 /\ \A n \in 1 .. N : f[n] = f[n - 1] + a[n]
      BY <1>2 DEF IsSum
    <2> DEFINE S == {n \in 0 .. N : f[n] \in Nat}
    <2>2. 0 \in S
      BY <2>1
    <2>3. ASSUME NEW n \in 0 .. N, n \in S, n < N PROVE n + 1 \in S
      <3>1. n + 1 \in 1 .. N /\ (n + 1) - 1 = n
        BY <2>3
      <3>2. f[n + 1] = f[n] + a[n + 1]
        BY <2>1, <3>1
      <3> QED BY <2>3, <3>1, <3>2
    <2> HIDE DEF S
    <2>4. \A n \in 0 .. N : n \in S
      BY <2>2, <2>3, CountUp
    <2>5. \A n \in 0 .. N : f[n] \in Nat
      BY <2>4 DEF S
    <2>6. f = [n \in 0 .. N |-> f[n]]
      BY <1>2 DEF IsSum
    <2> QED BY <2>1, <2>5, <2>6
  <1> QED BY <1>1, <1>2

\* So do partial products.
LEMMA ProductsAreNumbers ==
    ASSUME NEW N \in Nat, NEW a \in [1 .. N -> Nat]
    PROVE  /\ \E f : IsProduct(f, a, N)
           /\ \A f : IsProduct(f, a, N) => /\ f \in [0 .. N -> Nat] /\ f[0] = 1
                                           /\ \A n \in 1 .. N : f[n] = f[n - 1] * a[n]
  <1>1. \E f : IsProduct(f, a, N)
    <2> DEFINE step == [n \in 1 .. N |-> [x \in Nat |-> x * a[n]]]
    <2>1. step \in [1 .. N -> [Nat -> Nat]]
      OBVIOUS
    <2>2. PICK f \in [0 .. N -> Nat] : Recurs(f, N, 1, step)
      <3> HIDE DEF step
      <3> QED BY <2>1, RecursionExists
    <2>3. ASSUME NEW n \in 1 .. N PROVE f[n] = f[n - 1] * a[n]
      <3>1. n - 1 \in 0 .. N /\ f[n - 1] \in Nat
        OBVIOUS
      <3> QED BY <2>2, <3>1 DEF Recurs
    <2>4. IsProduct(f, a, N)
      BY <2>2, <2>3 DEF IsProduct, Recurs
    <2> QED BY <2>4
  <1>2. ASSUME NEW f, IsProduct(f, a, N)
        PROVE  /\ f \in [0 .. N -> Nat] /\ f[0] = 1
               /\ \A n \in 1 .. N : f[n] = f[n - 1] * a[n]
    <2>1. DOMAIN f = 0 .. N /\ f[0] = 1 /\ \A n \in 1 .. N : f[n] = f[n - 1] * a[n]
      BY <1>2 DEF IsProduct
    <2> DEFINE S == {n \in 0 .. N : f[n] \in Nat}
    <2>2. 0 \in S
      BY <2>1
    <2>3. ASSUME NEW n \in 0 .. N, n \in S, n < N PROVE n + 1 \in S
      <3>1. n + 1 \in 1 .. N /\ (n + 1) - 1 = n
        BY <2>3
      <3>2. f[n + 1] = f[n] * a[n + 1] /\ f[n] \in Nat /\ a[n + 1] \in Nat
        BY <2>1, <2>3, <3>1
      <3>3. f[n + 1] \in Nat
        BY <3>2
      <3> QED BY <3>1, <3>3
    <2> HIDE DEF S
    <2>4. \A n \in 0 .. N : n \in S
      BY <2>2, <2>3, CountUp
    <2>5. \A n \in 0 .. N : f[n] \in Nat
      BY <2>4 DEF S
    <2>6. f = [n \in 0 .. N |-> f[n]]
      BY <1>2 DEF IsProduct
    <2> QED BY <2>1, <2>5, <2>6
  <1> QED BY <1>1, <1>2
-----------------------------------------------------------------------------
\* Greater summands, greater sums; strictly, if one of them is.
LEMMA SumsAreMonotone ==
    ASSUME NEW N \in Nat, NEW a \in [1 .. N -> Nat], NEW b \in [1 .. N -> Nat],
           \A n \in 1 .. N : a[n] <= b[n],
           NEW f, IsSum(f, a, N), NEW g, IsSum(g, b, N)
    PROVE  f[N] <= g[N] /\ \A k \in 1 .. N : a[k] < b[k] => f[N] < g[N]
  <1>1. /\ f \in [0 .. N -> Nat] /\ f[0] = 0 /\ \A n \in 1 .. N : f[n] = f[n - 1] + a[n]
        /\ g \in [0 .. N -> Nat] /\ g[0] = 0 /\ \A n \in 1 .. N : g[n] = g[n - 1] + b[n]
    BY SumsAreNumbers
  <1> DEFINE S == {n \in 0 .. N : f[n] <= g[n] /\ \A k \in 1 .. n : a[k] < b[k] => f[n] < g[n]}
  <1>2. 0 \in S
    BY <1>1
  <1>3. ASSUME NEW n \in 0 .. N, n \in S, n < N PROVE n + 1 \in S
    <2>1. n + 1 \in 1 .. N /\ (n + 1) - 1 = n /\ n + 1 \in 0 .. N
      BY <1>3
    <2>2. f[n + 1] = f[n] + a[n + 1] /\ g[n + 1] = g[n] + b[n + 1] /\ a[n + 1] <= b[n + 1]
      BY <1>1, <2>1
    <2>3. f[n] \in Nat /\ g[n] \in Nat /\ a[n + 1] \in Nat /\ b[n + 1] \in Nat /\ f[n] <= g[n]
      BY <1>1, <1>3, <2>1
    <2>4. f[n + 1] <= g[n + 1]
      BY <2>2, <2>3
    <2>5. ASSUME NEW k \in 1 .. n + 1, a[k] < b[k] PROVE f[n + 1] < g[n + 1]
      <3>1. CASE k = n + 1
        BY <2>2, <2>3, <2>5, <3>1
      <3>2. CASE k \in 1 .. n
        <4>1. f[n] < g[n]
          BY <1>3, <2>5, <3>2
        <4> QED BY <2>2, <2>3, <4>1
      <3> QED BY <3>1, <3>2
    <2> QED BY <2>1, <2>4, <2>5
  <1> HIDE DEF S
  <1>4. N \in S
    <2>1. \A n \in 0 .. N : n \in S
      BY <1>2, <1>3, CountUp
    <2> QED BY <2>1
  <1> QED BY <1>4 DEF S

\* A sum of numbers that are all m.
LEMMA ConstantSums ==
    ASSUME NEW N \in Nat, NEW m \in Nat, NEW f, IsSum(f, [n \in 1 .. N |-> m], N)
    PROVE  f[N] = m * N
  <1> DEFINE a == [n \in 1 .. N |-> m]
             S == {n \in 0 .. N : f[n] = m * n}
  <1>1. a \in [1 .. N -> Nat] /\ \A n \in 1 .. N : a[n] = m
    OBVIOUS
  <1>2. f \in [0 .. N -> Nat] /\ f[0] = 0 /\ \A n \in 1 .. N : f[n] = f[n - 1] + m
    <2> HIDE DEF a
    <2>1. IsSum(f, a, N)
      BY DEF a
    <2>2. f \in [0 .. N -> Nat] /\ f[0] = 0 /\ \A n \in 1 .. N : f[n] = f[n - 1] + a[n]
      BY <1>1, <2>1, SumsAreNumbers
    <2> QED BY <1>1, <2>2
  <1>3. 0 \in S
    BY <1>2
  <1>4. ASSUME NEW n \in 0 .. N, n \in S, n < N PROVE n + 1 \in S
    <2>1. n + 1 \in 1 .. N /\ (n + 1) - 1 = n /\ n + 1 \in 0 .. N
      BY <1>4
    <2>2. f[n + 1] = m * n + m
      BY <1>2, <1>4, <2>1
    <2>3. m * (n + 1) = m * n + m
      OBVIOUS
    <2> QED BY <2>1, <2>2, <2>3
  <1> HIDE DEF S
  <1>5. N \in S
    <2>1. \A n \in 0 .. N : n \in S
      BY <1>3, <1>4, CountUp
    <2> QED BY <2>1
  <1> QED BY <1>5 DEF S

\* No summand is greater than the sum.
LEMMA SummandsAreLess ==
    ASSUME NEW N \in Nat, NEW a \in [1 .. N -> Nat], NEW f, IsSum(f, a, N), NEW k \in 1 .. N
    PROVE  a[k] <= f[N]
  <1>1. f \in [0 .. N -> Nat] /\ \A n \in 1 .. N : f[n] = f[n - 1] + a[n]
    BY SumsAreNumbers
  <1> DEFINE S == {n \in 0 .. N : k <= n => a[k] <= f[n]}
  <1>2. 0 \in S
    OBVIOUS
  <1>3. ASSUME NEW n \in 0 .. N, n \in S, n < N PROVE n + 1 \in S
    <2>1. n + 1 \in 1 .. N /\ (n + 1) - 1 = n /\ n + 1 \in 0 .. N
      BY <1>3
    <2>2. f[n + 1] = f[n] + a[n + 1] /\ f[n] \in Nat /\ a[n + 1] \in Nat
      BY <1>1, <2>1
    <2>3. CASE k = n + 1
      BY <2>1, <2>2, <2>3
    <2>4. CASE k # n + 1
      BY <1>3, <2>1, <2>2, <2>4
    <2> QED BY <2>3, <2>4
  <1> HIDE DEF S
  <1>4. N \in S
    <2>1. \A n \in 0 .. N : n \in S
      BY <1>2, <1>3, CountUp
    <2> QED BY <2>1
  <1> QED BY <1>4 DEF S

\* Products of numbers keep the order of their factors.
LEMMA FactorsKeepOrder ==
    ASSUME NEW x \in Int, NEW y \in Int, NEW z \in Nat, x <= y
    PROVE  z * x <= z * y /\ x * z <= y * z
  <1>1. PICK e \in Nat : y = x + e
    <2>1. y - x \in Nat /\ y = x + (y - x)
      OBVIOUS
    <2> QED BY <2>1
  <1>2. z * y = z * x + z * e /\ y * z = z * y /\ x * z = z * x
    BY <1>1
  <1>3. z * e \in Nat /\ z * x \in Int
    BY <1>1
  <1> QED BY <1>2, <1>3

\* A sum of numbers up to m falls short of all of them at m at least as much as
\* any of its summands of m.
LEMMA OneSummand ==
    ASSUME NEW N \in Nat, NEW m \in Nat, NEW a \in [1 .. N -> Nat], \A n \in 1 .. N : a[n] <= m,
           NEW f, IsSum(f, a, N), NEW k \in 1 .. N
    PROVE  m - a[k] <= m * N - f[N]
  <1>1. f \in [0 .. N -> Nat] /\ f[0] = 0 /\ \A n \in 1 .. N : f[n] = f[n - 1] + a[n]
    BY SumsAreNumbers
  <1> DEFINE S == {n \in 0 .. N : f[n] <= m * n /\ (k <= n => m - a[k] <= m * n - f[n])}
  <1>2. 0 \in S
    BY <1>1
  <1>3. ASSUME NEW n \in 0 .. N, n \in S, n < N PROVE n + 1 \in S
    <2>1. n + 1 \in 1 .. N /\ (n + 1) - 1 = n /\ n + 1 \in 0 .. N
      BY <1>3
    <2>2. f[n + 1] = f[n] + a[n + 1] /\ f[n] \in Nat /\ a[n + 1] \in Nat /\ a[n + 1] <= m
      BY <1>1, <2>1
    <2>3. m * (n + 1) = m * n + m /\ m * n \in Nat /\ a[k] \in Nat
      OBVIOUS
    <2>4. f[n] <= m * n /\ (k <= n => m - a[k] <= m * n - f[n])
      BY <1>3
    <2>5. CASE k = n + 1
      BY <2>1, <2>2, <2>3, <2>4, <2>5
    <2>6. CASE k # n + 1
      BY <2>1, <2>2, <2>3, <2>4, <2>6
    <2> QED BY <2>5, <2>6
  <1> HIDE DEF S
  <1>4. N \in S
    <2>1. \A n \in 0 .. N : n \in S
      BY <1>2, <1>3, CountUp
    <2> QED BY <2>1
  <1> QED BY <1>4 DEF S

\* Greater factors, greater products; strictly, if one of them is and the
\* greater ones are positive.
LEMMA ProductsAreMonotone ==
    ASSUME NEW N \in Nat, NEW a \in [1 .. N -> Nat], NEW b \in [1 .. N -> Nat],
           \A n \in 1 .. N : a[n] <= b[n],
           NEW f, IsProduct(f, a, N), NEW g, IsProduct(g, b, N)
    PROVE  /\ f[N] <= g[N]
           /\ (\A n \in 1 .. N : b[n] > 0) => \A k \in 1 .. N : a[k] < b[k] => f[N] < g[N]
  <1>1. /\ f \in [0 .. N -> Nat] /\ f[0] = 1 /\ \A n \in 1 .. N : f[n] = f[n - 1] * a[n]
        /\ g \in [0 .. N -> Nat] /\ g[0] = 1 /\ \A n \in 1 .. N : g[n] = g[n - 1] * b[n]
    BY ProductsAreNumbers
  <1>2. ASSUME NEW x \in Nat, NEW y \in Nat, NEW c \in Nat, NEW d \in Nat, x <= y, c <= d
        PROVE  /\ x * c <= y * d
               /\ y > 0 /\ d > 0 /\ (x < y \/ c < d) => x * c < y * d
               /\ y > 0 /\ d > 0 => y * d > 0
    <2>1. x * c <= y * c /\ y * c <= y * d
      BY <1>2
    <2>2. x < y /\ d > 0 => x * d < y * d
      OBVIOUS
    <2>3. x * c <= x * d
      BY <1>2
    <2>4. y > 0 /\ c < d => y * c < y * d
      OBVIOUS
    <2>5. x * c \in Nat /\ y * d \in Nat /\ x * d \in Nat /\ y * c \in Nat
      OBVIOUS
    <2>6. y > 0 /\ d > 0 => y * d > 0
      OBVIOUS
    <2> QED BY <2>1, <2>2, <2>3, <2>4, <2>5, <2>6
  <1> DEFINE Positive == \A n \in 1 .. N : b[n] > 0
             S == {n \in 0 .. N : /\ f[n] <= g[n]
                                  /\ Positive => g[n] > 0
                                  /\ Positive => \A k \in 1 .. n : a[k] < b[k] => f[n] < g[n]}
  <1>3. 0 \in S
    BY <1>1
  <1>4. ASSUME NEW n \in 0 .. N, n \in S, n < N PROVE n + 1 \in S
    <2>1. n + 1 \in 1 .. N /\ (n + 1) - 1 = n /\ n + 1 \in 0 .. N
      BY <1>4
    <2>2. f[n + 1] = f[n] * a[n + 1] /\ g[n + 1] = g[n] * b[n + 1] /\ a[n + 1] <= b[n + 1]
      BY <1>1, <2>1
    <2>3. f[n] \in Nat /\ g[n] \in Nat /\ a[n + 1] \in Nat /\ b[n + 1] \in Nat /\ f[n] <= g[n]
      BY <1>1, <1>4, <2>1
    <2>4. Positive => b[n + 1] > 0 /\ g[n] > 0
      BY <1>4, <2>1
    <2>5. f[n + 1] <= g[n + 1] /\ (Positive => g[n + 1] > 0)
      BY <1>2, <2>2, <2>3, <2>4
    <2>6. ASSUME Positive, NEW k \in 1 .. n + 1, a[k] < b[k] PROVE f[n + 1] < g[n + 1]
      <3>1. f[n] < g[n] \/ a[n + 1] < b[n + 1]
        BY <1>4, <2>6
      <3> HIDE DEF Positive
      <3> QED BY <1>2, <2>2, <2>3, <2>4, <2>6, <3>1
    <2> HIDE DEF Positive
    <2> QED BY <2>1, <2>5, <2>6
  <1> HIDE DEF S
  <1>5. N \in S
    <2>1. \A n \in 0 .. N : n \in S
      BY <1>3, <1>4, CountUp
    <2> QED BY <2>1
  <1> QED BY <1>5 DEF S

\* A product of factors up to m falls short of the power of m at least as much as any
\* of its factors of m.
LEMMA OneFactor ==
    ASSUME NEW N \in Nat, NEW m \in Nat, NEW a \in [1 .. N -> Nat], NEW b \in [1 .. N -> Nat],
           \A n \in 1 .. N : a[n] <= m /\ b[n] = m,
           NEW f, IsProduct(f, a, N), NEW g, IsProduct(g, b, N), NEW k \in 1 .. N
    PROVE  m * f[N] <= a[k] * g[N]
  <1>1. /\ f \in [0 .. N -> Nat] /\ f[0] = 1 /\ \A n \in 1 .. N : f[n] = f[n - 1] * a[n]
        /\ g \in [0 .. N -> Nat] /\ g[0] = 1 /\ \A n \in 1 .. N : g[n] = g[n - 1] * b[n]
    BY ProductsAreNumbers
  <1>2. ASSUME NEW x \in Nat, NEW y \in Nat, NEW c \in Nat, x <= y, c <= m
        PROVE  x * c <= y * m /\ x * c \in Nat /\ y * m \in Nat
    <2>1. x * c <= y * c /\ y * c <= y * m
      BY <1>2
    <2> QED BY <2>1
  <1> DEFINE S == {n \in 0 .. N : f[n] <= g[n] /\ (k <= n => m * f[n] <= a[k] * g[n])}
  <1>3. 0 \in S
    BY <1>1
  <1>4. ASSUME NEW n \in 0 .. N, n \in S, n < N PROVE n + 1 \in S
    <2>1. n + 1 \in 1 .. N /\ (n + 1) - 1 = n /\ n + 1 \in 0 .. N
      BY <1>4
    <2>2. f[n + 1] = f[n] * a[n + 1] /\ g[n + 1] = g[n] * m /\ a[n + 1] <= m
      BY <1>1, <2>1
    <2>3. f[n] \in Nat /\ g[n] \in Nat /\ a[n + 1] \in Nat /\ a[k] \in Nat /\ f[n] <= g[n]
      BY <1>1, <1>4, <2>1
    <2>4. f[n + 1] <= g[n + 1]
      <3>1. f[n] * a[n + 1] <= g[n] * m
        BY <1>2, <2>2, <2>3
      <3> QED BY <2>2, <3>1
    <2>5. CASE k = n + 1
      <3>1. m * f[n + 1] = (m * a[k]) * f[n] /\ a[k] * g[n + 1] = (m * a[k]) * g[n] /\ m * a[k] \in Nat
        BY <2>2, <2>3, <2>5
      <3>2. (m * a[k]) * f[n] <= (m * a[k]) * g[n]
        <4> DEFINE z == m * a[k]
        <4>1. z \in Nat
          BY <3>1
        <4> HIDE DEF z
        <4>2. z * f[n] <= z * g[n]
          BY <2>3, <4>1
        <4> QED BY <4>2 DEF z
      <3> QED BY <2>1, <2>4, <3>1, <3>2
    <2>6. CASE k <= n
      <3> DEFINE u == m * f[n]
                 v == a[k] * g[n]
      <3>1. u \in Nat /\ v \in Nat /\ u <= v
        BY <1>4, <2>3, <2>6
      <3>2. m * f[n + 1] = u * a[n + 1] /\ a[k] * g[n + 1] = v * m
        BY <2>2, <2>3
      <3> HIDE DEF u, v
      <3>3. u * a[n + 1] <= v * m
        BY <1>2, <2>2, <2>3, <3>1
      <3> QED BY <2>1, <2>4, <3>2, <3>3
    <2>7. CASE ~ (k <= n + 1)
      BY <2>1, <2>4, <2>7
    <2> QED BY <2>1, <2>5, <2>6, <2>7
  <1> HIDE DEF S
  <1>5. N \in S
    <2>1. \A n \in 0 .. N : n \in S
      BY <1>3, <1>4, CountUp
    <2> QED BY <2>1
  <1> QED BY <1>5 DEF S

\* Bernoulli's inequality: the power of r falls short of the power of m at most N
\* times as much as r of m.
LEMMA Bernoulli ==
    ASSUME NEW N \in Nat, NEW m \in Nat, NEW r \in 0 .. m,
           NEW a \in [1 .. N -> Nat], NEW b \in [1 .. N -> Nat],
           \A n \in 1 .. N : a[n] = r /\ b[n] = m,
           NEW f, IsProduct(f, a, N), NEW g, IsProduct(g, b, N)
    PROVE  g[N] * (m - N * (m - r)) <= m * f[N]
  <1>0. r \in Nat /\ m - r \in Nat
    OBVIOUS
  <1>1. /\ f \in [0 .. N -> Nat] /\ f[0] = 1 /\ \A n \in 1 .. N : f[n] = f[n - 1] * a[n]
        /\ g \in [0 .. N -> Nat] /\ g[0] = 1 /\ \A n \in 1 .. N : g[n] = g[n - 1] * b[n]
    BY ProductsAreNumbers
  <1>2. PICK d \in Nat : d = m - r
    BY <1>0
  <1> DEFINE S == {n \in 0 .. N : g[n] * (m - n * d) <= m * f[n]}
  <1>3. 0 \in S
    BY <1>1, <1>2
  <1>4. ASSUME NEW n \in 0 .. N, n \in S, n < N PROVE n + 1 \in S
    <2>1. n + 1 \in 1 .. N /\ (n + 1) - 1 = n /\ n + 1 \in 0 .. N /\ n \in Nat
      BY <1>4
    <2>2. f[n + 1] = f[n] * r /\ g[n + 1] = g[n] * m
      BY <1>1, <2>1
    <2>3. f[n] \in Nat /\ g[n] \in Nat /\ g[n] * (m - n * d) <= m * f[n]
      BY <1>1, <1>4
    <2>4. PICK nd \in Nat : nd = n * d
      BY <2>1
    <2>5. (n + 1) * d = nd + d
      BY <2>1, <2>4
    <2>6. m * (m - (nd + d)) <= (m - nd) * r
      <3>1. (m - nd) * r = (m - nd) * m - (m - nd) * d
        BY <1>0, <1>2, <2>4
      <3>2. (m - nd) * d = m * d - nd * d /\ m * (m - (nd + d)) = (m - nd) * m - m * d
        BY <2>4
      <3>3. nd * d \in Nat /\ m * d \in Nat /\ (m - nd) * m \in Int
        BY <2>4
      <3> QED BY <3>1, <3>2, <3>3
    <2>7. g[n] * (m * (m - (nd + d))) <= g[n] * ((m - nd) * r)
      <3> DEFINE u == m * (m - (nd + d))
                 v == (m - nd) * r
      <3>1. u \in Int /\ v \in Int /\ u <= v
        BY <1>0, <2>4, <2>6
      <3> HIDE DEF u, v
      <3>2. g[n] * u <= g[n] * v
        BY <2>3, <3>1, FactorsKeepOrder
      <3> QED BY <3>2 DEF u, v
    <2>8. (g[n] * (m - nd)) * r <= (m * f[n]) * r
      <3> DEFINE u == g[n] * (m - nd)
                 v == m * f[n]
      <3>1. u \in Int /\ v \in Int /\ u <= v
        BY <2>3, <2>4
      <3> HIDE DEF u, v
      <3>2. u * r <= v * r
        BY <1>0, <3>1
      <3> QED BY <3>2 DEF u, v
    <2>9. g[n + 1] * (m - (nd + d)) = g[n] * (m * (m - (nd + d)))
      BY <2>2, <2>3, <2>4
    <2>10. g[n] * ((m - nd) * r) = (g[n] * (m - nd)) * r
      BY <1>0, <2>3, <2>4
    <2>11. m * f[n + 1] = (m * f[n]) * r
      BY <1>0, <2>2, <2>3
    <2>12. /\ g[n] * (m * (m - (nd + d))) \in Int /\ g[n] * ((m - nd) * r) \in Int
           /\ (m * f[n]) * r \in Int
      BY <1>0, <2>3, <2>4
    <2>13. g[n + 1] * (m - (nd + d)) <= m * f[n + 1]
      BY <2>7, <2>8, <2>9, <2>10, <2>11, <2>12
    <2> QED BY <2>1, <2>5, <2>13
  <1> HIDE DEF S
  <1>5. N \in S
    <2>1. \A n \in 0 .. N : n \in S
      BY <1>3, <1>4, CountUp
    <2> QED BY <2>1
  <1> QED BY <1>2, <1>5 DEF S

-----------------------------------------------------------------------------
\* The sums and products of the graders are those of the scores of the rows.
LEMMA SumScoresIs ==
    ASSUME NEW rs, Len(rs) \in Nat, NEW a \in [1 .. Len(rs) -> Nat], \A n \in 1 .. Len(rs) : a[n] = rs[n].score
    PROVE  \E f : IsSum(f, a, Len(rs)) /\ SumScores(rs) = f[Len(rs)]
  <1> DEFINE N == Len(rs)
             Is(f) == f = [n \in 0 .. N |-> IF n = 0 THEN 0 ELSE f[n - 1] + rs[n].score]
             s == CHOOSE f : Is(f)
  <1>1. ASSUME NEW f PROVE Is(f) <=> IsSum(f, a, N)
    BY DEF IsSum
  <1>2. \E f : IsSum(f, a, N)
    BY SumsAreNumbers
  <1>3. SumScores(rs) = s[N]
    BY DEF SumScores
  <1> HIDE DEF Is
  <1>4. Is(s)
    BY <1>1, <1>2
  <1> HIDE DEF s
  <1> QED BY <1>1, <1>3, <1>4

\* The points of a quiz are a sum too.
LEMMA TotalPointsIs ==
    ASSUME NEW qs, Len(qs) \in Nat, NEW a \in [1 .. Len(qs) -> Nat], \A n \in 1 .. Len(qs) : a[n] = qs[n].points
    PROVE  \E f : IsSum(f, a, Len(qs)) /\ TotalPoints(qs) = f[Len(qs)]
  <1> DEFINE N == Len(qs)
             Is(f) == f = [n \in 0 .. N |-> IF n = 0 THEN 0 ELSE f[n - 1] + qs[n].points]
             s == CHOOSE f : Is(f)
  <1>1. ASSUME NEW f PROVE Is(f) <=> IsSum(f, a, N)
    BY DEF IsSum
  <1>2. \E f : IsSum(f, a, N)
    BY SumsAreNumbers
  <1>3. TotalPoints(qs) = s[N]
    BY DEF TotalPoints
  <1> HIDE DEF Is
  <1>4. Is(s)
    BY <1>1, <1>2
  <1> HIDE DEF s
  <1> QED BY <1>1, <1>3, <1>4

\* math.prod of the scores is a product.
LEMMA ProductScoresIs ==
    ASSUME NEW rs, Len(rs) \in Nat, NEW a \in [1 .. Len(rs) -> Nat], \A n \in 1 .. Len(rs) : a[n] = rs[n].score
    PROVE  \E f : IsProduct(f, a, Len(rs)) /\ ProductScores(rs) = f[Len(rs)]
  <1> DEFINE N == Len(rs)
             Is(f) == f = [n \in 0 .. N |-> IF n = 0 THEN 1 ELSE f[n - 1] * rs[n].score]
             s == CHOOSE f : Is(f)
  <1>1. ASSUME NEW f PROVE Is(f) <=> IsProduct(f, a, N)
    BY DEF IsProduct
  <1>2. \E f : IsProduct(f, a, N)
    BY ProductsAreNumbers
  <1>3. ProductScores(rs) = s[N]
    BY DEF ProductScores
  <1> HIDE DEF Is
  <1>4. Is(s)
    BY <1>1, <1>2
  <1> HIDE DEF s
  <1> QED BY <1>1, <1>3, <1>4

\* A power is a product of equal factors.
LEMMA PowerIs ==
    ASSUME NEW N \in Nat, NEW m \in Nat, NEW a \in [1 .. N -> Nat], \A n \in 1 .. N : a[n] = m
    PROVE  \E f : IsProduct(f, a, N) /\ Power(m, N) = f[N]
  <1> DEFINE Is(f) == f = [n \in 0 .. N |-> IF n = 0 THEN 1 ELSE f[n - 1] * m]
             s == CHOOSE f : Is(f)
  <1>1. ASSUME NEW f PROVE Is(f) <=> IsProduct(f, a, N)
    BY DEF IsProduct
  <1>2. \E f : IsProduct(f, a, N)
    BY ProductsAreNumbers
  <1>3. Power(m, N) = s[N]
    BY DEF Power
  <1> HIDE DEF Is
  <1>4. Is(s)
    BY <1>1, <1>2
  <1> HIDE DEF s
  <1> QED BY <1>1, <1>3, <1>4

-----------------------------------------------------------------------------
\* The integer quotient is the greatest number whose product with the divisor
\* is not above the dividend.
LEMMA Division ==
    ASSUME NEW x \in Nat, NEW d \in Nat \ {0}
    PROVE  /\ x \div d \in Nat /\ x = d * (x \div d) + (x % d)
           /\ \A q \in Nat : q * d <= x <=> q <= x \div d
  <1> DEFINE y == x \div d
             r == x % d
  <1>1. y \in Int /\ r \in 0 .. d - 1 /\ x = d * y + r
    OBVIOUS
  <1> HIDE DEF y, r
  <1>2. y \in Nat
    <2>1. ASSUME y < 0 PROVE FALSE
      <3>1. d * y <= -d
        <4>1. y <= -1
          BY <1>1, <2>1
        <4> QED BY <1>1, <4>1
      <3> QED BY <1>1, <3>1
    <2> QED BY <1>1, <2>1
  <1>3. ASSUME NEW q \in Nat, q <= y PROVE q * d <= x
    <2>1. q * d <= y * d
      BY <1>2, <1>3
    <2> QED BY <1>1, <1>2, <2>1
  <1>4. ASSUME NEW q \in Nat, ~ (q <= y) PROVE ~ (q * d <= x)
    <2>1. y + 1 <= q
      BY <1>2, <1>4
    <2>2. (y + 1) * d <= q * d
      BY <1>2, <2>1
    <2>3. (y + 1) * d = d * y + d
      BY <1>2
    <2>4. q * d \in Nat /\ d * y \in Nat
      BY <1>2
    <2> QED BY <1>1, <2>2, <2>3, <2>4
  <1>5. y \in Nat /\ x = d * y + r /\ \A q \in Nat : q * d <= x <=> q <= y
    BY <1>1, <1>2, <1>3, <1>4
  <1> QED BY <1>5 DEF y, r

\* The units of the scores.
LEMMA UnitsAreNumbers ==
    Unit \in Nat \ {0} /\ Tests \in Nat \ {0} /\ Tests <= Unit
  <1>1. Unit \in Nat \ {0} /\ Tests \in Nat \ {0} /\ Unit % Tests = 0
    BY ProcessAssumption DEF ProcessAssumption
  <1>2. Unit \div Tests \in Nat /\ \A q \in Nat : q * Tests <= Unit <=> q <= Unit \div Tests
    BY <1>1, Division
  <1>3. Unit = Tests * (Unit \div Tests) + (Unit % Tests)
    BY <1>1, Division
  <1>4. Unit \div Tests # 0
    BY <1>1, <1>3
  <1>5. 1 * Tests <= Unit
    BY <1>2, <1>4
  <1> QED BY <1>1, <1>5

\* What an aggregation of scores up to m promises.
Scored(rs, m) ==
    /\ Len(rs) \in Nat \ {0} /\ DOMAIN rs = 1 .. Len(rs)
    /\ \A n \in 1 .. Len(rs) : rs[n].score \in 0 .. m

Fair(s, rs, m) ==
    /\ s \in 0 .. m
    /\ s = m <=> \A n \in 1 .. Len(rs) : rs[n].score = m
    /\ \E n \in 1 .. Len(rs) : s <= rs[n].score
    /\ \A n \in 1 .. Len(rs) : m - rs[n].score <= Len(rs) * (m - s)

\* The sum of the scores is at most all of them at m, and exactly that only
\* where all of them are.
LEMMA SumIsBounded ==
    ASSUME NEW rs, NEW m \in Nat, Scored(rs, m)
    PROVE  /\ SumScores(rs) \in Nat /\ SumScores(rs) <= m * Len(rs)
           /\ \A n \in 1 .. Len(rs) : rs[n].score <= SumScores(rs)
           /\ \A n \in 1 .. Len(rs) : rs[n].score < m => SumScores(rs) < m * Len(rs)
           /\ (\A n \in 1 .. Len(rs) : rs[n].score = m) => SumScores(rs) = m * Len(rs)
           /\ \A n \in 1 .. Len(rs) : m - rs[n].score <= m * Len(rs) - SumScores(rs)
  <1> DEFINE N == Len(rs)
             a == [n \in 1 .. N |-> rs[n].score]
             b == [n \in 1 .. N |-> m]
  <1>1. /\ N \in Nat /\ a \in [1 .. N -> Nat] /\ b \in [1 .. N -> Nat]
        /\ \A n \in 1 .. N : a[n] = rs[n].score /\ b[n] = m /\ a[n] <= b[n]
    BY DEF Scored
  <1> HIDE DEF a
  <1>2. PICK f : IsSum(f, a, N) /\ SumScores(rs) = f[N]
    BY <1>1, SumScoresIs
  <1>3. PICK g : IsSum(g, b, N)
    <2> HIDE DEF b
    <2> QED BY <1>1, SumsAreNumbers
  <1>4. g[N] = m * N
    BY <1>1, <1>3, ConstantSums
  <1> HIDE DEF b
  <1>5. f[N] \in Nat
    <2>1. f \in [0 .. N -> Nat]
      BY <1>1, <1>2, SumsAreNumbers
    <2> QED BY <1>1, <2>1
  <1>6. f[N] <= g[N] /\ \A k \in 1 .. N : a[k] < b[k] => f[N] < g[N]
    BY <1>1, <1>2, <1>3, SumsAreMonotone
  <1>7. \A k \in 1 .. N : a[k] <= f[N]
    BY <1>1, <1>2, SummandsAreLess
  <1>8. ASSUME \A n \in 1 .. N : rs[n].score = m PROVE f[N] = m * N
    <2>1. \A n \in 1 .. N : b[n] <= a[n]
      BY <1>1, <1>8
    <2>2. g[N] <= f[N]
      BY <1>1, <1>2, <1>3, <2>1, SumsAreMonotone
    <2>3. m * N \in Nat
      BY <1>1
    <2> QED BY <1>4, <1>5, <1>6, <2>2, <2>3
  <1>9. \A k \in 1 .. N : m - a[k] <= m * N - f[N]
    <2>1. \A n \in 1 .. N : a[n] <= m
      BY <1>1
    <2> QED BY <1>1, <1>2, <2>1, OneSummand
  <1> QED BY <1>1, <1>2, <1>4, <1>5, <1>6, <1>7, <1>8, <1>9

\* The mean of the scores, rounded down.
LEMMA MeanIsFair ==
    ASSUME NEW rs, NEW m \in Nat, Scored(rs, m)
    PROVE  Fair(SumScores(rs) \div Len(rs), rs, m)
  <1> DEFINE N == Len(rs)
             x == SumScores(rs)
             s == x \div N
  <1>1. N \in Nat \ {0} /\ \A n \in 1 .. N : rs[n].score \in 0 .. m
    BY DEF Scored
  <1>2. x \in Nat /\ x <= m * N
    BY SumIsBounded
  <1>3. s \in Nat /\ \A q \in Nat : q * N <= x <=> q <= s
    <2> HIDE DEF x, N
    <2> QED BY <1>1, <1>2, Division
  <1> HIDE DEF s
  <1>4. s <= m
    <2>1. ~ ((m + 1) * N <= x)
      <3>1. (m + 1) * N = m * N + N /\ m * N \in Nat
        BY <1>1
      <3> QED BY <1>1, <1>2, <3>1
    <2>2. m + 1 \in Nat
      OBVIOUS
    <2> HIDE DEF x, N
    <2>3. ~ (m + 1 <= s)
      BY <1>3, <2>1, <2>2
    <2> QED BY <1>3, <2>3
  <1>5. s = m <=> m * N <= x
    BY <1>3, <1>4
  <1>6. m * N <= x <=> \A n \in 1 .. N : rs[n].score = m
    <2>1. (\A n \in 1 .. N : rs[n].score = m) => x = m * N
      BY SumIsBounded
    <2>2. \A n \in 1 .. N : rs[n].score < m => x < m * N
      BY SumIsBounded
    <2>3. m * N \in Nat
      BY <1>1
    <2>4. ASSUME ~ \A n \in 1 .. N : rs[n].score = m PROVE ~ (m * N <= x)
      <3>1. PICK n \in 1 .. N : rs[n].score # m
        BY <2>4
      <3>2. rs[n].score < m
        BY <1>1, <3>1
      <3> QED BY <1>2, <2>2, <2>3, <3>2
    <2> QED BY <1>2, <2>1, <2>3, <2>4
  <1>7. \E n \in 1 .. N : s <= rs[n].score
    <2> SUFFICES ASSUME \A n \in 1 .. N : ~ (s <= rs[n].score) PROVE FALSE
      OBVIOUS
    <2>1. 1 \in 1 .. N
      BY <1>1
    <2>2. \A n \in 1 .. N : rs[n].score < s /\ rs[n].score \in 0 .. s
      BY <1>1, <1>3
    <2>3. Scored(rs, s)
      BY <2>2 DEF Scored
    <2>4. x < s * N
      BY <1>3, <2>1, <2>2, <2>3, SumIsBounded
    <2>5. s * N \in Nat /\ s * N <= x
      BY <1>1, <1>3
    <2> QED BY <1>2, <2>4, <2>5
  <1>8. ASSUME NEW n \in 1 .. N PROVE m - rs[n].score <= N * (m - s)
    <2>1. m - rs[n].score <= m * N - x
      BY SumIsBounded
    <2>2. s * N <= x /\ s * N \in Nat /\ m * N \in Nat
      BY <1>1, <1>3
    <2>3. N * (m - s) = m * N - s * N
      BY <1>1, <1>3
    <2> QED BY <1>1, <1>2, <2>1, <2>2, <2>3
  <1>9. s \in 0 .. m /\ (s = m <=> \A n \in 1 .. N : rs[n].score = m)
    BY <1>3, <1>4, <1>5, <1>6
  <1>10. Fair(s, rs, m)
    BY <1>7, <1>8, <1>9 DEF Fair
  <1> QED BY <1>10 DEF s

-----------------------------------------------------------------------------
\* The least of the scores.
LEMMA MinimumIsFair ==
    ASSUME NEW rs, NEW m \in Nat, Scored(rs, m)
    PROVE  LET scores == {rs[n].score : n \in DOMAIN rs}
           IN  Fair(CHOOSE s \in scores : \A o \in scores : s <= o, rs, m)
  <1> DEFINE N == Len(rs)
             scores == {rs[n].score : n \in DOMAIN rs}
             s == CHOOSE s \in scores : \A o \in scores : s <= o
  <1>1. N \in Nat \ {0} /\ DOMAIN rs = 1 .. N /\ \A n \in 1 .. N : rs[n].score \in 0 .. m
    BY DEF Scored
  <1>2. scores \in SUBSET Nat /\ scores # {}
    <2>1. 1 \in DOMAIN rs
      BY <1>1
    <2> QED BY <1>1, <2>1
  <1>3. s \in scores /\ \A o \in scores : s <= o
    <2> HIDE DEF scores
    <2> QED BY <1>2, LeastNumber
  <1> HIDE DEF s
  <1>4. PICK n \in 1 .. N : s = rs[n].score
    BY <1>1, <1>3
  <1>5. \A k \in 1 .. N : s <= rs[k].score
    BY <1>1, <1>3
  <1>6. s \in 0 .. m
    BY <1>1, <1>4
  <1>7. s = m <=> \A k \in 1 .. N : rs[k].score = m
    BY <1>1, <1>4, <1>5, <1>6
  <1>8. s <= rs[n].score
    BY <1>4, <1>6
  <1>9. ASSUME NEW k \in 1 .. N PROVE m - rs[k].score <= N * (m - s)
    <2>1. 1 <= N /\ m - s \in Nat /\ 1 \in Int /\ N \in Int
      BY <1>1, <1>6
    <2>2. 1 * (m - s) <= N * (m - s)
      BY <2>1, FactorsKeepOrder
    <2>3. N * (m - s) \in Int
      BY <2>1
    <2> QED BY <1>1, <1>5, <1>6, <2>1, <2>2, <2>3
  <1>10. Fair(s, rs, m)
    BY <1>6, <1>7, <1>8, <1>9 DEF Fair
  <1> QED BY <1>10 DEF s

\* Below a power whose base is above all factors there are only smaller
\* products, and the other way round.
LEMMA ProductsAndPowers ==
    ASSUME NEW rs, NEW m \in Nat, Scored(rs, m), NEW r \in Nat
    PROVE  /\ Power(r, Len(rs)) \in Nat /\ ProductScores(rs) \in Nat
           /\ (\A n \in 1 .. Len(rs) : r <= rs[n].score) => Power(r, Len(rs)) <= ProductScores(rs)
           /\ r > 0 /\ (\A n \in 1 .. Len(rs) : rs[n].score <= r)
                /\ (\E n \in 1 .. Len(rs) : rs[n].score < r)
                => ProductScores(rs) < Power(r, Len(rs))
  <1> DEFINE N == Len(rs)
             a == [n \in 1 .. N |-> rs[n].score]
             b == [n \in 1 .. N |-> r]
  <1>1. /\ N \in Nat /\ a \in [1 .. N -> Nat] /\ b \in [1 .. N -> Nat]
        /\ \A n \in 1 .. N : a[n] = rs[n].score /\ b[n] = r
    BY DEF Scored
  <1> HIDE DEF a, b
  <1>2. PICK f : IsProduct(f, a, N) /\ ProductScores(rs) = f[N]
    BY <1>1, ProductScoresIs
  <1> HIDE DEF N
  <1>3. PICK g : IsProduct(g, b, N) /\ Power(r, N) = g[N]
    BY <1>1, PowerIs
  <1>4. f[N] \in Nat /\ g[N] \in Nat
    <2>1. f \in [0 .. N -> Nat] /\ g \in [0 .. N -> Nat]
      BY <1>1, <1>2, <1>3, ProductsAreNumbers
    <2> QED BY <1>1, <2>1
  <1>5. ASSUME \A n \in 1 .. N : r <= rs[n].score PROVE g[N] <= f[N]
    <2>1. \A n \in 1 .. N : b[n] <= a[n]
      BY <1>1, <1>5
    <2> QED BY <1>1, <1>2, <1>3, <2>1, ProductsAreMonotone
  <1>6. ASSUME r > 0, \A n \in 1 .. N : rs[n].score <= r, NEW k \in 1 .. N, rs[k].score < r
        PROVE  f[N] < g[N]
    <2>1. (\A n \in 1 .. N : a[n] <= b[n]) /\ (\A n \in 1 .. N : b[n] > 0) /\ a[k] < b[k]
      BY <1>1, <1>6
    <2> QED BY <1>1, <1>2, <1>3, <2>1, ProductsAreMonotone
  <1> QED BY <1>2, <1>3, <1>4, <1>5, <1>6 DEF N

\* Where the power of r is not above the product, no score is further below m
\* than N times what r is.
LEMMA RootsAreNear ==
    ASSUME NEW rs, NEW m \in Nat, Scored(rs, m), NEW r \in 0 .. m,
           Power(r, Len(rs)) <= ProductScores(rs), NEW k \in 1 .. Len(rs)
    PROVE  m - rs[k].score <= Len(rs) * (m - r)
  <1> DEFINE N == Len(rs)
             a == [n \in 1 .. N |-> rs[n].score]
             b == [n \in 1 .. N |-> m]
             c == [n \in 1 .. N |-> r]
  <1>0. r \in Nat
    OBVIOUS
  <1>1. /\ N \in Nat \ {0} /\ a \in [1 .. N -> Nat] /\ b \in [1 .. N -> Nat] /\ c \in [1 .. N -> Nat]
        /\ \A n \in 1 .. N : a[n] = rs[n].score /\ a[n] <= m /\ b[n] = m /\ c[n] = r
    BY DEF Scored
  <1> HIDE DEF a, b, c
  <1>2. PICK f : IsProduct(f, a, N) /\ ProductScores(rs) = f[N]
    BY <1>1, ProductScoresIs
  <1> HIDE DEF N
  <1>3. PICK g : IsProduct(g, b, N)
    BY <1>1, ProductsAreNumbers
  <1>4. PICK h : IsProduct(h, c, N) /\ Power(r, N) = h[N]
    BY <1>0, <1>1, PowerIs
  <1>5. m * f[N] <= a[k] * g[N]
    BY <1>1, <1>2, <1>3, OneFactor DEF N
  <1>6. g[N] * (m - N * (m - r)) <= m * h[N]
    BY <1>1, <1>3, <1>4, Bernoulli
  <1>7. /\ f \in [0 .. N -> Nat] /\ g \in [0 .. N -> Nat] /\ h \in [0 .. N -> Nat]
    BY <1>1, <1>2, <1>3, <1>4, ProductsAreNumbers
  <1>8. f[N] \in Nat /\ g[N] \in Nat /\ h[N] \in Nat /\ h[N] <= f[N]
    <2>1. h[N] <= f[N]
      BY <1>2, <1>4 DEF N
    <2> QED BY <1>1, <1>7, <2>1
  <1>9. m * h[N] <= m * f[N] /\ m * h[N] \in Nat /\ m * f[N] \in Nat
    BY <1>8, FactorsKeepOrder
  <1>10. CASE m = 0
    BY <1>0, <1>1, <1>10 DEF N
  <1>11. CASE m > 0
    <2>1. g[N] > 0
      <3> DEFINE S == {n \in 0 .. N : g[n] > 0}
      <3>0. /\ g \in [0 .. N -> Nat] /\ g[0] = 1 /\ \A n \in 1 .. N : g[n] = g[n - 1] * b[n]
        BY <1>1, <1>3, ProductsAreNumbers
      <3>1. 0 \in S
        BY <1>1, <3>0
      <3>2. ASSUME NEW n \in 0 .. N, n \in S, n < N PROVE n + 1 \in S
        <4>1. n + 1 \in 1 .. N /\ (n + 1) - 1 = n /\ n + 1 \in 0 .. N
          BY <1>1, <3>2
        <4>2. g[n + 1] = g[n] * m /\ g[n] \in Nat /\ g[n] > 0
          BY <1>1, <3>0, <3>2, <4>1
        <4>3. g[n] * m > 0
          BY <1>11, <4>2
        <4> QED BY <4>1, <4>2, <4>3
      <3> HIDE DEF S
      <3>3. \A n \in 0 .. N : n \in S
        BY <1>1, <3>1, <3>2, CountUp
      <3>4. N \in S
        BY <1>1, <3>3
      <3> QED BY <3>4 DEF S
    <2> DEFINE u == m - N * (m - r)
    <2>2. u \in Int /\ a[k] \in Nat /\ g[N] * u <= a[k] * g[N]
      <3>1. u \in Int /\ a[k] \in Nat
        BY <1>0, <1>1 DEF N
      <3>2. g[N] * u \in Int /\ a[k] * g[N] \in Nat
        BY <1>8, <3>1
      <3> QED BY <1>5, <1>6, <1>8, <1>9, <3>1, <3>2
    <2>3. u <= a[k]
      <3> HIDE DEF u
      <3>1. ASSUME a[k] < u PROVE FALSE
        <4>1. g[N] * a[k] < g[N] * u
          BY <1>8, <2>1, <2>2, <3>1
        <4> QED BY <1>8, <2>2, <4>1
      <3> QED BY <2>2, <3>1
    <2>4. N * (m - r) \in Int
      BY <1>0, <1>1
    <2> QED BY <1>1, <2>2, <2>3, <2>4 DEF N
  <1> QED BY <1>10, <1>11

\* The greatest number whose power is not above the product.
LEMMA GeometricIsFair ==
    ASSUME NEW rs, NEW m \in Nat, Scored(rs, m)
    PROVE  LET below(r) == Power(r, Len(rs)) <= ProductScores(rs)
           IN  Fair(CHOOSE r \in 0 .. m : below(r) /\ \A q \in 0 .. m : below(q) => q <= r, rs, m)
  <1> DEFINE N == Len(rs)
             below(r) == Power(r, Len(rs)) <= ProductScores(rs)
             T == {r \in 0 .. m : below(r)}
             s == CHOOSE r \in 0 .. m : below(r) /\ \A q \in 0 .. m : below(q) => q <= r
  <1>1. N \in Nat \ {0} /\ \A n \in 1 .. N : rs[n].score \in 0 .. m
    BY DEF Scored
  <1>2. ASSUME NEW r \in 0 .. m, \A n \in 1 .. N : r <= rs[n].score PROVE below(r)
    <2>1. r \in Nat
      OBVIOUS
    <2> QED BY <1>2, <2>1, ProductsAndPowers
  <1>3. \A r \in 0 .. m : r > 0 /\ (\A n \in 1 .. N : rs[n].score <= r)
                            /\ (\E n \in 1 .. N : rs[n].score < r) => ~ below(r)
    <2> SUFFICES ASSUME NEW r \in 0 .. m, r > 0, \A n \in 1 .. N : rs[n].score <= r,
                        \E n \in 1 .. N : rs[n].score < r
                 PROVE  ~ below(r)
      OBVIOUS
    <2>1. r \in Nat
      OBVIOUS
    <2>2. /\ Power(r, N) \in Nat /\ ProductScores(rs) \in Nat
          /\ ProductScores(rs) < Power(r, N)
      BY <2>1, ProductsAndPowers
    <2> QED BY <2>2
  <1> HIDE DEF below
  <1>4. 0 \in T
    BY <1>1, <1>2
  <1>5. \E r \in 0 .. m : below(r) /\ \A q \in 0 .. m : below(q) => q <= r
    <2>1. PICK r \in T : \A q \in T : q <= r
      <3>1. T \in SUBSET (0 .. m) /\ T # {}
        BY <1>4
      <3> HIDE DEF T
      <3> QED BY <3>1, GreatestNumber
    <2> QED BY <2>1
  <1>6. s \in 0 .. m /\ below(s) /\ \A q \in 0 .. m : below(q) => q <= s
    BY <1>5
  <1> HIDE DEF s
  <1>7. \E n \in 1 .. N : s <= rs[n].score
    <2> SUFFICES ASSUME \A n \in 1 .. N : ~ (s <= rs[n].score) PROVE FALSE
      OBVIOUS
    <2>1. \A n \in 1 .. N : rs[n].score < s /\ rs[n].score <= s
      BY <1>1, <1>6
    <2>2. 1 \in 1 .. N /\ s > 0
      BY <1>1, <1>6, <2>1
    <2> QED BY <1>3, <1>6, <2>1, <2>2
  <1>8. s = m <=> \A n \in 1 .. N : rs[n].score = m
    <2>1. ASSUME \A n \in 1 .. N : rs[n].score = m PROVE s = m
      <3>1. below(m)
        BY <1>2, <2>1
      <3> QED BY <1>6, <3>1
    <2>2. ASSUME s = m, NEW k \in 1 .. N, rs[k].score # m PROVE FALSE
      <3>1. rs[k].score < m /\ m > 0 /\ \A n \in 1 .. N : rs[n].score <= m
        BY <1>1, <2>2
      <3> QED BY <1>3, <1>6, <2>2, <3>1
    <2> QED BY <2>1, <2>2
  <1>9. \A n \in 1 .. N : m - rs[n].score <= N * (m - s)
    BY <1>6, RootsAreNear DEF below
  <1>10. Fair(s, rs, m)
    BY <1>6, <1>7, <1>8, <1>9 DEF Fair
  <1> QED BY <1>10 DEF s, below

\* All three.
LEMMA AggregateIsFair ==
    ASSUME NEW rs, Scored(rs, Unit), NEW how \in {"mean", "minimum", "geometric_mean"}
    PROVE  Fair(Aggregate(rs, how), rs, Unit)
  <1>1. Unit \in Nat
    BY LimitsAreNumbers
  <1>2. CASE how = "mean"
    BY <1>1, <1>2, MeanIsFair DEF Aggregate
  <1>3. CASE how = "minimum"
    BY <1>1, <1>3, MinimumIsFair DEF Aggregate
  <1>4. CASE how = "geometric_mean"
    BY <1>1, <1>4, GeometricIsFair DEF Aggregate
  <1> QED BY <1>2, <1>3, <1>4

-----------------------------------------------------------------------------
\* The grain of the scores.
LEMMA GrainsAreNumbers ==
    /\ Unit \in Nat \ {0} /\ Tests \in Nat \ {0} /\ Grain \in Nat \ {0}
    /\ Tests * Grain \in Nat /\ Tests * Grain < 2 * Unit
    /\ Unit \div Grain \in Nat /\ Unit = (Unit \div Grain) * Grain
  <1>1. Unit \in Nat \ {0} /\ Tests \in Nat \ {0} /\ Grain \in Nat \ {0} /\ Unit % Grain = 0
    BY UnitsAreNumbers, GrainAssumption DEF GrainAssumption
  <1>2. Unit \div Grain \in Nat /\ Unit = Grain * (Unit \div Grain) + (Unit % Grain)
    BY <1>1, Division
  <1>3. Unit = (Unit \div Grain) * Grain
    BY <1>1, <1>2
  <1>4. Tests * Grain \in Nat /\ Tests * Grain < 2 * Unit
    BY <1>1, GrainAssumption DEF GrainAssumption
  <1> QED BY <1>1, <1>2, <1>3, <1>4

\* What rounding does, in quotient and rest.
LEMMA RoundedIs ==
    ASSUME NEW x \in Nat
    PROVE  \E q \in Nat, r \in 0 .. Grain - 1 :
             /\ q = x \div Grain /\ r = x % Grain /\ x = q * Grain + r
             /\ Rounded(x) = IF 2 * r > Grain \/ (2 * r = Grain /\ q % 2 = 1)
                             THEN q * Grain + Grain ELSE q * Grain
  <1> DEFINE q == x \div Grain
             r == x % Grain
             up == 2 * r > Grain \/ (2 * r = Grain /\ q % 2 = 1)
  <1>1. Grain \in Nat \ {0}
    BY GrainsAreNumbers
  <1>2. q \in Nat /\ x = Grain * q + r
    BY <1>1, Division
  <1>3. r \in 0 .. Grain - 1
    BY <1>1
  <1>4. Rounded(x) = (IF up THEN q + 1 ELSE q) * Grain
    BY DEF Rounded
  <1> HIDE DEF q, r
  <1>5. (q + 1) * Grain = q * Grain + Grain /\ Grain * q = q * Grain
    BY <1>1, <1>2
  <1>6. Rounded(x) = IF up THEN q * Grain + Grain ELSE q * Grain
    BY <1>4, <1>5
  <1>7. x = q * Grain + r
    BY <1>2, <1>5
  <1> QED BY <1>2, <1>3, <1>6, <1>7 DEF q, r

\* A rounded score is a score, at most half a grain above the score.
LEMMA RoundingIsFair ==
    ASSUME NEW x \in 0 .. Unit
    PROVE  /\ Rounded(x) \in 0 .. Unit /\ 2 * Rounded(x) <= 2 * x + Grain
           /\ x = Unit => Rounded(x) = Unit
  <1>0. Unit \in Nat /\ Grain \in Nat \ {0} /\ x \in Nat
    BY GrainsAreNumbers
  <1>1. PICK k \in Nat : Unit = k * Grain
    BY GrainsAreNumbers
  <1>2. PICK q \in Nat, r \in 0 .. Grain - 1 :
             /\ x = q * Grain + r
             /\ Rounded(x) = IF 2 * r > Grain \/ (2 * r = Grain /\ q % 2 = 1)
                             THEN q * Grain + Grain ELSE q * Grain
    BY <1>0, RoundedIs
  <1>3. q * Grain \in Nat /\ q * Grain <= Unit
    BY <1>0, <1>2
  <1>4. ASSUME r # 0 PROVE q * Grain + Grain <= Unit
    <2>1. q * Grain < k * Grain
      BY <1>0, <1>1, <1>2, <1>4
    <2>2. q < k
      BY <1>0, <2>1
    <2>3. q + 1 <= k
      BY <2>2
    <2>4. (q + 1) * Grain <= k * Grain
      BY <1>0, <2>3
    <2> QED BY <1>0, <1>1, <2>4
  <1>5. CASE 2 * r > Grain \/ (2 * r = Grain /\ q % 2 = 1)
    <2>1. r # 0 /\ Rounded(x) = q * Grain + Grain
      BY <1>0, <1>2, <1>5
    <2>2. q * Grain + Grain <= Unit
      BY <1>4, <2>1
    <2>3. 2 * r >= Grain
      BY <1>0, <1>5
    <2>4. x # Unit
      BY <1>0, <1>2, <1>3, <2>2
    <2> QED BY <1>0, <1>2, <1>3, <2>1, <2>2, <2>3, <2>4
  <1>6. CASE ~ (2 * r > Grain \/ (2 * r = Grain /\ q % 2 = 1))
    <2>1. Rounded(x) = q * Grain
      BY <1>2, <1>6
    <2>2. ASSUME x = Unit PROVE r = 0
      BY <1>0, <1>2, <1>3, <1>4, <2>2
    <2> QED BY <1>0, <1>2, <1>3, <2>1, <2>2
  <1> QED BY <1>5, <1>6

\* Rounding keeps the order.
LEMMA RoundingIsMonotone ==
    ASSUME NEW x \in Nat, NEW y \in Nat, x <= y
    PROVE  Rounded(x) <= Rounded(y)
  <1>0. Grain \in Nat \ {0}
    BY GrainsAreNumbers
  <1>1. PICK q \in Nat, r \in 0 .. Grain - 1 :
             /\ x = q * Grain + r
             /\ Rounded(x) = IF 2 * r > Grain \/ (2 * r = Grain /\ q % 2 = 1)
                             THEN q * Grain + Grain ELSE q * Grain
    BY RoundedIs
  <1>2. PICK p \in Nat, s \in 0 .. Grain - 1 :
             /\ y = p * Grain + s
             /\ Rounded(y) = IF 2 * s > Grain \/ (2 * s = Grain /\ p % 2 = 1)
                             THEN p * Grain + Grain ELSE p * Grain
    BY RoundedIs
  <1>3. q * Grain \in Nat /\ p * Grain \in Nat
    BY <1>0
  <1>4. CASE q = p
    <2>1. r <= s
      BY <1>0, <1>1, <1>2, <1>3, <1>4
    <2> QED BY <1>0, <1>1, <1>2, <1>3, <1>4, <2>1
  <1>5. CASE q < p
    <2>1. (q + 1) * Grain <= p * Grain
      BY <1>0, <1>5
    <2>2. q * Grain + Grain <= p * Grain
      BY <1>0, <2>1
    <2> QED BY <1>0, <1>1, <1>2, <1>3, <2>2
  <1>6. CASE p < q
    <2>1. (p + 1) * Grain <= q * Grain
      BY <1>0, <1>6
    <2>2. p * Grain + Grain <= q * Grain
      BY <1>0, <2>1
    <2>3. y < x
      BY <1>0, <1>1, <1>2, <1>3, <2>2
    <2> QED BY <2>3
  <1> QED BY <1>4, <1>5, <1>6

-----------------------------------------------------------------------------
\* The first verdict of a set, or the default.
LEMMA FirstVerdictIs ==
    ASSUME NEW rs, Len(rs) \in Nat, DOMAIN rs = 1 .. Len(rs), NEW set, NEW default
    PROVE  \/ FirstVerdict(rs, set, default) = default /\ \A n \in DOMAIN rs : rs[n].verdict \notin set
           \/ \E n \in DOMAIN rs : rs[n].verdict \in set /\ FirstVerdict(rs, set, default) = rs[n].verdict
  <1> DEFINE hits == {n \in DOMAIN rs : rs[n].verdict \in set}
             first == CHOOSE n \in hits : \A k \in hits : n <= k
  <1>1. CASE hits = {}
    BY <1>1 DEF FirstVerdict
  <1>2. CASE hits # {}
    <2>1. hits \in SUBSET Nat
      OBVIOUS
    <2>2. first \in hits
      <3> HIDE DEF hits
      <3> QED BY <1>2, <2>1, LeastNumber
    <2>3. FirstVerdict(rs, set, default) = rs[first].verdict
      BY <1>2 DEF FirstVerdict
    <2> HIDE DEF first
    <2> QED BY <2>2, <2>3
  <1> QED BY <1>1, <1>2

\* A quotient of objectives is a score, and the full one exactly where the
\* candidate is as good as the baseline.
LEMMA QuotientIsFair ==
    ASSUME NEW x \in Nat, NEW d \in Nat \ {0}
    PROVE  LET q == (x * Unit) \div d
           IN  /\ q \in Nat /\ (x <= d => q <= Unit)
               /\ (IF q > Unit THEN Unit ELSE q) \in 0 .. Unit
               /\ (IF q > Unit THEN Unit ELSE q) = Unit <=> d <= x
               /\ (IF q > Unit THEN Unit ELSE q) * d <= x * Unit
  <1> DEFINE q == (x * Unit) \div d
  <1>1. Unit \in Nat \ {0} /\ x * Unit \in Nat
    BY ProcessAssumption
  <1>2. q \in Nat /\ \A n \in Nat : n * d <= x * Unit <=> n <= q
    <2> DEFINE y == x * Unit
    <2>1. y \in Nat
      BY <1>1
    <2> HIDE DEF y
    <2>2. y \div d \in Nat /\ \A n \in Nat : n * d <= y <=> n <= y \div d
      BY <2>1, Division
    <2> QED BY <2>2 DEF y
  <1> HIDE DEF q
  <1>3. Unit * d <= x * Unit <=> d <= x
    <2>1. ASSUME d <= x PROVE Unit * d <= x * Unit
      BY <1>1, <2>1
    <2>2. ASSUME ~ (d <= x) PROVE ~ (Unit * d <= x * Unit)
      <3>1. x < d
        BY <2>2
      <3>2. x * Unit < Unit * d
        BY <1>1, <3>1
      <3>3. Unit * d \in Nat
        BY <1>1
      <3> QED BY <1>1, <3>2, <3>3
    <2> QED BY <2>1, <2>2
  <1>4. Unit <= q <=> d <= x
    BY <1>1, <1>2, <1>3
  <1>5. (IF q > Unit THEN Unit ELSE q) \in 0 .. Unit /\ ((IF q > Unit THEN Unit ELSE q) = Unit <=> Unit <= q)
    BY <1>1, <1>2
  <1>6. ASSUME x <= d PROVE q <= Unit
    <2>1. q * d <= x * Unit
      BY <1>2
    <2>2. x * Unit <= d * Unit
      BY <1>1, <1>6
    <2>3. ASSUME ~ (q <= Unit) PROVE FALSE
      <3>1. Unit + 1 <= q
        BY <1>1, <1>2, <2>3
      <3>2. (Unit + 1) * d <= q * d
        BY <1>1, <1>2, <3>1
      <3>3. (Unit + 1) * d = d * Unit + d
        BY <1>1
      <3>4. d * Unit \in Nat /\ q * d \in Nat
        BY <1>1, <1>2
      <3> QED BY <1>1, <2>1, <2>2, <3>2, <3>3, <3>4
    <2> QED BY <2>3
  <1>7. (IF q > Unit THEN Unit ELSE q) * d <= x * Unit
    <2> DEFINE v == IF q > Unit THEN Unit ELSE q
    <2>1. v \in Nat /\ v <= q
      BY <1>1, <1>2
    <2> HIDE DEF v
    <2>2. v * d <= x * Unit
      BY <1>2, <2>1
    <2> QED BY <2>2 DEF v
  <1>8. q \in Nat /\ (x <= d => q <= Unit) /\ (IF q > Unit THEN Unit ELSE q) \in 0 .. Unit
        /\ ((IF q > Unit THEN Unit ELSE q) = Unit <=> d <= x)
        /\ (IF q > Unit THEN Unit ELSE q) * d <= x * Unit
    BY <1>2, <1>4, <1>5, <1>6, <1>7
  <1> QED BY <1>8 DEF q

\* _baseline_ratio, in both directions and with zeros on either side: it is the
\* full score where the candidate is as good, and no more than what it is worth.
LEMMA RatioIsFair ==
    ASSUME NEW c \in Int, NEW b \in Int, NEW direction, BaselineRatio(c, b, direction) # NULL
    PROVE  /\ BaselineRatio(c, b, direction) \in 0 .. Unit
           /\ BaselineRatio(c, b, direction) = Unit
                <=> IF direction = "maximize" THEN c >= b ELSE c <= b
           /\ c \in Nat /\ b \in Nat
           /\ IF direction = "maximize" THEN BaselineRatio(c, b, direction) * b <= c * Unit
                                        ELSE BaselineRatio(c, b, direction) * c <= b * Unit
  <1>0. c \in Nat /\ b \in Nat /\ Unit \in Nat \ {0}
    BY ProcessAssumption DEF BaselineRatio
  <1>1. CASE direction = "maximize" /\ b = 0
    BY <1>0, <1>1 DEF BaselineRatio
  <1>2. CASE direction = "maximize" /\ b # 0
    <2> DEFINE q == (c * Unit) \div b
    <2>1. BaselineRatio(c, b, direction) = IF q > Unit THEN Unit ELSE q
      BY <1>0, <1>2 DEF BaselineRatio
    <2>2. q \in Nat /\ (IF q > Unit THEN Unit ELSE q) \in 0 .. Unit
          /\ ((IF q > Unit THEN Unit ELSE q) = Unit <=> b <= c)
          /\ (IF q > Unit THEN Unit ELSE q) * b <= c * Unit
      BY <1>0, <1>2, QuotientIsFair
    <2> HIDE DEF q
    <2> QED BY <1>0, <1>2, <2>1, <2>2
  <1>3. CASE direction # "maximize" /\ c = 0
    BY <1>0, <1>3 DEF BaselineRatio
  <1>4. CASE direction # "maximize" /\ c # 0 /\ b = 0
    BY <1>0, <1>4 DEF BaselineRatio
  <1>5. CASE direction # "maximize" /\ c # 0 /\ b # 0
    <2> DEFINE q == (b * Unit) \div c
    <2>1. BaselineRatio(c, b, direction) = IF q > Unit THEN Unit ELSE q
      BY <1>0, <1>5 DEF BaselineRatio
    <2>2. q \in Nat /\ (IF q > Unit THEN Unit ELSE q) \in 0 .. Unit
          /\ ((IF q > Unit THEN Unit ELSE q) = Unit <=> c <= b)
          /\ (IF q > Unit THEN Unit ELSE q) * c <= b * Unit
      BY <1>0, <1>5, QuotientIsFair
    <2> HIDE DEF q
    <2> QED BY <1>0, <1>5, <2>1, <2>2
  <1> QED BY <1>1, <1>2, <1>3, <1>4, <1>5

-----------------------------------------------------------------------------
(***************************************************************************)
(* The invariant of the scoring. What a result says depends on the rows, a *)
(* row on the objective of the baseline at its test, and both on where the *)
(* evaluator is: how many rows it has at every stage, that the baseline    *)
(* has an objective for every instance when the submission is run, and     *)
(* that a row was given what it was worth when it was made.                *)
(***************************************************************************)
\* The stages at the first test, those before any row, and those that make rows.
AtFirst == Early \cup {"rejected", "reference_compile", "compile", "baseline_compile"}
Unjudged == AtFirst \cup {"reference", "baseline", "baseline_evaluate", "phase"}
Judging == {"test", "check", "evaluate", "answer"}

\* Where the evaluator is.
PlaceInv ==
    /\ test \in Nat \ {0} /\ (~ IsQuiz => test <= Tests)
    /\ rows \in Seq(IF IsQuiz THEN QuizRow ELSE Row) /\ Len(rows) <= test
    /\ stage \in AtFirst => test = 1
    /\ stage \in Unjudged => rows = <<>>
    /\ stage \in Judging => Len(rows) = test - 1
    /\ stage = "score" => Len(rows) = test /\ (~ IsQuiz => test = Tests)

\* The questions of a quiz.
Asked(p) ==
    /\ Len(p.questions) \in Nat /\ DOMAIN p.questions = 1 .. Len(p.questions)
    /\ \A n \in 1 .. Len(p.questions) : p.questions[n].points \in Nat \ {0}

\* A quiz is at one of its questions.
QuestionInv ==
    IsQuiz =>
        /\ stage \in {"answer", "score"} \/ rows # <<>> => Asked(pkg) /\ test <= Len(pkg.questions)
        /\ stage = "score" => test = Len(pkg.questions)

\* The objectives of the baseline.
Unread == Early \cup {"rejected", "returned", "escaped"}

\* The baseline has an objective for every instance it was run on.
ReferenceInv ==
    /\ baseline \in Seq(Objectives)
    /\ IsOptimization =>
         /\ stage \in AtFirst => baseline = <<>>
         /\ stage \in {"baseline", "baseline_evaluate"} => Len(baseline) = test - 1
         /\ stage \in {"test", "evaluate", "score"} /\ pkg.baseline => Len(baseline) = Tests
         /\ stage \notin Unread =>
              /\ pkg.aggregation \in {"mean", "minimum", "geometric_mean"}
              /\ pkg.scoring = "baseline_ratio" => pkg.baseline

\* What a row is worth against the objective of the baseline.
Weighed(row, base) ==
    IF row.verdict = "OK"
    THEN /\ row.objective \in Nat /\ base \in Nat
         /\ IF pkg.direction = "maximize"
            THEN /\ row.score = Unit <=> row.objective >= base
                 /\ row.score * base <= row.objective * Unit
            ELSE /\ row.score = Unit <=> row.objective <= base
                 /\ row.score * row.objective <= base * Unit
    ELSE row.score = 0

\* What a row is worth.
Earned(n) ==
    /\ IsClassic => rows[n].score = IF rows[n].verdict = "OK" THEN Unit ELSE 0
    /\ IsOptimization /\ pkg.scoring = "baseline_ratio" => Weighed(rows[n], baseline[n])
    /\ IsQuiz => rows[n].score <= pkg.questions[n].points

\* Every row is worth what it says.
EarnedInv == \A n \in 1 .. Len(rows) : Earned(n)

\* A score is one the kind of the package may give.
InRange == result \in Result => result.score \in Scores

\* What the grader returned agrees with the rows.
ResultInv ==
    /\ result \in Result \cup {NULL} /\ (stage = "returned" => result \in Result)
    /\ InRange /\ ClassicVerdictAgrees /\ RatioAgainstBaseline

\* All of it.
ScoreInv == PlaceInv /\ QuestionInv /\ ReferenceInv /\ EarnedInv /\ ResultInv

\* The scores of the unit are scores of every kind.
LEMMA UnitScores == ASSUME NEW x \in 0 .. Unit PROVE x \in Scores
  BY UnitsAreNumbers DEF Scores

\* The same result of the same kind of package is in the same range.
LEMMA RangeStays ==
    ASSUME InRange, result' = result, pkg'.kind = pkg.kind PROVE InRange'
  BY DEF InRange, Result, Scores, IsScorer, IsModel

\* A row that is worth nearly the full score is nearly as good as the baseline.
LEMMA NearlyFull ==
    ASSUME NEW n, Weighed(rows[n], baseline[n]), rows[n].score \in 0 .. Unit,
           2 * rows[n].score >= 2 * Unit - Tests * Grain
    PROVE  NearlyAsGood(n)
  <1> DEFINE nearly == 2 * Unit - Tests * Grain
             x == rows[n].score
             o == rows[n].objective
             b == baseline[n]
  <1>0. Unit \in Nat /\ nearly \in Nat \ {0} /\ x \in Nat /\ nearly <= 2 * x
    BY GrainsAreNumbers
  <1>1. rows[n].verdict = "OK" /\ o \in Nat /\ b \in Nat
    BY <1>0 DEF Weighed
  <1> HIDE DEF nearly, x, o, b
  <1>2. ASSUME NEW y \in Nat, NEW z \in Nat, x * y <= z * Unit PROVE z * 2 * Unit >= y * nearly
    <2>1. nearly * y <= (2 * x) * y
      BY <1>0, FactorsKeepOrder
    <2>2. (2 * x) * y = 2 * (x * y) /\ z * 2 * Unit = 2 * (z * Unit) /\ nearly * y = y * nearly
      BY <1>0
    <2>3. x * y \in Nat /\ z * Unit \in Nat /\ y * nearly \in Nat
      BY <1>0
    <2> QED BY <1>2, <2>1, <2>2, <2>3
  <1>3. CASE pkg.direction = "maximize"
    <2>1. x * b <= o * Unit
      BY <1>1, <1>3 DEF Weighed, x, o, b
    <2>2. o * 2 * Unit >= b * nearly
      BY <1>1, <1>2, <2>1
    <2> QED BY <1>1, <1>3, <2>2 DEF NearlyAsGood, nearly, o, b
  <1>4. CASE pkg.direction # "maximize"
    <2>1. x * o <= b * Unit
      BY <1>1, <1>4 DEF Weighed, x, o, b
    <2>2. b * 2 * Unit >= o * nearly
      BY <1>1, <1>2, <2>1
    <2> QED BY <1>1, <1>4, <2>2 DEF NearlyAsGood, nearly, o, b
  <1> QED BY <1>3, <1>4

\* The rows of an evaluation that comes to its score.
LEMMA RowsAreScored ==
    ASSUME PlaceInv, ~ IsQuiz, stage = "score"
    PROVE  /\ Scored(rows, Unit) /\ Len(rows) = Tests /\ DOMAIN rows = 1 .. Tests
           /\ \A n \in 1 .. Tests : rows[n] \in Row
  <1>1. rows \in Seq(Row) /\ Len(rows) = Tests /\ Tests \in Nat \ {0}
    BY UnitsAreNumbers DEF PlaceInv
  <1>2. \A n \in 1 .. Tests : rows[n] \in Row
    BY <1>1
  <1> QED BY <1>1, <1>2 DEF Scored, Row

\* The verdict over all tests is one of a test, or the default.
LEMMA VerdictOverTests ==
    ASSUME PlaceInv, ~ IsQuiz, stage = "score", NEW set, NEW default
    PROVE  \/ FirstVerdict(rows, set, default) = default /\ \A n \in 1 .. Tests : rows[n].verdict \notin set
           \/ FirstVerdict(rows, set, default) \in set \cap Verdicts
                /\ \E n \in 1 .. Tests : rows[n].verdict \in set
  <1>1. /\ Len(rows) = Tests /\ DOMAIN rows = 1 .. Tests /\ Tests \in Nat
        /\ \A n \in 1 .. Tests : rows[n] \in Row
    BY RowsAreScored, UnitsAreNumbers
  <1>2. \/ FirstVerdict(rows, set, default) = default /\ \A n \in DOMAIN rows : rows[n].verdict \notin set
        \/ \E n \in DOMAIN rows : rows[n].verdict \in set /\ FirstVerdict(rows, set, default) = rows[n].verdict
    BY <1>1, FirstVerdictIs
  <1>3. \A n \in 1 .. Tests : rows[n].verdict \in Verdicts
    BY <1>1 DEF Row
  <1> QED BY <1>1, <1>2, <1>3

\* A classic evaluation: its score and its verdict agree with the rows.
LEMMA ClassicScores ==
    ASSUME PlaceInv, EarnedInv, IsClassic, stage = "score"
    PROVE  LET ok == {n \in 1 .. Tests : n <= Len(rows) /\ rows[n].verdict = "OK"} IN
           /\ ClassicScore(rows) \in 0 .. Unit /\ ClassicVerdict(rows) \in Verdicts
           /\ ClassicVerdict(rows) = "AC" <=> ok = 1 .. Tests
           /\ ClassicScore(rows) = Unit <=> ok = 1 .. Tests
           /\ ClassicScore(rows) = 0 <=> (ok = {} \/ (pkg.scoring = "all_or_nothing" /\ ok # 1 .. Tests))
  <1> DEFINE ok == {n \in 1 .. Tests : n <= Len(rows) /\ rows[n].verdict = "OK"}
             sum == SumScores(rows)
  <1>0. ~ IsQuiz /\ Unit \in Nat \ {0} /\ Tests \in Nat \ {0} /\ Tests <= Unit
    BY UnitsAreNumbers DEF IsClassic, IsQuiz
  <1>1. /\ Scored(rows, Unit) /\ Len(rows) = Tests /\ DOMAIN rows = 1 .. Tests
        /\ \A n \in 1 .. Tests : rows[n] \in Row
    BY <1>0, RowsAreScored
  <1>2. \A n \in 1 .. Tests : rows[n].score = IF rows[n].verdict = "OK" THEN Unit ELSE 0
    BY <1>1 DEF EarnedInv, Earned
  <1>3. Passed(rows) = ok
    BY <1>1 DEF Passed
  <1>4. ok = 1 .. Tests <=> \A n \in 1 .. Tests : rows[n].score = Unit
    BY <1>0, <1>1, <1>2
  <1>5. ok = {} <=> \A n \in 1 .. Tests : rows[n].score = 0
    BY <1>0, <1>1, <1>2
  <1>6. ok = 1 .. Tests => ok # {}
    BY <1>0
  <1>7. ClassicVerdict(rows) \in Verdicts /\ (ClassicVerdict(rows) = "AC" <=> ok = 1 .. Tests)
    <2> DEFINE default == IF Passed(rows) = DOMAIN rows THEN "AC" ELSE "WA"
               v == FirstVerdict(rows, {"TLE", "OLE", "RE"}, default)
    <2>1. \/ v = default /\ \A n \in 1 .. Tests : rows[n].verdict \notin {"TLE", "OLE", "RE"}
          \/ v \in {"TLE", "OLE", "RE"} \cap Verdicts
               /\ \E n \in 1 .. Tests : rows[n].verdict \in {"TLE", "OLE", "RE"}
      <3> HIDE DEF default
      <3> QED BY <1>0, VerdictOverTests
    <2>2. ClassicVerdict(rows) = v
      BY DEF ClassicVerdict
    <2>3. default = IF ok = 1 .. Tests THEN "AC" ELSE "WA"
      BY <1>1, <1>3
    <2>4. "AC" \in Verdicts /\ "WA" \in Verdicts
      BY DEF Verdicts
    <2>5. (\E n \in 1 .. Tests : rows[n].verdict \in {"TLE", "OLE", "RE"}) => ok # 1 .. Tests
      OBVIOUS
    <2> HIDE DEF v, default, ok
    <2> QED BY <2>1, <2>2, <2>3, <2>4, <2>5
  <1>8. CASE pkg.scoring = "all_or_nothing"
    <2>1. ClassicScore(rows) = IF ok = 1 .. Tests THEN Unit ELSE 0
      BY <1>1, <1>3, <1>8 DEF ClassicScore
    <2> HIDE DEF ok
    <2> QED BY <1>0, <1>6, <1>7, <1>8, <2>1 DEF ok
  <1>9. CASE pkg.scoring # "all_or_nothing"
    <2>1. ClassicScore(rows) = sum \div Tests
      BY <1>1, <1>9 DEF ClassicScore
    <2>2. Fair(sum \div Tests, rows, Unit)
      BY <1>0, <1>1, MeanIsFair
    <2>3. sum \in Nat /\ \A n \in 1 .. Tests : rows[n].score <= sum
      BY <1>0, <1>1, SumIsBounded
    <2>4. sum \div Tests \in Nat /\ \A q \in Nat : q * Tests <= sum <=> q <= sum \div Tests
      <3> HIDE DEF sum
      <3> QED BY <1>0, <2>3, Division
    <2>5. ASSUME ok # {} PROVE sum \div Tests # 0
      <3>1. PICK n \in 1 .. Tests : rows[n].score = Unit
        BY <1>2, <2>5
      <3>2. 1 * Tests <= sum
        BY <1>0, <2>3, <3>1
      <3>3. 1 <= sum \div Tests
        BY <2>4, <3>2
      <3> QED BY <2>4, <3>3
    <2>6. ASSUME ok = {} PROVE sum \div Tests = 0
      <3>1. PICK n \in 1 .. Tests : sum \div Tests <= rows[n].score
        BY <1>1, <2>2 DEF Fair
      <3>2. rows[n].score = 0
        BY <1>5, <2>6
      <3> QED BY <2>4, <3>1, <3>2
    <2>7. sum \div Tests \in 0 .. Unit /\ (sum \div Tests = Unit <=> ok = 1 .. Tests)
      BY <1>1, <1>4, <2>2 DEF Fair
    <2> HIDE DEF sum
    <2>8. ClassicScore(rows) \in 0 .. Unit /\ (ClassicScore(rows) = Unit <=> ok = 1 .. Tests)
          /\ (ClassicScore(rows) = 0 <=> ok = {})
      BY <2>1, <2>5, <2>6, <2>7
    <2> HIDE DEF ok
    <2> QED BY <1>7, <1>9, <2>8 DEF ok
  <1> QED BY <1>8, <1>9

\* An optimization evaluation: full marks where every instance is as good as the
\* baseline, and only where all of them nearly are.
LEMMA OptimizationScores ==
    ASSUME PlaceInv, EarnedInv, ReferenceInv, IsOptimization, stage = "score"
    PROVE  LET score == Rounded(Aggregate(rows, pkg.aggregation)) IN
           /\ score \in 0 .. Unit /\ OptimizationVerdict(rows) \in Verdicts
           /\ pkg.scoring = "baseline_ratio" =>
                /\ (\A n \in 1 .. Tests : n <= Len(rows) /\ AsGood(n)) => score = Unit
                /\ score = Unit => \A n \in 1 .. Tests : n <= Len(rows) /\ NearlyAsGood(n)
           /\ \E n \in DOMAIN rows : score <= Rounded(rows[n].score)
  <1> DEFINE mean == Aggregate(rows, pkg.aggregation)
             score == Rounded(mean)
  <1>0. ~ IsQuiz /\ Unit \in Nat \ {0} /\ Tests \in Nat \ {0} /\ Grain \in Nat /\ Tests * Grain \in Nat
    BY GrainsAreNumbers DEF IsOptimization, IsQuiz
  <1>1. Scored(rows, Unit) /\ Len(rows) = Tests /\ DOMAIN rows = 1 .. Tests
    BY <1>0, RowsAreScored
  <1>2. Fair(mean, rows, Unit)
    <2>1. pkg.aggregation \in {"mean", "minimum", "geometric_mean"}
      BY DEF ReferenceInv, Unread, Early
    <2> QED BY <1>1, <2>1, AggregateIsFair
  <1> HIDE DEF mean
  <1>3. /\ mean \in 0 .. Unit /\ (mean = Unit <=> \A n \in 1 .. Tests : rows[n].score = Unit)
        /\ \E n \in 1 .. Tests : mean <= rows[n].score
        /\ \A n \in 1 .. Tests : Unit - rows[n].score <= Tests * (Unit - mean)
        /\ \A n \in 1 .. Tests : rows[n].score \in 0 .. Unit
    BY <1>1, <1>2 DEF Fair, Scored
  <1>4. score \in 0 .. Unit /\ 2 * score <= 2 * mean + Grain /\ (mean = Unit => score = Unit)
    BY <1>3, RoundingIsFair
  <1>5. \E n \in DOMAIN rows : score <= Rounded(rows[n].score)
    <2>1. PICK n \in 1 .. Tests : mean <= rows[n].score
      BY <1>3
    <2>2. mean \in Nat /\ rows[n].score \in Nat
      BY <1>3
    <2>3. score <= Rounded(rows[n].score)
      BY <2>1, <2>2, RoundingIsMonotone
    <2> QED BY <1>1, <2>3
  <1> HIDE DEF score
  <1>6. ASSUME pkg.scoring = "baseline_ratio"
        PROVE  /\ (\A n \in 1 .. Tests : n <= Len(rows) /\ AsGood(n)) => score = Unit
               /\ score = Unit => \A n \in 1 .. Tests : n <= Len(rows) /\ NearlyAsGood(n)
    <2>1. \A n \in 1 .. Tests : n <= Len(rows) /\ Weighed(rows[n], baseline[n])
      BY <1>1, <1>6 DEF EarnedInv, Earned
    <2>2. ASSUME \A n \in 1 .. Tests : AsGood(n) PROVE score = Unit
      <3>1. \A n \in 1 .. Tests : rows[n].score = Unit
        BY <2>1, <2>2 DEF AsGood, Weighed
      <3> QED BY <1>3, <1>4, <3>1
    <2>3. ASSUME score = Unit, NEW n \in 1 .. Tests PROVE NearlyAsGood(n)
      <3>1. 2 * (Unit - mean) <= Grain /\ 2 * (Unit - mean) \in Int
        BY <1>0, <1>3, <1>4, <2>3
      <3>2. Tests * (2 * (Unit - mean)) <= Tests * Grain
        BY <1>0, <3>1, FactorsKeepOrder
      <3>3. Tests * (2 * (Unit - mean)) = 2 * (Tests * (Unit - mean)) /\ Tests * (Unit - mean) \in Int
        BY <1>0, <1>3
      <3>4. 2 * (Unit - rows[n].score) <= Tests * Grain
        <4>1. Unit - rows[n].score <= Tests * (Unit - mean) /\ rows[n].score \in 0 .. Unit
          BY <1>3
        <4> QED BY <1>0, <3>2, <3>3, <4>1
      <3>5. 2 * rows[n].score >= 2 * Unit - Tests * Grain
        BY <1>0, <1>3, <3>4
      <3> QED BY <1>3, <2>1, <3>5, NearlyFull
    <2> QED BY <2>1, <2>2, <2>3
  <1>7. OptimizationVerdict(rows) \in Verdicts
    <2>1. FirstVerdict(rows, {rows[n].verdict : n \in DOMAIN rows} \ {"OK"}, "OK") \in {"OK"} \cup Verdicts
      BY <1>0, VerdictOverTests
    <2>2. "OK" \in Verdicts
      BY DEF Verdicts
    <2> QED BY <2>1, <2>2 DEF OptimizationVerdict
  <1> QED BY <1>4, <1>5, <1>6, <1>7 DEF score, mean

\* An interactive evaluation.
LEMMA InteractionScores ==
    ASSUME PlaceInv, IsInteractive, stage = "score"
    PROVE  /\ SumScores(rows) \div Len(rows) \in 0 .. Unit
           /\ FirstVerdict(rows, Verdicts \ {"AC"}, "AC") \in Verdicts
  <1>0. ~ IsQuiz /\ Unit \in Nat
    BY UnitsAreNumbers DEF IsInteractive, IsQuiz
  <1>1. SumScores(rows) \div Len(rows) \in 0 .. Unit
    BY <1>0, RowsAreScored, MeanIsFair DEF Fair
  <1>2. FirstVerdict(rows, Verdicts \ {"AC"}, "AC") \in {"AC"} \cup Verdicts
    BY <1>0, VerdictOverTests
  <1>3. "AC" \in Verdicts
    BY DEF Verdicts
  <1> QED BY <1>1, <1>2, <1>3

\* A quiz: nobody gets more points than there are.
LEMMA QuizScores ==
    ASSUME PlaceInv, QuestionInv, EarnedInv, IsQuiz, stage = "score"
    PROVE  QuizScore(rows) \in 0 .. Unit
  <1> DEFINE N == Len(rows)
             a == [n \in 1 .. N |-> rows[n].score]
             b == [n \in 1 .. N |-> pkg.questions[n].points]
             total == TotalPoints(pkg.questions)
             sum == SumScores(rows)
  <1>0. Unit \in Nat \ {0}
    BY UnitsAreNumbers
  <1>1. rows \in Seq(QuizRow) /\ N = test /\ N \in Nat \ {0} /\ N = Len(pkg.questions)
    BY DEF PlaceInv, QuestionInv
  <1>2. \A n \in 1 .. N : rows[n] \in QuizRow
    BY <1>1
  <1>3. a \in [1 .. N -> Nat] /\ \A n \in 1 .. N : a[n] = rows[n].score
    BY <1>2 DEF QuizRow
  <1>4. b \in [1 .. N -> Nat] /\ \A n \in 1 .. N : b[n] = pkg.questions[n].points /\ b[n] > 0
    BY <1>1 DEF QuestionInv, Asked
  <1>5. \A n \in 1 .. N : a[n] <= b[n]
    BY <1>3, <1>4 DEF EarnedInv, Earned
  <1> HIDE DEF a, b
  <1>6. PICK f : IsSum(f, a, N) /\ sum = f[N]
    BY <1>1, <1>3, SumScoresIs
  <1>7. PICK g : IsSum(g, b, N) /\ total = g[N]
    BY <1>1, <1>4, TotalPointsIs
  <1> HIDE DEF N
  <1>8. f[N] <= g[N]
    BY <1>1, <1>3, <1>4, <1>5, <1>6, <1>7, SumsAreMonotone
  <1>9. f[N] \in Nat /\ g[N] \in Nat
    <2>1. f \in [0 .. N -> Nat] /\ g \in [0 .. N -> Nat]
      BY <1>1, <1>3, <1>4, <1>6, <1>7, SumsAreNumbers
    <2> QED BY <1>1, <2>1
  <1>10. g[N] > 0
    <2>1. 1 \in 1 .. N
      BY <1>1
    <2>2. b[1] <= g[N]
      BY <1>1, <1>4, <1>7, <2>1, SummandsAreLess
    <2> QED BY <1>4, <1>9, <2>1, <2>2
  <1> HIDE DEF sum, total
  <1>11. sum \in Nat /\ total \in Nat \ {0} /\ sum <= total
    BY <1>6, <1>7, <1>8, <1>9, <1>10
  <1>12. (sum * Unit) \div total \in 0 .. Unit
    <2>1. (sum * Unit) \div total \in Nat /\ (sum <= total => (sum * Unit) \div total <= Unit)
      BY <1>11, QuotientIsFair
    <2> QED BY <1>0, <1>11, <2>1
  <1>13. QuizScore(rows) \in {0, Rounded((sum * Unit) \div total)}
    BY DEF QuizScore, sum, total
  <1>14. Rounded((sum * Unit) \div total) \in 0 .. Unit
    BY <1>12, RoundingIsFair
  <1> QED BY <1>0, <1>13, <1>14

-----------------------------------------------------------------------------
\* Steps that leave the scoring alone.
LEMMA ScoringStays ==
    ASSUME ScoreInv, UNCHANGED <<pkg, stage, test, rows, result, baseline>> PROVE ScoreInv'
  <1>1. PlaceInv' /\ QuestionInv' /\ ReferenceInv'
    BY DEF ScoreInv, PlaceInv, QuestionInv, ReferenceInv, IsQuiz, IsOptimization
  <1>2. EarnedInv'
    BY DEF ScoreInv, EarnedInv, Earned, Weighed, IsClassic, IsOptimization, IsQuiz
  <1>3. ResultInv'
    BY RangeStays, RangeStays DEF ScoreInv, ResultInv, ClassicVerdictAgrees, RatioAgainstBaseline, AsGood,
                      NearlyAsGood, Completed, IsClassic, IsOptimization
  <1> QED BY <1>1, <1>2, <1>3 DEF ScoreInv

\* The rows are worth what they were.
LEMMA RowsKeepWorth ==
    ASSUME EarnedInv, UNCHANGED <<pkg, rows, baseline>> PROVE EarnedInv'
  BY DEF EarnedInv, Earned, Weighed, IsClassic, IsOptimization, IsQuiz

\* The end of an evaluation without a verdict over its tests.
LEMMA EndKeepsScores ==
    ASSUME ScoreInv, UNCHANGED <<pkg, test, rows, baseline>>, stage' = "returned",
           result' \in Result, result'.score \in Scores,
           result'.status = "failed" \/ result'.verdict = "CE" \/ ~ (IsClassic \/ IsOptimization)
    PROVE  ScoreInv'
  <1>1. PlaceInv' /\ QuestionInv' /\ ReferenceInv'
    BY DEF ScoreInv, PlaceInv, QuestionInv, ReferenceInv, IsQuiz, IsOptimization, AtFirst, Unjudged,
           Judging, Unread, Early
  <1>2. EarnedInv'
    BY RowsKeepWorth DEF ScoreInv
  <1>3. ResultInv'
    BY DEF ScoreInv, ResultInv, InRange, Scores, IsScorer, IsModel, ClassicVerdictAgrees,
           RatioAgainstBaseline, Completed, IsClassic, IsOptimization
  <1> QED BY <1>1, <1>2, <1>3 DEF ScoreInv

\* Fail is such an end.
LEMMA FailKeepsScores ==
    ASSUME ScoreInv, NEW who, Fail(who), UNCHANGED baseline PROVE ScoreInv'
  <1>1. PICK long \in BOOLEAN : Return("failed", 0, NULL, long)
    BY DEF Fail
  <1>2. result' \in Result /\ result'.status = "failed" /\ stage' = "returned" /\ result'.score = 0
    BY <1>1, UnitsAreNumbers DEF Return, Result
  <1>3. 0 \in Scores
    BY UnitsAreNumbers, UnitScores
  <1> QED BY <1>2, <1>3, EndKeepsScores DEF Fail

\* Author code leaves the evaluator.
LEMMA EscapeKeepsScores ==
    ASSUME ScoreInv, Escape, UNCHANGED baseline PROVE ScoreInv'
  <1>0. stage' = "escaped" /\ UNCHANGED <<pkg, test, rows, result>>
    BY DEF Escape, Goto
  <1>1. PlaceInv' /\ QuestionInv' /\ ReferenceInv'
    BY <1>0 DEF ScoreInv, PlaceInv, QuestionInv, ReferenceInv, IsQuiz, IsOptimization, AtFirst, Unjudged,
                Judging, Unread, Early
  <1>2. EarnedInv'
    BY <1>0, RowsKeepWorth DEF ScoreInv
  <1>3. ResultInv'
    BY <1>0, RangeStays DEF ScoreInv, ResultInv, ClassicVerdictAgrees, RatioAgainstBaseline, Completed
  <1> QED BY <1>1, <1>2, <1>3 DEF ScoreInv

\* From one stage to the next, at the same test.
Leads(s, t) ==
    \/ s = "reference_compile" /\ t = "reference"
    \/ s = "compile" /\ t = "test" /\ (IsOptimization => ~ pkg.baseline)
    \/ s = "compile" /\ t = "baseline_compile"
    \/ s = "baseline_compile" /\ t = "baseline"
    \/ s = "baseline" /\ t = "baseline_evaluate"
    \/ s = "test" /\ t \in {"check", "evaluate"}

\* Such a step keeps the invariant: no row, no objective, no result.
LEMMA LeadingKeepsScores ==
    ASSUME ScoreInv, Leads(stage, stage'), UNCHANGED <<pkg, test, rows, result, baseline>> PROVE ScoreInv'
  <1>1. PlaceInv' /\ QuestionInv'
    BY DEF ScoreInv, PlaceInv, QuestionInv, IsQuiz, AtFirst, Unjudged, Judging, Early, Leads
  <1>2. ReferenceInv'
    BY DEF ScoreInv, PlaceInv, ReferenceInv, IsOptimization, AtFirst, Unread, Early, Leads
  <1>3. EarnedInv'
    BY RowsKeepWorth DEF ScoreInv
  <1>4. ResultInv'
    BY RangeStays DEF ScoreInv, ResultInv, ClassicVerdictAgrees, RatioAgainstBaseline, Completed, Leads
  <1> QED BY <1>1, <1>2, <1>3, <1>4 DEF ScoreInv

\* What a new row must be worth.
Worth(row) ==
    /\ IsClassic => row.score = IF row.verdict = "OK" THEN Unit ELSE 0
    /\ IsOptimization /\ pkg.scoring = "baseline_ratio" => Weighed(row, baseline[test])

\* RecordRow with a row that is worth what it says, then the next test or the end.
LEMMA RecordKeepsScores ==
    ASSUME ScoreInv, ~ IsQuiz, NEW row \in Row, Worth(row), RecordRow(row, "test", "score"),
           UNCHANGED baseline, stage \in {"test", "check", "evaluate"},
           IsOptimization => stage # "check"
    PROVE  ScoreInv'
  <1>0. /\ test \in 1 .. Tests /\ Tests \in Nat /\ rows \in Seq(Row) /\ Len(rows) = test - 1
        /\ test \in Nat \ {0}
    BY UnitsAreNumbers DEF ScoreInv, PlaceInv, Judging
  <1>1. /\ rows' = Append(rows, row) /\ pkg' = pkg /\ result' = result
        /\ IF test < Tests THEN test' = test + 1 /\ stage' = "test" ELSE test' = test /\ stage' = "score"
    BY DEF RecordRow
  <1>2. rows' \in Seq(Row) /\ Len(rows') = test /\ test' \in 1 .. Tests
    BY <1>0, <1>1
  <1>3. \A n \in 1 .. test : rows'[n] = IF n = test THEN row ELSE rows[n]
    BY <1>0, <1>1
  <1>4. ~ IsQuiz' /\ (IsOptimization' <=> IsOptimization) /\ (IsClassic' <=> IsClassic)
    BY <1>1 DEF IsQuiz, IsOptimization, IsClassic
  <1>5. PlaceInv'
    <2>1. CASE test < Tests
      BY <1>0, <1>1, <1>2, <1>4, <2>1 DEF PlaceInv, AtFirst, Unjudged, Judging, Early
    <2>2. CASE ~ (test < Tests)
      BY <1>0, <1>1, <1>2, <1>4, <2>2 DEF PlaceInv, AtFirst, Unjudged, Judging, Early
    <2> QED BY <2>1, <2>2
  <1>6. QuestionInv'
    BY <1>4 DEF QuestionInv
  <1>7. ReferenceInv'
    BY <1>1, <1>4 DEF ScoreInv, ReferenceInv, AtFirst, Unread, Early
  <1>8. EarnedInv'
    <2> SUFFICES ASSUME NEW n \in 1 .. test PROVE Earned(n)'
      BY <1>2 DEF EarnedInv
    <2>1. CASE n = test
      BY <1>1, <1>3, <1>4, <2>1 DEF Earned, Worth, Weighed
    <2>2. CASE n # test
      <3>1. n \in 1 .. Len(rows) /\ rows'[n] = rows[n]
        BY <1>0, <1>3, <2>2
      <3>2. Earned(n)
        BY <3>1 DEF ScoreInv, EarnedInv
      <3> QED BY <1>1, <1>4, <3>1, <3>2 DEF Earned, Weighed
    <2> QED BY <2>1, <2>2
  <1>9. ResultInv'
    BY <1>1, RangeStays DEF ScoreInv, ResultInv, ClassicVerdictAgrees, RatioAgainstBaseline, Completed
  <1> QED BY <1>5, <1>6, <1>7, <1>8, <1>9 DEF ScoreInv

\* The verdict of a process is a verdict of a row.
LEMMA VerdictsAre == ASSUME NEW p PROVE Verdict(p) \in Verdicts
  BY DEF Verdict, Verdicts

\* Compilations, which lead on, fail or end in a compile error.
LEMMA CompileKeepsScores ==
    ASSUME ScoreInv, UNCHANGED baseline, NEW language, NEW next, Leads(stage, next)
    PROVE  /\ BeginCompile(language, next) => ScoreInv'
           /\ \A who : EndCompile(next, Fail(who)) => ScoreInv'
           /\ EndCompile(next, Complete(0, "CE") /\ UNCHANGED <<pkg, test, rows, faults>>) => ScoreInv'
  <1>1. ASSUME BeginCompile(language, next) PROVE ScoreInv'
    BY <1>1, LeadingKeepsScores, ScoringStays, FailKeepsScores DEF BeginCompile, Goto
  <1>2. ASSUME NEW who, EndCompile(next, Fail(who)) PROVE ScoreInv'
    BY <1>2, LeadingKeepsScores, FailKeepsScores DEF EndCompile, Goto
  <1>3. ASSUME Complete(0, "CE") /\ UNCHANGED <<pkg, test, rows, faults>> PROVE ScoreInv'
    <2>1. result' \in Result /\ result'.verdict = "CE" /\ stage' = "returned" /\ result'.score = 0
      BY <1>3, UnitsAreNumbers DEF Complete, Return, Result
    <2>2. 0 \in Scores
      BY UnitsAreNumbers, UnitScores
    <2> QED BY <1>3, <2>1, <2>2, EndKeepsScores
  <1>4. ASSUME EndCompile(next, Complete(0, "CE") /\ UNCHANGED <<pkg, test, rows, faults>>) PROVE ScoreInv'
    BY <1>3, <1>4, LeadingKeepsScores, FailKeepsScores DEF EndCompile, Goto
  <1> QED BY <1>1, <1>2, <1>4

\* The evaluator goes from one test of the reference, or of the baseline, to the
\* next, and from the last one back to the first.
LEMMA ReferenceKeepsScores ==
    ASSUME ScoreInv, IsClassic, ReferenceEnds, UNCHANGED baseline PROVE ScoreInv'
  <1>0. stage = "reference" /\ ~ IsQuiz /\ ~ IsOptimization
    BY DEF ReferenceEnds, IsClassic, IsQuiz, IsOptimization
  <1>1. CASE \E who : Fail(who)
    BY <1>1, FailKeepsScores
  <1>2. CASE /\ IF test < Tests THEN test' = test + 1 /\ UNCHANGED stage ELSE test' = 1 /\ stage' = "compile"
             /\ UNCHANGED <<pkg, rows, result>>
    <2>1. ~ IsQuiz' /\ ~ IsOptimization'
      BY <1>0, <1>2 DEF IsQuiz, IsOptimization
    <2>2. rows = <<>> /\ rows \in Seq(Row) /\ test \in Nat \ {0} /\ test <= Tests /\ Tests \in Nat \ {0}
      BY <1>0, UnitsAreNumbers DEF ScoreInv, PlaceInv, Unjudged
    <2>3. PlaceInv'
      <3>1. Len(rows) = 0
        BY <2>2
      <3> QED BY <1>0, <1>2, <2>1, <2>2, <3>1 DEF PlaceInv, AtFirst, Unjudged, Judging, Early
    <2>4. QuestionInv' /\ ReferenceInv'
      BY <2>1 DEF QuestionInv, ScoreInv, ReferenceInv
    <2>5. EarnedInv'
      BY <1>2, RowsKeepWorth DEF ScoreInv
    <2>6. ResultInv'
      BY <1>0, <1>2, RangeStays DEF ScoreInv, ResultInv, ClassicVerdictAgrees, RatioAgainstBaseline, Completed
    <2> QED BY <2>3, <2>4, <2>5, <2>6 DEF ScoreInv
  <1> QED BY <1>1, <1>2 DEF ReferenceEnds, Goto

\* An evaluation of the baseline is worth an objective or the end.
LEMMA BaselineKeepsScores ==
    ASSUME ScoreInv, NEW e \in Evaluations, EvaluateBaseline(e) PROVE ScoreInv'
  <1>0. IsOptimization /\ ~ IsQuiz /\ ~ IsClassic /\ stage = "baseline_evaluate"
    BY DEF EvaluateBaseline, IsOptimization, IsQuiz, IsClassic
  <1>1. CASE e.is # "feasible"
    BY <1>1, FailKeepsScores DEF EvaluateBaseline
  <1>2. CASE e.is = "feasible"
    <2>0. e.objective \in Objectives
      BY <1>2 DEF Evaluations
    <2>1. /\ baseline' = Append(baseline, e.objective) /\ UNCHANGED <<pkg, rows, result>>
          /\ IF test < Tests THEN test' = test + 1 /\ stage' = "baseline" ELSE test' = 1 /\ stage' = "test"
      BY <1>2 DEF EvaluateBaseline, Goto
    <2>2. ~ IsQuiz' /\ ~ IsClassic' /\ IsOptimization'
      BY <1>0, <2>1 DEF IsQuiz, IsClassic, IsOptimization
    <2>3. /\ rows = <<>> /\ rows \in Seq(Row) /\ test \in Nat \ {0} /\ test <= Tests /\ Tests \in Nat \ {0}
          /\ baseline \in Seq(Objectives) /\ Len(baseline) = test - 1
      BY <1>0, UnitsAreNumbers DEF ScoreInv, PlaceInv, Unjudged, ReferenceInv
    <2>4. Len(rows) = 0
      BY <2>3
    <2>5. PlaceInv'
      BY <2>1, <2>2, <2>3, <2>4 DEF PlaceInv, AtFirst, Unjudged, Judging, Early
    <2>6. QuestionInv'
      BY <2>2 DEF QuestionInv
    <2>7. baseline' \in Seq(Objectives) /\ Len(baseline') = test
      BY <2>0, <2>1, <2>3
    <2>8. ReferenceInv'
      <3>1. /\ pkg.aggregation \in {"mean", "minimum", "geometric_mean"}
            /\ pkg.scoring = "baseline_ratio" => pkg.baseline
        BY <1>0 DEF ScoreInv, ReferenceInv, Unread, Early
      <3> QED BY <2>1, <2>3, <2>7, <3>1 DEF ReferenceInv, AtFirst, Unread, Early
    <2>9. EarnedInv'
      BY <2>1, <2>4 DEF EarnedInv
    <2>10. ResultInv'
      BY <2>1, RangeStays DEF ScoreInv, ResultInv, ClassicVerdictAgrees, RatioAgainstBaseline, Completed
    <2> QED BY <2>5, <2>6, <2>8, <2>9, <2>10 DEF ScoreInv
  <1> QED BY <1>1, <1>2

\* A package is loaded.
LEMMA LoadingKeepsScores ==
    ASSUME ScoreInv, stage = "load", SamePackage, UNCHANGED <<test, rows, result, baseline>>,
           stage' \in {"reference_compile", "compile", "test", "answer", "phase"},
           IsOptimization => /\ stage' = "compile"
                             /\ pkg'.aggregation \in {"mean", "minimum", "geometric_mean"}
                             /\ pkg'.scoring = "baseline_ratio" => pkg'.baseline,
           IsQuiz => Asked(pkg') /\ Len(pkg'.questions) # 0
    PROVE  ScoreInv'
  <1>1. /\ rows = <<>> /\ test = 1 /\ rows \in Seq(IF IsQuiz THEN QuizRow ELSE Row)
        /\ baseline \in Seq(Objectives) /\ (IsOptimization => baseline = <<>>)
        /\ Tests \in Nat \ {0}
    BY UnitsAreNumbers DEF ScoreInv, PlaceInv, ReferenceInv, Unjudged, AtFirst, Early
  <1>2. (IsQuiz' <=> IsQuiz) /\ (IsOptimization' <=> IsOptimization)
    BY DEF SamePackage, IsQuiz, IsOptimization
  <1>3. Len(rows) = 0
    BY <1>1
  <1>4. PlaceInv'
    BY <1>1, <1>2, <1>3 DEF PlaceInv, AtFirst, Unjudged, Judging, Early
  <1>5. QuestionInv'
    BY <1>1, <1>2 DEF QuestionInv, Asked
  <1>6. ReferenceInv'
    BY <1>1, <1>2 DEF ReferenceInv, AtFirst, Unread, Early
  <1>7. EarnedInv'
    BY <1>3 DEF EarnedInv
  <1>8. ResultInv'
    BY RangeStays DEF SamePackage, ScoreInv, ResultInv, ClassicVerdictAgrees, RatioAgainstBaseline, Completed
  <1> QED BY <1>4, <1>5, <1>6, <1>7, <1>8 DEF ScoreInv

\* The classic grader, and the author's checker in it.
LEMMA ClassicKeepsScores ==
    ASSUME ScoreInv, ClassicNext \/ RunChecker, UNCHANGED baseline PROVE ScoreInv'
  <1>0. IsClassic /\ ~ IsOptimization /\ ~ IsQuiz
    BY OneGraderPerKind DEF IsClassic, IsOptimization, IsQuiz
  <1>1. CASE LoadPackage
    <2>1. CASE \E who : Fail(who)
      BY <2>1, FailKeepsScores
    <2>2. CASE /\ pkg' = ClassicConfig(pkg) /\ stage' \in {"reference_compile", "compile"}
               /\ UNCHANGED <<test, rows, result>>
      BY <1>0, <1>1, <2>2, LoadingKeepsScores DEF LoadPackage, ClassicConfig, SamePackage
    <2>3. CASE Escape
      BY <2>3, EscapeKeepsScores
    <2> QED BY <1>1, <2>1, <2>2, <2>3 DEF LoadPackage, Goto
  <1>2. CASE CompileReference \/ ReferenceCompiled
    <2>1. Leads(stage, "reference")
      BY <1>2 DEF CompileReference, ReferenceCompiled, Leads
    <2> QED BY <1>2, <2>1, CompileKeepsScores DEF CompileReference, ReferenceCompiled
  <1>3. CASE CompileSubmission \/ SubmissionCompiled
    <2>1. Leads(stage, "test")
      BY <1>0, <1>3 DEF CompileSubmission, SubmissionCompiled, Leads
    <2> QED BY <1>3, <2>1, CompileKeepsScores DEF CompileSubmission, SubmissionCompiled
  <1>4. CASE RunReference \/ RunTest
    BY <1>4, ScoringStays DEF RunReference, RunTest
  <1>5. CASE ReferenceEnds
    BY <1>0, <1>5, ReferenceKeepsScores
  <1>6. ASSUME NEW v \in Verdicts, NEW s, s = (IF v = "OK" THEN Unit ELSE 0),
               RecordRow(MakeRow(v, s), "test", "score"), stage \in {"test", "check"}
        PROVE  ScoreInv'
    <2>1. MakeRow(v, s) \in Row
      BY <1>6, UnitsAreNumbers DEF MakeRow, Row
    <2>2. Worth(MakeRow(v, s))
      BY <1>0, <1>6 DEF Worth, MakeRow
    <2> QED BY <1>0, <1>6, <2>1, <2>2, RecordKeepsScores
  <1>7. CASE TestEnds
    <2>1. stage = "test"
      BY <1>7 DEF TestEnds
    <2>2. CASE Verdict(proc) = "OK"
      <3>1. Leads(stage, stage') /\ UNCHANGED <<pkg, test, rows, result>>
        BY <1>7, <2>1, <2>2 DEF TestEnds, Leads, Goto
      <3> QED BY <3>1, LeadingKeepsScores
    <2>3. CASE Verdict(proc) # "OK"
      BY <1>6, <1>7, <2>1, <2>3, VerdictsAre DEF TestEnds
    <2> QED BY <2>2, <2>3
  <1>8. CASE CompareTokens \/ RunChecker
    <2>1. stage = "check"
      BY <1>8 DEF CompareTokens, RunChecker
    <2>2. CASE JudgeOutput
      <3>1. PICK v \in {"OK", "WA"} : RecordRow(MakeRow(v, IF v = "OK" THEN Unit ELSE 0), "test", "score")
        BY <2>2 DEF JudgeOutput
      <3>2. v \in Verdicts
        BY DEF Verdicts
      <3> QED BY <1>6, <2>1, <3>1, <3>2
    <2>3. CASE \E who : Fail(who)
      BY <2>3, FailKeepsScores
    <2>4. CASE Escape
      BY <2>4, EscapeKeepsScores
    <2> QED BY <1>8, <2>2, <2>3, <2>4 DEF CompareTokens, RunChecker
  <1>9. CASE SetupRaises
    BY <1>9, FailKeepsScores DEF SetupRaises
  <1>10. CASE ScoreTests
    <2> DEFINE score == ClassicScore(rows)
               verdict == ClassicVerdict(rows)
               ok == {n \in 1 .. Tests : n <= Len(rows) /\ rows[n].verdict = "OK"}
    <2>1. stage = "score" /\ Complete(score, verdict) /\ UNCHANGED <<pkg, test, rows, faults>>
      BY <1>10 DEF ScoreTests
    <2>2. /\ score \in 0 .. Unit /\ verdict \in Verdicts
          /\ verdict = "AC" <=> ok = 1 .. Tests
          /\ score = Unit <=> ok = 1 .. Tests
          /\ score = 0 <=> (ok = {} \/ (pkg.scoring = "all_or_nothing" /\ ok # 1 .. Tests))
      BY <1>0, <2>1, ClassicScores DEF ScoreInv
    <2> HIDE DEF score, verdict
    <2>3. /\ result' \in Result /\ stage' = "returned" /\ result'.score = score /\ result'.verdict = verdict
          /\ InRange'
      BY <2>1, <2>2, UnitsAreNumbers DEF Complete, Return, Result, InRange, Scores
    <2>4. ClassicVerdictAgrees'
      BY <2>1, <2>2, <2>3 DEF ClassicVerdictAgrees
    <2>5. RatioAgainstBaseline'
      BY <1>0, <2>1 DEF RatioAgainstBaseline, IsOptimization
    <2>6. PlaceInv' /\ QuestionInv' /\ ReferenceInv'
      BY <1>0, <2>1, <2>3 DEF ScoreInv, PlaceInv, QuestionInv, ReferenceInv, IsQuiz, IsOptimization, AtFirst,
                              Unjudged, Judging, Unread, Early
    <2>7. EarnedInv'
      BY <2>1, RowsKeepWorth DEF ScoreInv
    <2> QED BY <2>3, <2>4, <2>5, <2>6, <2>7 DEF ScoreInv, ResultInv
  <1> QED
    BY <1>1, <1>2, <1>3, <1>4, <1>5, <1>7, <1>8, <1>9, <1>10 DEF ClassicNext

\* The optimization grader.
LEMMA OptimizationKeepsScores ==
    ASSUME ScoreInv, OptimizationNext PROVE ScoreInv'
  <1>0. IsOptimization /\ ~ IsClassic /\ ~ IsQuiz
    BY OneGraderPerKind DEF IsClassic, IsOptimization, IsQuiz
  <1>1. CASE LoadOptimization
    <2>1. CASE Fail({"contestant"})
      BY <1>1, <2>1, FailKeepsScores DEF LoadOptimization
    <2>2. CASE /\ pkg' = OptimizationConfig(pkg) /\ stage' = "compile"
               /\ UNCHANGED <<test, rows, result>>
      <3>1. OptimizationConfigLoads(pkg) /\ stage = "load" /\ UNCHANGED baseline
        BY <1>0, <1>1 DEF LoadOptimization, Loads, IsOptimization
      <3>2. /\ pkg'.aggregation \in {"mean", "minimum", "geometric_mean"}
            /\ pkg'.scoring = "baseline_ratio" => pkg'.baseline
        BY <2>2, <3>1 DEF OptimizationConfig, OptimizationConfigLoads
      <3>3. SamePackage
        BY <2>2 DEF OptimizationConfig, SamePackage
      <3> QED BY <1>0, <2>2, <3>1, <3>2, <3>3, LoadingKeepsScores
    <2> QED BY <1>1, <2>1, <2>2 DEF LoadOptimization, Goto
  <1>2. CASE CompileCandidate \/ CandidateCompiled
    <2>1. Leads(stage, IF pkg.baseline THEN "baseline_compile" ELSE "test")
      BY <1>2 DEF CompileCandidate, CandidateCompiled, Leads
    <2> QED BY <1>2, <2>1, CompileKeepsScores DEF CompileCandidate, CandidateCompiled
  <1>3. CASE CompileBaseline \/ BaselineCompiled
    <2>1. Leads(stage, "baseline")
      BY <1>3 DEF CompileBaseline, BaselineCompiled, Leads
    <2> QED BY <1>3, <2>1, CompileKeepsScores DEF CompileBaseline, BaselineCompiled
  <1>4. CASE RunSolution
    BY <1>4, ScoringStays, FailKeepsScores DEF RunSolution
  <1>5. CASE BaselineEnds
    <2>1. CASE \E who : Fail(who)
      BY <1>5, <2>1, FailKeepsScores DEF BaselineEnds
    <2>2. CASE stage' = "baseline_evaluate" /\ UNCHANGED <<pkg, test, rows, faults, result>>
      BY <1>5, <2>2, LeadingKeepsScores DEF BaselineEnds, Leads
    <2> QED BY <1>5, <2>1, <2>2 DEF BaselineEnds, Goto
  <1>6. ASSUME NEW v \in Verdicts \ {"OK"}, RecordRow(MakeRow(v, 0), "test", "score"),
               stage \in {"test", "evaluate"}, UNCHANGED baseline
        PROVE  ScoreInv'
    <2>1. MakeRow(v, 0) \in Row
      BY UnitsAreNumbers DEF MakeRow, Row
    <2>2. Worth(MakeRow(v, 0))
      BY <1>0, UnitsAreNumbers DEF Worth, Weighed, MakeRow
    <2> QED BY <1>0, <1>6, <2>1, <2>2, RecordKeepsScores
  <1>7. CASE SolutionEnds
    <2>1. stage = "test" /\ UNCHANGED baseline
      BY <1>7 DEF SolutionEnds
    <2>2. CASE Verdict(proc) = "OK"
      <3>1. Leads(stage, stage') /\ UNCHANGED <<pkg, test, rows, result>>
        BY <1>7, <2>1, <2>2 DEF SolutionEnds, Leads, Goto
      <3> QED BY <2>1, <3>1, LeadingKeepsScores
    <2>3. CASE Verdict(proc) # "OK"
      BY <1>6, <1>7, <2>1, <2>3, VerdictsAre DEF SolutionEnds
    <2> QED BY <2>2, <2>3
  <1>8. ASSUME NEW e \in Evaluations, EvaluateOutput(e) PROVE ScoreInv'
    <2>1. stage = "evaluate" /\ UNCHANGED baseline
      BY <1>8 DEF EvaluateOutput
    <2>2. CASE Fail({"author"})
      BY <2>1, <2>2, FailKeepsScores
    <2>3. CASE RecordRow(MakeRow(IF e.is = "invalid" THEN "INVALID" ELSE "INFEASIBLE", 0), "test", "score")
      <3>1. (IF e.is = "invalid" THEN "INVALID" ELSE "INFEASIBLE") \in Verdicts \ {"OK"}
        BY DEF Verdicts
      <3> QED BY <1>6, <2>1, <2>3, <3>1
    <2>4. CASE /\ e.is = "feasible" /\ InstanceScore(e) # NULL
               /\ RecordRow([verdict |-> "OK", score |-> InstanceScore(e), objective |-> e.objective],
                            "test", "score")
      <3> DEFINE row == [verdict |-> "OK", score |-> InstanceScore(e), objective |-> e.objective]
      <3>1. e.objective \in Int /\ e.score \in (0 .. Unit) \cup {NULL}
        BY <2>4, ObjectivesAssumption DEF Evaluations, ObjectivesAssumption
      <3>2. CASE pkg.scoring = "baseline_ratio"
        <4>1. baseline[test] \in Int
          <5>1. /\ baseline \in Seq(Objectives) /\ Len(baseline) = Tests
                /\ test \in Nat \ {0} /\ test <= Tests /\ Tests \in Nat
            BY <1>0, <2>1, <3>2, UnitsAreNumbers DEF ScoreInv, PlaceInv, ReferenceInv, Unread, Early
          <5>2. baseline[test] \in Objectives
            BY <5>1
          <5> QED BY <5>2, ObjectivesAssumption DEF ObjectivesAssumption
        <4> DEFINE ratio == BaselineRatio(e.objective, baseline[test], pkg.direction)
        <4>2. InstanceScore(e) = ratio /\ ratio # NULL
          BY <2>4, <3>2 DEF InstanceScore
        <4>3. /\ ratio \in 0 .. Unit
              /\ ratio = Unit <=> IF pkg.direction = "maximize" THEN e.objective >= baseline[test]
                                                               ELSE e.objective <= baseline[test]
              /\ e.objective \in Nat /\ baseline[test] \in Nat
              /\ IF pkg.direction = "maximize" THEN ratio * baseline[test] <= e.objective * Unit
                                               ELSE ratio * e.objective <= baseline[test] * Unit
          BY <3>1, <4>1, <4>2, RatioIsFair
        <4> HIDE DEF ratio
        <4>4. row \in Row
          BY <3>1, <4>2, <4>3 DEF Row, Verdicts
        <4>5. Worth(row)
          BY <1>0, <4>2, <4>3 DEF Worth, Weighed
        <4> QED BY <1>0, <2>1, <2>4, <4>4, <4>5, RecordKeepsScores
      <3>3. CASE pkg.scoring # "baseline_ratio"
        <4>1. InstanceScore(e) \in 0 .. Unit
          BY <2>4, <3>1, <3>3 DEF InstanceScore
        <4>2. row \in Row
          BY <3>1, <4>1 DEF Row, Verdicts
        <4>3. Worth(row)
          BY <1>0, <3>3 DEF Worth
        <4> QED BY <1>0, <2>1, <2>4, <4>2, <4>3, RecordKeepsScores
      <3> QED BY <3>2, <3>3
    <2> QED BY <1>8, <2>2, <2>3, <2>4 DEF EvaluateOutput
  <1>9. CASE ScoreInstances
    <2> DEFINE score == Rounded(Aggregate(rows, pkg.aggregation))
               verdict == OptimizationVerdict(rows)
    <2>1. stage = "score" /\ Complete(score, verdict) /\ UNCHANGED <<pkg, test, rows, faults, baseline>>
      BY <1>9 DEF ScoreInstances
    <2>2. /\ score \in 0 .. Unit /\ verdict \in Verdicts
          /\ pkg.scoring = "baseline_ratio" =>
               /\ (\A n \in 1 .. Tests : n <= Len(rows) /\ AsGood(n)) => score = Unit
               /\ score = Unit => \A n \in 1 .. Tests : n <= Len(rows) /\ NearlyAsGood(n)
          /\ \E n \in DOMAIN rows : score <= Rounded(rows[n].score)
      BY <1>0, <2>1, OptimizationScores DEF ScoreInv
    <2> HIDE DEF score, verdict
    <2>3. /\ result' \in Result /\ stage' = "returned" /\ result'.score = score /\ result'.verdict = verdict
          /\ InRange'
      BY <2>1, <2>2, UnitsAreNumbers DEF Complete, Return, Result, InRange, Scores
    <2>4. ClassicVerdictAgrees'
      BY <1>0, <2>1 DEF ClassicVerdictAgrees, IsClassic
    <2>5. RatioAgainstBaseline'
      BY <2>1, <2>2, <2>3 DEF RatioAgainstBaseline, AsGood, NearlyAsGood
    <2>6. PlaceInv' /\ QuestionInv' /\ ReferenceInv'
      BY <1>0, <2>1, <2>3 DEF ScoreInv, PlaceInv, QuestionInv, ReferenceInv, IsQuiz, IsOptimization, AtFirst,
                              Unjudged, Judging, Unread, Early
    <2>7. EarnedInv'
      BY <2>1, RowsKeepWorth DEF ScoreInv
    <2> QED BY <2>3, <2>4, <2>5, <2>6, <2>7 DEF ScoreInv, ResultInv
  <1> QED
    BY <1>1, <1>2, <1>3, <1>4, <1>5, <1>7, <1>8, <1>9, BaselineKeepsScores DEF OptimizationNext

\* The quiz grader.
LEMMA QuizKeepsScores ==
    ASSUME PackageInv, ScoreInv, QuizNext, UNCHANGED baseline PROVE ScoreInv'
  <1>0. IsQuiz /\ ~ IsClassic /\ ~ IsOptimization
    BY OneGraderPerKind DEF IsClassic, IsOptimization, IsQuiz
  <1>1. ASSUME NEW long \in BOOLEAN, InvalidSubmission(long) PROVE ScoreInv'
    <2>1. result' \in Result /\ stage' = "returned" /\ result'.score = 0
      BY <1>1, UnitsAreNumbers DEF InvalidSubmission, Return, Result
    <2>2. 0 \in Scores
      BY UnitsAreNumbers, UnitScores
    <2> QED BY <1>0, <1>1, <2>1, <2>2, EndKeepsScores DEF InvalidSubmission
  <1>2. CASE LoadQuiz
    <2>1. CASE /\ pkg' = QuizConfig(pkg) /\ stage' = "answer" /\ UNCHANGED <<test, rows, result>>
      <3>1. stage = "load" /\ pkg \in Packages /\ pkg.kind = "quiz" /\ Loads(pkg)
        BY <1>0, <1>2 DEF LoadQuiz, PackageInv, Early, IsQuiz
      <3>2. /\ Len(pkg.questions) \in Nat \ {0} /\ DOMAIN pkg.questions = 1 .. Len(pkg.questions)
            /\ \A n \in DOMAIN pkg.questions : QuizQuestion(pkg.questions[n]).points \in Nat
        BY <3>1, QuizAssumption DEF QuizAssumption
      <3>3. pkg'.questions = [n \in 1 .. Len(pkg.questions) |-> QuizQuestion(pkg.questions[n])]
        BY <2>1, <3>2 DEF QuizConfig
      <3>4. Len(pkg'.questions) = Len(pkg.questions) /\ DOMAIN pkg'.questions = 1 .. Len(pkg.questions)
        BY <3>2, <3>3
      <3>5. ASSUME NEW n \in 1 .. Len(pkg.questions) PROVE pkg'.questions[n].points \in Nat \ {0}
        <4>1. pkg.questions[n].points > 0
          BY <3>1, <3>2 DEF Loads, QuizConfigLoads, QuestionLoads
        <4>2. QuizQuestion(pkg.questions[n]).points = pkg.questions[n].points
          BY DEF QuizQuestion
        <4> QED BY <3>2, <3>3, <4>1, <4>2
      <3>6. Asked(pkg') /\ Len(pkg'.questions) # 0
        BY <3>2, <3>4, <3>5 DEF Asked
      <3>7. SamePackage
        BY <2>1 DEF QuizConfig, SamePackage
      <3> QED BY <1>0, <2>1, <3>1, <3>6, <3>7, LoadingKeepsScores
    <2> QED BY <1>1, <1>2, <2>1 DEF LoadQuiz, Goto
  <1>3. ASSUME NEW a, AnswerQuestion(a) PROVE ScoreInv'
    <2> DEFINE q == pkg.questions[test]
    <2>1. /\ stage = "answer" /\ rows \in Seq(QuizRow) /\ Len(rows) = test - 1 /\ test \in Nat \ {0}
          /\ Asked(pkg) /\ test <= Len(pkg.questions) /\ Len(pkg.questions) \in Nat
      BY <1>0, <1>3 DEF AnswerQuestion, ScoreInv, PlaceInv, QuestionInv, Judging, Asked
    <2>2. q.points \in Nat
      BY <2>1 DEF Asked
    <2>3. CASE \E long \in BOOLEAN : InvalidSubmission(long)
      BY <1>1, <2>3
    <2>4. ASSUME NEW correct \in BOOLEAN,
                 rows' = Append(rows, MakeRow(IF correct THEN "OK" ELSE "WA", IF correct THEN q.points ELSE 0)),
                 IF test < Len(pkg.questions) THEN test' = test + 1 /\ UNCHANGED stage
                                              ELSE Goto("score") /\ UNCHANGED test,
                 UNCHANGED <<pkg, proc, faults, result>>
          PROVE  ScoreInv'
      <3> DEFINE row == MakeRow(IF correct THEN "OK" ELSE "WA", IF correct THEN q.points ELSE 0)
      <3>1. row \in QuizRow /\ row.score <= q.points
        BY <2>2 DEF MakeRow, QuizRow
      <3> HIDE DEF row, q
      <3>2. rows' = Append(rows, row) /\ rows' \in Seq(QuizRow) /\ Len(rows') = test
        BY <2>1, <2>4, <3>1 DEF row, q
      <3>3. \A n \in 1 .. test : rows'[n] = IF n = test THEN row ELSE rows[n]
        BY <2>1, <3>2
      <3>4. IsQuiz' /\ ~ IsClassic' /\ ~ IsOptimization'
        BY <1>0, <2>4 DEF IsQuiz, IsClassic, IsOptimization
      <3>5. \/ test < Len(pkg.questions) /\ test' = test + 1 /\ stage' = "answer"
            \/ test = Len(pkg.questions) /\ test' = test /\ stage' = "score"
        BY <2>1, <2>4 DEF Goto
      <3>6. PlaceInv'
        BY <2>1, <3>2, <3>4, <3>5 DEF PlaceInv, AtFirst, Unjudged, Judging, Early
      <3>7. QuestionInv'
        BY <2>1, <2>4, <3>5 DEF QuestionInv
      <3>8. ReferenceInv'
        BY <3>4 DEF ScoreInv, ReferenceInv
      <3>9. EarnedInv'
        <4> SUFFICES ASSUME NEW n \in 1 .. test PROVE rows'[n].score <= pkg.questions[n].points
          BY <2>4, <3>2, <3>4 DEF EarnedInv, Earned
        <4>1. CASE n = test
          BY <3>1, <3>3, <4>1 DEF q
        <4>2. CASE n # test
          <5>1. n \in 1 .. Len(rows) /\ rows'[n] = rows[n]
            BY <2>1, <3>3, <4>2
          <5> QED BY <1>0, <5>1 DEF ScoreInv, EarnedInv, Earned
        <4> QED BY <4>1, <4>2
      <3>10. ResultInv'
        BY <2>4, <3>4, <3>5, RangeStays DEF ScoreInv, ResultInv, ClassicVerdictAgrees, RatioAgainstBaseline
      <3> QED BY <3>6, <3>7, <3>8, <3>9, <3>10 DEF ScoreInv
    <2> HIDE DEF q
    <2>5. \/ InvalidSubmission(FALSE)
          \/ \E correct \in BOOLEAN :
               /\ rows' = Append(rows, MakeRow(IF correct THEN "OK" ELSE "WA", IF correct THEN q.points ELSE 0))
               /\ IF test < Len(pkg.questions) THEN test' = test + 1 /\ UNCHANGED stage
                                               ELSE Goto("score") /\ UNCHANGED test
               /\ UNCHANGED <<pkg, proc, faults, result>>
      <3> DEFINE correct == a # NULL /\ IsCorrect(q, a, pkg.normalization)
      <3>1. correct \in BOOLEAN
        OBVIOUS
      <3>2. \/ InvalidSubmission(FALSE)
            \/ /\ rows' = Append(rows, MakeRow(IF correct THEN "OK" ELSE "WA", IF correct THEN q.points ELSE 0))
               /\ IF test < Len(pkg.questions) THEN test' = test + 1 /\ UNCHANGED stage
                                               ELSE Goto("score") /\ UNCHANGED test
               /\ UNCHANGED <<pkg, proc, faults, result>>
        BY <1>3 DEF AnswerQuestion, q
      <3> HIDE DEF correct
      <3> QED BY <3>1, <3>2
    <2> QED BY <1>1, <2>4, <2>5 DEF q
  <1>4. CASE ScoreQuiz
    <2>1. QuizScore(rows) \in 0 .. Unit
      BY <1>0, <1>4, QuizScores DEF ScoreInv, ScoreQuiz
    <2>2. result' \in Result /\ stage' = "returned" /\ UNCHANGED <<pkg, test, rows>>
          /\ result'.score = QuizScore(rows) /\ QuizScore(rows) \in Scores
      BY <1>4, <2>1, UnitScores DEF ScoreQuiz, Complete, Return, Result, Verdicts
    <2> QED BY <1>0, <2>2, EndKeepsScores
  <1> QED BY <1>2, <1>3, <1>4 DEF QuizNext

\* The interactive grader.
LEMMA InteractiveKeepsScores ==
    ASSUME SessionInv, ScoreInv, InteractiveNext PROVE ScoreInv'
  <1>0. IsInteractive /\ ~ IsQuiz /\ ~ IsClassic /\ ~ IsOptimization
    BY OneGraderPerKind DEF IsInteractive, IsClassic, IsOptimization, IsQuiz
  <1>1. CASE LoadInteractive
    <2>1. SamePackage
      BY <1>1 DEF LoadInteractive, InteractiveConfig, SamePackage
    <2> QED BY <1>0, <1>1, <2>1, LoadingKeepsScores DEF LoadInteractive, Goto
  <1>2. CASE StartWorker
    BY <1>2, ScoringStays, FailKeepsScores DEF StartWorker
  <1>3. CASE WorkerEnds
    <2>0. stage = "test" /\ UNCHANGED baseline
      BY <1>3 DEF WorkerEnds
    <2>1. ASSUME NEW v \in Verdicts, NEW s \in 0 .. Unit, RecordRow(MakeRow(v, s), "test", "score")
          PROVE  ScoreInv'
      <3>1. MakeRow(v, s) \in Row /\ Worth(MakeRow(v, s))
        BY <1>0 DEF MakeRow, Row, Worth
      <3> QED BY <1>0, <2>0, <2>1, <3>1, RecordKeepsScores
    <2>2. CASE RecordRow(MakeRow("TLE", 0), "test", "score")
      BY <2>1, <2>2, UnitsAreNumbers DEF Verdicts
    <2>3. CASE \E who : Fail(who)
      BY <2>0, <2>3, FailKeepsScores
    <2>4. CASE /\ Replied("completed")
               /\ RecordRow(MakeRow(session.reply.verdict, session.reply.score), "test", "score")
      <3>1. session.reply \in Replies /\ session.reply.status = "completed"
        BY <2>4 DEF Replied, SessionInv, WorkSession
      <3>2. session.reply.verdict \in Verdicts /\ session.reply.score \in 0 .. Unit
        BY <3>1 DEF Replies, Verdicts
      <3> QED BY <2>1, <2>4, <3>2
    <2> QED BY <1>3, <2>2, <2>3, <2>4 DEF WorkerEnds
  <1>4. CASE ScoreInteraction
    <2>1. /\ SumScores(rows) \div Len(rows) \in 0 .. Unit
          /\ FirstVerdict(rows, Verdicts \ {"AC"}, "AC") \in Verdicts
      BY <1>0, <1>4, InteractionScores DEF ScoreInv, ScoreInteraction
    <2>2. result' \in Result /\ stage' = "returned" /\ UNCHANGED <<pkg, test, rows, baseline>>
          /\ result'.score \in Scores
      BY <1>4, <2>1, UnitScores DEF ScoreInteraction, Complete, Return, Result
    <2> QED BY <1>0, <2>2, EndKeepsScores
  <1> QED BY <1>1, <1>2, <1>3, <1>4 DEF InteractiveNext

\* The worker, the programs that talk, and the processes that are polled.
LEMMA ProgramsKeepScores ==
    ASSUME ScoreInv,
           \/ WorkerNext \/ InteractorNext \/ CandidateNext \/ \E t \in strays : StrayEnds(t)
           \/ (Poll \/ ChildWrites \/ ChildComplains \/ \E rc \in {0, 1} : ChildExits(rc)) /\ UNCHANGED baseline
    PROVE  ScoreInv'
  <1>1. CASE WorkerNext
    BY <1>1, ScoringStays DEF WorkerNext, SetUpSession, CompilerEnds, StartCandidate, Send, Receive,
       CloseSession, PrintReply, WorkerStep, graderVars
  <1>2. CASE InteractorNext
    BY <1>2, ScoringStays DEF InteractorNext, InteractorTalks, InteractorReturns, InteractorMisbehaves,
       InteractorRaises, InteractorExits, WorkerDies, WorkerComplains, WorkerStep, graderVars
  <1>3. CASE CandidateNext \/ \E t \in strays : StrayEnds(t)
    BY <1>3, ScoringStays DEF CandidateNext, CandidateReads, CandidateWrites, CandidateLeaves,
       CandidateStep, WorkerStep, StrayEnds, graderVars
  <1>4. CASE (Poll \/ ChildWrites \/ ChildComplains \/ \E rc \in {0, 1} : ChildExits(rc)) /\ UNCHANGED baseline
    BY <1>4, ScoringStays DEF Poll, ChildWrites, ChildComplains, ChildExits
  <1> QED BY <1>1, <1>2, <1>3, <1>4

\* The model grader and the scorers.
LEMMA ModelKeepsScores ==
    ASSUME ScoreInv, ModelNext \/ RunScorer, UNCHANGED baseline PROVE ScoreInv'
  <1>0. ~ IsQuiz /\ ~ IsClassic /\ ~ IsOptimization
    BY OneGraderPerKind DEF IsModel, IsScorer, IsClassic, IsOptimization, IsQuiz
  <1>1. ASSUME NEW score \in Int, Complete(score, NULL), UNCHANGED <<pkg, test, rows>> PROVE ScoreInv'
    <2>1. result' \in Result /\ stage' = "returned" /\ result'.score \in Int
      BY <1>1 DEF Complete, Return, Result
    <2>2. IsScorer \/ IsModel
      BY OneGraderPerKind
    <2>3. Scores = Int
      BY <2>2 DEF Scores
    <2> QED BY <1>0, <1>1, <2>1, <2>3, EndKeepsScores
  <1>2. CASE LoadModel
    <2>1. CASE \E who : Fail(who)
      BY <2>1, FailKeepsScores
    <2>2. CASE pkg' = ModelConfig(pkg) /\ stage' = "phase" /\ UNCHANGED <<test, rows, result>>
      BY <1>0, <1>2, <2>2, LoadingKeepsScores DEF LoadModel, ModelConfig, SamePackage
    <2> QED BY <1>2, <2>1, <2>2 DEF LoadModel, Goto
  <1>3. CASE PhaseFails
    BY <1>3, FailKeepsScores DEF PhaseFails
  <1>4. ASSUME NEW took, StagePhase(took) PROVE ScoreInv'
    BY <1>4, FailKeepsScores, ScoringStays DEF StagePhase, graderVars
  <1>5. ASSUME NEW d, NEW score \in Numbers, PhaseEnds(d, score) PROVE ScoreInv'
    BY <1>1, <1>5, NumbersAssumption, ScoringStays DEF NumbersAssumption, PhaseEnds, graderVars
  <1>6. CASE RunScorer
    <2>1. CASE \E who : Fail(who)
      BY <2>1, FailKeepsScores
    <2>2. CASE Escape
      BY <2>2, EscapeKeepsScores
    <2>3. ASSUME NEW raw \in RawResults, NormalizeResult(raw) # NULL,
                 Complete(NormalizeResult(raw), NULL), UNCHANGED <<pkg, test, rows, faults>>
          PROVE  ScoreInv'
      <3>1. \A v \in Values : Usable(v) \in {NULL} \cup Int
        BY NumbersAssumption DEF Values, Usable, NumbersAssumption
      <3>2. NULL \in Values
        BY DEF Values
      <3>3. NormalizeResult(raw) \in {NULL} \cup Int
        <4>1. CASE raw.shape = "number"
          BY <3>1, <4>1 DEF NormalizeResult, RawResults
        <4>2. CASE raw.shape = "object"
          <5>1. /\ raw.public \in Values /\ raw.private \in Values /\ raw.score \in Values
                /\ raw.nested # NULL => raw.nested.public \in Values /\ raw.nested.private \in Values
            BY <3>2, <4>2 DEF RawResults
          <5> QED BY <3>1, <4>2, <5>1 DEF NormalizeResult
        <4>3. CASE raw.shape \notin {"number", "object"}
          BY <4>3 DEF NormalizeResult
        <4> QED BY <4>1, <4>2, <4>3
      <3> QED BY <1>1, <2>3, <3>3
    <2> QED BY <1>6, <2>1, <2>2, <2>3 DEF RunScorer
  <1> QED BY <1>2, <1>3, <1>4, <1>5, <1>6 DEF ModelNext

\* Every step of the graders.
LEMMA HarnessKeepsScores ==
    ASSUME PackageInv, SessionInv, ScoreInv, HarnessStep PROVE ScoreInv'
  <1>1. CASE LoadFails /\ UNCHANGED baseline
    BY <1>1, FailKeepsScores DEF LoadFails
  <1> QED
    BY <1>1, ClassicKeepsScores, QuizKeepsScores, OptimizationKeepsScores, InteractiveKeepsScores,
       ProgramsKeepScores, ModelKeepsScores
    DEF HarnessStep, JudgeStep, PollStep, ChildStep, AuthorStep

\* The runners score nothing.
LEMMA RunnerKeepsScores ==
    ASSUME ScoreInv, RunnerNext PROVE ScoreInv'
  <1>1. CASE Register \/ OpenSandbox
    <2>1. /\ UNCHANGED <<pkg, test, rows, result, baseline>>
          /\ stage \in Early /\ stage' \in Early \cup {"rejected"}
      BY <1>1 DEF Register, OpenSandbox, Goto, Early
    <2>2. PlaceInv' /\ QuestionInv' /\ ReferenceInv'
      BY <2>1 DEF ScoreInv, PlaceInv, QuestionInv, ReferenceInv, IsQuiz, IsOptimization, AtFirst, Unjudged,
                  Judging, Unread, Early
    <2>3. EarnedInv'
      BY <2>1, RowsKeepWorth DEF ScoreInv
    <2>4. ResultInv'
      BY <2>1, RangeStays DEF ScoreInv, ResultInv, ClassicVerdictAgrees, RatioAgainstBaseline, Completed, Early
    <2> QED BY <2>2, <2>3, <2>4 DEF ScoreInv
  <1>2. CASE TakeResult \/ AlarmRings \/ WorkerExits \/ WriteResult \/ CollectResult
    BY <1>2, ScoringStays DEF TakeResult, AlarmRings, WorkerExits, WriteResult, CollectResult,
                              harnessVars, graderVars
  <1>3. CASE ContainerExits \/ ContainerDies \/ RunTimesOut
    BY <1>3, ScoringStays DEF ContainerExits, ContainerDies, RunTimesOut, Cleanup, harnessVars, graderVars
  <1> QED BY <1>1, <1>2, <1>3 DEF RunnerNext

\* It holds in every reachable state.
LEMMA ScoreInvariant == Spec => []ScoreInv
  <1>1. Init => ScoreInv
    <2> SUFFICES ASSUME Init PROVE ScoreInv
      OBVIOUS
    <2>1. Len(rows) = 0 /\ rows = <<>> /\ baseline = <<>> /\ stage = "register" /\ test = 1 /\ result = NULL
      BY DEF Init
    <2>2. rows \in Seq(IF IsQuiz THEN QuizRow ELSE Row) /\ baseline \in Seq(Objectives)
      BY <2>1
    <2>3. PlaceInv
      BY <2>1, <2>2, UnitsAreNumbers DEF PlaceInv, AtFirst, Unjudged, Judging, Early
    <2>4. QuestionInv /\ ReferenceInv /\ EarnedInv
      BY <2>1, <2>2 DEF QuestionInv, ReferenceInv, EarnedInv, AtFirst, Unread, Early
    <2>5. ResultInv
      BY <2>1, NullAssumption DEF NullAssumption, ResultInv, InRange, ClassicVerdictAgrees,
                                  RatioAgainstBaseline, Completed
    <2> QED BY <2>3, <2>4, <2>5 DEF ScoreInv
  <1>2. PackageInv /\ TestInv /\ ScoreInv /\ [Next]_vars => ScoreInv'
    <2> SUFFICES ASSUME PackageInv, SessionInv, ScoreInv, [Next]_vars PROVE ScoreInv'
      BY DEF TestInv
    <2>1. CASE UNCHANGED vars
      BY <2>1, ScoringStays DEF vars, harnessVars, graderVars
    <2>2. ASSUME Runs(HarnessStep) PROVE ScoreInv'
      BY <2>2, HarnessKeepsScores DEF Runs
    <2> QED BY <2>1, <2>2, TwoKindsOfSteps, RunnerKeepsScores
  <1> QED BY <1>1, <1>2, PackageInvariant, TestInvariant, PTL DEF Spec

\* In every completed classic evaluation, with any number of tests: the verdict
\* is AC exactly where every test passed, and so is the full score; the score is
\* 0 exactly where no test passed, or one failed under all_or_nothing.
THEOREM ClassicResultsAgree == Spec => []ClassicVerdictAgrees
  <1>1. ScoreInv => ClassicVerdictAgrees
    BY DEF ScoreInv, ResultInv
  <1> QED BY <1>1, ScoreInvariant, PTL

\* A submission scored against the baseline gets the full score where it is as
\* good as the baseline on every instance, in both directions, with zero
\* objectives, and whichever way the scores are aggregated; it gets the full
\* score only where no instance is worse by more than half a grain for every
\* test, which is what rounding the aggregate to the nearest allows; and no
\* aggregation gives more than the best instance, rounded.
THEOREM FullMarksMeanNearlyAsGood == Spec => []RatioAgainstBaseline
  <1>1. ScoreInv => RatioAgainstBaseline
    BY DEF ScoreInv, ResultInv
  <1> QED BY <1>1, ScoreInvariant, PTL

-----------------------------------------------------------------------------
(***************************************************************************)
(* The rest of the state: whom the ghost blames, how much the pipes and    *)
(* the transcript of an interactive test hold, and the result the worker   *)
(* gets.                                                                   *)
(***************************************************************************)
Culprits == {"author", "contestant", "host", "package"}

\* A step keeps the kind of the package and blames nobody else.
Signed ==
    /\ pkg' = pkg \/ ("kind" \in DOMAIN pkg' /\ pkg'.kind = pkg.kind)
    /\ faults' \subseteq faults \cup Culprits

\* What Fail does.
LEMMA FailIsSigned ==
    ASSUME NEW who \in SUBSET Culprits, Fail(who) PROVE Signed
  BY DEF Fail, Signed

\* The classic grader and the author's code in the evaluator.
LEMMA ClassicIsSigned ==
    ASSUME ClassicNext \/ LoadFails \/ RunScorer \/ RunChecker PROVE Signed
  <1>0. \A c \in Culprits : {c} \in SUBSET Culprits
    OBVIOUS
  <1>1. CASE LoadFails \/ LoadPackage
    BY <1>0, <1>1, FailIsSigned DEF LoadFails, LoadPackage, ClassicConfig, Escape, Signed, Culprits
  <1>2. CASE CompileReference \/ CompileSubmission
    BY <1>0, <1>2, FailIsSigned DEF CompileReference, CompileSubmission, BeginCompile, Signed, Culprits
  <1>3. CASE ReferenceCompiled \/ SubmissionCompiled
    BY <1>0, <1>3, FailIsSigned DEF ReferenceCompiled, SubmissionCompiled, EndCompile, Signed, Culprits
  <1>4. CASE RunReference \/ RunTest \/ SetupRaises \/ ScoreTests
    BY <1>0, <1>4, FailIsSigned DEF RunReference, RunTest, SetupRaises, ScoreTests, Signed, Culprits
  <1>5. CASE ReferenceEnds
    BY <1>0, <1>5, FailIsSigned DEF ReferenceEnds, Signed, Culprits
  <1>6. CASE TestEnds \/ CompareTokens
    BY <1>6 DEF TestEnds, CompareTokens, JudgeOutput, RecordRow, Signed, Culprits
  <1>7. CASE RunScorer \/ RunChecker
    BY <1>0, <1>7, FailIsSigned DEF RunScorer, RunChecker, JudgeOutput, RecordRow, Escape, Signed, Culprits
  <1> QED BY <1>1, <1>2, <1>3, <1>4, <1>5, <1>6, <1>7 DEF ClassicNext

\* The optimization grader.
LEMMA OptimizationIsSigned ==
    ASSUME OptimizationNext PROVE Signed
  <1>0. \A c \in Culprits : {c} \in SUBSET Culprits
    OBVIOUS
  <1>1. CASE LoadOptimization
    <2>1. CASE Fail({"contestant"})
      BY <1>0, <2>1, FailIsSigned DEF Culprits
    <2>2. CASE pkg' = OptimizationConfig(pkg) /\ UNCHANGED faults
      <3>1. "kind" \in DOMAIN pkg' /\ pkg'.kind = pkg.kind
        BY <2>2 DEF OptimizationConfig
      <3> QED BY <2>2, <3>1 DEF Signed
    <2> QED BY <1>1, <2>1, <2>2 DEF LoadOptimization
  <1>2. CASE CompileCandidate \/ CompileBaseline
    BY <1>0, <1>2, FailIsSigned DEF CompileCandidate, CompileBaseline, BeginCompile, Signed, Culprits
  <1>3. CASE CandidateCompiled \/ BaselineCompiled
    BY <1>0, <1>3, FailIsSigned DEF CandidateCompiled, BaselineCompiled, EndCompile, Signed, Culprits
  <1>4. CASE RunSolution \/ ScoreInstances
    BY <1>0, <1>4, FailIsSigned DEF RunSolution, ScoreInstances, Signed, Culprits
  <1>5. CASE BaselineEnds
    BY <1>0, <1>5, FailIsSigned DEF BaselineEnds, Signed, Culprits
  <1>6. CASE SolutionEnds
    BY <1>6 DEF SolutionEnds, RecordRow, Signed, Culprits
  <1>7. ASSUME NEW e \in Evaluations, EvaluateBaseline(e) \/ EvaluateOutput(e) PROVE Signed
    BY <1>0, <1>7, FailIsSigned DEF EvaluateBaseline, EvaluateOutput, RecordRow, Signed, Culprits
  <1> QED BY <1>1, <1>2, <1>3, <1>4, <1>5, <1>6, <1>7 DEF OptimizationNext

\* The interactive grader, its worker and the programs that talk.
LEMMA InteractiveIsSigned ==
    ASSUME \/ InteractiveNext \/ WorkerNext \/ InteractorNext \/ CandidateNext
           \/ \E t \in strays : StrayEnds(t)
    PROVE  Signed
  <1>0. {} \in SUBSET Culprits /\ \A c \in Culprits : {c} \in SUBSET Culprits
    OBVIOUS
  <1>1. CASE LoadInteractive \/ StartWorker \/ ScoreInteraction
    BY <1>0, <1>1, FailIsSigned DEF LoadInteractive, InteractiveConfig, StartWorker, ScoreInteraction,
                                    Signed, Culprits
  <1>2. CASE WorkerEnds
    BY <1>0, <1>2, FailIsSigned DEF WorkerEnds, RecordRow, Signed, Culprits
  <1>3. CASE WorkerNext
    BY <1>3 DEF WorkerNext, SetUpSession, CompilerEnds, StartCandidate, Send, Receive, CloseSession,
                PrintReply, WorkerStep, graderVars, Signed
  <1>4. CASE InteractorNext
    BY <1>4 DEF InteractorNext, InteractorTalks, InteractorReturns, InteractorMisbehaves,
                InteractorRaises, InteractorExits, WorkerDies, WorkerComplains, WorkerStep,
                graderVars, Signed, Culprits
  <1>5. CASE CandidateNext \/ \E t \in strays : StrayEnds(t)
    BY <1>5 DEF CandidateNext, CandidateReads, CandidateWrites, CandidateLeaves, CandidateStep,
                WorkerStep, StrayEnds, graderVars, Signed
  <1> QED BY <1>1, <1>2, <1>3, <1>4, <1>5 DEF InteractiveNext

\* Every step of the graders.
LEMMA HarnessIsSigned ==
    ASSUME HarnessStep PROVE Signed
  <1>0. \A c \in Culprits : {c} \in SUBSET Culprits
    OBVIOUS
  <1>1. CASE QuizNext
    <2>1. CASE LoadQuiz \/ ScoreQuiz
      BY <2>1 DEF LoadQuiz, QuizConfig, ScoreQuiz, InvalidSubmission, Signed
    <2>2. ASSUME NEW a, AnswerQuestion(a) PROVE Signed
      BY <2>2 DEF AnswerQuestion, InvalidSubmission, Signed
    <2> QED BY <1>1, <2>1, <2>2 DEF QuizNext
  <1>2. CASE ModelNext
    <2>1. PhaseOwner \in Culprits /\ "host" \in Culprits /\ "contestant" \in Culprits
      BY DEF PhaseOwner, Culprits
    <2>2. CASE LoadModel \/ PhaseFails
      BY <1>0, <2>1, <2>2, FailIsSigned DEF LoadModel, ModelConfig, PhaseFails, Signed
    <2>3. ASSUME NEW took, StagePhase(took) PROVE Signed
      BY <1>0, <2>1, <2>3, FailIsSigned DEF StagePhase, graderVars, Signed
    <2>4. ASSUME NEW d, NEW score, PhaseEnds(d, score) PROVE Signed
      BY <2>4 DEF PhaseEnds, graderVars, Signed
    <2> QED BY <1>2, <2>2, <2>3, <2>4 DEF ModelNext
  <1>3. CASE Poll \/ ChildWrites \/ ChildComplains \/ \E rc \in {0, 1} : ChildExits(rc)
    BY <1>3 DEF Poll, ChildWrites, ChildComplains, ChildExits, Signed
  <1> QED
    BY <1>1, <1>2, <1>3, ClassicIsSigned, OptimizationIsSigned, InteractiveIsSigned
    DEF HarnessStep, JudgeStep, PollStep, ChildStep, AuthorStep

-----------------------------------------------------------------------------
\* What the pipes, the buffer and the transcript of a test hold.  The bound on
\* what the worker has read and the bound on what it has not are one: the
\* candidate writes until both together pass the limit.
Sized(s) ==
    /\ s.inbox \in 0 .. PipeRoom /\ s.log \in 0 .. MaxEvents /\ s.buf \in 0 .. OutputLimit + 1
    /\ s.unread \in Nat /\ s.ends \in Nat /\ s.bytes \in Nat
    /\ s.ends <= s.unread /\ s.bytes + s.unread <= OutputLimit + 1

\* The session of a test that is under way.
SizeInv == session # NULL => Sized(session)

\* The room of the pipes is a number.
LEMMA RoomsAreNumbers == PipeRoom \in Nat /\ MaxEvents \in Nat /\ OutputLimit \in Nat
  BY InteractiveAssumption, LimitsAreNumbers DEF InteractiveAssumption

\* A sized session is a session.
LEMMA SizedIsSession ==
    ASSUME NEW s \in WorkSession, Sized(s) PROVE s \in Session
  <1>1. s.unread \in 0 .. OutputLimit + 1 /\ s.ends \in 0 .. OutputLimit + 1 /\ s.bytes \in 0 .. OutputLimit + 1
    BY RoomsAreNumbers DEF Sized
  <1> QED BY <1>1 DEF Sized, WorkSession, Session

\* A new session, one after its dialogue, and one with an event more.
LEMMA SessionsAreSized ==
    /\ Sized(NewSession)
    /\ \A c : Sized([NewSession EXCEPT !.child = c])
    /\ \A s \in WorkSession, r \in Replies \cup {NULL} :
         Sized(s) => Sized(Broken(s, r)) /\ Sized(Over(s, "close", s.child, r))
    /\ \A s \in WorkSession : Sized(s) => Sized(Recorded(s))
  <1>1. Sized(NewSession) /\ \A c : Sized([NewSession EXCEPT !.child = c])
    BY RoomsAreNumbers DEF NewSession, Sized
  <1>2. ASSUME NEW s \in WorkSession, NEW r \in Replies \cup {NULL}, Sized(s)
        PROVE  Sized(Broken(s, r)) /\ Sized(Over(s, "close", s.child, r))
    <2>1. ASSUME NEW at, NEW c, NEW n \in 0 .. MaxEvents
          PROVE  Sized([NewSession EXCEPT !.at = at, !.child = c, !.log = n, !.reply = r])
      BY RoomsAreNumbers DEF NewSession, Sized
    <2>2. ASSUME NEW at, NEW c, NEW n \in 0 .. MaxEvents
          PROVE  Sized([[NewSession EXCEPT !.at = at, !.child = c, !.log = n, !.reply = r] EXCEPT !.log = 0])
      BY RoomsAreNumbers DEF NewSession, Sized
    <2>3. s.log \in 0 .. MaxEvents
      BY <1>2 DEF Sized
    <2> QED BY <2>1, <2>2, <2>3 DEF Broken, Over
  <1>3. ASSUME NEW s \in WorkSession, Sized(s) PROVE Sized(Recorded(s))
    BY <1>3, RoomsAreNumbers DEF Recorded, Sized, WorkSession
  <1> QED BY <1>1, <1>2, <1>3

\* A step that leaves the sizes alone.
LEMMA SizesStay ==
    ASSUME NEW s \in WorkSession, Sized(s), NEW at, NEW c, NEW b, NEW r
    PROVE  /\ Sized([s EXCEPT !.at = at]) /\ Sized([s EXCEPT !.child = c])
           /\ Sized([s EXCEPT !.at = at, !.child = c])
           /\ Sized([s EXCEPT !.at = at, !.reply = r])
           /\ Sized([s EXCEPT !.at = at, !.child = c, !.born = b])
           /\ Sized([s EXCEPT !.at = at, !.child = c, !.reply = r])
  BY DEF WorkSession, Sized

\* The worker.
LEMMA WorkerKeepsSizes ==
    ASSUME SessionInv, SizeInv, WorkerNext PROVE SizeInv'
  <1>1. session \in WorkSession /\ Sized(session)
    BY DEF WorkerNext, SetUpSession, CompilerEnds, Send, Receive, CloseSession, PrintReply, WorkerAt,
           SessionInv, SizeInv
  <1>2. ASSUME NEW s, WorkerStep(s), Sized(s) PROVE SizeInv'
    BY <1>2 DEF WorkerStep, SizeInv
  <1>3. CASE SetUpSession \/ CompilerEnds
    BY <1>1, <1>2, <1>3, SizesStay DEF SetUpSession, CompilerEnds, StartCandidate
  <1>4. CASE Send
    <2>1. CASE WorkerStep(Broken(session, Reply("completed", "RE", 0)))
      BY <1>1, <1>2, <2>1, RepliesAre, SessionsAreSized
    <2>2. CASE /\ session.inbox < PipeRoom
               /\ WorkerStep(Recorded([session EXCEPT !.inbox = @ + 1, !.at = "talk"]))
      <3> DEFINE s == [session EXCEPT !.inbox = @ + 1, !.at = "talk"]
      <3>1. session.inbox + 1 \in 0 .. PipeRoom /\ session.inbox + 1 \in Int
        BY <1>1, <2>2, RoomsAreNumbers DEF Sized
      <3>2. ASSUME NEW n \in Int, n \in 0 .. PipeRoom
            PROVE  LET t == [session EXCEPT !.inbox = n, !.at = "talk"] IN t \in WorkSession /\ Sized(t)
        BY <1>1, <3>2 DEF WorkSession, Sized
      <3>3. s \in WorkSession /\ Sized(s)
        BY <3>1, <3>2
      <3> HIDE DEF s
      <3>4. Sized(Recorded(s))
        BY <3>3, SessionsAreSized
      <3> QED BY <1>2, <2>2, <3>4 DEF s
    <2> QED BY <1>4, <2>1, <2>2 DEF Send
  <1>5. CASE Receive
    <2>1. ASSUME NEW v \in {"OLE", "TLE", "RE"}, WorkerStep(Broken(session, Reply("completed", v, 0)))
          PROVE  SizeInv'
      BY <1>1, <1>2, <2>1, RepliesAre, SessionsAreSized
    <2>2. CASE /\ session.buf > 0
               /\ WorkerStep(Recorded([session EXCEPT !.buf = @ - 1, !.at = "talk"]))
      <3> DEFINE s == [session EXCEPT !.buf = @ - 1, !.at = "talk"]
      <3>1. session.buf - 1 \in 0 .. OutputLimit + 1 /\ session.buf - 1 \in Int
        BY <1>1, <2>2, RoomsAreNumbers DEF Sized
      <3>2. ASSUME NEW n \in Int, n \in 0 .. OutputLimit + 1
            PROVE  LET t == [session EXCEPT !.buf = n, !.at = "talk"] IN t \in WorkSession /\ Sized(t)
        BY <1>1, <3>2 DEF WorkSession, Sized
      <3>3. s \in WorkSession /\ Sized(s)
        BY <3>1, <3>2
      <3> HIDE DEF s
      <3>4. Sized(Recorded(s))
        BY <3>3, SessionsAreSized
      <3> QED BY <1>2, <2>2, <3>4 DEF s
    <2>3. CASE /\ ~ (session.bytes + session.unread > OutputLimit)
               /\ WorkerStep([session EXCEPT !.bytes = session.bytes + session.unread,
                                             !.buf = session.ends, !.unread = 0, !.ends = 0])
      <3>1. /\ session.bytes + session.unread \in Nat /\ session.bytes + session.unread <= OutputLimit + 1
            /\ session.ends \in 0 .. OutputLimit + 1
        BY <1>1, RoomsAreNumbers DEF Sized
      <3>2. ASSUME NEW n \in Nat, n <= OutputLimit + 1, NEW k \in 0 .. OutputLimit + 1
            PROVE  Sized([session EXCEPT !.bytes = n, !.buf = k, !.unread = 0, !.ends = 0])
        BY <1>1, <3>2 DEF WorkSession, Sized
      <3>3. Sized([session EXCEPT !.bytes = session.bytes + session.unread,
                                  !.buf = session.ends, !.unread = 0, !.ends = 0])
        BY <3>1, <3>2
      <3> QED BY <1>2, <2>3, <3>3
    <2> QED BY <1>5, <2>1, <2>2, <2>3 DEF Receive
  <1>6. CASE CloseSession
    <2>1. PICK child : WorkerStep([session EXCEPT
              !.at = "print", !.child = child,
              !.reply = IF @.verdict = "AC" /\ child # "exit0" THEN Reply("completed", "RE", 0) ELSE @])
      BY <1>6 DEF CloseSession
    <2> DEFINE r == IF session.reply.verdict = "AC" /\ child # "exit0"
                    THEN Reply("completed", "RE", 0) ELSE session.reply
    <2>2. WorkerStep([session EXCEPT !.at = "print", !.child = child, !.reply = r])
      BY <2>1
    <2> HIDE DEF r
    <2>3. Sized([session EXCEPT !.at = "print", !.child = child, !.reply = r])
      BY <1>1, SizesStay
    <2> QED BY <1>2, <2>2, <2>3
  <1>7. CASE PrintReply
    BY <1>7 DEF PrintReply, SizeInv
  <1> QED BY <1>3, <1>4, <1>5, <1>6, <1>7 DEF WorkerNext

\* The interactor, the candidate and the strays.
LEMMA DialogueKeepsSizes ==
    ASSUME SessionInv, SizeInv,
           InteractorNext \/ CandidateNext \/ \E t \in strays : StrayEnds(t)
    PROVE  SizeInv'
  <1>1. CASE InteractorNext
    <2>1. session \in WorkSession /\ Sized(session)
      BY <1>1 DEF InteractorNext, InteractorTalks, InteractorReturns, InteractorMisbehaves, InteractorRaises,
                  InteractorExits, WorkerDies, WorkerComplains, WorkerAt, SessionInv, SizeInv
    <2>2. ASSUME NEW what, InteractorTalks(what) PROVE SizeInv'
      BY <2>1, <2>2, SizesStay DEF InteractorTalks, WorkerStep, SizeInv
    <2>3. ASSUME NEW verdict \in {"AC", "WA"}, NEW score \in {0, Unit}, InteractorReturns(verdict, score)
          PROVE  SizeInv'
      BY <2>1, <2>3, RepliesAre, SessionsAreSized DEF InteractorReturns, WorkerStep, SizeInv
    <2>4. CASE \/ \E verdict \in {"RE", "TLE", "OLE"} : InteractorMisbehaves(verdict)
               \/ InteractorRaises \/ \E rc \in {0, 1} : InteractorExits(rc)
      BY <2>1, <2>4, RepliesAre, SessionsAreSized
         DEF InteractorMisbehaves, InteractorRaises, InteractorExits, SizeInv
    <2>5. CASE WorkerDies \/ WorkerComplains
      BY <2>1, <2>5, SessionsAreSized DEF WorkerDies, WorkerComplains, SizeInv
    <2> QED BY <1>1, <2>2, <2>3, <2>4, <2>5 DEF InteractorNext
  <1>2. CASE CandidateNext
    <2>1. session \in WorkSession /\ Sized(session)
      BY <1>2 DEF CandidateNext, CandidateReads, CandidateWrites, CandidateLeaves, SessionInv, SizeInv
    <2>2. ASSUME NEW s, CandidateStep(s), Sized(s) PROVE SizeInv'
      BY <2>2 DEF CandidateStep, WorkerStep, SizeInv
    <2>3. CASE CandidateReads
      <3>1. session.inbox - 1 \in 0 .. PipeRoom
        BY <2>1, <2>3, RoomsAreNumbers DEF CandidateReads, Sized
      <3>2. \A n \in 0 .. PipeRoom : Sized([session EXCEPT !.inbox = n])
        BY <2>1 DEF WorkSession, Sized
      <3> QED BY <2>2, <2>3, <3>1, <3>2 DEF CandidateReads
    <2>4. ASSUME NEW ends \in {0, 1}, CandidateWrites(ends) PROVE SizeInv'
      <3>1. /\ session.unread + 1 \in Nat /\ session.ends + ends \in Nat
            /\ session.ends + ends <= session.unread + 1
            /\ session.bytes + (session.unread + 1) <= OutputLimit + 1
        BY <2>1, <2>4, RoomsAreNumbers DEF CandidateWrites, Sized
      <3>2. ASSUME NEW n \in Nat, NEW m \in Nat, m <= n, session.bytes + n <= OutputLimit + 1
            PROVE  Sized([session EXCEPT !.unread = n, !.ends = m])
        BY <2>1, <3>2 DEF WorkSession, Sized
      <3>3. Sized([session EXCEPT !.unread = @ + 1, !.ends = @ + ends])
        BY <3>1, <3>2
      <3> QED BY <2>2, <2>4, <3>3 DEF CandidateWrites
    <2>5. ASSUME NEW child, CandidateLeaves(child) PROVE SizeInv'
      BY <2>1, <2>2, <2>5, SizesStay DEF CandidateLeaves
    <2> QED BY <1>2, <2>3, <2>4, <2>5 DEF CandidateNext
  <1>3. CASE \E t \in strays : StrayEnds(t)
    BY <1>3 DEF StrayEnds, SizeInv
  <1> QED BY <1>1, <1>2, <1>3

\* Every step of the graders.
LEMMA HarnessKeepsSizes ==
    ASSUME SessionInv, SizeInv, HarnessStep PROVE SizeInv'
  <1>1. CASE UNCHANGED interactiveVars
    BY <1>1 DEF interactiveVars, SizeInv
  <1>2. CASE InteractiveNext
    <2>1. session' = session \/ session' = NULL \/ session' = NewSession
      BY <1>2 DEF InteractiveNext, LoadInteractive, StartWorker, WorkerEnds, ScoreInteraction, interactiveVars
    <2> QED BY <2>1, SessionsAreSized DEF SizeInv
  <1> QED
    BY <1>1, <1>2, WorkerKeepsSizes, DialogueKeepsSizes
    DEF HarnessStep, JudgeStep, PollStep, ChildStep, AuthorStep

-----------------------------------------------------------------------------
\* The result the worker gets.
FinalResult == [status : {"completed", "failed"}, score : Scores]

\* The rest of the state is what it should be.
RestInv ==
    /\ "kind" \in DOMAIN pkg /\ faults \subseteq Culprits
    /\ SizeInv
    /\ final \in FinalResult \cup {NULL}

\* A runner takes the grader's result where there is one, or makes one of its
\* own, and blames nobody.
LEMMA RunnerKeepsRest ==
    ASSUME SandboxInv, ResultInv, RestInv, RunnerNext PROVE RestInv'
  <1>1. UNCHANGED <<pkg, faults>>
    BY RunnerKeepsVerdict
  <1>2. Failed \in FinalResult /\ FinalResult' = FinalResult
    <2>1. 0 \in Scores /\ Scores' = Scores
      BY <1>1, UnitsAreNumbers, UnitScores DEF Scores, IsScorer, IsModel
    <2> QED BY <2>1 DEF Failed, FinalResult
  <1>3. ASSUME stage = "returned", NEW status \in {"completed", "failed"},
               final' = [status |-> status, score |-> result.score]
        PROVE  final' \in FinalResult
    <2>1. result \in Result
      BY <1>3 DEF ResultInv
    <2>2. result.score \in Scores
      BY <2>1 DEF ResultInv, InRange
    <2> QED BY <1>3, <2>2 DEF FinalResult
  <1>4. stage = "returned" => result.status \in {"completed", "failed"}
    BY DEF ResultInv, Result
  <1>5. final' \in FinalResult \cup {NULL}
    <2>0. final \in FinalResult \cup {NULL}
      BY DEF RestInv
    <2>1. CASE Register \/ OpenSandbox
      BY <1>2, <2>0, <2>1 DEF Register, OpenSandbox
    <2>2. CASE TakeResult
      BY <1>2, <1>3, <1>4, <2>2 DEF TakeResult, Close
    <2>3. CASE AlarmRings \/ RunTimesOut
      BY <1>2, <2>3 DEF AlarmRings, Close, RunTimesOut
    <2>4. CASE CollectResult
      <3>1. CASE final' = Failed
        BY <1>2, <3>1
      <3>2. CASE box.file = "whole" /\ final' = [status |-> ExitStatus, score |-> result.score]
        <4>1. stage = "returned"
          BY <3>2 DEF SandboxInv, BoxInv
        <4>2. ExitStatus \in {"completed", "failed"}
          BY <1>4, <4>1 DEF ExitStatus
        <4> QED BY <1>3, <3>2, <4>1, <4>2
      <3> QED BY <2>4, <3>1, <3>2 DEF CollectResult, Close
    <2>5. CASE WorkerExits \/ WriteResult \/ ContainerExits \/ ContainerDies
      BY <2>0, <2>5 DEF WorkerExits, WriteResult, ContainerExits, ContainerDies
    <2> QED BY <2>1, <2>2, <2>3, <2>4, <2>5 DEF RunnerNext
  <1>6. session' = session \/ session' = NULL
    <2>1. CASE Register \/ OpenSandbox
      BY <2>1 DEF Register, OpenSandbox, interactiveVars
    <2>2. CASE TakeResult \/ AlarmRings \/ WorkerExits \/ WriteResult \/ CollectResult
      BY <2>2 DEF TakeResult, AlarmRings, WorkerExits, WriteResult, CollectResult, harnessVars, interactiveVars
    <2>3. CASE ContainerExits \/ ContainerDies \/ RunTimesOut
      BY <2>3 DEF ContainerExits, ContainerDies, RunTimesOut, Cleanup, AllGone, harnessVars, interactiveVars
    <2> QED BY <2>1, <2>2, <2>3 DEF RunnerNext
  <1> QED BY <1>1, <1>2, <1>5, <1>6 DEF RestInv, SizeInv

\* In every evaluation, for any packages, limits, rooms of pipes and numbers of
\* tests, the state is of its type: no grader goes past its last test or
\* question, makes a row too many or, but for the author's own metrics, a score
\* past the unit, no pipe, buffer or transcript holds more than its bound, and
\* what reaches the worker is a result.
THEOREM GradingIsTyped == Spec => []GradingTypeOK
  <1>1. Init => RestInv
    <2> SUFFICES ASSUME Init PROVE RestInv
      OBVIOUS
    <2>1. "kind" \in DOMAIN pkg
      BY PackagesAssumption DEF Init, PackagesAssumption
    <2> QED BY <2>1 DEF Init, RestInv, SizeInv
  <1>2. TestInv /\ SandboxInv /\ ScoreInv /\ RestInv /\ [Next]_vars => RestInv'
    <2> SUFFICES ASSUME SessionInv, SandboxInv, ResultInv, RestInv, [Next]_vars PROVE RestInv'
      BY DEF TestInv, ScoreInv
    <2>1. CASE UNCHANGED vars
      BY <2>1 DEF vars, harnessVars, graderVars, interactiveVars, RestInv, SizeInv, FinalResult, Scores,
                  IsScorer, IsModel
    <2>2. ASSUME Runs(HarnessStep) PROVE RestInv'
      <3>1. Signed /\ SizeInv' /\ final' = final
        BY <2>2, HarnessIsSigned, HarnessKeepsSizes DEF Runs, RestInv
      <3>2. FinalResult' = FinalResult
        BY <3>1 DEF Signed, FinalResult, Scores, IsScorer, IsModel
      <3> QED BY <3>1, <3>2 DEF Signed, RestInv
    <2> QED BY <2>1, <2>2, TwoKindsOfSteps, RunnerKeepsRest
  <1>3. TestInv /\ SandboxInv /\ ScoreInv /\ RestInv => GradingTypeOK
    <2> SUFFICES ASSUME TestInv, SandboxInv, ScoreInv, RestInv PROVE GradingTypeOK
      OBVIOUS
    <2>1. /\ test \in Nat \ {0} /\ (~ IsQuiz => test <= Tests)
          /\ rows \in Seq(IF IsQuiz THEN QuizRow ELSE Row) /\ Len(rows) <= test
      BY DEF ScoreInv, PlaceInv
    <2>2. IsQuiz /\ rows # <<>> => test <= Len(pkg.questions)
      BY DEF ScoreInv, QuestionInv
    <2>3. proc \in Process \cup {NULL}
      BY DEF TestInv, ProcInv
    <2>4. session \in Session \cup {NULL}
      BY SizedIsSession DEF TestInv, SessionInv, RestInv, SizeInv
    <2>5. box \in Box /\ result \in Result \cup {NULL} /\ (result # NULL => result.score \in Scores)
          /\ baseline \in Seq(Objectives)
      BY DEF SandboxInv, BoxInv, ScoreInv, ResultInv, InRange, ReferenceInv
    <2>6. "kind" \in DOMAIN pkg /\ faults \subseteq Culprits /\ final \in FinalResult \cup {NULL}
      BY DEF RestInv
    <2> QED BY <2>1, <2>2, <2>3, <2>4, <2>5, <2>6 DEF GradingTypeOK, Culprits, FinalResult
  <1> QED BY <1>1, <1>2, <1>3, TestInvariant, SandboxInvariant, ScoreInvariant, PTL DEF Spec
============================================================================

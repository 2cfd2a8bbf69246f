----------------------------- MODULE ArithProofs ----------------------------
(***************************************************************************)
(* Proofs about the rank of a matrix, the integers, the targets and the    *)
(* merkle root, for matrices of any size, and for words and bytes of any   *)
(* number of bits and any number of limbs: what the loops of Uint and Pow  *)
(* compute is what the numbers say.                                        *)
(***************************************************************************)
EXTENDS Arith, UintLemmas

-----------------------------------------------------------------------------
(* Sums over the rows or the columns of a matrix *)

Vectors == [Rows -> Int]

LEMMA NTyped == N \in Nat
  BY MatrixAssumption

\* The sum of the first of t's numbers.
Partial(t) == Repeat(N, 0, [i \in 0..(N - 1) |-> [sum \in Int |-> sum + t[i + 1]]])

LEMMA PartialFacts ==
  ASSUME NEW t \in Vectors
  PROVE  /\ Partial(t) \in [0..N -> Int] /\ Partial(t)[0] = 0
         /\ \A i \in 0..(N - 1) : Partial(t)[i + 1] = Partial(t)[i] + t[i + 1]
         /\ Total(t) = Partial(t)[N] /\ Total(t) \in Int
<1> DEFINE turn == [i \in 0..(N - 1) |-> [sum \in Int |-> sum + t[i + 1]]]
           V == Int
           zero == 0
<1>1. ASSUME NEW i \in 0..(N - 1) PROVE t[i + 1] \in Int
  BY NTyped DEF Vectors, Rows
<1>2. turn \in [0..(N - 1) -> [V -> V]] /\ zero \in V
  BY <1>1
<1>3. \A i \in 0..(N - 1), sum \in Int : turn[i][sum] = sum + t[i + 1]
  OBVIOUS
<1>4. Partial(t) = Repeat(N, zero, turn) /\ Total(t) = Partial(t)[N]
  BY Zenon DEF Partial, Total
<1> HIDE DEF turn, V, zero
<1>5. /\ Repeat(N, zero, turn) \in [0..N -> V] /\ Repeat(N, zero, turn)[0] = zero
      /\ \A i \in 0..(N - 1) :
           Repeat(N, zero, turn)[i + 1] = turn[i][Repeat(N, zero, turn)[i]]
  BY <1>2, NTyped, RepeatFacts
<1>6. Partial(t) \in [0..N -> Int] /\ Partial(t)[0] = 0
  BY <1>4, <1>5 DEF V, zero
<1>7. ASSUME NEW i \in 0..(N - 1) PROVE Partial(t)[i + 1] = Partial(t)[i] + t[i + 1]
  <2>1. Partial(t)[i] \in Int
    BY <1>6, NTyped
  <2> QED
    BY <2>1, <1>3, <1>4, <1>5
<1> QED
  BY <1>4, <1>6, <1>7, NTyped

\* A sum is linear, and sums of sums do not depend on which is taken first.
LEMMA TotalAdd ==
  ASSUME NEW s \in Vectors, NEW t \in Vectors, NEW u \in Vectors,
         \A k \in Rows : u[k] = s[k] + t[k]
  PROVE  /\ \A i \in 0..N : Partial(u)[i] = Partial(s)[i] + Partial(t)[i]
         /\ Total(u) = Total(s) + Total(t)
<1> DEFINE ps == Partial(s)
           pt == Partial(t)
           pu == Partial(u)
<1>1. /\ ps \in [0..N -> Int] /\ ps[0] = 0
      /\ \A i \in 0..(N - 1) : ps[i + 1] = ps[i] + s[i + 1]
      /\ Total(s) = ps[N]
  BY PartialFacts
<1>2. /\ pt \in [0..N -> Int] /\ pt[0] = 0
      /\ \A i \in 0..(N - 1) : pt[i + 1] = pt[i] + t[i + 1]
      /\ Total(t) = pt[N]
  BY PartialFacts
<1>3. /\ pu \in [0..N -> Int] /\ pu[0] = 0
      /\ \A i \in 0..(N - 1) : pu[i + 1] = pu[i] + u[i + 1]
      /\ Total(u) = pu[N]
  BY PartialFacts
<1> HIDE DEF ps, pt, pu
<1> DEFINE S == {i \in 0..N : pu[i] = ps[i] + pt[i]}
<1>4. 0 \in S
  BY <1>1, <1>2, <1>3, NTyped
<1>5. ASSUME NEW i \in 0..(N - 1), i \in S PROVE i + 1 \in S
  <2>1. i + 1 \in Rows /\ i + 1 \in 0..N /\ i \in 0..N
    BY NTyped DEF Rows
  <2>2. s[i + 1] \in Int /\ t[i + 1] \in Int /\ u[i + 1] = s[i + 1] + t[i + 1]
    BY <2>1 DEF Vectors
  <2>3. ps[i] \in Int /\ pt[i] \in Int /\ pu[i] = ps[i] + pt[i]
    BY <2>1, <1>1, <1>2, <1>5
  <2> QED
    BY <2>1, <2>2, <2>3, <1>1, <1>2, <1>3
<1>6. \A i \in 0..N : i \in S
  <2> HIDE DEF S
  <2> QED
    BY <1>4, <1>5, NTyped, UpTo
<1> QED
  BY <1>1, <1>2, <1>3, <1>6, NTyped DEF ps, pt, pu

LEMMA TotalScale ==
  ASSUME NEW c \in Int, NEW t \in Vectors, NEW u \in Vectors,
         \A k \in Rows : u[k] = c * t[k]
  PROVE  Total(u) = c * Total(t)
<1> DEFINE pt == Partial(t)
           pu == Partial(u)
<1>2. /\ pt \in [0..N -> Int] /\ pt[0] = 0
      /\ \A i \in 0..(N - 1) : pt[i + 1] = pt[i] + t[i + 1]
      /\ Total(t) = pt[N]
  BY PartialFacts
<1>3. /\ pu \in [0..N -> Int] /\ pu[0] = 0
      /\ \A i \in 0..(N - 1) : pu[i + 1] = pu[i] + u[i + 1]
      /\ Total(u) = pu[N]
  BY PartialFacts
<1> HIDE DEF pt, pu
<1> DEFINE S == {i \in 0..N : pu[i] = c * pt[i]}
<1>4. 0 \in S
  BY <1>2, <1>3, NTyped
<1>5. ASSUME NEW i \in 0..(N - 1), i \in S PROVE i + 1 \in S
  <2>1. i + 1 \in Rows /\ i + 1 \in 0..N /\ i \in 0..N
    BY NTyped DEF Rows
  <2> DEFINE x == pt[i]
             y == t[i + 1]
  <2>2. x \in Int /\ y \in Int /\ u[i + 1] = c * y /\ pu[i] = c * x /\ pt[i + 1] = x + y
    BY <2>1, <1>2, <1>5 DEF Vectors
  <2>3. pu[i + 1] = pu[i] + u[i + 1]
    BY <1>3
  <2> HIDE DEF x, y
  <2>4. c * (x + y) = c * x + c * y
    BY <2>2
  <2> QED
    BY <2>1, <2>2, <2>3, <2>4
<1>6. \A i \in 0..N : i \in S
  <2> HIDE DEF S
  <2> QED
    BY <1>4, <1>5, NTyped, UpTo
<1> QED
  BY <1>2, <1>3, <1>6, NTyped

\* A sum with one number that counts.
LEMMA TotalOne ==
  ASSUME NEW t \in Vectors, NEW j \in Rows, \A k \in Rows : k # j => t[k] = 0
  PROVE  Total(t) = t[j]
<1> DEFINE pt == Partial(t)
<1>1. /\ pt \in [0..N -> Int] /\ pt[0] = 0
      /\ \A i \in 0..(N - 1) : pt[i + 1] = pt[i] + t[i + 1]
      /\ Total(t) = pt[N]
  BY PartialFacts
<1> HIDE DEF pt
<1>0. j \in 1..N /\ t[j] \in Int
  BY DEF Rows, Vectors
<1> DEFINE S == {i \in 0..N : pt[i] = IF i < j THEN 0 ELSE t[j]}
<1>2. 0 \in S
  BY <1>0, <1>1, NTyped
<1>3. ASSUME NEW i \in 0..(N - 1), i \in S PROVE i + 1 \in S
  <2>1. i + 1 \in Rows /\ i + 1 \in 0..N
    BY NTyped DEF Rows
  <2>2. i + 1 = j \/ t[i + 1] = 0
    BY <2>1
  <2> QED
    BY <2>1, <2>2, <1>0, <1>1, <1>3
<1>4. \A i \in 0..N : i \in S
  <2> HIDE DEF S
  <2> QED
    BY <1>2, <1>3, NTyped, UpTo
<1>5. N \in S
  BY <1>4, NTyped
<1> QED
  BY <1>0, <1>1, <1>5

LEMMA TotalZero ==
  ASSUME NEW t \in Vectors, \A k \in Rows : t[k] = 0
  PROVE  Total(t) = 0
<1>1. CASE N = 0
  BY <1>1, PartialFacts
<1>2. CASE N # 0
  <2>1. 1 \in Rows
    BY <1>2, NTyped DEF Rows
  <2> QED
    BY <2>1, TotalOne
<1> QED
  BY <1>1, <1>2

LEMMA TotalSwap ==
  ASSUME NEW g \in [Rows -> Vectors]
  PROVE  Total([k \in Rows |-> Total(g[k])])
           = Total([l \in Rows |-> Total([k \in Rows |-> g[k][l]])])
<1> DEFINE rows == [k \in Rows |-> Total(g[k])]
           col == [l \in Rows |-> [k \in Rows |-> g[k][l]]]
           some == [i \in 0..N |-> [l \in Rows |-> Partial(col[l])[i]]]
<1>1. \A k \in Rows : g[k] \in Vectors
  OBVIOUS
<1>2. rows \in Vectors
  BY <1>1, PartialFacts DEF Vectors
<1>3. \A l \in Rows : col[l] \in Vectors /\ \A k \in Rows : col[l][k] = g[k][l]
  BY <1>1 DEF Vectors
<1> HIDE DEF col
<1>4. ASSUME NEW l \in Rows
      PROVE  /\ Partial(col[l]) \in [0..N -> Int] /\ Partial(col[l])[0] = 0
             /\ \A i \in 0..(N - 1) :
                  Partial(col[l])[i + 1] = Partial(col[l])[i] + col[l][i + 1]
             /\ Total(col[l]) = Partial(col[l])[N]
  <2> DEFINE t == col[l]
  <2>1. t \in Vectors
    BY <1>3
  <2> HIDE DEF t
  <2>2. /\ Partial(t) \in [0..N -> Int] /\ Partial(t)[0] = 0
        /\ \A i \in 0..(N - 1) : Partial(t)[i + 1] = Partial(t)[i] + t[i + 1]
        /\ Total(t) = Partial(t)[N] /\ Total(t) \in Int
    BY <2>1, PartialFacts
  <2> QED
    BY <2>2 DEF t
<1>5. \A i \in 0..N : some[i] \in Vectors /\ \A l \in Rows : some[i][l] = Partial(col[l])[i]
  BY <1>4 DEF Vectors
<1> HIDE DEF some
<1> DEFINE pr == Partial(rows)
<1>6. /\ pr \in [0..N -> Int] /\ pr[0] = 0
      /\ \A i \in 0..(N - 1) : pr[i + 1] = pr[i] + rows[i + 1]
      /\ Total(rows) = pr[N]
  <2> HIDE DEF rows
  <2> QED
    BY <1>2, PartialFacts
<1>7. \A k \in Rows : rows[k] = Total(g[k])
  OBVIOUS
<1> HIDE DEF pr, rows
<1> DEFINE S == {i \in 0..N : pr[i] = Total(some[i])}
<1>8. 0 \in S
  <2>1. 0 \in 0..N
    BY NTyped
  <2>2. some[0] \in Vectors /\ \A l \in Rows : some[0][l] = 0
    BY <2>1, <1>4, <1>5
  <2>3. Total(some[0]) = 0
    BY <2>2, TotalZero
  <2> QED
    BY <2>1, <2>3, <1>6
<1>9. ASSUME NEW i \in 0..(N - 1), i \in S PROVE i + 1 \in S
  <2>1. i + 1 \in Rows /\ i + 1 \in 0..N /\ i \in 0..N
    BY NTyped DEF Rows
  <2>2. some[i] \in Vectors /\ some[i + 1] \in Vectors /\ g[i + 1] \in Vectors
    BY <2>1, <1>1, <1>5
  <2>3. \A l \in Rows : some[i + 1][l] = some[i][l] + g[i + 1][l]
    <3> TAKE l \in Rows
    <3>1. some[i + 1][l] = Partial(col[l])[i + 1] /\ some[i][l] = Partial(col[l])[i]
      BY <2>1, <1>5
    <3>2. Partial(col[l])[i + 1] = Partial(col[l])[i] + col[l][i + 1]
      BY <1>4
    <3>3. col[l][i + 1] = g[i + 1][l]
      BY <2>1, <1>3
    <3> QED
      BY <3>1, <3>2, <3>3
  <2>4. Total(some[i + 1]) = Total(some[i]) + Total(g[i + 1])
    BY <2>2, <2>3, TotalAdd
  <2>5. pr[i + 1] = pr[i] + Total(g[i + 1])
    BY <2>1, <1>6, <1>7
  <2> QED
    BY <2>1, <2>4, <2>5, <1>9
<1>10. N \in S
  <2>1. \A i \in 0..N : i \in S
    <3> HIDE DEF S
    <3> QED
      BY <1>8, <1>9, NTyped, UpTo
  <2> QED
    BY <2>1, NTyped
<1>11. some[N] = [l \in Rows |-> Total(col[l])]
  <2>1. N \in 0..N
    BY NTyped
  <2>2. some[N] \in [Rows -> Int] /\ \A l \in Rows : some[N][l] = Total(col[l])
    BY <2>1, <1>4, <1>5 DEF Vectors
  <2> QED
    BY <2>2
<1>12. [l \in Rows |-> Total(col[l])] = [l \in Rows |-> Total([k \in Rows |-> g[k][l]])]
  BY DEF col
<1> QED
  BY <1>6, <1>10, <1>11, <1>12 DEF rows

-----------------------------------------------------------------------------
(* Sets of rows, and signs *)

\* What is in a set of rows can be counted.
LEMMA RowsCounted ==
  ASSUME NEW X \in SUBSET Rows
  PROVE  /\ IsFiniteSet(X) /\ Cardinality(X) \in Nat
         /\ Cardinality(X) = 0 <=> X = {}
         /\ \A a \in X : Cardinality(X \ {a}) = Cardinality(X) - 1
         /\ \A a \in Rows : a \notin X => Cardinality(X \cup {a}) = Cardinality(X) + 1
<1>1. IsFiniteSet(Rows)
  BY NTyped, FS_Interval DEF Rows
<1>2. IsFiniteSet(X)
  BY <1>1, FS_Subset
<1>3. Cardinality(X) \in Nat
  BY <1>2, FS_CardinalityType
<1>4. Cardinality(X) = 0 <=> X = {}
  BY <1>2, FS_EmptySet
<1>5. \A a \in X : Cardinality(X \ {a}) = Cardinality(X) - 1
  BY <1>2, FS_RemoveElement
<1>6. \A a \in Rows : a \notin X => Cardinality(X \cup {a}) = Cardinality(X) + 1
  BY <1>2, FS_AddElement
<1> QED
  BY <1>2, <1>3, <1>4, <1>5, <1>6

\* A set of rows has a last one.
LEMMA RowsMax ==
  ASSUME NEW X \in SUBSET Rows, X # {}
  PROVE  Max(X) \in X /\ \A x \in X : x <= Max(X)
<1>1. X \subseteq 1..N /\ N \in Nat
  BY NTyped DEF Rows
<1>2. \E y \in X : \A x \in X : x <= y
  <2> SUFFICES ASSUME \A y \in X : \E x \in X : x > y PROVE FALSE
    BY <1>1
  <2> DEFINE U == {i \in 0..N : \E x \in X : x > i}
  <2>1. 0 \in U
    <3>1. PICK x \in X : TRUE
      OBVIOUS
    <3>2. x \in 1..N /\ 0 \in 0..N
      BY <1>1
    <3> QED
      BY <3>2
  <2>2. ASSUME NEW i \in 0..(N - 1), i \in U PROVE i + 1 \in U
    <3>1. PICK x \in X : x > i
      BY <2>2
    <3>2. PICK y \in X : y > x
      OBVIOUS
    <3> QED
      BY <3>1, <3>2, <1>1
  <2>3. N \in U
    <3>1. \A i \in 0..N : i \in U
      <4> HIDE DEF U
      <4> QED
        BY <1>1, <2>1, <2>2, UpTo
    <3> QED
      BY <3>1, <1>1
  <2> QED
    BY <2>3, <1>1
<1>3. \E y \in X : \A x \in X : y >= x
  BY <1>1, <1>2
<1>4. Max(X) \in X /\ \A x \in X : Max(X) >= x
  BY <1>3 DEF Max
<1> QED
  BY <1>1, <1>4

Signs == {1, -1}

LEMMA SignTyped ==
  ASSUME NEW X \in SUBSET Rows, NEW a \in Rows
  PROVE  Sign(X, a) \in Signs
  BY DEF Sign, Signs

\* One more in the set turns the signs of those in front of it.
LEMMA SignAdd ==
  ASSUME NEW X \in SUBSET Rows, NEW a \in Rows, NEW b \in Rows, b \notin X
  PROVE  Sign(X \cup {b}, a) = IF b > a THEN -Sign(X, a) ELSE Sign(X, a)
<1> DEFINE A == {q \in X : q > a}
           B == {q \in X \cup {b} : q > a}
<1>1. A \in SUBSET Rows /\ b \notin A /\ B = IF b > a THEN A \cup {b} ELSE A
  OBVIOUS
<1>2. Sign(X, a) = (IF Cardinality(A) % 2 = 0 THEN 1 ELSE -1)
      /\ Sign(X \cup {b}, a) = (IF Cardinality(B) % 2 = 0 THEN 1 ELSE -1)
  BY DEF Sign
<1> HIDE DEF A, B
<1>3. Cardinality(A) \in Nat /\ Cardinality(A \cup {b}) = Cardinality(A) + 1
  BY <1>1, RowsCounted
<1> DEFINE n == Cardinality(A)
<1> HIDE DEF n
<1>4. n \in Nat => (((n + 1) % 2 = 0) <=> ~(n % 2 = 0))
  OBVIOUS
<1>5. CASE b > a
  BY <1>1, <1>2, <1>3, <1>4, <1>5 DEF n
<1>6. CASE ~(b > a)
  BY <1>1, <1>2, <1>6
<1> QED
  BY <1>5, <1>6

\* The last one has none behind it.
LEMMA SignLast ==
  ASSUME NEW X \in SUBSET Rows, NEW a \in Rows, \A x \in X : x <= a
  PROVE  Sign(X, a) = 1
<1>1. {q \in X : q > a} = {}
  <2>1. \A x \in X : x \in Int /\ a \in Int /\ ~(x > a)
    BY NTyped DEF Rows
  <2> QED
    BY <2>1
<1>2. Cardinality({}) = 0
  BY FS_EmptySet
<1> QED
  BY <1>1, <1>2 DEF Sign

\* Of two that are in the set, or come into it, one is behind the other.
LEMMA SignExchange ==
  ASSUME NEW L \in SUBSET Rows, NEW l \in L, NEW q \in Rows, q \notin L
  PROVE  Sign(L, q) * Sign(L \cup {q}, l) = -(Sign(L, l) * Sign(L \ {l}, q))
<1> DEFINE M == L \ {l}
<1>1. M \in SUBSET Rows /\ l \notin M /\ l \in Rows /\ M \cup {l} = L /\ l # q
  OBVIOUS
<1> HIDE DEF M
<1>2. Sign(L, q) = IF l > q THEN -Sign(M, q) ELSE Sign(M, q)
  BY <1>1, SignAdd
<1>3. Sign(L \cup {q}, l) = IF q > l THEN -Sign(L, l) ELSE Sign(L, l)
  BY <1>1, SignAdd
<1>4. (l > q /\ ~(q > l)) \/ (q > l /\ ~(l > q))
  BY <1>1 DEF Rows
<1>5. Sign(M, q) \in Signs /\ Sign(L, l) \in Signs
  BY <1>1, SignTyped
<1> QED
  BY <1>2, <1>3, <1>4, <1>5 DEF M, Signs

\* A row in the set does not change its own sign.
LEMMA SignOwn ==
  ASSUME NEW L \in SUBSET Rows, NEW q \in L
  PROVE  Sign(L, q) = Sign(L \ {q}, q)
<1>1. {p \in L : p > q} = {p \in L \ {q} : p > q}
  BY DEF Rows
<1> QED
  BY <1>1 DEF Sign

-----------------------------------------------------------------------------
(* Determinants *)

Matrices == [Rows -> Vectors]

\* The expansion of a determinant by row t, and by column q.
ByRow(m, t, D, K) ==
  [k \in Rows |-> IF k \in K THEN Sign(K, k) * m[t][k] * D[K \ {k}] ELSE 0]
ByColumn(m, q, R, L) ==
  [k \in Rows |-> IF k \in R THEN Sign(R, k) * m[k][q] * Det(m)[R \ {k}][L] ELSE 0]

LEMMA ByRowTyped ==
  ASSUME NEW m \in Matrices, NEW t \in Rows, NEW D \in [SUBSET Rows -> Int],
         NEW K \in SUBSET Rows
  PROVE  ByRow(m, t, D, K) \in Vectors
<1>1. ASSUME NEW k \in Rows, k \in K PROVE Sign(K, k) * m[t][k] * D[K \ {k}] \in Int
  <2> DEFINE x == Sign(K, k)
             y == m[t][k]
             z == D[K \ {k}]
  <2>1. x \in Int /\ y \in Int /\ z \in Int
    BY SignTyped DEF Signs, Matrices, Vectors
  <2> HIDE DEF x, y, z
  <2>2. x * y * z \in Int
    BY <2>1
  <2> QED
    BY <2>2 DEF x, y, z
<1> QED
  BY <1>1 DEF ByRow, Vectors

\* Rows up to the next one: the next one is the last, or not among them.
LEMMA LastRow ==
  ASSUME NEW n \in 0..(N - 1), NEW R \in SUBSET (1..(n + 1)), n + 1 \in R
  PROVE  Max(R) = n + 1 /\ n + 1 \in Rows /\ R \ {n + 1} \in SUBSET (1..n) /\ R \in SUBSET Rows
<1>1. R \in SUBSET Rows /\ n + 1 \in Rows /\ n \in Nat
  BY NTyped DEF Rows
<1>2. Max(R) \in R /\ \A x \in R : x <= Max(R)
  BY <1>1, RowsMax
<1>3. Max(R) \in 1..(n + 1) /\ n + 1 <= Max(R)
  BY <1>2
<1> QED
  BY <1>1, <1>3

LEMMA DetFacts ==
  ASSUME NEW m \in Matrices
  PROVE  \A R \in SUBSET Rows :
           /\ Det(m)[R] \in [SUBSET Rows -> Int]
           /\ \A K \in SUBSET Rows :
                Det(m)[R][K] = IF R = {} THEN 1
                               ELSE Total(ByRow(m, Max(R), Det(m)[R \ {Max(R)}], K))
<1> DEFINE V == [SUBSET Rows -> Int]
           Next1(R, D) == [K \in SUBSET Rows |->
                             IF R = {} THEN 1 ELSE Total(ByRow(m, Max(R), D, K))]
           Runs(f, n) == /\ f \in [SUBSET (1..n) -> V]
                         /\ \A R \in SUBSET (1..n) : f[R] = Next1(R, f[R \ {Max(R)}])
           S == {n \in 0..N : \E f : Runs(f, n)}
<1>1. ASSUME NEW R \in SUBSET Rows, NEW D \in V PROVE Next1(R, D) \in V
  <2>1. ASSUME NEW K \in SUBSET Rows, R # {} PROVE Total(ByRow(m, Max(R), D, K)) \in Int
    <3>1. ByRow(m, Max(R), D, K) \in Vectors
      BY <2>1, RowsMax, ByRowTyped
    <3> QED
      BY <3>1, PartialFacts
  <2> QED
    BY <2>1
<1>2. ASSUME NEW D, NEW E PROVE Next1({}, D) = Next1({}, E) /\ Next1({}, D) \in V
  OBVIOUS
<1> HIDE DEF Next1
<1>3. 0 \in S
  <2> DEFINE f == [R \in SUBSET (1..0) |-> Next1({}, 0)]
  <2>1. SUBSET (1..0) = {{}}
    BY SMT
  <2>2. f \in [SUBSET (1..0) -> V] /\ \A R \in SUBSET (1..0) : f[R] = Next1({}, 0) /\ R = {}
    BY <2>1, <1>2
  <2> HIDE DEF f
  <2>3. \A R \in SUBSET (1..0) : f[R] = Next1(R, f[R \ {Max(R)}])
    BY <2>2, <1>2, Zenon
  <2>4. Runs(f, 0)
    BY <2>2, <2>3
  <2>5. 0 \in 0..N
    BY NTyped
  <2> HIDE DEF Runs
  <2> QED
    BY <2>4, <2>5
<1>4. ASSUME NEW n \in 0..(N - 1), n \in S PROVE n + 1 \in S
  <2>1. PICK f : Runs(f, n)
    BY <1>4
  <2> DEFINE g == [R \in SUBSET (1..(n + 1)) |->
                     IF n + 1 \in R THEN Next1(R, f[R \ {n + 1}]) ELSE f[R]]
  <2>2. ASSUME NEW R \in SUBSET (1..(n + 1)), n + 1 \in R
        PROVE  /\ Max(R) = n + 1 /\ R \ {n + 1} \in SUBSET (1..n)
               /\ g[R] = Next1(R, g[R \ {Max(R)}]) /\ g[R] \in V
    <3>1. Max(R) = n + 1 /\ R \ {n + 1} \in SUBSET (1..n) /\ R \in SUBSET Rows
      BY <2>2, LastRow
    <3>2. R \ {n + 1} \in SUBSET (1..(n + 1)) /\ n + 1 \notin R \ {n + 1}
      OBVIOUS
    <3>3. g[R] = Next1(R, f[R \ {n + 1}]) /\ g[R \ {n + 1}] = f[R \ {n + 1}]
      BY <2>2, <3>2
    <3>4. f[R \ {n + 1}] \in V
      BY <2>1, <3>1
    <3> QED
      BY <3>1, <3>3, <3>4, <1>1
  <2>3. ASSUME NEW R \in SUBSET (1..(n + 1)), n + 1 \notin R
        PROVE  g[R] = Next1(R, g[R \ {Max(R)}]) /\ g[R] \in V
    <3>1. R \in SUBSET (1..n)
      <4>1. n \in Nat
        BY NTyped
      <4> QED
        BY <4>1, <2>3
    <3>2. R \ {Max(R)} \in SUBSET (1..n) /\ R \ {Max(R)} \in SUBSET (1..(n + 1))
          /\ n + 1 \notin R \ {Max(R)}
      BY <2>3, <3>1
    <3>3. g[R] = f[R] /\ g[R \ {Max(R)}] = f[R \ {Max(R)}]
      BY <2>3, <3>2
    <3> QED
      BY <2>1, <3>1, <3>3
  <2>4. Runs(g, n + 1)
    <3>1. g \in [SUBSET (1..(n + 1)) -> V]
      BY <2>2, <2>3
    <3> HIDE DEF g
    <3> QED
      BY <2>2, <2>3, <3>1
  <2>5. n + 1 \in 0..N
    BY NTyped
  <2> HIDE DEF Runs
  <2> QED
    BY <2>4, <2>5
<1>5. N \in S
  <2>1. \A n \in 0..N : n \in S
    <3> HIDE DEF S
    <3> QED
      BY <1>3, <1>4, NTyped, UpTo
  <2>2. N \in 0..N
    BY NTyped
  <2> HIDE DEF S
  <2> QED
    BY <2>1, <2>2
<1>6. PICK f : Runs(f, N)
  BY <1>5
<1> DEFINE G(h) == [R \in SUBSET Rows |->
                      [K \in SUBSET Rows |->
                         IF R = {} THEN 1
                         ELSE Total([k \in Rows |->
                                IF k \in K THEN Sign(K, k) * m[Max(R)][k]
                                                  * h[R \ {Max(R)}][K \ {k}] ELSE 0])]]
           det == CHOOSE h : h = G(h)
<1>7. \A h : G(h) = [R \in SUBSET Rows |-> Next1(R, h[R \ {Max(R)}])]
  BY DEF Next1, ByRow
<1>8. Det(m) = det
  BY Zenon DEF Det
<1>9. \E h : h = G(h)
  <2>1. f \in [SUBSET Rows -> V] /\ \A R \in SUBSET Rows : f[R] = Next1(R, f[R \ {Max(R)}])
    BY <1>6 DEF Rows
  <2>2. f = [R \in SUBSET Rows |-> Next1(R, f[R \ {Max(R)}])]
    BY <2>1
  <2> HIDE DEF G
  <2> QED
    BY <2>2, <1>7
<1>10. det = G(det)
  <2> HIDE DEF G
  <2> QED
    BY <1>9, Zenon
<1> HIDE DEF det, G
<1>11. \A R \in SUBSET Rows : det[R] = Next1(R, det[R \ {Max(R)}])
  BY <1>7, <1>10
<1> DEFINE T == {n \in 0..N : \A R \in SUBSET (1..n) : det[R] \in V}
<1>12. 0 \in T
  <2>1. {} \in SUBSET Rows /\ SUBSET (1..0) = {{}} /\ 0 \in 0..N
    BY NTyped
  <2>2. det[{}] \in V
    BY <2>1, <1>2, <1>11
  <2> QED
    BY <2>1, <2>2
<1>13. ASSUME NEW n \in 0..(N - 1), n \in T PROVE n + 1 \in T
  <2>1. ASSUME NEW R \in SUBSET (1..(n + 1)) PROVE det[R] \in V
    <3>1. CASE n + 1 \in R
      <4>1. Max(R) = n + 1 /\ R \ {n + 1} \in SUBSET (1..n) /\ R \in SUBSET Rows
        BY <3>1, LastRow
      <4>2. det[R \ {n + 1}] \in V
        BY <4>1, <1>13
      <4>3. det[R] = Next1(R, det[R \ {n + 1}])
        BY <4>1, <1>11
      <4> HIDE DEF V
      <4>4. Next1(R, det[R \ {n + 1}]) \in V
        BY <4>1, <4>2, <1>1
      <4> QED
        BY <4>3, <4>4
    <3>2. CASE n + 1 \notin R
      <4>1. n \in Nat
        BY NTyped
      <4>2. R \in SUBSET (1..n)
        BY <4>1, <3>2
      <4> QED
        BY <4>2, <1>13
    <3> QED
      BY <3>1, <3>2
  <2>2. n + 1 \in 0..N
    BY NTyped
  <2> QED
    BY <2>1, <2>2
<1>14. N \in T
  <2>1. \A n \in 0..N : n \in T
    <3> HIDE DEF T
    <3> QED
      BY <1>12, <1>13, NTyped, UpTo
  <2>2. N \in 0..N
    BY NTyped
  <2> HIDE DEF T
  <2> QED
    BY <2>1, <2>2
<1>15. \A R \in SUBSET Rows : det[R] \in V
  BY <1>14 DEF Rows
<1>16. ASSUME NEW R \in SUBSET Rows, NEW K \in SUBSET Rows
       PROVE  det[R][K] = IF R = {} THEN 1 ELSE Total(ByRow(m, Max(R), det[R \ {Max(R)}], K))
  BY <1>11 DEF Next1
<1> QED
  BY <1>8, <1>15, <1>16

\* A determinant by its last row.
Expanded(m, R, t, K) ==
  /\ ByRow(m, t, Det(m)[R \ {t}], K) \in Vectors
  /\ Det(m)[R][K] = Total(ByRow(m, t, Det(m)[R \ {t}], K))

LEMMA DetLast ==
  ASSUME NEW m \in Matrices, NEW R \in SUBSET Rows, NEW t \in R, \A k \in R : k <= t,
         NEW K \in SUBSET Rows
  PROVE  Expanded(m, R, t, K)
<1>1. Max(R) = t
  <2>1. Max(R) \in R /\ t <= Max(R)
    BY RowsMax
  <2> DEFINE x == Max(R)
  <2>2. x \in Rows /\ t \in Rows /\ x <= t /\ t <= x
    BY <2>1
  <2> HIDE DEF x
  <2>3. x = t
    BY <2>2, NTyped DEF Rows
  <2> QED
    BY <2>3 DEF x
<1>2. R \ {t} \in SUBSET Rows /\ R # {} /\ t \in Rows
  OBVIOUS
<1>3. Det(m)[R \ {t}] \in [SUBSET Rows -> Int]
  BY <1>2, DetFacts
<1>4. Det(m)[R][K] = Total(ByRow(m, t, Det(m)[R \ {t}], K))
  BY <1>1, <1>2, DetFacts
<1>5. ByRow(m, t, Det(m)[R \ {t}], K) \in Vectors
  BY <1>2, <1>3, ByRowTyped
<1> QED
  BY <1>4, <1>5 DEF Expanded

LEMMA DetTyped ==
  ASSUME NEW m \in Matrices, NEW R \in SUBSET Rows, NEW K \in SUBSET Rows
  PROVE  Det(m)[R][K] \in Int
<1>1. Det(m)[R] \in [SUBSET Rows -> Int]
  BY DetFacts
<1> QED
  BY <1>1

LEMMA DetNone ==
  ASSUME NEW m \in Matrices, NEW K \in SUBSET Rows
  PROVE  Det(m)[{}][K] = 1
<1>1. {} \in SUBSET Rows
  OBVIOUS
<1> QED
  BY <1>1, DetFacts

LEMMA ByColumnTyped ==
  ASSUME NEW m \in Matrices, NEW q \in Rows, NEW R \in SUBSET Rows, NEW L \in SUBSET Rows
  PROVE  ByColumn(m, q, R, L) \in Vectors /\ Total(ByColumn(m, q, R, L)) \in Int
<1>1. ASSUME NEW k \in Rows, k \in R PROVE Sign(R, k) * m[k][q] * Det(m)[R \ {k}][L] \in Int
  <2> DEFINE x == Sign(R, k)
             y == m[k][q]
             z == Det(m)[R \ {k}][L]
  <2>1. x \in Int
    BY SignTyped DEF Signs
  <2>2. y \in Int
    BY DEF Matrices, Vectors
  <2>3. z \in Int
    BY DetTyped
  <2> HIDE DEF x, y, z
  <2>4. x * y * z \in Int
    BY <2>1, <2>2, <2>3
  <2> QED
    BY <2>4 DEF x, y, z
<1>2. ByColumn(m, q, R, L) \in Vectors
  BY <1>1 DEF ByColumn, Vectors
<1> QED
  BY <1>2, PartialFacts

\* The minors by column q: they make a determinant when q is not one of its columns
\* yet, and cancel each other when it is.
Bordered(m, R, L, q) ==
  Total(ByColumn(m, q, R, L)) = IF q \in L THEN 0 ELSE Sign(L, q) * Det(m)[R][L \cup {q}]

LEMMA BorderedStep ==
  ASSUME NEW m \in Matrices, NEW Q \in SUBSET Rows, NEW t \in Rows, \A k \in Q : k < t,
         NEW L \in SUBSET Rows, NEW q \in Rows,
         \A l \in L : Bordered(m, Q, L \ {l}, q)
  PROVE  Bordered(m, Q \cup {t}, L, q)
<1> DEFINE R == Q \cup {t}
           b == ByColumn(m, q, R, L)
           own == [k \in Rows |-> IF k = t THEN m[t][q] * Det(m)[Q][L] ELSE 0]
           g == [k \in Rows |-> [l \in Rows |->
                  IF k \in Q /\ l \in L
                  THEN -(Sign(Q, k) * m[k][q] * (Sign(L, l) * m[t][l] * Det(m)[Q \ {k}][L \ {l}]))
                  ELSE 0]]
           h == [l \in Rows |-> IF l \in L
                  THEN -(Sign(L, l) * m[t][l] * Total(ByColumn(m, q, Q, L \ {l}))) ELSE 0]
<1>0. /\ R \in SUBSET Rows /\ t \in R /\ t \notin Q /\ R \ {t} = Q /\ L \in SUBSET Rows
      /\ \A k \in R : k <= t
  <2>1. \A k \in Q : k \in Int /\ t \in Int
    BY NTyped DEF Rows
  <2>2. t \in Int
    BY NTyped DEF Rows
  <2> QED
    BY <2>1, <2>2
<1>1. \A k, l \in Rows : m[k][l] \in Int
  BY DEF Matrices, Vectors
<1>2. \A X, K \in SUBSET Rows : Det(m)[X][K] \in Int
  BY DetTyped
<1>3. \A X \in SUBSET Rows, k \in Rows : Sign(X, k) \in Signs
  BY SignTyped
<1>4. \A k \in Q : Q \ {k} \in SUBSET Rows
  BY <1>0
<1>5. own \in Vectors
  BY <1>0, <1>1, <1>2 DEF Vectors
<1>6. g \in [Rows -> Vectors]
  <2>1. ASSUME NEW k \in Q, NEW l \in L
        PROVE  -(Sign(Q, k) * m[k][q] * (Sign(L, l) * m[t][l] * Det(m)[Q \ {k}][L \ {l}])) \in Int
    <3> DEFINE x == Sign(Q, k)
               y == m[k][q]
               z == Sign(L, l)
               u == m[t][l]
               v == Det(m)[Q \ {k}][L \ {l}]
    <3>1. x \in Int /\ z \in Int
      BY <1>3 DEF Signs
    <3>2. y \in Int /\ u \in Int
      BY <1>1
    <3>3. v \in Int
      BY <1>2
    <3> HIDE DEF x, y, z, u, v
    <3>4. -(x * y * (z * u * v)) \in Int
      BY <3>1, <3>2, <3>3
    <3> QED
      BY <3>4 DEF x, y, z, u, v
  <2> QED
    BY <2>1 DEF Vectors
<1>7. h \in Vectors
  <2>1. ASSUME NEW l \in L
        PROVE  -(Sign(L, l) * m[t][l] * Total(ByColumn(m, q, Q, L \ {l}))) \in Int
    <3> DEFINE x == Sign(L, l)
               y == m[t][l]
               z == Total(ByColumn(m, q, Q, L \ {l}))
    <3>1. x \in Int /\ y \in Int
      BY <1>1, <1>3 DEF Signs
    <3>2. z \in Int
      BY ByColumnTyped
    <3> HIDE DEF x, y, z
    <3>4. -(x * y * z) \in Int
      BY <3>1, <3>2
    <3> QED
      BY <3>4 DEF x, y, z
  <2> QED
    BY <2>1 DEF Vectors
\* The minors of the other rows, by the last row.
<1>8. ASSUME NEW k \in Q
      PROVE  b[k] = Total(g[k])
  <2> DEFINE X == R \ {k}
             byrow == ByRow(m, t, Det(m)[Q \ {k}], L)
             c == -(Sign(Q, k) * m[k][q])
  <2>1. /\ X \in SUBSET Rows /\ t \in X /\ X \ {t} = Q \ {k} /\ k \in Rows /\ k \in R
        /\ \A i \in X : i <= t
    BY <1>0
  <2>2. Det(m)[X][L] = Total(byrow) /\ byrow \in Vectors
    <3> HIDE DEF X
    <3>1. Expanded(m, X, t, L)
      BY <2>1, DetLast
    <3> QED
      BY <3>1, <2>1 DEF Expanded
  <2>3. Sign(R, k) = -Sign(Q, k)
    <3>1. t > k
      BY <1>0, <2>1, NTyped DEF Rows
    <3> QED
      BY <3>1, <1>0, <2>1, SignAdd
  <2>4. c \in Int
    <3> DEFINE x == Sign(Q, k)
               y == m[k][q]
    <3>1. x \in Int /\ y \in Int
      BY <1>1, <1>3, <2>1 DEF Signs
    <3> HIDE DEF x, y
    <3>2. -(x * y) \in Int
      BY <3>1
    <3> QED
      BY <3>2 DEF x, y
  <2>5. \A l \in Rows : g[k][l] = c * byrow[l]
    <3> TAKE l \in Rows
    <3>1. CASE l \in L
      <4> DEFINE x == Sign(Q, k)
                 y == m[k][q]
                 z == Sign(L, l)
                 u == m[t][l]
                 v == Det(m)[Q \ {k}][L \ {l}]
      <4>1. x \in Int /\ z \in Int /\ y \in Int /\ u \in Int
        BY <1>1, <1>3, <2>1 DEF Signs
      <4>2. v \in Int
        BY <1>2
      <4>3. byrow[l] = z * u * v /\ g[k][l] = -(x * y * (z * u * v)) /\ c = -(x * y)
        BY <2>1, <3>1 DEF ByRow
      <4> HIDE DEF x, y, z, u, v, byrow, g, c
      <4>4. -(x * y * (z * u * v)) = (-(x * y)) * (z * u * v)
        BY <4>1, <4>2
      <4> QED
        BY <4>3, <4>4
    <3>2. CASE l \notin L
      <4>1. byrow[l] = 0 /\ g[k][l] = 0
        BY <2>1, <3>2 DEF ByRow
      <4> HIDE DEF c, byrow, g
      <4> QED
        BY <4>1, <2>4
    <3> QED
      BY <3>1, <3>2
  <2>6. Total(g[k]) = c * Total(byrow)
    <3>1. g[k] \in Vectors
      BY <1>6, <2>1
    <3> HIDE DEF g, c, byrow
    <3> QED
      BY <2>2, <2>4, <2>5, <3>1, TotalScale
  <2>7. b[k] = Sign(R, k) * m[k][q] * Det(m)[X][L]
    BY <2>1 DEF ByColumn
  <2> DEFINE x == Sign(Q, k)
             y == m[k][q]
             z == Det(m)[X][L]
  <2>8. x \in Int /\ y \in Int /\ z \in Int
    BY <1>1, <1>2, <1>3, <2>1 DEF Signs
  <2>9. b[k] = (-x) * y * z /\ Total(g[k]) = (-(x * y)) * z
    BY <2>2, <2>3, <2>6, <2>7
  <2> HIDE DEF x, y, z
  <2>10. (-x) * y * z = (-(x * y)) * z
    BY <2>8
  <2> QED
    BY <2>9, <2>10
<1>9. b[t] = m[t][q] * Det(m)[Q][L]
  <2>1. Sign(R, t) = 1
    BY <1>0, SignLast
  <2>2. b[t] = Sign(R, t) * m[t][q] * Det(m)[Q][L]
    BY <1>0 DEF ByColumn
  <2> DEFINE y == m[t][q]
             z == Det(m)[Q][L]
  <2>3. y \in Int /\ z \in Int
    BY <1>0, <1>1, <1>2
  <2>4. b[t] = 1 * y * z
    BY <2>1, <2>2
  <2> HIDE DEF y, z, b
  <2>5. b[t] = y * z
    BY <2>3, <2>4
  <2> QED
    BY <2>5 DEF y, z
<1>10. \A k \in Rows : k \notin R => b[k] = 0
  BY DEF ByColumn
<1>11. b \in Vectors /\ Total(b) \in Int
  BY <1>0, ByColumnTyped
<1> DEFINE rest == [k \in Rows |-> Total(g[k])]
<1>12. rest \in Vectors
  <2>1. \A k \in Rows : g[k] \in Vectors
    BY <1>6
  <2> HIDE DEF g
  <2> QED
    BY <2>1, PartialFacts DEF Vectors
<1>13. \A k \in Rows : b[k] = own[k] + rest[k]
  <2> TAKE k \in Rows
  <2>1. CASE k \in Q
    <3>1. own[k] = 0 /\ b[k] = rest[k] /\ rest[k] \in Int
      BY <1>0, <1>8, <1>12, <2>1 DEF Vectors
    <3> QED
      BY <3>1
  <2>2. CASE k \notin Q
    <3>1. g[k] \in Vectors /\ \A l \in Rows : g[k][l] = 0
      BY <1>6, <2>2
    <3>2. rest[k] = 0
      <4> HIDE DEF g
      <4> QED
        BY <3>1, TotalZero
    <3>3. b[k] = own[k] /\ own[k] \in Int
      <4>1. own[k] \in Int
        BY <1>5 DEF Vectors
      <4>2. CASE k = t
        BY <1>9, <4>1, <4>2
      <4>3. CASE k # t
        BY <1>10, <2>2, <4>1, <4>3
      <4> QED
        BY <4>2, <4>3
    <3> HIDE DEF own, rest, b
    <3> QED
      BY <3>2, <3>3
  <2> QED
    BY <2>1, <2>2
<1>14. Total(b) = m[t][q] * Det(m)[Q][L] + Total(rest)
  <2>1. Total(b) = Total(own) + Total(rest)
    <3> HIDE DEF b, own, rest
    <3> QED
      BY <1>5, <1>11, <1>12, <1>13, TotalAdd
  <2>2. \A k \in Rows : k # t => own[k] = 0
    OBVIOUS
  <2>3. own[t] = m[t][q] * Det(m)[Q][L]
    OBVIOUS
  <2>4. Total(own) = own[t]
    <3> HIDE DEF own
    <3> QED
      BY <1>5, <2>2, TotalOne
  <2> QED
    BY <2>1, <2>3, <2>4
<1>15. Total(rest) = Total(h)
  <2> DEFINE col == [l \in Rows |-> [k \in Rows |-> g[k][l]]]
  <2>1. Total(rest) = Total([l \in Rows |-> Total(col[l])])
    <3>1. Total(rest) = Total([l \in Rows |-> Total([k \in Rows |-> g[k][l]])])
      <4> HIDE DEF g
      <4> QED
        BY <1>6, TotalSwap
    <3>2. [l \in Rows |-> Total(col[l])] = [l \in Rows |-> Total([k \in Rows |-> g[k][l]])]
      <4> HIDE DEF g
      <4> QED
        OBVIOUS
    <3> QED
      BY <3>1, <3>2
  <2>2. \A l \in Rows : col[l] \in Vectors
    BY <1>6 DEF Vectors
  <2>3. ASSUME NEW l \in Rows PROVE Total(col[l]) = h[l]
    <3>1. CASE l \in L
      <4> DEFINE c == -(Sign(L, l) * m[t][l])
                 bc == ByColumn(m, q, Q, L \ {l})
      <4>1. c \in Int
        <5> DEFINE x == Sign(L, l)
                   y == m[t][l]
        <5>1. x \in Int /\ y \in Int
          BY <1>1, <1>3, <3>1 DEF Signs
        <5> HIDE DEF x, y
        <5>2. -(x * y) \in Int
          BY <5>1
        <5> QED
          BY <5>2 DEF x, y
      <4>2. bc \in Vectors /\ Total(bc) \in Int
        BY <3>1, ByColumnTyped
      <4>3. \A k \in Rows : col[l][k] = c * bc[k]
        <5> TAKE k \in Rows
        <5>1. CASE k \in Q
          <6> DEFINE x == Sign(Q, k)
                     y == m[k][q]
                     z == Sign(L, l)
                     u == m[t][l]
                     v == Det(m)[Q \ {k}][L \ {l}]
          <6>1. x \in Int /\ z \in Int /\ y \in Int /\ u \in Int
            BY <1>1, <1>3, <3>1 DEF Signs
          <6>2. v \in Int
            BY <1>2
          <6>3. bc[k] = x * y * v /\ col[l][k] = -(x * y * (z * u * v)) /\ c = -(z * u)
            BY <3>1, <5>1 DEF ByColumn
          <6> HIDE DEF x, y, z, u, v, bc, col, g, c
          <6>4. -(x * y * (z * u * v)) = (-(z * u)) * (x * y * v)
            BY <6>1, <6>2
          <6> QED
            BY <6>3, <6>4
        <5>2. CASE k \notin Q
          <6>1. bc[k] = 0 /\ col[l][k] = 0
            BY <5>2 DEF ByColumn
          <6> HIDE DEF c, bc, col, g
          <6> QED
            BY <6>1, <4>1
        <5> QED
          BY <5>1, <5>2
      <4>4. Total(col[l]) = c * Total(bc)
        <5>1. col[l] \in Vectors
          BY <2>2
        <5> HIDE DEF c, bc, col, g
        <5> QED
          BY <5>1, <4>1, <4>2, <4>3, TotalScale
      <4> DEFINE x == Sign(L, l)
                 y == m[t][l]
                 z == Total(bc)
      <4>5. x \in Int /\ y \in Int /\ z \in Int
        BY <1>1, <1>3, <3>1, <4>2 DEF Signs
      <4>6. h[l] = -(x * y * z) /\ Total(col[l]) = (-(x * y)) * z
        BY <3>1, <4>4
      <4> HIDE DEF x, y, z
      <4>7. -(x * y * z) = (-(x * y)) * z
        BY <4>5
      <4> QED
        BY <4>6, <4>7
    <3>2. CASE l \notin L
      <4>1. \A k \in Rows : col[l][k] = 0
        BY <3>2
      <4>2. h[l] = 0
        BY <3>2
      <4>3. col[l] \in Vectors
        BY <2>2
      <4> HIDE DEF col, h
      <4> QED
        BY <4>1, <4>2, <4>3, TotalZero
    <3> QED
      BY <3>1, <3>2
  <2>4. [l \in Rows |-> Total(col[l])] = h
    <3> HIDE DEF col
    <3>1. h = [l \in Rows |-> h[l]]
      OBVIOUS
    <3> HIDE DEF h
    <3> QED
      BY <2>3, <3>1
  <2> QED
    BY <2>1, <2>4
<1> DEFINE minor == m[t][q] * Det(m)[Q][L]
<1>16. minor \in Int
  <2> DEFINE x == m[t][q]
             y == Det(m)[Q][L]
  <2>1. x \in Int /\ y \in Int
    BY <1>0, <1>1, <1>2
  <2> HIDE DEF x, y
  <2>2. x * y \in Int
    BY <2>1
  <2> QED
    BY <2>2 DEF x, y
<1>17. Total(b) = minor + Total(h)
  BY <1>14, <1>15
<1>18. CASE q \in L
  <2>1. \A l \in Rows : l # q => h[l] = 0
    <3> TAKE l \in Rows
    <3>1. HAVE l # q
    <3>2. CASE l \in L
      <4>1. Total(ByColumn(m, q, Q, L \ {l})) = 0
        BY <1>18, <3>1, <3>2 DEF Bordered
      <4> DEFINE x == Sign(L, l)
                 y == m[t][l]
      <4>2. x \in Int /\ y \in Int
        BY <1>1, <1>3 DEF Signs
      <4>3. h[l] = -(x * y * 0)
        BY <3>2, <4>1
      <4> HIDE DEF x, y, h
      <4>4. x * y * 0 = 0
        BY <4>2
      <4> QED
        BY <4>3, <4>4
    <3>3. CASE l \notin L
      BY <3>3
    <3> QED
      BY <3>2, <3>3
  <2>2. h[q] = -minor
    <3>1. L \ {q} \in SUBSET Rows /\ (L \ {q}) \cup {q} = L /\ q \notin L \ {q}
      BY <1>18
    <3>2. Total(ByColumn(m, q, Q, L \ {q})) = Sign(L \ {q}, q) * Det(m)[Q][L]
      BY <1>18, <3>1 DEF Bordered
    <3>3. Sign(L \ {q}, q) = Sign(L, q)
      BY <1>18, SignOwn
    <3> DEFINE x == Sign(L, q)
               y == m[t][q]
               z == Det(m)[Q][L]
    <3>4. x \in Signs /\ y \in Int /\ z \in Int
      BY <1>0, <1>1, <1>2, <1>3
    <3>5. h[q] = -(x * y * (x * z))
      BY <1>18, <3>2, <3>3
    <3> HIDE DEF x, y, z, h
    <3>6. -(x * y * (x * z)) = -(y * z)
      <4>1. CASE x = 1
        BY <3>4, <4>1
      <4>2. CASE x = -1
        BY <3>4, <4>2
      <4> QED
        BY <3>4, <4>1, <4>2 DEF Signs
    <3> QED
      BY <3>5, <3>6 DEF y, z
  <2>3. Total(h) = h[q]
    <3> HIDE DEF h
    <3> QED
      BY <1>7, <2>1, TotalOne
  <2>4. Total(b) = 0
    <3> HIDE DEF minor, h, b
    <3> QED
      BY <1>16, <1>17, <2>2, <2>3
  <2> QED
    BY <2>4, <1>18 DEF Bordered
<1>19. CASE q \notin L
  <2> DEFINE K == L \cup {q}
             whole == ByRow(m, t, Det(m)[Q], K)
             s == Sign(L, q)
             signed == [l \in Rows |-> s * whole[l]]
             last == [l \in Rows |-> IF l = q THEN minor ELSE 0]
  <2>1. K \in SUBSET Rows /\ q \in K
    OBVIOUS
  <2>2. Det(m)[R][K] = Total(whole) /\ whole \in Vectors
    <3> HIDE DEF R, K
    <3>1. Expanded(m, R, t, K)
      BY <1>0, <2>1, DetLast
    <3> QED
      BY <3>1, <1>0 DEF Expanded
  <2>3. s \in Signs /\ s \in Int
    BY <1>3 DEF Signs
  <2>4. last \in Vectors /\ signed \in Vectors
    <3>1. last \in Vectors
      <4> HIDE DEF minor
      <4> QED
        BY <1>16 DEF Vectors
    <3>2. \A l \in Rows : whole[l] \in Int
      BY <2>2 DEF Vectors
    <3> HIDE DEF whole, s
    <3>3. \A l \in Rows : s * whole[l] \in Int
      BY <3>2, <2>3
    <3> QED
      BY <3>1, <3>3 DEF Vectors
  <2>5. ASSUME NEW l \in Rows PROVE signed[l] = last[l] + h[l]
    <3>1. CASE l = q
      <4>1. Sign(K, q) = s
        <5>1. K \ {q} = L
          BY <1>19
        <5> QED
          BY <5>1, <2>1, SignOwn
      <4>2. K \ {q} = L /\ h[q] = 0
        BY <1>19
      <4> DEFINE y == m[t][q]
                 z == Det(m)[Q][L]
      <4>3. y \in Int /\ z \in Int
        BY <1>0, <1>1, <1>2
      <4>4. whole[q] = s * y * z /\ last[q] = y * z
        BY <4>1, <4>2, <2>1 DEF ByRow
      <4>5. signed[q] = s * (s * y * z)
        BY <4>4
      <4> HIDE DEF y, z, s, signed, last, h, whole
      <4>6. s * (s * y * z) = y * z
        <5>1. CASE s = 1
          BY <4>3, <5>1
        <5>2. CASE s = -1
          BY <4>3, <5>2
        <5> QED
          BY <2>3, <5>1, <5>2 DEF Signs
      <4>7. y * z \in Int
        BY <4>3
      <4> QED
        BY <3>1, <4>2, <4>4, <4>5, <4>6, <4>7
    <3>2. CASE l \in L
      <4>1. /\ l # q /\ l \in K /\ K \ {l} = (L \ {l}) \cup {q} /\ q \notin L \ {l}
        BY <1>19, <3>2
      <4>2. Total(ByColumn(m, q, Q, L \ {l})) = Sign(L \ {l}, q) * Det(m)[Q][K \ {l}]
        BY <3>2, <4>1 DEF Bordered
      <4> DEFINE x == Sign(L, l)
                 w == Sign(L \ {l}, q)
                 v == Sign(K, l)
                 y == m[t][l]
                 z == Det(m)[Q][K \ {l}]
      <4>3. y \in Int /\ z \in Int
        BY <1>0, <1>1, <1>2, <2>1
      <4>4. x \in Int /\ w \in Int /\ v \in Int
        <5>1. L \ {l} \in SUBSET Rows
          OBVIOUS
        <5> QED
          BY <1>3, <2>1, <5>1 DEF Signs
      <4>5. s * v = -(x * w)
        BY <1>19, <3>2, SignExchange
      <4>6. h[l] = -(x * y * (w * z))
        BY <3>2, <4>2
      <4>7. signed[l] = s * (v * y * z)
        BY <4>1 DEF ByRow
      <4>8. last[l] = 0
        BY <4>1
      <4> HIDE DEF x, w, v, y, z, s, signed, last, h
      <4>9. s * (v * y * z) = (s * v) * (y * z)
        BY <2>3, <4>3, <4>4
      <4>10. (-(x * w)) * (y * z) = -(x * y * (w * z))
        BY <4>3, <4>4
      <4>11. -(x * y * (w * z)) \in Int
        BY <4>3, <4>4
      <4> QED
        BY <4>5, <4>6, <4>7, <4>8, <4>9, <4>10, <4>11
    <3>3. CASE l \notin K
      <4>1. whole[l] = 0 /\ last[l] = 0 /\ h[l] = 0
        BY <3>3 DEF ByRow
      <4>2. signed[l] = s * 0
        BY <4>1
      <4> HIDE DEF s, signed, last, h
      <4> QED
        BY <4>1, <4>2, <2>3
    <3> QED
      BY <3>1, <3>2, <3>3
  <2>6. Total(signed) = s * Total(whole)
    <3>1. \A l \in Rows : signed[l] = s * whole[l]
      OBVIOUS
    <3> HIDE DEF signed, s, whole
    <3> QED
      BY <2>2, <2>3, <2>4, <3>1, TotalScale
  <2>7. Total(signed) = minor + Total(h)
    <3>1. \A l \in Rows : l # q => last[l] = 0
      OBVIOUS
    <3>2. last[q] = minor
      OBVIOUS
    <3> HIDE DEF signed, last, h, minor
    <3>3. Total(last) = last[q]
      BY <2>4, <3>1, TotalOne
    <3>4. Total(signed) = Total(last) + Total(h)
      BY <1>7, <2>4, <2>5, TotalAdd
    <3> QED
      BY <3>2, <3>3, <3>4
  <2>8. Total(b) = s * Det(m)[R][K]
    BY <1>17, <2>2, <2>6, <2>7
  <2> QED
    BY <2>8, <1>19 DEF Bordered
<1> QED
  BY <1>18, <1>19

LEMMA BorderedFacts ==
  ASSUME NEW m \in Matrices, NEW R \in SUBSET Rows, NEW L \in SUBSET Rows, NEW q \in Rows,
         Cardinality(R) = Cardinality(L) + 1
  PROVE  Bordered(m, R, L, q)
<1> DEFINE S == {n \in 0..N : \A X \in SUBSET (1..n) : \A K \in SUBSET Rows :
                   Cardinality(X) = Cardinality(K) + 1 => Bordered(m, X, K, q)}
<1>1. 0 \in S
  <2>1. SUBSET (1..0) = {{}} /\ 0 \in 0..N
    BY NTyped
  <2>2. Cardinality({}) = 0
    BY FS_EmptySet
  <2>3. \A K \in SUBSET Rows : Cardinality(K) + 1 # 0
    BY RowsCounted
  <2> QED
    BY <2>1, <2>2, <2>3
<1>2. ASSUME NEW n \in 0..(N - 1), n \in S PROVE n + 1 \in S
  <2>1. ASSUME NEW X \in SUBSET (1..(n + 1)), NEW K \in SUBSET Rows,
               Cardinality(X) = Cardinality(K) + 1
        PROVE  Bordered(m, X, K, q)
    <3> DEFINE t == n + 1
               Y == X \ {t}
    <3>0. n \in Nat
      BY NTyped
    <3>1. Y \in SUBSET (1..n) /\ Y \in SUBSET Rows /\ t \in Rows /\ X \in SUBSET Rows
      BY <3>0, NTyped DEF Rows
    <3>2. CASE t \in X
      <4>1. Cardinality(Y) = Cardinality(K)
        <5>1. Cardinality(Y) = Cardinality(X) - 1 /\ Cardinality(X) \in Nat
          BY <3>1, <3>2, RowsCounted
        <5>2. Cardinality(K) \in Nat
          BY RowsCounted
        <5> QED
          BY <5>1, <5>2, <2>1
      <4>2. \A l \in K : Bordered(m, Y, K \ {l}, q)
        <5> TAKE l \in K
        <5>1. K \ {l} \in SUBSET Rows
          OBVIOUS
        <5>2. Cardinality(K \ {l}) = Cardinality(K) - 1 /\ Cardinality(K) \in Nat
          BY RowsCounted
        <5>3. Cardinality(Y) = Cardinality(K \ {l}) + 1
          BY <4>1, <5>2
        <5> QED
          BY <1>2, <3>1, <5>1, <5>3
      <4>3. \A k \in Y : k < t
        BY <3>0, <3>1
      <4>4. X = Y \cup {t}
        BY <3>2
      <4> HIDE DEF t, Y
      <4> QED
        BY <3>1, <4>2, <4>3, <4>4, BorderedStep
    <3>3. CASE t \notin X
      <4>1. X \in SUBSET (1..n)
        BY <3>1, <3>3
      <4> QED
        BY <4>1, <1>2, <2>1
    <3> QED
      BY <3>2, <3>3
  <2>2. n + 1 \in 0..N
    BY NTyped
  <2> QED
    BY <2>1, <2>2
<1>3. N \in S
  <2>1. \A n \in 0..N : n \in S
    <3> HIDE DEF S
    <3> QED
      BY <1>1, <1>2, NTyped, UpTo
  <2>2. N \in 0..N
    BY NTyped
  <2> HIDE DEF S
  <2> QED
    BY <2>1, <2>2
<1> QED
  BY <1>3 DEF Rows

-----------------------------------------------------------------------------
(* What a column that is a sum of others does to the minors *)

\* The minors of the rows in R, without one each, in the columns in L.
Weights(m, R, L) ==
  [k \in Rows |-> IF k \in R THEN Sign(R, k) * Det(m)[R \ {k}][L] ELSE 0]

LEMMA WeightsFacts ==
  ASSUME NEW m \in Matrices, NEW R \in SUBSET Rows, NEW L \in SUBSET Rows
  PROVE  /\ Weights(m, R, L) \in Vectors
         /\ \A q, k \in Rows : ByColumn(m, q, R, L)[k] = Weights(m, R, L)[k] * m[k][q]
<1>1. ASSUME NEW k \in Rows
      PROVE  Sign(R, k) \in Int /\ Det(m)[R \ {k}][L] \in Int
             /\ Sign(R, k) * Det(m)[R \ {k}][L] \in Int
  <2> DEFINE x == Sign(R, k)
             z == Det(m)[R \ {k}][L]
  <2>1. x \in Int
    BY SignTyped DEF Signs
  <2>2. z \in Int
    BY DetTyped
  <2> HIDE DEF x, z
  <2>3. x * z \in Int
    BY <2>1, <2>2
  <2> QED
    BY <2>1, <2>2, <2>3 DEF x, z
<1>2. Weights(m, R, L) \in Vectors
  BY <1>1 DEF Weights, Vectors
<1>3. ASSUME NEW q \in Rows, NEW k \in Rows
      PROVE  ByColumn(m, q, R, L)[k] = Weights(m, R, L)[k] * m[k][q]
  <2> DEFINE x == Sign(R, k)
             y == m[k][q]
             z == Det(m)[R \ {k}][L]
             w == Weights(m, R, L)[k]
  <2>1. x \in Int /\ y \in Int /\ z \in Int
    BY <1>1 DEF Matrices, Vectors
  <2>2. w = IF k \in R THEN x * z ELSE 0
    BY DEF Weights
  <2>3. ByColumn(m, q, R, L)[k] = IF k \in R THEN x * y * z ELSE 0
    BY DEF ByColumn
  <2> HIDE DEF x, y, z, w
  <2>4. x * y * z = x * z * y /\ 0 * y = 0
    BY <2>1
  <2> QED
    BY <2>2, <2>3, <2>4 DEF w, y
<1> QED
  BY <1>2, <1>3

\* Column c is so many times each of the columns pi names, and a rest e.
Taken(m, S, pi, a, k) == [h \in Rows |-> IF h \in S THEN a[h] * m[k][pi[h]] ELSE 0]

LEMMA TakenTyped ==
  ASSUME NEW m \in Matrices, NEW S \in SUBSET Rows, NEW pi \in [Rows -> Rows],
         NEW a \in Vectors, NEW k \in Rows
  PROVE  Taken(m, S, pi, a, k) \in Vectors /\ Total(Taken(m, S, pi, a, k)) \in Int
<1>1. ASSUME NEW h \in Rows PROVE a[h] * m[k][pi[h]] \in Int
  <2> DEFINE x == a[h]
             y == m[k][pi[h]]
  <2>1. x \in Int /\ y \in Int
    BY DEF Matrices, Vectors
  <2> HIDE DEF x, y
  <2>2. x * y \in Int
    BY <2>1
  <2> QED
    BY <2>2 DEF x, y
<1>2. Taken(m, S, pi, a, k) \in Vectors
  BY <1>1 DEF Taken, Vectors
<1> QED
  BY <1>2, PartialFacts

\* The minors of the columns taken, and those of the rest.
TakenMinors(m, S, pi, a, R, L) ==
  [h \in Rows |-> IF h \in S THEN a[h] * Total(ByColumn(m, pi[h], R, L)) ELSE 0]
RestMinors(m, e, R, L) == [k \in Rows |-> Weights(m, R, L)[k] * e[k]]

LEMMA Combination ==
  ASSUME NEW m \in Matrices, NEW R \in SUBSET Rows, NEW L \in SUBSET Rows,
         NEW S \in SUBSET Rows, NEW pi \in [Rows -> Rows], NEW a \in Vectors,
         NEW e \in Vectors, NEW c \in Rows, NEW d \in Int,
         \A k \in Rows : d * m[k][c] = Total(Taken(m, S, pi, a, k)) + e[k]
  PROVE  d * Total(ByColumn(m, c, R, L))
           = Total(TakenMinors(m, S, pi, a, R, L)) + Total(RestMinors(m, e, R, L))
<1> DEFINE w == Weights(m, R, L)
           g == [k \in Rows |-> [h \in Rows |-> w[k] * Taken(m, S, pi, a, k)[h]]]
           rest == [k \in Rows |-> w[k] * e[k]]
           parts == [k \in Rows |-> Total(g[k])]
           whole == [k \in Rows |-> d * ByColumn(m, c, R, L)[k]]
           by == [h \in Rows |-> IF h \in S THEN a[h] * Total(ByColumn(m, pi[h], R, L)) ELSE 0]
<1>1. \A k \in Rows : /\ Taken(m, S, pi, a, k) \in Vectors
                      /\ Total(Taken(m, S, pi, a, k)) \in Int
  BY TakenTyped
<1>2. w \in Vectors /\ \A q, k \in Rows : ByColumn(m, q, R, L)[k] = w[k] * m[k][q]
  BY WeightsFacts
<1>3. \A q \in Rows : ByColumn(m, q, R, L) \in Vectors /\ Total(ByColumn(m, q, R, L)) \in Int
  BY ByColumnTyped
<1>4. \A k, q \in Rows : m[k][q] \in Int /\ w[k] \in Int /\ a[k] \in Int /\ e[k] \in Int
  BY <1>2 DEF Matrices, Vectors
<1> HIDE DEF w
<1>5. g \in [Rows -> Vectors]
  <2>1. ASSUME NEW k \in Rows, NEW h \in Rows PROVE w[k] * Taken(m, S, pi, a, k)[h] \in Int
    <3> DEFINE x == w[k]
               y == Taken(m, S, pi, a, k)[h]
    <3>1. x \in Int /\ y \in Int
      BY <1>1, <1>4 DEF Vectors
    <3> HIDE DEF x, y
    <3>2. x * y \in Int
      BY <3>1
    <3> QED
      BY <3>2 DEF x, y
  <2> QED
    BY <2>1 DEF Vectors
<1>6. rest \in Vectors
  <2>1. ASSUME NEW k \in Rows PROVE w[k] * e[k] \in Int
    <3> DEFINE x == w[k]
               y == e[k]
    <3>1. x \in Int /\ y \in Int
      BY <1>4
    <3> HIDE DEF x, y
    <3>2. x * y \in Int
      BY <3>1
    <3> QED
      BY <3>2 DEF x, y
  <2> QED
    BY <2>1 DEF Vectors
<1>7. ASSUME NEW k \in Rows
      PROVE  parts[k] = w[k] * Total(Taken(m, S, pi, a, k)) /\ parts[k] \in Int
  <2>1. g[k] \in Vectors /\ w[k] \in Int
    BY <1>4, <1>5
  <2>2. \A h \in Rows : g[k][h] = w[k] * Taken(m, S, pi, a, k)[h]
    OBVIOUS
  <2>3. Total(g[k]) = w[k] * Total(Taken(m, S, pi, a, k)) /\ Total(g[k]) \in Int
    <3> HIDE DEF g
    <3> QED
      BY <2>1, <2>2, <1>1, TotalScale, PartialFacts
  <2> QED
    BY <2>3
<1>8. parts \in Vectors
  <2>1. parts = [k \in Rows |-> parts[k]]
    OBVIOUS
  <2> HIDE DEF parts
  <2> QED
    BY <1>7, <2>1 DEF Vectors
<1>9. whole \in Vectors
  <2>1. ASSUME NEW k \in Rows PROVE d * ByColumn(m, c, R, L)[k] \in Int
    <3> DEFINE x == ByColumn(m, c, R, L)[k]
    <3>1. x \in Int
      BY <1>3 DEF Vectors
    <3> HIDE DEF x
    <3>2. d * x \in Int
      BY <3>1
    <3> QED
      BY <3>2 DEF x
  <2> QED
    BY <2>1 DEF Vectors
<1>10. ASSUME NEW k \in Rows PROVE whole[k] = parts[k] + rest[k]
  <2> DEFINE x == w[k]
             y == m[k][c]
             z == Total(Taken(m, S, pi, a, k))
             u == e[k]
  <2>1. x \in Int /\ y \in Int /\ z \in Int /\ u \in Int /\ d * y = z + u
    BY <1>1, <1>4
  <2>2. whole[k] = d * (x * y) /\ parts[k] = x * z /\ rest[k] = x * u
    BY <1>2, <1>7
  <2> HIDE DEF x, y, z, u, whole, parts, rest
  <2>3. d * (x * y) = x * (d * y) /\ x * (z + u) = x * z + x * u
    BY <2>1
  <2> QED
    BY <2>1, <2>2, <2>3
<1>11. Total(whole) = Total(parts) + Total(rest)
  <2> HIDE DEF whole, parts, rest
  <2> QED
    BY <1>6, <1>8, <1>9, <1>10, TotalAdd
<1>12. Total(whole) = d * Total(ByColumn(m, c, R, L))
  <2>1. \A k \in Rows : whole[k] = d * ByColumn(m, c, R, L)[k]
    OBVIOUS
  <2> HIDE DEF whole
  <2> QED
    BY <1>3, <1>9, <2>1, TotalScale
<1>13. Total(parts) = Total(by)
  <2> DEFINE col == [h \in Rows |-> [k \in Rows |-> g[k][h]]]
  <2>1. Total(parts) = Total([h \in Rows |-> Total(col[h])])
    <3>1. Total(parts) = Total([h \in Rows |-> Total([k \in Rows |-> g[k][h]])])
      <4> HIDE DEF g
      <4> QED
        BY <1>5, TotalSwap
    <3>2. [h \in Rows |-> Total(col[h])] = [h \in Rows |-> Total([k \in Rows |-> g[k][h]])]
      <4> HIDE DEF g
      <4> QED
        OBVIOUS
    <3> QED
      BY <3>1, <3>2
  <2>2. \A h \in Rows : col[h] \in Vectors
    BY <1>5 DEF Vectors
  <2>3. ASSUME NEW h \in Rows PROVE Total(col[h]) = by[h]
    <3>1. CASE h \in S
      <4> DEFINE q == pi[h]
                 bc == ByColumn(m, q, R, L)
      <4>1. q \in Rows /\ bc \in Vectors /\ a[h] \in Int
        BY <1>3, <1>4
      <4>2. \A k \in Rows : col[h][k] = a[h] * bc[k]
        <5> TAKE k \in Rows
        <5> DEFINE x == w[k]
                   y == m[k][q]
                   z == a[h]
        <5>1. x \in Int /\ y \in Int /\ z \in Int
          BY <1>4, <4>1
        <5>2. col[h][k] = x * (z * y) /\ bc[k] = x * y
          BY <1>2, <3>1, <4>1 DEF Taken
        <5> HIDE DEF x, y, q, bc, col, g
        <5>3. x * (z * y) = z * (x * y)
          BY <5>1
        <5> QED
          BY <5>2, <5>3
      <4>3. col[h] \in Vectors
        BY <2>2
      <4>4. by[h] = a[h] * Total(bc)
        BY <3>1
      <4> HIDE DEF col, bc, g, by
      <4> QED
        BY <4>1, <4>2, <4>3, <4>4, TotalScale
    <3>2. CASE h \notin S
      <4>1. \A k \in Rows : col[h][k] = 0
        <5> TAKE k \in Rows
        <5>1. col[h][k] = w[k] * 0 /\ w[k] \in Int
          BY <1>4, <3>2 DEF Taken
        <5> HIDE DEF col, g
        <5> QED
          BY <5>1
      <4>2. by[h] = 0 /\ col[h] \in Vectors
        BY <3>2, <2>2
      <4> HIDE DEF col, by, g
      <4> QED
        BY <4>1, <4>2, TotalZero
    <3> QED
      BY <3>1, <3>2
  <2>4. [h \in Rows |-> Total(col[h])] = by
    <3> HIDE DEF col
    <3>1. by = [h \in Rows |-> by[h]]
      OBVIOUS
    <3> HIDE DEF by
    <3> QED
      BY <2>3, <3>1
  <2> QED
    BY <2>1, <2>4
<1>14. by = TakenMinors(m, S, pi, a, R, L) /\ rest = RestMinors(m, e, R, L)
  BY DEF TakenMinors, RestMinors, w
<1> QED
  BY <1>11, <1>12, <1>13, <1>14

-----------------------------------------------------------------------------
(* A column of compute_rank *)

IsNull(a) == a.n = 0

\* Whether fraction f is a/d.
Ratio(f, a, d) == f \in Fracs /\ f.n * d = a * f.d

LEMMA RatioNull ==
  ASSUME NEW f, NEW a \in Int, NEW d \in Int \ {0}, Ratio(f, a, d)
  PROVE  IsNull(f) <=> a = 0
<1> DEFINE n == f.n
           e == f.d
<1>1. n \in Int /\ e \in Int \ {0} /\ n * d = a * e
  BY DEF Ratio, Fracs
<1> HIDE DEF n, e
<1>2. n = 0 => a = 0
  <2>1. HAVE n = 0
  <2>2. a * e = 0
    BY <1>1, <2>1
  <2> QED
    BY <1>1, <2>2
<1>3. a = 0 => n = 0
  <2>1. HAVE a = 0
  <2>2. n * d = 0
    BY <1>1, <2>1
  <2> QED
    BY <1>1, <2>2
<1> QED
  BY <1>2, <1>3 DEF IsNull, n

LEMMA NotNull ==
  ASSUME NEW a \in Int \ {0}, NEW b \in Int \ {0}
  PROVE  a * b \in Int \ {0}
  OBVIOUS

\* A fraction divided by another one: a/c by b/d.
LEMMA RatioDiv ==
  ASSUME NEW f, NEW g, NEW a \in Int, NEW b \in Int \ {0}, NEW c \in Int \ {0},
         NEW d \in Int \ {0}, Ratio(f, a, c), Ratio(g, b, d)
  PROVE  Ratio(FracDiv(f, g), a * d, c * b)
<1> DEFINE x == f.n
           y == f.d
           u == g.n
           v == g.d
<1>1. x \in Int /\ y \in Int \ {0} /\ u \in Int /\ v \in Int \ {0}
      /\ x * c = a * y /\ u * d = b * v
  BY DEF Ratio, Fracs
<1>2. u # 0
  BY RatioNull DEF IsNull
<1>3. FracDiv(f, g) = [n |-> x * v, d |-> y * u]
  BY DEF FracDiv
<1> HIDE DEF x, y, u, v
<1>4. y * u \in Int \ {0} /\ x * v \in Int
  BY <1>1, <1>2, NotNull
<1>5. (x * v) * (c * b) = (a * d) * (y * u)
  <2>1. (x * v) * (c * b) = (x * c) * (b * v)
    BY <1>1
  <2>2. (a * y) * (u * d) = (a * d) * (y * u)
    BY <1>1
  <2> QED
    BY <2>1, <2>2, <1>1
<1> QED
  BY <1>3, <1>4, <1>5 DEF Ratio, Fracs

\* A row less so many times the pivot's: f - g * h for a/c, b/e and r/d,
\* where e is c * s.
LEMMA RatioLess ==
  ASSUME NEW f, NEW g, NEW h, NEW a \in Int, NEW b \in Int, NEW r \in Int,
         NEW c \in Int \ {0}, NEW s \in Int \ {0}, NEW d \in Int \ {0}, NEW q \in Int,
         b = q * d, Ratio(f, a, c), Ratio(g, b, c * s), Ratio(h, r, d)
  PROVE  Ratio(FracMinus(f, FracMul(g, h)), a * s - q * r, c * s)
<1> DEFINE x == f.n
           y == f.d
           u == g.n
           v == g.d
           o == h.n
           p == h.d
           e == c * s
<1>1. /\ x \in Int /\ y \in Int \ {0} /\ u \in Int /\ v \in Int \ {0}
      /\ o \in Int /\ p \in Int \ {0}
      /\ x * c = a * y /\ u * e = (q * d) * v /\ o * d = r * p
  BY DEF Ratio, Fracs
<1>2. FracMinus(f, FracMul(g, h)) = [n |-> x * (v * p) - (u * o) * y, d |-> y * (v * p)]
  BY DEF FracMinus, FracMul
<1>0. e = c * s
  OBVIOUS
<1> HIDE DEF x, y, u, v, o, p, e
<1>3. y * (v * p) \in Int \ {0} /\ x * (v * p) - (u * o) * y \in Int /\ e \in Int
  BY <1>0, <1>1, NotNull
<1>4. (x * (v * p) - (u * o) * y) * e = (a * s - q * r) * (y * (v * p))
  <2>1. (x * (v * p)) * e = (a * s) * (y * (v * p))
    <3>1. (x * (v * p)) * (c * s) = (x * c) * (s * (v * p))
      BY <1>1
    <3>2. (a * y) * (s * (v * p)) = (a * s) * (y * (v * p))
      BY <1>1
    <3> QED
      BY <3>1, <3>2, <1>0, <1>1
  <2>2. ((u * o) * y) * e = (q * r) * (y * (v * p))
    <3>1. ((u * o) * y) * e = (u * e) * (o * y)
      BY <1>1, <1>3
    <3>2. ((q * d) * v) * (o * y) = (o * d) * (q * v * y)
      BY <1>1
    <3>3. (r * p) * (q * v * y) = (q * r) * (y * (v * p))
      BY <1>1
    <3> QED
      BY <3>1, <3>2, <3>3, <1>1
  <2> DEFINE i == x * (v * p)
             j == (u * o) * y
             k == y * (v * p)
             l == a * s
             t == q * r
  <2>3. i \in Int /\ j \in Int /\ k \in Int /\ l \in Int /\ t \in Int
    BY <1>1
  <2>4. i * e = l * k /\ j * e = t * k
    BY <2>1, <2>2
  <2> HIDE DEF i, j, k, l, t
  <2>5. (i - j) * e = i * e - j * e /\ (l - t) * k = l * k - t * k
    BY <1>3, <2>3
  <2> QED
    BY <2>4, <2>5 DEF i, j, k, l, t
<1> QED
  BY <1>2, <1>3, <1>4 DEF Ratio, Fracs, e

\* The matrix after row j, with a pivot in column i, was taken off the others.
PivotRow(M, j, i) ==
  [p \in Rows |-> IF p > i THEN FracDiv(M[j][p], M[j][i]) ELSE M[j][p]]
Cleared(M, j, i) ==
  [k \in Rows |-> IF k = j THEN PivotRow(M, j, i)
     ELSE [p \in Rows |-> IF p > i /\ ~IsNull(M[k][i])
             THEN FracMinus(M[k][p], FracMul(PivotRow(M, j, i)[p], M[k][i]))
             ELSE M[k][p]]]

FracMatrices == [Rows -> [Rows -> Fracs]]
Free(st, i) == {j \in Rows \ st.selected : ~IsNull(st.m[j][i])}

LEMMA FracsTyped ==
  ASSUME NEW f \in Fracs, NEW g \in Fracs
  PROVE  /\ FracMul(f, g) \in Fracs /\ FracMinus(f, g) \in Fracs
         /\ ~IsNull(g) => FracDiv(f, g) \in Fracs
<1> DEFINE x == f.n
           y == f.d
           u == g.n
           v == g.d
<1>1. x \in Int /\ y \in Int \ {0} /\ u \in Int /\ v \in Int \ {0}
  BY DEF Fracs
<1>2. /\ FracMul(f, g) = [n |-> x * u, d |-> y * v]
      /\ FracMinus(f, g) = [n |-> x * v - u * y, d |-> y * v]
      /\ FracDiv(f, g) = [n |-> x * v, d |-> y * u]
      /\ IsNull(g) <=> u = 0
  BY DEF FracMul, FracMinus, FracDiv, IsNull
<1> HIDE DEF x, y, u, v
<1>3. /\ y * v \in Int \ {0} /\ x * u \in Int /\ x * v - u * y \in Int /\ x * v \in Int
      /\ u # 0 => y * u \in Int \ {0}
  BY <1>1, NotNull
<1> QED
  BY <1>2, <1>3 DEF Fracs

LEMMA ClearedTyped ==
  ASSUME NEW M \in FracMatrices, NEW j \in Rows, NEW i \in Rows, ~IsNull(M[j][i])
  PROVE  Cleared(M, j, i) \in FracMatrices
<1>1. \A k, p \in Rows : M[k][p] \in Fracs
  BY DEF FracMatrices
<1>2. \A p \in Rows : FracDiv(M[j][p], M[j][i]) \in Fracs
  BY <1>1, FracsTyped
<1>3. PivotRow(M, j, i) \in [Rows -> Fracs]
  BY <1>1, <1>2 DEF PivotRow
<1>4. \A k, p \in Rows : FracMinus(M[k][p], FracMul(PivotRow(M, j, i)[p], M[k][i])) \in Fracs
  <2> TAKE k, p \in Rows
  <2>1. PivotRow(M, j, i)[p] \in Fracs
    BY <1>3
  <2>2. FracMul(PivotRow(M, j, i)[p], M[k][i]) \in Fracs
    BY <1>1, <2>1, FracsTyped
  <2> QED
    BY <1>1, <2>2, FracsTyped
<1> QED
  BY <1>1, <1>3, <1>4 DEF Cleared, FracMatrices

\* A set of rows has a first one.
LEMMA RowsMin ==
  ASSUME NEW X \in SUBSET Rows, X # {}
  PROVE  Min(X) \in X
<1> DEFINE U == {i \in 0..N : \A x \in X : x > i}
<1>1. X \subseteq 1..N /\ N \in Nat
  BY NTyped DEF Rows
<1>2. \E y \in X : \A x \in X : y <= x
  <2> SUFFICES ASSUME \A y \in X : \E x \in X : ~(y <= x) PROVE FALSE
    OBVIOUS
  <2>1. 0 \in U
    BY <1>1
  <2>2. ASSUME NEW i \in 0..(N - 1), i \in U PROVE i + 1 \in U
    <3>1. \A x \in X : x > i /\ x \in Nat
      BY <1>1, <2>2
    <3>2. i + 1 \notin X
      <4>1. SUFFICES ASSUME i + 1 \in X PROVE FALSE
        OBVIOUS
      <4>2. PICK x \in X : ~(i + 1 <= x)
        BY <4>1
      <4> QED
        BY <3>1, <4>2
    <3>3. \A x \in X : x > i + 1
      BY <3>1, <3>2
    <3> QED
      BY <3>3, <1>1
  <2>3. N \in U
    <3>1. \A i \in 0..N : i \in U
      <4> HIDE DEF U
      <4> QED
        BY <1>1, <2>1, <2>2, UpTo
    <3> QED
      BY <3>1, <1>1
  <2>4. PICK x \in X : TRUE
    OBVIOUS
  <2> QED
    BY <2>3, <2>4, <1>1
<1> QED
  BY <1>2 DEF Min

\* Numbers of a range have a greatest one.
LEMMA MaxBetween ==
  ASSUME NEW c \in Nat, NEW f \in Nat, NEW X \in SUBSET ((-c)..f), X # {}
  PROVE  Max(X) \in X
<1> DEFINE U == {i \in 0..(c + f + 1) : \A x \in X : x < f + 1 - i}
<1>1. \E y \in X : \A x \in X : y >= x
  <2> SUFFICES ASSUME \A y \in X : \E x \in X : ~(y >= x) PROVE FALSE
    OBVIOUS
  <2>1. 0 \in U
    OBVIOUS
  <2>2. ASSUME NEW i \in 0..(c + f + 1 - 1), i \in U PROVE i + 1 \in U
    <3>1. \A x \in X : x < f + 1 - i /\ x \in Int
      BY <2>2
    <3>2. f - i \notin X
      <4>1. SUFFICES ASSUME f - i \in X PROVE FALSE
        OBVIOUS
      <4>2. PICK x \in X : ~(f - i >= x)
        BY <4>1
      <4> QED
        BY <3>1, <4>2
    <3>3. \A x \in X : x < f + 1 - (i + 1)
      BY <3>1, <3>2
    <3> QED
      BY <3>3
  <2>3. c + f + 1 \in U
    <3>1. \A i \in 0..(c + f + 1) : i \in U
      <4>1. c + f + 1 \in Nat
        OBVIOUS
      <4> HIDE DEF U
      <4> QED
        BY <2>1, <2>2, <4>1, UpTo
    <3> QED
      BY <3>1
  <2>4. PICK x \in X : TRUE
    OBVIOUS
  <2> QED
    BY <2>3, <2>4
<1> QED
  BY <1>1 DEF Max

LEMMA PowerTyped ==
  ASSUME NEW e \in Int
  PROVE  Power(e) \in Nat \ {0} /\ Power(-e) \in Nat \ {0}
<1>1. (IF e > 0 THEN e ELSE 0) \in Nat /\ (IF -e > 0 THEN -e ELSE 0) \in Nat
  OBVIOUS
<1> QED
  BY <1>1, TwoPos DEF Power

\* What is rounded is a fraction still.
LEMMA RoundTyped ==
  ASSUME NEW f \in Fracs
  PROVE  Round(f) \in Fracs
<1> DEFINE e == LastPlace(f)
           q == Scaled(f, e)
           near == Nearest(q) * Power(-e)
<1>1. e \in Int
  <2> DEFINE places == {-Coarsest} \cup {k \in (-Coarsest)..Finest : Floor(Scaled(f, k)) < 2 ^ Precision}
  <2>1. Coarsest \in Nat /\ Finest \in Nat
    BY FloatAssumption
  <2>2. places \in SUBSET ((-Coarsest)..Finest) /\ places # {} /\ e = Max(places)
    BY <2>1 DEF LastPlace
  <2> HIDE DEF places, e
  <2>3. e \in places
    BY <2>1, <2>2, MaxBetween
  <2> QED
    BY <2>1, <2>2, <2>3
<1> HIDE DEF e
<1>2. Power(e) \in Nat \ {0} /\ Power(-e) \in Nat \ {0}
  BY <1>1, PowerTyped
<1>3. q.n \in Nat /\ q.d \in Nat \ {0}
  <2> DEFINE a == Positive(f.n)
             b == Positive(f.d)
             u == Power(e)
             v == Power(-e)
  <2>1. a \in Nat /\ b \in Nat \ {0} /\ u \in Nat /\ v \in Nat \ {0}
    BY <1>2 DEF Positive, Fracs
  <2>2. q.n = a * u /\ q.d = b * v
    BY DEF Scaled
  <2> HIDE DEF a, b, u, v, q
  <2>3. a * u \in Nat /\ b * v \in Nat \ {0}
    BY <2>1, NotNull
  <2> QED
    BY <2>2, <2>3
<1> HIDE DEF q
<1>4. Nearest(q) \in Int
  <2>1. Floor(q) \in Nat
    BY <1>3, DivNat DEF Floor
  <2> QED
    BY <2>1 DEF Nearest
<1>5. near \in Int
  BY <1>2, <1>4
<1>6. Round(f) = [n |-> IF (f.n < 0) = (f.d < 0) THEN near ELSE -near, d |-> Power(e)]
  BY Zenon DEF Round, e, q
<1> HIDE DEF near
<1>7. (IF (f.n < 0) = (f.d < 0) THEN near ELSE -near) \in Int
  BY <1>5
<1> QED
  BY <1>2, <1>6, <1>7 DEF Fracs

\* What is above EPS is not 0.
LEMMA AboveNull ==
  ASSUME NEW f \in Fracs, Above(f)
  PROVE  ~IsNull(f)
<1>1. EpsInverse \in Nat /\ 0 * EpsInverse = 0
  BY FloatAssumption
<1>2. Positive(f.d) \in Nat
  BY DEF Positive, Fracs
<1>3. f.n = 0 => Positive(f.n) = 0
  BY DEF Positive
<1> QED
  BY <1>1, <1>2, <1>3 DEF Above, IsNull

\* Rows that compute_rank takes to have a pivot in column i.
Candidates(st, i) == {j \in Rows \ st.selected : Above(st.m[j][i])}

LEMMA ColumnFacts ==
  ASSUME NEW st \in RankStates, NEW i \in Rows
  PROVE  /\ Column(st, i) \in RankStates
         /\ Candidates(st, i) = {} => Column(st, i) = st
         /\ Candidates(st, i) # {} =>
              \E j \in Candidates(st, i) :
                /\ Column(st, i).rank = st.rank + 1
                /\ Column(st, i).selected = st.selected \cup {j}
<1>1. /\ st.m \in FracMatrices /\ st.rank \in Nat /\ st.selected \in SUBSET Rows
      /\ \A k, p \in Rows : st.m[k][p] \in Fracs
  BY DEF RankStates, FracMatrices
<1>2. CASE Candidates(st, i) = {}
  <2>1. Column(st, i) = st
    BY <1>2 DEF Column, Candidates
  <2> QED
    BY <1>2, <2>1
<1>3. CASE Candidates(st, i) # {}
  <2> DEFINE j == Min(Candidates(st, i))
             pivot == [p \in Rows |-> IF p > i THEN Round(FracDiv(st.m[j][p], st.m[j][i]))
                                      ELSE st.m[j][p]]
             Row(k) == IF k = j THEN pivot
                       ELSE [p \in Rows |-> IF p > i /\ Above(st.m[k][i])
                               THEN Round(FracMinus(st.m[k][p], Round(FracMul(pivot[p], st.m[k][i]))))
                               ELSE st.m[k][p]]
             next == [m |-> [k \in Rows |-> Row(k)], rank |-> st.rank + 1,
                      selected |-> st.selected \cup {j}]
  <2>1. j \in Candidates(st, i)
    <3>1. Candidates(st, i) \in SUBSET Rows
      BY DEF Candidates
    <3> QED
      BY <1>3, <3>1, RowsMin
  <2>2. Column(st, i) = next
    BY <1>3, Zenon DEF Column, Candidates
  <2>3. j \in Rows /\ ~IsNull(st.m[j][i])
    BY <1>1, <2>1, AboveNull DEF Candidates
  <2> HIDE DEF j
  <2>4. pivot \in [Rows -> Fracs]
    <3>1. ASSUME NEW p \in Rows PROVE Round(FracDiv(st.m[j][p], st.m[j][i])) \in Fracs
      <4>1. FracDiv(st.m[j][p], st.m[j][i]) \in Fracs
        BY <1>1, <2>3, FracsTyped
      <4> QED
        BY <4>1, RoundTyped
    <3> QED
      BY <1>1, <2>3, <3>1
  <2> HIDE DEF pivot
  <2>5. ASSUME NEW k \in Rows PROVE Row(k) \in [Rows -> Fracs]
    <3>1. ASSUME NEW p \in Rows
          PROVE  Round(FracMinus(st.m[k][p], Round(FracMul(pivot[p], st.m[k][i])))) \in Fracs
      <4>1. FracMul(pivot[p], st.m[k][i]) \in Fracs
        BY <1>1, <2>4, FracsTyped
      <4>2. Round(FracMul(pivot[p], st.m[k][i])) \in Fracs
        BY <4>1, RoundTyped
      <4>3. FracMinus(st.m[k][p], Round(FracMul(pivot[p], st.m[k][i]))) \in Fracs
        BY <1>1, <4>2, FracsTyped
      <4> QED
        BY <4>3, RoundTyped
    <3> QED
      BY <1>1, <2>4, <3>1
  <2>6. next \in RankStates
    <3> HIDE DEF Row
    <3> QED
      BY <1>1, <2>3, <2>5 DEF RankStates
  <2>7. next.rank = st.rank + 1 /\ next.selected = st.selected \cup {j}
    OBVIOUS
  <2> HIDE DEF next
  <2> QED
    BY <1>3, <2>1, <2>2, <2>6, <2>7
<1> QED
  BY <1>2, <1>3

-----------------------------------------------------------------------------
(* What compute_rank keeps true of its columns *)

\* What is left of a column in the rows not selected yet.
Left(S, a) == [k \in Rows |-> IF k \in S THEN 0 ELSE a[k]]

\* Column p of matrix M holds the numbers a/D, and D times column p of the matrix
\* compute_rank began with is a's sum of the columns taken, with a rest.
Reduced(m, M, S, pi, p, D, a) ==
  /\ D \in Int \ {0} /\ a \in Vectors
  /\ \A k \in Rows : Ratio(M[k][p], a[k], D)
  /\ \A k \in Rows : D * m[k][p] = Total(Taken(m, S, pi, a, k)) + Left(S, a)[k]

\* Minors with more than r rows of the first i columns are 0.
Beyond(m, i, r) ==
  \A R \in SUBSET Rows, K \in SUBSET (1..i) :
    Cardinality(R) = Cardinality(K) /\ Cardinality(K) > r => Det(m)[R][K] = 0

\* The rows selected have one column each, and their minor is not 0.
Chosen(m, i, S, pi, P) ==
  /\ pi \in [Rows -> Rows] /\ P \in SUBSET (1..i) /\ Cardinality(P) = Cardinality(S)
  /\ \A h \in S : pi[h] \in P
  /\ Det(m)[S][P] # 0

LEMMA LeftTyped ==
  ASSUME NEW S \in SUBSET Rows, NEW a \in Vectors
  PROVE  Left(S, a) \in Vectors
  BY DEF Left, Vectors

LEMMA TotalLinear ==
  ASSUME NEW x \in Int, NEW y \in Int, NEW s \in Vectors, NEW t \in Vectors, NEW u \in Vectors,
         \A k \in Rows : u[k] = x * s[k] + y * t[k]
  PROVE  Total(u) = x * Total(s) + y * Total(t)
<1> DEFINE v == [k \in Rows |-> x * s[k]]
           w == [k \in Rows |-> y * t[k]]
<1>1. ASSUME NEW z \in Int, NEW r \in Vectors PROVE [k \in Rows |-> z * r[k]] \in Vectors
  <2>1. \A k \in Rows : r[k] \in Int
    BY DEF Vectors
  <2>2. \A k \in Rows : z * r[k] \in Int
    BY <2>1
  <2> QED
    BY <2>2 DEF Vectors
<1>2. v \in Vectors /\ w \in Vectors
  BY <1>1
<1>3. \A k \in Rows : v[k] = x * s[k] /\ w[k] = y * t[k] /\ u[k] = v[k] + w[k]
  OBVIOUS
<1> HIDE DEF v, w
<1>4. Total(v) = x * Total(s) /\ Total(w) = y * Total(t)
  BY <1>2, <1>3, TotalScale
<1>5. Total(u) = Total(v) + Total(w)
  BY <1>2, <1>3, TotalAdd
<1> QED
  BY <1>4, <1>5

\* A column made of others: what its minors with the columns in L come to.
MinorsMade(m, R, L, S, a, c, d) ==
  d * (Sign(L, c) * Det(m)[R][L \cup {c}]) = Total(RestMinors(m, Left(S, a), R, L))

LEMMA MinorOfSum ==
  ASSUME NEW m \in Matrices, NEW R \in SUBSET Rows, NEW L \in SUBSET Rows,
         NEW S \in SUBSET Rows, NEW pi \in [Rows -> Rows], NEW a \in Vectors,
         NEW c \in Rows, c \notin L, Cardinality(R) = Cardinality(L) + 1, NEW d \in Int,
         \A k \in Rows : d * m[k][c] = Total(Taken(m, S, pi, a, k)) + Left(S, a)[k],
         \A h \in S : pi[h] \in L \/ Det(m)[R][L \cup {pi[h]}] = 0
  PROVE  MinorsMade(m, R, L, S, a, c, d)
<1> DEFINE by == TakenMinors(m, S, pi, a, R, L)
           rest == RestMinors(m, Left(S, a), R, L)
<1>1. Left(S, a) \in Vectors /\ Weights(m, R, L) \in Vectors
  BY LeftTyped, WeightsFacts
<1>2. d * Total(ByColumn(m, c, R, L)) = Total(by) + Total(rest)
  BY <1>1, Combination
<1>3. ASSUME NEW h \in Rows PROVE by[h] = 0
  <2>1. CASE h \in S
    <3>1. pi[h] \in Rows /\ a[h] \in Int
      BY DEF Vectors
    <3>2. Bordered(m, R, L, pi[h])
      BY <3>1, BorderedFacts
    <3>3. Sign(L, pi[h]) \in Int
      BY <3>1, SignTyped DEF Signs
    <3> DEFINE q == pi[h]
    <3>6. Total(ByColumn(m, q, R, L)) = IF q \in L THEN 0 ELSE Sign(L, q) * Det(m)[R][L \cup {q}]
      BY <3>2 DEF Bordered
    <3>7. Sign(L, q) * 0 = 0
      BY <3>3
    <3>4. Total(ByColumn(m, pi[h], R, L)) = 0
      <4>1. q \in L \/ Det(m)[R][L \cup {q}] = 0
        BY <2>1
      <4>2. CASE q \in L
        BY <4>2, <3>6
      <4>3. CASE q \notin L
        <5>1. Total(ByColumn(m, q, R, L)) = Sign(L, q) * Det(m)[R][L \cup {q}]
          BY <4>3, <3>6
        <5>2. Det(m)[R][L \cup {q}] = 0
          BY <4>1, <4>3
        <5> QED
          BY <5>1, <5>2, <3>7
      <4> QED
        BY <4>2, <4>3
    <3>5. by[h] = a[h] * 0
      BY <2>1, <3>4 DEF TakenMinors
    <3> HIDE DEF by
    <3> QED
      BY <3>1, <3>5
  <2>2. CASE h \notin S
    BY <2>2 DEF TakenMinors
  <2> QED
    BY <2>1, <2>2
<1>4. Total(by) = 0
  <2>1. by = [h \in Rows |-> by[h]]
    BY DEF TakenMinors
  <2> HIDE DEF by
  <2>2. by \in Vectors
    BY <1>3, <2>1 DEF Vectors
  <2> QED
    BY <1>3, <2>2, TotalZero
<1>5. rest \in Vectors
  <2>1. \A k \in Rows : Weights(m, R, L)[k] \in Int /\ Left(S, a)[k] \in Int
    BY <1>1 DEF Vectors
  <2>2. ASSUME NEW k \in Rows PROVE Weights(m, R, L)[k] * Left(S, a)[k] \in Int
    <3> DEFINE x == Weights(m, R, L)[k]
               y == Left(S, a)[k]
    <3>1. x \in Int /\ y \in Int
      BY <2>1
    <3> HIDE DEF x, y
    <3>2. x * y \in Int
      BY <3>1
    <3> QED
      BY <3>2 DEF x, y
  <2> QED
    BY <2>2 DEF Vectors, RestMinors
<1>6. Total(rest) \in Int
  <2> HIDE DEF rest
  <2> QED
    BY <1>5, PartialFacts
<1>7. Total(ByColumn(m, c, R, L)) = Sign(L, c) * Det(m)[R][L \cup {c}]
  <2>1. Bordered(m, R, L, c)
    BY BorderedFacts
  <2> QED
    BY <2>1 DEF Bordered
<1> HIDE DEF by, rest
<1> QED
  BY <1>2, <1>4, <1>6, <1>7 DEF rest, MinorsMade

\* A column with no row left to select adds nothing to the rank.
LEMMA NoFreeRow ==
  ASSUME NEW m \in Matrices, NEW i \in 0..(N - 1), NEW r \in Nat, Beyond(m, i, r),
         NEW S \in SUBSET Rows, NEW pi, NEW P, Chosen(m, i, S, pi, P),
         NEW M, NEW d, NEW b, Reduced(m, M, S, pi, i + 1, d, b),
         \A k \in Rows \ S : b[k] = 0
  PROVE  Beyond(m, i + 1, r)
<1> DEFINE c == i + 1
<1>1. c \in Rows /\ i \in Nat
  BY NTyped DEF Rows
<1>2. /\ pi \in [Rows -> Rows] /\ d \in Int \ {0} /\ b \in Vectors
      /\ \A h \in S : pi[h] \in 1..i
      /\ \A k \in Rows : d * m[k][c] = Total(Taken(m, S, pi, b, k)) + Left(S, b)[k]
  BY DEF Chosen, Reduced
<1>3. ASSUME NEW R \in SUBSET Rows, NEW K \in SUBSET (1..c),
             Cardinality(R) = Cardinality(K), Cardinality(K) > r
      PROVE  Det(m)[R][K] = 0
  <2>1. CASE c \notin K
    <3>1. K \in SUBSET (1..i)
      BY <1>1, <2>1
    <3> QED
      BY <1>3, <3>1 DEF Beyond
  <2>2. CASE c \in K
    <3> DEFINE L == K \ {c}
    <3>1. /\ L \in SUBSET (1..i) /\ L \in SUBSET Rows /\ K \in SUBSET Rows
          /\ c \notin L /\ L \cup {c} = K
      BY <1>1, <2>2, NTyped DEF Rows
    <3>2. Cardinality(R) = Cardinality(L) + 1 /\ Cardinality(L) \in Nat
      BY <1>3, <2>2, <3>1, RowsCounted
    <3> HIDE DEF L
    <3>3. ASSUME NEW h \in S PROVE pi[h] \in L \/ Det(m)[R][L \cup {pi[h]}] = 0
      <4>1. SUFFICES ASSUME pi[h] \notin L PROVE Det(m)[R][L \cup {pi[h]}] = 0
        OBVIOUS
      <4>2. pi[h] \in 1..i /\ pi[h] \in Rows
        BY <1>2
      <4>3. L \cup {pi[h]} \in SUBSET (1..i)
        BY <3>1, <4>2
      <4>4. Cardinality(L \cup {pi[h]}) = Cardinality(L) + 1
        BY <3>1, <4>1, <4>2, RowsCounted
      <4>5. Cardinality(R) = Cardinality(L \cup {pi[h]})
            /\ Cardinality(L \cup {pi[h]}) > r
        BY <3>2, <4>4, <1>3
      <4> QED
        BY <4>3, <4>5 DEF Beyond
    <3> DEFINE rest == RestMinors(m, Left(S, b), R, L)
    <3>4. d * (Sign(L, c) * Det(m)[R][L \cup {c}]) = Total(rest)
      <4>1. d \in Int
        BY <1>2
      <4> HIDE DEF c
      <4>2. MinorsMade(m, R, L, S, b, c, d)
        BY <4>1, <1>1, <1>2, <3>1, <3>2, <3>3, MinorOfSum
      <4> QED
        BY <4>2 DEF MinorsMade
    <3>5. ASSUME NEW k \in Rows PROVE rest[k] = 0
      <4>1. Left(S, b)[k] = 0
        BY DEF Left
      <4>2. Weights(m, R, L)[k] \in Int
        <5>1. Weights(m, R, L) \in Vectors
          BY <3>1, WeightsFacts
        <5> QED
          BY <5>1 DEF Vectors
      <4>3. rest[k] = Weights(m, R, L)[k] * 0
        BY <4>1 DEF RestMinors
      <4> HIDE DEF rest
      <4> QED
        BY <4>2, <4>3
    <3>6. Total(rest) = 0
      <4>1. rest = [k \in Rows |-> rest[k]]
        BY DEF RestMinors
      <4> HIDE DEF rest
      <4>2. rest \in Vectors
        BY <3>5, <4>1 DEF Vectors
      <4> QED
        BY <3>5, <4>2, TotalZero
    <3> DEFINE x == Sign(L, c)
               y == Det(m)[R][K]
    <3>7. x \in Signs /\ y \in Int
      BY <1>1, <3>1, SignTyped, DetTyped
    <3>8. d * (x * y) = 0 /\ d \in Int \ {0}
      BY <1>2, <3>1, <3>4, <3>6
    <3> HIDE DEF x, y
    <3>9. y = 0
      BY <3>7, <3>8 DEF Signs
    <3> QED
      BY <3>9 DEF y
  <2> QED
    BY <2>1, <2>2
<1> QED
  BY <1>3 DEF Beyond

\* One more row and one more column add at most one.
LEMMA BeyondNext ==
  ASSUME NEW m \in Matrices, NEW i \in 0..(N - 1), NEW r \in Nat, Beyond(m, i, r)
  PROVE  Beyond(m, i + 1, r + 1)
<1> DEFINE c == i + 1
<1>1. c \in Rows /\ i \in Nat
  BY NTyped DEF Rows
<1>2. ASSUME NEW R \in SUBSET Rows, NEW K \in SUBSET (1..c),
             Cardinality(R) = Cardinality(K), Cardinality(K) > r + 1
      PROVE  Det(m)[R][K] = 0
  <2>1. CASE c \notin K
    <3>1. K \in SUBSET (1..i) /\ Cardinality(K) > r
      <4>1. K \in SUBSET Rows
        BY <1>1, NTyped DEF Rows
      <4>2. Cardinality(K) \in Nat
        BY <4>1, RowsCounted
      <4> QED
        BY <1>1, <1>2, <2>1, <4>2
    <3> QED
      BY <1>2, <3>1 DEF Beyond
  <2>2. CASE c \in K
    <3> DEFINE L == K \ {c}
               b == ByColumn(m, c, R, L)
    <3>1. /\ L \in SUBSET (1..i) /\ L \in SUBSET Rows /\ K \in SUBSET Rows
          /\ c \notin L /\ L \cup {c} = K
      BY <1>1, <2>2, NTyped DEF Rows
    <3>2. /\ Cardinality(R) = Cardinality(L) + 1 /\ Cardinality(L) \in Nat
          /\ Cardinality(L) > r
      BY <1>2, <2>2, <3>1, RowsCounted
    <3> HIDE DEF L
    <3>3. ASSUME NEW k \in Rows PROVE b[k] = 0
      <4>1. CASE k \in R
        <5>1. Cardinality(R \ {k}) = Cardinality(L) /\ R \ {k} \in SUBSET Rows
          BY <3>2, <4>1, RowsCounted
        <5>2. Det(m)[R \ {k}][L] = 0
          BY <3>1, <3>2, <5>1 DEF Beyond
        <5> DEFINE x == Sign(R, k)
                   y == m[k][c]
        <5>3. x \in Int /\ y \in Int
          BY <1>1, SignTyped DEF Signs, Matrices, Vectors
        <5>4. b[k] = x * y * 0
          BY <4>1, <5>2 DEF ByColumn
        <5> HIDE DEF x, y, b
        <5> QED
          BY <5>3, <5>4
      <4>2. CASE k \notin R
        BY <4>2 DEF ByColumn
      <4> QED
        BY <4>1, <4>2
    <3>4. Total(b) = 0
      <4>1. b \in Vectors
        BY <1>1, <3>1, ByColumnTyped
      <4> HIDE DEF b
      <4> QED
        BY <3>3, <4>1, TotalZero
    <3>5. Bordered(m, R, L, c)
      BY <1>1, <3>1, <3>2, BorderedFacts
    <3> DEFINE x == Sign(L, c)
               y == Det(m)[R][K]
    <3>6. x \in Signs /\ y \in Int
      BY <1>1, <3>1, SignTyped, DetTyped
    <3>7. x * y = 0
      BY <3>1, <3>4, <3>5 DEF Bordered
    <3> HIDE DEF x, y
    <3>8. y = 0
      BY <3>6, <3>7 DEF Signs
    <3> QED
      BY <3>8 DEF y
  <2> QED
    BY <2>1, <2>2
<1> QED
  BY <1>2 DEF Beyond

\* A row selected makes the minor of the selected rows one larger; it is 0 just when
\* nothing was left of the row in the column.
LEMMA PivotMinor ==
  ASSUME NEW m \in Matrices, NEW i \in 0..(N - 1),
         NEW S \in SUBSET Rows, NEW pi, NEW P, Chosen(m, i, S, pi, P),
         NEW M, NEW d, NEW b, Reduced(m, M, S, pi, i + 1, d, b),
         NEW j \in Rows \ S
  PROVE  /\ b[j] # 0 <=> Det(m)[S \cup {j}][P \cup {i + 1}] # 0
         /\ b[j] # 0 => Chosen(m, i + 1, S \cup {j}, [pi EXCEPT ![j] = i + 1], P \cup {i + 1})
<1> DEFINE c == i + 1
           R == S \cup {j}
           rest == RestMinors(m, Left(S, b), R, P)
<1>1. c \in Rows /\ i \in Nat
  BY NTyped DEF Rows
<1>2. /\ pi \in [Rows -> Rows] /\ d \in Int \ {0} /\ b \in Vectors
      /\ \A h \in S : pi[h] \in P
      /\ P \in SUBSET (1..i) /\ Cardinality(P) = Cardinality(S) /\ Det(m)[S][P] # 0
      /\ \A k \in Rows : d * m[k][c] = Total(Taken(m, S, pi, b, k)) + Left(S, b)[k]
  BY DEF Chosen, Reduced
<1>3. /\ P \in SUBSET Rows /\ c \notin P /\ R \in SUBSET Rows /\ R \ {j} = S
      /\ P \cup {c} \in SUBSET (1..c) /\ P \cup {c} \in SUBSET Rows
  <2>1. P \in SUBSET (1..i)
    BY <1>2
  <2>2. \A k \in 1..i : k \in Rows /\ k \in 1..c /\ k # c
    BY <1>1, NTyped DEF Rows
  <2>3. c \in 1..c
    BY <1>1, NTyped
  <2>4. R \in SUBSET Rows /\ R \ {j} = S
    OBVIOUS
  <2> HIDE DEF c, R
  <2> QED
    BY <1>1, <2>1, <2>2, <2>3, <2>4
<1>4. Cardinality(R) = Cardinality(P) + 1
  BY <1>2, <1>3, RowsCounted
<1>5. Cardinality(P \cup {c}) = Cardinality(R)
  BY <1>1, <1>3, <1>4, RowsCounted
<1> DEFINE w == Weights(m, R, P)
<1>6. w \in Vectors /\ \A k \in Rows : w[k] \in Int /\ Left(S, b)[k] \in Int
  <2>1. w \in Vectors
    <3> HIDE DEF R
    <3> QED
      BY <1>3, WeightsFacts
  <2>2. Left(S, b) \in Vectors
    BY <1>2, LeftTyped
  <2> HIDE DEF w
  <2> QED
    BY <2>1, <2>2 DEF Vectors
<1>7. d * (Sign(P, c) * Det(m)[R][P \cup {c}]) = Total(rest)
  <2>1. d \in Int /\ \A h \in S : pi[h] \in P \/ Det(m)[R][P \cup {pi[h]}] = 0
    BY <1>2
  <2> HIDE DEF R, c
  <2>2. MinorsMade(m, R, P, S, b, c, d)
    BY <2>1, <1>1, <1>2, <1>3, <1>4, MinorOfSum
  <2> QED
    BY <2>2 DEF MinorsMade
<1>8. Total(rest) = w[j] * b[j]
  <2>1. rest \in Vectors
    <3>1. ASSUME NEW k \in Rows PROVE w[k] * Left(S, b)[k] \in Int
      <4> DEFINE x == w[k]
                 y == Left(S, b)[k]
      <4>1. x \in Int /\ y \in Int
        BY <1>6
      <4> HIDE DEF x, y
      <4>2. x * y \in Int
        BY <4>1
      <4> QED
        BY <4>2 DEF x, y
    <3> QED
      BY <3>1 DEF Vectors, RestMinors
  <2>2. ASSUME NEW k \in Rows, k # j PROVE rest[k] = 0
    <3>1. CASE k \in S
      <4>1. rest[k] = w[k] * 0
        BY <3>1 DEF Left, RestMinors
      <4> HIDE DEF rest, w
      <4> QED
        BY <1>6, <4>1
    <3>2. CASE k \notin S
      <4>1. w[k] = 0
        BY <2>2, <3>2 DEF Weights
      <4>2. rest[k] = 0 * Left(S, b)[k]
        BY <4>1 DEF RestMinors
      <4> HIDE DEF rest, w
      <4> QED
        BY <1>6, <4>2
    <3> QED
      BY <3>1, <3>2
  <2>3. rest[j] = w[j] * b[j]
    BY DEF Left, RestMinors
  <2>4. Total(rest) = rest[j]
    <3> HIDE DEF rest
    <3> QED
      BY <2>1, <2>2, TotalOne
  <2> QED
    BY <2>3, <2>4
<1>9. w[j] = Sign(R, j) * Det(m)[S][P]
  BY <1>3 DEF Weights
<1> DEFINE x == Sign(R, j)
           y == Det(m)[S][P]
           z == b[j]
           det == Det(m)[R][P \cup {c}]
<1>10. x \in Signs /\ y \in Int \ {0} /\ z \in Int /\ Sign(P, c) \in Int \ {0}
       /\ det \in Int
  BY <1>1, <1>2, <1>3, SignTyped, DetTyped DEF Vectors, Signs
<1>11. z # 0 <=> det # 0
  <2> DEFINE sign == Sign(P, c)
  <2>1. d * (sign * det) = x * y * z
    BY <1>7, <1>8, <1>9
  <2>2. sign \in Int \ {0}
    BY <1>10
  <2>3. x \in Int \ {0}
    BY <1>10 DEF Signs
  <2> HIDE DEF x, y, z, det, sign
  <2>4. z # 0 => x * y * z # 0
    BY <1>10, <2>3, NotNull
  <2>5. z = 0 => x * y * z = 0
    BY <1>10, <2>3
  <2>6. det # 0 => d * (sign * det) # 0
    BY <1>2, <1>10, <2>2, NotNull
  <2>7. det = 0 => d * (sign * det) = 0
    BY <1>2, <2>2
  <2> QED
    BY <2>1, <2>4, <2>5, <2>6, <2>7
<1> DEFINE pj == [pi EXCEPT ![j] = c]
<1>12. pj \in [Rows -> Rows] /\ \A h \in R : pj[h] \in P \cup {c}
  BY <1>1, <1>2
<1> QED
  BY <1>3, <1>5, <1>11, <1>12 DEF Chosen

\* A pivot taken off another column keeps it a sum of the columns taken.
Stepped(a, D, b, d, j) ==
  [k \in Rows |-> IF k = j THEN a[j] * d ELSE a[k] * b[j] - a[j] * b[k]]

LEMMA SteppedTyped ==
  ASSUME NEW a \in Vectors, NEW b \in Vectors, NEW d \in Int, NEW D, NEW j \in Rows
  PROVE  Stepped(a, D, b, d, j) \in Vectors
<1>1. ASSUME NEW k \in Rows
      PROVE  a[j] * d \in Int /\ a[k] * b[j] - a[j] * b[k] \in Int
  <2> DEFINE x == a[j]
             y == a[k]
             z == b[j]
             u == b[k]
  <2>1. x \in Int /\ y \in Int /\ z \in Int /\ u \in Int
    BY DEF Vectors
  <2> HIDE DEF x, y, z, u
  <2>2. x * d \in Int /\ y * z - x * u \in Int
    BY <2>1
  <2> QED
    BY <2>2 DEF x, y, z, u
<1> QED
  BY <1>1 DEF Stepped, Vectors

LEMMA SteppedRatio ==
  ASSUME NEW M \in FracMatrices, NEW j \in Rows, NEW c \in Rows, NEW p \in Rows, p > c,
         NEW D \in Int \ {0}, NEW a \in Vectors, NEW d \in Int \ {0}, NEW b \in Vectors,
         b[j] # 0,
         \A k \in Rows : Ratio(M[k][p], a[k], D) /\ Ratio(M[k][c], b[k], d),
         NEW k \in Rows
  PROVE  Ratio(Cleared(M, j, c)[k][p], Stepped(a, D, b, d, j)[k], D * b[j])
<1> DEFINE s == b[j]
           q == a[j]
           x == a[k]
           r == b[k]
           g == PivotRow(M, j, c)[p]
           f == M[k][p]
           h == M[k][c]
<1>1. s \in Int \ {0} /\ q \in Int /\ x \in Int /\ r \in Int
  BY DEF Vectors
<1>2. g = FracDiv(M[j][p], M[j][c])
  BY DEF PivotRow
<1>3. Ratio(g, q * d, D * s)
  <2>1. Ratio(M[j][p], q, D) /\ Ratio(M[j][c], s, d)
    OBVIOUS
  <2> HIDE DEF g, q, s
  <2> QED
    BY <1>1, <1>2, <2>1, RatioDiv
<1>4. Ratio(f, x, D) /\ Ratio(h, r, d)
  OBVIOUS
<1>5. CASE k = j
  <2>1. Cleared(M, j, c)[k][p] = g
    BY <1>5 DEF Cleared
  <2>2. Stepped(a, D, b, d, j)[k] = q * d
    BY <1>5 DEF Stepped
  <2> QED
    BY <1>3, <2>1, <2>2
<1>6. CASE k # j
  <2>1. Stepped(a, D, b, d, j)[k] = x * s - q * r
    BY <1>6 DEF Stepped
  <2>2. CASE IsNull(h)
    <3>1. Cleared(M, j, c)[k][p] = f
      BY <1>6, <2>2 DEF Cleared
    <3>2. r = 0
      <4> HIDE DEF h, r
      <4> QED
        BY <1>1, <1>4, <2>2, RatioNull
    <3>3. Ratio(f, x * s - q * r, D * s)
      <4> DEFINE n == f.n
                 e == f.d
      <4>1. f \in Fracs /\ n \in Int /\ e \in Int /\ n * D = x * e
        BY <1>4 DEF Ratio, Fracs
      <4> HIDE DEF n, e, f, x, s, q, r
      <4>2. x * s - q * r = x * s
        BY <1>1, <3>2
      <4>3. n * (D * s) = (n * D) * s
        BY <1>1, <4>1
      <4>4. (x * e) * s = (x * s) * e
        BY <1>1, <4>1
      <4> QED
        BY <4>1, <4>2, <4>3, <4>4 DEF Ratio, n, e
    <3> QED
      BY <2>1, <3>1, <3>3
  <2>3. CASE ~IsNull(h)
    <3>1. Cleared(M, j, c)[k][p] = FracMinus(f, FracMul(g, h))
      BY <1>6, <2>3 DEF Cleared
    <3>2. Ratio(FracMinus(f, FracMul(g, h)), x * s - q * r, D * s)
      <4> HIDE DEF f, g, h, x, s, q, r
      <4>1. q * d \in Int
        BY <1>1
      <4> QED
        BY <1>1, <1>3, <1>4, <4>1, RatioLess
    <3> QED
      BY <2>1, <3>1, <3>2
  <2> QED
    BY <2>2, <2>3
<1> QED
  BY <1>5, <1>6

\* Row k of D times column p is the columns taken and the rest.
SumOf(m, S, pi, p, D, a, k) ==
  D * m[k][p] = Total(Taken(m, S, pi, a, k)) + Left(S, a)[k]

LEMMA SteppedSum ==
  ASSUME NEW m \in Matrices, NEW S \in SUBSET Rows, NEW pi \in [Rows -> Rows],
         NEW j \in Rows \ S, NEW c \in Rows, NEW p \in Rows,
         NEW D \in Int, NEW a \in Vectors, NEW d \in Int, NEW b \in Vectors, NEW k \in Rows,
         SumOf(m, S, pi, p, D, a, k), SumOf(m, S, pi, c, d, b, k)
  PROVE  SumOf(m, S \cup {j}, [pi EXCEPT ![j] = c], p, D * b[j], Stepped(a, D, b, d, j), k)
<1> DEFINE pj == [pi EXCEPT ![j] = c]
           t == Stepped(a, D, b, d, j)
           new == Taken(m, S \cup {j}, pj, t, k)
           A == Taken(m, S, pi, a, k)
           B == Taken(m, S, pi, b, k)
           s == b[j]
           q == a[j]
           z == m[k][c]
           one == [h \in Rows |-> IF h = j THEN q * (d * z) ELSE 0]
           both == [h \in Rows |-> s * A[h] + (-q) * B[h]]
<1>1. /\ s \in Int /\ q \in Int /\ z \in Int /\ m[k][p] \in Int
      /\ a[k] \in Int /\ b[k] \in Int
  BY DEF Matrices, Vectors
<1>2. pj \in [Rows -> Rows] /\ pj[j] = c /\ \A h \in Rows : h # j => pj[h] = pi[h]
  OBVIOUS
<1>3. t \in Vectors /\ A \in Vectors /\ B \in Vectors
      /\ Total(A) \in Int /\ Total(B) \in Int
  BY SteppedTyped, TakenTyped
<1>4. new \in Vectors
  <2> HIDE DEF t, pj
  <2> QED
    BY <1>2, <1>3, TakenTyped
<1>5. ASSUME NEW h \in Rows PROVE new[h] = one[h] + both[h]
  <2>1. A[h] \in Int /\ B[h] \in Int
    BY <1>3 DEF Vectors
  <2>2. CASE h = j
    <3>1. new[h] = (q * d) * z
      BY <1>2, <2>2 DEF Taken, Stepped
    <3>2. A[h] = 0 /\ B[h] = 0
      BY <2>2 DEF Taken
    <3>3. one[h] = q * (d * z) /\ both[h] = s * 0 + (-q) * 0
      BY <2>2, <3>2
    <3> HIDE DEF new, one, both, q, z, s
    <3>4. (q * d) * z = q * (d * z) + (s * 0 + (-q) * 0)
      BY <1>1
    <3> QED
      BY <3>1, <3>3, <3>4
  <2>3. CASE h \in S
    <3> DEFINE x == a[h]
               y == b[h]
               v == m[k][pi[h]]
    <3>1. x \in Int /\ y \in Int /\ v \in Int /\ h # j
      BY <2>3 DEF Matrices, Vectors
    <3>2. new[h] = (x * s - q * y) * v
      BY <1>2, <2>3, <3>1 DEF Taken, Stepped
    <3>3. A[h] = x * v /\ B[h] = y * v /\ one[h] = 0
      BY <2>3, <3>1 DEF Taken
    <3>4. both[h] = s * (x * v) + (-q) * (y * v)
      BY <3>3
    <3> HIDE DEF new, one, both, q, z, s, x, y, v
    <3>5. (x * s - q * y) * v = 0 + (s * (x * v) + (-q) * (y * v))
      BY <1>1, <3>1
    <3> QED
      BY <3>2, <3>3, <3>4, <3>5
  <2>4. CASE h \notin S /\ h # j
    <3>1. new[h] = 0 /\ A[h] = 0 /\ B[h] = 0 /\ one[h] = 0
      BY <2>4 DEF Taken
    <3>2. both[h] = s * 0 + (-q) * 0
      BY <3>1
    <3> HIDE DEF new, one, both, q, s, A, B
    <3> QED
      BY <1>1, <3>1, <3>2
  <2> QED
    BY <2>2, <2>3, <2>4
<1>6. both \in Vectors /\ one \in Vectors
  <2>1. ASSUME NEW h \in Rows PROVE s * A[h] + (-q) * B[h] \in Int
    <3> DEFINE x == A[h]
               y == B[h]
    <3>1. x \in Int /\ y \in Int
      BY <1>3 DEF Vectors
    <3> HIDE DEF x, y, s, q
    <3>2. s * x + (-q) * y \in Int
      BY <1>1, <3>1
    <3> QED
      BY <3>2 DEF x, y
  <2>2. q * (d * z) \in Int
    <3> HIDE DEF q, z
    <3> QED
      BY <1>1
  <2> QED
    BY <2>1, <2>2 DEF Vectors
<1>7. Total(new) = Total(one) + Total(both)
  <2> HIDE DEF new, one, both
  <2> QED
    BY <1>4, <1>5, <1>6, TotalAdd
<1>8. Total(both) = s * Total(A) + (-q) * Total(B)
  <2>1. \A h \in Rows : both[h] = s * A[h] + (-q) * B[h]
    OBVIOUS
  <2>2. -q \in Int
    <3> HIDE DEF q
    <3> QED
      BY <1>1
  <2> DEFINE y == -q
  <2> HIDE DEF both, A, B, s, q, y
  <2>3. y \in Int /\ \A h \in Rows : both[h] = s * A[h] + y * B[h]
    BY <2>1, <2>2 DEF y
  <2>4. s \in Int /\ A \in Vectors /\ B \in Vectors /\ both \in Vectors
    BY <1>1, <1>3, <1>6
  <2>5. Total(both) = s * Total(A) + y * Total(B)
    BY <2>3, <2>4, TotalLinear
  <2> QED
    BY <2>5 DEF y
<1>9. Total(one) = q * (d * z)
  <2>1. one[j] = q * (d * z) /\ \A h \in Rows : h # j => one[h] = 0
    OBVIOUS
  <2> HIDE DEF one
  <2> QED
    BY <1>6, <2>1, TotalOne
<1> DEFINE x == Left(S, a)[k]
           y == Left(S, b)[k]
           w == Left(S \cup {j}, t)[k]
           u == m[k][p]
<1>10. x \in Int /\ y \in Int /\ w = x * s - q * y
  <2>1. CASE k \in S
    <3>1. x = 0 /\ y = 0 /\ w = 0
      BY <2>1 DEF Left
    <3> HIDE DEF x, y, w, q, s
    <3> QED
      BY <1>1, <3>1
  <2>2. CASE k = j
    <3>1. x = q /\ y = s /\ w = 0
      BY <2>2 DEF Left
    <3> HIDE DEF x, y, w, q, s
    <3> QED
      BY <1>1, <3>1
  <2>3. CASE k \notin S /\ k # j
    <3>1. x = a[k] /\ y = b[k] /\ w = a[k] * s - q * b[k]
      BY <2>3 DEF Left, Stepped
    <3> HIDE DEF x, y, w, q, s
    <3> QED
      BY <1>1, <3>1
  <2> QED
    BY <2>1, <2>2, <2>3
<1> DEFINE i == Total(A)
           l == Total(B)
           o == Total(new)
<1>11. /\ i \in Int /\ l \in Int /\ u \in Int
       /\ D * u = i + x /\ d * z = l + y
       /\ o = q * (d * z) + (s * i + (-q) * l)
  BY <1>1, <1>3, <1>7, <1>8, <1>9 DEF SumOf
<1> HIDE DEF i, l, o, u, x, y, w, s, q, z
<1>12. (D * s) * u = s * (D * u)
  BY <1>1, <1>11
<1>13. s * (i + x) = s * i + s * x /\ q * (l + y) = q * l + q * y /\ (-q) * l = -(q * l)
       /\ x * s = s * x
  BY <1>1, <1>10, <1>11
<1>14. (D * s) * u = s * i + s * x /\ o = q * l + q * y + (s * i + -(q * l)) /\ w = s * x - q * y
  BY <1>10, <1>11, <1>12, <1>13
<1>15. (D * s) * u = o + w
  <2> DEFINE e == s * i
             f == s * x
             g == q * l
             h == q * y
  <2>1. e \in Int /\ f \in Int /\ g \in Int /\ h \in Int
    BY <1>1, <1>10, <1>11
  <2>2. (D * s) * u = e + f /\ o = g + h + (e + -g) /\ w = f - h
    BY <1>14
  <2> HIDE DEF e, f, g, h
  <2>3. o + w = e + f
    BY <2>1, <2>2
  <2> QED
    BY <2>2, <2>3
<1> QED
  BY <1>15 DEF i, l, o, u, x, y, w, s, q, z, SumOf

LEMMA ReducedNext ==
  ASSUME NEW m \in Matrices, NEW M \in FracMatrices, NEW S \in SUBSET Rows,
         NEW pi \in [Rows -> Rows], NEW c \in Rows, NEW j \in Rows \ S,
         NEW d, NEW b, Reduced(m, M, S, pi, c, d, b), b[j] # 0,
         NEW p \in Rows, p > c, NEW D, NEW a, Reduced(m, M, S, pi, p, D, a)
  PROVE  Reduced(m, Cleared(M, j, c), S \cup {j}, [pi EXCEPT ![j] = c], p,
                 D * b[j], Stepped(a, D, b, d, j))
<1>1. /\ D \in Int \ {0} /\ a \in Vectors /\ d \in Int \ {0} /\ b \in Vectors
      /\ \A k \in Rows : Ratio(M[k][p], a[k], D) /\ Ratio(M[k][c], b[k], d)
      /\ \A k \in Rows : SumOf(m, S, pi, p, D, a, k) /\ SumOf(m, S, pi, c, d, b, k)
  BY DEF Reduced, SumOf
<1>2. D * b[j] \in Int \ {0}
  <2> DEFINE s == b[j]
  <2>1. s \in Int \ {0}
    BY <1>1 DEF Vectors
  <2> HIDE DEF s
  <2>2. D * s \in Int \ {0}
    BY <1>1, <2>1, NotNull
  <2> QED
    BY <2>2 DEF s
<1>3. Stepped(a, D, b, d, j) \in Vectors
  BY <1>1, SteppedTyped
<1>4. ASSUME NEW k \in Rows
      PROVE  Ratio(Cleared(M, j, c)[k][p], Stepped(a, D, b, d, j)[k], D * b[j])
  BY <1>1, SteppedRatio
<1>5. ASSUME NEW k \in Rows
      PROVE  SumOf(m, S \cup {j}, [pi EXCEPT ![j] = c], p, D * b[j], Stepped(a, D, b, d, j), k)
  BY <1>1, SteppedSum
<1> QED
  BY <1>2, <1>3, <1>4, <1>5 DEF Reduced, SumOf

-----------------------------------------------------------------------------
(* compute_rank counts the rank *)

\* compute_rank has been through the first i columns: its rank is that of a minor
\* that is not 0 and no larger one is, and the columns to come are sums of those
\* taken, with a rest in the rows not selected.
Ahead(m, i, st, pi) ==
  \A p \in Rows : p > i => \E D \in Int \ {0}, a \in Vectors :
    Reduced(m, st.m, st.selected, pi, p, D, a)

Eliminated(m, i, st, P) ==
  /\ st \in RankStates /\ st.rank = Cardinality(st.selected)
  /\ Beyond(m, i, st.rank)
  /\ \E pi : Chosen(m, i, st.selected, pi, P) /\ Ahead(m, i, st, pi)

FirstState(m) ==
  [m |-> [j \in Rows |-> [p \in Rows |-> [n |-> m[j][p], d |-> 1]]],
   rank |-> 0, selected |-> {}]

LEMMA EliminatedFirst ==
  ASSUME NEW m \in Matrices
  PROVE  Eliminated(m, 0, FirstState(m), {})
<1> DEFINE st == FirstState(m)
           pi == [h \in Rows |-> h]
<1>1. \A k, p \in Rows : m[k][p] \in Int
  BY DEF Matrices, Vectors
<1>2. \A k, p \in Rows : st.m[k][p] = [n |-> m[k][p], d |-> 1]
  BY DEF FirstState
<1>3. st \in RankStates /\ st.rank = 0 /\ st.selected = {} /\ Cardinality({}) = 0
  BY <1>1, FS_EmptySet DEF FirstState, RankStates, Fracs
<1> HIDE DEF st
<1>4. Beyond(m, 0, 0)
  <2> SUFFICES ASSUME NEW K \in SUBSET (1..0), Cardinality(K) > 0 PROVE FALSE
    BY DEF Beyond
  <2>1. K = {}
    OBVIOUS
  <2> QED
    BY <1>3, <2>1
<1>5. Chosen(m, 0, {}, pi, {})
  <2>1. {} \in SUBSET Rows /\ {} \in SUBSET (1..0) /\ pi \in [Rows -> Rows]
    OBVIOUS
  <2>2. Det(m)[{}][{}] = 1
    BY <2>1, DetNone
  <2> QED
    BY <2>1, <2>2 DEF Chosen
<1>6. ASSUME NEW p \in Rows
      PROVE  Reduced(m, st.m, {}, pi, p, 1, [k \in Rows |-> m[k][p]])
  <2> DEFINE a == [k \in Rows |-> m[k][p]]
  <2>1. a \in Vectors /\ 1 \in Int \ {0}
    BY <1>1 DEF Vectors
  <2>2. ASSUME NEW k \in Rows PROVE Ratio(st.m[k][p], a[k], 1)
    <3> DEFINE x == m[k][p]
    <3>1. x \in Int /\ st.m[k][p] = [n |-> x, d |-> 1] /\ a[k] = x
      BY <1>1, <1>2
    <3> HIDE DEF x, a
    <3>2. Ratio([n |-> x, d |-> 1], x, 1)
      BY <3>1 DEF Ratio, Fracs
    <3> QED
      BY <3>1, <3>2
  <2>3. ASSUME NEW k \in Rows PROVE 1 * m[k][p] = Total(Taken(m, {}, pi, a, k)) + Left({}, a)[k]
    <3> DEFINE t == Taken(m, {}, pi, a, k)
    <3>1. \A h \in Rows : t[h] = 0
      BY DEF Taken
    <3>2. t = [h \in Rows |-> 0] /\ t \in Vectors
      BY DEF Taken, Vectors
    <3> HIDE DEF t
    <3>3. Total(t) = 0
      BY <3>1, <3>2, TotalZero
    <3>4. Left({}, a)[k] = m[k][p] /\ m[k][p] \in Int
      BY <1>1 DEF Left
    <3> QED
      BY <3>3, <3>4 DEF t
  <2> HIDE DEF a, pi
  <2>4. Reduced(m, st.m, {}, pi, p, 1, a)
    BY <2>1, <2>2, <2>3 DEF Reduced
  <2> QED
    BY <2>4 DEF a
<1>7. Ahead(m, 0, st, pi)
  <2> SUFFICES ASSUME NEW p \in Rows
               PROVE  \E D \in Int \ {0}, a \in Vectors : Reduced(m, st.m, {}, pi, p, D, a)
    BY <1>3 DEF Ahead
  <2> DEFINE a == [k \in Rows |-> m[k][p]]
  <2>1. Reduced(m, st.m, {}, pi, p, 1, a)
    BY <1>6
  <2> HIDE DEF a, pi
  <2>2. 1 \in Int \ {0} /\ a \in Vectors
    BY <2>1 DEF Reduced
  <2> QED
    BY <2>1, <2>2
<1> HIDE DEF pi
<1> QED
  BY <1>3, <1>4, <1>5, <1>7 DEF Eliminated, st

\* Exactly computed, what is left of the next column in a row not selected is 0 just
\* when the minor of the row and those selected, in the columns taken and this one, is.
LEMMA EliminatedTests ==
  ASSUME NEW m \in Matrices, NEW i \in 0..(N - 1), NEW st, NEW P, Eliminated(m, i, st, P),
         NEW j \in Rows \ st.selected
  PROVE  ~IsNull(st.m[j][i + 1]) <=> Det(m)[st.selected \cup {j}][P \cup {i + 1}] # 0
<1> DEFINE c == i + 1
           S == st.selected
           M == st.m
<1>1. c \in Rows /\ c > i /\ S \in SUBSET Rows
  BY NTyped DEF Rows, Eliminated, RankStates
<1>2. PICK pi : Chosen(m, i, S, pi, P) /\ Ahead(m, i, st, pi)
  BY DEF Eliminated
<1>3. PICK d \in Int \ {0}, b \in Vectors : Reduced(m, M, S, pi, c, d, b)
  BY <1>1, <1>2 DEF Ahead
<1>4. IsNull(M[j][c]) <=> b[j] = 0
  <2>1. Ratio(M[j][c], b[j], d) /\ b[j] \in Int
    BY <1>3 DEF Reduced, Vectors
  <2> QED
    BY <2>1, <1>3, RatioNull
<1>5. b[j] # 0 <=> Det(m)[S \cup {j}][P \cup {c}] # 0
  <2>1. S \in SUBSET Rows /\ j \in Rows \ S
    BY <1>1
  <2> HIDE DEF S, M
  <2>2. /\ b[j] # 0 <=> Det(m)[S \cup {j}][P \cup {i + 1}] # 0
        /\ b[j] # 0 => Chosen(m, i + 1, S \cup {j}, [pi EXCEPT ![j] = i + 1], P \cup {i + 1})
    BY <2>1, <1>2, <1>3, PivotMinor, ZenonT(60)
  <2> QED
    BY <2>2
<1> QED
  BY <1>4, <1>5

\* A column that leaves nothing in the rows not selected.
LEMMA EliminatedKept ==
  ASSUME NEW m \in Matrices, NEW i \in 0..(N - 1), NEW st, NEW P, Eliminated(m, i, st, P),
         Free(st, i + 1) = {}
  PROVE  Eliminated(m, i + 1, st, P)
<1> DEFINE c == i + 1
           S == st.selected
           M == st.m
           r == st.rank
<1>1. c \in Rows /\ i \in Nat /\ c > i
  BY NTyped DEF Rows
<1>2. /\ st \in RankStates /\ r = Cardinality(S) /\ Beyond(m, i, r)
      /\ S \in SUBSET Rows /\ r \in Nat
  BY DEF Eliminated, RankStates
<1>3. PICK pi : Chosen(m, i, S, pi, P) /\ Ahead(m, i, st, pi)
  BY DEF Eliminated
<1>4. PICK d \in Int \ {0}, b \in Vectors : Reduced(m, M, S, pi, c, d, b)
  BY <1>1, <1>3 DEF Ahead
<1>5. \A k \in Rows \ S : b[k] = 0
  <2> TAKE k \in Rows \ S
  <2>1. Ratio(M[k][c], b[k], d) /\ b[k] \in Int
    BY <1>4 DEF Reduced, Vectors
  <2>2. IsNull(M[k][c])
    BY DEF Free
  <2> QED
    BY <2>1, <2>2, <1>4, RatioNull
<1>6. Beyond(m, c, r)
  <2> HIDE DEF S, M, r
  <2> QED
    BY <1>2, <1>3, <1>4, <1>5, NoFreeRow
<1>7. Chosen(m, c, S, pi, P)
  BY <1>1, <1>3 DEF Chosen
<1>8. Ahead(m, c, st, pi)
  <2>1. \A p \in Rows : p > c => p > i
    BY <1>1 DEF Rows
  <2> QED
    BY <1>3, <2>1 DEF Ahead
<1> QED
  BY <1>2, <1>6, <1>7, <1>8 DEF Eliminated

\* The state after row j, with a pivot in column i, was taken off the others.
Taking(st, i, j) ==
  [m |-> Cleared(st.m, j, i), rank |-> st.rank + 1, selected |-> st.selected \cup {j}]

LEMMA EliminatedTaken ==
  ASSUME NEW m \in Matrices, NEW i \in 0..(N - 1), NEW st, NEW P, Eliminated(m, i, st, P),
         NEW j \in Free(st, i + 1)
  PROVE  Eliminated(m, i + 1, Taking(st, i + 1, j), P \cup {i + 1})
<1> DEFINE c == i + 1
           S == st.selected
           M == st.m
           r == st.rank
           next == Taking(st, c, j)
<1>1. c \in Rows /\ i \in Nat /\ c > i
  BY NTyped DEF Rows
<1>2. /\ st \in RankStates /\ r = Cardinality(S) /\ Beyond(m, i, r)
      /\ S \in SUBSET Rows /\ M \in FracMatrices /\ r \in Nat
  BY DEF Eliminated, RankStates, FracMatrices
<1>3. PICK pi : Chosen(m, i, S, pi, P) /\ Ahead(m, i, st, pi)
  BY DEF Eliminated
<1>4. PICK d \in Int \ {0}, b \in Vectors : Reduced(m, M, S, pi, c, d, b)
  BY <1>1, <1>3 DEF Ahead
<1>5. j \in Rows \ S /\ ~IsNull(M[j][c])
  BY DEF Free
<1>6. b[j] # 0
  <2>1. Ratio(M[j][c], b[j], d) /\ b[j] \in Int
    BY <1>4, <1>5 DEF Reduced, Vectors
  <2> QED
    BY <2>1, <1>4, <1>5, RatioNull
<1>7. /\ next.m = Cleared(M, j, c) /\ next.rank = r + 1 /\ next.selected = S \cup {j}
  BY DEF Taking
<1>8. next \in RankStates
  <2>1. Cleared(M, j, c) \in FracMatrices
    BY <1>1, <1>2, <1>5, ClearedTyped
  <2> QED
    BY <1>2, <1>5, <2>1 DEF Taking, RankStates, FracMatrices
<1> DEFINE pj == [pi EXCEPT ![j] = c]
           Q == P \cup {c}
<1> HIDE DEF next
<1>9. next.rank = Cardinality(next.selected)
  <2> HIDE DEF S, r
  <2> QED
    BY <1>2, <1>5, <1>7, RowsCounted
<1>10. Beyond(m, c, next.rank)
  <2> HIDE DEF r
  <2> QED
    BY <1>2, <1>7, BeyondNext
<1>11. Chosen(m, c, next.selected, pj, Q)
  <2>1. Chosen(m, c, S \cup {j}, pj, Q)
    <3> HIDE DEF S, M, r
    <3> QED
      BY <1>2, <1>3, <1>4, <1>5, <1>6, PivotMinor
  <2> QED
    BY <1>7, <2>1
<1>12. ASSUME NEW p \in Rows, p > c
       PROVE  \E D \in Int \ {0}, a \in Vectors :
                Reduced(m, next.m, next.selected, pj, p, D, a)
  <2>1. p > i
    BY <1>1, <1>12 DEF Rows
  <2>2. PICK D \in Int \ {0}, a \in Vectors : Reduced(m, M, S, pi, p, D, a)
    BY <1>3, <1>12, <2>1 DEF Ahead
  <2>3. pi \in [Rows -> Rows]
    BY <1>3 DEF Chosen
  <2>4. Reduced(m, Cleared(M, j, c), S \cup {j}, pj, p, D * b[j], Stepped(a, D, b, d, j))
    <3> HIDE DEF c, S, M
    <3> QED
      BY <1>1, <1>2, <1>4, <1>5, <1>6, <1>12, <2>2, <2>3, ReducedNext
  <2>5. D * b[j] \in Int \ {0} /\ Stepped(a, D, b, d, j) \in Vectors
    BY <2>4 DEF Reduced
  <2> HIDE DEF pj, c
  <2> QED
    BY <1>7, <2>4, <2>5
<1>13. Ahead(m, c, next, pj)
  <2> HIDE DEF pj, c
  <2> QED
    BY <1>12 DEF Ahead
<1> HIDE DEF pj, Q, c
<1>14. Eliminated(m, c, next, Q)
  BY <1>8, <1>9, <1>10, <1>11, <1>13 DEF Eliminated
<1> QED
  BY <1>14 DEF next, c, Q

LEMMA RankingFacts ==
  ASSUME NEW m \in Matrices
  PROVE  /\ Ranking(m) \in [0..N -> RankStates] /\ Ranking(m)[0] = FirstState(m)
         /\ \A i \in 0..(N - 1) : Ranking(m)[i + 1] = Column(Ranking(m)[i], i + 1)
<1> DEFINE first == FirstState(m)
           V == RankStates
           turn == [i \in 0..(N - 1) |-> [st \in V |-> Column(st, i + 1)]]
           run == Repeat(N, first, turn)
<1>1. \A i \in 0..(N - 1) : i + 1 \in Rows
  BY NTyped DEF Rows
<1>2. \A i \in 0..(N - 1), st \in V : Column(st, i + 1) \in V
  BY <1>1, ColumnFacts
<1>3. turn \in [0..(N - 1) -> [V -> V]]
      /\ \A i \in 0..(N - 1), st \in V : turn[i][st] = Column(st, i + 1)
  BY <1>2
<1>4. first \in V
  BY EliminatedFirst DEF Eliminated
<1>5. Ranking(m) = run
  BY Zenon DEF Ranking, FirstState
<1> HIDE DEF turn, first, V
<1>6. /\ run \in [0..N -> V] /\ run[0] = first
      /\ \A i \in 0..(N - 1) : run[i + 1] = turn[i][run[i]]
  <2>1. N \in Nat /\ first \in V /\ turn \in [0..(N - 1) -> [V -> V]]
    BY <1>3, <1>4, NTyped
  <2> QED
    BY <2>1, RepeatFacts
<1> HIDE DEF run
<1>7. ASSUME NEW i \in 0..(N - 1) PROVE run[i + 1] = Column(run[i], i + 1)
  <2>1. run[i] \in V
    BY <1>6, NTyped
  <2> QED
    BY <1>3, <1>6, <2>1
<1> QED
  BY <1>5, <1>6, <1>7 DEF first, V

\* After i columns compute_rank has counted and selected what an exact computation
\* can have, and took the same columns.
Follows(m, i) ==
  \E ex, P : /\ Eliminated(m, i, ex, P)
             /\ ex.rank = Ranking(m)[i].rank /\ ex.selected = Ranking(m)[i].selected
             /\ P = {k \in 1..i : Ranking(m)[k].rank > Ranking(m)[k - 1].rank}

\* It goes on so if its tests tell what an exact computation would.
LEMMA FollowsNext ==
  ASSUME NEW m \in Matrices, Tested(m), NEW i \in 0..(N - 1), Follows(m, i)
  PROVE  Follows(m, i + 1)
<1> DEFINE run == Ranking(m)
           c == i + 1
           st == run[i]
           next == run[c]
           Counted(n) == {k \in 1..n : run[k].rank > run[k - 1].rank}
<1>1. PICK ex, P : /\ Eliminated(m, i, ex, P)
                   /\ ex.rank = st.rank /\ ex.selected = st.selected /\ P = Counted(i)
  BY DEF Follows
<1>2. /\ st \in RankStates /\ next = Column(st, c)
      /\ c \in Rows /\ c \in Nat /\ i \in Nat /\ c - 1 = i /\ st.rank \in Nat
  BY RankingFacts, NTyped DEF Rows, RankStates
<1>3. \A j \in Rows \ st.selected :
        Above(st.m[j][c]) <=> Det(m)[st.selected \cup {j}][P \cup {c}] # 0
  BY <1>1, <1>2 DEF Tested
<1>4. Candidates(st, c) = Free(ex, c)
  <2>1. ASSUME NEW j \in Rows \ st.selected PROVE Above(st.m[j][c]) <=> ~IsNull(ex.m[j][c])
    <3>1. j \in Rows \ ex.selected
      BY <1>1
    <3>2. ~IsNull(ex.m[j][i + 1]) <=> Det(m)[ex.selected \cup {j}][P \cup {i + 1}] # 0
      BY <1>1, <3>1, EliminatedTests
    <3>3. Above(st.m[j][c]) <=> Det(m)[st.selected \cup {j}][P \cup {c}] # 0
      BY <1>3
    <3> HIDE DEF st
    <3> QED
      BY <1>1, <3>2, <3>3
  <2> QED
    BY <1>1, <2>1 DEF Candidates, Free
<1>5. Counted(c) = Counted(i) \cup (IF next.rank > st.rank THEN {c} ELSE {})
  BY <1>2
<1> HIDE DEF Counted, run
<1>6. CASE Candidates(st, c) = {}
  <2>1. next = st
    BY <1>2, <1>6, ColumnFacts
  <2>2. Eliminated(m, c, ex, P)
    BY <1>1, <1>4, <1>6, EliminatedKept
  <2>3. P = Counted(c)
    <3>1. ~(next.rank > st.rank)
      BY <1>2, <2>1
    <3> QED
      BY <1>1, <1>5, <3>1
  <2> QED
    BY <1>1, <2>1, <2>2, <2>3 DEF Follows, Counted, run
<1>7. CASE Candidates(st, c) # {}
  <2>1. PICK j \in Candidates(st, c) : next.rank = st.rank + 1 /\ next.selected = st.selected \cup {j}
    BY <1>2, <1>7, ColumnFacts
  <2>2. j \in Free(ex, c)
    BY <1>4, <2>1
  <2>3. Eliminated(m, c, Taking(ex, c, j), P \cup {c})
    BY <1>1, <2>2, EliminatedTaken
  <2>4. /\ Taking(ex, c, j).rank = next.rank
        /\ Taking(ex, c, j).selected = next.selected
    BY <1>1, <2>1 DEF Taking
  <2>5. P \cup {c} = Counted(c)
    <3>1. next.rank > st.rank
      BY <1>2, <2>1
    <3> QED
      BY <1>1, <1>5, <3>1
  <2> QED
    BY <2>3, <2>4, <2>5 DEF Follows, Counted, run
<1> QED
  BY <1>6, <1>7

LEMMA RankIsCounted ==
  ASSUME NEW m \in Matrices, Tested(m), NEW c \in 0..N
  PROVE  RankAfter(m, c) = Rank(m, c)
<1> DEFINE T == {i \in 0..N : Follows(m, i)}
<1>1. 0 \in T
  <2>1. Eliminated(m, 0, FirstState(m), {}) /\ Ranking(m)[0] = FirstState(m)
    BY EliminatedFirst, RankingFacts
  <2>2. {} = {k \in 1..0 : Ranking(m)[k].rank > Ranking(m)[k - 1].rank}
    OBVIOUS
  <2>3. Follows(m, 0)
    BY <2>1, <2>2 DEF Follows
  <2> QED
    BY <2>3, NTyped
<1>2. ASSUME NEW i \in 0..(N - 1), i \in T PROVE i + 1 \in T
  <2>1. i + 1 \in 0..N
    BY NTyped
  <2> QED
    BY <1>2, <2>1, FollowsNext
<1>3. Follows(m, c)
  <2>1. \A i \in 0..N : i \in T
    <3> HIDE DEF T
    <3> QED
      BY <1>1, <1>2, NTyped, UpTo
  <2> QED
    BY <2>1
<1>4. PICK st, P : Eliminated(m, c, st, P) /\ st.rank = Ranking(m)[c].rank
  BY <1>3 DEF Follows
<1>5. RankAfter(m, c) = st.rank
  BY <1>4 DEF RankAfter
<1>9. Eliminated(m, c, st, P)
  BY <1>4
<1> DEFINE S == st.selected
           r == st.rank
<1>10. S \in SUBSET Rows /\ r = Cardinality(S) /\ r \in Nat /\ Beyond(m, c, r)
  BY <1>9 DEF Eliminated, RankStates
<1>11. PICK pi : Chosen(m, c, S, pi, P)
  BY <1>9 DEF Eliminated
<1> DEFINE minors == {R \in SUBSET Rows : \E K \in SUBSET (1..c) :
                        Cardinality(K) = Cardinality(R) /\ Det(m)[R][K] # 0}
           sizes == {Cardinality(R) : R \in minors}
<1>12. Rank(m, c) = Max(sizes)
  BY DEF Rank
<1>13. r \in sizes
  BY <1>10, <1>11 DEF Chosen
<1>14. \A n \in sizes : n \in Nat /\ n <= r
  <2> SUFFICES ASSUME NEW R \in SUBSET Rows, NEW K \in SUBSET (1..c),
                      Cardinality(K) = Cardinality(R), Det(m)[R][K] # 0
               PROVE  Cardinality(R) \in Nat /\ Cardinality(R) <= r
    OBVIOUS
  <2>1. Cardinality(R) \in Nat
    BY RowsCounted
  <2>2. ~(Cardinality(K) > r)
    BY <1>10 DEF Beyond
  <2> QED
    BY <1>10, <2>1, <2>2
<1> HIDE DEF sizes, r
<1>15. Max(sizes) \in sizes /\ \A n \in sizes : Max(sizes) >= n
  <2>1. \E x \in sizes : \A y \in sizes : x >= y
    BY <1>10, <1>13, <1>14
  <2> QED
    BY <2>1 DEF Max
<1>16. Max(sizes) = r
  <2>1. Max(sizes) \in Nat /\ Max(sizes) <= r /\ Max(sizes) >= r
    BY <1>13, <1>14, <1>15
  <2> QED
    BY <1>10, <2>1
<1> QED
  BY <1>5, <1>12, <1>16 DEF r

\* The rank is full just when the determinant is not 0.
LEMMA FullRank ==
  ASSUME NEW m \in Matrices, Tested(m)
  PROVE  RankAfter(m, N) = N <=> Det(m)[Rows][Rows] # 0
<1> DEFINE sizes == {Cardinality(R) : R \in {R \in SUBSET Rows :
                       \E K \in SUBSET (1..N) : Cardinality(K) = Cardinality(R) /\ Det(m)[R][K] # 0}}
<1>1. IsFiniteSet(Rows) /\ Cardinality(Rows) = N /\ Rows = 1..N /\ N \in 0..N
  BY NTyped, FS_Interval DEF Rows
<1>2. \A R \in SUBSET Rows : /\ Cardinality(R) \in Nat /\ Cardinality(R) <= N
                             /\ Cardinality(R) = N => R = Rows
  BY <1>1, RowsCounted, FS_Subset
<1>3. RankAfter(m, N) = Max(sizes)
  BY <1>1, RankIsCounted DEF Rank
<1>4. \A n \in sizes : n \in Nat /\ n <= N
  BY <1>2
<1>5. N \in sizes <=> Det(m)[Rows][Rows] # 0
  <2>1. ASSUME N \in sizes PROVE Det(m)[Rows][Rows] # 0
    <3>1. PICK R \in SUBSET Rows, K \in SUBSET (1..N) :
            N = Cardinality(R) /\ Cardinality(K) = Cardinality(R) /\ Det(m)[R][K] # 0
      BY <2>1
    <3>2. R = Rows /\ K = Rows
      BY <1>1, <1>2, <3>1
    <3> QED
      BY <3>1, <3>2
  <2>2. ASSUME Det(m)[Rows][Rows] # 0 PROVE N \in sizes
    <3>1. Rows \in SUBSET Rows /\ Rows \in SUBSET (1..N)
      BY <1>1
    <3> QED
      BY <1>1, <2>2, <3>1
  <2> QED
    BY <2>1, <2>2
<1>6. 0 \in sizes
  <2>1. {} \in SUBSET Rows /\ {} \in SUBSET (1..N) /\ Cardinality({}) = 0
    BY FS_EmptySet
  <2>2. Det(m)[{}][{}] # 0
    BY <2>1, DetNone
  <2> QED
    BY <2>1, <2>2
<1> HIDE DEF sizes
<1>7. \E x \in sizes : \A y \in sizes : x >= y
  <2> DEFINE T == {i \in 0..N : \A n \in sizes : n <= N - i \/ \E x \in sizes : \A y \in sizes : x >= y}
  <2>1. 0 \in T
    BY <1>1, <1>4
  <2>2. ASSUME NEW i \in 0..(N - 1), i \in T PROVE i + 1 \in T
    <3>1. N \in Nat /\ i \in Nat /\ i + 1 \in 0..N
      BY NTyped
    <3>2. CASE N - i \in sizes
      <4>1. \A y \in sizes : N - i >= y \/ \E x \in sizes : \A z \in sizes : x >= z
        BY <1>4, <2>2, <3>1
      <4>2. \E x \in sizes : \A y \in sizes : x >= y
        BY <3>2, <4>1
      <4> QED
        BY <3>1, <4>2
    <3>3. CASE N - i \notin sizes
      <4>1. \A n \in sizes : n # N - i /\ n \in Nat
        BY <1>4, <3>3
      <4> QED
        BY <2>2, <3>1, <4>1
    <3> QED
      BY <3>2, <3>3
  <2>3. N \in T
    <3>1. \A i \in 0..N : i \in T
      <4> HIDE DEF T
      <4> QED
        BY <2>1, <2>2, NTyped, UpTo
    <3> QED
      BY <1>1, <3>1
  <2>4. \A n \in sizes : n <= 0 \/ \E x \in sizes : \A y \in sizes : x >= y
    BY <2>3, NTyped
  <2> QED
    BY <1>4, <1>6, <2>4
<1>8. Max(sizes) \in sizes /\ \A n \in sizes : Max(sizes) >= n
  BY <1>7 DEF Max
<1>9. Max(sizes) = N <=> N \in sizes
  <2>1. Max(sizes) \in Nat /\ Max(sizes) <= N
    BY <1>4, <1>8
  <2> QED
    BY <1>8, <2>1, NTyped
<1> QED
  BY <1>3, <1>5, <1>9

-----------------------------------------------------------------------------
(* Bytes *)

\* The limb and the place in it of a byte.
LEMMA ByteAt ==
  ASSUME NEW i \in Index, NEW k \in 0..(WordBytes - 1)
  PROVE  LET b == i * WordBytes + k
         IN  b \in 0..(BYTES - 1) /\ b \div WordBytes = i /\ b % WordBytes = k
<1>0. /\ WordBytes \in Nat \ {0} /\ BYTES = Limbs * WordBytes /\ Limbs \in Nat
      /\ i \in 0..(Limbs - 1) /\ i \in Int /\ k \in Int /\ WordBytes \in Nat
  BY ByteFacts, WordFacts DEF Index
<1> DEFINE b == i * WordBytes + k
<1>1. b \in 0..(Limbs * WordBytes - 1)
  BY <1>0, Compose
<1>2. b \in Int /\ b = i * WordBytes + k
  BY <1>0
<1> HIDE DEF b
<1>3. b \div WordBytes = i /\ b % WordBytes = k
  BY <1>0, <1>2, DivMod
<1> QED
  BY <1>0, <1>1, <1>3 DEF b

LEMMA ByteOf ==
  ASSUME NEW b \in 0..(BYTES - 1)
  PROVE  /\ b \div WordBytes \in Index /\ b % WordBytes \in 0..(WordBytes - 1)
         /\ b = (b \div WordBytes) * WordBytes + (b % WordBytes)
<1>0. /\ WordBytes \in Nat \ {0} /\ BYTES = Limbs * WordBytes /\ Limbs \in Nat
      /\ b \in Nat /\ BYTES \in Nat
  BY ByteFacts, WordFacts
<1> DEFINE q == b \div WordBytes
           r == b % WordBytes
<1>1. q \in Nat /\ r \in 0..(WordBytes - 1) /\ b = q * WordBytes + r
  BY <1>0, DivNat
<1> HIDE DEF q, r
<1>2. q \in Index
  <2>1. SUFFICES ASSUME q >= Limbs PROVE FALSE
    BY <1>0, <1>1 DEF Index
  <2>2. q * WordBytes >= Limbs * WordBytes /\ q * WordBytes \in Nat
    BY <2>1, <1>0, <1>1
  <2> QED
    BY <2>2, <1>0, <1>1
<1> QED
  BY <1>1, <1>2 DEF q, r

\* Mirrored bytes of the mirrored limb.
LEMMA ByteMirror ==
  ASSUME NEW i \in Index, NEW k \in 0..(WordBytes - 1)
  PROVE  /\ Limbs - 1 - i \in Index /\ WordBytes - 1 - k \in 0..(WordBytes - 1)
         /\ Limbs - 1 - (Limbs - 1 - i) = i
         /\ WordBytes - 1 - (WordBytes - 1 - k) = k
         /\ BYTES - 1 - (i * WordBytes + k) = (Limbs - 1 - i) * WordBytes + (WordBytes - 1 - k)
<1>0. /\ WordBytes \in Nat /\ BYTES = Limbs * WordBytes /\ Limbs \in Nat
      /\ i \in 0..(Limbs - 1) /\ i \in Nat /\ k \in Nat
  BY ByteFacts, WordFacts DEF Index
<1>1. BYTES - 1 - (i * WordBytes + k) = (Limbs - 1 - i) * WordBytes + (WordBytes - 1 - k)
  <2>1. (Limbs - 1 - i) * WordBytes = Limbs * WordBytes - WordBytes - i * WordBytes
    BY <1>0
  <2>2. Limbs * WordBytes \in Nat /\ i * WordBytes \in Nat
    BY <1>0
  <2> QED
    BY <2>1, <2>2, <1>0
<1> QED
  BY <1>0, <1>1 DEF Index

\* to_le_bytes and to_be_bytes.
LEMMA ToBytesFacts ==
  ASSUME NEW x \in Uints, NEW i \in Index, NEW k \in 0..(WordBytes - 1)
  PROVE  LET byte == (x[i] \div 2 ^ (ByteBits * k)) % Byte
         IN  /\ ToLeBytes(x)[i * WordBytes + k] = byte
             /\ ToBeBytes(x)[BYTES - 1 - (i * WordBytes + k)] = byte
<1> DEFINE byte == (x[i] \div 2 ^ (ByteBits * k)) % Byte
           b == i * WordBytes + k
           j == Limbs - 1 - i
           m == WordBytes - 1 - k
           c == j * WordBytes + m
<1>1. b \in 0..(BYTES - 1) /\ b \div WordBytes = i /\ b % WordBytes = k
  BY ByteAt
<1>2. j \in Index /\ m \in 0..(WordBytes - 1) /\ Limbs - 1 - j = i /\ WordBytes - 1 - m = k
      /\ BYTES - 1 - b = c
  BY ByteMirror
<1> HIDE DEF j, m
<1>3. c \in 0..(BYTES - 1) /\ c \div WordBytes = j /\ c % WordBytes = m
  BY <1>2, ByteAt
<1>4. WordToLe(x[i])[k] = byte
  BY DEF WordToLe
<1> HIDE DEF b, c, byte
<1>5. ToLeBytes(x)[b] = WordToLe(x[i])[k]
  BY <1>1 DEF ToLeBytes
<1>6. ToBeBytes(x)[c] = Mirror(WordToLe(x[Limbs - 1 - j]))[m]
  BY <1>3 DEF ToBeBytes
<1>7. Mirror(WordToLe(x[i]))[m] = WordToLe(x[i])[k]
  BY <1>2 DEF Mirror
<1> QED
  BY <1>2, <1>4, <1>5, <1>6, <1>7 DEF b, byte

\* A byte of a limb is one of the number.
LEMMA NumberByte ==
  ASSUME NEW x \in Uints, NEW i \in Index, NEW k \in 0..(WordBytes - 1)
  PROVE  (Value(x) \div 2 ^ (ByteBits * (i * WordBytes + k))) % Byte
           = (x[i] \div 2 ^ (ByteBits * k)) % Byte
<1>0. /\ ByteBits \in Nat /\ WordBytes \in Nat /\ WordBits = ByteBits * WordBytes
      /\ WordBits \in Nat /\ Word = 2 ^ WordBits /\ Word \in Nat /\ Byte = 2 ^ ByteBits
      /\ i \in Nat /\ k \in Nat
  BY ByteFacts, WordFacts DEF Index
<1> DEFINE n == ByteBits * k
           p == 2 ^ (WordBits * i)
           t == 2 ^ n
           low == Sums(Limbs, WordBits, x)[i]
           D == Value(Down(Limbs, x, i + 1))
           d == x[i]
           X == Value(x)
           h == D * Word + d
<1>1. /\ p \in Nat \ {0} /\ low \in 0..(p - 1) /\ d \in 0..(Word - 1) /\ D \in Nat
      /\ X = low + d * p + D * (Word * p)
  BY Limb
<1>2. X \in Nat
  BY UintFacts, WordFacts
<1> HIDE DEF d, D, X, low
<1>3. n \in Nat /\ n + ByteBits <= WordBits /\ ByteBits * (i * WordBytes + k) = n + WordBits * i
      /\ WordBits * i \in Nat
  <2>1. ByteBits * (i * WordBytes + k) = ByteBits * k + (ByteBits * WordBytes) * i
    BY <1>0
  <2>2. ByteBits * k + ByteBits <= ByteBits * WordBytes
    <3>1. k < WordBytes
      BY <1>0
    <3>2. k * ByteBits + ByteBits <= WordBytes * ByteBits
      BY <3>1, <1>0, PrefixBound
    <3> QED
      BY <3>2, <1>0
  <2> QED
    BY <2>1, <2>2, <1>0
<1> HIDE DEF n
<1>4. t \in Nat \ {0} /\ 2 ^ (n + WordBits * i) = t * p
  BY <1>3, TwoAdd, TwoPos
<1>5. ((D * 2 ^ WordBits + d) \div 2 ^ n) % 2 ^ ByteBits = (d \div 2 ^ n) % 2 ^ ByteBits
  <2>1. d \in Nat
    BY <1>0, <1>1
  <2> QED
    BY <2>1, <1>0, <1>1, <1>3, DigitLow
<1>6. (h \div t) % Byte = (d \div t) % Byte
  BY <1>0, <1>5, Zenon
<1> HIDE DEF p, t
<1>7. h \in Nat /\ X = h * p + low
  <2>1. low + d * p + D * (Word * p) = (D * Word + d) * p + low
    BY <1>0, <1>1
  <2>2. D * Word \in Nat
    BY <1>0, <1>1
  <2> QED
    BY <2>1, <2>2, <1>1
<1> HIDE DEF h
<1>8. X \div p = h
  BY <1>1, <1>2, <1>7, DivMod
<1>9. (X \div p) \div t = X \div (t * p)
  BY <1>1, <1>2, <1>4, DivTwice
<1>10. X \div 2 ^ (ByteBits * (i * WordBytes + k)) = h \div t
  BY <1>3, <1>4, <1>8, <1>9
<1> QED
  BY <1>6, <1>10, Zenon DEF X, d, t, n

\* A word is read back from its bytes.
LEMMA WordBack ==
  ASSUME NEW w \in Words, NEW bytes, bytes = WordToLe(w)
  PROVE  WordFromLe(bytes) = w
<1>0. /\ ByteBits \in Nat /\ WordBytes \in Nat /\ WordBits = ByteBits * WordBytes
      /\ Word = 2 ^ WordBits /\ Byte = 2 ^ ByteBits /\ Byte \in Nat \ {0} /\ Word \in Nat
  BY ByteFacts, WordFacts
<1>1. w \in 0..(2 ^ (ByteBits * WordBytes) - 1) /\ w \in Nat
  BY <1>0 DEF Words
<1>2. \A k \in 0..(WordBytes - 1) :
        bytes[k] = (w \div 2 ^ (ByteBits * k)) % 2 ^ ByteBits
  BY <1>0 DEF WordToLe
<1>3. bytes \in Digits(WordBytes)
  <2>1. \A k \in 0..(WordBytes - 1) : (w \div 2 ^ (ByteBits * k)) % Byte \in Nat
    <3> TAKE k \in 0..(WordBytes - 1)
    <3> DEFINE p == 2 ^ (ByteBits * k)
               q == w \div p
    <3>1. p \in Nat \ {0}
      <4>1. k \in Nat
        OBVIOUS
      <4> QED
        BY <4>1, <1>0, Place
    <3>2. q \in Nat
      BY <3>1, <1>1, DivNat
    <3> HIDE DEF q
    <3>3. q % Byte \in 0..(Byte - 1)
      BY <3>2, <1>0, DivNat
    <3>4. q % Byte \in Nat
      BY <3>3, <1>0
    <3> QED
      BY <3>4 DEF q
  <2> QED
    BY <2>1 DEF WordToLe, Digits
<1>4. IsDigits(WordBytes, ByteBits, w, bytes)
  BY <1>2 DEF IsDigits
<1>5. Number(WordBytes, ByteBits, bytes) = w
  BY <1>0, <1>1, <1>3, <1>4, Expansion
<1> QED
  BY <1>5 DEF WordFromLe

\* from_le_bytes and from_be_bytes read what to_le_bytes and to_be_bytes wrote.
LEMMA FromBytesFacts ==
  ASSUME NEW x \in Uints
  PROVE  FromLeBytes(ToLeBytes(x)) = x /\ FromBeBytes(ToBeBytes(x)) = x
<1>0. x \in [Index -> Words]
  BY DEF Uints
<1>1. \A i \in Index : WordFromLe(Chunk(ToLeBytes(x), i)) = x[i]
  <2> TAKE i \in Index
  <2>1. \A k \in 0..(WordBytes - 1) :
          ToLeBytes(x)[i * WordBytes + k] = (x[i] \div 2 ^ (ByteBits * k)) % Byte
    BY ToBytesFacts
  <2>2. Chunk(ToLeBytes(x), i) = WordToLe(x[i])
    BY <2>1 DEF Chunk, WordToLe
  <2>3. x[i] \in Words
    BY <1>0
  <2> QED
    BY <2>2, <2>3, WordBack
<1>2. \A i \in Index : WordFromLe(Mirror(Chunk(ToBeBytes(x), Limbs - 1 - i))) = x[i]
  <2> TAKE i \in Index
  <2> DEFINE j == Limbs - 1 - i
             chunk == Chunk(ToBeBytes(x), j)
  <2>1. ASSUME NEW k \in 0..(WordBytes - 1)
        PROVE  chunk[WordBytes - 1 - k] = (x[i] \div 2 ^ (ByteBits * k)) % Byte
    <3> DEFINE m == WordBytes - 1 - k
    <3>1. m \in 0..(WordBytes - 1)
          /\ BYTES - 1 - (i * WordBytes + k) = j * WordBytes + m
      BY ByteMirror
    <3> HIDE DEF m, j
    <3>2. chunk[m] = ToBeBytes(x)[j * WordBytes + m]
      BY <3>1 DEF Chunk
    <3>3. ToBeBytes(x)[BYTES - 1 - (i * WordBytes + k)]
            = (x[i] \div 2 ^ (ByteBits * k)) % Byte
      BY ToBytesFacts
    <3> QED
      BY <3>1, <3>2, <3>3 DEF m
  <2> HIDE DEF chunk
  <2>2. Mirror(chunk) = WordToLe(x[i])
    BY <2>1 DEF Mirror, WordToLe
  <2>3. x[i] \in Words
    BY <1>0
  <2>4. WordFromLe(Mirror(chunk)) = x[i]
    BY <2>2, <2>3, WordBack
  <2> QED
    BY <2>4 DEF chunk, j
<1>3. FromLeBytes(ToLeBytes(x)) = x
  BY <1>0, <1>1 DEF FromLeBytes
<1>4. FromBeBytes(ToBeBytes(x)) = x
  BY <1>0, <1>2 DEF FromBeBytes
<1> QED
  BY <1>3, <1>4

-----------------------------------------------------------------------------
(* mod_inverse *)

\* What the numbers of mod_inverse's loop keep: r and n are what the algorithm
\* of Euclid has come to, t and s are the sizes of the factors T and S.
Coprime(X, P, t, s, T, S, r, n) ==
  /\ s * r + t * n = P
  /\ \E z \in Int : T * X = r + z * P
  /\ \E z \in Int : S * X = n + z * P
  /\ \E c, d \in Nat : X = c * r + d * n
  /\ r > 0 /\ t < P /\ (n > 0 => r >= 2)

LEMMA CoprimeFirst ==
  ASSUME NEW X \in Nat, NEW P \in Nat, P >= 2
  PROVE  Coprime(X, P, 0, 1, 0, 1, P, X)
<1> DEFINE zero == 0
           one == 1
           minus == -1
<1>1. /\ one * P + zero * X = P /\ zero * X = P + minus * P
      /\ one * X = X + zero * P /\ X = zero * P + one * X
      /\ zero \in Nat /\ one \in Nat /\ minus \in Int /\ zero \in Int /\ zero < P
  OBVIOUS
<1> HIDE DEF zero, one, minus
<1>2. \E z \in Int : zero * X = P + z * P
  BY <1>1, Zenon
<1>3. \E z \in Int : one * X = X + z * P
  BY <1>1, Zenon
<1>4. \E c, d \in Nat : X = c * P + d * X
  BY <1>1, Zenon
<1>5. P > 0
  OBVIOUS
<1>6. Coprime(X, P, zero, one, zero, one, P, X)
  BY <1>1, <1>2, <1>3, <1>4, <1>5, Zenon DEF Coprime
<1> QED
  BY <1>6 DEF zero, one

LEMMA CoprimeNext ==
  ASSUME NEW X \in Nat, NEW P \in Nat, P >= 2, NEW t \in Nat, NEW s \in Nat,
         NEW T \in Int, NEW S \in Int, NEW r \in Nat, NEW n \in Nat, n > 0,
         Coprime(X, P, t, s, T, S, r, n), NEW q \in Nat, NEW m \in Nat,
         r = q * n + m, m < n
  PROVE  /\ Coprime(X, P, s, t + q * s, S, T - q * S, n, m)
         /\ t + q * s <= P /\ q * s <= P
<1> DEFINE v == t + q * s
           V == T - q * S
<1>1. s * r + t * n = P /\ r >= 2
  BY DEF Coprime
<1>2. v \in Nat /\ V \in Int /\ q * s \in Nat
  OBVIOUS
<1>3. v * n + s * m = P
  <2>1. v * n + s * m = t * n + s * (q * n + m)
    OBVIOUS
  <2> QED
    BY <2>1, <1>1
<1>4. \E z \in Int : S * X = n + z * P
  BY DEF Coprime
<1>5. \E z \in Int : V * X = m + z * P
  <2>1. PICK a \in Int : T * X = r + a * P
    BY DEF Coprime
  <2>2. PICK b \in Int : S * X = n + b * P
    BY DEF Coprime
  <2>3. V * X = T * X - q * (S * X)
    OBVIOUS
  <2>4. V * X = (q * n + m) + a * P - q * (n + b * P)
    BY <2>1, <2>2, <2>3
  <2>5. (q * n + m) + a * P - q * (n + b * P) = m + (a - q * b) * P
    OBVIOUS
  <2>6. a - q * b \in Int
    OBVIOUS
  <2> QED
    BY <2>4, <2>5, <2>6
<1>6. \E c, d \in Nat : X = c * n + d * m
  <2>1. PICK c, d \in Nat : X = c * r + d * n
    BY DEF Coprime
  <2>2. X = c * (q * n + m) + d * n
    BY <2>1
  <2>3. c * (q * n + m) + d * n = (c * q + d) * n + c * m
    OBVIOUS
  <2>4. c * q + d \in Nat
    OBVIOUS
  <2> QED
    BY <2>2, <2>3, <2>4
<1>7. s < P
  <2>1. s * r >= s * 2
    BY <1>1
  <2>2. t * n \in Nat /\ s * r \in Nat
    OBVIOUS
  <2> QED
    BY <2>1, <2>2, <1>1
<1>8. v <= P
  <2>1. v * n >= v
    <3> HIDE DEF v
    <3> QED
      BY <1>2
  <2>2. v * n \in Nat /\ s * m \in Nat
    BY <1>2
  <2> HIDE DEF v
  <2> QED
    BY <2>1, <2>2, <1>2, <1>3
<1>9. m > 0 => n >= 2
  OBVIOUS
<1>10. Coprime(X, P, s, v, S, V, n, m)
  <2> HIDE DEF v, V
  <2> QED
    BY <1>3, <1>4, <1>5, <1>6, <1>7, <1>9 DEF Coprime
<1> QED
  BY <1>2, <1>8, <1>10

\* When nothing is left, r tells whether there is an inverse.
LEMMA CoprimeNone ==
  ASSUME NEW X \in Nat, NEW P \in Nat, P >= 2, NEW t \in Nat, NEW s \in Nat,
         NEW T \in Int, NEW S \in Int, NEW r \in Nat, r # 1,
         Coprime(X, P, t, s, T, S, r, 0), NEW k \in Nat
  PROVE  (X * k) % P # 1
<1>1. P = s * r /\ r >= 2
  BY DEF Coprime
<1>2. PICK c, d \in Nat : X = c * r + d * 0
  BY DEF Coprime
<1>3. SUFFICES ASSUME (X * k) % P = 1 PROVE FALSE
  OBVIOUS
<1> DEFINE n == X * k
           u == n \div P
<1>4. n \in Nat /\ P \in Nat \ {0}
  OBVIOUS
<1>5. n % P = 1
  BY <1>3
<1>6. n = c * r * k
  BY <1>2
<1> HIDE DEF n
<1>7. u \in Nat /\ n = u * P + 1
  BY <1>4, <1>5, DivNat
<1> HIDE DEF u
<1> DEFINE w == c * k - u * s
<1>8. r * w = 1 /\ w \in Int
  <2>1. r * w = c * r * k - u * (s * r)
    BY <1>7
  <2>2. c * r * k - u * P = 1
    <3> DEFINE a == c * r * k
               b == u * P
    <3>1. a \in Int /\ b \in Int
      BY <1>7
    <3>2. n = a /\ n = b + 1
      BY <1>6, <1>7
    <3> HIDE DEF a, b
    <3>3. a - b = 1
      BY <3>1, <3>2
    <3> QED
      BY <3>3 DEF a, b
  <2>3. w \in Int
    BY <1>7
  <2> QED
    BY <2>1, <2>2, <2>3, <1>1
<1> HIDE DEF w
<1>9. CASE w >= 1
  <2>1. r * w >= r
    BY <1>8, <1>9
  <2> QED
    BY <2>1, <1>1, <1>8
<1>10. CASE w <= 0
  <2>1. r * w <= 0
    BY <1>8, <1>10
  <2> QED
    BY <2>1, <1>8
<1> QED
  BY <1>8, <1>9, <1>10

LEMMA CoprimeInverse ==
  ASSUME NEW X \in Nat, NEW P \in Nat, P >= 2, NEW T \in Int, NEW z \in Int,
         T * X = 1 + z * P, NEW v \in Int, v = T \/ v = P + T
  PROVE  ((X % P) * v) % P = 1
<1> DEFINE u == X \div P
           e == X % P
<1>1. u \in Nat /\ e \in Nat /\ X = u * P + e /\ P \in Nat \ {0}
  BY DivNat
<1> HIDE DEF u, e
<1>2. PICK y \in Int : v * X = 1 + y * P
  <2>1. CASE v = T
    BY <2>1
  <2>2. CASE v = P + T
    <3>1. v * X = P * X + T * X
      BY <2>2
    <3>2. v * X = 1 + (X + z) * P /\ X + z \in Int
      BY <3>1
    <3> QED
      BY <3>2
  <2> QED
    BY <2>1, <2>2
<1> DEFINE n == e * v
           a == y - u * v
           one == 1
<1>3. n = a * P + 1
  <2>1. v * (u * P + e) = 1 + y * P
    BY <1>1, <1>2
  <2>2. v * (u * P + e) = (u * v) * P + e * v
    BY <1>1
  <2> DEFINE b == u * v
  <2>3. b \in Int /\ n \in Int
    BY <1>1
  <2>4. b * P + n = 1 + y * P
    BY <2>1, <2>2
  <2> HIDE DEF n, b
  <2>5. n = (y - b) * P + 1
    BY <2>3, <2>4
  <2> QED
    BY <2>5 DEF b
<1>4. n \in Int /\ a \in Int /\ one \in 0..(P - 1) /\ n = a * P + one /\ P \in Nat \ {0}
  BY <1>1, <1>3
<1> HIDE DEF n, a, one
<1>5. n % P = one
  BY <1>4, DivMod
<1> QED
  BY <1>5 DEF n, one, e

\* The number that a SignedInteger stands for.
Magnitude(a) == Value(a.abs)
Whole(a) == IF a.negative THEN -Magnitude(a) ELSE Magnitude(a)

LEMMA SignedFacts ==
  ASSUME NEW a \in Signeds
  PROVE  /\ a.abs \in Uints /\ a.negative \in BOOLEAN
         /\ Magnitude(a) \in Nat /\ Magnitude(a) \in 0..(Size - 1) /\ Whole(a) \in Int
         /\ a.negative => Whole(a) = -Magnitude(a)
         /\ ~a.negative => Whole(a) = Magnitude(a)
<1>1. a.abs \in Uints /\ a.negative \in BOOLEAN
  BY DEF Signeds
<1>2. Value(a.abs) \in 0..(Size - 1) /\ Size \in Nat
  BY <1>1, UintFacts, WordFacts
<1> DEFINE v == Magnitude(a)
<1>3. v \in 0..(Size - 1) /\ Size \in Nat
  BY <1>2 DEF Magnitude
<1> HIDE DEF v
<1>4. v \in Nat /\ -v \in Int
  BY <1>3
<1> QED
  BY <1>1, <1>3, <1>4 DEF Whole, v

LEMMA SignedMake ==
  ASSUME NEW x \in Uints, NEW b \in BOOLEAN
  PROVE  /\ Signed(x, b) \in Signeds /\ Magnitude(Signed(x, b)) = Value(x)
         /\ Signed(x, b).negative = b /\ Signed(x, b).abs = x
  BY DEF Signed, Signeds, Magnitude

\* An addition that fits is exact.
LEMMA AddExact ==
  ASSUME NEW x \in Uints, NEW y \in Uints, Value(x) + Value(y) < Size
  PROVE  /\ OverflowingAdd(x, y).val \in Uints
         /\ Value(OverflowingAdd(x, y).val) = Value(x) + Value(y)
<1> DEFINE r == OverflowingAdd(x, y)
           v == Value(r.val)
           c == r.carry
           X == Value(x)
           Y == Value(y)
<1>1. r.val \in Uints /\ c \in {0, 1} /\ v + c * Size = X + Y
  BY AddFacts
<1>2. v \in 0..(Size - 1) /\ X \in 0..(Size - 1) /\ Y \in 0..(Size - 1) /\ X + Y < Size /\ Size \in Nat
  BY <1>1, UintFacts, WordFacts
<1> HIDE DEF r, v, c, X, Y
<1>3. v = X + Y
  <2>1. CASE c = 0
    BY <2>1, <1>1, <1>2
  <2>2. CASE c = 1
    BY <2>2, <1>1, <1>2
  <2> QED
    BY <2>1, <2>2, <1>1
<1> QED
  BY <1>1, <1>3 DEF r, v, X, Y

\* A product that fits is exact.
LEMMA MulExact ==
  ASSUME NEW x \in Uints, NEW y \in Uints, Value(x) * Value(y) < Size
  PROVE  /\ OverflowingMul(x, y).val \in Uints
         /\ Value(OverflowingMul(x, y).val) = Value(x) * Value(y)
<1> DEFINE r == OverflowingMul(x, y)
           v == Value(r.val)
           p == Value(x) * Value(y)
<1>1. r.val \in Uints /\ \E q \in Nat : p = v + q * Size
  BY MulFacts
<1>2. PICK q \in Nat : p = v + q * Size
  BY <1>1
<1>3. v \in 0..(Size - 1) /\ p \in Nat /\ p < Size /\ Size \in Nat
  <2>1. Value(x) \in Nat /\ Value(y) \in Nat
    BY UintFacts, WordFacts
  <2>2. p \in Nat
    BY <2>1
  <2> QED
    BY <2>2, <1>1, UintFacts, WordFacts
<1> HIDE DEF r, v, p
<1>4. q = 0
  <2>1. SUFFICES ASSUME q >= 1 PROVE FALSE
    OBVIOUS
  <2>2. q * Size >= Size
    BY <2>1, <1>3
  <2> QED
    BY <2>2, <1>2, <1>3
<1>5. v = p
  BY <1>2, <1>3, <1>4
<1> QED
  BY <1>1, <1>5 DEF r, v, p

\* SignedInteger's operators stay within their type.
LEMMA SignedTyped ==
  ASSUME NEW a \in Signeds, NEW b \in Signeds
  PROVE  /\ SignedSub(a, b) \in Signeds /\ SignedMul(a, b) \in Signeds
         /\ Magnitude(b) > 0 => SignedDiv(a, b) \in Signeds
<1> DEFINE x == a.abs
           y == b.abs
<1>1. x \in Uints /\ y \in Uints /\ a.negative \in BOOLEAN
  BY DEF Signeds
<1> HIDE DEF x, y
<1>2. /\ OverflowingSub(x, y).val \in Uints /\ OverflowingSub(y, x).val \in Uints
      /\ OverflowingAdd(x, y).val \in Uints /\ OverflowingMul(x, y).val \in Uints
  BY <1>1, SubFacts, AddFacts, MulFacts
<1>3. Value(y) > 0 => DivRem(x, y).quo \in Uints
  BY <1>1, DivRemFacts
<1>4. \A z \in Uints, c \in BOOLEAN : Signed(z, c) \in Signeds
  BY SignedMake
<1>5. (a.negative # b.negative) \in BOOLEAN /\ (~a.negative) \in BOOLEAN
  OBVIOUS
<1>6. SignedSub(a, b) \in Signeds
  BY <1>1, <1>2, <1>4, <1>5 DEF SignedSub, x, y
<1>7. SignedMul(a, b) \in Signeds
  BY <1>1, <1>2, <1>4, <1>5 DEF SignedMul, x, y
<1>8. ASSUME Magnitude(b) > 0 PROVE SignedDiv(a, b) \in Signeds
  <2>1. Value(y) > 0
    BY <1>8 DEF Magnitude, y
  <2> QED
    BY <2>1, <1>3, <1>4, <1>5 DEF SignedDiv, x, y
<1> QED
  BY <1>6, <1>7, <1>8

\* Differences that fit are exact; they are sums of sizes if the signs differ
\* or a side is 0.
LEMMA SignedSubFacts ==
  ASSUME NEW a \in Signeds, NEW b \in Signeds,
         a.negative = b.negative \/ Magnitude(a) + Magnitude(b) < Size
  PROVE  LET c == SignedSub(a, b)
         IN  /\ c \in Signeds /\ Whole(c) = Whole(a) - Whole(b)
             /\ a.negative # b.negative => c.negative = a.negative
             /\ a.negative # b.negative \/ Magnitude(a) = 0 \/ Magnitude(b) = 0
                  => Magnitude(c) = Magnitude(a) + Magnitude(b)
             /\ a.negative = b.negative /\ Magnitude(a) = 0 =>
                  c.negative # a.negative \/ Magnitude(c) = 0
             /\ a.negative = b.negative /\ Magnitude(b) <= Magnitude(a) =>
                  c.negative = a.negative /\ Magnitude(c) = Magnitude(a) - Magnitude(b)
<1> DEFINE c == SignedSub(a, b)
           A == Magnitude(a)
           B == Magnitude(b)
           D == Magnitude(c)
<1>1. /\ a.abs \in Uints /\ b.abs \in Uints /\ a.negative \in BOOLEAN /\ b.negative \in BOOLEAN
      /\ A \in Nat /\ B \in Nat /\ Whole(a) \in Int /\ Whole(b) \in Int /\ c \in Signeds
      /\ D \in Nat /\ c.negative \in BOOLEAN
  BY SignedTyped, SignedFacts
<1>2. /\ a.negative => Whole(a) = -A
      /\ ~a.negative => Whole(a) = A
      /\ b.negative => Whole(b) = -B
      /\ ~b.negative => Whole(b) = B
      /\ c.negative => Whole(c) = -D
      /\ ~c.negative => Whole(c) = D
  BY <1>1, SignedFacts
<1>3. CASE a.negative = b.negative /\ Less(a.abs, b.abs)
  <2>1. c = Signed(OverflowingSub(b.abs, a.abs).val, ~a.negative)
    BY <1>3 DEF SignedSub
  <2>2. A < B
    BY <1>1, <1>3, LessFacts DEF Magnitude
  <2>3. /\ OverflowingSub(b.abs, a.abs).val \in Uints
        /\ Value(OverflowingSub(b.abs, a.abs).val) = B - A
    <3>1. Value(a.abs) <= Value(b.abs)
      BY <2>2, <1>1 DEF Magnitude
    <3> QED
      BY <3>1, <1>1, SubExact DEF Magnitude
  <2>4. D = B - A /\ c.negative = ~a.negative
    BY <2>1, <2>3, <1>1, SignedMake
  <2> HIDE DEF A, B, D, c
  <2>5. Whole(c) = Whole(a) - Whole(b)
    <3>1. CASE a.negative
      <4>1. Whole(a) = -A /\ Whole(b) = -B /\ Whole(c) = D
        BY <3>1, <2>4, <1>2, <1>3, Zenon
      <4> QED
        BY <4>1, <2>4, <1>1
    <3>2. CASE ~a.negative
      <4>1. Whole(a) = A /\ Whole(b) = B /\ Whole(c) = -D
        BY <3>2, <2>4, <1>2, <1>3, Zenon
      <4> QED
        BY <4>1, <2>4, <1>1
    <3> QED
      BY <3>1, <3>2
  <2>6. (A = 0 \/ B = 0 => D = A + B) /\ ~ (B <= A)
    BY <2>2, <2>4, <1>1
  <2>7. c.negative # a.negative
    BY <2>4, <1>1
  <2> QED
    BY <2>5, <2>6, <2>7, <1>1, <1>3 DEF A, B, D, c
<1>4. CASE a.negative = b.negative /\ ~Less(a.abs, b.abs)
  <2>1. c = Signed(OverflowingSub(a.abs, b.abs).val, a.negative)
    BY <1>4 DEF SignedSub
  <2>2. B <= A
    <3>1. ~ (Value(a.abs) < Value(b.abs))
      BY <1>1, <1>4, LessIff
    <3> QED
      BY <3>1, <1>1 DEF Magnitude
  <2>3. /\ OverflowingSub(a.abs, b.abs).val \in Uints
        /\ Value(OverflowingSub(a.abs, b.abs).val) = A - B
    <3>1. Value(b.abs) <= Value(a.abs)
      BY <2>2, <1>1 DEF Magnitude
    <3> QED
      BY <3>1, <1>1, SubExact DEF Magnitude
  <2>4. D = A - B /\ c.negative = a.negative
    BY <2>1, <2>3, <1>1, SignedMake
  <2> HIDE DEF A, B, D, c
  <2> QED
    BY <2>2, <2>4, <1>1, <1>2, <1>4 DEF A, B, D, c
<1>5. CASE a.negative # b.negative
  <2>1. c = Signed(OverflowingAdd(a.abs, b.abs).val, a.negative)
    BY <1>5 DEF SignedSub
  <2>2. /\ OverflowingAdd(a.abs, b.abs).val \in Uints
        /\ Value(OverflowingAdd(a.abs, b.abs).val) = A + B
    BY <1>1, <1>5, AddExact DEF Magnitude
  <2>3. D = A + B /\ c.negative = a.negative
    BY <2>1, <2>2, <1>1, SignedMake
  <2> HIDE DEF A, B, D, c
  <2> QED
    BY <2>3, <1>1, <1>2, <1>5 DEF A, B, D, c
<1> QED
  BY <1>3, <1>4, <1>5

\* A factor that is not negative leaves the sign.
LEMMA SignedMulFacts ==
  ASSUME NEW a \in Signeds, NEW b \in Signeds, ~a.negative, Magnitude(a) * Magnitude(b) < Size
  PROVE  LET c == SignedMul(a, b)
         IN  /\ c \in Signeds /\ Magnitude(c) = Magnitude(a) * Magnitude(b)
             /\ Whole(c) = Magnitude(a) * Whole(b) /\ c.negative = b.negative
<1> DEFINE c == SignedMul(a, b)
           A == Magnitude(a)
           B == Magnitude(b)
           D == Magnitude(c)
<1>1. /\ a.abs \in Uints /\ b.abs \in Uints /\ a.negative \in BOOLEAN /\ b.negative \in BOOLEAN
      /\ A \in Nat /\ B \in Nat /\ Whole(b) \in Int /\ c \in Signeds
  BY SignedTyped, SignedFacts
<1>2. /\ OverflowingMul(a.abs, b.abs).val \in Uints
      /\ Value(OverflowingMul(a.abs, b.abs).val) = A * B
  BY <1>1, MulExact DEF Magnitude
<1>3. c = Signed(OverflowingMul(a.abs, b.abs).val, a.negative # b.negative)
  BY DEF SignedMul
<1>4. (a.negative # b.negative) = b.negative
  BY <1>1
<1>5. D = A * B /\ c.negative = b.negative
  BY <1>1, <1>2, <1>3, <1>4, SignedMake
<1>6. Whole(c) = A * Whole(b)
  <2>1. /\ b.negative => Whole(b) = -B
        /\ ~b.negative => Whole(b) = B
        /\ b.negative => Whole(c) = -D
        /\ ~b.negative => Whole(c) = D
    BY <1>1, <1>5, SignedFacts
  <2> HIDE DEF A, B, D, c
  <2>2. A * (-B) = -(A * B)
    BY <1>1
  <2> QED
    BY <2>1, <2>2, <1>1, <1>5
<1> QED
  BY <1>1, <1>5, <1>6

\* mod_inverse's loop, for a number X and a modulus P: r and newr are never
\* negative, and t and newt never have the same sign.
Going(X, P, st) ==
  /\ st \in EuclidStates
  /\ ~st.r.negative /\ ~st.newr.negative
  /\ st.t.negative # st.newt.negative \/ Magnitude(st.t) = 0 \/ Magnitude(st.newt) = 0
  /\ Coprime(X, P, Magnitude(st.t), Magnitude(st.newt), Whole(st.t), Whole(st.newt),
             Magnitude(st.r), Magnitude(st.newr))

\* One turn of it: the numbers stay below the modulus, so that nothing overflows.
LEMMA EuclidRoundFacts ==
  ASSUME NEW X \in Nat, NEW P \in Nat, P >= 2, P < Size, NEW st, Going(X, P, st),
         Magnitude(st.newr) > 0
  PROVE  LET e == EuclidRound(st)
         IN  /\ Going(X, P, e) /\ Magnitude(e.r) = Magnitude(st.newr)
             /\ Magnitude(e.newr) < Magnitude(st.newr)
             /\ \E q \in Nat : Magnitude(st.r) = q * Magnitude(st.newr) + Magnitude(e.newr)
<1> DEFINE e == EuclidRound(st)
           Q == SignedDiv(st.r, st.newr)
           q == Magnitude(Q)
           t == Magnitude(st.t)
           s == Magnitude(st.newt)
           r == Magnitude(st.r)
           n == Magnitude(st.newr)
           T == Whole(st.t)
           S == Whole(st.newt)
           m == Value(DivRem(st.r.abs, st.newr.abs).rem)
           N1 == SignedSub(st.t, SignedMul(Q, st.newt))
           N2 == SignedSub(st.r, SignedMul(Q, st.newr))
<1>1. /\ st.t \in Signeds /\ st.newt \in Signeds /\ st.r \in Signeds /\ st.newr \in Signeds
      /\ ~st.r.negative /\ ~st.newr.negative
      /\ st.t.negative # st.newt.negative \/ t = 0 \/ s = 0
      /\ Coprime(X, P, t, s, T, S, r, n) /\ n > 0
  BY DEF Going, EuclidStates
<1>2. /\ t \in Nat /\ s \in Nat /\ T \in Int /\ S \in Int /\ n \in Nat
      /\ r \in 0..(Size - 1) /\ r \in Nat /\ Size \in Nat
      /\ st.r.abs \in Uints /\ st.newr.abs \in Uints
      /\ st.t.negative \in BOOLEAN /\ st.newt.negative \in BOOLEAN
  BY <1>1, SignedFacts, WordFacts
<1>3. /\ Q \in Signeds /\ ~Q.negative /\ q \in Nat /\ m \in Nat /\ r = q * n + m /\ m < n
  <2> DEFINE d == DivRem(st.r.abs, st.newr.abs)
  <2>1. /\ d.quo \in Uints /\ d.rem \in Uints
        /\ Value(st.r.abs) = Value(d.quo) * Value(st.newr.abs) + Value(d.rem)
        /\ Value(d.rem) < Value(st.newr.abs)
    <3>1. Value(st.newr.abs) > 0
      BY <1>1 DEF Magnitude
    <3> QED
      BY <3>1, <1>2, DivRemFacts
  <2>2. Q = Signed(d.quo, FALSE)
    <3>1. (st.r.negative # st.newr.negative) = FALSE
      <4>1. st.r.negative = FALSE /\ st.newr.negative = FALSE
        BY <1>1, SignedFacts
      <4> QED
        BY <4>1
    <3> QED
      BY <3>1 DEF SignedDiv
  <2>3. Q \in Signeds /\ Magnitude(Q) = Value(d.quo) /\ Q.negative = FALSE
    BY <2>1, <2>2, SignedMake
  <2>4. q \in Nat /\ m \in Nat
    BY <2>1, <2>3, SignedFacts, UintFacts, WordFacts
  <2> QED
    BY <2>1, <2>3, <2>4 DEF Magnitude
<1>4. e = [t |-> st.newt, newt |-> N1, r |-> st.newr, newr |-> N2]
  BY DEF EuclidRound
<1> HIDE DEF q, t, s, r, n, T, S, m, Q
<1>5. /\ Coprime(X, P, s, t + q * s, S, T - q * S, n, m)
      /\ t + q * s <= P /\ q * s <= P
  BY <1>1, <1>2, <1>3, CoprimeNext, ZenonT(60)
<1>6. q * s \in Nat /\ q * n \in Nat /\ q * n <= r /\ q * s < Size /\ q * n < Size
      /\ t + q * s < Size
  <2>1. q * s \in Nat /\ q * n \in Nat
    BY <1>2, <1>3
  <2> DEFINE a == q * s
             b == q * n
  <2>2. a \in Nat /\ b \in Nat /\ r = b + m /\ a <= P /\ t + a <= P
    BY <2>1, <1>3, <1>5
  <2> HIDE DEF a, b
  <2>3. b <= r /\ a < Size /\ b < Size /\ t + a < Size
    BY <2>2, <1>2, <1>3
  <2> QED
    BY <2>1, <2>3 DEF a, b
<1>7. /\ N1 \in Signeds /\ Whole(N1) = T - q * S /\ Magnitude(N1) = t + q * s
      /\ st.newt.negative # N1.negative \/ s = 0 \/ Magnitude(N1) = 0
  <2> DEFINE M == SignedMul(Q, st.newt)
             u == q * s
  <2>1. M \in Signeds /\ Magnitude(M) = u /\ Whole(M) = q * S /\ M.negative = st.newt.negative
    <3>1. Magnitude(Q) * Magnitude(st.newt) < Size
      BY <1>6 DEF q, s
    <3> QED
      BY <3>1, <1>1, <1>3, SignedMulFacts DEF q, s, S
  <2>2. u \in Nat /\ (s = 0 => u = 0) /\ t + u < Size
    <3>1. s = 0 => q * s = 0
      BY <1>3
    <3> QED
      BY <3>1, <1>6
  <2> HIDE DEF M, u
  <2>3. /\ N1 \in Signeds /\ Whole(N1) = Whole(st.t) - Whole(M)
        /\ st.t.negative # M.negative => N1.negative = st.t.negative
        /\ st.t.negative # M.negative \/ Magnitude(st.t) = 0 \/ Magnitude(M) = 0
             => Magnitude(N1) = Magnitude(st.t) + Magnitude(M)
        /\ st.t.negative = M.negative /\ Magnitude(st.t) = 0 =>
             N1.negative # st.t.negative \/ Magnitude(N1) = 0
    <3>1. Magnitude(st.t) + Magnitude(M) < Size
      BY <2>1, <2>2 DEF t
    <3> QED
      BY <3>1, <1>1, <2>1, SignedSubFacts DEF M
  <2>4. Whole(N1) = T - q * S
    BY <2>1, <2>3 DEF T
  <2>5. Magnitude(N1) = t + u
    BY <2>1, <2>2, <2>3, <1>1 DEF t
  <2>6. st.newt.negative # N1.negative \/ s = 0 \/ Magnitude(N1) = 0
    <3>1. CASE st.t.negative # st.newt.negative
      BY <3>1, <2>1, <2>3
    <3>2. CASE st.t.negative = st.newt.negative /\ t = 0
      BY <3>2, <2>1, <2>3 DEF t
    <3>3. CASE s = 0
      BY <3>3
    <3> QED
      BY <3>1, <3>2, <3>3, <1>1
  <2> QED
    BY <2>3, <2>4, <2>5, <2>6 DEF u
<1>8. N2 \in Signeds /\ ~N2.negative /\ Magnitude(N2) = m
  <2> DEFINE M == SignedMul(Q, st.newr)
             u == q * n
  <2>1. M \in Signeds /\ Magnitude(M) = u /\ M.negative = st.newr.negative
    <3>1. Magnitude(Q) * Magnitude(st.newr) < Size
      BY <1>6 DEF q, n
    <3> QED
      BY <3>1, <1>1, <1>3, SignedMulFacts DEF q, n
  <2>2. u \in Nat /\ u <= r /\ r = u + m
    BY <1>3, <1>6
  <2> HIDE DEF M, u
  <2>3. st.r.negative = M.negative
    <3>1. st.r.negative = FALSE /\ st.newr.negative = FALSE
      BY <1>1, SignedFacts
    <3> QED
      BY <3>1, <2>1
  <2>4. N2 \in Signeds /\ N2.negative = st.r.negative /\ Magnitude(N2) = r - u
    <3>1. Magnitude(M) <= Magnitude(st.r)
      BY <2>1, <2>2 DEF r
    <3>2. /\ N2 \in Signeds
          /\ N2.negative = st.r.negative
          /\ Magnitude(N2) = Magnitude(st.r) - Magnitude(M)
      BY <3>1, <2>1, <2>3, <1>1, SignedSubFacts DEF M
    <3> QED
      BY <3>2, <2>1 DEF r
  <2> QED
    BY <2>2, <2>4, <1>1, <1>2, <1>3
<1> HIDE DEF N1, N2
<1>9. Going(X, P, e)
  <2>1. e \in EuclidStates
    BY <1>1, <1>4, <1>7, <1>8 DEF EuclidStates
  <2>2. e.t = st.newt /\ e.newt = N1 /\ e.r = st.newr /\ e.newr = N2
    BY <1>4
  <2> HIDE DEF e
  <2>3. Coprime(X, P, Magnitude(e.t), Magnitude(e.newt), Whole(e.t), Whole(e.newt),
                Magnitude(e.r), Magnitude(e.newr))
    BY <2>2, <1>5, <1>7, <1>8 DEF s, S, n
  <2> QED
    BY <2>1, <2>2, <2>3, <1>1, <1>7, <1>8 DEF Going, s
<1>10. Magnitude(e.r) = n /\ Magnitude(e.newr) = m
  BY <1>4, <1>8 DEF n
<1> QED
  BY <1>3, <1>9, <1>10 DEF n, r

\* The product of two remainders that follow each other is halved.
LEMMA Halved ==
  ASSUME NEW r \in Nat, NEW n \in Nat, NEW m \in Nat, NEW q \in Nat,
         n > 0, m < n, r = q * n + m
  PROVE  n * m <= r * n /\ (n < r => 2 * (n * m) < r * n)
<1>1. n * m <= r * n
  <2>1. m <= r
    <3>1. q * n \in Nat
      OBVIOUS
    <3> QED
      BY <3>1
  <2>2. n * m <= n * r
    BY <2>1
  <2> QED
    BY <2>2
<1>2. ASSUME n < r PROVE 2 * (n * m) < r * n
  <2>1. r >= n + m
    <3>1. q >= 1
      <4>1. SUFFICES ASSUME q = 0 PROVE FALSE
        OBVIOUS
      <4>2. q * n = 0
        BY <4>1
      <4> QED
        BY <4>2, <1>2
    <3>2. q * n >= n
      BY <3>1
    <3>3. q * n \in Nat
      OBVIOUS
    <3> QED
      BY <3>2, <3>3
  <2>2. r >= 2 * m + 1
    BY <2>1
  <2>3. r * n >= (2 * m + 1) * n
    BY <2>2
  <2>4. (2 * m + 1) * n = 2 * (n * m) + n /\ n * m \in Nat
    OBVIOUS
  <2> QED
    BY <2>3, <2>4
<1> QED
  BY <1>1, <1>2

\* The loop after k turns.
Shrunk(X, P, k, st) ==
  LET product == Magnitude(st.r) * Magnitude(st.newr)
  IN  /\ Going(X, P, st)
      /\ product < 2 ^ (2 * BITS + 1 - k)
      /\ k = 0 => product < 2 ^ (2 * BITS)
      /\ k > 0 => Magnitude(st.newr) < Magnitude(st.r)

LEMMA ShrunkNext ==
  ASSUME NEW X \in Nat, NEW P \in Nat, P >= 2, P < Size, NEW k \in 0..(2 * BITS - 1),
         NEW st, Shrunk(X, P, k, st)
  PROVE  /\ Magnitude(st.newr) = 0 => Shrunk(X, P, k + 1, st)
         /\ Magnitude(st.newr) > 0 => Shrunk(X, P, k + 1, EuclidRound(st))
<1> DEFINE b == 2 * BITS - k
           h == 2 ^ b
           r == Magnitude(st.r)
           n == Magnitude(st.newr)
<1>1. /\ BITS \in Nat /\ b \in Nat /\ k \in Nat /\ 2 * BITS + 1 - k = b + 1
      /\ 2 * BITS + 1 - (k + 1) = b /\ k + 1 > 0 /\ k + 1 # 0 /\ (k = 0 => b = 2 * BITS)
  BY WordFacts
<1> HIDE DEF b
<1>2. h \in Nat \ {0} /\ 2 ^ (b + 1) = 2 * h
  BY <1>1, TwoPos, TwoNext
<1>3. Going(X, P, st) /\ r * n < 2 * h /\ (k = 0 => r * n < h) /\ (k > 0 => n < r)
  <2>1. /\ Going(X, P, st)
        /\ r * n < 2 ^ (2 * BITS + 1 - k)
        /\ k = 0 => r * n < 2 ^ (2 * BITS)
        /\ k > 0 => n < r
    BY DEF Shrunk
  <2> QED
    BY <2>1, <1>1, <1>2
<1>4. r \in Nat /\ n \in Nat /\ r > 0
  BY <1>3, SignedFacts DEF Going, EuclidStates, Coprime
<1> HIDE DEF h
<1>5. ASSUME NEW e, Going(X, P, e), Magnitude(e.r) * Magnitude(e.newr) < h,
             Magnitude(e.newr) < Magnitude(e.r)
      PROVE  Shrunk(X, P, k + 1, e)
  BY <1>1, <1>5 DEF Shrunk, h
<1>6. ASSUME n = 0 PROVE Shrunk(X, P, k + 1, st)
  <2>1. r * n = 0
    BY <1>4, <1>6
  <2>2. r * n < h /\ n < r
    BY <2>1, <1>2, <1>4, <1>6
  <2> QED
    BY <2>2, <1>3, <1>5
<1>7. ASSUME n > 0 PROVE Shrunk(X, P, k + 1, EuclidRound(st))
  <2> DEFINE e == EuclidRound(st)
             m == Magnitude(e.newr)
  <2>1. /\ Going(X, P, e) /\ Magnitude(e.r) = n /\ m < n
        /\ \E q \in Nat : r = q * n + m
    BY <1>3, <1>7, EuclidRoundFacts
  <2>2. m \in Nat
    BY <2>1, SignedFacts DEF Going, EuclidStates
  <2> HIDE DEF e, m, n, r
  <2>3. PICK q \in Nat : r = q * n + m
    BY <2>1
  <2>4. n * m <= r * n /\ (n < r => 2 * (n * m) < r * n)
    BY <2>1, <2>2, <2>3, <1>4, <1>7, Halved
  <2> DEFINE c == n * m
             d == r * n
  <2>5. c \in Nat /\ d \in Nat /\ c <= d /\ (n < r => 2 * c < d) /\ d < 2 * h
        /\ (k = 0 => d < h) /\ (k > 0 => n < r)
    BY <2>2, <2>4, <1>3, <1>4
  <2> HIDE DEF c, d
  <2>6. c < h
    BY <2>5, <1>1, <1>2
  <2>7. Magnitude(e.r) * Magnitude(e.newr) < h /\ Magnitude(e.newr) < Magnitude(e.r)
    BY <2>1, <2>6 DEF c, m
  <2> QED
    BY <2>1, <2>7, <1>5 DEF e
<1> QED
  BY <1>4, <1>6, <1>7

\* The loop ends within 2 * BITS turns, and keeps what it keeps.
LEMMA EuclidEndFacts ==
  ASSUME NEW x \in Uints, NEW p \in Uints, Value(p) >= 2
  PROVE  LET st == EuclidEnd(x, p)
         IN  Going(Value(x), Value(p), st) /\ Magnitude(st.newr) = 0
<1> DEFINE X == Value(x)
           P == Value(p)
           first == [t |-> Signed(ZERO, FALSE), newt |-> Signed(FromU64(1), FALSE),
                     r |-> Signed(p, FALSE), newr |-> Signed(x, FALSE)]
           turn == [st \in EuclidStates |-> IF IsZero(st.newr.abs) THEN st ELSE EuclidRound(st)]
           n == 2 * BITS
           turns == [k \in 0..(n - 1) |-> turn]
           at == Repeat(n, first, turns)
<1>1. /\ X \in 0..(Size - 1) /\ P \in 0..(Size - 1) /\ X \in Nat /\ P \in Nat /\ P >= 2
      /\ P < Size /\ X < Size /\ Size \in Nat \ {0} /\ Size = 2 ^ BITS /\ BITS \in Nat \ {0} /\ n \in Nat
  BY UintFacts, WordFacts DEF Size
<1>2. EuclidEnd(x, p) = at[n]
  BY Zenon DEF EuclidEnd
<1>3. Shrunk(X, P, 0, first)
  <2>1. /\ Signed(ZERO, FALSE) \in Signeds /\ Magnitude(Signed(ZERO, FALSE)) = 0
        /\ Signed(FromU64(1), FALSE) \in Signeds /\ Magnitude(Signed(FromU64(1), FALSE)) = 1
        /\ Signed(p, FALSE) \in Signeds /\ Magnitude(Signed(p, FALSE)) = P
        /\ Signed(x, FALSE) \in Signeds /\ Magnitude(Signed(x, FALSE)) = X
    BY ValueZero, OneFacts, SignedMake
  <2>2. /\ ~Signed(ZERO, FALSE).negative /\ ~Signed(FromU64(1), FALSE).negative
        /\ ~Signed(p, FALSE).negative /\ ~Signed(x, FALSE).negative
    BY DEF Signed
  <2>3. Whole(Signed(ZERO, FALSE)) = 0 /\ Whole(Signed(FromU64(1), FALSE)) = 1
    BY <2>1, <2>2, SignedFacts
  <2>4. Coprime(X, P, 0, 1, 0, 1, P, X)
    BY <1>1, CoprimeFirst
  <2>5. Going(X, P, first)
    <3>1. first \in EuclidStates
      BY <2>1 DEF EuclidStates
    <3>2. /\ first.t = Signed(ZERO, FALSE) /\ first.newt = Signed(FromU64(1), FALSE)
          /\ first.r = Signed(p, FALSE) /\ first.newr = Signed(x, FALSE)
      OBVIOUS
    <3> HIDE DEF first, X, P
    <3>3. Coprime(X, P, Magnitude(first.t), Magnitude(first.newt), Whole(first.t),
                  Whole(first.newt), Magnitude(first.r), Magnitude(first.newr))
      BY <3>2, <2>1, <2>3, <2>4
    <3> QED
      BY <3>1, <3>2, <3>3, <2>1, <2>2 DEF Going
  <2>6. Magnitude(first.r) = P /\ Magnitude(first.newr) = X
    BY <2>1
  <2> HIDE DEF first, X, P
  <2> DEFINE b == 2 ^ n
  <2>7. P * X < b
    <3>1. 2 ^ (BITS + BITS) = Size * Size
      BY <1>1, TwoAdd
    <3>2. BITS + BITS = n
      BY <1>1
    <3>3. b = Size * Size
      BY <3>1, <3>2
    <3>4. P * X <= Size * X /\ Size * X < Size * Size
      BY <1>1
    <3>5. P * X \in Nat /\ Size * X \in Nat /\ Size * Size \in Nat
      BY <1>1
    <3> HIDE DEF b
    <3> QED
      BY <3>3, <3>4, <3>5
  <2>8. P * X < 2 ^ (n + 1 - 0)
    <3>1. 2 ^ (n + 1) = 2 * b /\ b \in Nat /\ n + 1 - 0 = n + 1
      BY <1>1, TwoNext, TwoPos
    <3>2. P * X \in Nat
      BY <1>1
    <3> HIDE DEF b
    <3> QED
      BY <3>1, <3>2, <2>7
  <2>9. ~ (0 > 0)
    OBVIOUS
  <2> QED
    BY <2>5, <2>6, <2>7, <2>8, <2>9 DEF Shrunk
<1>4. first \in EuclidStates
  BY <1>3 DEF Shrunk, Going
<1>5. \A st \in EuclidStates : IsZero(st.newr.abs) = (Magnitude(st.newr) = 0)
  <2> TAKE st \in EuclidStates
  <2> DEFINE y == st.newr.abs
  <2>1. y \in Uints
    BY DEF EuclidStates, Signeds
  <2> HIDE DEF y
  <2>2. IsZero(y) = (y = ZERO)
    BY <2>1 DEF IsZero, ZERO, Uints
  <2>3. (y = ZERO) = (Value(y) = Value(ZERO))
    BY <2>1, ValueZero, LessIff
  <2> QED
    BY <2>2, <2>3, ValueZero DEF Magnitude, y
<1>6. turns \in [0..(n - 1) -> [EuclidStates -> EuclidStates]]
  <2>1. ASSUME NEW st \in EuclidStates, ~IsZero(st.newr.abs) PROVE EuclidRound(st) \in EuclidStates
    <3>1. st.t \in Signeds /\ st.newt \in Signeds /\ st.r \in Signeds /\ st.newr \in Signeds
      BY DEF EuclidStates
    <3>2. Magnitude(st.newr) > 0
      <4>1. Magnitude(st.newr) \in Nat /\ Magnitude(st.newr) # 0
        BY <3>1, <2>1, <1>5, SignedFacts
      <4> QED
        BY <4>1
    <3>3. SignedDiv(st.r, st.newr) \in Signeds
      BY <3>1, <3>2, SignedTyped
    <3> QED
      BY <3>1, <3>3, SignedTyped DEF EuclidRound, EuclidStates
  <2>2. \A st \in EuclidStates : (IF IsZero(st.newr.abs) THEN st ELSE EuclidRound(st)) \in EuclidStates
    BY <2>1
  <2>3. turn \in [EuclidStates -> EuclidStates]
    BY <2>2
  <2> HIDE DEF turn
  <2> QED
    BY <2>3
<1>7. \A k \in 0..(n - 1) : \A st \in EuclidStates :
        turns[k][st] = IF Magnitude(st.newr) = 0 THEN st ELSE EuclidRound(st)
  BY <1>5
<1> HIDE DEF first, turns, turn, X, P
<1>8. /\ at \in [0..n -> EuclidStates] /\ at[0] = first
      /\ \A k \in 0..(n - 1) : at[k + 1] = turns[k][at[k]]
  <2> HIDE DEF n
  <2>1. n \in Nat
    BY <1>1
  <2> QED
    BY <2>1, <1>4, <1>6, RepeatFacts
<1> HIDE DEF at
<1> DEFINE S == {k \in 0..n : Shrunk(X, P, k, at[k])}
<1>9. 0 \in S
  BY <1>1, <1>3, <1>8
<1>10. ASSUME NEW k \in 0..(n - 1), k \in S PROVE k + 1 \in S
  <2>1. at[k] \in EuclidStates /\ Shrunk(X, P, k, at[k]) /\ k + 1 \in 0..n
    BY <1>1, <1>8, <1>10
  <2>2. at[k + 1] = IF Magnitude(at[k].newr) = 0 THEN at[k] ELSE EuclidRound(at[k])
    BY <2>1, <1>7, <1>8
  <2>3. Magnitude(at[k].newr) \in Nat
    BY <2>1, SignedFacts DEF EuclidStates
  <2>4. Shrunk(X, P, k + 1, at[k + 1])
    BY <2>1, <2>2, <2>3, <1>1, ShrunkNext
  <2> QED
    BY <2>1, <2>4
<1>11. Shrunk(X, P, n, at[n])
  <2> HIDE DEF S, n
  <2>1. n \in Nat /\ n \in 0..n
    BY <1>1
  <2>2. \A k \in 0..n : k \in S
    BY <2>1, <1>9, <1>10, UpTo
  <2>3. n \in S
    BY <2>1, <2>2
  <2> QED
    BY <2>3 DEF S
<1>12. Magnitude(at[n].newr) = 0
  <2> DEFINE r == Magnitude(at[n].r)
             m == Magnitude(at[n].newr)
             zero == 0
  <2>1. Going(X, P, at[n]) /\ r * m < 2 ^ (2 * BITS + 1 - n)
    BY <1>11 DEF Shrunk
  <2>2. r \in Nat /\ m \in Nat /\ (m > 0 => r >= 2)
    BY <2>1, SignedFacts DEF Going, EuclidStates, Coprime
  <2>3. 2 * BITS + 1 - n = zero + 1 /\ zero \in Nat /\ 2 ^ zero = 1
    BY <1>1, TwoZero
  <2> HIDE DEF zero
  <2>4. 2 ^ (zero + 1) = 2 * 2 ^ zero
    BY <2>3, TwoNext
  <2>5. r * m < 2
    BY <2>1, <2>3, <2>4
  <2> HIDE DEF r, m, n
  <2>6. SUFFICES ASSUME m > 0 PROVE FALSE
    BY <2>2 DEF m
  <2>7. r * m >= 2
    BY <2>2, <2>6
  <2> QED
    BY <2>2, <2>5, <2>7
<1> QED
  BY <1>2, <1>11, <1>12 DEF Shrunk, X, P

-----------------------------------------------------------------------------
(* The merkle tree *)

\* The levels that Levels makes are there, each made of the one below.
LevelsOf(leaves, n, f) ==
  f = [h \in 0..n |-> IF h = 0 THEN leaves ELSE Level(f[h - 1])]

LEMMA LevelsExist ==
  ASSUME NEW n \in Nat, NEW leaves
  PROVE  \E f : LevelsOf(leaves, n, f)
<1> DEFINE S == {k \in 0..n : \E f : LevelsOf(leaves, k, f)}
<1>1. 0 \in S
  <2> DEFINE f == [h \in 0..0 |-> leaves]
  <2>1. f = [h \in 0..0 |-> IF h = 0 THEN leaves ELSE Level(f[h - 1])]
    OBVIOUS
  <2> HIDE DEF f
  <2>2. LevelsOf(leaves, 0, f)
    BY <2>1, Zenon DEF LevelsOf
  <2> QED
    BY <2>2
<1>2. ASSUME NEW k \in 0..(n - 1), k \in S PROVE k + 1 \in S
  <2>1. PICK f : LevelsOf(leaves, k, f)
    BY <1>2
  <2>2. /\ \A h \in 0..k : f[h] = IF h = 0 THEN leaves ELSE Level(f[h - 1])
    BY <2>1 DEF LevelsOf
  <2> DEFINE g == [h \in 0..(k + 1) |-> IF h = k + 1 THEN Level(f[k]) ELSE f[h]]
  <2>3. \A h \in 0..(k + 1) : g[h] = IF h = 0 THEN leaves ELSE Level(g[h - 1])
    <3> TAKE h \in 0..(k + 1)
    <3>1. CASE h = k + 1
      <4>1. h # 0 /\ h - 1 \in 0..(k + 1) /\ h - 1 = k /\ h - 1 # k + 1
        BY <3>1
      <4> QED
        BY <4>1, <3>1
    <3>2. CASE h # k + 1 /\ h # 0
      <4>1. h \in 0..k /\ h - 1 \in 0..(k + 1) /\ h - 1 # k + 1
        BY <3>2
      <4> QED
        BY <4>1, <3>2, <2>2
    <3>3. CASE h = 0
      <4>1. h \in 0..k /\ h # k + 1
        BY <3>3
      <4> QED
        BY <4>1, <3>3, <2>2
    <3> QED
      BY <3>1, <3>2, <3>3
  <2>4. g = [h \in 0..(k + 1) |-> g[h]]
    OBVIOUS
  <2> HIDE DEF g
  <2>5. LevelsOf(leaves, k + 1, g)
    BY <2>3, <2>4 DEF LevelsOf
  <2> QED
    BY <2>5
<1>3. n \in S
  <2> HIDE DEF S
  <2>1. \A i \in 0..n : i \in S
    BY <1>1, <1>2, UpTo
  <2> QED
    BY <2>1
<1> QED
  BY <1>3

LEMMA LevelsFacts ==
  ASSUME NEW leaves, Len(leaves) \in Nat
  PROVE  /\ Levels(leaves)[0] = leaves
         /\ \A h \in 0..(Len(leaves) - 1) : Levels(leaves)[h + 1] = Level(Levels(leaves)[h])
<1> DEFINE n == Len(leaves)
           f == Levels(leaves)
<1>1. f = CHOOSE g : g = [h \in 0..n |-> IF h = 0 THEN leaves ELSE Level(g[h - 1])]
  BY Zenon DEF Levels
<1>2. \E g : g = [h \in 0..n |-> IF h = 0 THEN leaves ELSE Level(g[h - 1])]
  <2>1. \E g : LevelsOf(leaves, n, g)
    BY LevelsExist
  <2> QED
    BY <2>1, Zenon DEF LevelsOf
<1>3. f = [h \in 0..n |-> IF h = 0 THEN leaves ELSE Level(f[h - 1])]
  BY <1>1, <1>2, Zenon
<1> HIDE DEF f
<1>4. n \in Nat
  OBVIOUS
<1> HIDE DEF n
<1>5. f[0] = leaves
  <2>1. 0 \in 0..n
    BY <1>4
  <2> QED
    BY <2>1, <1>3
<1>6. ASSUME NEW h \in 0..(n - 1) PROVE f[h + 1] = Level(f[h])
  <2>1. h + 1 \in 0..n /\ h + 1 # 0 /\ (h + 1) - 1 = h
    BY <1>4
  <2> DEFINE i == h + 1
  <2>2. i \in 0..n /\ i # 0 /\ i - 1 = h
    BY <2>1
  <2> HIDE DEF i
  <2>3. f[i] = Level(f[i - 1])
    BY <2>2, <1>3
  <2> QED
    BY <2>2, <2>3 DEF i
<1> QED
  BY <1>5, <1>6 DEF f, n

\* How many hashes a level has: at least one for 2^h leaves.
LEMMA LevelLen ==
  ASSUME NEW row, NEW m \in Nat, DOMAIN row = 1..m, Len(row) = m
  PROVE  /\ Len(Level(row)) = (m + 1) \div 2 /\ DOMAIN Level(row) = 1..((m + 1) \div 2)
         /\ (m + 1) \div 2 \in Nat /\ 2 * ((m + 1) \div 2) >= m
         /\ m >= 2 => Level(row)[1] = <<row[1], row[2]>>
<1> DEFINE k == (m + 1) \div 2
           e(i) == <<row[2 * i - 1], row[IF 2 * i > Len(row) THEN 2 * i - 1 ELSE 2 * i]>>
           s == [i \in 1..k |-> e(i)]
<1>1. k \in Nat /\ 2 * k >= m /\ (m >= 2 => 1 \in 1..k)
  OBVIOUS
<1>2. Level(row) = s
  BY DEF Level
<1> HIDE DEF k
<1>3. DOMAIN s = 1..k /\ Len(s) = k
  <2> DEFINE V == {e(i) : i \in 1..k}
  <2>1. s \in [1..k -> V]
    OBVIOUS
  <2> HIDE DEF V, e
  <2>2. s \in Seq(V)
    <3> DEFINE r == s
    <3>1. r \in [1..k -> V]
      BY <2>1
    <3> HIDE DEF r
    <3>2. r \in Seq(V)
      BY <1>1, <3>1
    <3> QED
      BY <3>2 DEF r
  <2> QED
    BY <1>1, <2>2
<1>4. m >= 2 => s[1] = <<row[1], row[2]>>
  BY <1>1
<1> QED
  BY <1>1, <1>2, <1>3, <1>4 DEF k

\* The fold that MerkleRoot makes is there.
RootOf(hashes, n, f) ==
  f = [i \in 1..n |-> IF i = 1 THEN hashes[1] ELSE <<f[i - 1], hashes[i]>>]

LEMMA RootExists ==
  ASSUME NEW n \in Nat, NEW hashes
  PROVE  \E f : RootOf(hashes, n, f)
<1> DEFINE S == {k \in 0..n : \E f : RootOf(hashes, k, f)}
<1>1. 0 \in S
  <2> DEFINE f == [i \in 1..0 |-> hashes]
  <2>1. f = [i \in 1..0 |-> IF i = 1 THEN hashes[1] ELSE <<f[i - 1], hashes[i]>>]
    OBVIOUS
  <2> HIDE DEF f
  <2>2. RootOf(hashes, 0, f)
    BY <2>1, Zenon DEF RootOf
  <2> QED
    BY <2>2
<1>2. ASSUME NEW k \in 0..(n - 1), k \in S PROVE k + 1 \in S
  <2>1. PICK f : RootOf(hashes, k, f)
    BY <1>2
  <2>2. \A i \in 1..k : f[i] = IF i = 1 THEN hashes[1] ELSE <<f[i - 1], hashes[i]>>
    BY <2>1 DEF RootOf
  <2> DEFINE top == IF k + 1 = 1 THEN hashes[1] ELSE <<f[k], hashes[k + 1]>>
             g == [i \in 1..(k + 1) |-> IF i = k + 1 THEN top ELSE f[i]]
  <2>3. \A i \in 1..(k + 1) : g[i] = IF i = 1 THEN hashes[1] ELSE <<g[i - 1], hashes[i]>>
    <3> TAKE i \in 1..(k + 1)
    <3>1. CASE i = k + 1 /\ i # 1
      <4>1. i - 1 \in 1..(k + 1) /\ i - 1 = k /\ i - 1 # k + 1
        BY <3>1
      <4> QED
        BY <4>1, <3>1
    <3>2. CASE i # k + 1 /\ i # 1
      <4>1. i \in 1..k /\ i - 1 \in 1..(k + 1) /\ i - 1 # k + 1
        BY <3>2
      <4> QED
        BY <4>1, <3>2, <2>2
    <3>3. CASE i = 1 /\ i = k + 1
      BY <3>3
    <3>4. CASE i = 1 /\ i # k + 1
      <4>1. i \in 1..k
        BY <3>4
      <4> QED
        BY <4>1, <3>4, <2>2
    <3> QED
      BY <3>1, <3>2, <3>3, <3>4
  <2>4. g = [i \in 1..(k + 1) |-> g[i]]
    OBVIOUS
  <2> HIDE DEF g
  <2>5. RootOf(hashes, k + 1, g)
    BY <2>3, <2>4 DEF RootOf
  <2> QED
    BY <2>5
<1>3. n \in S
  <2> HIDE DEF S
  <2>1. \A i \in 0..n : i \in S
    BY <1>1, <1>2, UpTo
  <2> QED
    BY <2>1
<1> QED
  BY <1>3

Folded(hashes, n, f) ==
  /\ f[1] = hashes[1] /\ MerkleRoot(hashes) = f[n]
  /\ \A i \in 1..(n - 1) : f[i + 1] = <<f[i], hashes[i + 1]>>

LEMMA RootFacts ==
  ASSUME NEW n \in Nat \ {0}, NEW hashes, Len(hashes) = n
  PROVE  \E f : Folded(hashes, n, f)
<1> DEFINE Root(f) == f = [i \in 1..n |-> IF i = 1 THEN hashes[1] ELSE <<f[i - 1], hashes[i]>>]
           f == CHOOSE f : Root(f)
<1>1. MerkleRoot(hashes) = f[n]
  BY Zenon DEF MerkleRoot
<1>2. \E g : Root(g)
  <2>1. \E g : RootOf(hashes, n, g)
    BY RootExists
  <2> QED
    BY <2>1, Zenon DEF RootOf
<1>3. f = [i \in 1..n |-> IF i = 1 THEN hashes[1] ELSE <<f[i - 1], hashes[i]>>]
  BY <1>2, Zenon
<1> HIDE DEF f
<1>4. f[1] = hashes[1]
  <2>1. 1 \in 1..n
    OBVIOUS
  <2> QED
    BY <2>1, <1>3
<1>5. ASSUME NEW i \in 1..(n - 1) PROVE f[i + 1] = <<f[i], hashes[i + 1]>>
  <2> DEFINE j == i + 1
  <2>1. j \in 1..n /\ j # 1 /\ j - 1 = i
    OBVIOUS
  <2> HIDE DEF j
  <2>2. f[j] = <<f[j - 1], hashes[j]>>
    BY <2>1, <1>3
  <2> QED
    BY <2>1, <2>2 DEF j
<1>6. Folded(hashes, n, f)
  BY <1>1, <1>4, <1>5 DEF Folded
<1> QED
  BY <1>6

LEMMA HeightFacts ==
  ASSUME NEW leaves, NEW n \in Nat \ {0}, Len(leaves) = n
  PROVE  /\ Height(leaves) \in 0..n
         /\ \A h \in 0..(Height(leaves) - 1) : 2 ^ h < n
<1> DEFINE Right(h) == 2 ^ h >= n /\ (h > 0 => 2 ^ (h - 1) < n)
           S == {i \in 0..n : 2 ^ i < n}
           k == Height(leaves)
<1>1. \E h \in 0..n : Right(h)
  <2> SUFFICES ASSUME \A h \in 0..n : ~Right(h) PROVE FALSE
    OBVIOUS
  <2>1. \A i \in 0..n : 2 ^ i \in Nat
    BY TwoPos
  <2>2. 0 \in S
    <3>1. ~Right(0)
      <4> HIDE DEF Right
      <4>1. 0 \in 0..n
        OBVIOUS
      <4> QED
        BY <4>1
    <3>2. ~(2 ^ 0 >= n)
      BY <3>1
    <3>3. 2 ^ 0 < n
      BY <3>2, TwoZero
    <3> QED
      BY <3>3
  <2>3. ASSUME NEW i \in 0..(n - 1), i \in S PROVE i + 1 \in S
    <3>1. i + 1 \in 0..n /\ (i + 1) - 1 = i /\ ~Right(i + 1)
      OBVIOUS
    <3>2. 2 ^ i < n
      BY <2>3
    <3>3. 2 ^ ((i + 1) - 1) < n
      BY <3>1, <3>2
    <3>4. ~(2 ^ (i + 1) >= n)
      BY <3>1, <3>3, Zenon
    <3>5. 2 ^ (i + 1) \in Nat
      BY <3>1, <2>1
    <3> QED
      BY <3>1, <3>4, <3>5
  <2>4. n \in S
    <3> HIDE DEF S
    <3>1. \A i \in 0..n : i \in S
      BY <2>2, <2>3, UpTo
    <3> QED
      BY <3>1
  <2>5. CASE n = 1
    <3>1. 2 ^ 0 < 1
      BY <2>2, <2>5
    <3> QED
      BY <3>1, TwoZero
  <2>6. CASE n >= 2
    <3>1. n + 2 <= 2 ^ n /\ 2 ^ n \in Nat
      BY <2>6, TwoAbove, TwoPos
    <3> QED
      BY <3>1, <2>4
  <2> QED
    BY <2>5, <2>6
<1>2. k \in 0..n /\ Right(k)
  <2>1. k = CHOOSE h \in 0..n : Right(h)
    BY Zenon DEF Height
  <2> QED
    BY <1>1, <2>1, Zenon
<1> HIDE DEF k
<1>3. ASSUME NEW h \in 0..(k - 1) PROVE 2 ^ h < n
  <2>1. h \in Nat /\ k - 1 \in Nat /\ h <= k - 1 /\ k > 0
    BY <1>2
  <2>2. 2 ^ h <= 2 ^ (k - 1) /\ 2 ^ h \in Nat /\ 2 ^ (k - 1) \in Nat
    BY <2>1, TwoMono, TwoPos
  <2>3. 2 ^ (k - 1) < n
    BY <1>2, <2>1
  <2> QED
    BY <2>2, <2>3
<1> QED
  BY <1>2, <1>3 DEF k

\* Below its height a tree has at least two hashes on a level.
LEMMA LevelsWide ==
  ASSUME NEW leaves, NEW n \in Nat, Len(leaves) = n, DOMAIN leaves = 1..n
  PROVE  \A h \in 0..n : \E m \in Nat : /\ DOMAIN Levels(leaves)[h] = 1..m
                                         /\ Len(Levels(leaves)[h]) = m /\ n <= m * 2 ^ h
<1> DEFINE f == Levels(leaves)
           S == {h \in 0..n : \E m \in Nat : DOMAIN f[h] = 1..m /\ Len(f[h]) = m /\ n <= m * 2 ^ h}
<1>1. f[0] = leaves /\ \A h \in 0..(n - 1) : f[h + 1] = Level(f[h])
  BY LevelsFacts
<1> HIDE DEF f
<1>2. 0 \in S
  <2>1. n <= n * 2 ^ 0
    BY TwoZero
  <2>2. DOMAIN f[0] = 1..n /\ Len(f[0]) = n /\ 0 \in 0..n
    BY <1>1
  <2>3. \E m \in Nat : DOMAIN f[0] = 1..m /\ Len(f[0]) = m /\ n <= m * 2 ^ 0
    BY <2>1, <2>2, Zenon
  <2> QED
    BY <2>2, <2>3
<1>3. ASSUME NEW h \in 0..(n - 1), h \in S PROVE h + 1 \in S
  <2>1. PICK m \in Nat : DOMAIN f[h] = 1..m /\ Len(f[h]) = m /\ n <= m * 2 ^ h
    BY <1>3
  <2> DEFINE k == (m + 1) \div 2
             p == 2 ^ h
  <2>2. /\ Len(Level(f[h])) = k /\ DOMAIN Level(f[h]) = 1..k
        /\ k \in Nat /\ 2 * k >= m
    BY <2>1, LevelLen
  <2>3. p \in Nat /\ 2 ^ (h + 1) = 2 * p
    BY TwoNext
  <2> HIDE DEF k, p
  <2>4. n <= k * (2 * p)
    <3>1. k * (2 * p) = (2 * k) * p /\ m * p <= (2 * k) * p /\ m * p \in Nat /\ (2 * k) * p \in Nat
      BY <2>1, <2>2, <2>3
    <3>2. n <= m * p
      BY <2>1 DEF p
    <3> QED
      BY <3>1, <3>2
  <2>5. f[h + 1] = Level(f[h]) /\ h + 1 \in 0..n
    BY <1>1
  <2>6. DOMAIN f[h + 1] = 1..k /\ Len(f[h + 1]) = k /\ n <= k * 2 ^ (h + 1)
    BY <2>2, <2>3, <2>4, <2>5
  <2> QED
    BY <2>2, <2>5, <2>6
<1>4. \A h \in 0..n : h \in S
  <2> HIDE DEF S
  <2> QED
    BY <1>2, <1>3, UpTo
<1> QED
  BY <1>4 DEF f

\* The branch of the first leaf folds to the root.
LEMMA MerkleFacts ==
  ASSUME NEW leaves, NEW n \in Nat \ {0}, Len(leaves) = n, DOMAIN leaves = 1..n
  PROVE  MerkleRoot(<<leaves[1]>> \o Branch(leaves)) = Levels(leaves)[Height(leaves)][1]
<1> DEFINE H1 == Height(leaves)
           f == Levels(leaves)
           b == Branch(leaves)
           hs == <<leaves[1]>> \o b
<1>1. H1 \in 0..n /\ H1 \in Nat /\ \A h \in 0..(H1 - 1) : 2 ^ h < n
  BY HeightFacts
<1>2. f[0] = leaves /\ \A h \in 0..(n - 1) : f[h + 1] = Level(f[h])
  BY LevelsFacts
<1>3. \A h \in 0..n : \E m \in Nat : DOMAIN f[h] = 1..m /\ Len(f[h]) = m /\ n <= m * 2 ^ h
  BY LevelsWide
<1>4. b = [h \in 1..H1 |-> f[h - 1][2]]
  BY Zenon DEF Branch
<1> HIDE DEF f, b, H1
<1>5. Len(hs) = H1 + 1 /\ hs[1] = leaves[1] /\ \A h \in 1..H1 : hs[h + 1] = b[h]
  <2> DEFINE V == {leaves[1]} \cup {b[h] : h \in 1..H1}
             x == leaves[1]
  <2>1. b \in [1..H1 -> V]
    BY <1>4
  <2>2. x \in V
    OBVIOUS
  <2> HIDE DEF V, x
  <2>3. b \in Seq(V) /\ Len(b) = H1
    BY <1>1, <2>1
  <2>4. <<x>> \in Seq(V) /\ Len(<<x>>) = 1 /\ <<x>>[1] = x
    BY <2>2
  <2>5. Len(<<x>> \o b) = H1 + 1 /\ (<<x>> \o b)[1] = x
        /\ \A h \in 1..H1 : (<<x>> \o b)[h + 1] = b[h]
    BY <2>3, <2>4, <1>1
  <2> QED
    BY <2>5 DEF x
<1> HIDE DEF hs
<1>6. PICK g : /\ g[1] = hs[1] /\ MerkleRoot(hs) = g[H1 + 1]
               /\ \A i \in 1..H1 : g[i + 1] = <<g[i], hs[i + 1]>>
  <2> DEFINE k == H1 + 1
  <2>1. k \in Nat \ {0} /\ k - 1 = H1 /\ Len(hs) = k
    BY <1>1, <1>5
  <2> HIDE DEF k
  <2>2. \E g : Folded(hs, k, g)
    BY <2>1, RootFacts
  <2>3. PICK g : Folded(hs, k, g)
    BY <2>2
  <2> QED
    BY <2>1, <2>3 DEF k, Folded
<1> DEFINE S == {h \in 0..H1 : g[h + 1] = f[h][1]}
<1>7. 0 \in S
  BY <1>1, <1>2, <1>5, <1>6
<1>8. ASSUME NEW h \in 0..(H1 - 1), h \in S PROVE h + 1 \in S
  <2>1. /\ h \in Nat /\ h \in 0..n /\ h \in 0..(n - 1) /\ h + 1 \in 1..H1 /\ h + 1 \in 0..H1
        /\ g[h + 1] = f[h][1] /\ (h + 1) - 1 = h
    BY <1>1, <1>8
  <2>2. g[(h + 1) + 1] = <<g[h + 1], hs[(h + 1) + 1]>> /\ hs[(h + 1) + 1] = b[h + 1]
    BY <2>1, <1>5, <1>6
  <2>3. b[h + 1] = f[h][2]
    BY <2>1, <1>4
  <2>4. f[h + 1][1] = <<f[h][1], f[h][2]>>
    <3>1. PICK m \in Nat : DOMAIN f[h] = 1..m /\ Len(f[h]) = m /\ n <= m * 2 ^ h
      BY <2>1, <1>3
    <3> DEFINE p == 2 ^ h
    <3>2. p \in Nat /\ p < n /\ n <= m * p
      BY <2>1, <3>1, <1>1, TwoPos
    <3> HIDE DEF p
    <3>3. m >= 2
      <4>1. SUFFICES ASSUME m = 0 \/ m = 1 PROVE FALSE
        OBVIOUS
      <4>2. m * p <= p
        BY <4>1, <3>2
      <4>3. m * p \in Nat
        BY <3>2
      <4> QED
        BY <4>2, <4>3, <3>2
    <3>4. Level(f[h])[1] = <<f[h][1], f[h][2]>>
      BY <3>1, <3>3, LevelLen
    <3> QED
      BY <3>4, <2>1, <1>2
  <2>5. g[(h + 1) + 1] = f[h + 1][1]
    BY <2>1, <2>2, <2>3, <2>4
  <2> QED
    BY <2>1, <2>5
<1>9. H1 \in S
  <2> HIDE DEF S
  <2>1. \A i \in 0..H1 : i \in S
    BY <1>1, <1>7, <1>8, UpTo
  <2> QED
    BY <2>1, <1>1
<1> QED
  BY <1>6, <1>9 DEF hs, f, b, H1

-----------------------------------------------------------------------------
(* The generator *)

\* All shifts of a word xored with its first shift leave the word.
LEMMA ShiftsXored ==
  ASSUME NEW b \in Words
  PROVE  LET mix == XorU64(b, Lsh(b, Shl))
             turn == [k \in 0..(WordBits - 1) |->
                        [acc \in Words |-> XorU64(acc, Lsh(mix, k * Shl))]]
         IN  Repeat(WordBits, 0, turn)[WordBits] = b
<1> DEFINE mix == XorU64(b, Lsh(b, Shl))
           turn == [k \in 0..(WordBits - 1) |->
                      [acc \in Words |-> XorU64(acc, Lsh(mix, k * Shl))]]
           zero == 0
           r == Repeat(WordBits, zero, turn)
           L(k) == Lsh(b, k * Shl)
<1>1. WordBits \in Nat \ {0} /\ Shl \in Nat \ {0} /\ zero \in Words
  BY WordFacts, HashAssumption DEF Words
<1>2. ASSUME NEW k \in Nat PROVE k * Shl \in Nat /\ (k + 1) * Shl = Shl + k * Shl
  BY <1>1
<1>3. ASSUME NEW k \in Nat PROVE L(k) \in Words
  BY <1>2, LshBits
<1>4. mix \in Words
  <2>1. Lsh(b, Shl) \in Words
    BY <1>1, LshBits
  <2> QED
    BY <2>1, XorWord
<1>5. ASSUME NEW k \in Nat PROVE Lsh(mix, k * Shl) = XorU64(L(k), L(k + 1))
  <2>1. Lsh(b, Shl) \in Words /\ Shl \in Nat /\ k * Shl \in Nat
    BY <1>1, <1>2, LshBits
  <2>2. Lsh(XorU64(b, Lsh(b, Shl)), k * Shl)
          = XorU64(Lsh(b, k * Shl), Lsh(Lsh(b, Shl), k * Shl))
    BY <2>1, LshLaws
  <2>3. Lsh(Lsh(b, Shl), k * Shl) = Lsh(b, Shl + k * Shl)
    BY <2>1, LshLaws
  <2> QED
    BY <2>2, <2>3, <1>2
<1> HIDE DEF mix, L
<1>6. turn \in [0..(WordBits - 1) -> [Words -> Words]]
  <2>1. ASSUME NEW k \in 0..(WordBits - 1), NEW acc \in Words
        PROVE  XorU64(acc, Lsh(mix, k * Shl)) \in Words
    <3>1. k \in Nat /\ k + 1 \in Nat
      OBVIOUS
    <3>2. L(k) \in Words /\ L(k + 1) \in Words
      BY <3>1, <1>3
    <3>3. Lsh(mix, k * Shl) \in Words
      BY <3>1, <3>2, <1>5, XorWord
    <3> QED
      BY <3>3, XorWord
  <2> QED
    BY <2>1
<1>7. \A k \in 0..(WordBits - 1), acc \in Words :
        turn[k][acc] = XorU64(acc, Lsh(mix, k * Shl))
  OBVIOUS
<1> HIDE DEF turn, zero, r
<1>8. /\ r \in [0..WordBits -> Words] /\ r[0] = zero
      /\ \A k \in 0..(WordBits - 1) : r[k + 1] = turn[k][r[k]]
  BY <1>1, <1>6, RepeatFacts DEF r
<1> DEFINE T == {k \in 0..WordBits : r[k] = XorU64(b, L(k))}
<1>9. 0 \in T
  <2>1. 0 * Shl = 0 /\ 0 \in 0..WordBits
    BY <1>1
  <2>2. L(0) = b
    BY <2>1, LshLaws, <1>1 DEF L
  <2>3. XorU64(b, b) = 0
    BY XorGroup
  <2> QED
    BY <2>1, <2>2, <2>3, <1>8 DEF zero
<1>10. ASSUME NEW k \in 0..(WordBits - 1), k \in T PROVE k + 1 \in T
  <2>1. k \in Nat /\ k + 1 \in Nat /\ k + 1 \in 0..WordBits /\ k \in 0..WordBits
    BY <1>1
  <2>2. L(k) \in Words /\ L(k + 1) \in Words /\ r[k] = XorU64(b, L(k)) /\ r[k] \in Words
    BY <2>1, <1>3, <1>8, <1>10
  <2>3. r[k + 1] = XorU64(XorU64(b, L(k)), XorU64(L(k), L(k + 1)))
    BY <2>1, <2>2, <1>5, <1>7, <1>8
  <2> DEFINE p == L(k)
             q == L(k + 1)
  <2> HIDE DEF p, q
  <2>4. p \in Words /\ q \in Words /\ XorU64(b, p) \in Words
    BY <2>2, XorWord DEF p, q
  <2>5. XorU64(XorU64(b, p), XorU64(p, q)) = XorU64(XorU64(XorU64(b, p), p), q)
    BY <2>4, XorGroup
  <2>6. XorU64(XorU64(b, p), p) = b
    BY <2>4, XorUndo
  <2>7. r[k + 1] = XorU64(b, q)
    BY <2>3, <2>5, <2>6 DEF p, q
  <2> QED
    BY <2>1, <2>7 DEF q
<1>11. r[WordBits] = XorU64(b, L(WordBits))
  <2>1. \A k \in 0..WordBits : k \in T
    <3> HIDE DEF T
    <3> QED
      BY <1>1, <1>9, <1>10, UpTo
  <2>2. WordBits \in 0..WordBits
    BY <1>1
  <2> QED
    BY <2>1, <2>2
<1>12. L(WordBits) = 0
  <2>1. WordBits * Shl >= WordBits /\ WordBits * Shl \in Nat
    BY <1>1
  <2> QED
    BY <2>1, LshLaws DEF L
<1>13. XorU64(b, 0) = b
  BY XorGroup
<1> QED
  BY <1>11, <1>12, <1>13 DEF r, turn, mix, zero

\* What the generator leaves tells what it came from.
LEMMA SeedFacts ==
  ASSUME NEW s \in Seeds
  PROVE  Before(NextSeed(s)) = s
<1> DEFINE a == s.s0
           b == s.s1
           c == s.s2
           d == s.s3
           p == XorU64(c, a)
           q == XorU64(d, b)
           n == NextSeed(s)
           rot == RotateLeft(n.s3, WordBits - RotB)
           s0 == XorU64(n.s0, rot)
<1>1. a \in Words /\ b \in Words /\ c \in Words /\ d \in Words
      /\ s = [s0 |-> a, s1 |-> b, s2 |-> c, s3 |-> d]
  BY DEF Seeds
<1>2. Shl \in Nat /\ RotB \in 0..WordBits
  BY HashAssumption
<1>3. p \in Words /\ q \in Words /\ Lsh(b, Shl) \in Words
  BY <1>1, <1>2, XorWord, LshBits
<1>4. /\ n.s0 = XorU64(a, q) /\ n.s1 = XorU64(b, p)
      /\ n.s2 = XorU64(p, Lsh(b, Shl)) /\ n.s3 = RotateLeft(q, RotB)
  BY DEF NextSeed
<1> HIDE DEF a, b, c, d, n
<1>5. rot = q
  <2> HIDE DEF q
  <2> QED
    BY <1>2, <1>3, <1>4, RotateBack
<1>6. s0 = a
  <2> HIDE DEF q, rot
  <2> QED
    BY <1>1, <1>3, <1>4, <1>5, XorUndo
<1>7. XorU64(n.s1, n.s2) = XorU64(b, Lsh(b, Shl))
  <2> DEFINE l == Lsh(b, Shl)
  <2> HIDE DEF p, l
  <2>1. p \in Words /\ l \in Words /\ XorU64(b, p) \in Words
    BY <1>1, <1>3, XorWord DEF l
  <2>2. XorU64(XorU64(b, p), XorU64(p, l)) = XorU64(XorU64(XorU64(b, p), p), l)
    BY <2>1, XorGroup
  <2>3. XorU64(XorU64(b, p), p) = b
    BY <2>1, <1>1, XorUndo
  <2> QED
    BY <2>2, <2>3, <1>4 DEF l
<1> DEFINE mix == XorU64(n.s1, n.s2)
           turn == [k \in 0..(WordBits - 1) |->
                      [acc \in Words |-> XorU64(acc, Lsh(mix, k * Shl))]]
           s1 == Repeat(WordBits, 0, turn)[WordBits]
<1>8. s1 = b
  BY <1>1, <1>7, ShiftsXored
<1> HIDE DEF s1, s0, rot
<1>9. XorU64(XorU64(n.s1, s0), s1) = c
  <2>1. XorU64(b, p) = XorU64(p, b) /\ XorU64(p, a) = c
    BY <1>1, <1>3, XorGroup, XorUndo
  <2>2. XorU64(XorU64(p, b), a) = XorU64(p, XorU64(b, a))
    BY <1>1, <1>3, XorGroup
  <2>3. XorU64(b, a) = XorU64(a, b)
    BY <1>1, XorGroup
  <2>4. XorU64(XorU64(p, a), b) = XorU64(p, XorU64(a, b))
    BY <1>1, <1>3, XorGroup
  <2>5. XorU64(XorU64(b, p), a) = XorU64(c, b)
    BY <2>1, <2>2, <2>3, <2>4
  <2>6. XorU64(XorU64(c, b), b) = c
    BY <1>1, XorUndo
  <2> QED
    BY <2>5, <2>6, <1>4, <1>6, <1>8
<1>10. XorU64(rot, s1) = d
  BY <1>1, <1>5, <1>8, XorUndo
<1>11. Before(n) = [s0 |-> s0, s1 |-> s1, s2 |-> XorU64(XorU64(n.s1, s0), s1),
                    s3 |-> XorU64(rot, s1)]
  BY DEF Before, s0, s1, rot
<1> QED
  BY <1>1, <1>6, <1>8, <1>9, <1>10, <1>11 DEF n
\* A sum of bits modulo 2.
LEMMA BitSums ==
  ASSUME NEW x \in {0, 1}, NEW y \in {0, 1}, NEW z \in {0, 1}
  PROVE  /\ (x + y) % 2 = IF x = y THEN 0 ELSE 1
         /\ (x + y + z) % 2 = IF x = (IF y = z THEN 0 ELSE 1) THEN 0 ELSE 1
         /\ (x + y + z) % 2 = IF y = (IF z = x THEN 0 ELSE 1) THEN 0 ELSE 1
         /\ (x + y + z) % 2 = IF (IF y = x THEN 0 ELSE 1) = z THEN 0 ELSE 1
  OBVIOUS

\* What a step does to each bit.
LEMMA StepFacts ==
  ASSUME NEW s \in Seeds, NEW b \in 0..(WordBits - 1)
  PROVE  LET n == NextSeed(s)
         IN  /\ Bit(n.s0, b) = (Bit(s.s0, b) + Bit(s.s1, b) + Bit(s.s3, b)) % 2
             /\ Bit(n.s1, b) = (Bit(s.s0, b) + Bit(s.s1, b) + Bit(s.s2, b)) % 2
             /\ Bit(n.s2, b) = (Bit(s.s0, b) + Bit(s.s2, b)
                                  + IF b >= Shl THEN Bit(s.s1, b - Shl) ELSE 0) % 2
             /\ Bit(n.s3, (b + RotB) % WordBits) = (Bit(s.s1, b) + Bit(s.s3, b)) % 2
<1> DEFINE w == s.s0
           x == s.s1
           y == s.s2
           z == s.s3
           p == XorU64(y, w)
           q == XorU64(z, x)
           l == Lsh(x, Shl)
           n == NextSeed(s)
<1>1. w \in Words /\ x \in Words /\ y \in Words /\ z \in Words
  BY DEF Seeds
<1>2. Shl \in Nat \ {0} /\ RotB \in 0..WordBits /\ WordBits \in Nat \ {0} /\ b \in Nat
  BY HashAssumption, WordFacts
<1>3. n.s0 = XorU64(w, q) /\ n.s1 = XorU64(x, p) /\ n.s2 = XorU64(p, l) /\ n.s3 = RotateLeft(q, RotB)
  BY DEF NextSeed
<1> HIDE DEF w, x, y, z, n
<1>4. p \in Words /\ q \in Words /\ l \in Words
  BY <1>1, <1>2, XorWord, LshBits
<1>5. /\ Bit(p, b) = IF Bit(y, b) = Bit(w, b) THEN 0 ELSE 1
      /\ Bit(q, b) = IF Bit(z, b) = Bit(x, b) THEN 0 ELSE 1
      /\ Bit(l, b) = IF b < Shl THEN 0 ELSE Bit(x, b - Shl)
  BY <1>1, <1>2, XorWord, LshBits
<1> HIDE DEF p, q, l
<1>6. /\ Bit(n.s0, b) = IF Bit(w, b) = Bit(q, b) THEN 0 ELSE 1
      /\ Bit(n.s1, b) = IF Bit(x, b) = Bit(p, b) THEN 0 ELSE 1
      /\ Bit(n.s2, b) = IF Bit(p, b) = Bit(l, b) THEN 0 ELSE 1
  BY <1>1, <1>3, <1>4, XorWord
<1>7. Bit(n.s3, (b + RotB) % WordBits) = Bit(q, b)
  BY <1>2, <1>3, <1>4, RotateBits
<1> DEFINE bw == Bit(w, b)
           bx == Bit(x, b)
           by == Bit(y, b)
           bz == Bit(z, b)
           bl == IF b >= Shl THEN Bit(x, b - Shl) ELSE 0
<1>8. bw \in {0, 1} /\ bx \in {0, 1} /\ by \in {0, 1} /\ bz \in {0, 1} /\ bl \in {0, 1}
  <2>1. w \in Nat /\ x \in Nat /\ y \in Nat /\ z \in Nat
    BY <1>1, WordFacts DEF Words
  <2>2. b >= Shl => b - Shl \in Nat
    BY <1>2
  <2> QED
    BY <2>1, <2>2, <1>2, BitRange
<1>9. Bit(l, b) = bl
  BY <1>2, <1>5
<1> HIDE DEF bw, bx, by, bz, bl
<1>10. Bit(n.s0, b) = (bw + bx + bz) % 2
  BY <1>5, <1>6, <1>8, BitSums DEF bw, bx, by, bz
<1>11. Bit(n.s1, b) = (bw + bx + by) % 2
  BY <1>5, <1>6, <1>8, BitSums DEF bw, bx, by, bz
<1>12. Bit(n.s2, b) = (bw + by + bl) % 2
  BY <1>5, <1>6, <1>8, <1>9, BitSums DEF bw, bx, by, bz
<1>13. Bit(n.s3, (b + RotB) % WordBits) = (bx + bz) % 2
  BY <1>5, <1>7, <1>8, BitSums DEF bw, bx, by, bz
<1> QED
  BY <1>10, <1>11, <1>12, <1>13, Zenon DEF bw, bx, by, bz, bl, w, x, y, z, n

LEMMA NextSeedTyped ==
  ASSUME NEW s \in Seeds
  PROVE  NextSeed(s) \in Seeds /\ Output(s) \in Words
<1> DEFINE p == XorU64(s.s2, s.s0)
           q == XorU64(s.s3, s.s1)
           l == Lsh(s.s1, Shl)
<1>1. s.s0 \in Words /\ s.s1 \in Words /\ s.s2 \in Words /\ s.s3 \in Words
      /\ Shl \in Nat /\ RotB \in 0..WordBits /\ RotA \in 0..WordBits
  BY HashAssumption DEF Seeds
<1>2. p \in Words /\ q \in Words /\ l \in Words
  BY <1>1, XorWord, LshBits
<1>3. NextSeed(s) = [s0 |-> XorU64(s.s0, q), s1 |-> XorU64(s.s1, p), s2 |-> XorU64(p, l),
                     s3 |-> RotateLeft(q, RotB)]
  BY Zenon DEF NextSeed
<1> HIDE DEF p, q, l
<1>4. NextSeed(s) \in Seeds
  BY <1>1, <1>2, <1>3, XorWord, RotateBack DEF Seeds
<1> DEFINE sum == (s.s0 + s.s3) % Word
<1>5. sum \in Words /\ \A a \in Nat : a % Word \in Words
  <2>1. \A a \in Nat : a % Word \in Words
    BY WordFacts, DivNat DEF Words
  <2>2. s.s0 + s.s3 \in Nat
    BY <1>1, WordFacts DEF Words
  <2> QED
    BY <2>1, <2>2
<1> HIDE DEF sum
<1>6. s.s0 + RotateLeft(sum, RotA) \in Nat
  <2>1. RotateLeft(sum, RotA) \in Words
    BY <1>1, <1>5, RotateBack
  <2> QED
    BY <1>1, <2>1, WordFacts DEF Words
<1> QED
  BY <1>4, <1>5, <1>6 DEF Output, sum

\* A word rotated is a multiple of it modulo Word - 1.
LEMMA DivModSum ==
  ASSUME NEW s \in Nat \ {0}, NEW a \in Int, NEW r \in 0..(s - 1)
  PROVE  (a * s + r) \div s = a /\ (a * s + r) % s = r
<1> DEFINE n == a * s + r
<1>1. n \in Int /\ n = a * s + r
  OBVIOUS
<1> HIDE DEF n
<1>2. n \div s = a /\ n % s = r
  BY <1>1, DivMod
<1> QED
  BY <1>2 DEF n

LEMMA RotationTurns ==
  ASSUME NEW w \in Words, NEW r \in 0..WordBits
  PROVE  RotateLeft(w, r) = Turned(w, r)
<1> DEFINE e == 2 ^ r
           h == 2 ^ (WordBits - r)
           a == w \div h
           b == w % h
           M == Word - 1
           v == b * e + a
<1>1. /\ e \in Nat \ {0} /\ h \in Nat \ {0} /\ Word = h * e /\ Word = e * h
      /\ a \in 0..(e - 1) /\ b \in 0..(h - 1) /\ w = a * h + b
      /\ RotateLeft(w, r) = v
  BY RotateParts
<1>2. Word \in Nat \ {0} /\ w \in 0..M /\ M \in Nat \ {0}
  <2>1. Word \in Nat \ {0} /\ Word = 2 ^ WordBits /\ WordBits \in Nat \ {0} /\ w \in 0..M
    BY WordFacts DEF Words
  <2>2. 2 ^ ((WordBits - 1) + 1) = 2 * 2 ^ (WordBits - 1) /\ 2 ^ (WordBits - 1) \in Nat \ {0}
    BY <2>1, TwoNext, TwoPos
  <2>3. (WordBits - 1) + 1 = WordBits
    BY <2>1
  <2> QED
    BY <2>1, <2>2, <2>3
<1>3. v \in 0..M
  <2> HIDE DEF a, b, e, h
  <2> QED
    BY <1>1, <1>2, Compose
<1>4. w * e = a * M + v
  <2> HIDE DEF a, b, e, h
  <2>1. (a * h + b) * e = a * (h * e) + b * e
    BY <1>1
  <2>2. a * (M + 1) = a * M + a
    BY <1>1, <1>2
  <2>3. h * e = M + 1
    BY <1>1, <1>2
  <2> QED
    BY <1>1, <2>1, <2>2, <2>3
<1>5. w = M <=> v = M
  <2> HIDE DEF a, b, e, h
  <2>1. a * h \in Nat /\ b * e \in Nat
    BY <1>1
  <2>2. (e - 1) * h + (h - 1) = e * h - 1 /\ (h - 1) * e + (e - 1) = h * e - 1
    BY <1>1
  <2>3. a = e - 1 /\ b = h - 1 => w = M /\ v = M
    BY <1>1, <1>2, <2>2
  <2>4. w = M => a = e - 1 /\ b = h - 1
    <3>1. HAVE w = M
    <3>2. a * h + b = (e - 1) * h + (h - 1)
      BY <3>1, <1>1, <1>2, <2>2
    <3>3. (a * h + b) \div h = a /\ (a * h + b) % h = b
      <4>1. a \in Int /\ b \in Int
        BY <1>1
      <4> QED
        BY <4>1, <1>1, DivModSum
    <3> DEFINE c == e - 1
               d == h - 1
               x == c * h + d
    <3>4. c \in Int /\ d \in 0..(h - 1) /\ x \in Int
      BY <1>1
    <3>5. x = c * h + d
      OBVIOUS
    <3> HIDE DEF c, d, x
    <3>6. x \div h = c /\ x % h = d
      BY <3>4, <3>5, <1>1, DivMod
    <3> QED
      BY <3>2, <3>3, <3>6 DEF x, c, d
  <2>5. v = M => a = e - 1 /\ b = h - 1
    <3>1. HAVE v = M
    <3>2. b * e + a = (h - 1) * e + (e - 1)
      BY <3>1, <1>1, <1>2, <2>2
    <3>3. (b * e + a) \div e = b /\ (b * e + a) % e = a
      <4>1. a \in Int /\ b \in Int
        BY <1>1
      <4> QED
        BY <4>1, <1>1, DivModSum
    <3> DEFINE c == h - 1
               d == e - 1
               x == c * e + d
    <3>4. c \in Int /\ d \in 0..(e - 1) /\ x \in Int
      BY <1>1
    <3>5. x = c * e + d
      OBVIOUS
    <3> HIDE DEF c, d, x
    <3>6. x \div e = c /\ x % e = d
      BY <3>4, <3>5, <1>1, DivMod
    <3> QED
      BY <3>2, <3>3, <3>6 DEF x, c, d
  <2> QED
    BY <2>3, <2>4, <2>5
<1> HIDE DEF v, M, a, b
<1>6. CASE w = M
  BY <1>1, <1>5, <1>6 DEF Turned, M
<1>7. CASE w # M
  <2>1. v \in 0..(M - 1) /\ a \in Int
    BY <1>1, <1>2, <1>3, <1>5, <1>7
  <2> DEFINE x == w * e
  <2>2. x \in Int /\ x = a * M + v
    <3>1. x \in Int
      <4> HIDE DEF e
      <4> QED
        BY <1>1, <1>2
    <3> QED
      BY <3>1, <1>4
  <2> HIDE DEF x
  <2>3. x % M = v
    BY <1>2, <2>1, <2>2, DivMod
  <2> QED
    BY <1>1, <1>7, <2>3 DEF Turned, M, x
<1> QED
  BY <1>6, <1>7

LEMMA OutputFacts ==
  ASSUME NEW s \in Seeds
  PROVE  Output(s) = (s.s0 + Turned((s.s0 + s.s3) % Word, RotA)) % Word
<1>1. (s.s0 + s.s3) % Word \in Words
  <2>1. s.s0 + s.s3 \in Nat
    BY WordFacts DEF Seeds, Words
  <2> QED
    BY <2>1, WordFacts, DivNat DEF Words
<1>2. RotA \in 0..WordBits
  BY HashAssumption
<1> QED
  BY <1>1, <1>2, RotationTurns DEF Output

-----------------------------------------------------------------------------
(* A matrix that is drawn *)

\* How many words a row takes, and how many nibbles a word has.
LEMMA DrawnSizes ==
  /\ DNibbleBits \in Nat \ {0} /\ Drawn!PerWord \in Nat \ {0} /\ Drawn!PerRow \in Nat
  /\ DNibbleBits * Drawn!PerWord = WordBits /\ Drawn!PerRow * Drawn!PerWord = DN
  /\ DN * Drawn!PerRow \in Nat /\ DN \in Nat \ {0}
<1> DEFINE per == WordBits \div DNibbleBits
           row == DN \div per
<1>1. /\ DN \in Nat \ {0} /\ DNibbleBits \in Nat \ {0} /\ WordBits \in Nat \ {0}
      /\ WordBits % DNibbleBits = 0 /\ DN % per = 0
  BY DrawAssumption, WordFacts
<1>2. per \in Nat /\ WordBits = per * DNibbleBits + 0
  BY <1>1, DivNat
<1> HIDE DEF per
<1>3. per \in Nat \ {0} /\ DNibbleBits * per = WordBits
  BY <1>1, <1>2
<1>4. row \in Nat /\ DN = row * per + 0
  BY <1>1, <1>3, DivNat
<1>5. Drawn!PerWord = per /\ Drawn!PerRow = row
  BY Zenon DEF Drawn!PerWord, Drawn!PerRow, per, row
<1> HIDE DEF row
<1>6. row * per = DN /\ DN * row \in Nat
  BY <1>1, <1>3, <1>4
<1> QED
  BY <1>1, <1>3, <1>4, <1>5, <1>6

LEMMA DrawnSame ==
  /\ Drawn!Seeds = Seeds /\ \A s : Drawn!NextSeed(s) = NextSeed(s)
  /\ \A s : Drawn!Output(s) = Output(s)
  /\ \A n, f, t : Drawn!Repeat(n, f, t) = Repeat(n, f, t)
  /\ \A w, k : Drawn!Rsh(w, k) = w \div 2 ^ k
<1>1. Drawn!Seeds = Seeds /\ Drawn!Word = Word
  BY Zenon DEF Drawn!Seeds, Seeds, Drawn!Words, Words, Drawn!Word, Word
<1>2. \A n, f, t : Drawn!Repeat(n, f, t) = Repeat(n, f, t)
  BY Zenon DEF Drawn!Repeat, Repeat
<1>3. /\ \A n, x, y : Drawn!Xor(n, x, y) = Xor(n, x, y)
      /\ \A n, x, y : Drawn!Or(n, x, y) = Or(n, x, y)
  <2>1. \A n, x, y : Drawn!Xor(n, x, y) = Xor(n, x, y)
    BY Zenon DEF Drawn!Xor, Xor, Drawn!Number, Number, Drawn!Sums, Sums, Drawn!Repeat, Repeat,
                 Drawn!Bit, Bit
  <2>2. \A n, x, y : Drawn!Or(n, x, y) = Or(n, x, y)
    BY Zenon DEF Drawn!Or, Or, Drawn!Number, Number, Drawn!Sums, Sums, Drawn!Repeat, Repeat,
                 Drawn!Bit, Bit
  <2> QED
    BY <2>1, <2>2
<1>4. /\ \A w, k : Drawn!Rsh(w, k) = Rsh(w, k) /\ Rsh(w, k) = w \div 2 ^ k
      /\ \A w, k : Drawn!Lsh(w, k) = Lsh(w, k)
  BY <1>1, Zenon DEF Drawn!Rsh, Rsh, Drawn!Lsh, Lsh
<1>5. /\ \A w, k : Drawn!RotateLeft(w, k) = RotateLeft(w, k)
      /\ \A x, y : Drawn!XorU64(x, y) = XorU64(x, y)
  BY <1>3, <1>4, Zenon DEF Drawn!RotateLeft, RotateLeft, Drawn!XorU64, XorU64
<1>6. \A s : Drawn!NextSeed(s) = NextSeed(s)
  BY <1>4, <1>5, Zenon DEF Drawn!NextSeed, NextSeed
<1>7. \A s : Drawn!Output(s) = Output(s)
  BY <1>1, <1>5, Zenon DEF Drawn!Output, Output
<1> QED
  BY <1>1, <1>2, <1>4, <1>6, <1>7

\* The states the words of a matrix are drawn from.
Course(s) ==
  Repeat(DN * Drawn!PerRow, s,
         [k \in 0..(DN * Drawn!PerRow - 1) |-> [t \in Seeds |-> NextSeed(t)]])

LEMMA CourseTyped ==
  ASSUME NEW s \in Seeds
  PROVE  Course(s) \in [0..(DN * Drawn!PerRow) -> Seeds]
<1> DEFINE n == DN * Drawn!PerRow
           turn == [k \in 0..(n - 1) |-> [t \in Seeds |-> NextSeed(t)]]
<1>1. n \in Nat
  BY DrawnSizes
<1>2. turn \in [0..(n - 1) -> [Seeds -> Seeds]]
  BY NextSeedTyped
<1>3. Course(s) = Repeat(n, s, turn)
  BY Zenon DEF Course
<1> HIDE DEF n, turn
<1>4. Repeat(n, s, turn) \in [0..n -> Seeds]
  BY <1>1, <1>2, RepeatFacts
<1> QED
  BY <1>3, <1>4 DEF n

\* Each entry is a digit of its word.
LEMMA DrawnEntries ==
  ASSUME NEW s \in Seeds
  PROVE  LET per == Drawn!PerWord
         IN  /\ Drawn!Draw(s).seed = Course(s)[DN * Drawn!PerRow]
             /\ \A i \in 1..DN, w \in 0..(Drawn!PerRow - 1), k \in 0..(per - 1) :
                  Drawn!Draw(s).m[i][w * per + k + 1]
                    = (Output(Course(s)[(i - 1) * Drawn!PerRow + w]) \div 2 ^ (DNibbleBits * k))
                        % 2 ^ DNibbleBits
<1> DEFINE per == Drawn!PerWord
           row == Drawn!PerRow
           n == DN * row
           seeds == Course(s)
           Entry(i, j) == (Output(seeds[(i - 1) * row + (j - 1) \div per])
                             \div 2 ^ (DNibbleBits * ((j - 1) % per))) % 2 ^ DNibbleBits
<1>1. Drawn!Draw(s) = [m |-> [i \in 1..DN |-> [j \in 1..DN |-> Entry(i, j)]], seed |-> seeds[n]]
  <2>1. Drawn!Rows = 1..DN /\ Drawn!Nibble = 2 ^ DNibbleBits
    BY Zenon DEF Drawn!Rows, Drawn!Nibble
  <2> DEFINE drawn == Drawn!Repeat(n, s, [k \in 0..(n - 1) |-> [t \in Drawn!Seeds |-> Drawn!NextSeed(t)]])
  <2>2. drawn = seeds
    <3>1. [k \in 0..(n - 1) |-> [t \in Drawn!Seeds |-> Drawn!NextSeed(t)]]
            = [k \in 0..(n - 1) |-> [t \in Seeds |-> NextSeed(t)]]
      BY DrawnSame, Zenon
    <3> QED
      BY <3>1, DrawnSame, Zenon DEF Course
  <2>3. Drawn!Draw(s)
          = [m |-> [i \in Drawn!Rows |-> [j \in Drawn!Rows |->
                      Drawn!Rsh(Drawn!Output(drawn[(i - 1) * row + (j - 1) \div per]),
                                DNibbleBits * ((j - 1) % per)) % Drawn!Nibble]],
             seed |-> drawn[n]]
    BY Zenon DEF Drawn!Draw
  <2> HIDE DEF drawn, seeds, row, per, n
  <2> QED
    BY <2>1, <2>2, <2>3, DrawnSame, Zenon
<1>2. per \in Nat \ {0} /\ row \in Nat /\ row * per = DN
  BY DrawnSizes
<1> HIDE DEF per, row, n, seeds
<1>3. ASSUME NEW i \in 1..DN, NEW w \in 0..(row - 1), NEW k \in 0..(per - 1)
      PROVE  Drawn!Draw(s).m[i][w * per + k + 1]
               = (Output(seeds[(i - 1) * row + w]) \div 2 ^ (DNibbleBits * k)) % 2 ^ DNibbleBits
  <2> DEFINE j == w * per + k
  <2>1. j \in 0..(DN - 1)
    BY <1>2, Compose
  <2>2. j \div per = w /\ j % per = k
    <3>1. w \in Int
      BY <1>2
    <3> QED
      BY <1>2, <3>1, DivModSum
  <2>3. w * per + k + 1 = j + 1 /\ (j + 1) - 1 = j /\ j + 1 \in 1..DN
    BY <2>1, DrawnSizes
  <2> HIDE DEF j
  <2>4. Drawn!Draw(s).m[i][j + 1] = Entry(i, j + 1)
    <3> HIDE DEF Entry
    <3> QED
      BY <1>1, <2>3
  <2> QED
    BY <2>2, <2>3, <2>4
<1>4. Drawn!Draw(s).seed = seeds[n]
  <2> HIDE DEF Entry
  <2> QED
    BY <1>1
<1> QED
  BY <1>3, <1>4, Zenon DEF per, row, n, seeds

\* And the entries of a word make it.
LEMMA DrawnWords ==
  ASSUME NEW s \in Seeds, NEW i \in 1..DN, NEW w \in 0..(Drawn!PerRow - 1)
  PROVE  LET per    == Drawn!PerWord
             seed   == Course(s)[(i - 1) * Drawn!PerRow + w]
             nibble == [k \in 0..(per - 1) |-> Drawn!Draw(s).m[i][w * per + k + 1]]
         IN  /\ \A k \in 0..(per - 1) : nibble[k] \in 0..(Drawn!Nibble - 1)
             /\ Number(per, DNibbleBits, nibble)
                  = (seed.s0 + Turned((seed.s0 + seed.s3) % Word, RotA)) % Word
<1> DEFINE per == Drawn!PerWord
           row == Drawn!PerRow
           bits == DNibbleBits
           x == (i - 1) * row + w
           seed == Course(s)[x]
           nibble == [k \in 0..(per - 1) |-> Drawn!Draw(s).m[i][w * per + k + 1]]
           word == Output(seed)
<1>1. /\ per \in Nat \ {0} /\ row \in Nat /\ bits \in Nat \ {0} /\ bits * per = WordBits
      /\ DN \in Nat \ {0} /\ DN * row \in Nat
  BY DrawnSizes
<1>2. seed \in Seeds
  <2> DEFINE n == DN * row
             h == i - 1
  <2>1. h \in 0..(DN - 1) /\ w \in 0..(row - 1)
    BY <1>1
  <2> HIDE DEF h, row
  <2>2. h * row + w \in 0..(DN * row - 1)
    BY <1>1, <2>1, Compose
  <2>3. h * row + w \in 0..n
    BY <1>1, <2>2
  <2>4. Course(s) \in [0..n -> Seeds]
    BY CourseTyped DEF row
  <2> HIDE DEF n
  <2> QED
    BY <2>3, <2>4 DEF h
<1>3. word \in Words /\ word = (seed.s0 + Turned((seed.s0 + seed.s3) % Word, RotA)) % Word
  <2> HIDE DEF seed
  <2> QED
    BY <1>2, NextSeedTyped, OutputFacts
<1>4. \A k \in 0..(per - 1) : nibble[k] = (word \div 2 ^ (bits * k)) % 2 ^ bits
  BY DrawnEntries
<1>5. nibble = [k \in 0..(per - 1) |-> nibble[k]]
  OBVIOUS
<1> HIDE DEF nibble, word, per, bits
<1>6. word \in Nat /\ word \in 0..(2 ^ (bits * per) - 1)
  BY <1>1, <1>3, WordFacts DEF Words
<1>7. ASSUME NEW k \in 0..(per - 1) PROVE nibble[k] \in 0..(2 ^ bits - 1) /\ nibble[k] \in Nat
  <2>1. bits * k \in Nat
    BY <1>1
  <2> DEFINE p == 2 ^ (bits * k)
             q == 2 ^ bits
  <2>2. p \in Nat \ {0} /\ q \in Nat \ {0}
    BY <1>1, <2>1, TwoPos
  <2> HIDE DEF p, q
  <2>3. word \div p \in Nat
    BY <1>6, <2>2, DivNat
  <2>4. (word \div p) % q \in 0..(q - 1)
    BY <2>2, <2>3, DivNat
  <2> QED
    BY <1>4, <2>2, <2>4 DEF p, q
<1>8. nibble \in Digits(per)
  BY <1>5, <1>7 DEF Digits
<1>9. Number(per, bits, nibble) = word
  <2>1. IsDigits(per, bits, word, nibble)
    BY <1>4 DEF IsDigits
  <2> QED
    BY <2>1, <1>1, <1>6, <1>8, Expansion
<1>10. Drawn!Nibble = 2 ^ bits
  BY Zenon DEF Drawn!Nibble, bits
<1>11. \A k \in 0..(per - 1) : nibble[k] \in 0..(Drawn!Nibble - 1)
  BY <1>7, <1>10
<1> QED
  BY <1>3, <1>9, <1>11, Zenon DEF per, row, bits, x, seed, nibble

-----------------------------------------------------------------------------
(* heavy_hash *)

Halves == 0..(Nibble - 1)
MaxTerm == (Nibble - 1) * (Nibble - 1)

LEMMA NibbleFacts ==
  /\ NibbleBits \in Nat /\ 2 * NibbleBits \in Nat /\ 2 * NibbleBits - NibbleBits = NibbleBits
  /\ Nibble = 2 ^ NibbleBits /\ Octet = 2 ^ (2 * NibbleBits)
  /\ Nibble \in Nat \ {0} /\ Octet = Nibble * Nibble /\ Halves \subseteq Nat
<1>1. NibbleBits \in Nat
  BY HashAssumption
<1>2. 2 * NibbleBits = NibbleBits + NibbleBits /\ 2 * NibbleBits \in Nat
  BY <1>1
<1>3. 2 ^ (NibbleBits + NibbleBits) = 2 ^ NibbleBits * 2 ^ NibbleBits
  BY <1>1, TwoAdd
<1>4. 2 ^ NibbleBits \in Nat \ {0}
  BY <1>1, TwoPos
<1> QED
  BY <1>1, <1>2, <1>3, <1>4 DEF Nibble, Octet, Halves

\* The bytes that nibbles make.
BytesOf(v) == [i \in 1..(HN \div 2) |-> Nibble * v[2 * i - 1] + v[2 * i]]

LEMMA HalfHN == HN \in Nat \ {0} /\ HN = 2 * (HN \div 2) /\ HN \div 2 \in Nat
  BY HashAssumption

LEMMA OctetFacts ==
  ASSUME NEW a \in Halves, NEW b \in Halves
  PROVE  /\ Nibble * a + b \in 0..(Octet - 1)
         /\ (Nibble * a + b) \div Nibble = a /\ (Nibble * a + b) % Nibble = b
<1> DEFINE n == Nibble
           z == n * a + b
<1>1. n \in Nat \ {0} /\ a \in 0..(n - 1) /\ b \in 0..(n - 1) /\ Octet = n * n
  BY NibbleFacts DEF Halves
<1> HIDE DEF n
<1>2. a * n + b \in 0..(n * n - 1)
  BY <1>1, Compose
<1>3. z = a * n + b /\ z \in Int
  BY <1>1
<1> HIDE DEF z
<1>4. z \div n = a /\ z % n = b
  BY <1>1, <1>3, DivMod
<1> QED
  BY <1>1, <1>2, <1>3, <1>4 DEF z, n

\* A hash is taken apart into the nibbles that its bytes are made of.
LEMMA NibblesBack ==
  ASSUME NEW v \in [1..HN -> Halves], NEW j \in 1..HN
  PROVE  H!NibbleOf(BytesOf(v), j) = v[j]
<1>1. CASE j % 2 = 1
  <2> DEFINE i == (j + 1) \div 2
  <2>1. i \in 1..(HN \div 2) /\ 2 * i - 1 = j /\ 2 * i \in 1..HN
    BY <1>1, HalfHN
  <2> HIDE DEF i
  <2>2. v[2 * i - 1] \in Halves /\ v[2 * i] \in Halves
    BY <2>1
  <2>3. BytesOf(v)[i] = Nibble * v[2 * i - 1] + v[2 * i]
    BY <2>1 DEF BytesOf
  <2>4. BytesOf(v)[i] \div Nibble = v[2 * i - 1]
    BY <2>2, <2>3, OctetFacts
  <2>5. H!NibbleOf(BytesOf(v), j) = BytesOf(v)[i] \div Nibble
    BY <1>1 DEF H!NibbleOf, H!Nibble, Nibble, i
  <2> QED
    BY <2>1, <2>4, <2>5
<1>2. CASE j % 2 # 1
  <2> DEFINE i == j \div 2
  <2>1. i \in 1..(HN \div 2) /\ 2 * i = j /\ 2 * i - 1 \in 1..HN
    BY <1>2, HalfHN
  <2> HIDE DEF i
  <2>2. v[2 * i - 1] \in Halves /\ v[2 * i] \in Halves
    BY <2>1
  <2>3. BytesOf(v)[i] = Nibble * v[2 * i - 1] + v[2 * i]
    BY <2>1 DEF BytesOf
  <2>4. BytesOf(v)[i] % Nibble = v[2 * i]
    BY <2>2, <2>3, OctetFacts
  <2>5. H!NibbleOf(BytesOf(v), j) = BytesOf(v)[i] % Nibble
    BY <1>2 DEF H!NibbleOf, H!Nibble, Nibble, i
  <2> QED
    BY <2>1, <2>4, <2>5
<1> QED
  BY <1>1, <1>2

\* The product of a row and the nibbles, which leaves one nibble.
LEMMA DotFacts ==
  ASSUME NEW u \in [1..HN -> Halves], NEW v \in [1..HN -> Halves]
  PROVE  Dot(u, v) \in Nat /\ Dot(u, v) \div 2 ^ SumShift \in Halves
<1> DEFINE turn == [j \in 0..(HN - 1) |-> [sum \in Nat |-> sum + u[j + 1] * v[j + 1]]]
           zero == 0
           r == Repeat(HN, zero, turn)
           M == MaxTerm
<1>1. HN \in Nat \ {0} /\ zero \in Nat /\ Nibble \in Nat \ {0}
  BY HalfHN, NibbleFacts
<1>2. M \in Nat
  BY <1>1 DEF MaxTerm
<1>3. ASSUME NEW j \in 0..(HN - 1)
      PROVE  u[j + 1] * v[j + 1] \in 0..M
  <2> DEFINE x == u[j + 1]
             y == v[j + 1]
             n == Nibble - 1
  <2>1. j + 1 \in 1..HN
    BY <1>1
  <2>2. x \in 0..n /\ y \in 0..n /\ n \in Nat /\ M = n * n
    BY <1>1, <2>1 DEF Halves, MaxTerm
  <2> HIDE DEF x, y, n
  <2>3. x * y <= n * y /\ n * y <= n * n /\ x * y \in Nat
    BY <2>2
  <2>4. x * y \in 0..M
    <3>1. n * y \in Nat /\ n * n \in Nat
      BY <2>2
    <3> QED
      BY <2>2, <2>3, <3>1
  <2> QED
    BY <2>4 DEF x, y
<1> DEFINE t(j) == u[j + 1] * v[j + 1]
<1>4. \A j \in 0..(HN - 1) : t(j) \in 0..M /\ t(j) \in Nat
  BY <1>2, <1>3
<1>5. turn = [j \in 0..(HN - 1) |-> [sum \in Nat |-> sum + t(j)]]
  OBVIOUS
<1> HIDE DEF t, turn, M
<1>6. turn \in [0..(HN - 1) -> [Nat -> Nat]]
  BY <1>4, <1>5
<1>7. \A j \in 0..(HN - 1), sum \in Nat : turn[j][sum] = sum + t(j)
  BY <1>5
<1> HIDE DEF r, zero
<1>8. /\ r \in [0..HN -> Nat] /\ r[0] = zero
      /\ \A j \in 0..(HN - 1) : r[j + 1] = turn[j][r[j]]
  <2> DEFINE V == Nat
  <2>1. zero \in V /\ turn \in [0..(HN - 1) -> [V -> V]] /\ HN \in Nat
    BY <1>1, <1>6
  <2> HIDE DEF V
  <2>2. /\ Repeat(HN, zero, turn) \in [0..HN -> V] /\ Repeat(HN, zero, turn)[0] = zero
        /\ \A j \in 0..(HN - 1) :
             Repeat(HN, zero, turn)[j + 1] = turn[j][Repeat(HN, zero, turn)[j]]
    BY <2>1, RepeatFacts
  <2> QED
    BY <2>2 DEF r, V
<1> DEFINE T == {j \in 0..HN : r[j] <= j * M}
<1>9. 0 \in T
  <2>1. 0 * M = 0 /\ 0 \in 0..HN
    BY <1>1, <1>2
  <2> QED
    BY <2>1, <1>8 DEF zero
<1>10. ASSUME NEW j \in 0..(HN - 1), j \in T PROVE j + 1 \in T
  <2>1. j \in Nat /\ j + 1 \in 0..HN /\ j \in 0..HN
    BY <1>1
  <2>2. r[j] \in Nat /\ r[j] <= j * M /\ r[j + 1] = r[j] + t(j) /\ t(j) \in 0..M
    BY <2>1, <1>4, <1>7, <1>8, <1>10
  <2>3. (j + 1) * M = j * M + M /\ j * M \in Nat
    BY <2>1, <1>2
  <2>4. r[j + 1] <= (j + 1) * M
    BY <2>2, <2>3, <1>2
  <2> QED
    BY <2>1, <2>4
<1>11. r[HN] \in Nat /\ r[HN] <= HN * M
  <2>1. \A j \in 0..HN : j \in T
    <3> HIDE DEF T
    <3> QED
      BY <1>1, <1>9, <1>10, UpTo
  <2>2. HN \in 0..HN
    BY <1>1
  <2> QED
    BY <2>1, <2>2, <1>8
<1>12. Dot(u, v) = r[HN]
  BY DEF Dot, r, turn, t, zero
<1> DEFINE w == 2 ^ SumShift
           d == r[HN]
<1>13. w \in Nat \ {0} /\ d < Nibble * w /\ d \in Nat
  <2>1. w \in Nat \ {0}
    BY HashAssumption, TwoPos
  <2>2. HN * (Nibble - 1) * (Nibble - 1) = HN * M
    <3> DEFINE k == Nibble - 1
    <3>1. k \in Nat
      BY <1>1
    <3> HIDE DEF k
    <3>2. HN * k * k = HN * (k * k)
      BY <3>1, <1>1
    <3> QED
      BY <3>2 DEF k, M, MaxTerm
  <2>3. HN * M < Nibble * w
    BY <2>2, HashAssumption
  <2> DEFINE e == Nibble * w
             f == HN * M
  <2>4. e \in Nat /\ f \in Nat
    <3> HIDE DEF w
    <3> QED
      BY <2>1, <1>1, <1>2
  <2>5. f < e /\ r[HN] <= f /\ r[HN] \in Nat
    BY <2>3, <1>11
  <2> HIDE DEF e, f
  <2>6. r[HN] < e
    BY <2>4, <2>5
  <2> QED
    BY <2>1, <2>5, <2>6 DEF e
<1> HIDE DEF w, d
<1>14. d \div w \in 0..(Nibble - 1)
  <2> DEFINE q == d \div w
  <2>1. q \in Nat /\ q * w <= d
    <3>1. q \in Nat /\ d % w \in 0..(w - 1) /\ d = q * w + (d % w)
      BY <1>13, DivNat
    <3> HIDE DEF q
    <3>2. q * w \in Nat
      BY <3>1, <1>13
    <3> QED
      BY <3>1, <3>2, <1>13
  <2> HIDE DEF q
  <2>2. SUFFICES ASSUME q >= Nibble PROVE FALSE
    BY <2>1, <1>1 DEF q
  <2>3. q * w >= Nibble * w
    BY <2>1, <2>2, <1>1, <1>13
  <2>4. q * w \in Nat /\ Nibble * w \in Nat
    BY <2>1, <1>1, <1>13
  <2> QED
    BY <2>1, <2>3, <2>4, <1>13
<1> QED
  BY <1>12, <1>13, <1>14 DEF d, w, Halves

\* The loop of heavy_hash computes that product.
LEMMA SumIsDot ==
  ASSUME NEW m \in [1..HN -> [1..HN -> Halves]], NEW v \in [1..HN -> Halves],
         NEW row \in 1..HN
  PROVE  H!Sum(m, BytesOf(v), row) = Dot(m[row], v) \div 2 ^ SumShift
<1> DEFINE hash == BytesOf(v)
           code == [j \in 0..(HN - 1) |-> [sum \in Nat |->
                      sum + m[row][j + 1] * H!NibbleOf(hash, j + 1)]]
           dot == [j \in 0..(HN - 1) |-> [sum \in Nat |-> sum + m[row][j + 1] * v[j + 1]]]
<1>1. \A j \in 0..(HN - 1) : H!NibbleOf(hash, j + 1) = v[j + 1]
  <2> TAKE j \in 0..(HN - 1)
  <2>1. j + 1 \in 1..HN
    BY HalfHN
  <2> QED
    BY <2>1, NibblesBack
<1>2. code = dot
  <2> HIDE DEF hash
  <2> QED
    BY <1>1
<1>3. H!Sum(m, hash, row) = H!Rsh(H!Repeat(HN, 0, code)[HN], SumShift)
  BY Zenon DEF H!Sum
<1>4. H!Rsh(H!Repeat(HN, 0, code)[HN], SumShift) = Repeat(HN, 0, code)[HN] \div 2 ^ SumShift
  <2> HIDE DEF code
  <2>1. H!Repeat(HN, 0, code) = Repeat(HN, 0, code)
    BY Zenon DEF H!Repeat, Repeat
  <2> QED
    BY <2>1, Zenon DEF H!Rsh
<1>5. Dot(m[row], v) = Repeat(HN, 0, dot)[HN]
  BY Zenon DEF Dot
<1> HIDE DEF code, dot
<1> QED
  BY <1>2, <1>3, <1>4, <1>5, Zenon DEF hash

LEMMA HeavyFacts ==
  ASSUME NEW m \in [1..HN -> [1..HN -> Halves]], NEW v \in [1..HN -> Halves],
         NEW i \in 1..(HN \div 2)
  PROVE  Xor(2 * NibbleBits, H!Heavy(m, BytesOf(v))[i], BytesOf(v)[i])
           = Nibble * (Dot(m[2 * i - 1], v) \div 2 ^ SumShift) + (Dot(m[2 * i], v) \div 2 ^ SumShift)
<1> DEFINE hash == BytesOf(v)
           n == 2 * NibbleBits
           h == H!Sum(m, hash, 2 * i - 1)
           l == H!Sum(m, hash, 2 * i)
           b == hash[i]
<1>1. 2 * i - 1 \in 1..HN /\ 2 * i \in 1..HN
  BY HalfHN
<1>2. h = Dot(m[2 * i - 1], v) \div 2 ^ SumShift /\ l = Dot(m[2 * i], v) \div 2 ^ SumShift
  BY <1>1, SumIsDot
<1>3. m[2 * i - 1] \in [1..HN -> Halves] /\ m[2 * i] \in [1..HN -> Halves]
  BY <1>1
<1>4. h \in Halves /\ l \in Halves
  BY <1>2, <1>3, DotFacts
<1>5. b \in 0..(Octet - 1)
  <2>1. b = Nibble * v[2 * i - 1] + v[2 * i]
    BY DEF BytesOf
  <2>2. v[2 * i - 1] \in Halves /\ v[2 * i] \in Halves
    BY <1>1
  <2> HIDE DEF b
  <2> QED
    BY <2>1, <2>2, OctetFacts
<1>6. /\ Nibble \in Nat \ {0} /\ Octet = Nibble * Nibble /\ n \in Nat /\ NibbleBits \in 0..n
      /\ n - NibbleBits = NibbleBits /\ Octet = 2 ^ n /\ Nibble = 2 ^ NibbleBits
  BY NibbleFacts
<1>7. H!Heavy(m, hash)[i] = Xor(n, Or(n, (h * Nibble) % Octet, l % Octet), b)
  <2>1. H!Heavy(m, hash)[i]
          = H!Xor(n, H!Or(n, (h * H!Nibble) % H!Octet, l % H!Octet), b)
    BY DEF H!Heavy
  <2>2. H!Nibble = Nibble /\ H!Octet = Octet
    BY DEF H!Nibble, H!Octet, Nibble, Octet
  <2>3. \A x, y : H!Xor(n, x, y) = Xor(n, x, y)
    BY Zenon DEF H!Xor, Xor, H!Number, Number, H!Sums, Sums, H!Repeat, Repeat, H!Bit, Bit
  <2>4. \A x, y : H!Or(n, x, y) = Or(n, x, y)
    BY Zenon DEF H!Or, Or, H!Number, Number, H!Sums, Sums, H!Repeat, Repeat, H!Bit, Bit
  <2> HIDE DEF h, l, b, n, hash
  <2> QED
    BY <2>1, <2>2, <2>3, <2>4, Zenon
<1> HIDE DEF h, l, b, n, hash
<1> DEFINE x == Nibble * h + l
<1>8. x \in 0..(Octet - 1)
  BY <1>4, OctetFacts
<1>9. (h * Nibble) % Octet = h * Nibble /\ l % Octet = l /\ x = h * Nibble + l
  <2> DEFINE k == Nibble
  <2>1. k \in Nat \ {0} /\ h \in 0..(k - 1) /\ l \in 0..(k - 1) /\ Octet = k * k
    BY <1>4, <1>6 DEF Halves
  <2> HIDE DEF k
  <2>2. h * k \in Nat /\ h * k <= (k - 1) * k /\ (k - 1) * k = k * k - k /\ k * k \in Nat \ {0}
    BY <2>1
  <2>3. k <= k * k
    BY <2>1
  <2> DEFINE o == k * k
             y == h * k
  <2>4. y \in 0..(o - 1) /\ l \in 0..(o - 1) /\ o \in Nat \ {0}
    BY <2>1, <2>2, <2>3
  <2>5. k * h + l = y + l
    BY <2>1
  <2> HIDE DEF o, y
  <2>6. y % o = y /\ l % o = l
    BY <2>4, RestOnce
  <2> QED
    BY <2>1, <2>5, <2>6 DEF o, y, k
<1>10. Or(n, h * Nibble, l) = x
  <2>1. h \in 0..(2 ^ (n - NibbleBits) - 1) /\ l \in 0..(2 ^ NibbleBits - 1)
    BY <1>4, <1>6 DEF Halves
  <2>2. Or(n, h * 2 ^ NibbleBits, l) = h * 2 ^ NibbleBits + l
    BY <2>1, <1>6, OrApart
  <2> QED
    BY <2>2, <1>6, <1>9
<1> HIDE DEF x
<1>11. Xor(n, Xor(n, x, b), b) = x
  <2>1. x \in 0..(2 ^ n - 1) /\ b \in 0..(2 ^ n - 1) /\ n \in Nat
    BY <1>5, <1>6, <1>8
  <2>2. Xor(n, Xor(n, x, b), b) = Xor(n, x, Xor(n, b, b))
    BY <2>1, XorLaws
  <2>3. Xor(n, b, b) = 0 /\ Xor(n, x, 0) = x
    BY <2>1, XorLaws
  <2> QED
    BY <2>2, <2>3
<1> QED
  BY <1>2, <1>7, <1>9, <1>10, <1>11 DEF x, b, hash, n

-----------------------------------------------------------------------------
(* The inputs, and what each of them shows *)

\* The inputs are numbers of the given size.
InputOK ==
  /\ Is("pair") => input.x \in Uints /\ input.y \in Uints
  /\ Is("number") => input.x \in Uints
  /\ Is("long") => input.x \in C!Uints /\ C!Value(input.x) = input.n
  /\ Is("tree") => \E n \in Nat \ {0} : Len(input.leaves) = n /\ DOMAIN input.leaves = 1..n
  /\ Is("hash") => /\ input.m \in [1..HN -> [1..HN -> Halves]] /\ input.v \in [1..HN -> Halves]
                   /\ input.hash = BytesOf(input.v)
  /\ Is("seed") => input.s \in Seeds
  /\ Is("matrix") => input.m \in Matrices

\* A number that is cut to Size, and what is cut off.
LEMMA CutFacts ==
  ASSUME NEW n \in Int, NEW v \in 0..(Size - 1), NEW c \in Int, n = v + c * Size
  PROVE  v = n % Size /\ c = n \div Size /\ (c # 0) = (n # n % Size)
<1>1. Size \in Nat \ {0}
  BY WordFacts
<1>2. c * Size \in Int /\ v \in Int
  BY <1>1
<1>3. n = c * Size + v
  BY <1>2
<1>4. n \div Size = c /\ n % Size = v
  BY <1>1, <1>3, DivMod
<1>5. (c # 0) = (n # v)
  <2>1. c = 0 => c * Size = 0
    BY <1>1
  <2>2. c # 0 => c * Size # 0
    BY <1>1
  <2> QED
    BY <2>1, <2>2, <1>2
<1> QED
  BY <1>4, <1>5

LEMMA SumsRight == InputOK => SumsExact
<1> SUFFICES ASSUME InputOK, Is("pair") PROVE SumsExact
  BY DEF SumsExact
<1> DEFINE x == input.x
           y == input.y
           X == Value(x)
           Y == Value(y)
           n == y[0]
           Exact(r, k) == Value(r.val) = k % Size /\ (r.carry = 1) = (k # k % Size)
<1>1. x \in Uints /\ y \in Uints
  BY DEF InputOK
<1> HIDE DEF x, y
<1>2. X \in 0..(Size - 1) /\ Y \in 0..(Size - 1) /\ n \in Words /\ Word <= Size
      /\ n \in 0..(Word - 1)
  <2>1. 0 \in Index
    BY WordFacts DEF Index
  <2>2. n \in 0..(Word - 1)
    BY <2>1, <1>1, UintFacts
  <2>3. Word <= Size
    <3>1. WordBits * Limbs \in Nat /\ WordBits \in Nat /\ WordBits <= WordBits * Limbs
      BY WordFacts
    <3> QED
      BY <3>1, TwoMono, WordFacts
  <2> QED
    BY <2>2, <2>3, <1>1, UintFacts DEF Words
<1>0. Size \in Nat \ {0} /\ Word \in Nat
  BY WordFacts
<1>3. Exact(OverflowingAdd(x, y), X + Y)
  <2> DEFINE r == OverflowingAdd(x, y)
  <2>1. r.val \in Uints /\ r.carry \in {0, 1} /\ Value(r.val) + r.carry * Size = X + Y
    BY <1>1, AddFacts
  <2>2. Value(r.val) \in 0..(Size - 1)
    BY <2>1, UintFacts
  <2> DEFINE v == Value(r.val)
             c == r.carry
             k == X + Y
  <2>3. v \in 0..(Size - 1) /\ c \in {0, 1} /\ c \in Int /\ k \in Int /\ k = v + c * Size
    BY <2>1, <2>2, <1>0, <1>2
  <2> HIDE DEF r, v, c, k
  <2>4. v = k % Size /\ (c # 0) = (k # k % Size)
    BY <2>3, CutFacts
  <2>5. v = k % Size /\ (c = 1) = (k # k % Size)
    BY <2>3, <2>4
  <2> QED
    BY <2>5 DEF v, c, k, r
<1>4. Exact(OverflowingAddU64(x, n), X + n)
  <2> DEFINE r == OverflowingAddU64(x, n)
             v == Value(r.val)
             c == r.carry
             k == X + n
  <2>1. r.val \in Uints /\ c \in Nat /\ v + c * Size = k
    BY <1>1, <1>2, AddU64Facts
  <2>2. v \in 0..(Size - 1)
    BY <2>1, UintFacts
  <2>3. c \in Int /\ k \in Int /\ k = v + c * Size /\ k < 2 * Size
    BY <2>1, <1>0, <1>2
  <2> HIDE DEF r, v, c, k
  <2>4. c \in {0, 1}
    <3>1. SUFFICES ASSUME c >= 2 PROVE FALSE
      BY <2>1
    <3>2. c * Size >= 2 * Size /\ c * Size \in Nat
      BY <3>1, <2>1, <1>0
    <3> QED
      BY <3>2, <2>2, <2>3, <1>0
  <2>5. v = k % Size /\ (c # 0) = (k # k % Size)
    BY <2>2, <2>3, CutFacts
  <2>6. v = k % Size /\ (c = 1) = (k # k % Size)
    BY <2>4, <2>5
  <2> QED
    BY <2>6 DEF v, c, k, r
<1>5. Exact(OverflowingSub(x, y), X - Y)
  <2> DEFINE r == OverflowingSub(x, y)
             v == Value(r.val)
             c == r.carry
             k == X - Y
  <2>1. r.val \in Uints /\ c \in {0, 1} /\ X + c * Size = v + Y
    BY <1>1, SubFacts
  <2>2. v \in 0..(Size - 1)
    BY <2>1, UintFacts
  <2> DEFINE b == -c
  <2>3. b \in Int /\ k \in Int /\ k = v + b * Size
    BY <2>1, <2>2, <1>0, <1>2
  <2> HIDE DEF r, v, k, b
  <2>4. v = k % Size /\ (b # 0) = (k # k % Size)
    BY <2>2, <2>3, CutFacts
  <2>5. (b # 0) = (c = 1)
    BY <2>1 DEF b
  <2>6. v = k % Size /\ (c = 1) = (k # k % Size)
    BY <2>4, <2>5
  <2> HIDE DEF c
  <2> QED
    BY <2>6 DEF v, k, r, c
<1> QED
  BY <1>3, <1>4, <1>5 DEF SumsExact, x, y

LEMMA ProductsRight == InputOK => ProductsExact
<1> SUFFICES ASSUME InputOK, Is("pair") PROVE ProductsExact
  BY DEF ProductsExact
<1> DEFINE x == input.x
           y == input.y
           X == Value(x)
           Y == Value(y)
           n == y[0]
           p == OverflowingMul(x, y)
           w == CarryingMulU64(x, n)
<1>1. x \in Uints /\ y \in Uints
  BY DEF InputOK
<1> HIDE DEF x, y
<1>2. X \in Nat /\ Y \in Nat /\ n \in Words /\ n \in Nat /\ Size \in Nat \ {0}
  <2>1. 0 \in Index
    BY WordFacts DEF Index
  <2>2. n \in 0..(Word - 1)
    BY <2>1, <1>1, UintFacts
  <2> QED
    BY <2>2, <1>1, UintFacts, WordFacts DEF Words
<1>3. Value(p.val) = (X * Y) % Size /\ (p.flag => X * Y >= Size)
  <2>1. PICK q \in Nat : X * Y = Value(p.val) + q * Size /\ (p.flag => q > 0)
    BY <1>1, MulFacts
  <2>2. Value(p.val) \in 0..(Size - 1)
    BY <1>1, MulFacts, UintFacts
  <2> DEFINE v == Value(p.val)
             k == X * Y
  <2>3. k \in Int /\ q \in Int /\ k = v + q * Size
    <3>1. k \in Nat
      <4> HIDE DEF X, Y
      <4> QED
        BY <1>2
    <3> QED
      BY <3>1, <2>1
  <2> HIDE DEF v, k
  <2>4. v = k % Size
    BY <2>2, <2>3, CutFacts DEF v
  <2>5. p.flag => k >= Size
    <3>1. SUFFICES ASSUME p.flag PROVE k >= Size
      OBVIOUS
    <3>2. q > 0
      BY <3>1, <2>1
    <3>3. q * Size >= Size /\ q * Size \in Nat
      BY <3>2, <1>2
    <3>4. v \in Nat
      BY <2>2, <1>2 DEF v
    <3> HIDE DEF p
    <3> QED
      BY <3>3, <3>4, <2>3, <1>2
  <2> QED
    BY <2>4, <2>5 DEF v, k
<1>4. Value(w.val) = (X * n) % Size /\ w.carry = (X * n) \div Size
  <2> DEFINE v == Value(w.val)
             c == w.carry
             k == n * X
  <2>1. w.val \in Uints /\ c \in Nat /\ v + c * Size = k
    BY <1>1, <1>2, MulU64Facts
  <2>2. v \in 0..(Size - 1)
    BY <2>1, UintFacts
  <2>3. k \in Int /\ k = X * n
    <3> HIDE DEF X, n
    <3> QED
      BY <1>2
  <2>4. k = v + c * Size /\ c \in Int
    BY <2>1
  <2> HIDE DEF v, c, k
  <2>5. v = k % Size /\ c = k \div Size
    BY <2>2, <2>3, <2>4, CutFacts
  <2> QED
    BY <2>3, <2>5 DEF v, c
<1> QED
  BY <1>3, <1>4 DEF ProductsExact, x, y

LEMMA ShiftsRight == InputOK => ShiftsExact
<1> SUFFICES ASSUME InputOK, Is("number"), NEW s \in 0..(2 * BITS)
             PROVE  LET X == Value(input.x)
                        l == OverflowingShl(input.x, s)
                        r == OverflowingShr(input.x, s)
                    IN  /\ Value(l.val) = (X * 2 ^ (s % BITS)) % Size
                        /\ Value(r.val) = X \div 2 ^ (s % BITS)
                        /\ l.flag = (s >= BITS) /\ r.flag = l.flag
  BY DEF ShiftsExact
<1> DEFINE x == input.x
           X == Value(x)
           l == OverflowingShl(x, s)
           r == OverflowingShr(x, s)
           p == 2 ^ (s % BITS)
<1>1. x \in Uints
  BY DEF InputOK
<1> HIDE DEF x
<1>2. X \in Nat /\ s \in Nat
  BY <1>1, UintFacts, WordFacts
<1>3. l.val \in Uints /\ l.flag = (s >= BITS) /\ \E q \in Nat : X * p = Value(l.val) + q * Size
  BY <1>1, <1>2, ShlFacts
<1>4. r.val \in Uints /\ r.flag = (s >= BITS) /\ p \in Nat \ {0}
      /\ \E e \in 0..(p - 1) : X = Value(r.val) * p + e
  BY <1>1, <1>2, ShrFacts
<1> HIDE DEF X, l, r, p
<1>5. Value(l.val) = (X * p) % Size
  <2>1. PICK q \in Nat : X * p = Value(l.val) + q * Size
    BY <1>3
  <2>2. Value(l.val) \in 0..(Size - 1)
    BY <1>3, UintFacts
  <2> DEFINE k == X * p
  <2>3. k \in Int /\ q \in Int
    BY <1>2, <1>4
  <2> HIDE DEF k
  <2>4. k = Value(l.val) + q * Size
    BY <2>1 DEF k
  <2>5. Value(l.val) = k % Size
    BY <2>2, <2>3, <2>4, CutFacts
  <2> QED
    BY <2>5 DEF k
<1>6. Value(r.val) = X \div p
  <2>1. PICK e \in 0..(p - 1) : X = Value(r.val) * p + e
    BY <1>4
  <2>2. Value(r.val) \in Int
    BY <1>4, UintFacts, WordFacts
  <2> QED
    BY <2>1, <2>2, <1>2, <1>4, DivMod
<1> QED
  BY <1>3, <1>4, <1>5, <1>6 DEF X, l, r, p, x

LEMMA OrderRight == InputOK => OrderExact
<1> SUFFICES ASSUME InputOK, Is("pair") PROVE OrderExact
  BY DEF OrderExact
<1> DEFINE x == input.x
           y == input.y
<1>1. x \in Uints /\ y \in Uints
  BY DEF InputOK
<1> HIDE DEF x, y
<1>2. Less(x, y) = (Value(x) < Value(y))
  BY <1>1, LessIff
<1>3. \A n \in Words : LessU64(x, n) = (Value(x) < n) /\ EqU64(x, n) = (Value(x) = n)
  BY <1>1, WordOrder
<1>4. 2 ^ Bits(x) > Value(x) /\ (Value(x) > 0 => 2 ^ (Bits(x) - 1) <= Value(x))
  <2>1. Value(x) < 2 ^ Bits(x) /\ (Value(x) > 0 => 2 ^ (Bits(x) - 1) <= Value(x))
    BY <1>1, BitsFacts
  <2> QED
    BY <2>1
<1>5. \A b \in 0..(BITS - 1) : BeBit(x, b) = (Value(x) \div 2 ^ (BITS - 1 - b)) % 2
  BY <1>1, BeBitFacts
<1> QED
  BY <1>2, <1>3, <1>4, <1>5 DEF OrderExact, x, y

LEMMA BytesRight == InputOK => BytesExact
<1> SUFFICES ASSUME InputOK, Is("number") PROVE BytesExact
  BY DEF BytesExact
<1> DEFINE x == input.x
<1>1. x \in Uints
  BY DEF InputOK
<1> HIDE DEF x
<1>2. DOMAIN ToLeBytes(x) = 0..(BYTES - 1)
  BY DEF ToLeBytes
<1>3. ASSUME NEW b \in 0..(BYTES - 1)
      PROVE  /\ ToLeBytes(x)[b] = (Value(x) \div 2 ^ (ByteBits * b)) % Byte
             /\ ToBeBytes(x)[BYTES - 1 - b] = ToLeBytes(x)[b]
  <2> DEFINE i == b \div WordBytes
             k == b % WordBytes
  <2>1. i \in Index /\ k \in 0..(WordBytes - 1) /\ b = i * WordBytes + k
    BY ByteOf
  <2> HIDE DEF i, k
  <2>2. /\ ToLeBytes(x)[i * WordBytes + k] = (x[i] \div 2 ^ (ByteBits * k)) % Byte
        /\ ToBeBytes(x)[BYTES - 1 - (i * WordBytes + k)]
             = (x[i] \div 2 ^ (ByteBits * k)) % Byte
    BY <2>1, <1>1, ToBytesFacts
  <2>3. (Value(x) \div 2 ^ (ByteBits * (i * WordBytes + k))) % Byte
          = (x[i] \div 2 ^ (ByteBits * k)) % Byte
    BY <2>1, <1>1, NumberByte
  <2> QED
    BY <2>1, <2>2, <2>3, Zenon
<1>4. FromLeBytes(ToLeBytes(x)) = x /\ FromBeBytes(ToBeBytes(x)) = x
  BY <1>1, FromBytesFacts
<1> QED
  BY <1>2, <1>3, <1>4 DEF BytesExact, x

LEMMA QuotientsRight == InputOK => QuotientsExact
<1> SUFFICES ASSUME InputOK, Is("pair") PROVE QuotientsExact
  BY DEF QuotientsExact
<1> DEFINE x == input.x
           y == input.y
           X == Value(x)
           Y == Value(y)
           n == y[0]
<1>1. x \in Uints /\ y \in Uints
  BY DEF InputOK
<1> HIDE DEF x, y
<1>2. X \in Nat /\ Y \in Nat /\ n \in Words /\ n \in Nat
  <2>1. 0 \in Index
    BY WordFacts DEF Index
  <2>2. n \in 0..(Word - 1)
    BY <2>1, <1>1, UintFacts
  <2> QED
    BY <2>2, <1>1, UintFacts, WordFacts DEF Words
<1>3. ASSUME Y # 0
      PROVE  Value(DivRem(x, y).quo) = X \div Y /\ Value(DivRem(x, y).rem) = X % Y
  <2> DEFINE q == Value(DivRem(x, y).quo)
             r == Value(DivRem(x, y).rem)
  <2>1. /\ DivRem(x, y).quo \in Uints /\ DivRem(x, y).rem \in Uints
        /\ X = q * Y + r /\ r < Y
    <3>1. Value(y) > 0
      BY <1>2, <1>3
    <3> QED
      BY <3>1, <1>1, DivRemFacts
  <2>2. q \in Int /\ r \in Nat
    BY <2>1, UintFacts, WordFacts
  <2> HIDE DEF q, r, X, Y
  <2>3. Y \in Nat \ {0} /\ X \in Int /\ r \in 0..(Y - 1)
    BY <2>1, <2>2, <1>2, <1>3
  <2>4. X \div Y = q /\ X % Y = r
    BY <2>1, <2>2, <2>3, DivMod
  <2> QED
    BY <2>4 DEF q, r
<1>4. ASSUME n # 0
      PROVE  Value(DivRemU64(x, n).val) = X \div n /\ DivRemU64(x, n).carry = X % n
  <2> DEFINE q == Value(DivRemU64(x, n).val)
             r == DivRemU64(x, n).carry
  <2> HIDE DEF n
  <2>1. q \in Nat /\ r \in 0..(n - 1) /\ X = q * n + r
    BY <1>1, <1>2, <1>4, DivU64Facts
  <2> HIDE DEF q, r, X
  <2>2. X \in Int /\ n \in Nat \ {0} /\ q \in Int
    BY <2>1, <1>2, <1>4
  <2>3. X \div n = q /\ X % n = r
    BY <2>1, <2>2, DivMod
  <2> QED
    BY <2>3 DEF q, r, n
<1> QED
  BY <1>3, <1>4 DEF QuotientsExact, x, y

LEMMA InverseRight == InputOK => InverseExact
<1> SUFFICES ASSUME InputOK, Is("pair"), Value(input.y) >= 2
             PROVE  LET X == Value(input.x)
                        P == Value(input.y)
                        inv == ModInverse(input.x, input.y)
                    IN  IF inv = {} THEN \A k \in 1..(P - 1) : (X * k) % P # 1
                        ELSE \A v \in inv : Value(v) < P /\ ((X % P) * Value(v)) % P = 1
  BY DEF InverseExact
<1> DEFINE x == input.x
           y == input.y
           X == Value(x)
           P == Value(y)
           st == EuclidEnd(x, y)
           t == Magnitude(st.t)
           s == Magnitude(st.newt)
           T == Whole(st.t)
           S == Whole(st.newt)
           r == Magnitude(st.r)
           v == IF st.t.negative THEN OverflowingSub(y, st.t.abs).val ELSE st.t.abs
           inv == ModInverse(x, y)
<1>1. x \in Uints /\ y \in Uints
  BY DEF InputOK
<1> HIDE DEF x, y
<1>2. X \in Nat /\ P \in Nat /\ P >= 2
  BY <1>1, UintFacts, WordFacts DEF y
<1>3. Going(X, P, st) /\ Magnitude(st.newr) = 0
  BY <1>1, <1>2, EuclidEndFacts
<1>4. inv = IF ~st.r.negative /\ ~EqU64(st.r.abs, 1) THEN {} ELSE {v}
  BY Zenon DEF ModInverse
<1> HIDE DEF st
<1>5. /\ st.t \in Signeds /\ st.newt \in Signeds /\ st.r \in Signeds /\ ~st.r.negative
      /\ Coprime(X, P, t, s, T, S, r, 0)
  BY <1>3 DEF Going, EuclidStates
<1>6. /\ t \in Nat /\ s \in Nat /\ T \in Int /\ S \in Int /\ r \in Nat
      /\ st.t.abs \in Uints /\ st.r.abs \in Uints
      /\ st.t.negative => T = -t
      /\ ~st.t.negative => T = t
  BY <1>5, SignedFacts
<1>7. EqU64(st.r.abs, 1) = (r = 1)
  <2> DEFINE one == 1
  <2>1. one \in Words
    <3>1. 0 \in Index
      BY WordFacts DEF Index
    <3>2. FromU64(1)[0] \in Words /\ FromU64(1)[0] = 1
      BY <3>1, OneFacts DEF FromU64, Uints, ZERO
    <3> QED
      BY <3>2
  <2> HIDE DEF one
  <2>2. EqU64(st.r.abs, one) = (Value(st.r.abs) = one)
    BY <2>1, <1>6, WordOrder
  <2> QED
    BY <2>2 DEF one, Magnitude
<1>8. CASE r # 1
  <2>1. inv = {}
    BY <1>4, <1>5, <1>7, <1>8
  <2> HIDE DEF t, s, T, S, r, X, P
  <2>2. ASSUME NEW k \in 1..(P - 1) PROVE (X * k) % P # 1
    <3>1. k \in Nat
      OBVIOUS
    <3> QED
      BY <3>1, <1>2, <1>5, <1>6, <1>8, CoprimeNone
  <2> QED
    BY <2>1, <2>2 DEF X, P, x, y
<1>9. CASE r = 1
  <2>1. inv = {v}
    BY <1>4, <1>7, <1>9
  <2>2. t < P
    BY <1>5 DEF Coprime
  <2>3. PICK z \in Int : T * X = 1 + z * P
    <3> HIDE DEF t, s, T, S, r, X, P
    <3>1. \E z \in Int : T * X = r + z * P
      BY <1>5 DEF Coprime
    <3> QED
      BY <3>1, <1>9
  <2> DEFINE V == Value(v)
  <2>4. T # 0
    <3>1. SUFFICES ASSUME T = 0 PROVE FALSE
      OBVIOUS
    <3> HIDE DEF T, X, P
    <3>2. 0 = 1 + z * P
      <4>1. T * X = 0
        BY <3>1, <1>2
      <4> QED
        BY <4>1, <2>3
    <3>3. CASE z >= 0
      <4>1. z * P >= 0 /\ z * P \in Int
        BY <3>3, <1>2
      <4> DEFINE w == z * P
      <4>2. w >= 0 /\ w \in Int /\ 0 = 1 + w
        BY <4>1, <3>2
      <4> HIDE DEF w
      <4> QED
        BY <4>2
    <3>4. CASE z <= -1
      <4>1. z * P <= -P
        BY <3>4, <1>2
      <4>2. z * P \in Int
        BY <1>2
      <4> QED
        BY <4>1, <4>2, <3>2, <1>2
    <3> QED
      BY <3>3, <3>4
  <2>5. V \in Int /\ V < P /\ (V = T \/ V = P + T)
    <3>1. CASE st.t.negative
      <4>1. v = OverflowingSub(y, st.t.abs).val /\ T = -t
        BY <3>1, <1>6
      <4>2. Value(OverflowingSub(y, st.t.abs).val) = P - t
        <5>1. Value(st.t.abs) <= Value(y)
          BY <2>2, <1>2, <1>6 DEF Magnitude
        <5> QED
          BY <5>1, <1>1, <1>6, SubExact DEF Magnitude
      <4> HIDE DEF v, t, T, X, P
      <4>3. V = P - t
        BY <4>1, <4>2
      <4> HIDE DEF V
      <4> QED
        BY <4>1, <4>3, <2>2, <2>4, <1>2, <1>6
    <3>2. CASE ~st.t.negative
      <4>1. v = st.t.abs /\ T = t
        BY <3>2, <1>6
      <4>2. V = t
        BY <4>1 DEF Magnitude
      <4> HIDE DEF v, t, T, X, P, V
      <4> QED
        BY <4>1, <4>2, <2>2, <1>2, <1>6
    <3> QED
      BY <3>1, <3>2
  <2> HIDE DEF V, T, X, P
  <2>6. ((X % P) * V) % P = 1
    BY <2>3, <2>5, <1>2, <1>6, CoprimeInverse
  <2> HIDE DEF v, inv
  <2>7. inv # {} /\ \A w \in inv : Value(w) < P /\ ((X % P) * Value(w)) % P = 1
    BY <2>1, <2>5, <2>6 DEF V
  <2> QED
    BY <2>7 DEF X, P, inv, x, y
<1> QED
  BY <1>8, <1>9

-----------------------------------------------------------------------------
(* Targets: numbers of one limb more *)

\* The lemmas for numbers of one limb more are about operators of their own, which
\* are those of Wide.
WideL == INSTANCE UintLemmas WITH Limbs <- Limbs + 1

LEMMA WideNumber ==
  \A n, bits, t : Wide!Number(n, bits, t) = Number(n, bits, t)
                  /\ WideL!Number(n, bits, t) = Number(n, bits, t)
  BY Zenon DEF Number, Sums, Repeat, Wide!Number, Wide!Sums, Wide!Repeat,
               WideL!Number, WideL!Sums, WideL!Repeat

LEMMA WideValue ==
  \A x : /\ Wide!Value(x) = Number(Limbs + 1, WordBits, x)
         /\ WideL!Value(x) = Number(Limbs + 1, WordBits, x)
  BY WideNumber, Zenon DEF Wide!Value, WideL!Value

LEMMA WideSets ==
  /\ Wide!Uints = WideL!Uints /\ Wide!Uints = [0..Limbs -> Words]
  /\ Wide!Rounds = WideL!Rounds /\ Wide!ZERO = WideL!ZERO
<1>1. (Limbs + 1) - 1 = Limbs
  BY WordFacts
<1>2. /\ Wide!Index = 0..Limbs /\ WideL!Index = 0..Limbs
      /\ Wide!Words = Words /\ WideL!Words = Words
  BY <1>1 DEF Wide!Index, WideL!Index, Wide!Words, WideL!Words, Words, Wide!Word, WideL!Word, Word
<1> QED
  BY <1>2, Zenon DEF Wide!Uints, WideL!Uints, Wide!Rounds, WideL!Rounds, Wide!ZERO, WideL!ZERO

LEMMA WideOr == \A n, a, b : Wide!Or(n, a, b) = WideL!Or(n, a, b)
  BY WideNumber, Zenon DEF Wide!Or, WideL!Or, Wide!Bit, WideL!Bit

LEMMA WideLoops ==
  /\ \A words : Wide!Each(words) = WideL!Each(words)
  /\ \A x, y : Wide!OverflowingSub(x, y) = WideL!OverflowingSub(x, y)
  BY Zenon DEF Wide!Each, WideL!Each, Wide!OverflowingSub, WideL!OverflowingSub,
       Wide!BorrowingSub, WideL!BorrowingSub, Wide!Upwards, WideL!Upwards, Wide!Loop, WideL!Loop,
       Wide!Index, WideL!Index, Wide!ZERO, WideL!ZERO, Wide!Word, WideL!Word

LEMMA WideShifts ==
  /\ \A x, s : Wide!OverflowingShl(x, s) = WideL!OverflowingShl(x, s)
  /\ \A x, s : Wide!OverflowingShr(x, s) = WideL!OverflowingShr(x, s)
<1>1. \A x, s : Wide!OverflowingShl(x, s) = WideL!OverflowingShl(x, s)
  BY WideOr, WideLoops, ZenonT(30)
     DEF Wide!OverflowingShl, WideL!OverflowingShl, Wide!Index, WideL!Index, Wide!BITS, WideL!BITS,
         Wide!Lsh, WideL!Lsh, Wide!Rsh, WideL!Rsh, Wide!Word, WideL!Word
<1>2. \A x, s : Wide!OverflowingShr(x, s) = WideL!OverflowingShr(x, s)
  BY WideOr, WideLoops, ZenonT(30)
     DEF Wide!OverflowingShr, WideL!OverflowingShr, Wide!Index, WideL!Index, Wide!BITS, WideL!BITS,
         Wide!Lsh, WideL!Lsh, Wide!Rsh, WideL!Rsh, Wide!Word, WideL!Word
<1> QED
  BY <1>1, <1>2, Zenon

LEMMA WideDivRem == \A x, y : Wide!DivRem(x, y) = WideL!DivRem(x, y)
<1> TAKE x, y
<1>1. \A z : Wide!Bits(z) = WideL!Bits(z)
  BY Zenon DEF Wide!Bits, WideL!Bits, Wide!IsZero, WideL!IsZero, Wide!Index, WideL!Index,
               Wide!WordLength, WideL!WordLength
<1>2. \A u, v : Wide!Less(u, v) = WideL!Less(u, v) /\ Wide!SetBit(u, v) = WideL!SetBit(u, v)
  BY WideOr, Zenon DEF Wide!Less, WideL!Less, Wide!Index, WideL!Index, Wide!SetBit, WideL!SetBit
<1>3. \A st, m : Wide!DivRound(st, m) = WideL!DivRound(st, m)
  BY <1>2, WideLoops, WideShifts, Zenon DEF Wide!DivRound, WideL!DivRound
<1>4. \A n, first, turn : Wide!Repeat(n, first, turn) = WideL!Repeat(n, first, turn)
  BY Zenon DEF Wide!Repeat, WideL!Repeat
<1> DEFINE TurnW(top) == [k \in 0..top |-> [st \in Wide!Rounds |-> Wide!DivRound(st, top - k)]]
           TurnL(top) == [k \in 0..top |-> [st \in WideL!Rounds |-> WideL!DivRound(st, top - k)]]
<1>5. \A top : TurnW(top) = TurnL(top)
  <2>1. \A top, k : [st \in Wide!Rounds |-> Wide!DivRound(st, top - k)]
                    = [st \in WideL!Rounds |-> WideL!DivRound(st, top - k)]
    BY <1>3, WideSets, Zenon
  <2> TAKE top
  <2>2. \A k \in 0..top : TurnW(top)[k] = TurnL(top)[k]
    BY <2>1
  <2> QED
    BY <2>1, SMT
<1> DEFINE top == Wide!Bits(x) - Wide!Bits(y)
           first == [sub |-> x, ret |-> Wide!ZERO, shifted |-> Wide!OverflowingShl(y, top).val]
           last == Wide!Repeat(top + 1, first, TurnW(top))[top + 1]
<1>6. Wide!DivRem(x, y) = IF Wide!Bits(x) < Wide!Bits(y) THEN [quo |-> Wide!ZERO, rem |-> x]
                          ELSE [quo |-> last.ret, rem |-> last.sub]
  BY Zenon DEF Wide!DivRem
<1> DEFINE topL == WideL!Bits(x) - WideL!Bits(y)
           firstL == [sub |-> x, ret |-> WideL!ZERO, shifted |-> WideL!OverflowingShl(y, topL).val]
           lastL == WideL!Repeat(topL + 1, firstL, TurnL(topL))[topL + 1]
<1>7. WideL!DivRem(x, y) = IF WideL!Bits(x) < WideL!Bits(y) THEN [quo |-> WideL!ZERO, rem |-> x]
                           ELSE [quo |-> lastL.ret, rem |-> lastL.sub]
  BY Zenon DEF WideL!DivRem
<1>8. top = topL
  BY <1>1, Zenon
<1>9. first = firstL
  BY <1>8, WideSets, WideShifts, Zenon
<1> HIDE DEF TurnW, TurnL, first, firstL
<1>10. last = lastL
  BY <1>4, <1>5, <1>8, <1>9, Zenon
<1> QED
  BY <1>1, <1>6, <1>7, <1>10, WideSets, Zenon

\* What one limb more adds.
LEMMA NarrowFacts ==
  ASSUME NEW z \in Digits(Limbs + 1)
  PROVE  /\ Narrow(z) \in Digits(Limbs) /\ Value(Narrow(z)) \in Nat
         /\ Number(Limbs + 1, WordBits, z) = Value(Narrow(z)) + z[Limbs] * Size
<1> DEFINE n == Limbs + 1
           u == Narrow(z)
<1>1. /\ n \in Nat /\ n - 1 = Limbs /\ Limbs \in 0..n /\ Limbs \in Nat /\ WordBits \in Nat
      /\ Limbs \in 0..(n - 1) /\ Size = 2 ^ (WordBits * Limbs) /\ Index = 0..(Limbs - 1)
  BY WordFacts DEF Index
<1> HIDE DEF n
<1>2. z \in Digits(n)
  BY DEF n
<1>3. u \in Digits(Limbs) /\ Begins(Limbs, z, u)
  BY <1>1, <1>2 DEF Narrow, Digits, Begins
<1>4. Sums(n, WordBits, z)[Limbs] = Number(Limbs, WordBits, u)
  BY <1>1, <1>2, <1>3, PrefixSame
<1>5. WordBits \in Nat /\ n \in Nat /\ Limbs \in Nat
  BY <1>1
<1>6. /\ \A i \in 0..(n - 1) :
            Sums(n, WordBits, z)[i + 1] = Sums(n, WordBits, z)[i] + z[i] * 2 ^ (WordBits * i)
      /\ Number(n, WordBits, z) = Sums(n, WordBits, z)[n]
      /\ Number(Limbs, WordBits, u) \in Nat
  BY <1>2, <1>3, <1>5, SumsFacts, Zenon
<1>7. Sums(n, WordBits, z)[Limbs + 1]
        = Sums(n, WordBits, z)[Limbs] + z[Limbs] * 2 ^ (WordBits * Limbs)
  BY <1>1, <1>6, Zenon
<1> QED
  BY <1>1, <1>3, <1>4, <1>6, <1>7 DEF n, Value

\* What a word more makes of a number that has none: the same.
LEMMA WidenFacts ==
  ASSUME NEW x \in Uints
  PROVE  /\ Widen(x) \in Wide!Uints /\ Wide!Value(Widen(x)) = Value(x)
<1>1. 0 \in Words /\ Limbs \in Nat /\ Index = 0..(Limbs - 1) /\ Size \in Nat /\ Limbs + 1 - 1 = Limbs
  BY WordFacts DEF Words, Index
<1>2. Widen(x) \in [0..Limbs -> Words] /\ Narrow(Widen(x)) = x /\ Widen(x)[Limbs] = 0
  BY <1>1 DEF Widen, Narrow, Uints
<1>3. Widen(x) \in Digits(Limbs + 1)
  BY <1>1, <1>2, WordFacts DEF Digits, Words
<1> DEFINE w == Widen(x)
<1> HIDE DEF w
<1>4. Number(Limbs + 1, WordBits, w) = Value(x) + 0 * Size
  BY <1>2, <1>3, NarrowFacts DEF w
<1>5. Value(x) \in Nat
  BY UintFacts, WordFacts
<1>6. Wide!Value(w) = Value(x)
  BY <1>1, <1>4, <1>5, WideValue
<1> QED
  BY <1>2, <1>6, WideSets DEF w

\* Size, as a number with one word more.
LEMMA SizeFacts ==
  LET s == Wide!OverflowingShl(Wide!FromU64(1), BITS).val
  IN  s \in Wide!Uints /\ Wide!Value(s) = Size
<1> DEFINE one == WideL!FromU64(1)
           s == WideL!OverflowingShl(one, BITS).val
           m == WideL!BITS
           Big == WideL!Size
<1>1. /\ WordBits \in Nat \ {0} /\ ByteBits \in Nat \ {0} /\ Limbs + 1 \in Nat \ {0}
      /\ WordBits % ByteBits = 0
  BY WordsAssumption
<1>2. /\ BITS \in Nat /\ Size \in Nat \ {0} /\ Size = 2 ^ BITS /\ BITS = Limbs * WordBits
      /\ Word \in Nat /\ Word = 2 ^ WordBits /\ WordBits \in Nat \ {0} /\ Limbs \in Nat
  BY WordFacts DEF Size, BITS
<1>3. m = BITS + WordBits /\ Big = 2 ^ m
  <2>1. (Limbs + 1) * WordBits = Limbs * WordBits + WordBits
    BY <1>2
  <2> QED
    BY <2>1, <1>2 DEF WideL!BITS, WideL!Size
<1> HIDE DEF m, Big
<1>4. BITS < m /\ BITS % m = BITS
  BY <1>2, <1>3
<1>5. Big = Size * Word /\ Word >= 2 /\ Big \in Nat
  <2>1. 2 ^ (BITS + WordBits) = 2 ^ BITS * 2 ^ WordBits
    BY <1>2, TwoAdd
  <2>2. WordBits - 1 \in Nat /\ (WordBits - 1) + 1 = WordBits
    BY <1>2
  <2>3. 2 ^ (WordBits - 1) \in Nat \ {0} /\ 2 ^ ((WordBits - 1) + 1) = 2 * 2 ^ (WordBits - 1)
    BY <2>2, TwoPos, TwoNext
  <2>4. Word >= 2
    BY <2>2, <2>3, <1>2
  <2>5. Big = Size * Word
    BY <2>1, <1>2, <1>3
  <2> QED
    BY <2>4, <2>5, <1>2
<1>6. one \in WideL!Uints /\ WideL!Value(one) = 1
  BY <1>1, WideL!OneFacts
<1>7. s \in WideL!Uints /\ \E q \in Nat : WideL!Value(one) * 2 ^ (BITS % m) = WideL!Value(s) + q * Big
  BY <1>1, <1>2, <1>6, WideL!ShlFacts DEF m, Big
<1>8. PICK q \in Nat : 1 * Size = WideL!Value(s) + q * Big
  BY <1>2, <1>4, <1>6, <1>7
<1> DEFINE v == WideL!Value(s)
<1>9. v \in Nat
  <2>1. v \in 0..(Big - 1)
    BY <1>1, <1>7, WideL!UintFacts DEF Big
  <2> QED
    BY <2>1, <1>5
<1>10. s = Wide!OverflowingShl(Wide!FromU64(1), BITS).val
  <2>1. Wide!FromU64(1) = one
    BY WideSets, Zenon DEF Wide!FromU64, WideL!FromU64
  <2> QED
    BY <2>1, WideShifts, Zenon
<1> HIDE DEF s, one
<1>11. Wide!Value(s) = v
  BY WideValue, Zenon
<1> HIDE DEF v
<1>12. q = 0
  <2>1. SUFFICES ASSUME q >= 1 PROVE FALSE
    OBVIOUS
  <2>2. q * Big >= Big
    BY <2>1, <1>5
  <2>3. Big >= 2 * Size
    BY <1>2, <1>5
  <2> QED
    BY <2>2, <2>3, <1>2, <1>5, <1>8, <1>9 DEF v
<1>13. v = Size
  BY <1>2, <1>5, <1>8, <1>9, <1>12 DEF v
<1> QED
  BY <1>7, <1>10, <1>11, <1>13, WideSets

\* target2difficulty: the quotient of Size, but for 1.
LEMMA TargetFacts ==
  ASSUME NEW x \in Uints, Value(x) # 0
  PROVE  LET t == Value(Target2Difficulty(x))
         IN  t = IF Value(x) = 1 THEN Size - 1 ELSE Size \div Value(x)
<1> DEFINE X == Value(x)
           one == 1
<1>1. X \in Nat /\ X # 0 /\ Size \in Nat \ {0}
  BY UintFacts, WordFacts
<1>2. EqU64(x, 1) = (X = 1)
  <2>1. one \in Words
    <3>1. 0 \in Index
      BY WordFacts DEF Index
    <3>2. FromU64(1)[0] \in Words /\ FromU64(1)[0] = 1
      BY <3>1, OneFacts DEF FromU64, Uints, ZERO
    <3> QED
      BY <3>2
  <2> HIDE DEF one
  <2>2. EqU64(x, one) = (Value(x) = one)
    BY <2>1, WordOrder
  <2> QED
    BY <2>2 DEF one
<1>3. CASE X = 1
  BY <1>2, <1>3, MaxFacts DEF Target2Difficulty
<1>4. CASE X # 1
  <2> DEFINE s == Wide!OverflowingShl(Wide!FromU64(1), BITS).val
             d == WideL!DivRem(s, Widen(x))
             q == WideL!Value(d.quo)
             r == WideL!Value(d.rem)
  <2>1. Target2Difficulty(x) = Narrow(d.quo)
    <3>1. Wide!DivRem(s, Widen(x)) = d
      BY WideDivRem, Zenon
    <3> QED
      BY <3>1, <1>2, <1>4, Zenon DEF Target2Difficulty
  <2>2. s \in WideL!Uints /\ WideL!Value(s) = Size
    BY SizeFacts, WideSets, WideValue
  <2>3. Widen(x) \in WideL!Uints /\ WideL!Value(Widen(x)) = X
    BY WidenFacts, WideSets, WideValue
  <2> HIDE DEF s
  <2>4. /\ WordBits \in Nat \ {0} /\ ByteBits \in Nat \ {0} /\ Limbs + 1 \in Nat \ {0}
        /\ WordBits % ByteBits = 0
    BY WordsAssumption
  <2>5. /\ d.quo \in WideL!Uints /\ d.rem \in WideL!Uints
        /\ Size = q * X + r /\ r < X
    <3>1. WideL!Value(Widen(x)) > 0
      BY <2>3, <1>1
    <3>2. /\ d.quo \in WideL!Uints /\ d.rem \in WideL!Uints
          /\ WideL!Value(s) = q * WideL!Value(Widen(x)) + r
          /\ r < WideL!Value(Widen(x))
      BY <3>1, <2>2, <2>3, <2>4, WideL!DivRemFacts
    <3> QED
      BY <3>2, <2>2, <2>3
  <2> HIDE DEF d
  <2>6. q \in Nat /\ r \in Nat
    <3>1. WideL!Size \in Nat
      BY <2>4, WideL!WordFacts
    <3>2. q \in 0..(WideL!Size - 1) /\ r \in 0..(WideL!Size - 1)
      BY <2>4, <2>5, WideL!UintFacts
    <3> QED
      BY <3>1, <3>2
  <2>7. d.quo \in Digits(Limbs + 1) /\ q = Number(Limbs + 1, WordBits, d.quo)
    <3>1. d.quo \in [0..Limbs -> Words] /\ Limbs + 1 - 1 = Limbs /\ \A w \in Words : w \in Nat
      BY <2>5, WideSets, WordFacts DEF Words
    <3>2. d.quo \in [0..Limbs -> Nat]
      BY <3>1
    <3>3. d.quo \in Digits(Limbs + 1)
      <4>1. Digits(Limbs + 1) = [0..Limbs -> Nat]
        <5>1. Digits(Limbs + 1) = [0..((Limbs + 1) - 1) -> Nat]
          BY Zenon DEF Digits
        <5>2. (Limbs + 1) - 1 = Limbs
          BY WordFacts
        <5> DEFINE n == (Limbs + 1) - 1
        <5>3. Digits(Limbs + 1) = [0..n -> Nat] /\ n = Limbs
          BY <5>1, <5>2
        <5> HIDE DEF n
        <5> QED
          BY <5>3
      <4> QED
        BY <3>2, <4>1, Zenon
    <3> QED
      BY <3>3, WideValue
  <2> DEFINE t == Value(Narrow(d.quo))
             h == d.quo[Limbs]
  <2>8. t \in Nat /\ q = t + h * Size /\ h \in Nat
    <3>1. h \in Nat
      <4>1. Limbs \in 0..(Limbs + 1 - 1)
        BY WordFacts
      <4> QED
        BY <4>1, <2>7 DEF Digits
    <3> QED
      BY <3>1, <2>7, NarrowFacts
  <2> HIDE DEF q, r, t, h, X
  <2>9. q < Size
    <3>1. X >= 2
      BY <1>1, <1>4
    <3>2. q * X >= q * 2 /\ q * X \in Nat
      BY <3>1, <2>6, <1>1
    <3> QED
      BY <3>2, <2>5, <2>6, <1>1
  <2>10. h = 0
    <3>1. SUFFICES ASSUME h >= 1 PROVE FALSE
      BY <2>8
    <3>2. h * Size >= Size /\ h * Size \in Nat
      BY <3>1, <2>8, <1>1
    <3> QED
      BY <3>2, <2>8, <2>9, <1>1, <2>6
  <2>11. q = t
    BY <2>8, <2>10, <1>1
  <2>12. Size \div X = q
    <3>1. X \in Nat \ {0} /\ r \in 0..(X - 1) /\ Size \in Int /\ q \in Int
      BY <1>1, <2>5, <2>6
    <3> QED
      BY <3>1, <2>5, DivMod
  <2>13. Value(Target2Difficulty(x)) = Size \div X
    BY <2>1, <2>11, <2>12 DEF t
  <2> QED
    BY <2>13, <1>4 DEF X
<1> QED
  BY <1>3, <1>4

LEMMA DifficultiesRight == InputOK => TargetRight
<1> SUFFICES ASSUME InputOK, Is("number"), Value(input.x) # 0
             PROVE  LET X == Value(input.x)
                        t == Value(Target2Difficulty(input.x))
                    IN  /\ t = IF X = 1 THEN Size - 1 ELSE Size \div X
                        /\ TargetToDifficulty(X) \in {t - 1, t}
  BY DEF TargetRight
<1> DEFINE X == Value(input.x)
           t == Value(Target2Difficulty(input.x))
           half == 2 ^ (BITS - 1)
           u == TargetToDifficulty(X)
<1>1. input.x \in Uints
  BY DEF InputOK
<1>2. t = IF X = 1 THEN Size - 1 ELSE Size \div X
  BY <1>1, TargetFacts
<1>3. X \in Nat /\ X # 0 /\ Size \in Nat \ {0} /\ BITS \in Nat \ {0} /\ Size = 2 ^ BITS
  BY <1>1, UintFacts, WordFacts DEF Size
<1>4. half \in Nat \ {0} /\ Size = 2 * half
  <2>1. BITS - 1 \in Nat /\ (BITS - 1) + 1 = BITS
    BY <1>3
  <2> QED
    BY <2>1, <1>3, TwoPos, TwoNext
<1>5. u = IF X <= 1 THEN Size - 1 ELSE ((Size \div 2) \div X) * 2
  BY DEF TargetToDifficulty
<1> HIDE DEF X, t, half, u
<1>6. CASE X = 1
  BY <1>2, <1>3, <1>5, <1>6 DEF X, t, u
<1>7. CASE X # 1
  <2>1. X \in Nat \ {0} /\ Size \div 2 = half
    BY <1>3, <1>4
  <2> DEFINE a == half \div X
             r == half % X
  <2>2. a \in Nat /\ r \in 0..(X - 1) /\ half = a * X + r
    BY <2>1, <1>4, DivNat
  <2>3. u = a * 2 /\ t = Size \div X
    <3>1. ~(X <= 1)
      BY <1>3, <1>7
    <3> QED
      BY <3>1, <2>1, <1>2, <1>5, <1>7
  <2> HIDE DEF a, r
  <2>4. CASE 2 * r < X
    <3> DEFINE b == 2 * a
               e == 2 * r
    <3>1. b \in Int /\ e \in 0..(X - 1) /\ Size \in Int
      BY <2>2, <2>4, <1>3
    <3>2. Size = b * X + e
      BY <2>1, <2>2, <1>4
    <3> HIDE DEF b, e
    <3>3. Size \div X = b
      BY <2>1, <3>1, <3>2, DivMod
    <3>4. t = u
      BY <2>2, <2>3, <3>3 DEF b
    <3> QED
      BY <3>4, <1>2 DEF X, t, u
  <2>5. CASE 2 * r >= X
    <3> DEFINE b == 2 * a + 1
               e == 2 * r - X
    <3>1. b \in Int /\ e \in 0..(X - 1) /\ Size \in Int
      BY <2>1, <2>2, <2>5, <1>3
    <3>2. Size = b * X + e
      BY <2>1, <2>2, <1>4
    <3> HIDE DEF b, e
    <3>3. Size \div X = b
      BY <2>1, <3>1, <3>2, DivMod
    <3>4. u = t - 1
      BY <2>2, <2>3, <3>3 DEF b
    <3> QED
      BY <3>4, <1>2 DEF X, t, u
  <2> QED
    BY <2>1, <2>2, <2>4, <2>5
<1> QED
  BY <1>6, <1>7

-----------------------------------------------------------------------------
(* Compact targets: numbers of two longer words *)

CL == INSTANCE UintLemmas WITH WordBits <- CWordBits, ByteBits <- CByteBits,
                               MantBytes <- CMantBytes, Limbs <- 2

LEMMA LongNumbers ==
  \A n, bits, t : C!Number(n, bits, t) = Number(n, bits, t)
                  /\ CL!Number(n, bits, t) = Number(n, bits, t)
  BY Zenon DEF Number, Sums, Repeat, C!Number, C!Sums, C!Repeat, CL!Number, CL!Sums, CL!Repeat

LEMMA LongValue ==
  \A x : C!Value(x) = Number(2, CWordBits, x) /\ CL!Value(x) = Number(2, CWordBits, x)
  BY LongNumbers, Zenon DEF C!Value, CL!Value

LEMMA LongOr == \A n, a, b : C!Or(n, a, b) = CL!Or(n, a, b)
  BY LongNumbers, Zenon DEF C!Or, CL!Or, C!Bit, CL!Bit

LEMMA LongSizes ==
  /\ C!Uints = CL!Uints /\ C!BITS = CL!BITS /\ C!BYTES = CL!BYTES /\ C!Size = CL!Size
  /\ C!CompactBits = CL!CompactBits
  /\ \A k : C!Room(k) = CL!Room(k)
  BY Zenon DEF C!Uints, CL!Uints, C!Index, CL!Index, C!Words, CL!Words, C!Word, CL!Word,
       C!BITS, CL!BITS, C!BYTES, CL!BYTES, C!WordBytes, CL!WordBytes, C!Size, CL!Size,
       C!CompactBits, CL!CompactBits, C!Room, CL!Room

LEMMA LongEach == \A words : C!Each(words) = CL!Each(words)
  BY Zenon DEF C!Each, CL!Each, C!Upwards, CL!Upwards, C!Loop, CL!Loop, C!Index, CL!Index,
       C!ZERO, CL!ZERO

LEMMA LongShifts ==
  /\ \A x, s : C!OverflowingShl(x, s) = CL!OverflowingShl(x, s)
  /\ \A x, s : C!OverflowingShr(x, s) = CL!OverflowingShr(x, s)
<1>1. \A x, s : C!OverflowingShl(x, s) = CL!OverflowingShl(x, s)
  BY LongOr, LongEach, ZenonT(30)
     DEF C!OverflowingShl, CL!OverflowingShl, C!Index, CL!Index, C!BITS, CL!BITS,
         C!Lsh, CL!Lsh, C!Rsh, CL!Rsh, C!Word, CL!Word
<1>2. \A x, s : C!OverflowingShr(x, s) = CL!OverflowingShr(x, s)
  BY LongOr, LongEach, ZenonT(30)
     DEF C!OverflowingShr, CL!OverflowingShr, C!Index, CL!Index, C!BITS, CL!BITS,
         C!Lsh, CL!Lsh, C!Rsh, CL!Rsh, C!Word, CL!Word
<1> QED
  BY <1>1, <1>2, Zenon

LEMMA LongCompact ==
  /\ \A c : C!FromCompact(c) = CL!FromCompact(c)
  /\ \A x : C!Compact(x) = CL!Compact(x)
<1>1. \A z : C!Bits(z) = CL!Bits(z)
  BY Zenon DEF C!Bits, CL!Bits, C!IsZero, CL!IsZero, C!Index, CL!Index, C!WordLength, CL!WordLength
<1>2. \A w, s : C!Lsh(w, s) = CL!Lsh(w, s) /\ C!Rsh(w, s) = CL!Rsh(w, s)
  BY Zenon DEF C!Lsh, CL!Lsh, C!Rsh, CL!Rsh, C!Word, CL!Word
<1>3. \A z : C!AsU64(z) = CL!AsU64(z) /\ C!FromU64(z) = CL!FromU64(z)
  BY Zenon DEF C!AsU64, CL!AsU64, C!FromU64, CL!FromU64, C!ZERO, CL!ZERO, C!Index, CL!Index
<1>4. C!ZERO = CL!ZERO
  BY Zenon DEF C!ZERO, CL!ZERO, C!Index, CL!Index
<1>5. \A c : C!Mant(c) = CL!Mant(c) /\ C!Expt(c) = CL!Expt(c)
  BY LongSizes, Zenon DEF C!Mant, CL!Mant, C!Expt, CL!Expt
<1>6. \A c : C!FromCompact(c) = CL!FromCompact(c)
  BY <1>2, <1>3, <1>4, <1>5, LongSizes, LongShifts, Zenon DEF C!FromCompact, CL!FromCompact
<1>7. \A x : C!Compact(x) = CL!Compact(x)
  BY <1>1, <1>2, <1>3, <1>5, LongSizes, LongShifts, LongOr, Zenon DEF C!Compact, CL!Compact
<1> QED
  BY <1>6, <1>7, Zenon

LEMMA LongFacts ==
  /\ CWordBits \in Nat \ {0} /\ CByteBits \in Nat \ {0} /\ 2 \in Nat \ {0}
  /\ CWordBits % CByteBits = 0
  /\ CL!CompactSizes
  BY SizesAssumption DEF CL!CompactSizes

\* A number under test is split into two words.
LEMMA LongSplit ==
  ASSUME NEW n \in 0..(C!Size - 1), NEW x, x = [i \in 0..1 |-> (n \div 2 ^ (CWordBits * i)) % C!Word]
  PROVE  x \in C!Uints /\ C!Value(x) = n
<1> DEFINE two == 2
<1>1. CWordBits \in Nat /\ two \in Nat /\ two - 1 = 1
  BY LongFacts
<1>2. C!Size = 2 ^ (CWordBits * two) /\ C!Word = 2 ^ CWordBits /\ C!Word \in Nat \ {0}
      /\ C!Size \in Nat
  <2>1. two * CWordBits = CWordBits * two /\ CWordBits * two \in Nat
    BY <1>1
  <2>2. C!Size = 2 ^ (two * CWordBits) /\ C!Word = 2 ^ CWordBits
    BY DEF C!Size, C!BITS, C!Word
  <2> HIDE DEF two
  <2>3. 2 ^ (CWordBits * two) \in Nat /\ 2 ^ CWordBits \in Nat \ {0}
    BY <1>1, <2>1, TwoPos
  <2> QED
    BY <2>1, <2>2, <2>3
<1>3. C!Uints = [0..1 -> 0..(C!Word - 1)]
  BY DEF C!Uints, C!Index, C!Words
<1>4. n \in Nat /\ n \in 0..(2 ^ (CWordBits * two) - 1)
  BY <1>2
<1>5. \A i \in 0..1 : (n \div 2 ^ (CWordBits * i)) % C!Word \in 0..(C!Word - 1)
  <2> TAKE i \in 0..1
  <2> DEFINE q == n \div 2 ^ (CWordBits * i)
  <2>1. i \in Nat
    OBVIOUS
  <2>2. q \in Nat
    <3>1. 2 ^ (CWordBits * i) \in Nat \ {0}
      BY <2>1, <1>1, Place
    <3> QED
      BY <3>1, <1>4, DivNat
  <2> HIDE DEF q
  <2>3. q % C!Word \in 0..(C!Word - 1)
    BY <2>2, <1>2, DivNat
  <2> QED
    BY <2>3 DEF q
<1>6. x \in C!Uints
  BY <1>3, <1>5
<1>7. x \in Digits(two)
  <2>1. \A w \in 0..(C!Word - 1) : w \in Nat
    BY <1>2
  <2>2. x \in [0..1 -> Nat]
    BY <1>3, <1>6, <2>1
  <2> QED
    BY <2>2, <1>1 DEF Digits
<1>8. IsDigits(two, CWordBits, n, x)
  BY <1>1, <1>2 DEF IsDigits
<1> HIDE DEF two
<1>9. Number(two, CWordBits, x) = n
  BY <1>1, <1>4, <1>7, <1>8, Expansion
<1> QED
  BY <1>6, <1>9, LongValue DEF two

LEMMA CompactRight == InputOK => CompactExact
<1> SUFFICES ASSUME InputOK, Is("long")
             PROVE  LET back == C!Value(C!FromCompact(C!Compact(input.x)))
                        half == C!Room(CMantBytes) \div 2
                    IN  /\ back <= input.n
                        /\ \A mant \in 0..(half - 1), e \in 0..(C!BYTES - 1) :
                             ~(back < mant * C!Room(e) /\ mant * C!Room(e) <= input.n)
  BY DEF CompactExact
<1> DEFINE x == input.x
           back == CL!Value(CL!FromCompact(CL!Compact(x)))
           half == CL!Room(CMantBytes) \div 2
<1>1. x \in CL!Uints /\ CL!Value(x) = input.n
  BY LongSizes, LongValue DEF InputOK
<1>2. /\ CL!CompactSizes
      /\ CWordBits \in Nat \ {0} /\ CByteBits \in Nat \ {0} /\ 2 \in Nat \ {0}
      /\ CWordBits % CByteBits = 0
  BY LongFacts
<1> HIDE DEF x
<1>3. /\ back <= CL!Value(x)
      /\ \A mant \in 0..(half - 1), e \in Nat :
           ~(back < mant * CL!Room(e) /\ mant * CL!Room(e) <= CL!Value(x))
  BY <1>1, <1>2, CL!CompactFacts
<1>4. C!Value(C!FromCompact(C!Compact(x))) = back
  BY LongCompact, LongValue, Zenon
<1>5. C!Room(CMantBytes) \div 2 = half
  BY LongSizes, Zenon
<1>6. \A e \in 0..(C!BYTES - 1) : e \in Nat
  OBVIOUS
<1> HIDE DEF back, half
<1> QED
  BY <1>1, <1>3, <1>4, <1>5, <1>6, LongSizes, Zenon DEF x

-----------------------------------------------------------------------------
(* The properties of Arith *)

\* Numbers under test are Uints, in every state of every run.
LEMMA InputsTyped == Spec => []InputOK
<1>1. Init => InputOK
  BY DEF Init, InputOK, Is
<1>2. ASSUME InputOK, [Next]_input PROVE InputOK'
  <2>1. CASE UNCHANGED input
    BY <2>1, <1>2 DEF InputOK, Is
  <2>2. CASE OneNumber
    BY <2>2 DEF OneNumber, InputOK, Is
  <2>3. CASE TwoNumbers
    BY <2>3, SizesAssumption DEF TwoNumbers, InputOK, Is
  <2>4. CASE LongNumber
    <3>1. PICK n \in 0..(C!Size - 1) :
            input' = [kind |-> "long", n |-> n,
                      x |-> [i \in 0..1 |-> (n \div 2 ^ (CWordBits * i)) % C!Word]]
      BY <2>4 DEF LongNumber
    <3>2. input'.kind = "long" /\ input'.n = n /\ input'.x \in C!Uints /\ C!Value(input'.x) = n
      BY <3>1, LongSplit
    <3> QED
      BY <3>2 DEF InputOK, Is
  <2>5. CASE AMatrix
    <3>1. PICK m \in [Rows -> [Rows -> Entries]] : input' = [kind |-> "matrix", m |-> m]
      BY <2>5 DEF AMatrix
    <3>2. m \in Matrices
      BY MatrixAssumption DEF Matrices, Vectors
    <3> QED
      BY <3>1, <3>2 DEF InputOK, Is
  <2>6. CASE AHash
    BY <2>6 DEF AHash, InputOK, Is, Halves, BytesOf
  <2>7. CASE ASeed
    BY <2>7 DEF ASeed, InputOK, Is
  <2>8. CASE ATree
    <3>1. PICK n \in Leaves : input' = [kind |-> "tree", leaves |-> [i \in 1..n |-> <<i>>]]
      BY <2>8 DEF ATree
    <3> DEFINE s == [i \in 1..n |-> <<i>>]
               V == {<<i>> : i \in 1..n}
    <3>2. n \in Nat \ {0}
      BY SizesAssumption
    <3>3. s \in [1..n -> V] /\ DOMAIN s = 1..n
      OBVIOUS
    <3>4. input'.kind = "tree" /\ input'.leaves = s
      BY <3>1
    <3> HIDE DEF s, V
    <3>5. s \in Seq(V) /\ Len(s) = n
      BY <3>2, <3>3
    <3> QED
      BY <3>2, <3>3, <3>4, <3>5 DEF InputOK, Is
  <2> QED
    BY <1>2, <2>1, <2>2, <2>3, <2>4, <2>5, <2>6, <2>7, <2>8 DEF Next
<1> QED
  BY <1>1, <1>2, PTL DEF Spec

\* Whatever the widths of words and bytes and the number of limbs, the loops that
\* construct_uint! makes compute sums, products, shifts, comparisons, lengths and bytes
\* of the numbers they stand for.
THEOREM UintsExact == Spec => []UintExact
<1>1. InputOK => UintExact
  BY SumsRight, ProductsRight, ShiftsRight, OrderRight, BytesRight, Zenon DEF UintExact
<1> QED
  BY <1>1, InputsTyped, PTL

\* Quotients, rests and inverses are those of the numbers, whatever their size:
\* the long division of div_rem drops no bit, and mod_inverse's loop, which runs
\* on signed integers as wide as the modulus, ends and never overflows.
THEOREM DivisionsExact == Spec => []DivisionExact
<1>1. InputOK => DivisionExact
  BY QuotientsRight, InverseRight, Zenon DEF DivisionExact
<1> QED
  BY <1>1, InputsTyped, PTL

\* Whatever the sizes of words and bytes, target2difficulty and compact_target_bits lose
\* nothing but what their forms have no room for: a target read back from its compact form
\* is the greatest of that form which is not above it, so it is never made easier.
THEOREM TargetsSurvive == Spec => []TargetsExact
<1>1. InputOK => TargetsExact
  BY DifficultiesRight, CompactRight, Zenon DEF TargetsExact
<1> QED
  BY <1>1, InputsTyped, PTL

\* For matrices of any size with integer entries, and floats of any precision: unless one of
\* its comparisons with EPS is wrong, compute_rank counts the rank, in whatever order it picks
\* its pivots, and though it leaves the rows where they are and divides in place.  Rounding and
\* EPS can harm it there and nowhere else; that the comparisons are right is checked by the run.
THEOREM RanksCounted == Spec => [](TestsRight => RankRight)
<1>1. InputOK => (TestsRight => RankRight)
  BY RankIsCounted DEF InputOK, TestsRight, RankRight
<1> QED
  BY <1>1, InputsTyped, PTL

\* Matrix::generate draws again until compute_rank says the rank is full: what it keeps, for
\* matrices of any size, is just those whose determinant is not 0, unless a comparison with EPS
\* is wrong.
THEOREM RegularKept ==
  Spec => [](TestsRight => (Is("matrix") =>
               (RankAfter(input.m, N) = N <=> Det(input.m)[Rows][Rows] # 0)))
<1> DEFINE Kept == TestsRight => (Is("matrix") =>
                     (RankAfter(input.m, N) = N <=> Det(input.m)[Rows][Rows] # 0))
<1>1. InputOK => Kept
  BY FullRank DEF InputOK, TestsRight
<1> HIDE DEF Kept
<1>2. Spec => []Kept
  BY <1>1, InputsTyped, PTL
<1> QED
  BY <1>2 DEF Kept

\* However many transactions a block has, the branch that the pool sends and the coinbase in
\* front of it fold to the root of the tree (cal_merkle_root_by_branch).
THEOREM BranchFoldsToRoot == Spec => []MerkleRight
<1>1. ASSUME InputOK, Is("tree") PROVE MerkleRight
  <2>1. PICK n \in Nat \ {0} : Len(input.leaves) = n /\ DOMAIN input.leaves = 1..n
    BY <1>1 DEF InputOK
  <2> QED
    BY <2>1, MerkleFacts DEF MerkleRight
<1>2. InputOK => MerkleRight
  BY <1>1 DEF MerkleRight
<1> QED
  BY <1>2, InputsTyped, PTL

\* For hashes and matrices of any size whose sums fit: each byte has the high bits of two rows'
\* products side by side (Matrix::heavy_hash).
THEOREM SumsFitNibbles == Spec => []HeavyRight
<1>1. InputOK => HeavyRight
  <2> SUFFICES ASSUME InputOK, Is("hash"), NEW i \in 1..(HN \div 2)
               PROVE  Xor(2 * NibbleBits, H!Heavy(input.m, input.hash)[i], input.hash[i])
                        = Nibble * (Dot(input.m[2 * i - 1], input.v) \div 2 ^ SumShift)
                            + (Dot(input.m[2 * i], input.v) \div 2 ^ SumShift)
    BY Zenon DEF HeavyRight
  <2>1. /\ input.m \in [1..HN -> [1..HN -> Halves]] /\ input.v \in [1..HN -> Halves]
        /\ input.hash = BytesOf(input.v)
    BY DEF InputOK
  <2> QED
    BY <2>1, HeavyFacts
<1> QED
  BY <1>1, InputsTyped, PTL

\* For words of any size: a state of the generator tells the one before it
\* (XoShiRo256PlusPlus::u64), so that none but itself leads to the zero state.
THEOREM GeneratorReversible == Spec => []SeedReversible
<1>1. InputOK => SeedReversible
  BY SeedFacts DEF InputOK, SeedReversible
<1> QED
  BY <1>1, InputsTyped, PTL

\* For words and nibbles of any size: each step of the generator is the published one bit by
\* bit, and the entries of a matrix are the nibbles of the words it puts out, in their order
\* (XoShiRo256PlusPlus::u64, Matrix::rand_matrix_no_rank_check).
THEOREM MatrixDrawn == Spec => [](StepRight /\ DrawRight)
<1>1. InputOK => StepRight
  BY StepFacts DEF InputOK, StepRight
<1>2. InputOK => DrawRight
  <2> SUFFICES ASSUME InputOK, Is("seed") PROVE DrawRight
    BY DEF DrawRight
  <2> DEFINE s == input.s
  <2>1. s \in Seeds
    BY DEF InputOK
  <2>2. Drawn!Draw(s).seed = Course(s)[DN * Drawn!PerRow]
    BY <2>1, DrawnEntries
  <2> HIDE DEF s
  <2> QED
    BY <2>1, <2>2, DrawnWords, Zenon DEF DrawRight, Course, s
<1> QED
  BY <1>1, <1>2, InputsTyped, PTL

\* What goes into the hashes is right, for all sizes (cal_merkle_root_by_branch,
\* Matrix::heavy_hash, XoShiRo256PlusPlus, Matrix::rand_matrix_no_rank_check).
THEOREM HashInputsRight == Spec => []HashedRight
<1>1. MerkleRight /\ HeavyRight /\ SeedReversible /\ StepRight /\ DrawRight => HashedRight
  BY DEF HashedRight
<1> QED
  BY <1>1, BranchFoldsToRoot, SumsFitNibbles, GeneratorReversible, MatrixDrawn, PTL

=============================================================================

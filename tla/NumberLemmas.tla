---------------------------- MODULE NumberLemmas ----------------------------
(***************************************************************************)
(* Lemmas about quotients, rests and sums that wrap, which the proofs about *)
(* nonces and lanes rest on.                                               *)
(***************************************************************************)
EXTENDS Integers, FiniteSetTheorems, FunctionTheorems, WellFoundedInduction, TLAPS

\* A prefix below p, followed by a suffix below s, stays below p * s.
LEMMA PrefixBound ==
  ASSUME NEW a \in Nat, NEW p \in Nat, NEW s \in Nat, a < p
  PROVE  a * s \in Nat /\ a * s + s <= p * s
<1>1. (a + 1) * s <= p * s
  BY SMT
<1>2. (a + 1) * s = a * s + s
  BY SMT
<1> QED
  BY <1>1, <1>2, SMT

\* The quotient is the one number between whose multiples n lies.
LEMMA DivUnique ==
  ASSUME NEW n \in Nat, NEW s \in Nat \ {0}, NEW a \in Nat,
         a * s <= n, n < a * s + s
  PROVE  n \div s = a
<1> DEFINE q == n \div s
<1>1. q \in Nat /\ q * s <= n /\ n < q * s + s
  BY SMT
<1> HIDE DEF q
<1>2. CASE q < a
  BY <1>1, <1>2, PrefixBound
<1>3. CASE a < q
  BY <1>1, <1>3, PrefixBound
<1> QED
  BY <1>1, <1>2, <1>3

\* Adding multiples of n does not make up for a difference smaller than n.
LEMMA RestNotZero ==
  ASSUME NEW n \in Nat \ {0}, NEW d \in Int, NEW k \in Int,
         d # 0, -n < d, d < n
  PROVE  (d + k * n) % n # 0
<1> SUFFICES ASSUME (d + k * n) % n = 0 PROVE FALSE
  OBVIOUS
<1> DEFINE q == (d + k * n) \div n
<1>1. q \in Int /\ d + k * n = q * n
  BY SMT
<1> HIDE DEF q
<1> DEFINE m == q - k
<1>2. m \in Int /\ d = m * n
  BY <1>1, SMT
<1> HIDE DEF m
<1>3. m >= 1 => m * n >= n
  BY <1>2, SMT
<1>4. m <= -1 => m * n <= -n
  BY <1>2, SMT
<1>5. m = 0 => m * n = 0
  BY SMT
<1> QED
  BY <1>2, <1>3, <1>4, <1>5

\* A number below s is its own rest; one turn further it comes back.
LEMMA RestOnce ==
  ASSUME NEW s \in Nat \ {0}, NEW n \in 0..(s - 1)
  PROVE  n % s = n /\ (n + s) % s = n /\ (n - s) % s = n
<1>1. n % s = n
  BY SMT
<1>2. (n + s) % s = n
  BY SMT
<1>3. (n - s) % s = n
  BY SMT
<1> QED
  BY <1>1, <1>2, <1>3

\* Two small steps from n, each cut to s, are one; the way back from there to n
\* is what was added.
LEMMA Wrapped ==
  ASSUME NEW s \in Nat \ {0}, NEW n \in 0..(s - 1), NEW a \in Nat, NEW b \in Nat,
         a + b < s
  PROVE  /\ (((n + a) % s) + b) % s = (n + (a + b)) % s
         /\ (((n + a) % s) - n) % s = a
<1>1. CASE n + a + b < s
  <2>1. /\ (n + a) % s = n + a /\ (n + (a + b)) % s = n + (a + b)
        /\ (n + a + b) % s = n + a + b /\ a % s = a
    BY <1>1, RestOnce
  <2> QED
    BY <1>1, <2>1
<1>2. CASE n + a < s /\ n + a + b >= s
  <2>1. (n + a) % s = n + a /\ a % s = a
    BY <1>2, RestOnce
  <2>2. ((n + a) % s) + b = n + (a + b) /\ ((n + a) % s) - n = a
    BY <2>1
  <2> QED
    BY <2>1, <2>2
<1>3. CASE n + a >= s
  <2> DEFINE m == n + a - s
  <2>1. /\ m \in 0..(s - 1) /\ m + s = n + a
        /\ m + b \in 0..(s - 1) /\ (m + b) + s = n + (a + b)
        /\ m - n = a - s /\ a \in 0..(s - 1)
    BY <1>3
  <2>2. (n + a) % s = m /\ (n + (a + b)) % s = m + b /\ (m + b) % s = m + b
        /\ (a - s) % s = a
    <3> HIDE DEF m
    <3>1. (m + s) % s = m /\ ((m + b) + s) % s = m + b /\ (m + b) % s = m + b
          /\ (a - s) % s = a
      BY <2>1, RestOnce
    <3> QED
      BY <3>1, <2>1
  <2> HIDE DEF m
  <2> QED
    BY <2>1, <2>2
<1> QED
  BY <1>1, <1>2, <1>3

\* Quotient and rest.
LEMMA Euclid ==
  ASSUME NEW n \in Nat \ {0}, NEW a \in Int
  PROVE  /\ a \div n \in Int /\ a % n \in 0..(n - 1)
         /\ a = (a \div n) * n + (a % n)
  BY SMT

\* Different numbers that are less than n apart have different rests.
LEMMA RestsApart ==
  ASSUME NEW n \in Nat \ {0}, NEW a \in Int, NEW b \in Int,
         a # b, -n < a - b, a - b < n
  PROVE  a % n # b % n
<1> SUFFICES ASSUME a % n = b % n PROVE FALSE
  OBVIOUS
<1> DEFINE p == a \div n
           q == b \div n
<1>1. /\ p \in Int /\ q \in Int
      /\ a = p * n + (a % n) /\ b = q * n + (b % n)
      /\ a % n \in Int
  BY Euclid
<1> HIDE DEF p, q
<1> DEFINE m == p - q
<1>2. m \in Int /\ m * n = a - b
  BY <1>1, SMT
<1> HIDE DEF m
<1>3. m >= 1 => m * n >= n
  BY <1>2, SMT
<1>4. m <= -1 => m * n <= -n
  BY <1>2, SMT
<1>5. m = 0 => m * n = 0
  BY SMT
<1> QED
  BY <1>2, <1>3, <1>4, <1>5

\* Adding n changes no rest.
LEMMA RestAdd ==
  ASSUME NEW n \in Nat \ {0}, NEW a \in Int
  PROVE  (a + n) % n = a % n
<1> DEFINE r == a % n
           q == a \div n
<1>1. r \in 0..(n - 1) /\ q \in Int /\ a = q * n + r
  BY SMT
<1>2. a + n = (q + 1) * n + r
  BY <1>1, SMT
<1> HIDE DEF r, q
<1> DEFINE t == (a + n) % n
           u == (a + n) \div n
<1>3. t \in 0..(n - 1) /\ u \in Int /\ a + n = u * n + t
  BY <1>1, SMT
<1> HIDE DEF t, u
<1> DEFINE m == u - (q + 1)
<1>4. m \in Int /\ m * n = r - t
  BY <1>1, <1>2, <1>3, SMT
<1> HIDE DEF m
<1>5. m >= 1 => m * n >= n
  BY <1>4, SMT
<1>6. m <= -1 => m * n <= -n
  BY <1>4, SMT
<1>7. m = 0
  BY <1>1, <1>3, <1>4, <1>5, <1>6
<1>8. m = 0 => m * n = 0
  BY SMT
<1> QED
  BY <1>1, <1>3, <1>4, <1>7, <1>8 DEF r, t

-----------------------------------------------------------------------------
(* Induction, for a set: the library's theorems are about operators. *)

Below == {p \in Nat \X Nat : p[1] < p[2]}

LEMMA BelowWF == IsWellFoundedOn(Below, Nat)
  BY NatLessThanWellFounded, Zenon DEF OpToRel, Below

\* A set that holds 0, and with a number below n the next one, holds all up to n.
LEMMA UpTo ==
  ASSUME NEW n \in Nat, NEW S, 0 \in S, \A i \in 0..(n - 1) : i \in S => i + 1 \in S
  PROVE  \A i \in 0..n : i \in S
<1> DEFINE T == 0..n \ S
<1> SUFFICES ASSUME T # {} PROVE FALSE
  OBVIOUS
<1>1. T \subseteq Nat
  OBVIOUS
<1>2. PICK x \in T : \A y \in T : ~ (<<y, x>> \in Below)
  BY BelowWF, <1>1, WFMin
<1>3. x # 0 /\ x \in Nat /\ x - 1 \in 0..(n - 1)
  OBVIOUS
<1>4. x - 1 \in T
  BY <1>3
<1>5. <<x - 1, x>> \in Below
  BY <1>3 DEF Below
<1> QED
  BY <1>2, <1>4, <1>5

-----------------------------------------------------------------------------
(* Powers of two *)

LEMMA TwoZero == 2 ^ 0 = 1
  BY SMT

\* The powers of two, from the number of the subsets of an interval.
LEMMA TwoNext ==
  ASSUME NEW n \in Nat
  PROVE  2 ^ n \in Nat /\ 2 ^ (n + 1) = 2 * 2 ^ n
<1> DEFINE S == 1..n
           A == SUBSET S
           add == [U \in A |-> U \cup {n + 1}]
           B == {U \cup {n + 1} : U \in A}
<1>1. IsFiniteSet(S) /\ Cardinality(S) = n
  BY FS_Interval
<1>2. IsFiniteSet(A) /\ Cardinality(A) = 2 ^ n /\ Cardinality(A) \in Nat
  BY <1>1, FS_SUBSET, FS_CardinalityType
<1>3. IsFiniteSet(1..(n + 1)) /\ Cardinality(1..(n + 1)) = n + 1
  BY FS_Interval
<1>4. Cardinality(SUBSET (1..(n + 1))) = 2 ^ (n + 1)
  BY <1>3, FS_SUBSET
<1>5. n + 1 \notin S /\ 1..(n + 1) = S \cup {n + 1}
  OBVIOUS
<1>6. SUBSET (1..(n + 1)) = A \cup B
  <2> HIDE DEF S
  <2>1. ASSUME NEW V \in SUBSET (S \cup {n + 1}) PROVE V \in A \cup B
    <3>1. CASE n + 1 \in V
      <4>1. V \ {n + 1} \in A /\ V = (V \ {n + 1}) \cup {n + 1}
        BY <3>1
      <4> QED
        BY <4>1
    <3>2. CASE n + 1 \notin V
      BY <3>2
    <3> QED
      BY <3>1, <3>2
  <2> QED
    BY <2>1, <1>5
<1>7. A \cap B = {}
  BY <1>5
<1>8. ExistsBijection(A, B)
  <2>1. add \in [A -> B] /\ \A t \in B : \E s \in A : add[s] = t
    OBVIOUS
  <2>2. \A a, b \in A : add[a] = add[b] => a = b
    <3> HIDE DEF S
    <3>1. ASSUME NEW a \in A, NEW b \in A, a \cup {n + 1} = b \cup {n + 1}
          PROVE  a = b
      BY <3>1, <1>5
    <3> QED
      BY <3>1
  <2>3. add \in Bijection(A, B)
    <3> HIDE DEF add, A, B
    <3> QED
      BY <2>1, <2>2, Fun_IsBij
  <2> QED
    BY <2>3 DEF ExistsBijection
<1> HIDE DEF A, B
<1>9. IsFiniteSet(B) /\ Cardinality(B) = 2 ^ n
  BY <1>2, <1>8, FS_Bijection
<1>10. Cardinality(A \cup B) = Cardinality(A) + Cardinality(B) - Cardinality(A \cap B)
  BY <1>2, <1>9, FS_Union
<1>11. Cardinality(A \cap B) = 0
  BY <1>7, FS_EmptySet
<1>12. Cardinality(A \cup B) = 2 * Cardinality(A)
  <2>1. Cardinality(B) = Cardinality(A)
    BY <1>2, <1>9, Zenon
  <2> QED
    BY <2>1, <1>2, <1>10, <1>11
<1>13. 2 ^ (n + 1) = 2 * Cardinality(A)
  BY <1>4, <1>6, <1>12, Zenon
<1> QED
  BY <1>2, <1>13, Zenon

LEMMA TwoPos ==
  ASSUME NEW n \in Nat
  PROVE  2 ^ n \in Nat \ {0}
<1> DEFINE S == {i \in 0..n : 2 ^ i > 0}
<1>1. 0 \in S
  BY TwoZero
<1>2. ASSUME NEW i \in 0..(n - 1), i \in S PROVE i + 1 \in S
  BY <1>2, TwoNext
<1>3. n \in S
  <2> HIDE DEF S
  <2> QED
    BY <1>1, <1>2, UpTo
<1> QED
  BY <1>3, TwoNext

LEMMA TwoAdd ==
  ASSUME NEW a \in Nat, NEW b \in Nat
  PROVE  2 ^ (a + b) = 2 ^ a * 2 ^ b
<1> DEFINE S == {i \in 0..b : 2 ^ (a + i) = 2 ^ a * 2 ^ i}
<1>1. 0 \in S
  <2>1. 2 ^ a \in Nat /\ a + 0 = a
    BY TwoPos
  <2> QED
    BY <2>1, TwoZero
<1>2. ASSUME NEW i \in 0..(b - 1), i \in S PROVE i + 1 \in S
  <2>1. 2 ^ (a + i) = 2 ^ a * 2 ^ i
    BY <1>2
  <2>2. 2 ^ ((a + i) + 1) = 2 * 2 ^ (a + i) /\ 2 ^ (i + 1) = 2 * 2 ^ i
    BY TwoNext
  <2>3. 2 ^ a \in Nat /\ 2 ^ i \in Nat
    BY TwoPos
  <2>4. 2 * (2 ^ a * 2 ^ i) = 2 ^ a * (2 * 2 ^ i)
    BY <2>3
  <2>5. (a + i) + 1 = a + (i + 1) /\ i + 1 \in 0..b
    OBVIOUS
  <2>6. 2 ^ (a + (i + 1)) = 2 ^ a * 2 ^ (i + 1)
    BY <2>1, <2>2, <2>4, <2>5, Zenon
  <2> QED
    BY <2>5, <2>6
<1>3. b \in S
  <2> HIDE DEF S
  <2> QED
    BY <1>1, <1>2, UpTo
<1> QED
  BY <1>3

LEMMA TwoMono ==
  ASSUME NEW a \in Nat, NEW b \in Nat, a <= b
  PROVE  2 ^ a <= 2 ^ b
<1> DEFINE d == b - a
<1>1. d \in Nat /\ a + d = b
  OBVIOUS
<1> HIDE DEF d
<1>2. 2 ^ b = 2 ^ a * 2 ^ d /\ 2 ^ a \in Nat /\ 2 ^ d \in Nat \ {0}
  BY <1>1, TwoAdd, TwoPos
<1> DEFINE p == 2 ^ a
           q == 2 ^ d
<1> HIDE DEF p, q
<1>3. p \in Nat /\ q \in Nat \ {0} /\ 2 ^ b = p * q
  BY <1>2 DEF p, q
<1>4. p <= p * q
  BY <1>3
<1> QED
  BY <1>3, <1>4 DEF p

\* A quotient and a rest that make up n are the ones.
LEMMA DivMod ==
  ASSUME NEW n \in Int, NEW s \in Nat \ {0}, NEW a \in Int, NEW r \in 0..(s - 1),
         n = a * s + r
  PROVE  n \div s = a /\ n % s = r
<1> DEFINE q == n \div s
           t == n % s
<1>1. q \in Int /\ t \in 0..(s - 1) /\ n = q * s + t
  BY Euclid
<1> HIDE DEF q, t
<1> DEFINE m == q - a
<1>2. m \in Int /\ m * s = r - t
  BY <1>1, SMT
<1> HIDE DEF m
<1>3. m >= 1 => m * s >= s
  BY <1>2, SMT
<1>4. m <= -1 => m * s <= -s
  BY <1>2, SMT
<1>5. m = 0
  BY <1>1, <1>2, <1>3, <1>4
<1>6. m = 0 => m * s = 0
  BY SMT
<1> QED
  BY <1>1, <1>2, <1>5, <1>6 DEF q, t, m

\* Adding multiples of s changes no rest.
LEMMA RestMultiple ==
  ASSUME NEW s \in Nat \ {0}, NEW a \in Int, NEW k \in Int
  PROVE  (a + k * s) % s = a % s
<1> DEFINE q == a \div s
           r == a % s
<1>1. q \in Int /\ r \in 0..(s - 1) /\ a = q * s + r
  BY Euclid
<1> HIDE DEF q, r
<1>2. a + k * s = (q + k) * s + r /\ a + k * s \in Int /\ q + k \in Int
  BY <1>1, SMT
<1>3. (a + k * s) % s = r
  BY <1>1, <1>2, DivMod
<1> QED
  BY <1>3 DEF r

\* Numbers below p and below s make a number below p * s.
LEMMA Compose ==
  ASSUME NEW p \in Nat, NEW s \in Nat, NEW a \in 0..(p - 1), NEW r \in 0..(s - 1)
  PROVE  a * s + r \in 0..(p * s - 1)
<1>1. a * s \in Nat /\ p * s \in Nat /\ a * s + s <= p * s
  BY PrefixBound
<1> QED
  BY <1>1

LEMMA DivNat ==
  ASSUME NEW n \in Nat, NEW p \in Nat \ {0}
  PROVE  /\ n \div p \in Nat /\ n % p \in 0..(p - 1)
         /\ n = (n \div p) * p + (n % p)
<1> DEFINE q == n \div p
           r == n % p
<1>1. q \in Int /\ r \in 0..(p - 1) /\ n = q * p + r
  BY Euclid
<1> HIDE DEF q, r
<1>2. q \in Nat
  <2>1. SUFFICES ASSUME q <= -1 PROVE FALSE
    BY <1>1
  <2>2. q * p <= -p
    BY <2>1, <1>1
  <2> QED
    BY <2>2, <1>1
<1> QED
  BY <1>1, <1>2 DEF q, r

\* Division by a product, one factor after the other.
LEMMA DivTwice ==
  ASSUME NEW n \in Nat, NEW p \in Nat \ {0}, NEW q \in Nat \ {0}
  PROVE  /\ (n \div p) \div q = n \div (q * p)
         /\ n % (q * p) = ((n \div p) % q) * p + (n % p)
<1> DEFINE a == n \div p
           r == n % p
           b == a \div q
           t == a % q
<1>1. a \in Nat /\ r \in 0..(p - 1) /\ n = a * p + r
  BY DivNat
<1> HIDE DEF a, r
<1>2. b \in Nat /\ t \in 0..(q - 1) /\ a = b * q + t
  BY <1>1, DivNat
<1> HIDE DEF b, t
<1> DEFINE m == q * p
           u == t * p + r
<1>3. m \in Nat \ {0}
  <2>1. q * p >= 1
    BY SMT
  <2> QED
    BY <2>1
<1>4. u \in 0..(m - 1)
  BY <1>1, <1>2, Compose
<1>5. n = b * m + u
  BY <1>1, <1>2
<1> HIDE DEF m, u
<1>6. n \div m = b /\ n % m = u
  BY <1>2, <1>3, <1>4, <1>5, DivMod
<1> QED
  BY <1>6 DEF m, u, b, t, a, r

\* A common factor of both.
LEMMA DivScaled ==
  ASSUME NEW n \in Nat, NEW m \in Nat \ {0}, NEW k \in Nat \ {0}
  PROVE  /\ (n * k) \div (m * k) = n \div m
         /\ (n * k) % (m * k) = (n % m) * k
<1> DEFINE a == n \div m
           r == n % m
<1>1. a \in Nat /\ r \in 0..(m - 1) /\ n = a * m + r
  BY DivNat
<1> HIDE DEF a, r
<1> DEFINE s == m * k
           u == r * k
           v == n * k
<1>2. s \in Nat \ {0}
  <2>1. m * k >= 1
    BY SMT
  <2> QED
    BY <2>1
<1>3. u \in 0..(s - 1)
  <2>1. r \in Nat /\ r < m /\ m \in Nat /\ k \in Nat
    BY <1>1
  <2>2. r * k \in Nat /\ r * k + k <= m * k
    BY <2>1, PrefixBound
  <2> QED
    BY <2>2
<1>4. v = a * s + u /\ v \in Int
  <2>1. v = a * (m * k) + r * k
    BY <1>1
  <2> QED
    BY <2>1, <1>1
<1> HIDE DEF s, u, v
<1>5. v \div s = a /\ v % s = u
  BY <1>1, <1>2, <1>3, <1>4, DivMod
<1> QED
  BY <1>5 DEF s, u, v, a, r

\* A power of two as the product of two.
LEMMA TwoSplit ==
  ASSUME NEW a \in Nat, NEW b \in Nat, b <= a
  PROVE  /\ 2 ^ b \in Nat \ {0} /\ 2 ^ (a - b) \in Nat \ {0}
         /\ 2 ^ a = 2 ^ (a - b) * 2 ^ b
<1>1. a - b \in Nat /\ (a - b) + b = a
  OBVIOUS
<1>2. 2 ^ ((a - b) + b) = 2 ^ (a - b) * 2 ^ b
  BY <1>1, TwoAdd
<1> QED
  BY <1>1, <1>2, TwoPos

=============================================================================

----------------------------- MODULE UintLemmas -----------------------------
(***************************************************************************)
(* What the operators of Uint compute, for words and bytes of any number   *)
(* of bits and any number of limbs: what their loops over limbs leave is   *)
(* what the numbers say.                                                   *)
(*                                                                         *)
(* ArithProofs takes the lemmas for three sizes of numbers: its own, those *)
(* of one limb more, and those of the compact targets.                     *)
(***************************************************************************)
EXTENDS Pow, NumberLemmas

-----------------------------------------------------------------------------
(* Loops *)

\* What Repeat leaves is a function, and it goes on by turn from one number to
\* the next.
LEMMA RepeatFacts ==
  ASSUME NEW n \in Nat, NEW V, NEW first \in V, NEW turn \in [0..(n - 1) -> [V -> V]]
  PROVE  /\ Repeat(n, first, turn) \in [0..n -> V]
         /\ Repeat(n, first, turn)[0] = first
         /\ \A i \in 0..(n - 1) :
              Repeat(n, first, turn)[i + 1] = turn[i][Repeat(n, first, turn)[i]]
<1> DEFINE Runs(f, m) == /\ f \in [0..m -> V] /\ f[0] = first
                         /\ \A i \in 0..(m - 1) : f[i + 1] = turn[i][f[i]]
           S == {m \in 0..n : \E f : Runs(f, m)}
<1>1. 0 \in S
  <2>1. Runs([i \in 0..0 |-> first], 0)
    OBVIOUS
  <2>2. 0 \in 0..n
    OBVIOUS
  <2> HIDE DEF Runs
  <2> QED
    BY <2>1, <2>2
<1>2. ASSUME NEW m \in 0..(n - 1), m \in S PROVE m + 1 \in S
  <2>1. PICK f : Runs(f, m)
    BY <1>2
  <2> DEFINE g == [i \in 0..(m + 1) |-> IF i = m + 1 THEN turn[m][f[m]] ELSE f[i]]
  <2>2. turn[m][f[m]] \in V
    BY <2>1
  <2>3. g \in [0..(m + 1) -> V] /\ g[0] = first
    BY <2>1, <2>2
  <2>4. ASSUME NEW i \in 0..m PROVE g[i + 1] = turn[i][g[i]]
    <3>1. CASE i = m
      BY <3>1, <2>1
    <3>2. CASE i # m
      <4>1. i \in 0..(m - 1) /\ i + 1 \in 0..m /\ i + 1 # m + 1 /\ i # m + 1
        BY <3>2
      <4>2. g[i + 1] = f[i + 1] /\ g[i] = f[i]
        BY <4>1
      <4> QED
        BY <4>1, <4>2, <2>1
    <3> QED
      BY <3>1, <3>2
  <2>5. Runs(g, m + 1)
    <3>1. (m + 1) - 1 = m
      OBVIOUS
    <3> QED
      BY <3>1, <2>3, <2>4
  <2>6. m + 1 \in 0..n
    OBVIOUS
  <2> HIDE DEF Runs
  <2> QED
    BY <2>5, <2>6
<1>3. n \in S
  <2> HIDE DEF S
  <2>1. \A i \in 0..n : i \in S
    BY <1>1, <1>2, UpTo
  <2> QED
    BY <2>1
<1>4. PICK f : Runs(f, n)
  BY <1>3
<1> DEFINE Step(h) == [i \in 0..n |-> IF i = 0 THEN first ELSE turn[i - 1][h[i - 1]]]
           at == CHOOSE h : h = Step(h)
<1>5. f = Step(f)
  <2>1. ASSUME NEW i \in 0..n PROVE f[i] = Step(f)[i]
    <3>1. CASE i = 0
      BY <3>1, <1>4
    <3>2. CASE i # 0
      <4>1. i - 1 \in 0..(n - 1) /\ (i - 1) + 1 = i
        BY <3>2
      <4> QED
        BY <4>1, <3>2, <1>4
    <3> QED
      BY <3>1, <3>2
  <2> QED
    BY <2>1, <1>4
<1>6. at = Step(at)
  BY <1>5, Zenon
<1>7. Repeat(n, first, turn) = at
  BY Zenon DEF Repeat
<1> HIDE DEF at
<1>8. at[0] = first
  BY <1>6
<1>9. ASSUME NEW i \in 0..(n - 1) PROVE at[i + 1] = turn[i][at[i]]
  <2>1. i + 1 \in 0..n /\ i + 1 # 0 /\ (i + 1) - 1 = i
    OBVIOUS
  <2> QED
    BY <2>1, <1>6
<1> DEFINE T == {i \in 0..n : at[i] = f[i]}
<1>10. \A i \in 0..n : i \in T
  <2>1. 0 \in T
    BY <1>4, <1>8
  <2>2. ASSUME NEW i \in 0..(n - 1), i \in T PROVE i + 1 \in T
    <3>1. i + 1 \in 0..n
      OBVIOUS
    <3> QED
      BY <3>1, <2>2, <1>4, <1>9
  <2> HIDE DEF T
  <2> QED
    BY <2>1, <2>2, UpTo
<1>11. at \in [0..n -> V]
  BY <1>4, <1>6, <1>10
<1> QED
  BY <1>7, <1>8, <1>9, <1>11

-----------------------------------------------------------------------------
(* Numbers made of digits *)

LEMMA Place ==
  ASSUME NEW bits \in Nat, NEW i \in Nat
  PROVE  /\ 2 ^ (bits * i) \in Nat \ {0}
         /\ 2 ^ (bits * (i + 1)) = 2 ^ bits * 2 ^ (bits * i)
<1>1. bits * i \in Nat /\ bits * (i + 1) = bits + bits * i
  OBVIOUS
<1>2. 2 ^ (bits * i) \in Nat \ {0}
  BY <1>1, TwoPos
<1>3. 2 ^ (bits + bits * i) = 2 ^ bits * 2 ^ (bits * i)
  BY <1>1, TwoAdd
<1> QED
  BY <1>1, <1>2, <1>3

\* Functions that are taken for the digits of a number.
Digits(n) == [0..(n - 1) -> Nat]

LEMMA SumsFacts ==
  \A n, bits \in Nat : \A t \in Digits(n) :
    /\ Sums(n, bits, t) \in [0..n -> Nat]
    /\ Sums(n, bits, t)[0] = 0
    /\ \A i \in 0..(n - 1) :
         Sums(n, bits, t)[i + 1] = Sums(n, bits, t)[i] + t[i] * 2 ^ (bits * i)
    /\ Number(n, bits, t) = Sums(n, bits, t)[n]
    /\ Number(n, bits, t) \in Nat
<1> TAKE n, bits \in Nat
<1> TAKE t \in Digits(n)
<1> DEFINE turn == [i \in 0..(n - 1) |-> [sum \in Nat |-> sum + t[i] * 2 ^ (bits * i)]]
<1>1. ASSUME NEW i \in 0..(n - 1), NEW sum \in Nat
      PROVE  sum + t[i] * 2 ^ (bits * i) \in Nat
  <2>0. i \in Nat
    OBVIOUS
  <2>1. 2 ^ (bits * i) \in Nat
    BY <2>0, Place, Zenon
  <2> DEFINE p == 2 ^ (bits * i)
  <2> HIDE DEF p
  <2>2. p \in Nat /\ t[i] \in Nat
    BY <2>1 DEF p, Digits
  <2>3. sum + t[i] * p \in Nat
    BY <2>2
  <2> QED
    BY <2>3 DEF p
<1>2. turn \in [0..(n - 1) -> [Nat -> Nat]]
  BY <1>1
<1>3. Sums(n, bits, t) = Repeat(n, 0, turn)
  BY Zenon DEF Sums
<1>4. \A i \in 0..(n - 1), sum \in Nat : turn[i][sum] = sum + t[i] * 2 ^ (bits * i)
  OBVIOUS
<1> HIDE DEF turn
<1> DEFINE r == Repeat(n, 0, turn)
<1>5. /\ r \in [0..n -> Nat] /\ r[0] = 0
      /\ \A i \in 0..(n - 1) : r[i + 1] = turn[i][r[i]]
  <2> DEFINE zero == 0
             V == Nat
  <2>1. zero \in V /\ turn \in [0..(n - 1) -> [V -> V]]
    BY <1>2
  <2> HIDE DEF zero, V, r
  <2>2. /\ Repeat(n, zero, turn) \in [0..n -> V]
        /\ Repeat(n, zero, turn)[0] = zero
        /\ \A i \in 0..(n - 1) :
             Repeat(n, zero, turn)[i + 1] = turn[i][Repeat(n, zero, turn)[i]]
    BY <2>1, RepeatFacts
  <2> QED
    BY <2>2 DEF zero, V, r
<1> HIDE DEF r
<1>6. \A i \in 0..(n - 1) : r[i + 1] = r[i] + t[i] * 2 ^ (bits * i)
  <2> TAKE i \in 0..(n - 1)
  <2>1. r[i] \in Nat
    BY <1>5
  <2> QED
    BY <2>1, <1>4, <1>5
<1>7. r = Sums(n, bits, t)
  BY <1>3, Zenon DEF r
<1>8. Number(n, bits, t) = r[n] /\ r[n] \in Nat
  BY <1>5, <1>7 DEF Number
<1> QED
  BY <1>5, <1>6, <1>7, <1>8, Zenon

LEMMA SumsStart ==
  ASSUME NEW n \in Nat, NEW bits \in Nat, NEW t \in Digits(n)
  PROVE  Sums(n, bits, t) \in [0..n -> Nat] /\ Sums(n, bits, t)[0] = 0
  BY SumsFacts

\* Digits that do not fill their place stay below the next one.
LEMMA SumsBound ==
  ASSUME NEW n \in Nat, NEW bits \in Nat, NEW t \in [0..(n - 1) -> 0..(2 ^ bits - 1)]
  PROVE  \A i \in 0..n : Sums(n, bits, t)[i] \in 0..(2 ^ (bits * i) - 1)
<1> DEFINE s == Sums(n, bits, t)
<1>0. t \in Digits(n)
  <2>1. 2 ^ bits \in Nat
    BY TwoPos
  <2> QED
    BY <2>1 DEF Digits
<1>1. /\ s \in [0..n -> Nat] /\ s[0] = 0
      /\ \A i \in 0..(n - 1) : s[i + 1] = s[i] + t[i] * 2 ^ (bits * i)
  BY <1>0, SumsFacts
<1> HIDE DEF s
<1> DEFINE S == {i \in 0..n : s[i] \in 0..(2 ^ (bits * i) - 1)}
<1>2. 0 \in S
  <2>1. bits * 0 = 0
    OBVIOUS
  <2>2. 2 ^ (bits * 0) = 1
    BY <2>1, TwoZero, Zenon
  <2>3. s[0] \in 0..(2 ^ (bits * 0) - 1)
    BY <2>2, <1>1
  <2>4. 0 \in 0..n
    OBVIOUS
  <2> QED
    BY <2>3, <2>4
<1>3. ASSUME NEW i \in 0..(n - 1), i \in S PROVE i + 1 \in S
  <2> DEFINE p == 2 ^ (bits * i)
             w == 2 ^ bits
  <2>1. p \in Nat \ {0} /\ w \in Nat \ {0} /\ 2 ^ (bits * (i + 1)) = w * p
    BY Place, TwoPos
  <2>2. t[i] \in 0..(w - 1) /\ s[i] \in 0..(p - 1) /\ s[i + 1] = s[i] + t[i] * p
    BY <1>1, <1>3
  <2> HIDE DEF p, w
  <2>3. t[i] * p + s[i] \in 0..(w * p - 1)
    BY <2>1, <2>2, Compose
  <2>4. s[i + 1] \in 0..(w * p - 1)
    <3>1. t[i] * p \in Nat /\ s[i] \in Nat
      BY <2>1, <2>2
    <3> QED
      BY <3>1, <2>2, <2>3
  <2>5. i + 1 \in 0..n
    OBVIOUS
  <2> QED
    BY <2>1, <2>4, <2>5
<1>4. \A i \in 0..n : i \in S
  <2> HIDE DEF S
  <2> QED
    BY <1>2, <1>3, UpTo
<1> QED
  BY <1>4 DEF s

\* Digits that are kept one by one, with a carry from each to the next, keep
\* the number.
Carries(n, bits, v, t, c) ==
  \A i \in 0..(n - 1) : v[i] + c[i + 1] * 2 ^ bits = t[i] + c[i]

LEMMA Chain ==
  ASSUME NEW n \in Nat, NEW bits \in Nat, NEW v \in Digits(n),
         NEW t \in Digits(n), NEW c \in [0..n -> Nat],
         Carries(n, bits, v, t, c)
  PROVE  Number(n, bits, v) + c[n] * 2 ^ (bits * n) = Number(n, bits, t) + c[0]
<1> DEFINE sv == Sums(n, bits, v)
           st == Sums(n, bits, t)
<1>1. /\ sv \in [0..n -> Nat] /\ sv[0] = 0
      /\ \A i \in 0..(n - 1) : sv[i + 1] = sv[i] + v[i] * 2 ^ (bits * i)
      /\ Number(n, bits, v) = sv[n]
  BY SumsFacts
<1>2. /\ st \in [0..n -> Nat] /\ st[0] = 0
      /\ \A i \in 0..(n - 1) : st[i + 1] = st[i] + t[i] * 2 ^ (bits * i)
      /\ Number(n, bits, t) = st[n]
  BY SumsFacts, ZenonT(30)
<1> HIDE DEF sv, st
<1> DEFINE S == {i \in 0..n : sv[i] + c[i] * 2 ^ (bits * i) = st[i] + c[0]}
<1>3. 0 \in S
  <2>1. bits * 0 = 0
    OBVIOUS
  <2>2. 2 ^ (bits * 0) = 1
    BY <2>1, TwoZero, Zenon
  <2>3. sv[0] + c[0] * 2 ^ (bits * 0) = st[0] + c[0]
    BY <2>2, <1>1, <1>2
  <2>4. 0 \in 0..n
    OBVIOUS
  <2> QED
    BY <2>3, <2>4
<1>4. ASSUME NEW i \in 0..(n - 1), i \in S PROVE i + 1 \in S
  <2> DEFINE p == 2 ^ (bits * i)
             q == 2 ^ (bits * (i + 1))
             w == 2 ^ bits
  <2>1. p \in Nat /\ w \in Nat /\ q = w * p
    BY Place, TwoPos
  <2>2. sv[i] + c[i] * p = st[i] + c[0]
    BY <1>4
  <2>3. sv[i + 1] = sv[i] + v[i] * p /\ st[i + 1] = st[i] + t[i] * p
    BY <1>1, <1>2
  <2>4. v[i] + c[i + 1] * w = t[i] + c[i]
    BY DEF Carries
  <2>5. i + 1 \in 0..n /\ i \in 0..n /\ 0 \in 0..n
    OBVIOUS
  <2> HIDE DEF p, q, w
  <2>6. /\ sv[i] \in Nat /\ st[i] \in Nat /\ v[i] \in Nat /\ t[i] \in Nat
        /\ c[i] \in Nat /\ c[i + 1] \in Nat /\ c[0] \in Nat
    BY <2>5, <1>1, <1>2 DEF Digits
  <2>7. (sv[i] + v[i] * p) + c[i + 1] * (w * p) = (st[i] + t[i] * p) + c[0]
    <3> DEFINE vi == v[i]
               ti == t[i]
               ci == c[i]
               di == c[i + 1]
               xi == sv[i]
               yi == st[i]
               ki == c[0]
    <3>1. /\ vi \in Nat /\ ti \in Nat /\ ci \in Nat /\ di \in Nat /\ xi \in Nat
          /\ yi \in Nat /\ ki \in Nat /\ p \in Nat /\ w \in Nat
      BY <2>1, <2>6
    <3>2. vi + di * w = ti + ci /\ xi + ci * p = yi + ki
      BY <2>2, <2>4
    <3> HIDE DEF vi, ti, ci, di, xi, yi, ki
    <3>3. (xi + vi * p) + di * (w * p) = (yi + ti * p) + ki
      <4>1. (vi + di * w) * p = vi * p + di * (w * p)
        BY <3>1
      <4>2. (ti + ci) * p = ti * p + ci * p
        BY <3>1
      <4> DEFINE a == vi * p
                 b == di * (w * p)
                 e == ti * p
                 f == ci * p
      <4>3. a \in Nat /\ b \in Nat /\ e \in Nat /\ f \in Nat
        BY <3>1
      <4>4. a + b = e + f /\ xi + f = yi + ki
        BY <3>2, <4>1, <4>2
      <4> HIDE DEF a, b, e, f
      <4>5. (xi + a) + b = (yi + e) + ki
        BY <3>1, <4>3, <4>4
      <4> QED
        BY <4>5 DEF a, b, e
    <3> QED
      BY <3>3 DEF vi, ti, ci, di, xi, yi, ki
  <2> QED
    BY <2>1, <2>3, <2>5, <2>7 DEF q
<1>5. n \in S
  <2> HIDE DEF S
  <2>1. \A i \in 0..n : i \in S
    BY <1>3, <1>4, UpTo
  <2> QED
    BY <2>1
<1> QED
  BY <1>1, <1>2, <1>5

\* The number of digits that are sums and multiples.
Combines(n, t, a, k, b) == \A i \in 0..(n - 1) : t[i] = a[i] + k * b[i]

LEMMA Linear ==
  ASSUME NEW n \in Nat, NEW bits \in Nat, NEW k \in Nat, NEW a \in Digits(n),
         NEW b \in Digits(n), NEW t \in Digits(n),
         Combines(n, t, a, k, b)
  PROVE  Number(n, bits, t) = Number(n, bits, a) + k * Number(n, bits, b)
<1> DEFINE sa == Sums(n, bits, a)
           sb == Sums(n, bits, b)
           st == Sums(n, bits, t)
<1>1. /\ sa \in [0..n -> Nat] /\ sa[0] = 0
      /\ \A i \in 0..(n - 1) : sa[i + 1] = sa[i] + a[i] * 2 ^ (bits * i)
      /\ Number(n, bits, a) = sa[n]
  BY SumsFacts, ZenonT(30)
<1>2. /\ sb \in [0..n -> Nat] /\ sb[0] = 0
      /\ \A i \in 0..(n - 1) : sb[i + 1] = sb[i] + b[i] * 2 ^ (bits * i)
      /\ Number(n, bits, b) = sb[n]
  BY SumsFacts, ZenonT(30)
<1>3. /\ st \in [0..n -> Nat] /\ st[0] = 0
      /\ \A i \in 0..(n - 1) : st[i + 1] = st[i] + t[i] * 2 ^ (bits * i)
      /\ Number(n, bits, t) = st[n]
  BY SumsFacts, ZenonT(30)
<1> HIDE DEF sa, sb, st
<1> DEFINE S == {i \in 0..n : st[i] = sa[i] + k * sb[i]}
<1>4. 0 \in S
  BY <1>1, <1>2, <1>3
<1>5. ASSUME NEW i \in 0..(n - 1), i \in S PROVE i + 1 \in S
  <2> DEFINE p == 2 ^ (bits * i)
  <2>0. i \in Nat
    OBVIOUS
  <2>1. p \in Nat
    BY <2>0, Place
  <2>2. /\ st[i] = sa[i] + k * sb[i] /\ t[i] = a[i] + k * b[i]
        /\ sa[i + 1] = sa[i] + a[i] * p /\ sb[i + 1] = sb[i] + b[i] * p
        /\ st[i + 1] = st[i] + t[i] * p
    BY <1>1, <1>2, <1>3, <1>5 DEF Combines
  <2> HIDE DEF p
  <2>3. i + 1 \in 0..n /\ i \in 0..n
    OBVIOUS
  <2>4. /\ sa[i] \in Nat /\ sb[i] \in Nat /\ st[i] \in Nat /\ a[i] \in Nat /\ b[i] \in Nat
    BY <2>3, <1>1, <1>2, <1>3 DEF Digits
  <2>5. (sa[i] + k * sb[i]) + (a[i] + k * b[i]) * p
          = (sa[i] + a[i] * p) + k * (sb[i] + b[i] * p)
    <3> DEFINE x == sa[i]
               y == sb[i]
               u == a[i]
               v == b[i]
    <3>1. x \in Nat /\ y \in Nat /\ u \in Nat /\ v \in Nat
      BY <2>4
    <3> HIDE DEF x, y, u, v
    <3>2. (x + k * y) + (u + k * v) * p = (x + u * p) + k * (y + v * p)
      BY <2>1, <3>1
    <3> QED
      BY <3>2 DEF x, y, u, v
  <2>6. st[i + 1] = sa[i + 1] + k * sb[i + 1]
    BY <2>2, <2>5, Zenon
  <2> QED
    BY <2>3, <2>6
<1>6. n \in S
  <2> HIDE DEF S
  <2>1. \A i \in 0..n : i \in S
    BY <1>4, <1>5, UpTo
  <2> QED
    BY <2>1
<1> QED
  BY <1>1, <1>2, <1>3, <1>6

\* Where m digits of a from place w on are those of b, its number grows by that
\* of b, moved by w places.
Matches(a, b, w, m) == \A i \in 0..(m - 1) : a[w + i] = b[i]

LEMMA Shifted ==
  ASSUME NEW n \in Nat, NEW k \in Nat, NEW bits \in Nat, NEW w \in Nat, NEW m \in Nat,
         NEW a \in Digits(n), NEW b \in Digits(k), w + m <= n, m <= k, Matches(a, b, w, m)
  PROVE  Sums(n, bits, a)[w + m]
           = Sums(n, bits, a)[w] + Sums(k, bits, b)[m] * 2 ^ (bits * w)
<1> DEFINE sa == Sums(n, bits, a)
           sb == Sums(k, bits, b)
           pw == 2 ^ (bits * w)
<1>1. /\ sa \in [0..n -> Nat]
      /\ \A i \in 0..(n - 1) : sa[i + 1] = sa[i] + a[i] * 2 ^ (bits * i)
  BY SumsFacts, ZenonT(30)
<1>2. /\ sb \in [0..k -> Nat] /\ sb[0] = 0
      /\ \A i \in 0..(k - 1) : sb[i + 1] = sb[i] + b[i] * 2 ^ (bits * i)
  <2>1. sb \in [0..k -> Nat] /\ sb[0] = 0
    BY SumsStart
  <2>2. \A i \in 0..(k - 1) : sb[i + 1] = sb[i] + b[i] * 2 ^ (bits * i)
    BY SumsFacts
  <2> QED
    BY <2>1, <2>2
<1>3. pw \in Nat
  BY Place
<1> HIDE DEF sa, sb
<1> DEFINE S == {i \in 0..m : sa[w + i] = sa[w] + sb[i] * pw}
<1>4. 0 \in S
  <2>1. w + 0 = w /\ w \in 0..n /\ 0 \in 0..m
    OBVIOUS
  <2>2. sa[w] \in Nat
    BY <2>1, <1>1
  <2> HIDE DEF pw
  <2>3. sa[w + 0] = sa[w] + sb[0] * pw
    BY <2>1, <2>2, <1>2, <1>3
  <2> QED
    BY <2>1, <2>3
<1>5. ASSUME NEW i \in 0..(m - 1), i \in S PROVE i + 1 \in S
  <2> DEFINE p == 2 ^ (bits * i)
             q == 2 ^ (bits * (w + i))
             d == b[i]
             u == sa[w]
             v == sb[i]
  <2>1. /\ w + i \in 0..(n - 1) /\ w + i \in 0..n /\ i \in 0..(k - 1) /\ i \in 0..k
        /\ i \in Nat /\ w \in 0..n /\ (w + i) + 1 = w + (i + 1) /\ i + 1 \in 0..m
    OBVIOUS
  <2>2. /\ sa[w + i] = sa[w] + sb[i] * pw
        /\ sa[w + (i + 1)] = sa[w + i] + a[w + i] * q
        /\ sb[i + 1] = v + d * p
        /\ a[w + i] = d
    BY <2>1, <1>1, <1>2, <1>5 DEF Matches
  <2>3. bits * (w + i) = bits * w + bits * i /\ bits * w \in Nat /\ bits * i \in Nat
    BY <2>1
  <2>4. q = pw * p /\ p \in Nat
    BY <2>3, TwoAdd, TwoPos
  <2>5. d \in Nat /\ u \in Nat /\ v \in Nat
    BY <2>1, <1>1, <1>2 DEF Digits
  <2>6. sa[w + (i + 1)] = (u + v * pw) + d * (pw * p)
    BY <2>2, <2>4
  <2> HIDE DEF p, q, d, u, v, pw
  <2>7. (u + v * pw) + d * (pw * p) = u + (v + d * p) * pw
    BY <2>4, <2>5, <1>3
  <2>8. sa[w + (i + 1)] = sa[w] + sb[i + 1] * pw
    BY <2>2, <2>6, <2>7, Zenon DEF u
  <2> QED
    BY <2>1, <2>8
<1>6. m \in S
  <2> HIDE DEF S
  <2>1. \A i \in 0..m : i \in S
    BY <1>4, <1>5, UpTo
  <2> QED
    BY <2>1
<1> QED
  BY <1>6 DEF sa, sb

\* Digits that are 0 add nothing.
ZeroFrom(t, lo, hi) == \A i \in lo..(hi - 1) : t[i] = 0

LEMMA Flat ==
  ASSUME NEW n \in Nat, NEW bits \in Nat, NEW t \in Digits(n), NEW lo \in 0..n,
         NEW hi \in 0..n, lo <= hi, ZeroFrom(t, lo, hi)
  PROVE  Sums(n, bits, t)[hi] = Sums(n, bits, t)[lo]
<1> DEFINE s == Sums(n, bits, t)
           m == hi - lo
<1>1. /\ s \in [0..n -> Nat]
      /\ \A i \in 0..(n - 1) : s[i + 1] = s[i] + t[i] * 2 ^ (bits * i)
  BY SumsFacts
<1>2. m \in Nat /\ lo + m = hi
  OBVIOUS
<1> HIDE DEF s, m
<1> DEFINE S == {i \in 0..m : s[lo + i] = s[lo]}
<1>3. 0 \in S
  BY <1>2
<1>4. ASSUME NEW i \in 0..(m - 1), i \in S PROVE i + 1 \in S
  <2> DEFINE p == 2 ^ (bits * (lo + i))
  <2>1. /\ lo + i \in 0..(n - 1) /\ lo + i \in lo..(hi - 1) /\ lo + i \in 0..n
        /\ lo + i \in Nat /\ (lo + i) + 1 = lo + (i + 1) /\ i + 1 \in 0..m
    BY <1>2
  <2>2. /\ s[lo + i] = s[lo] /\ t[lo + i] = 0
        /\ s[lo + (i + 1)] = s[lo + i] + t[lo + i] * p
    BY <2>1, <1>1, <1>4 DEF ZeroFrom
  <2>3. p \in Nat
    BY <2>1, Place
  <2>4. s[lo + i] \in Nat
    BY <2>1, <1>1
  <2> HIDE DEF p
  <2>5. s[lo + (i + 1)] = s[lo]
    BY <2>2, <2>3, <2>4
  <2> QED
    BY <2>1, <2>5
<1>5. m \in S
  <2> HIDE DEF S
  <2>1. \A i \in 0..m : i \in S
    BY <1>2, <1>3, <1>4, UpTo
  <2> QED
    BY <1>2, <2>1
<1> QED
  BY <1>2, <1>5 DEF s

\* What a number is beyond its first w digits.
LEMMA Rest ==
  ASSUME NEW n \in Nat, NEW bits \in Nat, NEW t \in Digits(n), NEW w \in 0..n
  PROVE  \E r \in Nat : Number(n, bits, t) = Sums(n, bits, t)[w] + r * 2 ^ (bits * w)
<1> DEFINE k == n - w
           b == [i \in 0..(k - 1) |-> t[w + i]]
<1>1. k \in Nat /\ w \in Nat /\ w + k <= n /\ k <= k /\ w + k = n /\ k \in 0..k
  OBVIOUS
<1>2. \A i \in 0..(k - 1) : w + i \in 0..(n - 1)
  OBVIOUS
<1>3. b \in Digits(k) /\ \A i \in 0..(k - 1) : t[w + i] = b[i]
  BY <1>2 DEF Digits
<1> HIDE DEF k, b
<1>4. Sums(n, bits, t)[w + k] = Sums(n, bits, t)[w] + Sums(k, bits, b)[k] * 2 ^ (bits * w)
  <2>1. Matches(t, b, w, k)
    BY <1>3 DEF Matches
  <2> QED
    BY <2>1, <1>1, <1>3, Shifted
<1>5. Number(n, bits, t) = Sums(n, bits, t)[w + k]
  BY <1>1 DEF Number
<1>6. Sums(k, bits, b)[k] \in Nat
  BY <1>1, <1>3, SumsStart
<1> QED
  BY <1>4, <1>5, <1>6

\* The digit at place w.
LEMMA Digit ==
  ASSUME NEW n \in Nat, NEW bits \in Nat, NEW t \in Digits(n), NEW w \in 0..(n - 1)
  PROVE  \E r \in Nat :
           Number(n, bits, t) = Sums(n, bits, t)[w] + (t[w] + r * 2 ^ bits) * 2 ^ (bits * w)
<1>1. w + 1 \in 0..n /\ w \in Nat /\ w \in 0..n
  OBVIOUS
<1>2. PICK r \in Nat :
        Number(n, bits, t) = Sums(n, bits, t)[w + 1] + r * 2 ^ (bits * (w + 1))
  BY <1>1, Rest
<1>3. Sums(n, bits, t)[w + 1] = Sums(n, bits, t)[w] + t[w] * 2 ^ (bits * w)
  BY SumsFacts
<1> DEFINE p == 2 ^ (bits * w)
           m == 2 ^ bits
           s == Sums(n, bits, t)[w]
           d == t[w]
<1>4. 2 ^ (bits * (w + 1)) = m * p /\ m \in Nat /\ p \in Nat
  BY <1>1, Place, TwoPos
<1>5. s \in Nat
  BY <1>1, SumsStart
<1>6. Number(n, bits, t) = (s + d * p) + r * (m * p)
  BY <1>2, <1>3, <1>4
<1>7. d \in Nat
  BY DEF Digits
<1> HIDE DEF p, m, s, d
<1>8. (s + d * p) + r * (m * p) = s + (d + r * m) * p
  BY <1>4, <1>5, <1>7
<1>9. Number(n, bits, t) = s + (d + r * m) * p
  BY <1>6, <1>8, Zenon
<1> QED
  BY <1>9 DEF p, m, s, d

\* Digits moved up by w places, and those that leave the number.
Up(n, t, w) == [i \in 0..(n - 1) |-> IF i < w THEN 0 ELSE t[i - w]]

LEMMA MoveUp ==
  ASSUME NEW n \in Nat, NEW bits \in Nat, NEW t \in Digits(n), NEW w \in 0..n
  PROVE  /\ Up(n, t, w) \in Digits(n)
         /\ \E q \in Nat : Number(n, bits, t) * 2 ^ (bits * w)
                           = Number(n, bits, Up(n, t, w)) + q * 2 ^ (bits * n)
<1> DEFINE k == n - w
           u == Up(n, t, w)
<1>0. u \in Digits(n)
  <2>1. ASSUME NEW i \in 0..(n - 1), ~(i < w) PROVE i - w \in 0..(n - 1)
    BY <2>1
  <2> QED
    BY <2>1 DEF Digits, Up
<1>1. /\ k \in Nat /\ w \in Nat /\ w + k <= n /\ k <= n /\ w + k = n /\ k \in 0..k
      /\ k \in 0..n /\ 0 \in 0..n /\ w \in 0..n /\ k + w = n
  OBVIOUS
<1>2. \A i \in 0..(k - 1) : u[w + i] = t[i]
  <2> TAKE i \in 0..(k - 1)
  <2>1. w + i \in 0..(n - 1) /\ ~(w + i < w) /\ (w + i) - w = i
    OBVIOUS
  <2> QED
    BY <2>1 DEF Up
<1>3. \A i \in 0..(w - 1) : u[i] = 0
  BY DEF Up
<1> HIDE DEF k, u
<1>4. Sums(n, bits, u)[w + k] = Sums(n, bits, u)[w] + Sums(n, bits, t)[k] * 2 ^ (bits * w)
  <2>1. Matches(u, t, w, k)
    BY <1>2 DEF Matches
  <2> QED
    BY <2>1, <1>0, <1>1, Shifted
<1>5. Sums(n, bits, u)[w] = 0
  <2>1. w \in 0..n /\ 0 \in 0..n /\ 0 <= w /\ ZeroFrom(u, 0, w)
    BY <1>1, <1>3 DEF ZeroFrom
  <2>2. Sums(n, bits, u)[w] = Sums(n, bits, u)[0]
    BY <2>1, <1>0, Flat
  <2> QED
    BY <2>2, <1>0, SumsStart
<1>6. PICK r \in Nat : Number(n, bits, t) = Sums(n, bits, t)[k] + r * 2 ^ (bits * k)
  BY <1>1, Rest
<1> DEFINE s == Sums(n, bits, t)[k]
           p == 2 ^ (bits * w)
           q == 2 ^ (bits * k)
<1>7. s \in Nat /\ p \in Nat /\ q \in Nat
  <2>1. s \in Nat
    BY <1>1, SumsStart
  <2>2. p \in Nat /\ q \in Nat
    BY <1>1, Place
  <2> QED
    BY <2>1, <2>2
<1>8. Number(n, bits, u) = s * p
  <2>1. Number(n, bits, u) = Sums(n, bits, u)[w + k]
    BY <1>1 DEF Number
  <2>2. s * p \in Nat
    <3> HIDE DEF s, p
    <3> QED
      BY <1>7
  <2> QED
    BY <2>1, <2>2, <1>4, <1>5
<1>9. 2 ^ (bits * n) = q * p
  <2>1. bits * k \in Nat /\ bits * w \in Nat /\ bits * n = bits * k + bits * w
    BY <1>1
  <2> QED
    BY <2>1, TwoAdd
<1>10. Number(n, bits, t) = s + r * q
  BY <1>6
<1> HIDE DEF s, p, q
<1>11. (s + r * q) * p = s * p + r * (q * p)
  BY <1>7
<1>12. Number(n, bits, t) * p = Number(n, bits, u) + r * 2 ^ (bits * n)
  BY <1>8, <1>9, <1>10, <1>11, Zenon
<1> QED
  BY <1>0, <1>12 DEF p, u

\* Digits moved down by w places, without those that leave the number.
Down(n, t, w) == [i \in 0..(n - 1) |-> IF i + w < n THEN t[i + w] ELSE 0]

LEMMA MoveDown ==
  ASSUME NEW n \in Nat, NEW bits \in Nat, NEW t \in Digits(n), NEW w \in 0..n
  PROVE  /\ Down(n, t, w) \in Digits(n)
         /\ Number(n, bits, t)
              = Sums(n, bits, t)[w] + Number(n, bits, Down(n, t, w)) * 2 ^ (bits * w)
<1> DEFINE k == n - w
           u == Down(n, t, w)
<1>0. u \in Digits(n)
  <2>1. ASSUME NEW i \in 0..(n - 1), i + w < n PROVE i + w \in 0..(n - 1)
    BY <2>1
  <2> QED
    BY <2>1 DEF Digits, Down
<1>1. /\ k \in Nat /\ w \in Nat /\ w + k <= n /\ k <= n /\ w + k = n /\ k \in 0..k
      /\ k \in 0..n /\ n \in 0..n /\ k <= n
  OBVIOUS
<1>2. \A i \in 0..(k - 1) : t[w + i] = u[i]
  <2> TAKE i \in 0..(k - 1)
  <2>1. i \in 0..(n - 1) /\ i + w < n /\ i + w = w + i
    OBVIOUS
  <2> QED
    BY <2>1 DEF Down
<1>3. \A i \in k..(n - 1) : u[i] = 0
  <2> TAKE i \in k..(n - 1)
  <2>1. i \in 0..(n - 1) /\ ~(i + w < n)
    OBVIOUS
  <2> QED
    BY <2>1 DEF Down
<1> HIDE DEF k, u
<1>4. Sums(n, bits, t)[w + k] = Sums(n, bits, t)[w] + Sums(n, bits, u)[k] * 2 ^ (bits * w)
  <2>1. Matches(t, u, w, k)
    BY <1>2 DEF Matches
  <2> QED
    BY <2>1, <1>0, <1>1, Shifted
<1>5. Sums(n, bits, u)[n] = Sums(n, bits, u)[k]
  <2>1. ZeroFrom(u, k, n)
    BY <1>3 DEF ZeroFrom
  <2> QED
    BY <2>1, <1>0, <1>1, Flat
<1>6. Number(n, bits, t) = Sums(n, bits, t)[w] + Number(n, bits, u) * 2 ^ (bits * w)
  BY <1>1, <1>4, <1>5, Zenon DEF Number
<1> QED
  BY <1>0, <1>6 DEF u

-----------------------------------------------------------------------------
(* Words and loops over limbs *)

LEMMA WordFacts ==
  /\ WordBits \in Nat \ {0} /\ Limbs \in Nat \ {0}
  /\ Word \in Nat \ {0} /\ Word = 2 ^ WordBits
  /\ Size \in Nat \ {0} /\ Size = 2 ^ (WordBits * Limbs)
  /\ BITS \in Nat \ {0} /\ BITS = WordBits * Limbs
<1>1. WordBits \in Nat \ {0} /\ Limbs \in Nat \ {0}
  BY WordsAssumption
<1>2. WordBits * Limbs \in Nat /\ Limbs * WordBits = WordBits * Limbs /\ WordBits * Limbs # 0
  BY <1>1
<1>3. 2 ^ WordBits \in Nat \ {0} /\ 2 ^ (WordBits * Limbs) \in Nat \ {0}
  BY <1>1, <1>2, TwoPos
<1> QED
  BY <1>1, <1>2, <1>3 DEF Word, Size, BITS

\* The words of a number are its digits.
LEMMA UintFacts ==
  ASSUME NEW x \in Uints
  PROVE  /\ x \in Digits(Limbs) /\ x \in [Index -> Nat]
         /\ \A i \in Index : x[i] \in 0..(Word - 1)
         /\ Value(x) \in 0..(Size - 1)
<1>1. x \in [0..(Limbs - 1) -> 0..(2 ^ WordBits - 1)] /\ x \in [Index -> 0..(Word - 1)]
  BY DEF Uints, Index, Words, Word
<1>2. x \in Digits(Limbs) /\ x \in [Index -> Nat]
  BY <1>1, WordFacts DEF Digits, Index
<1>3. Sums(Limbs, WordBits, x)[Limbs] \in 0..(2 ^ (WordBits * Limbs) - 1)
  <2>1. WordBits \in Nat /\ Limbs \in Nat /\ Limbs \in 0..Limbs
    BY WordFacts
  <2>2. \A i \in 0..Limbs :
          Sums(Limbs, WordBits, x)[i] \in 0..(2 ^ (WordBits * i) - 1)
    BY <1>1, <2>1, SumsBound
  <2> QED
    BY <2>1, <2>2
<1> QED
  BY <1>1, <1>2, <1>3, WordFacts DEF Value, Number

OneToOne(limb) == \A j, k \in Index : limb[j] = limb[k] => j = k
Turns == [Index -> [Nat -> [word : Nat, carry : Nat]]]
\* The k-th turn of a loop is at limb[k], finds the carry c[k] and leaves c[k + 1].
Went(limb, turn, val, c) ==
  \A k \in Index : /\ val[limb[k]] = turn[limb[k]][c[k]].word
                   /\ c[k + 1] = turn[limb[k]][c[k]].carry

LEMMA LoopFacts ==
  ASSUME NEW x \in [Index -> Nat], NEW limb \in [Index -> Index], OneToOne(limb),
         NEW turn \in Turns
  PROVE  /\ Loop(x, limb, turn).val \in [Index -> Nat]
         /\ \E c \in [0..Limbs -> Nat] :
              /\ c[0] = 0 /\ Loop(x, limb, turn).carry = c[Limbs]
              /\ Went(limb, turn, Loop(x, limb, turn).val, c)
<1> DEFINE V == [val : [Index -> Nat], carry : Nat]
           first == [val |-> x, carry |-> 0]
           Next1(k, st) == LET at == turn[limb[k]][st.carry]
                           IN  [val |-> [st.val EXCEPT ![limb[k]] = at.word],
                                carry |-> at.carry]
           step == [k \in 0..(Limbs - 1) |-> [st \in V |-> Next1(k, st)]]
           Step(h) == [k \in 0..Limbs |-> IF k = 0 THEN first ELSE Next1(k - 1, h[k - 1])]
           after == CHOOSE h : h = Step(h)
<1>0. Limbs \in Nat /\ Index = 0..(Limbs - 1) /\ Limbs \in 0..Limbs /\ 0 \in 0..Limbs
  BY WordFacts DEF Index
<1>1. ASSUME NEW k \in Index, NEW st \in V
      PROVE  /\ Next1(k, st) \in V
             /\ Next1(k, st).carry = turn[limb[k]][st.carry].carry
             /\ Next1(k, st).val[limb[k]] = turn[limb[k]][st.carry].word
             /\ \A j \in Index : j # limb[k] => Next1(k, st).val[j] = st.val[j]
  <2>1. st.val \in [Index -> Nat] /\ st.carry \in Nat /\ limb[k] \in Index
    OBVIOUS
  <2>2. turn[limb[k]][st.carry] \in [word : Nat, carry : Nat]
    BY <2>1 DEF Turns
  <2> QED
    BY <2>1, <2>2
<1>2. first \in V
  OBVIOUS
<1> HIDE DEF V, first, Next1
<1>3. step \in [0..(Limbs - 1) -> [V -> V]]
  <2>1. \A k \in 0..(Limbs - 1) : \A st \in V : Next1(k, st) \in V
    BY <1>0, <1>1
  <2> QED
    BY <2>1
<1>4. \A k \in Index, st \in V : step[k][st] = Next1(k, st)
  BY <1>0
<1> HIDE DEF step
<1> DEFINE f == Repeat(Limbs, first, step)
<1> HIDE DEF f
<1>5. /\ f \in [0..Limbs -> V] /\ f[0] = first
      /\ \A i \in 0..(Limbs - 1) : f[i + 1] = step[i][f[i]]
  <2>1. /\ Repeat(Limbs, first, step) \in [0..Limbs -> V]
        /\ Repeat(Limbs, first, step)[0] = first
        /\ \A i \in 0..(Limbs - 1) :
             Repeat(Limbs, first, step)[i + 1] = step[i][Repeat(Limbs, first, step)[i]]
    <3>1. Limbs \in Nat
      BY <1>0
    <3>2. first \in V /\ step \in [0..(Limbs - 1) -> [V -> V]]
      BY <1>2, <1>3
    <3> QED
      BY <3>1, <3>2, RepeatFacts, SMTT(30)
  <2> QED
    BY <2>1, Zenon DEF f
<1>6. f = Step(f)
  <2>1. ASSUME NEW i \in 0..Limbs PROVE f[i] = Step(f)[i]
    <3>1. CASE i = 0
      BY <3>1, <1>5
    <3>2. CASE i # 0
      <4>1. i - 1 \in 0..(Limbs - 1) /\ (i - 1) + 1 = i /\ i - 1 \in 0..Limbs
        BY <3>2, <1>0
      <4>2. f[i - 1] \in V /\ f[i] = step[i - 1][f[i - 1]]
        BY <4>1, <1>5
      <4>3. f[i] = Next1(i - 1, f[i - 1])
        BY <4>1, <4>2, <1>0, <1>4
      <4> QED
        BY <4>3, <3>2
    <3> QED
      BY <3>1, <3>2
  <2> QED
    BY <2>1, <1>5
<1>7. after = Step(after)
  BY <1>6, Zenon
<1>8. Loop(x, limb, turn) = after[Limbs]
  BY Zenon DEF Loop, Next1, first
<1> HIDE DEF after
<1>9. after[0] = first
  BY <1>7, <1>0
<1>10. ASSUME NEW i \in 0..(Limbs - 1) PROVE after[i + 1] = Next1(i, after[i])
  <2>1. i + 1 \in 0..Limbs /\ i + 1 # 0 /\ (i + 1) - 1 = i
    BY <1>0
  <2> QED
    BY <2>1, <1>7
<1> DEFINE c == [k \in 0..Limbs |-> after[k].carry]
           Kept(k) == \A j \in 0..(k - 1) :
                        after[k].val[limb[j]] = turn[limb[j]][after[j].carry].word
           S == {k \in 0..Limbs : after[k] \in V /\ Kept(k)}
<1>11. 0 \in S
  BY <1>0, <1>2, <1>9
<1>12. ASSUME NEW i \in 0..(Limbs - 1), i \in S PROVE i + 1 \in S
  <2>1. after[i] \in V /\ Kept(i)
    BY <1>12
  <2>2. i + 1 \in 0..Limbs /\ i \in Index /\ (i + 1) - 1 = i
    BY <1>0
  <2>3. /\ after[i + 1] \in V
        /\ after[i + 1].val[limb[i]] = turn[limb[i]][after[i].carry].word
        /\ \A j \in Index : j # limb[i] => after[i + 1].val[j] = after[i].val[j]
    BY <2>1, <2>2, <1>1, <1>10
  <2>4. ASSUME NEW j \in 0..i
        PROVE  after[i + 1].val[limb[j]] = turn[limb[j]][after[j].carry].word
    <3>1. CASE j = i
      BY <3>1, <2>3
    <3>2. CASE j # i
      <4>1. j \in 0..(i - 1) /\ j \in Index /\ limb[j] \in Index
        BY <3>2, <1>0
      <4>2. limb[j] # limb[i]
        BY <4>1, <2>2, <3>2 DEF OneToOne
      <4> QED
        BY <4>1, <4>2, <2>1, <2>3
    <3> QED
      BY <3>1, <3>2
  <2>5. Kept(i + 1)
    BY <2>2, <2>4
  <2> HIDE DEF Kept
  <2> QED
    BY <2>2, <2>3, <2>5
<1>13. \A i \in 0..Limbs : after[i] \in V /\ Kept(i)
  <2> HIDE DEF S
  <2>1. \A i \in 0..Limbs : i \in S
    BY <1>0, <1>11, <1>12, UpTo
  <2> HIDE DEF Kept
  <2> QED
    BY <2>1 DEF S
<1>14. /\ after[Limbs].val \in [Index -> Nat]
       /\ \A i \in 0..Limbs : after[i].carry \in Nat
  <2>1. \A i \in 0..Limbs : after[i] \in V
    BY <1>13
  <2> QED
    BY <2>1, <1>0 DEF V
<1>15. c \in [0..Limbs -> Nat] /\ c[0] = 0 /\ after[Limbs].carry = c[Limbs]
  BY <1>0, <1>9, <1>14 DEF first
<1>16. Went(limb, turn, after[Limbs].val, c)
  <2>1. ASSUME NEW k \in Index
        PROVE  /\ after[Limbs].val[limb[k]] = turn[limb[k]][c[k]].word
               /\ c[k + 1] = turn[limb[k]][c[k]].carry
    <3>1. k \in 0..Limbs /\ k + 1 \in 0..Limbs /\ k \in 0..(Limbs - 1)
      BY <1>0
    <3>2. after[k] \in V
      BY <3>1, <1>13
    <3>3. after[k + 1].carry = turn[limb[k]][after[k].carry].carry
      BY <3>1, <3>2, <1>1, <1>10
    <3>4. after[Limbs].val[limb[k]] = turn[limb[k]][after[k].carry].word
      BY <3>1, <1>0, <1>13
    <3> QED
      BY <3>1, <3>3, <3>4
  <2> HIDE DEF c
  <2> QED
    BY <2>1 DEF Went
<1> HIDE DEF c
<1> QED
  BY <1>8, <1>14, <1>15, <1>16

\* A loop from the lowest limb: the word and the carry of every turn.
Ran(turn, r, c) ==
  /\ r.val \in [Index -> Nat] /\ c \in [0..Limbs -> Nat]
  /\ c[0] = 0 /\ r.carry = c[Limbs]
  /\ \A i \in Index : r.val[i] = turn[i][c[i]].word /\ c[i + 1] = turn[i][c[i]].carry

LEMMA UpwardsFacts ==
  ASSUME NEW x \in [Index -> Nat], NEW turn \in Turns
  PROVE  \E c : Ran(turn, Upwards(x, turn), c)
<1> DEFINE limb == [k \in Index |-> k]
           r == Loop(x, limb, turn)
<1>1. limb \in [Index -> Index] /\ OneToOne(limb) /\ \A k \in Index : limb[k] = k
  BY DEF OneToOne
<1>2. r = Upwards(x, turn)
  BY Zenon DEF Upwards
<1> HIDE DEF limb
<1>3. PICK c \in [0..Limbs -> Nat] :
        /\ r.val \in [Index -> Nat] /\ c[0] = 0 /\ r.carry = c[Limbs]
        /\ Went(limb, turn, r.val, c)
  BY <1>1, LoopFacts
<1> HIDE DEF r
<1>4. \A i \in Index : r.val[i] = turn[i][c[i]].word /\ c[i + 1] = turn[i][c[i]].carry
  BY <1>1, <1>3 DEF Went
<1>5. Ran(turn, r, c)
  BY <1>3, <1>4 DEF Ran
<1> QED
  BY <1>2, <1>5

LEMMA EachFacts ==
  ASSUME NEW words \in [Index -> Nat]
  PROVE  Each(words) = words
<1> DEFINE turn == [i \in Index |-> [c \in Nat |-> [word |-> words[i], carry |-> 0]]]
           r == Upwards(ZERO, turn)
<1>1. turn \in Turns /\ \A i \in Index, c \in Nat : turn[i][c].word = words[i]
  BY DEF Turns
<1>2. ZERO \in [Index -> Nat]
  BY DEF ZERO
<1>3. Each(words) = r.val
  BY Zenon DEF Each
<1> HIDE DEF turn
<1>4. PICK c : Ran(turn, r, c)
  BY <1>1, <1>2, UpwardsFacts
<1> HIDE DEF r
<1>5. /\ r.val \in [Index -> Nat] /\ c \in [0..Limbs -> Nat]
      /\ \A i \in Index : r.val[i] = turn[i][c[i]].word
  BY <1>4 DEF Ran
<1>6. ASSUME NEW i \in Index PROVE r.val[i] = words[i]
  <2>1. i \in 0..Limbs
    BY WordFacts DEF Index
  <2>2. c[i] \in Nat
    BY <2>1, <1>5
  <2> QED
    BY <2>2, <1>1, <1>5
<1> QED
  BY <1>3, <1>5, <1>6

\* The carries of a loop that keeps each word and the carry it leaves.
LEMMA Carried ==
  ASSUME NEW v \in Digits(Limbs), NEW t \in Digits(Limbs), NEW c \in [0..Limbs -> Nat],
         Carries(Limbs, WordBits, v, t, c)
  PROVE  Value(v) + c[Limbs] * Size = Value(t) + c[0]
<1>1. WordBits \in Nat /\ Limbs \in Nat /\ Size = 2 ^ (WordBits * Limbs)
  BY WordFacts
<1>2. Number(Limbs, WordBits, v) + c[Limbs] * 2 ^ (WordBits * Limbs)
        = Number(Limbs, WordBits, t) + c[0]
  BY <1>1, Chain
<1> QED
  BY <1>1, <1>2 DEF Value

LEMMA ValueSum ==
  ASSUME NEW k \in Nat, NEW a \in Digits(Limbs), NEW b \in Digits(Limbs),
         NEW t \in Digits(Limbs), Combines(Limbs, t, a, k, b)
  PROVE  /\ Value(a) \in Nat /\ Value(b) \in Nat /\ Value(t) \in Nat
         /\ Value(t) = Value(a) + k * Value(b)
<1>1. WordBits \in Nat /\ Limbs \in Nat
  BY WordFacts
<1>2. Number(Limbs, WordBits, t)
        = Number(Limbs, WordBits, a) + k * Number(Limbs, WordBits, b)
  BY <1>1, Linear
<1>3. /\ Number(Limbs, WordBits, a) \in Nat /\ Number(Limbs, WordBits, b) \in Nat
      /\ Number(Limbs, WordBits, t) \in Nat
  BY <1>1, SumsFacts
<1> QED
  BY <1>2, <1>3 DEF Value

LEMMA PlainSum ==
  ASSUME NEW a \in Digits(Limbs), NEW b \in Digits(Limbs), NEW t \in Digits(Limbs),
         \A i \in 0..(Limbs - 1) : t[i] = a[i] + b[i]
  PROVE  /\ Value(a) \in Nat /\ Value(b) \in Nat
         /\ Value(t) = Value(a) + Value(b)
<1> DEFINE one == 1
<1>1. one \in Nat /\ \A v \in Nat : one * v = v
  OBVIOUS
<1> HIDE DEF one
<1>2. Combines(Limbs, t, a, one, b)
  <2>1. \A i \in 0..(Limbs - 1) : b[i] \in Nat
    BY DEF Digits
  <2> QED
    BY <2>1, <1>1 DEF Combines
<1>3. /\ Value(a) \in Nat /\ Value(b) \in Nat
      /\ Value(t) = Value(a) + one * Value(b)
  BY <1>1, <1>2, ValueSum
<1> QED
  BY <1>1, <1>3

LEMMA SplitFacts ==
  ASSUME NEW n \in Nat
  PROVE  /\ Split(n) \in [word : Nat, carry : Nat]
         /\ Split(n).word \in 0..(Word - 1)
         /\ Split(n).word + Split(n).carry * Word = n
<1> DEFINE q == n \div Word
           r == n % Word
<1>1. q \in Int /\ r \in 0..(Word - 1) /\ n = q * Word + r
  <2>1. Word \in Nat \ {0} /\ n \in Int
    BY WordFacts
  <2> QED
    BY <2>1, Euclid
<1>2. Split(n) = [word |-> r, carry |-> q]
  BY DEF Split
<1>3. Word \in Nat \ {0}
  BY WordFacts
<1> HIDE DEF q, r
<1>4. q \in Nat
  <2>1. SUFFICES ASSUME q <= -1 PROVE FALSE
    BY <1>1
  <2>2. q * Word <= -Word
    BY <2>1, <1>1, <1>3
  <2> QED
    BY <2>2, <1>1, <1>3
<1> QED
  BY <1>1, <1>2, <1>3, <1>4

-----------------------------------------------------------------------------
(* Sums and differences *)

LEMMA CarryingAddFacts ==
  ASSUME NEW l \in 0..(Word - 1), NEW r \in 0..(Word - 1), NEW c \in Nat
  PROVE  /\ CarryingAdd(l, r, c) \in [word : Nat, carry : Nat]
         /\ CarryingAdd(l, r, c).word \in 0..(Word - 1)
         /\ CarryingAdd(l, r, c).carry \in {0, 1}
         /\ c \in {0, 1} =>
              CarryingAdd(l, r, c).word + CarryingAdd(l, r, c).carry * Word = l + r + c
<1> DEFINE a == Split(l + r)
           b == Split(a.word + c)
           ac == a.carry
           aw == a.word
           bc == b.carry
           bw == b.word
<1>0. Word \in Nat \ {0}
  BY WordFacts
<1>1. ac \in Nat /\ aw \in 0..(Word - 1) /\ aw + ac * Word = l + r
  <2>1. l + r \in Nat
    BY <1>0
  <2> QED
    BY <2>1, SplitFacts
<1>2. bc \in Nat /\ bw \in 0..(Word - 1) /\ bw + bc * Word = aw + c
  <2>1. aw + c \in Nat
    BY <1>0, <1>1
  <2> QED
    BY <2>1, SplitFacts
<1>3. CarryingAdd(l, r, c) = [word |-> bw, carry |-> IF ac # bc THEN 1 ELSE 0]
  BY DEF CarryingAdd
<1> HIDE DEF a, b, ac, aw, bc, bw
<1>4. ASSUME c \in {0, 1} PROVE bw + (IF ac # bc THEN 1 ELSE 0) * Word = l + r + c
  <2> DEFINE p == ac * Word
             q == bc * Word
  <2>1. ac = 0 \/ ac = 1 \/ p >= 2 * Word
    BY <1>0, <1>1
  <2>2. bc = 0 \/ bc = 1 \/ q >= 2 * Word
    BY <1>0, <1>2
  <2>3. /\ (ac = 0 => p = 0) /\ (ac = 1 => p = Word)
        /\ (bc = 0 => q = 0) /\ (bc = 1 => q = Word)
    BY <1>0
  <2>4. p \in Nat /\ q \in Nat /\ aw + p = l + r /\ bw + q = aw + c
    BY <1>0, <1>1, <1>2
  <2> HIDE DEF p, q
  <2> QED
    BY <1>0, <1>1, <1>2, <1>4, <2>1, <2>2, <2>3, <2>4
<1> QED
  BY <1>0, <1>2, <1>3, <1>4

\* overflowing_add: the value and the carry out of it are the sum.
LEMMA AddFacts ==
  ASSUME NEW x \in Uints, NEW y \in Uints
  PROVE  LET r == OverflowingAdd(x, y)
         IN  r.val \in Uints /\ r.carry \in {0, 1}
             /\ Value(r.val) + r.carry * Size = Value(x) + Value(y)
<1> DEFINE turn == [i \in Index |-> [c \in Nat |-> CarryingAdd(x[i], y[i], c)]]
           r == OverflowingAdd(x, y)
           t == [i \in Index |-> x[i] + y[i]]
<1>0. /\ Limbs \in Nat /\ Index = 0..(Limbs - 1) /\ Word \in Nat \ {0} /\ Word = 2 ^ WordBits
      /\ x \in [Index -> 0..(Word - 1)] /\ y \in [Index -> 0..(Word - 1)]
  BY WordFacts DEF Index, Uints, Words
<1>1. turn \in Turns
  <2>1. \A i \in Index, c \in Nat : CarryingAdd(x[i], y[i], c) \in [word : Nat, carry : Nat]
    BY <1>0, CarryingAddFacts
  <2> QED
    BY <2>1 DEF Turns
<1>2. \A i \in Index, c \in Nat : turn[i][c] = CarryingAdd(x[i], y[i], c)
  OBVIOUS
<1>3. r = Upwards(x, turn)
  BY Zenon DEF OverflowingAdd
<1> HIDE DEF turn
<1>4. PICK c : Ran(turn, r, c)
  BY <1>1, <1>3, UintFacts, UpwardsFacts
<1> HIDE DEF r
<1>5. /\ r.val \in [Index -> Nat] /\ c \in [0..Limbs -> Nat] /\ c[0] = 0
      /\ r.carry = c[Limbs]
      /\ \A i \in Index : /\ r.val[i] = turn[i][c[i]].word
                          /\ c[i + 1] = turn[i][c[i]].carry
  BY <1>4 DEF Ran
<1>6. ASSUME NEW i \in Index
      PROVE  /\ r.val[i] \in 0..(Word - 1) /\ c[i + 1] \in {0, 1}
             /\ c[i] \in {0, 1} => r.val[i] + c[i + 1] * Word = x[i] + y[i] + c[i]
  <2>1. i \in 0..Limbs /\ x[i] \in 0..(Word - 1) /\ y[i] \in 0..(Word - 1)
    BY <1>0
  <2>2. c[i] \in Nat
    BY <2>1, <1>5
  <2>3. turn[i][c[i]] = CarryingAdd(x[i], y[i], c[i])
    BY <2>2, <1>2
  <2> DEFINE l == x[i]
             m == y[i]
             k == c[i]
  <2>4. l \in 0..(Word - 1) /\ m \in 0..(Word - 1) /\ k \in Nat
    BY <2>1, <2>2
  <2> HIDE DEF l, m, k
  <2>5. /\ CarryingAdd(l, m, k).word \in 0..(Word - 1)
        /\ CarryingAdd(l, m, k).carry \in {0, 1}
        /\ k \in {0, 1} =>
             CarryingAdd(l, m, k).word + CarryingAdd(l, m, k).carry * Word = l + m + k
    BY <2>4, CarryingAddFacts
  <2>6. r.val[i] = CarryingAdd(l, m, k).word /\ c[i + 1] = CarryingAdd(l, m, k).carry
    BY <2>3, <1>5 DEF l, m, k
  <2> QED
    BY <2>5, <2>6 DEF l, m, k
<1>7. \A i \in 0..Limbs : c[i] \in {0, 1}
  <2> TAKE i \in 0..Limbs
  <2>1. CASE i = 0
    BY <2>1, <1>5
  <2>2. CASE i # 0
    <3>1. i - 1 \in Index /\ (i - 1) + 1 = i
      BY <2>2, <1>0
    <3> QED
      BY <3>1, <1>6
  <2> QED
    BY <2>1, <2>2
<1>8. t \in Digits(Limbs) /\ \A i \in Index : t[i] = x[i] + y[i]
  BY <1>0 DEF Digits
<1> HIDE DEF t
<1>9. Carries(Limbs, WordBits, r.val, t, c)
  <2>1. ASSUME NEW i \in 0..(Limbs - 1)
        PROVE  r.val[i] + c[i + 1] * 2 ^ WordBits = t[i] + c[i]
    <3>1. i \in Index /\ i \in 0..Limbs
      BY <1>0
    <3>2. c[i] \in {0, 1}
      BY <3>1, <1>7
    <3>3. r.val[i] + c[i + 1] * Word = x[i] + y[i] + c[i]
      BY <3>1, <3>2, <1>6
    <3> QED
      BY <3>1, <3>3, <1>0, <1>8
  <2> QED
    BY <2>1 DEF Carries
<1>10. r.val \in Digits(Limbs) /\ r.val \in Uints
  <2>1. r.val \in [Index -> 0..(Word - 1)]
    BY <1>5, <1>6
  <2> QED
    BY <2>1, UintFacts DEF Uints, Words
<1>11. Value(r.val) + c[Limbs] * Size = Value(t) + c[0]
  BY <1>5, <1>8, <1>9, <1>10, Carried
<1>12. Value(t) = Value(x) + Value(y) /\ Value(x) \in Nat /\ Value(y) \in Nat
  BY <1>8, UintFacts, PlainSum DEF Index
<1>13. Limbs \in 0..Limbs
  BY <1>0
<1> QED
  BY <1>5, <1>7, <1>10, <1>11, <1>12, <1>13, WordFacts DEF r

LEMMA BorrowingSubFacts ==
  ASSUME NEW l \in 0..(Word - 1), NEW r \in 0..(Word - 1), NEW c \in Nat
  PROVE  /\ BorrowingSub(l, r, c) \in [word : Nat, carry : Nat]
         /\ BorrowingSub(l, r, c).word \in 0..(Word - 1)
         /\ BorrowingSub(l, r, c).carry \in {0, 1}
         /\ c \in {0, 1} =>
              l + BorrowingSub(l, r, c).carry * Word = BorrowingSub(l, r, c).word + r + c
<1> DEFINE a == (l - r) % Word
           b == (a - c) % Word
           k == IF (l < r) # (a < c) THEN 1 ELSE 0
<1>0. Word \in Nat \ {0}
  BY WordFacts
<1>1. a \in 0..(Word - 1) /\ a = (IF l < r THEN (l - r) + Word ELSE l - r)
  <2>1. CASE l < r
    <3>1. (l - r) + Word \in 0..(Word - 1)
      BY <2>1, <1>0
    <3>2. l - r \in Int
      BY <1>0
    <3>3. ((l - r) + Word) % Word = (l - r) % Word
      BY <3>2, <1>0, RestAdd
    <3>4. ((l - r) + Word) % Word = (l - r) + Word
      BY <3>1, <1>0, RestOnce
    <3> QED
      BY <3>1, <3>3, <3>4, <2>1
  <2>2. CASE ~(l < r)
    <3>1. l - r \in 0..(Word - 1)
      BY <2>2, <1>0
    <3> QED
      BY <3>1, <2>2, <1>0, RestOnce
  <2> QED
    BY <2>1, <2>2
<1>2. b \in 0..(Word - 1)
  <2>1. a - c \in Int
    BY <1>0, <1>1
  <2> QED
    BY <2>1, <1>0, Euclid
<1>3. ASSUME c \in {0, 1} PROVE b = (IF a < c THEN (a - c) + Word ELSE a - c)
  <2> HIDE DEF a
  <2>1. CASE a < c
    <3>1. (a - c) + Word \in 0..(Word - 1)
      BY <2>1, <1>0, <1>1, <1>3
    <3>2. a - c \in Int
      BY <1>0, <1>1
    <3>3. ((a - c) + Word) % Word = (a - c) % Word
      BY <3>2, <1>0, RestAdd
    <3>4. ((a - c) + Word) % Word = (a - c) + Word
      BY <3>1, <1>0, RestOnce
    <3> QED
      BY <3>3, <3>4, <2>1
  <2>2. CASE ~(a < c)
    <3>1. a - c \in 0..(Word - 1)
      BY <2>2, <1>0, <1>1
    <3> QED
      BY <3>1, <2>2, <1>0, RestOnce
  <2> QED
    BY <2>1, <2>2
<1>4. BorrowingSub(l, r, c) = [word |-> b, carry |-> k]
  BY DEF BorrowingSub
<1> HIDE DEF a, b
<1>5. k \in {0, 1}
  OBVIOUS
<1>6. ASSUME c \in {0, 1} PROVE l + k * Word = b + r + c
  <2>1. CASE l < r
    <3>1. ~(a < c)
      BY <2>1, <1>0, <1>1, <1>6
    <3> QED
      BY <2>1, <3>1, <1>0, <1>1, <1>3, <1>6
  <2>2. CASE ~(l < r) /\ a < c
    BY <2>2, <1>0, <1>1, <1>3, <1>6
  <2>3. CASE ~(l < r) /\ ~(a < c)
    BY <2>3, <1>0, <1>1, <1>3, <1>6
  <2> QED
    BY <2>1, <2>2, <2>3
<1> HIDE DEF k
<1> QED
  BY <1>0, <1>2, <1>4, <1>5, <1>6

\* overflowing_sub: the value and what is taken away are the number and the borrow
\* out of it.
LEMMA SubFacts ==
  ASSUME NEW x \in Uints, NEW y \in Uints
  PROVE  LET r == OverflowingSub(x, y)
         IN  r.val \in Uints /\ r.carry \in {0, 1}
             /\ Value(x) + r.carry * Size = Value(r.val) + Value(y)
<1> DEFINE turn == [i \in Index |-> [c \in Nat |-> BorrowingSub(x[i], y[i], c)]]
           r == OverflowingSub(x, y)
           t == [i \in Index |-> r.val[i] + y[i]]
<1>0. /\ Limbs \in Nat /\ Index = 0..(Limbs - 1) /\ Word \in Nat \ {0} /\ Word = 2 ^ WordBits
      /\ x \in [Index -> 0..(Word - 1)] /\ y \in [Index -> 0..(Word - 1)]
  BY WordFacts DEF Index, Uints, Words
<1>1. turn \in Turns
  <2>1. \A i \in Index, c \in Nat : BorrowingSub(x[i], y[i], c) \in [word : Nat, carry : Nat]
    BY <1>0, BorrowingSubFacts
  <2> QED
    BY <2>1 DEF Turns
<1>2. \A i \in Index, c \in Nat : turn[i][c] = BorrowingSub(x[i], y[i], c)
  OBVIOUS
<1>3. r = Upwards(x, turn)
  BY Zenon DEF OverflowingSub
<1> HIDE DEF turn
<1>4. PICK c : Ran(turn, r, c)
  BY <1>1, <1>3, UintFacts, UpwardsFacts
<1> HIDE DEF r
<1>5. /\ r.val \in [Index -> Nat] /\ c \in [0..Limbs -> Nat] /\ c[0] = 0
      /\ r.carry = c[Limbs]
      /\ \A i \in Index : /\ r.val[i] = turn[i][c[i]].word
                          /\ c[i + 1] = turn[i][c[i]].carry
  BY <1>4 DEF Ran
<1>6. ASSUME NEW i \in Index
      PROVE  /\ r.val[i] \in 0..(Word - 1) /\ c[i + 1] \in {0, 1}
             /\ c[i] \in {0, 1} => x[i] + c[i + 1] * Word = r.val[i] + y[i] + c[i]
  <2>1. i \in 0..Limbs /\ x[i] \in 0..(Word - 1) /\ y[i] \in 0..(Word - 1)
    BY <1>0
  <2>2. c[i] \in Nat
    BY <2>1, <1>5
  <2>3. turn[i][c[i]] = BorrowingSub(x[i], y[i], c[i])
    BY <2>2, <1>2
  <2> DEFINE l == x[i]
             m == y[i]
             k == c[i]
  <2>4. l \in 0..(Word - 1) /\ m \in 0..(Word - 1) /\ k \in Nat
    BY <2>1, <2>2
  <2> HIDE DEF l, m, k
  <2>5. /\ BorrowingSub(l, m, k).word \in 0..(Word - 1)
        /\ BorrowingSub(l, m, k).carry \in {0, 1}
        /\ k \in {0, 1} =>
             l + BorrowingSub(l, m, k).carry * Word = BorrowingSub(l, m, k).word + m + k
    BY <2>4, BorrowingSubFacts
  <2>6. r.val[i] = BorrowingSub(l, m, k).word /\ c[i + 1] = BorrowingSub(l, m, k).carry
    BY <2>3, <1>5 DEF l, m, k
  <2> QED
    BY <2>5, <2>6 DEF l, m, k
<1>7. \A i \in 0..Limbs : c[i] \in {0, 1}
  <2> TAKE i \in 0..Limbs
  <2>1. CASE i = 0
    BY <2>1, <1>5
  <2>2. CASE i # 0
    <3>1. i - 1 \in Index /\ (i - 1) + 1 = i
      BY <2>2, <1>0
    <3> QED
      BY <3>1, <1>6
  <2> QED
    BY <2>1, <2>2
<1>8. r.val \in Digits(Limbs) /\ r.val \in Uints
  <2>1. r.val \in [Index -> 0..(Word - 1)]
    BY <1>5, <1>6
  <2> QED
    BY <2>1, UintFacts DEF Uints, Words
<1>9. t \in Digits(Limbs) /\ \A i \in Index : t[i] = r.val[i] + y[i]
  <2>1. ASSUME NEW i \in Index PROVE r.val[i] + y[i] \in Nat
    <3>1. y[i] \in Nat
      BY <1>0
    <3>2. r.val[i] \in Nat
      BY <1>6
    <3> QED
      BY <3>1, <3>2
  <2>2. t \in [Index -> Nat]
    BY <2>1
  <2> QED
    BY <2>2, <1>0 DEF Digits
<1> HIDE DEF t
<1>10. Carries(Limbs, WordBits, x, t, c)
  <2>1. ASSUME NEW i \in 0..(Limbs - 1)
        PROVE  x[i] + c[i + 1] * 2 ^ WordBits = t[i] + c[i]
    <3>1. i \in Index /\ i \in 0..Limbs
      BY <1>0
    <3>2. c[i] \in {0, 1}
      BY <3>1, <1>7
    <3>3. x[i] + c[i + 1] * Word = r.val[i] + y[i] + c[i]
      BY <3>1, <3>2, <1>6
    <3> QED
      BY <3>1, <3>3, <1>0, <1>9
  <2> QED
    BY <2>1 DEF Carries
<1>11. Value(x) + c[Limbs] * Size = Value(t) + c[0]
  BY <1>5, <1>9, <1>10, UintFacts, Carried
<1>12. Value(t) = Value(r.val) + Value(y) /\ Value(r.val) \in Nat /\ Value(y) \in Nat
  BY <1>8, <1>9, UintFacts, PlainSum DEF Index
<1>13. Limbs \in 0..Limbs
  BY <1>0
<1> QED
  BY <1>5, <1>7, <1>8, <1>11, <1>12, <1>13, WordFacts DEF r

\* A loop whose turns split t[i] and the carry they find: its words and the carry
\* out of it are the number of t and the carry into it.
SplitWay(t, r, d) ==
  /\ r.val \in [Index -> Nat] /\ d \in [0..Limbs -> Nat] /\ r.carry = d[Limbs]
  /\ \A i \in Index : r.val[i] = Split(t[i] + d[i]).word /\ d[i + 1] = Split(t[i] + d[i]).carry

LEMMA SplitLoop ==
  ASSUME NEW t \in Digits(Limbs), NEW r, NEW d, SplitWay(t, r, d)
  PROVE  /\ r.val \in Uints /\ r.carry \in Nat
         /\ Value(r.val) + r.carry * Size = Value(t) + d[0]
<1>0. /\ Limbs \in Nat \ {0} /\ Index = 0..(Limbs - 1) /\ Word \in Nat \ {0}
      /\ Word = 2 ^ WordBits /\ t \in [Index -> Nat]
  BY WordFacts DEF Index, Digits
<1>1. /\ r.val \in [Index -> Nat] /\ d \in [0..Limbs -> Nat] /\ r.carry = d[Limbs]
      /\ \A i \in Index : /\ r.val[i] = Split(t[i] + d[i]).word
                          /\ d[i + 1] = Split(t[i] + d[i]).carry
  BY DEF SplitWay
<1>2. ASSUME NEW i \in Index
      PROVE  r.val[i] \in 0..(Word - 1) /\ r.val[i] + d[i + 1] * Word = t[i] + d[i]
  <2>1. i \in 0..Limbs
    BY <1>0
  <2> DEFINE k == t[i] + d[i]
  <2>2. k \in Nat
    <3>1. t[i] \in Nat
      BY <1>0
    <3>2. d[i] \in Nat
      BY <2>1, <1>1
    <3> QED
      BY <3>1, <3>2
  <2>3. r.val[i] = Split(k).word /\ d[i + 1] = Split(k).carry
    BY <1>1
  <2> HIDE DEF k
  <2>4. Split(k).word \in 0..(Word - 1) /\ Split(k).word + Split(k).carry * Word = k
    BY <2>2, SplitFacts
  <2> QED
    BY <2>3, <2>4 DEF k
<1>3. r.val \in Digits(Limbs) /\ r.val \in Uints
  <2>1. r.val \in [Index -> 0..(Word - 1)]
    BY <1>1, <1>2
  <2> QED
    BY <2>1, UintFacts DEF Uints, Words
<1>4. Carries(Limbs, WordBits, r.val, t, d)
  BY <1>0, <1>2 DEF Carries
<1>5. Value(r.val) + d[Limbs] * Size = Value(t) + d[0]
  BY <1>1, <1>3, <1>4, Carried
<1>6. d[Limbs] \in Nat
  BY <1>0, <1>1
<1> QED
  BY <1>1, <1>3, <1>5, <1>6

\* overflowing_add_u64.
LEMMA AddU64Facts ==
  ASSUME NEW x \in Uints, NEW n \in Words
  PROVE  LET r == OverflowingAddU64(x, n)
         IN  r.val \in Uints /\ r.carry \in Nat
             /\ Value(r.val) + r.carry * Size = Value(x) + n
<1> DEFINE turn == [i \in Index |-> [c \in Nat |-> Split(x[i] + (IF i = 0 THEN n ELSE c))]]
           r == OverflowingAddU64(x, n)
<1>0. /\ Limbs \in Nat \ {0} /\ Index = 0..(Limbs - 1) /\ Word \in Nat \ {0} /\ n \in Nat
      /\ x \in [Index -> Nat]
  BY WordFacts, UintFacts DEF Index, Words
<1>1. turn \in Turns
  <2>1. \A i \in Index, c \in Nat : x[i] + (IF i = 0 THEN n ELSE c) \in Nat
    BY <1>0
  <2>2. \A i \in Index, c \in Nat :
          Split(x[i] + (IF i = 0 THEN n ELSE c)) \in [word : Nat, carry : Nat]
    BY <2>1, SplitFacts
  <2> QED
    BY <2>2 DEF Turns
<1>2. \A i \in Index, c \in Nat : turn[i][c] = Split(x[i] + (IF i = 0 THEN n ELSE c))
  OBVIOUS
<1>3. r = Upwards(x, turn)
  BY Zenon DEF OverflowingAddU64
<1> HIDE DEF turn
<1>4. PICK c : Ran(turn, r, c)
  BY <1>0, <1>1, <1>3, UpwardsFacts
<1> HIDE DEF r
<1>5. /\ r.val \in [Index -> Nat] /\ c \in [0..Limbs -> Nat]
      /\ r.carry = c[Limbs]
      /\ \A i \in Index : /\ r.val[i] = turn[i][c[i]].word
                          /\ c[i + 1] = turn[i][c[i]].carry
  BY <1>4 DEF Ran
<1> DEFINE d == [i \in 0..Limbs |-> IF i = 0 THEN n ELSE c[i]]
<1>6. d \in [0..Limbs -> Nat] /\ d[0] = n /\ d[Limbs] = c[Limbs]
  BY <1>0, <1>5
<1>7. ASSUME NEW i \in Index
      PROVE  r.val[i] = Split(x[i] + d[i]).word /\ d[i + 1] = Split(x[i] + d[i]).carry
  <2>1. i \in 0..Limbs /\ i + 1 \in 0..Limbs /\ i + 1 # 0
    BY <1>0
  <2>2. c[i] \in Nat /\ d[i + 1] = c[i + 1] /\ d[i] = IF i = 0 THEN n ELSE c[i]
    BY <2>1, <1>5
  <2>3. turn[i][c[i]] = Split(x[i] + d[i])
    BY <2>2, <1>2
  <2> HIDE DEF d
  <2> QED
    BY <2>2, <2>3, <1>5
<1> HIDE DEF d
<1>8. SplitWay(x, r, d)
  BY <1>5, <1>6, <1>7 DEF SplitWay
<1>9. r.val \in Uints /\ r.carry \in Nat /\ Value(r.val) + r.carry * Size = Value(x) + d[0]
  BY <1>8, UintFacts, SplitLoop
<1> QED
  BY <1>6, <1>9 DEF r

LEMMA ValueZero == ZERO \in Uints /\ Value(ZERO) = 0
<1>1. /\ Limbs \in Nat /\ WordBits \in Nat /\ 0 \in 0..Limbs /\ Limbs \in 0..Limbs
      /\ 0 <= Limbs /\ Word \in Nat \ {0}
  BY WordFacts
<1>2. ZERO \in Digits(Limbs) /\ ZERO \in Uints /\ ZeroFrom(ZERO, 0, Limbs)
  BY <1>1 DEF ZERO, Digits, Uints, Words, ZeroFrom, Index
<1>3. Sums(Limbs, WordBits, ZERO)[Limbs] = Sums(Limbs, WordBits, ZERO)[0]
  BY <1>1, <1>2, Flat
<1>4. Sums(Limbs, WordBits, ZERO)[0] = 0
  BY <1>1, <1>2, SumsStart
<1> QED
  BY <1>2, <1>3, <1>4 DEF Value, Number

-----------------------------------------------------------------------------
(* Products *)

\* carrying_mul_u64.
LEMMA MulU64Facts ==
  ASSUME NEW x \in Uints, NEW n \in Words
  PROVE  LET r == CarryingMulU64(x, n)
         IN  r.val \in Uints /\ r.carry \in Nat
             /\ Value(r.val) + r.carry * Size = n * Value(x)
<1> DEFINE turn == [i \in Index |-> [c \in Nat |-> Split(c + n * x[i])]]
           r == CarryingMulU64(x, n)
           t == [i \in Index |-> n * x[i]]
<1>0. /\ Limbs \in Nat \ {0} /\ Index = 0..(Limbs - 1) /\ Word \in Nat \ {0} /\ n \in Nat
      /\ x \in [Index -> Nat]
  BY WordFacts, UintFacts DEF Index, Words
<1>1. \A i \in Index : n * x[i] \in Nat
  <2> TAKE i \in Index
  <2> DEFINE k == x[i]
  <2>1. k \in Nat
    BY <1>0
  <2> HIDE DEF k
  <2>2. n * k \in Nat
    BY <2>1, <1>0
  <2> QED
    BY <2>2 DEF k
<1>2. t \in [Index -> Nat] /\ \A i \in Index : t[i] = n * x[i]
  BY <1>1
<1>3. turn \in Turns
  <2>1. \A i \in Index, c \in Nat : c + n * x[i] \in Nat
    BY <1>1
  <2>2. \A i \in Index, c \in Nat : Split(c + n * x[i]) \in [word : Nat, carry : Nat]
    BY <2>1, SplitFacts
  <2> QED
    BY <2>2 DEF Turns
<1>4. \A i \in Index, c \in Nat : turn[i][c] = Split(c + t[i])
  BY <1>2
<1>5. r = Upwards(x, turn)
  BY Zenon DEF CarryingMulU64
<1> HIDE DEF turn, t
<1>6. PICK c : Ran(turn, r, c)
  BY <1>0, <1>3, <1>5, UpwardsFacts
<1> HIDE DEF r
<1>7. /\ r.val \in [Index -> Nat] /\ c \in [0..Limbs -> Nat]
      /\ r.carry = c[Limbs] /\ c[0] = 0
      /\ \A i \in Index : /\ r.val[i] = turn[i][c[i]].word
                          /\ c[i + 1] = turn[i][c[i]].carry
  BY <1>6 DEF Ran
<1>8. SplitWay(t, r, c)
  <2>1. ASSUME NEW i \in Index
        PROVE  r.val[i] = Split(t[i] + c[i]).word /\ c[i + 1] = Split(t[i] + c[i]).carry
    <3>1. i \in 0..Limbs
      BY <1>0
    <3>2. c[i] \in Nat /\ t[i] \in Nat
      BY <3>1, <1>2, <1>7
    <3>3. c[i] + t[i] = t[i] + c[i]
      BY <3>2
    <3>4. turn[i][c[i]] = Split(t[i] + c[i])
      BY <3>2, <3>3, <1>4
    <3> QED
      BY <3>4, <1>7
  <2> QED
    BY <2>1, <1>7 DEF SplitWay
<1>9. t \in Digits(Limbs)
  BY <1>0, <1>2 DEF Digits
<1>10. r.val \in Uints /\ r.carry \in Nat /\ Value(r.val) + r.carry * Size = Value(t) + c[0]
  BY <1>8, <1>9, SplitLoop
<1>11. Value(t) \in Nat /\ Value(t) = n * Value(x)
  <2>1. Combines(Limbs, t, ZERO, n, x)
    <3>1. ASSUME NEW i \in 0..(Limbs - 1) PROVE t[i] = ZERO[i] + n * x[i]
      <4>1. i \in Index /\ ZERO[i] = 0
        BY <1>0 DEF ZERO
      <4> QED
        BY <4>1, <1>1, <1>2
    <3> QED
      BY <3>1 DEF Combines
  <2>2. Value(t) \in Nat /\ Value(x) \in Nat /\ Value(t) = Value(ZERO) + n * Value(x)
    BY <2>1, <1>0, <1>9, UintFacts, ValueZero, ValueSum
  <2> DEFINE k == Value(x)
  <2> HIDE DEF k
  <2>3. n * k \in Nat
    BY <2>2, <1>0 DEF k
  <2> QED
    BY <2>2, <2>3, ValueZero DEF k
<1> QED
  BY <1>7, <1>10, <1>11 DEF r

\* One row of overflowing_mul adds x times the limb, moved to the limb's place; what
\* it does not compute would be in the number's next word or beyond.
LEMMA MulRowFacts ==
  ASSUME NEW acc \in Uints, NEW x \in Uints, NEW y \in Uints, NEW j \in Index
  PROVE  LET r == MulRow(acc, x, y, j)
         IN  /\ r.val \in Uints /\ r.carry \in Nat
             /\ Value(r.val) + r.carry * Size = Value(acc) + y[j] * Value(Up(Limbs, x, j))
<1> DEFINE turn == [k \in Index |-> [c \in Nat |->
                      IF k < j THEN [word |-> acc[k], carry |-> 0]
                      ELSE Split(x[k - j] * y[j] + acc[k] + c)]]
           r == MulRow(acc, x, y, j)
           n == y[j]
           u == Up(Limbs, x, j)
           t == [k \in Index |-> acc[k] + n * u[k]]
<1>0. /\ Limbs \in Nat \ {0} /\ Index = 0..(Limbs - 1) /\ Word \in Nat \ {0}
      /\ x \in [Index -> Nat] /\ acc \in [Index -> 0..(Word - 1)] /\ acc \in [Index -> Nat]
  BY WordFacts, UintFacts DEF Index, Uints, Words
<1>1. n \in Nat
  BY UintFacts
<1>2. /\ u \in [Index -> Nat]
      /\ \A k \in Index : u[k] = IF k < j THEN 0 ELSE x[k - j]
  <2>1. \A k \in 0..(Limbs - 1) : u[k] = IF k < j THEN 0 ELSE x[k - j]
    BY DEF Up
  <2>2. \A k \in Index : ~(k < j) => k - j \in Index
    BY <1>0
  <2>3. \A k \in Index : (IF k < j THEN 0 ELSE x[k - j]) \in Nat
    BY <2>2, <1>0
  <2> QED
    BY <2>1, <2>3, <1>0 DEF Up
<1> HIDE DEF n, u
<1>3. ASSUME NEW k \in Index PROVE acc[k] + n * u[k] \in Nat
  <2> DEFINE a == acc[k]
             b == u[k]
  <2>1. a \in Nat /\ b \in Nat
    BY <1>0, <1>2
  <2> HIDE DEF a, b
  <2>2. a + n * b \in Nat
    BY <2>1, <1>1
  <2> QED
    BY <2>2 DEF a, b
<1>4. t \in [Index -> Nat] /\ \A k \in Index : t[k] = acc[k] + n * u[k]
  BY <1>3
<1> HIDE DEF t
<1>5. ASSUME NEW k \in Index, NEW c \in Nat
      PROVE  /\ turn[k][c] \in [word : Nat, carry : Nat]
             /\ k < j => turn[k][c] = [word |-> acc[k], carry |-> 0]
             /\ ~(k < j) \/ c = 0 =>
                  turn[k][c].word = Split(t[k] + c).word
                  /\ turn[k][c].carry = Split(t[k] + c).carry
  <2>1. CASE k < j
    <3>1. turn[k][c] = [word |-> acc[k], carry |-> 0]
      BY <2>1
    <3>2. acc[k] \in 0..(Word - 1) /\ u[k] = 0
      BY <1>0, <1>2, <2>1
    <3>3. t[k] = acc[k]
      BY <3>2, <1>1, <1>4
    <3> DEFINE a == acc[k]
    <3>4. a \in 0..(Word - 1) /\ a \in Nat
      BY <3>2, <1>0
    <3> HIDE DEF a
    <3>5. a = 0 * Word + a /\ a \in Int
      BY <3>4, <1>0
    <3>6. a % Word = a /\ a \div Word = 0
      <4> DEFINE zero == 0
      <4>1. zero \in Int /\ a = zero * Word + a
        BY <3>5
      <4> HIDE DEF zero
      <4>2. a \div Word = zero /\ a % Word = a
        BY <4>1, <3>4, <3>5, <1>0, DivMod
      <4> QED
        BY <4>2 DEF zero
    <3>7. Split(a) = [word |-> a, carry |-> 0]
      BY <3>6 DEF Split
    <3>8. c = 0 => t[k] + c = a
      BY <3>3, <3>4 DEF a
    <3> HIDE DEF turn
    <3> QED
      BY <3>1, <3>4, <3>7, <3>8, <2>1 DEF a
  <2>2. CASE ~(k < j)
    <3>1. k - j \in Index /\ u[k] = x[k - j]
      BY <2>2, <1>0, <1>2
    <3>2. turn[k][c] = Split(x[k - j] * y[j] + acc[k] + c)
      BY <2>2
    <3> DEFINE a == acc[k]
               b == x[k - j]
    <3>3. a \in Nat /\ b \in Nat
      BY <3>1, <1>0
    <3> HIDE DEF turn, a, b
    <3>4. b * n + a + c = (a + n * b) + c /\ (a + n * b) + c \in Nat
      BY <3>3, <1>1
    <3>5. t[k] = a + n * b
      BY <3>1, <1>4 DEF a, b
    <3>6. turn[k][c] = Split(t[k] + c) /\ t[k] + c \in Nat
      BY <3>2, <3>4, <3>5 DEF a, b, n
    <3>7. Split(t[k] + c) \in [word : Nat, carry : Nat]
      BY <3>6, SplitFacts
    <3> QED
      BY <3>6, <3>7, <2>2
  <2> HIDE DEF turn
  <2> QED
    BY <2>1, <2>2
<1>6. turn \in Turns
  <2> DEFINE T(k, c) == IF k < j THEN [word |-> acc[k], carry |-> 0]
                        ELSE Split(x[k - j] * y[j] + acc[k] + c)
  <2>1. \A k \in Index : \A c \in Nat : T(k, c) \in [word : Nat, carry : Nat]
    BY <1>5
  <2> HIDE DEF T
  <2>2. [k \in Index |-> [c \in Nat |-> T(k, c)]] \in Turns
    BY <2>1 DEF Turns
  <2> QED
    BY <2>2 DEF T
<1>7. r = Upwards(acc, turn)
  BY Zenon DEF MulRow
<1> HIDE DEF turn
<1>8. PICK c : Ran(turn, r, c)
  BY <1>0, <1>6, <1>7, UpwardsFacts
<1> HIDE DEF r
<1>9. /\ r.val \in [Index -> Nat] /\ c \in [0..Limbs -> Nat]
      /\ r.carry = c[Limbs] /\ c[0] = 0
      /\ \A k \in Index : /\ r.val[k] = turn[k][c[k]].word
                          /\ c[k + 1] = turn[k][c[k]].carry
  BY <1>8 DEF Ran
<1>10. ASSUME NEW k \in Index, k < j PROVE c[k] = 0
  <2>1. CASE k = 0
    BY <2>1, <1>9
  <2>2. CASE k # 0
    <3>1. /\ k - 1 \in Index /\ (k - 1) + 1 = k /\ k - 1 \in 0..Limbs /\ k - 1 < j
      BY <2>2, <1>0, <1>10
    <3>2. c[k - 1] \in Nat
      BY <3>1, <1>9
    <3>3. turn[k - 1][c[k - 1]] = [word |-> acc[k - 1], carry |-> 0]
      BY <3>1, <3>2, <1>5
    <3> QED
      BY <3>1, <3>3, <1>9
  <2> QED
    BY <2>1, <2>2
<1>11. SplitWay(t, r, c)
  <2>1. ASSUME NEW k \in Index
        PROVE  r.val[k] = Split(t[k] + c[k]).word /\ c[k + 1] = Split(t[k] + c[k]).carry
    <3>1. k \in 0..Limbs
      BY <1>0
    <3>2. c[k] \in Nat /\ (~(k < j) \/ c[k] = 0)
      BY <3>1, <1>9, <1>10
    <3> QED
      BY <3>2, <1>5, <1>9, ZenonT(30)
  <2> QED
    BY <2>1, <1>9 DEF SplitWay
<1>12. t \in Digits(Limbs) /\ u \in Digits(Limbs)
  BY <1>0, <1>2, <1>4 DEF Digits
<1>13. r.val \in Uints /\ r.carry \in Nat /\ Value(r.val) + r.carry * Size = Value(t) + c[0]
  BY <1>11, <1>12, SplitLoop
<1>14. Value(t) \in Nat /\ Value(t) = Value(acc) + n * Value(u)
  <2>1. Combines(Limbs, t, acc, n, u)
    BY <1>0, <1>4 DEF Combines
  <2> QED
    BY <2>1, <1>1, <1>12, UintFacts, ValueSum
<1> QED
  BY <1>9, <1>13, <1>14 DEF r, n, u

\* overflowing_mul: what the product has more than the value is a multiple of Size,
\* and the flag is only there when it is not 0.
LEMMA MulFacts ==
  ASSUME NEW x \in Uints, NEW y \in Uints
  PROVE  LET p == OverflowingMul(x, y)
         IN  /\ p.val \in Uints
             /\ \E q \in Nat : /\ Value(x) * Value(y) = Value(p.val) + q * Size
                               /\ p.flag => q > 0
<1> DEFINE step == [j \in Index |-> [acc \in Uints |-> MulRow(acc, x, y, j).val]]
           row == Repeat(Limbs, ZERO, step)
           Loses(i) == MulRow(row[i], x, y, i).carry # 0
           s == Sums(Limbs, WordBits, y)
           X == Value(x)
<1>0. /\ Limbs \in Nat /\ WordBits \in Nat /\ Index = 0..(Limbs - 1) /\ Size \in Nat \ {0}
      /\ Size = 2 ^ (WordBits * Limbs) /\ X \in Nat /\ Limbs \in 0..Limbs /\ 0 \in 0..Limbs
  BY WordFacts, UintFacts DEF Index
<1>1. \A j \in Index : \A acc \in Uints : MulRow(acc, x, y, j).val \in Uints
  BY MulRowFacts
<1>2. step \in [0..(Limbs - 1) -> [Uints -> Uints]]
  BY <1>0, <1>1
<1>3. \A j \in Index, acc \in Uints : step[j][acc] = MulRow(acc, x, y, j).val
  OBVIOUS
<1>4. OverflowingMul(x, y) = [val |-> row[Limbs], flag |-> \E j \in Index : Loses(j)]
  BY Zenon DEF OverflowingMul
<1> HIDE DEF step
<1> DEFINE V == Uints
           first == ZERO
<1>5. Limbs \in Nat /\ first \in V /\ step \in [0..(Limbs - 1) -> [V -> V]]
  BY <1>0, <1>2, ValueZero
<1> HIDE DEF V, first
<1>6. /\ Repeat(Limbs, first, step) \in [0..Limbs -> V]
      /\ Repeat(Limbs, first, step)[0] = first
      /\ \A i \in 0..(Limbs - 1) :
           Repeat(Limbs, first, step)[i + 1] = step[i][Repeat(Limbs, first, step)[i]]
  BY <1>5, RepeatFacts
<1>7. /\ row \in [0..Limbs -> Uints] /\ row[0] = ZERO
      /\ \A i \in 0..(Limbs - 1) : row[i + 1] = step[i][row[i]]
  BY <1>6 DEF V, first
<1> HIDE DEF row, Loses
<1>8. ASSUME NEW i \in Index PROVE row[i + 1] = MulRow(row[i], x, y, i).val
  <2>1. i \in 0..(Limbs - 1) /\ i \in 0..Limbs
    BY <1>0
  <2> QED
    BY <2>1, <1>3, <1>7
<1>9. /\ s \in [0..Limbs -> Nat] /\ s[0] = 0 /\ Value(y) = s[Limbs]
      /\ \A i \in 0..(Limbs - 1) : s[i + 1] = s[i] + y[i] * 2 ^ (WordBits * i)
  <2>1. y \in Digits(Limbs) /\ Limbs \in Nat /\ WordBits \in Nat
    BY <1>0, UintFacts
  <2>2. /\ Sums(Limbs, WordBits, y) \in [0..Limbs -> Nat]
        /\ Sums(Limbs, WordBits, y)[0] = 0
        /\ \A i \in 0..(Limbs - 1) : Sums(Limbs, WordBits, y)[i + 1]
             = Sums(Limbs, WordBits, y)[i] + y[i] * 2 ^ (WordBits * i)
        /\ Number(Limbs, WordBits, y) = Sums(Limbs, WordBits, y)[Limbs]
    BY <2>1, SumsFacts, Zenon
  <2> QED
    BY <2>2, Zenon DEF Value
<1> HIDE DEF s, X
<1> DEFINE Holds(j, q) == /\ X * s[j] = Value(row[j]) + q * Size
                          /\ \A i \in 0..(j - 1) : Loses(i) => q > 0
           S == {j \in 0..Limbs : \E q \in Nat : Holds(j, q)}
<1>10. 0 \in S
  <2> DEFINE zero == 0
  <2>1. zero \in Nat /\ Holds(0, zero)
    <3>1. X * s[0] = 0 /\ Value(row[0]) = 0
      BY <1>0, <1>7, <1>9, ValueZero
    <3> QED
      BY <3>1, <1>0
  <2> HIDE DEF Holds, zero
  <2> QED
    BY <2>1, <1>0
<1>11. ASSUME NEW j \in 0..(Limbs - 1), j \in S PROVE j + 1 \in S
  <2>1. PICK q \in Nat : Holds(j, q)
    BY <1>11
  <2> DEFINE r == MulRow(row[j], x, y, j)
             n == y[j]
             pw == 2 ^ (WordBits * j)
             u == Value(Up(Limbs, x, j))
             v == Value(row[j])
             w == Value(r.val)
             c == r.carry
             a == s[j]
  <2>2. /\ j \in Index /\ j \in 0..Limbs /\ j + 1 \in 0..Limbs /\ j \in Nat
        /\ (j + 1) - 1 = j
    BY <1>0
  <2>3. row[j] \in Uints /\ row[j + 1] = r.val
    BY <2>2, <1>7, <1>8
  <2>4. r.val \in Uints /\ c \in Nat /\ w + c * Size = v + n * u
    BY <2>2, <2>3, MulRowFacts
  <2>5. PICK k \in Nat : X * pw = u + k * Size
    <3>1. /\ x \in Digits(Limbs)
      BY UintFacts
    <3>2. \E k \in Nat : Number(Limbs, WordBits, x) * 2 ^ (WordBits * j)
                         = Number(Limbs, WordBits, Up(Limbs, x, j)) + k * 2 ^ (WordBits * Limbs)
      BY <3>1, <2>2, <1>0, MoveUp, ZenonT(30)
    <3> QED
      BY <3>2, <1>0 DEF Value, X
  <2>6. u \in Nat
    <3>1. x \in Digits(Limbs)
      BY UintFacts
    <3>2. Up(Limbs, x, j) \in Digits(Limbs)
      BY <3>1, <2>2, <1>0, MoveUp
    <3> QED
      BY <3>2, <1>0, SumsFacts DEF Value
  <2>7. n \in Nat /\ v \in Nat /\ w \in Nat /\ a \in Nat /\ pw \in Nat
    <3>1. n \in Nat
      BY <2>2, UintFacts
    <3>2. v \in Nat /\ w \in Nat
      <4>1. v \in 0..(Size - 1) /\ w \in 0..(Size - 1)
        BY <2>3, <2>4, UintFacts
      <4> QED
        BY <4>1, <1>0
    <3>3. pw \in Nat
      BY <2>2, <1>0, Place
    <3> QED
      BY <3>1, <3>2, <3>3, <2>2, <1>9
  <2>8. s[j + 1] = a + n * pw /\ X * a = v + q * Size
    BY <2>1, <1>9
  <2> DEFINE d == q + n * k + c
  <2>9. d \in Nat /\ (q > 0 \/ c # 0 => d > 0)
    <3> HIDE DEF n, c, pw, u, v, w, a
    <3>1. n * k \in Nat
      BY <2>7
    <3> QED
      BY <3>1, <2>4, <2>7
  <2>10. X * s[j + 1] = w + d * Size
    <3> HIDE DEF n, c, pw, u, v, w, a, d
    <3>1. X * (a + n * pw) = X * a + n * (X * pw)
      BY <2>7, <1>0
    <3>2. n * (X * pw) = n * u + (n * k) * Size
      <4>1. n * (u + k * Size) = n * u + (n * k) * Size
        BY <2>6, <2>7, <1>0
      <4> QED
        BY <4>1, <2>5
    <3>3. d * Size = q * Size + (n * k) * Size + c * Size
      <4> DEFINE g == n * k
      <4>1. g \in Nat
        BY <2>7
      <4> HIDE DEF g
      <4>2. (q + g + c) * Size = q * Size + g * Size + c * Size
        BY <4>1, <2>4, <1>0
      <4> QED
        BY <4>2 DEF g, d
    <3> DEFINE e1 == q * Size
               e2 == (n * k) * Size
               e3 == c * Size
               e4 == n * u
    <3>4. e1 \in Nat /\ e2 \in Nat /\ e3 \in Nat /\ e4 \in Nat
      <4>1. n * k \in Nat
        BY <2>7
      <4> QED
        BY <4>1, <2>4, <2>6, <2>7, <1>0
    <3> HIDE DEF e1, e2, e3, e4
    <3>5. X * s[j + 1] = (v + e1) + (e4 + e2)
      BY <2>8, <3>1, <3>2 DEF e1, e2, e4
    <3>6. w + e3 = v + e4 /\ d * Size = e1 + e2 + e3
      BY <2>4, <3>3 DEF e1, e2, e3, e4
    <3> QED
      BY <3>4, <3>5, <3>6, <2>7
  <2>11. \A i \in 0..j : Loses(i) => d > 0
    <3>1. c # 0 <=> Loses(j)
      BY DEF Loses
    <3> HIDE DEF d, c
    <3>2. ASSUME NEW i \in 0..j, Loses(i) PROVE d > 0
      <4>1. CASE i = j
        BY <4>1, <3>1, <3>2, <2>9
      <4>2. CASE i # j
        <5>1. i \in 0..(j - 1)
          BY <4>2
        <5> QED
          BY <5>1, <3>2, <2>1, <2>9
      <4> QED
        BY <4>1, <4>2
    <3> QED
      BY <3>2
  <2>12. Holds(j + 1, d)
    <3> HIDE DEF d
    <3> QED
      BY <2>2, <2>3, <2>10, <2>11
  <2> HIDE DEF Holds, d
  <2> QED
    BY <2>2, <2>9, <2>12
<1>12. PICK q \in Nat : Holds(Limbs, q)
  <2> HIDE DEF S, Holds
  <2>1. \A i \in 0..Limbs : i \in S
    BY <1>0, <1>10, <1>11, UpTo
  <2> QED
    BY <2>1, <1>0 DEF S
<1>13. X * Value(y) = Value(row[Limbs]) + q * Size /\ ((\E j \in Index : Loses(j)) => q > 0)
  BY <1>0, <1>9, <1>12
<1>14. row[Limbs] \in Uints
  BY <1>0, <1>7
<1> QED
  BY <1>4, <1>13, <1>14 DEF X

-----------------------------------------------------------------------------
(* Bits *)

\* A number is made of its digits.
IsDigits(n, bits, z, t) == \A k \in 0..(n - 1) : t[k] = (z \div 2 ^ (bits * k)) % 2 ^ bits

LEMMA Expansion ==
  ASSUME NEW n \in Nat, NEW bits \in Nat, NEW z \in 0..(2 ^ (bits * n) - 1),
         NEW t \in Digits(n), IsDigits(n, bits, z, t)
  PROVE  Number(n, bits, t) = z
<1> DEFINE s == Sums(n, bits, t)
<1>1. /\ s \in [0..n -> Nat] /\ s[0] = 0
      /\ \A i \in 0..(n - 1) : s[i + 1] = s[i] + t[i] * 2 ^ (bits * i)
      /\ Number(n, bits, t) = s[n]
  BY SumsFacts
<1> HIDE DEF s
<1>2. z \in Nat /\ 2 ^ (bits * n) \in Nat \ {0}
  <2>1. 2 ^ (bits * n) \in Nat \ {0}
    BY Place
  <2> QED
    BY <2>1
<1> DEFINE S == {i \in 0..n : s[i] = z % 2 ^ (bits * i)}
<1>3. 0 \in S
  <2>1. bits * 0 = 0
    OBVIOUS
  <2>2. 2 ^ (bits * 0) = 1
    BY <2>1, TwoZero, Zenon
  <2>3. z % 1 = 0
    BY <1>2
  <2>4. 0 \in 0..n
    OBVIOUS
  <2>5. s[0] = z % 2 ^ (bits * 0)
    BY <2>2, <2>3, <1>1
  <2> QED
    BY <2>4, <2>5
<1>4. ASSUME NEW i \in 0..(n - 1), i \in S PROVE i + 1 \in S
  <2> DEFINE p == 2 ^ (bits * i)
             q == 2 ^ bits
  <2>0. i \in Nat
    OBVIOUS
  <2>1. p \in Nat \ {0} /\ q \in Nat \ {0} /\ 2 ^ (bits * (i + 1)) = q * p
    <3>1. q \in Nat \ {0}
      BY TwoPos
    <3> QED
      BY <2>0, <3>1, Place
  <2>2. /\ s[i] = z % p /\ t[i] = (z \div p) % q /\ s[i + 1] = s[i] + t[i] * p
    BY <1>1, <1>4 DEF IsDigits
  <2> HIDE DEF p, q
  <2>3. z % (q * p) = ((z \div p) % q) * p + (z % p)
    BY <2>1, <1>2, DivTwice
  <2>4. /\ z % p \in Nat /\ ((z \div p) % q) * p \in Nat
    <3>1. z % p \in 0..(p - 1) /\ z \div p \in Nat
      BY <2>1, <1>2, DivNat
    <3> DEFINE d == z \div p
    <3>2. d % q \in 0..(q - 1)
      BY <3>1, <2>1, DivNat
    <3> DEFINE e == d % q
    <3> HIDE DEF e
    <3>3. e \in Nat
      BY <3>2, <2>1 DEF e
    <3>4. e * p \in Nat
      BY <3>3, <2>1
    <3> QED
      BY <3>1, <3>4, <2>1 DEF e
  <2>5. s[i + 1] = z % (q * p)
    <3> DEFINE u == z % p
               v == ((z \div p) % q) * p
    <3>1. u \in Nat /\ v \in Nat /\ s[i + 1] = u + v /\ z % (q * p) = v + u
      BY <2>2, <2>3, <2>4
    <3> HIDE DEF u, v
    <3> QED
      BY <3>1
  <2>6. i + 1 \in 0..n
    OBVIOUS
  <2> QED
    BY <2>1, <2>5, <2>6
<1>5. n \in S
  <2> HIDE DEF S
  <2>1. \A i \in 0..n : i \in S
    BY <1>3, <1>4, UpTo
  <2> QED
    BY <2>1
<1>6. z % 2 ^ (bits * n) = z
  BY <1>2, RestOnce
<1> QED
  BY <1>1, <1>5, <1>6

\* A digit below the place of a multiple.
LEMMA DigitLow ==
  ASSUME NEW m \in Nat, NEW k \in Nat, NEW n \in Nat, k + n <= m,
         NEW a \in Nat, NEW b \in Nat
  PROVE  ((a * 2 ^ m + b) \div 2 ^ k) % 2 ^ n = (b \div 2 ^ k) % 2 ^ n
<1> DEFINE p == 2 ^ k
           g == 2 ^ n
           e == 2 ^ (m - (k + n))
           w == 2 ^ m
           q == b \div p
           r == b % p
<1>1. k + n \in Nat /\ k + n <= m
  OBVIOUS
<1>2. e \in Nat /\ p \in Nat \ {0} /\ g \in Nat \ {0} /\ w = e * (g * p)
  <2>1. e \in Nat /\ w = e * 2 ^ (k + n)
    BY <1>1, TwoSplit
  <2>2. p \in Nat \ {0} /\ g \in Nat \ {0} /\ 2 ^ (k + n) = p * g
    BY TwoAdd, TwoPos
  <2> HIDE DEF p, g
  <2>3. p * g = g * p
    BY <2>2
  <2> QED
    BY <2>1, <2>2, <2>3
<1>3. q \in Nat /\ r \in 0..(p - 1) /\ b = q * p + r
  BY <1>2, DivNat
<1> HIDE DEF p, e, w, q, r, g
<1> DEFINE z == a * w + b
           d == q + (a * e) * g
<1>4. z = d * p + r
  <2>1. a * (e * (g * p)) + (q * p + r) = (q + (a * e) * g) * p + r
    BY <1>2, <1>3
  <2> QED
    BY <2>1, <1>2, <1>3
<1>5. a * e \in Nat
  BY <1>2
<1>6. z \in Int /\ d \in Int
  <2>1. (a * e) * g \in Nat /\ a * w \in Nat
    <3>1. w \in Nat
      BY TwoPos DEF w
    <3> DEFINE f == a * e
    <3> HIDE DEF f
    <3>2. f * g \in Nat /\ a * w \in Nat
      BY <3>1, <1>2, <1>5 DEF f
    <3> QED
      BY <3>2 DEF f
  <2> QED
    BY <2>1, <1>3
<1> HIDE DEF z
<1>7. z \div p = d
  <2> HIDE DEF d
  <2> QED
    BY <1>2, <1>3, <1>4, <1>6, DivMod
<1>8. d % g = q % g
  <2> DEFINE f == a * e
  <2> HIDE DEF f
  <2>1. f \in Int /\ q \in Int
    BY <1>3, <1>5 DEF f
  <2>2. (q + f * g) % g = q % g
    BY <2>1, <1>2, RestMultiple
  <2> QED
    BY <2>2 DEF f
<1>9. (z \div p) % g = q % g
  BY <1>7, <1>8
<1> QED
  BY <1>9, Zenon DEF z, q, p, w, g

\* The bits of a number below the place of a multiple, and above it.
LEMMA BitLow ==
  ASSUME NEW m \in Nat, NEW k \in 0..(m - 1), NEW a \in Nat, NEW b \in Nat
  PROVE  Bit(a * 2 ^ m + b, k) = Bit(b, k)
<1> DEFINE one == 1
<1>1. one \in Nat /\ k \in Nat /\ k + one <= m
  OBVIOUS
<1>2. 2 ^ one = 2
  <2>1. 0 + 1 = 1 /\ 2 ^ (0 + 1) = 2 * 2 ^ 0
    BY TwoNext
  <2> QED
    BY <2>1, TwoZero
<1> HIDE DEF one
<1>3. ((a * 2 ^ m + b) \div 2 ^ k) % 2 ^ one = (b \div 2 ^ k) % 2 ^ one
  BY <1>1, DigitLow
<1> QED
  BY <1>2, <1>3, Zenon DEF Bit

LEMMA BitHigh ==
  ASSUME NEW m \in Nat, NEW k \in Nat, m <= k, NEW a \in Nat, NEW b \in 0..(2 ^ m - 1)
  PROVE  Bit(a * 2 ^ m + b, k) = Bit(a, k - m) /\ Bit(b, k) = 0
<1> DEFINE w == 2 ^ m
           e == 2 ^ (k - m)
           n == a * w + b
<1>1. w \in Nat \ {0} /\ e \in Nat \ {0} /\ 2 ^ k = e * w
  BY TwoSplit
<1>2. b \in 0..(w - 1) /\ a \in Int
  OBVIOUS
<1> HIDE DEF w, e
<1>3. n \in Nat
  BY <1>1, <1>2
<1> HIDE DEF n
<1>4. n \in Int /\ n = a * w + b
  BY <1>3 DEF n
<1>5. n \div w = a
  BY <1>1, <1>2, <1>4, DivMod
<1>6. (n \div w) \div e = n \div (e * w)
  BY <1>1, <1>3, DivTwice
<1>7. n \div 2 ^ k = a \div e
  BY <1>1, <1>5, <1>6
<1>8. b \div 2 ^ k = 0
  <2> DEFINE zero == 0
             x == e * w
  <2>1. x \in Nat \ {0} /\ w <= x
    BY <1>1, SMT
  <2>2. b = zero * x + b /\ zero \in Int /\ b \in Int /\ b \in 0..(x - 1)
    BY <2>1, <1>1, <1>2
  <2> HIDE DEF zero, x
  <2>3. b \div x = zero
    BY <2>1, <2>2, DivMod
  <2> QED
    BY <2>3, <1>1 DEF zero, x
<1>9. Bit(b, k) = 0
  <2>1. 0 % 2 = 0
    OBVIOUS
  <2> QED
    BY <2>1, <1>8, Zenon DEF Bit
<1> QED
  BY <1>7, <1>9, Zenon DEF Bit, n, w, e

\* | puts a multiple of 2^m and a number below it side by side.
LEMMA OrApart ==
  ASSUME NEW n \in Nat, NEW m \in 0..n, NEW a \in 0..(2 ^ (n - m) - 1),
         NEW b \in 0..(2 ^ m - 1)
  PROVE  /\ Or(n, a * 2 ^ m, b) = a * 2 ^ m + b
         /\ Or(n, b, a * 2 ^ m) = a * 2 ^ m + b
<1> DEFINE w == 2 ^ m
           u == a * w
           z == u + b
           one == 1
           t == [k \in 0..(n - 1) |-> Bit(z, k)]
<1>1. m \in Nat /\ m <= n /\ n - m \in Nat
  OBVIOUS
<1>2. w \in Nat \ {0} /\ 2 ^ (n - m) \in Nat \ {0} /\ 2 ^ n = 2 ^ (n - m) * w
  BY <1>1, TwoSplit
<1>3. a \in Nat /\ b \in Nat
  BY <1>2
<1>4. u \in Nat /\ z \in 0..(2 ^ n - 1) /\ z \in Nat
  <2> DEFINE h == 2 ^ (n - m)
  <2>1. h \in Nat /\ w \in Nat /\ a \in 0..(h - 1) /\ b \in 0..(w - 1) /\ 2 ^ n = h * w
    BY <1>2
  <2> HIDE DEF h, w
  <2>2. a * w + b \in 0..(h * w - 1)
    BY <2>1, Compose
  <2>3. a * w \in Nat /\ h * w \in Nat
    BY <2>1
  <2> QED
    BY <2>1, <2>2, <2>3
<1> HIDE DEF w, u
<1>5. \A k \in 0..(n - 1) :
         /\ Bit(z, k) = (IF Bit(u, k) = 1 \/ Bit(b, k) = 1 THEN 1 ELSE 0)
         /\ Bit(z, k) \in Nat
  <2> TAKE k \in 0..(n - 1)
  <2>0. Bit(b, k) \in {0, 1} /\ Bit(u, k) \in {0, 1}
    <3>1. 2 ^ k \in Nat \ {0}
      BY TwoPos
    <3> DEFINE f == b \div 2 ^ k
               g == u \div 2 ^ k
    <3>2. f \in Nat /\ g \in Nat
      BY <3>1, <1>3, <1>4, DivNat
    <3> HIDE DEF f, g
    <3>3. f % 2 \in {0, 1} /\ g % 2 \in {0, 1}
      BY <3>2
    <3> QED
      BY <3>3 DEF f, g, Bit
  <2>1. CASE k < m
    <3>1. k \in 0..(m - 1)
      BY <2>1
    <3>2. Bit(a * 2 ^ m + b, k) = Bit(b, k)
      BY <3>1, <1>1, <1>3, BitLow
    <3> DEFINE zero == 0
    <3>3. zero \in Nat /\ a * 2 ^ m + zero = a * 2 ^ m
      BY <1>3, <1>4 DEF u, w
    <3> HIDE DEF zero
    <3>4. Bit(a * 2 ^ m + zero, k) = Bit(zero, k)
      BY <3>1, <3>3, <1>1, <1>3, BitLow
    <3>5. Bit(zero, k) = 0
      <4>1. 2 ^ k \in Nat \ {0}
        BY TwoPos
      <4> DEFINE p == 2 ^ k
      <4>2. 0 \div p = 0
        <5> HIDE DEF p
        <5>1. p \in Nat \ {0}
          BY <4>1 DEF p
        <5> QED
          BY <5>1
      <4>3. zero \div 2 ^ k = 0
        BY <4>2 DEF zero, p
      <4>4. 0 % 2 = 0
        OBVIOUS
      <4> QED
        BY <4>3, <4>4, Zenon DEF Bit
    <3>6. Bit(u, k) = 0
      BY <3>3, <3>4, <3>5 DEF u, w
    <3>7. Bit(z, k) = Bit(b, k)
      BY <3>2 DEF z, u, w
    <3> QED
      BY <3>6, <3>7, <2>0
  <2>2. CASE ~(k < m)
    <3>1. k \in Nat /\ m <= k
      BY <2>2
    <3>2. Bit(a * 2 ^ m + b, k) = Bit(a, k - m) /\ Bit(b, k) = 0
      BY <3>1, <1>1, <1>3, BitHigh
    <3> DEFINE zero == 0
    <3>3. zero \in 0..(2 ^ m - 1) /\ a * 2 ^ m + zero = a * 2 ^ m
      BY <1>2, <1>3, <1>4 DEF u, w
    <3> HIDE DEF zero
    <3>4. Bit(a * 2 ^ m + zero, k) = Bit(a, k - m)
      BY <3>1, <3>3, <1>1, <1>3, BitHigh
    <3>5. Bit(u, k) = Bit(a, k - m)
      BY <3>3, <3>4 DEF u, w
    <3>6. Bit(z, k) = Bit(u, k)
      BY <3>2, <3>5 DEF z, u, w
    <3> QED
      BY <3>2, <3>6, <2>0
  <2> QED
    BY <2>1, <2>2
<1>6. t \in Digits(n) /\ \A k \in 0..(n - 1) : t[k] = Bit(z, k)
  BY <1>5 DEF Digits
<1>7. one \in Nat /\ one * n = n /\ 2 ^ one = 2 /\ \A k \in 0..(n - 1) : one * k = k
  <2>1. 0 + 1 = 1 /\ 2 ^ (0 + 1) = 2 * 2 ^ 0
    BY TwoNext
  <2>2. 2 ^ 1 = 2
    BY <2>1, TwoZero
  <2> QED
    BY <2>2
<1> HIDE DEF one
<1>8. IsDigits(n, one, z, t)
  <2>1. \A k \in 0..(n - 1) : t[k] = (z \div 2 ^ (one * k)) % 2 ^ one
    BY <1>6, <1>7 DEF Bit
  <2> QED
    BY <2>1 DEF IsDigits
<1> HIDE DEF z, t
<1>9. Number(n, one, t) = z
  BY <1>4, <1>6, <1>7, <1>8, Expansion
<1>10. /\ t = [k \in 0..(n - 1) |-> IF Bit(u, k) = 1 \/ Bit(b, k) = 1 THEN 1 ELSE 0]
       /\ t = [k \in 0..(n - 1) |-> IF Bit(b, k) = 1 \/ Bit(u, k) = 1 THEN 1 ELSE 0]
  BY <1>5, <1>6 DEF Digits
<1>11. Or(n, u, b) = z /\ Or(n, b, u) = z
  BY <1>9, <1>10 DEF Or, one
<1> QED
  BY <1>11 DEF z, u, w

-----------------------------------------------------------------------------
(* Shifts *)

\* The whole words and the bits of a shift.
LEMMA ShiftParts ==
  ASSUME NEW s0 \in Nat
  PROVE  LET s == s0 % BITS
             words == s \div WordBits
             shifts == s % WordBits
         IN  /\ s \in 0..(BITS - 1) /\ words \in Index /\ words \in 0..Limbs
             /\ shifts \in 0..(WordBits - 1)
             /\ 2 ^ shifts \in Nat \ {0} /\ 2 ^ (WordBits - shifts) \in Nat \ {0}
             /\ Word = 2 ^ (WordBits - shifts) * 2 ^ shifts
             /\ 2 ^ (WordBits * words) \in Nat \ {0}
             /\ 2 ^ s = 2 ^ (WordBits * words) * 2 ^ shifts
<1> DEFINE s == s0 % BITS
           words == s \div WordBits
           shifts == s % WordBits
<1>1. WordBits \in Nat \ {0} /\ Limbs \in Nat \ {0} /\ BITS = WordBits * Limbs
      /\ BITS \in Nat \ {0} /\ Word = 2 ^ WordBits
  BY WordFacts
<1>2. s \in 0..(BITS - 1) /\ s \in Nat
  <2>1. s \in 0..(BITS - 1)
    BY <1>1, DivNat
  <2> HIDE DEF s
  <2> QED
    BY <2>1
<1> HIDE DEF s
<1>3. words \in Nat /\ shifts \in 0..(WordBits - 1) /\ s = words * WordBits + shifts
  BY <1>1, <1>2, DivNat
<1> HIDE DEF words, shifts
<1>4. words \in Index
  <2>1. SUFFICES ASSUME words >= Limbs PROVE FALSE
    BY <1>1, <1>3 DEF Index
  <2>2. words * WordBits >= Limbs * WordBits
    BY <2>1, <1>1, <1>3
  <2>3. words * WordBits \in Nat
    BY <1>1, <1>3
  <2> QED
    BY <2>2, <2>3, <1>1, <1>2, <1>3
<1>5. /\ 2 ^ shifts \in Nat \ {0} /\ 2 ^ (WordBits - shifts) \in Nat \ {0}
      /\ Word = 2 ^ (WordBits - shifts) * 2 ^ shifts
  BY <1>1, <1>3, TwoSplit
<1>6. 2 ^ (WordBits * words) \in Nat \ {0} /\ 2 ^ s = 2 ^ (WordBits * words) * 2 ^ shifts
  <2>1. WordBits * words \in Nat /\ shifts \in Nat /\ s = WordBits * words + shifts
    BY <1>1, <1>3
  <2>2. 2 ^ (WordBits * words + shifts) = 2 ^ (WordBits * words) * 2 ^ shifts
    BY <2>1, TwoAdd
  <2>3. 2 ^ (WordBits * words) \in Nat \ {0}
    BY <2>1, TwoPos
  <2> QED
    BY <2>1, <2>2, <2>3
<1>7. words \in 0..Limbs
  BY <1>1, <1>4 DEF Index
<1> QED
  BY <1>2, <1>3, <1>4, <1>5, <1>6, <1>7 DEF s, words, shifts

\* The word that two parts of neighbours make, when those that are not there are 0.
LEMMA ShlWord ==
  ASSUME NEW sh \in 0..(WordBits - 1), NEW a \in Words, NEW b \in Words,
         NEW high, NEW low, high = Lsh(a, sh),
         low = IF sh = 0 THEN 0 ELSE Rsh(b, WordBits - sh)
  PROVE  LET h == 2 ^ sh
         IN  /\ low = (b * h) \div Word /\ low \in 0..(h - 1)
             /\ Or(WordBits, high, low) \in Words
             /\ Or(WordBits, high, low) + ((a * h) \div Word) * Word = a * h + low
<1> DEFINE h == 2 ^ sh
           l == 2 ^ (WordBits - sh)
<1>0. WordBits \in Nat /\ sh \in Nat /\ sh <= WordBits /\ sh \in 0..WordBits /\ Word = 2 ^ WordBits
  BY WordFacts
<1>1. h \in Nat \ {0} /\ l \in Nat \ {0} /\ Word = l * h
  BY <1>0, TwoSplit
<1>2. a \in Nat /\ b \in Nat /\ b \in 0..(Word - 1) /\ Word \in Nat
  BY WordFacts DEF Words
<1>3. sh = 0 => h = 1
  BY TwoZero
<1> HIDE DEF h, l
<1>4. (a * h) % Word = (a % l) * h /\ (a * h) \div Word = a \div l
  BY <1>1, <1>2, DivScaled
<1>5. (b * h) \div Word = b \div l
  BY <1>1, <1>2, DivScaled
<1>6. a % l \in 0..(l - 1) /\ a \div l \in Nat /\ a = (a \div l) * l + (a % l)
  BY <1>1, <1>2, DivNat
<1>7. b \div l \in Nat /\ b % l \in 0..(l - 1) /\ b = (b \div l) * l + (b % l)
  BY <1>1, <1>2, DivNat
<1> DEFINE aq == a \div l
           ar == a % l
           bq == b \div l
           br == b % l
<1> HIDE DEF aq, ar, bq, br
<1>8. bq \in 0..(h - 1)
  <2>1. SUFFICES ASSUME bq >= h PROVE FALSE
    BY <1>1, <1>7 DEF bq
  <2>0. bq \in Nat
    BY <1>7 DEF bq
  <2>2. bq * l >= h * l
    BY <2>0, <2>1, <1>1
  <2>3. b >= h * l
    BY <2>2, <1>1, <1>7 DEF bq, br
  <2>4. h * l = l * h
    BY <1>1
  <2> QED
    BY <2>3, <2>4, <1>1, <1>2
<1>9. high = ar * h
  BY <1>0, <1>4 DEF Lsh, h, ar
<1>10. low = bq
  <2>1. CASE sh = 0
    <3>1. bq = 0
      BY <2>1, <1>1, <1>3, <1>8
    <3> QED
      BY <2>1, <3>1
  <2>2. CASE sh # 0
    BY <2>2 DEF Rsh, bq, l
  <2> QED
    BY <2>1, <2>2
<1>11. Or(WordBits, high, low) = ar * h + bq
  <2>1. ar \in 0..(2 ^ (WordBits - sh) - 1) /\ bq \in 0..(2 ^ sh - 1)
    BY <1>6, <1>8 DEF l, h, ar
  <2>2. Or(WordBits, ar * 2 ^ sh, bq) = ar * 2 ^ sh + bq
    BY <2>1, <1>0, OrApart
  <2> QED
    BY <2>2, <1>9, <1>10 DEF h
<1>12. ar * h + bq \in Words
  <2>1. ar \in 0..(l - 1)
    BY <1>6 DEF ar
  <2>2. ar * h + bq \in 0..(l * h - 1)
    BY <2>1, <1>1, <1>8, Compose
  <2> QED
    BY <2>2, <1>1 DEF Words
<1>13. (ar * h + bq) + aq * Word = a * h + bq
  <2>1. a = aq * l + ar /\ aq \in Nat /\ ar \in Nat /\ bq \in Nat
    BY <1>1, <1>6, <1>7 DEF aq, ar, bq
  <2>2. (ar * h + bq) + aq * (l * h) = (aq * l + ar) * h + bq
    BY <2>1, <1>1
  <2> QED
    BY <2>1, <2>2, <1>1
<1> QED
  BY <1>4, <1>5, <1>8, <1>10, <1>11, <1>12, <1>13 DEF h, aq, bq

\* overflowing_shl: what the shifted number has more than the value is a multiple
\* of Size.
LEMMA ShlFacts ==
  ASSUME NEW x \in Uints, NEW s0 \in Nat
  PROVE  LET r == OverflowingShl(x, s0)
         IN  /\ r.val \in Uints /\ r.flag = (s0 >= BITS)
             /\ \E q \in Nat : Value(x) * 2 ^ (s0 % BITS) = Value(r.val) + q * Size
<1> DEFINE s == s0 % BITS
           words == s \div WordBits
           sh == s % WordBits
           High(i) == IF i < words THEN 0 ELSE Lsh(x[i - words], sh)
           Low(i)  == IF sh = 0 \/ i < words + 1 THEN 0
                      ELSE Rsh(x[i - 1 - words], WordBits - sh)
           val == [i \in Index |-> Or(WordBits, High(i), Low(i))]
           h == 2 ^ sh
           pw == 2 ^ (WordBits * words)
           t == Up(Limbs, x, words)
           th == [i \in Index |-> h * t[i]]
           d == [i \in 0..Limbs |-> IF i = 0 THEN 0 ELSE (t[i - 1] * h) \div Word]
<1>0. /\ WordBits \in Nat \ {0} /\ Limbs \in Nat \ {0} /\ Word \in Nat \ {0}
      /\ Index = 0..(Limbs - 1) /\ Word = 2 ^ WordBits /\ Size \in Nat \ {0}
      /\ Size = 2 ^ (WordBits * Limbs)
  BY WordFacts DEF Index
<1>1. OverflowingShl(x, s0) = [val |-> Each(val), flag |-> s0 >= BITS]
  BY Zenon DEF OverflowingShl
<1>2. /\ words \in 0..Limbs /\ words \in Nat /\ sh \in 0..(WordBits - 1) /\ h \in Nat \ {0}
      /\ pw \in Nat \ {0} /\ 2 ^ s = pw * h
  <2>1. /\ words \in 0..Limbs /\ sh \in 0..(WordBits - 1) /\ 2 ^ sh \in Nat \ {0}
        /\ 2 ^ (WordBits * words) \in Nat \ {0}
        /\ 2 ^ s = 2 ^ (WordBits * words) * 2 ^ sh
    BY ShiftParts
  <2> HIDE DEF s, words, sh
  <2>2. words \in Nat
    BY <2>1
  <2> QED
    BY <2>1, <2>2
<1> HIDE DEF s, words, sh
<1>3. /\ t \in [Index -> Words]
      /\ \A i \in Index : t[i] = IF i < words THEN 0 ELSE x[i - words]
  <2>1. \A i \in 0..(Limbs - 1) : t[i] = IF i < words THEN 0 ELSE x[i - words]
    BY DEF Up
  <2>2. \A i \in Index : ~(i < words) => i - words \in Index
    BY <1>0, <1>2
  <2>3. \A i \in Index : t[i] \in Words
    <3>1. 0 \in Words
      BY <1>0 DEF Words
    <3> QED
      BY <2>1, <2>2, <3>1, <1>0 DEF Uints
  <2>4. DOMAIN t = Index /\ t = [i \in Index |-> t[i]]
    BY <1>0 DEF Up
  <2> QED
    BY <2>1, <2>3, <2>4, <1>0
<1> HIDE DEF t, h, pw
<1>4. ASSUME NEW i \in Index
      PROVE  /\ val[i] \in Words /\ t[i] * h \in Nat /\ d[i] \in Nat /\ d[i + 1] \in Nat
             /\ val[i] + d[i + 1] * Word = h * t[i] + d[i]
  <2>1. i \in Nat /\ i \in 0..Limbs /\ i + 1 \in 0..Limbs /\ i + 1 # 0 /\ (i + 1) - 1 = i
    BY <1>0
  <2> DEFINE a == t[i]
             b == IF i = 0 THEN 0 ELSE t[i - 1]
             high == High(i)
             low == Low(i)
  <2>2. a \in Words /\ b \in Words
    <3>1. i # 0 => i - 1 \in Index
      BY <1>0
    <3>2. 0 \in Words
      BY <1>0 DEF Words
    <3> QED
      BY <3>1, <3>2, <1>3
  <2>3. high = Lsh(a, sh)
    <3>1. CASE i < words
      <4>1. a = 0 /\ high = 0
        BY <3>1, <1>3
      <4>2. 0 * 2 ^ sh = 0 /\ 0 % Word = 0
        BY <1>0, <1>2 DEF h
      <4> QED
        BY <4>1, <4>2, Zenon DEF Lsh
    <3>2. CASE ~(i < words)
      BY <3>2, <1>3
    <3> QED
      BY <3>1, <3>2
  <2>4. low = IF sh = 0 THEN 0 ELSE Rsh(b, WordBits - sh)
    <3>1. CASE sh = 0
      BY <3>1
    <3>2. CASE sh # 0 /\ i < words + 1
      <4>1. b = 0
        <5>1. CASE i = 0
          BY <5>1
        <5>2. CASE i # 0
          <6>1. i - 1 \in Index /\ i - 1 < words
            BY <5>2, <3>2, <1>0, <1>2
          <6> QED
            BY <5>2, <6>1, <1>3
        <5> QED
          BY <5>1, <5>2
      <4>2. 0 \div 2 ^ (WordBits - sh) = 0
        <5> DEFINE l == 2 ^ (WordBits - sh)
        <5>1. l \in Nat \ {0}
          <6>1. WordBits - sh \in Nat
            BY <1>0, <1>2
          <6> QED
            BY <6>1, TwoPos
        <5> HIDE DEF l
        <5>2. 0 \div l = 0
          BY <5>1
        <5> QED
          BY <5>2 DEF l
      <4>3. low = 0
        BY <3>2
      <4>4. Rsh(b, WordBits - sh) = 0
        BY <4>1, <4>2, Zenon DEF Rsh
      <4> QED
        BY <4>3, <4>4, <3>2
    <3>3. CASE sh # 0 /\ ~(i < words + 1)
      <4>1. i # 0 /\ i - 1 \in Index /\ ~(i - 1 < words) /\ (i - 1) - words = i - 1 - words
        BY <3>3, <1>0, <1>2
      <4>2. b = x[i - 1 - words]
        BY <4>1, <1>3
      <4> QED
        BY <4>2, <3>3
    <3> QED
      BY <3>1, <3>2, <3>3
  <2>5. val[i] = Or(WordBits, high, low)
    OBVIOUS
  <2> HIDE DEF high, low, a, b
  <2>6. /\ low = (b * h) \div Word /\ low \in 0..(h - 1)
        /\ Or(WordBits, high, low) \in Words
        /\ Or(WordBits, high, low) + ((a * h) \div Word) * Word = a * h + low
    BY <2>2, <2>3, <2>4, <1>2, ShlWord DEF h
  <2>7. a \in Nat /\ b \in Nat
    BY <2>2, <1>0 DEF Words
  <2>8. a * h \in Nat /\ a * h = h * a /\ b * h \in Nat
    BY <2>7, <1>2
  <2>9. d[i + 1] = (a * h) \div Word
    BY <2>1 DEF a
  <2>10. d[i] = low
    <3>1. CASE i = 0
      <4>1. b = 0
        BY <3>1 DEF b
      <4>2. b * h = 0
        BY <4>1, <1>2
      <4>3. 0 \div Word = 0
        BY <1>0
      <4>4. low = 0
        BY <4>2, <4>3, <2>6
      <4> QED
        BY <4>4, <3>1, <2>1
    <3>2. CASE i # 0
      BY <3>2, <2>1, <2>6 DEF b
    <3> QED
      BY <3>1, <3>2
  <2>11. (a * h) \div Word \in Nat
    BY <2>8, <1>0, DivNat
  <2> HIDE DEF val, d
  <2> QED
    BY <2>5, <2>6, <2>8, <2>9, <2>10, <2>11, <1>2 DEF a
<1>5. val \in [Index -> Words] /\ val \in Uints /\ val \in [Index -> Nat]
  <2>1. val \in [Index -> Words]
    BY <1>4
  <2> HIDE DEF val
  <2> QED
    BY <2>1, <1>0 DEF Uints, Words
<1>6. th \in [Index -> Nat] /\ \A i \in Index : th[i] = h * t[i]
  <2>1. \A i \in Index : h * t[i] \in Nat
    <3> TAKE i \in Index
    <3> DEFINE a == t[i]
    <3>1. a \in Nat
      BY <1>0, <1>3 DEF Words
    <3> HIDE DEF a
    <3>2. h * a \in Nat
      BY <3>1, <1>2
    <3> QED
      BY <3>2 DEF a
  <2> QED
    BY <2>1
<1>7. d \in [0..Limbs -> Nat] /\ d[0] = 0
  <2>1. \A i \in 0..Limbs : d[i] \in Nat
    <3> TAKE i \in 0..Limbs
    <3>1. CASE i = 0
      BY <3>1
    <3>2. CASE i # 0
      <4>1. i - 1 \in Index /\ (i - 1) + 1 = i
        BY <3>2, <1>0
      <4> HIDE DEF d
      <4> QED
        BY <4>1, <1>4
    <3> QED
      BY <3>1, <3>2
  <2>2. 0 \in 0..Limbs
    BY <1>0
  <2> QED
    BY <2>1, <2>2
<1> HIDE DEF val, th, d
<1>8. Each(val) = val
  BY <1>5, EachFacts
<1>9. t \in Digits(Limbs) /\ th \in Digits(Limbs) /\ val \in Digits(Limbs)
  BY <1>0, <1>3, <1>5, <1>6 DEF Digits, Words
<1>10. Carries(Limbs, WordBits, val, th, d)
  BY <1>0, <1>4, <1>6 DEF Carries
<1>11. Value(val) + d[Limbs] * Size = Value(th) + d[0]
  BY <1>7, <1>9, <1>10, Carried
<1>12. /\ Value(t) \in Nat /\ Value(th) \in Nat /\ Value(th) = Value(ZERO) + h * Value(t)
  <2>1. Combines(Limbs, th, ZERO, h, t)
    <3>1. ASSUME NEW i \in 0..(Limbs - 1) PROVE th[i] = ZERO[i] + h * t[i]
      <4>1. i \in Index /\ ZERO[i] = 0
        BY <1>0 DEF ZERO
      <4> QED
        BY <4>1, <1>6
    <3> QED
      BY <3>1 DEF Combines
  <2>2. h \in Nat /\ ZERO \in Digits(Limbs)
    BY <1>2, UintFacts, ValueZero
  <2> QED
    BY <2>1, <2>2, <1>9, ValueSum
<1>13. PICK q \in Nat : Value(x) * pw = Value(t) + q * Size
  <2>1. x \in Digits(Limbs)
    BY UintFacts
  <2>2. \E q \in Nat : Number(Limbs, WordBits, x) * 2 ^ (WordBits * words)
                       = Number(Limbs, WordBits, Up(Limbs, x, words)) + q * 2 ^ (WordBits * Limbs)
    <3>1. Limbs \in Nat /\ WordBits \in Nat /\ words \in 0..Limbs
      BY <1>0, <1>2
    <3> QED
      BY <2>1, <3>1, MoveUp
  <2> QED
    BY <2>2, <1>0 DEF Value, t, pw
<1> DEFINE X == Value(x)
           T == Value(t)
           R == Value(val)
           c == d[Limbs]
<1>14. X \in Nat /\ T \in Nat /\ R \in Nat /\ c \in Nat /\ q * h + c \in Nat
  <2>1. X \in 0..(Size - 1) /\ R \in 0..(Size - 1)
    BY <1>5, UintFacts
  <2>2. c \in Nat
    BY <1>0, <1>7
  <2>3. q * h \in Nat
    BY <1>2
  <2> HIDE DEF X, R, c
  <2> QED
    BY <2>1, <2>2, <2>3, <1>0, <1>12
<1>15. R + c * Size = h * T
  <2>1. h * T \in Nat
    <3> HIDE DEF T
    <3> QED
      BY <1>2, <1>14
  <2> QED
    BY <2>1, <1>7, <1>11, <1>12, ValueZero
<1>16. X * pw = T + q * Size
  BY <1>13
<1> HIDE DEF X, T, R, c
<1>17. X * 2 ^ s = R + (q * h + c) * Size
  <2>1. X * (pw * h) = (X * pw) * h
    BY <1>2, <1>14
  <2>2. (T + q * Size) * h = h * T + (q * h) * Size
    BY <1>0, <1>2, <1>14
  <2>3. (q * h + c) * Size = (q * h) * Size + c * Size
    <3> DEFINE g == q * h
    <3>1. g \in Nat
      BY <1>2
    <3> HIDE DEF g
    <3>2. (g + c) * Size = g * Size + c * Size
      BY <3>1, <1>0, <1>14
    <3> QED
      BY <3>2 DEF g
  <2> DEFINE e == (q * h) * Size
             f == c * Size
  <2>4. e \in Nat /\ f \in Nat
    <3>1. q * h \in Nat
      BY <1>2
    <3> QED
      BY <3>1, <1>0, <1>14
  <2>5. X * 2 ^ s = h * T + e
    BY <2>1, <2>2, <1>2, <1>16 DEF e
  <2>6. h * T = R + f /\ (q * h + c) * Size = e + f
    BY <2>3, <1>15 DEF e, f
  <2> HIDE DEF e, f
  <2> QED
    BY <2>4, <2>5, <2>6, <1>14
<1> QED
  BY <1>1, <1>5, <1>8, <1>14, <1>17 DEF X, R, s

LEMMA ShrWord ==
  ASSUME NEW sh \in 0..(WordBits - 1), NEW a \in Words, NEW b \in Words,
         NEW low, NEW high, low = Rsh(a, sh),
         high = IF sh = 0 THEN 0 ELSE Lsh(b, WordBits - sh)
  PROVE  LET h == 2 ^ sh
         IN  /\ Or(WordBits, low, high) \in Words
             /\ a + (b % h) * Word = h * Or(WordBits, low, high) + (a % h)
<1> DEFINE h == 2 ^ sh
           l == 2 ^ (WordBits - sh)
           m == WordBits - sh
<1>0. /\ WordBits \in Nat /\ sh \in Nat /\ sh <= WordBits /\ m \in 0..WordBits
      /\ WordBits - m = sh /\ Word = 2 ^ WordBits
  BY WordFacts
<1>1. h \in Nat \ {0} /\ l \in Nat \ {0} /\ Word = l * h
  BY <1>0, TwoSplit
<1>2. a \in Nat /\ b \in Nat /\ a \in 0..(Word - 1) /\ Word \in Nat
  BY WordFacts DEF Words
<1>3. sh = 0 => h = 1
  BY TwoZero
<1> HIDE DEF h, l, m
<1>4. a \div h \in Nat /\ a % h \in 0..(h - 1) /\ a = (a \div h) * h + (a % h)
  BY <1>1, <1>2, DivNat
<1>5. b % h \in 0..(h - 1)
  BY <1>1, <1>2, DivNat
<1>6. (b * l) % (h * l) = (b % h) * l
  BY <1>1, <1>2, DivScaled
<1> DEFINE aq == a \div h
           ar == a % h
           br == b % h
<1> HIDE DEF aq, ar, br
<1>7. aq \in 0..(l - 1)
  <2>0. aq \in Nat /\ ar \in Nat /\ a = aq * h + ar
    BY <1>1, <1>4 DEF aq, ar
  <2>1. SUFFICES ASSUME aq >= l PROVE FALSE
    BY <1>1, <2>0
  <2>2. aq * h >= l * h
    BY <2>0, <2>1, <1>1
  <2> QED
    BY <2>0, <2>2, <1>1, <1>2
<1>8. low = aq
  BY DEF Rsh, aq, h
<1>9. high = br * l
  <2>1. CASE sh = 0
    <3>1. br = 0
      BY <2>1, <1>1, <1>3, <1>5 DEF br
    <3>2. 0 * l = 0
      BY <1>1
    <3> QED
      BY <2>1, <3>1, <3>2
  <2>2. CASE sh # 0
    <3>1. h * l = Word
      BY <1>1
    <3>2. high = (b * l) % Word
      BY <2>2 DEF Lsh, l
    <3> QED
      BY <3>1, <3>2, <1>6 DEF br
  <2> QED
    BY <2>1, <2>2
<1>10. Or(WordBits, low, high) = br * l + aq
  <2>1. br \in 0..(2 ^ (WordBits - m) - 1) /\ aq \in 0..(2 ^ m - 1)
    BY <1>0, <1>5, <1>7 DEF l, h, br, m
  <2>2. Or(WordBits, aq, br * 2 ^ m) = br * 2 ^ m + aq
    BY <2>1, <1>0, OrApart
  <2>3. 2 ^ m = l
    BY DEF m, l
  <2> QED
    BY <2>2, <2>3, <1>8, <1>9
<1>11. br * l + aq \in Words
  <2>1. br \in 0..(h - 1)
    BY <1>5 DEF br
  <2>2. br * l + aq \in 0..(h * l - 1)
    BY <2>1, <1>1, <1>7, Compose
  <2>3. h * l = Word
    BY <1>1
  <2> QED
    BY <2>2, <2>3 DEF Words
<1>12. a + br * Word = h * (br * l + aq) + ar
  <2>1. a = aq * h + ar /\ aq \in Nat /\ ar \in Nat /\ br \in Nat
    BY <1>1, <1>4, <1>5 DEF aq, ar, br
  <2>2. (aq * h + ar) + br * (l * h) = h * (br * l + aq) + ar
    BY <2>1, <1>1
  <2> QED
    BY <2>1, <2>2, <1>1
<1> QED
  BY <1>10, <1>11, <1>12 DEF h, ar, br

\* overflowing_shr: the value, shifted back, and what was shifted out are the number.
LEMMA ShrFacts ==
  ASSUME NEW x \in Uints, NEW s0 \in Nat
  PROVE  LET r == OverflowingShr(x, s0)
         IN  /\ r.val \in Uints /\ r.flag = (s0 >= BITS)
             /\ 2 ^ (s0 % BITS) \in Nat \ {0}
             /\ \E e \in 0..(2 ^ (s0 % BITS) - 1) :
                  Value(x) = Value(r.val) * 2 ^ (s0 % BITS) + e
<1> DEFINE s == s0 % BITS
           words == s \div WordBits
           sh == s % WordBits
           Low(i)  == IF i + words > Limbs - 1 THEN 0 ELSE Rsh(x[i + words], sh)
           High(i) == IF sh = 0 \/ i + words > Limbs - 2 THEN 0
                      ELSE Lsh(x[i + words + 1], WordBits - sh)
           val == [i \in Index |-> Or(WordBits, Low(i), High(i))]
           h == 2 ^ sh
           pw == 2 ^ (WordBits * words)
           t == Down(Limbs, x, words)
           vh == [i \in Index |-> h * val[i]]
           d == [i \in 0..Limbs |-> IF i = Limbs THEN 0 ELSE t[i] % h]
<1>0. /\ WordBits \in Nat \ {0} /\ Limbs \in Nat \ {0} /\ Word \in Nat \ {0}
      /\ Index = 0..(Limbs - 1) /\ Word = 2 ^ WordBits /\ Size \in Nat \ {0}
      /\ Size = 2 ^ (WordBits * Limbs) /\ Limbs \in Nat
  BY WordFacts DEF Index
<1>1. OverflowingShr(x, s0) = [val |-> Each(val), flag |-> s0 >= BITS]
  BY Zenon DEF OverflowingShr
<1>2. /\ words \in 0..Limbs /\ words \in Nat /\ sh \in 0..(WordBits - 1) /\ h \in Nat \ {0}
      /\ pw \in Nat \ {0} /\ 2 ^ s = pw * h
  <2>1. /\ words \in 0..Limbs /\ sh \in 0..(WordBits - 1) /\ 2 ^ sh \in Nat \ {0}
        /\ 2 ^ (WordBits * words) \in Nat \ {0}
        /\ 2 ^ s = 2 ^ (WordBits * words) * 2 ^ sh
    BY ShiftParts
  <2> HIDE DEF s, words, sh
  <2>2. words \in Nat
    BY <2>1
  <2> QED
    BY <2>1, <2>2
<1> HIDE DEF s, words, sh
<1>3. /\ t \in [Index -> Words]
      /\ \A i \in Index : t[i] = IF i + words < Limbs THEN x[i + words] ELSE 0
  <2>1. \A i \in 0..(Limbs - 1) : t[i] = IF i + words < Limbs THEN x[i + words] ELSE 0
    BY DEF Down
  <2>2. \A i \in Index : i + words < Limbs => i + words \in Index
    BY <1>0, <1>2
  <2>3. \A i \in Index : t[i] \in Words
    <3>1. 0 \in Words
      BY <1>0 DEF Words
    <3> QED
      BY <2>1, <2>2, <3>1, <1>0 DEF Uints
  <2>4. DOMAIN t = Index /\ t = [i \in Index |-> t[i]]
    BY <1>0 DEF Down
  <2> QED
    BY <2>1, <2>3, <2>4, <1>0
<1> HIDE DEF t, h, pw
<1>4. ASSUME NEW i \in Index
      PROVE  /\ val[i] \in Words
             /\ t[i] + d[i + 1] * Word = h * val[i] + d[i]
  <2>1. i \in Nat /\ i \in 0..Limbs /\ i + 1 \in 0..Limbs /\ i # Limbs
        /\ (i + 1 = Limbs \/ i + 1 \in Index)
    BY <1>0
  <2> DEFINE a == t[i]
             b == IF i + 1 = Limbs THEN 0 ELSE t[i + 1]
             high == High(i)
             low == Low(i)
  <2>2. a \in Words /\ b \in Words
    <3>1. 0 \in Words
      BY <1>0 DEF Words
    <3> QED
      BY <2>1, <3>1, <1>3
  <2>3. low = Rsh(a, sh)
    <3>1. CASE i + words > Limbs - 1
      <4>1. a = 0 /\ low = 0
        BY <3>1, <1>0, <1>2, <1>3, <2>1
      <4>2. 0 \div h = 0
        BY <1>2
      <4> QED
        BY <4>1, <4>2 DEF Rsh, h
    <3>2. CASE ~(i + words > Limbs - 1)
      <4>1. i + words < Limbs
        BY <3>2, <1>0, <1>2, <2>1
      <4>2. a = x[i + words]
        BY <4>1, <1>3
      <4> QED
        BY <3>2, <4>2
    <3> QED
      BY <3>1, <3>2
  <2>4. high = IF sh = 0 THEN 0 ELSE Lsh(b, WordBits - sh)
    <3>1. CASE sh = 0
      BY <3>1
    <3>2. CASE sh # 0 /\ i + words > Limbs - 2
      <4>1. b = 0
        <5>1. CASE i + 1 = Limbs
          BY <5>1
        <5>2. CASE i + 1 # Limbs
          <6>1. i + 1 \in Index /\ ~((i + 1) + words < Limbs)
            BY <5>2, <3>2, <1>0, <1>2, <2>1
          <6> QED
            BY <5>2, <6>1, <1>3
        <5> QED
          BY <5>1, <5>2
      <4>2. 0 * 2 ^ (WordBits - sh) = 0 /\ 0 % Word = 0
        <5> DEFINE l == 2 ^ (WordBits - sh)
        <5>1. l \in Nat \ {0}
          <6>1. WordBits - sh \in Nat
            BY <1>0, <1>2
          <6> QED
            BY <6>1, TwoPos
        <5> HIDE DEF l
        <5>2. 0 * l = 0 /\ 0 % Word = 0
          BY <5>1, <1>0
        <5> QED
          BY <5>2 DEF l
      <4>3. high = 0
        BY <3>2
      <4>4. Lsh(b, WordBits - sh) = 0
        BY <4>1, <4>2, Zenon DEF Lsh
      <4> QED
        BY <4>3, <4>4, <3>2
    <3>3. CASE sh # 0 /\ ~(i + words > Limbs - 2)
      <4>1. /\ i + 1 # Limbs /\ i + 1 \in Index /\ (i + 1) + words < Limbs
            /\ (i + 1) + words = i + words + 1
        BY <3>3, <1>0, <1>2, <2>1
      <4>2. b = x[i + words + 1]
        BY <4>1, <1>3
      <4> QED
        BY <4>2, <3>3
    <3> QED
      BY <3>1, <3>2, <3>3
  <2>5. val[i] = Or(WordBits, low, high)
    OBVIOUS
  <2> HIDE DEF high, low, a, b
  <2>6. /\ Or(WordBits, low, high) \in Words
        /\ a + (b % h) * Word = h * Or(WordBits, low, high) + (a % h)
    BY <2>2, <2>3, <2>4, <1>2, ShrWord DEF h
  <2>7. d[i] = a % h
    BY <2>1 DEF a
  <2>8. d[i + 1] = b % h
    <3>1. 0 % h = 0
      BY <1>2
    <3> QED
      BY <2>1, <3>1 DEF b
  <2> HIDE DEF val, d
  <2> QED
    BY <2>5, <2>6, <2>7, <2>8 DEF a
<1>5. val \in [Index -> Words] /\ val \in Uints /\ val \in [Index -> Nat]
  <2>1. val \in [Index -> Words]
    BY <1>4
  <2> HIDE DEF val
  <2> QED
    BY <2>1, <1>0 DEF Uints, Words
<1> HIDE DEF val
<1>6. vh \in [Index -> Nat] /\ \A i \in Index : vh[i] = h * val[i]
  <2>1. \A i \in Index : h * val[i] \in Nat
    <3> TAKE i \in Index
    <3> DEFINE a == val[i]
    <3>1. a \in Nat
      BY <1>5
    <3> HIDE DEF a
    <3>2. h * a \in Nat
      BY <3>1, <1>2
    <3> QED
      BY <3>2 DEF a
  <2> QED
    BY <2>1
<1>7. d \in [0..Limbs -> Nat] /\ d[Limbs] = 0 /\ d[0] \in 0..(h - 1)
  <2>1. ASSUME NEW i \in 0..Limbs, i # Limbs PROVE t[i] % h \in 0..(h - 1)
    <3>1. i \in Index
      BY <2>1, <1>0
    <3> DEFINE a == t[i]
    <3>2. a \in Nat
      BY <3>1, <1>0, <1>3 DEF Words
    <3> HIDE DEF a
    <3>3. a % h \in 0..(h - 1)
      BY <3>2, <1>2, DivNat
    <3> QED
      BY <3>3 DEF a
  <2>2. \A i \in 0..Limbs : d[i] \in Nat
    <3> TAKE i \in 0..Limbs
    <3>1. CASE i = Limbs
      BY <3>1
    <3>2. CASE i # Limbs
      <4>1. t[i] % h \in 0..(h - 1)
        BY <3>2, <2>1
      <4>2. d[i] = t[i] % h
        BY <3>2
      <4> HIDE DEF d
      <4> QED
        BY <4>1, <4>2, <1>2
    <3> QED
      BY <3>1, <3>2
  <2>3. 0 \in 0..Limbs /\ 0 # Limbs /\ Limbs \in 0..Limbs
    BY <1>0
  <2> QED
    BY <2>1, <2>2, <2>3
<1> HIDE DEF vh, d
<1>8. Each(val) = val
  BY <1>5, EachFacts
<1>9. t \in Digits(Limbs) /\ vh \in Digits(Limbs) /\ val \in Digits(Limbs)
  BY <1>0, <1>3, <1>5, <1>6, SMTT(30) DEF Digits, Words
<1>10. Carries(Limbs, WordBits, t, vh, d)
  BY <1>0, <1>4, <1>6 DEF Carries
<1>11. Value(t) + d[Limbs] * Size = Value(vh) + d[0]
  BY <1>7, <1>9, <1>10, Carried
<1>12. /\ Value(t) \in Nat /\ Value(vh) \in Nat /\ Value(vh) = Value(ZERO) + h * Value(val)
  <2>1. Combines(Limbs, vh, ZERO, h, val)
    <3>1. ASSUME NEW i \in 0..(Limbs - 1) PROVE vh[i] = ZERO[i] + h * val[i]
      <4>1. i \in Index /\ ZERO[i] = 0
        BY <1>0 DEF ZERO
      <4>2. vh[i] \in Nat
        BY <4>1, <1>6
      <4> QED
        BY <4>1, <4>2, <1>6
    <3> QED
      BY <3>1 DEF Combines
  <2>2. h \in Nat /\ ZERO \in Digits(Limbs)
    BY <1>2, UintFacts, ValueZero
  <2>3. Value(vh) \in Nat /\ Value(vh) = Value(ZERO) + h * Value(val)
    BY <2>1, <2>2, <1>9, ValueSum
  <2>4. Value(t) \in Nat
    <3>1. Limbs \in Nat /\ WordBits \in Nat
      BY <1>0
    <3>2. Number(Limbs, WordBits, t) \in Nat
      BY <3>1, <1>9, SumsFacts
    <3> QED
      BY <3>2 DEF Value
  <2> QED
    BY <2>3, <2>4
<1> DEFINE o == Sums(Limbs, WordBits, x)[words]
<1>13. Value(x) = o + Value(t) * pw /\ o \in 0..(pw - 1)
  <2>1. /\ x \in Digits(Limbs) /\ x \in [0..(Limbs - 1) -> 0..(2 ^ WordBits - 1)]
    BY UintFacts, <1>0 DEF Uints, Words
  <2>2. Limbs \in Nat /\ WordBits \in Nat /\ words \in 0..Limbs
    BY <1>0, <1>2
  <2>3. Number(Limbs, WordBits, x) = Sums(Limbs, WordBits, x)[words]
          + Number(Limbs, WordBits, Down(Limbs, x, words)) * 2 ^ (WordBits * words)
    BY <2>1, <2>2, MoveDown
  <2>4. Sums(Limbs, WordBits, x)[words] \in 0..(2 ^ (WordBits * words) - 1)
    BY <2>1, <2>2, SumsBound
  <2> QED
    BY <2>3, <2>4 DEF Value, t, pw
<1> DEFINE X == Value(x)
           T == Value(t)
           R == Value(val)
           c == d[0]
           e == c * pw + o
<1>14. X \in Nat /\ T \in Nat /\ R \in Nat /\ c \in 0..(h - 1)
  <2>1. X \in 0..(Size - 1) /\ R \in 0..(Size - 1)
    BY <1>5, UintFacts
  <2> HIDE DEF X, R
  <2> QED
    BY <2>1, <1>0, <1>7, <1>12
<1>15. T = h * R + c
  <2>1. h * R \in Nat
    <3> HIDE DEF R
    <3> QED
      BY <1>2, <1>14
  <2> QED
    BY <2>1, <1>0, <1>7, <1>11, <1>12, ValueZero
<1>16. X = o + T * pw
  BY <1>13
<1> HIDE DEF X, T, R, c, o
<1>17. e \in 0..(2 ^ s - 1)
  <2>1. c * pw + o \in 0..(h * pw - 1)
    BY <1>2, <1>13, <1>14, Compose
  <2>2. h * pw = pw * h
    BY <1>2
  <2> QED
    BY <2>1, <2>2, <1>2
<1>18. X = R * 2 ^ s + e
  <2>1. o + (h * R + c) * pw = R * (pw * h) + (c * pw + o)
    BY <1>2, <1>13, <1>14
  <2> QED
    BY <2>1, <1>2, <1>15, <1>16
<1>19. 2 ^ s \in Nat \ {0}
  <2>1. pw * h >= 1
    BY <1>2
  <2> QED
    BY <2>1, <1>2
<1> HIDE DEF e
<1> QED
  BY <1>1, <1>5, <1>8, <1>17, <1>18, <1>19 DEF X, R, s

-----------------------------------------------------------------------------
(* Order *)

\* The highest of some limbs.
LEMMA Highest ==
  ASSUME NEW A \in SUBSET Index, A # {}
  PROVE  \E i \in A : \A k \in A : k <= i
<1>0. Limbs \in Nat /\ Index = 0..(Limbs - 1)
  BY WordFacts DEF Index
<1> DEFINE Top(m) == (\E i \in A : i < m) => \E i \in A : i < m /\ \A k \in A : k < m => k <= i
           S == {m \in 0..Limbs : Top(m)}
<1>1. 0 \in S
  <2>1. 0 \in 0..Limbs
    BY <1>0
  <2>2. \A i \in A : ~(i < 0)
    BY <1>0
  <2> QED
    BY <2>1, <2>2
<1>2. ASSUME NEW m \in 0..(Limbs - 1), m \in S PROVE m + 1 \in S
  <2>1. m + 1 \in 0..Limbs
    BY <1>0
  <2>2. \A k \in A : k \in Int /\ (k < m + 1 <=> k < m \/ k = m)
    BY <1>0
  <2>3. CASE m \in A
    <3>1. m < m + 1 /\ \A k \in A : k < m + 1 => k <= m
      BY <2>2
    <3>2. Top(m + 1)
      BY <2>3, <3>1
    <3> QED
      BY <3>2, <2>1
  <2>4. CASE m \notin A
    <3>1. \A k \in A : k < m + 1 <=> k < m
      BY <2>2, <2>4
    <3>2. Top(m)
      BY <1>2
    <3>3. Top(m + 1)
      BY <3>1, <3>2
    <3> HIDE DEF Top
    <3> QED
      BY <3>3, <2>1
  <2> QED
    BY <2>3, <2>4
<1>3. Top(Limbs)
  <2> HIDE DEF Top
  <2>1. Limbs \in 0..Limbs
    BY <1>0
  <2> HIDE DEF S
  <2>2. \A m \in 0..Limbs : m \in S
    BY <1>0, <1>1, <1>2, UpTo
  <2> QED
    BY <2>1, <2>2 DEF S
<1>4. \A i \in A : i < Limbs
  BY <1>0
<1> QED
  BY <1>3, <1>4

\* A number below its limb i, at it, and above it.
LEMMA Limb ==
  ASSUME NEW x \in Uints, NEW i \in Index
  PROVE  LET low == Sums(Limbs, WordBits, x)[i]
             p   == 2 ^ (WordBits * i)
         IN  /\ p \in Nat \ {0} /\ low \in 0..(p - 1) /\ x[i] \in 0..(Word - 1)
             /\ Value(Down(Limbs, x, i + 1)) \in Nat
             /\ Value(x) = low + x[i] * p + Value(Down(Limbs, x, i + 1)) * (Word * p)
<1>0. /\ Limbs \in Nat /\ WordBits \in Nat /\ i \in 0..(Limbs - 1) /\ i \in Nat
      /\ i \in 0..Limbs /\ i + 1 \in 0..Limbs /\ Word = 2 ^ WordBits /\ Word \in Nat
  BY WordFacts DEF Index
<1>1. x \in Digits(Limbs) /\ x \in [0..(Limbs - 1) -> 0..(2 ^ WordBits - 1)]
      /\ x[i] \in 0..(Word - 1)
  BY <1>0, UintFacts DEF Uints, Words, Index
<1> DEFINE s == Sums(Limbs, WordBits, x)
           p == 2 ^ (WordBits * i)
           D == Number(Limbs, WordBits, Down(Limbs, x, i + 1))
<1>2. p \in Nat \ {0} /\ 2 ^ (WordBits * (i + 1)) = Word * p
  BY <1>0, Place
<1>3. s[i] \in 0..(p - 1)
  BY <1>0, <1>1, SumsBound
<1>4. s[i + 1] = s[i] + x[i] * p
  <2>1. x \in Digits(Limbs) /\ Limbs \in Nat /\ WordBits \in Nat
    BY <1>0, <1>1
  <2>2. /\ Sums(Limbs, WordBits, x) \in [0..Limbs -> Nat]
        /\ Sums(Limbs, WordBits, x)[0] = 0
        /\ \A k \in 0..(Limbs - 1) : Sums(Limbs, WordBits, x)[k + 1]
             = Sums(Limbs, WordBits, x)[k] + x[k] * 2 ^ (WordBits * k)
    BY <2>1, SumsFacts, Zenon
  <2> QED
    BY <2>2, <1>0
<1>5. Number(Limbs, WordBits, x) = s[i + 1] + D * 2 ^ (WordBits * (i + 1))
  BY <1>0, <1>1, MoveDown
<1>6. D \in Nat
  <2>1. Down(Limbs, x, i + 1) \in Digits(Limbs)
    BY <1>0, <1>1, MoveDown
  <2> QED
    BY <2>1, <1>0, SumsFacts
<1>7. Number(Limbs, WordBits, x) = s[i] + x[i] * p + D * (Word * p)
  BY <1>2, <1>4, <1>5
<1> QED
  BY <1>1, <1>2, <1>3, <1>6, <1>7 DEF Value

\* The highest limb that is not 0 leads a number.
LEMMA Leading ==
  ASSUME NEW x \in Uints, NEW i \in Index, \A k \in Index : k > i => x[k] = 0
  PROVE  LET p == 2 ^ (WordBits * i)
         IN  /\ p \in Nat \ {0} /\ x[i] \in 0..(Word - 1)
             /\ x[i] * p <= Value(x) /\ Value(x) < x[i] * p + p
<1>0. Limbs \in Nat /\ Index = 0..(Limbs - 1) /\ i + 1 \in 0..Limbs
  BY WordFacts DEF Index
<1>1. Down(Limbs, x, i + 1) = ZERO
  <2>1. ASSUME NEW k \in Index, k + (i + 1) < Limbs PROVE x[k + (i + 1)] = 0
    <3>1. k + (i + 1) \in Index /\ k + (i + 1) > i
      BY <2>1, <1>0
    <3> QED
      BY <3>1
  <2> QED
    BY <2>1, <1>0 DEF Down, ZERO
<1> DEFINE p == 2 ^ (WordBits * i)
           low == Sums(Limbs, WordBits, x)[i]
           D == Value(Down(Limbs, x, i + 1))
           d == x[i]
<1>2. /\ p \in Nat \ {0} /\ low \in 0..(p - 1) /\ d \in 0..(Word - 1)
      /\ Value(x) = low + d * p + D * (Word * p)
  BY Limb
<1>3. D = 0 /\ Word \in Nat
  BY <1>1, ValueZero, WordFacts
<1> HIDE DEF p, low, D, d
<1>4. D * (Word * p) = 0 /\ d * p \in Nat
  BY <1>2, <1>3
<1>5. d * p <= Value(x) /\ Value(x) < d * p + p
  BY <1>2, <1>4
<1> QED
  BY <1>2, <1>5 DEF p, d

\* cmp: the highest limb in which two numbers differ decides.
LEMMA LessFacts ==
  ASSUME NEW x \in Uints, NEW y \in Uints, Less(x, y)
  PROVE  Value(x) < Value(y)
<1>0. Limbs \in Nat /\ Index = 0..(Limbs - 1)
  BY WordFacts DEF Index
<1>1. PICK i \in Index : x[i] < y[i] /\ \A k \in Index : k > i => x[k] = y[k]
  BY DEF Less
<1>2. Down(Limbs, x, i + 1) = Down(Limbs, y, i + 1)
  <2>1. ASSUME NEW k \in Index, k + (i + 1) < Limbs PROVE x[k + (i + 1)] = y[k + (i + 1)]
    <3>1. k + (i + 1) \in Index /\ k + (i + 1) > i
      BY <2>1, <1>0
    <3> QED
      BY <3>1, <1>1
  <2> QED
    BY <2>1, <1>0 DEF Down
<1> DEFINE p == 2 ^ (WordBits * i)
           u == Sums(Limbs, WordBits, x)[i]
           v == Sums(Limbs, WordBits, y)[i]
           D == Value(Down(Limbs, x, i + 1))
           a == x[i]
           b == y[i]
<1>3. /\ p \in Nat \ {0} /\ u \in 0..(p - 1) /\ a \in 0..(Word - 1) /\ D \in Nat
      /\ Value(x) = u + a * p + D * (Word * p)
  BY Limb
<1>4. /\ v \in 0..(p - 1) /\ b \in 0..(Word - 1)
      /\ Value(y) = v + b * p + D * (Word * p)
  <2>1. /\ v \in 0..(p - 1) /\ b \in 0..(Word - 1)
        /\ Value(y) = v + b * p + Value(Down(Limbs, y, i + 1)) * (Word * p)
    BY Limb
  <2> QED
    BY <2>1, <1>2
<1>5. a < b /\ Word \in Nat
  BY <1>1, WordFacts
<1> HIDE DEF p, u, v, D, a, b
<1> DEFINE e == D * (Word * p)
<1>6. e \in Nat
  BY <1>3, <1>5
<1>7. a * p \in Nat /\ b * p \in Nat /\ a * p + p <= b * p
  <2>1. a \in Nat /\ b \in Nat /\ p \in Nat
    BY <1>3, <1>4, <1>5
  <2>2. a * p \in Nat /\ a * p + p <= b * p
    BY <2>1, <1>5, PrefixBound
  <2>3. b * p \in Nat
    BY <2>1
  <2> QED
    BY <2>2, <2>3
<1> DEFINE f == a * p
           g == b * p
<1>8. Value(x) = u + f + e /\ Value(y) = v + g + e /\ f \in Nat /\ g \in Nat /\ f + p <= g
  BY <1>3, <1>4, <1>7
<1> HIDE DEF e, f, g
<1> QED
  BY <1>3, <1>4, <1>6, <1>8

LEMMA LessIff ==
  ASSUME NEW x \in Uints, NEW y \in Uints
  PROVE  /\ Less(x, y) = (Value(x) < Value(y))
         /\ (x = y) = (Value(x) = Value(y))
<1>0. Value(x) \in Nat /\ Value(y) \in Nat
  BY UintFacts, WordFacts
<1>1. ASSUME x # y PROVE Less(x, y) \/ Less(y, x)
  <2> DEFINE A == {i \in Index : x[i] # y[i]}
  <2>1. A # {}
    BY <1>1 DEF Uints
  <2>2. A \in SUBSET Index
    OBVIOUS
  <2> HIDE DEF A
  <2>3. PICK i \in A : \A k \in A : k <= i
    BY <2>1, <2>2, Highest
  <2>4. /\ i \in Index /\ x[i] # y[i] /\ x[i] \in Nat /\ y[i] \in Nat
        /\ \A k \in Index : k > i => x[k] = y[k]
    <3>1. i \in Index /\ x[i] # y[i]
      BY DEF A
    <3>2. x[i] \in Nat /\ y[i] \in Nat
      BY <3>1, UintFacts
    <3>3. \A k \in Index : k > i => k \notin A
      <4>1. i \in Int /\ \A k \in Index : k \in Int
        BY <3>1, WordFacts DEF Index
      <4> QED
        BY <4>1, <2>3
    <3> QED
      BY <3>1, <3>2, <3>3 DEF A
  <2>5. x[i] < y[i] \/ y[i] < x[i]
    BY <2>4
  <2> QED
    BY <2>4, <2>5 DEF Less
<1>2. Less(x, y) => Value(x) < Value(y)
  BY LessFacts
<1>3. Less(y, x) => Value(y) < Value(x)
  BY LessFacts
<1>4. Less(x, y) \in BOOLEAN /\ Less(y, x) \in BOOLEAN
  BY DEF Less
<1> QED
  BY <1>0, <1>1, <1>2, <1>3, <1>4

\* partial_cmp and eq with a word.
LEMMA WordOrder ==
  ASSUME NEW x \in Uints, NEW n \in Words
  PROVE  LessU64(x, n) = (Value(x) < n) /\ EqU64(x, n) = (Value(x) = n)
<1>0. /\ Limbs \in Nat \ {0} /\ Index = 0..(Limbs - 1) /\ 0 \in Index /\ WordBits \in Nat
      /\ Word \in Nat /\ Word = 2 ^ WordBits /\ n \in 0..(Word - 1)
  BY WordFacts DEF Index, Words
<1> DEFINE Flat0 == \A k \in 1..(Limbs - 1) : x[k] = 0
<1>1. Value(x) \in Nat /\ x[0] \in Nat
  BY <1>0, UintFacts, WordFacts
<1>2. ASSUME Flat0 PROVE Value(x) = x[0]
  <2>1. \A k \in Index : k > 0 => x[k] = 0
    BY <1>0, <1>2
  <2>2. WordBits * 0 = 0
    BY <1>0
  <2>3. 2 ^ (WordBits * 0) = 1
    BY <2>2, TwoZero, Zenon
  <2> DEFINE zero == 0
  <2>4. zero \in Index /\ \A k \in Index : k > zero => x[k] = 0
    BY <2>1, <1>0
  <2> HIDE DEF zero
  <2>5. /\ x[zero] * 2 ^ (WordBits * zero) <= Value(x)
        /\ Value(x) < x[zero] * 2 ^ (WordBits * zero) + 2 ^ (WordBits * zero)
    BY <2>4, Leading
  <2>6. x[0] * 1 <= Value(x) /\ Value(x) < x[0] * 1 + 1
    BY <2>3, <2>5 DEF zero
  <2> QED
    BY <2>6, <1>1
<1>3. ASSUME ~Flat0 PROVE Value(x) >= Word
  <2> DEFINE A == {k \in Index : x[k] # 0}
  <2>1. A \in SUBSET Index
    OBVIOUS
  <2>2. PICK j \in 1..(Limbs - 1) : x[j] # 0
    BY <1>3
  <2>3. j \in A /\ j >= 1
    BY <2>2, <1>0
  <2> HIDE DEF A
  <2>4. PICK i \in A : \A k \in A : k <= i
    BY <2>1, <2>3, Highest
  <2>5. i \in Index /\ x[i] # 0 /\ i >= 1 /\ i \in Nat
    BY <2>3, <2>4, <1>0 DEF A
  <2>6. \A k \in Index : k > i => x[k] = 0
    <3>1. \A k \in Index : k > i => k \notin A
      <4>1. \A k \in Index : k \in Int
        BY <1>0
      <4> QED
        BY <4>1, <2>4, <2>5
    <3> QED
      BY <3>1 DEF A
  <2> DEFINE p == 2 ^ (WordBits * i)
             d == x[i]
  <2>7. p \in Nat /\ d \in Nat /\ d # 0 /\ d * p <= Value(x)
    BY <2>5, <2>6, <1>0, Leading
  <2>8. Word <= p
    <3>1. WordBits * i \in Nat /\ WordBits <= WordBits * i
      BY <2>5, <1>0
    <3> QED
      BY <3>1, <1>0, TwoMono
  <2> HIDE DEF p, d
  <2>9. p <= d * p
    BY <2>7
  <2>10. d * p \in Nat
    BY <2>7
  <2> QED
    BY <2>7, <2>8, <2>9, <2>10, <1>0, <1>1
<1>4. LessU64(x, n) = (x[0] < n /\ Flat0) /\ EqU64(x, n) = (x[0] = n /\ Flat0)
  BY Zenon DEF LessU64, EqU64
<1> HIDE DEF Flat0
<1>5. CASE Flat0
  BY <1>2, <1>4, <1>5
<1>6. CASE ~Flat0
  BY <1>0, <1>1, <1>3, <1>4, <1>6
<1> QED
  BY <1>5, <1>6

\* The length of a word.
LEMMA LengthFacts ==
  ASSUME NEW w \in 1..(Word - 1)
  PROVE  /\ WordLength(w) \in 1..WordBits
         /\ 2 ^ (WordLength(w) - 1) <= w /\ w < 2 ^ WordLength(w)
<1>0. WordBits \in Nat /\ Word = 2 ^ WordBits /\ Word \in Nat /\ w \in Nat
  BY WordFacts
<1> DEFINE Fits(b) == 2 ^ (b - 1) <= w /\ w < 2 ^ b
           Found(m) == w < 2 ^ m => \E b \in 1..m : Fits(b)
           S == {m \in 0..WordBits : Found(m)}
<1>1. 0 \in S
  BY TwoZero, <1>0
<1>2. ASSUME NEW m \in 0..(WordBits - 1), m \in S PROVE m + 1 \in S
  <2>1. m \in Nat /\ m + 1 \in 0..WordBits /\ (m + 1) - 1 = m /\ m + 1 \in 1..(m + 1)
    BY <1>0
  <2>2. CASE w < 2 ^ m
    <3>1. PICK b \in 1..m : Fits(b)
      BY <1>2, <2>2
    <3>2. b \in 1..(m + 1)
      BY <2>1
    <3> HIDE DEF Fits
    <3> QED
      BY <3>1, <3>2, <2>1
  <2>3. CASE ~(w < 2 ^ m)
    <3>1. 2 ^ m \in Nat
      BY <2>1, TwoPos
    <3>2. 2 ^ m <= w
      BY <3>1, <2>3, <1>0
    <3>3. w < 2 ^ (m + 1) => Fits(m + 1)
      BY <3>2, <2>1
    <3>4. Found(m + 1)
      <4>1. ASSUME w < 2 ^ (m + 1) PROVE \E b \in 1..(m + 1) : Fits(b)
        <5>1. Fits(m + 1)
          BY <3>3, <4>1
        <5> HIDE DEF Fits
        <5> QED
          BY <5>1, <2>1
      <4> QED
        BY <4>1
    <3> HIDE DEF Found
    <3> QED
      BY <3>4, <2>1
  <2> QED
    BY <2>2, <2>3
<1>3. Found(WordBits)
  <2> HIDE DEF Found
  <2>1. WordBits \in 0..WordBits
    BY <1>0
  <2> HIDE DEF S
  <2>2. \A m \in 0..WordBits : m \in S
    BY <1>0, <1>1, <1>2, UpTo
  <2> QED
    BY <2>1, <2>2 DEF S
<1>4. \E b \in 1..WordBits : Fits(b)
  BY <1>3, <1>0
<1>5. WordLength(w) = CHOOSE b \in 1..WordBits : Fits(b)
  BY Zenon DEF WordLength
<1>6. WordLength(w) \in 1..WordBits /\ Fits(WordLength(w))
  <2> HIDE DEF Fits
  <2> QED
    BY <1>4, <1>5, Zenon
<1> QED
  BY <1>6

\* bits().
LEMMA BitsFacts ==
  ASSUME NEW x \in Uints
  PROVE  /\ Bits(x) \in 0..BITS
         /\ Value(x) < 2 ^ Bits(x)
         /\ Value(x) > 0 => Bits(x) > 0 /\ 2 ^ (Bits(x) - 1) <= Value(x)
<1>0. /\ Limbs \in Nat /\ Index = 0..(Limbs - 1) /\ WordBits \in Nat /\ WordBits # 0
      /\ BITS = WordBits * Limbs /\ Value(x) \in Nat
  BY WordFacts, UintFacts DEF Index
<1>1. CASE IsZero(x)
  <2>1. x = ZERO
    BY <1>1 DEF IsZero, ZERO, Uints
  <2>2. Value(x) = 0 /\ Bits(x) = 0
    BY <2>1, <1>1, ValueZero DEF Bits
  <2>3. 0 \in 0..BITS
    BY <1>0
  <2> QED
    BY <2>2, <2>3, TwoZero
<1>2. CASE ~IsZero(x)
  <2> DEFINE Lead(i) == x[i] # 0 /\ \A k \in Index : k > i => x[k] = 0
             A == {k \in Index : x[k] # 0}
             j == CHOOSE i \in Index : Lead(i)
  <2>1. \E i \in Index : Lead(i)
    <3>1. A # {} /\ A \in SUBSET Index
      BY <1>2 DEF IsZero
    <3> HIDE DEF A
    <3>2. PICK i \in A : \A k \in A : k <= i
      BY <3>1, Highest
    <3>3. \A k \in Index : k > i => k \notin A
      <4>1. i \in Int /\ \A k \in Index : k \in Int
        BY <3>1, <1>0
      <4> QED
        BY <4>1, <3>2
    <3> QED
      BY <3>3 DEF A
  <2>2. Bits(x) = WordBits * j + WordLength(x[j])
    BY <1>2, Zenon DEF Bits
  <2>3. j \in Index /\ Lead(j)
    <3> HIDE DEF Lead
    <3> QED
      BY <2>1, Zenon
  <2> HIDE DEF j
  <2> DEFINE p == 2 ^ (WordBits * j)
             d == x[j]
             b == WordLength(d)
  <2>4. p \in Nat \ {0} /\ d \in 0..(Word - 1) /\ d * p <= Value(x) /\ Value(x) < d * p + p
    BY <2>3, Leading
  <2>5. d \in 1..(Word - 1) /\ d \in Nat
    BY <2>3, <2>4, WordFacts
  <2> HIDE DEF d
  <2>6. b \in 1..WordBits /\ 2 ^ (b - 1) <= d /\ d < 2 ^ b
    BY <2>5, LengthFacts
  <2> HIDE DEF b
  <2> DEFINE g == 2 ^ b
             f == 2 ^ (b - 1)
             n == WordBits * j
  <2>7. n \in Nat /\ b \in Nat /\ b - 1 \in Nat /\ (b + n) - 1 = (b - 1) + n /\ n + b = b + n
    BY <2>3, <2>6, <1>0
  <2>8. 2 ^ (b + n) = g * p /\ 2 ^ ((b - 1) + n) = f * p /\ g \in Nat /\ f \in Nat
    BY <2>7, TwoAdd, TwoPos
  <2>9. n + b \in 0..BITS
    <3>1. j + 1 <= Limbs /\ j + 1 \in Nat
      BY <2>3, <1>0
    <3>2. WordBits * (j + 1) <= WordBits * Limbs
      BY <3>1, <1>0
    <3>3. WordBits * (j + 1) = n + WordBits /\ WordBits * Limbs \in Nat
      BY <2>3, <1>0
    <3> HIDE DEF n
    <3> QED
      BY <3>2, <3>3, <2>6, <2>7, <1>0
  <2>10. Bits(x) = b + n
    BY <2>2, <2>7 DEF b, d
  <2> HIDE DEF n, p, g, f
  <2>11. d * p + p <= g * p /\ f * p <= d * p
    <3>1. d < g /\ f <= d
      BY <2>6 DEF g, f
    <3> QED
      BY <3>1, <2>4, <2>5, <2>8
  <2>12. d * p \in Nat /\ g * p \in Nat /\ f * p \in Nat
    BY <2>4, <2>5, <2>8
  <2>13. Value(x) < g * p /\ f * p <= Value(x)
    BY <2>4, <2>11, <2>12, <1>0
  <2>14. Value(x) < 2 ^ Bits(x) /\ 2 ^ (Bits(x) - 1) <= Value(x)
    BY <2>7, <2>8, <2>10, <2>13
  <2> QED
    BY <2>6, <2>7, <2>9, <2>10, <2>14
<1> QED
  BY <1>1, <1>2

\* iter_be_bits.
LEMMA BeBitFacts ==
  ASSUME NEW x \in Uints, NEW b \in 0..(BITS - 1)
  PROVE  BeBit(x, b) = (Value(x) \div 2 ^ (BITS - 1 - b)) % 2
<1> DEFINE q == b \div WordBits
           r == b % WordBits
           i == Limbs - q - 1
           m == WordBits - r - 1
<1>0. /\ Limbs \in Nat /\ WordBits \in Nat \ {0} /\ BITS = WordBits * Limbs /\ BITS \in Nat
      /\ Word = 2 ^ WordBits /\ Word \in Nat \ {0} /\ b \in Nat
  BY WordFacts
<1>1. q \in Nat /\ r \in 0..(WordBits - 1) /\ b = q * WordBits + r
  BY <1>0, DivNat
<1>2. BeBit(x, b) = (x[i] \div 2 ^ m) % 2
  BY Zenon DEF BeBit, Rsh
<1> HIDE DEF q, r
<1>3. i \in Index
  <2>1. SUFFICES ASSUME q >= Limbs PROVE FALSE
    BY <1>0, <1>1 DEF Index
  <2>2. q * WordBits >= Limbs * WordBits
    BY <2>1, <1>0, <1>1
  <2>3. q * WordBits \in Nat
    BY <1>0, <1>1
  <2> QED
    BY <2>2, <2>3, <1>0, <1>1
<1>4. i \in Nat /\ m \in 0..(WordBits - 1) /\ m \in Nat
  BY <1>0, <1>1, <1>3 DEF Index
<1>5. BITS - 1 - b = m + WordBits * i
  <2>1. WordBits * (Limbs - q - 1) = WordBits * Limbs - q * WordBits - WordBits
    BY <1>0, <1>1
  <2>2. q * WordBits \in Nat /\ WordBits * Limbs \in Nat
    BY <1>0, <1>1
  <2> DEFINE e == q * WordBits
             f == WordBits * Limbs
             g == WordBits * i
  <2>3. e \in Nat /\ f \in Nat /\ g = f - e - WordBits /\ b = e + r /\ BITS = f
    BY <2>1, <2>2, <1>0, <1>1
  <2> HIDE DEF e, f, g
  <2>4. BITS - 1 - b = m + g
    BY <2>3, <1>0, <1>1
  <2> QED
    BY <2>4 DEF g
<1> HIDE DEF i, m
<1> DEFINE p == 2 ^ (WordBits * i)
           t == 2 ^ m
           low == Sums(Limbs, WordBits, x)[i]
           D == Value(Down(Limbs, x, i + 1))
           d == x[i]
           X == Value(x)
           h == D * Word + d
<1>6. /\ p \in Nat \ {0} /\ low \in 0..(p - 1) /\ d \in 0..(Word - 1) /\ D \in Nat
      /\ X = low + d * p + D * (Word * p)
  BY <1>3, Limb
<1>7. t \in Nat \ {0} /\ 2 ^ (m + WordBits * i) = t * p
  <2>1. WordBits * i \in Nat
    BY <1>0, <1>4
  <2> QED
    BY <2>1, <1>4, TwoAdd, TwoPos
<1> HIDE DEF d, D
<1>8. Bit(D * 2 ^ WordBits + d, m) = Bit(d, m)
  <2>1. d \in Nat
    BY <1>0, <1>6
  <2> QED
    BY <2>1, <1>0, <1>4, <1>6, BitLow
<1>9. (h \div t) % 2 = (d \div t) % 2
  BY <1>0, <1>8, Zenon DEF Bit
<1>10. X \in Nat
  BY UintFacts, WordFacts
<1> HIDE DEF p, t, low, X
<1>11. h \in Nat /\ X = h * p + low
  <2>1. low + d * p + D * (Word * p) = (D * Word + d) * p + low
    BY <1>0, <1>6
  <2>2. D * Word \in Nat
    BY <1>0, <1>6
  <2> QED
    BY <2>1, <2>2, <1>6
<1> HIDE DEF h
<1>12. X \div p = h
  BY <1>6, <1>10, <1>11, DivMod
<1>13. (X \div p) \div t = X \div (t * p)
  BY <1>6, <1>7, <1>10, DivTwice
<1>14. (X \div 2 ^ (BITS - 1 - b)) % 2 = (d \div t) % 2
  BY <1>5, <1>7, <1>9, <1>12, <1>13
<1> QED
  BY <1>2, <1>14 DEF d, t, X

-----------------------------------------------------------------------------
(* Bytes *)

LEMMA ByteFacts ==
  /\ ByteBits \in Nat \ {0} /\ WordBytes \in Nat \ {0} /\ WordBits = ByteBits * WordBytes
  /\ BYTES \in Nat \ {0} /\ BYTES = Limbs * WordBytes /\ Byte = 2 ^ ByteBits
  /\ Byte \in Nat \ {0}
<1>1. ByteBits \in Nat \ {0} /\ WordBits \in Nat \ {0} /\ WordBits % ByteBits = 0
      /\ Limbs \in Nat \ {0}
  BY WordsAssumption
<1> DEFINE w == WordBits \div ByteBits
           r == WordBits % ByteBits
<1>2. w \in Nat /\ WordBits = w * ByteBits + r /\ r = 0
  BY <1>1, DivNat
<1>3. w = WordBytes
  BY DEF WordBytes
<1> HIDE DEF w, r
<1>4. w # 0
  <2>1. 0 * ByteBits = 0
    BY <1>1
  <2> QED
    BY <2>1, <1>1, <1>2
<1>5. WordBits = ByteBits * w
  BY <1>1, <1>2
<1>6. Limbs * w \in Nat \ {0}
  <2>1. Limbs * w >= 1
    BY <1>1, <1>2, <1>4
  <2> QED
    BY <2>1, <1>1, <1>2
<1> QED
  BY <1>1, <1>2, <1>3, <1>4, <1>5, <1>6, TwoPos DEF BYTES, Byte

-----------------------------------------------------------------------------
(* Division *)

\* div_rem_u64: the quotient times the divisor and the rest are the number.
LEMMA DivU64Facts ==
  ASSUME NEW x \in Uints, NEW n \in Words, n # 0
  PROVE  LET r == DivRemU64(x, n)
         IN  /\ Value(r.val) \in Nat /\ r.carry \in 0..(n - 1)
             /\ Value(x) = Value(r.val) * n + r.carry
<1> DEFINE At(i, rem) == [word |-> (rem * Word + x[i]) \div n,
                          carry |-> (rem * Word + x[i]) % n]
           turn == [i \in Index |-> [rem \in Nat |-> At(i, rem)]]
           limb == [k \in Index |-> Limbs - 1 - k]
           r == DivRemU64(x, n)
<1>0. /\ Limbs \in Nat \ {0} /\ Index = 0..(Limbs - 1) /\ Word \in Nat \ {0} /\ n \in Nat \ {0}
      /\ x \in [Index -> Nat] /\ x \in Digits(Limbs) /\ Word = 2 ^ WordBits
      /\ Limbs \in 0..Limbs /\ 0 \in 0..Limbs
  BY WordFacts, UintFacts DEF Index, Words
<1>1. ASSUME NEW i \in Index, NEW rem \in Nat
      PROVE  /\ At(i, rem) \in [word : Nat, carry : Nat] /\ At(i, rem).carry \in 0..(n - 1)
             /\ At(i, rem).word * n + At(i, rem).carry = rem * Word + x[i]
  <2> DEFINE z == rem * Word + x[i]
  <2>1. z \in Nat
    <3> DEFINE a == x[i]
    <3>1. a \in Nat
      BY <1>0
    <3> HIDE DEF a
    <3> DEFINE b == rem * Word
    <3>2. b \in Nat
      <4>1. rem \in Nat /\ Word \in Nat
        BY <1>0
      <4> QED
        BY <4>1
    <3> HIDE DEF b
    <3>3. b + a \in Nat
      BY <3>1, <3>2
    <3> QED
      BY <3>3 DEF a, b
  <2> HIDE DEF z
  <2>2. z \div n \in Nat /\ z % n \in 0..(n - 1) /\ z = (z \div n) * n + (z % n)
    BY <2>1, <1>0, DivNat
  <2>3. At(i, rem) = [word |-> z \div n, carry |-> z % n]
    BY DEF z
  <2> DEFINE q == z \div n
             e == z % n
  <2>4. q \in Nat /\ e \in 0..(n - 1) /\ e \in Nat /\ z = q * n + e
        /\ At(i, rem) = [word |-> q, carry |-> e]
    BY <2>2, <2>3, <1>0
  <2> HIDE DEF q, e, At
  <2> QED
    BY <2>4 DEF z
<1>2. turn \in Turns /\ \A i \in Index, rem \in Nat : turn[i][rem] = At(i, rem)
  <2>1. \A i \in Index : \A rem \in Nat : At(i, rem) \in [word : Nat, carry : Nat]
    BY <1>1
  <2> HIDE DEF At
  <2> QED
    BY <2>1 DEF Turns
<1>3. limb \in [Index -> Index] /\ OneToOne(limb) /\ \A k \in Index : limb[k] = Limbs - 1 - k
  BY <1>0 DEF OneToOne
<1>4. r = Loop(x, limb, turn)
  BY Zenon DEF DivRemU64, Downwards
<1> HIDE DEF turn, limb, At
<1>5. PICK c \in [0..Limbs -> Nat] :
        /\ r.val \in [Index -> Nat] /\ c[0] = 0 /\ r.carry = c[Limbs]
        /\ Went(limb, turn, r.val, c)
  <2>1. /\ Loop(x, limb, turn).val \in [Index -> Nat]
        /\ \E c \in [0..Limbs -> Nat] :
             /\ c[0] = 0 /\ Loop(x, limb, turn).carry = c[Limbs]
             /\ Went(limb, turn, Loop(x, limb, turn).val, c)
    BY <1>0, <1>2, <1>3, LoopFacts
  <2> QED
    BY <2>1, <1>4
<1> HIDE DEF r
<1> DEFINE d == [i \in 0..Limbs |-> c[Limbs - i]]
           t == [i \in Index |-> n * r.val[i]]
<1>6. d \in [0..Limbs -> Nat] /\ d[Limbs] = 0 /\ d[0] = r.carry
  <2>1. \A i \in 0..Limbs : Limbs - i \in 0..Limbs
    BY <1>0
  <2>2. Limbs - Limbs = 0 /\ Limbs - 0 = Limbs
    BY <1>0
  <2> QED
    BY <2>1, <2>2, <1>0, <1>5
<1>7. ASSUME NEW i \in Index
      PROVE  /\ d[i] \in 0..(n - 1)
             /\ x[i] + d[i + 1] * Word = n * r.val[i] + d[i]
  <2> DEFINE k == Limbs - 1 - i
  <2>1. /\ k \in Index /\ Limbs - 1 - k = i /\ k + 1 = Limbs - i /\ Limbs - (i + 1) = k
        /\ i \in 0..Limbs /\ i + 1 \in 0..Limbs /\ k \in 0..Limbs
    BY <1>0
  <2>2. limb[k] = i
    BY <2>1, <1>3
  <2>3. d[i] = c[k + 1] /\ d[i + 1] = c[k]
    BY <2>1
  <2> HIDE DEF k, d
  <2>4. c[k] \in Nat
    BY <2>1, <1>5
  <2>5. r.val[i] = At(i, c[k]).word /\ c[k + 1] = At(i, c[k]).carry
    BY <2>1, <2>2, <2>4, <1>2, <1>5 DEF Went
  <2>6. /\ At(i, c[k]).carry \in 0..(n - 1)
        /\ At(i, c[k]).word * n + At(i, c[k]).carry = c[k] * Word + x[i]
        /\ At(i, c[k]).word \in Nat
    BY <2>4, <1>1
  <2> DEFINE a == At(i, c[k]).word
             b == At(i, c[k]).carry
             e == c[k]
             f == x[i]
  <2>7. a \in Nat /\ b \in 0..(n - 1) /\ e \in Nat /\ f \in Nat /\ a * n + b = e * Word + f
    BY <2>4, <2>6, <1>0
  <2>8. r.val[i] = a /\ d[i] = b /\ d[i + 1] = e /\ x[i] = f
    BY <2>3, <2>5
  <2> HIDE DEF a, b, e, f
  <2>9. f + e * Word = n * a + b
    BY <2>7, <1>0
  <2> QED
    BY <2>7, <2>8, <2>9
<1> HIDE DEF d
<1>8. t \in [Index -> Nat] /\ \A i \in Index : t[i] = n * r.val[i]
  <2>1. \A i \in Index : n * r.val[i] \in Nat
    <3> TAKE i \in Index
    <3> DEFINE a == r.val[i]
    <3>1. a \in Nat
      BY <1>5
    <3> HIDE DEF a
    <3>2. n * a \in Nat
      BY <3>1, <1>0
    <3> QED
      BY <3>2 DEF a
  <2> QED
    BY <2>1
<1> HIDE DEF t
<1>9. t \in Digits(Limbs) /\ r.val \in Digits(Limbs)
  BY <1>0, <1>5, <1>8 DEF Digits
<1>10. Carries(Limbs, WordBits, x, t, d)
  BY <1>0, <1>7, <1>8 DEF Carries
<1>11. Value(x) + d[Limbs] * Size = Value(t) + d[0]
  BY <1>0, <1>6, <1>9, <1>10, Carried
<1>12. Value(t) \in Nat /\ Value(r.val) \in Nat /\ Value(t) = Value(ZERO) + n * Value(r.val)
  <2>1. Combines(Limbs, t, ZERO, n, r.val)
    <3>1. ASSUME NEW i \in 0..(Limbs - 1) PROVE t[i] = ZERO[i] + n * r.val[i]
      <4>1. i \in Index /\ ZERO[i] = 0
        BY <1>0 DEF ZERO
      <4>2. t[i] \in Nat
        BY <4>1, <1>8
      <4> QED
        BY <4>1, <4>2, <1>8
    <3> QED
      BY <3>1 DEF Combines
  <2>2. n \in Nat /\ ZERO \in Digits(Limbs)
    BY <1>0, UintFacts, ValueZero
  <2> QED
    BY <2>1, <2>2, <1>9, ValueSum
<1>13. d[0] \in 0..(n - 1)
  <2>1. 0 \in Index
    BY <1>0
  <2> QED
    BY <2>1, <1>7
<1> DEFINE Q == Value(r.val)
           X == Value(x)
           e == r.carry
<1>14. X = Q * n + e
  <2>1. X \in Nat /\ Size \in Nat
    BY UintFacts, WordFacts
  <2>2. Q \in Nat /\ e \in 0..(n - 1) /\ X + 0 * Size = (0 + n * Q) + e
    BY <1>6, <1>11, <1>12, <1>13, ValueZero
  <2> HIDE DEF Q, X, e
  <2> QED
    BY <2>1, <2>2, <1>0
<1> QED
  BY <1>6, <1>12, <1>13, <1>14 DEF r

\* A number of one limb.
LEMMA Single ==
  ASSUME NEW i \in Index, NEW d \in Words
  PROVE  LET s == [ZERO EXCEPT ![i] = d]
         IN  s \in Uints /\ Value(s) = d * 2 ^ (WordBits * i)
<1> DEFINE s == [ZERO EXCEPT ![i] = d]
<1>0. /\ Limbs \in Nat /\ WordBits \in Nat /\ Index = 0..(Limbs - 1) /\ i \in 0..Limbs
      /\ 0 \in 0..Limbs /\ 0 <= i /\ i \in Nat /\ Word \in Nat \ {0}
  BY WordFacts DEF Index
<1>1. s \in Uints /\ s[i] = d /\ \A k \in Index : k # i => s[k] = 0
  BY <1>0 DEF ZERO, Uints, Words
<1> HIDE DEF s
<1>2. s \in Digits(Limbs)
  BY <1>1, UintFacts
<1>3. ZeroFrom(s, 0, i)
  BY <1>0, <1>1 DEF ZeroFrom
<1>4. Sums(Limbs, WordBits, s)[i] = 0
  <2>1. Sums(Limbs, WordBits, s)[i] = Sums(Limbs, WordBits, s)[0]
    BY <1>0, <1>2, <1>3, Flat
  <2>2. Sums(Limbs, WordBits, s)[0] = 0
    BY <1>0, <1>2, SumsStart
  <2> QED
    BY <2>1, <2>2
<1>5. Down(Limbs, s, i + 1) = ZERO
  <2>1. ASSUME NEW k \in Index, k + (i + 1) < Limbs PROVE s[k + (i + 1)] = 0
    <3>1. k + (i + 1) \in Index /\ k + (i + 1) # i
      BY <2>1, <1>0
    <3> QED
      BY <3>1, <1>1
  <2> QED
    BY <2>1, <1>0 DEF Down, ZERO
<1> DEFINE p == 2 ^ (WordBits * i)
<1>6. p \in Nat /\ Value(s) = 0 + d * p + 0 * (Word * p)
  BY <1>1, <1>4, <1>5, Limb, ValueZero
<1>7. d \in Nat
  BY <1>0 DEF Words
<1> HIDE DEF p
<1>8. Value(s) = d * p
  BY <1>0, <1>6, <1>7
<1> QED
  BY <1>1, <1>8 DEF s, p

\* Setting a bit below all that are set adds its value.
LEMMA SetBitFacts ==
  ASSUME NEW x \in Uints, NEW b \in 0..(BITS - 1), NEW m \in Nat,
         Value(x) = m * 2 ^ (b + 1)
  PROVE  SetBit(x, b) \in Uints /\ Value(SetBit(x, b)) = Value(x) + 2 ^ b
<1> DEFINE i == b \div WordBits
           k == b % WordBits
           p == 2 ^ (WordBits * i)
           g == 2 ^ k
           h == 2 ^ (k + 1)
           e == 2 ^ (WordBits - (k + 1))
           d == x[i]
           low == Sums(Limbs, WordBits, x)[i]
           D == Value(Down(Limbs, x, i + 1))
<1>0. /\ WordBits \in Nat \ {0} /\ Limbs \in Nat \ {0} /\ b \in Nat /\ BITS = WordBits * Limbs
      /\ Word = 2 ^ WordBits /\ Word \in Nat \ {0} /\ BITS \in Nat /\ Index = 0..(Limbs - 1)
  BY WordFacts DEF Index
<1>1. i \in Nat /\ k \in 0..(WordBits - 1) /\ b = i * WordBits + k
  BY <1>0, DivNat
<1> HIDE DEF i, k
<1>2. i \in Index
  <2>1. SUFFICES ASSUME i >= Limbs PROVE FALSE
    BY <1>0, <1>1
  <2>2. i * WordBits >= Limbs * WordBits /\ i * WordBits \in Nat
    BY <2>1, <1>0, <1>1
  <2> QED
    BY <2>2, <1>0, <1>1
<1>3. /\ k \in Nat /\ k + 1 \in Nat /\ k + 1 <= WordBits /\ k + 1 \in 0..WordBits
      /\ WordBits * i \in Nat /\ b = WordBits * i + k /\ b + 1 = WordBits * i + (k + 1)
  BY <1>0, <1>1
<1>4. g \in Nat \ {0} /\ h = 2 * g /\ e \in Nat \ {0} /\ Word = e * h /\ h \in Nat \ {0}
  <2>1. g \in Nat \ {0} /\ h = 2 * g
    BY <1>3, TwoNext, TwoPos
  <2>2. e \in Nat \ {0} /\ h \in Nat \ {0} /\ Word = e * h
    BY <1>0, <1>3, TwoSplit
  <2> QED
    BY <2>1, <2>2
<1>5. p \in Nat \ {0} /\ 2 ^ b = p * g /\ 2 ^ (b + 1) = p * h
  BY <1>3, TwoAdd, TwoPos
<1>6. /\ low \in 0..(p - 1) /\ d \in 0..(Word - 1) /\ D \in Nat
      /\ Value(x) = low + d * p + D * (Word * p)
  BY <1>2, Limb
<1> HIDE DEF g, h, e, low, D
<1> DEFINE a == d \div h
<1>7. d = a * h /\ a \in 0..(e - 1)
  <2> DEFINE z == Value(x) \div p
             u == D * Word + d
  <2>1. /\ Value(x) \in Nat /\ Value(x) = (m * h) * p + 0 /\ Value(x) = u * p + low
    <3>1. Value(x) \in Nat
      BY UintFacts, WordFacts
    <3>2. m * (p * h) = (m * h) * p + 0
      BY <1>4, <1>5
    <3> DEFINE dd == d
    <3>3. dd \in Nat
      BY <1>0, <1>6
    <3> HIDE DEF dd
    <3>4. low + dd * p + D * (Word * p) = (D * Word + dd) * p + low
      BY <3>3, <1>0, <1>5, <1>6, SMTT(30)
    <3> QED
      BY <3>1, <3>2, <3>4, <1>5, <1>6 DEF dd
  <2> HIDE DEF p, d
  <2>2. m * h \in Nat /\ u \in Nat /\ d \in Nat
    BY <1>0, <1>4, <1>6
  <2>3. Value(x) \div p = u
    BY <2>1, <2>2, <1>5, <1>6, DivMod
  <2> DEFINE mh == m * h
             zero == 0
  <2>4. mh \in Int /\ zero \in 0..(p - 1) /\ Value(x) = mh * p + zero
    BY <2>1, <2>2, <1>5
  <2> DEFINE X == Value(x)
  <2> HIDE DEF mh, zero, u, X
  <2>5. X \div p = mh
    <3>1. X \in Int /\ mh \in Int /\ p \in Nat \ {0} /\ zero \in 0..(p - 1) /\ X = mh * p + zero
      BY <2>1, <2>4, <1>5 DEF X
    <3> QED
      BY <3>1, DivMod
  <2>6. u = m * h
    BY <2>3, <2>5 DEF mh, X
  <2>7. d = (m * h) % (e * h)
    <3> DEFINE DW == D
    <3>1. u = D * Word + d /\ u \in Int /\ d \in 0..(Word - 1) /\ D \in Int
      BY <2>2, <1>6 DEF u
    <3>2. u % Word = d
      BY <3>1, <1>0, DivMod
    <3> QED
      BY <3>2, <2>6, <1>4
  <2>8. (m * h) % (e * h) = (m % e) * h
    BY <1>4, DivScaled
  <2>9. m % e \in 0..(e - 1)
    BY <1>4, DivNat
  <2> DEFINE r == m % e
  <2> HIDE DEF r
  <2>10. r \in 0..(e - 1) /\ d = r * h /\ r \in Int /\ d \in Int
    BY <2>2, <2>7, <2>8, <2>9, <1>4 DEF r
  <2>11. d = r * h + zero /\ zero \in 0..(h - 1)
    <3>1. r * h \in Int
      BY <2>10, <1>4
    <3> QED
      BY <3>1, <2>10, <1>4 DEF zero
  <2>12. d \div h = r
    BY <2>10, <2>11, <1>4, DivMod
  <2> QED
    BY <2>10, <2>12
<1> HIDE DEF a
<1>8. Or(WordBits, d, g) = d + g
  <2>1. a \in 0..(2 ^ (WordBits - (k + 1)) - 1) /\ g \in 0..(2 ^ (k + 1) - 1)
    <3>1. g \in 0..(h - 1)
      BY <1>4
    <3> QED
      BY <3>1, <1>7 DEF e, h
  <2>2. Or(WordBits, a * 2 ^ (k + 1), g) = a * 2 ^ (k + 1) + g
    BY <2>1, <1>0, <1>3, OrApart
  <2> QED
    BY <2>2, <1>7 DEF h
<1>9. d + g \in Words /\ g \in Words
  <2>1. g \in 0..(h - 1)
    BY <1>4
  <2>2. a * h + g \in 0..(e * h - 1)
    BY <2>1, <1>4, <1>7, Compose
  <2>3. d + g \in 0..(Word - 1)
    BY <2>2, <1>4, <1>7
  <2>4. d \in Nat
    BY <1>0, <1>6
  <2> HIDE DEF d
  <2> QED
    BY <2>3, <2>4, <1>0, <1>4 DEF Words
<1> DEFINE s == [ZERO EXCEPT ![i] = g]
           t == SetBit(x, b)
<1>10. s \in Uints /\ Value(s) = g * p
  BY <1>2, <1>9, Single
<1>11. t = [x EXCEPT ![i] = d + g]
  BY <1>8, Zenon DEF SetBit, i, k, g
<1>12. t \in Uints /\ \A j \in Index : t[j] = x[j] + s[j]
  <2>1. x \in [Index -> Words] /\ \A j \in Index : x[j] \in Nat
    BY UintFacts DEF Uints
  <2>2. t \in Uints
    BY <2>1, <1>9, <1>11 DEF Uints
  <2>3. ASSUME NEW j \in Index PROVE t[j] = x[j] + s[j]
    <3>1. CASE j = i
      <4>1. s[i] = g
        BY <1>2 DEF ZERO
      <4> QED
        BY <3>1, <4>1, <2>1, <1>11
    <3>2. CASE j # i
      <4>1. s[j] = 0
        BY <3>2 DEF ZERO
      <4>2. t[j] = x[j] /\ x[j] \in Nat
        BY <3>2, <2>1, <1>11
      <4> QED
        BY <4>1, <4>2
    <3> QED
      BY <3>1, <3>2
  <2> QED
    BY <2>2, <2>3
<1> HIDE DEF s, t
<1>13. Value(t) = Value(x) + Value(s)
  <2>1. x \in Digits(Limbs) /\ s \in Digits(Limbs) /\ t \in Digits(Limbs)
    BY <1>10, <1>12, UintFacts
  <2>2. \A j \in 0..(Limbs - 1) : t[j] = x[j] + s[j]
    BY <1>0, <1>12
  <2> QED
    BY <2>1, <2>2, PlainSum
<1>14. g * p = 2 ^ b
  BY <1>4, <1>5
<1> QED
  BY <1>10, <1>12, <1>13, <1>14 DEF t

\* A difference that is not negative is that of the numbers.
LEMMA SubExact ==
  ASSUME NEW x \in Uints, NEW y \in Uints, Value(y) <= Value(x)
  PROVE  /\ OverflowingSub(x, y).val \in Uints
         /\ Value(OverflowingSub(x, y).val) = Value(x) - Value(y)
<1> DEFINE r == OverflowingSub(x, y)
           v == Value(r.val)
           c == r.carry
           X == Value(x)
           Y == Value(y)
<1>1. r.val \in Uints /\ c \in {0, 1} /\ X + c * Size = v + Y
  BY SubFacts
<1>2. v \in 0..(Size - 1) /\ X \in 0..(Size - 1) /\ Y \in 0..(Size - 1) /\ Y <= X /\ Size \in Nat
  BY <1>1, UintFacts, WordFacts
<1> HIDE DEF r, v, c, X, Y
<1>3. v = X - Y
  <2>1. CASE c = 0
    BY <2>1, <1>1, <1>2
  <2>2. CASE c = 1
    BY <2>2, <1>1, <1>2
  <2> QED
    BY <2>1, <2>2, <1>1
<1> QED
  BY <1>1, <1>3 DEF r, v, X, Y

\* A shift to the right by one bit halves what is even.
LEMMA HalfFacts ==
  ASSUME NEW x \in Uints
  PROVE  /\ OverflowingShr(x, 1).val \in Uints
         /\ \A h \in Nat : BITS > 1 /\ Value(x) = 2 * h => Value(OverflowingShr(x, 1).val) = h
<1> DEFINE r == OverflowingShr(x, 1)
           one == 1
<1> HIDE DEF one
<1>1. /\ OverflowingShr(x, one).val \in Uints
      /\ \E e \in 0..(2 ^ (one % BITS) - 1) :
           Value(x) = Value(OverflowingShr(x, one).val) * 2 ^ (one % BITS) + e
  <2>1. one \in Nat
    BY DEF one
  <2> QED
    BY <2>1, ShrFacts
<1>2. r.val \in Uints
  BY <1>1 DEF one
<1>3. ASSUME NEW h \in Nat, BITS > 1, Value(x) = 2 * h PROVE Value(r.val) = h
  <2>1. one % BITS = 1
    <3>1. 1 % BITS = 1
      BY <1>3, WordFacts
    <3> QED
      BY <3>1 DEF one
  <2>2. 2 ^ (one % BITS) = 2
    <3> DEFINE zero == 0
    <3>1. zero \in Nat
      OBVIOUS
    <3>2. 2 ^ zero = 1
      BY TwoZero
    <3>3. zero + 1 = one % BITS
      BY <2>1
    <3> HIDE DEF zero
    <3>4. 2 ^ (zero + 1) = 2 * 2 ^ zero
      BY <3>1, TwoNext
    <3> QED
      BY <3>2, <3>3, <3>4
  <2>3. PICK e \in 0..(2 - 1) : Value(x) = Value(r.val) * 2 + e
    BY <1>1, <2>2 DEF one
  <2> DEFINE v == Value(r.val)
  <2>4. v \in Nat /\ 2 * h = v * 2 + e
    BY <1>2, <1>3, <2>3, UintFacts, WordFacts
  <2> HIDE DEF v
  <2>5. v = h
    BY <2>4
  <2> QED
    BY <2>5 DEF v
<1> QED
  BY <1>2, <1>3

\* One turn of div_rem's loop, at bit m: what is left of the dividend falls below
\* the shifted divisor, and what is taken away is in the quotient.
LEMMA DivRoundFacts ==
  ASSUME NEW st \in Rounds, NEW Y \in Nat \ {0}, NEW m \in 0..(BITS - 1), NEW R \in Nat,
         Value(st.shifted) = Y * 2 ^ m, Value(st.sub) < Y * 2 ^ (m + 1),
         Value(st.ret) = R * 2 ^ (m + 1)
  PROVE  LET r == DivRound(st, m)
         IN  /\ r \in Rounds
             /\ Value(r.sub) + Value(r.ret) * Y = Value(st.sub) + Value(st.ret) * Y
             /\ Value(r.sub) < Y * 2 ^ m
             /\ \E Q \in Nat : Value(r.ret) = Q * 2 ^ m
             /\ m > 0 => Value(r.shifted) = Y * 2 ^ (m - 1)
<1> DEFINE r == DivRound(st, m)
           p == 2 ^ m
           S == Value(st.sub)
           T == Value(st.ret)
           V == Value(st.shifted)
<1>1. st.sub \in Uints /\ st.ret \in Uints /\ st.shifted \in Uints
  BY DEF Rounds
<1>2. m \in Nat /\ p \in Nat \ {0} /\ 2 ^ (m + 1) = 2 * p
  BY WordFacts, TwoPos, TwoNext
<1>3. S \in Nat /\ T \in Nat /\ V \in Nat /\ V = Y * p /\ S < Y * (2 * p) /\ T = R * (2 * p)
  BY <1>1, <1>2, UintFacts, WordFacts
<1>4. r.shifted \in Uints /\ (m > 0 => Value(r.shifted) = Y * 2 ^ (m - 1))
  <2>1. r.shifted = OverflowingShr(st.shifted, 1).val
    BY DEF DivRound
  <2>2. ASSUME m > 0 PROVE Value(r.shifted) = Y * 2 ^ (m - 1)
    <3> DEFINE g == 2 ^ (m - 1)
    <3>1. g \in Nat /\ 2 ^ ((m - 1) + 1) = 2 * g /\ (m - 1) + 1 = m
      BY <2>2, <1>2, TwoPos, TwoNext
    <3> HIDE DEF g
    <3>2. p = 2 * g
      BY <3>1
    <3> HIDE DEF p
    <3>3. Y * g \in Nat /\ V = 2 * (Y * g)
      BY <3>1, <3>2, <1>3
    <3>4. BITS > 1
      BY <2>2, <1>2, WordFacts
    <3> DEFINE h == Y * g
    <3>5. h \in Nat /\ V = 2 * h
      BY <3>3
    <3> HIDE DEF h
    <3>6. Value(OverflowingShr(st.shifted, 1).val) = h
      BY <3>4, <3>5, <1>1, HalfFacts
    <3> QED
      BY <3>6, <2>1 DEF h, g
  <2> QED
    BY <2>1, <2>2, <1>1, HalfFacts
<1>5. CASE Less(st.sub, st.shifted)
  <2>1. r.sub = st.sub /\ r.ret = st.ret /\ r = [sub |-> r.sub, ret |-> r.ret, shifted |-> r.shifted]
    BY <1>5 DEF DivRound
  <2>2. S < V
    BY <1>1, <1>5, LessFacts
  <2>3. R * (2 * p) = (2 * R) * p /\ 2 * R \in Nat
    BY <1>2
  <2> QED
    BY <2>1, <2>2, <2>3, <1>1, <1>3, <1>4 DEF Rounds
<1>6. CASE ~Less(st.sub, st.shifted)
  <2>1. /\ r.sub = OverflowingSub(st.sub, st.shifted).val /\ r.ret = SetBit(st.ret, m)
        /\ r = [sub |-> r.sub, ret |-> r.ret, shifted |-> r.shifted]
    BY <1>6 DEF DivRound
  <2>2. V <= S
    <3>1. ~ (S < V)
      BY <1>1, <1>6, LessIff, ZenonT(30)
    <3> QED
      BY <3>1, <1>3
  <2>3. r.sub \in Uints /\ Value(r.sub) = S - V
    BY <2>1, <2>2, <1>1, SubExact
  <2>4. r.ret \in Uints /\ Value(r.ret) = T + p
    BY <2>1, <1>1, SetBitFacts
  <2>5. (S - V) + (T + p) * Y = S + T * Y /\ S - V < Y * p
        /\ T + p = (2 * R + 1) * p /\ 2 * R + 1 \in Nat
    <3> HIDE DEF S, T, V, p, r
    <3>1. (T + p) * Y = T * Y + Y * p /\ T * Y \in Nat /\ Y * p \in Nat
      BY <1>2, <1>3
    <3>2. Y * (2 * p) = 2 * (Y * p) /\ (2 * R + 1) * p = R * (2 * p) + p /\ 2 * R + 1 \in Nat
      BY <1>2, <1>3
    <3> QED
      BY <3>1, <3>2, <1>2, <1>3
  <2> QED
    BY <2>1, <2>3, <2>4, <2>5, <1>4 DEF Rounds
<1> QED
  BY <1>5, <1>6

\* What | makes of two words is a word.
LEMMA OrRange ==
  ASSUME NEW n \in Nat, NEW a, NEW b
  PROVE  Or(n, a, b) \in 0..(2 ^ n - 1)
<1> DEFINE one == 1
           t == [k \in 0..(n - 1) |-> IF Bit(a, k) = 1 \/ Bit(b, k) = 1 THEN 1 ELSE 0]
<1>1. one \in Nat /\ one * n = n /\ 2 ^ one = 2
  <2> DEFINE zero == 0
  <2>1. zero \in Nat /\ 2 ^ zero = 1 /\ zero + 1 = one
    BY TwoZero
  <2>2. n * 1 = n /\ one * n = n
    OBVIOUS
  <2> HIDE DEF zero, one
  <2>3. 2 ^ (zero + 1) = 2 * 2 ^ zero
    BY <2>1, TwoNext
  <2>4. 2 ^ one = 2
    BY <2>1, <2>3
  <2>5. one \in Nat
    BY <2>1
  <2> QED
    BY <2>2, <2>4, <2>5
<1>2. t \in [0..(n - 1) -> 0..1]
  OBVIOUS
<1>3. Or(n, a, b) = Sums(n, one, t)[n]
  BY Zenon DEF Or, Number
<1> HIDE DEF one, t
<1>4. t \in [0..(n - 1) -> 0..(2 ^ one - 1)]
  BY <1>1, <1>2
<1>5. \A i \in 0..n : Sums(n, one, t)[i] \in 0..(2 ^ (one * i) - 1)
  BY <1>1, <1>4, SumsBound
<1>6. n \in 0..n
  OBVIOUS
<1>7. Sums(n, one, t)[n] \in 0..(2 ^ (one * n) - 1)
  BY <1>5, <1>6
<1> QED
  BY <1>1, <1>3, <1>7

\* div_rem's loop stays within Rounds.
LEMMA DivRoundTyped ==
  ASSUME NEW st \in Rounds, NEW m \in Nat
  PROVE  DivRound(st, m) \in Rounds
<1> DEFINE b == m \div WordBits
           g == 2 ^ (m % WordBits)
<1>1. st.sub \in Uints /\ st.ret \in Uints /\ st.shifted \in Uints
  BY DEF Rounds
<1>2. OverflowingSub(st.sub, st.shifted).val \in Uints /\ OverflowingShr(st.shifted, 1).val \in Uints
  BY <1>1, SubFacts, HalfFacts
<1>3. SetBit(st.ret, m) \in Uints
  <2>1. \A w : Or(WordBits, w, g) \in Words
    <3>1. WordBits \in Nat
      BY WordFacts
    <3> QED
      BY <3>1, OrRange DEF Words, Word
  <2>2. SetBit(st.ret, m) = [st.ret EXCEPT ![b] = Or(WordBits, st.ret[b], g)]
    BY DEF SetBit
  <2> HIDE DEF b, g
  <2> QED
    BY <2>1, <2>2, <1>1 DEF Uints
<1> QED
  BY <1>1, <1>2, <1>3 DEF DivRound, Rounds

\* div_rem's loop after k of its turns, at a shifted divisor of Y * 2^(top - k).
Divided(X, Y, top, k, st) ==
  /\ st \in Rounds
  /\ Value(st.sub) + Value(st.ret) * Y = X
  /\ Value(st.sub) < Y * 2 ^ (top + 1 - k)
  /\ \E R \in Nat : Value(st.ret) = R * 2 ^ (top + 1 - k)
  /\ k <= top => Value(st.shifted) = Y * 2 ^ (top - k)

LEMMA DividedNext ==
  ASSUME NEW X \in Nat, NEW Y \in Nat \ {0}, NEW top \in 0..(BITS - 1), NEW k \in 0..top,
         NEW st, Divided(X, Y, top, k, st)
  PROVE  Divided(X, Y, top, k + 1, DivRound(st, top - k))
<1> DEFINE m == top - k
           r == DivRound(st, m)
<1>1. /\ m \in 0..(BITS - 1) /\ top + 1 - k = m + 1 /\ top + 1 - (k + 1) = m
      /\ k <= top /\ (k + 1 <= top => m > 0 /\ top - (k + 1) = m - 1)
  BY WordFacts
<1>2. PICK R \in Nat : Value(st.ret) = R * 2 ^ (top + 1 - k)
  BY DEF Divided
<1>3. /\ st \in Rounds
      /\ Value(st.sub) + Value(st.ret) * Y = X
      /\ Value(st.sub) < Y * 2 ^ (m + 1)
      /\ Value(st.ret) = R * 2 ^ (m + 1)
      /\ Value(st.shifted) = Y * 2 ^ m
  BY <1>1, <1>2 DEF Divided
<1> HIDE DEF m
<1>4. /\ r \in Rounds
      /\ Value(r.sub) + Value(r.ret) * Y = Value(st.sub) + Value(st.ret) * Y
      /\ Value(r.sub) < Y * 2 ^ m
      /\ \E Q \in Nat : Value(r.ret) = Q * 2 ^ m
      /\ m > 0 => Value(r.shifted) = Y * 2 ^ (m - 1)
  BY <1>1, <1>3, DivRoundFacts, SMTT(30)
<1> HIDE DEF r
<1>5. Divided(X, Y, top, k + 1, r)
  <2>1. k + 1 <= top => Value(r.shifted) = Y * 2 ^ (top - (k + 1))
    BY <1>1, <1>4
  <2> QED
    BY <2>1, <1>1, <1>3, <1>4 DEF Divided
<1> QED
  BY <1>5 DEF r, m

\* div_rem: the quotient times the divisor and the rest are the dividend.
LEMMA DivRemFacts ==
  ASSUME NEW x \in Uints, NEW y \in Uints, Value(y) > 0
  PROVE  LET d == DivRem(x, y)
         IN  /\ d.quo \in Uints /\ d.rem \in Uints
             /\ Value(x) = Value(d.quo) * Value(y) + Value(d.rem)
             /\ Value(d.rem) < Value(y)
<1> DEFINE d == DivRem(x, y)
           X == Value(x)
           Y == Value(y)
           bx == Bits(x)
           by == Bits(y)
<1>1. X \in Nat /\ Y \in Nat \ {0} /\ BITS \in Nat \ {0} /\ Size \in Nat \ {0} /\ Size = 2 ^ BITS
  BY UintFacts, WordFacts DEF Size
<1>2. /\ bx \in Nat /\ bx <= BITS /\ X < 2 ^ bx
      /\ by \in Nat /\ by > 0 /\ by <= BITS /\ Y < 2 ^ by /\ 2 ^ (by - 1) <= Y
  <2>1. bx \in 0..BITS /\ X < 2 ^ bx
    BY BitsFacts
  <2>2. by \in 0..BITS /\ Y < 2 ^ by /\ by > 0 /\ 2 ^ (by - 1) <= Y
    BY BitsFacts
  <2> QED
    BY <2>1, <2>2, <1>1
<1>3. CASE bx < by
  <2>1. d = [quo |-> ZERO, rem |-> x]
    BY <1>3 DEF DivRem
  <2>2. X < Y
    <3>1. bx <= by - 1 /\ by - 1 \in Nat
      BY <1>2, <1>3
    <3>2. 2 ^ bx <= 2 ^ (by - 1)
      BY <3>1, <1>2, TwoMono
    <3>3. 2 ^ bx \in Nat /\ 2 ^ (by - 1) \in Nat
      BY <3>1, <1>2, TwoPos
    <3> HIDE DEF bx, by, X, Y
    <3> QED
      BY <3>2, <3>3, <1>1, <1>2
  <2> QED
    BY <2>1, <2>2, <1>1, ValueZero
<1>4. CASE ~(bx < by)
  <2> DEFINE top == bx - by
             first == [sub |-> x, ret |-> ZERO, shifted |-> OverflowingShl(y, top).val]
             turn == [k \in 0..top |-> [st \in Rounds |-> DivRound(st, top - k)]]
             at == Repeat(top + 1, first, turn)
  <2>1. d = [quo |-> at[top + 1].ret, rem |-> at[top + 1].sub]
    BY <1>4, Zenon DEF DivRem
  <2>2. /\ top \in Nat /\ top \in 0..(BITS - 1) /\ top + by = bx /\ top + 1 \in Nat
        /\ (by - 1) + (top + 1) = bx /\ by - 1 \in Nat
    BY <1>1, <1>2, <1>4
  <2> HIDE DEF top, d, X, Y, bx, by
  <2> DEFINE p == 2 ^ top
             g == 2 ^ (top + 1)
             b == 2 ^ by
             h == 2 ^ (by - 1)
  <2>3. /\ p \in Nat \ {0} /\ g \in Nat \ {0} /\ b \in Nat \ {0} /\ h \in Nat \ {0}
        /\ 2 ^ bx = p * b /\ 2 ^ bx = h * g /\ 2 ^ bx <= Size
    <3>1. p \in Nat \ {0} /\ g \in Nat \ {0} /\ b \in Nat \ {0} /\ h \in Nat \ {0}
      BY <2>2, <1>2, TwoPos
    <3>2. 2 ^ (top + by) = p * b /\ 2 ^ ((by - 1) + (top + 1)) = h * g
      BY <2>2, <1>2, TwoAdd
    <3>3. 2 ^ bx <= 2 ^ BITS
      BY <1>1, <1>2, TwoMono
    <3> QED
      BY <3>1, <3>2, <3>3, <2>2, <1>1
  <2> HIDE DEF p, g, b, h
  <2>4. Y * p < Size /\ X < Y * g
    <3>1. Y * p < b * p /\ h * g <= Y * g /\ Y * p \in Nat /\ Y * g \in Nat /\ b * p = p * b
      <4>1. Y < b /\ h <= Y
        BY <1>2 DEF b, h
      <4> QED
        BY <4>1, <2>3, <1>1
    <3>2. X < h * g /\ p * b <= Size
      BY <2>3, <1>2
    <3> QED
      BY <3>1, <3>2, <2>3, <1>1
  <2>5. first.shifted \in Uints /\ Value(first.shifted) = Y * p
    <3> DEFINE s == OverflowingShl(y, top).val
    <3>1. top % BITS = top
      BY <2>2, <1>1
    <3>2. s \in Uints /\ \E q \in Nat : Y * p = Value(s) + q * Size
      <4>1. s \in Uints /\ \E q \in Nat : Value(y) * 2 ^ (top % BITS) = Value(s) + q * Size
        BY <2>2, ShlFacts
      <4> QED
        BY <4>1, <3>1 DEF Y, p
    <3>3. PICK q \in Nat : Y * p = Value(s) + q * Size
      BY <3>2
    <3> DEFINE v == Value(s)
               Z == Y * p
    <3>4. v \in Nat /\ Z \in Nat /\ Z = v + q * Size /\ Z < Size
      BY <3>2, <3>3, <2>3, <2>4, <1>1, UintFacts
    <3> HIDE DEF v, Z
    <3>5. q = 0
      <4>1. SUFFICES ASSUME q >= 1 PROVE FALSE
        OBVIOUS
      <4>2. q * Size >= Size /\ q * Size \in Nat
        BY <4>1, <1>1
      <4> QED
        BY <4>2, <3>4, <1>1
    <3>6. v = Z
      BY <3>4, <3>5, <1>1
    <3> QED
      BY <3>2, <3>6 DEF v, Z
  <2>6. Divided(X, Y, top, 0, first)
    <3>1. first \in Rounds
      BY <2>5, ValueZero DEF Rounds
    <3>2. Value(first.sub) = X /\ Value(first.ret) = 0
      BY ValueZero DEF X
    <3> HIDE DEF first
    <3> DEFINE zero == 0
    <3>3. top + 1 - zero = top + 1 /\ top - zero = top /\ zero <= top /\ X + 0 * Y = X
      BY <2>2, <1>1
    <3>4. zero = zero * g /\ zero \in Nat
      BY <2>3
    <3>5. Value(first.sub) + Value(first.ret) * Y = X
      BY <3>2, <3>3
    <3> HIDE DEF zero
    <3>6. Divided(X, Y, top, zero, first)
      <4>1. Value(first.sub) < Y * 2 ^ (top + 1 - zero)
        BY <3>2, <3>3, <2>4 DEF g
      <4>2. \E R \in Nat : Value(first.ret) = R * 2 ^ (top + 1 - zero)
        <5>1. Value(first.ret) = zero
          BY <3>2 DEF zero
        <5> QED
          BY <5>1, <3>3, <3>4 DEF g
      <4>3. Value(first.shifted) = Y * 2 ^ (top - zero)
        BY <2>5, <3>3 DEF p
      <4> QED
        BY <4>1, <4>2, <4>3, <3>1, <3>5 DEF Divided
    <3> QED
      BY <3>6 DEF zero
  <2>7. first \in Rounds
    BY <2>6 DEF Divided
  <2> DEFINE n == top + 1
  <2>8. n \in Nat /\ n - 1 = top /\ n \in 0..n /\ n + top - top = n
    BY <2>2
  <2>9. turn \in [0..(n - 1) -> [Rounds -> Rounds]]
    <3>1. \A k \in 0..top : top - k \in Nat
      BY <2>2
    <3>2. \A k \in 0..top : \A st \in Rounds : DivRound(st, top - k) \in Rounds
      BY <3>1, DivRoundTyped
    <3> QED
      BY <3>2, <2>8
  <2>10. \A k \in 0..top : \A st \in Rounds : turn[k][st] = DivRound(st, top - k)
    OBVIOUS
  <2>11. /\ at \in [0..n -> Rounds] /\ at[0] = first
         /\ \A k \in 0..(n - 1) : at[k + 1] = turn[k][at[k]]
    <3> HIDE DEF first, turn, n
    <3>1. /\ Repeat(n, first, turn) \in [0..n -> Rounds]
          /\ Repeat(n, first, turn)[0] = first
          /\ \A k \in 0..(n - 1) : Repeat(n, first, turn)[k + 1] = turn[k][Repeat(n, first, turn)[k]]
      BY <2>7, <2>8, <2>9, RepeatFacts
    <3> QED
      BY <3>1 DEF n
  <2> HIDE DEF at, first, turn
  <2> DEFINE T == {k \in 0..n : Divided(X, Y, top, k, at[k])}
  <2>12. 0 \in T
    BY <2>6, <2>8, <2>11
  <2>13. ASSUME NEW k \in 0..(n - 1), k \in T PROVE k + 1 \in T
    <3>1. k \in 0..top /\ k + 1 \in 0..n /\ at[k] \in Rounds /\ Divided(X, Y, top, k, at[k])
      BY <2>8, <2>11, <2>13
    <3>2. at[k + 1] = DivRound(at[k], top - k)
      BY <3>1, <2>8, <2>10, <2>11
    <3>3. Divided(X, Y, top, k + 1, DivRound(at[k], top - k))
      BY <3>1, <2>2, <1>1, DividedNext
    <3> QED
      BY <3>1, <3>2, <3>3
  <2>14. Divided(X, Y, top, n, at[n])
    <3> HIDE DEF T, n
    <3>1. \A k \in 0..n : k \in T
      BY <2>8, <2>12, <2>13, UpTo
    <3>2. n \in T
      BY <3>1, <2>8
    <3> QED
      BY <3>2 DEF T
  <2>15. /\ d.quo \in Uints /\ d.rem \in Uints /\ Value(d.rem) + Value(d.quo) * Y = X
         /\ Value(d.rem) < Y * 2 ^ (top + 1 - n)
    <3>1. d.quo = at[n].ret /\ d.rem = at[n].sub
      BY <2>1
    <3> HIDE DEF n
    <3> QED
      BY <3>1, <2>14 DEF Divided, Rounds
  <2>16. Value(d.rem) < Y
    <3> DEFINE zero == 0
    <3>1. top + 1 - n = zero
      BY <2>8
    <3>2. 2 ^ zero = 1
      BY TwoZero
    <3> HIDE DEF zero, n
    <3>3. Value(d.rem) < Y * 1
      BY <3>1, <3>2, <2>15
    <3> QED
      BY <3>3, <1>1
  <2> DEFINE r == Value(d.rem)
             q == Value(d.quo)
  <2>17. r \in Nat /\ q \in Nat /\ r + q * Y = X
    BY <2>15, UintFacts, WordFacts
  <2> HIDE DEF r, q
  <2>18. X = q * Y + r
    BY <2>17, <1>1
  <2> QED
    BY <2>15, <2>16, <2>18 DEF q, r, X, Y, d
<1> QED
  BY <1>3, <1>4

LEMMA OneFacts == FromU64(1) \in Uints /\ Value(FromU64(1)) = 1
<1> DEFINE zero == 0
           one == 1
<1>1. /\ WordBits \in Nat \ {0} /\ Limbs \in Nat \ {0} /\ Index = 0..(Limbs - 1)
      /\ WordBits - 1 \in Nat /\ (WordBits - 1) + 1 = WordBits /\ Word = 2 ^ WordBits
  BY WordFacts DEF Index
<1>2. one \in Words
  <2> DEFINE h == 2 ^ (WordBits - 1)
  <2>1. h \in Nat \ {0} /\ 2 ^ ((WordBits - 1) + 1) = 2 * h
    BY <1>1, TwoPos, TwoNext
  <2> HIDE DEF h
  <2>2. Word = 2 * h
    BY <2>1, <1>1
  <2> QED
    BY <2>1, <2>2 DEF Words
<1>3. zero \in Index /\ WordBits * zero = zero /\ one * 1 = one /\ 2 ^ zero = 1
  BY <1>1, TwoZero
<1>4. FromU64(one) = [ZERO EXCEPT ![zero] = one]
  BY DEF FromU64
<1> HIDE DEF zero, one
<1>5. FromU64(one) \in Uints /\ Value(FromU64(one)) = one * 2 ^ (WordBits * zero)
  BY <1>2, <1>3, <1>4, Single
<1>6. Value(FromU64(one)) = one
  BY <1>3, <1>5
<1> QED
  BY <1>5, <1>6 DEF one

\* The lowest digits of a longer number.
Begins(k, t, u) == \A i \in 0..(k - 1) : t[i] = u[i]

LEMMA PrefixSame ==
  ASSUME NEW n \in Nat, NEW k \in 0..n, NEW bits \in Nat, NEW t \in Digits(n),
         NEW u \in Digits(k), Begins(k, t, u)
  PROVE  Sums(n, bits, t)[k] = Number(k, bits, u)
<1> DEFINE s == Sums(n, bits, t)
           r == Sums(k, bits, u)
<1>1. k \in Nat /\ k <= n
  OBVIOUS
<1>2. /\ s \in [0..n -> Nat] /\ s[0] = 0
      /\ \A i \in 0..(n - 1) : s[i + 1] = s[i] + t[i] * 2 ^ (bits * i)
  BY SumsFacts
<1>3. /\ r \in [0..k -> Nat] /\ r[0] = 0 /\ Number(k, bits, u) = r[k]
      /\ \A i \in 0..(k - 1) : r[i + 1] = r[i] + u[i] * 2 ^ (bits * i)
  BY <1>1, SumsFacts, ZenonT(30)
<1> HIDE DEF s, r
<1> DEFINE S == {i \in 0..k : s[i] = r[i]}
<1>4. 0 \in S
  BY <1>1, <1>2, <1>3
<1>5. ASSUME NEW i \in 0..(k - 1), i \in S PROVE i + 1 \in S
  <2>1. i \in 0..(n - 1) /\ i + 1 \in 0..k /\ t[i] = u[i] /\ s[i] = r[i]
    BY <1>1, <1>5 DEF Begins
  <2> DEFINE a == t[i] * 2 ^ (bits * i)
  <2>2. s[i + 1] = s[i] + a /\ r[i + 1] = r[i] + a
    BY <2>1, <1>2, <1>3
  <2> HIDE DEF a
  <2> QED
    BY <2>1, <2>2
<1>6. k \in S
  <2> HIDE DEF S
  <2>1. \A i \in 0..k : i \in S
    BY <1>1, <1>4, <1>5, UpTo
  <2> QED
    BY <2>1, <1>1
<1> QED
  BY <1>3, <1>6 DEF s

\* All bits set.
LEMMA MaxFacts == MAX \in Uints /\ Value(MAX) = Size - 1
<1> DEFINE s == Sums(Limbs, WordBits, MAX)
<1>1. /\ WordBits \in Nat /\ Limbs \in Nat /\ Word \in Nat \ {0} /\ Word = 2 ^ WordBits
      /\ Size \in Nat \ {0} /\ Size = 2 ^ (WordBits * Limbs) /\ Index = 0..(Limbs - 1)
  BY WordFacts DEF Index
<1>2. MAX \in Uints /\ \A i \in Index : MAX[i] = Word - 1
  BY <1>1 DEF MAX, Uints, Words
<1> HIDE DEF s
<1>3. MAX \in Digits(Limbs)
  BY <1>2, UintFacts
<1>4. /\ s \in [0..Limbs -> Nat] /\ s[0] = 0
      /\ \A i \in 0..(Limbs - 1) : s[i + 1] = s[i] + MAX[i] * 2 ^ (WordBits * i)
      /\ Number(Limbs, WordBits, MAX) = s[Limbs]
  <2>1. /\ Sums(Limbs, WordBits, MAX) \in [0..Limbs -> Nat] /\ Sums(Limbs, WordBits, MAX)[0] = 0
        /\ \A i \in 0..(Limbs - 1) : Sums(Limbs, WordBits, MAX)[i + 1]
             = Sums(Limbs, WordBits, MAX)[i] + MAX[i] * 2 ^ (WordBits * i)
        /\ Number(Limbs, WordBits, MAX) = Sums(Limbs, WordBits, MAX)[Limbs]
    <3>1. \A t \in Digits(Limbs) :
             /\ Sums(Limbs, WordBits, t) \in [0..Limbs -> Nat] /\ Sums(Limbs, WordBits, t)[0] = 0
             /\ \A i \in 0..(Limbs - 1) : Sums(Limbs, WordBits, t)[i + 1]
                  = Sums(Limbs, WordBits, t)[i] + t[i] * 2 ^ (WordBits * i)
             /\ Number(Limbs, WordBits, t) = Sums(Limbs, WordBits, t)[Limbs]
      <4>1. WordBits \in Nat /\ Limbs \in Nat
        BY <1>1
      <4> QED
        BY <4>1, SumsFacts, Zenon
    <3> QED
      BY <3>1, <1>3, Zenon
  <2> QED
    BY <2>1, Zenon DEF s
<1> DEFINE S == {i \in 0..Limbs : s[i] = 2 ^ (WordBits * i) - 1}
<1>5. 0 \in S
  <2> DEFINE zero == 0
  <2>1. WordBits * 0 = zero /\ 2 ^ zero = 1
    BY <1>1, TwoZero
  <2> HIDE DEF zero
  <2>2. 2 ^ (WordBits * 0) = 1
    BY <2>1
  <2> QED
    BY <2>2, <1>1, <1>4
<1>6. ASSUME NEW i \in 0..(Limbs - 1), i \in S PROVE i + 1 \in S
  <2> DEFINE p == 2 ^ (WordBits * i)
  <2>1. p \in Nat \ {0} /\ 2 ^ (WordBits * (i + 1)) = Word * p
    BY <1>1, Place
  <2>2. s[i] = p - 1 /\ s[i + 1] = s[i] + (Word - 1) * p /\ i + 1 \in 0..Limbs
    BY <1>1, <1>2, <1>4, <1>6
  <2> HIDE DEF p
  <2>3. (p - 1) + (Word - 1) * p = Word * p - 1
    BY <2>1, <1>1
  <2> QED
    BY <2>1, <2>2, <2>3
<1>7. Limbs \in S
  <2> HIDE DEF S
  <2>1. \A i \in 0..Limbs : i \in S
    BY <1>1, <1>5, <1>6, UpTo
  <2> QED
    BY <2>1, <1>1
<1> QED
  BY <1>1, <1>2, <1>4, <1>7 DEF Value

-----------------------------------------------------------------------------
(* Compact targets *)

\* A mantissa is more than its sign's byte, and a word has room for the u32.
CompactSizes ==
  MantBytes \in Nat /\ MantBytes >= 2 /\ ByteBits * (MantBytes + 1) <= WordBits

LEMMA RoomFacts ==
  /\ \A k \in Nat : Room(k) \in Nat \ {0} /\ Room(k) = 2 ^ (ByteBits * k)
  /\ \A j, k \in Nat : Room(j + k) = Room(j) * Room(k)
  /\ \A j, k \in Nat : j <= k => Room(j) <= Room(k)
  /\ Room(0) = 1 /\ Room(1) >= 2
<1>1. ByteBits \in Nat \ {0} /\ ByteBits \in Nat
  BY ByteFacts
<1>2. ASSUME NEW k \in Nat PROVE Room(k) \in Nat \ {0} /\ Room(k) = 2 ^ (ByteBits * k)
  BY <1>1, Place DEF Room
<1>3. ASSUME NEW j \in Nat, NEW k \in Nat PROVE Room(j + k) = Room(j) * Room(k)
  <2> DEFINE m == ByteBits * j
             n == ByteBits * k
  <2>1. m \in Nat /\ n \in Nat /\ ByteBits * (j + k) = m + n
    BY <1>1
  <2>2. Room(j + k) = 2 ^ (m + n) /\ Room(j) = 2 ^ m /\ Room(k) = 2 ^ n
    BY <2>1 DEF Room
  <2> HIDE DEF m, n
  <2> QED
    BY <2>1, <2>2, TwoAdd
<1>4. ASSUME NEW j \in Nat, NEW k \in Nat, j <= k PROVE Room(j) <= Room(k)
  <2> DEFINE d == k - j
  <2>1. d \in Nat /\ k = j + d
    BY <1>4
  <2> HIDE DEF d
  <2>2. Room(k) = Room(j) * Room(d) /\ Room(j) \in Nat \ {0} /\ Room(d) \in Nat \ {0}
    BY <2>1, <1>2, <1>3
  <2> QED
    BY <2>2
<1>5. Room(0) = 1
  <2> DEFINE zero == 0
  <2>1. ByteBits * zero = zero /\ 2 ^ zero = 1
    BY <1>1, TwoZero
  <2> HIDE DEF zero
  <2>2. Room(zero) = 1
    BY <2>1 DEF Room
  <2> QED
    BY <2>2 DEF zero
<1>6. Room(1) >= 2
  <2> DEFINE one == 1
             h == ByteBits - 1
  <2>1. ByteBits * one = h + 1 /\ h \in Nat
    BY <1>1
  <2> HIDE DEF one, h
  <2>2. Room(one) = 2 * 2 ^ h /\ 2 ^ h \in Nat \ {0}
    BY <2>1, TwoNext, TwoPos DEF Room
  <2>3. Room(one) >= 2
    BY <2>2
  <2> QED
    BY <2>3 DEF one
<1> QED
  BY <1>2, <1>3, <1>4, <1>5, <1>6

\* The sign's bit of a mantissa, a multiple of a byte's room.
LEMMA HalfRoom ==
  ASSUME CompactSizes
  PROVE  \E g \in Nat : /\ Room(MantBytes) = 2 * (g * Room(1))
                        /\ Room(MantBytes) \div 2 = g * Room(1)
<1> DEFINE h == ByteBits * (MantBytes - 1) - 1
           g == 2 ^ h
           one == 1
           p == Room(1)
<1>1. ByteBits \in Nat \ {0} /\ MantBytes \in Nat /\ MantBytes - 1 \in Nat /\ MantBytes - 1 >= 1
  BY ByteFacts DEF CompactSizes
<1>2. h \in Nat /\ h + 1 = ByteBits * (MantBytes - 1) /\ (MantBytes - 1) + 1 = MantBytes
  <2> DEFINE m == MantBytes - 1
             n == ByteBits * m
  <2>1. m \in Nat /\ m >= 1 /\ ByteBits >= 1 /\ ByteBits \in Nat
    BY <1>1
  <2>2. n \in Nat /\ n >= 1
    <3> HIDE DEF m
    <3>1. ByteBits * m >= m /\ ByteBits * m \in Nat
      BY <2>1
    <3> QED
      BY <3>1, <2>1
  <2>3. n - 1 \in Nat /\ (n - 1) + 1 = n
    <3> HIDE DEF n
    <3> QED
      BY <2>2
  <2> QED
    BY <2>3, <1>1
<1> HIDE DEF h
<1>3. Room(MantBytes - 1) = 2 * g /\ g \in Nat
  BY <1>2, TwoNext, TwoPos DEF Room
<1>4. Room(MantBytes) = Room(MantBytes - 1) * p /\ p \in Nat
  <2>1. one \in Nat
    OBVIOUS
  <2>2. Room((MantBytes - 1) + 1) = Room(MantBytes - 1) * Room(1) /\ Room(1) \in Nat
    BY <1>1, RoomFacts
  <2> QED
    BY <2>2, <1>2
<1> HIDE DEF g, p
<1>5. Room(MantBytes) = 2 * (g * p) /\ g * p \in Nat
  BY <1>3, <1>4
<1> DEFINE w == g * p
<1>6. Room(MantBytes) = 2 * w /\ w \in Nat
  BY <1>5
<1> HIDE DEF w
<1>7. Room(MantBytes) \div 2 = w
  BY <1>6
<1> QED
  BY <1>3, <1>6, <1>7 DEF w, p

\* The greatest multiple of a room that is not above X, and what is just below it.
LEMMA FloorGreatest ==
  ASSUME CompactSizes, NEW X \in Nat, NEW k \in Nat, k > 0,
         (Room(MantBytes) \div 2) * Room(k - 1) <= X
  PROVE  LET back == (X \div Room(k)) * Room(k)
         IN  /\ back \in Nat /\ back <= X
             /\ \A mant \in 0..((Room(MantBytes) \div 2) - 1), e \in Nat :
                  ~(back < mant * Room(e) /\ mant * Room(e) <= X)
<1> DEFINE half == Room(MantBytes) \div 2
           p == Room(k)
           q == X \div p
           back == q * p
<1>1. PICK g \in Nat : half = g * Room(1)
  BY HalfRoom
<1>2. p \in Nat \ {0}
  BY RoomFacts
<1>3. q \in Nat /\ back <= X /\ X < back + p /\ back \in Nat
  <2> DEFINE r == X % p
  <2>1. q \in Nat /\ r \in 0..(p - 1) /\ X = q * p + r
    BY <1>2, DivNat
  <2> HIDE DEF q, r, p
  <2>2. q * p \in Nat
    BY <2>1, <1>2
  <2> QED
    BY <2>1, <2>2, <1>2
<1>4. \A m \in Nat : m * p <= X => m * p <= back
  <2> HIDE DEF p, q
  <2> SUFFICES ASSUME NEW m \in Nat, m * p <= X, ~(m * p <= back) PROVE FALSE
    OBVIOUS
  <2>1. q < m
    <3>1. SUFFICES ASSUME m <= q PROVE FALSE
      BY <1>3
    <3>2. m * p <= q * p
      BY <3>1, <1>2, <1>3
    <3> QED
      BY <3>2
  <2>2. q * p + p <= m * p
    BY <2>1, <1>2, <1>3, PrefixBound
  <2>3. m * p \in Nat
    BY <1>2
  <2> QED
    BY <2>2, <2>3, <1>2, <1>3
<1>5. half \in Nat /\ half * Room(k - 1) <= back
  <2> DEFINE j == k - 1
             u == Room(j)
             v == Room(1)
  <2>1. j \in Nat /\ j + 1 = k
    OBVIOUS
  <2>2. p = u * v /\ u \in Nat /\ v \in Nat
    <3> HIDE DEF j
    <3>1. Room(j + 1) = Room(j) * Room(1) /\ Room(j) \in Nat /\ Room(1) \in Nat
      BY <2>1, RoomFacts
    <3> QED
      BY <3>1, <2>1
  <2>3. half = g * v /\ half * u <= X
    BY <1>1
  <2> HIDE DEF half, p, u, v, back, q
  <2>4. half * u = g * p
    BY <2>2, <2>3
  <2>5. g * p <= back
    BY <2>3, <2>4, <1>4
  <2> QED
    BY <2>2, <2>3, <2>4, <2>5 DEF u
<1>6. ASSUME NEW mant \in 0..(half - 1), NEW e \in Nat,
             back < mant * Room(e), mant * Room(e) <= X
      PROVE  FALSE
  <2>1. mant \in Nat /\ mant < half
    BY <1>5
  <2>2. CASE e >= k
    <3> DEFINE d == e - k
               m == mant * Room(d)
    <3>1. d \in Nat /\ e = d + k
      BY <2>2
    <3> HIDE DEF d
    <3>2. Room(e) = Room(d) * p /\ Room(d) \in Nat
      BY <3>1, RoomFacts
    <3> HIDE DEF p, back
    <3>3. mant * Room(e) = m * p /\ m \in Nat
      BY <3>2, <2>1, <1>2
    <3> HIDE DEF m
    <3>4. m * p <= back
      BY <3>3, <1>4, <1>6
    <3>5. m * p \in Nat
      BY <3>3, <1>2
    <3> QED
      BY <3>3, <3>4, <3>5, <1>3, <1>6
  <2>3. CASE e < k
    <3> DEFINE j == k - 1
               u == Room(j)
               w == Room(e)
    <3>1. j \in Nat /\ e <= j
      BY <2>3
    <3> HIDE DEF j
    <3>2. w <= u /\ w \in Nat /\ u \in Nat \ {0}
      BY <3>1, RoomFacts
    <3>3. half * u <= back /\ back < mant * w
      BY <1>5, <1>6 DEF j
    <3> HIDE DEF w, u, half, back
    <3>4. mant * w <= mant * u /\ mant * u < half * u /\ mant * w \in Nat /\ mant * u \in Nat
          /\ half * u \in Nat
      BY <3>2, <2>1, <1>5
    <3> QED
      BY <3>3, <3>4, <1>3
  <2> QED
    BY <2>2, <2>3
<1> QED
  BY <1>3, <1>6

\* The lowest word of a number that has room in one.
LEMMA LowWord ==
  ASSUME NEW x \in Uints, Value(x) < Word
  PROVE  AsU64(x) = Value(x)
<1>1. Value(x) \in Words
  BY UintFacts, WordFacts DEF Words
<1>2. EqU64(x, Value(x)) = (Value(x) = Value(x))
  BY <1>1, WordOrder
<1> QED
  BY <1>2 DEF EqU64, AsU64

\* from_u64 and <<, of a number that keeps all its bits.
LEMMA WordShifted ==
  ASSUME NEW w \in Words, NEW s \in 0..(BITS - 1), w * 2 ^ s < Size
  PROVE  Value(OverflowingShl(FromU64(w), s).val) = w * 2 ^ s
<1> DEFINE zero == 0
           f == FromU64(w)
           r == OverflowingShl(f, s).val
           n == w * 2 ^ s
           v == Value(r)
<1>1. /\ BITS \in Nat \ {0} /\ Size \in Nat \ {0} /\ WordBits \in Nat /\ w \in Nat /\ s \in Nat
      /\ Limbs \in Nat \ {0} /\ Index = 0..(Limbs - 1)
  BY WordFacts DEF Words, Index
<1>2. f \in Uints /\ Value(f) = w
  <2>1. zero \in Index /\ WordBits * zero = zero /\ 2 ^ zero = 1 /\ f = [ZERO EXCEPT ![zero] = w]
    BY <1>1, TwoZero DEF FromU64
  <2> HIDE DEF zero, f
  <2>2. f \in Uints /\ Value(f) = w * 2 ^ (WordBits * zero)
    BY <2>1, Single
  <2> QED
    BY <2>1, <2>2, <1>1
<1> HIDE DEF f
<1>3. s % BITS = s
  BY <1>1
<1>4. r \in Uints /\ \E q \in Nat : Value(f) * 2 ^ (s % BITS) = v + q * Size
  BY <1>1, <1>2, ShlFacts
<1>5. PICK q \in Nat : n = v + q * Size
  BY <1>2, <1>3, <1>4
<1>6. v \in Nat /\ n \in Nat /\ n < Size
  BY <1>1, <1>4, UintFacts, TwoPos
<1> HIDE DEF n, v, r
<1>7. q = 0
  <2>1. SUFFICES ASSUME q >= 1 PROVE FALSE
    OBVIOUS
  <2>2. q * Size >= Size /\ q * Size \in Nat
    BY <2>1, <1>1
  <2> QED
    BY <2>2, <1>1, <1>5, <1>6
<1>8. v = n
  BY <1>1, <1>5, <1>6, <1>7
<1> QED
  BY <1>8 DEF v, n, r, f

\* What a compact target of exponent E and mantissa m says of X: all of it, or all but
\* the lowest bytes.
Packed(X, E, m) ==
  /\ 2 * m < Room(MantBytes)
  /\ E <= MantBytes => m = X * Room(MantBytes - E)
  /\ E > MantBytes => /\ m = X \div Room(E - MantBytes)
                      /\ (Room(MantBytes) \div 2) * Room(E - MantBytes - 1) <= X
                      /\ ByteBits * (E - MantBytes) < BITS

LEMMA UnpackedFacts ==
  ASSUME CompactSizes, NEW X \in 0..(Size - 1), NEW E \in Nat,
         NEW m \in Nat, Packed(X, E, m), NEW c, c = E * Room(MantBytes) + m
  PROVE  Value(FromCompact(c)) = IF E <= MantBytes THEN X
                                 ELSE (X \div Room(E - MantBytes)) * Room(E - MantBytes)
<1> DEFINE p == Room(MantBytes)
           M == MantBytes
<1>1. /\ MantBytes \in Nat /\ MantBytes >= 2 /\ ByteBits \in Nat \ {0} /\ p \in Nat \ {0}
      /\ Size \in Nat \ {0} /\ BITS \in Nat \ {0} /\ X \in Nat /\ Word \in Nat \ {0}
  BY RoomFacts, WordFacts, ByteFacts DEF CompactSizes
<1>2. p <= Word
  <2> DEFINE n == ByteBits * MantBytes
  <2>1. n \in Nat /\ WordBits \in Nat /\ n <= WordBits
    <3>1. n \in Nat /\ WordBits \in Nat
      BY <1>1, WordFacts
    <3>2. ByteBits * (MantBytes + 1) = n + ByteBits
      BY <1>1
    <3> HIDE DEF n
    <3> QED
      BY <3>1, <3>2, <1>1 DEF CompactSizes
  <2> HIDE DEF n
  <2>2. 2 ^ n <= 2 ^ WordBits
    BY <2>1, TwoMono
  <2> QED
    BY <2>2, WordFacts DEF n, Room
<1>3. Mant(c) = m /\ Expt(c) = E
  <2>1. m \in 0..(p - 1) /\ E \in Int /\ c = E * p + m /\ c \in Int
    <3>1. 2 * m < p
      BY DEF Packed
    <3>2. E * p \in Nat
      BY <1>1
    <3> QED
      BY <3>1, <3>2, <1>1
  <2> HIDE DEF p
  <2>2. c \div p = E /\ c % p = m
    BY <2>1, <1>1, DivMod
  <2> QED
    BY <2>2 DEF Mant, Expt, p
<1>4. CASE E <= M
  <2> DEFINE j == MantBytes - E
             n == ByteBits * j
             t == Room(j)
             zero == 0
  <2>1. j \in Nat /\ n \in Nat /\ t \in Nat \ {0} /\ t = 2 ^ n
    <3>1. j \in Nat
      BY <1>1, <1>4
    <3> HIDE DEF j
    <3>2. ByteBits * j \in Nat
      BY <3>1, <1>1
    <3>3. Room(j) \in Nat \ {0} /\ Room(j) = 2 ^ (ByteBits * j)
      BY <3>1, RoomFacts
    <3> QED
      BY <3>1, <3>2, <3>3, Zenon
  <2>2. m = X * t /\ 2 * m < p
    BY <1>4 DEF Packed
  <2> HIDE DEF t, n, p
  <2>3. X <= m
    BY <2>1, <2>2, <1>1
  <2>4. Rsh(m, n) = X
    <3>1. m \in Int /\ X \in Int /\ zero \in 0..(t - 1) /\ m = X * t + zero /\ t \in Nat \ {0}
      BY <2>1, <2>2, <1>1
    <3> HIDE DEF zero
    <3>2. m \div t = X
      BY <3>1, DivMod
    <3> QED
      BY <3>2, <2>1 DEF Rsh
  <2>5. FromCompact(c) = OverflowingShl(FromU64(X), zero).val
    <3>1. ~(2 * X >= p)
      BY <2>2, <2>3, <1>1
    <3> HIDE DEF j
    <3>2. Rsh(Mant(c), ByteBits * (MantBytes - Expt(c))) = X
      BY <2>4, <1>3 DEF n, j
    <3> QED
      BY <3>1, <3>2, <1>3, <1>4, Zenon DEF FromCompact, p
  <2>6. X \in Words /\ zero \in 0..(BITS - 1) /\ 2 ^ zero = 1 /\ X * 1 = X /\ X < Size
    <3>1. X < Word
      BY <2>2, <2>3, <1>1, <1>2
    <3> QED
      BY <3>1, <1>1, TwoZero DEF Words
  <2> HIDE DEF zero
  <2>7. Value(FromCompact(c)) = X * 2 ^ zero
    <3>1. X * 2 ^ zero < Size
      BY <2>6
    <3> QED
      BY <3>1, <2>5, <2>6, WordShifted
  <2> QED
    BY <2>6, <2>7, <1>4
<1>5. CASE E > M
  <2> DEFINE j == E - MantBytes
             n == ByteBits * j
             t == Room(j)
  <2>1. j \in Nat /\ n \in Nat /\ t \in Nat \ {0} /\ t = 2 ^ n
    <3>1. j \in Nat
      BY <1>1, <1>5
    <3> HIDE DEF j
    <3>2. ByteBits * j \in Nat
      BY <3>1, <1>1
    <3>3. Room(j) \in Nat \ {0} /\ Room(j) = 2 ^ (ByteBits * j)
      BY <3>1, RoomFacts
    <3> QED
      BY <3>1, <3>2, <3>3, Zenon
  <2>2. m = X \div t /\ 2 * m < p /\ n < BITS
    BY <1>5 DEF Packed
  <2>3. FromCompact(c) = OverflowingShl(FromU64(m), n).val
    <3>1. ~(2 * m >= p) /\ ~(E <= MantBytes)
      BY <2>2, <1>1, <1>5
    <3> QED
      BY <3>1, <1>3, Zenon DEF FromCompact, p, n, j
  <2> HIDE DEF t, n, p, j
  <2>4. m \in Words /\ n \in 0..(BITS - 1) /\ m * t <= X /\ m * t \in Nat
    <3>1. m < Word
      BY <2>2, <1>1, <1>2
    <3>2. X = (X \div t) * t + (X % t) /\ X % t \in 0..(t - 1)
      BY <1>1, <2>1, DivNat
    <3> DEFINE r == X % t
    <3>3. X = m * t + r /\ r \in Nat
      BY <3>2, <2>1, <2>2
    <3> HIDE DEF r
    <3>4. m * t \in Nat
      BY <2>1
    <3> QED
      BY <3>1, <3>3, <3>4, <2>1, <2>2, <1>1 DEF Words
  <2>5. m * t < Size
    BY <2>4, <1>1
  <2>6. Value(FromCompact(c)) = m * 2 ^ n
    <3>1. m * 2 ^ n < Size
      BY <2>1, <2>5
    <3> QED
      BY <3>1, <2>3, <2>4, WordShifted
  <2> QED
    BY <2>1, <2>2, <2>6, <1>1, <1>5 DEF t, j
<1> QED
  BY <1>1, <1>4, <1>5

LEMMA TwoAbove ==
  ASSUME NEW n \in Nat, n >= 2
  PROVE  n + 2 <= 2 ^ n
<1> DEFINE m == n - 1
           S == {i \in 0..m : i + 1 <= 2 ^ i}
<1>1. m \in Nat /\ m + 1 = n /\ m >= 1
  OBVIOUS
<1> HIDE DEF m
<1>2. 0 \in S
  BY <1>1, TwoZero
<1>3. ASSUME NEW i \in 0..(m - 1), i \in S PROVE i + 1 \in S
  BY <1>1, <1>3, TwoNext
<1>4. m \in S
  <2> HIDE DEF S
  <2> QED
    BY <1>1, <1>2, <1>3, UpTo
<1>5. 2 ^ (m + 1) = 2 * 2 ^ m /\ 2 ^ m \in Nat
  BY <1>1, TwoNext
<1> QED
  BY <1>1, <1>4, <1>5

\* The bytes that a number takes.
Bytes(x) == (Bits(x) + ByteBits - 1) \div ByteBits

LEMMA BytesTaken ==
  ASSUME CompactSizes, NEW x \in Uints
  PROVE  /\ Bytes(x) \in Nat /\ Value(x) < Room(Bytes(x))
         /\ Bytes(x) > 0 => Room(Bytes(x) - 1) <= Value(x)
         /\ Bytes(x) + 1 < Size
         /\ ByteBits * Bytes(x) <= BITS + ByteBits - 1
<1> DEFINE b == ByteBits
           L == Bits(x)
           X == Value(x)
           s == Bytes(x)
           r == (L + b - 1) % b
           n == L + b - 1
<1>1. b \in Nat \ {0} /\ BITS \in Nat \ {0} /\ Size = 2 ^ BITS
  BY ByteFacts, WordFacts DEF Size
<1>2. L \in Nat /\ L <= BITS /\ X < 2 ^ L /\ X \in Nat
      /\ (X > 0 => L > 0 /\ 2 ^ (L - 1) <= X)
  <2>1. L \in 0..BITS /\ X < 2 ^ L /\ (X > 0 => L > 0 /\ 2 ^ (L - 1) <= X)
    BY BitsFacts
  <2> QED
    BY <2>1, <1>1, UintFacts, WordFacts
<1>3. X = 0 => L = 0
  <2>1. SUFFICES ASSUME X = 0 PROVE L = 0
    OBVIOUS
  <2>2. x = ZERO
    BY <2>1, ValueZero, LessIff
  <2>3. IsZero(x)
    BY <2>2, ValueZero DEF IsZero, ZERO
  <2> QED
    BY <2>3 DEF Bits
<1>4. s \in Nat /\ r \in 0..(b - 1) /\ L + b - 1 = s * b + r
  <2>1. n \in Nat
    BY <1>1, <1>2
  <2> HIDE DEF L
  <2>2. n \div b \in Nat /\ n % b \in 0..(b - 1) /\ n = (n \div b) * b + (n % b)
    BY <2>1, <1>1, DivNat
  <2> QED
    BY <2>2 DEF Bytes, L
<1> HIDE DEF b, L, X, s, r
<1> DEFINE m == b * s
<1>5. m \in Nat /\ L <= m /\ m <= L + b - 1
  <2>1. s * b = m /\ m \in Nat
    BY <1>1, <1>4
  <2> HIDE DEF m
  <2> QED
    BY <2>1, <1>1, <1>2, <1>4
<1>6. X < Room(s)
  <2> HIDE DEF m
  <2>1. 2 ^ L <= 2 ^ m /\ 2 ^ L \in Nat /\ 2 ^ m \in Nat
    BY <1>2, <1>5, TwoMono, TwoPos
  <2>2. Room(s) = 2 ^ m
    BY DEF Room, m, b
  <2> QED
    BY <2>1, <2>2, <1>2
<1>7. ASSUME s > 0 PROVE /\ L > 0 /\ b * (s - 1) <= L - 1 /\ b * (s - 1) \in Nat
                         /\ Room(s - 1) <= X
  <2> DEFINE j == s - 1
             k == b * j
  <2>1. j \in Nat /\ b * s = b * j + b
    BY <1>1, <1>4, <1>7
  <2>2. k \in Nat /\ m = k + b
    BY <2>1, <1>1
  <2> HIDE DEF k, m
  <2>3. k <= L - 1 /\ L > 0 /\ L - 1 \in Nat
    BY <2>2, <1>1, <1>2, <1>5
  <2>4. 2 ^ k <= 2 ^ (L - 1) /\ 2 ^ (L - 1) <= X /\ 2 ^ k \in Nat /\ 2 ^ (L - 1) \in Nat
    <3>1. X > 0
      BY <2>3, <1>2, <1>3
    <3> QED
      BY <3>1, <2>2, <2>3, <1>2, TwoMono, TwoPos
  <2>5. Room(j) = 2 ^ k
    BY DEF Room, k, b
  <2>6. Room(j) <= X
    BY <2>4, <2>5, <1>2
  <2> QED
    BY <2>2, <2>3, <2>6 DEF k
<1>8. s <= BITS
  <2>1. SUFFICES ASSUME s > 0 PROVE s <= BITS
    BY <1>1, <1>4
  <2>2. b * (s - 1) >= s - 1
    <3> DEFINE j == s - 1
    <3>1. j \in Nat
      BY <2>1, <1>4
    <3> HIDE DEF j
    <3>2. b * j >= j
      BY <3>1, <1>1
    <3> QED
      BY <3>2 DEF j
  <2> QED
    BY <2>1, <2>2, <1>2, <1>4, <1>7, <1>1
<1>9. BITS >= 2
  <2>1. ByteBits * (MantBytes + 1) >= 2
    <3> DEFINE j == MantBytes + 1
    <3>1. j \in Nat /\ j >= 2 /\ ByteBits >= 1 /\ ByteBits \in Nat
      BY <1>1 DEF CompactSizes, b
    <3> HIDE DEF j
    <3>2. ByteBits * j >= j
      BY <3>1
    <3> QED
      BY <3>1, <3>2 DEF j
  <2>2. WordBits <= BITS
    <3>1. WordBits \in Nat /\ Limbs \in Nat \ {0} /\ BITS = WordBits * Limbs
      BY WordFacts
    <3> QED
      BY <3>1
  <2>3. ByteBits * (MantBytes + 1) <= WordBits
    BY DEF CompactSizes
  <2> QED
    BY <2>1, <2>2, <2>3, <1>1, WordFacts, ByteFacts DEF CompactSizes
<1>10. s + 1 < Size
  BY <1>1, <1>4, <1>8, <1>9, TwoAbove, WordFacts
<1>11. b * s <= BITS + b - 1
  <2> HIDE DEF m
  <2>1. m <= BITS + b - 1
    BY <1>1, <1>2, <1>5
  <2> QED
    BY <2>1 DEF m
<1> QED
  BY <1>4, <1>6, <1>7, <1>10, <1>11 DEF b, s, X

\* The bytes that compact_target_bits cuts out of a number.
CutOut(x) ==
  IF Bytes(x) <= MantBytes THEN Lsh(AsU64(x), ByteBits * (MantBytes - Bytes(x)))
  ELSE AsU64(OverflowingShr(x, ByteBits * (Bytes(x) - MantBytes)).val)

LEMMA MantissaRoom ==
  ASSUME CompactSizes
  PROVE  Room(MantBytes) \in Nat /\ Room(MantBytes) <= Room(MantBytes + 1)
         /\ Room(MantBytes + 1) \in Nat /\ Room(MantBytes + 1) <= Word
<1> DEFINE n == ByteBits * (MantBytes + 1)
<1>1. MantBytes \in Nat /\ MantBytes + 1 \in Nat /\ MantBytes <= MantBytes + 1
  BY DEF CompactSizes
<1>2. n \in Nat /\ WordBits \in Nat /\ n <= WordBits
  BY <1>1, ByteFacts, WordFacts DEF CompactSizes
<1> HIDE DEF n
<1>3. 2 ^ n <= Word
  BY <1>2, TwoMono, WordFacts
<1>4. Room(MantBytes) <= Room(MantBytes + 1) /\ Room(MantBytes) \in Nat /\ Room(MantBytes + 1) \in Nat
  BY <1>1, RoomFacts
<1> QED
  BY <1>3, <1>4 DEF Room, n

LEMMA MantissaFacts ==
  ASSUME CompactSizes, NEW x \in Uints
  PROVE  /\ CutOut(x) \in 0..(Room(MantBytes) - 1)
         /\ Bytes(x) <= MantBytes => CutOut(x) = Value(x) * Room(MantBytes - Bytes(x))
         /\ Bytes(x) >= MantBytes => CutOut(x) = Value(x) \div Room(Bytes(x) - MantBytes)
<1> DEFINE M == MantBytes
           s == Bytes(x)
           X == Value(x)
           p == Room(M)
           w == CutOut(x)
<1>1. /\ s \in Nat /\ X < Room(s) /\ X \in Nat /\ M \in Nat /\ p \in Nat \ {0} /\ p <= Word
      /\ Word \in Nat \ {0} /\ M >= 2 /\ ByteBits \in Nat \ {0} /\ BITS \in Nat \ {0}
  <2>1. s \in Nat /\ X < Room(s)
    BY BytesTaken
  <2>2. p \in Nat \ {0} /\ M \in Nat /\ M >= 2
    BY RoomFacts DEF CompactSizes
  <2>3. p <= Word
    BY <2>2, MantissaRoom, WordFacts
  <2> QED
    BY <2>1, <2>2, <2>3, UintFacts, WordFacts, ByteFacts
<1>2. CASE s <= M
  <2> DEFINE j == M - s
             t == Room(j)
             sh == ByteBits * j
             n == X * t
  <2>1. j \in Nat /\ M = s + j
    BY <1>1, <1>2
  <2>2. t \in Nat \ {0} /\ p = Room(s) * t /\ Room(s) \in Nat /\ t = 2 ^ sh
    <3> HIDE DEF j
    <3>1. Room(j) \in Nat \ {0} /\ Room(s + j) = Room(s) * Room(j) /\ Room(s) \in Nat
      BY <2>1, <1>1, RoomFacts
    <3> QED
      BY <3>1, <2>1 DEF Room
  <2>3. AsU64(x) = X
    <3>1. s <= M /\ s \in Nat /\ M \in Nat
      BY <1>1, <1>2
    <3>2. Room(s) <= Room(M)
      BY <3>1, RoomFacts
    <3>3. X < Word
      BY <3>2, <2>2, <1>1
    <3> QED
      BY <3>3, LowWord
  <2>4. w = n % Word
    <3> HIDE DEF X
    <3>1. w = Lsh(AsU64(x), sh)
      BY <1>2 DEF CutOut
    <3> QED
      BY <3>1, <2>2, <2>3 DEF Lsh
  <2> HIDE DEF t, X, p, j, w
  <2>5. n \in Nat /\ n < p
    BY <2>2, <1>1
  <2> HIDE DEF n
  <2>6. w = n
    BY <2>4, <2>5, <1>1
  <2>7. s >= M => w = X \div Room(s - M)
    <3>1. SUFFICES ASSUME s = M PROVE w = X \div Room(s - M)
      BY <1>1, <1>2
    <3> DEFINE zero == 0
    <3>2. j = zero /\ s - M = zero /\ zero \in Nat
      BY <3>1, <1>1 DEF j
    <3> HIDE DEF zero
    <3>3. Room(zero) = 1
      BY RoomFacts DEF zero
    <3>4. t = 1
      BY <3>2, <3>3 DEF t
    <3>5. w = X /\ X \div 1 = X
      BY <3>4, <2>6, <1>1 DEF n
    <3> QED
      BY <3>2, <3>3, <3>5
  <2>8. w \in 0..(p - 1) /\ w = X * t
    BY <2>5, <2>6, <1>1 DEF n
  <2> QED
    BY <2>7, <2>8 DEF t, X, w, p, j
<1>3. CASE ~(s <= M)
  <2> DEFINE j == s - M
             t == Room(j)
             sh == ByteBits * j
             z == OverflowingShr(x, sh).val
             a == X \div t
             r == X % t
  <2>1. j \in Nat /\ s = M + j
    BY <1>1, <1>3
  <2>2. t \in Nat \ {0} /\ Room(s) = p * t /\ t = 2 ^ sh
    <3> HIDE DEF j
    <3>1. Room(j) \in Nat \ {0} /\ Room(M + j) = Room(M) * Room(j)
      BY <2>1, <1>1, RoomFacts
    <3> QED
      BY <3>1, <2>1 DEF Room
  <2>3. sh \in Nat /\ sh % BITS = sh
    <3> DEFINE c == ByteBits * M
    <3>1. ByteBits * s <= BITS + ByteBits - 1
      BY BytesTaken
    <3>2. ByteBits * s = sh + c /\ sh \in Nat /\ c \in Nat
      <4> HIDE DEF j
      <4> QED
        BY <2>1, <1>1
    <3>3. c >= ByteBits
      BY <1>1
    <3> HIDE DEF sh, c
    <3>4. sh < BITS
      BY <3>1, <3>2, <3>3, <1>1
    <3> QED
      BY <3>2, <3>4, <1>1
  <2>4. Value(z) \in Nat /\ z \in Uints /\ \E e \in 0..(2 ^ sh - 1) : X = Value(z) * 2 ^ sh + e
    <3> HIDE DEF sh
    <3>1. z \in Uints /\ \E e \in 0..(2 ^ (sh % BITS) - 1) : X = Value(z) * 2 ^ (sh % BITS) + e
      BY <2>3, ShrFacts
    <3>2. Value(z) \in Nat
      BY <3>1, UintFacts, WordFacts
    <3> QED
      BY <3>1, <3>2, <2>3
  <2>5. a = Value(z)
    <3>1. PICK e \in 0..(t - 1) : X = Value(z) * t + e
      BY <2>2, <2>4
    <3> HIDE DEF t, X, z
    <3> QED
      BY <3>1, <2>2, <2>4, <1>1, DivMod, SMTT(30)
  <2>6. a \in Nat /\ r \in 0..(t - 1) /\ X = a * t + r
    <3> HIDE DEF t, X
    <3> QED
      BY <2>2, <1>1, DivNat
  <2> HIDE DEF a, r, t, z, p
  <2>7. a < p
    <3>1. SUFFICES ASSUME p <= a PROVE FALSE
      BY <2>6, <1>1
    <3>2. p * t <= a * t /\ p * t \in Nat /\ a * t \in Nat
      BY <3>1, <2>2, <2>6, <1>1
    <3> QED
      BY <3>2, <2>2, <2>6, <1>1
  <2>8. AsU64(z) = a
    <3>1. Value(z) < Word
      BY <2>5, <2>7, <2>6, <1>1
    <3> QED
      BY <3>1, <2>4, <2>5, LowWord
  <2>9. w = a
    <3>1. w = AsU64(z)
      BY <1>3 DEF CutOut, z
    <3> QED
      BY <3>1, <2>8
  <2> QED
    BY <2>6, <2>7, <2>9, <1>1, <1>3 DEF a, t, p
<1> QED
  BY <1>2, <1>3

\* compact_target_bits, taken apart.
LEMMA CompactParts ==
  ASSUME CompactSizes, NEW x \in Uints
  PROVE  LET w == CutOut(x)
             s == Bytes(x)
         IN  Compact(x) = IF 2 * w >= Room(MantBytes)
                          THEN (s + 1) * Room(MantBytes) + (w \div Room(1))
                          ELSE s * Room(MantBytes) + w
<1> DEFINE w == CutOut(x)
           s == Bytes(x)
           p == Room(MantBytes)
           q == Room(MantBytes + 1)
           v == w \div Room(1)
           n == ByteBits * MantBytes
<1>1. w \in 0..(p - 1) /\ s \in Nat /\ s + 1 < Size /\ p \in Nat \ {0} /\ q \in Nat /\ p <= q
      /\ Room(1) \in Nat \ {0} /\ Room(1) >= 2
  <2>1. w \in 0..(p - 1) /\ s \in Nat /\ s + 1 < Size /\ p <= q /\ q \in Nat
    BY MantissaFacts, BytesTaken, MantissaRoom
  <2>2. p \in Nat \ {0} /\ Room(1) \in Nat \ {0} /\ Room(1) >= 2
    BY RoomFacts DEF CompactSizes
  <2> QED
    BY <2>1, <2>2
<1>2. n \in Nat /\ BITS \in Nat /\ p = 2 ^ n /\ CompactBits = n + BITS /\ Size = 2 ^ BITS /\ Size \in Nat
  BY ByteFacts, WordFacts DEF CompactSizes, Room, CompactBits, Size
<1>3. Compact(x) = IF 2 * Mant(w % q) >= p
                   THEN Or(CompactBits, Rsh(w % q, ByteBits), (s + 1) * p)
                   ELSE Or(CompactBits, w % q, s * p)
  BY Zenon DEF Compact, CutOut, Bytes
<1> HIDE DEF w, s, p, q, n
<1>4. w % q = w /\ Mant(w) = w
  <2>1. w \in Nat /\ w < q /\ w < p
    BY <1>1
  <2>2. w % q = w /\ w % p = w
    BY <2>1, <1>1
  <2> QED
    BY <2>2 DEF Mant, p
<1>5. Rsh(w, ByteBits) = v
  <2> DEFINE one == 1
  <2>1. ByteBits * one = ByteBits
    BY ByteFacts
  <2> HIDE DEF one
  <2>2. Room(one) = 2 ^ ByteBits
    BY <2>1 DEF Room
  <2> QED
    BY <2>2 DEF one, Rsh
<1>6. ASSUME NEW a \in 0..(Size - 1), NEW b \in 0..(p - 1)
      PROVE  Or(CompactBits, b, a * p) = a * p + b
  <2> DEFINE k == CompactBits
  <2>1. k \in Nat /\ n \in 0..k /\ k - n = BITS
    BY <1>2
  <2> HIDE DEF k
  <2>2. a \in 0..(2 ^ (k - n) - 1) /\ b \in 0..(2 ^ n - 1)
    BY <2>1, <1>2
  <2>3. Or(k, b, a * 2 ^ n) = a * 2 ^ n + b
    BY <2>1, <2>2, OrApart
  <2> QED
    BY <2>3, <1>2 DEF k
<1>7. v \in 0..(p - 1)
  <2>1. w \in Nat
    BY <1>1
  <2>2. v \in Nat /\ w % Room(1) \in 0..(Room(1) - 1) /\ w = v * Room(1) + (w % Room(1))
    BY <2>1, <1>1, DivNat
  <2> DEFINE r == w % Room(1)
             u == Room(1)
  <2>3. v \in Nat /\ r \in Nat /\ w = v * u + r /\ u \in Nat \ {0}
    BY <2>2, <1>1
  <2> HIDE DEF r, u, v
  <2>4. v * u >= v
    BY <2>3
  <2>5. v * u \in Nat
    BY <2>3
  <2> QED
    BY <2>3, <2>4, <2>5, <1>1
<1>8. CASE 2 * w >= p
  <2>1. Compact(x) = Or(CompactBits, v, (s + 1) * p)
    BY <1>3, <1>4, <1>5, <1>8
  <2>2. s + 1 \in 0..(Size - 1)
    BY <1>1, <1>2
  <2> HIDE DEF v
  <2>3. Compact(x) = (s + 1) * p + v
    BY <2>1, <2>2, <1>6, <1>7
  <2> QED
    BY <2>3, <1>8 DEF v, w, s, p
<1>9. CASE ~(2 * w >= p)
  <2>1. Compact(x) = Or(CompactBits, w, s * p)
    BY <1>3, <1>4, <1>9
  <2>2. s \in 0..(Size - 1)
    BY <1>1, <1>2
  <2>3. Compact(x) = s * p + w
    BY <2>1, <2>2, <1>1, <1>6
  <2> QED
    BY <2>3, <1>9 DEF w, s, p
<1> QED
  BY <1>8, <1>9

LEMMA PackedFacts ==
  ASSUME CompactSizes, NEW x \in Uints
  PROVE  \E E \in Nat, m \in Nat :
           Compact(x) = E * Room(MantBytes) + m /\ Packed(Value(x), E, m)
<1> DEFINE M == MantBytes
           s == Bytes(x)
           X == Value(x)
           p == Room(M)
           w == CutOut(x)
           half == p \div 2
           u == Room(1)
<1>1. /\ s \in Nat /\ X < Room(s) /\ X \in Nat /\ M \in Nat /\ p \in Nat \ {0}
      /\ M >= 2 /\ ByteBits \in Nat \ {0} /\ BITS \in Nat \ {0} /\ u \in Nat \ {0} /\ u >= 2
      /\ (s > 0 => Room(s - 1) <= X) /\ ByteBits * s <= BITS + ByteBits - 1
  <2>1. /\ s \in Nat /\ X < Room(s) /\ (s > 0 => Room(s - 1) <= X)
        /\ ByteBits * s <= BITS + ByteBits - 1
    BY BytesTaken
  <2>2. p \in Nat \ {0} /\ M \in Nat /\ M >= 2 /\ u \in Nat \ {0} /\ u >= 2
    BY RoomFacts DEF CompactSizes
  <2> QED
    BY <2>1, <2>2, UintFacts, WordFacts, ByteFacts
<1>2. /\ w \in Nat /\ w < p
      /\ (s <= M => w = X * Room(M - s))
      /\ (s >= M => w = X \div Room(s - M))
  <2>1. w \in 0..(p - 1)
    BY MantissaFacts
  <2> QED
    BY <2>1, <1>1, MantissaFacts
<1>3. Compact(x) = IF 2 * w >= p THEN (s + 1) * p + (w \div u) ELSE s * p + w
  BY CompactParts
<1>4. half \in Nat /\ p = 2 * half
  <2>1. PICK g \in Nat : p = 2 * (g * u) /\ half = g * u
    BY HalfRoom
  <2> QED
    BY <2>1, <1>1
<1>5. \A k \in Nat : k <= s + 1 - M => ByteBits * k < BITS
  <2> SUFFICES ASSUME NEW k \in Nat, k <= s + 1 - M PROVE ByteBits * k < BITS
    OBVIOUS
  <2>1. k + M <= s + 1 /\ k + 1 <= s
    BY <1>1
  <2>2. ByteBits * (k + 1) <= ByteBits * s /\ ByteBits * (k + 1) = ByteBits * k + ByteBits
    BY <2>1, <1>1
  <2>3. ByteBits * k \in Nat /\ ByteBits * s \in Nat
    BY <1>1
  <2> QED
    BY <2>2, <2>3, <1>1
<1> HIDE DEF s, X, p, w, half, u
<1>6. CASE ~(2 * w >= p)
  <2>1. Compact(x) = s * p + w
    BY <1>3, <1>6
  <2>2. s > M => /\ w = X \div Room(s - M) /\ half * Room(s - M - 1) <= X
                 /\ ByteBits * (s - M) < BITS
    <3> SUFFICES ASSUME s > M
                 PROVE  /\ w = X \div Room(s - M) /\ half * Room(s - M - 1) <= X
                        /\ ByteBits * (s - M) < BITS
      OBVIOUS
    <3> DEFINE j == s - M - 1
               t == Room(j)
    <3>1. j \in Nat /\ s - 1 = M + j /\ s > 0 /\ s - M \in Nat /\ s - M <= s + 1 - M
      BY <1>1
    <3>2. Room(s - 1) = p * t /\ t \in Nat
      <4> HIDE DEF j
      <4>1. Room(M + j) = Room(M) * Room(j) /\ Room(j) \in Nat
        BY <3>1, <1>1, RoomFacts
      <4> QED
        BY <4>1, <3>1 DEF p
    <3>3. p * t <= X
      BY <3>1, <3>2, <1>1
    <3>4. half * t <= X
      <4> HIDE DEF t
      <4>1. half * t <= p * t /\ half * t \in Nat /\ p * t \in Nat
        BY <3>2, <1>1, <1>4
      <4> QED
        BY <4>1, <3>3, <1>1
    <3>5. ByteBits * (s - M) < BITS
      BY <3>1, <1>5
    <3> QED
      BY <3>1, <3>4, <3>5, <1>1, <1>2
  <2>3. Packed(X, s, w)
    <3>1. 2 * w < p
      BY <1>1, <1>2, <1>6
    <3> QED
      BY <3>1, <2>2, <1>2 DEF Packed, p, half
  <2> QED
    BY <2>1, <2>3, <1>1, <1>2 DEF p, X
<1>7. CASE 2 * w >= p
  <2> DEFINE v == w \div u
             r == w % u
             E == s + 1
  <2>1. Compact(x) = E * p + v /\ E \in Nat
    BY <1>1, <1>3, <1>7
  <2>2. v \in Nat /\ r \in 0..(u - 1) /\ w = v * u + r
    BY <1>1, <1>2, DivNat
  <2>3. 2 * v < p
    <3> HIDE DEF v, r
    <3>1. v * u >= v * 2 /\ v * u \in Nat
      BY <2>2, <1>1
    <3> QED
      BY <3>1, <2>2, <1>1, <1>2
  <2>4. ASSUME E <= M PROVE v = X * Room(M - E)
    <3> DEFINE j == M - E
               t == Room(j)
               zero == 0
    <3>1. j \in Nat /\ M - s = j + 1 /\ s <= M /\ M \in Nat
      BY <2>4, <1>1
    <3>2. Room(M - s) = t * u /\ t \in Nat
      <4> HIDE DEF j
      <4>1. Room(j + 1) = Room(j) * Room(1) /\ Room(j) \in Nat
        BY <3>1, RoomFacts
      <4> QED
        BY <4>1, <3>1 DEF u
    <3> HIDE DEF j, t
    <3>3. w = (X * t) * u + zero /\ X * t \in Int /\ zero \in 0..(u - 1) /\ w \in Int
      BY <3>1, <3>2, <1>1, <1>2
    <3> DEFINE a == X * t
    <3> HIDE DEF zero, a
    <3>4. w = a * u + zero /\ a \in Int
      BY <3>3 DEF a
    <3>5. w \div u = a
      BY <3>3, <3>4, <1>1, DivMod
    <3> QED
      BY <3>5 DEF a, t, j
  <2>5. ASSUME E > M
        PROVE  v = X \div Room(E - M) /\ half * Room(E - M - 1) <= X /\ ByteBits * (E - M) < BITS
    <3> DEFINE j == s - M
               t == Room(j)
               e == X % t
    <3>1. j \in Nat /\ E - M = j + 1 /\ E - M - 1 = j /\ s >= M /\ E - M \in Nat /\ E - M <= s + 1 - M
          /\ 1 + j = j + 1
      BY <2>5, <1>1
    <3>2. Room(E - M) = u * t /\ t \in Nat \ {0}
      <4> HIDE DEF j
      <4>1. Room(1 + j) = Room(1) * Room(j) /\ Room(j) \in Nat \ {0}
        BY <3>1, RoomFacts
      <4> QED
        BY <4>1, <3>1 DEF u
    <3>3. w = X \div t
      BY <3>1, <1>2
    <3>4. v = X \div Room(E - M)
      <4> HIDE DEF t, E
      <4>1. (X \div t) \div u = X \div (u * t)
        BY <3>2, <1>1, DivTwice
      <4> QED
        BY <4>1, <3>2, <3>3
    <3>5. w * t <= X
      <4> HIDE DEF t
      <4>1. e \in 0..(t - 1) /\ X = (X \div t) * t + e
        BY <3>2, <1>1, DivNat
      <4> HIDE DEF e
      <4>2. X = w * t + e /\ w * t \in Nat
        BY <4>1, <3>2, <3>3, <1>2
      <4> QED
        BY <4>1, <4>2, <3>2
    <3>6. half * t <= X
      <4> HIDE DEF t
      <4>1. half <= w
        BY <1>1, <1>2, <1>4, <1>7
      <4>2. half * t <= w * t /\ half * t \in Nat /\ w * t \in Nat
        BY <4>1, <3>2, <1>2, <1>4
      <4> QED
        BY <4>2, <3>5, <1>1
    <3>7. ByteBits * (E - M) < BITS
      BY <3>1, <1>5
    <3>8. half * Room(E - M - 1) <= X
      BY <3>1, <3>6
    <3> HIDE DEF v, E
    <3> QED
      BY <3>4, <3>7, <3>8
  <2> HIDE DEF v, E
  <2>6. Packed(X, E, v)
    BY <2>3, <2>4, <2>5 DEF Packed, p, half
  <2> QED
    BY <2>1, <2>2, <2>6 DEF p, X
<1> QED
  BY <1>6, <1>7

\* A compact target is the greatest that has the form and is not above the number.
LEMMA CompactFacts ==
  ASSUME CompactSizes, NEW x \in Uints
  PROVE  LET back == Value(FromCompact(Compact(x)))
         IN  /\ back \in Nat /\ back <= Value(x)
             /\ \A mant \in 0..((Room(MantBytes) \div 2) - 1), e \in Nat :
                  ~(back < mant * Room(e) /\ mant * Room(e) <= Value(x))
<1> DEFINE X == Value(x)
           M == MantBytes
           back == Value(FromCompact(Compact(x)))
           half == Room(M) \div 2
<1>1. X \in 0..(Size - 1) /\ X \in Nat /\ M \in Nat
  BY UintFacts, WordFacts DEF CompactSizes
<1>2. PICK E \in Nat, m \in Nat : Compact(x) = E * Room(M) + m /\ Packed(X, E, m)
  BY PackedFacts
<1> HIDE DEF X
<1>3. back = IF E <= M THEN X ELSE (X \div Room(E - M)) * Room(E - M)
  <2> DEFINE c == Compact(x)
  <2>1. c = E * Room(M) + m
    BY <1>2
  <2> HIDE DEF c
  <2>2. Value(FromCompact(c)) = IF E <= M THEN X ELSE (X \div Room(E - M)) * Room(E - M)
    BY <2>1, <1>1, <1>2, UnpackedFacts
  <2> QED
    BY <2>2 DEF c
<1> HIDE DEF back
<1>4. CASE E <= M
  <2>1. back = X
    BY <1>3, <1>4
  <2>2. \A n \in Nat : ~(X < n /\ n <= X)
    BY <1>1
  <2>3. ASSUME NEW mant \in 0..(half - 1), NEW e \in Nat PROVE mant * Room(e) \in Nat
    <3>1. Room(e) \in Nat
      BY RoomFacts
    <3>2. mant \in Nat
      OBVIOUS
    <3> HIDE DEF half
    <3> QED
      BY <3>1, <3>2
  <2>4. back \in Nat /\ back <= X
    BY <2>1, <1>1
  <2>5. \A mant \in 0..(half - 1), e \in Nat : ~(back < mant * Room(e) /\ mant * Room(e) <= X)
    <3> HIDE DEF half
    <3> QED
      BY <2>1, <2>2, <2>3
  <2> QED
    BY <2>4, <2>5 DEF back, X
<1>5. CASE E > M
  <2> DEFINE k == E - M
  <2>1. k \in Nat /\ k > 0
    BY <1>1, <1>5
  <2>2. (Room(MantBytes) \div 2) * Room(k - 1) <= X
    BY <1>2, <1>5 DEF Packed
  <2>3. back = (X \div Room(k)) * Room(k)
    BY <1>1, <1>3, <1>5
  <2> HIDE DEF k
  <2>4. /\ (X \div Room(k)) * Room(k) \in Nat /\ (X \div Room(k)) * Room(k) <= X
        /\ \A mant \in 0..((Room(MantBytes) \div 2) - 1), e \in Nat :
             ~((X \div Room(k)) * Room(k) < mant * Room(e) /\ mant * Room(e) <= X)
    BY <2>1, <2>2, <1>1, FloorGreatest
  <2>5. /\ back \in Nat /\ back <= X
        /\ \A mant \in 0..((Room(MantBytes) \div 2) - 1), e \in Nat :
             ~(back < mant * Room(e) /\ mant * Room(e) <= X)
    BY <2>3, <2>4, Zenon
  <2> QED
    BY <2>5 DEF back, X
<1> QED
  BY <1>1, <1>4, <1>5

-----------------------------------------------------------------------------
(* Exclusive or, and rotations *)

LEMMA BitRange ==
  ASSUME NEW a \in Nat, NEW k \in Nat
  PROVE  Bit(a, k) \in {0, 1}
<1> DEFINE f == a \div 2 ^ k
<1>1. f \in Nat
  BY TwoPos, DivNat
<1> HIDE DEF f
<1>2. f % 2 \in {0, 1}
  BY <1>1
<1> QED
  BY <1>2 DEF f, Bit

\* A number made of bits has them.
LEMMA NumberBits ==
  ASSUME NEW n \in Nat, NEW t \in [0..(n - 1) -> {0, 1}]
  PROVE  /\ Number(n, 1, t) \in 0..(2 ^ n - 1)
         /\ \A k \in 0..(n - 1) : Bit(Number(n, 1, t), k) = t[k]
<1> DEFINE one == 1
           zero == 0
           x == Number(n, one, t)
<1>1. /\ one \in Nat /\ 2 ^ one = 2 /\ one * n = n /\ \A k \in 0..(n - 1) : one * k = k
      /\ zero \in Nat /\ 2 ^ zero = 1
  <2>1. 0 + 1 = 1 /\ 2 ^ (0 + 1) = 2 * 2 ^ 0
    BY TwoNext
  <2>2. 2 ^ 1 = 2
    BY <2>1, TwoZero
  <2>3. 2 ^ zero = 1
    BY TwoZero, Zenon
  <2> QED
    BY <2>2, <2>3
<1> HIDE DEF one, zero
<1>2. t \in [0..(n - 1) -> 0..(2 ^ one - 1)] /\ t \in Digits(n)
  BY <1>1 DEF Digits
<1>3. \A i \in 0..n : Sums(n, one, t)[i] \in 0..(2 ^ (one * i) - 1)
  BY <1>1, <1>2, SumsBound
<1>4. x = Sums(n, one, t)[n]
  BY Zenon DEF Number
<1>5. x \in 0..(2 ^ n - 1)
  <2>1. n \in 0..n
    OBVIOUS
  <2> HIDE DEF x
  <2> QED
    BY <2>1, <1>1, <1>3, <1>4
<1>6. ASSUME NEW k \in 0..(n - 1) PROVE Bit(x, k) = t[k]
  <2> DEFINE b == Sums(n, one, t)[k]
  <2>0. one \in Nat /\ t \in Digits(n)
    BY <1>1, <1>2
  <2>1. PICK r \in Nat : x = b + (t[k] + r * 2 ^ one) * 2 ^ (one * k)
    BY <2>0, Digit, Zenon
  <2> DEFINE a == t[k] + r * 2
  <2>2. k \in Nat /\ k - k = zero /\ k <= k /\ k \in 0..n
    BY DEF zero
  <2>3. b \in 0..(2 ^ k - 1)
    BY <1>1, <1>3, <2>2
  <2>4. a \in Nat /\ t[k] \in {0, 1}
    OBVIOUS
  <2>5. 2 ^ k \in Nat \ {0}
    BY <2>2, TwoPos
  <2>6. x = b + a * 2 ^ k
    BY <2>1, <1>1
  <2> HIDE DEF a, b
  <2>7. x = a * 2 ^ k + b
    <3> DEFINE p == 2 ^ k
    <3>1. p \in Nat /\ b \in Nat /\ x = b + a * p
      BY <2>3, <2>5, <2>6
    <3> HIDE DEF p
    <3>2. b + a * p = a * p + b
      BY <3>1, <2>4
    <3>3. x = a * p + b
      BY <3>1, <3>2, Zenon
    <3> QED
      BY <3>3 DEF p
  <2>8. Bit(a * 2 ^ k + b, k) = Bit(a, k - k)
    BY <2>2, <2>3, <2>4, BitHigh
  <2>9. Bit(a, zero) = t[k]
    <3>1. a \div 1 = a
      BY <2>4
    <3>2. a % 2 = t[k]
      BY <2>4 DEF a
    <3>3. Bit(a, zero) = (a \div 1) % 2
      BY <1>1 DEF Bit
    <3> QED
      BY <3>1, <3>2, <3>3
  <2> QED
    BY <2>2, <2>7, <2>8, <2>9
<1> QED
  BY <1>5, <1>6 DEF one

\* Numbers of n bits with the same bits are the same.
SameBits(n, a, b) == \A k \in 0..(n - 1) : Bit(a, k) = Bit(b, k)

LEMMA BitsSame ==
  ASSUME NEW n \in Nat, NEW a \in 0..(2 ^ n - 1), NEW b \in 0..(2 ^ n - 1), SameBits(n, a, b)
  PROVE  a = b
<1> DEFINE one == 1
           t == [k \in 0..(n - 1) |-> Bit(a, k)]
<1>1. one \in Nat /\ 2 ^ one = 2 /\ one * n = n /\ \A k \in 0..(n - 1) : one * k = k
  <2>1. 0 + 1 = 1 /\ 2 ^ (0 + 1) = 2 * 2 ^ 0
    BY TwoNext
  <2>2. 2 ^ 1 = 2
    BY <2>1, TwoZero
  <2> QED
    BY <2>2
<1>2. a \in Nat /\ b \in Nat
  BY TwoPos
<1>3. t \in Digits(n)
  <2>1. ASSUME NEW k \in 0..(n - 1) PROVE Bit(a, k) \in Nat
    <3>1. k \in Nat
      OBVIOUS
    <3> QED
      BY <3>1, <1>2, BitRange
  <2> QED
    BY <2>1 DEF Digits
<1>4. \A k \in 0..(n - 1) : t[k] = Bit(a, k) /\ t[k] = Bit(b, k)
  BY DEF SameBits
<1> HIDE DEF one, t
<1>5. IsDigits(n, one, a, t) /\ IsDigits(n, one, b, t)
  <2>1. ASSUME NEW k \in 0..(n - 1)
        PROVE  /\ t[k] = (a \div 2 ^ (one * k)) % 2 ^ one
               /\ t[k] = (b \div 2 ^ (one * k)) % 2 ^ one
    BY <1>1, <1>4 DEF Bit
  <2> QED
    BY <2>1 DEF IsDigits
<1>6. a \in 0..(2 ^ (one * n) - 1) /\ b \in 0..(2 ^ (one * n) - 1)
  BY <1>1
<1>7. Number(n, one, t) = a /\ Number(n, one, t) = b
  BY <1>1, <1>3, <1>5, <1>6, Expansion
<1> QED
  BY <1>7

\* ^ has the bits in which two numbers differ.
LEMMA XorBits ==
  ASSUME NEW n \in Nat, NEW a \in Nat, NEW b \in Nat
  PROVE  /\ Xor(n, a, b) \in 0..(2 ^ n - 1) /\ Xor(n, a, b) \in Nat
         /\ \A k \in 0..(n - 1) :
              Bit(Xor(n, a, b), k) = IF Bit(a, k) = Bit(b, k) THEN 0 ELSE 1
<1> DEFINE t == [k \in 0..(n - 1) |-> IF Bit(a, k) # Bit(b, k) THEN 1 ELSE 0]
<1>1. t \in [0..(n - 1) -> {0, 1}]
  OBVIOUS
<1>2. \A k \in 0..(n - 1) : t[k] = IF Bit(a, k) = Bit(b, k) THEN 0 ELSE 1
  OBVIOUS
<1>3. Xor(n, a, b) = Number(n, 1, t)
  BY Zenon DEF Xor
<1> HIDE DEF t
<1>4. Xor(n, a, b) \in 0..(2 ^ n - 1)
  BY <1>1, <1>3, NumberBits
<1>5. Xor(n, a, b) \in Nat
  BY <1>4, TwoPos
<1> QED
  BY <1>1, <1>2, <1>3, <1>4, <1>5, NumberBits

LEMMA BitZero ==
  ASSUME NEW k \in Nat
  PROVE  Bit(0, k) = 0
<1> DEFINE p == 2 ^ k
<1>1. p \in Nat \ {0}
  BY TwoPos
<1> HIDE DEF p
<1>2. 0 \div p = 0 /\ 0 % 2 = 0
  BY <1>1
<1> QED
  BY <1>2, Zenon DEF p, Bit

\* ^ is its own inverse, and its arguments come in any order.
LEMMA XorLaws ==
  ASSUME NEW n \in Nat, NEW a \in 0..(2 ^ n - 1), NEW b \in 0..(2 ^ n - 1),
         NEW c \in 0..(2 ^ n - 1)
  PROVE  /\ Xor(n, a, b) \in 0..(2 ^ n - 1) /\ Xor(n, a, b) = Xor(n, b, a)
         /\ Xor(n, Xor(n, a, b), c) = Xor(n, a, Xor(n, b, c))
         /\ Xor(n, a, a) = 0 /\ Xor(n, a, 0) = a
<1>1. a \in Nat /\ b \in Nat /\ c \in Nat /\ 2 ^ n \in Nat \ {0}
  BY TwoPos
<1>2. \A k \in 0..(n - 1) : /\ Bit(a, k) \in {0, 1} /\ Bit(b, k) \in {0, 1}
                            /\ Bit(c, k) \in {0, 1} /\ Bit(0, k) = 0
  <2> TAKE k \in 0..(n - 1)
  <2>1. k \in Nat
    OBVIOUS
  <2> QED
    BY <2>1, <1>1, BitRange, BitZero
<1> DEFINE u == Xor(n, a, b)
           v == Xor(n, b, a)
           w == Xor(n, b, c)
           x == Xor(n, u, c)
           y == Xor(n, a, w)
           d == Xor(n, a, a)
           e == Xor(n, a, 0)
           M == 0..(2 ^ n - 1)
           S == 0..(n - 1)
           Same(p, q) == IF p = q THEN 0 ELSE 1
<1>3. /\ u \in M /\ u \in Nat /\ \A k \in S : Bit(u, k) = Same(Bit(a, k), Bit(b, k))
      /\ v \in M /\ \A k \in S : Bit(v, k) = Same(Bit(b, k), Bit(a, k))
  BY <1>1, XorBits
<1>4. w \in M /\ w \in Nat /\ \A k \in S : Bit(w, k) = Same(Bit(b, k), Bit(c, k))
  BY <1>1, XorBits
<1>5. /\ d \in M /\ \A k \in S : Bit(d, k) = Same(Bit(a, k), Bit(a, k))
      /\ e \in M /\ \A k \in S : Bit(e, k) = Same(Bit(a, k), Bit(0, k))
  BY <1>1, XorBits
<1> HIDE DEF u, w
<1>6. x \in M /\ \A k \in S : Bit(x, k) = Same(Bit(u, k), Bit(c, k))
  BY <1>1, <1>3, XorBits, ZenonT(30)
<1>7. y \in M /\ \A k \in S : Bit(y, k) = Same(Bit(a, k), Bit(w, k))
  BY <1>1, <1>4, XorBits
<1>8. a \in M /\ 0 \in M
  BY <1>1
<1> HIDE DEF v, x, y, d, e
<1>9. SameBits(n, u, v)
  BY <1>3 DEF SameBits
<1>10. SameBits(n, x, y)
  BY <1>2, <1>3, <1>4, <1>6, <1>7 DEF SameBits
<1>11. SameBits(n, d, 0)
  BY <1>2, <1>5 DEF SameBits
<1>12. SameBits(n, e, a)
  BY <1>2, <1>5 DEF SameBits
<1> HIDE DEF Same
<1>13. u = v /\ x = y
  BY <1>3, <1>6, <1>7, <1>9, <1>10, BitsSame
<1>14. d = 0 /\ e = a
  BY <1>5, <1>8, <1>11, <1>12, BitsSame
<1> QED
  BY <1>3, <1>13, <1>14, Zenon DEF u, v, w, x, y, d, e

\* A word shifted up.
LEMMA LshBits ==
  ASSUME NEW w \in Words, NEW s \in Nat
  PROVE  /\ Lsh(w, s) \in Words
         /\ \A k \in 0..(WordBits - 1) :
              Bit(Lsh(w, s), k) = IF k < s THEN 0 ELSE Bit(w, k - s)
<1> DEFINE x == w * 2 ^ s
           q == x \div Word
           r == x % Word
<1>1. /\ WordBits \in Nat /\ Word = 2 ^ WordBits /\ Word \in Nat \ {0} /\ w \in Nat
      /\ 2 ^ s \in Nat \ {0} /\ x \in Nat
  <2>1. WordBits \in Nat /\ Word = 2 ^ WordBits /\ Word \in Nat \ {0}
    BY WordFacts
  <2>2. w \in Nat /\ 2 ^ s \in Nat \ {0}
    BY <2>1, TwoPos DEF Words
  <2> DEFINE p == 2 ^ s
  <2>3. p \in Nat
    BY <2>2
  <2> HIDE DEF p
  <2>4. w * p \in Nat
    BY <2>2, <2>3
  <2> QED
    BY <2>1, <2>2, <2>4 DEF p
<1>2. Lsh(w, s) = r
  BY DEF Lsh
<1> HIDE DEF x
<1>3. q \in Nat /\ r \in 0..(Word - 1) /\ x = q * Word + r
  BY <1>1, DivNat
<1> HIDE DEF q, r
<1>4. r \in Nat
  BY <1>1, <1>3
<1>5. ASSUME NEW k \in 0..(WordBits - 1)
      PROVE  Bit(r, k) = IF k < s THEN 0 ELSE Bit(w, k - s)
  <2>1. k \in Nat
    OBVIOUS
  <2>2. Bit(r, k) = Bit(x, k)
    <3>1. Bit(q * 2 ^ WordBits + r, k) = Bit(r, k)
      BY <1>1, <1>3, <1>4, BitLow
    <3>2. x = q * 2 ^ WordBits + r
      BY <1>1, <1>3
    <3> QED
      BY <3>1, <3>2, Zenon
  <2> DEFINE zero == 0
  <2>3. zero \in Nat /\ zero \in 0..(2 ^ s - 1) /\ x = w * 2 ^ s + zero
    <3>1. x = w * 2 ^ s
      BY DEF x
    <3>2. x + 0 = x
      BY <1>1
    <3>3. x = w * 2 ^ s + zero
      BY <3>1, <3>2, Zenon
    <3> QED
      BY <3>3, <1>1
  <2>4. Bit(zero, k) = 0
    BY <2>1, BitZero
  <2> HIDE DEF zero
  <2>5. CASE k < s
    <3>1. k \in 0..(s - 1)
      BY <2>1, <2>5
    <3>2. Bit(w * 2 ^ s + zero, k) = Bit(zero, k)
      BY <3>1, <1>1, <2>3, BitLow
    <3> QED
      BY <3>2, <2>2, <2>3, <2>4, <2>5
  <2>6. CASE ~(k < s)
    <3>1. s <= k
      BY <2>1, <2>6
    <3>2. Bit(w * 2 ^ s + zero, k) = Bit(w, k - s)
      BY <3>1, <2>1, <1>1, <2>3, BitHigh
    <3> QED
      BY <3>2, <2>2, <2>3, <2>6
  <2> QED
    BY <2>5, <2>6
<1> QED
  BY <1>2, <1>3, <1>5 DEF Words

\* ^ of two words, and its laws.
LEMMA XorWord ==
  ASSUME NEW a \in Words, NEW b \in Words
  PROVE  /\ XorU64(a, b) \in Words
         /\ \A k \in 0..(WordBits - 1) :
              Bit(XorU64(a, b), k) = IF Bit(a, k) = Bit(b, k) THEN 0 ELSE 1
<1>1. WordBits \in Nat /\ Word = 2 ^ WordBits
  BY WordFacts
<1>2. a \in Nat /\ b \in Nat
  BY WordFacts DEF Words
<1>3. WordBits \in Nat
  BY <1>1
<1>4. /\ Xor(WordBits, a, b) \in 0..(2 ^ WordBits - 1)
      /\ \A k \in 0..(WordBits - 1) :
           Bit(Xor(WordBits, a, b), k) = IF Bit(a, k) = Bit(b, k) THEN 0 ELSE 1
  BY <1>2, <1>3, XorBits, Zenon
<1> QED
  BY <1>1, <1>4, Zenon DEF XorU64, Words

LEMMA XorGroup ==
  ASSUME NEW a \in Words, NEW b \in Words, NEW c \in Words
  PROVE  /\ XorU64(a, b) \in Words /\ XorU64(a, b) = XorU64(b, a)
         /\ XorU64(XorU64(a, b), c) = XorU64(a, XorU64(b, c))
         /\ XorU64(a, a) = 0 /\ XorU64(a, 0) = a
<1> DEFINE M == 0..(2 ^ WordBits - 1)
<1>1. WordBits \in Nat /\ a \in M /\ b \in M /\ c \in M /\ M = Words
  BY WordFacts DEF Words
<1>2. /\ Xor(WordBits, a, b) \in M /\ Xor(WordBits, a, b) = Xor(WordBits, b, a)
      /\ Xor(WordBits, Xor(WordBits, a, b), c) = Xor(WordBits, a, Xor(WordBits, b, c))
      /\ Xor(WordBits, a, a) = 0 /\ Xor(WordBits, a, 0) = a
  BY <1>1, XorLaws, Zenon
<1> QED
  BY <1>1, <1>2, Zenon DEF XorU64

\* What was xored comes off again.
LEMMA XorUndo ==
  ASSUME NEW a \in Words, NEW b \in Words
  PROVE  XorU64(XorU64(a, b), b) = a /\ XorU64(XorU64(b, a), b) = a
<1>1. XorU64(XorU64(a, b), b) = XorU64(a, XorU64(b, b))
  BY XorGroup
<1>2. XorU64(b, b) = 0 /\ XorU64(a, 0) = a /\ XorU64(b, a) = XorU64(a, b)
  BY XorGroup
<1> QED
  BY <1>1, <1>2

\* Shifts of words: bit by bit, one after the other, by nothing and by all bits.
LEMMA LshLaws ==
  ASSUME NEW a \in Words, NEW b \in Words, NEW s \in Nat, NEW t \in Nat
  PROVE  /\ Lsh(XorU64(a, b), s) = XorU64(Lsh(a, s), Lsh(b, s))
         /\ Lsh(Lsh(a, s), t) = Lsh(a, s + t)
         /\ s >= WordBits => Lsh(a, s) = 0
         /\ Lsh(a, 0) = a
<1> DEFINE S == 0..(WordBits - 1)
           x == XorU64(a, b)
           y == XorU64(Lsh(a, s), Lsh(b, s))
           z == Lsh(x, s)
           u == Lsh(Lsh(a, s), t)
           v == Lsh(a, s + t)
           zero == 0
<1>1. /\ WordBits \in Nat /\ Word = 2 ^ WordBits /\ Word \in Nat \ {0}
      /\ Words = 0..(2 ^ WordBits - 1) /\ zero \in Words
  BY WordFacts DEF Words
<1>2. a \in Nat /\ b \in Nat /\ s + t \in Nat /\ zero \in Nat
  BY <1>1
<1>3. Lsh(a, s) \in Words /\ Lsh(b, s) \in Words
  BY LshBits
<1>4. Lsh(a, s) \in Nat /\ Lsh(b, s) \in Nat
  BY <1>1, <1>3
<1>5. x \in Words /\ \A k \in S : Bit(x, k) = IF Bit(a, k) = Bit(b, k) THEN 0 ELSE 1
  BY XorWord
<1>6. /\ y \in Words
      /\ \A k \in S : Bit(y, k) = IF Bit(Lsh(a, s), k) = Bit(Lsh(b, s), k) THEN 0 ELSE 1
  BY <1>3, XorWord
<1>7. /\ \A k \in S : Bit(Lsh(a, s), k) = IF k < s THEN 0 ELSE Bit(a, k - s)
      /\ \A k \in S : Bit(Lsh(b, s), k) = IF k < s THEN 0 ELSE Bit(b, k - s)
  BY LshBits
<1> HIDE DEF x, y
<1>8. z \in Words /\ \A k \in S : Bit(z, k) = IF k < s THEN 0 ELSE Bit(x, k - s)
  BY <1>5, LshBits
<1>9. u \in Words /\ \A k \in S : Bit(u, k) = IF k < t THEN 0 ELSE Bit(Lsh(a, s), k - t)
  BY <1>3, LshBits
<1>10. v \in Words /\ \A k \in S : Bit(v, k) = IF k < s + t THEN 0 ELSE Bit(a, k - (s + t))
  BY <1>2, LshBits
<1> HIDE DEF z, u, v, zero
<1>11. SameBits(WordBits, z, y)
  <2> SUFFICES ASSUME NEW k \in S PROVE Bit(z, k) = Bit(y, k)
    BY DEF SameBits
  <2>1. CASE k < s
    BY <2>1, <1>6, <1>7, <1>8
  <2>2. CASE ~(k < s)
    <3>1. k - s \in S
      BY <2>2, <1>1
    <3>2. Bit(z, k) = IF Bit(a, k - s) = Bit(b, k - s) THEN 0 ELSE 1
      BY <3>1, <2>2, <1>5, <1>8
    <3>3. Bit(y, k) = IF Bit(a, k - s) = Bit(b, k - s) THEN 0 ELSE 1
      BY <2>2, <1>6, <1>7
    <3> QED
      BY <3>2, <3>3
  <2> QED
    BY <2>1, <2>2
<1>12. SameBits(WordBits, u, v)
  <2> SUFFICES ASSUME NEW k \in S PROVE Bit(u, k) = Bit(v, k)
    BY DEF SameBits
  <2>1. CASE k < t
    BY <2>1, <1>1, <1>9, <1>10
  <2>2. CASE ~(k < t)
    <3>1. k - t \in S /\ (k - t < s) = (k < s + t) /\ (k - t) - s = k - (s + t)
      BY <2>2, <1>1
    <3> QED
      BY <3>1, <2>2, <1>7, <1>9, <1>10
  <2> QED
    BY <2>1, <2>2
<1>13. z = y /\ u = v
  BY <1>1, <1>6, <1>8, <1>9, <1>10, <1>11, <1>12, BitsSame
<1>14. ASSUME s >= WordBits PROVE Lsh(a, s) = zero
  <2>1. SameBits(WordBits, Lsh(a, s), zero)
    <3> SUFFICES ASSUME NEW k \in S PROVE Bit(Lsh(a, s), k) = Bit(zero, k)
      BY DEF SameBits
    <3>1. k \in Nat /\ k < s
      BY <1>1, <1>14
    <3> QED
      BY <3>1, <1>7, BitZero DEF zero
  <2> QED
    BY <2>1, <1>1, <1>3, BitsSame
<1>15. Lsh(a, zero) = a
  <2>1. Lsh(a, zero) \in Words
    BY <1>2, LshBits
  <2>2. SameBits(WordBits, Lsh(a, zero), a)
    <3> SUFFICES ASSUME NEW k \in S PROVE Bit(Lsh(a, zero), k) = Bit(a, k)
      BY DEF SameBits
    <3>1. ~(k < zero) /\ k - zero = k
      BY DEF zero
    <3>2. Bit(Lsh(a, zero), k) = IF k < zero THEN 0 ELSE Bit(a, k - zero)
      BY <1>2, LshBits
    <3> QED
      BY <3>1, <3>2
  <2> QED
    BY <2>1, <2>2, <1>1, BitsSame
<1> QED
  BY <1>13, <1>14, <1>15 DEF z, y, x, u, v, zero

\* A rotation by r bits: the parts of the word change places.
LEMMA RotateParts ==
  ASSUME NEW w \in Words, NEW r \in 0..WordBits
  PROVE  LET e == 2 ^ r
             h == 2 ^ (WordBits - r)
         IN  /\ e \in Nat \ {0} /\ h \in Nat \ {0} /\ Word = h * e /\ Word = e * h
             /\ w \div h \in 0..(e - 1) /\ w % h \in 0..(h - 1)
             /\ w = (w \div h) * h + (w % h)
             /\ RotateLeft(w, r) = (w % h) * e + (w \div h)
<1> DEFINE m == WordBits - r
           e == 2 ^ r
           h == 2 ^ m
           a == w \div h
           b == w % h
<1>1. WordBits \in Nat /\ Word = 2 ^ WordBits /\ Word \in Nat \ {0}
  BY WordFacts
<1>2. r \in Nat /\ m \in Nat /\ m \in 0..WordBits /\ WordBits - m = r
  BY <1>1
<1>3. e \in Nat \ {0} /\ h \in Nat \ {0} /\ Word = h * e /\ Word = e * h
  <2>1. e \in Nat \ {0} /\ h \in Nat \ {0}
    BY <1>2, TwoPos
  <2>2. 2 ^ WordBits = 2 ^ (WordBits - r) * 2 ^ r
    BY <1>1, <1>2, TwoSplit
  <2> HIDE DEF e, h
  <2>3. Word = h * e
    BY <2>2, <1>1 DEF e, h
  <2>4. h * e = e * h
    BY <2>1
  <2> QED
    BY <2>1, <2>3, <2>4
<1>4. w \in Nat /\ w \in 0..(Word - 1)
  BY <1>1 DEF Words
<1>5. a \in Nat /\ b \in 0..(h - 1) /\ w = a * h + b
  <2> HIDE DEF h
  <2> QED
    BY <1>3, <1>4, DivNat
<1>6. a \in 0..(e - 1) /\ b \in Nat
  <2> HIDE DEF a, b, e, h
  <2>1. SUFFICES ASSUME a >= e PROVE FALSE
    BY <1>3, <1>5
  <2>2. a * h >= e * h
    BY <2>1, <1>3, <1>5
  <2>3. a * h \in Nat
    BY <1>3, <1>5
  <2> QED
    BY <2>2, <2>3, <1>3, <1>4, <1>5
<1> HIDE DEF a, b
<1>7. Lsh(w, r) = b * e /\ Rsh(w, m) = a
  <2>1. Rsh(w, m) = a
    BY DEF Rsh, a
  <2>2. w * e = a * Word + b * e
    <3> HIDE DEF e, h
    <3>1. (a * h + b) * e = a * (h * e) + b * e
      BY <1>3, <1>5, <1>6
    <3> QED
      BY <3>1, <1>3, <1>5
  <2>3. b * e \in 0..(Word - 1)
    <3> HIDE DEF e, h
    <3> DEFINE zero == 0
    <3>1. zero \in 0..(e - 1)
      BY <1>3
    <3>2. b * e + zero = b * e
      BY <1>3, <1>6
    <3> HIDE DEF zero
    <3>3. b * e + zero \in 0..(h * e - 1)
      BY <3>1, <1>3, <1>5, Compose
    <3> QED
      BY <3>2, <3>3, <1>3
  <2>4. w * e \in Int
    <3> HIDE DEF e
    <3> QED
      BY <1>3, <1>4
  <2>5. (w * e) % Word = b * e
    <3> DEFINE x == w * e
               c == b * e
    <3>1. x \in Int /\ x = a * Word + c /\ c \in 0..(Word - 1) /\ a \in Int
      BY <2>2, <2>3, <2>4, <1>5
    <3> HIDE DEF x, c
    <3>2. x % Word = c
      BY <3>1, <1>1, DivMod
    <3> QED
      BY <3>2 DEF x, c
  <2> QED
    BY <2>1, <2>5 DEF Lsh
<1>8. RotateLeft(w, r) = b * e + a
  <2>1. Or(WordBits, b * 2 ^ r, a) = b * 2 ^ r + a
    BY <1>1, <1>5, <1>6, OrApart
  <2> QED
    BY <2>1, <1>7 DEF RotateLeft
<1> QED
  BY <1>3, <1>5, <1>6, <1>8 DEF m, a, b

\* A rotation by r bits and one by the rest of them.
LEMMA RotateBack ==
  ASSUME NEW w \in Words, NEW r \in 0..WordBits
  PROVE  RotateLeft(w, r) \in Words /\ RotateLeft(RotateLeft(w, r), WordBits - r) = w
<1> DEFINE m == WordBits - r
           e == 2 ^ r
           h == 2 ^ m
           a == w \div h
           b == w % h
<1>1. WordBits \in Nat /\ Word = 2 ^ WordBits /\ Word \in Nat \ {0}
  BY WordFacts
<1>2. r \in Nat /\ m \in Nat /\ m \in 0..WordBits /\ WordBits - m = r
  BY <1>1
<1>3. /\ e \in Nat \ {0} /\ h \in Nat \ {0} /\ Word = h * e /\ Word = e * h
      /\ a \in 0..(e - 1) /\ b \in 0..(h - 1) /\ w = a * h + b
      /\ RotateLeft(w, r) = b * e + a
  BY RotateParts
<1>5. a \in Nat /\ b \in 0..(h - 1) /\ w = a * h + b
  BY <1>3
<1>6. a \in 0..(e - 1) /\ b \in Nat
  BY <1>3
<1> HIDE DEF a, b
<1>8. RotateLeft(w, r) = b * e + a
  BY <1>3
<1> DEFINE v == b * e + a
<1>9. v \in 0..(Word - 1)
  <2> HIDE DEF e, h
  <2> QED
    BY <1>3, <1>5, <1>6, Compose
<1>10. v \in Nat
  BY <1>1, <1>9
<1>11. v * h = b * Word + a * h
  <2> HIDE DEF e, h
  <2>1. (b * e + a) * h = b * (e * h) + a * h
    BY <1>3, <1>5, <1>6
  <2> QED
    BY <2>1, <1>3
<1>12. a * h \in 0..(Word - 1)
  <2> HIDE DEF e, h
  <2> DEFINE zero == 0
  <2>1. zero \in 0..(h - 1)
    BY <1>3
  <2>2. a * h + zero = a * h
    BY <1>3, <1>5
  <2> HIDE DEF zero
  <2>3. a * h + zero \in 0..(e * h - 1)
    BY <2>1, <1>3, <1>6, Compose
  <2> QED
    BY <2>2, <2>3, <1>3
<1>13. Lsh(v, m) = a * h
  <2> DEFINE x == v * h
  <2>1. x \in Int
    <3> HIDE DEF h, v
    <3> QED
      BY <1>3, <1>10
  <2>2. x = b * Word + a * h
    BY <1>11
  <2> DEFINE c == a * h
  <2>3. x = b * Word + c /\ c \in 0..(Word - 1) /\ b \in Int
    BY <2>2, <1>6, <1>12
  <2> HIDE DEF x, c
  <2>4. x % Word = c
    BY <2>1, <2>3, <1>1, DivMod
  <2> QED
    BY <2>4 DEF x, c, Lsh
<1>14. Rsh(v, r) = b
  <2> HIDE DEF e
  <2>1. v \in Int /\ v = b * e + a /\ b \in Int
    BY <1>6, <1>10
  <2> HIDE DEF v
  <2>2. v \div e = b
    BY <2>1, <1>3, <1>6, DivMod
  <2> QED
    BY <2>2 DEF Rsh, e
<1> HIDE DEF v
<1>15. RotateLeft(v, m) = a * h + b
  <2>1. /\ m \in 0..WordBits /\ b \in 0..(2 ^ m - 1) /\ a \in 0..(2 ^ (WordBits - m) - 1)
    BY <1>2, <1>5, <1>6
  <2>2. Or(WordBits, a * 2 ^ m, b) = a * 2 ^ m + b
    BY <2>1, <1>1, OrApart
  <2>3. RotateLeft(v, m) = Or(WordBits, Lsh(v, m), Rsh(v, r))
    BY <1>2 DEF RotateLeft
  <2> QED
    BY <2>2, <2>3, <1>13, <1>14
<1> QED
  BY <1>5, <1>8, <1>9, <1>15 DEF v, Words

\* A number cut in two: a counts the w's in it, b is what is left.
Cut(n, w, a, b) ==
  w \in Nat \ {0} /\ a \in Nat /\ b \in 0..(w - 1) /\ n \in Nat /\ n = a * w + b

LEMMA CutDiv ==
  ASSUME NEW n, NEW w, NEW a, NEW b, Cut(n, w, a, b)
  PROVE  n \div w = a
<1>1. w \in Nat \ {0} /\ a \in Int /\ b \in 0..(w - 1) /\ n \in Int /\ n = a * w + b
  BY DEF Cut
<1> QED
  BY <1>1, DivMod

\* The bits above the lowest m are those of the quotient.
LEMMA BitUpper ==
  ASSUME NEW m \in Nat, NEW j \in Nat,
         NEW n, NEW w, NEW a, NEW b, Cut(n, w, a, b), w = 2 ^ m
  PROVE  Bit(n, m + j) = Bit(a, j)
<1> DEFINE k == m + j
           e == 2 ^ j
<1>1. k \in Nat /\ m <= k /\ k - m = j
  OBVIOUS
<1>2. e \in Nat \ {0} /\ 2 ^ k = e * w
  <2> HIDE DEF k
  <2>1. 2 ^ m \in Nat \ {0} /\ 2 ^ (k - m) \in Nat \ {0} /\ 2 ^ k = 2 ^ (k - m) * 2 ^ m
    BY <1>1, TwoSplit
  <2> QED
    BY <1>1, <2>1, Zenon
<1>3. n \in Nat /\ w \in Nat \ {0}
  BY DEF Cut
<1>4. n \div w = a
  BY CutDiv
<1> HIDE DEF k, e
<1>5. (n \div w) \div e = n \div (e * w)
  BY <1>2, <1>3, DivTwice, ZenonT(60)
<1>6. n \div 2 ^ k = a \div 2 ^ j
  BY <1>2, <1>4, <1>5, Zenon DEF e
<1> QED
  BY <1>6, Zenon DEF Bit, k

\* The bits below the lowest m are those of the rest.
LEMMA BitLower ==
  ASSUME NEW m \in Nat, NEW k \in 0..(m - 1),
         NEW n, NEW w, NEW a, NEW b, Cut(n, w, a, b), w = 2 ^ m
  PROVE  Bit(n, k) = Bit(b, k)
<1>1. a \in Nat /\ b \in Nat /\ n = a * w + b
  BY DEF Cut
<1>2. Bit(a * 2 ^ m + b, k) = Bit(b, k)
  BY <1>1, BitLow
<1> QED
  BY <1>1, <1>2, Zenon

\* Bit k of a word is bit k + r of the word rotated by r.
LEMMA RotateBits ==
  ASSUME NEW w \in Words, NEW r \in 0..WordBits, NEW k \in 0..(WordBits - 1)
  PROVE  Bit(RotateLeft(w, r), (k + r) % WordBits) = Bit(w, k)
<1> DEFINE m == WordBits - r
           e == 2 ^ r
           h == 2 ^ m
           a == w \div h
           b == w % h
           v == RotateLeft(w, r)
<1>1. WordBits \in Nat \ {0} /\ r \in Nat /\ m \in Nat /\ k \in Nat /\ m = WordBits - r
  BY WordFacts
<1>2. /\ e \in Nat \ {0} /\ h \in Nat \ {0}
      /\ a \in 0..(e - 1) /\ b \in 0..(h - 1) /\ w = a * h + b /\ v = b * e + a
  BY RotateParts
<1>3. e = 2 ^ r /\ h = 2 ^ m
  OBVIOUS
<1> HIDE DEF a, b, m, e, h, v
<1>4. Cut(w, h, a, b) /\ Cut(v, e, b, a)
  <2>1. a \in Nat /\ b \in Nat /\ w \in Nat /\ v \in Nat
    BY <1>2
  <2> QED
    BY <1>2, <2>1, Zenon DEF Cut
<1>5. CASE k < m
  <2>1. (k + r) % WordBits = r + k
    <3>1. k + r \in 0..(WordBits - 1) /\ k + r = r + k
      BY <1>1, <1>5
    <3> QED
      BY <3>1, <1>1, RestOnce
  <2>2. Bit(v, r + k) = Bit(b, k)
    BY <1>1, <1>3, <1>4, BitUpper
  <2>3. k \in 0..(m - 1)
    BY <1>1, <1>5
  <2>4. Bit(w, k) = Bit(b, k)
    BY <2>3, <1>1, <1>3, <1>4, BitLower
  <2> QED
    BY <2>1, <2>2, <2>4, Zenon DEF v
<1>6. CASE ~(k < m)
  <2> DEFINE j == k - m
  <2>1. j \in Nat /\ j \in 0..(r - 1) /\ m + j = k
    BY <1>1, <1>6
  <2>2. (k + r) % WordBits = j
    <3>1. j \in 0..(WordBits - 1) /\ k + r = j + WordBits
      BY <2>1, <1>1
    <3> HIDE DEF j
    <3>2. (j + WordBits) % WordBits = j
      BY <3>1, <1>1, RestOnce
    <3> QED
      BY <3>1, <3>2
  <2> HIDE DEF j
  <2>3. Bit(v, j) = Bit(a, j)
    BY <2>1, <1>1, <1>3, <1>4, BitLower
  <2>4. Bit(w, m + j) = Bit(a, j)
    BY <2>1, <1>1, <1>3, <1>4, BitUpper
  <2> QED
    BY <2>1, <2>2, <2>3, <2>4, Zenon DEF v
<1> QED
  BY <1>5, <1>6

=============================================================================

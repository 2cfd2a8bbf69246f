-------------------------------- MODULE Pow ---------------------------------
(***************************************************************************)
(* The computations around the proofs of work: targets and difficulties    *)
(* (kaspow/src/lib.rs, kaspow/math/src/lib.rs, src/src/util.rs), the       *)
(* matrix of kHeavyHash and the generator that fills it                    *)
(* (kaspow/src/matrix.rs, xoshiro.rs), and bitcoin's merkle root           *)
(* (src/src/btc/pow.rs).  Hash functions are left out.                     *)
(***************************************************************************)
EXTENDS Uint, FiniteSetsExt

CONSTANTS
  MantBytes,    \* bytes of a compact target's mantissa (3)
  N,            \* size of the matrix (64)
  NibbleBits,   \* bits of an entry and of half a byte (4)
  Precision, Coarsest, Finest, \* an f64's bits and the places of its last bit (53, 971, 1074)
  EpsInverse,   \* 1 / EPS (10^9)
  SumShift,     \* by which a row's sum is cut (10)
  RotA, RotB,   \* the generator's rotations (23 and 45)
  Shl           \* and its shift (17)

Nibble == 2 ^ NibbleBits
Octet  == 2 ^ (2 * NibbleBits)    \* of a byte of a hash

\* Uint320, one word longer than Uint256.
Wide == INSTANCE Uint WITH Limbs <- Limbs + 1

Widen(x)  == [i \in 0..Limbs |-> IF i = Limbs THEN 0 ELSE x[i]]
Narrow(x) == [i \in Index |-> x[i]]
\* Uint256::try_from(Uint320): none, or one.
TryNarrow(x) == IF x[Limbs] # 0 THEN {} ELSE {Narrow(x)}

-----------------------------------------------------------------------------
(* Targets and difficulties *)

\* target2difficulty, which takes a difficulty to its target as well; t # 0.
Target2Difficulty(t) ==
  IF EqU64(t, 1) THEN MAX
  ELSE Narrow(Wide!DivRem(Wide!OverflowingShl(Wide!FromU64(1), BITS).val, Widen(t)).quo)

\* util.rs, target_to_difficulty and difficulty_to_target, on integers below
\* Size (U256 is another crate's).
TargetToDifficulty(d) ==
  IF d <= 1 THEN Size - 1 ELSE ((Size \div 2) \div d) * 2

\* Compact targets: the mantissa and the exponent of a u32, which has room for
\* any exponent.
CompactBits == ByteBits * MantBytes + BITS
\* How many numbers k bytes have room for.
Room(k) == 2 ^ (ByteBits * k)
Mant(c) == c % Room(MantBytes)
Expt(c) == c \div Room(MantBytes)

\* from_compact_target_bits: a mantissa with its highest bit set is negative.
FromCompact(c) ==
  LET small == Expt(c) <= MantBytes
      mant  == IF small THEN Rsh(Mant(c), ByteBits * (MantBytes - Expt(c))) ELSE Mant(c)
      expt  == IF small THEN 0 ELSE ByteBits * (Expt(c) - MantBytes)
  IN  IF 2 * mant >= Room(MantBytes) THEN ZERO ELSE OverflowingShl(FromU64(mant), expt).val

\* Mutant of Compact: the mantissa's sign is not looked at.
CompactSigned(x) ==
  LET size == (Bits(x) + ByteBits - 1) \div ByteBits
      word == IF size <= MantBytes THEN Lsh(AsU64(x), ByteBits * (MantBytes - size))
              ELSE AsU64(OverflowingShr(x, ByteBits * (size - MantBytes)).val)
  IN  Or(CompactBits, word % Room(MantBytes + 1), size * Room(MantBytes))

\* compact_target_bits: a mantissa that would look negative is one byte shorter.
Compact(x) ==
  LET size == (Bits(x) + ByteBits - 1) \div ByteBits
      word == IF size <= MantBytes THEN Lsh(AsU64(x), ByteBits * (MantBytes - size))
              ELSE AsU64(OverflowingShr(x, ByteBits * (size - MantBytes)).val)
      mant == word % Room(MantBytes + 1)
  IN  IF 2 * Mant(mant) >= Room(MantBytes)
      THEN Or(CompactBits, Rsh(mant, ByteBits), (size + 1) * Room(MantBytes))
      ELSE Or(CompactBits, mant, size * Room(MantBytes))

-----------------------------------------------------------------------------
(* The rank of a matrix *)

Rows == 1..N

\* Fractions, which are not brought to lowest terms.
Fracs == [n : Int, d : Int \ {0}]
FracDiv(a, b)    == [n |-> a.n * b.d, d |-> a.d * b.n]
FracMul(a, b)    == [n |-> a.n * b.n, d |-> a.d * b.d]
FracMinus(a, b)  == [n |-> a.n * b.d - b.n * a.d, d |-> a.d * b.d]
Positive(n)      == IF n < 0 THEN -n ELSE n

\* 2^e, or 1 if e is negative.
Power(e) == 2 ^ (IF e > 0 THEN e ELSE 0)
\* The magnitude of f in units of 2^-e, and the integer nearest to such a fraction:
\* of two as near, the even one.
Scaled(f, e) == [n |-> Positive(f.n) * Power(e), d |-> Positive(f.d) * Power(-e)]
Floor(q)   == q.n \div q.d
Nearest(q) ==
  LET twice == 2 * (q.n - Floor(q) * q.d)
  IN  IF twice > q.d \/ (twice = q.d /\ Floor(q) % 2 = 1) THEN Floor(q) + 1 ELSE Floor(q)

\* An f64 is the fraction it stands for, and what an operation gives is the float
\* nearest to the exact result.  The place of its last bit is the finest that leaves
\* it no more than Precision bits, be it normal or subnormal; infinities are left out.
LastPlace(f) ==
  Max({-Coarsest} \cup {e \in (-Coarsest)..Finest : Floor(Scaled(f, e)) < 2 ^ Precision})
Round(f) ==
  LET place == LastPlace(f)
      near  == Nearest(Scaled(f, place)) * Power(-place)
  IN  [n |-> IF (f.n < 0) = (f.d < 0) THEN near ELSE -near, d |-> Power(place)]

\* Mutant of Above: whatever is not 0 is taken for a pivot.
AboveNothing(f) == f.n # 0

\* abs() > EPS
Above(f) == Positive(f.n) * EpsInverse > Positive(f.d)

\* Mutant of Column: a row that was selected can be selected again.
ColumnAgain(st, i) ==
  LET free == {j \in Rows : Above(st.m[j][i])}
      j == Min(free)
      pivot == [p \in Rows |-> IF p > i THEN Round(FracDiv(st.m[j][p], st.m[j][i])) ELSE st.m[j][p]]
      Row(k) == IF k = j THEN pivot
                ELSE [p \in Rows |-> IF p > i /\ Above(st.m[k][i])
                        THEN Round(FracMinus(st.m[k][p], Round(FracMul(pivot[p], st.m[k][i]))))
                        ELSE st.m[k][p]]
  IN  IF free = {} THEN st
      ELSE [m |-> [k \in Rows |-> Row(k)], rank |-> st.rank + 1, selected |-> st.selected \cup {j}]

\* compute_rank's turn for column i: the first row not selected before with a
\* pivot is divided by it and taken off all other rows, right of the column.
Column(st, i) ==
  LET free == {j \in Rows \ st.selected : Above(st.m[j][i])}
      j == Min(free)
      pivot == [p \in Rows |-> IF p > i THEN Round(FracDiv(st.m[j][p], st.m[j][i])) ELSE st.m[j][p]]
      Row(k) == IF k = j THEN pivot
                ELSE [p \in Rows |-> IF p > i /\ Above(st.m[k][i])
                        THEN Round(FracMinus(st.m[k][p], Round(FracMul(pivot[p], st.m[k][i]))))
                        ELSE st.m[k][p]]
  IN  IF free = {} THEN st
      ELSE [m |-> [k \in Rows |-> Row(k)], rank |-> st.rank + 1, selected |-> st.selected \cup {j}]

\* What compute_rank keeps: the matrix, the rank so far and row_selected.
RankStates == [m : [Rows -> [Rows -> Fracs]], rank : Nat, selected : SUBSET Rows]

\* compute_rank after each of its columns.
Ranking(mat) ==
  LET first == [m |-> [j \in Rows |-> [p \in Rows |-> [n |-> mat[j][p], d |-> 1]]],
                rank |-> 0, selected |-> {}]
      turn == [i \in 0..(N - 1) |-> [st \in RankStates |-> Column(st, i + 1)]]
  IN  Repeat(N, first, turn)
RankAfter(mat, columns) == Ranking(mat)[columns].rank

-----------------------------------------------------------------------------
(* heavy_hash up to its last hash *)

\* The hash's bytes are taken apart into nibbles, the high one first.
NibbleOf(hash, j) ==
  IF j % 2 = 1 THEN hash[(j + 1) \div 2] \div Nibble ELSE hash[j \div 2] % Nibble

\* A row times the nibbles, cut to one nibble.
Sum(mat, hash, row) ==
  LET turn == [j \in 0..(N - 1) |-> [sum \in Nat |->
                 sum + mat[row][j + 1] * NibbleOf(hash, j + 1)]]
  IN  Rsh(Repeat(N, 0, turn)[N], SumShift)

\* Two rows make a byte, which is xored with the hash's.
Heavy(mat, hash) ==
  LET Both(i) == Or(2 * NibbleBits, (Sum(mat, hash, 2 * i - 1) * Nibble) % Octet,
                                    Sum(mat, hash, 2 * i) % Octet)
  IN  [i \in 1..(N \div 2) |-> Xor(2 * NibbleBits, Both(i), hash[i])]

-----------------------------------------------------------------------------
(* The generator XoShiRo256PlusPlus, on words of WordBits bits *)

XorU64(a, b) == Xor(WordBits, a, b)
RotateLeft(w, s) == Or(WordBits, Lsh(w, s), Rsh(w, WordBits - s))

Seeds == [s0 : Words, s1 : Words, s2 : Words, s3 : Words]

\* Mutant of Output: the sum without the rotation, as in XoShiRo256Plus.
OutputPlus(s) == (s.s0 + s.s3) % Word

\* What one call of u64() leaves, and what it returns.
NextSeed(s) ==
  LET s2 == XorU64(s.s2, s.s0)
      s3 == XorU64(s.s3, s.s1)
  IN  [s0 |-> XorU64(s.s0, s3), s1 |-> XorU64(s.s1, s2),
       s2 |-> XorU64(s2, Lsh(s.s1, Shl)), s3 |-> RotateLeft(s3, RotB)]
Output(s) == (s.s0 + RotateLeft((s.s0 + s.s3) % Word, RotA)) % Word

\* rand_matrix_no_rank_check: a row takes so many words, and a word's nibbles are
\* entries from the low one on.
PerWord == WordBits \div NibbleBits
PerRow  == N \div PerWord
Draw(s) ==
  LET seeds == Repeat(N * PerRow, s, [k \in 0..(N * PerRow - 1) |-> [t \in Seeds |-> NextSeed(t)]])
      Val(i, j) == Output(seeds[(i - 1) * PerRow + (j - 1) \div PerWord])
  IN  [m |-> [i \in Rows |-> [j \in Rows |->
                Rsh(Val(i, j), NibbleBits * ((j - 1) % PerWord)) % Nibble]],
       seed |-> seeds[N * PerRow]]

-----------------------------------------------------------------------------
(* cal_merkle_root_by_branch; a hash of two hashes is the pair of them *)

\* The first two hashes are replaced by their hash until one is left.
MerkleRoot(hashes) ==
  LET root[i \in 1..Len(hashes)] == IF i = 1 THEN hashes[1] ELSE <<root[i - 1], hashes[i]>>
  IN  root[Len(hashes)]

=============================================================================

------------------------------- MODULE Arith --------------------------------
(***************************************************************************)
(* The operators of Uint and Pow put to the test: every state but the      *)
(* first holds one input, and the invariants compare what the code's       *)
(* algorithm computes of it with a reference on plain integers.            *)
(***************************************************************************)
EXTENDS Pow

CONSTANTS
  Numbers, Seconds,    \* Uints of pairs: left and right
  Entries,             \* entries of a matrix
  Leaves,              \* numbers of leaves of a merkle tree
  HN,                  \* size of a matrix for hashing, twice a hash's bytes
  DN, DNibbleBits,     \* size of a matrix that is drawn, and the bits of its entries
  CWordBits, CByteBits, CMantBytes   \* sizes for compact targets

ASSUME SizesAssumption ==
  /\ Numbers \subseteq Uints /\ Seconds \subseteq Uints
  /\ Leaves \subseteq Nat \ {0}
  /\ CWordBits \in Nat \ {0} /\ CByteBits \in Nat \ {0} /\ CMantBytes \in Nat
  /\ CWordBits % CByteBits = 0
  \* a mantissa is more than its sign's byte, and a word holds the u32
  /\ CMantBytes >= 2 /\ CByteBits * (CMantBytes + 1) <= CWordBits

ASSUME MatrixAssumption == N \in Nat /\ Entries \subseteq Int

ASSUME FloatAssumption ==
  Precision \in Nat /\ Coarsest \in Nat /\ Finest \in Nat /\ EpsInverse \in Nat

ASSUME HashAssumption ==
  /\ HN \in Nat \ {0} /\ HN % 2 = 0
  /\ RotA \in 0..WordBits /\ RotB \in 0..WordBits /\ Shl \in Nat \ {0}
  /\ NibbleBits \in Nat /\ SumShift \in Nat
  \* the greatest sum leaves one nibble: 64 * 15 * 15 < 16 * 2^10
  /\ HN * (Nibble - 1) * (Nibble - 1) < Nibble * 2 ^ SumShift

\* A word is so many nibbles, and a row so many words.
ASSUME DrawAssumption ==
  /\ DN \in Nat \ {0} /\ DNibbleBits \in Nat \ {0}
  /\ WordBits % DNibbleBits = 0 /\ DN % (WordBits \div DNibbleBits) = 0

\* Numbers of two longer words, for compact targets.
C == INSTANCE Pow WITH WordBits <- CWordBits, ByteBits <- CByteBits,
                       MantBytes <- CMantBytes, Limbs <- 2
\* A matrix of another size for hashing.
H == INSTANCE Pow WITH N <- HN
\* And one for drawing, with nibbles of other bits.
Drawn == INSTANCE Pow WITH N <- DN, NibbleBits <- DNibbleBits

VARIABLE input     \* the input under test, or one with kind "none"

Init == input = [kind |-> "none"]

Is(kind) == input.kind = kind

OneNumber  == \E x \in Uints : input' = [kind |-> "number", x |-> x]
TwoNumbers == \E x \in Numbers, y \in Seconds : input' = [kind |-> "pair", x |-> x, y |-> y]
LongNumber == \E n \in 0..(C!Size - 1) :
                input' = [kind |-> "long", n |-> n,
                          x |-> [i \in 0..1 |-> (n \div 2 ^ (CWordBits * i)) % C!Word]]
AMatrix    == \E m \in [Rows -> [Rows -> Entries]] : input' = [kind |-> "matrix", m |-> m]
AHash      == \E m \in [1..HN -> [1..HN -> 0..(Nibble - 1)]], v \in [1..HN -> 0..(Nibble - 1)] :
                input' = [kind |-> "hash", m |-> m, v |-> v,
                          hash |-> [i \in 1..(HN \div 2) |-> Nibble * v[2 * i - 1] + v[2 * i]]]
ASeed      == \E s \in Seeds : input' = [kind |-> "seed", s |-> s]
ATree      == \E n \in Leaves : input' = [kind |-> "tree", leaves |-> [i \in 1..n |-> <<i>>]]

Next ==
  /\ Is("none")
  /\ OneNumber \/ TwoNumbers \/ LongNumber \/ AMatrix \/ AHash \/ ASeed \/ ATree

Spec == Init /\ [][Next]_input

-----------------------------------------------------------------------------
(* Reference definitions *)

\* The sum of t's numbers for all rows, or all columns.
Total(t) == Repeat(N, 0, [i \in 0..(N - 1) |-> [sum \in Int |-> sum + t[i + 1]]])[N]

\* How many of K are behind k, odd or even: the sign in an expansion.
Sign(K, k) == IF Cardinality({q \in K : q > k}) % 2 = 0 THEN 1 ELSE -1

\* The determinants of m's minors: of the rows in R and the columns in K, by its
\* last row.
Det(m) ==
  LET det[R \in SUBSET Rows] ==
        [K \in SUBSET Rows |->
           IF R = {} THEN 1
           ELSE Total([k \in Rows |->
                  IF k \in K THEN Sign(K, k) * m[Max(R)][k] * det[R \ {Max(R)}][K \ {k}] ELSE 0])]
  IN  det
\* The rank of the first c columns: the size of their largest minor that is not 0.
Rank(m, c) ==
  Max({Cardinality(R) : R \in {R \in SUBSET Rows :
         \E K \in SUBSET (1..c) : Cardinality(K) = Cardinality(R) /\ Det(m)[R][K] # 0}})

\* What was s if NextSeed leaves n: s1 is what remains of s1 ^ (s1 << Shl) when
\* all its shifts are xored.
Before(n) ==
  LET rot == RotateLeft(n.s3, WordBits - RotB)
      mix == XorU64(n.s1, n.s2)
      turn == [k \in 0..(WordBits - 1) |-> [acc \in Words |-> XorU64(acc, Lsh(mix, k * Shl))]]
      s0 == XorU64(n.s0, rot)
      s1 == Repeat(WordBits, 0, turn)[WordBits]
  IN  [s0 |-> s0, s1 |-> s1, s2 |-> XorU64(XorU64(n.s1, s0), s1), s3 |-> XorU64(rot, s1)]

\* A word rotated by k: its bits make a number modulo Word - 1.
Turned(x, k) == IF x = Word - 1 THEN x ELSE (x * 2 ^ k) % (Word - 1)

\* The product of two vectors of HN numbers.
Dot(u, v) ==
  LET turn == [j \in 0..(HN - 1) |-> [sum \in Nat |-> sum + u[j + 1] * v[j + 1]]]
  IN  Repeat(HN, 0, turn)[HN]

-----------------------------------------------------------------------------
(* Numbers of several words *)

\* Sums and differences are those of the numbers modulo Size, with the flag
\* exactly when they leave the range, whatever the carries between limbs
\* (overflowing_add, overflowing_add_u64, overflowing_sub).
SumsExact ==
  Is("pair") =>
    LET X == Value(input.x)
        Y == Value(input.y)
        Exact(r, n) == Value(r.val) = n % Size /\ (r.carry = 1) = (n # n % Size)
    IN  /\ Exact(OverflowingAdd(input.x, input.y), X + Y)
        /\ Exact(OverflowingAddU64(input.x, input.y[0]), X + input.y[0])
        /\ Exact(OverflowingSub(input.x, input.y), X - Y)

\* Products are right modulo Size; the word carried out of a product by a word
\* is its high word; overflowing_mul's flag never blames a product that fits.
ProductsExact ==
  Is("pair") =>
    LET X == Value(input.x)
        p == OverflowingMul(input.x, input.y)
        w == CarryingMulU64(input.x, input.y[0])
    IN  /\ Value(p.val) = (X * Value(input.y)) % Size
        /\ p.flag => X * Value(input.y) >= Size
        /\ Value(w.val) = (X * input.y[0]) % Size
        /\ w.carry = (X * input.y[0]) \div Size

\* A shift by s multiplies or divides by 2^s and drops what leaves the number;
\* only from BITS on it is flagged, and then the shift is s modulo BITS.
ShiftsExact ==
  Is("number") =>
    \A s \in 0..(2 * BITS) :
      LET X == Value(input.x)
          l == OverflowingShl(input.x, s)
          r == OverflowingShr(input.x, s)
      IN  /\ Value(l.val) = (X * 2 ^ (s % BITS)) % Size
          /\ Value(r.val) = X \div 2 ^ (s % BITS)
          /\ l.flag = (s >= BITS) /\ r.flag = l.flag

\* cmp and the comparisons with a word order numbers by value, though limbs
\* are stored the lowest first; bits() is the length of the value and
\* iter_be_bits its digits.
OrderExact ==
  Is("pair") =>
    LET X == Value(input.x)
    IN  /\ Less(input.x, input.y) = (X < Value(input.y))
        /\ \A n \in Words : LessU64(input.x, n) = (X < n) /\ EqU64(input.x, n) = (X = n)
        /\ 2 ^ Bits(input.x) > X /\ (X > 0 => 2 ^ (Bits(input.x) - 1) <= X)
        /\ \A b \in 0..(BITS - 1) : BeBit(input.x, b) = (X \div 2 ^ (BITS - 1 - b)) % 2

\* The bytes of a number are its digits, and the number is read back from
\* them in the order they were written (from_le_bytes, to_be_bytes, ...).
BytesExact ==
  Is("number") =>
    LET le == ToLeBytes(input.x)
        be == ToBeBytes(input.x)
    IN  /\ \A b \in DOMAIN le : /\ le[b] = (Value(input.x) \div 2 ^ (ByteBits * b)) % Byte
                               /\ be[BYTES - 1 - b] = le[b]
        /\ FromLeBytes(le) = input.x /\ FromBeBytes(be) = input.x

\* Sums, products, shifts, order and bytes of multi-word integers are those of
\* the numbers they stand for, over all carries between limbs.
UintExact == SumsExact /\ ProductsExact /\ ShiftsExact /\ OrderExact /\ BytesExact

\* Quotient and remainder are those of the numbers: the bitwise long division
\* never drops a bit of the shifted divisor (div_rem, div_rem_u64).
QuotientsExact ==
  Is("pair") =>
    LET X == Value(input.x)
        Y == Value(input.y)
        n == input.y[0]
    IN  /\ Y # 0 => LET d == DivRem(input.x, input.y)
                    IN  Value(d.quo) = X \div Y /\ Value(d.rem) = X % Y
        /\ n # 0 => LET d == DivRemU64(input.x, n)
                    IN  Value(d.val) = X \div n /\ d.carry = X % n

\* mod_inverse finds the inverse whenever there is one and says none
\* otherwise; products and signs of its loop never overflow.
InverseExact ==
  Is("pair") =>
    LET X == Value(input.x)
        P == Value(input.y)
    IN  P >= 2 =>
          LET inv == ModInverse(input.x, input.y)
          IN  IF inv = {} THEN \A k \in 1..(P - 1) : (X * k) % P # 1
              ELSE \A v \in inv : Value(v) < P /\ ((X % P) * Value(v)) % P = 1

\* Division is exact, of naturals and modulo a prime.
DivisionExact == QuotientsExact /\ InverseExact

\* overflowing_mul's flag tells every product that does not fit: the claim of
\* Mul::mul ("Check in debug that it didn't overflow", uint.rs:452), which the
\* code breaks.
MulFlagExact ==
  Is("pair") =>
    OverflowingMul(input.x, input.y).flag = (Value(input.x) * Value(input.y) >= Size)

-----------------------------------------------------------------------------
(* Targets, the matrix, the generator and the merkle root *)

\* A compact target is the greatest one that is not above the number: packing
\* and unpacking a target never makes it easier (compact_target_bits,
\* from_compact_target_bits).
CompactExact ==
  Is("long") =>
    LET back == C!Value(C!FromCompact(C!Compact(input.x)))
        half == C!Room(CMantBytes) \div 2
    IN  /\ back <= input.n
        /\ \A mant \in 0..(half - 1), e \in 0..(C!BYTES - 1) :
             ~(back < mant * C!Room(e) /\ mant * C!Room(e) <= input.n)

\* target2difficulty divides Size by a target with one word more than the
\* quotient has, and saturates for 1; util.rs halves, divides and doubles
\* instead and is at most 1 below that.
TargetRight ==
  Is("number") =>
    LET X == Value(input.x)
        t == Value(Target2Difficulty(input.x))
    IN  X # 0 => /\ t = IF X = 1 THEN Size - 1 ELSE Size \div X
                 /\ TargetToDifficulty(X) \in {t - 1, t}

\* Targets survive their conversions to compact ones and to difficulties, but for
\* what the form has no room for.
TargetsExact == CompactExact /\ TargetRight

\* Each time compute_rank asks whether what is left of a column in a row not yet
\* selected is more than EPS, the answer is whether the row is independent of those
\* selected: what is left is a quotient of minors, no quotient is so small that it
\* is taken for 0, and rounding leaves no rest of a 0 that is taken for a pivot.
Tested(m) ==
  LET run == Ranking(m)
  IN  \A c \in Rows :
        LET st    == run[c - 1]
            taken == {k \in 1..(c - 1) : run[k].rank > run[k - 1].rank}
        IN  \A j \in Rows \ st.selected :
              Above(st.m[j][c]) <=> Det(m)[st.selected \cup {j}][taken \cup {c}] # 0
TestsRight == Is("matrix") => Tested(input.m)

\* compute_rank counts the rank of the columns it has been through: a column
\* skipped and rows kept in place lose and gain nothing.
RankRight ==
  Is("matrix") => \A c \in 0..N : RankAfter(input.m, c) = Rank(input.m, c)

\* What heavy_hash puts into a byte are the high bits of two rows' products with
\* the hash's nibbles, side by side: no product is so large that it runs into the
\* other or out of the byte, nor are the nibbles or the rows swapped.
HeavyRight ==
  Is("hash") =>
    LET High(row) == Dot(input.m[row], input.v) \div 2 ^ SumShift
    IN  \A i \in 1..(HN \div 2) :
          Xor(2 * NibbleBits, H!Heavy(input.m, input.hash)[i], input.hash[i])
            = Nibble * High(2 * i - 1) + High(2 * i)

\* The generator is reversible, so that it never falls into the state of all
\* zeroes, from which Matrix::generate would draw the same singular matrix
\* for ever.
SeedReversible == Is("seed") => Before(NextSeed(input.s)) = input.s

\* The generator's step bit by bit: its words are sums of bits modulo 2, one of them
\* shifted and one rotated; and what it read before the step is not overwritten.
StepRight ==
  Is("seed") =>
    LET s == input.s
        n == NextSeed(s)
    IN  \A b \in 0..(WordBits - 1) :
          /\ Bit(n.s0, b) = (Bit(s.s0, b) + Bit(s.s1, b) + Bit(s.s3, b)) % 2
          /\ Bit(n.s1, b) = (Bit(s.s0, b) + Bit(s.s1, b) + Bit(s.s2, b)) % 2
          /\ Bit(n.s2, b) = (Bit(s.s0, b) + Bit(s.s2, b)
                               + IF b >= Shl THEN Bit(s.s1, b - Shl) ELSE 0) % 2
          /\ Bit(n.s3, (b + RotB) % WordBits) = (Bit(s.s1, b) + Bit(s.s3, b)) % 2

\* A matrix is drawn row by row: the nibbles of each word, the low one first, make
\* the sum s0 + rotl(s0 + s3) of the state before the word, and the next matrix
\* goes on with the state after the last one.
DrawRight ==
  Is("seed") =>
    LET d     == Drawn!Draw(input.s)
        per   == Drawn!PerWord
        count == DN * Drawn!PerRow
        seeds == Repeat(count, input.s, [k \in 0..(count - 1) |-> [t \in Seeds |-> NextSeed(t)]])
    IN  /\ d.seed = seeds[count]
        /\ \A i \in 1..DN, w \in 0..(Drawn!PerRow - 1) :
             LET s      == seeds[(i - 1) * Drawn!PerRow + w]
                 nibble == [k \in 0..(per - 1) |-> d.m[i][w * per + k + 1]]
             IN  /\ \A k \in 0..(per - 1) : nibble[k] \in 0..(Drawn!Nibble - 1)
                 /\ Number(per, DNibbleBits, nibble)
                      = (s.s0 + Turned((s.s0 + s.s3) % Word, RotA)) % Word

\* A tree of hashes level by level, an odd one paired with itself; and the
\* siblings on the way from the first leaf.
Level(row) == [i \in 1..((Len(row) + 1) \div 2) |->
                 <<row[2 * i - 1], row[IF 2 * i > Len(row) THEN 2 * i - 1 ELSE 2 * i]>>]
Levels(leaves) ==
  LET level[h \in 0..Len(leaves)] == IF h = 0 THEN leaves ELSE Level(level[h - 1])
  IN  level
Height(leaves) == CHOOSE h \in 0..Len(leaves) :
                    2 ^ h >= Len(leaves) /\ (h > 0 => 2 ^ (h - 1) < Len(leaves))
Branch(leaves) == [h \in 1..Height(leaves) |-> Levels(leaves)[h - 1][2]]

\* The branch a pool sends and the coinbase in front of it fold to the root of
\* the block's tree of transactions (cal_merkle_root_by_branch).
MerkleRight ==
  Is("tree") =>
    LET leaves == input.leaves
    IN  MerkleRoot(<<leaves[1]>> \o Branch(leaves)) = Levels(leaves)[Height(leaves)][1]

\* What goes into the hashes is what the pool computes: bitcoin's merkle root, and
\* for kHeavyHash the product with the matrix and the matrix as it is drawn.
HashedRight == MerkleRight /\ HeavyRight /\ SeedReversible /\ StepRight /\ DrawRight

=============================================================================

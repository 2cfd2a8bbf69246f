-------------------------------- MODULE Uint --------------------------------
(***************************************************************************)
(* The integers of several words that construct_uint! makes                *)
(* (src/kaspow/math/src/uint.rs, int.rs): a number is a function from      *)
(* limbs, the least significant first, to words of WordBits bits.          *)
(*                                                                         *)
(* Operators without state.  A loop over limbs is a function that carries  *)
(* the loop's local from one limb to the next.  What assertions would stop *)
(* in a debug build wraps, as in the release build.                        *)
(***************************************************************************)
EXTENDS Integers, Sequences

CONSTANTS
  WordBits,     \* bits of a word (64)
  ByteBits,     \* bits of a byte (8)
  Limbs         \* $n_words

ASSUME WordsAssumption ==
  /\ WordBits \in Nat \ {0} /\ ByteBits \in Nat \ {0} /\ Limbs \in Nat \ {0}
  /\ WordBits % ByteBits = 0

\* What is there after each of n turns: turn[i] maps what it finds.
Repeat(n, first, turn) ==
  LET at[i \in 0..n] == IF i = 0 THEN first ELSE turn[i - 1][at[i - 1]]
  IN  at

\* The sums of the first of n digits, each of so many bits, the lowest first;
\* and the number they make.
Sums(n, bits, digits) ==
  Repeat(n, 0, [i \in 0..(n - 1) |-> [sum \in Nat |-> sum + digits[i] * 2 ^ (bits * i)]])
Number(n, bits, digits) == Sums(n, bits, digits)[n]

\* Rust's | and ^ on numbers of n bits.
Bit(a, k) == (a \div 2 ^ k) % 2
Or(n, a, b) ==
  Number(n, 1, [k \in 0..(n - 1) |-> IF Bit(a, k) = 1 \/ Bit(b, k) = 1 THEN 1 ELSE 0])
Xor(n, a, b) ==
  Number(n, 1, [k \in 0..(n - 1) |-> IF Bit(a, k) # Bit(b, k) THEN 1 ELSE 0])

-----------------------------------------------------------------------------

Word  == 2 ^ WordBits
Words == 0..(Word - 1)
Index == 0..(Limbs - 1)
BITS  == Limbs * WordBits
Uints == [Index -> Words]
ZERO  == [i \in Index |-> 0]
MAX   == [i \in Index |-> Word - 1]

\* The number that a Uint stands for: the reference.
Value(x) == Number(Limbs, WordBits, x)
Size == 2 ^ BITS

FromU64(n) == [ZERO EXCEPT ![0] = n]
AsU64(x)   == x[0]
IsZero(x)  == \A i \in Index : x[i] = 0

-----------------------------------------------------------------------------
(* Loops over the limbs of x, from the lowest or from the highest, that      *)
(* replace limb after limb: turn[i][c] is what the loop does at limb i with  *)
(* carry c, the word it stores and the carry it leaves.                      *)

Loop(x, limb, turn) ==
  LET after[k \in 0..Limbs] ==
        IF k = 0 THEN [val |-> x, carry |-> 0]
        ELSE LET before == after[k - 1]
                 at     == turn[limb[k - 1]][before.carry]
             IN  [val |-> [before.val EXCEPT ![limb[k - 1]] = at.word], carry |-> at.carry]
  IN  after[Limbs]

Upwards(x, turn)   == Loop(x, [k \in Index |-> k], turn)
Downwards(x, turn) == Loop(x, [k \in Index |-> Limbs - 1 - k], turn)
\* A loop without carry, that fills a new number.
Each(words) ==
  Upwards(ZERO, [i \in Index |-> [c \in Nat |-> [word |-> words[i], carry |-> 0]]]).val

\* A step that leaves the low word of n and carries the rest.
Split(n) == [word |-> n % Word, carry |-> n \div Word]

\* carrying_add_u64: two overflowing additions, of which at most one carries.
CarryingAdd(l, r, c) ==
  LET a == Split(l + r)
      b == Split(a.word + c)
  IN  [word |-> b.word, carry |-> IF a.carry # b.carry THEN 1 ELSE 0]

\* borrowing_sub_u64, in the same way.
BorrowingSub(l, r, c) ==
  LET a == (l - r) % Word
  IN  [word |-> (a - c) % Word, carry |-> IF (l < r) # (a < c) THEN 1 ELSE 0]

OverflowingAdd(x, y) ==
  Upwards(x, [i \in Index |-> [c \in Nat |-> CarryingAdd(x[i], y[i], c)]])
OverflowingSub(x, y) ==
  Upwards(x, [i \in Index |-> [c \in Nat |-> BorrowingSub(x[i], y[i], c)]])

\* Addition of a word: the loop stops at the first limb without carry.
OverflowingAddU64(x, n) ==
  Upwards(x, [i \in Index |-> [c \in Nat |-> Split(x[i] + (IF i = 0 THEN n ELSE c))]])

CarryingMulU64(x, n) ==
  Upwards(x, [i \in Index |-> [c \in Nat |-> Split(c + n * x[i])]])

\* Mutant of MulRow: the row is not shifted to its limb.
MulRowHere(acc, x, y, j) ==
  Upwards(acc, [k \in Index |-> [c \in Nat |-> Split(x[k] * y[j] + acc[k] + c)]])

\* One turn of overflowing_mul's outer loop: x times limb j of y is added from
\* limb j on; what would go past the last limb is not computed.
MulRow(acc, x, y, j) ==
  Upwards(acc, [k \in Index |-> [c \in Nat |->
    IF k < j THEN [word |-> acc[k], carry |-> 0] ELSE Split(x[k - j] * y[j] + acc[k] + c)]])

OverflowingMul(x, y) ==
  LET row == Repeat(Limbs, ZERO, [j \in Index |-> [acc \in Uints |-> MulRow(acc, x, y, j).val]])
  IN  [val |-> row[Limbs], flag |-> \E j \in Index : MulRow(row[j], x, y, j).carry # 0]

-----------------------------------------------------------------------------
(* Shifts and bits *)

Lsh(w, s) == (w * 2 ^ s) % Word
Rsh(w, s) == w \div 2 ^ s

OverflowingShl(x, s0) ==
  LET s == s0 % BITS
      words == s \div WordBits
      shifts == s % WordBits
      High(i) == IF i < words THEN 0 ELSE Lsh(x[i - words], shifts)
      Low(i)  == IF shifts = 0 \/ i < words + 1 THEN 0
                 ELSE Rsh(x[i - 1 - words], WordBits - shifts)
  IN  [val |-> Each([i \in Index |-> Or(WordBits, High(i), Low(i))]), flag |-> s0 >= BITS]

OverflowingShr(x, s0) ==
  LET s == s0 % BITS
      words == s \div WordBits
      shifts == s % WordBits
      Low(i)  == IF i + words > Limbs - 1 THEN 0 ELSE Rsh(x[i + words], shifts)
      High(i) == IF shifts = 0 \/ i + words > Limbs - 2 THEN 0
                 ELSE Lsh(x[i + words + 1], WordBits - shifts)
  IN  [val |-> Each([i \in Index |-> Or(WordBits, Low(i), High(i))]), flag |-> s0 >= BITS]

\* 64 - leading_zeros of a word that is not 0.
WordLength(w) == CHOOSE b \in 1..WordBits : 2 ^ (b - 1) <= w /\ w < 2 ^ b

\* The least number of bits needed, from the highest limb that is not 0.
Bits(x) ==
  IF IsZero(x) THEN 0
  ELSE LET i == CHOOSE i \in Index : x[i] # 0 /\ \A k \in Index : k > i => x[k] = 0
       IN  WordBits * i + WordLength(x[i])

\* cmp: the highest limb in which they differ decides.
Less(x, y) ==
  \E i \in Index : x[i] < y[i] /\ \A k \in Index : k > i => x[k] = y[k]

\* partial_cmp and eq with a word.
LessU64(x, n) == x[0] < n /\ \A k \in 1..(Limbs - 1) : x[k] = 0
EqU64(x, n)   == x[0] = n /\ \A k \in 1..(Limbs - 1) : x[k] = 0

\* iter_be_bits: the b-th bit from the highest.
BeBit(x, b) ==
  Rsh(x[Limbs - (b \div WordBits) - 1], WordBits - (b % WordBits) - 1) % 2

-----------------------------------------------------------------------------
(* Bytes *)

WordBytes == WordBits \div ByteBits
BYTES     == Limbs * WordBytes
Byte      == 2 ^ ByteBits

\* u64::from_le_bytes and to_le_bytes, of a chunk of bytes counted from 0.
WordFromLe(chunk) == Number(WordBytes, ByteBits, chunk)
WordToLe(w) == [k \in 0..(WordBytes - 1) |-> (w \div 2 ^ (ByteBits * k)) % Byte]
Mirror(chunk) == [k \in 0..(WordBytes - 1) |-> chunk[WordBytes - 1 - k]]

Chunk(bytes, i) == [k \in 0..(WordBytes - 1) |-> bytes[i * WordBytes + k]]

\* The limbs are zipped with the chunks of bytes, in order or in reverse.
FromLeBytes(bytes) == [i \in Index |-> WordFromLe(Chunk(bytes, i))]
FromBeBytes(bytes) == [i \in Index |-> WordFromLe(Mirror(Chunk(bytes, Limbs - 1 - i)))]
ToLeBytes(x) ==
  [b \in 0..(BYTES - 1) |-> WordToLe(x[b \div WordBytes])[b % WordBytes]]
ToBeBytes(x) ==
  [b \in 0..(BYTES - 1) |->
     Mirror(WordToLe(x[Limbs - 1 - (b \div WordBytes)]))[b % WordBytes]]

-----------------------------------------------------------------------------
(* Division *)

\* div_rem_u64: the words of the quotient from the highest, n # 0.
DivRemU64(x, n) ==
  Downwards(x, [i \in Index |-> [rem \in Nat |->
    [word |-> (rem * Word + x[i]) \div n, carry |-> (rem * Word + x[i]) % n]]])

SetBit(x, b) == [x EXCEPT ![b \div WordBits] = Or(WordBits, @, 2 ^ (b % WordBits))]

\* What div_rem's loop has at hand.
Rounds == [sub : Uints, ret : Uints, shifted : Uints]

\* Mutant of DivRound: equal is not subtracted.
DivRoundStrict(st, shift) ==
  LET fits == Less(st.shifted, st.sub)
  IN  [sub |-> IF fits THEN OverflowingSub(st.sub, st.shifted).val ELSE st.sub,
       ret |-> IF fits THEN SetBit(st.ret, shift) ELSE st.ret,
       shifted |-> OverflowingShr(st.shifted, 1).val]

\* One turn of div_rem's loop.
DivRound(st, shift) ==
  LET fits == ~Less(st.sub, st.shifted)
  IN  [sub |-> IF fits THEN OverflowingSub(st.sub, st.shifted).val ELSE st.sub,
       ret |-> IF fits THEN SetBit(st.ret, shift) ELSE st.ret,
       shifted |-> OverflowingShr(st.shifted, 1).val]

\* div_rem, for a divisor that is not 0 (an assertion, in release too).
DivRem(x, y) ==
  IF Bits(x) < Bits(y) THEN [quo |-> ZERO, rem |-> x]
  ELSE LET top == Bits(x) - Bits(y)
           first == [sub |-> x, ret |-> ZERO, shifted |-> OverflowingShl(y, top).val]
           turn == [k \in 0..top |-> [st \in Rounds |-> DivRound(st, top - k)]]
           last == Repeat(top + 1, first, turn)[top + 1]
       IN  [quo |-> last.ret, rem |-> last.sub]

-----------------------------------------------------------------------------
(* SignedInteger (int.rs), and mod_inverse *)

Signeds == [abs : Uints, negative : BOOLEAN]
Signed(x, neg) == [abs |-> x, negative |-> neg]

SignedSub(a, b) ==
  IF a.negative = b.negative
  THEN IF Less(a.abs, b.abs)
       THEN Signed(OverflowingSub(b.abs, a.abs).val, ~a.negative)
       ELSE Signed(OverflowingSub(a.abs, b.abs).val, a.negative)
  ELSE Signed(OverflowingAdd(a.abs, b.abs).val, a.negative)
SignedMul(a, b) == Signed(OverflowingMul(a.abs, b.abs).val, a.negative # b.negative)
SignedDiv(a, b) == Signed(DivRem(a.abs, b.abs).quo, a.negative # b.negative)

\* What mod_inverse's loop has at hand, and one turn of it.
EuclidStates == [t : Signeds, newt : Signeds, r : Signeds, newr : Signeds]
EuclidRound(st) ==
  LET q == SignedDiv(st.r, st.newr)
  IN  [t |-> st.newt, newt |-> SignedSub(st.t, SignedMul(q, st.newt)),
       r |-> st.newr, newr |-> SignedSub(st.r, SignedMul(q, st.newr))]

\* The state after n turns; the loop ends within 2 * BITS of them.
EuclidEnd(x, prime) ==
  LET first == [t |-> Signed(ZERO, FALSE), newt |-> Signed(FromU64(1), FALSE),
                r |-> Signed(prime, FALSE), newr |-> Signed(x, FALSE)]
      turn == [st \in EuclidStates |-> IF IsZero(st.newr.abs) THEN st ELSE EuclidRound(st)]
  IN  Repeat(2 * BITS, first, [n \in 0..(2 * BITS - 1) |-> turn])[2 * BITS]

\* mod_inverse: a set of one number, or of none.
ModInverse(x, prime) ==
  LET st == EuclidEnd(x, prime)
  IN  IF ~st.r.negative /\ ~EqU64(st.r.abs, 1) THEN {}
      ELSE {IF st.t.negative THEN OverflowingSub(prime, st.t.abs).val ELSE st.t.abs}

=============================================================================

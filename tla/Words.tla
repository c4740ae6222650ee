-------------------------------- MODULE Words --------------------------------
(***************************************************************************)
(* The unsigned words of the stack and the instructions that only compute  *)
(* on them.  Operand x is the top of the stack, y the item below it, m the *)
(* one below that.  A word is WordSize bytes wide: 32 in the code, fewer   *)
(* in a model.                                                             *)
(***************************************************************************)
EXTENDS Integers, FiniteSetsExt, Sequences

CONSTANT WordSize

ASSUME WordSizeAssumption == WordSize \in Nat \ {0}

word_bits == 8 * WordSize
WordMod == 2 ^ word_bits
Word == 0..WordMod - 1

\* What is used of the powers, of which the provers have no theory.
ASSUME PowersAssumption ==
    /\ 2 ^ 0 = 1 /\ \A n \in 1..word_bits : 2 ^ n = 2 * 2 ^ (n - 1)
    /\ 256 ^ 0 = 1 /\ \A n \in 1..WordSize : 256 ^ n = 256 * 256 ^ (n - 1)

\* The integer arithmetic of the intx library.
Bit(x, n) == (x \div 2 ^ n) % 2
TwosComplement(x) == IF x < WordMod \div 2 THEN x ELSE x - WordMod
Magnitude(x) == IF x < 0 THEN -x ELSE x
Truth(p) == IF p THEN 1 ELSE 0

\* The word with the given bits, from the top one down.
FromBits(bits) ==
    LET value[n \in 0..word_bits] ==
          IF n = 0 THEN 0
          ELSE 2 * value[n - 1] + Truth(bits[word_bits - n])
    IN  value[word_bits]

\* Product modulo m by doubling and adding, from the top bit of y down.
MulModulo(x, y, m) ==
    LET sum[n \in 0..word_bits] ==
          IF n = 0 THEN 0
          ELSE (2 * sum[n - 1] + Bit(y, word_bits - n) * x) % m
    IN  IF 0 \in {x, y} THEN 0 ELSE sum[word_bits]

\* Power by squaring, from the top bit of the exponent down.
Power(x, y) ==
    LET power[n \in 0..word_bits] ==
          IF n = 0 THEN 1
          ELSE LET root == power[n - 1]
                   square == MulModulo(root, root, WordMod)
               IN  IF Bit(y, word_bits - n) = 1
                   THEN MulModulo(square, x, WordMod) ELSE square
    IN  power[word_bits]

\* Division rounding toward zero, and the remainder with the dividend's sign.
SignedQuotient(x, y) ==
    LET a == TwosComplement(x)
        b == TwosComplement(y)
        q == Magnitude(a) \div Magnitude(b)
    IN  (IF (a < 0) = (b < 0) THEN q ELSE -q) % WordMod
SignedRemainder(x, y) ==
    LET a == TwosComplement(x)
        r == Magnitude(a) % Magnitude(TwosComplement(y))
    IN  (IF a < 0 THEN -r ELSE r) % WordMod

ShiftLeft(x, n) == IF n >= word_bits THEN 0
                   ELSE (x % 2 ^ (word_bits - n)) * 2 ^ n
ShiftRight(x, n) == IF n >= word_bits THEN 0 ELSE x \div 2 ^ n

-----------------------------------------------------------------------------
add(x, y) == (x + y) % WordMod
mul(x, y) == MulModulo(x, y, WordMod)
sub(x, y) == (x - y) % WordMod
div(x, y) == IF y # 0 THEN x \div y ELSE 0
sdiv(x, y) == IF y # 0 THEN SignedQuotient(x, y) ELSE 0
mod(x, y) == IF y # 0 THEN x % y ELSE 0
smod(x, y) == IF y # 0 THEN SignedRemainder(x, y) ELSE 0
addmod(x, y, m) == IF m # 0 THEN (x + y) % m ELSE 0
mulmod(x, y, m) == IF m # 0 THEN MulModulo(x % m, y, m) ELSE 0

count_significant_bytes(x) ==
    Max({0} \cup {n \in 1..WordSize : (x \div 256 ^ (n - 1)) # 0})

lt(x, y) == Truth(x < y)
gt(x, y) == Truth(y < x)
slt(x, y) == Truth(TwosComplement(x) < TwosComplement(y))
sgt(x, y) == Truth(TwosComplement(y) < TwosComplement(x))
eq(x, y) == Truth(x = y)
iszero(x) == Truth(x = 0)

and_(x, y) ==
    FromBits([n \in 0..word_bits - 1 |-> Bit(x, n) = 1 /\ Bit(y, n) = 1])
or_(x, y) ==
    FromBits([n \in 0..word_bits - 1 |-> Bit(x, n) = 1 \/ Bit(y, n) = 1])
xor_(x, y) == FromBits([n \in 0..word_bits - 1 |-> Bit(x, n) # Bit(y, n)])
not_(x) == WordMod - 1 - x

\* Mutant: takes the bit above the sign.
SignextendNextBit(x, y) ==
    IF x < WordSize - 1
    THEN LET sign_mask == ShiftLeft(1, x * 8 + 8)
             value_mask == sign_mask - 1
         IN  IF and_(y, sign_mask) # 0
             THEN or_(y, not_(value_mask)) ELSE and_(y, value_mask)
    ELSE y

signextend(x, y) ==
    IF x < WordSize - 1
    THEN LET sign_mask == ShiftLeft(1, x * 8 + 7)
             value_mask == sign_mask - 1
         IN  IF and_(y, sign_mask) # 0
             THEN or_(y, not_(value_mask)) ELSE and_(y, value_mask)
    ELSE y

\* Mutant: a number past the last byte wraps around.
ByteWrapping(x, y) == ShiftRight(y, 8 * (WordSize - 1 - (x % WordSize))) % 256

\* Byte x of y, counted from the most significant one.
byte(x, y) ==
    LET byte_mask == IF x < WordSize THEN 256 ELSE 1
        index == WordSize - 1 - (x % WordSize)
    IN  ShiftRight(y, 8 * index) % byte_mask

shl(x, y) == ShiftLeft(y, x)
shr(x, y) == ShiftRight(y, x)

\* Mutant: a shift by the width of a word or more forgets the sign.
SarForgetful(x, y) ==
    LET sign_mask == IF y >= WordMod \div 2 THEN WordMod - 1 ELSE 0
        mask_shift == IF x < word_bits THEN word_bits - x ELSE word_bits
    IN  or_(ShiftRight(y, x), ShiftLeft(sign_mask, mask_shift))

\* The bits shifted in are filled by or-ing the sign shifted the other way.
sar(x, y) ==
    LET sign_mask == IF y >= WordMod \div 2 THEN WordMod - 1 ELSE 0
        mask_shift == IF x < word_bits THEN word_bits - x ELSE 0
    IN  or_(ShiftRight(y, x), ShiftLeft(sign_mask, mask_shift))

-----------------------------------------------------------------------------
\* intx::be::load and store: a word from its bytes, most significant first,
\* and back. Fewer bytes than a word give its least significant ones.
be_load(bytes) ==
    LET value[n \in 0..Len(bytes)] ==
          IF n = 0 THEN 0 ELSE (value[n - 1] * 256 + bytes[n]) % WordMod
    IN  value[Len(bytes)]
be_store(x) == [n \in 1..WordSize |-> (x \div 256 ^ (WordSize - n)) % 256]

=============================================================================

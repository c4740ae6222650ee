----------------------------- MODULE WordOperands ----------------------------
(***************************************************************************)
(* The instructions on words whose code works with masks and limits rather *)
(* than with numbers, against what they mean for numbers and bytes.        *)
(***************************************************************************)
EXTENDS Words

CONSTANTS Counts,  \* the first operands tried
          Values   \* the second ones

ASSUME OperandsAssumption == Counts \subseteq Word /\ Values \subseteq Word

VARIABLES x, y   \* the operands

Init == x = 0 /\ y \in Values
Next == x' \in Counts /\ UNCHANGED y
Spec == Init /\ [][Next]_<<x, y>>

\* SAR divides a signed number by a power of two and rounds down, for every
\* shift: by 0, where the mask is shifted out whole, and past the width, where
\* it is not shifted at all.
SarDivides ==
    LET a == TwosComplement(y)
        sign == IF a < 0 THEN -1 ELSE 0
    IN  TwosComplement(sar(x, y)) =
          IF x >= word_bits THEN sign ELSE a \div 2 ^ x

\* SIGNEXTEND keeps the signed number in the low bytes, and a number that has
\* no byte above them as it is.
SignextendKeepsNumber ==
    LET low == 256 ^ (x + 1)
        part == y % low
    IN  TwosComplement(signextend(x, y)) =
          IF x >= WordSize - 1 THEN TwosComplement(y)
          ELSE IF part >= low \div 2 THEN part - low ELSE part

\* BYTE takes the byte that storing the word puts there, and 0 past the end,
\* however large the number.
ByteOfStored == byte(x, y) = IF x < WordSize THEN be_store(y)[x + 1] ELSE 0

\* Quotient and remainder of signed and of unsigned words make up the dividend,
\* the overflow of the least number divided by -1 included.
DivisionsAddUp ==
    /\ \A a, b \in {x, y} : b # 0 =>
         /\ add(mul(div(a, b), b), mod(a, b)) = a
         /\ add(mul(sdiv(a, b), b), smod(a, b)) = a
         /\ Magnitude(TwosComplement(smod(a, b))) <
              Magnitude(TwosComplement(b))
    /\ \A a \in {x, y} : {div(a, 0), mod(a, 0), sdiv(a, 0), smod(a, 0)} = {0}

=============================================================================

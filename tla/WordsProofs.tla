----------------------------- MODULE WordsProofs -----------------------------
(***************************************************************************)
(* The instructions that compute on words give words, for every width.     *)
(***************************************************************************)
EXTENDS Words, WellFoundedInduction, TLAPS

LEMMA LeastNumber ==
    ASSUME NEW S \in SUBSET Nat, S # {}
    PROVE  \E x \in S : \A y \in S : x <= y
<1>1. PICK x \in S : \A y \in S : <<y, x>> \notin OpToRel(<, Nat)
  BY NatLessThanWellFounded, WFMin
<1>2. \A y \in S : ~(y < x)
  BY <1>1 DEF OpToRel
<1> QED
  BY <1>2

\* Induction over the numbers up to N.
LEMMA RangeInduction ==
    ASSUME NEW N \in Nat, NEW P, 0 \in P,
           \A n \in 1..N : n - 1 \in P => n \in P
    PROVE  0..N \subseteq P
<1> DEFINE S == (0..N) \ P
<1> SUFFICES ASSUME S # {}
             PROVE  FALSE
  OBVIOUS
<1>1. PICK x \in S : \A y \in S : x <= y
  <2>1. S \in SUBSET Nat
    OBVIOUS
  <2> HIDE DEF S
  <2> QED
    BY <2>1, LeastNumber
<1>2. x # 0 /\ x \in 0..N /\ x \notin P
  OBVIOUS
<1>3. x \in 1..N /\ x - 1 \in 0..N
  BY <1>2
<1>4. x - 1 \notin P
  BY <1>2, <1>3
<1> QED
  BY <1>1, <1>3, <1>4

\* A set of numbers with a bound has a greatest element.
LEMMA MaxFacts ==
    ASSUME NEW N \in Nat, NEW S \in SUBSET (0..N), S # {}
    PROVE  Max(S) \in S /\ \A y \in S : Max(S) >= y
<1> DEFINE T == {n \in 0..N : N - n \in S}
<1>1. T \in SUBSET Nat /\ T # {}
  <2>1. PICK y \in S : TRUE
    OBVIOUS
  <2>2. N - y \in 0..N /\ N - (N - y) = y
    BY <2>1
  <2> QED
    BY <2>1, <2>2
<1>2. PICK x \in T : \A y \in T : x <= y
  BY <1>1, LeastNumber
<1>3. N - x \in S /\ \A y \in S : N - x >= y
  <2>1. ASSUME NEW y \in S
        PROVE  N - x >= y
    <3>1. N - y \in T
      <4>1. N - y \in 0..N /\ N - (N - y) = y
        OBVIOUS
      <4> QED
        BY <4>1
    <3>2. x <= N - y
      BY <3>1, <1>2
    <3> QED
      BY <3>2, <1>2
  <2> QED
    BY <2>1, <1>2
<1>4. Max(S) = CHOOSE m \in S : \A y \in S : m >= y
  BY DEF Max
<1> QED
  BY <1>3, <1>4

\* A recursive function over 0..N that stays in S, from b by the steps G,
\* exists.
Recursive(N, S, b, G) ==
    \E f \in [0..N -> S] : f[0] = b /\ \A n \in 1..N : f[n] = G[n][f[n - 1]]

LEMMA Recursion ==
    ASSUME NEW N \in Nat, NEW S, NEW b \in S, NEW G \in [1..N -> [S -> S]]
    PROVE  Recursive(N, S, b, G)
<1> DEFINE Upto(m) == \E f \in [0..m -> S] :
             f[0] = b /\ \A n \in 1..m : f[n] = G[n][f[n - 1]]
           P == {m \in 0..N : Upto(m)}
<1>1. \A m \in 0..N : m \in P <=> Upto(m)
  OBVIOUS
<1>2. 0 \in P
  <2>1. [n \in 0..0 |-> b] \in [0..0 -> S] /\ [n \in 0..0 |-> b][0] = b
    OBVIOUS
  <2>2. Upto(0)
    <3>1. \A n \in 1..0 : FALSE
      OBVIOUS
    <3> QED
      BY <2>1, <3>1
  <2> QED
    BY <2>2
<1>3. ASSUME NEW m \in 1..N, m - 1 \in P
      PROVE  m \in P
  <2>1. PICK f \in [0..m - 1 -> S] :
          f[0] = b /\ \A n \in 1..m - 1 : f[n] = G[n][f[n - 1]]
    BY <1>3
  <2> DEFINE g == [n \in 0..m |-> IF n = m THEN G[m][f[m - 1]] ELSE f[n]]
  <2>2. g \in [0..m -> S]
    <3>1. G[m] \in [S -> S] /\ f[m - 1] \in S
      OBVIOUS
    <3>2. G[m][f[m - 1]] \in S
      BY <3>1
    <3> QED
      BY <3>2
  <2>3. g[0] = b
    BY <2>1
  <2>4. ASSUME NEW n \in 1..m
        PROVE  g[n] = G[n][g[n - 1]]
    <3>1. g[n - 1] = f[n - 1]
      OBVIOUS
    <3>2. CASE n = m
      <4>1. g[m] = G[m][f[m - 1]]
        OBVIOUS
      <4> HIDE DEF g
      <4> QED
        BY <4>1, <3>1, <3>2
    <3>3. CASE n # m
      <4>1. n \in 1..m - 1 /\ g[n] = f[n]
        BY <3>3
      <4> QED
        BY <4>1, <3>1, <2>1
    <3> QED
      BY <3>2, <3>3
  <2>5. Upto(m)
    <3> HIDE DEF g
    <3> QED
      BY <2>2, <2>3, <2>4
  <2> QED
    BY <2>5
<1>4. 0..N \subseteq P
  <2> HIDE DEF P
  <2> QED
    BY <1>2, <1>3, RangeInduction
<1>5. N \in 0..N
  OBVIOUS
<1>6. Upto(N)
  BY <1>1, <1>4, <1>5
<1> QED
  BY <1>6 DEF Recursive

-----------------------------------------------------------------------------
(***************************************************************************)
(* The powers.                                                             *)
(***************************************************************************)
LEMMA WidthFacts ==
    /\ WordSize \in Nat \ {0} /\ word_bits \in Nat \ {0}
    /\ word_bits = 8 * WordSize
BY WordSizeAssumption DEF word_bits

LEMMA PowersOfTwo == \A n \in 0..word_bits : 2 ^ n \in Nat \ {0}
<1> DEFINE P == {n \in 0..word_bits : 2 ^ n \in Nat \ {0}}
<1>1. 0 \in P
  BY WidthFacts, PowersAssumption
<1>2. ASSUME NEW n \in 1..word_bits, n - 1 \in P
      PROVE  n \in P
  <2>1. 2 ^ n = 2 * 2 ^ (n - 1) /\ 2 ^ (n - 1) \in Nat \ {0}
    BY <1>2, PowersAssumption
  <2> QED
    BY <2>1, WidthFacts
<1>3. 0..word_bits \subseteq P
  <2> HIDE DEF P
  <2> QED
    BY <1>1, <1>2, WidthFacts, RangeInduction
<1> QED
  BY <1>3

LEMMA PowersOf256 == \A n \in 0..WordSize : 256 ^ n \in Nat \ {0}
<1> DEFINE P == {n \in 0..WordSize : 256 ^ n \in Nat \ {0}}
<1>1. 0 \in P
  BY WidthFacts, PowersAssumption
<1>2. ASSUME NEW n \in 1..WordSize, n - 1 \in P
      PROVE  n \in P
  <2>1. 256 ^ n = 256 * 256 ^ (n - 1) /\ 256 ^ (n - 1) \in Nat \ {0}
    BY <1>2, PowersAssumption
  <2> QED
    BY <2>1, WidthFacts
<1>3. 0..WordSize \subseteq P
  <2> HIDE DEF P
  <2> QED
    BY <1>1, <1>2, WidthFacts, RangeInduction
<1> QED
  BY <1>3

\* Two shifts that make up the width of a word.
LEMMA PowersMultiply ==
    \A n \in 0..word_bits : 2 ^ n * 2 ^ (word_bits - n) = WordMod
<1> DEFINE P == {n \in 0..word_bits :
                   2 ^ n * 2 ^ (word_bits - n) = WordMod}
<1>1. 0 \in P
  <2>1. word_bits - 0 = word_bits /\ 0 \in 0..word_bits
    BY WidthFacts
  <2>2. 2 ^ (word_bits - 0) = WordMod /\ WordMod \in Nat
    BY <2>1, WidthFacts, PowersOfTwo DEF WordMod
  <2>3. 2 ^ 0 * 2 ^ (word_bits - 0) = WordMod
    BY <2>2, PowersAssumption
  <2> QED
    BY <2>1, <2>3
<1>2. ASSUME NEW n \in 1..word_bits, n - 1 \in P
      PROVE  n \in P
  <2> DEFINE a == 2 ^ n
             b == 2 ^ (word_bits - n)
             c == 2 ^ (n - 1)
             d == 2 ^ (word_bits - (n - 1))
  <2>1. a = 2 * c
    BY PowersAssumption
  <2>2. d = 2 * b
    <3>1. word_bits - (n - 1) \in 1..word_bits
          /\ (word_bits - (n - 1)) - 1 = word_bits - n
      BY WidthFacts
    <3> QED
      BY <3>1, PowersAssumption
  <2>3. c * d = WordMod
    BY <1>2
  <2>4. b \in Nat /\ c \in Nat
    BY WidthFacts, PowersOfTwo
  <2>5. n \in 0..word_bits
    OBVIOUS
  <2>6. a * b = WordMod
    <3> HIDE DEF a, b, c, d
    <3> QED
      BY <2>1, <2>2, <2>3, <2>4
  <2> QED
    BY <2>5, <2>6
<1>3. 0..word_bits \subseteq P
  <2> HIDE DEF P
  <2> QED
    BY <1>1, <1>2, WidthFacts, RangeInduction
<1> QED
  BY <1>3

LEMMA ByteOfBits == 2 ^ 8 = 256
<1>1. \A n \in 1..8 : 2 ^ n = 2 * 2 ^ (n - 1)
  BY WidthFacts, PowersAssumption
<1>2. 2 ^ 1 = 2
  BY <1>1, PowersAssumption
<1>3. 2 ^ 2 = 4
  BY <1>1, <1>2
<1>4. 2 ^ 3 = 8
  BY <1>1, <1>3
<1>5. 2 ^ 4 = 16
  BY <1>1, <1>4
<1>6. 2 ^ 5 = 32
  BY <1>1, <1>5
<1>7. 2 ^ 6 = 64
  BY <1>1, <1>6
<1>8. 2 ^ 7 = 128
  BY <1>1, <1>7
<1> QED
  BY <1>1, <1>8

LEMMA WordModFacts == WordMod \in Nat \ {0} /\ WordMod >= 256
<1>1. WordMod \in Nat \ {0}
  BY WidthFacts, PowersOfTwo DEF WordMod
<1>2. 2 ^ 8 = 256
  BY ByteOfBits
<1>3. 8 \in 0..word_bits /\ word_bits - 8 \in 0..word_bits
  BY WidthFacts
<1>4. WordMod = 256 * 2 ^ (word_bits - 8)
  <2>1. 2 ^ 8 * 2 ^ (word_bits - 8) = WordMod
    BY <1>3, PowersMultiply
  <2> QED
    BY <1>2, <2>1
<1>5. 2 ^ (word_bits - 8) \in Nat \ {0}
  BY <1>3, PowersOfTwo
<1> QED
  BY <1>1, <1>4, <1>5

-----------------------------------------------------------------------------
(***************************************************************************)
(* The recursive definitions.                                              *)
(***************************************************************************)
\* be_load(): any number of bytes makes a word.
LEMMA LoadIsWord ==
    ASSUME NEW bytes, Len(bytes) \in Nat,
           \A n \in 1..Len(bytes) : bytes[n] \in Nat
    PROVE  be_load(bytes) \in Word
<1> DEFINE N == Len(bytes)
           Body(f) == [n \in 0..N |-> IF n = 0 THEN 0
                         ELSE (f[n - 1] * 256 + bytes[n]) % WordMod]
           value == CHOOSE f : f = Body(f)
           G == [n \in 1..N |-> [x \in Word |-> (x * 256 + bytes[n]) % WordMod]]
<1>1. be_load(bytes) = value[N]
  BY DEF be_load
<1>2. N \in Nat /\ 0 \in Word /\ \A n \in 1..N : bytes[n] \in Nat
  BY WordModFacts DEF Word
<1>3. \A n \in 1..N, x \in Word : (x * 256 + bytes[n]) % WordMod \in Word
  BY <1>2, WordModFacts DEF Word
<1> HIDE DEF N
<1>4. G \in [1..N -> [Word -> Word]]
  BY <1>3
<1>5. \E f : f = Body(f)
  <2>1. PICK f \in [0..N -> Word] :
          f[0] = 0 /\ \A n \in 1..N : f[n] = G[n][f[n - 1]]
    <3> HIDE DEF G
    <3>1. Recursive(N, Word, 0, G)
      BY <1>2, <1>4, Recursion
    <3> QED
      BY <3>1 DEF Recursive
  <2>2. ASSUME NEW n \in 1..N
        PROVE  f[n] = (f[n - 1] * 256 + bytes[n]) % WordMod
    <3>1. n - 1 \in 0..N
      BY <1>2
    <3>2. f[n - 1] \in Word
      BY <3>1, <2>1
    <3>3. G[n][f[n - 1]] = (f[n - 1] * 256 + bytes[n]) % WordMod
      BY <3>2
    <3> QED
      BY <3>3, <2>1
  <2>3. f = Body(f)
    BY <1>2, <2>1, <2>2
  <2> QED
    BY <2>3
<1>6. value = Body(value)
  BY <1>5
<1> HIDE DEF value
<1>7. value[0] \in Word /\ \A n \in 1..N : value[n - 1] \in Word => value[n] \in Word
  BY <1>2, <1>3, <1>6
<1> DEFINE P == {n \in 0..N : value[n] \in Word}
<1>8. 0..N \subseteq P
  <2>1. 0 \in P /\ \A n \in 1..N : n - 1 \in P => n \in P
    BY <1>2, <1>7
  <2> HIDE DEF P
  <2> QED
    BY <1>2, <2>1, RangeInduction
<1> QED
  BY <1>1, <1>2, <1>8

LEMMA BitFacts ==
    ASSUME NEW x \in Nat, NEW n \in 0..word_bits
    PROVE  Bit(x, n) \in {0, 1}
<1> DEFINE p == 2 ^ n
<1>1. p \in Nat \ {0}
  BY PowersOfTwo
<1>2. Bit(x, n) = (x \div p) % 2
  BY DEF Bit
<1> HIDE DEF p
<1>3. x \div p \in Nat
  BY <1>1
<1> QED
  BY <1>2, <1>3

\* The recursion of MulModulo.
Product(x, y, m, sum) ==
    /\ MulModulo(x, y, m) = IF 0 \in {x, y} THEN 0 ELSE sum[word_bits]
    /\ sum[0] = 0
    /\ \A n \in 1..word_bits :
         sum[n] = (2 * sum[n - 1] + Bit(y, word_bits - n) * x) % m
    /\ \A n \in 0..word_bits : sum[n] \in 0..m - 1

LEMMA ProductRecursion ==
    ASSUME NEW x \in Nat, NEW y \in Nat, NEW m \in Nat \ {0}
    PROVE  \E sum : Product(x, y, m, sum)
<1> DEFINE N == word_bits
           S == 0..m - 1
           Body(f) == [n \in 0..N |-> IF n = 0 THEN 0
                         ELSE (2 * f[n - 1] + Bit(y, word_bits - n) * x) % m]
           sum == CHOOSE f : f = Body(f)
           G == [n \in 1..N |-> [v \in S |->
                   (2 * v + Bit(y, word_bits - n) * x) % m]]
<1>1. MulModulo(x, y, m) = IF 0 \in {x, y} THEN 0 ELSE sum[N]
  BY DEF MulModulo
<1>2. N \in Nat /\ 0 \in S
  BY WidthFacts
<1>3. \A n \in 1..N, v \in S :
        (2 * v + Bit(y, word_bits - n) * x) % m \in S
  <2>1. TAKE n \in 1..N, v \in S
  <2> DEFINE b == Bit(y, word_bits - n)
  <2>2. b \in {0, 1}
    BY WidthFacts, BitFacts
  <2> HIDE DEF b
  <2>3. b * x \in Nat
    BY <2>2
  <2>4. 2 * v + b * x \in Nat
    BY <2>3
  <2>5. (2 * v + b * x) % m \in S
    BY <2>4
  <2> QED
    BY <2>5 DEF b
<1> HIDE DEF N, S
<1>4. G \in [1..N -> [S -> S]]
  BY <1>3
<1>5. \E f : f = Body(f)
  <2>1. PICK f \in [0..N -> S] :
          f[0] = 0 /\ \A n \in 1..N : f[n] = G[n][f[n - 1]]
    <3> HIDE DEF G
    <3>1. Recursive(N, S, 0, G)
      BY <1>2, <1>4, Recursion
    <3> QED
      BY <3>1 DEF Recursive
  <2>2. ASSUME NEW n \in 1..N
        PROVE  f[n] = (2 * f[n - 1] + Bit(y, word_bits - n) * x) % m
    <3>1. n - 1 \in 0..N
      BY <1>2
    <3>2. f[n - 1] \in S
      BY <3>1, <2>1
    <3>3. G[n][f[n - 1]] = (2 * f[n - 1] + Bit(y, word_bits - n) * x) % m
      BY <3>2
    <3> QED
      BY <3>3, <2>1
  <2>3. f = Body(f)
    BY <1>2, <2>1, <2>2
  <2> QED
    BY <2>3
<1>6. sum = Body(sum)
  BY <1>5
<1> HIDE DEF sum
<1>7. sum[0] \in S /\ \A n \in 1..N : sum[n - 1] \in S => sum[n] \in S
  BY <1>2, <1>3, <1>6
<1> DEFINE P == {n \in 0..N : sum[n] \in S}
<1>8. 0..N \subseteq P
  <2>1. 0 \in P /\ \A n \in 1..N : n - 1 \in P => n \in P
    BY <1>2, <1>7
  <2> HIDE DEF P
  <2> QED
    BY <1>2, <2>1, RangeInduction
<1>9. \A n \in 0..N : sum[n] \in S
  BY <1>2, <1>8
<1>10. sum[0] = 0 /\ \A n \in 1..N : sum[n] =
                        (2 * sum[n - 1] + Bit(y, word_bits - n) * x) % m
  BY <1>2, <1>6
<1> QED
  BY <1>1, <1>2, <1>9, <1>10 DEF S, N, Product

\* A product modulo m is less than m.
LEMMA ProductModulo ==
    ASSUME NEW x \in Nat, NEW y \in Nat, NEW m \in Nat \ {0}
    PROVE  MulModulo(x, y, m) \in 0..m - 1
<1>1. PICK sum : Product(x, y, m, sum)
  BY ProductRecursion
<1>2. sum[word_bits] \in 0..m - 1 /\ 0 \in 0..m - 1
  BY <1>1, WidthFacts DEF Product
<1> QED
  BY <1>1, <1>2 DEF Product

LEMMA PowerIsWord ==
    ASSUME NEW x \in Word, NEW y \in Nat
    PROVE  Power(x, y) \in Word
<1> DEFINE N == word_bits
           Square(root) == MulModulo(root, root, WordMod)
           Next1(n, root) == IF Bit(y, word_bits - n) = 1
                             THEN MulModulo(Square(root), x, WordMod)
                             ELSE Square(root)
           Body(f) == [n \in 0..N |-> IF n = 0 THEN 1 ELSE Next1(n, f[n - 1])]
           power == CHOOSE f : f = Body(f)
           G == [n \in 1..N |-> [v \in Word |-> Next1(n, v)]]
<1>1. Power(x, y) = power[N]
  BY DEF Power
<1>2. N \in Nat /\ 1 \in Word /\ Word \subseteq Nat
  BY WidthFacts, WordModFacts DEF Word
<1>3. \A n \in 1..N, v \in Word : Next1(n, v) \in Word
  <2>1. TAKE n \in 1..N, v \in Word
  <2>2. v \in Nat /\ x \in Nat /\ WordMod \in Nat \ {0}
    BY <1>2, WordModFacts
  <2>3. Square(v) \in Word
    BY <2>2, ProductModulo DEF Word
  <2>4. Square(v) \in Nat
    BY <2>3, <1>2
  <2>5. MulModulo(Square(v), x, WordMod) \in Word
    <3> HIDE DEF Square
    <3> QED
      BY <2>2, <2>4, ProductModulo DEF Word
  <2> QED
    BY <2>3, <2>5
<1> HIDE DEF N, Next1
<1>4. G \in [1..N -> [Word -> Word]]
  BY <1>3
<1>5. \E f : f = Body(f)
  <2>1. PICK f \in [0..N -> Word] :
          f[0] = 1 /\ \A n \in 1..N : f[n] = G[n][f[n - 1]]
    <3> HIDE DEF G
    <3>1. Recursive(N, Word, 1, G)
      BY <1>2, <1>4, Recursion
    <3> QED
      BY <3>1 DEF Recursive
  <2>2. ASSUME NEW n \in 1..N
        PROVE  f[n] = Next1(n, f[n - 1])
    <3>1. n - 1 \in 0..N
      BY <1>2
    <3>2. f[n - 1] \in Word
      BY <3>1, <2>1
    <3>3. G[n][f[n - 1]] = Next1(n, f[n - 1])
      BY <3>2
    <3> QED
      BY <3>3, <2>1
  <2>3. f = Body(f)
    BY <1>2, <2>1, <2>2
  <2> QED
    BY <2>3
<1>6. power = Body(power)
  BY <1>5
<1> HIDE DEF power
<1>7. power[0] \in Word
      /\ \A n \in 1..N : power[n - 1] \in Word => power[n] \in Word
  <2>1. power[0] = 1 /\ \A n \in 1..N : power[n] = Next1(n, power[n - 1])
    BY <1>2, <1>6
  <2> QED
    BY <1>2, <1>3, <2>1
<1> DEFINE P == {n \in 0..N : power[n] \in Word}
<1>8. 0..N \subseteq P
  <2>1. 0 \in P /\ \A n \in 1..N : n - 1 \in P => n \in P
    BY <1>2, <1>7
  <2> HIDE DEF P
  <2> QED
    BY <1>2, <2>1, RangeInduction
<1> QED
  BY <1>1, <1>2, <1>8

\* The recursion of FromBits.
LEMMA FromBitsRecursion ==
    ASSUME NEW bits
    PROVE  \E value : /\ FromBits(bits) = value[word_bits] /\ value[0] = 0
                      /\ \A n \in 1..word_bits : value[n] =
                           2 * value[n - 1] + Truth(bits[word_bits - n])
<1> DEFINE N == word_bits
           Body(f) == [n \in 0..N |-> IF n = 0 THEN 0
                         ELSE 2 * f[n - 1] + Truth(bits[word_bits - n])]
           value == CHOOSE f : f = Body(f)
           G == [n \in 1..N |-> [v \in Nat |->
                   2 * v + Truth(bits[word_bits - n])]]
<1>1. FromBits(bits) = value[N]
  BY DEF FromBits
<1>2. N \in Nat
  BY WidthFacts
<1>3. ASSUME NEW n
      PROVE  Truth(bits[word_bits - n]) \in {0, 1}
  BY DEF Truth
<1> HIDE DEF N
<1>4. G \in [1..N -> [Nat -> Nat]]
  BY <1>3
<1>5. \E f : f = Body(f)
  <2>1. PICK f \in [0..N -> Nat] :
          f[0] = 0 /\ \A n \in 1..N : f[n] = G[n][f[n - 1]]
    <3> HIDE DEF G
    <3>1. Recursive(N, Nat, 0, G)
      BY <1>2, <1>4, Recursion
    <3> QED
      BY <3>1 DEF Recursive
  <2>2. ASSUME NEW n \in 1..N
        PROVE  f[n] = 2 * f[n - 1] + Truth(bits[word_bits - n])
    <3>1. n - 1 \in 0..N
      BY <1>2
    <3>2. f[n - 1] \in Nat
      BY <3>1, <2>1
    <3>3. G[n][f[n - 1]] = 2 * f[n - 1] + Truth(bits[word_bits - n])
      BY <3>2
    <3> QED
      BY <3>3, <2>1
  <2>3. f = Body(f)
    BY <1>2, <2>1, <2>2
  <2> QED
    BY <2>3
<1>6. value = Body(value)
  BY <1>5
<1> HIDE DEF value
<1>7. value[0] = 0 /\ \A n \in 1..N : value[n] =
                        2 * value[n - 1] + Truth(bits[word_bits - n])
  BY <1>2, <1>6
<1> QED
  BY <1>1, <1>7 DEF N

\* A number made of word_bits bits is a word.
LEMMA FromBitsIsWord ==
    ASSUME NEW bits
    PROVE  FromBits(bits) \in Word
<1> DEFINE N == word_bits
<1>1. PICK value : /\ FromBits(bits) = value[N] /\ value[0] = 0
                   /\ \A n \in 1..N : value[n] =
                        2 * value[n - 1] + Truth(bits[word_bits - n])
  BY FromBitsRecursion
<1>2. N \in Nat
  BY WidthFacts
<1>3. ASSUME NEW n
      PROVE  Truth(bits[word_bits - n]) \in {0, 1}
  BY DEF Truth
<1> HIDE DEF N
<1> DEFINE P == {n \in 0..N : value[n] \in 0..2 ^ n - 1}
<1>7. 0 \in P
  BY <1>1, <1>2, PowersAssumption
<1>8. ASSUME NEW n \in 1..N, n - 1 \in P
      PROVE  n \in P
  <2> DEFINE p == 2 ^ n
             q == 2 ^ (n - 1)
             b == Truth(bits[word_bits - n])
             u == value[n - 1]
  <2>1. p = 2 * q /\ q \in Nat /\ b \in {0, 1}
    <3>1. b \in {0, 1}
      BY <1>3
    <3>2. n \in 1..word_bits /\ n - 1 \in 0..word_bits
      BY <1>2 DEF N
    <3> QED
      BY <3>1, <3>2, PowersAssumption, PowersOfTwo
  <2>2. u \in 0..q - 1
    BY <1>8
  <2>3. value[n] = 2 * u + b
    BY <1>1
  <2>4. value[n] \in 0..p - 1
    <3> HIDE DEF p, q, b, u
    <3> QED
      BY <2>1, <2>2, <2>3
  <2> QED
    BY <2>4, <1>2
<1>9. 0..N \subseteq P
  <2> HIDE DEF P
  <2> QED
    BY <1>2, <1>7, <1>8, RangeInduction
<1>10. value[N] \in 0..2 ^ N - 1
  BY <1>2, <1>9
<1> QED
  BY <1>1, <1>10 DEF N, Word, WordMod

-----------------------------------------------------------------------------
(***************************************************************************)
(* The instructions.                                                       *)
(***************************************************************************)
LEMMA WordIsNat == Word \subseteq Nat /\ {0, 1} \subseteq Word
BY WordModFacts DEF Word

LEMMA ModuloIsWord ==
    ASSUME NEW v \in Int
    PROVE  v % WordMod \in Word
BY WordModFacts DEF Word

LEMMA TruthIsWord ==
    ASSUME NEW p
    PROVE  Truth(p) \in Word
BY WordIsNat DEF Truth

LEMMA ShiftRightIsWord ==
    ASSUME NEW x \in Word, NEW n \in Nat
    PROVE  ShiftRight(x, n) \in Word
<1>1. CASE n >= word_bits
  BY <1>1, WordIsNat DEF ShiftRight
<1>2. CASE ~(n >= word_bits)
  <2> DEFINE p == 2 ^ n
  <2>1. p \in Nat \ {0}
    BY <1>2, WidthFacts, PowersOfTwo
  <2>2. ShiftRight(x, n) = x \div p
    BY <1>2 DEF ShiftRight
  <2> HIDE DEF p
  <2>3. x \in Nat /\ x <= WordMod - 1 /\ WordMod \in Nat
    BY WordModFacts DEF Word
  <2>4. x \div p \in Nat /\ x \div p <= x
    BY <2>1, <2>3
  <2> QED
    BY <2>2, <2>3, <2>4 DEF Word
<1> QED
  BY <1>1, <1>2

LEMMA ShiftLeftIsWord ==
    ASSUME NEW x \in Nat, NEW n \in Nat
    PROVE  ShiftLeft(x, n) \in Word
<1>1. CASE n >= word_bits
  BY <1>1, WordIsNat DEF ShiftLeft
<1>2. CASE ~(n >= word_bits)
  <2> DEFINE p == 2 ^ n
             q == 2 ^ (word_bits - n)
             r == x % q
  <2>1. n \in 0..word_bits /\ word_bits - n \in 0..word_bits
    BY <1>2, WidthFacts
  <2>2. p \in Nat \ {0} /\ q \in Nat \ {0} /\ p * q = WordMod
    BY <2>1, PowersOfTwo, PowersMultiply
  <2>3. ShiftLeft(x, n) = r * p
    BY <1>2 DEF ShiftLeft
  <2> HIDE DEF p, q
  <2>4. r \in Nat /\ r + 1 <= q
    BY <2>2
  <2> HIDE DEF r
  <2>5. r * p \in Nat /\ (r + 1) * p <= q * p
    BY <2>2, <2>4
  <2>6. r * p + p <= WordMod
    BY <2>2, <2>4, <2>5
  <2> QED
    BY <2>2, <2>3, <2>5, <2>6 DEF Word
<1> QED
  BY <1>1, <1>2

LEMMA BitwiseIsWord ==
    ASSUME NEW x, NEW y
    PROVE  and_(x, y) \in Word /\ or_(x, y) \in Word /\ xor_(x, y) \in Word
BY FromBitsIsWord DEF and_, or_, xor_

LEMMA SignedFacts ==
    ASSUME NEW x \in Word
    PROVE  /\ TwosComplement(x) \in Int /\ Magnitude(TwosComplement(x)) \in Nat
           /\ x # 0 => Magnitude(TwosComplement(x)) \in Nat \ {0}
BY WordModFacts DEF Word, TwosComplement, Magnitude

LEMMA SignedDivision ==
    ASSUME NEW x \in Word, NEW y \in Word
    PROVE  sdiv(x, y) \in Word /\ smod(x, y) \in Word
<1>1. CASE y = 0
  BY <1>1, WordIsNat DEF sdiv, smod
<1>2. CASE y # 0
  <2> DEFINE a == TwosComplement(x)
             b == TwosComplement(y)
             m == Magnitude(a)
             d == Magnitude(b)
             q == m \div d
             r == m % d
  <2>1. a \in Int /\ b \in Int /\ m \in Nat /\ d \in Nat \ {0}
    BY <1>2, SignedFacts
  <2>2. /\ sdiv(x, y) = (IF (a < 0) = (b < 0) THEN q ELSE -q) % WordMod
        /\ smod(x, y) = (IF a < 0 THEN -r ELSE r) % WordMod
    BY <1>2 DEF sdiv, smod, SignedQuotient, SignedRemainder
  <2>3. q \in Int /\ r \in Int
    <3> HIDE DEF m, d
    <3> QED
      BY <2>1
  <2> HIDE DEF a, b, q, r
  <2>4. /\ (IF (a < 0) = (b < 0) THEN q ELSE -q) \in Int
        /\ (IF a < 0 THEN -r ELSE r) \in Int
    BY <2>3
  <2> QED
    BY <2>2, <2>4, ModuloIsWord
<1> QED
  BY <1>1, <1>2

LEMMA SignextendIsWord ==
    ASSUME NEW x \in Word, NEW y \in Word
    PROVE  signextend(x, y) \in Word
BY BitwiseIsWord DEF signextend

LEMMA ByteIsWord ==
    ASSUME NEW x \in Word, NEW y \in Word
    PROVE  byte(x, y) \in Word
<1> DEFINE mask == IF x < WordSize THEN 256 ELSE 1
           index == WordSize - 1 - (x % WordSize)
           v == ShiftRight(y, 8 * index)
<1>1. byte(x, y) = v % mask
  BY DEF byte
<1>2. x \in Nat
  BY WordIsNat
<1>3. index \in Nat
  BY <1>2, WidthFacts
<1>4. 8 * index \in Nat
  <2> HIDE DEF index
  <2> QED
    BY <1>3
<1>5. v \in Nat
  BY <1>4, ShiftRightIsWord, WordIsNat
<1> HIDE DEF v
<1>6. v % mask \in 0..255
  BY <1>5
<1> QED
  BY <1>1, <1>6, WordModFacts DEF Word

LEMMA SarIsWord ==
    ASSUME NEW x \in Word, NEW y \in Word
    PROVE  sar(x, y) \in Word
BY BitwiseIsWord DEF sar

\* Every instruction on words gives a word.
LEMMA BinaryIsWord ==
    ASSUME NEW x \in Word, NEW y \in Word
    PROVE  /\ add(x, y) \in Word /\ mul(x, y) \in Word /\ sub(x, y) \in Word
           /\ div(x, y) \in Word /\ mod(x, y) \in Word
           /\ lt(x, y) \in Word /\ gt(x, y) \in Word /\ slt(x, y) \in Word
           /\ sgt(x, y) \in Word /\ eq(x, y) \in Word
           /\ shl(x, y) \in Word /\ shr(x, y) \in Word
<1>1. x \in Nat /\ y \in Nat /\ x < WordMod /\ y < WordMod
      /\ WordMod \in Nat \ {0}
  BY WordModFacts DEF Word
<1>2. add(x, y) \in Word /\ sub(x, y) \in Word
  <2>1. x + y \in Int /\ x - y \in Int
    BY <1>1
  <2> QED
    BY <2>1, ModuloIsWord DEF add, sub
<1>3. mul(x, y) \in Word
  BY <1>1, ProductModulo DEF mul, Word
<1>4. div(x, y) \in Word
  <2>1. CASE y = 0
    BY <2>1, WordIsNat DEF div
  <2>2. CASE y # 0
    <3>1. x \div y \in Nat /\ x \div y <= x
      BY <1>1, <2>2
    <3>2. div(x, y) = x \div y
      BY <2>2 DEF div
    <3> QED
      BY <3>1, <3>2, <1>1 DEF Word
  <2> QED
    BY <2>1, <2>2
<1>5. mod(x, y) \in Word
  <2>1. CASE y = 0
    BY <2>1, WordIsNat DEF mod
  <2>2. CASE y # 0
    <3>1. x % y \in Nat /\ x % y < y
      BY <1>1, <2>2
    <3>2. mod(x, y) = x % y
      BY <2>2 DEF mod
    <3> QED
      BY <3>1, <3>2, <1>1 DEF Word
  <2> QED
    BY <2>1, <2>2
<1>6. /\ lt(x, y) \in Word /\ gt(x, y) \in Word /\ slt(x, y) \in Word
      /\ sgt(x, y) \in Word /\ eq(x, y) \in Word
  BY TruthIsWord DEF lt, gt, slt, sgt, eq
<1>7. shl(x, y) \in Word /\ shr(x, y) \in Word
  BY <1>1, ShiftLeftIsWord, ShiftRightIsWord DEF shl, shr
<1> QED
  BY <1>2, <1>3, <1>4, <1>5, <1>6, <1>7

LEMMA UnaryIsWord ==
    ASSUME NEW x \in Word
    PROVE  iszero(x) \in Word /\ not_(x) \in Word
BY TruthIsWord, WordModFacts DEF iszero, not_, Word

LEMMA TernaryIsWord ==
    ASSUME NEW x \in Word, NEW y \in Word, NEW m \in Word
    PROVE  addmod(x, y, m) \in Word /\ mulmod(x, y, m) \in Word
<1>1. x \in Nat /\ y \in Nat /\ m \in Nat /\ m < WordMod /\ WordMod \in Nat
  BY WordModFacts DEF Word
<1>2. CASE m = 0
  BY <1>2, WordIsNat DEF addmod, mulmod
<1>3. CASE m # 0
  <2>1. (x + y) % m \in 0..m - 1
    BY <1>1, <1>3
  <2>2. x % m \in Nat
    BY <1>1, <1>3
  <2>3. MulModulo(x % m, y, m) \in 0..m - 1
    BY <1>1, <1>3, <2>2, ProductModulo
  <2>4. 0..m - 1 \subseteq Word
    BY <1>1 DEF Word
  <2> QED
    BY <1>3, <2>1, <2>3, <2>4 DEF addmod, mulmod
<1> QED
  BY <1>2, <1>3

\* The bytes that count are at most those of a word.
LEMMA SignificantBytes ==
    ASSUME NEW x
    PROVE  count_significant_bytes(x) \in 0..WordSize
<1> DEFINE S == {0} \cup {n \in 1..WordSize : (x \div 256 ^ (n - 1)) # 0}
<1>1. S \in SUBSET (0..WordSize) /\ S # {}
  BY WidthFacts
<1>2. count_significant_bytes(x) = Max(S)
  BY DEF count_significant_bytes
<1> HIDE DEF S
<1> QED
  BY <1>1, <1>2, WidthFacts, MaxFacts

\* be_store() gives as many bytes as a word has.
LEMMA StoreIsBytes ==
    ASSUME NEW x \in Word
    PROVE  be_store(x) \in [1..WordSize -> 0..255]
<1>1. ASSUME NEW n \in 1..WordSize
      PROVE  (x \div 256 ^ (WordSize - n)) % 256 \in 0..255
  <2> DEFINE p == 256 ^ (WordSize - n)
             q == x \div p
  <2>1. p \in Nat \ {0} /\ x \in Nat
    BY WidthFacts, PowersOf256, WordIsNat
  <2>2. q \in Nat
    <3> HIDE DEF p
    <3> QED
      BY <2>1
  <2> HIDE DEF q
  <2>3. q % 256 \in 0..255
    BY <2>2
  <2> QED
    BY <2>3 DEF q
<1> QED
  BY <1>1 DEF be_store

=============================================================================

------------------------- MODULE WordOperandsProofs --------------------------
(***************************************************************************)
(* What the instructions on words mean for numbers and bytes, for every    *)
(* width and all operands.                                                 *)
(***************************************************************************)
EXTENDS WordOperands, WordsProofs

(***************************************************************************)
(* Division with a remainder.                                              *)
(***************************************************************************)
LEMMA DivMod ==
    ASSUME NEW n \in Int, NEW d \in Nat \ {0}
    PROVE  /\ n \div d \in Int /\ n % d \in 0..d - 1
           /\ n = d * (n \div d) + (n % d)
  OBVIOUS

LEMMA DivUnique ==
    ASSUME NEW d \in Nat \ {0}, NEW q \in Int, NEW r \in 0..d - 1,
           NEW n \in Int, n = d * q + r
    PROVE  n \div d = q /\ n % d = r
<1>1. PICK p \in Int, s \in 0..d - 1 : p = n \div d /\ s = n % d
        /\ n = d * p + s
  BY DivMod
<1>2. d * (q - p) = s - r
  BY <1>1
<1>3. ~(q - p >= 1)
  <2>1. SUFFICES ASSUME q - p >= 1 PROVE FALSE
    OBVIOUS
  <2>2. d * (q - p) >= d
    BY <2>1, <1>1
  <2> QED
    BY <1>1, <1>2, <2>2
<1>4. ~(p - q >= 1)
  <2>1. SUFFICES ASSUME p - q >= 1 PROVE FALSE
    OBVIOUS
  <2>2. d * (p - q) >= d
    BY <2>1, <1>1
  <2>3. d * (p - q) = r - s
    BY <1>1
  <2> QED
    BY <1>1, <2>2, <2>3
<1>5. p = q
  BY <1>1, <1>3, <1>4
<1> QED
  BY <1>1, <1>5

\* Dividing by a product is dividing twice.
LEMMA DivTwice ==
    ASSUME NEW n \in Nat, NEW d \in Nat \ {0}, NEW e \in Nat \ {0}
    PROVE  n \div (d * e) = (n \div d) \div e
<1>1. PICK p \in Int, s \in 0..d - 1 : p = n \div d /\ n = d * p + s
  BY DivMod
<1>2. PICK q \in Int, t \in 0..e - 1 : q = p \div e /\ p = e * q + t
  <2>1. /\ p \div e \in Int /\ p % e \in 0..e - 1
        /\ p = e * (p \div e) + (p % e)
    BY ONLY p \in Int, e \in Nat \ {0}, DivMod
  <2> QED
    BY <2>1
<1>3. n = (d * e) * q + (d * t + s)
  <2>1. d * p = d * (e * q) + d * t
    <3>1. ASSUME NEW u \in Int, NEW v \in Int
          PROVE  d * (u + v) = d * u + d * v
      OBVIOUS
    <3>2. e * q \in Int
      BY <1>2
    <3> QED
      BY <1>1, <1>2, <3>1, <3>2
  <2>2. d * (e * q) = (d * e) * q
    BY <1>2
  <2>3. d * p \in Int /\ d * t \in Int /\ (d * e) * q \in Int
    BY <1>1, <1>2
  <2> QED
    BY <1>1, <2>1, <2>2, <2>3
<1>4. d * t + s \in 0..(d * e) - 1
  <2>1. d * t <= d * (e - 1) /\ d * t >= 0
    BY <1>1, <1>2
  <2>2. d * (e - 1) = d * e - d
    BY <1>1
  <2>3. d * t \in Int /\ d * e \in Int
    BY <1>2
  <2> QED
    BY <1>1, <2>1, <2>2, <2>3
<1>5. d * e \in Nat \ {0}
  OBVIOUS
<1>6. PICK m \in Nat \ {0}, r \in Int :
        r \in 0..m - 1 /\ m = d * e /\ n = m * q + r
  BY <1>3, <1>4, <1>5
<1>7. n \div m = q
  <2>1. n \in Int /\ r \in 0..m - 1 /\ n = m * q + r
    BY <1>6
  <2> QED
    BY ONLY <2>1, m \in Nat \ {0}, q \in Int, DivUnique
<1> QED
  BY <1>1, <1>2, <1>6, <1>7

(***************************************************************************)
(* The powers and the bits.                                                *)
(***************************************************************************)
LEMMA PowersAdd ==
    ASSUME NEW m \in 0..word_bits, NEW n \in 0..m
    PROVE  2 ^ m = 2 ^ n * 2 ^ (m - n)
<1> DEFINE P == {k \in 0..m : 2 ^ m = 2 ^ k * 2 ^ (m - k)}
<1>1. 0 \in P
  <2>1. m - 0 = m /\ 0 \in 0..m /\ 2 ^ m \in Nat
    BY PowersOfTwo
  <2> QED
    BY <2>1, PowersAssumption
<1>2. ASSUME NEW k \in 1..m, k - 1 \in P
      PROVE  k \in P
  <2> DEFINE a == 2 ^ k
             b == 2 ^ (m - k)
             c == 2 ^ (k - 1)
             d == 2 ^ (m - (k - 1))
  <2>1. a = 2 * c
    BY WidthFacts, PowersAssumption
  <2>2. d = 2 * b
    <3>1. m - (k - 1) \in 1..word_bits /\ (m - (k - 1)) - 1 = m - k
      BY WidthFacts
    <3> QED
      BY <3>1, PowersAssumption
  <2>3. 2 ^ m = c * d
    BY <1>2
  <2>4. b \in Nat /\ c \in Nat
    BY WidthFacts, PowersOfTwo
  <2>5. k \in 0..m
    OBVIOUS
  <2>6. 2 ^ m = a * b
    <3> HIDE DEF a, b, c, d
    <3> QED
      BY <2>1, <2>2, <2>3, <2>4
  <2> QED
    BY <2>5, <2>6
<1>3. 0..m \subseteq P
  <2> HIDE DEF P
  <2> QED
    BY <1>1, <1>2, RangeInduction
<1> QED
  BY <1>3

LEMMA PowersOfBytes ==
    ASSUME NEW n \in 0..WordSize
    PROVE  256 ^ n = 2 ^ (8 * n)
<1> DEFINE P == {k \in 0..WordSize : 256 ^ k = 2 ^ (8 * k)}
<1>1. 0 \in P
  BY WidthFacts, PowersAssumption
<1>2. ASSUME NEW k \in 1..WordSize, k - 1 \in P
      PROVE  k \in P
  <2>1. /\ 8 * k \in 0..word_bits /\ 8 \in 0..8 * k
        /\ 8 * k - 8 = 8 * (k - 1) /\ 8 \in 0..word_bits
    BY WidthFacts
  <2>2. 2 ^ (8 * k) = 2 ^ 8 * 2 ^ (8 * (k - 1))
    BY <2>1, PowersAdd
  <2>3. 2 ^ 8 = 256
    BY ByteOfBits
  <2>4. 256 ^ k = 256 * 256 ^ (k - 1)
    BY PowersAssumption
  <2>5. 256 ^ k = 2 ^ (8 * k)
    BY <1>2, <2>2, <2>3, <2>4
  <2> QED
    BY <2>5
<1>3. 0..WordSize \subseteq P
  <2> HIDE DEF P
  <2> QED
    BY <1>1, <1>2, WidthFacts, RangeInduction
<1> QED
  BY <1>3

\* The bits of a number made of k low bits u and a number c above them.
LEMMA LowBit ==
    ASSUME NEW k \in 0..word_bits, NEW u \in Nat, NEW c \in Nat,
           NEW n \in 0..k - 1
    PROVE  Bit(u + c * 2 ^ k, n) = Bit(u, n)
<1> DEFINE p == 2 ^ n
           q == 2 ^ (k - n - 1)
           v == u + c * 2 ^ k
<1>1. p \in Nat \ {0} /\ q \in Nat \ {0} /\ 2 ^ k = p * (2 * q)
  <2>1. n \in 0..word_bits /\ k - n \in 1..word_bits /\ n \in 0..k
        /\ k - n - 1 \in 0..word_bits /\ k - n - 1 = (k - n) - 1
    BY WidthFacts
  <2>2. 2 ^ k = p * 2 ^ (k - n)
    BY <2>1, PowersAdd
  <2>3. 2 ^ (k - n) = 2 * q
    BY <2>1, PowersAssumption
  <2> QED
    BY <2>1, <2>2, <2>3, PowersOfTwo
<1>2. Bit(v, n) = (v \div p) % 2 /\ Bit(u, n) = (u \div p) % 2
  BY DEF Bit
<1>3. v = u + c * (p * (2 * q))
  BY <1>1
<1> HIDE DEF p, q, v
<1>4. PICK e \in Nat, f \in Int : f \in 0..p - 1 /\ e = u \div p /\ u = p * e + f
  <2>1. u \div p \in Int /\ u % p \in 0..p - 1 /\ u = p * (u \div p) + (u % p)
    BY <1>1, DivMod
  <2>2. u \div p \in Nat
    BY <1>1
  <2> QED
    BY <2>1, <2>2
<1>5. PICK g \in Nat : g = c * q
  BY <1>1
<1>6. c * (p * (2 * q)) = p * (2 * g)
  BY <1>1, <1>5
<1>7. v = p * (e + 2 * g) + f
  <2>1. p * (e + 2 * g) = p * e + p * (2 * g)
    BY <1>1
  <2>2. p * e \in Int /\ p * (2 * g) \in Int
    BY <1>1
  <2> QED
    BY <1>3, <1>4, <1>6, <2>1, <2>2
<1>8. v \div p = e + 2 * g
  <2>1. PICK h \in Int : h = e + 2 * g
    OBVIOUS
  <2>2. v \in Int /\ f \in 0..p - 1 /\ v = p * h + f
    BY <1>1, <1>4, <1>7, <2>1
  <2>3. v \div p = h
    BY ONLY <1>1, <2>2, h \in Int, DivUnique
  <2> QED
    BY <2>1, <2>3
<1>9. (e + 2 * g) % 2 = e % 2
  OBVIOUS
<1>10. Bit(v, n) = Bit(u, n)
  BY <1>2, <1>4, <1>8, <1>9
<1> QED
  BY <1>10 DEF v

LEMMA HighBit ==
    ASSUME NEW k \in 0..word_bits, NEW u \in 0..2 ^ k - 1, NEW c \in Nat,
           NEW n \in k..word_bits
    PROVE  Bit(u + c * 2 ^ k, n) = Bit(c, n - k)
<1> DEFINE p == 2 ^ k
           q == 2 ^ (n - k)
           v == u + c * 2 ^ k
<1>1. p \in Nat \ {0} /\ q \in Nat \ {0} /\ 2 ^ n = p * q
  <2>1. n \in 0..word_bits /\ k \in 0..n /\ n - k \in 0..word_bits
    BY WidthFacts
  <2> QED
    BY <2>1, PowersAdd, PowersOfTwo
<1>2. Bit(v, n) = (v \div (p * q)) % 2 /\ Bit(c, n - k) = (c \div q) % 2
  BY <1>1 DEF Bit
<1>3. v = u + c * p /\ u \in 0..p - 1
  OBVIOUS
<1> HIDE DEF p, q, v
<1>4. v = p * c + u /\ v \in Nat
  BY <1>1, <1>3
<1>5. v \div p = c
  BY <1>1, <1>3, <1>4, DivUnique
<1>6. v \div (p * q) = c \div q
  <2>1. v \div (p * q) = (v \div p) \div q
    BY ONLY <1>1, <1>4, DivTwice
  <2> QED
    BY ONLY <2>1, <1>5
<1> QED
  BY <1>2, <1>6 DEF v

\* All bits of 2^k - 1 below k are set.
LEMMA MaskBit ==
    ASSUME NEW k \in 0..word_bits, NEW n \in 0..k - 1
    PROVE  Bit(2 ^ k - 1, n) = 1
<1> DEFINE p == 2 ^ n
           q == 2 ^ (k - n - 1)
<1>1. p \in Nat \ {0} /\ q \in Nat \ {0} /\ 2 ^ k = p * (2 * q)
  <2>1. n \in 0..word_bits /\ k - n \in 1..word_bits /\ n \in 0..k
        /\ k - n - 1 \in 0..word_bits /\ k - n - 1 = (k - n) - 1
    BY WidthFacts
  <2>2. 2 ^ k = p * 2 ^ (k - n)
    BY <2>1, PowersAdd
  <2>3. 2 ^ (k - n) = 2 * q
    BY <2>1, PowersAssumption
  <2> QED
    BY <2>1, <2>2, <2>3, PowersOfTwo
<1>2. PICK v : v = 2 ^ k - 1
  OBVIOUS
<1>3. Bit(2 ^ k - 1, n) = (v \div p) % 2
  BY <1>2 DEF Bit
<1> HIDE DEF p, q
<1>4. v = p * (2 * q - 1) + (p - 1)
  BY <1>1, <1>2
<1>5. v \div p = 2 * q - 1
  <2>1. 2 * q - 1 \in Int /\ p - 1 \in 0..p - 1 /\ v \in Int
    BY <1>1, <1>4
  <2> QED
    BY <1>1, <1>4, <2>1, DivUnique
<1>6. (2 * q - 1) % 2 = 1
  BY <1>1
<1> QED
  BY <1>3, <1>5, <1>6

\* A word is made of its bits.
LEMMA BitsMakeWord ==
    ASSUME NEW w \in Word, NEW bits,
           \A n \in 0..word_bits - 1 : bits[n] <=> Bit(w, n) = 1
    PROVE  FromBits(bits) = w
<1> DEFINE N == word_bits
<1>1. PICK value : /\ FromBits(bits) = value[N] /\ value[0] = 0
                   /\ \A n \in 1..N : value[n] =
                        2 * value[n - 1] + Truth(bits[N - n])
  BY FromBitsRecursion
<1>2. N \in Nat /\ w \in Nat /\ w <= 2 ^ N - 1
  BY WidthFacts, WordModFacts DEF Word, WordMod
<1> DEFINE P == {n \in 0..N : value[n] = w \div 2 ^ (N - n)}
<1>3. 0 \in P
  <2>1. PICK p \in Nat \ {0} : p = 2 ^ N
    BY WidthFacts, PowersOfTwo
  <2>2. w \div p = 0
    BY <1>2, <2>1
  <2>3. N - 0 = N /\ 0 \in 0..N
    BY <1>2
  <2> QED
    BY <1>1, <2>1, <2>2, <2>3
<1>4. ASSUME NEW n \in 1..N, n - 1 \in P
      PROVE  n \in P
  <2>1. /\ N - n \in 0..N - 1 /\ N - n \in 0..N /\ N - (n - 1) \in 1..N
        /\ (N - (n - 1)) - 1 = N - n
    BY <1>2
  <2>2. PICK p \in Nat \ {0} : p = 2 ^ (N - n)
    BY <2>1, PowersOfTwo
  <2>3. 2 ^ (N - (n - 1)) = p * 2
    BY <2>1, <2>2, PowersAssumption
  <2>4. value[n - 1] = (w \div p) \div 2
    <3>1. value[n - 1] = w \div (p * 2)
      BY <1>4, <2>3
    <3>2. w \div (p * 2) = (w \div p) \div 2
      BY ONLY <1>2, p \in Nat \ {0}, 2 \in Nat \ {0}, DivTwice
    <3> QED
      BY <3>1, <3>2
  <2>5. Truth(bits[N - n]) = (w \div p) % 2
    <3>1. bits[N - n] <=> Bit(w, N - n) = 1
      BY <2>1
    <3>2. Bit(w, N - n) = (w \div p) % 2
      BY <2>2 DEF Bit
    <3>3. Bit(w, N - n) \in {0, 1}
      BY <1>2, <2>1, BitFacts
    <3> QED
      BY <3>1, <3>2, <3>3 DEF Truth
  <2>6. PICK v \in Nat : v = w \div p
    BY <1>2
  <2>7. 2 * (v \div 2) + (v % 2) = v
    OBVIOUS
  <2>8. value[n] = w \div 2 ^ (N - n)
    BY <1>1, <2>2, <2>4, <2>5, <2>6, <2>7
  <2> QED
    BY <2>8
<1>5. 0..N \subseteq P
  <2> HIDE DEF P, N
  <2> QED
    BY <1>2, <1>3, <1>4, RangeInduction
<1>6. value[N] = w \div 2 ^ (N - N)
  <2>1. N \in 0..N
    BY <1>2
  <2> QED
    BY <1>5, <2>1
<1>7. w \div 1 = w /\ N - N = 0
  BY <1>2
<1> QED
  BY <1>1, <1>6, <1>7, PowersAssumption

\* The product modulo m is what its name says.
LEMMA MulModuloIsProduct ==
    ASSUME NEW u \in Nat, NEW w \in Word, NEW m \in Nat \ {0}
    PROVE  MulModulo(u, w, m) = (u * w) % m
<1> DEFINE N == word_bits
<1>a. PICK sum : Product(u, w, m, sum)
  BY WordIsNat, ProductRecursion
<1>1. /\ MulModulo(u, w, m) = IF 0 \in {u, w} THEN 0 ELSE sum[N]
      /\ sum[0] = 0
      /\ \A n \in 1..N : sum[n] = (2 * sum[n - 1] + Bit(w, N - n) * u) % m
  BY <1>a DEF Product
<1>2. N \in Nat /\ w \in Nat /\ w <= 2 ^ N - 1
  BY WidthFacts, WordModFacts DEF Word, WordMod
<1> DEFINE P == {n \in 0..N : sum[n] = (u * (w \div 2 ^ (N - n))) % m}
<1>3. 0 \in P
  <2>1. PICK p \in Nat \ {0} : p = 2 ^ N
    BY WidthFacts, PowersOfTwo
  <2>2. w \div p = 0
    BY <1>2, <2>1
  <2>3. N - 0 = N /\ 0 \in 0..N
    BY <1>2
  <2>4. (u * 0) % m = 0
    OBVIOUS
  <2> QED
    BY <1>1, <2>1, <2>2, <2>3, <2>4
<1>4. ASSUME NEW n \in 1..N, n - 1 \in P
      PROVE  n \in P
  <2>1. /\ N - n \in 0..N - 1 /\ N - n \in 0..N /\ N - (n - 1) \in 1..N
        /\ (N - (n - 1)) - 1 = N - n
    BY <1>2
  <2>2. PICK p \in Nat \ {0} : p = 2 ^ (N - n)
    BY <2>1, PowersOfTwo
  <2>3. 2 ^ (N - (n - 1)) = p * 2
    BY <2>1, <2>2, PowersAssumption
  <2>6. PICK v \in Nat : v = w \div p
    BY <1>2
  <2>4. sum[n - 1] = (u * (v \div 2)) % m
    <3>1. sum[n - 1] = (u * (w \div (p * 2))) % m
      BY <1>4, <2>3
    <3>2. w \div (p * 2) = (w \div p) \div 2
      BY ONLY <1>2, p \in Nat \ {0}, 2 \in Nat \ {0}, DivTwice
    <3> QED
      BY <3>1, <3>2, <2>6
  <2>5. Bit(w, N - n) = v % 2
    BY <2>2, <2>6 DEF Bit
  <2>7. sum[n] = (2 * ((u * (v \div 2)) % m) + (v % 2) * u) % m
    BY <1>1, <2>4, <2>5
  <2>8. (2 * ((u * (v \div 2)) % m) + (v % 2) * u) % m = (u * v) % m
    <3>1. PICK h \in Nat, b \in Nat : h = v \div 2 /\ b = v % 2 /\ v = 2 * h + b
      OBVIOUS
    <3>2. PICK a \in Nat : a = u * h
      OBVIOUS
    <3>3. PICK q \in Int, r \in 0..m - 1 : r = a % m /\ a = m * q + r
      <4>1. a \div m \in Int /\ a % m \in 0..m - 1
            /\ a = m * (a \div m) + (a % m)
        BY DivMod
      <4> QED
        BY <4>1
    <3>4. PICK c \in Nat : c = b * u
      OBVIOUS
    <3>5. u * v = 2 * a + c
      <4>1. u * v = u * (2 * h + b)
        BY <3>1
      <4>2. u * (2 * h + b) = 2 * (u * h) + b * u
        OBVIOUS
      <4> QED
        BY <4>1, <4>2, <3>2, <3>4
    <3>6. (2 * a + c) % m = (2 * r + c) % m
      <4>1. PICK e \in Int, f \in 0..m - 1 :
              f = (2 * r + c) % m /\ 2 * r + c = m * e + f
        <5>1. PICK z \in Int : z = 2 * r + c
          OBVIOUS
        <5>2. z \div m \in Int /\ z % m \in 0..m - 1
              /\ z = m * (z \div m) + (z % m)
          BY DivMod
        <5> QED
          BY <5>1, <5>2
      <4>2. PICK k \in Int : k = 2 * q + e
        OBVIOUS
      <4>3. 2 * a + c = m * k + f
        <5>1. m * k = 2 * (m * q) + m * e
          BY <4>2
        <5>2. PICK g \in Int, h1 \in Int : g = m * q /\ h1 = m * e
          OBVIOUS
        <5>3. a = g + r /\ 2 * r + c = h1 + f /\ m * k = 2 * g + h1
          BY <5>1, <5>2, <3>3, <4>1
        <5> QED
          BY ONLY <5>3, a \in Nat, c \in Nat, g \in Int, h1 \in Int,
                  r \in 0..m - 1, f \in 0..m - 1, m \in Nat \ {0}
      <4>4. (2 * a + c) % m = f
        <5>1. PICK z \in Int : z = 2 * a + c
          OBVIOUS
        <5>2. z = m * k + f
          BY <5>1, <4>3
        <5>3. z % m = f
          BY ONLY <5>2, z \in Int, f \in 0..m - 1, m \in Nat \ {0},
                  k \in Int, DivUnique
        <5> QED
          BY <5>1, <5>3
      <4> QED
        BY <4>1, <4>4
    <3> QED
      BY <3>1, <3>2, <3>3, <3>4, <3>5, <3>6
  <2>9. sum[n] = (u * (w \div 2 ^ (N - n))) % m
    BY <2>2, <2>6, <2>7, <2>8
  <2> QED
    BY <2>9
<1>5. 0..N \subseteq P
  <2> HIDE DEF P, N
  <2> QED
    BY <1>2, <1>3, <1>4, RangeInduction
<1>6. sum[N] = (u * (w \div 2 ^ (N - N))) % m
  <2>1. N \in 0..N
    BY <1>2
  <2> QED
    BY <1>5, <2>1
<1>7. w \div 1 = w /\ N - N = 0
  BY <1>2
<1>8. sum[N] = (u * w) % m
  BY <1>6, <1>7, PowersAssumption
<1>9. 0 \in {u, w} => (u * w) % m = 0
  <2>1. 0 \in {u, w} => u * w = 0
    BY <1>2
  <2>2. 0 % m = 0
    OBVIOUS
  <2> QED
    BY <2>1, <2>2
<1> QED
  BY <1>1, <1>8, <1>9

-----------------------------------------------------------------------------
(***************************************************************************)
(* Masks.                                                                  *)
(***************************************************************************)
LEMMA ZeroBit ==
    ASSUME NEW n \in 0..word_bits
    PROVE  Bit(0, n) = 0
<1>1. PICK p \in Nat \ {0} : p = 2 ^ n
  BY PowersOfTwo
<1>2. 0 \div p = 0
  OBVIOUS
<1> QED
  BY <1>1, <1>2 DEF Bit

\* A number of k bits has no bit above them.
LEMMA NoHighBit ==
    ASSUME NEW k \in 0..word_bits, NEW u \in 0..2 ^ k - 1,
           NEW n \in k..word_bits
    PROVE  Bit(u, n) = 0
<1>1. Bit(u + 0 * 2 ^ k, n) = Bit(0, n - k)
  BY ONLY k \in 0..word_bits, u \in 0..2 ^ k - 1, 0 \in Nat,
          n \in k..word_bits, HighBit
<1>2. u + 0 * 2 ^ k = u /\ n - k \in 0..word_bits
  BY WidthFacts, PowersOfTwo
<1> QED
  BY <1>1, <1>2, ZeroBit

\* A word is its k low bits and the number above them, and back.
LEMMA SplitWord ==
    ASSUME NEW k \in 0..word_bits, NEW w \in Word
    PROVE  /\ w % 2 ^ k \in 0..2 ^ k - 1
           /\ w \div 2 ^ k \in 0..2 ^ (word_bits - k) - 1
           /\ w = (w % 2 ^ k) + (w \div 2 ^ k) * 2 ^ k
<1>1. PICK p \in Nat \ {0}, q \in Nat \ {0} :
        p = 2 ^ k /\ q = 2 ^ (word_bits - k)
  BY WidthFacts, PowersOfTwo
<1>2. WordMod = p * q
  BY <1>1, PowersMultiply
<1>3. w \in Nat /\ w < p * q
  BY <1>2, WordModFacts DEF Word
<1>4. /\ w \div p \in Int /\ w % p \in 0..p - 1
      /\ w = p * (w \div p) + (w % p)
  BY ONLY <1>3, p \in Nat \ {0}, DivMod
<1>5. w \div p \in Nat
  BY <1>3
<1>6. PICK c \in Nat : c = w \div p
  BY <1>5
<1>7. c < q
  <2>1. SUFFICES ASSUME c >= q PROVE FALSE
    OBVIOUS
  <2>2. p * c >= p * q
    BY <2>1
  <2> QED
    BY <1>3, <1>4, <1>6, <2>2
<1> QED
  BY <1>1, <1>4, <1>6, <1>7

LEMMA JoinWord ==
    ASSUME NEW k \in 0..word_bits, NEW u \in 0..2 ^ k - 1,
           NEW c \in 0..2 ^ (word_bits - k) - 1
    PROVE  u + c * 2 ^ k \in Word
<1>1. PICK p \in Nat \ {0}, q \in Nat \ {0} :
        p = 2 ^ k /\ q = 2 ^ (word_bits - k)
  BY WidthFacts, PowersOfTwo
<1>2. WordMod = p * q
  BY <1>1, PowersMultiply
<1>3. u \in 0..p - 1 /\ c \in 0..q - 1
  BY <1>1
<1>4. c * p + p <= p * q /\ c * p \in Nat
  <2>1. (c + 1) * p <= q * p
    BY <1>3
  <2> QED
    BY <1>3, <2>1
<1>5. u + c * p \in 0..WordMod - 1
  BY <1>2, <1>3, <1>4
<1> QED
  BY <1>1, <1>5 DEF Word

\* Or-ing what lies above k bits to k bits is adding it.
LEMMA OrAbove ==
    ASSUME NEW k \in 0..word_bits, NEW u \in 0..2 ^ k - 1,
           NEW c \in 0..2 ^ (word_bits - k) - 1
    PROVE  or_(u, c * 2 ^ k) = u + c * 2 ^ k
<1> DEFINE N == word_bits
           bits == [n \in 0..N - 1 |-> Bit(u, n) = 1 \/ Bit(c * 2 ^ k, n) = 1]
<1>1. N \in Nat /\ k \in 0..N /\ 2 ^ k \in Nat \ {0}
  BY WidthFacts, PowersOfTwo
<1>2. u \in Nat /\ c \in Nat /\ 0 \in 0..2 ^ k - 1
  BY <1>1
<1>3. PICK v \in Nat : v = c * 2 ^ k
  BY <1>1, <1>2
<1>4. v = 0 + c * 2 ^ k /\ u = u + 0 * 2 ^ k
  BY <1>1, <1>2, <1>3
<1>5. PICK w \in Word : w = u + c * 2 ^ k
  BY JoinWord
<1>6. ASSUME NEW n \in 0..N - 1
      PROVE  (Bit(u, n) = 1 \/ Bit(v, n) = 1) <=> Bit(w, n) = 1
  <2>1. CASE n < k
    <3>1. n \in 0..k - 1 /\ n \in 0..N
      BY <2>1, <1>1
    <3>2. Bit(w, n) = Bit(u, n)
      BY <3>1, <1>2, <1>5, LowBit
    <3>3. Bit(v, n) = Bit(0, n)
      BY <3>1, <1>2, <1>4, LowBit
    <3>4. Bit(0, n) = 0
      BY <3>1, ZeroBit
    <3> QED
      BY <3>2, <3>3, <3>4
  <2>2. CASE n >= k
    <3>1. n \in k..N /\ n - k \in 0..N
      BY <2>2, <1>1
    <3>2. Bit(w, n) = Bit(c, n - k)
      BY <3>1, <1>2, <1>5, HighBit
    <3>3. Bit(v, n) = Bit(c, n - k)
      BY <3>1, <1>2, <1>4, HighBit
    <3>4. Bit(u, n) = 0
      BY <3>1, NoHighBit
    <3> QED
      BY <3>2, <3>3, <3>4
  <2> QED
    BY <2>1, <2>2, <1>1
<1>7. \A n \in 0..word_bits - 1 : bits[n] <=> Bit(w, n) = 1
  BY <1>3, <1>6
<1> HIDE DEF bits
<1>8. FromBits(bits) = w
  BY <1>7, BitsMakeWord
<1> QED
  BY <1>5, <1>8 DEF or_, bits

\* The k low bits of a word.
LEMMA AndBelow ==
    ASSUME NEW k \in 0..word_bits, NEW w \in Word
    PROVE  and_(w, 2 ^ k - 1) = w % 2 ^ k
<1> DEFINE N == word_bits
           mask == 2 ^ k - 1
           bits == [n \in 0..N - 1 |-> Bit(w, n) = 1 /\ Bit(mask, n) = 1]
<1>1. /\ N \in Nat /\ k \in 0..N /\ 2 ^ k \in Nat \ {0}
      /\ 2 ^ (N - k) \in Nat \ {0}
  BY WidthFacts, PowersOfTwo
<1>2. PICK u \in 0..2 ^ k - 1, c \in Nat :
        u = w % 2 ^ k /\ w = u + c * 2 ^ k
  <2>1. w \div 2 ^ k \in Nat
    BY <1>1, SplitWord
  <2> QED
    BY <2>1, SplitWord
<1>3. 0 \in 0..2 ^ (N - k) - 1 /\ u \in Nat
  BY <1>1
<1>4. u = u + 0 * 2 ^ k /\ mask = mask + 0 * 2 ^ k /\ mask \in 0..2 ^ k - 1
  BY <1>1, <1>3
<1>5. u \in Word
  BY <1>3, <1>4, JoinWord
<1>6. ASSUME NEW n \in 0..N - 1
      PROVE  (Bit(w, n) = 1 /\ Bit(mask, n) = 1) <=> Bit(u, n) = 1
  <2>1. CASE n < k
    <3>1. n \in 0..k - 1 /\ n \in 0..N
      BY <2>1, <1>1
    <3>2. Bit(w, n) = Bit(u, n)
      BY <3>1, <1>2, <1>3, LowBit
    <3>3. Bit(mask, n) = 1
      BY <3>1, MaskBit
    <3> QED
      BY <3>2, <3>3
  <2>2. CASE n >= k
    <3>1. n \in k..N /\ n - k \in 0..N
      BY <2>2, <1>1
    <3> HIDE DEF mask
    <3>3. Bit(mask, n) = 0
      BY <3>1, <1>4, NoHighBit
    <3>4. Bit(u, n) = 0
      BY <3>1, NoHighBit
    <3> QED
      BY <3>3, <3>4
  <2> QED
    BY <2>1, <2>2, <1>1
<1> HIDE DEF mask
<1>7. \A n \in 0..word_bits - 1 : bits[n] <=> Bit(u, n) = 1
  BY <1>6
<1> HIDE DEF bits
<1>8. FromBits(bits) = u
  BY <1>5, <1>7, BitsMakeWord
<1> QED
  BY <1>2, <1>8 DEF and_, bits, mask

\* All bits above k low ones of a word are set.
LEMMA OrOnes ==
    ASSUME NEW k \in 0..word_bits, NEW w \in Word
    PROVE  or_(w, WordMod - 2 ^ k) = (w % 2 ^ k) + (WordMod - 2 ^ k)
<1> DEFINE N == word_bits
           ones == WordMod - 2 ^ k
           c == 2 ^ (N - k) - 1
           bits == [n \in 0..N - 1 |-> Bit(w, n) = 1 \/ Bit(ones, n) = 1]
<1>1. /\ N \in Nat /\ k \in 0..N /\ 2 ^ k \in Nat \ {0}
      /\ 2 ^ (N - k) \in Nat \ {0} /\ N - k \in 0..N
  BY WidthFacts, PowersOfTwo
<1>2. PICK u \in 0..2 ^ k - 1, d \in Nat :
        u = w % 2 ^ k /\ w = u + d * 2 ^ k
  <2>1. w \div 2 ^ k \in Nat
    BY <1>1, SplitWord
  <2> QED
    BY <2>1, SplitWord
<1>3. c \in 0..2 ^ (N - k) - 1 /\ u \in Nat /\ c \in Nat /\ 0 \in 0..2 ^ k - 1
  BY <1>1
<1>4. ones = 0 + c * 2 ^ k
  <2>1. PICK p \in Nat \ {0}, q \in Nat \ {0} :
          p = 2 ^ k /\ q = 2 ^ (N - k)
    BY <1>1
  <2>2. WordMod = p * q
    BY <2>1, PowersMultiply
  <2>3. p * q - p = (q - 1) * p
    OBVIOUS
  <2>4. (q - 1) * p \in Int
    OBVIOUS
  <2> QED
    BY <2>1, <2>2, <2>3, <2>4
<1> HIDE DEF ones
<1>5. PICK v \in Word : v = u + c * 2 ^ k
  BY <1>3, JoinWord
<1>6. ASSUME NEW n \in 0..N - 1
      PROVE  (Bit(w, n) = 1 \/ Bit(ones, n) = 1) <=> Bit(v, n) = 1
  <2>1. CASE n < k
    <3>1. n \in 0..k - 1 /\ n \in 0..N
      BY <2>1, <1>1
    <3> HIDE DEF c
    <3>2. Bit(w, n) = Bit(u, n)
      <4>1. Bit(u + d * 2 ^ k, n) = Bit(u, n)
        BY ONLY <3>1, <1>3, k \in 0..word_bits, d \in Nat, LowBit
      <4> QED
        BY <4>1, <1>2
    <3>3. Bit(v, n) = Bit(u, n)
      BY <3>1, <1>3, <1>5, LowBit
    <3>4. Bit(ones, n) = Bit(0, n)
      BY <3>1, <1>3, <1>4, LowBit
    <3>5. Bit(0, n) = 0
      BY <3>1, ZeroBit
    <3> QED
      BY <3>2, <3>3, <3>4, <3>5
  <2>2. CASE n >= k
    <3>1. n \in k..N /\ n - k \in 0..(N - k) - 1
      BY <2>2, <1>1
    <3>5. Bit(c, n - k) = 1
      BY <3>1, <1>1, MaskBit
    <3> HIDE DEF c
    <3>3. Bit(ones, n) = Bit(c, n - k)
      BY <3>1, <1>3, <1>4, HighBit
    <3>4. Bit(v, n) = Bit(c, n - k)
      BY <3>1, <1>3, <1>5, HighBit
    <3> QED
      BY <3>3, <3>4, <3>5
  <2> QED
    BY <2>1, <2>2, <1>1
<1>7. \A n \in 0..word_bits - 1 : bits[n] <=> Bit(v, n) = 1
  BY <1>6
<1> HIDE DEF bits
<1>8. FromBits(bits) = v
  BY <1>7, BitsMakeWord
<1>9. v = u + ones
  BY <1>3, <1>4, <1>5, <1>1
<1> QED
  BY <1>2, <1>8, <1>9 DEF or_, bits, ones

\* A single bit of a word.
LEMMA AndBit ==
    ASSUME NEW k \in 0..word_bits - 1, NEW w \in Word
    PROVE  and_(w, 2 ^ k) # 0 <=> Bit(w, k) = 1
<1> DEFINE N == word_bits
           bits == [n \in 0..N - 1 |-> Bit(w, n) = 1 /\ Bit(2 ^ k, n) = 1]
<1>1. /\ N \in Nat /\ k \in 0..N /\ 2 ^ k \in Nat \ {0}
      /\ 2 ^ (N - k) \in Nat \ {0} /\ N - k \in 1..N
      /\ w \in Nat /\ 0 \in 0..2 ^ k - 1
  BY WidthFacts, PowersOfTwo, WordIsNat
<1>2. 2 ^ k = 0 + 1 * 2 ^ k
  BY <1>1
<1>3. ASSUME NEW n \in 0..N - 1
      PROVE  Bit(2 ^ k, n) = 1 <=> n = k
  <2>1. CASE n < k
    <3>1. n \in 0..k - 1 /\ n \in 0..N
      BY <2>1, <1>1
    <3>2. Bit(2 ^ k, n) = Bit(0, n)
      <4>1. Bit(0 + 1 * 2 ^ k, n) = Bit(0, n)
        BY ONLY <3>1, <1>1, 0 \in Nat, 1 \in Nat, LowBit
      <4> QED
        BY <4>1, <1>2
    <3> QED
      BY <3>1, <3>2, <2>1, ZeroBit
  <2>2. CASE n >= k
    <3>1. n \in k..N /\ n - k \in 0..N
      BY <2>2, <1>1
    <3>2. Bit(2 ^ k, n) = Bit(1, n - k)
      <4>1. Bit(0 + 1 * 2 ^ k, n) = Bit(1, n - k)
        BY ONLY <3>1, <1>1, 1 \in Nat, HighBit
      <4> QED
        BY <4>1, <1>2
    <3>3. CASE n = k
      <4>1. Bit(1, 0) = 1
        <5>1. (1 \div 1) % 2 = 1
          OBVIOUS
        <5> QED
          BY <5>1, PowersAssumption DEF Bit
      <4> QED
        BY <3>2, <3>3, <4>1, <1>1
    <3>4. CASE n # k
      <4>1. PICK j \in 1..N : j = n - k
        BY <3>1, <3>4, <2>2, <1>1
      <4>2. PICK p \in Nat \ {0} : 2 ^ j = 2 * p
        <5>1. j - 1 \in 0..N
          BY <1>1
        <5> QED
          BY <5>1, PowersAssumption, PowersOfTwo
      <4>3. 1 \div (2 * p) = 0
        OBVIOUS
      <4>4. Bit(1, j) = 0
        BY <4>2, <4>3 DEF Bit
      <4> QED
        BY <4>1, <4>4, <3>2, <3>4
    <3> QED
      BY <3>3, <3>4
  <2> QED
    BY <2>1, <2>2, <1>1
<1>4. and_(w, 2 ^ k) = FromBits(bits)
  BY DEF and_
<1>5. CASE Bit(w, k) = 1
  <2>1. 2 ^ k \in Word
    <3>1. PICK q \in Nat : q = 2 ^ (N - k)
      BY <1>1
    <3>2. q >= 2
      <4>1. N - k - 1 \in 0..N /\ N - k - 1 = (N - k) - 1
        BY <1>1
      <4> QED
        BY <1>1, <4>1, <3>1, PowersAssumption, PowersOfTwo
    <3>3. 1 \in 0..2 ^ (N - k) - 1
      BY <3>1, <3>2
    <3> QED
      BY <3>3, <1>1, <1>2, JoinWord
  <2>2. \A n \in 0..word_bits - 1 : bits[n] <=> Bit(2 ^ k, n) = 1
    BY <1>3, <1>5
  <2> HIDE DEF bits
  <2>3. FromBits(bits) = 2 ^ k
    BY <2>1, <2>2, BitsMakeWord
  <2> QED
    BY <1>1, <1>4, <1>5, <2>3
<1>6. CASE Bit(w, k) # 1
  <2>1. \A n \in 0..word_bits - 1 : Bit(0, n) = 0
    BY <1>1, ZeroBit
  <2>2. \A n \in 0..word_bits - 1 : bits[n] <=> Bit(0, n) = 1
    <3>1. TAKE n \in 0..word_bits - 1
    <3>2. ~bits[n]
      BY <1>3, <1>6
    <3> QED
      BY <3>2, <2>1
  <2> HIDE DEF bits
  <2>3. FromBits(bits) = 0
    BY <2>2, WordIsNat, BitsMakeWord
  <2> QED
    BY <1>4, <1>6, <2>3
<1> QED
  BY <1>5, <1>6

-----------------------------------------------------------------------------
(***************************************************************************)
(* The instructions, for operands c (often a count) and w.                 *)
(***************************************************************************)
LEMMA HalfFacts ==
    /\ 2 ^ (word_bits - 1) \in Nat \ {0}
    /\ WordMod = 2 * 2 ^ (word_bits - 1)
    /\ WordMod \div 2 = 2 ^ (word_bits - 1)
<1>1. word_bits \in 1..word_bits /\ word_bits - 1 \in 0..word_bits
  BY WidthFacts
<1>2. PICK h \in Nat \ {0} : h = 2 ^ (word_bits - 1)
  BY <1>1, PowersOfTwo
<1>3. WordMod = 2 * h
  BY <1>1, <1>2, PowersAssumption DEF WordMod
<1>4. (2 * h) \div 2 = h
  OBVIOUS
<1> QED
  BY <1>2, <1>3, <1>4

LEMMA ByteTaken ==
    ASSUME NEW c \in Word, NEW w \in Word
    PROVE  byte(c, w) = IF c < WordSize THEN be_store(w)[c + 1] ELSE 0
<1>1. c \in Nat /\ w \in Nat /\ WordSize \in Nat \ {0}
  BY WordIsNat, WidthFacts
<1>2. CASE c < WordSize
  <2>1. c % WordSize = c
    BY <1>1, <1>2
  <2>2. PICK k \in 0..WordSize - 1 : k = WordSize - 1 - c
    BY <1>1, <1>2
  <2>3. byte(c, w) = ShiftRight(w, 8 * k) % 256
    BY <1>2, <2>1, <2>2 DEF byte
  <2>4. 8 * k < word_bits /\ 8 * k \in Nat
    BY <1>1, WidthFacts
  <2>5. ShiftRight(w, 8 * k) = w \div 2 ^ (8 * k)
    BY <2>4, WidthFacts DEF ShiftRight
  <2>6. 2 ^ (8 * k) = 256 ^ k
    BY <1>1, PowersOfBytes
  <2>7. be_store(w)[c + 1] = (w \div 256 ^ (WordSize - (c + 1))) % 256
    BY <1>1, <1>2 DEF be_store
  <2>8. WordSize - (c + 1) = k
    BY <1>1, <2>2
  <2> QED
    BY <1>2, <2>3, <2>5, <2>6, <2>7, <2>8
<1>3. CASE ~(c < WordSize)
  <2>1. PICK k : k = WordSize - 1 - (c % WordSize)
    OBVIOUS
  <2>2. k \in Nat
    <3>1. c % WordSize \in 0..WordSize - 1
      BY <1>1, DivMod
    <3> QED
      BY <1>1, <2>1, <3>1
  <2>3. byte(c, w) = ShiftRight(w, 8 * k) % 1
    BY <1>3, <2>1 DEF byte
  <2>4. 8 * k \in Nat
    BY <2>2
  <2>5. ShiftRight(w, 8 * k) \in Nat
    BY <2>4, ShiftRightIsWord, WordIsNat
  <2>6. ShiftRight(w, 8 * k) % 1 = 0
    BY <2>5
  <2> QED
    BY <1>3, <2>3, <2>6
<1> QED
  BY <1>2, <1>3

LEMMA SignExtended ==
    ASSUME NEW c \in Word, NEW w \in Word
    PROVE  LET low == 256 ^ (c + 1)
               part == w % low
           IN  TwosComplement(signextend(c, w)) =
                 IF c >= WordSize - 1 THEN TwosComplement(w)
                 ELSE IF part >= low \div 2 THEN part - low ELSE part
<1>1. c \in Nat /\ w \in Nat /\ WordSize \in Nat \ {0}
  BY WordIsNat, WidthFacts
<1>2. CASE c >= WordSize - 1
  BY <1>1, <1>2 DEF signextend
<1>3. CASE ~(c >= WordSize - 1)
  <2>1. PICK k \in 0..word_bits - 2 :
          k = c * 8 + 7 /\ k + 1 = 8 * (c + 1) /\ c < WordSize - 1
            /\ c + 1 \in 0..WordSize
    BY <1>1, <1>3, WidthFacts
  <2>2. /\ k \in 0..word_bits /\ k \in 0..word_bits - 1
        /\ k + 1 \in 1..word_bits /\ (k + 1) - 1 = k
        /\ word_bits - k \in 1..word_bits
        /\ (word_bits - k) - 1 \in 1..word_bits
        /\ ((word_bits - k) - 1) - 1 \in 0..word_bits
    BY <2>1, WidthFacts
  <2>3. PICK p \in Nat \ {0}, q \in Nat \ {0} :
          p = 2 ^ k /\ q = 2 ^ (((word_bits - k) - 1) - 1)
    BY <2>2, PowersOfTwo
  <2>4. 2 ^ (word_bits - k) = 4 * q
    <3>1. 2 ^ (word_bits - k) = 2 * 2 ^ ((word_bits - k) - 1)
      BY <2>2, PowersAssumption
    <3>2. 2 ^ ((word_bits - k) - 1) = 2 * q
      BY <2>2, <2>3, PowersAssumption
    <3> QED
      BY <3>1, <3>2
  <2>5. WordMod = p * (4 * q)
    BY <2>2, <2>3, <2>4, PowersMultiply
  <2>6. WordMod \div 2 = p * (2 * q) /\ p * q \in Nat /\ p * q >= p
        /\ WordMod = 4 * (p * q) /\ p * (2 * q) = 2 * (p * q)
    <3>1. PICK r \in Nat : r = p * q
      OBVIOUS
    <3>2. p * (4 * q) = 4 * r /\ p * (2 * q) = 2 * r /\ r >= p
      BY <3>1
    <3>3. (4 * r) \div 2 = 2 * r
      OBVIOUS
    <3> QED
      BY <2>5, <3>1, <3>2, <3>3
  <2>7. ShiftLeft(1, c * 8 + 7) = p
    <3>1. ~(k >= word_bits)
      BY <2>1, WidthFacts
    <3>2. ShiftLeft(1, k) = (1 % (4 * q)) * p
      BY <3>1, <2>3, <2>4 DEF ShiftLeft
    <3>3. 1 % (4 * q) = 1
      OBVIOUS
    <3> QED
      BY <2>1, <3>2, <3>3
  <2>8. signextend(c, w) = IF and_(w, p) # 0 THEN or_(w, not_(p - 1))
                           ELSE and_(w, p - 1)
    BY <2>1, <2>7 DEF signextend
  <2>9. 256 ^ (c + 1) = 2 * p
    <3>1. 256 ^ (c + 1) = 2 ^ (8 * (c + 1))
      BY <2>1, PowersOfBytes
    <3>2. 2 ^ (k + 1) = 2 * p
      BY <2>2, <2>3, PowersAssumption
    <3> QED
      BY <2>1, <3>1, <3>2
  <2>10. (2 * p) \div 2 = p
    OBVIOUS
  <2>11. not_(p - 1) = WordMod - p
    BY WordModFacts DEF not_
  <2>12. PICK u \in 0..p - 1, d \in Nat :
           u = w % p /\ d = w \div p /\ w = u + d * p
    <3>1. w \div p \in Nat
      BY <1>1
    <3>2. /\ w \div p \in Int /\ w % p \in 0..p - 1
          /\ w = p * (w \div p) + (w % p)
      BY ONLY <1>1, p \in Nat \ {0}, DivMod
    <3> QED
      BY <3>1, <3>2
  <2>13. Bit(w, k) = d % 2
    BY <2>3, <2>12 DEF Bit
  <2>14. PICK e \in Nat, b \in {0, 1} : d = 2 * e + b /\ b = d % 2
    <3>1. d \div 2 \in Nat /\ d % 2 \in {0, 1} /\ d = 2 * (d \div 2) + (d % 2)
      OBVIOUS
    <3> QED
      BY <3>1
  <2>15. w % (2 * p) = u + b * p
    <3>1. PICK r \in Int : r = u + b * p
      OBVIOUS
    <3>2. r \in 0..2 * p - 1
      BY <2>12, <2>14, <3>1
    <3>3. w = (2 * p) * e + r
      <4>1. d * p = (2 * e) * p + b * p
        BY <2>14
      <4>2. (2 * e) * p = (2 * p) * e
        OBVIOUS
      <4>3. PICK f \in Int, g \in Int : f = (2 * p) * e /\ g = b * p
        OBVIOUS
      <4> QED
        <5>1. w = u + d * p /\ d * p = f + g /\ r = u + g
          BY <2>12, <3>1, <4>1, <4>2, <4>3
        <5>2. w = f + r
          BY ONLY <5>1, u \in 0..p - 1, p \in Nat \ {0}, f \in Int, g \in Int
        <5> QED
          BY <5>2, <4>3
    <3>4. PICK m \in Nat \ {0} : m = 2 * p
      OBVIOUS
    <3>5. w % m = r
      <4>1. w \in Int /\ r \in 0..m - 1 /\ w = m * e + r /\ e \in Int
        BY <1>1, <3>2, <3>3, <3>4
      <4> QED
        BY ONLY <4>1, m \in Nat \ {0}, DivUnique
    <3> QED
      BY <3>1, <3>4, <3>5
  <2>16. and_(w, p) # 0 <=> b = 1
    BY <2>2, <2>3, <2>13, <2>14, AndBit
  <2>17. CASE b = 1
    <3>1. signextend(c, w) = u + (WordMod - p)
      <4>1. or_(w, WordMod - 2 ^ k) = (w % 2 ^ k) + (WordMod - 2 ^ k)
        BY <2>2, OrOnes
      <4> QED
        BY <2>3, <2>8, <2>11, <2>12, <2>16, <2>17, <4>1
    <3>2. TwosComplement(u + (WordMod - p)) = u - p
      BY <2>6, <2>12, WordModFacts DEF TwosComplement
    <3>3. w % (2 * p) = u + p /\ u + p >= p
      BY <2>15, <2>17
    <3>4. (u + p) - 2 * p = u - p
      OBVIOUS
    <3> QED
      BY <1>3, <2>9, <2>10, <3>1, <3>2, <3>3, <3>4
  <2>18. CASE b = 0
    <3>1. signextend(c, w) = u
      <4>1. and_(w, 2 ^ k - 1) = w % 2 ^ k
        BY <2>2, AndBelow
      <4> QED
        BY <2>3, <2>8, <2>12, <2>16, <2>18, <4>1
    <3>2. TwosComplement(u) = u
      BY <2>6, <2>12, WordModFacts DEF TwosComplement
    <3>3. w % (2 * p) = u /\ ~(u >= p)
      BY <2>15, <2>18
    <3> QED
      BY <1>3, <2>9, <2>10, <3>1, <3>2, <3>3
  <2> QED
    BY <2>14, <2>17, <2>18
<1> QED
  BY <1>2, <1>3

LEMMA SarShifted ==
    ASSUME NEW c \in Word, NEW w \in Word
    PROVE  LET a == TwosComplement(w)
               sign == IF a < 0 THEN -1 ELSE 0
           IN  TwosComplement(sar(c, w)) =
                 IF c >= word_bits THEN sign ELSE a \div 2 ^ c
<1> DEFINE N == word_bits
           negative == w >= WordMod \div 2
           sign_mask == IF negative THEN WordMod - 1 ELSE 0
           mask_shift == IF c < N THEN N - c ELSE 0
<1>1. c \in Nat /\ w \in Nat /\ N \in Nat \ {0} /\ w < WordMod
      /\ WordMod \in Nat \ {0} /\ WordMod >= 256
  BY WidthFacts, WordModFacts DEF Word
<1>2. PICK h \in Nat \ {0} :
        h = 2 ^ (N - 1) /\ WordMod = 2 * h /\ WordMod \div 2 = h
  BY HalfFacts
<1>3. sar(c, w) = or_(ShiftRight(w, c), ShiftLeft(sign_mask, mask_shift))
  BY DEF sar
<1>4. TwosComplement(w) = IF negative THEN w - WordMod ELSE w
  BY <1>1, <1>2 DEF TwosComplement
<1>5. negative <=> TwosComplement(w) < 0
  BY <1>1, <1>2, <1>4
<1>6. CASE c >= N
  <2>1. ShiftRight(w, c) = 0
    BY <1>6 DEF ShiftRight
  <2>2. ShiftLeft(sign_mask, mask_shift) = sign_mask
    <3>1. mask_shift = 0 /\ ~(0 >= N)
      BY <1>1, <1>6
    <3>2. ShiftLeft(sign_mask, 0) = (sign_mask % 2 ^ (N - 0)) * 2 ^ 0
      BY <3>1 DEF ShiftLeft
    <3>3. N - 0 = N /\ 2 ^ N = WordMod /\ 2 ^ 0 = 1
      BY <1>1, PowersAssumption DEF WordMod
    <3>4. sign_mask % WordMod = sign_mask /\ sign_mask * 1 = sign_mask
      BY <1>1
    <3> HIDE DEF sign_mask
    <3> QED
      BY <3>1, <3>2, <3>3, <3>4
  <2>3. or_(0, sign_mask) = sign_mask
    <3>1. 0 \in 0..N /\ 0 \in 0..2 ^ 0 - 1 /\ sign_mask \in 0..2 ^ (N - 0) - 1
      <4>1. N - 0 = N /\ 2 ^ N = WordMod
        BY <1>1 DEF WordMod
      <4>2. sign_mask \in 0..WordMod - 1
        BY <1>1
      <4> QED
        BY <1>1, <4>1, <4>2, PowersAssumption
    <3>2. or_(0, sign_mask * 2 ^ 0) = 0 + sign_mask * 2 ^ 0
      <4> HIDE DEF sign_mask
      <4> QED
        BY ONLY <3>1, OrAbove
    <3>3. sign_mask * 2 ^ 0 = sign_mask /\ 0 + sign_mask = sign_mask
      BY <1>1, PowersAssumption
    <3> HIDE DEF sign_mask
    <3> QED
      BY <3>2, <3>3
  <2>4. sar(c, w) = sign_mask
    <3> HIDE DEF sign_mask
    <3> QED
      BY <1>3, <2>1, <2>2, <2>3
  <2>5. TwosComplement(sign_mask) = IF negative THEN -1 ELSE 0
    BY <1>1, <1>2 DEF TwosComplement
  <2> HIDE DEF sign_mask, negative
  <2> QED
    BY <1>5, <1>6, <2>4, <2>5
<1>7. CASE ~(c >= N)
  <2>1. /\ c \in 0..N - 1 /\ c \in 0..N /\ N - c \in 1..N /\ N - c \in 0..N
        /\ N - (N - c) = c /\ (N - c) - 1 \in 0..N /\ c \in 0..(N - 1)
        /\ N - 1 \in 0..N /\ (N - 1) - c = (N - c) - 1
    BY <1>1, <1>7
  <2>2. PICK p \in Nat \ {0}, q \in Nat \ {0} :
          p = 2 ^ c /\ q = 2 ^ ((N - c) - 1)
    BY <2>1, PowersOfTwo
  <2>3. 2 ^ (N - c) = 2 * q
    BY <2>1, <2>2, PowersAssumption
  <2>4. WordMod = p * (2 * q) /\ h = p * q
    <3>1. WordMod = p * (2 * q)
      BY <2>1, <2>2, <2>3, PowersMultiply
    <3>2. 2 ^ (N - 1) = 2 ^ c * 2 ^ ((N - 1) - c)
      BY <2>1, PowersAdd
    <3> QED
      BY <1>2, <2>1, <2>2, <3>1, <3>2
  <2>5. PICK u \in Nat, r \in Int :
          u = w \div p /\ r \in 0..p - 1 /\ w = p * u + r
    <3>1. w \div p \in Nat
      BY <1>1
    <3>2. /\ w \div p \in Int /\ w % p \in 0..p - 1
          /\ w = p * (w \div p) + (w % p)
      BY ONLY <1>1, p \in Nat \ {0}, DivMod
    <3> QED
      BY <3>1, <3>2
  <2>6. ShiftRight(w, c) = u
    BY <1>7, <2>2, <2>5 DEF ShiftRight
  <2>7. u < 2 * q
    <3>1. SUFFICES ASSUME u >= 2 * q PROVE FALSE
      OBVIOUS
    <3>2. p * u >= p * (2 * q)
      BY <3>1
    <3>3. p * u \in Int
      OBVIOUS
    <3> QED
      BY <1>1, <2>4, <2>5, <3>2, <3>3
  <2>8. CASE negative
    <3>1. u >= q
      <4>1. SUFFICES ASSUME u <= q - 1 PROVE FALSE
        OBVIOUS
      <4>2. p * u <= p * (q - 1)
        BY <4>1
      <4>3. p * (q - 1) = p * q - p
        OBVIOUS
      <4>4. PICK f \in Int, g \in Int : f = p * u /\ g = p * q
        OBVIOUS
      <4>5. f <= g - p /\ w = f + r /\ w >= g
        BY <1>2, <2>4, <2>5, <2>8, <4>2, <4>3, <4>4
      <4> QED
        BY ONLY <4>5, f \in Int, g \in Int, p \in Nat \ {0}, <2>5
    <3>2. ShiftLeft(sign_mask, mask_shift) = (p - 1) * (2 * q)
      <4>1. sign_mask = WordMod - 1 /\ mask_shift = N - c
        BY <1>1, <1>7, <2>8
      <4>2. CASE c = 0
        <5>1. N - c >= N /\ p = 1
          BY <1>1, <2>2, <4>2, PowersAssumption
        <5>2. ShiftLeft(sign_mask, mask_shift) = 0
          BY <4>1, <5>1 DEF ShiftLeft
        <5> QED
          BY <5>1, <5>2
      <4>3. CASE c # 0
        <5>1. ~(N - c >= N)
          BY <1>1, <4>3
        <5>2. ShiftLeft(sign_mask, mask_shift) =
                ((WordMod - 1) % p) * (2 * q)
          BY <4>1, <5>1, <2>1, <2>2, <2>3 DEF ShiftLeft
        <5>3. (WordMod - 1) % p = p - 1
          <6>1. PICK m \in Int, t \in Int : m = WordMod - 1 /\ t = 2 * q - 1
            BY <1>1
          <6>2. m = p * t + (p - 1)
            <7>1. p * (2 * q - 1) = p * (2 * q) - p
              OBVIOUS
            <7>2. p * (2 * q) \in Int
              OBVIOUS
            <7> QED
              BY <2>4, <6>1, <7>1, <7>2
          <6>3. p - 1 \in 0..p - 1
            OBVIOUS
          <6>4. m % p = p - 1
            BY ONLY <6>2, <6>3, m \in Int, t \in Int, p \in Nat \ {0}, DivUnique
          <6> QED
            BY <6>1, <6>4
        <5> QED
          BY <5>2, <5>3
      <4> QED
        BY <4>2, <4>3
    <3>3. or_(u, (p - 1) * (2 * q)) = u + (p - 1) * (2 * q)
      <4>1. u \in 0..2 ^ (N - c) - 1 /\ p - 1 \in 0..2 ^ (N - (N - c)) - 1
        BY <2>1, <2>2, <2>3, <2>7
      <4>2. or_(u, (p - 1) * 2 ^ (N - c)) = u + (p - 1) * 2 ^ (N - c)
        BY ONLY <2>1, <4>1, OrAbove
      <4> QED
        BY <4>2, <2>3
    <3>4. (p - 1) * (2 * q) = WordMod - 2 * q
      <4>1. (p - 1) * (2 * q) = p * (2 * q) - 2 * q
        OBVIOUS
      <4> QED
        BY <2>4, <4>1
    <3>5. sar(c, w) = u + (WordMod - 2 * q)
      <4> HIDE DEF sign_mask, mask_shift
      <4> QED
        BY <1>3, <2>6, <3>2, <3>3, <3>4
    <3>6. p * q \in Nat /\ p * q >= q
      OBVIOUS
    <3>7. TwosComplement(sar(c, w)) = u - 2 * q
      <4>1. u + (WordMod - 2 * q) >= h
        BY <1>2, <2>4, <3>1, <3>6
      <4> QED
        BY <1>1, <1>2, <3>5, <4>1 DEF TwosComplement
    <3>8. (w - WordMod) \div p = u - 2 * q
      <4>1. PICK m \in Int, t \in Int : m = w - WordMod /\ t = u - 2 * q
        BY <1>1
      <4>2. m = p * t + r
        <5>1. p * (u - 2 * q) = p * u - p * (2 * q)
          OBVIOUS
        <5>2. PICK f \in Int, g \in Int : f = p * u /\ g = p * (2 * q)
          OBVIOUS
        <5>3. m = w - g /\ w = f + r /\ p * t = f - g
          BY <2>4, <2>5, <4>1, <5>1, <5>2
        <5> QED
          BY ONLY <5>3, f \in Int, g \in Int, r \in Int
      <4>3. m \div p = t
        BY ONLY <4>2, <2>5, m \in Int, t \in Int, p \in Nat \ {0}, DivUnique
      <4> QED
        BY <4>1, <4>3
    <3> QED
      BY <1>4, <1>7, <2>2, <2>8, <3>7, <3>8
  <2>9. CASE ~negative
    <3>1. ShiftLeft(sign_mask, mask_shift) = 0
      <4>1. sign_mask = 0 /\ mask_shift = N - c
        BY <1>1, <1>7, <2>9
      <4>2. CASE c = 0
        BY <1>1, <4>1, <4>2 DEF ShiftLeft
      <4>3. CASE c # 0
        <5>1. ShiftLeft(0, N - c) = (0 % p) * (2 * q)
          BY <4>3, <1>1, <2>1, <2>2, <2>3 DEF ShiftLeft
        <5>2. 0 % p = 0 /\ 0 * (2 * q) = 0
          OBVIOUS
        <5> QED
          BY <4>1, <5>1, <5>2
      <4> QED
        BY <4>2, <4>3
    <3>2. or_(u, 0) = u
      <4>1. u \in 0..2 ^ (N - c) - 1 /\ 0 \in 0..2 ^ (N - (N - c)) - 1
        BY <2>1, <2>2, <2>3, <2>7
      <4>2. or_(u, 0 * 2 ^ (N - c)) = u + 0 * 2 ^ (N - c)
        BY ONLY <2>1, <4>1, OrAbove
      <4> QED
        BY <4>2, <2>3
    <3>3. sar(c, w) = u
      <4> HIDE DEF sign_mask, mask_shift
      <4> QED
        BY <1>3, <2>6, <3>1, <3>2
    <3>4. u <= w
      <4>1. p * u >= u
        OBVIOUS
      <4> QED
        BY <2>5, <4>1
    <3>5. TwosComplement(u) = u
      BY <1>1, <1>2, <2>9, <3>4 DEF TwosComplement
    <3> QED
      BY <1>4, <1>7, <2>2, <2>5, <2>9, <3>3, <3>5
  <2> QED
    BY <2>8, <2>9
<1> QED
  BY <1>6, <1>7

\* A number and its remainder differ by a multiple.
LEMMA Congruent ==
    ASSUME NEW n \in Int, NEW d \in Nat \ {0}
    PROVE  \E k \in Int : n % d = n + d * k
<1>1. PICK q \in Int, r \in Int :
        q = n \div d /\ r = n % d /\ n = d * q + r
  <2>1. n \div d \in Int /\ n % d \in 0..d - 1 /\ n = d * (n \div d) + (n % d)
    BY DivMod
  <2> QED
    BY <2>1
<1>2. PICK k \in Int : k = -q
  OBVIOUS
<1>3. PICK e \in Int : e = d * q
  OBVIOUS
<1>4. d * k = -e
  BY ONLY <1>2, <1>3, d \in Nat \ {0}, q \in Int, k \in Int, e \in Int
<1>5. r = n + d * k
  BY <1>1, <1>3, <1>4
<1> QED
  BY <1>1, <1>5

LEMMA UnsignedDivisions ==
    ASSUME NEW a \in Word, NEW b \in Word, b # 0
    PROVE  add(mul(div(a, b), b), mod(a, b)) = a
<1>1. a \in Nat /\ b \in Nat \ {0} /\ a < WordMod /\ WordMod \in Nat \ {0}
  BY WordModFacts DEF Word
<1>2. PICK q \in Nat, r \in Nat : q = div(a, b) /\ r = mod(a, b)
                                    /\ a = b * q + r
  <2>1. a \div b \in Int /\ a % b \in 0..b - 1 /\ a = b * (a \div b) + (a % b)
    <3>1. a \in Int
      BY <1>1
    <3> QED
      BY ONLY <1>1, <3>1, DivMod
  <2>2. a \div b \in Nat
    BY <1>1
  <2> QED
    BY <2>1, <2>2, <1>1 DEF div, mod
<1>3. mul(q, b) = (q * b) % WordMod
  BY <1>1, MulModuloIsProduct DEF mul
<1>4. q * b \in Nat /\ q * b = b * q
  BY <1>1
<1>5. q * b < WordMod
  BY <1>1, <1>2, <1>4
<1>6. mul(q, b) = q * b
  <2>1. PICK m \in Nat : m = q * b
    BY <1>4
  <2>2. m % WordMod = m
    BY <1>1, <1>5, <2>1
  <2> QED
    BY <1>3, <2>1, <2>2
<1>7. add(mul(q, b), r) = a % WordMod
  BY <1>2, <1>4, <1>6 DEF add
<1>8. a % WordMod = a
  BY <1>1
<1> QED
  BY <1>2, <1>7, <1>8

LEMMA SignedDivisions ==
    ASSUME NEW a \in Word, NEW b \in Word, b # 0
    PROVE  /\ add(mul(sdiv(a, b), b), smod(a, b)) = a
           /\ Magnitude(TwosComplement(smod(a, b))) <
                Magnitude(TwosComplement(b))
<1> DEFINE M == WordMod
<1>1. a \in Nat /\ b \in Nat \ {0} /\ a < M /\ b < M /\ M \in Nat \ {0}
  BY WordModFacts DEF Word
<1>2. PICK h \in Nat \ {0} : M = 2 * h /\ M \div 2 = h
  BY HalfFacts
<1>3. PICK A \in Int, ka \in Int : A = TwosComplement(a) /\ a = A + M * ka
  <2>1. a < h => TwosComplement(a) = a /\ a = a + M * 0
    BY <1>1, <1>2 DEF TwosComplement
  <2>2. ~(a < h) => TwosComplement(a) = a - M /\ a = (a - M) + M * 1
    BY <1>1, <1>2 DEF TwosComplement
  <2>3. a \in Int /\ a - M \in Int /\ 0 \in Int /\ 1 \in Int
    BY <1>1
  <2> QED
    BY <2>1, <2>2, <2>3
<1>4. PICK B \in Int, kb \in Int : B = TwosComplement(b) /\ b = B + M * kb
  <2>1. b < h => TwosComplement(b) = b /\ b = b + M * 0
    BY <1>1, <1>2 DEF TwosComplement
  <2>2. ~(b < h) => TwosComplement(b) = b - M /\ b = (b - M) + M * 1
    BY <1>1, <1>2 DEF TwosComplement
  <2>3. b \in Int /\ b - M \in Int /\ 0 \in Int /\ 1 \in Int
    BY <1>1
  <2> QED
    BY <2>1, <2>2, <2>3
<1>5. B # 0 /\ B >= -h /\ B < h
  BY <1>1, <1>2, <1>4 DEF TwosComplement
<1>6. PICK m \in Nat, d \in Nat \ {0} : m = Magnitude(A) /\ d = Magnitude(B)
                                          /\ d <= h
  BY <1>5, <1>2 DEF Magnitude
<1>7. PICK q \in Nat, r \in Nat :
        q = m \div d /\ r = m % d /\ m = d * q + r /\ r < d
  <2>1. m \div d \in Int /\ m % d \in 0..d - 1 /\ m = d * (m \div d) + (m % d)
    BY DivMod
  <2>2. m \div d \in Nat
    OBVIOUS
  <2> QED
    BY <2>1, <2>2
<1>8. PICK Q \in Int, R \in Int :
        /\ Q = (IF (A < 0) = (B < 0) THEN q ELSE -q)
        /\ R = (IF A < 0 THEN -r ELSE r)
  OBVIOUS
<1>9. A = Q * B + R
  <2>1. PICK f \in Int : f = d * q
    OBVIOUS
  <2>2. CASE A < 0 /\ B < 0
    <3>1. Q = q /\ R = -r /\ d = -B /\ m = -A
      BY <2>2, <1>6, <1>8 DEF Magnitude
    <3>2. Q * B = -f
      BY <3>1, <2>1
    <3> QED
      BY <3>1, <3>2, <2>1, <1>7
  <2>3. CASE A < 0 /\ ~(B < 0)
    <3>1. Q = -q /\ R = -r /\ d = B /\ m = -A
      BY <2>3, <1>6, <1>8 DEF Magnitude
    <3>2. Q * B = -f
      BY <3>1, <2>1
    <3> QED
      BY <3>1, <3>2, <2>1, <1>7
  <2>4. CASE ~(A < 0) /\ B < 0
    <3>1. Q = -q /\ R = r /\ d = -B /\ m = A
      BY <2>4, <1>6, <1>8 DEF Magnitude
    <3>2. Q * B = f
      BY <3>1, <2>1
    <3> QED
      BY <3>1, <3>2, <2>1, <1>7
  <2>5. CASE ~(A < 0) /\ ~(B < 0)
    <3>1. Q = q /\ R = r /\ d = B /\ m = A
      BY <2>5, <1>6, <1>8 DEF Magnitude
    <3>2. Q * B = f
      BY <3>1, <2>1
    <3> QED
      BY <3>1, <3>2, <2>1, <1>7
  <2> QED
    BY <2>2, <2>3, <2>4, <2>5
<1>10. sdiv(a, b) = Q % M /\ smod(a, b) = R % M
  BY <1>1, <1>3, <1>4, <1>6, <1>7, <1>8
     DEF sdiv, smod, SignedQuotient, SignedRemainder
<1> HIDE DEF M
<1>11. PICK k1 \in Int, k2 \in Int :
         sdiv(a, b) = Q + M * k1 /\ smod(a, b) = R + M * k2
  <2>1. M \in Nat \ {0}
    BY <1>1
  <2>2. \E k \in Int : Q % M = Q + M * k
    BY ONLY <2>1, Q \in Int, Congruent
  <2>3. \E k \in Int : R % M = R + M * k
    BY ONLY <2>1, R \in Int, Congruent
  <2> QED
    BY <1>10, <2>2, <2>3
<1>12. sdiv(a, b) \in Nat /\ smod(a, b) \in Nat
  BY SignedDivision, WordIsNat
<1>13. PICK k3 \in Int : mul(sdiv(a, b), b) = sdiv(a, b) * b + M * k3
  <2>1. PICK p \in Int : p = sdiv(a, b) * b
    BY <1>1, <1>12
  <2>2. mul(sdiv(a, b), b) = p % M
    BY <1>1, <1>12, <2>1, MulModuloIsProduct DEF mul, M
  <2>3. \E k \in Int : p % M = p + M * k
    BY <1>1, Congruent
  <2> QED
    BY <2>1, <2>2, <2>3
<1>14. PICK s \in Int : s = mul(sdiv(a, b), b) + smod(a, b)
  BY <1>1, <1>11, <1>12, <1>13
<1>15. PICK K \in Int : s = M * K + a
  <2>1. PICK S \in Int : S = sdiv(a, b) /\ S = Q + M * k1
    BY <1>11, <1>12
  <2>2. s = S * b + M * k3 + (R + M * k2)
    BY <1>11, <1>13, <1>14, <2>1
  <2>3. S * b = (Q + M * k1) * (B + M * kb)
    BY <1>4, <2>1
  <2>4. (Q + M * k1) * (B + M * kb) =
          Q * B + M * (Q * kb + k1 * B + k1 * (M * kb))
    BY ONLY Q \in Int, B \in Int, k1 \in Int, kb \in Int, <1>1
  <2>5. PICK t \in Int : t = Q * kb + k1 * B + k1 * (M * kb)
    BY <1>1
  <2>6. PICK K \in Int : K = t + k3 + k2 - ka
    OBVIOUS
  <2>7. M * K = M * t + M * k3 + M * k2 - M * ka
    BY ONLY <2>6, t \in Int, k3 \in Int, k2 \in Int, ka \in Int, <1>1
  <2>8. PICK m1 \in Int, m2 \in Int, m3 \in Int, m4 \in Int, qb \in Int :
          m1 = M * t /\ m2 = M * k3 /\ m3 = M * k2 /\ m4 = M * ka
          /\ qb = Q * B
    BY <1>1
  <2>9. s = (qb + m1) + m2 + (R + m3) /\ A = qb + R /\ a = A + m4
        /\ M * K = m1 + m2 + m3 - m4
    BY <2>2, <2>3, <2>4, <2>5, <2>7, <2>8, <1>3, <1>9
  <2>10. s = M * K + a
    BY ONLY <2>9, m1 \in Int, m2 \in Int, m3 \in Int, m4 \in Int, qb \in Int,
            R \in Int, A \in Int, s \in Int, a \in Word
  <2> QED
    BY <2>10
<1>16. s % M = a
  <2>1. a \in 0..M - 1
    BY <1>1
  <2> QED
    BY ONLY <1>15, <1>1, <2>1, s \in Int, K \in Int, DivUnique
<1>17. add(mul(sdiv(a, b), b), smod(a, b)) = a
  BY <1>14, <1>16 DEF add, M
<1>18. Magnitude(TwosComplement(smod(a, b))) = r
  <2>0. r < h
    <3>1. r < d
      BY <1>7
    <3>2. d <= h
      BY <1>6
    <3> QED
      BY ONLY <3>1, <3>2, r \in Nat, d \in Nat \ {0}, h \in Nat \ {0}
  <2>1. CASE R >= 0
    <3>1. R = r /\ r < h
      BY ONLY <2>0, <2>1, <1>8, r \in Nat, h \in Nat \ {0}, R \in Int
    <3>2. r % M = r
      BY ONLY <3>1, <1>1, <1>2, r \in Nat, h \in Nat \ {0}
    <3>3. smod(a, b) = r
      BY <3>1, <3>2, <1>10
    <3>4. TwosComplement(r) = r
      BY <3>1, <1>2 DEF TwosComplement, M
    <3> QED
      BY <3>3, <3>4 DEF Magnitude
  <2>2. CASE R < 0
    <3>1. R = -r /\ r > 0
      BY <2>2, <1>8
    <3>2. R % M = M - r
      <4>1. PICK e \in Int, n \in 0..M - 1 : e = -1 /\ n = M - r
        <5>1. -1 \in Int /\ M - r \in 0..M - 1
          BY ONLY <2>0, <3>1, <1>1, <1>2, r \in Nat, h \in Nat \ {0}
        <5> QED
          BY <5>1
      <4>2. M * e = -M
        BY ONLY <4>1, <1>1
      <4>3. R = M * e + n
        BY <3>1, <4>1, <4>2, <1>1
      <4>4. R % M = n
        BY ONLY <4>3, <1>1, e \in Int, n \in 0..M - 1, R \in Int, DivUnique
      <4> QED
        BY <4>1, <4>4
    <3>3. PICK n \in Int : n = M - r
      BY <1>1
    <3>4. ~(n < h) /\ n - M = -r
      BY ONLY <2>0, <1>1, <1>2, <3>3, r \in Nat, h \in Nat \ {0}, n \in Int
    <3>5. TwosComplement(n) = -r
      BY <3>4, <1>2 DEF TwosComplement, M
    <3>6. smod(a, b) = n
      BY <3>2, <3>3, <1>10
    <3> QED
      BY <3>1, <3>5, <3>6 DEF Magnitude
  <2> QED
    BY <2>1, <2>2
<1> QED
  BY <1>4, <1>6, <1>7, <1>17, <1>18

-----------------------------------------------------------------------------
(***************************************************************************)
(* The operands that are tried are words.                                  *)
(***************************************************************************)
OperandsInv == x \in Word /\ y \in Word

LEMMA OperandsAreWords == Spec => []OperandsInv
<1>1. Init => OperandsInv
  BY OperandsAssumption, WordIsNat DEF Init, OperandsInv
<1>2. OperandsInv /\ [Next]_<<x, y>> => OperandsInv'
  BY OperandsAssumption DEF Next, OperandsInv
<1> QED
  BY <1>1, <1>2, PTL DEF Spec

\* SAR by masks is division by a power of two, rounded down.
THEOREM SarDividesAlways == Spec => []SarDivides
<1>1. OperandsInv => SarDivides
  BY SarShifted DEF OperandsInv, SarDivides
<1> QED
  BY <1>1, OperandsAreWords, PTL

\* SIGNEXTEND by masks is the signed number in the low bytes.
THEOREM SignextendKeepsNumberAlways == Spec => []SignextendKeepsNumber
<1>1. OperandsInv => SignextendKeepsNumber
  BY SignExtended DEF OperandsInv, SignextendKeepsNumber
<1> QED
  BY <1>1, OperandsAreWords, PTL

\* BYTE takes a byte of the word as it is stored.
THEOREM ByteOfStoredAlways == Spec => []ByteOfStored
<1>1. OperandsInv => ByteOfStored
  BY ByteTaken DEF OperandsInv, ByteOfStored
<1> QED
  BY <1>1, OperandsAreWords, PTL

\* Quotients and remainders, signed and unsigned, make up the dividend, the
\* product being taken by doubling and adding modulo the word.
THEOREM DivisionsAddUpAlways == Spec => []DivisionsAddUp
<1>1. OperandsInv => DivisionsAddUp
  <2> SUFFICES ASSUME OperandsInv PROVE DivisionsAddUp
    OBVIOUS
  <2>1. ASSUME NEW a \in {x, y}, NEW b \in {x, y}, b # 0
        PROVE  /\ add(mul(div(a, b), b), mod(a, b)) = a
               /\ add(mul(sdiv(a, b), b), smod(a, b)) = a
               /\ Magnitude(TwosComplement(smod(a, b))) <
                    Magnitude(TwosComplement(b))
    <3>1. a \in Word /\ b \in Word
      BY DEF OperandsInv
    <3> QED
      BY <2>1, <3>1, UnsignedDivisions, SignedDivisions
  <2>2. \A a \in {x, y} : {div(a, 0), mod(a, 0), sdiv(a, 0), smod(a, 0)} = {0}
    BY DEF div, mod, sdiv, smod
  <2> QED
    BY <2>1, <2>2 DEF DivisionsAddUp
<1> QED
  BY <1>1, OperandsAreWords, PTL

=============================================================================

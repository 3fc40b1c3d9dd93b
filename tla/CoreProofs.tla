----------------------------- MODULE CoreProofs -----------------------------
(***************************************************************************)
(* The words and the core: every operator on words yields words, for bytes *)
(* of four to eight bits, and no instruction or exception changes the size *)
(* or the byte order of the memory, which bytes are mapped, or that        *)
(* registers hold words and memory holds bytes, for every core and every   *)
(* decoding of instruction words.                                          *)
(***************************************************************************)
EXTENDS ArmInstruction, WellFoundedInduction, TLAPS

-----------------------------------------------------------------------------
(* Powers of two.  The provers know them for given exponents only; a word  *)
(* has at most 32 bits.                                                    *)

Pow(n) == 2 ^ n

LEMMA PowerTable ==
  /\ Pow(0) = 1 /\ Pow(1) = 2 /\ Pow(2) = 4
  /\ Pow(3) = 8 /\ Pow(4) = 16 /\ Pow(5) = 32
  /\ Pow(6) = 64 /\ Pow(7) = 128 /\ Pow(8) = 256
  /\ Pow(9) = 512 /\ Pow(10) = 1024 /\ Pow(11) = 2048
  /\ Pow(12) = 4096 /\ Pow(13) = 8192 /\ Pow(14) = 16384
  /\ Pow(15) = 32768 /\ Pow(16) = 65536 /\ Pow(17) = 131072
  /\ Pow(18) = 262144 /\ Pow(19) = 524288 /\ Pow(20) = 1048576
  /\ Pow(21) = 2097152 /\ Pow(22) = 4194304 /\ Pow(23) = 8388608
  /\ Pow(24) = 16777216 /\ Pow(25) = 33554432 /\ Pow(26) = 67108864
  /\ Pow(27) = 134217728 /\ Pow(28) = 268435456 /\ Pow(29) = 536870912
  /\ Pow(30) = 1073741824 /\ Pow(31) = 2147483648 /\ Pow(32) = 4294967296
  BY SMT DEF Pow

LEMMA Powers ==
  ASSUME NEW n \in 0 .. 32
  PROVE  Pow(n) \in Nat \ {0} /\ (n < 32 => Pow(n + 1) = 2 * Pow(n))
  <1>1. n \in {0, 1, 2, 3, 4, 5, 6, 7, 8, 9, 10, 11, 12, 13, 14, 15, 16, 17, 18,
                19, 20, 21, 22, 23, 24, 25, 26, 27, 28, 29, 30, 31,
                32}
    OBVIOUS
  <1>2. QED
    BY <1>1, PowerTable

LEMMA WordSize ==
  /\ WordBits \in {16, 20, 24, 28, 32}
  /\ ByteMod \in {16, 32, 64, 128, 256}
  /\ WordMod = Pow(WordBits) /\ WordMod \in Nat \ {0} /\ WordMod % 16 = 0
  <1>1. ByteMod = Pow(ByteBits) /\ ByteBits \in {4, 5, 6, 7, 8}
    <2>1. ByteMod = Pow(ByteBits)
      BY ByteAssumption, Zenon DEF Pow
    <2>2. QED
      BY <2>1, CpsrAssumption
  <1>2. QED
    BY <1>1, PowerTable DEF WordBits, WordMod

\* A power of two up to the word size and what is missing to a word.
LEMMA Complement ==
  ASSUME NEW n \in 0 .. WordBits
  PROVE  /\ Pow(n) \in Nat \ {0} /\ Pow(WordBits - n) \in Nat \ {0}
         /\ Pow(n) * Pow(WordBits - n) = WordMod
  <1>1. ByteMod = Pow(ByteBits) /\ ByteBits \in {4, 5, 6, 7, 8}
    <2>1. ByteMod = Pow(ByteBits)
      BY ByteAssumption, Zenon DEF Pow
    <2>2. QED
      BY <2>1, CpsrAssumption
  <1>2. CASE ByteBits = 4
    <2>1. WordBits = 16 /\ WordMod = 65536
      BY <1>1, <1>2, PowerTable DEF WordBits, WordMod
    <2>2. n \in {0, 1, 2, 3, 4, 5, 6, 7, 8, 9, 10, 11, 12, 13, 14, 15, 16}
      BY <2>1
    <2>3. QED
      BY <2>1, <2>2, PowerTable
  <1>3. CASE ByteBits = 5
    <2>1. WordBits = 20 /\ WordMod = 1048576
      BY <1>1, <1>3, PowerTable DEF WordBits, WordMod
    <2>2. n \in {0, 1, 2, 3, 4, 5, 6, 7, 8, 9, 10, 11, 12, 13, 14, 15, 16, 17, 18,
                  19, 20}
      BY <2>1
    <2>3. QED
      BY <2>1, <2>2, PowerTable
  <1>4. CASE ByteBits = 6
    <2>1. WordBits = 24 /\ WordMod = 16777216
      BY <1>1, <1>4, PowerTable DEF WordBits, WordMod
    <2>2. n \in {0, 1, 2, 3, 4, 5, 6, 7, 8, 9, 10, 11, 12, 13, 14, 15, 16, 17, 18,
                  19, 20, 21, 22, 23, 24}
      BY <2>1
    <2>3. QED
      BY <2>1, <2>2, PowerTable
  <1>5. CASE ByteBits = 7
    <2>1. WordBits = 28 /\ WordMod = 268435456
      BY <1>1, <1>5, PowerTable DEF WordBits, WordMod
    <2>2. n \in {0, 1, 2, 3, 4, 5, 6, 7, 8, 9, 10, 11, 12, 13, 14, 15, 16, 17, 18,
                  19, 20, 21, 22, 23, 24, 25, 26, 27, 28}
      BY <2>1
    <2>3. QED
      BY <2>1, <2>2, PowerTable
  <1>6. CASE ByteBits = 8
    <2>1. WordBits = 32 /\ WordMod = 4294967296
      BY <1>1, <1>6, PowerTable DEF WordBits, WordMod
    <2>2. n \in {0, 1, 2, 3, 4, 5, 6, 7, 8, 9, 10, 11, 12, 13, 14, 15, 16, 17, 18,
                  19, 20, 21, 22, 23, 24, 25, 26, 27, 28, 29, 30,
                  31, 32}
      BY <2>1
    <2>3. QED
      BY <2>1, <2>2, PowerTable
  <1>7. QED
    BY <1>1, <1>2, <1>3, <1>4, <1>5, <1>6

-----------------------------------------------------------------------------
(* Words                                                                   *)

LEMMA WordSums ==
  ASSUME NEW x \in Int, NEW y \in Int
  PROVE  Add(x, y) \in Word /\ Sub(x, y) \in Word
  BY WordSize DEF Add, Sub, Word

LEMMA BitValues ==
  ASSUME NEW x \in Nat, NEW i \in 0 .. 32
  PROVE  get_bit(x, i) \in {0, 1}
  <1>1. get_bit(x, i) = (x \div Pow(i)) % 2
    BY Zenon DEF get_bit, Pow
  <1>2. PICK q \in Int : q = x \div Pow(i)
    BY Powers
  <1>3. q % 2 \in {0, 1}
    OBVIOUS
  <1>4. QED
    BY <1>1, <1>2, <1>3

LEMMA DivBound ==
  ASSUME NEW x \in Nat, NEW a \in Nat \ {0}, NEW b \in Nat, x < a * b
  PROVE  x \div a \in 0 .. b - 1
  OBVIOUS

LEMMA MulBound ==
  ASSUME NEW x \in Nat, NEW a \in Nat \ {0}, NEW b \in Nat \ {0}, x < a
  PROVE  x * b \in 0 .. a * b - b
  OBVIOUS

\* A rest and a multiple of the modulus.
LEMMA ModUnique ==
  ASSUME NEW B \in Nat \ {0}, NEW r \in 0 .. B - 1, NEW q \in Int
  PROVE  (r + B * q) % B = r
  OBVIOUS

\* Every integer is a multiple of the modulus and a rest.
LEMMA ModSplit ==
  ASSUME NEW B \in Nat \ {0}, NEW x \in Int
  PROVE  \E q \in Int : x = (x % B) + B * q /\ x % B \in 0 .. B - 1
  <1>1. x = (x % B) + B * (x \div B) /\ x % B \in 0 .. B - 1 /\ x \div B \in Int
    OBVIOUS
  <1>2. QED
    BY <1>1

\* Multiples of the modulus do not count.
LEMMA ModAdds ==
  ASSUME NEW B \in Nat \ {0}, NEW x \in Int, NEW k \in Int
  PROVE  (x + B * k) % B = x % B
  <1>1. PICK q \in Int, r \in 0 .. B - 1 : x = r + B * q /\ r = x % B
    BY ModSplit
  <1>2. PICK s \in Int : s = q + k
    OBVIOUS
  <1>3. x + B * k = r + B * s
    BY <1>1, <1>2
  <1>4. (r + B * s) % B = r
    BY ModUnique
  <1>5. QED
    BY <1>1, <1>3, <1>4

LEMMA ModSums ==
  ASSUME NEW B \in Nat \ {0}, NEW x \in Int, NEW y \in Int
  PROVE  /\ ((x % B) + y) % B = (x + y) % B
         /\ (x + (y % B)) % B = (x + y) % B
         /\ (x - (y % B)) % B = (x - y) % B
  <1>1. PICK q \in Int, r \in 0 .. B - 1 : x = r + B * q /\ r = x % B
    BY ModSplit
  <1>2. PICK t \in Int, s \in 0 .. B - 1 : y = s + B * t /\ s = y % B
    BY ModSplit
  <1>3. PICK u \in Int : u = -t
    OBVIOUS
  <1>4. x + y = (r + y) + B * q /\ x + y = (x + s) + B * t /\ x - y = (x - s) + B * u
    BY <1>1, <1>2, <1>3
  <1>0. \A z, k \in Int : (z + B * k) % B = z % B
    BY ModAdds
  <1>5. ((r + y) + B * q) % B = (r + y) % B
    <2>1. PICK z \in Int : z = r + y
      OBVIOUS
    <2>2. QED
      BY <1>0, <2>1
  <1>6. ((x + s) + B * t) % B = (x + s) % B
    <2>1. PICK z \in Int : z = x + s
      OBVIOUS
    <2>2. QED
      BY <1>0, <2>1
  <1>7. ((x - s) + B * u) % B = (x - s) % B
    <2>1. PICK z \in Int : z = x - s
      OBVIOUS
    <2>2. QED
      BY <1>0, <2>1
  <1>8. QED
    BY <1>1, <1>2, <1>4, <1>5, <1>6, <1>7

LEMMA ModScales ==
  ASSUME NEW c \in Nat \ {0}, NEW x \in Int
  PROVE  (x % c) * 4 = (4 * x) % (c * 4)
  <1>1. PICK q \in Int, r \in 0 .. c - 1 : x = r + c * q /\ r = x % c
    BY ModSplit
  <1>2. PICK B \in Nat \ {0} : B = c * 4
    OBVIOUS
  <1>0. PICK s \in 0 .. B - 1 : s = r * 4
    BY <1>2
  <1>3. 4 * x = s + B * q
    BY <1>0, <1>1, <1>2
  <1>4. (s + B * q) % B = s
    BY ModUnique
  <1>5. QED
    BY <1>0, <1>1, <1>2, <1>3, <1>4

LEMMA Shifts ==
  ASSUME NEW x \in Nat, NEW n \in Nat
  PROVE  /\ ShiftLeft(x, n) \in Word
         /\ x \in Word => ShiftRight(x, n) \in Word
  <1>1. 0 \in Word
    BY WordSize DEF Word
  <1>2. CASE ~(n < WordBits)
    BY <1>1, <1>2 DEF ShiftLeft, ShiftRight
  <1>3. CASE n < WordBits
    <2> DEFINE a == Pow(WordBits - n)
               b == Pow(n)
    <2>1. ShiftLeft(x, n) = (x % a) * b /\ ShiftRight(x, n) = x \div b
      BY <1>3, Zenon DEF ShiftLeft, ShiftRight, Pow
    <2>2. a \in Nat \ {0} /\ b \in Nat \ {0} /\ b * a = WordMod
      <3>1. n \in 0 .. WordBits
        BY <1>3, WordSize
      <3>2. QED
        BY <3>1, Complement
    <2> HIDE DEF a, b
    <2>3. x % a \in Nat /\ x % a < a
      BY <2>2
    <2>4. (x % a) * b \in 0 .. a * b - b
      BY <2>2, <2>3, MulBound
    <2>5. a * b = WordMod
      BY <2>2
    <2>6. ShiftLeft(x, n) \in Word
      BY <2>1, <2>2, <2>4, <2>5, WordSize DEF Word
    <2>7. ASSUME x \in Word PROVE x \div b \in Word
      <3>1. x < b * a
        BY <2>2, <2>7, WordSize DEF Word
      <3>2. x \div b \in 0 .. a - 1
        BY <2>2, <3>1, DivBound
      <3>3. a <= WordMod
        BY <2>2
      <3>4. QED
        BY <2>2, <3>2, <3>3, WordSize DEF Word
    <2>8. QED
      BY <2>1, <2>6, <2>7
  <1>4. QED
    BY <1>2, <1>3, WordSize

\* asr and ror of util.c, by any amount.
LEMMA Rotations ==
  ASSUME NEW x \in Word, NEW n \in Nat
  PROVE  asr(x, n) \in Word /\ ror(x, n) \in Word
  <1> DEFINE k == n % WordBits
             a == Pow(WordBits - k)
             b == Pow(k)
  <1>1. k \in 0 .. WordBits /\ x \in Nat /\ x < WordMod
    BY WordSize DEF Word
  <1>2. /\ asr(x, n) = IF SignBit(x) = 0 THEN x \div b
                       ELSE IF k = 0 THEN Ones ELSE x \div b + (WordMod - a)
        /\ ror(x, n) = x \div b + (x % b) * a
    BY Zenon DEF asr, ror, Pow
  <1>3. a \in Nat \ {0} /\ b \in Nat \ {0} /\ b * a = WordMod
    BY <1>1, Complement
  <1> HIDE DEF k, a, b
  <1>4. x \div b \in 0 .. a - 1
    BY <1>1, <1>3, DivBound
  <1>5. a <= WordMod
    BY <1>3
  <1>6. x \div b \in Word /\ Ones \in Word /\ x \div b + (WordMod - a) \in Word
    BY <1>3, <1>4, <1>5, WordSize DEF Word, Ones
  <1>7. x % b \in Nat /\ x % b < b
    BY <1>1, <1>3
  <1>8. (x % b) * a \in 0 .. b * a - a
    BY <1>3, <1>7, MulBound
  <1>9. x \div b + (x % b) * a \in Word
    BY <1>3, <1>4, <1>8, WordSize DEF Word
  <1>10. QED
    BY <1>2, <1>6, <1>9

LEMMA GetBits ==
  ASSUME NEW x, NEW h, NEW l
  PROVE  get_bits(x, h, l) = (x \div Pow(l)) % Pow(h - l + 1)
  BY Zenon DEF get_bits, Pow

LEMMA Fields12 ==
  ASSUME NEW x \in Low12
  PROVE  /\ get_bits(x, 3, 0) \in 0 .. 15 /\ get_bits(x, 11, 8) \in 0 .. 15
         /\ get_bits(x, 11, 7) \in 0 .. 31 /\ get_bits(x, 7, 0) \in 0 .. 255
         /\ get_bits(x, 6, 4) \in 0 .. 7 /\ get_bits(x, 6, 5) \in 0 .. 3
         /\ get_bits(x, 11, 4) = 0 => /\ get_bits(x, 6, 4) = 0
                                      /\ get_bits(x, 11, 7) = 0
  <1>1. x \in Int /\ 0 <= x /\ x <= 4095
    BY DEF Low12
  <1>2. get_bits(x, 3, 0) = (x \div 1) % 16
    BY <1>1, SMT DEF get_bits
  <1>3. get_bits(x, 11, 8) = (x \div 256) % 16
    BY <1>1, SMT DEF get_bits
  <1>4. get_bits(x, 11, 7) = (x \div 128) % 32
    BY <1>1, SMT DEF get_bits
  <1>5. get_bits(x, 7, 0) = (x \div 1) % 256
    BY <1>1, SMT DEF get_bits
  <1>6. get_bits(x, 6, 4) = (x \div 16) % 8
    BY <1>1, SMT DEF get_bits
  <1>7. get_bits(x, 6, 5) = (x \div 32) % 4
    BY <1>1, SMT DEF get_bits
  <1>8. get_bits(x, 11, 4) = (x \div 16) % 256
    BY <1>1, SMT DEF get_bits
  <1>9. /\ (x \div 1) % 16 \in 0 .. 15 /\ (x \div 256) % 16 \in 0 .. 15
        /\ (x \div 128) % 32 \in 0 .. 31 /\ (x \div 1) % 256 \in 0 .. 255
        /\ (x \div 16) % 8 \in 0 .. 7 /\ (x \div 32) % 4 \in 0 .. 3
    BY <1>1
  <1>10. (x \div 16) % 256 = 0 => (x \div 16) % 8 = 0 /\ (x \div 128) % 32 = 0
    BY <1>1
  <1>11. QED
    BY <1>2, <1>3, <1>4, <1>5, <1>6, <1>7, <1>8, <1>9, <1>10

-----------------------------------------------------------------------------
(* Sums of bits, by induction on the number of bits in the form of the     *)
(* least counterexample.                                                   *)

\* A set of natural numbers that is not empty has a least element.
LEMMA LeastOf ==
  ASSUME NEW T, T \subseteq Nat, T # {}
  PROVE  \E x \in T : \A y \in T : x <= y
  <1> DEFINE R == OpToRel(<, Nat)
  <1>1. IsWellFoundedOn(R, Nat)
    BY NatLessThanWellFounded
  <1>2. \A x, y \in Nat : x < y => <<x, y>> \in R
    BY DEF OpToRel
  <1> HIDE DEF R
  <1>3. PICK x \in T : \A y \in T : ~(<<y, x>> \in R)
    BY <1>1, WFMin
  <1>4. ASSUME NEW y \in T
        PROVE  x <= y
    <2>1. x \in Nat /\ y \in Nat /\ ~(y < x)
      BY <1>2, <1>3
    <2>2. QED
      BY <2>1
  <1>5. QED
    BY <1>4

\* g is the sum of BitSum up to m bits.
Weight(bits, n) == IF bits[n] THEN Pow(n) ELSE 0
Partial(bits, g, n) == IF n = 0 THEN 0 ELSE g[n - 1] + Weight(bits, n - 1)
Sums(bits, m, g) == g = [n \in 0 .. m |-> Partial(bits, g, n)]

LEMMA BitSumIsChosen ==
  ASSUME NEW bits
  PROVE  BitSum(bits) = (CHOOSE g : Sums(bits, WordBits, g))[WordBits]
  BY Zenon DEF BitSum, Sums, Partial, Weight, Pow

\* The value of a sum of n bits, and its bits.
HasBits(v, bits, n) ==
  /\ v \in 0 .. Pow(n) - 1
  /\ \A i \in 0 .. n - 1 : (v \div Pow(i)) % 2 = IF bits[i] THEN 1 ELSE 0


LEMMA PowerSums ==
  ASSUME NEW i \in 0 .. 32
  PROVE  \A j \in 0 .. 32 - i : Pow(i) * Pow(j) = Pow(i + j)
  <1> DEFINE Ok(j) == Pow(i) * Pow(j) = Pow(i + j)
             Bad == {j \in 0 .. 32 - i : ~Ok(j)}
  <1>1. Ok(0)
    BY PowerTable, Powers
  <1>2. ASSUME NEW j \in 0 .. 32 - i, j # 0, Ok(j - 1)
        PROVE  Ok(j)
    <2>1. /\ Pow(j) = 2 * Pow(j - 1) /\ Pow(i + j) = 2 * Pow(i + j - 1)
          /\ Pow(i) \in Nat /\ Pow(j - 1) \in Nat /\ Pow(i + j - 1) \in Nat
      <3>1. j - 1 \in 0 .. 32 /\ j - 1 < 32 /\ i + j - 1 \in 0 .. 32 /\ i + j - 1 < 32
            /\ (j - 1) + 1 = j /\ (i + j - 1) + 1 = i + j
        BY <1>2
      <3>2. QED
        BY <3>1, Powers
    <2>2. Pow(i) * Pow(j - 1) = Pow(i + j - 1)
      <3>1. i + (j - 1) = i + j - 1
        OBVIOUS
      <3>2. QED
        BY <1>2, <3>1
    <2>3. QED
      BY <2>1, <2>2
  <1> HIDE DEF Ok
  <1>3. ASSUME Bad # {}
        PROVE  FALSE
    <2>0. Bad \subseteq Nat
      OBVIOUS
    <2>1. PICK j \in Bad : \A y \in Bad : j <= y
      BY <1>3, <2>0, LeastOf, Zenon
    <2>2. j # 0 /\ j - 1 \in 0 .. 32 - i /\ j - 1 \notin Bad
      BY <1>1, <2>1
    <2>3. QED
      BY <1>2, <2>1, <2>2
  <1>4. QED
    BY <1>3 DEF Ok

\* Adding a multiple of the divisor.
LEMMA DivAdds ==
  ASSUME NEW v \in Nat, NEW a \in Nat \ {0}, NEW c \in Nat
  PROVE  (v + a * c) \div a = v \div a + c
  <1>1. PICK q \in Int, r \in 0 .. a - 1 : v = a * q + r /\ v \div a = q
    <2>1. v = a * (v \div a) + (v % a) /\ v % a \in 0 .. a - 1 /\ v \div a \in Int
      OBVIOUS
    <2>2. QED
      BY <2>1
  <1>2. v + a * c = a * (q + c) + r
    BY <1>1
  <1>3. \A x, y \in Int : x = a * y + r => x \div a = y
    BY <1>1
  <1>4. QED
    BY <1>1, <1>2, <1>3

\* One more bit.
LEMMA BitsGrow ==
  ASSUME NEW bits, NEW n \in 0 .. 31, NEW v, HasBits(v, bits, n)
  PROVE  HasBits(v + Weight(bits, n), bits, n + 1)
  <1> DEFINE w == Weight(bits, n)
  <1>1. Pow(n + 1) = 2 * Pow(n) /\ Pow(n) \in Nat \ {0} /\ v \in 0 .. Pow(n) - 1
    BY Powers DEF HasBits
  <1>2. w = 0 \/ w = Pow(n)
    BY DEF Weight
  <1>3. v + w \in 0 .. Pow(n + 1) - 1
    BY <1>1, <1>2
  <1>4. ASSUME NEW i \in 0 .. n - 1
        PROVE  ((v + w) \div Pow(i)) % 2 = (v \div Pow(i)) % 2
    <2>1. PICK c \in Nat : Pow(n) = Pow(i) * (2 * c) /\ Pow(i) \in Nat \ {0}
      <3>1. Pow(i) * Pow(n - i) = Pow(i + (n - i)) /\ i + (n - i) = n
        <4>1. i \in 0 .. 32 /\ n - i \in 0 .. 32 - i /\ i + (n - i) = n
          OBVIOUS
        <4>2. QED
          BY <4>1, PowerSums
      <3>2. Pow(n - i) = 2 * Pow(n - i - 1) /\ Pow(n - i - 1) \in Nat
        <4>1. n - i - 1 \in 0 .. 32 /\ n - i - 1 < 32 /\ (n - i - 1) + 1 = n - i
          OBVIOUS
        <4>2. QED
          BY <4>1, Powers
      <3>3. Pow(i) \in Nat \ {0}
        BY Powers
      <3>4. QED
        BY <3>1, <3>2, <3>3
    <2>2. PICK d \in Nat : w = Pow(i) * (2 * d)
      <3>1. Pow(i) * (2 * 0) = 0
        BY <2>1
      <3>2. QED
        BY <1>2, <2>1, <3>1
    <2>3. (v + w) \div Pow(i) = v \div Pow(i) + 2 * d
      <3>1. v \in Nat /\ 2 * d \in Nat
        BY <1>1
      <3>2. PICK a \in Nat \ {0}, u \in Nat : a = Pow(i) /\ u = 2 * d
        BY <2>1, <3>1
      <3>3. (v + a * u) \div a = v \div a + u
        BY <3>1, <3>2, DivAdds
      <3>4. QED
        BY <2>2, <3>2, <3>3
    <2>4. v \div Pow(i) \in Int
      BY <1>1, <2>1
    <2>5. \A x \in Int : (x + 2 * d) % 2 = x % 2
      OBVIOUS
    <2>6. QED
      BY <2>3, <2>4, <2>5
  <1>5. ((v + w) \div Pow(n)) % 2 = IF bits[n] THEN 1 ELSE 0
    <2>1. v \div Pow(n) = 0 /\ (v + Pow(n)) \div Pow(n) = 1
      BY <1>1
    <2>2. CASE bits[n]
      BY <2>1, <2>2 DEF Weight
    <2>3. CASE ~bits[n]
      BY <1>1, <2>1, <2>3 DEF Weight
    <2>4. QED
      BY <2>2, <2>3
  <1> HIDE DEF w
  <1>6. \A i \in 0 .. n + 1 - 1 : ((v + w) \div Pow(i)) % 2 = IF bits[i] THEN 1 ELSE 0
    <2> TAKE i \in 0 .. n + 1 - 1
    <2>1. CASE i = n
      BY <1>5, <2>1
    <2>2. CASE i \in 0 .. n - 1
      <3>1. (v \div Pow(i)) % 2 = IF bits[i] THEN 1 ELSE 0
        BY <2>2, Zenon DEF HasBits
      <3>2. QED
        BY <1>4, <2>2, <3>1
    <2>3. QED
      BY <2>1, <2>2
  <1>7. QED
    BY <1>3, <1>6 DEF HasBits, w

LEMMA SumsHaveBits ==
  ASSUME NEW bits, NEW m \in 0 .. 32, NEW g, Sums(bits, m, g)
  PROVE  \A n \in 0 .. m : HasBits(g[n], bits, n)
  <1> DEFINE Ok(n) == HasBits(g[n], bits, n)
             Bad == {n \in 0 .. m : ~Ok(n)}
  <1>1. \A n \in 0 .. m : g[n] = Partial(bits, g, n)
    BY Zenon DEF Sums
  <1>2. Ok(0)
    <2>1. g[0] = 0
      BY <1>1 DEF Partial
    <2>2. QED
      BY <2>1, PowerTable DEF HasBits
  <1>3. ASSUME NEW n \in 0 .. m, n # 0, Ok(n - 1)
        PROVE  Ok(n)
    <2>1. g[n] = g[n - 1] + Weight(bits, n - 1)
      BY <1>1, <1>3, Zenon DEF Partial
    <2>2. n - 1 \in 0 .. 31 /\ (n - 1) + 1 = n
      BY <1>3
    <2>3. HasBits(g[n - 1] + Weight(bits, n - 1), bits, (n - 1) + 1)
      BY <1>3, <2>2, BitsGrow, Zenon
    <2>4. QED
      BY <2>1, <2>2, <2>3, Zenon
  <1> HIDE DEF Ok
  <1>4. ASSUME Bad # {}
        PROVE  FALSE
    <2>0. Bad \subseteq Nat
      OBVIOUS
    <2>1. PICK n \in Bad : \A y \in Bad : n <= y
      BY <1>4, <2>0, LeastOf, Zenon
    <2>2. n # 0 /\ n - 1 \in 0 .. m /\ n - 1 \notin Bad
      BY <1>2, <2>1
    <2>3. QED
      BY <1>3, <2>1, <2>2
  <1>5. QED
    BY <1>4 DEF Ok

LEMMA SumsExist ==
  ASSUME NEW bits
  PROVE  \A m \in Nat : \E g : Sums(bits, m, g)
  <1> DEFINE Ok(m) == \E g : Sums(bits, m, g)
             Bad == {m \in Nat : ~Ok(m)}
  <1>1. Ok(0)
    <2> DEFINE g == [n \in 0 .. 0 |-> 0]
    <2>1. g = [n \in 0 .. 0 |-> Partial(bits, g, n)]
      BY DEF Partial
    <2>2. QED
      BY <2>1, Zenon DEF Sums
  <1>2. ASSUME NEW m \in Nat, m # 0, Ok(m - 1)
        PROVE  Ok(m)
    <2>1. PICK f : Sums(bits, m - 1, f)
      BY <1>2
    <2>2. \A n \in 0 .. m - 1 : f[n] = Partial(bits, f, n)
      BY <2>1, Zenon DEF Sums
    <2> DEFINE g == [n \in 0 .. m |-> IF n = m THEN Partial(bits, f, m) ELSE f[n]]
    <2>3. ASSUME NEW n \in 0 .. m
          PROVE  g[n] = Partial(bits, g, n)
      <3>1. CASE n = 0
        BY <1>2, <2>2, <3>1 DEF Partial
      <3>2. CASE n # 0
        <4>1. n - 1 \in 0 .. m - 1 /\ n - 1 \in 0 .. m /\ n - 1 # m
          BY <3>2
        <4>2. g[n - 1] = f[n - 1]
          BY <4>1
        <4>3. g[n] = Partial(bits, f, n)
          BY <2>2
        <4> HIDE DEF g
        <4>4. Partial(bits, g, n) = Partial(bits, f, n)
          BY <4>2 DEF Partial
        <4>5. QED
          BY <4>3, <4>4
      <3>3. QED
        BY <3>1, <3>2
    <2>4. Sums(bits, m, g)
      BY <2>3 DEF Sums
    <2>5. QED
      BY <2>4, Zenon
  <1> HIDE DEF Ok
  <1>3. ASSUME Bad # {}
        PROVE  FALSE
    <2>0. Bad \subseteq Nat
      OBVIOUS
    <2>1. PICK n \in Bad : \A y \in Bad : n <= y
      BY <1>3, <2>0, LeastOf, Zenon
    <2>2. n # 0 /\ n - 1 \in Nat /\ n - 1 \notin Bad
      BY <1>1, <2>1
    <2>3. QED
      BY <1>2, <2>1, <2>2
  <1>4. QED
    BY <1>3 DEF Ok

\* BitSum is a word with the bits it was given.
LEMMA BitSumHasBits ==
  ASSUME NEW bits
  PROVE  /\ BitSum(bits) \in Word
         /\ \A i \in Bits : get_bit(BitSum(bits), i) = IF bits[i] THEN 1 ELSE 0
  <1> DEFINE g == CHOOSE f : Sums(bits, WordBits, f)
  <1>0. WordBits \in Nat /\ WordBits \in 0 .. 32
    BY WordSize
  <1>1. Sums(bits, WordBits, g)
    BY <1>0, SumsExist, Zenon
  <1>2. BitSum(bits) = g[WordBits]
    BY BitSumIsChosen
  <1> HIDE DEF g
  <1>3. HasBits(BitSum(bits), bits, WordBits)
    BY <1>0, <1>1, <1>2, SumsHaveBits
  <1>4. BitSum(bits) \in Word
    BY <1>3, WordSize DEF HasBits, Word
  <1>5. \A i \in Bits : get_bit(BitSum(bits), i) = IF bits[i] THEN 1 ELSE 0
    <2>1. \A x, i : get_bit(x, i) = (x \div Pow(i)) % 2
      BY Zenon DEF get_bit, Pow
    <2>2. QED
      BY <1>3, <2>1, Zenon DEF HasBits, Bits
  <1>6. QED
    BY <1>4, <1>5

LEMMA Bitwises ==
  ASSUME NEW x, NEW y
  PROVE  BitAnd(x, y) \in Word /\ BitOr(x, y) \in Word /\ BitXor(x, y) \in Word
  BY BitSumHasBits, Zenon DEF BitAnd, BitOr, BitXor

-----------------------------------------------------------------------------
(* Words and their bytes                                                   *)

LEMMA Digit ==
  ASSUME NEW B \in Nat \ {0}
  PROVE  /\ \A c \in 0 .. B - 1, y \in Nat :
              (c + B * y) % B = c /\ (c + B * y) \div B = y
         /\ \A x \in Nat : \E c \in 0 .. B - 1, y \in Nat : x = c + B * y
  <1>1. ASSUME NEW c \in 0 .. B - 1, NEW y \in Nat
        PROVE  (c + B * y) % B = c /\ (c + B * y) \div B = y
    OBVIOUS
  <1>2. ASSUME NEW x \in Nat
        PROVE  x % B \in 0 .. B - 1 /\ x \div B \in Nat /\ x = (x % B) + B * (x \div B)
    OBVIOUS
  <1>3. QED
    BY <1>1, <1>2

\* A number of four digits, the last one of any size.
Number(B, c, d, e, f) == c + B * (d + B * (e + B * f))

LEMMA Digits ==
  ASSUME NEW B \in Nat \ {0}, NEW c \in 0 .. B - 1, NEW d \in 0 .. B - 1,
         NEW e \in 0 .. B - 1, NEW f \in Nat
  PROVE  LET w == Number(B, c, d, e, f)
         IN  /\ w \in Nat /\ w % B = c /\ (w \div B) % B = d
             /\ (w \div (B * B)) % B = e /\ w \div (B * B * B) = f
             /\ f < B <=> w < B * B * B * B
  <1> DEFINE w == Number(B, c, d, e, f)
  <1>0. w = c + B * (d + B * (e + B * f))
    BY DEF Number
  <1> HIDE DEF w
  <1>1. PICK z \in Nat : z = e + B * f
    OBVIOUS
  <1>2. PICK y \in Nat : y = d + B * z
    BY <1>1
  <1>3. w = c + B * y
    BY <1>0, <1>1, <1>2
  <1>4. w % B = c /\ w \div B = y /\ y % B = d /\ z % B = e
    BY <1>1, <1>2, <1>3, Digit
  <1>5. PICK D \in Nat \ {0} : D = B * B
    OBVIOUS
  <1>6. c + B * d \in 0 .. D - 1 /\ w = (c + B * d) + D * z
    <2>1. B * d <= B * (B - 1)
      OBVIOUS
    <2>2. QED
      BY <1>2, <1>3, <1>5, <2>1
  <1>7. w \div D = z
    BY <1>6, Digit
  <1>8. PICK u \in 0 .. D - 1 : u = c + B * d
    BY <1>6
  <1>9. PICK E \in Nat \ {0} : E = D * B
    BY <1>5
  <1>10. u + D * e \in 0 .. E - 1 /\ w = (u + D * e) + E * f
    <2>1. D * e <= D * (B - 1)
      OBVIOUS
    <2>2. QED
      BY <1>1, <1>6, <1>8, <1>9, <2>1
  <1>11. w \div E = f
    BY <1>10, Digit
  <1>12. f < B <=> w < E * B
    <2>1. ASSUME f < B PROVE w < E * B
      <3>1. E * f <= E * (B - 1)
        BY <2>1
      <3>2. QED
        BY <1>10, <3>1
    <2>2. ASSUME ~(f < B) PROVE ~(w < E * B)
      <3>1. E * B <= E * f
        BY <2>2
      <3>2. QED
        BY <1>10, <3>1
    <2>3. QED
      BY <2>1, <2>2
  <1>13. QED
    BY <1>3, <1>4, <1>5, <1>7, <1>9, <1>11, <1>12 DEF w

LEMMA WordFromBytes ==
  ASSUME NEW b \in Quad
  PROVE  WordOf(b) \in Word /\ BytesOf(WordOf(b)) = b
  <1> DEFINE w == WordOf(b)
             B == ByteMod
  <1>1. PICK c \in 0 .. B - 1, d \in 0 .. B - 1, e \in 0 .. B - 1, f \in 0 .. B - 1 :
          c = b[1] /\ d = b[2] /\ e = b[3] /\ f = b[4]
    BY DEF Quad, Byte
  <1>2. w = Number(B, c, d, e, f)
    BY <1>1 DEF WordOf, Number
  <1> HIDE DEF w
  <1>3. /\ w \in Word /\ w % B = c /\ (w \div B) % B = d
        /\ (w \div (B * B)) % B = e /\ w \div (B * B * B) = f
    <2>1. B \in Nat \ {0} /\ f \in Nat /\ c \in 0 .. B - 1 /\ d \in 0 .. B - 1
          /\ e \in 0 .. B - 1
      BY ByteAssumption DEF Byte
    <2> HIDE DEF B
    <2>2. /\ w \in Nat /\ w % B = c /\ (w \div B) % B = d
          /\ (w \div (B * B)) % B = e /\ w \div (B * B * B) = f
          /\ (f < B <=> w < B * B * B * B)
      BY <1>2, <2>1, Digits
    <2>3. f < B
      BY <2>1 DEF Byte, B
    <2>4. w \in Word
      BY <2>2, <2>3, WordSize DEF Word, WordMod, B
    <2>5. QED
      BY <2>2, <2>4 DEF B
  <1>4. BytesOf(w) = [k \in 1 .. 4 |-> b[k]]
    <2>1. ASSUME NEW k \in 1 .. 4
          PROVE  BytesOf(w)[k] = b[k]
      <3>1. k = 1 \/ k = 2 \/ k = 3 \/ k = 4
        OBVIOUS
      <3>2. QED
        BY <1>1, <1>3, <3>1 DEF BytesOf, WordBytes
    <2>2. BytesOf(w) = [k \in 1 .. 4 |-> BytesOf(w)[k]]
      BY DEF BytesOf, WordBytes
    <2>3. QED
      BY <2>1, <2>2
  <1>5. b = [k \in 1 .. 4 |-> b[k]]
    BY DEF Quad
  <1>6. QED
    BY <1>3, <1>4, <1>5 DEF w

LEMMA BytesFromWord ==
  ASSUME NEW w \in Word
  PROVE  BytesOf(w) \in Quad /\ WordOf(BytesOf(w)) = w
  <1> DEFINE B == ByteMod
             b == BytesOf(w)
  <1>1. /\ b[1] = w % B /\ b[2] = (w \div B) % B /\ b[3] = (w \div (B * B)) % B
        /\ b[4] = w \div (B * B * B)
    BY DEF BytesOf, WordBytes
  <1>2. b = [k \in 1 .. 4 |-> b[k]]
    BY DEF BytesOf, WordBytes
  <1> HIDE DEF b
  <1>3. /\ b[1] \in Byte /\ b[2] \in Byte /\ b[3] \in Byte /\ b[4] \in Byte
        /\ b[1] + B * (b[2] + B * (b[3] + B * b[4])) = w
    <2>1. B \in Nat \ {0} /\ w \in Nat /\ w < B * B * B * B
      BY ByteAssumption, WordSize DEF Word, WordMod
    <2>0. Byte = 0 .. B - 1
      BY DEF Byte
    <2> HIDE DEF B
    <2>2. PICK c \in 0 .. B - 1, y \in Nat : w = c + B * y
      BY <2>1, Digit
    <2>3. PICK d \in 0 .. B - 1, z \in Nat : y = d + B * z
      BY <2>1, Digit
    <2>4. PICK e \in 0 .. B - 1, f \in Nat : z = e + B * f
      BY <2>1, Digit
    <2>5. w = Number(B, c, d, e, f)
      BY <2>2, <2>3, <2>4 DEF Number
    <2>6. /\ w \in Nat /\ w % B = c /\ (w \div B) % B = d
          /\ (w \div (B * B)) % B = e /\ w \div (B * B * B) = f
          /\ (f < B <=> w < B * B * B * B)
      BY <2>1, <2>5, Digits
    <2>7. b[1] = c /\ b[2] = d /\ b[3] = e /\ b[4] = f /\ f < B
      BY <1>1, <2>1, <2>6, Zenon
    <2>8. b[1] \in Byte /\ b[2] \in Byte /\ b[3] \in Byte /\ b[4] \in Byte
      BY <2>0, <2>1, <2>7
    <2>9. b[1] + B * (b[2] + B * (b[3] + B * b[4])) = w
      BY <2>5, <2>7, Zenon DEF Number
    <2>10. QED
      BY <2>8, <2>9
  <1>4. \A k \in 1 .. 4 : b[k] \in Byte
    <2> TAKE k \in 1 .. 4
    <2>1. k = 1 \/ k = 2 \/ k = 3 \/ k = 4
      OBVIOUS
    <2>2. QED
      BY <1>3, <2>1
  <1>5. b \in Quad
    BY <1>2, <1>4 DEF Quad
  <1>6. WordOf(b) = w
    BY <1>3 DEF WordOf
  <1>7. QED
    BY <1>5, <1>6 DEF b

-----------------------------------------------------------------------------
(* The core                                                                *)

Core(R, M, F) == [reg |-> R, mem |-> M, fault |-> F]
Block(b, n, C) == [big |-> b, size |-> n, cells |-> C]

\* What a register file and a memory of n bytes hold.
Words == [Reg -> Word]
Cells(n) == [0 .. n + SlackBytes - 1 -> Byte]

\* A core over a memory of n bytes with the byte order b.
Shape(p, b, n) ==
  \E R \in Words, C \in Cells(n), F \in BOOLEAN : p = Core(R, Block(b, n, C), F)

\* A core given by its parts, and what the accessors make of it.
LEMMA ShapeOfParts ==
  ASSUME NEW b, NEW n, NEW R \in Words, NEW C \in Cells(n), NEW F \in BOOLEAN
  PROVE  Shape(Core(R, Block(b, n, C), F), b, n)
  BY Zenon DEF Shape

LEMMA CoreFields ==
  ASSUME NEW R, NEW M, NEW F
  PROVE  Core(R, M, F).reg = R /\ Core(R, M, F).mem = M /\ Core(R, M, F).fault = F
  BY DEF Core

LEMMA BlockFields ==
  ASSUME NEW b, NEW n, NEW C
  PROVE  /\ Block(b, n, C).big = b /\ Block(b, n, C).size = n
         /\ Block(b, n, C).cells = C
  BY DEF Block

WithMem(p, m) == [p EXCEPT !.mem = m]
WithCells(p, c) == [p EXCEPT !.mem.cells = c]
WithReg(p, f) == [p EXCEPT !.reg = f]

LEMMA CrashUpdate ==
  ASSUME NEW R, NEW M, NEW F
  PROVE  Crash(Core(R, M, F)) = Core(R, M, TRUE)
  <1>1. \A v : [Core(R, M, F) EXCEPT !.fault = v] = Core(R, M, v)
    BY DEF Core
  <1>2. [Core(R, M, F) EXCEPT !.fault = TRUE] = Core(R, M, TRUE)
    BY <1>1, Zenon
  <1>3. QED
    BY <1>2, Zenon DEF Crash

LEMMA RegisterUpdate ==
  ASSUME NEW R, NEW M, NEW F, NEW r, NEW v
  PROVE  arm_write_register(Core(R, M, F), r, v) = Core([R EXCEPT ![r] = v], M, F)
  BY DEF Core, arm_write_register

LEMMA MemUpdate ==
  ASSUME NEW R, NEW M, NEW F, NEW m
  PROVE  WithMem(Core(R, M, F), m) = Core(R, m, F)
  BY DEF Core, WithMem

LEMMA RegUpdate ==
  ASSUME NEW R, NEW M, NEW F, NEW f
  PROVE  WithReg(Core(R, M, F), f) = Core(f, M, F)
  BY DEF Core, WithReg

LEMMA BlockUpdates ==
  ASSUME NEW b, NEW n, NEW C, NEW R, NEW F, NEW c
  PROVE  /\ Put(Block(b, n, C), c) = Block(b, n, c)
         /\ WithCells(Core(R, Block(b, n, C), F), c) = Core(R, Block(b, n, c), F)
  <1>1. Put(Block(b, n, C), c) = Block(b, n, c)
    BY DEF Put, Block
  <1>2. WithCells(Core(R, Block(b, n, C), F), c) = Core(R, Block(b, n, c), F)
    BY DEF WithCells, Core, Block
  <1>3. QED
    BY <1>1, <1>2

-----------------------------------------------------------------------------
(* The accessors keep the shape                                            *)

\* The parts of a core.
LEMMA ShapeParts ==
  ASSUME NEW p, NEW b, NEW n, Shape(p, b, n)
  PROVE  /\ p.reg \in Words /\ p.mem.cells \in Cells(n)
         /\ p.mem.size = n /\ p.mem.big = b /\ p.fault \in BOOLEAN
         /\ p.mem = Block(b, n, p.mem.cells)
         /\ p = Core(p.reg, p.mem, p.fault)
  <1>1. PICK R \in Words, C \in Cells(n), F \in BOOLEAN : p = Core(R, Block(b, n, C), F)
    BY Zenon DEF Shape
  <1>2. p.reg = R /\ p.mem = Block(b, n, C)
    BY <1>1, CoreFields
  <1>3. p.mem.cells = C /\ p.mem.size = n /\ p.mem.big = b
    BY <1>2, BlockFields
  <1>4. p.fault = F
    <2>1. \A v : Core(R, Block(b, n, C), v).fault = v
      BY CoreFields
    <2>2. QED
      BY <1>1, <2>1, Zenon
  <1>5. p.reg \in Words /\ p.mem.cells \in Cells(n) /\ p.fault \in BOOLEAN
    BY <1>2, <1>3, <1>4, Zenon
  <1>6. p.mem = Block(b, n, p.mem.cells) /\ p = Core(p.reg, p.mem, p.fault)
    BY <1>1, <1>2, <1>3, <1>4, Zenon
  <1>7. QED
    BY <1>3, <1>5, <1>6, Zenon

LEMMA RegisterIsWord ==
  ASSUME NEW p, NEW b, NEW n, Shape(p, b, n), NEW r \in Reg
  PROVE  p.reg[r] \in Word /\ arm_read_register(p, r) \in Word
  <1>1. p.reg[r] \in Word /\ p.reg[PC] \in Word
    BY ShapeParts DEF Words, Reg, PC
  <1>2. PICK v \in Word : v = Add(p.reg[PC], 4)
    <2>1. p.reg[PC] \in Int /\ 4 \in Int
      BY <1>1 DEF Word
    <2>2. QED
      BY <2>1, WordSums, Zenon
  <1>3. v - 2 * get_bit(v, 1) \in Word
    <2>1. get_bit(v, 1) = (v \div 2) % 2
      BY SMT DEF get_bit
    <2>2. QED
      BY <2>1, WordSize DEF Word
  <1>4. QED
    BY <1>1, <1>2, <1>3 DEF arm_read_register

-----------------------------------------------------------------------------
(* The accessors keep the shape                                            *)

LEMMA WithRegKeeps ==
  ASSUME NEW p, NEW b, NEW n, Shape(p, b, n), NEW f \in Words
  PROVE  Shape(WithReg(p, f), b, n)
  <1>1. PICK R \in Words, C \in Cells(n), F \in BOOLEAN : p = Core(R, Block(b, n, C), F)
    BY Zenon DEF Shape
  <1>2. WithReg(p, f) = Core(f, Block(b, n, C), F)
    BY <1>1, RegUpdate
  <1>3. QED
    BY <1>2, ShapeOfParts

LEMMA WriteRegisterKeeps ==
  ASSUME NEW p, NEW b, NEW n, Shape(p, b, n), NEW r, NEW v \in Word
  PROVE  Shape(arm_write_register(p, r, v), b, n)
  <1>1. PICK R \in Words, C \in Cells(n), F \in BOOLEAN : p = Core(R, Block(b, n, C), F)
    BY Zenon DEF Shape
  <1>2. arm_write_register(p, r, v) = Core([R EXCEPT ![r] = v], Block(b, n, C), F)
    BY <1>1, RegisterUpdate
  <1>3. [R EXCEPT ![r] = v] \in Words
    BY DEF Words
  <1>4. QED
    BY <1>2, <1>3, ShapeOfParts

LEMMA CrashKeeps ==
  ASSUME NEW p, NEW b, NEW n, Shape(p, b, n)
  PROVE  Shape(Crash(p), b, n)
  <1>1. PICK R \in Words, C \in Cells(n), F \in BOOLEAN : p = Core(R, Block(b, n, C), F)
    BY Zenon DEF Shape
  <1>2. Crash(p) = Core(R, Block(b, n, C), TRUE)
    BY <1>1, CrashUpdate, Zenon
  <1>3. QED
    BY <1>2, ShapeOfParts, Zenon

LEMMA WithCellsKeeps ==
  ASSUME NEW p, NEW b, NEW n, Shape(p, b, n), NEW c \in Cells(n)
  PROVE  Shape(WithCells(p, c), b, n) /\ WithCells(p, c).mem = Block(b, n, c)
  <1>1. PICK R \in Words, C \in Cells(n), F \in BOOLEAN : p = Core(R, Block(b, n, C), F)
    BY Zenon DEF Shape
  <1>2. WithCells(p, c) = Core(R, Block(b, n, c), F)
    BY <1>1, BlockUpdates
  <1>3. QED
    BY <1>2, ShapeOfParts, CoreFields

LEMMA PutKeeps ==
  ASSUME NEW p, NEW b, NEW n, Shape(p, b, n), NEW c \in Cells(n)
  PROVE  Shape(WithMem(p, Put(p.mem, c)), b, n)
  <1>1. PICK R \in Words, C \in Cells(n), F \in BOOLEAN : p = Core(R, Block(b, n, C), F)
    BY Zenon DEF Shape
  <1>2. p.mem = Block(b, n, C)
    BY <1>1, CoreFields
  <1>3. Put(p.mem, c) = Block(b, n, c)
    BY <1>2, BlockUpdates
  <1>4. WithMem(p, Block(b, n, c)) = Core(R, Block(b, n, c), F)
    BY <1>1, MemUpdate
  <1>5. QED
    BY <1>3, <1>4, ShapeOfParts

LEMMA WriteByteKeeps ==
  ASSUME NEW p, NEW b, NEW n, Shape(p, b, n), NEW a, NEW v \in Byte
  PROVE  Shape(arm_write_byte(p, a, v), b, n)
  <1> DEFINE c == [p.mem.cells EXCEPT ![a] = v]
  <1>1. c \in Cells(n)
    BY ShapeParts DEF Cells
  <1>2. arm_write_byte(p, a, v) =
          IF WriteFaults(p.mem, a, 1) THEN Crash(p) ELSE WithMem(p, Put(p.mem, c))
    BY DEF arm_write_byte, memory_write_byte, WithMem
  <1> HIDE DEF c
  <1>3. QED
    BY <1>1, <1>2, CrashKeeps, PutKeeps

\* The cells after memory_write_word.
BigCells(c, a, v) == [c EXCEPT ![a] = v[4], ![a + 1] = v[3], ![a + 2] = v[2], ![a + 3] = v[1]]
LittleCells(c, a, v) == [c EXCEPT ![a] = v[1], ![a + 1] = v[2], ![a + 2] = v[3], ![a + 3] = v[4]]

LEMMA WordCells ==
  ASSUME NEW n, NEW c \in Cells(n), NEW a, NEW v \in Quad
  PROVE  BigCells(c, a, v) \in Cells(n) /\ LittleCells(c, a, v) \in Cells(n)
  <1>1. v[1] \in Byte /\ v[2] \in Byte /\ v[3] \in Byte /\ v[4] \in Byte
    BY DEF Quad
  <1>2. QED
    BY <1>1 DEF Cells, BigCells, LittleCells

LEMMA WriteWordKeeps ==
  ASSUME NEW p, NEW b, NEW n, Shape(p, b, n), NEW a, NEW v \in Word
  PROVE  Shape(arm_write_word(p, a, v), b, n)
  <1> DEFINE d == BigCells(p.mem.cells, a, BytesOf(v))
             e == LittleCells(p.mem.cells, a, BytesOf(v))
             c == IF p.mem.big = 1 THEN d ELSE e
  <1>1. d \in Cells(n) /\ e \in Cells(n)
    BY ShapeParts, WordCells, BytesFromWord
  <1>2. c \in Cells(n)
    BY <1>1, Zenon
  <1>3. arm_write_word(p, a, v) =
          IF WriteFaults(p.mem, a, 4) THEN Crash(p) ELSE WithMem(p, Put(p.mem, c))
    BY Zenon DEF arm_write_word, memory_write_word, WithMem, BigCells, LittleCells
  <1> HIDE DEF c
  <1>4. QED
    BY <1>2, <1>3, CrashKeeps, PutKeeps

-----------------------------------------------------------------------------
(* What an instruction computes is a word                                  *)

LEMMA DecodeTyped == \A w : IsDecoded(Decode(w))
  <1>1. /\ get_bit(63, 0) = 1 /\ get_bit(63, 1) = 1 /\ get_bit(63, 2) = 1
        /\ get_bit(63, 3) = 1 /\ get_bit(63, 4) = 1 /\ get_bit(63, 5) = 1
    BY SMT DEF get_bit
  <1>2. IsDecoded(AllOnes)
    <2>1. 4095 \in Low12
      BY DEF Low12
    <2>2. QED
      BY <1>1, <2>1, SMT DEF AllOnes, Fields, IsDecoded, Bit
  <1>3. QED
    BY <1>2, DecodeAssumption, Zenon DEF Decode

LEMMA FieldsTyped ==
  ASSUME NEW i, IsDecoded(i)
  PROVE  /\ opcode(i) \in 0 .. 15 /\ rm(i) \in 0 .. 15 /\ rs(i) \in 0 .. 15
         /\ shift_imm(i) \in 0 .. 31
         /\ i.rn \in Reg /\ i.rd \in Reg /\ rm(i) \in Reg
  <1>1. opcode(i) \in 0 .. 15
    BY DEF opcode, IsDecoded, Bit
  <1>2. rm(i) \in 0 .. 15 /\ rs(i) \in 0 .. 15 /\ shift_imm(i) \in 0 .. 31
    <2>1. i.lo12 \in Low12
      BY DEF IsDecoded
    <2>2. QED
      BY <2>1, Fields12, Zenon DEF rm, rs, shift_imm
  <1>3. QED
    BY <1>1, <1>2 DEF IsDecoded, Reg

LEMMA SmallWords ==
  /\ \A x \in Int : 0 <= x /\ x <= 467 => x \in Word
  /\ Word \subseteq Nat /\ Ones \in Word /\ 0 \in Word
  BY WordSize, PowerTable, SMT DEF Word, Ones

LEMMA SignIsBit ==
  ASSUME NEW v \in Word
  PROVE  SignBit(v) \in {0, 1} /\ Ones * SignBit(v) \in Word
  <1>1. v \in Nat /\ WordBits - 1 \in 0 .. 32
    BY WordSize DEF Word
  <1>2. SignBit(v) \in {0, 1}
    BY <1>1, BitValues DEF SignBit
  <1>3. Ones * 0 = 0 /\ Ones * 1 = Ones
    BY WordSize DEF Ones
  <1>4. QED
    BY <1>2, <1>3, SmallWords

LEMMA CarryIsBit ==
  ASSUME NEW v \in Word
  PROVE  FlagC(v) \in {0, 1}
  <1>1. v \in Nat /\ WordBits - 3 \in 0 .. 32
    BY WordSize DEF Word
  <1>2. QED
    BY <1>1, BitValues DEF FlagC

\* The shifter, for every register value, amount and shift field.
LEMMA OperandsAreWords ==
  ASSUME NEW p, NEW b, NEW n, Shape(p, b, n), NEW i, IsDecoded(i),
         NEW o \in Operand2(p, i)
  PROVE  o \in Word
  <1> DEFINE v == arm_read_register(p, rm(i))
  <1>1. v \in Word /\ v \in Nat
    BY FieldsTyped, RegisterIsWord DEF Word
  <1>2. rs(i) \in Nat /\ shift_imm(i) \in Nat /\ 1 \in Nat /\ 2 * rs(i) \in Nat
    BY FieldsTyped
  <1>3. AnyAmount \subseteq Nat
    BY WordSize DEF AnyAmount
  <1>4. get_bits(i.lo12, 7, 0) \in Word
    <2>1. i.lo12 \in Low12
      BY DEF IsDecoded
    <2>2. get_bits(i.lo12, 7, 0) \in 0 .. 255
      BY <2>1, Fields12, Zenon
    <2>3. QED
      BY <2>2, SmallWords
  <1>5. /\ \A k \in Nat : ShiftLeft(v, k) \in Word /\ ShiftRight(v, k) \in Word
        /\ \A k \in Nat : asr(v, k) \in Word /\ ror(v, k) \in Word
        /\ ror(get_bits(i.lo12, 7, 0), 2 * rs(i)) \in Word
        /\ Ones * SignBit(v) \in Word /\ 0 \in Word
    <2> HIDE DEF v
    <2>1. \A k \in Nat : ShiftLeft(v, k) \in Word /\ ShiftRight(v, k) \in Word
      BY <1>1, Shifts
    <2>2. \A k \in Nat : asr(v, k) \in Word /\ ror(v, k) \in Word
      BY <1>1, Rotations
    <2>3. ror(get_bits(i.lo12, 7, 0), 2 * rs(i)) \in Word
      BY <1>2, <1>4, Rotations
    <2>4. QED
      BY <1>1, <2>1, <2>2, <2>3, SignIsBit, SmallWords
  <1>6. shiftedRegisterOperand(p, i) \subseteq Word
    <2> HIDE DEF v
    <2>1. ASSUME NEW x \in shiftedRegisterOperand(p, i)
          PROVE  \/ x = 0 \/ x = v \/ x = Ones * SignBit(v)
                 \/ \E k \in Nat : x \in {ShiftLeft(v, k), ShiftRight(v, k), asr(v, k), ror(v, k)}
      BY <1>2, <1>3 DEF shiftedRegisterOperand, v
    <2>2. QED
      BY <1>1, <1>5, <2>1
  <1>7. QED
    BY <1>1, <1>5, <1>6, Zenon DEF Operand2

LEMMA ResultsAreWords ==
  ASSUME NEW op \in 0 .. 15, op \notin Compares, NEW x \in Word, NEW y \in Word,
         NEW c \in {0, 1}
  PROVE  AluResult(op, x, y, c) \in Word
  <1>1. x \in Int /\ y \in Int /\ c \in Int /\ 1 - c \in Int
    BY DEF Word
  <1>2. LogicalNot(y) \in Word
    BY SmallWords DEF LogicalNot
  <1>3. /\ Add(x, y) \in Word /\ Sub(x, y) \in Word /\ Sub(y, x) \in Word
        /\ Add(y, c) \in Word /\ Add(y, 1 - c) \in Word /\ Add(x, 1 - c) \in Word
    BY <1>1, WordSums
  <1>4. Word \subseteq Int
    BY DEF Word
  <1>5. /\ Add(x, Add(y, c)) \in Word /\ Sub(x, Add(y, 1 - c)) \in Word
        /\ Sub(y, Add(x, 1 - c)) \in Word
    BY <1>1, <1>3, <1>4, WordSums
  <1>6. op \in {0, 1, 2, 3, 4, 5, 6, 7, 12, 13, 14, 15}
    BY DEF Compares
  <1>7. QED
    BY <1>2, <1>3, <1>5, <1>6, Bitwises DEF AluResult

\* The address of a load or store.
LEMMA AddressIsWord ==
  ASSUME NEW i, IsDecoded(i)
  PROVE  arm_load_store(i) \in Word
  <1>1. rm(i) \in Word /\ rm(i) \in Nat /\ shift_imm(i) \in Nat /\ i.lo12 \in Int
        /\ i.rn \in Int
    <2>1. rm(i) \in 0 .. 15 /\ shift_imm(i) \in 0 .. 31
      BY FieldsTyped
    <2>2. Low12 \subseteq Int
      BY DEF Low12
    <2>3. i.lo12 \in Low12 /\ i.rn \in 0 .. 15
      BY Zenon DEF IsDecoded
    <2>4. i.lo12 \in Int
      BY <2>2, <2>3, Zenon
    <2>5. i.rn \in Int
      BY <2>3
    <2>6. rm(i) \in Word /\ rm(i) \in Nat /\ shift_imm(i) \in Nat
      BY <2>1, SmallWords
    <2>7. QED
      BY <2>4, <2>5, <2>6
  <1>2. load_store_shifts_rotate(i) \in Int
    <2>1. Word \subseteq Int /\ 1 \in Int /\ 0 \in Int
      BY DEF Word
    <2>2. /\ ShiftLeft(rm(i), shift_imm(i)) \in Word
          /\ ShiftRight(rm(i), shift_imm(i)) \in Word
          /\ asr(rm(i), shift_imm(i)) \in Word /\ ror(rm(i), shift_imm(i)) \in Word
          /\ Ones * SignBit(rm(i)) \in Word
      BY <1>1, Shifts, Rotations, SignIsBit
    <2>3. QED
      BY <2>1, <2>2, Zenon DEF load_store_shifts_rotate
  <1>3. PICK o \in Int :
          arm_load_store(i) = IF i.b23 = 1 THEN Add(i.rn, o) ELSE Sub(i.rn, o)
    BY <1>1, <1>2 DEF arm_load_store
  <1>4. QED
    BY <1>1, <1>3, WordSums

-----------------------------------------------------------------------------
(* One step of the processor                                               *)

\* What a read that does not fault returns.
LEMMA ReadsAreBytes ==
  ASSUME NEW p, NEW b, NEW n, Shape(p, b, n), NEW a \in Word
  PROVE  /\ ~ReadFaults(p.mem, a, 4) => arm_read_word(p, a) \in Quad
         /\ ~ReadFaults(p.mem, a, 1) => arm_read_byte(p, a)[1] \in Byte
  <1>1. MinusOne \in Quad /\ MinusOne[1] \in Byte
    BY ByteAssumption DEF MinusOne, Quad, Byte
  <1>2. ASSUME Accepts(p.mem, a), Mapped(p.mem, a, 4)
        PROVE  WordAt(p.mem, a) \in Quad
    <2> DEFINE c == p.mem.cells
    <2>1. a \in Nat /\ a .. a + 3 \subseteq DOMAIN c
      BY <1>2 DEF Word, Mapped
    <2>2. a \in DOMAIN c /\ a + 1 \in DOMAIN c /\ a + 2 \in DOMAIN c /\ a + 3 \in DOMAIN c
      BY <2>1
    <2>3. c[a] \in Byte /\ c[a + 1] \in Byte /\ c[a + 2] \in Byte /\ c[a + 3] \in Byte
      BY <2>2, ShapeParts DEF Cells
    <2> HIDE DEF c
    <2>4. <<c[a], c[a + 1], c[a + 2], c[a + 3]>> \in Quad
          /\ <<c[a + 3], c[a + 2], c[a + 1], c[a]>> \in Quad
      BY <2>3 DEF Quad
    <2>5. QED
      BY <2>4, Zenon DEF WordAt, c
  <1>3. ASSUME Accepts(p.mem, a), Mapped(p.mem, a, 1)
        PROVE  ByteAt(p.mem, a) \in Byte
    <2>1. a \in Nat /\ a .. a + 1 - 1 \subseteq DOMAIN p.mem.cells
      BY <1>3 DEF Word, Mapped
    <2>2. a \in DOMAIN p.mem.cells
      BY <2>1
    <2>3. QED
      BY <2>2, ShapeParts DEF Cells, ByteAt
  <1>4. ~ReadFaults(p.mem, a, 4) => arm_read_word(p, a) \in Quad
    BY <1>1, <1>2, Zenon DEF ReadFaults, arm_read_word, memory_read_word
  <1>5. ~ReadFaults(p.mem, a, 1) => arm_read_byte(p, a)[1] \in Byte
    BY <1>1, <1>3 DEF ReadFaults, arm_read_byte, memory_read_byte
  <1>6. QED
    BY <1>4, <1>5

LEMMA FetchIsWord ==
  ASSUME NEW p, NEW b, NEW n, Shape(p, b, n)
  PROVE  FetchAddress(p) \in Word /\ Add(FetchAddress(p), 4) \in Word
  <1>1. arm_read_register(p, PC) \in Word
    BY RegisterIsWord DEF Reg, PC
  <1>2. arm_read_register(p, PC) \in Int /\ 4 \in Int
    BY <1>1 DEF Word
  <1>3. FetchAddress(p) \in Word
    BY <1>2, WordSums DEF FetchAddress
  <1>4. FetchAddress(p) \in Int
    BY <1>3 DEF Word
  <1>5. QED
    BY <1>2, <1>3, <1>4, WordSums

\* arm_read_register shows a pc without bit 1, four bytes ahead.
LEMMA ShownPc ==
  ASSUME NEW p, NEW b, NEW n, Shape(p, b, n)
  PROVE  LET x == arm_read_register(p, PC)
         IN  /\ x \in Word /\ get_bit(x, 1) = 0
             /\ Sub(x, 4) \in Word /\ Add(Sub(x, 4), 4) = x
  <1>1. PICK v \in Word : v = Add(p.reg[PC], 4)
    <2>1. p.reg[PC] \in Int /\ 4 \in Int
      BY RegisterIsWord DEF Word, Reg, PC
    <2>2. QED
      BY <2>1, WordSums, Zenon
  <1>2. PICK x : x = v - 2 * ((v \div 2) % 2)
    OBVIOUS
  <1>3. arm_read_register(p, PC) = x
    <2>1. get_bit(v, 1) = (v \div 2) % 2
      BY SMT DEF get_bit
    <2>2. arm_read_register(p, PC) = v - 2 * get_bit(v, 1)
      BY <1>1, Zenon DEF arm_read_register
    <2>3. QED
      BY <1>2, <2>1, <2>2
  <1>4. x \in Word /\ (x \div 2) % 2 = 0
    BY <1>2, WordSize DEF Word
  <1>5. get_bit(x, 1) = 0
    BY <1>4, SMT DEF get_bit
  <1>6. Sub(x, 4) \in Word /\ Add(Sub(x, 4), 4) = x
    <2>1. WordMod >= 16 /\ WordMod \in Nat
      BY WordSize, PowerTable, SMT
    <2>2. CASE x >= 4
      <3>1. Sub(x, 4) = x - 4
        BY <1>4, <2>1, <2>2 DEF Sub, Word
      <3>2. QED
        BY <1>4, <2>2, <3>1, WordSize DEF Add, Word
    <2>3. CASE x < 4
      <3>1. Sub(x, 4) = x - 4 + WordMod
        BY <1>4, <2>1, <2>3, WordSize DEF Sub, Word
      <3>2. QED
        BY <1>4, <2>1, <2>3, <3>1, WordSize DEF Add, Word
    <2>4. QED
      BY <1>4, <2>2, <2>3 DEF Word
  <1>7. QED
    BY <1>3, <1>4, <1>5, <1>6

LEMMA FetchKeeps ==
  ASSUME NEW p, NEW b, NEW n, Shape(p, b, n)
  PROVE  Shape(arm_fetch(p), b, n)
  <1>1. Shape(arm_write_register(p, PC, Add(FetchAddress(p), 4)), b, n)
    BY FetchIsWord, WriteRegisterKeeps
  <1>2. QED
    BY <1>1, CrashKeeps, Zenon DEF arm_fetch

LEMMA DataProcessingKeeps ==
  ASSUME NEW p, NEW b, NEW n, Shape(p, b, n), NEW i, IsDecoded(i),
         NEW q \in DataProcessing(p, i)
  PROVE  Shape(q, b, n)
  <1>1. CASE opcode(i) \in Compares
    BY <1>1 DEF DataProcessing, update_flag
  <1>2. CASE opcode(i) \notin Compares
    <2> DEFINE Result(o) == AluResult(opcode(i), arm_read_register(p, i.rn), o,
                                      FlagC(arm_read_cpsr(p)))
    <2>1. PICK o \in Operand2(p, i) : q = arm_write_register(p, i.rd, Result(o))
      <3>1. \E x \in {arm_read_register(p, i.rn)}, y \in Operand2(p, i) :
              q = arm_write_register(p, i.rd,
                    AluResult(opcode(i), x, y, FlagC(arm_read_cpsr(p))))
        BY <1>2, SMT DEF DataProcessing, update_flag
      <3>2. QED
        BY <3>1, Zenon
    <2>2. arm_read_cpsr(p) \in Word
      BY RegisterIsWord DEF arm_read_cpsr, CPSR, Reg
    <2>3. Result(o) \in Word
      BY <1>2, <2>2, FieldsTyped, RegisterIsWord, OperandsAreWords, CarryIsBit,
         ResultsAreWords
    <2> HIDE DEF Result
    <2>4. QED
      BY <2>1, <2>3, WriteRegisterKeeps
  <1>3. QED
    BY <1>1, <1>2

LEMMA LoadStoreKeeps ==
  ASSUME NEW p, NEW b, NEW n, Shape(p, b, n), NEW a \in Word, NEW i, IsDecoded(i)
  PROVE  Shape(loadStoreByteOrWord(p, a, i), b, n)
  <1> DEFINE q == loadStoreByteOrWord(p, a, i)
             width == IF i.b22 = 1 THEN 1 ELSE 4
             stuck == ReadFaults(p.mem, a, width)
             data == ror(WordOf(arm_read_word(p, a)), ByteBits * (a % 4))
             value == arm_read_register(p, i.rd)
  <1>0. i.b20 \in {0, 1} /\ i.b22 \in {0, 1}
    BY Zenon DEF IsDecoded, Bit
  <1>1. value \in Word
    BY FieldsTyped, RegisterIsWord
  <1>2. CASE i.b20 = 0 /\ i.b22 = 0
    <2>1. q = arm_write_word(p, a, value)
      BY <1>2 DEF loadStoreByteOrWord
    <2>2. QED
      BY <1>1, <2>1, WriteWordKeeps
  <1>3. CASE i.b20 = 0 /\ i.b22 = 1
    <2>1. q = arm_write_byte(p, a, value % ByteMod)
      BY <1>3 DEF loadStoreByteOrWord
    <2> HIDE DEF value
    <2>2. value % ByteMod \in Byte
      BY <1>1, ByteAssumption DEF Byte, Word
    <2>3. QED
      BY <2>1, <2>2, WriteByteKeeps
  <1>4. CASE i.b20 = 1 /\ stuck
    <2>1. q = Crash(p)
      BY <1>4 DEF loadStoreByteOrWord
    <2>2. QED
      BY <2>1, CrashKeeps
  <1>5. CASE i.b20 = 1 /\ i.b22 = 0 /\ ~stuck
    <2>1. q = arm_write_register(p, i.rd, IF i.rd = PC THEN data - (data % 2) ELSE data)
      BY <1>5 DEF loadStoreByteOrWord
    <2>2. data \in Word
      <3>1. ~ReadFaults(p.mem, a, 4)
        BY <1>5
      <3>2. WordOf(arm_read_word(p, a)) \in Word
        BY <3>1, ReadsAreBytes, WordFromBytes
      <3>3. ByteBits * (a % 4) \in Nat
        BY CpsrAssumption DEF Word
      <3>4. QED
        BY <3>2, <3>3, Rotations
    <2> HIDE DEF data, q
    <2>3. data - (data % 2) \in Word
      BY <2>2, WordSize DEF Word
    <2>4. Shape(q, b, n)
      BY <2>1, <2>2, <2>3, WriteRegisterKeeps
    <2>5. QED
      BY <2>4 DEF q
  <1>6. CASE i.b20 = 1 /\ i.b22 = 1 /\ ~stuck
    <2>1. q = arm_write_register(p, i.rd, arm_read_byte(p, a)[1])
      BY <1>6 DEF loadStoreByteOrWord
    <2>2. arm_read_byte(p, a)[1] \in Byte
      <3>1. ~ReadFaults(p.mem, a, 1)
        BY <1>6
      <3>2. QED
        BY <3>1, ReadsAreBytes
    <2>3. Byte \subseteq Word
      BY WordSize, ByteAssumption DEF Byte, Word, WordMod
    <2>4. QED
      BY <2>1, <2>2, <2>3, WriteRegisterKeeps
  <1>7. QED
    BY <1>0, <1>2, <1>3, <1>4, <1>5, <1>6

LEMMA OffsetIsWord ==
  ASSUME NEW i, IsDecoded(i)
  PROVE  BranchOffset(i) \in Word
  <1>1. offset24(i) \in Nat
    <2>1. offset24(i) = ((8 * i.b23 + 4 * i.b22 + 2 * i.b21 + i.b20) * 1048576)
                          + i.rn * 65536 + i.rd * 4096 + i.lo12
      BY SMT DEF offset24
    <2>2. i.lo12 \in Low12 /\ Low12 \subseteq Nat
      BY SMT DEF Low12, IsDecoded
    <2>3. i.lo12 \in Nat
      BY <2>2, Zenon
    <2>4. i.rn \in Nat /\ i.rd \in Nat
      BY SMT DEF IsDecoded
    <2>5. i.b23 \in Nat /\ i.b22 \in Nat /\ i.b21 \in Nat /\ i.b20 \in Nat
      BY SMT DEF IsDecoded, Bit
    <2>6. QED
      BY <2>1, <2>3, <2>4, <2>5, SMT
  <1>2. PICK x \in Nat : x = offset24(i)
    BY <1>1
  <1>3. \A y \in {0, 63} : set_bits(x, 30, 24, y) \in Nat
    BY SMT DEF set_bits
  <1>4. Extend_30(i) \in Nat
    BY <1>2, <1>3, Zenon DEF Extend_30
  <1>5. QED
    BY <1>4, Shifts DEF BranchOffset

LEMMA BranchKeeps ==
  ASSUME NEW p, NEW b, NEW n, Shape(p, b, n), NEW i, IsDecoded(i)
  PROVE  Shape(arm_branch(p, i), b, n)
  <1> DEFINE here == arm_read_register(p, PC)
             linked == IF i.b24 = 1 THEN arm_write_register(p, LR, here) ELSE p
  <1>1. here \in Word
    BY RegisterIsWord DEF Reg, PC
  <1>2. Shape(linked, b, n)
    BY <1>1, WriteRegisterKeeps
  <1>3. arm_branch(p, i) = arm_write_register(linked, PC, Add(here, BranchOffset(i)))
    BY DEF arm_branch
  <1> HIDE DEF here, linked
  <1>4. Add(here, BranchOffset(i)) \in Word
    <2>1. here \in Int /\ BranchOffset(i) \in Int
      BY <1>1, OffsetIsWord DEF Word
    <2>2. QED
      BY <2>1, WordSums
  <1>5. QED
    BY <1>2, <1>3, <1>4, WriteRegisterKeeps

LEMMA StepKeeps ==
  ASSUME NEW p, NEW b, NEW n, Shape(p, b, n), NEW q \in arm_step(p)
  PROVE  Shape(q, b, n)
  <1> DEFINE i == Decode(FetchedWord(p))
             f == arm_fetch(p)
  <1>1. Shape(f, b, n) /\ IsDecoded(i)
    BY FetchKeeps, DecodeTyped
  <1>2. q = f \/ q \in Dispatch(f, i)
    BY Zenon DEF arm_step, arm_execute_instruction
  <1> HIDE DEF f, i
  <1>3. ASSUME q \in Dispatch(f, i) PROVE Shape(q, b, n)
    <2>1. \/ q \in DataProcessing(f, i)
          \/ q = loadStoreByteOrWord(f, arm_load_store(i), i)
          \/ q = arm_branch(f, i)
          \/ q = f
      BY <1>3, Zenon DEF Dispatch
    <2>2. QED
      BY <1>1, <2>1, DataProcessingKeeps, LoadStoreKeeps, BranchKeeps, AddressIsWord
  <1>4. QED
    BY <1>1, <1>2, <1>3

LEMMA ExceptionKeeps ==
  ASSUME NEW p, NEW b, NEW n, Shape(p, b, n), NEW e
  PROVE  Shape(arm_exception(p, e), b, n)
  <1> DEFINE w == arm_write_cpsr(p, ResetCpsr)
  <1>0. ResetCpsr \in Word /\ 0 \in Word
    BY SmallWords DEF ResetCpsr
  <1>1. w = arm_write_register(p, CPSR, ResetCpsr)
    BY DEF arm_write_cpsr, arm_write_register
  <1>2. Shape(w, b, n)
    BY <1>0, <1>1, WriteRegisterKeeps
  <1>3. arm_exception(p, e) = IF e = RESET THEN arm_write_usr_register(w, PC, 0) ELSE p
    BY DEF arm_exception
  <1> HIDE DEF w
  <1>4. arm_write_usr_register(w, PC, 0)
          = IF in_a_privileged_mode(w) THEN w ELSE arm_write_register(w, PC, 0)
    BY DEF arm_write_usr_register, arm_write_register
  <1>5. QED
    BY <1>0, <1>2, <1>3, <1>4, WriteRegisterKeeps

\* arm_create over a memory of n bytes, whatever words malloc left.
LEMMA CreateShape ==
  ASSUME NEW b, NEW n, NEW fill \in Byte, NEW garbage \in Words
  PROVE  Shape(arm_create(memory_create(n, b, fill), garbage), b, n)
  <1> DEFINE C == [a \in 0 .. n + SlackBytes - 1 |-> fill]
             p == Core(garbage, Block(b, n, C), FALSE)
  <1>1. C \in Cells(n)
    BY DEF Cells
  <1>2. Shape(p, b, n)
    BY <1>1, ShapeOfParts, Zenon
  <1>3. arm_create(memory_create(n, b, fill), garbage) = arm_exception(p, RESET)
    BY Zenon DEF arm_create, memory_create, Core, Block
  <1> HIDE DEF p
  <1>4. QED
    BY <1>2, <1>3, ExceptionKeeps
=============================================================================

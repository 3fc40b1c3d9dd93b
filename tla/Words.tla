------------------------------- MODULE Words --------------------------------
(***************************************************************************)
(* Machine words and the bit helpers of util.h and util.c.                 *)
(*                                                                         *)
(* A word is an unsigned integer of four bytes.  The width of a byte is a  *)
(* parameter: 8 in the program, smaller where TLC enumerates states (its   *)
(* integers have 32 bits).  Everything a word is used for here keeps its   *)
(* width: sums, differences and left shifts are taken modulo WordMod.      *)
(***************************************************************************)
EXTENDS Integers, FiniteSetsExt

CONSTANTS ByteBits,   \* bits in a byte
          ByteMod     \* values of a byte

ASSUME ByteAssumption == /\ ByteBits \in Nat \ {0}
                         /\ ByteMod \in Nat \ {0, 1}
                         /\ ByteMod = 2 ^ ByteBits

WordBits == 4 * ByteBits
WordMod == ByteMod * ByteMod * ByteMod * ByteMod

Byte == 0 .. ByteMod - 1
Word == 0 .. WordMod - 1

\* A word as its four bytes, least significant first, and back:
\* value >> 8k truncated to uint8_t, and the bytes shifted and or-ed together.
WordBytes == 1 .. 4
BytesOf(w) == [k \in WordBytes |->
                 CASE k = 1 -> w % ByteMod
                   [] k = 2 -> (w \div ByteMod) % ByteMod
                   [] k = 3 -> (w \div (ByteMod * ByteMod)) % ByteMod
                   [] OTHER -> w \div (ByteMod * ByteMod * ByteMod)]
WordOf(b) == b[1] + ByteMod * (b[2] + ByteMod * (b[3] + ByteMod * b[4]))

-----------------------------------------------------------------------------
\* uint32_t arithmetic.
Add(x, y) == (x + y) % WordMod
Sub(x, y) == (x - y) % WordMod

\* ~0, the value -1 converts to.
Ones == WordMod - 1

-----------------------------------------------------------------------------
\* get_bit and the two's complement sign of a word.
get_bit(x, i) == (x \div 2 ^ i) % 2
SignBit(x) == get_bit(x, WordBits - 1)

\* get_bits(x, h, l).
get_bits(x, h, l) == (x \div 2 ^ l) % 2 ^ (h - l + 1)

\* set_bits(x, h, l, bits): the macro keeps the bits of x under l and over h,
\* and ors the new bits in without masking them.
set_bits(x, h, l, bits) ==
  (x % 2 ^ l) + ((x \div 2 ^ h) \div 2) * 2 * 2 ^ h + bits * 2 ^ l

\* Bitwise operators, as sums over the bit positions of a word.
Bits == 0 .. WordBits - 1
BitSum(bits) ==
  LET sum[n \in 0 .. WordBits] ==
        IF n = 0 THEN 0
        ELSE sum[n - 1] + (IF bits[n - 1] THEN 2 ^ (n - 1) ELSE 0)
  IN  sum[WordBits]
BitAnd(x, y) == BitSum([i \in Bits |-> get_bit(x, i) = 1 /\ get_bit(y, i) = 1])
BitOr(x, y)  == BitSum([i \in Bits |-> get_bit(x, i) = 1 \/ get_bit(y, i) = 1])
BitXor(x, y) == BitSum([i \in Bits |-> get_bit(x, i) # get_bit(y, i)])

\* !x of C.
LogicalNot(x) == IF x = 0 THEN 1 ELSE 0

-----------------------------------------------------------------------------
\* Mutated form of ShiftLeft: the result keeps the bits over the word.
ShiftLeftWide(x, n) == IF n < WordBits THEN x * 2 ^ n ELSE 0

\* Shifts of a word by 0 <= n (a shift by the width or more leaves nothing).
ShiftLeft(x, n)  == IF n < WordBits THEN (x % 2 ^ (WordBits - n)) * 2 ^ n
                                    ELSE 0
ShiftRight(x, n) == IF n < WordBits THEN x \div 2 ^ n ELSE 0

\* asr and ror of util.c.  The amount is taken modulo the width, as the
\* shift instructions of the host do; asr by 0 of a negative word or-s all
\* ones in, for the same reason.
asr(x, n) ==
  LET k == n % WordBits
  IN  IF SignBit(x) = 0 THEN x \div 2 ^ k
      ELSE IF k = 0 THEN Ones
      ELSE x \div 2 ^ k + (WordMod - 2 ^ (WordBits - k))
ror(x, n) ==
  LET k == n % WordBits
  IN  x \div 2 ^ k + (x % 2 ^ k) * 2 ^ (WordBits - k)
=============================================================================

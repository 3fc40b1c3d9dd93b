----------------------------- MODULE MemoryOps ------------------------------
(***************************************************************************)
(* memory.c: the simulated memory and its accessors, as operators.         *)
(*                                                                         *)
(* A memory is a record: big is its is_big_endian flag, size the size its  *)
(* guards use, and cells the bytes that can be touched without a fault.    *)
(* The cells go on for SlackBytes after the block: malloc serves a block   *)
(* of this size with an anonymous mapping, whose last page is longer than  *)
(* the block.                                                              *)
(*                                                                         *)
(* A uint32_t is given by its four bytes and a uint16_t by its two, least  *)
(* significant first, so that value >> 8 is the tail of the sequence.      *)
(***************************************************************************)
EXTENDS Words, Sequences

CONSTANT SlackBytes    \* mapped bytes after the block

ASSUME SlackAssumption == SlackBytes \in Nat

Single == [1 .. 1 -> Byte]
Half == [1 .. 2 -> Byte]
Quad == [1 .. 4 -> Byte]

\* Mutated form of memory_create: one byte too few is allocated.
memory_create_short(size, big, fill) ==
  [big |-> big, size |-> size,
   cells |-> [a \in 0 .. size + SlackBytes - 2 |-> fill]]

\* memory_create: when malloc fails the size is 0 and there is no cell.
memory_create(size, big, fill) ==
  [big |-> big, size |-> size,
   cells |-> [a \in 0 .. size + SlackBytes - 1 |-> fill]]
memory_create_failed(big) == [big |-> big, size |-> 0, cells |-> << >>]

memory_get_size(m) == m.size

\* The n bytes from a can be touched without a fault.
Mapped(m, a, n) == a .. a + n - 1 \subseteq DOMAIN m.cells

\* Mutated form of Accepts: one more address is accepted.
AcceptsOneMore(m, a) == a <= m.size + 1

\* The guard of the three reads.
Accepts(m, a) == a <= m.size

-----------------------------------------------------------------------------
\* Mutated forms of HalfAt (both endiannesses alike) and of WordAt (the two
\* middle bytes of a little endian word exchanged).
HalfAtLittle(m, a) == <<m.cells[a], m.cells[a + 1]>>
WordAtSwapped(m, a) ==
  IF m.big = 0
  THEN <<m.cells[a], m.cells[a + 2], m.cells[a + 1], m.cells[a + 3]>>
  ELSE <<m.cells[a + 3], m.cells[a + 2], m.cells[a + 1], m.cells[a]>>

\* What a read leaves in *value, when its guard accepts the address.
ByteAt(m, a) == m.cells[a]
HalfAt(m, a) ==
  IF m.big = 0 THEN <<m.cells[a], m.cells[a + 1]>>
               ELSE <<m.cells[a + 1], m.cells[a]>>
WordAt(m, a) ==
  IF m.big = 0
  THEN <<m.cells[a], m.cells[a + 1], m.cells[a + 2], m.cells[a + 3]>>
  ELSE <<m.cells[a + 3], m.cells[a + 2], m.cells[a + 1], m.cells[a]>>

\* What a read returns: an int, given by its four bytes.  It is the value
\* itself when the address is accepted, and -1 when it is not.
MinusOne == [k \in 1 .. 4 |-> ByteMod - 1]
memory_read_byte(m, a) ==
  IF Accepts(m, a) THEN <<ByteAt(m, a), 0, 0, 0>> ELSE MinusOne
memory_read_half(m, a) ==
  IF Accepts(m, a) THEN <<HalfAt(m, a)[1], HalfAt(m, a)[2], 0, 0>>
                   ELSE MinusOne
memory_read_word(m, a) ==
  IF Accepts(m, a) THEN WordAt(m, a) ELSE MinusOne

\* A read touches its cells only when the guard accepts the address.
ReadFaults(m, a, n) == Accepts(m, a) /\ ~Mapped(m, a, n)

-----------------------------------------------------------------------------
\* The writes.  They check nothing; outside the mapping they fault.
Put(m, cells) == [m EXCEPT !.cells = cells]
memory_write_byte(m, a, v) == Put(m, [m.cells EXCEPT ![a] = v])
\* Mutated form of memory_write_half: the endiannesses exchanged.
memory_write_half_swapped(m, a, v) ==
  Put(m, IF m.big = 0 THEN [m.cells EXCEPT ![a] = v[2], ![a + 1] = v[1]]
                      ELSE [m.cells EXCEPT ![a] = v[1], ![a + 1] = v[2]])
memory_write_half(m, a, v) ==
  Put(m, IF m.big = 1 THEN [m.cells EXCEPT ![a] = v[2], ![a + 1] = v[1]]
                      ELSE [m.cells EXCEPT ![a] = v[1], ![a + 1] = v[2]])
memory_write_word(m, a, v) ==
  Put(m, IF m.big = 1
         THEN [m.cells EXCEPT ![a] = v[4], ![a + 1] = v[3],
                              ![a + 2] = v[2], ![a + 3] = v[1]]
         ELSE [m.cells EXCEPT ![a] = v[1], ![a + 1] = v[2],
                              ![a + 2] = v[3], ![a + 3] = v[4]])
WriteFaults(m, a, n) == ~Mapped(m, a, n)
=============================================================================

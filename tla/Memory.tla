------------------------------- MODULE Memory -------------------------------
(***************************************************************************)
(* The simulated memory in use: memory_create, then any sequence of byte,  *)
(* half and word accesses by its callers (the processor, gdb's handlers,   *)
(* memory_test).                                                           *)
(*                                                                         *)
(*   mem     the memory (a record of MemoryOps)                            *)
(*   status  the int the last accessor returned, as its four bytes         *)
(*   fault   an access touched an unmapped byte: the process is gone       *)
(*   live    ghost: the writes no later write has overlapped               *)
(***************************************************************************)
EXTENDS MemoryOps

CONSTANT Size     \* bytes asked of memory_create

ASSUME SizeAssumption == Size \in Nat \ {0}

VARIABLES mem, status, fault, live
vars == <<mem, status, fault, live>>

\* Addresses tried: every mapped byte and the first one after them.
Address == 0 .. Size + SlackBytes

Zero == <<0, 0, 0, 0>>

\* A write: its address, its width and its bytes, least significant first.
WriteOf(a, n, v) == [addr |-> a, n |-> n, val |-> v]
Overlap(w, a, n) == w.addr < a + n /\ a < w.addr + w.n

-----------------------------------------------------------------------------
\* malloc leaves the contents undefined (fill) and may fail.
Init == /\ \E big \in {0, 1} :
             \/ \E fill \in Byte : mem = memory_create(Size, big, fill)
             \/ mem = memory_create_failed(big)
        /\ status = Zero
        /\ fault = FALSE
        /\ live = {}

Write(new, a, n, v) ==
  \/ /\ WriteFaults(mem, a, n)
     /\ fault' = TRUE
     /\ UNCHANGED <<mem, status, live>>
  \/ /\ ~WriteFaults(mem, a, n)
     /\ mem' = new
     /\ status' = Zero
     /\ live' = {w \in live : ~Overlap(w, a, n)} \cup {WriteOf(a, n, v)}
     /\ UNCHANGED fault

WriteByte == \E a \in Address, v \in Single :
               Write(memory_write_byte(mem, a, v[1]), a, 1, v)
WriteHalf == \E a \in Address, v \in Half :
               Write(memory_write_half(mem, a, v), a, 2, v)
WriteWord == \E a \in Address, v \in Quad :
               Write(memory_write_word(mem, a, v), a, 4, v)

Read(ret, a, n) ==
  /\ fault' = ReadFaults(mem, a, n)
  /\ status' = IF ReadFaults(mem, a, n) THEN status ELSE ret
  /\ UNCHANGED <<mem, live>>

ReadByte == \E a \in Address : Read(memory_read_byte(mem, a), a, 1)
ReadHalf == \E a \in Address : Read(memory_read_half(mem, a), a, 2)
ReadWord == \E a \in Address : Read(memory_read_word(mem, a), a, 4)

Next == /\ ~fault
        /\ \/ WriteByte \/ WriteHalf \/ WriteWord
           \/ ReadByte \/ ReadHalf \/ ReadWord

Spec == Init /\ [][Next]_vars

-----------------------------------------------------------------------------
\* The memories memory_create gives, and the writes that may be live.
Allocated == [big : {0, 1}, size : {Size},
              cells : [0 .. Size + SlackBytes - 1 -> Byte]]
Failed == [big : {0, 1}, size : {0}, cells : {<< >>}]
Writes == [addr : Nat, n : {1}, val : Single]
            \cup [addr : Nat, n : {2}, val : Half]
            \cup [addr : Nat, n : {4}, val : Quad]

TypeOK == /\ mem \in Allocated \cup Failed
          /\ status \in Quad
          /\ fault \in BOOLEAN
          /\ \A w \in live : w \in Writes

\* The bytes of a live write are mapped.
LiveMapped == \A w \in live : Mapped(mem, w.addr, w.n)

\* A half or a word lies in memory in the order of the memory's endianness:
\* byte k of a big endian memory is the k-th most significant one of the
\* value, byte k of a little endian memory the k-th least significant.  It
\* holds for every write that no later one has overlapped.
Layout(m, w) ==
  \A k \in 0 .. w.n - 1 :
    m.cells[w.addr + k] = IF m.big = 1 THEN w.val[w.n - k] ELSE w.val[k + 1]
EndianLayout == \A w \in live : Layout(mem, w)

\* A value written with one width is read back with that width unchanged,
\* after any number of other writes that do not overlap it, in both
\* endiannesses (memory_write_* against memory_read_*).
ReadBack(m, w) ==
  CASE w.n = 1 -> memory_read_byte(m, w.addr)
    [] w.n = 2 -> memory_read_half(m, w.addr)
    [] OTHER   -> memory_read_word(m, w.addr)
ReadYourWrites ==
  \A w \in live : Accepts(mem, w.addr) =>
    \A k \in 1 .. w.n : ReadBack(mem, w)[k] = w.val[k]

\* The two endiannesses are mirror images: the same bytes read as a half or
\* as a word in the other endianness give the value with its bytes reversed
\* (what memory_test compares at address 0).
EndianMirror ==
  LET other == [mem EXCEPT !.big = 1 - @]
  IN  \A a \in 0 .. mem.size :
        /\ Mapped(mem, a, 2) =>
             \A k \in 1 .. 2 : HalfAt(other, a)[k] = HalfAt(mem, a)[3 - k]
        /\ Mapped(mem, a, 4) =>
             \A k \in 1 .. 4 : WordAt(other, a)[k] = WordAt(mem, a)[5 - k]

\* The guards of the reads accept address = size, so an accepted word read
\* reaches three bytes past that: as long as four bytes are mapped after the
\* block, no accepted read faults unless malloc had failed.
AcceptedReadsAreMapped ==
  SlackBytes >= 4 /\ mem.size # 0 =>
    \A a \in Address : \A n \in {1, 2, 4} : ~ReadFaults(mem, a, n)

\* memory.h: "The return value indicates a succes (0) or a failure (-1)."
StatusIsZeroOrMinusOne == status \in {Zero, MinusOne}
=============================================================================

---------------------------- MODULE MemoryProofs ----------------------------
(***************************************************************************)
(* Proofs about Memory: for every size of the block, every number of bytes *)
(* mapped after it, every width of a byte and every sequence of accesses,  *)
(* values are read back as they were written, in both endiannesses.        *)
(***************************************************************************)
EXTENDS Memory, TLAPS

\* What a write of n bytes at a leaves: a memory of the same shape that holds
\* the value in its endianness there, and the old bytes elsewhere.
Stores(m, new, a, n, v) ==
  /\ new \in Allocated
  /\ new.big = m.big
  /\ Layout(new, WriteOf(a, n, v))
  /\ \A b \in DOMAIN m.cells \ (a .. a + n - 1) : new.cells[b] = m.cells[b]

\* A mapped write is a write to an allocated memory.
LEMMA MappedAllocated ==
  ASSUME NEW m \in Allocated \cup Failed, NEW a \in Nat, NEW n \in {1, 2, 4},
         Mapped(m, a, n)
  PROVE  m \in Allocated /\ DOMAIN m.cells = 0 .. Size + SlackBytes - 1
  BY SizeAssumption, SlackAssumption DEF Allocated, Failed, Mapped

\* Replacing the cells of an allocated memory.
LEMMA PutCells ==
  ASSUME NEW m \in Allocated,
         NEW c \in [0 .. Size + SlackBytes - 1 -> Byte]
  PROVE  /\ Put(m, c) \in Allocated
         /\ Put(m, c).big = m.big
         /\ Put(m, c).cells = c
  BY DEF Put, Allocated

\* memory_write_byte stores one byte.
LEMMA WriteByteStores ==
  ASSUME NEW m \in Allocated, NEW a \in Nat, NEW v \in Single, Mapped(m, a, 1)
  PROVE  Stores(m, memory_write_byte(m, a, v[1]), a, 1, v)
  <1> DEFINE new == memory_write_byte(m, a, v[1])
  <1> DEFINE D == 0 .. Size + SlackBytes - 1
  <1> DEFINE c == [m.cells EXCEPT ![a] = v[1]]
  <1>0. /\ m.cells \in [D -> Byte]
        /\ m.big \in {0, 1}
        /\ \A k \in 0 .. 0 : a + k \in D
    BY SizeAssumption, SlackAssumption DEF Allocated, Mapped
  <1>1. \A k \in 1 .. 1 : v[k] \in Byte
    BY DEF Single
  <1>2. /\ c \in [D -> Byte]
        /\ \A k \in 0 .. 0 :
             c[a + k] = IF m.big = 1 THEN v[1 - k] ELSE v[k + 1]
        /\ \A b \in D \ (a .. a + 1 - 1) : c[b] = m.cells[b]
    <2> HIDE DEF D
    <2>1. a \in D
      BY <1>0
    <2>2. c \in [D -> Byte]
      BY <1>0, <1>1, <2>1
    <2>3. \A k \in 0 .. 0 :
            c[a + k] = IF m.big = 1 THEN v[1 - k] ELSE v[k + 1]
      BY <1>0, <2>1
    <2>4. \A b \in D \ (a .. a + 1 - 1) : c[b] = m.cells[b]
      BY <1>0, <2>1
    <2>5. QED
      BY <2>2, <2>3, <2>4
  <1>3. new \in Allocated /\ new.big = m.big /\ new.cells = c
    BY <1>2, PutCells DEF memory_write_byte
  <1>4. Layout(new, WriteOf(a, 1, v))
    <2> DEFINE w == WriteOf(a, 1, v)
    <2>1. w.addr = a /\ w.n = 1 /\ w.val = v
      BY DEF WriteOf
    <2> HIDE DEF w, new, c
    <2>2. \A k \in 0 .. w.n - 1 : new.cells[w.addr + k] =
            IF new.big = 1 THEN w.val[w.n - k] ELSE w.val[k + 1]
      BY <1>2, <1>3, <2>1
    <2>3. QED
      BY <2>2 DEF Layout, w
  <1>5. QED
    BY <1>0, <1>2, <1>3, <1>4 DEF Stores

\* memory_write_half stores two bytes in the order of the memory.
LEMMA WriteHalfStores ==
  ASSUME NEW m \in Allocated, NEW a \in Nat, NEW v \in Half, Mapped(m, a, 2)
  PROVE  Stores(m, memory_write_half(m, a, v), a, 2, v)
  <1> DEFINE new == memory_write_half(m, a, v)
  <1> DEFINE D == 0 .. Size + SlackBytes - 1
  <1> DEFINE c == IF m.big = 1 THEN [m.cells EXCEPT ![a] = v[2], ![a + 1] = v[1]]
                  ELSE [m.cells EXCEPT ![a] = v[1], ![a + 1] = v[2]]
  <1>0. /\ m.cells \in [D -> Byte]
        /\ m.big \in {0, 1}
        /\ \A k \in 0 .. 1 : a + k \in D
    BY SizeAssumption, SlackAssumption DEF Allocated, Mapped
  <1>1. \A k \in 1 .. 2 : v[k] \in Byte
    BY DEF Half
  <1>2. /\ c \in [D -> Byte]
        /\ \A k \in 0 .. 1 :
             c[a + k] = IF m.big = 1 THEN v[2 - k] ELSE v[k + 1]
        /\ \A b \in D \ (a .. a + 2 - 1) : c[b] = m.cells[b]
    <2> HIDE DEF D
    <2>1. a \in D /\ a + 1 \in D
      BY <1>0
    <2>2. c \in [D -> Byte]
      BY <1>0, <1>1, <2>1
    <2>3. \A k \in 0 .. 1 :
            c[a + k] = IF m.big = 1 THEN v[2 - k] ELSE v[k + 1]
      BY <1>0, <2>1
    <2>4. \A b \in D \ (a .. a + 2 - 1) : c[b] = m.cells[b]
      BY <1>0, <2>1
    <2>5. QED
      BY <2>2, <2>3, <2>4
  <1>3. new \in Allocated /\ new.big = m.big /\ new.cells = c
    BY <1>2, PutCells DEF memory_write_half
  <1>4. Layout(new, WriteOf(a, 2, v))
    <2> DEFINE w == WriteOf(a, 2, v)
    <2>1. w.addr = a /\ w.n = 2 /\ w.val = v
      BY DEF WriteOf
    <2> HIDE DEF w, new, c
    <2>2. \A k \in 0 .. w.n - 1 : new.cells[w.addr + k] =
            IF new.big = 1 THEN w.val[w.n - k] ELSE w.val[k + 1]
      BY <1>2, <1>3, <2>1
    <2>3. QED
      BY <2>2 DEF Layout, w
  <1>5. QED
    BY <1>0, <1>2, <1>3, <1>4 DEF Stores

\* memory_write_word stores four bytes in the order of the memory.
LEMMA WriteWordStores ==
  ASSUME NEW m \in Allocated, NEW a \in Nat, NEW v \in Quad, Mapped(m, a, 4)
  PROVE  Stores(m, memory_write_word(m, a, v), a, 4, v)
  <1> DEFINE new == memory_write_word(m, a, v)
  <1> DEFINE D == 0 .. Size + SlackBytes - 1
  <1> DEFINE c == IF m.big = 1
       THEN [m.cells EXCEPT ![a] = v[4], ![a + 1] = v[3],
                            ![a + 2] = v[2], ![a + 3] = v[1]]
       ELSE [m.cells EXCEPT ![a] = v[1], ![a + 1] = v[2],
                            ![a + 2] = v[3], ![a + 3] = v[4]]
  <1>0. /\ m.cells \in [D -> Byte]
        /\ m.big \in {0, 1}
        /\ \A k \in 0 .. 3 : a + k \in D
    BY SizeAssumption, SlackAssumption DEF Allocated, Mapped
  <1>1. \A k \in 1 .. 4 : v[k] \in Byte
    BY DEF Quad
  <1>2. /\ c \in [D -> Byte]
        /\ \A k \in 0 .. 3 :
             c[a + k] = IF m.big = 1 THEN v[4 - k] ELSE v[k + 1]
        /\ \A b \in D \ (a .. a + 4 - 1) : c[b] = m.cells[b]
    <2> HIDE DEF D
    <2>1. a \in D /\ a + 1 \in D /\ a + 2 \in D /\ a + 3 \in D
      BY <1>0
    <2>2. c \in [D -> Byte]
      BY <1>0, <1>1, <2>1
    <2>3. \A k \in 0 .. 3 :
            c[a + k] = IF m.big = 1 THEN v[4 - k] ELSE v[k + 1]
      BY <1>0, <2>1
    <2>4. \A b \in D \ (a .. a + 4 - 1) : c[b] = m.cells[b]
      BY <1>0, <2>1
    <2>5. QED
      BY <2>2, <2>3, <2>4
  <1>3. new \in Allocated /\ new.big = m.big /\ new.cells = c
    BY <1>2, PutCells DEF memory_write_word
  <1>4. Layout(new, WriteOf(a, 4, v))
    <2> DEFINE w == WriteOf(a, 4, v)
    <2>1. w.addr = a /\ w.n = 4 /\ w.val = v
      BY DEF WriteOf
    <2> HIDE DEF w, new, c
    <2>2. \A k \in 0 .. w.n - 1 : new.cells[w.addr + k] =
            IF new.big = 1 THEN w.val[w.n - k] ELSE w.val[k + 1]
      BY <1>2, <1>3, <2>1
    <2>3. QED
      BY <2>2 DEF Layout, w
  <1>5. QED
    BY <1>0, <1>2, <1>3, <1>4 DEF Stores

-----------------------------------------------------------------------------
\* A write leaves alone the live writes it does not overlap.
LEMMA StoresKeeps ==
  ASSUME NEW m \in Allocated, NEW new, NEW a \in Nat, NEW n \in {1, 2, 4},
         NEW v, Stores(m, new, a, n, v),
         NEW w \in Writes, ~Overlap(w, a, n), Mapped(m, w.addr, w.n),
         Layout(m, w)
  PROVE  Mapped(new, w.addr, w.n) /\ Layout(new, w)
  <1>1. /\ w.addr \in Nat
        /\ w.n \in {1, 2, 4}
    BY DEF Writes
  <1>2. DOMAIN new.cells = DOMAIN m.cells
    BY DEF Stores, Allocated
  <1>3. Mapped(new, w.addr, w.n)
    BY <1>2 DEF Mapped
  <1>4. ASSUME NEW k \in 0 .. w.n - 1
        PROVE  w.addr + k \in DOMAIN m.cells \ (a .. a + n - 1)
    BY <1>1 DEF Overlap, Mapped
  <1>5. \A k \in 0 .. w.n - 1 : new.cells[w.addr + k] = m.cells[w.addr + k]
    BY <1>4 DEF Stores
  <1>6. Layout(new, w)
    BY <1>5 DEF Layout, Stores
  <1>7. QED
    BY <1>3, <1>6

\* Every int an accessor returns is four bytes.
LEMMA ReadTypes ==
  ASSUME NEW m \in Allocated \cup Failed, NEW a \in Nat
  PROVE  /\ ~ReadFaults(m, a, 1) => memory_read_byte(m, a) \in Quad
         /\ ~ReadFaults(m, a, 2) => memory_read_half(m, a) \in Quad
         /\ ~ReadFaults(m, a, 4) => memory_read_word(m, a) \in Quad
  <1>1. 0 \in Byte /\ ByteMod - 1 \in Byte
    BY ByteAssumption DEF Byte
  <1>2. MinusOne \in Quad
    BY <1>1 DEF MinusOne, Quad
  <1>3. \A w, x, y, z \in Byte : <<w, x, y, z>> \in Quad
    BY DEF Quad
  <1>4. ASSUME NEW n \in {1, 2, 4}, Mapped(m, a, n)
        PROVE  \A k \in 0 .. n - 1 : m.cells[a + k] \in Byte
    <2>1. m \in Allocated /\ DOMAIN m.cells = 0 .. Size + SlackBytes - 1
      BY <1>4, MappedAllocated
    <2>2. \A k \in 0 .. n - 1 : a + k \in 0 .. Size + SlackBytes - 1
      <3>1. \A k \in 0 .. n - 1 : a + k \in a .. a + n - 1
        OBVIOUS
      <3>2. a .. a + n - 1 \subseteq 0 .. Size + SlackBytes - 1
        BY <1>4, <2>1 DEF Mapped
      <3>3. QED
        BY <3>1, <3>2
    <2>3. m.cells \in [0 .. Size + SlackBytes - 1 -> Byte]
      BY <2>1 DEF Allocated
    <2>4. QED
      BY <2>2, <2>3
  <1>5. ASSUME ~ReadFaults(m, a, 1) PROVE memory_read_byte(m, a) \in Quad
    <2>1. CASE Accepts(m, a)
      <3>1. m.cells[a] \in Byte
        BY <1>4, <1>5, <2>1 DEF ReadFaults
      <3>2. QED
        BY <1>1, <1>3, <2>1, <3>1 DEF memory_read_byte, ByteAt
    <2>2. CASE ~Accepts(m, a)
      BY <1>2, <2>2 DEF memory_read_byte
    <2>3. QED
      BY <2>1, <2>2
  <1>6. ASSUME ~ReadFaults(m, a, 2) PROVE memory_read_half(m, a) \in Quad
    <2>1. CASE Accepts(m, a)
      <3>1. m.cells[a] \in Byte /\ m.cells[a + 1] \in Byte
        BY <1>4, <1>6, <2>1 DEF ReadFaults
      <3>2. HalfAt(m, a)[1] \in Byte /\ HalfAt(m, a)[2] \in Byte
        BY <3>1 DEF HalfAt
      <3>3. QED
        BY <1>1, <1>3, <2>1, <3>2 DEF memory_read_half
    <2>2. CASE ~Accepts(m, a)
      BY <1>2, <2>2 DEF memory_read_half
    <2>3. QED
      BY <2>1, <2>2
  <1>7. ASSUME ~ReadFaults(m, a, 4) PROVE memory_read_word(m, a) \in Quad
    <2>1. CASE Accepts(m, a)
      <3>1. /\ m.cells[a] \in Byte /\ m.cells[a + 1] \in Byte
            /\ m.cells[a + 2] \in Byte /\ m.cells[a + 3] \in Byte
        BY <1>4, <1>7, <2>1 DEF ReadFaults
      <3>2. QED
        BY <1>3, <2>1, <3>1 DEF memory_read_word, WordAt
    <2>2. CASE ~Accepts(m, a)
      BY <1>2, <2>2 DEF memory_read_word
    <2>3. QED
      BY <2>1, <2>2
  <1>8. QED
    BY <1>5, <1>6, <1>7

-----------------------------------------------------------------------------
\* The inductive invariant: the types, the live writes are mapped (so that a
\* later write outside the mapping cannot be one of them), and their layout.
MemInv == TypeOK /\ LiveMapped /\ EndianLayout

\* memory_create establishes it.
LEMMA InitMemInv == Init => MemInv
  <1> SUFFICES ASSUME Init PROVE MemInv
    OBVIOUS
  <1>1. mem \in Allocated \cup Failed
    <2>1. ASSUME NEW big \in {0, 1}, NEW fill \in Byte
          PROVE  memory_create(Size, big, fill) \in Allocated
      BY SizeAssumption, SlackAssumption DEF memory_create, Allocated
    <2>2. ASSUME NEW big \in {0, 1}
          PROVE  memory_create_failed(big) \in Failed
      BY DEF memory_create_failed, Failed
    <2>3. QED
      BY <2>1, <2>2 DEF Init
  <1>2. status \in Quad
    BY ByteAssumption DEF Init, Zero, Quad, Byte
  <1>3. QED
    BY <1>1, <1>2 DEF Init, MemInv, TypeOK, LiveMapped, EndianLayout

\* A write that stores its bytes preserves it.
LEMMA WriteMemInv ==
  ASSUME MemInv, NEW a \in Address, NEW n \in {1, 2, 4}, NEW v, NEW new,
         WriteOf(a, n, v) \in Writes,
         Mapped(mem, a, n) => Stores(mem, new, a, n, v),
         Write(new, a, n, v)
  PROVE  MemInv'
  <1>1. a \in Nat
    BY SizeAssumption, SlackAssumption DEF Address
  <1>2. CASE WriteFaults(mem, a, n)
    BY <1>2 DEF Write, MemInv, TypeOK, LiveMapped, EndianLayout
  <1>3. CASE ~WriteFaults(mem, a, n)
    <2>1. mem \in Allocated /\ Mapped(mem, a, n)
      BY <1>1, <1>3, MappedAllocated DEF WriteFaults, MemInv, TypeOK
    <2>2. /\ mem' = new
          /\ Stores(mem, new, a, n, v)
          /\ live' = {w \in live : ~Overlap(w, a, n)} \cup {WriteOf(a, n, v)}
      BY <1>3, <2>1 DEF Write
    <2>3. TypeOK'
      <3>1. mem' \in Allocated
        BY <2>2 DEF Stores
      <3>2. status' \in Quad
        BY <1>3, ByteAssumption DEF Write, Zero, Quad, Byte
      <3>3. \A w \in live' : w \in Writes
        BY <2>2 DEF MemInv, TypeOK
      <3>4. fault' \in BOOLEAN
        BY <1>3 DEF Write, MemInv, TypeOK
      <3>5. QED
        BY <3>1, <3>2, <3>3, <3>4 DEF TypeOK
    <2>4. ASSUME NEW w \in live'
          PROVE  Mapped(new, w.addr, w.n) /\ Layout(new, w)
      <3>1. CASE w = WriteOf(a, n, v)
        <4>1. DOMAIN new.cells = DOMAIN mem.cells
          BY <2>1, <2>2 DEF Stores, Allocated
        <4>2. QED
          BY <2>1, <2>2, <3>1, <4>1 DEF Stores, WriteOf, Mapped
      <3>2. CASE w \in live /\ ~Overlap(w, a, n)
        <4>1. /\ w \in Writes
              /\ Mapped(mem, w.addr, w.n)
              /\ Layout(mem, w)
          BY <3>2 DEF MemInv, TypeOK, LiveMapped, EndianLayout
        <4>2. QED
          BY <1>1, <2>1, <2>2, <3>2, <4>1, StoresKeeps
      <3>3. QED
        BY <2>2, <3>1, <3>2
    <2>5. QED
      BY <2>2, <2>3, <2>4 DEF MemInv, LiveMapped, EndianLayout
  <1>4. QED
    BY <1>2, <1>3

\* A read whose result is four bytes preserves it.
LEMMA ReadMemInv ==
  ASSUME MemInv, NEW a \in Address, NEW n \in {1, 2, 4}, NEW ret,
         ~ReadFaults(mem, a, n) => ret \in Quad,
         Read(ret, a, n)
  PROVE  MemInv'
  <1>1. fault' \in BOOLEAN
    BY DEF Read, ReadFaults
  <1>2. status' \in Quad
    BY DEF Read, MemInv, TypeOK
  <1>3. QED
    BY <1>1, <1>2 DEF Read, MemInv, TypeOK, LiveMapped, EndianLayout

\* Every access preserves it.
LEMMA NextMemInv == MemInv /\ [Next]_vars => MemInv'
  <1> SUFFICES ASSUME MemInv, [Next]_vars PROVE MemInv'
    OBVIOUS
  <1>0. mem \in Allocated \cup Failed
    BY DEF MemInv, TypeOK
  <1>n. \A a \in Address : a \in Nat
    BY SizeAssumption, SlackAssumption DEF Address
  <1>1. CASE WriteByte
    <2>1. PICK a \in Address, v \in Single :
            Write(memory_write_byte(mem, a, v[1]), a, 1, v)
      BY <1>1 DEF WriteByte
    <2>2. WriteOf(a, 1, v) \in Writes
      BY <1>n DEF WriteOf, Writes
    <2>3. Mapped(mem, a, 1) =>
            Stores(mem, memory_write_byte(mem, a, v[1]), a, 1, v)
      BY <1>0, <1>n, MappedAllocated, WriteByteStores
    <2>4. QED
      BY <2>1, <2>2, <2>3, WriteMemInv
  <1>2. CASE WriteHalf
    <2>1. PICK a \in Address, v \in Half :
            Write(memory_write_half(mem, a, v), a, 2, v)
      BY <1>2 DEF WriteHalf
    <2>2. WriteOf(a, 2, v) \in Writes
      BY <1>n DEF WriteOf, Writes
    <2>3. Mapped(mem, a, 2) =>
            Stores(mem, memory_write_half(mem, a, v), a, 2, v)
      BY <1>0, <1>n, MappedAllocated, WriteHalfStores
    <2>4. QED
      BY <2>1, <2>2, <2>3, WriteMemInv
  <1>3. CASE WriteWord
    <2>1. PICK a \in Address, v \in Quad :
            Write(memory_write_word(mem, a, v), a, 4, v)
      BY <1>3 DEF WriteWord
    <2>2. WriteOf(a, 4, v) \in Writes
      BY <1>n DEF WriteOf, Writes
    <2>3. Mapped(mem, a, 4) =>
            Stores(mem, memory_write_word(mem, a, v), a, 4, v)
      BY <1>0, <1>n, MappedAllocated, WriteWordStores
    <2>4. QED
      BY <2>1, <2>2, <2>3, WriteMemInv
  <1>4. CASE ReadByte
    <2>1. PICK a \in Address : Read(memory_read_byte(mem, a), a, 1)
      BY <1>4 DEF ReadByte
    <2>2. QED
      BY <1>0, <1>n, <2>1, ReadTypes, ReadMemInv
  <1>5. CASE ReadHalf
    <2>1. PICK a \in Address : Read(memory_read_half(mem, a), a, 2)
      BY <1>5 DEF ReadHalf
    <2>2. QED
      BY <1>0, <1>n, <2>1, ReadTypes, ReadMemInv
  <1>6. CASE ReadWord
    <2>1. PICK a \in Address : Read(memory_read_word(mem, a), a, 4)
      BY <1>6 DEF ReadWord
    <2>2. QED
      BY <1>0, <1>n, <2>1, ReadTypes, ReadMemInv
  <1>7. CASE UNCHANGED vars
    BY <1>7 DEF vars, MemInv, TypeOK, LiveMapped, EndianLayout
  <1>8. QED
    BY <1>1, <1>2, <1>3, <1>4, <1>5, <1>6, <1>7 DEF Next

-----------------------------------------------------------------------------
\* A write laid out in the memory's order reads back as it was written:
\* memory_read_* puts the bytes together in the order memory_write_* took
\* them apart.
LEMMA LayoutReadsBack ==
  ASSUME NEW m \in Allocated \cup Failed, NEW w \in Writes,
         Accepts(m, w.addr), Layout(m, w)
  PROVE  \A k \in 1 .. w.n : ReadBack(m, w)[k] = w.val[k]
  <1>0. m.big \in {0, 1} /\ w.addr \in Nat
    BY DEF Allocated, Failed, Writes
  <1>1. CASE w.n = 1
    <2>1. m.cells[w.addr] = w.val[1]
      BY <1>0, <1>1 DEF Layout
    <2>2. QED
      BY <1>1, <2>1 DEF ReadBack, memory_read_byte, ByteAt
  <1>2. CASE w.n = 2
    <2>1. \A k \in 0 .. 1 : m.cells[w.addr + k] =
            IF m.big = 1 THEN w.val[2 - k] ELSE w.val[k + 1]
      BY <1>2 DEF Layout
    <2>2. HalfAt(m, w.addr)[1] = w.val[1] /\ HalfAt(m, w.addr)[2] = w.val[2]
      BY <1>0, <2>1 DEF HalfAt
    <2>3. ReadBack(m, w) = <<HalfAt(m, w.addr)[1], HalfAt(m, w.addr)[2], 0, 0>>
      BY <1>2 DEF ReadBack, memory_read_half
    <2>4. QED
      BY <1>2, <2>2, <2>3
  <1>3. CASE w.n = 4
    <2>1. \A k \in 0 .. 3 : m.cells[w.addr + k] =
            IF m.big = 1 THEN w.val[4 - k] ELSE w.val[k + 1]
      BY <1>3 DEF Layout
    <2>2. ReadBack(m, w) = WordAt(m, w.addr)
      BY <1>3 DEF ReadBack, memory_read_word
    <2>3. \A k \in 1 .. 4 : WordAt(m, w.addr)[k] = w.val[k]
      BY <1>0, <2>1 DEF WordAt
    <2>4. QED
      BY <1>3, <2>2, <2>3
  <1>4. QED
    BY <1>1, <1>2, <1>3 DEF Writes

\* The types of the memory's state, for every sequence of accesses.
THEOREM MemoryTypeCorrect == Spec => []TypeOK
  <1>1. MemInv => TypeOK
    BY DEF MemInv
  <1>2. QED
    BY <1>1, InitMemInv, NextMemInv, PTL DEF Spec

\* memory_write_* keeps every half and word in the order of the memory's
\* endianness, whatever other accesses came in between.
THEOREM LaidOutByEndianness == Spec => []EndianLayout
  <1>1. MemInv => EndianLayout
    BY DEF MemInv
  <1>2. QED
    BY <1>1, InitMemInv, NextMemInv, PTL DEF Spec

\* A value written is read back unchanged until an overlapping write.
THEOREM ReadsBackWrites == Spec => []ReadYourWrites
  <1>1. MemInv => ReadYourWrites
    BY LayoutReadsBack DEF MemInv, TypeOK, EndianLayout, ReadYourWrites
  <1>2. QED
    BY <1>1, InitMemInv, NextMemInv, PTL DEF Spec

\* With four mapped bytes after the block no read that its guard accepts
\* faults; the bound is the one the `<=' of the guards needs.
THEOREM AcceptedReadsSafe == Spec => []AcceptedReadsAreMapped
  <1>1. ASSUME TypeOK, SlackBytes >= 4, mem.size # 0,
               NEW a \in Address, NEW n \in {1, 2, 4}, Accepts(mem, a)
        PROVE  Mapped(mem, a, n)
    <2>1. mem \in Allocated
      BY <1>1 DEF TypeOK, Failed
    <2>2. mem.size = Size /\ DOMAIN mem.cells = 0 .. Size + SlackBytes - 1
      BY <2>1 DEF Allocated
    <2>3. QED
      BY <1>1, <2>2, SizeAssumption, SlackAssumption
      DEF Accepts, Mapped, Address
  <1>2. TypeOK => AcceptedReadsAreMapped
    BY <1>1 DEF AcceptedReadsAreMapped, ReadFaults
  <1>3. QED
    BY <1>2, MemoryTypeCorrect, PTL

\* The two orders mirror each other over the same bytes.
LEMMA MirroredReads ==
  ASSUME NEW m, NEW o, m.big \in {0, 1}, o.big = 1 - m.big, o.cells = m.cells, NEW a
  PROVE  /\ \A k \in 1 .. 2 : HalfAt(o, a)[k] = HalfAt(m, a)[3 - k]
         /\ \A k \in 1 .. 4 : WordAt(o, a)[k] = WordAt(m, a)[5 - k]
  BY DEF HalfAt, WordAt

\* The same bytes in a memory of the other order read as the mirrored value,
\* for every block and whatever was written to it, at any address.
THEOREM OrdersMirror == Spec => []EndianMirror
  <1>1. ASSUME TypeOK
        PROVE  EndianMirror
    <2> DEFINE other == [mem EXCEPT !.big = 1 - @]
    <2>1. /\ mem.big \in {0, 1} /\ other.big = 1 - mem.big
          /\ other.cells = mem.cells
      <3>1. CASE mem \in Allocated
        BY <3>1 DEF Allocated
      <3>2. CASE mem \in Failed
        BY <3>2 DEF Failed
      <3>3. QED
        BY <1>1, <3>1, <3>2 DEF TypeOK
    <2> HIDE DEF other
    <2>2. \A a \in 0 .. mem.size :
            /\ \A k \in 1 .. 2 : HalfAt(other, a)[k] = HalfAt(mem, a)[3 - k]
            /\ \A k \in 1 .. 4 : WordAt(other, a)[k] = WordAt(mem, a)[5 - k]
      BY <2>1, MirroredReads
    <2>3. QED
      BY <2>2, Zenon DEF EndianMirror, other
  <1>2. QED
    BY <1>1, MemoryTypeCorrect, PTL
=============================================================================

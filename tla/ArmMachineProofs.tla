-------------------------- MODULE ArmMachineProofs --------------------------
(***************************************************************************)
(* The running processor: what an instruction computes, where the next one *)
(* is fetched and what it leaves alone, for every program, every memory,   *)
(* both byte orders and bytes of four to eight bits.                       *)
(***************************************************************************)
EXTENDS ArmMachine, CoreProofs, FiniteSetTheorems, TLAPS

\* The core is one of ArmCore.
Orders == {0, 1}
IsCore(p) == \E b, n : b \in Orders /\ n \in Nat /\ Shape(p, b, n)

LEMMA InitIsCore == Init => IsCore(arm)
  <1> SUFFICES ASSUME Init
               PROVE  IsCore(arm)
    OBVIOUS
  <1>1. PICK p \in InitialCores : arm = p
    BY DEF Init
  <1>2. /\ p = Core(p.reg, Block(p.mem.big, p.mem.size, p.mem.cells), FALSE)
        /\ p.reg \in Words /\ p.mem.cells \in Cells(p.mem.size)
        /\ p.mem.big \in Orders /\ p.mem.size \in Nat
    BY CoresAssumption, Zenon DEF Core, Block, Words, Cells, Orders
  <1>3. Shape(p, p.mem.big, p.mem.size)
    BY <1>2, Zenon DEF Shape
  <1>4. QED
    BY <1>1, <1>2, <1>3, Zenon DEF IsCore

LEMMA NextIsCore ==
  ASSUME IsCore(arm), [Next]_vars
  PROVE  IsCore(arm')
  <1>1. PICK b, n : b \in Orders /\ n \in Nat /\ Shape(arm, b, n)
    BY Zenon DEF IsCore
  <1>2. ASSUME NEW q, q \in arm_step(arm) \/ \E e : q = arm_exception(arm, e)
        PROVE  IsCore(q)
    <2>1. Shape(q, b, n)
      BY <1>1, <1>2, StepKeeps, ExceptionKeeps
    <2>2. QED
      BY <1>1, <2>1, Zenon DEF IsCore
  <1>3. CASE Step
    <2>1. arm' \in arm_step(arm)
      BY <1>3, Zenon DEF Step
    <2>2. QED
      BY <1>2, <2>1
  <1>4. CASE \E e \in Exceptions : Exception(e)
    <2>1. \E e : arm' = arm_exception(arm, e)
      BY <1>4, Zenon DEF Exception
    <2>2. QED
      BY <1>2, <2>1, Zenon
  <1>5. CASE UNCHANGED vars
    BY <1>5, Zenon DEF vars
  <1>6. QED
    BY <1>3, <1>4, <1>5 DEF Next

TypeInv == /\ IsCore(arm)
           /\ last \in {"init", "step", "reset", "exception"}
           /\ \A a \in DOMAIN stored : stored[a] \in Word

LEMMA NextTypeInv == TypeInv /\ [Next]_vars => TypeInv'
  <1> SUFFICES ASSUME TypeInv, [Next]_vars
               PROVE  TypeInv'
    OBVIOUS
  <1>1. IsCore(arm')
    BY NextIsCore DEF TypeInv
  <1>2. last' \in {"init", "step", "reset", "exception"}
    BY DEF TypeInv, Next, Step, Exception, vars
  <1>3. \A a \in DOMAIN stored' : stored'[a] \in Word
    <2>1. CASE Step
      <3> DEFINE i == Instruction
                 v == arm_read_register(arm_fetch(arm), i.rd)
      <3>1. v \in Word
        <4>1. PICK b, n : b \in Orders /\ n \in Nat /\ Shape(arm, b, n)
          BY Zenon DEF IsCore, TypeInv
        <4>2. Shape(arm_fetch(arm), b, n) /\ i.rd \in Reg
          BY <4>1, FetchKeeps, DecodeTyped, FieldsTyped DEF Instruction
        <4>3. QED
          BY <4>2, RegisterIsWord
      <3>2. PICK q : stored' = StoredAfter(i, q)
        BY <2>1 DEF Step
      <3> DEFINE a == arm_load_store(i)
                 kept == Standing(a, StoreWidth(i))
      <3>3. kept \subseteq DOMAIN stored
        BY DEF Standing
      <3>4. \/ stored' = stored
            \/ stored' = [b \in kept |-> stored[b]]
            \/ stored' = [b \in kept \cup {a} |-> IF b = a THEN v ELSE stored[b]]
        BY <3>2, Zenon DEF StoredAfter
      <3> HIDE DEF v, kept, i, a
      <3>5. QED
        BY <3>1, <3>3, <3>4 DEF TypeInv
    <2>2. CASE UNCHANGED stored
      BY <2>2 DEF TypeInv
    <2>3. QED
      BY <2>1, <2>2 DEF Next, Exception, vars
  <1>4. QED
    BY <1>1, <1>2, <1>3 DEF TypeInv

\* Whatever program runs and whatever exceptions arrive, every register and
\* every word STR has stored stays a 32-bit word, every cell of the memory a
\* byte, and no cell comes or goes: nothing an instruction computes (shifts,
\* rotations, sums, loads and branch targets) leaves the width of the word.
THEOREM MachineTypeCorrect == Spec => []TypeOK
  <1>1. Init => TypeInv
    BY InitIsCore DEF Init, TypeInv
  <1>2. TypeInv => TypeOK
    <2> SUFFICES ASSUME TypeInv
                 PROVE  TypeOK
      OBVIOUS
    <2>1. PICK b, n : b \in Orders /\ n \in Nat /\ Shape(arm, b, n)
      BY Zenon DEF IsCore, TypeInv
    <2>2. /\ arm.reg \in Words /\ arm.mem.big \in {0, 1}
          /\ arm.mem.cells \in Cells(arm.mem.size)
      BY <2>1, ShapeParts DEF Orders
    <2>3. arm.fault \in BOOLEAN
      BY <2>1, ShapeParts, Zenon
    <2>4. QED
      BY <2>2, <2>3, Zenon DEF TypeOK, TypeInv, Words, Cells
  <1>3. QED
    BY <1>1, <1>2, NextTypeInv, PTL DEF Spec

-----------------------------------------------------------------------------
(* What an instruction leaves alone                                        *)

\* One instruction: the fetch, and then what is dispatched, if anything.
LEMMA StepCases ==
  ASSUME NEW p, NEW q \in arm_step(p)
  PROVE  LET i == Decode(FetchedWord(p))
             f == arm_fetch(p)
         IN  \/ q = f
             \/ /\ ~f.fault
                /\ \/ i.cls = 0 /\ ~IsMiscellaneous(i) /\ q \in DataProcessing(f, i)
                   \/ i.cls = 1 /\ q = loadStoreByteOrWord(f, arm_load_store(i), i)
                   \/ i.cls = 2 /\ i.b25 = 1 /\ q = arm_branch(f, i)
  <1> DEFINE i == Decode(FetchedWord(p))
             f == arm_fetch(p)
  <1>1. q = f \/ (~f.fault /\ q \in Dispatch(f, i))
    BY Zenon DEF arm_step, arm_execute_instruction
  <1> HIDE DEF f, i
  <1>2. q \in Dispatch(f, i) =>
          \/ i.cls = 0 /\ ~IsMiscellaneous(i) /\ q \in DataProcessing(f, i)
          \/ i.cls = 1 /\ q = loadStoreByteOrWord(f, arm_load_store(i), i)
          \/ i.cls = 2 /\ i.b25 = 1 /\ q = arm_branch(f, i)
          \/ q = f
    BY Zenon DEF Dispatch
  <1>3. QED
    BY <1>1, <1>2, Zenon DEF f, i

\* Between two cores, only the registers of S and the bytes of T differ.
Same(p, q, S, T) ==
  /\ \A r \in Reg \ S : q.reg[r] = p.reg[r]
  /\ \A a \in DOMAIN p.mem.cells \ T : q.mem.cells[a] = p.mem.cells[a]

LEMMA SameRegisterWrite ==
  ASSUME NEW p, NEW b, NEW n, Shape(p, b, n), NEW r, NEW v
  PROVE  Same(p, arm_write_register(p, r, v), {r}, {})
         /\ arm_write_register(p, r, v).mem = p.mem
  <1>1. p = Core(p.reg, p.mem, p.fault) /\ p.reg \in Words
    BY ShapeParts
  <1>2. arm_write_register(p, r, v) = Core([p.reg EXCEPT ![r] = v], p.mem, p.fault)
    BY <1>1, RegisterUpdate
  <1>3. /\ arm_write_register(p, r, v).reg = [p.reg EXCEPT ![r] = v]
        /\ arm_write_register(p, r, v).mem = p.mem
    BY <1>2, CoreFields
  <1>4. QED
    BY <1>1, <1>3 DEF Same, Words

LEMMA SameCrash ==
  ASSUME NEW p, NEW b, NEW n, Shape(p, b, n)
  PROVE  Crash(p).reg = p.reg /\ Crash(p).mem = p.mem /\ Same(p, Crash(p), {}, {})
  <1>1. p = Core(p.reg, p.mem, p.fault)
    BY ShapeParts
  <1>2. Crash(p) = Core(p.reg, p.mem, TRUE)
    BY <1>1, CrashUpdate, Zenon
  <1>3. Crash(p).reg = p.reg /\ Crash(p).mem = p.mem
    <2>1. \A v : Core(p.reg, p.mem, v).reg = p.reg /\ Core(p.reg, p.mem, v).mem = p.mem
      BY CoreFields
    <2>2. QED
      BY <1>2, <2>1, Zenon
  <1>4. QED
    BY <1>3, Zenon DEF Same

LEMMA SameMem ==
  ASSUME NEW p, NEW b, NEW n, Shape(p, b, n), NEW c
  PROVE  LET q == WithMem(p, Put(p.mem, c))
         IN  q.reg = p.reg /\ q.mem = Block(b, n, c) /\ q.mem.cells = c
  <1>1. p = Core(p.reg, p.mem, p.fault) /\ p.mem = Block(b, n, p.mem.cells)
    BY ShapeParts
  <1>2. Put(p.mem, c) = Block(b, n, c)
    BY <1>1, BlockUpdates
  <1>3. WithMem(p, Block(b, n, c)) = Core(p.reg, Block(b, n, c), p.fault)
    BY <1>1, MemUpdate
  <1>4. QED
    BY <1>2, <1>3, CoreFields, BlockFields

\* The bytes a store writes.
Stored(a, k) == {x \in Int : x - a \in 0 .. k - 1}

LEMMA SameStore ==
  ASSUME NEW p, NEW b, NEW n, Shape(p, b, n), NEW a \in Word, NEW v
  PROVE  /\ Same(p, arm_write_byte(p, a, v), {}, Stored(a, 1))
         /\ Same(p, arm_write_word(p, a, v), {}, Stored(a, 4))
  <1> DEFINE c == p.mem.cells
  <1>0. c \in Cells(n) /\ a \in Nat
    BY ShapeParts DEF Word
  <1>1. Same(p, arm_write_byte(p, a, v), {}, Stored(a, 1))
    <2> DEFINE d == [c EXCEPT ![a] = v]
    <2>1. arm_write_byte(p, a, v) =
            IF WriteFaults(p.mem, a, 1) THEN Crash(p) ELSE WithMem(p, Put(p.mem, d))
      BY DEF arm_write_byte, memory_write_byte, WithMem
    <2>2. \A x \in DOMAIN c \ Stored(a, 1) : d[x] = c[x]
      <3>1. a \in Stored(a, 1)
        BY <1>0 DEF Stored
      <3> HIDE DEF c
      <3>2. QED
        BY <3>1
    <2> HIDE DEF d
    <2>3. Same(p, WithMem(p, Put(p.mem, d)), {}, Stored(a, 1))
      BY <2>2, SameMem DEF Same
    <2>4. Same(p, Crash(p), {}, Stored(a, 1))
      BY SameCrash, Zenon DEF Same
    <2>5. QED
      BY <2>1, <2>3, <2>4
  <1>2. Same(p, arm_write_word(p, a, v), {}, Stored(a, 4))
    <2> DEFINE d == BigCells(c, a, BytesOf(v))
               e == LittleCells(c, a, BytesOf(v))
               g == IF p.mem.big = 1 THEN d ELSE e
    <2>1. arm_write_word(p, a, v) =
            IF WriteFaults(p.mem, a, 4) THEN Crash(p) ELSE WithMem(p, Put(p.mem, g))
      BY Zenon DEF arm_write_word, memory_write_word, WithMem, BigCells, LittleCells
    <2>2. ASSUME NEW x \in DOMAIN c \ Stored(a, 4)
          PROVE  d[x] = c[x] /\ e[x] = c[x]
      <3>1. x # a /\ x # a + 1 /\ x # a + 2 /\ x # a + 3
        BY <1>0 DEF Stored
      <3> HIDE DEF c
      <3>2. QED
        BY <3>1 DEF BigCells, LittleCells
    <2>3. \A x \in DOMAIN c \ Stored(a, 4) : g[x] = c[x]
      BY <2>2, Zenon
    <2> HIDE DEF g
    <2>4. Same(p, WithMem(p, Put(p.mem, g)), {}, Stored(a, 4))
      BY <2>3, SameMem DEF Same
    <2>5. Same(p, Crash(p), {}, Stored(a, 4))
      BY SameCrash, Zenon DEF Same
    <2>6. QED
      BY <2>1, <2>4, <2>5
  <1>3. QED
    BY <1>1, <1>2

LEMMA SameTwice ==
  ASSUME NEW p, NEW f, NEW q, NEW S, NEW T, NEW U, f.mem = p.mem,
         Same(p, f, S, {}), Same(f, q, U, T)
  PROVE  Same(p, q, S \cup U, T)
  BY DEF Same

\* The fetch only moves the pc.
LEMMA FetchFrame ==
  ASSUME NEW p, NEW b, NEW n, Shape(p, b, n)
  PROVE  Same(p, arm_fetch(p), {PC}, {}) /\ arm_fetch(p).mem = p.mem
  <1>1. Same(p, Crash(p), {PC}, {}) /\ Crash(p).mem = p.mem
    BY SameCrash, Zenon DEF Same
  <1>2. QED
    BY <1>1, SameRegisterWrite DEF arm_fetch

\* The three kinds of instructions, after the fetch.
LEMMA DataFrame ==
  ASSUME NEW p, NEW b, NEW n, Shape(p, b, n), NEW i, NEW q \in DataProcessing(p, i)
  PROVE  /\ Same(p, q, IF opcode(i) \in Compares THEN {} ELSE {i.rd}, {})
         /\ q.mem = p.mem
  <1>1. CASE opcode(i) \in Compares
    <2>1. q = p
      BY <1>1 DEF DataProcessing, update_flag
    <2>2. QED
      BY <1>1, <2>1 DEF Same
  <1>2. CASE opcode(i) \notin Compares
    <2>1. \E v : q = arm_write_register(p, i.rd, v)
      BY <1>2, SMT DEF DataProcessing, update_flag
    <2>2. QED
      BY <1>2, <2>1, SameRegisterWrite
  <1>3. QED
    BY <1>1, <1>2

LEMMA LoadStoreFrame ==
  ASSUME NEW p, NEW b, NEW n, Shape(p, b, n), NEW a \in Word, NEW i, IsDecoded(i)
  PROVE  Same(p, loadStoreByteOrWord(p, a, i),
              IF i.b20 = 1 THEN {i.rd} ELSE {},
              IF i.b20 = 0 THEN Stored(a, StoreWidth(i)) ELSE {})
  <1> DEFINE q == loadStoreByteOrWord(p, a, i)
  <1>0. i.b20 \in {0, 1} /\ i.b22 \in {0, 1}
    BY Zenon DEF IsDecoded, Bit
  <1>1. CASE i.b20 = 0 /\ i.b22 = 0
    <2>1. q = arm_write_word(p, a, arm_read_register(p, i.rd)) /\ StoreWidth(i) = 4
      BY <1>1 DEF loadStoreByteOrWord, StoreWidth
    <2>2. QED
      BY <1>1, <2>1, SameStore
  <1>2. CASE i.b20 = 0 /\ i.b22 = 1
    <2>1. q = arm_write_byte(p, a, arm_read_register(p, i.rd) % ByteMod)
          /\ StoreWidth(i) = 1
      BY <1>2 DEF loadStoreByteOrWord, StoreWidth
    <2>2. QED
      BY <1>2, <2>1, SameStore
  <1>3. CASE i.b20 = 1
    <2>1. q = Crash(p) \/ \E v : q = arm_write_register(p, i.rd, v)
      BY <1>0, <1>3 DEF loadStoreByteOrWord
    <2> HIDE DEF q
    <2>2. Same(p, q, {i.rd}, {})
      <3>1. Same(p, Crash(p), {i.rd}, {})
        BY SameCrash, Zenon DEF Same
      <3>2. QED
        BY <2>1, <3>1, SameRegisterWrite
    <2>3. QED
      BY <1>3, <2>2 DEF q
  <1>4. QED
    BY <1>0, <1>1, <1>2, <1>3

LEMMA BranchFrame ==
  ASSUME NEW p, NEW b, NEW n, Shape(p, b, n), NEW i
  PROVE  /\ Same(p, arm_branch(p, i), IF i.b24 = 1 THEN {PC, LR} ELSE {PC}, {})
         /\ arm_branch(p, i).mem = p.mem
  <1> DEFINE here == arm_read_register(p, PC)
             linked == IF i.b24 = 1 THEN arm_write_register(p, LR, here) ELSE p
             q == arm_write_register(linked, PC, Add(here, BranchOffset(i)))
  <1>1. arm_branch(p, i) = q
    BY DEF arm_branch
  <1>2. here \in Word
    BY RegisterIsWord DEF Reg, PC
  <1> HIDE DEF here
  <1>3. Shape(linked, b, n) /\ linked.mem = p.mem
        /\ Same(p, linked, IF i.b24 = 1 THEN {LR} ELSE {}, {})
    <2>1. CASE i.b24 = 1
      BY <1>2, <2>1, WriteRegisterKeeps, SameRegisterWrite
    <2>2. CASE i.b24 # 1
      BY <2>2 DEF Same
    <2>3. QED
      BY <2>1, <2>2
  <1> HIDE DEF linked
  <1>4. Same(linked, q, {PC}, {}) /\ q.mem = linked.mem
    BY <1>3, SameRegisterWrite
  <1> HIDE DEF q
  <1>5. QED
    BY <1>1, <1>3, <1>4 DEF Same

TouchedRegisters(i) ==
  {r \in Reg : \/ r = PC
               \/ r = i.rd /\ WritesRd(i)
               \/ r = LR /\ IsBranch(i) /\ i.b24 = 1}
TouchedBytes(i) == {a \in Int : /\ IsStore(i)
                                /\ a - arm_load_store(i) \in 0 .. StoreWidth(i) - 1}

LEMMA StepFrameOfCore ==
  ASSUME NEW p, NEW b, NEW n, Shape(p, b, n), NEW q \in arm_step(p)
  PROVE  LET i == Decode(FetchedWord(p))
         IN  Same(p, q, TouchedRegisters(i), TouchedBytes(i))
  <1> DEFINE i == Decode(FetchedWord(p))
             f == arm_fetch(p)
             a == arm_load_store(i)
             S == TouchedRegisters(i)
             T == TouchedBytes(i)
  <1>1. IsDecoded(i) /\ a \in Word /\ Shape(f, b, n)
    BY DecodeTyped, AddressIsWord, FetchKeeps
  <1>2. Same(p, f, {PC}, {}) /\ f.mem = p.mem
    BY FetchFrame
  <1>3. \/ q = f
        \/ i.cls = 0 /\ ~IsMiscellaneous(i) /\ q \in DataProcessing(f, i)
        \/ i.cls = 1 /\ q = loadStoreByteOrWord(f, a, i)
        \/ i.cls = 2 /\ i.b25 = 1 /\ q = arm_branch(f, i)
    BY StepCases, Zenon
  <1> HIDE DEF i, f, a
  <1>4. \A U, V : Same(p, q, U, V) /\ U \cap Reg \subseteq S /\ V \subseteq T => Same(p, q, S, T)
    <2> HIDE DEF S, T
    <2>1. QED
      BY DEF Same
  <1>5. PC \in S /\ S \subseteq Reg
    BY DEF TouchedRegisters, Reg, PC
  <1>6. ASSUME q = f
        PROVE  Same(p, q, S, T)
    <2>1. Same(p, q, {PC}, {})
      BY <1>2, <1>6
    <2> HIDE DEF S, T
    <2>2. QED
      BY <1>4, <1>5, <2>1
  <1>7. ASSUME i.cls = 0 /\ ~IsMiscellaneous(i) /\ q \in DataProcessing(f, i)
        PROVE  Same(p, q, S, T)
    <2> DEFINE U == IF opcode(i) \in Compares THEN {} ELSE {i.rd}
    <2>1. Same(f, q, U, {})
      BY <1>1, <1>7, DataFrame
    <2>2. U \cap Reg \subseteq S
      BY <1>7 DEF TouchedRegisters, WritesRd, IsDataProcessing
    <2> HIDE DEF U, S, T
    <2>3. Same(p, q, {PC} \cup U, {})
      BY <1>2, <2>1, SameTwice
    <2>4. QED
      BY <1>4, <1>5, <2>2, <2>3
  <1>8. ASSUME i.cls = 1 /\ q = loadStoreByteOrWord(f, a, i)
        PROVE  Same(p, q, S, T)
    <2> DEFINE U == IF i.b20 = 1 THEN {i.rd} ELSE {}
               V == IF i.b20 = 0 THEN Stored(a, StoreWidth(i)) ELSE {}
    <2>1. Same(f, q, U, V)
      BY <1>1, <1>8, LoadStoreFrame
    <2>2. U \cap Reg \subseteq S
      BY <1>8 DEF TouchedRegisters, WritesRd, IsLoadStore
    <2>3. V \subseteq T
      BY <1>8 DEF TouchedBytes, IsStore, IsLoadStore, Stored, a
    <2> HIDE DEF U, V, S, T
    <2>4. Same(p, q, {PC} \cup U, V)
      BY <1>2, <2>1, SameTwice
    <2>5. QED
      BY <1>4, <1>5, <2>2, <2>3, <2>4
  <1>9. ASSUME i.cls = 2 /\ i.b25 = 1 /\ q = arm_branch(f, i)
        PROVE  Same(p, q, S, T)
    <2> DEFINE U == IF i.b24 = 1 THEN {PC, LR} ELSE {PC}
    <2>1. Same(f, q, U, {})
      BY <1>1, <1>9, BranchFrame
    <2>2. U \cap Reg \subseteq S
      BY <1>9 DEF TouchedRegisters, IsBranch
    <2> HIDE DEF U, S, T
    <2>3. Same(p, q, {PC} \cup U, {})
      BY <1>2, <2>1, SameTwice
    <2>4. QED
      BY <1>4, <1>5, <2>2, <2>3
  <1>10. QED
    BY <1>3, <1>6, <1>7, <1>8, <1>9, Zenon DEF i

\* What an instruction may touch, whatever it is: rd, the link register of a
\* BL, the pc, and the bytes a store addresses.  No program changes the
\* status registers, and with them the processor mode, or writes memory
\* other than with a store.
THEOREM InstructionsFrame == Spec => StepFrame
  <1> DEFINE A == last' = "step" =>
       LET i == Instruction
       IN  /\ \A r \in Reg : arm'.reg[r] # arm.reg[r] =>
                \/ r = PC
                \/ r = i.rd /\ WritesRd(i)
                \/ r = LR /\ IsBranch(i) /\ i.b24 = 1
           /\ \A a \in DOMAIN arm.mem.cells :
                arm'.mem.cells[a] # arm.mem.cells[a] =>
                  /\ IsStore(i)
                  /\ a - arm_load_store(i) \in 0 .. StoreWidth(i) - 1
  <1>1. ASSUME TypeInv, [Next]_vars
        PROVE  A \/ UNCHANGED vars
    <2>1. CASE Step
      <3>1. PICK b, n : b \in Orders /\ n \in Nat /\ Shape(arm, b, n)
        BY <1>1, Zenon DEF IsCore, TypeInv
      <3>2. arm' \in arm_step(arm)
        BY <2>1, Zenon DEF Step
      <3>3. Same(arm, arm', TouchedRegisters(Instruction), TouchedBytes(Instruction))
        BY <3>1, <3>2, StepFrameOfCore DEF Instruction
      <3>4. DOMAIN arm.mem.cells \subseteq Int
        BY <3>1, ShapeParts, SlackAssumption DEF Cells
      <3>5. QED
        BY <3>3, <3>4 DEF Same, TouchedRegisters, TouchedBytes
    <2>2. CASE \E e \in Exceptions : Exception(e)
      BY <2>2 DEF Exception
    <2>3. QED
      BY <1>1, <2>1, <2>2 DEF Next
  <1>2. Init => TypeInv
    BY InitIsCore DEF Init, TypeInv
  <1>3. ASSUME TypeInv, [Next]_vars
        PROVE  [A]_vars
    BY <1>1, <1>3, Zenon
  <1>4. QED
    BY <1>2, <1>3, NextTypeInv, PTL DEF Spec, StepFrame

-----------------------------------------------------------------------------
(* The outcomes of an instruction                                          *)

Singleton(T) == \E x : T = {x}

LEMMA SingletonSize ==
  ASSUME NEW T, Singleton(T)
  PROVE  ~(Cardinality(T) > 1)
  <1>1. PICK x : T = {x}
    BY DEF Singleton
  <1>2. Cardinality(T) = 1
    BY <1>1, FS_Singleton
  <1>3. QED
    BY <1>2

\* The fetch reads no status register.
LEMMA FetchStatus ==
  ASSUME NEW p, NEW b, NEW n, Shape(p, b, n)
  PROVE  arm_read_cpsr(arm_fetch(p)) = p.reg[CPSR]
  <1>1. CPSR \in Reg \ {PC}
    BY DEF CPSR, PC, Reg
  <1>2. QED
    BY <1>1, FetchFrame DEF Same, arm_read_cpsr

\* When the condition holds, what is dispatched is what happens.
LEMMA StepDispatches ==
  ASSUME NEW p, NEW b, NEW n, Shape(p, b, n)
  PROVE  LET i == Decode(FetchedWord(p))
             f == arm_fetch(p)
         IN  ConditionHolds(p.reg[CPSR], i.cond) =>
               arm_step(p) = IF f.fault THEN {f} ELSE Dispatch(f, i)
  <1> DEFINE i == Decode(FetchedWord(p))
             f == arm_fetch(p)
  <1>1. arm_step(p) = IF f.fault THEN {f}
                      ELSE UNION {IF ok THEN Dispatch(f, i) ELSE {f} :
                                    ok \in ConditionPassed(arm_read_cpsr(f), i.cond)}
    BY Zenon DEF arm_step, arm_execute_instruction
  <1>2. arm_read_cpsr(f) = p.reg[CPSR]
    BY FetchStatus
  <1> HIDE DEF i, f
  <1>3. ASSUME ConditionHolds(p.reg[CPSR], i.cond)
        PROVE  arm_step(p) = IF f.fault THEN {f} ELSE Dispatch(f, i)
    <2>1. ConditionPassed(arm_read_cpsr(f), i.cond) = {TRUE}
      BY <1>2, <1>3, Zenon DEF ConditionPassed
    <2>2. UNION {IF ok THEN Dispatch(f, i) ELSE {f} : ok \in {TRUE}} = Dispatch(f, i)
      BY Zenon
    <2>3. QED
      BY <1>1, <2>1, <2>2, Zenon
  <1>4. QED
    BY <1>3, Zenon DEF i, f

\* A register operand with a shift field of zero is the register.
LEMMA PlainOperand ==
  ASSUME NEW p, NEW b, NEW n, Shape(p, b, n), NEW i, IsDecoded(i),
         get_bits(i.lo12, 11, 4) = 0
  PROVE  shiftedRegisterOperand(p, i) = {arm_read_register(p, rm(i))}
  <1>1. i.lo12 \in Low12
    BY Zenon DEF IsDecoded
  <1>2. get_bits(i.lo12, 6, 4) = 0 /\ shift_imm(i) = 0
    BY <1>1, Fields12, Zenon DEF shift_imm
  <1>3. PICK v \in Word : v = arm_read_register(p, rm(i))
    BY FieldsTyped, RegisterIsWord
  <1>4. ShiftLeft(v, 0) = v
    <2>1. ShiftLeft(v, 0) = (v % Pow(WordBits - 0)) * Pow(0)
      <3>1. 0 < WordBits
        BY WordSize
      <3>2. QED
        BY <3>1, Zenon DEF ShiftLeft, Pow
    <2>2. WordBits - 0 = WordBits /\ Pow(WordBits) = WordMod /\ Pow(0) = 1
      BY WordSize, PowerTable
    <2>3. v % WordMod = v
      BY WordSize DEF Word
    <2>4. QED
      BY <2>1, <2>2, <2>3 DEF Word
  <1>5. shiftedRegisterOperand(p, i)
          = {ShiftLeft(arm_read_register(p, rm(i)), shift_imm(i))}
    BY <1>2, SMT DEF shiftedRegisterOperand
  <1>6. QED
    BY <1>2, <1>3, <1>4, <1>5

LEMMA OneDispatch ==
  ASSUME NEW p, NEW b, NEW n, Shape(p, b, n), NEW i, IsDecoded(i),
         ~(IsDataProcessing(i) /\ i.b25 = 0 /\ get_bits(i.lo12, 11, 4) # 0)
  PROVE  Singleton(Dispatch(p, i))
  <1>1. CASE IsDataProcessing(i)
    <2>1. Dispatch(p, i) = DataProcessing(p, i)
      BY <1>1 DEF IsDataProcessing, Dispatch
    <2>2. \E o : Operand2(p, i) = {o}
      <3>1. i.b25 \in {0, 1}
        BY Zenon DEF IsDecoded, Bit
      <3>2. CASE i.b25 = 1
        BY <3>2, Zenon DEF Operand2
      <3>3. CASE i.b25 = 0
        <4>1. shiftedRegisterOperand(p, i) = {arm_read_register(p, rm(i))}
          BY <1>1, <3>3, PlainOperand
        <4>2. Operand2(p, i) = {arm_read_register(p, rm(i))}
                                 \cup shiftedRegisterOperand(p, i)
          BY <3>3 DEF Operand2
        <4>3. QED
          BY <4>1, <4>2
      <3>4. QED
        BY <3>1, <3>2, <3>3
    <2>3. PICK o : Operand2(p, i) = {o}
      BY <2>2
    <2>4. CASE opcode(i) \in Compares
      <3>1. DataProcessing(p, i) = {update_flag(p)}
        BY <2>4, SMT DEF DataProcessing
      <3>2. QED
        BY <2>1, <3>1, Zenon DEF Singleton
    <2>5. CASE opcode(i) \notin Compares
      <3> DEFINE W(x) == update_flag(arm_write_register(p, i.rd,
                           AluResult(opcode(i), arm_read_register(p, i.rn), x,
                                     FlagC(arm_read_cpsr(p)))))
      <3>1. DataProcessing(p, i) = {W(x) : x \in Operand2(p, i)}
        BY <2>5, SMT DEF DataProcessing
      <3> HIDE DEF W
      <3>2. DataProcessing(p, i) = {W(o)}
        BY <2>3, <3>1
      <3>3. QED
        BY <2>1, <3>2, Zenon DEF Singleton
    <2>6. QED
      BY <2>4, <2>5
  <1>2. CASE ~IsDataProcessing(i)
    <2>1. CASE i.cls = 1
      <3>1. Dispatch(p, i) = {loadStoreByteOrWord(p, arm_load_store(i), i)}
        BY <2>1, SMT DEF Dispatch
      <3>2. QED
        BY <3>1, Zenon DEF Singleton
    <2>2. CASE i.cls = 2 /\ i.b25 = 1
      <3>1. Dispatch(p, i) = {arm_branch(p, i)}
        BY <2>2, SMT DEF Dispatch
      <3>2. QED
        BY <3>1, Zenon DEF Singleton
    <2>3. CASE i.cls # 1 /\ ~(i.cls = 2 /\ i.b25 = 1)
      <3>1. Dispatch(p, i) = {p}
        BY <1>2, <2>3, SMT DEF Dispatch, IsDataProcessing
      <3>2. QED
        BY <3>1, Zenon DEF Singleton
    <2>4. QED
      BY <2>1, <2>2, <2>3, Zenon
  <1>3. QED
    BY <1>1, <1>2

\* In every state of the processor: an instruction whose condition holds has
\* one outcome, unless it is a data-processing instruction on a register
\* with a shift field (the reads of bits4_11 and shift_imm).
THEOREM OutcomesAreUnique == Spec => []OneOutcome
  <1>1. ASSUME TypeInv
        PROVE  OneOutcome
    <2> SUFFICES ASSUME Cardinality(arm_step(arm)) > 1,
                        ConditionHolds(arm.reg[CPSR], Instruction.cond),
                        ~(/\ IsDataProcessing(Instruction)
                          /\ Instruction.b25 = 0
                          /\ get_bits(Instruction.lo12, 11, 4) # 0)
                 PROVE  FALSE
      BY DEF OneOutcome
    <2>1. PICK b, n : b \in Orders /\ n \in Nat /\ Shape(arm, b, n)
      BY <1>1, Zenon DEF IsCore, TypeInv
    <2> DEFINE f == arm_fetch(arm)
               i == Instruction
    <2>2. arm_step(arm) = IF f.fault THEN {f} ELSE Dispatch(f, i)
      BY <2>1, StepDispatches DEF Instruction
    <2>3. Shape(f, b, n) /\ IsDecoded(i)
      BY <2>1, FetchKeeps, DecodeTyped DEF Instruction
    <2>4. Singleton(Dispatch(f, i))
      BY <2>3, OneDispatch
    <2> HIDE DEF f, i
    <2>5. Singleton(arm_step(arm))
      BY <2>2, <2>4, Zenon DEF Singleton
    <2>6. QED
      BY <2>5, SingletonSize
  <1>2. Init => TypeInv
    BY InitIsCore DEF Init, TypeInv
  <1>3. QED
    BY <1>1, <1>2, NextTypeInv, PTL DEF Spec

-----------------------------------------------------------------------------
(* Where the next instruction is fetched                                   *)

\* The 24-bit offset and its sign.
LEMMA OffsetParts ==
  ASSUME NEW i, IsDecoded(i)
  PROVE  /\ offset24(i) \in Int /\ 0 <= offset24(i) /\ offset24(i) <= 16777215
         /\ i.b23 = 1 <=> offset24(i) >= 8388608
         /\ i.b23 \in {0, 1}
  <1>1. offset24(i) = ((8 * i.b23 + 4 * i.b22 + 2 * i.b21 + i.b20) * 1048576)
                          + i.rn * 65536 + i.rd * 4096 + i.lo12
    BY SMT DEF offset24
  <1>2. i.lo12 \in Low12
    BY Zenon DEF IsDecoded
  <1>3. PICK l \in Int : l = i.lo12 /\ 0 <= l /\ l <= 4095
    <2>1. \A l \in Low12 : l \in Int /\ 0 <= l /\ l <= 4095
      BY SMT DEF Low12
    <2>2. QED
      BY <1>2, <2>1, SMT
  <1>4. PICK n \in 0 .. 15, d \in 0 .. 15 : n = i.rn /\ d = i.rd
    BY SMT DEF IsDecoded
  <1>5. PICK w \in 0 .. 1, x \in 0 .. 1, y \in 0 .. 1, z \in 0 .. 1 :
          w = i.b23 /\ x = i.b22 /\ y = i.b21 /\ z = i.b20
    BY SMT DEF IsDecoded, Bit
  <1>6. offset24(i) = ((8 * w + 4 * x + 2 * y + z) * 1048576) + n * 65536 + d * 4096 + l
    BY <1>1, <1>3, <1>4, <1>5, SMT
  <1>7. PICK o \in Int :
          o = ((8 * w + 4 * x + 2 * y + z) * 1048576) + n * 65536 + d * 4096 + l
    BY SMT
  <1>8. 0 <= o /\ o <= 16777215 /\ (w = 1 <=> o >= 8388608) /\ w \in {0, 1}
    BY <1>3, <1>7, SMT
  <1>9. QED
    BY <1>5, <1>6, <1>7, <1>8, SMT

LEMMA SignedOffsetIs ==
  ASSUME NEW i, IsDecoded(i)
  PROVE  /\ SignedOffset(i) = IF i.b23 = 1 THEN offset24(i) - 16777216 ELSE offset24(i)
         /\ Extend_30(i) = offset24(i) + (IF i.b23 = 1 THEN 1056964608 ELSE 0)
  <1>1. PICK o \in Int : o = offset24(i) /\ 0 <= o /\ o <= 16777215
    BY OffsetParts, SMT
  <1>2. i.b23 = 1 <=> o >= 8388608
    BY <1>1, OffsetParts, SMT
  <1>3. SignedOffset(i) = IF o >= 8388608 THEN o - 16777216 ELSE o
    BY <1>1, SMT DEF SignedOffset
  <1>4. \A y \in {0, 63} : set_bits(o, 30, 24, y) = o + y * 16777216
    <2>1. ASSUME NEW y \in {0, 63}
          PROVE  set_bits(o, 30, 24, y)
                   = (o % 16777216) + ((o \div 1073741824) \div 2) * 2 * 1073741824
                       + y * 16777216
      BY SMT DEF set_bits
    <2>2. o % 16777216 = o /\ o \div 1073741824 = 0 /\ 0 \div 2 = 0
      BY <1>1, SMT
    <2>3. QED
      BY <2>1, <2>2, SMT
  <1>5. i.b23 \in {0, 1}
    BY OffsetParts, SMT
  <1>6. Extend_30(i) = o + (IF i.b23 = 1 THEN 1056964608 ELSE 0)
    <2>1. CASE i.b23 = 0
      <3>1. Extend_30(i) = set_bits(o, 30, 24, 0)
        BY <1>1, <2>1, SMT DEF Extend_30
      <3>2. QED
        BY <1>4, <2>1, <3>1, SMT
    <2>2. CASE i.b23 = 1
      <3>1. Extend_30(i) = set_bits(o, 30, 24, 63)
        BY <1>1, <2>2, SMT DEF Extend_30
      <3>2. QED
        BY <1>4, <2>2, <3>1, SMT
    <2>3. QED
      BY <1>5, <2>1, <2>2, SMT
  <1>7. QED
    BY <1>1, <1>2, <1>3, <1>6, SMT

\* Extend_30 shifted by two is four times the signed offset, modulo the word.
LEMMA BranchOffsetIs ==
  ASSUME NEW i, IsDecoded(i)
  PROVE  SignedOffset(i) \in Int /\ BranchOffset(i) = (4 * SignedOffset(i)) % WordMod
  <1>1. PICK e \in Nat, s \in Int :
          /\ e = Extend_30(i) /\ s = SignedOffset(i)
          /\ (e = s \/ e = s + 1073741824)
    <2>1. PICK o \in Int : o = offset24(i) /\ 0 <= o /\ o <= 16777215
      BY OffsetParts, SMT
    <2>2. QED
      BY <2>1, SignedOffsetIs, SMT
  <1>0. e = Extend_30(i)
    BY <1>1, SMT
  <1>2. PICK c \in Nat \ {0} : c = Pow(WordBits - 2) /\ c * 4 = WordMod
    <2>1. 2 \in 0 .. WordBits
      BY WordSize
    <2>2. /\ Pow(WordBits - 2) \in Nat \ {0} /\ Pow(2) * Pow(WordBits - 2) = WordMod
      BY <2>1, Complement
    <2>3. QED
      BY <2>2, PowerTable, SMT
  <1>3. BranchOffset(i) = (e % c) * 4
    <2>1. BranchOffset(i) = (e % Pow(WordBits - 2)) * Pow(2)
      <3>1. 2 < WordBits
        BY WordSize
      <3>2. QED
        BY <1>0, <3>1, Zenon DEF BranchOffset, ShiftLeft, Pow
    <2>2. QED
      BY <1>2, <2>1, PowerTable, SMT
  <1>4. (e % c) * 4 = (4 * e) % WordMod
    BY <1>2, ModScales
  <1>5. (4 * e) % WordMod = (4 * s) % WordMod
    <2>1. PICK k \in Int : 4294967296 = WordMod * k
      BY WordSize, PowerTable, SMT
    <2>2. PICK B \in Nat \ {0} : B = WordMod
      BY WordSize
    <2>3. 4 * e = 4 * s \/ 4 * e = 4 * s + B * k
      BY <1>1, <2>1, <2>2, SMT
    <2>4. PICK y \in Int : y = 4 * s
      OBVIOUS
    <2>5. (y + B * k) % B = y % B
      BY ModAdds
    <2>6. QED
      BY <2>2, <2>3, <2>4, <2>5, SMT
  <1>6. QED
    BY <1>1, <1>3, <1>4, <1>5, SMT

\* After the fetch the pc is the address the accessor showed, so that reading
\* it again gives four more.
LEMMA FetchedPc ==
  ASSUME NEW p, NEW b, NEW n, Shape(p, b, n), ~ReadFaults(p.mem, FetchAddress(p), 4)
  PROVE  /\ arm_fetch(p).reg[PC] = Add(FetchAddress(p), 4)
         /\ arm_read_register(arm_fetch(p), PC) = Add(Add(FetchAddress(p), 4), 4)
  <1> DEFINE f == arm_fetch(p)
  <1>1. PICK x \in Word : /\ x = arm_read_register(p, PC) /\ get_bit(x, 1) = 0
                          /\ Add(Sub(x, 4), 4) = x
    BY ShownPc
  <1>2. Add(FetchAddress(p), 4) = x
    BY <1>1 DEF FetchAddress
  <1>3. f = arm_write_register(p, PC, x)
    BY <1>2 DEF arm_fetch
  <1>4. f.reg[PC] = x
    <2>1. p = Core(p.reg, p.mem, p.fault) /\ p.reg \in Words /\ PC \in Reg
      BY ShapeParts DEF PC, Reg
    <2>2. f = Core([p.reg EXCEPT ![PC] = x], p.mem, p.fault)
      BY <1>3, <2>1, RegisterUpdate
    <2>3. f.reg = [p.reg EXCEPT ![PC] = x]
      BY <2>2, CoreFields
    <2> HIDE DEF f
    <2>4. QED
      BY <2>1, <2>3 DEF Words
  <1> HIDE DEF f
  <1>5. PICK v \in Word : v = Add(x, 4)
    <2>1. x \in Int /\ 4 \in Int
      BY DEF Word
    <2>2. QED
      BY <2>1, WordSums
  <1>6. get_bit(v, 1) = 0
    <2>1. (x \div 2) % 2 = 0
      BY <1>1, SMT DEF get_bit
    <2>2. (v \div 2) % 2 = 0
      <3>1. PICK c \in Nat : WordMod = 16 * c
        BY WordSize
      <3>2. x \in 0 .. WordMod - 1 /\ v = (x + 4) % WordMod
        BY <1>5 DEF Word, Add
      <3>3. v = x + 4 \/ v = x + 4 - WordMod
        BY <3>1, <3>2, WordSize
      <3>4. QED
        BY <2>1, <3>1, <3>2, <3>3
    <2>3. QED
      BY <2>2, SMT DEF get_bit
  <1>7. arm_read_register(f, PC) = v - 2 * get_bit(v, 1)
    BY <1>4, <1>5, Zenon DEF arm_read_register
  <1>8. v - 2 * 0 = v
    BY DEF Word
  <1>9. QED
    BY <1>2, <1>4, <1>5, <1>6, <1>7, <1>8 DEF f

\* The target of a branch, from the address it was fetched at.
LEMMA BranchTarget ==
  ASSUME NEW p, NEW b, NEW n, Shape(p, b, n), NEW i, IsDecoded(i),
         ~ReadFaults(p.mem, FetchAddress(p), 4)
  PROVE  arm_branch(arm_fetch(p), i).reg[PC]
           = (FetchAddress(p) + 8 + 4 * SignedOffset(i)) % WordMod
  <1> DEFINE f == arm_fetch(p)
             here == arm_read_register(f, PC)
             linked == IF i.b24 = 1 THEN arm_write_register(f, LR, here) ELSE f
             t == Add(here, BranchOffset(i))
  <1>1. arm_branch(f, i) = arm_write_register(linked, PC, t)
    BY DEF arm_branch
  <1>2. Shape(f, b, n) /\ here \in Word
    BY FetchKeeps, RegisterIsWord DEF Reg, PC
  <1>3. here = Add(Add(FetchAddress(p), 4), 4)
    BY FetchedPc
  <1> HIDE DEF f, here
  <1>4. Shape(linked, b, n)
    BY <1>2, WriteRegisterKeeps
  <1> HIDE DEF linked
  <1>5. arm_branch(f, i).reg[PC] = t
    <2>1. linked = Core(linked.reg, linked.mem, linked.fault) /\ linked.reg \in Words
          /\ PC \in Reg
      BY <1>4, ShapeParts DEF PC, Reg
    <2>2. arm_branch(f, i) = Core([linked.reg EXCEPT ![PC] = t], linked.mem, linked.fault)
      BY <1>1, <2>1, RegisterUpdate
    <2>3. arm_branch(f, i).reg = [linked.reg EXCEPT ![PC] = t]
      BY <2>2, CoreFields
    <2> HIDE DEF t
    <2>4. QED
      BY <2>1, <2>3 DEF Words
  <1>6. PICK B \in Nat \ {0}, a \in Int, z \in Int :
          B = WordMod /\ a = FetchAddress(p) /\ z = 4 * SignedOffset(i)
    <2>1. FetchAddress(p) \in Int
      BY FetchIsWord DEF Word
    <2>2. SignedOffset(i) \in Int
      BY BranchOffsetIs
    <2>3. QED
      BY <2>1, <2>2, WordSize
  <1>7. t = (((((a + 4) % B) + 4) % B) + (z % B)) % B
    BY <1>3, <1>6, BranchOffsetIs DEF Add
  <1>8. (((((a + 4) % B) + 4) % B) + (z % B)) % B = (a + 8 + z) % B
    <2>0. \A x, y \in Int : /\ ((x % B) + y) % B = (x + y) % B
                            /\ (x + (y % B)) % B = (x + y) % B
      BY ModSums
    <2>1. PICK u \in Int : u = a + 4
      OBVIOUS
    <2>2. PICK v \in Int : v = u + 4
      OBVIOUS
    <2>3. ((u % B) + 4) % B = v % B
      <3>1. PICK y \in Int : y = 4
        OBVIOUS
      <3>2. ((u % B) + y) % B = (u + y) % B
        BY <2>0
      <3>3. QED
        BY <2>2, <3>1, <3>2
    <2>4. PICK w \in Int : w = v % B
      OBVIOUS
    <2>5. (w + (z % B)) % B = (w + z) % B
      BY <2>0
    <2>6. (w + z) % B = (v + z) % B
      BY <2>0, <2>4
    <2>7. v + z = a + 8 + z
      BY <2>1, <2>2
    <2>8. QED
      BY <2>1, <2>3, <2>4, <2>5, <2>6, <2>7
  <1>9. QED
    BY <1>5, <1>6, <1>7, <1>8 DEF f

\* Where the pc is after one instruction.
LEMMA NextPc ==
  ASSUME NEW p, NEW b, NEW n, Shape(p, b, n), NEW q \in arm_step(p), ~q.fault
  PROVE  LET i == Decode(FetchedWord(p))
             sequential == q.reg[PC] = Add(FetchAddress(p), 4)
             target == (FetchAddress(p) + 8 + 4 * SignedOffset(i)) % WordMod
         IN  /\ IsBranch(i) => sequential \/ q.reg[PC] = target
             /\ IsBranch(i) /\ ConditionHolds(p.reg[CPSR], i.cond) =>
                  q.reg[PC] = target
             /\ ~IsBranch(i) /\ ~(WritesRd(i) /\ i.rd = PC) => sequential
  <1> DEFINE i == Decode(FetchedWord(p))
             f == arm_fetch(p)
             a == arm_load_store(i)
             next == Add(FetchAddress(p), 4)
             target == (FetchAddress(p) + 8 + 4 * SignedOffset(i)) % WordMod
  <1>1. IsDecoded(i) /\ a \in Word /\ Shape(f, b, n) /\ PC \in Reg
    BY DecodeTyped, AddressIsWord, FetchKeeps DEF PC, Reg
  <1>2. \/ q = f
        \/ /\ ~f.fault
           /\ \/ i.cls = 0 /\ ~IsMiscellaneous(i) /\ q \in DataProcessing(f, i)
              \/ i.cls = 1 /\ q = loadStoreByteOrWord(f, a, i)
              \/ i.cls = 2 /\ i.b25 = 1 /\ q = arm_branch(f, i)
    BY StepCases, Zenon
  <1>3. ~f.fault /\ ~ReadFaults(p.mem, FetchAddress(p), 4)
    <2>1. ~f.fault
      BY <1>2, Zenon
    <2>2. ASSUME ReadFaults(p.mem, FetchAddress(p), 4)
          PROVE  f.fault
      <3>1. f = Crash(p) /\ p = Core(p.reg, p.mem, p.fault)
        BY <2>2, ShapeParts, Zenon DEF arm_fetch
      <3>2. f = Core(p.reg, p.mem, TRUE)
        BY <3>1, CrashUpdate, Zenon
      <3>3. \A v : Core(p.reg, p.mem, v).fault = v
        BY CoreFields
      <3> HIDE DEF f
      <3>4. QED
        BY <3>2, <3>3, Zenon
    <2>3. QED
      BY <2>1, <2>2, Zenon
  <1>4. f.reg[PC] = next
    BY <1>3, FetchedPc
  <1>5. arm_branch(f, i).reg[PC] = target
    BY <1>1, <1>3, BranchTarget
  <1>6. ConditionHolds(p.reg[CPSR], i.cond) => q \in Dispatch(f, i)
    BY <1>3, StepDispatches, Zenon
  <1> HIDE DEF f, i, a, next, target
  <1>7. IsBranch(i) => q = f \/ q = arm_branch(f, i)
    BY <1>2 DEF IsBranch
  <1>8. IsBranch(i) => Dispatch(f, i) = {arm_branch(f, i)}
    BY SMT DEF IsBranch, Dispatch
  <1>9. ASSUME ~IsBranch(i), ~(WritesRd(i) /\ i.rd = PC)
        PROVE  q.reg[PC] = next
    <2>1. CASE q = f
      BY <1>4, <2>1
    <2>2. CASE i.cls = 0 /\ ~IsMiscellaneous(i) /\ q \in DataProcessing(f, i)
      <3>1. Same(f, q, IF opcode(i) \in Compares THEN {} ELSE {i.rd}, {})
        BY <1>1, <2>2, DataFrame
      <3>2. PC \notin (IF opcode(i) \in Compares THEN {} ELSE {i.rd})
        BY <1>9, <2>2 DEF WritesRd, IsDataProcessing
      <3>3. QED
        BY <1>1, <1>4, <3>1, <3>2 DEF Same
    <2>3. CASE i.cls = 1 /\ q = loadStoreByteOrWord(f, a, i)
      <3> DEFINE T == IF i.b20 = 0 THEN Stored(a, StoreWidth(i)) ELSE {}
      <3>1. Same(f, q, IF i.b20 = 1 THEN {i.rd} ELSE {}, T)
        BY <1>1, <2>3, LoadStoreFrame
      <3>2. PC \notin (IF i.b20 = 1 THEN {i.rd} ELSE {})
        BY <1>9, <2>3 DEF WritesRd, IsLoadStore
      <3> HIDE DEF T
      <3>3. QED
        BY <1>1, <1>4, <3>1, <3>2 DEF Same
    <2>4. QED
      BY <1>2, <1>9, <2>1, <2>2, <2>3 DEF IsBranch
  <1>10. /\ IsBranch(i) => q.reg[PC] = next \/ q.reg[PC] = target
         /\ IsBranch(i) /\ ConditionHolds(p.reg[CPSR], i.cond) => q.reg[PC] = target
         /\ ~IsBranch(i) /\ ~(WritesRd(i) /\ i.rd = PC) => q.reg[PC] = next
    BY <1>4, <1>5, <1>6, <1>7, <1>8, <1>9
  <1>11. QED
    BY <1>10, Zenon DEF i, next, target

\* The control flow of every program: the next instruction is the one 4
\* bytes further, or the target of a branch, 8 bytes past it plus four times
\* the signed 24-bit offset, which a branch whose condition holds does take.
\* The sign extension of Extend_30 and its shift are exact for every offset,
\* and the bit 1 that reading the pc clears is never set by the fetch.
THEOREM ControlFlows == Spec => NextFetch
  <1> DEFINE A == last' = "step" /\ ~arm'.fault =>
       LET i == Instruction
           here == FetchAddress(arm)
           sequential == arm'.reg[PC] = Add(here, 4)
           target == (here + 8 + 4 * SignedOffset(i)) % WordMod
       IN  CASE IsBranch(i) /\ ConditionHolds(arm.reg[CPSR], i.cond) ->
                  arm'.reg[PC] = target
             [] IsBranch(i) -> sequential \/ arm'.reg[PC] = target
             [] WritesRd(i) /\ i.rd = PC -> TRUE
             [] OTHER -> sequential
  <1>1. ASSUME TypeInv, [Next]_vars
        PROVE  [A]_vars
    <2>1. CASE Step
      <3>1. PICK b, n : b \in Orders /\ n \in Nat /\ Shape(arm, b, n)
        BY <1>1, Zenon DEF IsCore, TypeInv
      <3>2. arm' \in arm_step(arm)
        BY <2>1, Zenon DEF Step
      <3>3. ASSUME ~arm'.fault
            PROVE  LET i == Instruction
                       sequential == arm'.reg[PC] = Add(FetchAddress(arm), 4)
                       target == (FetchAddress(arm) + 8 + 4 * SignedOffset(i)) % WordMod
                   IN  /\ IsBranch(i) => sequential \/ arm'.reg[PC] = target
                       /\ IsBranch(i) /\ ConditionHolds(arm.reg[CPSR], i.cond) =>
                            arm'.reg[PC] = target
                       /\ ~IsBranch(i) /\ ~(WritesRd(i) /\ i.rd = PC) => sequential
        BY <3>1, <3>2, <3>3, NextPc, Zenon DEF Instruction
      <3>4. QED
        BY <3>3, Zenon
    <2>2. CASE \E e \in Exceptions : Exception(e)
      BY <2>2 DEF Exception
    <2>3. QED
      BY <1>1, <2>1, <2>2 DEF Next
  <1>2. Init => TypeInv
    BY InitIsCore DEF Init, TypeInv
  <1>3. QED
    BY <1>1, <1>2, NextTypeInv, PTL DEF Spec, NextFetch

-----------------------------------------------------------------------------
(* What a program stored                                                   *)

\* A word STR has written lies in the mapped memory, in the order of the
\* memory, until a store overlaps it.
Holds(p, a, w) == /\ a \in Nat /\ w \in Word
                  /\ Mapped(p.mem, a, 4) /\ WordAt(p.mem, a) = BytesOf(w)
StoredInv == \A a \in DOMAIN stored : Holds(arm, a, stored[a])

\* A store elsewhere keeps a word.
LEMMA HoldsElsewhere ==
  ASSUME NEW p, NEW q, NEW b, NEW n, Shape(p, b, n), Shape(q, b, n),
         NEW a, NEW w, Holds(p, a, w), NEW T,
         \A x \in DOMAIN p.mem.cells \ T : q.mem.cells[x] = p.mem.cells[x],
         \A x \in a .. a + 3 : x \notin T
  PROVE  Holds(q, a, w)
  <1> DEFINE c == p.mem.cells
             d == q.mem.cells
  <1>1. a \in Nat /\ a .. a + 4 - 1 \subseteq DOMAIN c
    BY DEF Holds, Mapped
  <1>2. DOMAIN d = DOMAIN c /\ q.mem.big = p.mem.big
    BY ShapeParts DEF Cells
  <1>3. \A x \in {a, a + 1, a + 2, a + 3} : x \in a .. a + 4 - 1 /\ x \in a .. a + 3
    BY <1>1
  <1>4. d[a] = c[a] /\ d[a + 1] = c[a + 1] /\ d[a + 2] = c[a + 2] /\ d[a + 3] = c[a + 3]
    <2> HIDE DEF c, d
    <2>1. \A x \in DOMAIN c \ T : d[x] = c[x]
      BY DEF c, d
    <2>2. QED
      BY <1>1, <1>3, <2>1
  <1>5. WordAt(q.mem, a) = WordAt(p.mem, a)
    BY <1>2, <1>4 DEF WordAt
  <1>6. Mapped(q.mem, a, 4)
    BY <1>2 DEF Holds, Mapped
  <1>7. QED
    BY <1>5, <1>6 DEF Holds

\* STR leaves its word at its address.
LEMMA StoreHolds ==
  ASSUME NEW p, NEW b, NEW n, b \in Orders, Shape(p, b, n), NEW a \in Word,
         NEW w \in Word, arm_write_word(p, a, w).mem # p.mem
  PROVE  Holds(arm_write_word(p, a, w), a, w)
  <1> DEFINE c == p.mem.cells
             v == BytesOf(w)
             d == BigCells(c, a, v)
             e == LittleCells(c, a, v)
             g == IF p.mem.big = 1 THEN d ELSE e
             q == arm_write_word(p, a, w)
  <1>1. q = IF WriteFaults(p.mem, a, 4) THEN Crash(p) ELSE WithMem(p, Put(p.mem, g))
    BY Zenon DEF arm_write_word, memory_write_word, WithMem, BigCells, LittleCells
  <1>2. Mapped(p.mem, a, 4)
    BY <1>1, SameCrash, Zenon DEF WriteFaults
  <1>3. q = WithMem(p, Put(p.mem, g))
    BY <1>1, <1>2, Zenon DEF WriteFaults
  <1>4. q.mem = Block(b, n, g) /\ q.mem.cells = g /\ q.mem.big = b /\ p.mem.big = b
    <2>1. p.mem.big = b
      BY ShapeParts
    <2> HIDE DEF q, g
    <2>2. q.mem = Block(b, n, g)
      BY <1>3, SameMem
    <2>3. QED
      BY <2>1, <2>2, BlockFields
  <1>5. a \in Nat /\ a .. a + 4 - 1 \subseteq DOMAIN c
    BY <1>2 DEF Mapped, Word
  <1>6. a \in DOMAIN c /\ a + 1 \in DOMAIN c /\ a + 2 \in DOMAIN c /\ a + 3 \in DOMAIN c
    BY <1>5
  <1>7. DOMAIN d = DOMAIN c /\ DOMAIN e = DOMAIN c
    BY DEF BigCells, LittleCells
  <1>8. v = <<v[1], v[2], v[3], v[4]>>
    <2>1. v \in Quad
      BY BytesFromWord
    <2> HIDE DEF v
    <2>2. QED
      BY <2>1 DEF Quad
  <1> HIDE DEF c, v, q
  <1>9. /\ d[a] = v[4] /\ d[a + 1] = v[3] /\ d[a + 2] = v[2] /\ d[a + 3] = v[1]
        /\ e[a] = v[1] /\ e[a + 1] = v[2] /\ e[a + 2] = v[3] /\ e[a + 3] = v[4]
    <2>1. a # a + 1 /\ a # a + 2 /\ a # a + 3 /\ a + 1 # a + 2 /\ a + 1 # a + 3
          /\ a + 2 # a + 3
      BY <1>5
    <2>2. /\ d[a] = v[4] /\ d[a + 1] = v[3] /\ d[a + 2] = v[2] /\ d[a + 3] = v[1]
      BY <1>6, <2>1 DEF BigCells
    <2>3. /\ e[a] = v[1] /\ e[a + 1] = v[2] /\ e[a + 2] = v[3] /\ e[a + 3] = v[4]
      BY <1>6, <2>1 DEF LittleCells
    <2>4. QED
      BY <2>2, <2>3
  <1> HIDE DEF d, e
  <1>10. b = 0 \/ b = 1
    BY DEF Orders
  <1>11. WordAt(q.mem, a) = v
    <2>1. CASE b = 0
      <3>1. q.mem.big = 0 /\ q.mem.cells = e
        BY <1>4, <2>1
      <3>2. WordAt(q.mem, a) = <<e[a], e[a + 1], e[a + 2], e[a + 3]>>
        BY <3>1 DEF WordAt
      <3>3. QED
        BY <1>8, <1>9, <3>2
    <2>2. CASE b = 1
      <3>1. q.mem.big = 1 /\ q.mem.cells = d
        BY <1>4, <2>2
      <3>2. WordAt(q.mem, a) = <<d[a + 3], d[a + 2], d[a + 1], d[a]>>
        BY <3>1 DEF WordAt
      <3>3. QED
        BY <1>8, <1>9, <3>2
    <2>3. QED
      BY <1>10, <2>1, <2>2
  <1>12. Mapped(q.mem, a, 4)
    <2>1. DOMAIN g = DOMAIN c
      BY <1>7
    <2>2. QED
      BY <1>4, <1>5, <2>1, Zenon DEF Mapped
  <1>13. QED
    BY <1>5, <1>11, <1>12, Zenon DEF Holds, q, v

\* The memory changes by a store only, and then to what the store wrote.
LEMMA OnlyStoresWrite ==
  ASSUME NEW p, NEW b, NEW n, Shape(p, b, n), NEW q \in arm_step(p), q.mem # p.mem
  PROVE  LET i == Decode(FetchedWord(p))
             f == arm_fetch(p)
         IN  StoreWidth(i) # 1 =>
               q = arm_write_word(f, arm_load_store(i), arm_read_register(f, i.rd))
  <1> DEFINE i == Decode(FetchedWord(p))
             f == arm_fetch(p)
             a == arm_load_store(i)
  <1>1. IsDecoded(i) /\ Shape(f, b, n) /\ f.mem = p.mem
    BY DecodeTyped, FetchKeeps, FetchFrame
  <1>2. \/ q = f
        \/ q \in DataProcessing(f, i)
        \/ q = loadStoreByteOrWord(f, a, i)
        \/ q = arm_branch(f, i)
    BY StepCases, Zenon
  <1> HIDE DEF i, f, a
  <1>3. q = loadStoreByteOrWord(f, a, i)
    <2>1. q \in DataProcessing(f, i) => q.mem = f.mem
      BY <1>1, DataFrame
    <2>2. q = arm_branch(f, i) => q.mem = f.mem
      BY <1>1, BranchFrame
    <2>3. QED
      BY <1>1, <1>2, <2>1, <2>2
  <1>4. i.b20 \in {0, 1} /\ i.b22 \in {0, 1}
    BY <1>1, Zenon DEF IsDecoded, Bit
  <1>5. CASE i.b20 = 1
    <2>1. q = Crash(f) \/ \E v : q = arm_write_register(f, i.rd, v)
      BY <1>3, <1>4, <1>5 DEF loadStoreByteOrWord
    <2>2. Crash(f).mem = f.mem
      BY <1>1, SameCrash, Zenon
    <2>3. \A r, v : arm_write_register(f, r, v).mem = f.mem
      BY <1>1, SameRegisterWrite
    <2>4. q.mem = f.mem
      BY <2>1, <2>2, <2>3
    <2>5. QED
      BY <1>1, <2>4
  <1>6. CASE i.b20 = 0 /\ i.b22 = 0
    <2>1. q = arm_write_word(f, a, arm_read_register(f, i.rd))
      BY <1>3, <1>6 DEF loadStoreByteOrWord
    <2>2. QED
      BY <2>1, Zenon DEF i, f, a
  <1>7. CASE i.b22 = 1
    <2>1. StoreWidth(i) = 1
      BY <1>7, Zenon DEF StoreWidth
    <2>2. QED
      BY <2>1, Zenon DEF i
  <1>8. QED
    BY <1>4, <1>5, <1>6, <1>7

LEMMA ExceptionMemory ==
  ASSUME NEW p, NEW b, NEW n, Shape(p, b, n), NEW e
  PROVE  arm_exception(p, e).mem = p.mem
  <1> DEFINE w == arm_write_cpsr(p, ResetCpsr)
  <1>1. w = arm_write_register(p, CPSR, ResetCpsr)
    BY DEF arm_write_cpsr, arm_write_register
  <1>2. ResetCpsr \in Word
    BY SmallWords DEF ResetCpsr
  <1>3. Shape(w, b, n) /\ w.mem = p.mem
    BY <1>1, <1>2, WriteRegisterKeeps, SameRegisterWrite
  <1>4. arm_exception(p, e) = IF e = RESET THEN arm_write_usr_register(w, PC, 0) ELSE p
    BY DEF arm_exception
  <1> HIDE DEF w
  <1>5. arm_write_usr_register(w, PC, 0)
          = IF in_a_privileged_mode(w) THEN w ELSE arm_write_register(w, PC, 0)
    BY DEF arm_write_usr_register, arm_write_register
  <1>6. arm_write_register(w, PC, 0).mem = w.mem
    BY <1>3, SameRegisterWrite
  <1>7. QED
    BY <1>3, <1>4, <1>5, <1>6

LEMMA SameMemoryHolds ==
  ASSUME NEW p, NEW q, q.mem = p.mem, NEW a, NEW w, Holds(p, a, w)
  PROVE  Holds(q, a, w)
  BY Zenon DEF Holds

LEMMA NextStoredInv == TypeInv /\ StoredInv /\ [Next]_vars => StoredInv'
  <1> SUFFICES ASSUME TypeInv, StoredInv, [Next]_vars
               PROVE  StoredInv'
    OBVIOUS
  <1>1. PICK b, n : b \in Orders /\ n \in Nat /\ Shape(arm, b, n)
    BY Zenon DEF IsCore, TypeInv
  <1>2. CASE arm'.mem = arm.mem /\ stored' = stored
    BY <1>2, SameMemoryHolds, Zenon DEF StoredInv
  <1>3. CASE Step /\ arm'.mem # arm.mem
    <2> DEFINE i == Instruction
               f == arm_fetch(arm)
               a == arm_load_store(i)
               v == arm_read_register(f, i.rd)
               k == StoreWidth(i)
               kept == Standing(a, k)
    <2>1. arm' \in arm_step(arm) /\ stored' = StoredAfter(i, arm')
      BY <1>3, Zenon DEF Step
    <2>2. Shape(arm', b, n) /\ Shape(f, b, n) /\ IsDecoded(i) /\ f.mem = arm.mem
      BY <1>1, <2>1, StepKeeps, FetchKeeps, FetchFrame, DecodeTyped DEF Instruction
    <2>3. a \in Word /\ v \in Word /\ a \in Nat /\ k \in {1, 4}
      <3>1. a \in Word /\ v \in Word
        BY <2>2, AddressIsWord, FieldsTyped, RegisterIsWord
      <3>2. k \in {1, 4}
        BY DEF StoreWidth
      <3>3. QED
        BY <3>1, <3>2 DEF Word
    <2>4. \A x \in DOMAIN arm.mem.cells \ TouchedBytes(i) :
            arm'.mem.cells[x] = arm.mem.cells[x]
      BY <1>1, <2>1, StepFrameOfCore, Zenon DEF Same, Instruction
    <2>5. \/ k = 1 /\ stored' = [x \in kept |-> stored[x]]
          \/ k # 1 /\ stored' = [x \in kept \cup {a} |-> IF x = a THEN v ELSE stored[x]]
      BY <1>3, <2>1, Zenon DEF StoredAfter
    <2>6. k # 1 => arm' = arm_write_word(f, a, v)
      BY <1>1, <1>3, <2>1, OnlyStoresWrite, Zenon DEF Instruction
    <2>7. TouchedBytes(i) \subseteq {x \in Int : x - a \in 0 .. k - 1}
      BY DEF TouchedBytes
    <2> HIDE DEF i, f, a, v, k
    <2>8. ASSUME NEW x \in kept
          PROVE  Holds(arm', x, stored[x])
      <3>1. x \in DOMAIN stored /\ (x + 4 <= a \/ a + k <= x)
        BY DEF Standing
      <3>2. Holds(arm, x, stored[x]) /\ x \in Nat
        BY <3>1, Zenon DEF StoredInv, Holds
      <3>3. \A y \in x .. x + 3 : y \notin TouchedBytes(i)
        BY <2>3, <2>7, <3>1, <3>2
      <3> HIDE DEF kept
      <3>4. QED
        BY <1>1, <2>2, <2>4, <3>2, <3>3, HoldsElsewhere
    <2>9. k # 1 => Holds(arm', a, v)
      <3>1. SUFFICES ASSUME k # 1
                     PROVE  Holds(arm', a, v)
        OBVIOUS
      <3>2. arm_write_word(f, a, v).mem # f.mem
        BY <1>3, <2>2, <2>6, <3>1
      <3>3. Holds(arm_write_word(f, a, v), a, v)
        BY <1>1, <2>2, <2>3, <3>2, StoreHolds
      <3>4. QED
        BY <2>6, <3>1, <3>3
    <2> HIDE DEF kept
    <2>10. ASSUME NEW x \in DOMAIN stored'
           PROVE  Holds(arm', x, stored'[x])
      <3>1. CASE x \in kept /\ stored'[x] = stored[x]
        BY <2>8, <3>1
      <3>2. CASE k # 1 /\ x = a /\ stored'[x] = v
        BY <2>9, <3>2
      <3>3. QED
        BY <2>5, <3>1, <3>2
    <2>11. QED
      BY <2>10, Zenon DEF StoredInv
  <1>4. Step /\ arm'.mem = arm.mem => stored' = stored
    BY Zenon DEF Step, StoredAfter
  <1>5. (\E e \in Exceptions : Exception(e)) => arm'.mem = arm.mem /\ stored' = stored
    BY <1>1, ExceptionMemory, Zenon DEF Exception
  <1>6. QED
    BY <1>2, <1>3, <1>4, <1>5 DEF Next, vars

LEMMA RorByNone ==
  ASSUME NEW x \in Word
  PROVE  ror(x, 0) = x
  <1>1. 0 % WordBits = 0 /\ WordBits - 0 = WordBits
    BY WordSize
  <1>2. ror(x, 0) = x \div Pow(0) + (x % Pow(0)) * Pow(WordBits)
    BY <1>1, Zenon DEF ror, Pow
  <1>3. Pow(0) = 1 /\ Pow(WordBits) \in Nat
    BY PowerTable, WordSize, SMT
  <1>4. x \div 1 = x /\ x % 1 = 0
    BY DEF Word
  <1>5. QED
    BY <1>2, <1>3, <1>4 DEF Word

\* A register after it was written.
LEMMA WrittenRegister ==
  ASSUME NEW p, NEW b, NEW n, Shape(p, b, n), NEW r \in Reg, NEW v
  PROVE  arm_write_register(p, r, v).reg[r] = v
  <1>1. p = Core(p.reg, p.mem, p.fault) /\ p.reg \in Words
    BY ShapeParts
  <1>2. arm_write_register(p, r, v) = Core([p.reg EXCEPT ![r] = v], p.mem, p.fault)
    BY <1>1, RegisterUpdate
  <1>3. arm_write_register(p, r, v).reg = [p.reg EXCEPT ![r] = v]
    BY <1>2, CoreFields
  <1>4. QED
    BY <1>1, <1>3 DEF Words

\* An LDR from where a word is held brings it back.
LEMMA LoadBrings ==
  ASSUME NEW p, NEW b, NEW n, Shape(p, b, n), NEW q \in arm_step(p), ~q.fault,
         NEW i, i = Decode(FetchedWord(p)), NEW a, a = arm_load_store(i), NEW w,
         i.cls = 1, i.b20 = 1, i.b22 = 0, i.rd # PC, i.cond = 14,
         a % 4 = 0, Accepts(p.mem, a), Holds(p, a, w)
  PROVE  q.reg[i.rd] = w
  <1> DEFINE f == arm_fetch(p)
  <1>1. IsDecoded(i) /\ Shape(f, b, n) /\ f.mem = p.mem /\ i.rd \in Reg
    BY DecodeTyped, FetchKeeps, FetchFrame, FieldsTyped
  <1>2. ConditionHolds(p.reg[CPSR], i.cond)
    BY SMT DEF ConditionHolds
  <1>3. q = f \/ ~f.fault
    BY StepCases, Zenon
  <1>4. q \in Dispatch(f, i)
    BY <1>2, <1>3, StepDispatches, Zenon
  <1> HIDE DEF f
  <1>5. q = loadStoreByteOrWord(f, a, i)
    BY <1>4, SMT DEF Dispatch
  <1>6. ~ReadFaults(f.mem, a, 4) /\ arm_read_word(f, a) = BytesOf(w) /\ w \in Word
    BY <1>1, Zenon DEF ReadFaults, Holds, arm_read_word, memory_read_word
  <1>7. WordOf(arm_read_word(f, a)) = w
    BY <1>6, BytesFromWord
  <1>8. ByteBits * (a % 4) = 0
    BY CpsrAssumption
  <1>9. ror(WordOf(arm_read_word(f, a)), ByteBits * (a % 4)) = w
    BY <1>6, <1>7, <1>8, RorByNone
  <1>10. q = arm_write_register(f, i.rd, w)
    <2>1. q = arm_write_register(f, i.rd,
                ror(WordOf(arm_read_word(f, a)), ByteBits * (a % 4)))
      BY <1>5, <1>6, SMT DEF loadStoreByteOrWord
    <2>2. QED
      BY <1>9, <2>1
  <1>11. QED
    BY <1>1, <1>10, WrittenRegister

\* What a program stored it loads back, whatever it executed in between and
\* whatever exceptions arrived: an LDR from a multiple of 4 gives the word of
\* the last STR there, as long as no other store has touched one of its four
\* bytes, in both byte orders and for every size of the memory.
THEOREM LoadsAreStores == Spec => LoadsWhatWasStored
  <1> DEFINE A == last' = "step" /\ ~arm'.fault =>
       LET i == Instruction
           a == arm_load_store(i)
       IN  /\ IsLoadStore(i) /\ i.b20 = 1 /\ i.b22 = 0
           /\ i.rd # PC /\ i.cond = 14
           /\ a \in DOMAIN stored /\ a % 4 = 0 /\ Accepts(arm.mem, a)
           => arm'.reg[i.rd] = stored[a]
  <1>1. ASSUME TypeInv, StoredInv, [Next]_vars
        PROVE  [A]_vars
    <2>1. CASE Step
      <3>1. PICK b, n : b \in Orders /\ n \in Nat /\ Shape(arm, b, n)
        BY <1>1, Zenon DEF IsCore, TypeInv
      <3>2. arm' \in arm_step(arm)
        BY <2>1, Zenon DEF Step
      <3>3. PICK i : i = Instruction
        OBVIOUS
      <3>4. PICK a : a = arm_load_store(i)
        OBVIOUS
      <3>5. ASSUME ~arm'.fault, IsLoadStore(i), i.b20 = 1, i.b22 = 0,
                   i.rd # PC, i.cond = 14,
                   a \in DOMAIN stored, a % 4 = 0, Accepts(arm.mem, a)
            PROVE  arm'.reg[i.rd] = stored[a]
        <4>1. Holds(arm, a, stored[a])
          BY <1>1, <3>5, Zenon DEF StoredInv
        <4>2. i = Decode(FetchedWord(arm)) /\ i.cls = 1
          BY <3>3, <3>5, Zenon DEF Instruction, IsLoadStore
        <4>3. QED
          BY <3>1, <3>2, <3>4, <3>5, <4>1, <4>2, LoadBrings
      <3>6. A
        BY <3>3, <3>4, <3>5, Zenon
      <3>7. QED
        BY <3>6, Zenon
    <2>2. CASE \E e \in Exceptions : Exception(e)
      BY <2>2 DEF Exception
    <2>3. QED
      BY <1>1, <2>1, <2>2 DEF Next
  <1>2. Init => TypeInv /\ StoredInv
    BY InitIsCore DEF Init, TypeInv, StoredInv
  <1>3. QED
    BY <1>1, <1>2, NextTypeInv, NextStoredInv, PTL DEF Spec, LoadsWhatWasStored

-----------------------------------------------------------------------------
(* What the opcodes compute                                                *)

\* The bitwise opcodes, bit by bit.
LEMMA BitwiseResults ==
  ASSUME NEW a \in Word, NEW b \in Word
  PROVE  /\ BitsFrom(BitAnd(a, b), a, b, {<<1, 1>>})
         /\ BitsFrom(BitXor(a, b), a, b, {<<0, 1>>, <<1, 0>>})
         /\ BitsFrom(BitOr(a, b), a, b, {<<0, 1>>, <<1, 0>>, <<1, 1>>})
  <1>1. ASSUME NEW k \in Bits
        PROVE  get_bit(a, k) \in {0, 1} /\ get_bit(b, k) \in {0, 1}
    <2>1. a \in Nat /\ b \in Nat /\ k \in 0 .. 32
      BY WordSize DEF Word, Bits
    <2>2. QED
      BY <2>1, BitValues
  <1>2. ASSUME NEW k \in Bits
        PROVE  /\ get_bit(BitAnd(a, b), k) = 1 <=> get_bit(a, k) = 1 /\ get_bit(b, k) = 1
               /\ get_bit(BitXor(a, b), k) = 1 <=> get_bit(a, k) # get_bit(b, k)
               /\ get_bit(BitOr(a, b), k) = 1 <=> get_bit(a, k) = 1 \/ get_bit(b, k) = 1
    <2>0. \A F : get_bit(BitSum(F), k) = IF F[k] THEN 1 ELSE 0
      BY BitSumHasBits, Zenon
    <2> DEFINE F == [j \in Bits |-> get_bit(a, j) = 1 /\ get_bit(b, j) = 1]
               G == [j \in Bits |-> get_bit(a, j) # get_bit(b, j)]
               H == [j \in Bits |-> get_bit(a, j) = 1 \/ get_bit(b, j) = 1]
    <2>1. /\ F[k] <=> get_bit(a, k) = 1 /\ get_bit(b, k) = 1
          /\ G[k] <=> get_bit(a, k) # get_bit(b, k)
          /\ H[k] <=> get_bit(a, k) = 1 \/ get_bit(b, k) = 1
      BY Zenon
    <2>2. BitAnd(a, b) = BitSum(F) /\ BitXor(a, b) = BitSum(G) /\ BitOr(a, b) = BitSum(H)
      BY Zenon DEF BitAnd, BitOr, BitXor
    <2> HIDE DEF F, G, H
    <2>3. /\ get_bit(BitAnd(a, b), k) = IF F[k] THEN 1 ELSE 0
          /\ get_bit(BitXor(a, b), k) = IF G[k] THEN 1 ELSE 0
          /\ get_bit(BitOr(a, b), k) = IF H[k] THEN 1 ELSE 0
      BY <2>0, <2>2, Zenon
    <2>4. 0 # 1
      OBVIOUS
    <2>5. QED
      BY <2>1, <2>3, <2>4, Zenon
  <1>3. ASSUME NEW k \in Bits
        PROVE  LET s == <<get_bit(a, k), get_bit(b, k)>>
               IN  /\ s \in {<<1, 1>>} <=> get_bit(a, k) = 1 /\ get_bit(b, k) = 1
                   /\ s \in {<<0, 1>>, <<1, 0>>} <=> get_bit(a, k) # get_bit(b, k)
                   /\ s \in {<<0, 1>>, <<1, 0>>, <<1, 1>>}
                        <=> get_bit(a, k) = 1 \/ get_bit(b, k) = 1
    BY <1>1
  <1>4. QED
    BY <1>2, <1>3, Zenon DEF BitsFrom

\* The arithmetic opcodes, modulo the word size.
LEMMA ArithmeticResults ==
  ASSUME NEW a \in Int, NEW b \in Int, NEW c \in Int
  PROVE  /\ (Sub(a, b) + b - a) % WordMod = 0
         /\ (Add(a, b) - a - b) % WordMod = 0
         /\ (Add(a, Add(b, c)) - a - b - c) % WordMod = 0
         /\ (Sub(a, Add(b, 1 - c)) + b - a + (1 - c)) % WordMod = 0
  <1>1. PICK B \in Nat \ {0} : B = WordMod
    BY WordSize
  <1>2. \A x \in Int : \E k \in Int : x % B = x + B * k
    <2> SUFFICES ASSUME NEW x \in Int
                 PROVE  \E k \in Int : x % B = x + B * k
      OBVIOUS
    <2>1. PICK q \in Int : x = (x % B) + B * q
      BY ModSplit
    <2>2. PICK k \in Int : k = -q
      OBVIOUS
    <2>3. x % B \in Int
      OBVIOUS
    <2>4. x % B = x + B * k
      BY <2>1, <2>2, <2>3
    <2>5. QED
      BY <2>4
  <1>3. \A k \in Int : (B * k) % B = 0
    <2> TAKE k \in Int
    <2>1. PICK r \in 0 .. B - 1 : r = 0
      OBVIOUS
    <2>2. (r + B * k) % B = r
      BY ModUnique
    <2>3. QED
      BY <2>1, <2>2
  <1>4. PICK k \in Int : (a - b) % B = a - b + B * k
    <2>1. PICK x \in Int : x = a - b
      OBVIOUS
    <2>2. QED
      BY <1>2, <2>1
  <1>5. PICK l \in Int : (a + b) % B = a + b + B * l
    <2>1. PICK x \in Int : x = a + b
      OBVIOUS
    <2>2. QED
      BY <1>2, <2>1
  <1>6. PICK m \in Int : (b + c) % B = b + c + B * m
    <2>1. PICK x \in Int : x = b + c
      OBVIOUS
    <2>2. QED
      BY <1>2, <2>1
  <1>7. PICK s \in Int : s = (b + c) % B
    OBVIOUS
  <1>8. PICK n \in Int : (a + s) % B = a + s + B * n
    <2>1. PICK x \in Int : x = a + s
      OBVIOUS
    <2>2. QED
      BY <1>2, <2>1
  <1>9. PICK u \in Int : (b + (1 - c)) % B = b + (1 - c) + B * u
    <2>1. PICK x \in Int : x = b + (1 - c)
      OBVIOUS
    <2>2. QED
      BY <1>2, <2>1
  <1>10. PICK v \in Int : v = (b + (1 - c)) % B
    OBVIOUS
  <1>11. PICK w \in Int : (a - v) % B = a - v + B * w
    <2>1. PICK x \in Int : x = a - v
      OBVIOUS
    <2>2. QED
      BY <1>2, <2>1
  <1>12. Sub(a, b) + b - a = B * k
    BY <1>1, <1>4 DEF Sub
  <1>13. Add(a, b) - a - b = B * l
    BY <1>1, <1>5 DEF Add
  <1>14. Add(a, Add(b, c)) - a - b - c = B * (m + n)
    <2>1. Add(a, Add(b, c)) = (a + s) % B
      BY <1>1, <1>7 DEF Add
    <2>2. PICK M \in Int, N \in Int : M = B * m /\ N = B * n /\ B * (m + n) = M + N
      OBVIOUS
    <2>3. s = b + c + M /\ (a + s) % B = a + s + N
      BY <1>6, <1>7, <1>8, <2>2
    <2>4. PICK r \in Int : r = (a + s) % B
      OBVIOUS
    <2>5. r - a - b - c = M + N
      BY <2>3, <2>4
    <2>6. QED
      BY <2>1, <2>2, <2>4, <2>5
  <1>15. Sub(a, Add(b, 1 - c)) + b - a + (1 - c) = B * (w - u)
    <2>1. Sub(a, Add(b, 1 - c)) = (a - v) % B
      BY <1>1, <1>10 DEF Add, Sub
    <2>2. PICK M \in Int, N \in Int : M = B * u /\ N = B * w /\ B * (w - u) = N - M
      OBVIOUS
    <2>3. v = b + (1 - c) + M /\ (a - v) % B = a - v + N
      BY <1>9, <1>10, <1>11, <2>2
    <2>4. PICK r \in Int : r = (a - v) % B
      OBVIOUS
    <2>5. r + b - a + (1 - c) = N - M
      BY <2>3, <2>4
    <2>6. QED
      BY <2>1, <2>2, <2>4, <2>5
  <1>16. m + n \in Int /\ w - u \in Int
    OBVIOUS
  <1>17. QED
    BY <1>1, <1>3, <1>12, <1>13, <1>14, <1>15, <1>16

LEMMA ResultsAsSaid ==
  ASSUME NEW op \in (0 .. 7) \cup {12, 13}, NEW a \in Word, NEW b \in Word,
         NEW c \in Int
  PROVE  Says(op, AluResult(op, a, b, c), a, b, c)
  <1>1. a \in Int /\ b \in Int
    BY DEF Word
  <1>2. op \in {0, 1, 2, 3, 4, 5, 6, 7, 12, 13}
    OBVIOUS
  <1>3. /\ (Sub(a, b) + b - a) % WordMod = 0 /\ (Sub(b, a) + a - b) % WordMod = 0
        /\ (Add(a, b) - a - b) % WordMod = 0
        /\ (Add(a, Add(b, c)) - a - b - c) % WordMod = 0
        /\ (Sub(a, Add(b, 1 - c)) + b - a + (1 - c)) % WordMod = 0
        /\ (Sub(b, Add(a, 1 - c)) + a - b + (1 - c)) % WordMod = 0
    BY <1>1, ArithmeticResults
  <1>4. CASE op = 0
    <2>1. AluResult(op, a, b, c) = BitAnd(a, b)
      BY <1>4 DEF AluResult
    <2>2. BitsFrom(BitAnd(a, b), a, b, {<<1, 1>>})
      BY BitwiseResults
    <2>3. QED
      BY <1>4, <2>1, <2>2 DEF Says
  <1>5. CASE op = 1
    <2>1. AluResult(op, a, b, c) = BitXor(a, b)
      BY <1>5 DEF AluResult
    <2>2. BitsFrom(BitXor(a, b), a, b, {<<0, 1>>, <<1, 0>>})
      BY BitwiseResults
    <2>3. QED
      BY <1>5, <2>1, <2>2 DEF Says
  <1>6. CASE op = 12
    <2>1. AluResult(op, a, b, c) = BitOr(a, b)
      BY <1>6 DEF AluResult
    <2>2. BitsFrom(BitOr(a, b), a, b, {<<0, 1>>, <<1, 0>>, <<1, 1>>})
      BY BitwiseResults
    <2>3. QED
      BY <1>6, <2>1, <2>2 DEF Says
  <1>7. CASE op \in 2 .. 7
    <2>0. PICK v : v = AluResult(op, a, b, c)
      OBVIOUS
    <2>1. CASE op = 2
      <3>1. v = Sub(a, b)
        BY <2>0, <2>1 DEF AluResult
      <3>2. QED
        BY <1>3, <2>0, <2>1, <3>1 DEF Says
    <2>2. CASE op = 3
      <3>1. v = Sub(b, a)
        BY <2>0, <2>2 DEF AluResult
      <3>2. QED
        BY <1>3, <2>0, <2>2, <3>1 DEF Says
    <2>3. CASE op = 4
      <3>1. v = Add(a, b)
        BY <2>0, <2>3 DEF AluResult
      <3>2. QED
        BY <1>3, <2>0, <2>3, <3>1 DEF Says
    <2>4. CASE op = 5
      <3>1. v = Add(a, Add(b, c))
        BY <2>0, <2>4 DEF AluResult
      <3>2. QED
        BY <1>3, <2>0, <2>4, <3>1 DEF Says
    <2>5. CASE op = 6
      <3>1. v = Sub(a, Add(b, 1 - c))
        BY <2>0, <2>5 DEF AluResult
      <3>2. QED
        BY <1>3, <2>0, <2>5, <3>1 DEF Says
    <2>6. CASE op = 7
      <3>1. v = Sub(b, Add(a, 1 - c))
        BY <2>0, <2>6 DEF AluResult
      <3>2. QED
        BY <1>3, <2>0, <2>6, <3>1 DEF Says
    <2>7. QED
      BY <1>7, <2>1, <2>2, <2>3, <2>4, <2>5, <2>6
  <1>8. CASE op = 13
    BY <1>8 DEF Says, AluResult
  <1>9. QED
    BY <1>2, <1>4, <1>5, <1>6, <1>7, <1>8

\* A data-processing instruction on an immediate.
LEMMA ImmediateResult ==
  ASSUME NEW p, NEW b, NEW n, Shape(p, b, n), NEW q \in arm_step(p), ~q.fault,
         NEW i, i = Decode(FetchedWord(p)), IsDataProcessing(i), i.b25 = 1,
         i.cond = 14, opcode(i) \notin Compares
  PROVE  LET f == arm_fetch(p)
         IN  q.reg[i.rd] = AluResult(opcode(i), arm_read_register(f, i.rn),
                                     ror(get_bits(i.lo12, 7, 0), 2 * rs(i)),
                                     FlagC(p.reg[CPSR]))
  <1> DEFINE f == arm_fetch(p)
             o == ror(get_bits(i.lo12, 7, 0), 2 * rs(i))
             a == arm_read_register(f, i.rn)
  <1>1. IsDecoded(i) /\ Shape(f, b, n) /\ i.rd \in Reg
    BY DecodeTyped, FetchKeeps, FieldsTyped
  <1>2. ConditionHolds(p.reg[CPSR], i.cond)
    BY SMT DEF ConditionHolds
  <1>3. q = f \/ ~f.fault
    BY StepCases, Zenon
  <1>4. q \in Dispatch(f, i)
    BY <1>2, <1>3, StepDispatches, Zenon
  <1>5. arm_read_cpsr(f) = p.reg[CPSR]
    BY FetchStatus
  <1>6. Operand2(f, i) = {o}
    BY Zenon DEF Operand2
  <1> HIDE DEF f, o, a
  <1>7. q \in DataProcessing(f, i)
    BY <1>4, SMT DEF Dispatch, IsDataProcessing
  <1>8. \E x \in {a}, y \in Operand2(f, i) :
          q = arm_write_register(f, i.rd,
                AluResult(opcode(i), x, y, FlagC(arm_read_cpsr(f))))
    BY <1>7, SMT DEF DataProcessing, update_flag, a
  <1>9. q = arm_write_register(f, i.rd, AluResult(opcode(i), a, o, FlagC(p.reg[CPSR])))
    BY <1>5, <1>6, <1>8
  <1>10. q.reg[i.rd] = AluResult(opcode(i), a, o, FlagC(p.reg[CPSR]))
    BY <1>1, <1>9, WrittenRegister
  <1>11. QED
    BY <1>10, Zenon DEF f, o, a

\* The arithmetic and logical instructions on an immediate compute what
\* their comments say, bit by bit and with the carries, borrows and
\* wrap-around of the word, for every value of rn, of the rotated immediate
\* and of the carry flag.
THEOREM OpcodesCompute == Spec => AluAsCommented
  <1> DEFINE A == last' = "step" /\ ~arm'.fault =>
       LET i == Instruction
       IN  IsDataProcessing(i) /\ i.b25 = 1 /\ i.cond = 14
             /\ opcode(i) \in (0 .. 7) \cup {12, 13}
           => Says(opcode(i), arm'.reg[i.rd],
                   arm_read_register(arm_fetch(arm), i.rn),
                   ror(get_bits(i.lo12, 7, 0), 2 * rs(i)),
                   FlagC(arm.reg[CPSR]))
  <1>1. ASSUME TypeInv, [Next]_vars
        PROVE  [A]_vars
    <2>1. CASE Step
      <3>1. PICK b, n : b \in Orders /\ n \in Nat /\ Shape(arm, b, n)
        BY <1>1, Zenon DEF IsCore, TypeInv
      <3>2. arm' \in arm_step(arm)
        BY <2>1, Zenon DEF Step
      <3>3. PICK i : i = Instruction
        OBVIOUS
      <3> DEFINE a == arm_read_register(arm_fetch(arm), i.rn)
                 o == ror(get_bits(i.lo12, 7, 0), 2 * rs(i))
                 c == FlagC(arm.reg[CPSR])
      <3>4. IsDecoded(i) /\ Shape(arm_fetch(arm), b, n)
        BY <3>1, <3>3, DecodeTyped, FetchKeeps DEF Instruction
      <3>5. a \in Word /\ o \in Word /\ c \in Int
        <4>1. a \in Word
          BY <3>4, FieldsTyped, RegisterIsWord
        <4>2. o \in Word
          <5>1. i.lo12 \in Low12
            BY <3>4, Zenon DEF IsDecoded
          <5>2. get_bits(i.lo12, 7, 0) \in 0 .. 255
            BY <5>1, Fields12, Zenon
          <5>3. get_bits(i.lo12, 7, 0) \in Word
            BY <5>2, SmallWords
          <5>4. 2 * rs(i) \in Nat
            BY <3>4, FieldsTyped
          <5>5. QED
            BY <5>3, <5>4, Rotations
        <4>3. c \in {0, 1}
          <5>1. arm.reg[CPSR] \in Word
            BY <3>1, RegisterIsWord DEF CPSR, Reg
          <5>2. QED
            BY <5>1, CarryIsBit
        <4>4. QED
          BY <4>1, <4>2, <4>3
      <3>6. ASSUME ~arm'.fault, IsDataProcessing(i), i.b25 = 1, i.cond = 14,
                   opcode(i) \in (0 .. 7) \cup {12, 13}
            PROVE  Says(opcode(i), arm'.reg[i.rd], a, o, c)
        <4>1. i = Decode(FetchedWord(arm)) /\ opcode(i) \notin Compares
          BY <3>3, <3>6 DEF Instruction, Compares
        <4>2. arm'.reg[i.rd] = AluResult(opcode(i), a, o, c)
          BY <3>1, <3>2, <3>6, <4>1, ImmediateResult
        <4> HIDE DEF a, o, c
        <4>3. Says(opcode(i), AluResult(opcode(i), a, o, c), a, o, c)
          BY <3>5, <3>6, ResultsAsSaid
        <4>4. QED
          BY <4>2, <4>3, Zenon
      <3>7. A
        BY <3>3, <3>6, Zenon
      <3>8. QED
        BY <3>7, Zenon
    <2>2. CASE \E e \in Exceptions : Exception(e)
      BY <2>2 DEF Exception
    <2>3. QED
      BY <1>1, <2>1, <2>2 DEF Next
  <1>2. Init => TypeInv
    BY InitIsCore DEF Init, TypeInv
  <1>3. QED
    BY <1>1, <1>2, NextTypeInv, PTL DEF Spec, AluAsCommented
=============================================================================

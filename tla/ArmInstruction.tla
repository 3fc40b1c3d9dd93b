--------------------------- MODULE ArmInstruction ---------------------------
(***************************************************************************)
(* arm_instruction.c, arm_load_store.c and arm_branch_other.c: one step of *)
(* the processor, as operators from a core to the set of the cores it may  *)
(* become.  The set has several members exactly where the code reads an    *)
(* uninitialised variable or falls off the end of a function, which the    *)
(* build may turn into either outcome:                                     *)
(*   - bits4_11 is never assigned, so a register operand is taken plain or *)
(*     shifted;                                                            *)
(*   - shift_imm is assigned only for LSL, so LSR, ASR and ROR by an       *)
(*     immediate shift by any amount;                                      *)
(*   - ConditionPassed returns nothing when the condition fails.           *)
(*                                                                         *)
(* Decode gives the fields of an instruction word (the get_bits of it):    *)
(* cond 31..28, cls 27..26, the single bits 25..20, rn 19..16, rd 15..12   *)
(* and lo12 11..0.  Instructions gives them for the words of interest, all *)
(* of them in the program; where TLC enumerates states the other words are *)
(* taken for the all-one word, an instruction without effect.              *)
(***************************************************************************)
EXTENDS ArmCore

CONSTANT Instructions

Fields(cond, cls, bits, rn, rd, lo12) ==
  [cond |-> cond, cls |-> cls,
   b25 |-> get_bit(bits, 5), b24 |-> get_bit(bits, 4),
   b23 |-> get_bit(bits, 3), b22 |-> get_bit(bits, 2),
   b21 |-> get_bit(bits, 1), b20 |-> get_bit(bits, 0),
   rn |-> rn, rd |-> rd, lo12 |-> lo12]

AllOnes == Fields(15, 3, 63, 15, 15, 4095)
Decode(w) == IF w \in DOMAIN Instructions THEN Instructions[w] ELSE AllOnes

\* The values a field can have by its width.
Bit == {0, 1}
Low12 == 0 .. 4095
IsDecoded(i) == /\ i.cond \in 0 .. 15 /\ i.cls \in 0 .. 3
                /\ i.b25 \in Bit /\ i.b24 \in Bit /\ i.b23 \in Bit
                /\ i.b22 \in Bit /\ i.b21 \in Bit /\ i.b20 \in Bit
                /\ i.rn \in 0 .. 15 /\ i.rd \in 0 .. 15
                /\ i.lo12 \in Low12

\* A byte has 8 bits, or fewer as long as the word holds the reset cpsr clear
\* of its four flags.
ASSUME CpsrAssumption == ByteBits \in 4 .. 8

ASSUME DecodeAssumption == /\ \A w \in DOMAIN Instructions :
                                IsDecoded(Instructions[w])
                           /\ Decode(0) = Fields(0, 0, 0, 0, 0, 0)
                           /\ Decode(Ones) = AllOnes

-----------------------------------------------------------------------------
\* Fields made of others.
opcode(i) == 8 * i.b24 + 4 * i.b23 + 2 * i.b22 + i.b21
rm(i) == get_bits(i.lo12, 3, 0)
rs(i) == get_bits(i.lo12, 11, 8)
shift_imm(i) == get_bits(i.lo12, 11, 7)
offset24(i) == ((8 * i.b23 + 4 * i.b22 + 2 * i.b21 + i.b20) * 2 ^ 20)
                 + i.rn * 2 ^ 16 + i.rd * 2 ^ 12 + i.lo12

-----------------------------------------------------------------------------
\* The flags of a cpsr.
FlagN(cpsr) == get_bit(cpsr, WordBits - 1)
FlagZ(cpsr) == get_bit(cpsr, WordBits - 2)
FlagC(cpsr) == get_bit(cpsr, WordBits - 3)
FlagV(cpsr) == get_bit(cpsr, WordBits - 4)

\* The conditions for which ConditionPassed returns a value (all of them for
\* 14 and 15, which reach the default case and its return -1).
ConditionHolds(cpsr, cond) ==
  CASE cond = 0  -> FlagZ(cpsr) = 1
    [] cond = 1  -> FlagZ(cpsr) = 0
    [] cond = 2  -> FlagC(cpsr) = 1
    [] cond = 3  -> FlagC(cpsr) = 0
    [] cond = 4  -> FlagN(cpsr) = 1
    [] cond = 5  -> FlagN(cpsr) = 0
    [] cond = 6  -> FlagV(cpsr) = 1
    [] cond = 7  -> FlagV(cpsr) = 0
    [] cond = 8  -> FlagC(cpsr) = 1 /\ FlagZ(cpsr) = 0
    [] cond = 9  -> FlagC(cpsr) = 0 /\ FlagZ(cpsr) = 1
    [] cond = 10 -> FlagN(cpsr) = FlagV(cpsr)
    [] cond = 11 -> FlagN(cpsr) # FlagV(cpsr)
    [] cond = 12 -> FlagZ(cpsr) = 0 /\ FlagN(cpsr) = FlagV(cpsr)
    [] cond = 13 -> FlagZ(cpsr) = 1 \/ FlagN(cpsr) # FlagV(cpsr)
    [] OTHER     -> TRUE
\* Mutated form of ConditionPassed: the default case returns nothing either.
ConditionPassedNoDefault(cpsr, cond) ==
  IF cond < 14 /\ ConditionHolds(cpsr, cond) THEN {TRUE} ELSE BOOLEAN
ConditionPassed(cpsr, cond) ==
  IF ConditionHolds(cpsr, cond) THEN {TRUE} ELSE BOOLEAN

-----------------------------------------------------------------------------
\* The shifter: rs is the NUMBER of the register (the code never reads it),
\* so the branches for amounts of 32 and more are out of reach.
AnyAmount == 0 .. WordBits - 1
shiftedRegisterOperand(p, i) ==
  LET v == arm_read_register(p, rm(i))
      kind == get_bits(i.lo12, 6, 4)
      rrx == ShiftRight(v, 1)
  IN  CASE kind = 0 -> {ShiftLeft(v, shift_imm(i))}
        [] kind = 1 -> {ShiftLeft(v, rs(i))}
        [] kind = 2 -> {0} \cup {ShiftRight(v, n) : n \in AnyAmount}
        [] kind = 3 -> {ShiftRight(v, rs(i))}
        [] kind = 4 -> {Ones * SignBit(v)} \cup {asr(v, n) : n \in AnyAmount}
        [] kind = 5 -> IF rs(i) = 0 THEN {v} ELSE {asr(v, rs(i))}
        [] kind = 6 -> IF shift_imm(i) = 0 THEN {rrx}
                       ELSE {rrx} \cup {ror(v, n) : n \in AnyAmount}
        [] OTHER    -> {ror(v, rs(i))}

Operand2(p, i) ==
  IF i.b25 = 1 THEN {ror(get_bits(i.lo12, 7, 0), 2 * rs(i))}
  ELSE {arm_read_register(p, rm(i))} \cup shiftedRegisterOperand(p, i)

\* The value each opcode writes to rd.  TST, TEQ, CMP and CMN write none.
Compares == 8 .. 11
AluResult(op, a, b, carry) ==
  CASE op = 0  -> BitAnd(a, b)
    [] op = 1  -> BitXor(a, b)
    [] op = 2  -> Sub(a, b)
    [] op = 3  -> Sub(b, a)
    [] op = 4  -> Add(a, b)
    [] op = 5  -> Add(a, Add(b, carry))
    [] op = 6  -> Sub(a, Add(b, 1 - carry))
    [] op = 7  -> Sub(b, Add(a, 1 - carry))
    [] op = 12 -> BitOr(a, b)
    [] op = 13 -> b
    [] op = 14 -> BitAnd(a, LogicalNot(b))
    [] op = 15 -> LogicalNot(b)

\* update_flag and update_Flag_N, Z, C, V: the new cpsr is computed from a
\* copy and dropped.
update_flag(p) == p

\* Mutated form of DataProcessing: the carry is not read.
DataProcessingNoCarry(p, i) ==
  LET Result(b) == AluResult(opcode(i), arm_read_register(p, i.rn), b, 0)
  IN  IF opcode(i) \in Compares THEN {update_flag(p)}
      ELSE {update_flag(arm_write_register(p, i.rd, Result(b))) :
              b \in Operand2(p, i)}

\* a is rn, read right after the fetch; b is what the operand may be.
DataProcessing(p, i) ==
  LET Result(a, b) == AluResult(opcode(i), a, b, FlagC(arm_read_cpsr(p)))
  IN  IF opcode(i) \in Compares THEN {update_flag(p)}
      ELSE {update_flag(arm_write_register(p, i.rd, Result(a, b))) :
              a \in {arm_read_register(p, i.rn)}, b \in Operand2(p, i)}

-----------------------------------------------------------------------------
\* The index of a scaled register offset; rm too is a register number.
load_store_shifts_rotate(i) ==
  LET n == shift_imm(i)
      kind == get_bits(i.lo12, 6, 5)
  IN  CASE kind = 0 -> ShiftLeft(rm(i), n)
        [] kind = 1 -> IF n = 0 THEN 0 ELSE ShiftRight(rm(i), n)
        [] kind = 2 -> IF n = 0 THEN Ones * SignBit(rm(i)) ELSE asr(rm(i), n)
        [] OTHER    -> IF n = 0
                       THEN IF get_bit(i.cond, 1) = 1 \/ rm(i) \div 2 # 0
                            THEN 1 ELSE 0
                       ELSE ror(rm(i), n)

\* arm_load_store: the address, from the NUMBER of the base register.  Every
\* branch (pre- and post-indexed) ends up returning rn plus or minus offset.
arm_load_store(i) ==
  LET offset == IF i.b25 = 0 THEN i.lo12
                ELSE IF get_bits(i.lo12, 11, 4) # 0
                THEN load_store_shifts_rotate(i)
                ELSE rm(i)
  IN  IF i.b23 = 1 THEN Add(i.rn, offset) ELSE Sub(i.rn, offset)

\* loadStoreByteOrWord.  The loads use the int the memory returned; a word is
\* rotated by the low bits of the address.
loadStoreByteOrWord(p, address, i) ==
  LET value == arm_read_register(p, i.rd)
      data == ror(WordOf(arm_read_word(p, address)),
                  ByteBits * (address % 4))
      width == IF i.b22 = 1 THEN 1 ELSE 4
  IN  CASE i.b20 = 0 /\ i.b22 = 0 -> arm_write_word(p, address, value)
        [] i.b20 = 0 /\ i.b22 = 1 -> arm_write_byte(p, address, value % ByteMod)
        [] i.b20 = 1 /\ ReadFaults(p.mem, address, width) -> Crash(p)
        [] i.b20 = 1 /\ ~ReadFaults(p.mem, address, width) /\ i.b22 = 0 ->
             arm_write_register(p, i.rd, IF i.rd = PC THEN data - (data % 2)
                                                      ELSE data)
        [] OTHER -> arm_write_register(p, i.rd, arm_read_byte(p, address)[1])

-----------------------------------------------------------------------------
\* Mutated form of Extend_30: zeros whatever the sign.
Extend_30_unsigned(i) == set_bits(offset24(i), 30, 24, 0)

\* Extend_30(x, ins) << 2: the 24-bit offset, with bits 24..29 cleared or set
\* by the set_bits macro, then shifted and cut to a word.
Extend_30(i) ==
  set_bits(offset24(i), 30, 24, IF i.b23 = 0 THEN 0 ELSE 63)
BranchOffset(i) == ShiftLeft(Extend_30(i), 2)

\* Mutated form of arm_branch: B links too.
arm_branch_links(p, i) ==
  LET here == arm_read_register(p, PC)
  IN  arm_write_register(arm_write_register(p, LR, here), PC,
                         Add(here, BranchOffset(i)))

arm_branch(p, i) ==
  LET here == arm_read_register(p, PC)
      linked == IF i.b24 = 1 THEN arm_write_register(p, LR, here) ELSE p
  IN  arm_write_register(linked, PC, Add(here, BranchOffset(i)))

-----------------------------------------------------------------------------
\* Miscellaneous instructions, load and store multiple and the coprocessor
\* return UNDEFINED_INSTRUCTION, which is dropped; swi is not dispatched.
IsMiscellaneous(i) == i.b24 = 1 /\ i.b23 = 0 /\ i.b20 = 0
Dispatch(p, i) ==
  CASE i.cls = 0 /\ ~IsMiscellaneous(i) -> DataProcessing(p, i)
    [] i.cls = 1 -> {loadStoreByteOrWord(p, arm_load_store(i), i)}
    [] i.cls = 2 /\ i.b25 = 1 -> {arm_branch(p, i)}
    [] OTHER -> {p}

arm_execute_instruction(p) ==
  LET i == Decode(FetchedWord(p))
      q == arm_fetch(p)
  IN  IF q.fault THEN {q}
      ELSE UNION {IF ok THEN Dispatch(q, i) ELSE {q} :
                    ok \in ConditionPassed(arm_read_cpsr(q), i.cond)}

\* arm_step: arm_execute_instruction returns 0 in every case, so no exception
\* is raised and 0 is the target_exception gdb reports.
arm_step(p) == arm_execute_instruction(p)
=============================================================================

----------------------------- MODULE ArmMachine -----------------------------
(***************************************************************************)
(* The simulated processor running: arm_step after arm_step from a core    *)
(* that gdb has loaded with a program, with exceptions arriving between    *)
(* two instructions.                                                       *)
(*                                                                         *)
(*   arm     the core (a record of ArmCore)                                *)
(*   last    ghost: what the last transition was                           *)
(*   stored  ghost: the words STR has written and no later store has       *)
(*           overlapped, by address                                        *)
(***************************************************************************)
EXTENDS ArmInstruction

CONSTANTS InitialCores,   \* cores the debugger may start from
          Exceptions,     \* numbers the irq port may deliver
          PcBound         \* how far outside the memory a fetch is followed

\* The cores are those of ArmCore: words in the registers, bytes in memory.
ASSUME CoresAssumption ==
  \A p \in InitialCores :
    /\ p = [reg |-> p.reg, mem |-> p.mem, fault |-> FALSE]
    /\ p.mem = [big |-> p.mem.big, size |-> p.mem.size, cells |-> p.mem.cells]
    /\ p.reg \in [Reg -> Word]
    /\ p.mem.big \in {0, 1} /\ p.mem.size \in Nat
    /\ p.mem.cells \in [0 .. p.mem.size + SlackBytes - 1 -> Byte]

VARIABLES arm, last, stored
vars == <<arm, last, stored>>

\* The instruction about to be executed.
Instruction == Decode(FetchedWord(arm))
IsLoadStore(i) == i.cls = 1
IsStore(i) == IsLoadStore(i) /\ i.b20 = 0
IsBranch(i) == i.cls = 2 /\ i.b25 = 1
IsDataProcessing(i) == i.cls = 0 /\ ~IsMiscellaneous(i)
WritesRd(i) == \/ IsDataProcessing(i) /\ opcode(i) \notin Compares
               \/ IsLoadStore(i) /\ i.b20 = 1
StoreWidth(i) == IF i.b22 = 1 THEN 1 ELSE 4

\* Bound: a pc far outside the memory fetches -1 and only moves on.
Followed(p) == LET a == FetchAddress(p)
               IN  a < p.mem.size + PcBound \/ a >= WordMod - PcBound

-----------------------------------------------------------------------------
Init == /\ arm \in InitialCores
        /\ last = "init"
        /\ stored = << >>

\* The words still standing once the n bytes from a are written.
Standing(a, n) == {b \in DOMAIN stored : b + 4 <= a \/ a + n <= b}

\* The ghost after the instruction i has led to the core q.
StoredAfter(i, q) ==
  LET a == arm_load_store(i)
      kept == Standing(a, StoreWidth(i))
  IN  IF q.mem = arm.mem THEN stored
      ELSE IF StoreWidth(i) = 1 THEN [b \in kept |-> stored[b]]
      ELSE [b \in kept \cup {a} |->
              IF b = a THEN arm_read_register(arm_fetch(arm), i.rd)
                       ELSE stored[b]]

Step == /\ ~arm.fault
        /\ Followed(arm)
        /\ \E q \in arm_step(arm) :
             /\ arm' = q
             /\ stored' = StoredAfter(Instruction, q)
        /\ last' = "step"

Exception(e) == /\ ~arm.fault
                /\ arm' = arm_exception(arm, e)
                /\ last' = IF e = RESET THEN "reset" ELSE "exception"
                /\ UNCHANGED stored

Next == Step \/ \E e \in Exceptions : Exception(e)

Spec == Init /\ [][Next]_vars

-----------------------------------------------------------------------------
TypeOK == /\ arm.reg \in [Reg -> Word]
          /\ arm.mem.big \in {0, 1}
          /\ arm.mem.cells \in [0 .. arm.mem.size + SlackBytes - 1 -> Byte]
          /\ arm.fault \in BOOLEAN
          /\ last \in {"init", "step", "reset", "exception"}
          /\ \A a \in DOMAIN stored : stored[a] \in Word

\* The signed value of the 24-bit offset of a branch.
SignedOffset(i) == IF offset24(i) >= 2 ^ 23 THEN offset24(i) - 2 ^ 24
                                            ELSE offset24(i)

\* Control flow: after an instruction the next fetch is 4 bytes further,
\* unless it branched, to 8 bytes past itself plus four times the signed
\* offset (Extend_30 and the set_bits macro against two's complement), or
\* wrote the pc as rd.  A failed condition keeps the first case possible.
NextFetch ==
  [][last' = "step" /\ ~arm'.fault =>
       LET i == Instruction
           here == FetchAddress(arm)
           sequential == arm'.reg[PC] = Add(here, 4)
           target == (here + 8 + 4 * SignedOffset(i)) % WordMod
       IN  CASE IsBranch(i) /\ ConditionHolds(arm.reg[CPSR], i.cond) ->
                  arm'.reg[PC] = target
             [] IsBranch(i) -> sequential \/ arm'.reg[PC] = target
             [] WritesRd(i) /\ i.rd = PC -> TRUE
             [] OTHER -> sequential]_vars

\* What an instruction may touch: rd, the link register of a BL, the pc, and
\* the one or four bytes a store addresses.  The status registers, and with
\* them the processor mode, only change by an exception.
StepFrame ==
  [][last' = "step" =>
       LET i == Instruction
       IN  /\ \A r \in Reg : arm'.reg[r] # arm.reg[r] =>
                \/ r = PC
                \/ r = i.rd /\ WritesRd(i)
                \/ r = LR /\ IsBranch(i) /\ i.b24 = 1
           /\ \A a \in DOMAIN arm.mem.cells :
                arm'.mem.cells[a] # arm.mem.cells[a] =>
                  /\ IsStore(i)
                  /\ a - arm_load_store(i) \in 0 .. StoreWidth(i) - 1]_vars

\* What a program stored it loads back: an LDR from a multiple of 4 brings
\* back the word the last STR there had taken from its register, whatever
\* was executed in between, in both endiannesses.
LoadsWhatWasStored ==
  [][last' = "step" /\ ~arm'.fault =>
       LET i == Instruction
           a == arm_load_store(i)
       IN  /\ IsLoadStore(i) /\ i.b20 = 1 /\ i.b22 = 0
           /\ i.rd # PC /\ i.cond = 14
           /\ a \in DOMAIN stored /\ a % 4 = 0 /\ Accepts(arm.mem, a)
           => arm'.reg[i.rd] = stored[a]]_vars

\* An instruction has one outcome, unless its condition fails
\* (ConditionPassed returns nothing) or it is a data-processing instruction
\* on a register whose shift field is not zero (bits4_11, shift_imm).
OneOutcome ==
  ~arm.fault /\ Cardinality(arm_step(arm)) > 1 =>
    \/ ~ConditionHolds(arm.reg[CPSR], Instruction.cond)
    \/ /\ IsDataProcessing(Instruction)
       /\ Instruction.b25 = 0
       /\ get_bits(Instruction.lo12, 11, 4) # 0

\* What the comments of the opcodes say rd becomes, from rn (a), the operand
\* (b) and the carry (c): bit by bit, from the pairs of bits that give a one,
\* and modulo the word size.
BitsFrom(v, a, b, ones) ==
  \A k \in Bits : get_bit(v, k) = 1 <=> <<get_bit(a, k), get_bit(b, k)>> \in ones
Says(op, v, a, b, c) ==
  CASE op = 0  -> BitsFrom(v, a, b, {<<1, 1>>})
    [] op = 1  -> BitsFrom(v, a, b, {<<0, 1>>, <<1, 0>>})
    [] op = 2  -> (v + b - a) % WordMod = 0
    [] op = 3  -> (v + a - b) % WordMod = 0
    [] op = 4  -> (v - a - b) % WordMod = 0
    [] op = 5  -> (v - a - b - c) % WordMod = 0
    [] op = 6  -> (v + b - a + (1 - c)) % WordMod = 0
    [] op = 7  -> (v + a - b + (1 - c)) % WordMod = 0
    [] op = 12 -> BitsFrom(v, a, b, {<<0, 1>>, <<1, 0>>, <<1, 1>>})
    [] op = 13 -> v = b

\* The arithmetic and logical opcodes compute what their comments say, with
\* the carries, borrows and wrap-around of 32-bit words.  BIC and MVN are
\* not among them: the code negates their operand with ! instead of ~.
AluAsCommented ==
  [][last' = "step" /\ ~arm'.fault =>
       LET i == Instruction
       IN  IsDataProcessing(i) /\ i.b25 = 1 /\ i.cond = 14
             /\ opcode(i) \in (0 .. 7) \cup {12, 13}
           => Says(opcode(i), arm'.reg[i.rd],
                   arm_read_register(arm_fetch(arm), i.rn),
                   ror(get_bits(i.lo12, 7, 0), 2 * rs(i)),
                   FlagC(arm.reg[CPSR]))]_vars

-----------------------------------------------------------------------------
(* What the repository says and the code does not do.                      *)

\* trace.c: "the first instruction at reset fetches from 0x0".
ResetFetchesFromZero ==
  [][last' = "reset" => FetchAddress(arm') = 0]_vars
=============================================================================

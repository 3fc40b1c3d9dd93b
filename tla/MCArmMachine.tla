---------------------------- MODULE MCArmMachine ----------------------------
(***************************************************************************)
(* Instances of ArmMachine for TLC: 28-bit words (four 7-bit bytes, the    *)
(* widest TLC's integers allow and wide enough for the sign extension of a *)
(* branch offset to show), a memory of six words, three-instruction        *)
(* programs at address 0 followed by zeros, and the program of             *)
(* Examples/example1.s.                                                    *)
(***************************************************************************)
EXTENDS ArmMachine, Sequences, TLC

AL == 14
EQ == 0
NE == 1

\* Assembler: the fields of some instructions.
Data(cond, op, rn, rd, imm) == Fields(cond, 0, 33 + 2 * op, rn, rd, imm)
DataReg(op, rn, rd, lo12) == Fields(AL, 0, 1 + 2 * op, rn, rd, lo12)
Str(rn, rd, off)  == Fields(AL, 1, 24, rn, rd, off)
Strb(rn, rd, off) == Fields(AL, 1, 28, rn, rd, off)
Ldr(rn, rd, off)  == Fields(AL, 1, 25, rn, rd, off)
Ldrb(rn, rd, off) == Fields(AL, 1, 29, rn, rd, off)
LdrBelow(rn, rd, off) == Fields(AL, 1, 17, rn, rd, off)
LdrScaled(rn, rd, lo12) == Fields(AL, 1, 57, rn, rd, lo12)
Branch(cond, link, off) ==
  LET o == off % 2 ^ 24
  IN  Fields(cond, 2, 32 + 16 * link + get_bits(o, 23, 20),
             get_bits(o, 19, 16), get_bits(o, 15, 12), get_bits(o, 11, 0))

\* First, second and third instruction of the programs.
Heads == [k \in 1 .. 32 |-> Data(AL, k % 16, 0, 1,
                                 IF k > 16 THEN 3 ELSE 9 * 256 + 6)]
Middles == <<Str(8, 1, 4), Strb(8, 1, 7), Str(15, 1, 4000), Str(8, 15, 6),
             DataReg(13, 0, 2, 1 + 32 + 128), DataReg(4, 1, 2, 1 + 64 + 256),
             DataReg(0, 1, 2, 1 + 96 + 384), DataReg(12, 15, 2, 1 + 48 + 512),
             DataReg(13, 0, 2, 1 + 27 * 128), DataReg(13, 0, 2, 1 + 16 + 7 * 256),
             DataReg(13, 0, 2, 1 + 80 + 256), DataReg(13, 0, 2, 1 + 112 + 256),
             Data(EQ, 13, 0, 2, 7), Data(9, 4, 1, 2, 1),
             Branch(AL, 0, -3), Branch(NE, 1, 0), Branch(AL, 1, 2),
             Fields(AL, 0, 16, 0, 0, 0), Fields(AL, 2, 0, 0, 0, 0)>>
Tails == <<Ldr(8, 2, 4), Ldr(8, 3, 6), Ldrb(8, 2, 7), Ldr(8, 15, 4),
           LdrBelow(2, 2, 6), LdrScaled(8, 2, 2 + 128), LdrScaled(8, 2, 4),
           LdrScaled(8, 2, 3 + 96), DataReg(13, 0, 15, 14), Strb(15, 1, 0),
           Branch(AL, 0, -4), Fields(AL, 3, 0, 0, 0, 0)>>

\* Word n is the n-th instruction of the table; the others are no-ops.
Table == Heads \o Middles \o Tails
MCInstructions == [w \in {0} \cup DOMAIN Table |->
                     IF w = 0 THEN Fields(0, 0, 0, 0, 0, 0) ELSE Table[w]]

\* A memory that holds a program.
RECURSIVE Loaded(_, _, _)
Loaded(m, a, prog) ==
  IF prog = << >> THEN m
  ELSE Loaded(memory_write_word(m, a, BytesOf(Head(prog))), a + 4, Tail(prog))

Core(big, prog, r0, cpsr) ==
  [reg |-> [r \in Reg |-> CASE r = 0 -> r0 [] r = LR -> 4
                            [] r = CPSR -> cpsr [] OTHER -> 0],
   mem |-> Loaded(memory_create(24, big, 0), 0, prog), fault |-> FALSE]

\* Every head before a store and a load of r1, and every pair of a middle
\* and a tail after MOV r1, #3.
Middle == {32 + k : k \in 1 .. Len(Middles)}
End == {32 + Len(Middles) + k : k \in 1 .. Len(Tails)}
Programs == {<<h, 33, 33 + Len(Middles)>> : h \in 1 .. 32}
              \cup {<<29, m, t>> : m \in Middle, t \in End}

\* Both endiannesses, two values of r0, and three cpsr: after a reset, the
\* same with Z and C set, user mode with N set.
SignWord == 2 ^ (WordBits - 1)
Flags == 2 ^ (WordBits - 2) + 2 ^ (WordBits - 3)
MCInitialCores ==
  {Core(big, prog, r0, cpsr) : big \in {0, 1}, prog \in Programs,
                               r0 \in {5, SignWord + 1},
                               cpsr \in {467, 467 + Flags, 16 + SignWord}}

\* Examples/example1.s: decr, then main (whose first fetch is at 8), and
\* the final swi 0x123456.
SubsR0 == 60
MovPcLr == 61
MovR0 == 62
BlDecr == 63
BneLoop == 64
Swi == 65
ExampleInstructions ==
  (0 :> Fields(0, 0, 0, 0, 0, 0))
    @@ (SubsR0  :> Data(AL, 2, 0, 0, 1))
    @@ (MovPcLr :> Fields(AL, 0, 26, 0, PC, LR))
    @@ (MovR0   :> Fields(AL, 0, 58, 0, 0, 5))
    @@ (BlDecr  :> Branch(AL, 1, -5))
    @@ (BneLoop :> Branch(NE, 0, -3))
    @@ (Swi     :> Fields(AL, 3, 49, 2, 3, 1110))
Example1 == <<SubsR0, MovPcLr, MovR0, BlDecr, BneLoop, Swi>>
ExampleCores ==
  {[Core(1, Example1, 0, 467) EXCEPT !.reg[PC] = 8, !.reg[LR] = 0]}
=============================================================================

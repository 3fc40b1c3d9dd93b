------------------------------ MODULE ArmCore -------------------------------
(***************************************************************************)
(* registers.c, arm_core.c and arm_exception.c: the register file, the     *)
(* accessors the instructions go through, the fetch and the exceptions, as *)
(* operators.                                                              *)
(*                                                                         *)
(* A core is a record: reg holds the 18 words of r_data (r0..r15, the cpsr *)
(* in 16, the spsr in 17; no register is banked), mem the memory, fault    *)
(* whether an access has killed the process.  Tracing and the cycle count, *)
(* which only the traces use, are left out.                                *)
(***************************************************************************)
EXTENDS MemoryOps

\* The unprivileged mode, and the exception with an effect.
USR == 16
RESET == 1

Reg == 0 .. 17
PC == 15
LR == 14
CPSR == 16
SPSR == 17

\* The cpsr after a reset, 0x1d3: supervisor mode, interrupts disabled, flags 0.
ResetCpsr == 467

Crash(p) == [p EXCEPT !.fault = TRUE]

-----------------------------------------------------------------------------
get_mode(p) == p.reg[CPSR] % 32
in_a_privileged_mode(p) == get_mode(p) # USR

\* Bit 1 of the value is cleared by the mask 0xFFFFFFFD.
arm_read_register(p, r) ==
  IF r = PC THEN LET v == Add(p.reg[PC], 4) IN v - 2 * get_bit(v, 1)
            ELSE p.reg[r]
arm_read_cpsr(p) == p.reg[CPSR]

arm_write_register(p, r, v) == [p EXCEPT !.reg[r] = v]
arm_write_cpsr(p, v) == [p EXCEPT !.reg[CPSR] = v]
arm_write_usr_register(p, r, v) ==
  IF in_a_privileged_mode(p) THEN p ELSE [p EXCEPT !.reg[r] = v]

-----------------------------------------------------------------------------
\* The address the next fetch reads, and the fetch: the word that comes back
\* (the int memory_read_word returned) and the core with its pc advanced.
FetchAddress(p) == Sub(arm_read_register(p, PC), 4)
FetchedWord(p) == WordOf(memory_read_word(p.mem, FetchAddress(p)))
arm_fetch(p) ==
  IF ReadFaults(p.mem, FetchAddress(p), 4) THEN Crash(p)
  ELSE arm_write_register(p, PC, Add(FetchAddress(p), 4))

\* Mutated form of arm_read_word: little endian whatever the memory is.
arm_read_word_little(p, a) == memory_read_word([p.mem EXCEPT !.big = 0], a)

\* Data accesses.  A write outside the mapping ends the process.
arm_read_byte(p, a) == memory_read_byte(p.mem, a)
arm_read_word(p, a) == memory_read_word(p.mem, a)
arm_write_byte(p, a, v) ==
  IF WriteFaults(p.mem, a, 1) THEN Crash(p)
  ELSE [p EXCEPT !.mem = memory_write_byte(p.mem, a, v)]
arm_write_word(p, a, v) ==
  IF WriteFaults(p.mem, a, 4) THEN Crash(p)
  ELSE [p EXCEPT !.mem = memory_write_word(p.mem, a, BytesOf(v))]

-----------------------------------------------------------------------------
\* arm_exception: only RESET does anything.
arm_exception(p, e) ==
  IF e = RESET
  THEN arm_write_usr_register(arm_write_cpsr(p, ResetCpsr), PC, 0)
  ELSE p

\* arm_create over register words that malloc left undefined.
arm_create(mem, garbage) ==
  arm_exception([reg |-> garbage, mem |-> mem, fault |-> FALSE], RESET)
=============================================================================

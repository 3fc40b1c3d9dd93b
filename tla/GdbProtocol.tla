---------------------------- MODULE GdbProtocol -----------------------------
(***************************************************************************)
(* gdb_protocol.c: the handlers of gdb's packets, as operators from the    *)
(* core and a packet to the set of their outcomes.  An outcome is a record *)
(* with the core, the target_exception, the reply (NoReply for kill) and   *)
(* whether an assertion failed.                                            *)
(*                                                                         *)
(* A packet is a record whose field cmd is the character after the $.  The *)
(* text of a packet is kept where its conversion matters: a register value *)
(* is its four hexadecimal byte pairs in the order they are sent, and the  *)
(* register number of p and P is the number its hexadecimal text denotes.  *)
(***************************************************************************)
EXTENDS ArmInstruction

CONSTANTS TargetBig,   \* 1 when built with BIG_ENDIAN_SIMULATOR, else 0
          HostBig,     \* 1 on a big endian host, else 0
          MAX_PACKET_SIZE,  \* size of gdb->packet
          NoReply

ASSUME EndianAssumption == TargetBig \in {0, 1} /\ HostBig \in {0, 1}

\* The characters with a handler.
Commands == {"c", "k", "q", "g", "m", "p", "?", "H", "s", "G", "X", "P"}

-----------------------------------------------------------------------------
\* write_uint32 and read_uint32: the bytes of the union follow the host, and
\* are walked upwards when host and target agree, downwards otherwise.
HostOrder(b) == IF HostBig = 1 THEN <<b[4], b[3], b[2], b[1]>> ELSE b
\* Mutated form of Walk: the two directions exchanged.
WalkSwapped(b) == IF HostBig = TargetBig THEN <<b[4], b[3], b[2], b[1]>> ELSE b
Walk(b) == IF HostBig = TargetBig THEN b ELSE <<b[4], b[3], b[2], b[1]>>
write_uint32(w) == Walk(HostOrder(BytesOf(w)))
read_uint32(text) == WordOf(HostOrder(Walk(text)))

\* atoi of the hexadecimal text of n: it stops at the first letter.
atoi(n) == IF n % 16 > 9 THEN (IF n \div 16 > 9 THEN 0 ELSE n \div 16)
           ELSE IF n \div 16 > 9 THEN 0
           ELSE 10 * (n \div 16) + (n % 16)

-----------------------------------------------------------------------------
\* Replies.
Text(t) == [kind |-> "text", text |-> t]
EmptyText == Text("")
RegisterText(w) == [kind |-> "register", value |-> write_uint32(w)]
MemoryText(bytes) == [kind |-> "memory", bytes |-> bytes]
RegistersText(f) == [kind |-> "registers", values |-> f]

\* The characters of a reply: two for a byte, eight for a register, with 25
\* words of x between r15 and the cpsr in g.  No other text is longer than
\* Text=0;Data=0;Bss=0.
Length(r) == CASE r.kind = "text"      -> 19
               [] r.kind = "register"  -> 8
               [] r.kind = "registers" -> 8 * (Cardinality(DOMAIN r.values) + 25)
               [] r.kind = "memory"    -> 2 * Cardinality(DOMAIN r.bytes)

\* gdb_send_buffer adds the $, the # with the checksum, and a final '\0'.
BufferUse(r) == Length(r) + 5

Outcome(p, exc, reply) ==
  [arm |-> p, exc |-> exc, reply |-> reply, aborted |-> FALSE]
Aborted(p, exc) ==
  [arm |-> p, exc |-> exc, reply |-> NoReply, aborted |-> TRUE]

\* gdb_send_stop_reason.
StopReason(exc) == Text(CASE exc = 2 -> "S04"
                          [] exc \in {4, 5} -> "S10"
                          [] OTHER -> "S05")

-----------------------------------------------------------------------------
\* cont looks at the word of the next fetch and stops, without executing it,
\* at the undefined instruction gdb plants (mask FFF000F0, value E7F000F0).
IsBreakpoint(i) == /\ i.cond = 14 /\ i.cls = 1
                   /\ i.b25 = 1 /\ i.b24 = 1 /\ i.b23 = 1
                   /\ i.b22 = 1 /\ i.b21 = 1 /\ i.b20 = 1
                   /\ get_bits(i.lo12, 7, 4) = 15

\* Mutated form of SeesBreakpoint: the word is read once, before the loop.
SeesBreakpointOnce(p, first) ==
  IF first /\ Accepts(p.mem, FetchAddress(p))
  THEN {IsBreakpoint(Decode(FetchedWord(p)))}
  ELSE IF first THEN BOOLEAN ELSE {FALSE}

\* The read ahead may be refused; then the local variable keeps what it had:
\* garbage in the first round, the last instruction, no breakpoint, later.
SeesBreakpoint(p, first) ==
  IF Accepts(p.mem, FetchAddress(p))
  THEN {IsBreakpoint(Decode(FetchedWord(p)))}
  ELSE IF first THEN BOOLEAN ELSE {FALSE}

step(p) == {Outcome(q, 0, StopReason(0)) : q \in arm_step(p)}

-----------------------------------------------------------------------------
\* Mutated form of RegisterView: the pc is not corrected.
RegisterViewAhead(p, r) == arm_read_register(p, r)

\* The pc is one instruction in advance in arm_read_register.
RegisterView(p, r) == Sub(arm_read_register(p, r), IF r = PC THEN 4 ELSE 0)

\* g: r0 to r15, then the cpsr (here at 16); the f registers are not there.
read_general_registers(p) ==
  RegistersText([r \in 0 .. CPSR |->
    write_uint32(IF r = CPSR THEN arm_read_cpsr(p) ELSE RegisterView(p, r))])

\* Mutated form of read_memory: the size is compared before it is decreased.
read_memory_one_more(p, a, n) ==
  MemoryText([k \in {j \in 1 .. n + 1 : Accepts(p.mem, a + j - 1)} |->
                memory_read_byte(p.mem, a + k - 1)[1]])

\* m: byte after byte until the size is reached or a read is refused.
read_memory(p, a, n) ==
  MemoryText([k \in {j \in 1 .. n : Accepts(p.mem, a + j - 1)} |->
                memory_read_byte(p.mem, a + k - 1)[1]])

read_register(p, exc, n) ==
  IF atoi(n) < 16 THEN Outcome(p, exc, RegisterText(RegisterView(p, atoi(n))))
                  ELSE Aborted(p, exc)

set_thread(type, value) ==
  Text(IF type \in {"c", "g"} /\ value \in {-1, 0} THEN "OK" ELSE "E01")

\* G: every register, then the cpsr.
write_general_registers(p, texts) ==
  [p EXCEPT !.reg = [r \in Reg |-> IF r \in DOMAIN texts
                                   THEN read_uint32(texts[r])
                                   ELSE @[r]]]

\* Mutated form of write_memory_binary: the first byte goes one too far.
write_memory_binary_late(p, a, bytes) ==
  IF WriteFaults(p.mem, a + 1, Len(bytes)) THEN Crash(p)
  ELSE [p EXCEPT !.mem.cells =
          [b \in DOMAIN @ |-> IF b - a \in DOMAIN bytes
                              THEN bytes[b - a] ELSE @[b]]]

\* X: only the first address is compared with the size.
write_memory_binary(p, a, bytes) ==
  IF WriteFaults(p.mem, a, Len(bytes)) THEN Crash(p)
  ELSE [p EXCEPT !.mem.cells =
          [b \in DOMAIN @ |-> IF b - a + 1 \in DOMAIN bytes
                              THEN bytes[b - a + 1] ELSE @[b]]]

write_register(p, exc, n, text) ==
  IF n < 16
  THEN Outcome(arm_write_register(p, n, read_uint32(text)), exc, Text("OK"))
  ELSE Aborted(p, exc)

\* The longest text a packet may have, by what query announces: 400 in
\* hexadecimal.
AnnouncedSize == 1024

query(q) == Text(CASE q = "Offsets" -> "Text=0;Data=0;Bss=0"
                   [] q = "Supported" -> "PacketSize=400"
                   [] q = "TStatus" -> "T0;tnotrun:0"
                   [] OTHER -> "")

-----------------------------------------------------------------------------
\* handler[index](gdb, packet + 2), for every command but c.
Handle(p, exc, pkt) ==
  CASE pkt.cmd = "s" -> step(p)
    [] pkt.cmd = "k" -> {Outcome(p, exc, NoReply)}
    [] pkt.cmd = "q" -> {Outcome(p, exc, query(pkt.query))}
    [] pkt.cmd = "g" -> {Outcome(p, exc, read_general_registers(p))}
    [] pkt.cmd = "m" ->
         {Outcome(p, exc, read_memory(p, pkt.address, pkt.size))}
    [] pkt.cmd = "p" -> {read_register(p, exc, pkt.reg)}
    [] pkt.cmd = "?" -> {Outcome(p, exc, StopReason(exc))}
    [] pkt.cmd = "H" -> {Outcome(p, exc, set_thread(pkt.type, pkt.value))}
    [] pkt.cmd = "G" ->
         {Outcome(write_general_registers(p, pkt.values), exc, Text("OK"))}
    [] pkt.cmd = "X" ->
         IF pkt.address < memory_get_size(p.mem)
         THEN {Outcome(write_memory_binary(p, pkt.address, pkt.bytes),
                       exc, Text("OK"))}
         ELSE {Outcome(p, exc, Text("E02"))}
    [] pkt.cmd = "P" -> {write_register(p, exc, pkt.reg, pkt.text)}
=============================================================================

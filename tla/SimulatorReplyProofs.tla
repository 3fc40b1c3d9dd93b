------------------------ MODULE SimulatorReplyProofs ------------------------
(***************************************************************************)
(* The replies of the simulator and gdb->packet, the buffer they are made  *)
(* in: what a handler writes fits, except the answer to an m that asks for *)
(* too much, for every memory, every set of packets and any buffer that    *)
(* holds the answer to g.                                                  *)
(***************************************************************************)
EXTENDS ArmSimulator, CoreProofs, FiniteSetTheorems, TLAPS

Fits(r) == ~(BufferUse(r) > MAX_PACKET_SIZE)

\* What a handler starts from: a packet gdb sent, that has a handler.
Handled(q) == q \in Packets /\ q.cmd \in Commands

\* The inductive invariant: besides the property itself, the packet in hand
\* is one that was received, and is not a c outside of cont.
ReplyInv == /\ OnlyLongReadsOverrun
            /\ gdb = "lock" => Handled(pkt)
            /\ gdb = "handle" => Handled(pkt) /\ pkt.cmd # "c"

\* Fixed texts and single registers fit.
LEMMA TextFits == \A t : Fits(Text(t))
  BY PacketAssumption DEF Fits, BufferUse, Length, Text

LEMMA RegisterFits == \A w : Fits(RegisterText(w))
  BY PacketAssumption DEF Fits, BufferUse, Length, RegisterText

\* The size of an interval that is not empty.
LEMMA IntervalSize ==
  ASSUME NEW a \in Int, NEW b \in Int, a <= b
  PROVE  IsFiniteSet(a .. b) /\ Cardinality(a .. b) = b - a + 1
  <1>1. /\ IsFiniteSet(a .. b)
        /\ Cardinality(a .. b) = IF a > b THEN 0 ELSE b - a + 1
    BY FS_Interval, Zenon
  <1>2. ~(a > b)
    OBVIOUS
  <1>3. QED
    BY <1>1, <1>2, Zenon

\* g: seventeen registers, and the words of x.
LEMMA RegistersFit == \A p : Fits(read_general_registers(p))
  <1> TAKE p
  <1> DEFINE view == read_general_registers(p)
  <1>1. view.kind = "registers" /\ DOMAIN view.values = 0 .. 16
    BY DEF read_general_registers, RegistersText, CPSR
  <1>2. Cardinality(0 .. 16) = 17
    <2>1. 0 \in Int /\ 16 \in Int /\ 0 <= 16 /\ 16 - 0 + 1 = 17
      OBVIOUS
    <2>2. Cardinality(0 .. 16) = 16 - 0 + 1
      BY <2>1, IntervalSize, Zenon
    <2>3. QED
      BY <2>1, <2>2, Zenon
  <1> HIDE DEF view
  <1>3. Fits(view)
    BY <1>1, <1>2, PacketAssumption DEF Fits, BufferUse, Length
  <1>4. QED
    BY <1>3 DEF view

\* m: no more bytes than asked for.
LEMMA MemoryFits ==
  ASSUME NEW p, NEW a, NEW n \in Nat, 2 * n + 5 <= MAX_PACKET_SIZE
  PROVE  Fits(read_memory(p, a, n))
  <1> DEFINE view == read_memory(p, a, n)
             there == {j \in 1 .. n : Accepts(p.mem, a + j - 1)}
  <1>1. view.kind = "memory" /\ DOMAIN view.bytes = there
    BY DEF read_memory, MemoryText
  <1>2. IsFiniteSet(1 .. n) /\ Cardinality(1 .. n) = n
    <2>1. CASE n = 0
      <3>1. 1 .. n = {}
        BY <2>1
      <3>2. QED
        BY <2>1, <3>1, FS_EmptySet, Zenon
    <2>2. CASE n # 0
      <3>1. 1 \in Int /\ n \in Int /\ 1 <= n /\ n - 1 + 1 = n
        BY <2>2
      <3>2. IsFiniteSet(1 .. n) /\ Cardinality(1 .. n) = n - 1 + 1
        BY <3>1, IntervalSize, Zenon
      <3>3. QED
        BY <3>1, <3>2, Zenon
    <2>3. QED
      BY <2>1, <2>2
  <1>3. there \in SUBSET (1 .. n)
    OBVIOUS
  <1>4. IsFiniteSet(there) /\ Cardinality(there) <= n
    BY <1>2, <1>3, FS_Subset
  <1>5. Cardinality(there) \in Nat
    BY <1>4, FS_CardinalityType
  <1> HIDE DEF view, there
  <1>6. Fits(view)
    BY <1>1, <1>4, <1>5, PacketAssumption DEF Fits, BufferUse, Length
  <1>7. QED
    BY <1>6 DEF view

TooLong(q) == q.cmd = "m" /\ 2 * q.size + 5 > MAX_PACKET_SIZE

\* Every handler but cont: one case per command.
LEMMA HandleFits ==
  ASSUME NEW p, NEW e, NEW q, Handled(q), q.cmd # "c",
         NEW o \in Handle(p, e, q), o.reply # NoReply, ~TooLong(q)
  PROVE  Fits(o.reply)
  <1> USE TextFits, RegisterFits
  <1> USE DEF Handle, Outcome, Aborted
  <1>1. CASE q.cmd = "s"
    BY <1>1 DEF step, StopReason
  <1>2. CASE q.cmd = "k"
    BY <1>2
  <1>3. CASE q.cmd = "q"
    <2>1. Fits(query(q.query))
      BY Zenon DEF query
    <2>2. QED
      BY <1>3, <2>1
  <1>4. CASE q.cmd = "g"
    BY <1>4, RegistersFit
  <1>5. CASE q.cmd = "m"
    <2>1. q.size \in Nat /\ 2 * q.size + 5 <= MAX_PACKET_SIZE
      BY <1>5, PacketAssumption DEF Handled, TooLong
    <2>2. Fits(read_memory(p, q.address, q.size))
      BY <2>1, MemoryFits
    <2>3. QED
      BY <1>5, <2>2
  <1>6. CASE q.cmd = "p"
    BY <1>6 DEF read_register
  <1>7. CASE q.cmd = "?"
    BY <1>7 DEF StopReason
  <1>8. CASE q.cmd = "H"
    BY <1>8 DEF set_thread
  <1>9. CASE q.cmd = "G"
    BY <1>9
  <1>10. CASE q.cmd = "X"
    BY <1>10
  <1>11. CASE q.cmd = "P"
    BY <1>11 DEF write_register
  <1>12. QED
    BY <1>1, <1>2, <1>3, <1>4, <1>5, <1>6, <1>7, <1>8, <1>9, <1>10, <1>11
    DEF Handled, Commands

LEMMA InitReplyInv == Init => ReplyInv
  BY DEF Init, ReplyInv, OnlyLongReadsOverrun

\* Only GdbHandle can run over the buffer, and it leaves pkt alone.
LEMMA NextReplyInv == ReplyInv /\ [Next]_vars => ReplyInv'
  <1> SUFFICES ASSUME ReplyInv, [Next]_vars
               PROVE  ReplyInv'
    OBVIOUS
  <1> USE DEF ReplyInv, OnlyLongReadsOverrun, coreVars, gdbVars, netVars, irqVars
  <1>1. CASE proc = "running" /\ ScanPacket
    BY <1>1 DEF ScanPacket, Scan, Send, Handled
  <1>2. CASE proc = "running" /\ GdbLock
    BY <1>2 DEF GdbLock, Handled
  <1>3. CASE proc = "running" /\ GdbHandle
    <2>1. Handled(pkt) /\ pkt.cmd # "c"
      BY <1>3 DEF GdbHandle
    <2>2. PICK o \in Handle(arm, exc, pkt) :
            \/ Finish(o.reply)
            \/ gdb' = "unlock" /\ UNCHANGED <<proc, pkt>>
            \/ /\ proc' = "overrun" => Overruns(o.reply)
               /\ UNCHANGED <<gdb, pkt>>
      BY <1>3, Zenon DEF GdbHandle
    <2>3. CASE Finish(o.reply)
      BY <1>3, <2>3 DEF Finish, Send
    <2>4. CASE gdb' = "unlock" /\ UNCHANGED <<proc, pkt>>
      BY <1>3, <2>4
    <2>5. CASE (proc' = "overrun" => Overruns(o.reply)) /\ UNCHANGED <<gdb, pkt>>
      <3>1. Overruns(o.reply) => TooLong(pkt)
        BY <2>1, HandleFits DEF Overruns, Fits
      <3>2. QED
        BY <1>3, <2>1, <2>5, <3>1 DEF TooLong, GdbHandle
    <2>6. QED
      BY <2>2, <2>3, <2>4, <2>5
  <1>4. CASE /\ proc = "running"
             /\ \/ MainNext \/ CreateServerFails \/ GdbAccept \/ ClientCloses
                \/ ScanPlus \/ ScanMinus \/ ScanOther \/ ScanBadPacket
                \/ ScanUnsupported \/ ScanEof \/ ScanReadError
                \/ ContStep \/ ContStop \/ GdbUnlock \/ GdbClose
    BY <1>4 DEF MainNext, MainCreateGdb, MainCreateIrq, MainJoin,
                MainDestroyArm, MainDestroyMemory, MainReturn,
                CreateServerFails, GdbAccept, ClientCloses, Scan, ScanPlus,
                ScanMinus, ScanOther, ScanBadPacket, ScanUnsupported, ScanEof,
                ScanReadError, Send, ContStep, ContStop, Finish, GdbUnlock,
                GdbClose, Handled
  <1>5. CASE /\ proc = "running"
             /\ IrqAccept \/ IrqRead \/ IrqEof \/ IrqReadError \/ IrqWork
    BY <1>5 DEF IrqAccept, IrqRead, IrqEof, IrqReadError, IrqWork, IrqLock,
                IrqException, IrqUnlock, Handled
  <1>6. CASE UNCHANGED vars
    BY <1>6 DEF vars, Handled
  <1>7. QED
    BY <1>1, <1>2, <1>3, <1>4, <1>5, <1>6
    DEF Next, ScanNext, GdbWork

\* Whatever gdb sends, in whatever order, and whatever the memory holds: the
\* only reply that can run over gdb->packet is the one to an m whose bytes,
\* framed and terminated, are more than the buffer holds.
THEOREM OverrunsAreLongReads == Spec => []OnlyLongReadsOverrun
  <1>1. ReplyInv => OnlyLongReadsOverrun
    BY DEF ReplyInv
  <1>2. QED
    BY InitReplyInv, NextReplyInv, <1>1, PTL DEF Spec

-----------------------------------------------------------------------------
(* The memory under the replies                                            *)

\* The order of the host cancels out of read_uint32 too: the text of a
\* register is the word whose bytes it gives in the order of the target.
Mirrored(b) == [k \in 1 .. 4 |-> b[5 - k]]

LEMMA MirrorTuple ==
  ASSUME NEW b \in Quad
  PROVE  <<b[4], b[3], b[2], b[1]>> = Mirrored(b) /\ Mirrored(b) \in Quad
         /\ Mirrored(Mirrored(b)) = b
  <1>1. <<b[4], b[3], b[2], b[1]>> = Mirrored(b)
    BY DEF Mirrored
  <1>2. Mirrored(b) \in Quad
    BY DEF Mirrored, Quad
  <1>3. Mirrored(Mirrored(b)) = b
    BY DEF Mirrored, Quad
  <1>4. QED
    BY <1>1, <1>2, <1>3

LEMMA HostCancels ==
  ASSUME NEW b \in Quad
  PROVE  /\ Walk(HostOrder(b)) = IF TargetBig = 1 THEN Mirrored(b) ELSE b
         /\ HostOrder(Walk(b)) = IF TargetBig = 1 THEN Mirrored(b) ELSE b
         /\ Walk(HostOrder(b)) \in Quad /\ HostOrder(Walk(b)) \in Quad
  <1>1. /\ \A c \in Quad : HostOrder(c) = IF HostBig = 1 THEN Mirrored(c) ELSE c
        /\ \A c \in Quad : Walk(c) = IF HostBig = TargetBig THEN c ELSE Mirrored(c)
    BY MirrorTuple, Zenon DEF HostOrder, Walk
  <1>2. Mirrored(b) \in Quad /\ Mirrored(Mirrored(b)) = b
    BY MirrorTuple
  <1>3. QED
    BY <1>1, <1>2, EndianAssumption

LEMMA TextIsWord ==
  ASSUME NEW t \in Quad
  PROVE  read_uint32(t) \in Word
  BY HostCancels, WordFromBytes DEF read_uint32

\* What is written is read back.
LEMMA TextRoundTrip ==
  ASSUME NEW w \in Word
  PROVE  write_uint32(w) \in Quad /\ read_uint32(write_uint32(w)) = w
  <1>1. PICK b \in Quad : b = BytesOf(w)
    BY BytesFromWord
  <1>2. PICK t \in Quad : t = Walk(HostOrder(b))
    BY HostCancels
  <1>3. HostOrder(Walk(t)) = b
    <2>1. t = IF TargetBig = 1 THEN Mirrored(b) ELSE b
      BY <1>2, HostCancels
    <2>2. HostOrder(Walk(t)) = IF TargetBig = 1 THEN Mirrored(t) ELSE t
      BY HostCancels
    <2>3. QED
      BY <2>1, <2>2, MirrorTuple
  <1>4. QED
    BY <1>1, <1>2, <1>3, BytesFromWord DEF write_uint32, read_uint32

\* X changes bytes that are mapped, or kills the process.
LEMMA WriteMemoryKeeps ==
  ASSUME NEW p, NEW b, NEW n, Shape(p, b, n), NEW a, NEW bytes \in Seq(Byte)
  PROVE  Shape(write_memory_binary(p, a, bytes), b, n)
  <1> DEFINE old == p.mem.cells
             c == [k \in DOMAIN old |-> IF k - a + 1 \in DOMAIN bytes
                                        THEN bytes[k - a + 1] ELSE old[k]]
  <1>1. old \in Cells(n)
    BY ShapeParts
  <1>2. \A k \in DOMAIN bytes : bytes[k] \in Byte
    OBVIOUS
  <1>3. c \in Cells(n)
    <2> HIDE DEF old
    <2>1. QED
      BY <1>1, <1>2 DEF Cells
  <1>4. write_memory_binary(p, a, bytes) =
          IF WriteFaults(p.mem, a, Len(bytes)) THEN Crash(p) ELSE WithCells(p, c)
    BY DEF write_memory_binary, WithCells
  <1> HIDE DEF c, old
  <1>5. QED
    BY <1>3, <1>4, CrashKeeps, WithCellsKeeps

\* Every handler but cont: four of them may change the core.
LEMMA HandleKeeps ==
  ASSUME NEW p, NEW b, NEW n, Shape(p, b, n), NEW e, NEW q, Handled(q), q.cmd # "c",
         NEW o \in Handle(p, e, q)
  PROVE  Shape(o.arm, b, n)
  <1> USE DEF Handle, Outcome, Aborted
  <1>1. CASE q.cmd = "s"
    <2>1. PICK r \in arm_step(p) : o.arm = r
      BY <1>1 DEF step
    <2>2. QED
      BY <2>1, StepKeeps
  <1>2. CASE q.cmd = "G"
    <2> DEFINE f == [r \in Reg |-> IF r \in DOMAIN q.values
                                   THEN read_uint32(q.values[r]) ELSE p.reg[r]]
    <2>1. o.arm = WithReg(p, f)
      BY <1>2 DEF write_general_registers, WithReg
    <2>2. \A r \in DOMAIN q.values : read_uint32(q.values[r]) \in Word
      BY <1>2, PacketAssumption, TextIsWord DEF Handled
    <2>3. f \in Words
      BY <2>2, ShapeParts DEF Words
    <2> HIDE DEF f
    <2>4. QED
      BY <2>1, <2>3, WithRegKeeps
  <1>3. CASE q.cmd = "X"
    <2>1. o.arm = p \/ o.arm = write_memory_binary(p, q.address, q.bytes)
      BY <1>3
    <2>2. q.bytes \in Seq(Byte)
      BY <1>3, PacketAssumption DEF Handled
    <2>3. QED
      BY <2>1, <2>2, WriteMemoryKeeps
  <1>4. CASE q.cmd = "P"
    <2>1. o.arm = p \/ o.arm = arm_write_register(p, q.reg, read_uint32(q.text))
      BY <1>4 DEF write_register
    <2>2. read_uint32(q.text) \in Word
      BY <1>4, PacketAssumption, TextIsWord DEF Handled
    <2>3. QED
      BY <2>1, <2>2, WriteRegisterKeeps
  <1>5. CASE q.cmd \in {"k", "q", "g", "m", "p", "?", "H"}
    <2>1. o.arm = p
      BY <1>5 DEF read_register
    <2>2. QED
      BY <2>1
  <1>6. QED
    BY <1>1, <1>2, <1>3, <1>4, <1>5 DEF Commands, Handled

\* Whatever the threads do, the core stands over the memory main made: its
\* size, its byte order and the bytes that are mapped are those of
\* memory_create, and it holds words and bytes.  The handlers only see packets that have one.
CoreInv == /\ Shape(arm, TargetBig, Size)
           /\ gdb = "lock" => Handled(pkt)
           /\ gdb = "handle" => Handled(pkt) /\ pkt.cmd # "c"

LEMMA SkipKeeps ==
  ASSUME NEW p, NEW b, NEW n, Shape(p, b, n)
  PROVE  Shape(SkipUnmapped(p), b, n)
  <1> DEFINE a == FetchAddress(p)
             end == WordMod - PcBound
             v == a + 4 * ((end - a + 3) \div 4)
  <1>1. CASE a >= p.mem.size + PcBound /\ a < end
    <2>1. SkipUnmapped(p) = arm_write_register(p, PC, v)
      BY <1>1 DEF SkipUnmapped, arm_write_register
    <2>2. a \in Word
      BY FetchIsWord
    <2> HIDE DEF a
    <2>3. v \in Word
      BY <1>1, <2>2, WordSize, SimulatorAssumption DEF Word
    <2> HIDE DEF v
    <2>4. QED
      BY <2>1, <2>3, WriteRegisterKeeps
  <1>2. CASE ~(a >= p.mem.size + PcBound /\ a < end)
    BY <1>2, Zenon DEF SkipUnmapped
  <1>3. QED
    BY <1>1, <1>2

LEMMA InitCoreInv == Init => CoreInv
  <1> SUFFICES ASSUME Init
               PROVE  CoreInv
    OBVIOUS
  <1>1. PICK g \in Garbage : arm = arm_create(memory_create(Size, TargetBig, 0), g)
    BY DEF Init, CreatedCores
  <1>2. g \in Words /\ 0 \in Byte
    BY SimulatorAssumption, ByteAssumption DEF Words, Byte
  <1>3. Shape(arm, TargetBig, Size)
    BY <1>1, <1>2, CreateShape
  <1>4. QED
    BY <1>3 DEF Init, CoreInv

\* Three actions write the core; the others leave it alone.
LEMMA NextCoreInv == CoreInv /\ [Next]_vars => CoreInv'
  <1> SUFFICES ASSUME CoreInv, [Next]_vars
               PROVE  CoreInv'
    OBVIOUS
  <1> USE DEF CoreInv, coreVars, gdbVars, netVars, irqVars
  <1>1. CASE GdbHandle
    <2>1. Handled(pkt) /\ pkt.cmd # "c" /\ gdb = "handle"
      BY <1>1 DEF GdbHandle
    <2>2. PICK o \in Handle(arm, exc, pkt) :
            /\ arm' = o.arm \/ arm' = arm
            /\ gdb' = "unlock" \/ (gdb' = gdb /\ pkt' = pkt)
      BY <1>1 DEF GdbHandle, Finish
    <2>3. Shape(o.arm, TargetBig, Size)
      BY <2>1, HandleKeeps
    <2>4. QED
      BY <2>1, <2>2, <2>3 DEF Handled
  <1>2. CASE ContStep
    <2>1. PICK q \in ContRound(arm) : arm' = q \/ arm' = arm
      BY <1>2 DEF ContStep
    <2>2. Shape(q, TargetBig, Size)
      BY <2>1, SkipKeeps, StepKeeps DEF ContRound
    <2>3. gdb' = "cont"
      BY <1>2 DEF ContStep
    <2>4. QED
      BY <2>1, <2>2, <2>3
  <1>3. CASE IrqException
    <2>1. arm' = arm_exception(arm, irqbyte) \/ arm' = arm
      BY <1>3 DEF IrqException
    <2>2. gdb' = gdb /\ pkt' = pkt
      BY <1>3 DEF IrqException
    <2>3. QED
      BY <2>1, <2>2, ExceptionKeeps DEF Handled
  <1>4. CASE ScanNext
    BY <1>4 DEF ScanNext, Scan, ScanPlus, ScanMinus, ScanOther, ScanBadPacket,
                ScanPacket, ScanUnsupported, ScanEof, ScanReadError, Handled
  <1>5. CASE GdbLock
    BY <1>5 DEF GdbLock, Handled
  <1>6. CASE MainNext
    BY <1>6 DEF MainNext, MainCreateGdb, MainCreateIrq, MainJoin,
                MainDestroyArm, MainDestroyMemory, MainReturn, Handled
  <1>7. CASE CreateServerFails \/ GdbAccept \/ ClientCloses \/ ContStop
             \/ GdbUnlock \/ GdbClose
    BY <1>7 DEF CreateServerFails, GdbAccept, ClientCloses, ContStop, Finish,
                GdbUnlock, GdbClose, Handled
  <1>8. CASE IrqAccept \/ IrqRead \/ IrqEof \/ IrqReadError \/ IrqLock \/ IrqUnlock
    BY <1>8 DEF IrqAccept, IrqRead, IrqEof, IrqReadError, IrqLock, IrqUnlock,
                Handled
  <1>9. CASE UNCHANGED vars
    BY <1>9 DEF vars, Handled
  <1>10. QED
    BY <1>1, <1>2, <1>3, <1>4, <1>5, <1>6, <1>7, <1>8, <1>9
    DEF Next, GdbWork, IrqWork

\* The characters of a register, by the byte order of the target alone: the
\* order of the host cancels out.
LEMMA TextOfWord ==
  ASSUME NEW w
  PROVE  write_uint32(w) = [k \in 1 .. 4 |-> IF TargetBig = 1 THEN BytesOf(w)[5 - k]
                                                            ELSE BytesOf(w)[k]]
  <1> DEFINE b == BytesOf(w)
             back == <<b[4], b[3], b[2], b[1]>>
             text == [k \in 1 .. 4 |-> IF TargetBig = 1 THEN b[5 - k] ELSE b[k]]
  <1>1. b = [k \in 1 .. 4 |-> b[k]]
    BY DEF BytesOf, WordBytes
  <1> HIDE DEF b
  <1>2. back = [k \in 1 .. 4 |-> b[5 - k]]
    OBVIOUS
  <1>3. <<back[4], back[3], back[2], back[1]>> = [k \in 1 .. 4 |-> b[k]]
    OBVIOUS
  <1>4. write_uint32(w) = IF TargetBig = 1 THEN back ELSE b
    <2>1. write_uint32(w) = Walk(HostOrder(b))
      BY DEF write_uint32, b
    <2>2. CASE HostBig = 1 /\ TargetBig = 1
      BY <2>1, <2>2 DEF Walk, HostOrder
    <2>3. CASE HostBig = 1 /\ TargetBig = 0
      <3>1. HostOrder(b) = back
        BY <2>3 DEF HostOrder
      <3> HIDE DEF back
      <3>2. Walk(back) = <<back[4], back[3], back[2], back[1]>>
        BY <2>3 DEF Walk
      <3>3. QED
        BY <1>1, <1>3, <2>1, <2>3, <3>1, <3>2
    <2>4. CASE HostBig = 0 /\ TargetBig = 1
      BY <2>1, <2>4 DEF Walk, HostOrder
    <2>5. CASE HostBig = 0 /\ TargetBig = 0
      BY <2>1, <2>5 DEF Walk, HostOrder
    <2>6. QED
      BY <2>2, <2>3, <2>4, <2>5, EndianAssumption
  <1> HIDE DEF back
  <1>5. write_uint32(w) = text
    <2>1. CASE TargetBig = 1
      BY <1>2, <1>4, <2>1
    <2>2. CASE TargetBig # 1
      BY <1>1, <1>4, <2>2
    <2>3. QED
      BY <2>1, <2>2
  <1>6. QED
    BY <1>5 DEF b

\* A word of a block, after it was stored at 0.
LEMMA StoredBytes ==
  ASSUME NEW C \in Cells(Size), NEW v, NEW k \in 1 .. 4
  PROVE  ByteAt(memory_write_word(Block(TargetBig, Size, C), 0, v), k - 1)
           = IF TargetBig = 1 THEN v[5 - k] ELSE v[k]
  <1> DEFINE d == [C EXCEPT ![0] = v[4], ![0 + 1] = v[3], ![0 + 2] = v[2], ![0 + 3] = v[1]]
             e == [C EXCEPT ![0] = v[1], ![0 + 1] = v[2], ![0 + 2] = v[3], ![0 + 3] = v[4]]
             c == IF TargetBig = 1 THEN d ELSE e
  <1>1. memory_write_word(Block(TargetBig, Size, C), 0, v) = Block(TargetBig, Size, c)
    <2> DEFINE m == Block(TargetBig, Size, C)
    <2>1. m.big = TargetBig /\ m.cells = C
      BY BlockFields
    <2> HIDE DEF m
    <2>2. memory_write_word(m, 0, v) = Put(m, c)
      BY <2>1, Zenon DEF memory_write_word
    <2> HIDE DEF c
    <2>3. Put(m, c) = Block(TargetBig, Size, c)
      BY BlockUpdates DEF m
    <2>4. QED
      BY <2>2, <2>3 DEF m
  <1>2. DOMAIN C = 0 .. Size + SlackBytes - 1
    BY DEF Cells
  <1>3. 0 \in DOMAIN C /\ 1 \in DOMAIN C /\ 2 \in DOMAIN C /\ 3 \in DOMAIN C
    BY <1>2, SimulatorAssumption, SlackAssumption
  <1>4. d[k - 1] = v[5 - k] /\ e[k - 1] = v[k]
    <2>1. k = 1 \/ k = 2 \/ k = 3 \/ k = 4
      OBVIOUS
    <2>2. QED
      BY <1>3, <2>1
  <1>5. c[k - 1] = IF TargetBig = 1 THEN v[5 - k] ELSE v[k]
    BY <1>4, Zenon
  <1> HIDE DEF c
  <1>6. QED
    BY <1>1, <1>5, BlockFields DEF ByteAt

\* gdb sees one byte order, whatever the orders of host and target: the text
\* of a register (write_uint32) is the text m gives of it in the memory
\* (memory_write_word), in every state of the simulator.
THEOREM OneByteOrder == Spec => []RegisterTextIsMemoryText
  <1>1. ASSUME CoreInv
        PROVE  RegisterTextIsMemoryText
    <2> SUFFICES ASSUME NEW r \in 0 .. 14
                 PROVE  write_uint32(arm.reg[r]) =
                          [k \in 1 .. 4 |->
                             ByteAt(memory_write_word(arm.mem, 0, BytesOf(arm.reg[r])), k - 1)]
      BY Zenon DEF RegisterTextIsMemoryText
    <2> DEFINE w == arm.reg[r]
               v == BytesOf(w)
    <2>1. PICK C \in Cells(Size) : arm.mem = Block(TargetBig, Size, C)
      BY <1>1, ShapeParts DEF CoreInv
    <2>2. write_uint32(w) = [k \in 1 .. 4 |-> IF TargetBig = 1 THEN v[5 - k] ELSE v[k]]
      BY TextOfWord
    <2> HIDE DEF w, v
    <2>3. \A k \in 1 .. 4 : ByteAt(memory_write_word(arm.mem, 0, v), k - 1)
                              = IF TargetBig = 1 THEN v[5 - k] ELSE v[k]
      BY <2>1, StoredBytes
    <2>4. write_uint32(w) = [k \in 1 .. 4 |-> ByteAt(memory_write_word(arm.mem, 0, v), k - 1)]
      BY <2>2, <2>3
    <2>5. QED
      BY <2>4 DEF w, v
  <1>2. QED
    BY InitCoreInv, NextCoreInv, <1>1, PTL DEF Spec

\* X, when it does not kill the process, leaves its bytes in the memory.
LEMMA WrittenBytes ==
  ASSUME NEW C \in Cells(Size), NEW p, p.mem = Block(TargetBig, Size, C),
         Shape(p, TargetBig, Size), NEW a, NEW bytes \in Seq(Byte),
         ~write_memory_binary(p, a, bytes).fault
  PROVE  write_memory_binary(p, a, bytes).mem =
           Block(TargetBig, Size, [b \in 0 .. Size + SlackBytes - 1 |->
                          IF b - a + 1 \in DOMAIN bytes THEN bytes[b - a + 1] ELSE C[b]])
  <1> DEFINE w == write_memory_binary(p, a, bytes)
             c == [b \in DOMAIN p.mem.cells |->
                     IF b - a + 1 \in DOMAIN bytes THEN bytes[b - a + 1]
                                                   ELSE p.mem.cells[b]]
             d == [b \in 0 .. Size + SlackBytes - 1 |->
                     IF b - a + 1 \in DOMAIN bytes THEN bytes[b - a + 1] ELSE C[b]]
  <1>1. w = IF WriteFaults(p.mem, a, Len(bytes)) THEN Crash(p) ELSE WithCells(p, c)
    BY DEF write_memory_binary, WithCells
  <1>2. Crash(p).fault
    <2>1. PICK R, D, F : p = Core(R, Block(TargetBig, Size, D), F)
      BY Zenon DEF Shape
    <2>2. Crash(p) = Core(R, Block(TargetBig, Size, D), TRUE)
      BY <2>1, CrashUpdate, Zenon
    <2>3. \A v : Core(R, Block(TargetBig, Size, D), v).fault = v
      BY CoreFields
    <2>4. QED
      BY <2>2, <2>3, Zenon
  <1>3. w = WithCells(p, c)
    BY <1>1, <1>2, Zenon
  <1>4. p.mem.cells = C /\ DOMAIN C = 0 .. Size + SlackBytes - 1
    BY BlockFields DEF Cells
  <1>5. c = d
    BY <1>4
  <1>6. d \in Cells(Size)
    BY DEF Cells
  <1> HIDE DEF c, d
  <1>7. w.mem = Block(TargetBig, Size, d)
    BY <1>3, <1>5, <1>6, WithCellsKeeps
  <1>8. QED
    BY <1>7 DEF d

LEMMA MinOfTwo ==
  ASSUME NEW x \in Int, NEW y \in Int
  PROVE  Min({x, y}) \in Int /\ Min({x, y}) <= x /\ Min({x, y}) <= y
         /\ Min({x, y}) \in {x, y}
  <1>1. \E z \in {x, y} : \A u \in {x, y} : z <= u
    OBVIOUS
  <1>2. Min({x, y}) \in {x, y} /\ \A u \in {x, y} : Min({x, y}) <= u
    BY <1>1, Zenon DEF Min
  <1>3. QED
    BY <1>2

\* For every X, whatever it says and however far it goes beyond the block:
\* m then shows, up to the end of the memory, the bytes it has put there
\* (write_memory_binary against read_memory).
THEOREM WrittenMemoryIsShown == Spec => []MemoryRoundTrip
  <1>1. ASSUME CoreInv
        PROVE  MemoryRoundTrip
    <2> SUFFICES ASSUME NEW q \in Packets, q.cmd = "X", q.address < Size,
                        ~write_memory_binary(arm, q.address, q.bytes).fault
                 PROVE  read_memory(write_memory_binary(arm, q.address, q.bytes),
                                    q.address, Min({Len(q.bytes), Size - q.address})).bytes
                        = SubSeq(q.bytes, 1, Min({Len(q.bytes), Size - q.address}))
      BY Zenon DEF MemoryRoundTrip
    <2> DEFINE a == q.address
               s == q.bytes
               n == Min({Len(s), Size - a})
               p == write_memory_binary(arm, a, s)
    <2>1. PICK C \in Cells(Size) : arm.mem = Block(TargetBig, Size, C)
      BY <1>1, ShapeParts DEF CoreInv
    <2> DEFINE d == [b \in 0 .. Size + SlackBytes - 1 |->
                       IF b - a + 1 \in DOMAIN s THEN s[b - a + 1] ELSE C[b]]
    <2>2. a \in Nat /\ s \in Seq(Byte) /\ a < Size
      BY PacketAssumption
    <2>3. p.mem = Block(TargetBig, Size, d)
      BY <1>1, <2>1, <2>2, WrittenBytes DEF CoreInv
    <2> HIDE DEF a, s
    <2>4. Len(s) \in Nat /\ DOMAIN s = 1 .. Len(s)
      BY <2>2
    <2>5. n \in Nat /\ n <= Len(s) /\ n <= Size - a
      <3>1. Size - a \in Nat
        BY <2>2, SimulatorAssumption
      <3> DEFINE x == Len(s)
                 y == Size - a
      <3>2. x \in Nat /\ y \in Nat
        BY <2>4, <3>1
      <3> HIDE DEF x, y
      <3>3. Min({x, y}) \in Nat /\ Min({x, y}) <= x /\ Min({x, y}) <= y
        BY <3>2, MinOfTwo
      <3>4. QED
        BY <3>3, Zenon DEF x, y
    <2> HIDE DEF n, p
    <2>6. \A j \in 1 .. n : Accepts(p.mem, a + j - 1)
      BY <2>3, <2>2, <2>5, BlockFields, SimulatorAssumption DEF Accepts
    <2>7. \A j \in 1 .. n : memory_read_byte(p.mem, a + j - 1)[1] = s[j]
      <3> SUFFICES ASSUME NEW j \in 1 .. n
                   PROVE  memory_read_byte(p.mem, a + j - 1)[1] = s[j]
        OBVIOUS
      <3>1. memory_read_byte(p.mem, a + j - 1)[1] = ByteAt(p.mem, a + j - 1)
        BY <2>6 DEF memory_read_byte
      <3>2. ByteAt(p.mem, a + j - 1) = d[a + j - 1]
        <4> HIDE DEF d
        <4>1. QED
          BY <2>3, BlockFields DEF ByteAt
      <3>3. a + j - 1 \in 0 .. Size + SlackBytes - 1 /\ (a + j - 1) - a + 1 = j
        BY <2>2, <2>5, SimulatorAssumption, SlackAssumption
      <3>4. j \in DOMAIN s
        BY <2>4, <2>5
      <3>5. d[a + j - 1] = s[j]
        BY <3>3, <3>4
      <3>6. QED
        BY <3>1, <3>2, <3>5
    <2>8. read_memory(p, a, n).bytes = [k \in 1 .. n |-> s[k]]
      <3>1. {j \in 1 .. n : Accepts(p.mem, a + j - 1)} = 1 .. n
        BY <2>6
      <3>2. read_memory(p, a, n).bytes =
              [k \in {j \in 1 .. n : Accepts(p.mem, a + j - 1)} |->
                 memory_read_byte(p.mem, a + k - 1)[1]]
        BY DEF read_memory, MemoryText
      <3>3. QED
        BY <2>7, <3>1, <3>2
    <2>9. SubSeq(s, 1, n) = [k \in 1 .. n |-> s[k]]
      BY <2>2, <2>4, <2>5
    <2>10. QED
      BY <2>8, <2>9 DEF n, p, a, s
  <1>2. QED
    BY InitCoreInv, NextCoreInv, <1>1, PTL DEF Spec

-----------------------------------------------------------------------------
(* The registers gdb saw and puts back                                     *)

\* What g shows of register r.
Shown(p, r) == IF r = CPSR THEN arm_read_cpsr(p) ELSE RegisterView(p, r)

LEMMA ShownIsWord ==
  ASSUME NEW p, NEW b, NEW n, Shape(p, b, n), NEW r \in 0 .. 16
  PROVE  Shown(p, r) \in Word
  <1>1. r \in Reg /\ CPSR \in Reg
    BY DEF Reg, CPSR
  <1>2. arm_read_register(p, r) \in Int /\ 4 \in Int /\ 0 \in Int
    BY <1>1, RegisterIsWord DEF Word
  <1>3. RegisterView(p, r) \in Word
    BY <1>2, WordSums DEF RegisterView
  <1>4. QED
    BY <1>1, <1>3, RegisterIsWord DEF Shown, arm_read_cpsr

\* A core whose registers are what g shows of p shows the same.
LEMMA ShownAgain ==
  ASSUME NEW p, NEW b, NEW n, Shape(p, b, n), NEW q, NEW r \in 0 .. 16,
         q.reg[r] = Shown(p, r)
  PROVE  Shown(q, r) = Shown(p, r)
  <1>1. CASE r = CPSR
    BY <1>1 DEF Shown, arm_read_cpsr
  <1>2. CASE r # CPSR /\ r # PC
    <2>1. PICK w \in Word : w = p.reg[r]
      BY RegisterIsWord DEF Reg
    <2>2. Sub(w, 0) = w
      BY WordSize DEF Sub, Word
    <2>3. Shown(p, r) = w
      BY <1>2, <2>1, <2>2 DEF Shown, RegisterView, arm_read_register
    <2>4. Shown(q, r) = Sub(w, 0)
      BY <1>2, <2>3 DEF Shown, RegisterView, arm_read_register
    <2>5. QED
      BY <2>2, <2>3, <2>4
  <1>3. CASE r = PC
    <2>1. PICK x : x = arm_read_register(p, PC)
      OBVIOUS
    <2>2. x \in Word /\ get_bit(x, 1) = 0 /\ Add(Sub(x, 4), 4) = x
      BY <2>1, ShownPc
    <2>3. r # CPSR
      BY <1>3 DEF PC, CPSR
    <2>4. Shown(p, r) = Sub(x, 4)
      BY <1>3, <2>1, <2>3, Zenon DEF Shown, RegisterView
    <2>5. arm_read_register(q, PC) = x - 2 * get_bit(x, 1)
      <3>1. q.reg[PC] = Sub(x, 4)
        BY <1>3, <2>4
      <3>2. QED
        BY <2>2, <3>1, Zenon DEF arm_read_register
    <2>6. x - 2 * get_bit(x, 1) = x
      BY <2>2 DEF Word
    <2>7. Shown(q, r) = Sub(x, 4)
      BY <1>3, <2>3, <2>5, <2>6, Zenon DEF Shown, RegisterView
    <2>8. QED
      BY <2>4, <2>7
  <1>4. QED
    BY <1>1, <1>2, <1>3

\* gdb may always put back the registers it has read: after a G with the text
\* of g, g gives the same text, the pc that read_general_registers corrects
\* and the cpsr included, in every state of the simulator.
THEOREM RegistersRoundTrip == Spec => []RegisterRoundTrip
  <1>1. ASSUME CoreInv
        PROVE  RegisterRoundTrip
    <2> DEFINE f == [r \in 0 .. 16 |-> write_uint32(Shown(arm, r))]
               q == write_general_registers(arm, f)
    <2>1. \A p : read_general_registers(p) =
                   RegistersText([r \in 0 .. 16 |-> write_uint32(Shown(p, r))])
      BY Zenon DEF read_general_registers, Shown, CPSR
    <2>2. read_general_registers(arm).values = f
      <3>1. \A g : RegistersText(g).values = g
        BY DEF RegistersText
      <3>2. QED
        BY <2>1, <3>1, Zenon
    <2>3. ASSUME NEW r \in 0 .. 16
          PROVE  Shown(q, r) = Shown(arm, r)
      <3>1. q.reg = [x \in Reg |-> IF x \in DOMAIN f THEN read_uint32(f[x])
                                                     ELSE arm.reg[x]]
        <4>1. arm = Core(arm.reg, arm.mem, arm.fault)
          BY <1>1, ShapeParts DEF CoreInv
        <4>2. \A g : WithReg(arm, g).reg = g
          BY <4>1, RegUpdate, CoreFields
        <4> HIDE DEF f
        <4>3. q = WithReg(arm, [x \in Reg |-> IF x \in DOMAIN f THEN read_uint32(f[x])
                                                               ELSE arm.reg[x]])
          BY Zenon DEF write_general_registers, WithReg
        <4>4. QED
          BY <4>2, <4>3, Zenon
      <3>2. q.reg[r] = read_uint32(write_uint32(Shown(arm, r)))
        <4>1. r \in Reg /\ r \in DOMAIN f
          BY DEF Reg
        <4> HIDE DEF q
        <4>2. QED
          BY <3>1, <4>1
      <3>3. q.reg[r] = Shown(arm, r)
        BY <1>1, <3>2, ShownIsWord, TextRoundTrip DEF CoreInv
      <3> HIDE DEF q
      <3>4. QED
        BY <1>1, <3>3, ShownAgain DEF CoreInv
    <2> HIDE DEF q
    <2>4. [r \in 0 .. 16 |-> write_uint32(Shown(q, r))] = f
      BY <2>3
    <2>5. read_general_registers(q) = read_general_registers(arm)
      BY <2>1, <2>4
    <2>6. QED
      BY <2>2, <2>5 DEF RegisterRoundTrip, q
  <1>2. QED
    BY InitCoreInv, NextCoreInv, <1>1, PTL DEF Spec
=============================================================================

--------------------------- MODULE MCArmSimulator ---------------------------
(***************************************************************************)
(* Instances of ArmSimulator for TLC: 16-bit words, three words of memory, *)
(* and the packets a debugging session is made of.                         *)
(***************************************************************************)
EXTENDS ArmSimulator, TLC

\* Instruction words: the loop B -3, the breakpoint E7F000F0 and MOV r1, #3.
Loop == 1
Break == 2
Mov == 3
MCInstructions ==
  (0 :> Fields(0, 0, 0, 0, 0, 0))
    @@ (Loop  :> Fields(14, 2, 32 + 15, 15, 15, 4093))
    @@ (Break :> Fields(14, 1, 63, 0, 0, 240))
    @@ (Mov   :> Fields(14, 0, 58, 0, 1, 3))

\* The bytes of a word as they lie in the memory.
Image(w) == LET b == BytesOf(w)
            IN  IF TargetBig = 1 THEN <<b[4], b[3], b[2], b[1]>> ELSE b

Cmd(c) == [cmd |-> c]
Load(a, w) == [cmd |-> "X", address |-> a, bytes |-> Image(w)]
SetPc(v) == [cmd |-> "P", reg |-> 15, text |-> Image(v)]

\* Every command, with arguments at and across the limits.
AllPackets ==
  {Cmd("c"), Cmd("s"), Cmd("k"), Cmd("g"), Cmd("?"), Cmd("D"),
   Load(4, Loop), Load(4, Break), Load(0, Mov), Load(12, Mov),
   [cmd |-> "X", address |-> 11, bytes |-> Image(Mov) \o Image(Mov)],
   [cmd |-> "X", address |-> 11, bytes |-> Image(Mov) \o Image(Mov) \o Image(0)],
   [cmd |-> "m", address |-> 0, size |-> 5],
   [cmd |-> "m", address |-> 11, size |-> 4],
   [cmd |-> "p", reg |-> 1], [cmd |-> "p", reg |-> 15], [cmd |-> "p", reg |-> 25],
   SetPc(2), [cmd |-> "P", reg |-> 25, text |-> Image(0)],
   [cmd |-> "q", query |-> "Supported"],
   [cmd |-> "H", type |-> "c", value |-> -1],
   [cmd |-> "H", type |-> "p", value |-> 0],
   [cmd |-> "G", values |-> [r \in 0 .. 16 |-> Image(IF r = 16 THEN 16 ELSE r)]]}

\* A few for longer sessions.
SomePackets == {Cmd("c"), Cmd("s"), Cmd("k"), Cmd("D"),
                Load(4, Loop), Load(4, Break)}

\* Answers at the limit of gdb->packet: 509 bytes are the most that fit, 512
\* the most that a packet of the announced size can hold.
Read(n) == [cmd |-> "m", address |-> 0, size |-> n]
BufferPackets == {Read(509), Read(510), Read(512), Read(513),
                  Cmd("g"), Cmd("?"), Cmd("s"), [cmd |-> "q", query |-> "Supported"]}

\* Register numbers of p, of one digit and of one letter.
NumberPackets == {[cmd |-> "p", reg |-> 1], [cmd |-> "p", reg |-> 15], Cmd("s")}

\* Register files malloc may leave: all zero, and arbitrary words with the pc
\* outside the memory or at its start.
MCGarbage == {[r \in Reg |-> 0], [r \in Reg |-> IF r = PC THEN 100 ELSE 4660]}
SomeGarbage == {[r \in Reg |-> IF r = PC THEN 0 ELSE 4660]}
=============================================================================

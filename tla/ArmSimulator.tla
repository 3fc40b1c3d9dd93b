---------------------------- MODULE ArmSimulator ----------------------------
(***************************************************************************)
(* The process: arm_simulator.c and scanner.l over the handlers of         *)
(* GdbProtocol.  main creates two threads that share the core under one    *)
(* mutex and waits for the first of them only: gdb_listener serves one gdb *)
(* connection, irq_listener turns the bytes of any number of connections   *)
(* into exceptions.  When the gdb thread is done, main frees the core and  *)
(* the memory and returns, which ends the irq thread wherever it is.       *)
(*                                                                         *)
(* The gdb client is any client: the scanner may meet any token next.      *)
(***************************************************************************)
EXTENDS GdbProtocol

CONSTANTS Packets,         \* well-formed packets a client may send
          Irqs,            \* bytes an irq client may send
          Garbage,         \* register files malloc may leave
          Size,            \* bytes of memory, 0x20000 in main
          MAX_ERROR_SIZE,  \* size of the scanner's error buffer
          MaxTokens,       \* bound: tokens of the gdb connection
          MaxFds,          \* descriptors left for irq connections
          PcBound,         \* how far outside the memory cont is followed
          NoPacket

ASSUME SimulatorAssumption == /\ MAX_ERROR_SIZE \in Nat \ {0, 1}
                              /\ MaxTokens \in Nat
                              /\ MaxFds \in Nat
                              /\ Size \in Nat /\ Size >= 4
                              /\ Garbage \subseteq [Reg -> Word]
                              /\ PcBound \in Nat /\ PcBound >= 4

\* The packet buffer holds the answer to g.  An m may ask for any number of
\* bytes; an X gives an address and its bytes, P and G the four bytes of each
\* register.
ASSUME PacketAssumption ==
  /\ MAX_PACKET_SIZE \in Nat /\ MAX_PACKET_SIZE >= 8 * 42 + 5
  /\ \A q \in Packets : q.cmd = "m" => q.size \in Nat
  /\ \A q \in Packets : q.cmd = "X" => q.address \in Nat /\ q.bytes \in Seq(Byte)
  /\ \A q \in Packets : q.cmd = "P" => q.text \in Quad
  /\ \A q \in Packets : q.cmd = "G" => \A r \in DOMAIN q.values : q.values[r] \in Quad

VARIABLES main,     \* program counters of the three threads
          gdb, irq,
          lock,     \* who holds shared.lock
          proc,     \* the process
          heap,     \* what main has freed of the core and the memory
          uaf,      \* a thread has used the core after that
          arm,      \* the core
          exc,      \* gdb->target_exception
          packet,   \* gdb->packet, with NoReply for len = 0
          pkt,      \* the packet being handled
          first,    \* cont is in its first round
          errlen,   \* data->len of the scanner
          client,   \* the gdb client's end of the connection
          wr,       \* the write side of the server's end
          out,      \* what was sent to the client
          tokens,   \* tokens scanned so far
          irqbyte,  \* the byte irq_listener has read
          fds       \* irq connections accepted; none is ever closed

coreVars == <<arm, heap, uaf>>
gdbVars == <<exc, packet, pkt, first, errlen>>
netVars == <<client, wr, out, tokens>>
irqVars == <<irqbyte, fds>>
vars == <<main, gdb, irq, lock, proc, coreVars, gdbVars, netVars, irqVars>>

\* The threads inside the critical section.
GdbInside == gdb \in {"handle", "cont", "unlock"}
IrqInside == irq \in {"exception", "unlock"}

\* arm_create over the memory, fresh from its mapping.
CreatedCores == {arm_create(memory_create(Size, TargetBig, 0), g) :
                   g \in Garbage}

Init == /\ main = "create_gdb" /\ gdb = "none" /\ irq = "none"
        /\ lock = "free" /\ proc = "running"
        /\ heap = "live" /\ uaf = FALSE
        /\ arm \in CreatedCores
        /\ exc = 0 /\ packet = NoReply /\ pkt = NoPacket
        /\ first = FALSE /\ errlen = 0
        /\ client = "none" /\ wr = "open" /\ out = << >> /\ tokens = 0
        /\ irqbyte = 0 /\ fds = 0

-----------------------------------------------------------------------------
(* main                                                                    *)

MainCreateGdb == /\ main = "create_gdb"
                 /\ main' = "create_irq" /\ gdb' = "accept"
                 /\ UNCHANGED <<irq, lock, proc, coreVars, gdbVars, netVars,
                                irqVars>>
MainCreateIrq == /\ main = "create_irq"
                 /\ main' = "join" /\ irq' = "accept"
                 /\ UNCHANGED <<gdb, lock, proc, coreVars, gdbVars, netVars,
                                irqVars>>
\* Mutated forms of MainJoin: main does not wait, or waits for both threads.
MainJoinNone == /\ main = "join"
                /\ main' = "destroy_arm"
                /\ UNCHANGED <<gdb, irq, lock, proc, coreVars, gdbVars,
                               netVars, irqVars>>
MainJoinBoth == /\ main = "join" /\ gdb = "exited" /\ irq = "exited"
                /\ main' = "destroy_arm"
                /\ UNCHANGED <<gdb, irq, lock, proc, coreVars, gdbVars,
                               netVars, irqVars>>
MainJoin == /\ main = "join" /\ gdb = "exited"
            /\ main' = "destroy_arm"
            /\ UNCHANGED <<gdb, irq, lock, proc, coreVars, gdbVars, netVars,
                           irqVars>>
MainDestroyArm == /\ main = "destroy_arm"
                  /\ main' = "destroy_memory" /\ heap' = "core_freed"
                  /\ UNCHANGED <<gdb, irq, lock, proc, uaf, arm, gdbVars,
                                 netVars, irqVars>>
MainDestroyMemory == /\ main = "destroy_memory"
                     /\ main' = "return" /\ heap' = "freed"
                     /\ UNCHANGED <<gdb, irq, lock, proc, uaf, arm, gdbVars,
                                    netVars, irqVars>>
MainReturn == /\ main = "return"
              /\ proc' = "exited"
              /\ UNCHANGED <<main, gdb, irq, lock, coreVars, gdbVars, netVars,
                             irqVars>>
MainNext == \/ MainCreateGdb \/ MainCreateIrq \/ MainJoin
            \/ MainDestroyArm \/ MainDestroyMemory \/ MainReturn

-----------------------------------------------------------------------------
(* The gdb thread: accepting, and what it sends                            *)

\* create_server ends the process when the port cannot be had.
CreateServerFails == /\ \/ gdb = "accept"
                        \/ irq = "accept" /\ fds = 0
                     /\ proc' = "exited"
                     /\ UNCHANGED <<main, gdb, irq, lock, coreVars, gdbVars,
                                    netVars, irqVars>>

\* gdb_scanner returns at once when fdopen fails.
GdbAccept == /\ gdb = "accept" /\ client = "none"
             /\ gdb' \in {"scan", "closing"} /\ client' = "open"
             /\ UNCHANGED <<main, irq, lock, proc, coreVars, gdbVars, wr, out,
                            tokens, irqVars>>

ClientCloses == /\ client = "open"
                /\ client' = "gone"
                /\ UNCHANGED <<main, gdb, irq, lock, proc, coreVars, gdbVars,
                               wr, out, tokens, irqVars>>

Ack == [t |-> "ack"]
Nak == [t |-> "nak"]
Reply(r) == [t |-> "reply", r |-> r]
Again(r) == [t |-> "again", r |-> r]

\* Rio_writen of some messages.  Writing to a connection that is shut, or
\* that the client has closed, raises SIGPIPE or fails: the process ends.
Send(msgs) ==
  \/ /\ msgs = << >>
     /\ UNCHANGED <<out, proc>>
  \/ /\ msgs # << >> /\ wr = "open"
     /\ out' = out \o msgs
     /\ UNCHANGED proc
  \/ /\ msgs # << >> /\ (wr = "shut" \/ client = "gone")
     /\ proc' = "killed"
     /\ UNCHANGED out

-----------------------------------------------------------------------------
(* The scanner: one action per token                                       *)

\* handle_error asks for a retransmission when characters were dropped.
handle_error == IF errlen > 0 THEN <<Nak>> ELSE << >>

Scan == /\ gdb = "scan" /\ tokens < MaxTokens
        /\ tokens' = tokens + 1
        /\ UNCHANGED <<main, irq, lock, coreVars, client, wr, irqVars>>

\* Mutated form of ScanPlus: the error is reported and kept.
ScanPlusKeepsError == /\ Scan
                      /\ Send(handle_error)
                      /\ UNCHANGED <<gdb, exc, packet, pkt, first, errlen>>

ScanPlus == /\ Scan
            /\ Send(handle_error)
            /\ errlen' = 0
            /\ UNCHANGED <<gdb, exc, packet, pkt, first>>

\* Mutated form of ScanMinus: a packet goes out before there is one.
ScanMinusAlways == /\ Scan
                   /\ Send(handle_error \o <<Again(packet)>>)
                   /\ errlen' = 0
                   /\ UNCHANGED <<gdb, exc, packet, pkt, first>>

\* gdb_transmit_packet: the last packet again, nothing when len is 0.
ScanMinus == /\ Scan
             /\ Send(handle_error \o
                     IF packet = NoReply THEN << >> ELSE <<Again(packet)>>)
             /\ errlen' = 0
             /\ UNCHANGED <<gdb, exc, packet, pkt, first>>

\* Mutated form of ScanOther: the limit is one too high.
ScanOtherOneMore == /\ Scan
                    /\ IF errlen > MAX_ERROR_SIZE - 1
                       THEN Send(handle_error) /\ errlen' = 1
                       ELSE Send(<< >>) /\ errlen' = errlen + 1
                    /\ UNCHANGED <<gdb, exc, packet, pkt, first>>

\* add_character_to_error.
ScanOther == /\ Scan
             /\ IF errlen > MAX_ERROR_SIZE - 2
                THEN Send(handle_error) /\ errlen' = 1
                ELSE Send(<< >>) /\ errlen' = errlen + 1
             /\ UNCHANGED <<gdb, exc, packet, pkt, first>>

\* Mutated forms of ScanBadPacket: the packet is handled although its
\* checksum is wrong; no retransmission is asked for; the checksum is not
\* compared before the ack.
ScanBadPacketGoesOn == /\ Scan
                       /\ Send(handle_error \o <<Nak>>)
                       /\ errlen' = 0
                       /\ gdb' = "lock"
                       /\ pkt' \in {q \in Packets : q.cmd \in Commands}
                       /\ UNCHANGED <<exc, packet, first>>
ScanBadPacketSilent == /\ Scan
                       /\ Send(handle_error)
                       /\ errlen' = 0
                       /\ UNCHANGED <<gdb, exc, packet, pkt, first>>
ScanBadPacketAck == /\ Scan
                    /\ Send(handle_error \o <<Ack>>)
                    /\ errlen' = 0
                    /\ UNCHANGED <<gdb, exc, packet, pkt, first>>

\* gdb_packet_analysis, up to the lock: a wrong checksum ...
ScanBadPacket == /\ Scan
                 /\ Send(handle_error \o <<Nak>>)
                 /\ errlen' = 0
                 /\ UNCHANGED <<gdb, exc, packet, pkt, first>>

\* ... a packet with a handler ...
ScanPacket == /\ Scan
              /\ Send(handle_error \o <<Ack>>)
              /\ errlen' = 0
              /\ gdb' = "lock"
              /\ pkt' \in {q \in Packets : q.cmd \in Commands}
              /\ UNCHANGED <<exc, packet, first>>

\* ... and one without, answered without the lock.
ScanUnsupported == /\ Scan
                   /\ \E q \in Packets : q.cmd \notin Commands
                   /\ Send(handle_error \o <<Ack, Reply(EmptyText)>>)
                   /\ errlen' = 0
                   /\ packet' = EmptyText
                   /\ UNCHANGED <<gdb, exc, pkt, first>>

ScanEof == /\ gdb = "scan" /\ client = "gone"
           /\ Send(handle_error)
           /\ errlen' = 0
           /\ gdb' = "closing"
           /\ UNCHANGED <<main, irq, lock, coreVars, exc, packet, pkt, first,
                          client, wr, tokens, irqVars>>

\* The scanner's read fails (the client reset the connection): fatal.
ScanReadError == /\ gdb = "scan" /\ client = "gone"
                 /\ proc' = "exited"
                 /\ UNCHANGED <<main, gdb, irq, lock, coreVars, gdbVars,
                                netVars, irqVars>>

-----------------------------------------------------------------------------
(* The gdb thread: a handler, under the lock                               *)

GdbLock == /\ gdb = "lock" /\ lock = "free"
           /\ lock' = "gdb"
           /\ gdb' = IF pkt.cmd = "c" THEN "cont" ELSE "handle"
           /\ first' = TRUE
           /\ UNCHANGED <<main, irq, proc, coreVars, exc, packet, pkt, errlen,
                          netVars, irqVars>>

\* The reply goes to gdb->packet and out, and the handler returns.
Finish(reply) == /\ gdb' = "unlock"
                 /\ packet' = reply
                 /\ Send(<<Reply(reply)>>)
                 /\ UNCHANGED <<main, irq, lock, heap, uaf, pkt, first, errlen,
                                client, tokens, irqVars>>

\* Nothing keeps a reply inside gdb->packet.  One that is too long runs into
\* len and buffer, which follow it: the behaviour is undefined from then on,
\* and the model stops there.
Overruns(reply) == reply # NoReply /\ BufferUse(reply) > MAX_PACKET_SIZE

GdbHandle ==
  /\ gdb = "handle"
  /\ \E o \in Handle(arm, exc, pkt) :
       \/ /\ ~o.arm.fault /\ ~o.aborted
          /\ o.reply # NoReply /\ ~Overruns(o.reply)
          /\ arm' = o.arm /\ exc' = o.exc
          /\ Finish(o.reply)
          /\ UNCHANGED wr
       \/ /\ o.reply = NoReply /\ ~o.aborted       \* kill_request
          /\ wr' = "shut" /\ gdb' = "unlock"
          /\ UNCHANGED <<main, irq, lock, proc, coreVars, gdbVars, client,
                         out, tokens, irqVars>>
       \/ /\ o.arm.fault \/ o.aborted \/ Overruns(o.reply)
          /\ proc' = IF o.aborted THEN "aborted"
                     ELSE IF o.arm.fault THEN "killed" ELSE "overrun"
          /\ UNCHANGED <<main, gdb, irq, lock, coreVars, gdbVars, netVars,
                         irqVars>>

\* Far outside the memory every fetch gives -1 and only the pc moves, until
\* it wraps around.  cont takes those rounds at once (PcBound says from where
\* to where): nothing else can happen meanwhile, the lock being held.
SkipUnmapped(p) ==
  LET a == FetchAddress(p)
      end == WordMod - PcBound
  IN  IF a >= p.mem.size + PcBound /\ a < end
      THEN [p EXCEPT !.reg[PC] = a + 4 * ((end - a + 3) \div 4)]
      ELSE p

ContRound(p) == arm_step(SkipUnmapped(p))

\* One round of the loop of cont.
ContStep ==
  /\ gdb = "cont"
  /\ FALSE \in SeesBreakpoint(arm, first)
  /\ \E q \in ContRound(arm) :
       \/ /\ ~q.fault
          /\ arm' = q /\ exc' = 0 /\ first' = FALSE
          /\ UNCHANGED proc
       \/ /\ q.fault
          /\ proc' = "killed"
          /\ UNCHANGED <<arm, exc, first>>
  /\ UNCHANGED <<main, gdb, irq, lock, heap, uaf, packet, pkt, errlen,
                 netVars, irqVars>>

ContStop == /\ gdb = "cont"
            /\ TRUE \in SeesBreakpoint(arm, first)
            /\ Finish(StopReason(exc))
            /\ UNCHANGED <<arm, exc, wr>>

GdbUnlock == /\ gdb = "unlock"
             /\ lock' = "free" /\ gdb' = "scan"
             /\ UNCHANGED <<main, irq, proc, coreVars, gdbVars, netVars,
                            irqVars>>

\* shutdown, close and pthread_exit.
GdbClose == /\ gdb = "closing"
            /\ wr' = "shut" /\ gdb' = "exited"
            /\ UNCHANGED <<main, irq, lock, proc, coreVars, gdbVars, client,
                           out, tokens, irqVars>>

-----------------------------------------------------------------------------
(* The irq thread                                                          *)

\* Mutated form of IrqAccept: no limit on the descriptors.
IrqAcceptUnbounded == /\ irq = "accept"
                      /\ irq' = "read" /\ fds' = fds + 1
                      /\ UNCHANGED <<main, gdb, lock, proc, coreVars, gdbVars,
                                     netVars, irqbyte>>

IrqAccept == /\ irq = "accept"
             /\ \/ /\ fds < MaxFds
                   /\ irq' = "read" /\ fds' = fds + 1
                   /\ UNCHANGED proc
                \/ /\ fds = MaxFds
                   /\ proc' = "exited"
                   /\ UNCHANGED <<irq, fds>>
             /\ UNCHANGED <<main, gdb, lock, coreVars, gdbVars, netVars,
                            irqbyte>>

IrqRead == /\ irq = "read"
           /\ irqbyte' \in Irqs
           /\ irq' = "lock"
           /\ UNCHANGED <<main, gdb, lock, proc, coreVars, gdbVars, netVars,
                          fds>>

\* End of the connection: it is shut down, and its descriptor kept.
IrqEof == /\ irq = "read"
          /\ irq' = "accept"
          /\ UNCHANGED <<main, gdb, lock, proc, coreVars, gdbVars, netVars,
                         irqVars>>

\* Read ends the process on an error.
IrqReadError == /\ irq = "read"
                /\ proc' = "exited"
                /\ UNCHANGED <<main, gdb, irq, lock, coreVars, gdbVars,
                               netVars, irqVars>>

\* Mutated form of IrqLock: the lock is not waited for.
IrqLockNoWait == /\ irq = "lock"
                 /\ lock' = "irq" /\ irq' = "exception"
                 /\ UNCHANGED <<main, gdb, proc, coreVars, gdbVars, netVars,
                                irqVars>>

IrqLock == /\ irq = "lock" /\ lock = "free"
           /\ lock' = "irq" /\ irq' = "exception"
           /\ UNCHANGED <<main, gdb, proc, coreVars, gdbVars, netVars,
                          irqVars>>

IrqException == /\ irq = "exception"
                /\ irq' = "unlock"
                /\ IF heap = "live"
                   THEN arm' = arm_exception(arm, irqbyte) /\ UNCHANGED uaf
                   ELSE uaf' = (uaf \/ irqbyte = RESET) /\ UNCHANGED arm
                /\ UNCHANGED <<main, gdb, lock, proc, heap, gdbVars, netVars,
                               irqVars>>

\* Mutated form of IrqUnlock: the lock is kept.
IrqUnlockForgotten == /\ irq = "unlock"
                      /\ irq' = "read"
                      /\ UNCHANGED <<main, gdb, lock, proc, coreVars, gdbVars,
                                     netVars, irqVars>>

IrqUnlock == /\ irq = "unlock"
             /\ lock' = "free" /\ irq' = "read"
             /\ UNCHANGED <<main, gdb, proc, coreVars, gdbVars, netVars,
                            irqVars>>

-----------------------------------------------------------------------------
ScanNext == \/ ScanPlus \/ ScanMinus \/ ScanOther \/ ScanBadPacket
            \/ ScanPacket \/ ScanUnsupported \/ ScanEof \/ ScanReadError
GdbWork == GdbLock \/ GdbHandle \/ ContStep \/ ContStop \/ GdbUnlock \/ GdbClose
IrqWork == IrqLock \/ IrqException \/ IrqUnlock

Next == /\ proc = "running"
        /\ \/ MainNext
           \/ CreateServerFails \/ GdbAccept \/ ClientCloses \/ ScanNext \/ GdbWork
           \/ IrqAccept \/ IrqRead \/ IrqEof \/ IrqReadError \/ IrqWork

Spec == Init /\ [][Next]_vars

\* The scheduler runs every thread that can move, and a closed connection is
\* reported to the scanner.  Clients promise nothing.
Running(A) == proc = "running" /\ A
Fairness == /\ WF_vars(Running(MainNext))
            /\ WF_vars(Running(GdbWork))
            /\ WF_vars(Running(ScanEof))
            /\ WF_vars(Running(IrqWork))
FairSpec == Spec /\ Fairness

-----------------------------------------------------------------------------
(* Properties                                                              *)

TypeOK ==
  /\ main \in {"create_gdb", "create_irq", "join", "destroy_arm",
               "destroy_memory", "return"}
  /\ gdb \in {"none", "accept", "scan", "lock", "handle", "cont", "unlock",
              "closing", "exited"}
  /\ irq \in {"none", "accept", "read", "lock", "exception", "unlock"}
  /\ lock \in {"free", "gdb", "irq"}
  /\ proc \in {"running", "killed", "aborted", "overrun", "exited"}
  /\ heap \in {"live", "core_freed", "freed"}
  /\ uaf \in BOOLEAN
  /\ errlen \in Nat
  /\ client \in {"none", "open", "gone"}
  /\ wr \in {"open", "shut"}
  /\ tokens \in 0 .. MaxTokens
  /\ fds \in 0 .. MaxFds

\* The core is never in the hands of both threads: a handler of gdb, a whole
\* cont included, and an exception exclude each other (shared.lock).
MutualExclusion == ~(GdbInside /\ IrqInside)

\* What makes it so: the lock is held by the thread that is inside.
LockInv == /\ lock = "gdb" <=> GdbInside
           /\ lock = "irq" <=> IrqInside

\* The stages of main: threads do not run before they are created, the gdb
\* thread has exited when main is past its join, and only then is anything
\* freed.
LifeInv == /\ main = "create_gdb" => gdb = "none"
           /\ main \in {"create_gdb", "create_irq"} => irq = "none"
           /\ main \in {"destroy_arm", "destroy_memory", "return"}
                => gdb = "exited"
           /\ heap # "live" => main \in {"destroy_memory", "return"}
           /\ uaf => heap # "live"

\* main frees the core without taking the lock.  Joining the gdb thread
\* first is what keeps its handlers off freed memory ...
HandlersUseLiveCore == GdbInside => heap = "live"

\* ... and the irq thread, which nobody joins, can reach the freed core only
\* in the window between arm_destroy and the return of main.
UseAfterFreeOnlyAtExit ==
  uaf => gdb = "exited" /\ main \in {"destroy_memory", "return"}

\* The scanner never writes past its error buffer: the index of the next
\* character, and of the final '\0' of handle_error, stays inside.
ErrorBufferBound == errlen \in 0 .. MAX_ERROR_SIZE - 1

\* The inductive invariant behind the five properties above.
IInv == TypeOK /\ LockInv /\ LifeInv /\ ErrorBufferBound

Sent(t) == Cardinality({k \in DOMAIN out : out[k].t = t})

\* Every packet that was acknowledged gets exactly one reply before the next
\* one is acknowledged, through errors, retransmissions and cont; only a
\* kill is never answered.
OneReplyPerPacket ==
  proc = "running" /\ gdb \notin {"none", "accept", "exited"} =>
    Sent("ack") = Sent("reply")
                    + (IF gdb \in {"lock", "handle", "cont"} THEN 1 ELSE 0)
                    + (IF wr = "shut" THEN 1 ELSE 0)

\* A retransmission is the reply that was last sent, and none is made before
\* there is one.
RetransmitsLastReply ==
  \A k \in DOMAIN out : out[k].t = "again" =>
    \E j \in 1 .. k - 1 : /\ out[j] = Reply(out[k].r)
                         /\ \A l \in j + 1 .. k - 1 : out[l].t # "reply"

\* cont never executes a breakpoint: the word it looked at is the one that
\* arm_step fetches, no exception or pc adjustment coming in between.
BreakpointNotExecuted ==
  [][gdb = "cont" /\ arm' # arm /\ Accepts(arm.mem, FetchAddress(arm))
     => ~IsBreakpoint(Decode(FetchedWord(arm)))]_vars

\* gdb may save all registers with g and restore them with G: what g then
\* answers is what it answered before, pc and cpsr included.
RegisterRoundTrip ==
  LET view == read_general_registers(arm)
  IN  read_general_registers(write_general_registers(arm, view.values)) = view

\* gdb sees one byte order: the text of a register in g and p is the text m
\* would give of the memory the register was stored to.
RegisterTextIsMemoryText ==
  \A r \in 0 .. 14 :
    LET w == arm.reg[r]
        m == memory_write_word(arm.mem, 0, BytesOf(w))
    IN  write_uint32(w) = [k \in 1 .. 4 |-> ByteAt(m, k - 1)]

\* p answers with the register it was asked for, as g shows it: P reads the
\* same number with "%x", and read_register has a case for the pc.
RegisterNumbers ==
  gdb = "unlock" /\ pkt.cmd = "p" /\ pkt.reg < 16 =>
    packet.value = read_general_registers(arm).values[pkt.reg]

\* What an X has put into the memory is what m then shows, up to the end of
\* the memory, also when the X goes on beyond it (and is answered OK).
MemoryRoundTrip ==
  \A q \in Packets :
    LET p == write_memory_binary(arm, q.address, q.bytes)
        n == Min({Len(q.bytes), Size - q.address})
    IN  q.cmd = "X" /\ q.address < Size /\ ~p.fault
          => read_memory(p, q.address, n).bytes = SubSeq(q.bytes, 1, n)

\* Only the answer to an m is ever too long for gdb->packet, and only when
\* the bytes it was asked for, framed and terminated, do not fit: g, with the
\* registers that do not exist, a stop reason and the other texts never are.
OnlyLongReadsOverrun ==
  proc = "overrun" => pkt.cmd = "m" /\ 2 * pkt.size + 5 > MAX_PACKET_SIZE

\* gdb keeps to the size that query announces, and then every answer fits.
AnnouncedReadsFit ==
  proc = "overrun" => pkt.cmd = "m" /\ 2 * pkt.size > AnnouncedSize

\* If interrupts cease, a handler that is not cont returns to the scanner with
\* its answer sent (a kill with the connection shut), or the process ends.
QuietIrq == <>[](irq \in {"none", "accept", "read"})
HandlersAnswer ==
  QuietIrq => (gdb = "lock" /\ pkt.cmd # "c"
                 ~> \/ gdb = "scan" /\ (Sent("ack") = Sent("reply") \/ wr = "shut")
                    \/ proc # "running")

\* If interrupts cease, the process ends after the client closes, unless a
\* cont is running.
ProcessEnds ==
  QuietIrq => (client = "gone" ~> gdb = "cont" \/ proc # "running")

\* arm_simulator.c, usage: the simulator "acts as a gdb server and can
\* receive interrupts": a byte that was read is turned into an exception.
InterruptsAreReceived == irq = "lock" ~> irq # "lock" \/ proc # "running"
=============================================================================

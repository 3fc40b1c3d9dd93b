----------------------------- MODULE GdbSession -----------------------------
(***************************************************************************)
(* The simulator with gdb at the other end of the connection.  What the    *)
(* scanner meets is now what gdb has sent: a command, again when the       *)
(* server asks for it with '-', '+' or '-' for a reply, and 0x03 when the  *)
(* user interrupts a running program.  gdb waits for the '+' of a command, *)
(* then for its reply, and skips anything else.                            *)
(*                                                                         *)
(* The connection keeps the order and loses nothing, but the text of a     *)
(* packet or of a reply may arrive with a wrong checksum: the case for     *)
(* which both sides can ask for a retransmission.                          *)
(***************************************************************************)
EXTENDS ArmSimulator

CONSTANTS MaxCommands,   \* bound: commands gdb issues
          MaxFaults,     \* bound: checksums that arrive wrong
          MaxStrays      \* bound: 0x03 bytes gdb sends

ASSUME SessionAssumption == /\ MaxCommands \in Nat
                            /\ MaxFaults \in Nat
                            /\ MaxStrays \in Nat

VARIABLES cs,       \* what gdb waits for: nothing (idle), ack or reply;
                    \* done after a kill
          cur,      \* the command it issued last
          line,     \* what it sent and the scanner has not met
          rd,       \* how much of out it has read
          issued,   \* commands issued
          faults,   \* checksums that arrived wrong
          strays,   \* 0x03 bytes sent
          got       \* the last reply it accepted

gdbClientVars == <<cs, cur, line, rd, issued, faults, strays, got>>
sessionVars == <<vars, gdbClientVars>>

Plus == [t |-> "plus"]
Minus == [t |-> "minus"]
Other == [t |-> "other"]
Bad == [t |-> "bad"]
Packet(q) == [t |-> "packet", q |-> q]

SessionInit == /\ Init
               /\ cs = "idle" /\ cur = NoPacket /\ line = << >> /\ rd = 0
               /\ issued = 0 /\ faults = 0 /\ strays = 0 /\ got = NoReply

-----------------------------------------------------------------------------
(* gdb                                                                     *)

Issue == /\ cs = "idle" /\ client = "open" /\ issued < MaxCommands
         /\ \E q \in Packets : /\ cur' = q
                               /\ line' = Append(line, Packet(q))
         /\ issued' = issued + 1 /\ cs' = "ack"
         /\ UNCHANGED <<vars, rd, faults, strays, got>>

\* The next message of the server, while gdb waits for what.
Reads(what, kinds) == /\ cs = what /\ client = "open" /\ rd < Len(out)
                      /\ out[rd + 1].t \in kinds
                      /\ rd' = rd + 1

ReadAck == /\ Reads("ack", {"ack"})
           /\ cs' = IF cur.cmd = "k" THEN "done" ELSE "reply"
           /\ UNCHANGED <<vars, cur, line, issued, faults, strays, got>>

Resend == /\ Reads("ack", {"nak"})
          /\ line' = Append(line, Packet(cur))
          /\ UNCHANGED <<vars, cs, cur, issued, faults, strays, got>>

\* A packet instead of an ack, an ack instead of a packet.
Skip == /\ \/ Reads("ack", {"reply", "again"})
           \/ Reads("reply", {"ack", "nak"})
        /\ UNCHANGED <<vars, cs, cur, line, issued, faults, strays, got>>

ReadReply == /\ Reads("reply", {"reply", "again"})
             /\ got' = out[rd + 1].r
             /\ line' = Append(line, Plus) /\ cs' = "idle"
             /\ UNCHANGED <<vars, cur, issued, faults, strays>>

ReadBadReply == /\ Reads("reply", {"reply", "again"})
                /\ faults < MaxFaults /\ faults' = faults + 1
                /\ line' = Append(line, Minus)
                /\ UNCHANGED <<vars, cs, cur, issued, strays, got>>

\* The user's interrupt, while the program runs.
SendInterrupt == /\ cs = "reply" /\ cur.cmd = "c" /\ client = "open"
                 /\ strays < MaxStrays /\ strays' = strays + 1
                 /\ line' = Append(line, Other)
                 /\ UNCHANGED <<vars, cs, cur, rd, issued, faults, got>>

\* On its way a packet is damaged.
Damage == /\ faults < MaxFaults /\ faults' = faults + 1
          /\ \E k \in DOMAIN line : /\ line[k].t = "packet"
                                    /\ line' = [line EXCEPT ![k] = Bad]
          /\ UNCHANGED <<vars, cs, cur, rd, issued, strays, got>>

ClientReads == ReadAck \/ Resend \/ Skip \/ ReadReply

-----------------------------------------------------------------------------
(* The server                                                              *)

\* The scanner meets the head of the line.
Meets(t) == /\ line # << >> /\ Head(line).t = t
            /\ line' = Tail(line)
            /\ UNCHANGED <<cs, cur, rd, issued, faults, strays, got>>

ServerScans == \/ Meets("plus") /\ ScanPlus
               \/ Meets("minus") /\ ScanMinus
               \/ Meets("other") /\ ScanOther
               \/ Meets("bad") /\ ScanBadPacket
               \/ Meets("packet") /\ ScanPacket /\ pkt' = Head(line).q
               \/ /\ Meets("packet") /\ ScanUnsupported
                  /\ Head(line).q.cmd \notin Commands

ServerEof == line = << >> /\ ScanEof /\ UNCHANGED gdbClientVars

\* What does not depend on what gdb sends.
ServerSteps == /\ \/ MainNext \/ CreateServerFails \/ GdbAccept
                  \/ ClientCloses \/ ScanReadError \/ GdbWork
                  \/ IrqAccept \/ IrqRead \/ IrqEof \/ IrqReadError \/ IrqWork
               /\ UNCHANGED gdbClientVars

SessionNext == /\ proc = "running"
               /\ \/ Issue \/ ClientReads \/ ReadBadReply
                  \/ SendInterrupt \/ Damage
                  \/ ServerScans \/ ServerEof \/ ServerSteps

SessionSpec == SessionInit /\ [][SessionNext]_sessionVars

\* The fairness of ArmSimulator, and: the scanner goes on with what has
\* arrived, and gdb reads what has arrived for it.
Serving(A) == proc = "running" /\ A /\ UNCHANGED gdbClientVars
SessionFairness == /\ WF_sessionVars(Serving(MainNext))
                   /\ WF_sessionVars(Serving(GdbWork))
                   /\ WF_sessionVars(Serving(IrqWork))
                   /\ WF_sessionVars(Running(ServerScans))
                   /\ WF_sessionVars(Running(ServerEof))
                   /\ WF_sessionVars(Running(ClientReads))
FairSession == SessionSpec /\ SessionFairness

-----------------------------------------------------------------------------
(* Properties                                                              *)

\* The refinement mapping: where the promise of GdbServer stands.  A command
\* is answered once there are as many replies as commands.
Off == \/ proc # "running" \/ client = "gone" \/ wr = "shut"
       \/ strays > 0
Phase == CASE Off                      -> "off"
           [] ~Off /\ cs = "idle"      -> "idle"
           [] ~Off /\ cs # "idle" /\ gdb = "cont" -> "running"
           [] ~Off /\ cs # "idle" /\ gdb # "cont" ->
                IF Sent("reply") = issued THEN "answered" ELSE "asked"

Server == INSTANCE GdbServer
            WITH Requests <- Packets, Exceptions <- Irqs,
                 Cores <- CreatedCores, Round <- ContRound,
                 Nothing <- NoPacket, phase <- Phase, req <- cur,
                 rep <- IF Phase = "answered" THEN packet ELSE NoReply

\* Through damaged packets and replies, retransmissions in both directions,
\* interrupts and the threads of the server, every command is executed
\* exactly once and gdb accepts the reply to its own command (scanner.l,
\* gdb_packet_analysis, gdb_transmit_packet, shared.lock).
ServesOnce == Server!Spec

\* A 0x03 byte is an error to the scanner, which asks for a retransmission
\* at the next token, when gdb may already have issued another command: that
\* command then runs twice.  It is no worse than that: every byte costs at
\* most one extra execution.
ExtraExecutions == Sent("ack") <= issued + strays

\* The same in terms of replies: the ones gdb has not read, and so the lag of
\* its next one, are bounded by the bytes it sent.
UnreadReplies == Cardinality({k \in rd + 1 .. Len(out) : out[k].t = "reply"})
ReplyLag == cs = "idle" => UnreadReplies <= strays

\* gdb always gets a reply when interrupts of the irq client cease, unless
\* the program runs on, or the connection or the process ends.
CommandsAnswered ==
  QuietIrq => (cs \in {"ack", "reply"} ~>
                 \/ cs \in {"idle", "done"} \/ gdb = "cont"
                 \/ client = "gone" \/ proc # "running")
=============================================================================

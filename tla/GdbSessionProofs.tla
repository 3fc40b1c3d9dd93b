-------------------------- MODULE GdbSessionProofs --------------------------
(***************************************************************************)
(* Sessions with gdb, for every set of packets and every number of         *)
(* commands, damaged checksums and stray bytes.  GdbSession only restricts *)
(* what the scanner may meet, so what is proved of the simulator holds of  *)
(* a session; the price of stray bytes is bounded; and without them a      *)
(* session is one of GdbServer, which serves every command once.           *)
(***************************************************************************)
EXTENDS GdbSession, ArmSimulatorProofs

\* Every step of a session is a step of the simulator, or one of gdb alone.
LEMMA SessionStep == [SessionNext]_sessionVars => [Next]_vars
  <1> SUFFICES ASSUME [SessionNext]_sessionVars
               PROVE  [Next]_vars
    OBVIOUS
  <1>1. CASE UNCHANGED sessionVars
    BY <1>1 DEF sessionVars
  <1>2. CASE Issue \/ ClientReads \/ ReadBadReply \/ SendInterrupt \/ Damage
    BY <1>2 DEF Issue, ClientReads, ReadAck, Resend, Skip, ReadReply,
                ReadBadReply, SendInterrupt, Damage
  <1>3. CASE SessionNext /\ (ServerScans \/ ServerEof)
    BY <1>3 DEF SessionNext, ServerScans, ServerEof, Next, ScanNext
  <1>4. CASE SessionNext /\ ServerSteps
    BY <1>4 DEF SessionNext, ServerSteps, Next, ScanNext
  <1>5. QED
    BY <1>1, <1>2, <1>3, <1>4 DEF SessionNext

\* A session with gdb is one of the behaviours of the simulator, so that what
\* is proved of the simulator with any client holds of it.
THEOREM SessionIsSimulator == SessionSpec => Spec
  <1>1. SessionInit => Init
    BY DEF SessionInit
  <1>2. QED
    BY <1>1, SessionStep, PTL DEF SessionSpec, Spec

-----------------------------------------------------------------------------
(* What a step does to the two directions of the connection                *)

Error == IF errlen > 0 THEN 1 ELSE 0

\* The unread messages of kind t.
Unread(t) == Count(out, rd + 1, t)

\* What gdb may have sent.
LineMessage == {Plus, Minus, Other, Bad} \union {Packet(q) : q \in Packets}

\* The invariant of the types: a resent command is one that was issued.
SessionInv == /\ line \in Seq(LineMessage)
              /\ cs \in {"idle", "ack", "reply", "done"}
              /\ cur \in Packets \union {NoPacket}
              /\ cs # "idle" => cur \in Packets
              /\ rd \in 0 .. Len(out)
              /\ issued \in 0 .. MaxCommands
              /\ faults \in 0 .. MaxFaults
              /\ strays \in 0 .. MaxStrays

\* Whatever may still lead to an execution is paid for: acknowledged
\* packets, packets on the line, whole or damaged, requests for a
\* retransmission that gdb has not read, bytes that will cause one, and
\* characters in the error buffer.
ExecInv == All(out, "ack") + All(line, "packet") + All(line, "bad")
             + All(line, "other") + Unread("nak") + Error <= issued + strays

\* gdb has read a reply for every command it went on from, for every
\* retransmission that is under way and for every one it has asked for.
LagInv == All(out, "reply") - Unread("reply")
            >= issued - (IF cs = "idle" THEN 0 ELSE 1)
               + Unread("again") + All(line, "minus")

\* The step is one of the server that leaves s sent or ends the process.
LEMMA ScanSends ==
  ASSUME IsSeq(out)
  PROVE  /\ ScanPlus => Sends(WithError) /\ errlen' = 0
         /\ ScanEof => Sends(WithError) /\ errlen' = 0
         /\ ScanMinus => /\ errlen' = 0
                         /\ \/ Sends(WithError)
                            \/ Sends(Append(WithError, Again(packet)))
         /\ ScanOther => \/ Sends(WithError) /\ errlen' = 1
                         \/ Sends(out) /\ errlen' = errlen + 1
         /\ ScanBadPacket => Sends(Append(WithError, Nak)) /\ errlen' = 0
         /\ ScanPacket => Sends(Append(WithError, Ack)) /\ errlen' = 0
         /\ ScanUnsupported =>
              /\ Sends(Append(Append(WithError, Ack), Reply(EmptyText)))
              /\ errlen' = 0
  <1>1. ScanPlus => Sends(WithError) /\ errlen' = 0
    BY Sending DEF ScanPlus
  <1>2. ScanEof => Sends(WithError) /\ errlen' = 0
    BY Sending DEF ScanEof
  <1>3. ScanMinus => /\ errlen' = 0
                     /\ \/ Sends(WithError)
                        \/ Sends(Append(WithError, Again(packet)))
    <2>1. CASE packet = NoReply
      BY <2>1, Sending DEF ScanMinus
    <2>2. CASE packet # NoReply
      BY <2>2, Sending DEF ScanMinus
    <2>3. QED
      BY <2>1, <2>2
  <1>4. ScanOther => \/ Sends(WithError) /\ errlen' = 1
                     \/ Sends(out) /\ errlen' = errlen + 1
    BY Sending DEF ScanOther
  <1>5. ScanBadPacket => Sends(Append(WithError, Nak)) /\ errlen' = 0
    BY Sending DEF ScanBadPacket
  <1>6. ScanPacket => Sends(Append(WithError, Ack)) /\ errlen' = 0
    BY Sending DEF ScanPacket
  <1>7. ScanUnsupported =>
              /\ Sends(Append(Append(WithError, Ack), Reply(EmptyText)))
              /\ errlen' = 0
    BY Sending DEF ScanUnsupported
  <1>8. QED
    BY <1>1, <1>2, <1>3, <1>4, <1>5, <1>6, <1>7

\* Steps that do not depend on gdb send a reply or nothing.
LEMMA ServerSends ==
  ASSUME IsSeq(out), ServerSteps
  PROVE  /\ errlen' = errlen /\ UNCHANGED gdbClientVars
         /\ out' = out \/ \E r : out' = Append(out, Reply(r))
  <1> USE DEF coreVars, gdbVars, netVars, irqVars
  <1>1. UNCHANGED gdbClientVars
    BY DEF ServerSteps
  <1>2. ASSUME NEW r, Finish(r)
        PROVE  errlen' = errlen /\ (out' = out \/ out' = Append(out, Reply(r)))
    BY <1>2, Sending DEF Finish, Sends
  <1>3. CASE GdbHandle
    <2>1. \/ \E o \in Handle(arm, exc, pkt) : Finish(o.reply)
          \/ errlen' = errlen /\ out' = out
      BY <1>3 DEF GdbHandle
    <2>2. QED
      BY <1>1, <1>2, <2>1
  <1>4. CASE ContStop
    BY <1>1, <1>2, <1>4 DEF ContStop
  <1>5. CASE MainNext
    BY <1>1, <1>5 DEF MainNext, MainCreateGdb, MainCreateIrq, MainJoin,
                      MainDestroyArm, MainDestroyMemory, MainReturn
  <1>6. CASE CreateServerFails \/ GdbAccept \/ ClientCloses \/ ScanReadError
               \/ GdbLock \/ ContStep \/ GdbUnlock \/ GdbClose
    BY <1>1, <1>6 DEF CreateServerFails, GdbAccept, ClientCloses,
                      ScanReadError, GdbLock, ContStep, GdbUnlock, GdbClose
  <1>7. CASE IrqAccept \/ IrqRead \/ IrqEof \/ IrqReadError \/ IrqWork
    BY <1>1, <1>7 DEF IrqAccept, IrqRead, IrqEof, IrqReadError, IrqWork,
                      IrqLock, IrqException, IrqUnlock
  <1>8. QED
    BY <1>3, <1>4, <1>5, <1>6, <1>7 DEF ServerSteps, GdbWork

-----------------------------------------------------------------------------
(* Counting                                                                *)

\* s is what was sent and some messages more, of the four kinds; the same
\* numbers are added to all that was sent and to what gdb has not read.
Adds(s, naks, acks, replies, agains) ==
  /\ IsSeq(s) /\ Len(s) >= Len(out)
  /\ \A a \in {1, rd + 1} :
       /\ Count(s, a, "nak") = Count(out, a, "nak") + naks
       /\ Count(s, a, "ack") = Count(out, a, "ack") + acks
       /\ Count(s, a, "reply") = Count(out, a, "reply") + replies
       /\ Count(s, a, "again") = Count(out, a, "again") + agains

LEMMA AddsNothing ==
  ASSUME IsSeq(out), rd \in 0 .. Len(out)
  PROVE  Adds(out, 0, 0, 0, 0)
  <1>1. Len(out) \in Nat
    BY SeqFacts
  <1>2. \A a \in {1, rd + 1} : \A t : Count(out, a, t) \in Nat
    BY <1>1, CountType
  <1>3. QED
    BY <1>1, <1>2 DEF Adds

LEMMA AddsMessage ==
  ASSUME IsSeq(out), rd \in 0 .. Len(out),
         NEW n \in Nat, NEW a \in Nat, NEW r \in Nat, NEW g \in Nat,
         NEW s, Adds(s, n, a, r, g), NEW m
  PROVE  Adds(Append(s, m), n + One(m, "nak"), a + One(m, "ack"),
              r + One(m, "reply"), g + One(m, "again"))
  <1>1. Len(out) \in Nat /\ Len(s) \in Nat /\ IsSeq(s) /\ Len(s) >= Len(out)
    BY SeqFacts DEF Adds
  <1>2. \A b \in {1, rd + 1} : b \in 1 .. Len(s) + 1
    BY <1>1
  <1>3. \A b \in {1, rd + 1} : \A t : Count(out, b, t) \in Nat
    BY <1>1, CountType
  <1>4. \A t : One(m, t) \in Nat
    BY DEF One
  <1>5. IsSeq(Append(s, m)) /\ Len(Append(s, m)) = Len(s) + 1
    BY <1>1, SeqFacts
  <1>6. \A b \in {1, rd + 1} : \A t :
          Count(Append(s, m), b, t) = Count(s, b, t) + One(m, t)
    BY <1>1, <1>2, CountAppend
  <1>7. ASSUME NEW b \in {1, rd + 1}, NEW t, NEW d \in Nat,
               Count(s, b, t) = Count(out, b, t) + d
        PROVE  Count(Append(s, m), b, t) = Count(out, b, t) + (d + One(m, t))
    BY <1>3, <1>4, <1>6, <1>7
  <1>8. \A b \in {1, rd + 1} :
          /\ Count(Append(s, m), b, "nak") = Count(out, b, "nak") + (n + One(m, "nak"))
          /\ Count(Append(s, m), b, "ack") = Count(out, b, "ack") + (a + One(m, "ack"))
          /\ Count(Append(s, m), b, "reply") =
               Count(out, b, "reply") + (r + One(m, "reply"))
          /\ Count(Append(s, m), b, "again") =
               Count(out, b, "again") + (g + One(m, "again"))
    BY <1>7 DEF Adds
  <1>9. Len(Append(s, m)) >= Len(out)
    BY <1>1, <1>5
  <1>10. QED
    BY <1>5, <1>8, <1>9, Zenon DEF Adds

\* What the scanner and the handlers send, in numbers.
LEMMA AddsSent ==
  ASSUME IsSeq(out), rd \in 0 .. Len(out)
  PROVE  /\ Adds(WithError, Error, 0, 0, 0)
         /\ \A p : Adds(Append(WithError, Again(p)), Error, 0, 0, 1)
         /\ Adds(Append(WithError, Nak), Error + 1, 0, 0, 0)
         /\ Adds(Append(WithError, Ack), Error, 1, 0, 0)
         /\ \A p : Adds(Append(Append(WithError, Ack), Reply(p)), Error, 1, 1, 0)
         /\ \A p : Adds(Append(out, Reply(p)), 0, 0, 1, 0)
  <1> USE DEF One
  <1>1. Adds(out, 0, 0, 0, 0)
    BY AddsNothing
  <1>2. Error \in Nat
    BY DEF Error
  <1>3. Adds(WithError, Error, 0, 0, 0)
    <2>1. Nak.t = "nak"
      BY DEF Nak
    <2>2. CASE errlen > 0
      <3>1. Adds(Append(out, Nak), 0 + 1, 0 + 0, 0 + 0, 0 + 0)
        BY <1>1, <2>1, AddsMessage
      <3>2. QED
        BY <2>2, <3>1 DEF WithError, Error
    <2>3. CASE ~(errlen > 0)
      BY <1>1, <2>3 DEF WithError, Error
    <2>4. QED
      BY <2>2, <2>3
  <1>4. ASSUME NEW p PROVE Adds(Append(WithError, Again(p)), Error, 0, 0, 1)
    <2>1. Again(p).t = "again"
      BY DEF Again
    <2>2. Adds(Append(WithError, Again(p)), Error + 0, 0 + 0, 0 + 0, 0 + 1)
      BY <1>2, <1>3, <2>1, AddsMessage
    <2>3. QED
      BY <1>2, <2>2
  <1>5. Adds(Append(WithError, Nak), Error + 1, 0, 0, 0)
    <2>1. Nak.t = "nak"
      BY DEF Nak
    <2>2. Adds(Append(WithError, Nak), Error + 1, 0 + 0, 0 + 0, 0 + 0)
      BY <1>2, <1>3, <2>1, AddsMessage
    <2>3. QED
      BY <2>2
  <1>6. Adds(Append(WithError, Ack), Error, 1, 0, 0)
    <2>1. Ack.t = "ack"
      BY DEF Ack
    <2>2. Adds(Append(WithError, Ack), Error + 0, 0 + 1, 0 + 0, 0 + 0)
      BY <1>2, <1>3, <2>1, AddsMessage
    <2>3. QED
      BY <1>2, <2>2
  <1>7. ASSUME NEW p
        PROVE  Adds(Append(Append(WithError, Ack), Reply(p)), Error, 1, 1, 0)
    <2>1. Reply(p).t = "reply"
      BY DEF Reply
    <2>2. Adds(Append(Append(WithError, Ack), Reply(p)),
               Error + 0, 1 + 0, 0 + 1, 0 + 0)
      BY <1>2, <1>6, <2>1, AddsMessage
    <2>3. QED
      BY <1>2, <2>2
  <1>8. ASSUME NEW p PROVE Adds(Append(out, Reply(p)), 0, 0, 1, 0)
    <2>1. Reply(p).t = "reply"
      BY DEF Reply
    <2>2. Adds(Append(out, Reply(p)), 0 + 0, 0 + 0, 0 + 1, 0 + 0)
      BY <1>1, <2>1, AddsMessage
    <2>3. QED
      BY <2>2
  <1>9. QED
    BY <1>3, <1>4, <1>5, <1>6, <1>7, <1>8

\* The scanner takes a message of kind t off the line.
LEMMA MeetsLine ==
  ASSUME line \in Seq(LineMessage), NEW t, Meets(t)
  PROVE  /\ line' \in Seq(LineMessage)
         /\ \A x : All(line, x) = All(line', x) + (IF t = x THEN 1 ELSE 0)
  <1>1. line # << >> /\ Head(line).t = t /\ line' = Tail(line)
    BY DEF Meets
  <1>2. IsSeq(line)
    BY DEF IsSeq
  <1>3. \A x : One(Head(line), x) = IF t = x THEN 1 ELSE 0
    BY <1>1 DEF One
  <1>4. QED
    BY <1>1, <1>2, <1>3, AllTail

\* All numbers are numbers.
LEMMA Numbers ==
  ASSUME SessionInv, IsSeq(out)
  PROVE  /\ \A t : All(out, t) \in Nat /\ Unread(t) \in Nat /\ All(line, t) \in Nat
         /\ issued \in Nat /\ strays \in Nat /\ rd \in Nat /\ Len(out) \in Nat
         /\ Error \in Nat
  <1>1. IsSeq(line)
    BY DEF SessionInv, IsSeq
  <1>2. Len(out) \in Nat /\ issued \in Nat /\ strays \in Nat /\ rd \in Nat
    BY SeqFacts, SessionAssumption DEF SessionInv
  <1>3. QED
    BY <1>1, <1>2, AllType, CountType DEF Unread, Error

\* A step of the server: it takes p packets, b damaged ones, o other bytes
\* and m minus off the line, and sends n, a, r and g messages.
LEMMA ServerCounts ==
  ASSUME SessionInv, IsSeq(out), ExecInv, LagInv,
         UNCHANGED <<cs, rd, issued, strays>>,
         NEW p \in Nat, NEW b \in Nat, NEW o \in Nat, NEW m \in Nat,
         All(line, "packet") = All(line', "packet") + p,
         All(line, "bad") = All(line', "bad") + b,
         All(line, "other") = All(line', "other") + o,
         All(line, "minus") = All(line', "minus") + m,
         \A x : All(line', x) \in Nat,
         NEW n \in Nat, NEW a \in Nat, NEW r \in Nat, NEW g \in Nat,
         Adds(out', n, a, r, g),
         a + n + Error' <= p + b + o + Error,
         g <= m
  PROVE  ExecInv' /\ LagInv'
  <1>1. /\ \A t : All(out, t) \in Nat /\ Unread(t) \in Nat /\ All(line, t) \in Nat
        /\ issued \in Nat /\ strays \in Nat /\ Error \in Nat
    BY Numbers
  <1>2. /\ All(out', "ack") = All(out, "ack") + a
        /\ All(out', "reply") = All(out, "reply") + r
        /\ Count(out', rd + 1, "nak") = Unread("nak") + n
        /\ Count(out', rd + 1, "reply") = Unread("reply") + r
        /\ Count(out', rd + 1, "again") = Unread("again") + g
    BY DEF Adds, All, Unread
  <1>3. Error' \in Nat
    BY DEF Error
  <1>4. ExecInv'
    <2>1. All(out', "ack") + All(line', "packet") + All(line', "bad")
            + All(line', "other") + Count(out', rd + 1, "nak") + Error'
            <= issued + strays
      <3> DEFINE acks == All(out, "ack")
                 naks == Unread("nak")
                 p1 == All(line', "packet")
                 b1 == All(line', "bad")
                 o1 == All(line', "other")
                 e0 == Error
                 e1 == Error'
      <3>1. /\ acks \in Nat /\ naks \in Nat /\ p1 \in Nat /\ b1 \in Nat
            /\ o1 \in Nat /\ e0 \in Nat /\ e1 \in Nat
        BY <1>1, <1>3
      <3>2. acks + (p1 + p) + (b1 + b) + (o1 + o) + naks + e0 <= issued + strays
        BY DEF ExecInv
      <3>3. a + n + e1 <= p + b + o + e0
        OBVIOUS
      <3> HIDE DEF acks, naks, p1, b1, o1, e0, e1
      <3>4. (acks + a) + p1 + b1 + o1 + (naks + n) + e1 <= issued + strays
        BY <1>1, <3>1, <3>2, <3>3
      <3>5. QED
        BY <1>2, <3>4 DEF acks, naks, p1, b1, o1, e1
    <2>2. QED
      BY <2>1 DEF ExecInv, Unread
  <1>5. LagInv'
    <2>1. All(out', "reply") - Count(out', rd + 1, "reply")
            >= issued - (IF cs = "idle" THEN 0 ELSE 1)
               + Count(out', rd + 1, "again") + All(line', "minus")
      BY <1>1, <1>2 DEF LagInv
    <2>2. QED
      BY <2>1 DEF LagInv, Unread
  <1>6. QED
    BY <1>4, <1>5

\* gdb reads a message.
LEMMA ReadsCounts ==
  ASSUME SessionInv, IsSeq(out), UNCHANGED vars, NEW what, NEW kinds,
         Reads(what, kinds)
  PROVE  /\ cs = what /\ rd' \in 0 .. Len(out') /\ out' = out
         /\ Error' = Error
         /\ \A t : /\ Unread(t)' \in Nat
                   /\ Unread(t) = Unread(t)' + (IF out[rd + 1].t = t THEN 1 ELSE 0)
         /\ out[rd + 1].t \in kinds
  <1>1. /\ cs = what /\ rd < Len(out) /\ out[rd + 1].t \in kinds /\ rd' = rd + 1
        /\ out' = out /\ errlen' = errlen
    BY DEF Reads, vars, netVars, gdbVars
  <1>2. Len(out) \in Nat /\ rd \in Nat
    BY Numbers
  <1>3. rd + 1 \in 1 .. Len(out)
    BY <1>1, <1>2
  <1>4. \A t : Count(out, rd + 1, t) = Count(out, (rd + 1) + 1, t) + One(out[rd + 1], t)
    BY <1>3, CountFirst
  <1>5. (rd + 1) + 1 \in Int
    BY <1>2
  <1>6. \A t : Count(out, (rd + 1) + 1, t) \in Nat
    BY <1>5, CountType
  <1>7. QED
    BY <1>1, <1>3, <1>4, <1>6 DEF Unread, Error, One

\* The kinds of what gdb sends.
LEMMA LineKinds ==
  /\ Plus \in LineMessage /\ Minus \in LineMessage /\ Other \in LineMessage
  /\ Bad \in LineMessage
  /\ \A q \in Packets : Packet(q) \in LineMessage
  /\ Plus.t = "plus" /\ Minus.t = "minus" /\ Other.t = "other" /\ Bad.t = "bad"
  /\ \A q : Packet(q).t = "packet"
  BY DEF LineMessage, Plus, Minus, Other, Bad, Packet

\* The whole invariant of a session.
Inv == SessionInv /\ ExecInv /\ LagInv

LEMMA InitSession == SessionInit => Inv
  <1> SUFFICES ASSUME SessionInit PROVE Inv
    OBVIOUS
  <1>1. /\ out = << >> /\ line = << >> /\ rd = 0 /\ issued = 0 /\ faults = 0
        /\ strays = 0 /\ cs = "idle" /\ cur = NoPacket /\ errlen = 0
    BY DEF SessionInit, Init
  <1>2. \A t : All(out, t) = 0 /\ All(line, t) = 0 /\ Unread(t) = 0
    <2>1. \A t : Count(<< >>, 1, t) = 0
      BY CountEmpty
    <2>2. rd + 1 = 1
      BY <1>1
    <2>3. QED
      BY <1>1, <2>1, <2>2 DEF All, Unread
  <1>3. SessionInv
    BY <1>1, SessionAssumption DEF SessionInv
  <1>4. ExecInv /\ LagInv
    BY <1>1, <1>2 DEF ExecInv, LagInv, Error
  <1>5. QED
    BY <1>3, <1>4 DEF Inv

Waiting == IF cs = "idle" THEN 0 ELSE 1

\* In a step of gdb it puts p packets, o other bytes and m minus on the line,
\* reads n naks, r replies and g retransmissions, and issues i commands and z
\* stray bytes.
ClientDelta(p, o, m, n, r, g, i, z) ==
  /\ All(line', "packet") \in Nat /\ All(line', "bad") \in Nat
  /\ All(line', "packet") + All(line', "bad")
       = All(line, "packet") + All(line, "bad") + p
  /\ All(line', "other") = All(line, "other") + o
  /\ All(line', "minus") = All(line, "minus") + m
  /\ Unread("nak")' \in Nat /\ Unread("nak") = Unread("nak")' + n
  /\ Unread("reply")' \in Nat /\ Unread("reply") = Unread("reply")' + r
  /\ Unread("again")' \in Nat /\ Unread("again") = Unread("again")' + g
  /\ issued' = issued + i /\ strays' = strays + z
  /\ p + o <= n + i + z
  /\ m + i + Waiting <= r + g + Waiting'

LEMMA ClientCounts ==
  ASSUME Inv, IsSeq(out), out' = out, errlen' = errlen,
         NEW p \in 0 .. 1, NEW o \in 0 .. 1, NEW m \in 0 .. 1,
         NEW n \in 0 .. 1, NEW r \in 0 .. 1, NEW g \in 0 .. 1,
         NEW i \in 0 .. 1, NEW z \in 0 .. 1,
         ClientDelta(p, o, m, n, r, g, i, z)
  PROVE  ExecInv' /\ LagInv'
  <1> DEFINE acks == All(out, "ack")
             replies == All(out, "reply")
             lp == All(line, "packet")
             lb == All(line, "bad")
             lp1 == All(line', "packet")
             lb1 == All(line', "bad")
             lo == All(line, "other")
             lm == All(line, "minus")
             un == Unread("nak")'
             ur == Unread("reply")'
             ug == Unread("again")'
             e == Error
             w == Waiting
             w1 == Waiting'
  <1>1. /\ acks \in Nat /\ replies \in Nat /\ lp \in Nat /\ lb \in Nat
        /\ lo \in Nat /\ lm \in Nat /\ un \in Nat /\ ur \in Nat /\ ug \in Nat
        /\ lp1 \in Nat /\ lb1 \in Nat /\ e \in Nat
        /\ issued \in Nat /\ strays \in Nat
    BY Numbers DEF Inv, ClientDelta
  <1>2. w \in Nat /\ w1 \in Nat
    BY DEF Waiting
  <1>3. acks + lp + lb + lo + (un + n) + e <= issued + strays
    BY DEF Inv, ExecInv, ClientDelta
  <1>4. replies - (ur + r) >= issued - w + (ug + g) + lm
    BY DEF Inv, LagInv, Waiting, ClientDelta
  <1>5. lp1 + lb1 = lp + lb + p /\ p + o <= n + i + z
    BY DEF ClientDelta
  <1>6. /\ Error' = e /\ All(out', "ack") = acks /\ All(out', "reply") = replies
        /\ All(line', "other") = lo + o /\ All(line', "minus") = lm + m
        /\ issued' = issued + i /\ strays' = strays + z
    BY DEF Error, ClientDelta
  <1>7. m + i + w <= r + g + w1
    BY DEF ClientDelta
  <1>8. ExecInv' <=> All(out', "ack") + lp1 + lb1 + All(line', "other") + un + Error'
                       <= issued' + strays'
    BY DEF ExecInv
  <1>9. LagInv' <=> All(out', "reply") - ur
                      >= issued' - w1 + ug + All(line', "minus")
    BY DEF LagInv, Waiting
  <1> HIDE DEF acks, replies, lp, lb, lp1, lb1, lo, lm, un, ur, ug, e, w, w1
  <1>10. acks + lp1 + lb1 + (lo + o) + un + e <= (issued + i) + (strays + z)
    BY <1>1, <1>3, <1>5
  <1>11. replies - ur >= (issued + i) - w1 + ug + (lm + m)
    BY <1>1, <1>2, <1>4, <1>7
  <1>12. QED
    BY <1>6, <1>8, <1>9, <1>10, <1>11

\* The line and the unread messages, kind by kind.
LEMMA LineCounts ==
  ASSUME SessionInv, NEW m \in LineMessage, line' = Append(line, m)
  PROVE  /\ line' \in Seq(LineMessage)
         /\ All(line', "packet") \in Nat /\ All(line', "bad") \in Nat
         /\ All(line', "packet") + All(line', "bad")
              = All(line, "packet") + All(line, "bad")
                  + (IF m.t \in {"packet", "bad"} THEN 1 ELSE 0)
         /\ All(line', "other") = All(line, "other") + (IF m.t = "other" THEN 1 ELSE 0)
         /\ All(line', "minus") = All(line, "minus") + (IF m.t = "minus" THEN 1 ELSE 0)
  <1>1. IsSeq(line) /\ line \in Seq(LineMessage)
    BY DEF SessionInv, IsSeq
  <1>2. ASSUME NEW t
        PROVE  /\ All(line, t) \in Nat
               /\ All(line', t) = All(line, t) + (IF m.t = t THEN 1 ELSE 0)
    BY <1>1, AllType, AllAppend DEF One
  <1>3. line' \in Seq(LineMessage)
    BY <1>1
  <1>4. /\ All(line, "packet") \in Nat /\ All(line, "bad") \in Nat
        /\ All(line', "packet") = All(line, "packet") + (IF m.t = "packet" THEN 1 ELSE 0)
        /\ All(line', "bad") = All(line, "bad") + (IF m.t = "bad" THEN 1 ELSE 0)
        /\ All(line', "other") = All(line, "other") + (IF m.t = "other" THEN 1 ELSE 0)
        /\ All(line', "minus") = All(line, "minus") + (IF m.t = "minus" THEN 1 ELSE 0)
    BY <1>2
  <1> DEFINE lp == All(line, "packet")
             lb == All(line, "bad")
             lp1 == All(line', "packet")
             lb1 == All(line', "bad")
  <1>5. /\ lp \in Nat /\ lb \in Nat
        /\ lp1 = lp + (IF m.t = "packet" THEN 1 ELSE 0)
        /\ lb1 = lb + (IF m.t = "bad" THEN 1 ELSE 0)
    BY <1>4
  <1> HIDE DEF lp, lb, lp1, lb1
  <1>6. /\ lp1 \in Nat /\ lb1 \in Nat
        /\ lp1 + lb1 = lp + lb + (IF m.t \in {"packet", "bad"} THEN 1 ELSE 0)
    BY <1>5
  <1>7. QED
    BY <1>3, <1>4, <1>6 DEF lp, lb, lp1, lb1

LEMMA LineUnchanged ==
  ASSUME SessionInv, line' = line
  PROVE  /\ All(line', "packet") \in Nat /\ All(line', "bad") \in Nat
         /\ All(line', "packet") + All(line', "bad")
              = All(line, "packet") + All(line, "bad") + 0
         /\ All(line', "other") = All(line, "other") + 0
         /\ All(line', "minus") = All(line, "minus") + 0
  <1>1. IsSeq(line)
    BY DEF SessionInv, IsSeq
  <1> DEFINE lp == All(line, "packet")
             lb == All(line, "bad")
             lo == All(line, "other")
             lm == All(line, "minus")
  <1>2. lp \in Nat /\ lb \in Nat /\ lo \in Nat /\ lm \in Nat
    BY <1>1, AllType
  <1> HIDE DEF lp, lb, lo, lm
  <1>3. lp + lb = lp + lb + 0 /\ lo = lo + 0 /\ lm = lm + 0
    BY <1>2
  <1>4. QED
    BY <1>2, <1>3 DEF lp, lb, lo, lm

LEMMA UnreadUnchanged ==
  ASSUME SessionInv, IsSeq(out), out' = out, rd' = rd
  PROVE  /\ Unread("nak")' \in Nat /\ Unread("nak") = Unread("nak")' + 0
         /\ Unread("reply")' \in Nat /\ Unread("reply") = Unread("reply")' + 0
         /\ Unread("again")' \in Nat /\ Unread("again") = Unread("again")' + 0
  <1>1. \A t : Unread(t) \in Nat
    BY Numbers
  <1>2. \A t : Unread(t)' = Unread(t)
    BY DEF Unread
  <1>3. ASSUME NEW t PROVE Unread(t)' \in Nat /\ Unread(t) = Unread(t)' + 0
    BY <1>1, <1>2
  <1>4. QED
    BY <1>3

\* gdb, alone.
LEMMA ClientStep ==
  ASSUME Inv, IsSeq(out),
         Issue \/ ClientReads \/ ReadBadReply \/ SendInterrupt \/ Damage
  PROVE  Inv'
  <1>1. /\ SessionInv
        /\ issued \in Nat /\ strays \in Nat /\ rd \in Nat /\ Len(out) \in Nat
    BY Numbers DEF Inv
  <1>2. UNCHANGED vars /\ out' = out /\ errlen' = errlen
    BY DEF Issue, ClientReads, ReadAck, Resend, Skip, ReadReply, ReadBadReply,
           SendInterrupt, Damage, vars, netVars, gdbVars
  <1>3. /\ issued + 0 = issued /\ strays + 0 = strays
    BY <1>1
  <1>4. CASE Issue
    <2>1. PICK q \in Packets : cur' = q /\ line' = Append(line, Packet(q))
      BY <1>4 DEF Issue
    <2>2. /\ cs = "idle" /\ cs' = "ack" /\ issued < MaxCommands
          /\ issued' = issued + 1 /\ UNCHANGED <<rd, faults, strays>>
      BY <1>4 DEF Issue
    <2>3. Packet(q) \in LineMessage /\ Packet(q).t = "packet"
      BY LineKinds
    <2>4. line' \in Seq(LineMessage)
      BY <1>1, <2>1, <2>3, LineCounts
    <2>5. SessionInv'
      BY <1>1, <1>2, <2>1, <2>2, <2>4, SessionAssumption DEF SessionInv
    <2>6. ClientDelta(1, 0, 0, 0, 0, 0, 1, 0)
      BY <1>1, <1>2, <1>3, <2>1, <2>2, <2>3, LineCounts, UnreadUnchanged
      DEF ClientDelta, Waiting
    <2>7. QED
      BY <1>2, <2>5, <2>6, ClientCounts DEF Inv
  <1>5. CASE ReadAck
    <2>1. Reads("ack", {"ack"})
      BY <1>5 DEF ReadAck
    <2>2. /\ cs = "ack" /\ rd' \in 0 .. Len(out')
          /\ \A t : /\ Unread(t)' \in Nat
                    /\ Unread(t) = Unread(t)' + (IF out[rd + 1].t = t THEN 1 ELSE 0)
          /\ out[rd + 1].t = "ack"
      BY <1>1, <1>2, <2>1, ReadsCounts
    <2>3. /\ cs' \in {"reply", "done"}
          /\ UNCHANGED <<cur, line, issued, faults, strays>>
      BY <1>5 DEF ReadAck
    <2>4. SessionInv'
      BY <1>1, <2>2, <2>3 DEF SessionInv
    <2>5. ClientDelta(0, 0, 0, 0, 0, 0, 0, 0)
      BY <1>1, <1>3, <2>2, <2>3, LineUnchanged DEF ClientDelta, Waiting
    <2>6. QED
      BY <1>2, <2>4, <2>5, ClientCounts DEF Inv
  <1>6. CASE Resend
    <2>1. Reads("ack", {"nak"})
      BY <1>6 DEF Resend
    <2>2. /\ cs = "ack" /\ rd' \in 0 .. Len(out')
          /\ \A t : /\ Unread(t)' \in Nat
                    /\ Unread(t) = Unread(t)' + (IF out[rd + 1].t = t THEN 1 ELSE 0)
          /\ out[rd + 1].t = "nak"
      BY <1>1, <1>2, <2>1, ReadsCounts
    <2>3. /\ line' = Append(line, Packet(cur))
          /\ UNCHANGED <<cs, cur, issued, faults, strays>>
      BY <1>6 DEF Resend
    <2>4. Packet(cur) \in LineMessage /\ Packet(cur).t = "packet"
      BY <1>1, <2>2, LineKinds DEF SessionInv
    <2>5. line' \in Seq(LineMessage)
      BY <1>1, <2>3, <2>4, LineCounts
    <2>6. SessionInv'
      BY <1>1, <2>2, <2>3, <2>5 DEF SessionInv
    <2>7. ClientDelta(1, 0, 0, 1, 0, 0, 0, 0)
      BY <1>1, <1>3, <2>2, <2>3, <2>4, LineCounts DEF ClientDelta, Waiting
    <2>8. QED
      BY <1>2, <2>6, <2>7, ClientCounts DEF Inv
  <1>7. CASE Skip
    <2>1. \/ Reads("ack", {"reply", "again"})
          \/ Reads("reply", {"ack", "nak"})
      BY <1>7 DEF Skip
    <2>2. /\ cs # "idle" /\ rd' \in 0 .. Len(out')
          /\ \A t : /\ Unread(t)' \in Nat
                    /\ Unread(t) = Unread(t)' + (IF out[rd + 1].t = t THEN 1 ELSE 0)
          /\ out[rd + 1].t \in {"reply", "again", "ack", "nak"}
      BY <1>1, <1>2, <2>1, ReadsCounts
    <2>3. UNCHANGED <<cs, cur, line, issued, faults, strays>>
      BY <1>7 DEF Skip
    <2>4. SessionInv'
      BY <1>1, <2>2, <2>3 DEF SessionInv
    <2>5. \/ ClientDelta(0, 0, 0, 0, 1, 0, 0, 0)
          \/ ClientDelta(0, 0, 0, 0, 0, 1, 0, 0)
          \/ ClientDelta(0, 0, 0, 0, 0, 0, 0, 0)
          \/ ClientDelta(0, 0, 0, 1, 0, 0, 0, 0)
      BY <1>1, <1>3, <2>2, <2>3, LineUnchanged DEF ClientDelta, Waiting
    <2>6. QED
      BY <1>2, <2>4, <2>5, ClientCounts DEF Inv
  <1>8. CASE ReadReply \/ ReadBadReply
    <2>1. Reads("reply", {"reply", "again"})
      BY <1>8 DEF ReadReply, ReadBadReply
    <2>2. /\ cs = "reply" /\ rd' \in 0 .. Len(out')
          /\ \A t : /\ Unread(t)' \in Nat
                    /\ Unread(t) = Unread(t)' + (IF out[rd + 1].t = t THEN 1 ELSE 0)
          /\ out[rd + 1].t \in {"reply", "again"}
      BY <1>1, <1>2, <2>1, ReadsCounts
    <2>3. CASE ReadReply
      <3>1. /\ line' = Append(line, Plus) /\ cs' = "idle"
            /\ UNCHANGED <<cur, issued, faults, strays>>
        BY <2>3 DEF ReadReply
      <3>2. Plus \in LineMessage /\ Plus.t = "plus"
        BY LineKinds
      <3>3. line' \in Seq(LineMessage)
        BY <1>1, <3>1, <3>2, LineCounts
      <3>4. SessionInv'
        BY <1>1, <2>2, <3>1, <3>3 DEF SessionInv
      <3>5. \/ ClientDelta(0, 0, 0, 0, 1, 0, 0, 0)
            \/ ClientDelta(0, 0, 0, 0, 0, 1, 0, 0)
        <4>1. CASE out[rd + 1].t = "reply"
          <5>1. ClientDelta(0, 0, 0, 0, 1, 0, 0, 0)
            BY <1>1, <1>3, <2>2, <3>1, <3>2, <4>1, LineCounts
            DEF ClientDelta, Waiting
          <5>2. QED
            BY <5>1
        <4>2. CASE out[rd + 1].t = "again"
          <5>1. ClientDelta(0, 0, 0, 0, 0, 1, 0, 0)
            BY <1>1, <1>3, <2>2, <3>1, <3>2, <4>2, LineCounts
            DEF ClientDelta, Waiting
          <5>2. QED
            BY <5>1
        <4>3. QED
          BY <2>2, <4>1, <4>2
      <3>6. QED
        BY <1>2, <3>4, <3>5, ClientCounts DEF Inv
    <2>4. CASE ReadBadReply
      <3>1. /\ line' = Append(line, Minus) /\ faults < MaxFaults
            /\ faults' = faults + 1 /\ UNCHANGED <<cs, cur, issued, strays>>
        BY <2>4 DEF ReadBadReply
      <3>2. Minus \in LineMessage /\ Minus.t = "minus"
        BY LineKinds
      <3>3. line' \in Seq(LineMessage)
        BY <1>1, <3>1, <3>2, LineCounts
      <3>4. SessionInv'
        BY <1>1, <2>2, <3>1, <3>3, SessionAssumption DEF SessionInv
      <3>5. \/ ClientDelta(0, 0, 1, 0, 1, 0, 0, 0)
            \/ ClientDelta(0, 0, 1, 0, 0, 1, 0, 0)
        <4>1. CASE out[rd + 1].t = "reply"
          <5>1. ClientDelta(0, 0, 1, 0, 1, 0, 0, 0)
            BY <1>1, <1>3, <2>2, <3>1, <3>2, <4>1, LineCounts
            DEF ClientDelta, Waiting
          <5>2. QED
            BY <5>1
        <4>2. CASE out[rd + 1].t = "again"
          <5>1. ClientDelta(0, 0, 1, 0, 0, 1, 0, 0)
            BY <1>1, <1>3, <2>2, <3>1, <3>2, <4>2, LineCounts
            DEF ClientDelta, Waiting
          <5>2. QED
            BY <5>1
        <4>3. QED
          BY <2>2, <4>1, <4>2
      <3>6. QED
        BY <1>2, <3>4, <3>5, ClientCounts DEF Inv
    <2>5. QED
      BY <1>8, <2>3, <2>4
  <1>9. CASE SendInterrupt
    <2>1. /\ line' = Append(line, Other) /\ strays < MaxStrays
          /\ strays' = strays + 1 /\ UNCHANGED <<cs, cur, rd, issued, faults>>
      BY <1>9 DEF SendInterrupt
    <2>2. Other \in LineMessage /\ Other.t = "other"
      BY LineKinds
    <2>3. line' \in Seq(LineMessage)
      BY <1>1, <2>1, <2>2, LineCounts
    <2>4. SessionInv'
      BY <1>1, <1>2, <2>1, <2>3, SessionAssumption DEF SessionInv
    <2>5. ClientDelta(0, 1, 0, 0, 0, 0, 0, 1)
      BY <1>1, <1>2, <1>3, <2>1, <2>2, LineCounts, UnreadUnchanged
      DEF ClientDelta, Waiting
    <2>6. QED
      BY <1>2, <2>4, <2>5, ClientCounts DEF Inv
  <1>10. CASE Damage
    <2>1. PICK k \in DOMAIN line :
            line[k].t = "packet" /\ line' = [line EXCEPT ![k] = Bad]
      BY <1>10 DEF Damage
    <2>2. /\ faults < MaxFaults /\ faults' = faults + 1
          /\ UNCHANGED <<cs, cur, rd, issued, strays>>
      BY <1>10 DEF Damage
    <2>3. IsSeq(line) /\ k \in 1 .. Len(line)
      BY <1>1, <2>1 DEF SessionInv, IsSeq
    <2>4. line' \in Seq(LineMessage) /\ IsSeq(line')
      BY <1>1, <2>1, LineKinds DEF SessionInv, IsSeq
    <2>5. ASSUME NEW t
          PROVE  /\ All(line, t) \in Nat /\ All(line', t) \in Nat
                 /\ All(line', t) + (IF t = "packet" THEN 1 ELSE 0)
                      = All(line, t) + (IF t = "bad" THEN 1 ELSE 0)
      <3>1. All([line EXCEPT ![k] = Bad], t) + One(line[k], t)
              = All(line, t) + One(Bad, t)
        BY <2>3, AllReplace
      <3>2. QED
        BY <2>1, <2>3, <2>4, <3>1, LineKinds, AllType DEF One
    <2>6. /\ All(line', "packet") \in Nat /\ All(line', "bad") \in Nat
          /\ All(line', "packet") + 1 = All(line, "packet")
          /\ All(line', "bad") = All(line, "bad") + 1
          /\ All(line', "other") = All(line, "other")
          /\ All(line', "minus") = All(line, "minus")
          /\ All(line, "other") \in Nat /\ All(line, "minus") \in Nat
          /\ All(line, "bad") \in Nat
      <3>1. /\ All(line', "packet") + 1 = All(line, "packet") + 0
            /\ All(line', "bad") + 0 = All(line, "bad") + 1
            /\ All(line', "other") + 0 = All(line, "other") + 0
            /\ All(line', "minus") + 0 = All(line, "minus") + 0
        BY <2>5
      <3>2. QED
        BY <2>5, <3>1
    <2>7. SessionInv'
      BY <1>1, <1>2, <2>2, <2>4, SessionAssumption DEF SessionInv
    <2>8. ClientDelta(0, 0, 0, 0, 0, 0, 0, 0)
      BY <1>1, <1>2, <1>3, <2>2, <2>6, UnreadUnchanged DEF ClientDelta, Waiting
    <2>9. QED
      BY <1>2, <2>7, <2>8, ClientCounts DEF Inv
  <1>11. QED
    BY <1>4, <1>5, <1>6, <1>7, <1>8, <1>9, <1>10 DEF ClientReads

-----------------------------------------------------------------------------
(* The server                                                              *)

\* A step of the server that takes a message of kind t off the line, and
\* sends n, a, r and g messages or ends the process.
LEMMA ScansCounts ==
  ASSUME Inv, IsSeq(out), errlen \in Nat, errlen' \in Nat, NEW t, Meets(t),
         NEW s, Sends(s),
         NEW n \in Nat, NEW a \in Nat, NEW r \in Nat, NEW g \in Nat,
         Adds(s, n, a, r, g),
         a + n + Error' <= (IF t \in {"packet", "bad", "other"} THEN 1 ELSE 0) + Error,
         Error' <= (IF t = "other" THEN 1 ELSE 0) + Error,
         g <= IF t = "minus" THEN 1 ELSE 0
  PROVE  Inv'
  <1>1. SessionInv /\ ExecInv /\ LagInv /\ line \in Seq(LineMessage)
    BY DEF Inv, SessionInv
  <1>2. UNCHANGED <<cs, cur, rd, issued, faults, strays>>
    BY DEF Meets
  <1>3. /\ line' \in Seq(LineMessage)
        /\ \A x : All(line, x) = All(line', x) + (IF t = x THEN 1 ELSE 0)
    BY <1>1, MeetsLine
  <1>4. \A x : All(line', x) \in Nat
    BY <1>3, AllType DEF IsSeq
  <1>5. rd \in 0 .. Len(out) /\ Len(out) \in Nat /\ Error \in Nat
    BY <1>1, Numbers DEF SessionInv
  <1> DEFINE p == IF t = "packet" THEN 1 ELSE 0
             b == IF t = "bad" THEN 1 ELSE 0
             o == IF t = "other" THEN 1 ELSE 0
             m == IF t = "minus" THEN 1 ELSE 0
  <1>6. /\ All(line, "packet") = All(line', "packet") + p
        /\ All(line, "bad") = All(line', "bad") + b
        /\ All(line, "other") = All(line', "other") + o
        /\ All(line, "minus") = All(line', "minus") + m
    BY <1>3
  <1>7. p \in Nat /\ b \in Nat /\ o \in Nat /\ m \in Nat
    OBVIOUS
  <1>8. Error' \in Nat
    BY DEF Error
  <1>9. /\ a + n + Error' <= p + b + o + Error
        /\ 0 + 0 + Error' <= p + b + o + Error
        /\ g <= m /\ 0 <= m
    <2>1. p + b + o = IF t \in {"packet", "bad", "other"} THEN 1 ELSE 0
      OBVIOUS
    <2>2. o <= p + b + o
      OBVIOUS
    <2> DEFINE e0 == Error
               e1 == Error'
    <2>3. a + n + e1 <= (p + b + o) + e0 /\ e1 <= o + e0
      BY <2>1
    <2> HIDE DEF p, b, o, e0, e1
    <2>4. e0 \in Nat /\ e1 \in Nat
      BY <1>5, <1>8 DEF e0, e1
    <2>5. e1 <= p + b + o + e0
      BY <1>7, <2>2, <2>3, <2>4
    <2>6. a + n + e1 <= p + b + o + e0 /\ 0 + 0 + e1 <= p + b + o + e0
      BY <1>7, <2>3, <2>4, <2>5
    <2>7. g <= m /\ 0 <= m
      OBVIOUS
    <2>8. QED
      BY <2>6, <2>7 DEF e0, e1
  <1> HIDE DEF p, b, o, m
  <1>10. CASE out' = s
    <2>1. Len(out') >= Len(out) /\ IsSeq(out')
      BY <1>10 DEF Adds
    <2>2. Len(out') \in Nat
      BY <2>1, SeqFacts
    <2>3. SessionInv'
      BY <1>1, <1>2, <1>3, <1>5, <2>1, <2>2 DEF SessionInv
    <2>4. ExecInv' /\ LagInv'
      BY <1>1, <1>2, <1>4, <1>6, <1>7, <1>9, <1>10, ServerCounts
    <2>5. QED
      BY <2>3, <2>4 DEF Inv
  <1>11. CASE out' = out
    <2>1. SessionInv'
      BY <1>1, <1>2, <1>3, <1>11 DEF SessionInv
    <2>2. Adds(out', 0, 0, 0, 0)
      BY <1>5, <1>11, AddsNothing
    <2>3. ExecInv' /\ LagInv'
      BY <1>1, <1>2, <1>4, <1>6, <1>7, <1>9, <2>2, ServerCounts
    <2>4. QED
      BY <2>1, <2>3 DEF Inv
  <1>12. QED
    BY <1>10, <1>11 DEF Sends

LEMMA ServerStep ==
  ASSUME IInv, IInv', Inv, IsSeq(out), ServerScans \/ ServerEof \/ ServerSteps
  PROVE  Inv'
  <1>1. errlen \in Nat /\ errlen' \in Nat /\ rd \in 0 .. Len(out)
    BY DEF IInv, TypeOK, Inv, SessionInv
  <1>2. Error \in Nat /\ Error \in 0 .. 1 /\ Error + 0 = Error
    BY DEF Error
  <1>3. errlen' = 0 => Error' = 0
    BY DEF Error
  <1>4. CASE Meets("plus") /\ ScanPlus
    <2>1. Sends(WithError) /\ errlen' = 0
      BY <1>4, ScanSends
    <2>2. Adds(WithError, Error, 0, 0, 0)
      BY <1>1, AddsSent
    <2>3. 0 + Error + Error' <= 0 + Error /\ Error' <= 0 + Error
      BY <1>2, <1>3, <2>1
    <2>4. QED
      BY <1>1, <1>2, <1>4, <2>1, <2>2, <2>3, ScansCounts
  <1>5. CASE Meets("minus") /\ ScanMinus
    <2>1. /\ errlen' = 0
          /\ Sends(WithError) \/ Sends(Append(WithError, Again(packet)))
      BY <1>5, ScanSends
    <2>2. /\ Adds(WithError, Error, 0, 0, 0)
          /\ Adds(Append(WithError, Again(packet)), Error, 0, 0, 1)
      BY <1>1, AddsSent
    <2>3. 0 + Error + Error' <= 0 + Error /\ Error' <= 0 + Error
      BY <1>2, <1>3, <2>1
    <2>4. QED
      BY <1>1, <1>2, <1>5, <2>1, <2>2, <2>3, ScansCounts
  <1>6. CASE Meets("other") /\ ScanOther
    <2>1. \/ Sends(WithError) /\ errlen' = 1
          \/ Sends(out) /\ errlen' = errlen + 1
      BY <1>6, ScanSends
    <2>2. Error' = 1
      BY <1>1, <2>1 DEF Error
    <2>3. Adds(WithError, Error, 0, 0, 0) /\ Adds(out, 0, 0, 0, 0)
      BY <1>1, AddsSent, AddsNothing
    <2>4. 0 + Error + Error' <= 1 + Error /\ 0 + 0 + Error' <= 1 + Error
            /\ Error' <= 1 + Error
      BY <1>2, <2>2
    <2>5. QED
      BY <1>1, <1>2, <1>6, <2>1, <2>3, <2>4, ScansCounts
  <1>7. CASE Meets("bad") /\ ScanBadPacket
    <2>1. Sends(Append(WithError, Nak)) /\ errlen' = 0
      BY <1>7, ScanSends
    <2>2. Adds(Append(WithError, Nak), Error + 1, 0, 0, 0)
      BY <1>1, AddsSent
    <2>3. 0 + (Error + 1) + Error' <= 1 + Error /\ Error' <= 0 + Error
            /\ Error + 1 \in Nat
      BY <1>2, <1>3, <2>1
    <2>4. QED
      BY <1>1, <1>2, <1>7, <2>1, <2>2, <2>3, ScansCounts
  <1>8. CASE Meets("packet") /\ ScanPacket
    <2>1. Sends(Append(WithError, Ack)) /\ errlen' = 0
      BY <1>8, ScanSends
    <2>2. Adds(Append(WithError, Ack), Error, 1, 0, 0)
      BY <1>1, AddsSent
    <2>3. 1 + Error + Error' <= 1 + Error /\ Error' <= 0 + Error
      BY <1>2, <1>3, <2>1
    <2>4. QED
      BY <1>1, <1>2, <1>8, <2>1, <2>2, <2>3, ScansCounts
  <1>9. CASE Meets("packet") /\ ScanUnsupported
    <2> DEFINE s == Append(Append(WithError, Ack), Reply(EmptyText))
    <2>1. Sends(s) /\ errlen' = 0
      BY <1>9, ScanSends
    <2>2. Adds(s, Error, 1, 1, 0)
      BY <1>1, AddsSent
    <2>3. 1 + Error + Error' <= 1 + Error /\ Error' <= 0 + Error
      BY <1>2, <1>3, <2>1
    <2> HIDE DEF s
    <2>4. QED
      BY <1>1, <1>2, <1>9, <2>1, <2>2, <2>3, ScansCounts
  <1>10. ASSUME UNCHANGED gdbClientVars, NEW n \in Nat, NEW r \in Nat,
                Adds(out', n, 0, r, 0), n + Error' <= Error
         PROVE  Inv'
    <2>1. SessionInv /\ ExecInv /\ LagInv
      BY DEF Inv
    <2>2. UNCHANGED <<cs, cur, rd, issued, faults, strays>> /\ line' = line
      BY <1>10 DEF gdbClientVars
    <2>3. /\ \A x : All(line', x) \in Nat
          /\ \A x : All(line, x) = All(line', x) + 0
      BY <2>1, <2>2, Numbers
    <2>4. Len(out') \in Nat /\ Len(out') >= Len(out) /\ Len(out) \in Nat
      BY <1>10, SeqFacts DEF Adds
    <2>5. SessionInv'
      BY <1>1, <2>1, <2>2, <2>4 DEF SessionInv
    <2>6. 0 + n + Error' <= 0 + 0 + 0 + Error
      BY <1>2, <1>10
    <2>7. ExecInv' /\ LagInv'
      BY <1>10, <2>1, <2>2, <2>3, <2>6, ServerCounts
    <2>8. QED
      BY <2>5, <2>7 DEF Inv
  <1>11. CASE ServerEof
    <2>1. UNCHANGED gdbClientVars /\ Sends(WithError) /\ errlen' = 0
      BY <1>11, ScanSends DEF ServerEof
    <2>2. Adds(WithError, Error, 0, 0, 0) /\ Adds(out, 0, 0, 0, 0)
      BY <1>1, AddsSent, AddsNothing
    <2>3. Error + Error' <= Error /\ 0 + Error' <= Error
      BY <1>2, <1>3, <2>1
    <2>4. QED
      BY <1>2, <1>10, <2>1, <2>2, <2>3 DEF Sends
  <1>12. CASE ServerSteps
    <2>1. /\ errlen' = errlen /\ UNCHANGED gdbClientVars
          /\ out' = out \/ \E q : out' = Append(out, Reply(q))
      BY <1>12, ServerSends
    <2>2. /\ Adds(out, 0, 0, 0, 0)
          /\ \A q : Adds(Append(out, Reply(q)), 0, 0, 1, 0)
      BY <1>1, AddsSent, AddsNothing
    <2>3. 0 + Error' <= Error
      BY <2>1 DEF Error
    <2>4. Adds(out', 0, 0, 0, 0) \/ Adds(out', 0, 0, 1, 0)
      BY <2>1, <2>2
    <2>5. QED
      BY <1>10, <2>1, <2>3, <2>4
  <1>13. QED
    BY <1>4, <1>5, <1>6, <1>7, <1>8, <1>9, <1>11, <1>12 DEF ServerScans

-----------------------------------------------------------------------------
LEMMA SessionInvHolds == SessionSpec => [](IInv /\ OrderInv /\ Inv)
  <1>1. SessionInit => IInv /\ OrderInv /\ Inv
    BY InitIInv, InitOrderInv, InitSession DEF SessionInit
  <1>2. ASSUME IInv, OrderInv, Inv, [SessionNext]_sessionVars
        PROVE  IInv' /\ OrderInv' /\ Inv'
    <2>1. [Next]_vars
      BY <1>2, SessionStep
    <2>2. IInv' /\ OrderInv'
      BY <1>2, <2>1, NextIInv, NextOrderInv DEF IInv
    <2>3. IsSeq(out)
      BY <1>2 DEF OrderInv
    <2>4. CASE UNCHANGED sessionVars
      <3>1. UNCHANGED <<out, errlen, cs, cur, line, rd, issued, faults, strays>>
        BY <2>4 DEF sessionVars, vars, netVars, gdbVars, gdbClientVars
      <3>2. QED
        BY <1>2, <2>2, <3>1 DEF Inv, SessionInv, ExecInv, LagInv, Unread, Error
    <2>5. CASE SessionNext
      BY <1>2, <2>2, <2>3, <2>5, ClientStep, ServerStep DEF SessionNext
    <2>6. QED
      BY <1>2, <2>2, <2>4, <2>5
  <1>3. QED
    BY <1>1, <1>2, PTL DEF SessionSpec

\* However packets and replies are damaged and sent again: the packets the
\* server acknowledges, and so executes, are no more than the commands gdb
\* issued and the stray bytes it sent.
THEOREM ExecutionsBounded == SessionSpec => []ExtraExecutions
  <1>1. IInv /\ OrderInv /\ Inv => ExtraExecutions
    <2> SUFFICES ASSUME OrderInv, Inv PROVE ExtraExecutions
      OBVIOUS
    <2>1. IsSeq(out) /\ SessionInv /\ ExecInv
      BY DEF OrderInv, Inv
    <2> DEFINE acks == All(out, "ack")
               lp == All(line, "packet")
               lb == All(line, "bad")
               lo == All(line, "other")
               un == Unread("nak")
               e == Error
    <2>2. /\ acks \in Nat /\ lp \in Nat /\ lb \in Nat /\ lo \in Nat
          /\ un \in Nat /\ e \in Nat /\ issued \in Nat /\ strays \in Nat
      BY <2>1, Numbers
    <2>3. acks + lp + lb + lo + un + e <= issued + strays
      BY <2>1 DEF ExecInv
    <2>4. Sent("ack") = acks
      BY <2>1, SentIsAll
    <2> HIDE DEF acks, lp, lb, lo, un, e
    <2>5. acks <= issued + strays
      BY <2>2, <2>3
    <2>6. QED
      BY <2>4, <2>5 DEF ExtraExecutions
  <1>2. QED
    BY <1>1, SessionInvHolds, PTL

\* A gdb that waits for nothing has at most as many replies ahead of it,
\* unread, as it sent stray bytes: without one it is never out of step.
THEOREM LagBounded == SessionSpec => []ReplyLag
  <1>1. IInv /\ OrderInv /\ Inv => ReplyLag
    <2> SUFFICES ASSUME OrderInv, Inv, cs = "idle"
                 PROVE  UnreadReplies <= strays
      BY DEF ReplyLag
    <2>1. IsSeq(out) /\ SessionInv /\ ExecInv /\ LagInv
      BY DEF OrderInv, Inv
    <2> DEFINE acks == All(out, "ack")
               replies == All(out, "reply")
               lp == All(line, "packet")
               lb == All(line, "bad")
               lo == All(line, "other")
               lm == All(line, "minus")
               un == Unread("nak")
               ur == Unread("reply")
               ug == Unread("again")
               e == Error
    <2>2. /\ acks \in Nat /\ replies \in Nat /\ lp \in Nat /\ lb \in Nat
          /\ lo \in Nat /\ lm \in Nat /\ un \in Nat /\ ur \in Nat /\ ug \in Nat
          /\ e \in Nat /\ issued \in Nat /\ strays \in Nat
      BY <2>1, Numbers
    <2>3. acks + lp + lb + lo + un + e <= issued + strays
      BY <2>1 DEF ExecInv
    <2>4. replies - ur >= issued - 0 + ug + lm
      BY <2>1 DEF LagInv
    <2>5. replies <= acks
      BY DEF OrderInv
    <2>6. UnreadReplies = ur
      BY DEF UnreadReplies, Unread, Count, Places
    <2> HIDE DEF acks, replies, lp, lb, lo, lm, un, ur, ug, e
    <2>7. ur <= strays
      BY <2>2, <2>3, <2>4, <2>5
    <2>8. QED
      BY <2>6, <2>7
  <1>2. QED
    BY <1>1, SessionInvHolds, PTL

-----------------------------------------------------------------------------
(* The refinement of GdbServer                                             *)

\* What is being handled has a handler, and cont is for c only.
Dispatched ==
  /\ gdb \in {"lock", "handle", "cont"} => pkt.cmd \in Commands
  /\ gdb = "handle" => pkt.cmd # "c"
  /\ gdb = "cont" => pkt.cmd = "c"
  /\ irq \in {"lock", "exception"} => irqbyte \in Irqs

\* As long as the promise holds, what is on its way is about the command
\* gdb waits for: packets that have not been scanned, the packet that is
\* handled, and replies that have not been read.
OnTheWay ==
  ~Off =>
    /\ \A k \in 1 .. Len(line) : line[k].t = "packet" => line[k].q = cur
    /\ gdb \in {"lock", "handle", "cont"} => pkt = cur
    /\ \A k \in rd + 1 .. Len(out) :
         out[k].t \in {"reply", "again"} => out[k].r = packet

LEMMA DispatchedKept == Dispatched /\ [Next]_vars => Dispatched'
  <1> SUFFICES ASSUME Dispatched, [Next]_vars PROVE Dispatched'
    OBVIOUS
  <1> USE DEF coreVars, gdbVars, netVars, irqVars
  <1>1. CASE UNCHANGED vars
    BY <1>1 DEF Dispatched, vars
  <1>2. CASE MainNext
    BY <1>2 DEF Dispatched, MainNext, MainCreateGdb, MainCreateIrq, MainJoin,
                MainDestroyArm, MainDestroyMemory, MainReturn
  <1>3. CASE CreateServerFails \/ GdbAccept \/ ClientCloses
    BY <1>3 DEF Dispatched, CreateServerFails, GdbAccept, ClientCloses
  <1>4. CASE ScanPlus \/ ScanMinus \/ ScanOther \/ ScanBadPacket
               \/ ScanUnsupported
    BY <1>4 DEF Dispatched, Scan, ScanPlus, ScanMinus, ScanOther,
                ScanBadPacket, ScanUnsupported
  <1>5. CASE ScanPacket \/ ScanEof \/ ScanReadError
    BY <1>5 DEF Dispatched, Scan, ScanPacket, ScanEof, ScanReadError
  <1>6. CASE GdbLock \/ ContStep \/ ContStop \/ GdbUnlock \/ GdbClose
    BY <1>6 DEF Dispatched, GdbLock, ContStep, ContStop, Finish, GdbUnlock,
                GdbClose
  <1>7. CASE GdbHandle
    <2>1. UNCHANGED <<pkt, irq, irqbyte>> /\ (gdb' = gdb \/ gdb' = "unlock")
      BY <1>7 DEF GdbHandle, Finish
    <2>2. QED
      BY <1>7, <2>1 DEF Dispatched
  <1>8. CASE IrqAccept \/ IrqRead \/ IrqEof \/ IrqReadError \/ IrqWork
    BY <1>8 DEF Dispatched, IrqAccept, IrqRead, IrqEof, IrqReadError, IrqWork,
                IrqLock, IrqException, IrqUnlock
  <1>9. QED
    BY <1>1, <1>2, <1>3, <1>4, <1>5, <1>6, <1>7, <1>8 DEF Next, ScanNext, GdbWork

\* The promise does not come back.
LEMMA OffStays ==
  ASSUME SessionInv, Off, [SessionNext]_sessionVars
  PROVE  Off'
  <1> USE DEF coreVars, gdbVars, netVars, irqVars
  <1>1. [Next]_vars
    BY SessionStep
  <1>2. CASE proc # "running"
    <2>1. UNCHANGED sessionVars
      BY <1>2 DEF SessionNext
    <2>2. QED
      BY <1>2, <2>1 DEF sessionVars, vars, Off
  <1>3. (client = "gone" => client' = "gone") /\ (wr = "shut" => wr' = "shut")
    <2>1. CASE UNCHANGED vars
      BY <2>1 DEF vars
    <2>2. CASE MainNext \/ CreateServerFails \/ GdbAccept \/ ClientCloses
      BY <2>2 DEF MainNext, MainCreateGdb, MainCreateIrq, MainJoin,
                  MainDestroyArm, MainDestroyMemory, MainReturn,
                  CreateServerFails, GdbAccept, ClientCloses
    <2>3. CASE ScanNext
      BY <2>3 DEF ScanNext, Scan, ScanPlus, ScanMinus, ScanOther,
                  ScanBadPacket, ScanUnsupported, ScanPacket, ScanEof,
                  ScanReadError
    <2>4. CASE GdbHandle
      BY <2>4 DEF GdbHandle, Finish
    <2>5. CASE GdbLock \/ ContStep \/ ContStop \/ GdbUnlock \/ GdbClose
      BY <2>5 DEF GdbLock, ContStep, ContStop, Finish, GdbUnlock, GdbClose
    <2>6. CASE IrqAccept \/ IrqRead \/ IrqEof \/ IrqReadError \/ IrqWork
      BY <2>6 DEF IrqAccept, IrqRead, IrqEof, IrqReadError, IrqWork,
                  IrqLock, IrqException, IrqUnlock
    <2>7. QED
      BY <1>1, <2>1, <2>2, <2>3, <2>4, <2>5, <2>6 DEF Next, GdbWork
  <1>4. strays > 0 => strays' > 0
    <2>1. strays \in Nat
      BY SessionAssumption DEF SessionInv
    <2>2. strays' = strays \/ strays' = strays + 1
      BY DEF SessionNext, Issue, ClientReads, ReadAck, Resend, Skip, ReadReply,
             ReadBadReply, SendInterrupt, Damage, ServerScans, ServerEof,
             ServerSteps, Meets, gdbClientVars, sessionVars
    <2>3. QED
      BY <2>1, <2>2
  <1>5. QED
    BY <1>2, <1>3, <1>4 DEF Off

-----------------------------------------------------------------------------
\* While the promise holds, one thing at most is under way: a packet on the
\* line or being handled, or an answer gdb has not accepted.
LEMMA OneUnderWay ==
  ASSUME OrderInv, Inv, ~Off
  PROVE  /\ Sent("reply") \in Nat /\ issued \in Nat
         /\ cs = "idle" =>
              /\ gdb \notin {"lock", "handle", "cont"}
              /\ All(line, "packet") = 0
              /\ Unread("reply") = 0 /\ Unread("again") = 0
              /\ Sent("reply") = issued
         /\ gdb \in {"lock", "handle", "cont"} \/ All(line, "packet") >= 1 =>
              /\ cs # "idle"
              /\ Unread("reply") = 0 /\ Unread("again") = 0
              /\ Sent("reply") + 1 = issued
         /\ Unread("reply") >= 1 \/ Unread("again") >= 1 =>
              /\ cs # "idle"
              /\ gdb \notin {"lock", "handle", "cont"}
              /\ Sent("reply") = issued
  <1>1. IsSeq(out) /\ SessionInv /\ ExecInv /\ LagInv
    BY DEF OrderInv, Inv
  <1> DEFINE acks == All(out, "ack")
             replies == All(out, "reply")
             lp == All(line, "packet")
             lb == All(line, "bad")
             lo == All(line, "other")
             lm == All(line, "minus")
             un == Unread("nak")
             ur == Unread("reply")
             ug == Unread("again")
             e == Error
             busy == Busy
             w == Waiting
  <1>2. /\ acks \in Nat /\ replies \in Nat /\ lp \in Nat /\ lb \in Nat
        /\ lo \in Nat /\ lm \in Nat /\ un \in Nat /\ ur \in Nat /\ ug \in Nat
        /\ e \in Nat /\ issued \in Nat /\ strays \in Nat
    BY <1>1, Numbers
  <1>3. /\ busy = IF gdb \in {"lock", "handle", "cont"} THEN 1 ELSE 0
        /\ w = IF cs = "idle" THEN 0 ELSE 1
    BY DEF Busy, Waiting
  <1>4. acks + lp + lb + lo + un + e <= issued + strays
    BY <1>1 DEF ExecInv
  <1>5. replies - ur >= issued - w + ug + lm
    BY <1>1 DEF LagInv, Waiting
  <1>6. strays = 0 /\ proc = "running"
    BY <1>2 DEF Off
  <1>7. replies + busy <= acks
    <2>1. replies <= acks
      BY DEF OrderInv
    <2>2. Killed \in Nat
      BY DEF Killed
    <2>3. gdb \notin {"none", "accept", "exited"} => acks = replies + Busy + Killed
      BY <1>6 DEF OrderInv
    <2>4. gdb \in {"none", "accept", "exited"} => busy = 0
      BY <1>3
    <2>5. busy \in Nat
      BY <1>3
    <2> HIDE DEF acks, replies
    <2>6. QED
      BY <1>2, <2>1, <2>2, <2>3, <2>4, <2>5
  <1>8. Sent("reply") = replies
    BY <1>1, SentIsAll
  <1> HIDE DEF acks, replies, lp, lb, lo, lm, un, ur, ug, e, busy, w
  <1>9. busy \in 0 .. 1 /\ w \in 0 .. 1
    BY <1>3
  <1>10. /\ busy + lp + lb + lo + un + e + ur + ug + lm <= w
         /\ replies + busy + lp <= issued
         /\ replies + w >= issued + ur + ug
    BY <1>2, <1>4, <1>5, <1>6, <1>7, <1>9
  <1>11. cs = "idle" => /\ gdb \notin {"lock", "handle", "cont"}
                        /\ lp = 0 /\ ur = 0 /\ ug = 0 /\ replies = issued
    BY <1>2, <1>3, <1>9, <1>10
  <1>12. gdb \in {"lock", "handle", "cont"} \/ lp >= 1 =>
           cs # "idle" /\ ur = 0 /\ ug = 0 /\ replies + 1 = issued
    BY <1>2, <1>3, <1>9, <1>10
  <1>13. ur >= 1 \/ ug >= 1 => /\ cs # "idle" /\ replies = issued
                               /\ gdb \notin {"lock", "handle", "cont"}
    BY <1>2, <1>3, <1>9, <1>10
  <1>14. QED
    BY <1>2, <1>8, <1>11, <1>12, <1>13 DEF lp, ur, ug

-----------------------------------------------------------------------------
(* The mapping                                                             *)

LEMMA PhaseIs ==
  /\ ~Off => Phase = IF cs = "idle" THEN "idle"
                     ELSE IF gdb = "cont" THEN "running"
                     ELSE IF Sent("reply") = issued THEN "answered" ELSE "asked"
  /\ Off => Phase = "off"
  /\ ~Off' => Phase' = IF cs' = "idle" THEN "idle"
                       ELSE IF gdb' = "cont" THEN "running"
                       ELSE IF Sent("reply")' = issued' THEN "answered" ELSE "asked"
  /\ Off' => Phase' = "off"
  BY DEF Phase

\* Whatever ends the promise is a step of GdbServer.
LEMMA Ends == Off' => Server!Next
  BY PhaseIs DEF Server!Next, Server!End

\* A step that shows in nothing GdbServer speaks of.
LEMMA Stutters ==
  ASSUME ~Off, ~Off', cs' = "idle" <=> cs = "idle", gdb' = "cont" <=> gdb = "cont",
         issued' = issued, Sent("reply")' = Sent("reply"),
         UNCHANGED <<cur, packet, got, arm, exc>>
  PROVE  UNCHANGED Server!state
  <1>1. Phase' = Phase
    BY PhaseIs
  <1>2. QED
    BY <1>1 DEF Server!state

-----------------------------------------------------------------------------
(* What is on its way                                                      *)

LEMMA NoneCounted ==
  ASSUME NEW s, IsSeq(s), NEW a \in Int, NEW t
  PROVE  Count(s, a, t) = 0 <=> \A k \in a .. Len(s) : s[k].t # t
  <1>1. IsFiniteSet(Places(s, a, t))
    BY CountType
  <1>2. Count(s, a, t) = 0 <=> Places(s, a, t) = {}
    BY <1>1, FS_EmptySet, Zenon DEF Count
  <1>3. Places(s, a, t) = {} <=> \A k \in a .. Len(s) : s[k].t # t
    BY DEF Places
  <1>4. QED
    BY <1>2, <1>3

\* The packets in l are q.
Asks(l, q) == \A k \in 1 .. Len(l) : l[k].t = "packet" => l[k].q = q

\* The answers in s from place a on are p.
Answers(s, a, p) ==
  \A k \in a .. Len(s) : s[k].t \in {"reply", "again"} => s[k].r = p

LEMMA AsksAppend ==
  ASSUME NEW l, IsSeq(l), NEW q, Asks(l, q), NEW m, m.t = "packet" => m.q = q
  PROVE  Asks(Append(l, m), q)
  <1>1. /\ Len(l) \in Nat /\ Len(Append(l, m)) = Len(l) + 1
        /\ \A k \in 1 .. Len(l) : Append(l, m)[k] = l[k]
        /\ Append(l, m)[Len(l) + 1] = m
    BY SeqFacts
  <1>2. QED
    BY <1>1 DEF Asks

LEMMA AsksTail ==
  ASSUME NEW l, IsSeq(l), NEW q, Asks(l, q), l # << >>
  PROVE  Asks(Tail(l), q) /\ (Head(l).t = "packet" => Head(l).q = q)
  <1>1. /\ Len(l) \in Nat /\ Len(l) >= 1 /\ Len(Tail(l)) = Len(l) - 1
        /\ \A k \in 1 .. Len(l) - 1 : Tail(l)[k] = l[k + 1]
        /\ Head(l) = l[1]
    BY SeqFacts
  <1>2. QED
    BY <1>1 DEF Asks

LEMMA AnswersAppend ==
  ASSUME NEW s, IsSeq(s), NEW a \in Nat \ {0}, NEW p, Answers(s, a, p), NEW m,
         m.t \in {"reply", "again"} => m.r = p
  PROVE  Answers(Append(s, m), a, p)
  <1>1. /\ Len(s) \in Nat /\ Len(Append(s, m)) = Len(s) + 1
        /\ \A k \in 1 .. Len(s) : Append(s, m)[k] = s[k]
        /\ Append(s, m)[Len(s) + 1] = m
    BY SeqFacts
  <1>2. \A k \in a .. Len(s) : k \in 1 .. Len(s)
    BY <1>1
  <1>3. \A k \in a .. Len(s) + 1 : k = Len(s) + 1 \/ k \in a .. Len(s)
    BY <1>1
  <1>4. QED
    BY <1>1, <1>2, <1>3 DEF Answers

\* An error to report is no answer.
LEMMA AnswersError ==
  ASSUME IsSeq(out), NEW a \in Nat \ {0}, NEW p, Answers(out, a, p)
  PROVE  IsSeq(WithError) /\ Answers(WithError, a, p)
  <1>1. Nak.t \notin {"reply", "again"}
    BY DEF Nak
  <1>2. QED
    BY <1>1, AnswersAppend, Sending DEF WithError

\* The invariant of the refinement.
RefInv == IInv /\ OrderInv /\ Inv /\ Dispatched /\ OnTheWay

\* What follows while the promise holds.
LEMMA RefFacts ==
  ASSUME RefInv, ~Off
  PROVE  /\ IsSeq(out) /\ IsSeq(line) /\ line \in Seq(LineMessage)
         /\ rd \in Nat /\ rd + 1 \in Nat \ {0} /\ Len(out) \in Nat
         /\ Asks(line, cur)
         /\ gdb \in {"lock", "handle", "cont"} => pkt = cur
         /\ Answers(out, rd + 1, packet)
         /\ Sent("reply") = All(out, "reply")
         /\ proc = "running" /\ client # "gone" /\ wr # "shut"
  <1>1. IsSeq(out) /\ SessionInv
    BY DEF RefInv, OrderInv, Inv
  <1>2. IsSeq(line) /\ line \in Seq(LineMessage)
    BY <1>1 DEF SessionInv, IsSeq
  <1>3. rd \in Nat /\ Len(out) \in Nat
    BY <1>1, Numbers
  <1>4. QED
    BY <1>1, <1>2, <1>3, SentIsAll DEF RefInv, OnTheWay, Off, Asks, Answers

\* OnTheWay after a step, by its parts.
LEMMA OnTheWayIs ==
  OnTheWay' <=> (~Off' => /\ Asks(line', cur')
                          /\ gdb' \in {"lock", "handle", "cont"} => pkt' = cur'
                          /\ Answers(out', rd' + 1, packet'))
  BY DEF OnTheWay, Asks, Answers

\* Nothing is unread, so that the next answer may be another one.
LEMMA NothingUnread ==
  ASSUME IsSeq(out), rd \in Nat, Unread("reply") = 0, Unread("again") = 0, NEW p
  PROVE  Answers(out, rd + 1, p)
  <1>1. rd + 1 \in Int
    OBVIOUS
  <1>2. \A k \in rd + 1 .. Len(out) : out[k].t # "reply" /\ out[k].t # "again"
    BY <1>1, NoneCounted DEF Unread
  <1>3. QED
    BY <1>2 DEF Answers

-----------------------------------------------------------------------------
(* The steps of gdb                                                        *)

\* A step of GdbServer, or none.
Implements == Server!Next \/ UNCHANGED Server!state

LEMMA IssueRefines ==
  ASSUME RefInv, ~Off, ~Off', Issue
  PROVE  OnTheWay' /\ Server!Ask
  <1>1. /\ cs = "idle" /\ cs' = "ack" /\ issued' = issued + 1
        /\ UNCHANGED <<out, gdb, packet, rd, got, arm, exc>>
    BY DEF Issue, vars, netVars, gdbVars, coreVars
  <1>2. PICK q \in Packets : cur' = q /\ line' = Append(line, Packet(q))
    BY DEF Issue
  <1>3. /\ IsSeq(out) /\ IsSeq(line) /\ Answers(out, rd + 1, packet)
    BY RefFacts
  <1>4. /\ gdb \notin {"lock", "handle", "cont"} /\ All(line, "packet") = 0
        /\ Sent("reply") = issued /\ issued \in Nat
    BY <1>1, OneUnderWay DEF RefInv
  <1>5. Asks(line, q)
    BY <1>3, <1>4, NoneCounted DEF All, Asks
  <1>6. Asks(line', cur')
    BY <1>2, <1>3, <1>5, AsksAppend DEF Packet
  <1>7. OnTheWay'
    BY <1>1, <1>3, <1>4, <1>6, OnTheWayIs
  <1>8. Phase = "idle" /\ Phase' = "asked"
    <2>1. Sent("reply")' = Sent("reply")
      BY <1>1 DEF Sent
    <2>2. Sent("reply")' # issued'
      BY <1>1, <1>4, <2>1
    <2>3. QED
      BY <1>1, <1>4, <2>2, PhaseIs
  <1>9. QED
    BY <1>1, <1>2, <1>7, <1>8 DEF Server!Ask

\* A step of gdb about the command it waits for.
LEMMA WaitsOn ==
  ASSUME RefInv, ~Off, ~Off', UNCHANGED vars, UNCHANGED <<cur, issued, got>>,
         cs' = "idle" <=> cs = "idle", rd' = rd \/ rd' = rd + 1, Asks(line', cur)
  PROVE  OnTheWay' /\ Implements
  <1>1. UNCHANGED <<out, gdb, packet, pkt, arm, exc>>
    BY DEF vars, netVars, gdbVars, coreVars
  <1>2. /\ rd \in Nat /\ Len(out) \in Nat
        /\ gdb \in {"lock", "handle", "cont"} => pkt = cur
        /\ Answers(out, rd + 1, packet)
    BY RefFacts
  <1>3. Answers(out', rd' + 1, packet')
    BY <1>1, <1>2 DEF Answers
  <1>4. Sent("reply")' = Sent("reply")
    BY <1>1 DEF Sent
  <1>5. OnTheWay'
    BY <1>1, <1>2, <1>3, OnTheWayIs
  <1>6. QED
    BY <1>1, <1>4, <1>5, Stutters DEF Implements

LEMMA ReadReplyRefines ==
  ASSUME RefInv, ~Off, ~Off', ReadReply
  PROVE  OnTheWay' /\ Server!Deliver
  <1>1. /\ cs = "reply" /\ rd < Len(out) /\ out[rd + 1].t \in {"reply", "again"}
        /\ rd' = rd + 1 /\ got' = out[rd + 1].r /\ line' = Append(line, Plus)
        /\ cs' = "idle" /\ UNCHANGED <<cur, issued>> /\ UNCHANGED vars
    BY DEF ReadReply, Reads
  <1>2. UNCHANGED <<out, gdb, packet, pkt, arm, exc>>
    BY <1>1 DEF vars, netVars, gdbVars, coreVars
  <1>3. /\ IsSeq(out) /\ IsSeq(line) /\ rd \in Nat /\ Len(out) \in Nat
        /\ gdb \in {"lock", "handle", "cont"} => pkt = cur
        /\ Asks(line, cur) /\ Answers(out, rd + 1, packet)
    BY RefFacts
  <1>4. got' = packet /\ rd + 1 \in rd + 1 .. Len(out)
    BY <1>1, <1>3 DEF Answers
  <1>5. Asks(line', cur')
    BY <1>1, <1>3, AsksAppend DEF Plus
  <1>6. Answers(out', rd' + 1, packet')
    BY <1>1, <1>2, <1>3 DEF Answers
  <1>7. OnTheWay'
    BY <1>1, <1>2, <1>3, <1>5, <1>6, OnTheWayIs
  <1>8. Unread("reply") >= 1 \/ Unread("again") >= 1
    <2>1. rd + 1 \in Int
      BY <1>3
    <2>2. Unread("reply") # 0 \/ Unread("again") # 0
      BY <1>1, <1>3, <1>4, <2>1, NoneCounted DEF Unread
    <2>3. Unread("reply") \in Nat /\ Unread("again") \in Nat
      BY <1>3, <2>1, CountType DEF Unread
    <2>4. QED
      BY <2>2, <2>3
  <1>9. Phase = "answered" /\ Phase' = "idle"
    BY <1>1, <1>8, OneUnderWay, PhaseIs DEF RefInv
  <1>10. QED
    BY <1>1, <1>2, <1>4, <1>7, <1>9 DEF Server!Deliver

LEMMA ClientRefines ==
  ASSUME RefInv, ~Off, ~Off',
         Issue \/ ClientReads \/ ReadBadReply \/ SendInterrupt \/ Damage
  PROVE  OnTheWay' /\ Implements
  <1>1. IsSeq(line) /\ Asks(line, cur) /\ line \in Seq(LineMessage)
    BY RefFacts
  <1>2. CASE Issue
    BY <1>2, IssueRefines DEF Implements, Server!Next
  <1>3. CASE ReadReply
    BY <1>3, ReadReplyRefines DEF Implements, Server!Next
  <1>4. CASE ReadAck \/ Skip
    BY <1>1, <1>4, WaitsOn DEF ReadAck, Skip, Reads
  <1>5. CASE Resend
    <2>1. Asks(Append(line, Packet(cur)), cur)
      BY <1>1, AsksAppend DEF Packet
    <2>2. QED
      BY <1>5, <2>1, WaitsOn DEF Resend, Reads
  <1>6. CASE ReadBadReply
    <2>1. Asks(Append(line, Minus), cur)
      BY <1>1, AsksAppend DEF Minus
    <2>2. QED
      BY <1>6, <2>1, WaitsOn DEF ReadBadReply, Reads
  <1>7. CASE SendInterrupt
    <2>1. Asks(Append(line, Other), cur)
      BY <1>1, AsksAppend DEF Other
    <2>2. QED
      BY <1>7, <2>1, WaitsOn DEF SendInterrupt
  <1>8. CASE Damage
    <2>1. PICK k \in DOMAIN line : line' = [line EXCEPT ![k] = Bad]
      BY <1>8 DEF Damage
    <2>2. Len(line') = Len(line) /\ \A j \in 1 .. Len(line) : line'[j] \in {line[j], Bad}
      BY <1>1, <2>1
    <2>3. Asks(line', cur)
      BY <1>1, <2>2 DEF Asks, Bad
    <2>4. QED
      BY <1>8, <2>3, WaitsOn DEF Damage
  <1>9. QED
    BY <1>2, <1>3, <1>4, <1>5, <1>6, <1>7, <1>8 DEF ClientReads

-----------------------------------------------------------------------------
(* The steps of the scanner                                                *)

\* The scanner takes a message off the line; what it sends is no reply.
LEMMA ScansOn ==
  ASSUME RefInv, ~Off, ~Off', NEW t, Meets(t), UNCHANGED <<packet, arm, exc>>,
         gdb = "scan", gdb' # "cont", gdb' \in {"lock", "handle"} => pkt' = cur,
         IsSeq(out'), All(out', "reply") = All(out, "reply"),
         Answers(out', rd + 1, packet)
  PROVE  OnTheWay' /\ Implements
  <1>1. /\ line # << >> /\ line' = Tail(line)
        /\ UNCHANGED <<cs, cur, rd, issued, got>>
    BY DEF Meets
  <1>2. IsSeq(line) /\ Asks(line, cur) /\ Sent("reply") = All(out, "reply")
    BY RefFacts
  <1>3. Asks(line', cur')
    BY <1>1, <1>2, AsksTail
  <1>4. OnTheWay'
    BY <1>1, <1>3, OnTheWayIs
  <1>5. Sent("reply")' = All(out', "reply")
    BY SeqFacts DEF Sent, All, Count, Places
  <1>6. UNCHANGED Server!state
    BY <1>1, <1>2, <1>5, Stutters
  <1>7. QED
    BY <1>4, <1>6 DEF Implements

\* A packet without a handler is answered on the spot.
LEMMA UnsupportedRefines ==
  ASSUME RefInv, ~Off, ~Off', Meets("packet"), ScanUnsupported,
         Head(line).q.cmd \notin Commands
  PROVE  OnTheWay' /\ Server!Decline
  <1>1. /\ line # << >> /\ Head(line).t = "packet" /\ line' = Tail(line)
        /\ UNCHANGED <<cs, cur, rd, issued, got>>
    BY DEF Meets
  <1>2. /\ gdb = "scan" /\ gdb' = "scan" /\ packet' = EmptyText
        /\ UNCHANGED <<arm, exc>>
    BY DEF ScanUnsupported, Scan, coreVars
  <1>3. /\ IsSeq(line) /\ Asks(line, cur) /\ Sent("reply") = All(out, "reply")
        /\ IsSeq(out) /\ rd \in Nat /\ Len(out) \in Nat
        /\ proc = "running" /\ line \in Seq(LineMessage)
    BY RefFacts
  <1> DEFINE s1 == Append(WithError, Ack)
             s == Append(s1, Reply(EmptyText))
  <1>4. out' = s
    <2>1. Sends(s)
      BY <1>3, ScanSends
    <2>2. proc' = "running"
      BY DEF Off
    <2> HIDE DEF s
    <2>3. QED
      BY <2>1, <2>2 DEF Sends
  <1>5. Adds(s, Error, 1, 1, 0)
    <2>1. rd \in 0 .. Len(out)
      BY DEF RefInv, Inv, SessionInv
    <2>2. QED
      BY <1>3, <2>1, AddsSent
  <1>6. All(line, "packet") >= 1
    <2>1. Len(line) \in Nat /\ Len(line) >= 1 /\ line[1].t = "packet"
      BY <1>1, <1>3, SeqFacts
    <2>2. All(line, "packet") # 0 /\ All(line, "packet") \in Nat
      BY <1>3, <2>1, NoneCounted, AllType DEF All
    <2>3. QED
      BY <2>2
  <1>7. /\ cs # "idle" /\ Unread("reply") = 0 /\ Unread("again") = 0
        /\ Sent("reply") + 1 = issued /\ Sent("reply") \in Nat
    BY <1>6, OneUnderWay DEF RefInv
  <1>8. Answers(s, rd + 1, EmptyText) /\ IsSeq(s)
    <2>1. Answers(out, rd + 1, EmptyText) /\ rd + 1 \in Nat \ {0}
      BY <1>3, <1>7, NothingUnread
    <2>2. IsSeq(WithError) /\ Answers(WithError, rd + 1, EmptyText)
      BY <1>3, <2>1, AnswersError
    <2>3. IsSeq(s1) /\ Answers(s1, rd + 1, EmptyText)
      BY <2>1, <2>2, AnswersAppend, SeqFacts DEF Ack
    <2> HIDE DEF s1
    <2>4. QED
      BY <2>1, <2>3, AnswersAppend, SeqFacts DEF Reply
  <1> HIDE DEF s, s1
  <1>9. Asks(line', cur') /\ Head(line).q = cur
    BY <1>1, <1>3, AsksTail
  <1>10. OnTheWay'
    BY <1>1, <1>2, <1>4, <1>8, <1>9, OnTheWayIs
  <1>11. Sent("reply")' = issued'
    <2>1. Sent("reply")' = All(out', "reply")
      BY <1>4, <1>8, SeqFacts DEF Sent, All, Count, Places
    <2>2. All(s, "reply") = All(out, "reply") + 1
      BY <1>5 DEF Adds, All
    <2>3. QED
      BY <1>1, <1>3, <1>4, <1>7, <2>1, <2>2
  <1>12. Phase = "asked" /\ Phase' = "answered"
    <2>1. Sent("reply") # issued
      BY <1>7
    <2>2. QED
      BY <1>1, <1>2, <1>7, <1>11, <2>1, PhaseIs
  <1>13. QED
    BY <1>1, <1>2, <1>9, <1>10, <1>12 DEF Server!Decline

LEMMA ScansRefine ==
  ASSUME RefInv, ~Off, ~Off', ServerScans
  PROVE  OnTheWay' /\ Implements
  <1>1. /\ IsSeq(out) /\ rd + 1 \in Nat \ {0} /\ proc = "running"
        /\ IsSeq(line) /\ Asks(line, cur) /\ Answers(out, rd + 1, packet)
    BY RefFacts
  <1>2. rd \in 0 .. Len(out)
    BY DEF RefInv, Inv, SessionInv
  <1>3. proc' = "running"
    BY DEF Off
  <1>4. ASSUME NEW s, Sends(s) PROVE out' = s
    BY <1>3, <1>4 DEF Sends
  <1>5. ASSUME NEW s, NEW n, NEW a, NEW g, Adds(s, n, a, 0, g)
        PROVE  IsSeq(s) /\ All(s, "reply") = All(out, "reply")
    <2>1. All(s, "reply") = All(out, "reply") + 0 /\ IsSeq(s)
      BY <1>5 DEF Adds, All
    <2>2. All(out, "reply") \in Nat
      BY <1>1, AllType
    <2>3. QED
      BY <2>1, <2>2
  <1>6. IsSeq(WithError) /\ Answers(WithError, rd + 1, packet)
    BY <1>1, AnswersError
  <1>7. Adds(WithError, Error, 0, 0, 0) /\ Adds(out, 0, 0, 0, 0)
    BY <1>1, <1>2, AddsSent, AddsNothing
  <1>8. CASE Meets("plus") /\ ScanPlus
    <2>1. gdb = "scan" /\ gdb' = "scan" /\ UNCHANGED <<packet, arm, exc>>
      BY <1>8 DEF ScanPlus, Scan, coreVars
    <2>2. out' = WithError
      BY <1>1, <1>4, <1>8, ScanSends
    <2>3. QED
      BY <1>5, <1>6, <1>7, <1>8, <2>1, <2>2, ScansOn
  <1>9. CASE Meets("minus") /\ ScanMinus
    <2>1. gdb = "scan" /\ gdb' = "scan" /\ UNCHANGED <<packet, arm, exc>>
      BY <1>9 DEF ScanMinus, Scan, coreVars
    <2>2. out' = WithError \/ out' = Append(WithError, Again(packet))
      BY <1>1, <1>4, <1>9, ScanSends
    <2>3. Adds(Append(WithError, Again(packet)), Error, 0, 0, 1)
      BY <1>1, <1>2, AddsSent
    <2>4. Answers(Append(WithError, Again(packet)), rd + 1, packet)
      BY <1>1, <1>6, AnswersAppend DEF Again
    <2>5. QED
      BY <1>5, <1>6, <1>7, <1>9, <2>1, <2>2, <2>3, <2>4, ScansOn
  <1>10. CASE Meets("other") /\ ScanOther
    <2>1. gdb = "scan" /\ gdb' = "scan" /\ UNCHANGED <<packet, arm, exc>>
      BY <1>10 DEF ScanOther, Scan, coreVars
    <2>2. out' = WithError \/ out' = out
      BY <1>1, <1>4, <1>10, ScanSends
    <2>3. QED
      BY <1>1, <1>5, <1>6, <1>7, <1>10, <2>1, <2>2, ScansOn
  <1>11. CASE Meets("bad") /\ ScanBadPacket
    <2>1. gdb = "scan" /\ gdb' = "scan" /\ UNCHANGED <<packet, arm, exc>>
      BY <1>11 DEF ScanBadPacket, Scan, coreVars
    <2>2. out' = Append(WithError, Nak)
      BY <1>1, <1>4, <1>11, ScanSends
    <2>3. Adds(Append(WithError, Nak), Error + 1, 0, 0, 0)
      BY <1>1, <1>2, AddsSent
    <2>4. Answers(Append(WithError, Nak), rd + 1, packet)
      BY <1>1, <1>6, AnswersAppend DEF Nak
    <2>5. QED
      BY <1>5, <1>11, <2>1, <2>2, <2>3, <2>4, ScansOn
  <1>12. CASE Meets("packet") /\ ScanPacket /\ pkt' = Head(line).q
    <2>1. gdb = "scan" /\ gdb' = "lock" /\ UNCHANGED <<packet, arm, exc>>
      BY <1>12 DEF ScanPacket, Scan, coreVars
    <2>2. out' = Append(WithError, Ack)
      BY <1>1, <1>4, <1>12, ScanSends
    <2>3. Adds(Append(WithError, Ack), Error, 1, 0, 0)
      BY <1>1, <1>2, AddsSent
    <2>4. Answers(Append(WithError, Ack), rd + 1, packet)
      BY <1>1, <1>6, AnswersAppend DEF Ack
    <2>5. pkt' = cur
      BY <1>1, <1>12, AsksTail DEF Meets
    <2>6. QED
      BY <1>5, <1>12, <2>1, <2>2, <2>3, <2>4, <2>5, ScansOn
  <1>13. CASE /\ Meets("packet") /\ ScanUnsupported
              /\ Head(line).q.cmd \notin Commands
    BY <1>13, UnsupportedRefines DEF Implements, Server!Next
  <1>14. QED
    BY <1>8, <1>9, <1>10, <1>11, <1>12, <1>13 DEF ServerScans

-----------------------------------------------------------------------------
(* The steps of the threads                                                *)

\* A step that neither answers nor touches the core, and begins and ends no
\* cont.
LEMMA ThreadsOn ==
  ASSUME RefInv, ~Off, ~Off', UNCHANGED gdbClientVars,
         UNCHANGED <<out, packet, pkt, arm, exc>>, gdb' = "cont" <=> gdb = "cont",
         gdb' \in {"lock", "handle"} => gdb \in {"lock", "handle"}
  PROVE  OnTheWay' /\ Implements
  <1>1. UNCHANGED <<cs, cur, line, rd, issued, got>>
    BY DEF gdbClientVars
  <1>2. Sent("reply")' = Sent("reply")
    BY DEF Sent
  <1>3. OnTheWay'
    BY <1>1, RefFacts, OnTheWayIs
  <1>4. QED
    BY <1>1, <1>2, <1>3, Stutters DEF Implements

\* A handler, or cont when it stops, answers the command.
LEMMA FinishAnswers ==
  ASSUME RefInv, ~Off, ~Off', UNCHANGED gdbClientVars, gdb \in {"handle", "cont"},
         NEW r, Finish(r)
  PROVE  /\ OnTheWay' /\ Phase' = "answered" /\ packet' = r
         /\ Phase = IF gdb = "cont" THEN "running" ELSE "asked"
  <1>1. UNCHANGED <<cs, cur, line, rd, issued, got>>
    BY DEF gdbClientVars
  <1>2. gdb' = "unlock" /\ packet' = r /\ pkt' = pkt /\ Send(<<Reply(r)>>)
    BY DEF Finish
  <1>3. /\ IsSeq(out) /\ rd \in Nat /\ rd + 1 \in Nat \ {0} /\ proc = "running"
        /\ Asks(line, cur) /\ Sent("reply") = All(out, "reply")
    BY RefFacts
  <1>4. out' = Append(out, Reply(r))
    <2>1. proc' = "running"
      BY DEF Off
    <2>2. QED
      BY <1>2, <1>3, <2>1, Sending DEF Sends
  <1>5. /\ cs # "idle" /\ Unread("reply") = 0 /\ Unread("again") = 0
        /\ Sent("reply") + 1 = issued /\ Sent("reply") \in Nat
    BY OneUnderWay DEF RefInv
  <1>6. Answers(out', rd + 1, r) /\ IsSeq(out')
    <2>1. Answers(out, rd + 1, r)
      BY <1>3, <1>5, NothingUnread
    <2>2. QED
      BY <1>3, <1>4, <2>1, AnswersAppend, SeqFacts DEF Reply
  <1>7. OnTheWay'
    BY <1>1, <1>2, <1>3, <1>6, OnTheWayIs
  <1>8. Sent("reply")' = issued'
    <2>1. Sent("reply")' = All(out', "reply")
      BY <1>6, SeqFacts DEF Sent, All, Count, Places
    <2>2. All(out', "reply") = All(out, "reply") + 1
      BY <1>3, <1>4, AllAppend DEF One, Reply
    <2>3. QED
      BY <1>1, <1>3, <1>5, <2>1, <2>2
  <1>9. Sent("reply") # issued
    BY <1>5
  <1>10. QED
    BY <1>1, <1>2, <1>5, <1>7, <1>8, <1>9, PhaseIs

LEMMA HandleRefines ==
  ASSUME RefInv, ~Off, ~Off', UNCHANGED gdbClientVars, GdbHandle
  PROVE  OnTheWay' /\ Server!Serve
  <1>1. UNCHANGED <<cs, cur, line, rd, issued, got>> /\ gdb = "handle"
    BY DEF gdbClientVars, GdbHandle
  <1>2. proc = "running" /\ proc' = "running" /\ wr' # "shut"
    BY DEF Off
  <1>3. PICK o \in Handle(arm, exc, pkt) :
          /\ ~o.arm.fault /\ ~o.aborted /\ o.reply # NoReply
          /\ arm' = o.arm /\ exc' = o.exc /\ Finish(o.reply)
    <2>1. \A v : IF v THEN "aborted" # "running" ELSE "killed" # "running"
      OBVIOUS
    <2>2. QED
      BY <1>2, <2>1 DEF GdbHandle
  <1>4. /\ OnTheWay' /\ Phase' = "answered" /\ packet' = o.reply /\ Phase = "asked"
    BY <1>1, <1>3, FinishAnswers
  <1>5. pkt = cur
    BY <1>1, RefFacts
  <1>6. cur.cmd \in Commands \ {"c", "k"}
    <2>1. pkt.cmd \in Commands /\ pkt.cmd # "c"
      BY <1>1 DEF RefInv, Dispatched
    <2>2. CASE pkt.cmd = "k"
      <3>1. Handle(arm, exc, pkt) = {Outcome(arm, exc, NoReply)}
        BY <2>2 DEF Handle
      <3>2. QED
        BY <1>3, <3>1 DEF Outcome
    <2>3. QED
      BY <1>5, <2>1, <2>2
  <1>7. /\ ~o.arm.fault /\ ~o.aborted /\ arm' = o.arm /\ exc' = o.exc
        /\ packet' = o.reply
    BY <1>3, <1>4
  <1>8. QED
    BY <1>1, <1>4, <1>5, <1>6, <1>7 DEF Server!Serve

LEMMA ContRefines ==
  ASSUME RefInv, ~Off, ~Off', UNCHANGED gdbClientVars, ContStep \/ ContStop
  PROVE  OnTheWay' /\ (Server!Run \/ Server!Stop)
  <1>1. UNCHANGED <<cs, cur, line, rd, issued, got>> /\ gdb = "cont"
    BY DEF gdbClientVars, ContStep, ContStop
  <1>2. proc = "running" /\ proc' = "running"
    BY DEF Off
  <1>3. CASE ContStep
    <2>1. /\ arm' \in ContRound(arm) /\ exc' = 0
          /\ UNCHANGED <<gdb, out, packet, pkt>>
      BY <1>2, <1>3 DEF ContStep, netVars
    <2>2. cs # "idle"
      BY <1>1, OneUnderWay DEF RefInv
    <2>3. Phase = "running" /\ Phase' = "running"
      BY <1>1, <2>1, <2>2, PhaseIs
    <2>4. OnTheWay'
      BY <1>1, <2>1, RefFacts, OnTheWayIs
    <2>5. QED
      BY <1>1, <2>1, <2>3, <2>4 DEF Server!Run
  <1>4. CASE ContStop
    <2>1. /\ TRUE \in SeesBreakpoint(arm, first) /\ Finish(StopReason(exc))
          /\ UNCHANGED <<arm, exc>>
      BY <1>4 DEF ContStop
    <2>2. TRUE \in SeesBreakpoint(arm, TRUE)
      BY <2>1 DEF SeesBreakpoint
    <2>3. /\ OnTheWay' /\ Phase' = "answered" /\ packet' = StopReason(exc)
          /\ Phase = "running"
      BY <1>1, <2>1, FinishAnswers
    <2>4. QED
      BY <1>1, <2>1, <2>2, <2>3 DEF Server!Stop
  <1>5. QED
    BY <1>3, <1>4

LEMMA LockRefines ==
  ASSUME RefInv, ~Off, ~Off', UNCHANGED gdbClientVars, GdbLock
  PROVE  OnTheWay' /\ Implements
  <1>1. /\ gdb = "lock" /\ gdb' = IF pkt.cmd = "c" THEN "cont" ELSE "handle"
        /\ UNCHANGED <<out, packet, pkt, arm, exc>>
    BY DEF GdbLock, coreVars, netVars
  <1>2. CASE pkt.cmd # "c"
    BY <1>1, <1>2, ThreadsOn
  <1>3. CASE pkt.cmd = "c"
    <2>1. UNCHANGED <<cs, cur, line, rd, issued, got>>
      BY DEF gdbClientVars
    <2>2. pkt = cur
      BY <1>1, RefFacts
    <2>3. OnTheWay'
      BY <1>1, <2>1, RefFacts, OnTheWayIs
    <2>4. /\ cs # "idle" /\ Sent("reply") + 1 = issued /\ Sent("reply") \in Nat
      BY <1>1, OneUnderWay DEF RefInv
    <2>5. Sent("reply") # issued
      BY <2>4
    <2>6. Phase = "asked" /\ Phase' = "running"
      BY <1>1, <1>3, <2>1, <2>4, <2>5, PhaseIs
    <2>7. Server!Start
      BY <1>1, <1>3, <2>1, <2>2, <2>6 DEF Server!Start
    <2>8. QED
      BY <2>3, <2>7 DEF Implements, Server!Next
  <1>4. QED
    BY <1>2, <1>3

\* An exception finds no cont under way, the lock being held.
LEMMA ExceptionRefines ==
  ASSUME RefInv, ~Off, ~Off', UNCHANGED gdbClientVars, IrqException
  PROVE  OnTheWay' /\ Implements
  <1>1. /\ irq = "exception" /\ UNCHANGED <<out, packet, pkt, gdb, exc>>
        /\ arm' = arm_exception(arm, irqbyte) \/ arm' = arm
    BY DEF IrqException, gdbVars, netVars
  <1>2. irqbyte \in Irqs
    BY <1>1 DEF RefInv, Dispatched
  <1>3. gdb # "cont"
    BY <1>1 DEF RefInv, IInv, LockInv, GdbInside, IrqInside
  <1>4. CASE arm' = arm
    BY <1>1, <1>4, ThreadsOn
  <1>5. CASE arm' = arm_exception(arm, irqbyte)
    <2>1. UNCHANGED <<cs, cur, line, rd, issued, got>>
      BY DEF gdbClientVars
    <2>2. OnTheWay'
      BY <1>1, <2>1, RefFacts, OnTheWayIs
    <2>3. Sent("reply")' = Sent("reply")
      BY <1>1 DEF Sent
    <2>4. Phase' = Phase /\ Phase # "running"
      BY <1>1, <1>3, <2>1, <2>3, PhaseIs
    <2>5. Server!Interrupt
      BY <1>1, <1>2, <1>5, <2>1, <2>4 DEF Server!Interrupt
    <2>6. QED
      BY <2>2, <2>5 DEF Implements, Server!Next
  <1>6. QED
    BY <1>1, <1>4, <1>5

LEMMA ThreadsRefine ==
  ASSUME RefInv, ~Off, ~Off', ServerSteps
  PROVE  OnTheWay' /\ Implements
  <1> USE DEF coreVars, gdbVars, netVars, irqVars
  <1>1. UNCHANGED gdbClientVars
    BY DEF ServerSteps
  <1>2. CASE MainNext
    <2>1. /\ UNCHANGED <<out, packet, pkt, arm, exc>>
          /\ gdb' = gdb \/ (gdb = "none" /\ gdb' = "accept")
      <3>1. main = "create_gdb" => gdb = "none"
        BY DEF RefInv, IInv, LifeInv
      <3>2. QED
        BY <1>2, <3>1 DEF MainNext, MainCreateGdb, MainCreateIrq, MainJoin,
              MainDestroyArm, MainDestroyMemory, MainReturn
    <2>2. QED
      BY <1>1, <2>1, ThreadsOn
  <1>3. CASE CreateServerFails \/ GdbAccept \/ ClientCloses \/ ScanReadError
    <2>1. /\ UNCHANGED <<out, packet, pkt, arm, exc>>
          /\ gdb' = gdb \/ (gdb = "accept" /\ gdb' \in {"scan", "closing"})
      BY <1>3 DEF CreateServerFails, GdbAccept, ClientCloses, ScanReadError
    <2>2. QED
      BY <1>1, <2>1, ThreadsOn
  <1>4. CASE GdbUnlock \/ GdbClose
    <2>1. /\ UNCHANGED <<out, packet, pkt, arm, exc>>
          /\ \/ gdb = "unlock" /\ gdb' = "scan"
             \/ gdb = "closing" /\ gdb' = "exited"
      BY <1>4 DEF GdbUnlock, GdbClose
    <2>2. QED
      BY <1>1, <2>1, ThreadsOn
  <1>5. CASE IrqAccept \/ IrqRead \/ IrqEof \/ IrqReadError \/ IrqLock \/ IrqUnlock
    <2>1. UNCHANGED <<out, packet, pkt, arm, exc, gdb>>
      BY <1>5 DEF IrqAccept, IrqRead, IrqEof, IrqReadError, IrqLock, IrqUnlock
    <2>2. QED
      BY <1>1, <2>1, ThreadsOn
  <1>6. CASE GdbHandle
    BY <1>1, <1>6, HandleRefines DEF Implements, Server!Next
  <1>7. CASE ContStep \/ ContStop
    BY <1>1, <1>7, ContRefines DEF Implements, Server!Next
  <1>8. CASE GdbLock
    BY <1>1, <1>8, LockRefines
  <1>9. CASE IrqException
    BY <1>1, <1>9, ExceptionRefines
  <1>10. QED
    BY <1>2, <1>3, <1>4, <1>5, <1>6, <1>7, <1>8, <1>9
    DEF ServerSteps, GdbWork, IrqWork

-----------------------------------------------------------------------------
LEMMA StepRefines ==
  ASSUME RefInv, [SessionNext]_sessionVars
  PROVE  OnTheWay' /\ Implements
  <1>1. CASE Off'
    BY <1>1, Ends DEF OnTheWay, Implements
  <1>2. CASE ~Off'
    <2>1. ~Off
      BY <1>2, OffStays DEF RefInv, Inv
    <2>2. CASE UNCHANGED sessionVars
      <3>1. UNCHANGED <<out, packet, pkt, arm, exc, gdb>> /\ UNCHANGED gdbClientVars
        BY <2>2 DEF sessionVars, vars, netVars, gdbVars, coreVars
      <3>2. QED
        BY <1>2, <2>1, <3>1, ThreadsOn
    <2>3. CASE Issue \/ ClientReads \/ ReadBadReply \/ SendInterrupt \/ Damage
      BY <1>2, <2>1, <2>3, ClientRefines
    <2>4. CASE ServerScans
      BY <1>2, <2>1, <2>4, ScansRefine
    <2>5. CASE ServerEof
      BY <2>1, <2>5 DEF ServerEof, ScanEof, Off
    <2>6. CASE ServerSteps
      BY <1>2, <2>1, <2>6, ThreadsRefine
    <2>7. QED
      BY <2>2, <2>3, <2>4, <2>5, <2>6 DEF SessionNext
  <1>3. QED
    BY <1>1, <1>2

LEMMA RefInvHolds == SessionSpec => []RefInv
  <1>1. SessionInit => Dispatched /\ OnTheWay
    BY DEF SessionInit, Init, Dispatched, OnTheWay
  <1>2. Dispatched /\ [SessionNext]_sessionVars => Dispatched'
    BY SessionStep, DispatchedKept
  <1>3. /\ IInv /\ OrderInv /\ Inv /\ Dispatched /\ OnTheWay
        /\ [SessionNext]_sessionVars
        => OnTheWay'
    BY StepRefines DEF RefInv
  <1>4. QED
    BY <1>1, <1>2, <1>3, SessionInvHolds, PTL DEF SessionSpec, RefInv

\* A session with gdb implements what GdbServer promises, for every set of
\* packets and interrupts, every memory and every number of commands, damaged
\* checksums and stray bytes: until the promise ends, every command is
\* executed exactly once on a core that nothing else changes but whole
\* exceptions, none of them during a cont, and gdb accepts its own answer.
THEOREM SessionServesOnce == SessionSpec => ServesOnce
  <1>1. SessionInit => Server!Init
    <2> SUFFICES ASSUME SessionInit PROVE Server!Init
      OBVIOUS
    <2>1. /\ proc = "running" /\ client = "none" /\ wr = "open" /\ strays = 0
          /\ cs = "idle" /\ cur = NoPacket /\ got = NoReply /\ exc = 0
          /\ arm \in CreatedCores
      BY DEF SessionInit, Init
    <2>2. Phase = "idle"
      BY <2>1, PhaseIs DEF Off
    <2>3. QED
      BY <2>1, <2>2 DEF Server!Init
  <1>2. RefInv /\ [SessionNext]_sessionVars => [Server!Next]_(Server!state)
    BY StepRefines DEF Implements
  <1>3. QED
    BY <1>1, <1>2, RefInvHolds, PTL DEF SessionSpec, ServesOnce, Server!Spec
=============================================================================

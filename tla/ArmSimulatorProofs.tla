------------------------- MODULE ArmSimulatorProofs -------------------------
(***************************************************************************)
(* Proofs about ArmSimulator, for every set of packets, every memory size, *)
(* every size of the error buffer and any number of tokens, irq bytes and  *)
(* connections.  The instructions and the handlers are opaque here, and    *)
(* nothing is assumed of the client: the results are about the threads,    *)
(* the lock, the life of the core and the scanner's buffer, and about what *)
(* is sent in which order, one reply for every packet acknowledged and     *)
(* retransmissions of the last reply only.                                 *)
(***************************************************************************)
EXTENDS ArmSimulator, FiniteSetTheorems, SequenceTheorems, TLAPS

-----------------------------------------------------------------------------
(* The threads, the lock and the buffer                                    *)

\* The inductive invariant holds when main is about to create its threads.
LEMMA InitIInv == Init => IInv
  <1> SUFFICES ASSUME Init
               PROVE  IInv
    OBVIOUS
  <1>1. TypeOK
    <2>1. tokens \in 0 .. MaxTokens /\ fds \in 0 .. MaxFds /\ errlen \in Nat
      BY SimulatorAssumption DEF Init
    <2>2. uaf \in BOOLEAN
      BY Zenon DEF Init
    <2>3. QED
      BY <2>1, <2>2, Zenon DEF Init, TypeOK
  <1>2. LockInv
    BY DEF Init, LockInv, GdbInside, IrqInside
  <1>3. LifeInv
    BY DEF Init, LifeInv
  <1>4. ErrorBufferBound
    BY SimulatorAssumption DEF Init, ErrorBufferBound
  <1>5. QED
    BY <1>1, <1>2, <1>3, <1>4 DEF IInv

\* Every step of every thread preserves it: one case per action.
LEMMA NextIInv == IInv /\ [Next]_vars => IInv'
  <1> SUFFICES ASSUME IInv, [Next]_vars
               PROVE  IInv'
    OBVIOUS
  <1> USE SimulatorAssumption
  <1> USE DEF IInv, TypeOK, LockInv, LifeInv, ErrorBufferBound, GdbInside,
              IrqInside, coreVars, gdbVars, netVars, irqVars
  <1>1. CASE MainCreateGdb
    BY <1>1 DEF MainCreateGdb
  <1>2. CASE MainCreateIrq
    BY <1>2 DEF MainCreateIrq
  <1>3. CASE MainJoin
    BY <1>3 DEF MainJoin
  <1>4. CASE MainDestroyArm
    BY <1>4 DEF MainDestroyArm
  <1>5. CASE MainDestroyMemory
    BY <1>5 DEF MainDestroyMemory
  <1>6. CASE MainReturn
    BY <1>6 DEF MainReturn
  <1>7. CASE GdbAccept
    BY <1>7 DEF GdbAccept
  <1>8. CASE ClientCloses
    BY <1>8 DEF ClientCloses
  <1>9. CASE ScanPlus
    BY <1>9 DEF ScanPlus, Scan, Send
  <1>10. CASE ScanMinus
    BY <1>10 DEF ScanMinus, Scan, Send
  <1>11. CASE ScanOther
    BY <1>11 DEF ScanOther, Scan, Send
  <1>12. CASE ScanBadPacket
    BY <1>12 DEF ScanBadPacket, Scan, Send
  <1>13. CASE ScanPacket
    BY <1>13 DEF ScanPacket, Scan, Send
  <1>14. CASE ScanUnsupported
    BY <1>14 DEF ScanUnsupported, Scan, Send
  <1>15. CASE ScanEof
    BY <1>15 DEF ScanEof, Send
  <1>16. CASE ScanReadError
    BY <1>16 DEF ScanReadError
  <1>17. CASE GdbLock
    BY <1>17 DEF GdbLock
  <1>18. CASE GdbHandle
    BY <1>18 DEF GdbHandle, Finish, Send
  <1>19. CASE ContStep
    BY <1>19 DEF ContStep
  <1>20. CASE ContStop
    BY <1>20 DEF ContStop, Finish, Send
  <1>21. CASE GdbUnlock
    BY <1>21 DEF GdbUnlock
  <1>22. CASE GdbClose
    BY <1>22 DEF GdbClose
  <1>23. CASE IrqAccept
    BY <1>23 DEF IrqAccept
  <1>24. CASE IrqRead
    BY <1>24 DEF IrqRead
  <1>25. CASE IrqEof
    BY <1>25 DEF IrqEof
  <1>26. CASE IrqReadError
    BY <1>26 DEF IrqReadError
  <1>27. CASE IrqLock
    BY <1>27 DEF IrqLock
  <1>28. CASE IrqException
    <2>1. /\ irq = "exception" /\ irq' = "unlock"
          /\ UNCHANGED <<main, gdb, lock, proc, heap, errlen, client, wr, tokens, fds>>
          /\ uaf' = uaf \/ heap # "live"
      BY <1>28, Zenon DEF IrqException
    <2>2. uaf' \in BOOLEAN
      BY <1>28, Zenon DEF IrqException
    <2>3. uaf' => heap # "live"
      BY <1>28, Zenon DEF IrqException
    <2>4. QED
      BY <2>1, <2>2, <2>3
  <1>29. CASE IrqUnlock
    BY <1>29 DEF IrqUnlock
  <1>30. CASE CreateServerFails
    BY <1>30 DEF CreateServerFails
  <1>31. CASE UNCHANGED vars
    BY <1>31 DEF vars
  <1>32. QED
    BY <1>1, <1>2, <1>3, <1>4, <1>5, <1>6, <1>7, <1>8, <1>9, <1>10, <1>11,
       <1>12, <1>13, <1>14, <1>15, <1>16, <1>17, <1>18, <1>19, <1>20, <1>21,
       <1>22, <1>23, <1>24, <1>25, <1>26, <1>27, <1>28, <1>29, <1>30,
       <1>31
    DEF Next, MainNext, ScanNext, GdbWork, IrqWork

\* The control state is well typed: thread positions, lock, life of the core,
\* connection, and the counters within their limits.
THEOREM TypeCorrect == Spec => []TypeOK
  <1>1. IInv => TypeOK
    BY DEF IInv
  <1>2. QED
    BY InitIInv, NextIInv, <1>1, PTL DEF Spec

\* A gdb handler, a whole cont included, and an exception never run at once.
THEOREM MutuallyExclusive == Spec => []MutualExclusion
  <1>1. IInv => MutualExclusion
    BY DEF IInv, LockInv, MutualExclusion
  <1>2. QED
    BY InitIInv, NextIInv, <1>1, PTL DEF Spec

\* No handler runs on a core that main has freed.
THEOREM HandlersSafe == Spec => []HandlersUseLiveCore
  <1>1. IInv => HandlersUseLiveCore
    BY DEF IInv, LifeInv, HandlersUseLiveCore, GdbInside, TypeOK
  <1>2. QED
    BY InitIInv, NextIInv, <1>1, PTL DEF Spec

\* The irq thread reaches a freed core only while main is leaving.
THEOREM UseAfterFreeConfined == Spec => []UseAfterFreeOnlyAtExit
  <1>1. IInv => UseAfterFreeOnlyAtExit
    BY DEF IInv, LifeInv, UseAfterFreeOnlyAtExit
  <1>2. QED
    BY InitIInv, NextIInv, <1>1, PTL DEF Spec

\* The scanner stays inside its error buffer, whatever its size.
THEOREM ErrorBufferSafe == Spec => []ErrorBufferBound
  <1>1. IInv => ErrorBufferBound
    BY DEF IInv
  <1>2. QED
    BY InitIInv, NextIInv, <1>1, PTL DEF Spec

\* Only a round of cont moves the core while cont runs, and only after it has
\* looked at the word that arm_step is going to fetch.
THEOREM ContStopsAtBreakpoints == Spec => BreakpointNotExecuted
  <1> DEFINE Kept == gdb = "cont" /\ arm' # arm
                       /\ Accepts(arm.mem, FetchAddress(arm))
                       => ~IsBreakpoint(Decode(FetchedWord(arm)))
  <1>1. ASSUME IInv, Next PROVE Kept
    <2> SUFFICES ASSUME gdb = "cont", arm' # arm,
                        Accepts(arm.mem, FetchAddress(arm))
                 PROVE  ~IsBreakpoint(Decode(FetchedWord(arm)))
      OBVIOUS
    <2> USE DEF coreVars, gdbVars, netVars, irqVars
    <2>1. lock = "gdb"
      BY <1>1 DEF IInv, LockInv, GdbInside
    <2>2. irq # "exception"
      BY <1>1, <2>1 DEF IInv, LockInv, IrqInside
    <2>3. ~MainNext
      BY DEF MainNext, MainCreateGdb, MainCreateIrq, MainJoin, MainDestroyArm,
             MainDestroyMemory, MainReturn
    <2>4. ~GdbAccept /\ ~ClientCloses /\ ~CreateServerFails
      BY DEF GdbAccept, ClientCloses, CreateServerFails
    <2>5. ~ScanNext
      BY DEF ScanNext, Scan, ScanPlus, ScanMinus, ScanOther, ScanBadPacket,
             ScanPacket, ScanUnsupported, ScanEof, ScanReadError
    <2>6. ~GdbLock /\ ~GdbHandle /\ ~GdbUnlock /\ ~GdbClose
      BY DEF GdbLock, GdbHandle, GdbUnlock, GdbClose
    <2>7. ~ContStop
      BY DEF ContStop
    <2>8. ~IrqAccept /\ ~IrqRead /\ ~IrqEof /\ ~IrqReadError
      BY DEF IrqAccept, IrqRead, IrqEof, IrqReadError
    <2>9. ~IrqWork
      BY <2>1, <2>2 DEF IrqWork, IrqLock, IrqException, IrqUnlock
    <2>10. ContStep
      BY <1>1, <2>3, <2>4, <2>5, <2>6, <2>7, <2>8, <2>9 DEF Next, GdbWork
    <2>11. FALSE \in SeesBreakpoint(arm, first)
      BY <2>10 DEF ContStep
    <2>12. FALSE \in {IsBreakpoint(Decode(FetchedWord(arm)))}
      BY <2>11, Zenon DEF SeesBreakpoint
    <2>13. QED
      BY <2>12, Zenon
  <1>2. IInv /\ [Next]_vars => [Kept]_vars
    BY <1>1
  <1>3. QED
    BY InitIInv, NextIInv, <1>2, PTL DEF Spec, BreakpointNotExecuted

-----------------------------------------------------------------------------
(* Counting the messages of one kind in a sequence of messages: acks,      *)
(* replies and requests on the line, and how the operations on a sequence  *)
(* change their number.  A message is a record with its kind in field t.   *)

\* A sequence of anything.
IsSeq(s) == \E S : s \in Seq(S)

\* The messages of kind t from place a on, and their number.
Places(s, a, t) == {k \in a .. Len(s) : s[k].t = t}
Count(s, a, t) == Cardinality(Places(s, a, t))

\* The number of messages of kind t in s.
All(s, t) == Count(s, 1, t)

\* One if m is of kind t.
One(m, t) == IF m.t = t THEN 1 ELSE 0

\* What the provers need to know about the sequences made of another.
LEMMA SeqFacts ==
  ASSUME NEW s, IsSeq(s)
  PROVE  /\ Len(s) \in Nat /\ DOMAIN s = 1 .. Len(s)
         /\ \A m : /\ IsSeq(Append(s, m))
                   /\ Len(Append(s, m)) = Len(s) + 1
                   /\ \A k \in 1 .. Len(s) : Append(s, m)[k] = s[k]
                   /\ Append(s, m)[Len(s) + 1] = m
         /\ s # << >> => /\ IsSeq(Tail(s)) /\ Len(s) >= 1 /\ Head(s) = s[1]
                         /\ Len(Tail(s)) = Len(s) - 1
                         /\ \A k \in 1 .. Len(s) - 1 : Tail(s)[k] = s[k + 1]
  <1>1. PICK S : s \in Seq(S)
    BY DEF IsSeq
  <1>2. Len(s) \in Nat /\ DOMAIN s = 1 .. Len(s)
    BY <1>1
  <1>3. ASSUME NEW m
        PROVE  /\ IsSeq(Append(s, m))
               /\ Len(Append(s, m)) = Len(s) + 1
               /\ \A k \in 1 .. Len(s) : Append(s, m)[k] = s[k]
               /\ Append(s, m)[Len(s) + 1] = m
    <2>1. s \in Seq(S \union {m})
      BY <1>1
    <2>2. Append(s, m) \in Seq(S \union {m})
      BY <2>1
    <2>3. QED
      BY <2>1, <2>2 DEF IsSeq
  <1>4. ASSUME s # << >>
        PROVE  /\ IsSeq(Tail(s)) /\ Len(s) >= 1 /\ Head(s) = s[1]
               /\ Len(Tail(s)) = Len(s) - 1
               /\ \A k \in 1 .. Len(s) - 1 : Tail(s)[k] = s[k + 1]
    <2>1. Tail(s) \in Seq(S)
      BY <1>1, <1>4
    <2>2. Len(s) >= 1
      BY <1>1, <1>4
    <2>3. QED
      BY <1>1, <1>4, <2>1, <2>2 DEF IsSeq
  <1>5. QED
    BY <1>2, <1>3, <1>4

LEMMA CountType ==
  ASSUME NEW s, IsSeq(s), NEW a \in Int, NEW t
  PROVE  IsFiniteSet(Places(s, a, t)) /\ Count(s, a, t) \in Nat
  <1>1. Len(s) \in Int
    BY SeqFacts
  <1>2. IsFiniteSet(a .. Len(s))
    BY <1>1, FS_Interval, Zenon
  <1>3. Places(s, a, t) \in SUBSET (a .. Len(s))
    BY DEF Places
  <1>4. IsFiniteSet(Places(s, a, t))
    BY <1>2, <1>3, FS_Subset, Zenon
  <1>5. QED
    BY <1>4, FS_CardinalityType, Zenon DEF Count

\* Nothing is left after the end.
LEMMA CountEnd ==
  ASSUME NEW s, IsSeq(s), NEW a \in Int, a > Len(s), NEW t
  PROVE  Count(s, a, t) = 0
  <1>1. Places(s, a, t) = {}
    BY SeqFacts DEF Places
  <1>2. QED
    BY <1>1, FS_EmptySet, Zenon DEF Count

LEMMA CountEmpty == \A t : Count(<< >>, 1, t) = 0
  <1> TAKE t
  <1>1. Places(<< >>, 1, t) = {}
    BY DEF Places
  <1>2. QED
    BY <1>1, FS_EmptySet, Zenon DEF Count

\* A set with one more element, or none.
LEMMA OneMore ==
  ASSUME NEW P, NEW Q, IsFiniteSet(P), NEW x, x \notin P, NEW b \in BOOLEAN,
         Q = IF b THEN P \union {x} ELSE P
  PROVE  Cardinality(Q) = Cardinality(P) + (IF b THEN 1 ELSE 0)
  <1>1. Cardinality(P) \in Nat
    BY FS_CardinalityType, Zenon
  <1>2. CASE b
    <2>1. Q = P \union {x}
      BY <1>2
    <2>2. Cardinality(P \union {x}) =
            IF x \in P THEN Cardinality(P) ELSE Cardinality(P) + 1
      BY FS_AddElement, Zenon
    <2>3. QED
      BY <1>2, <2>1, <2>2
  <1>3. CASE ~b
    BY <1>1, <1>3
  <1>4. QED
    BY <1>2, <1>3

\* The first place: reading a message.
LEMMA CountFirst ==
  ASSUME NEW s, IsSeq(s), NEW a \in 1 .. Len(s), NEW t
  PROVE  Count(s, a, t) = Count(s, a + 1, t) + One(s[a], t)
  <1> DEFINE P == Places(s, a + 1, t)
             b == s[a].t = t
  <1>1. Len(s) \in Nat /\ a \in Int /\ a + 1 \in Int
    BY SeqFacts
  <1>2. IsFiniteSet(P)
    BY <1>1, CountType
  <1>3. a \notin P
    BY <1>1 DEF Places
  <1>4. Places(s, a, t) = IF b THEN P \union {a} ELSE P
    BY <1>1 DEF Places
  <1>5. b \in BOOLEAN
    OBVIOUS
  <1> HIDE DEF P, b
  <1>6. Cardinality(Places(s, a, t)) = Cardinality(P) + (IF b THEN 1 ELSE 0)
    BY <1>2, <1>3, <1>4, <1>5, OneMore
  <1>7. QED
    BY <1>6 DEF Count, One, P, b

\* Sending a message.
LEMMA CountAppend ==
  ASSUME NEW s, IsSeq(s), NEW m, NEW a \in 1 .. Len(s) + 1, NEW t
  PROVE  Count(Append(s, m), a, t) = Count(s, a, t) + One(m, t)
  <1> DEFINE P == Places(s, a, t)
             n == Len(s) + 1
             b == m.t = t
  <1>1. Len(s) \in Nat /\ a \in Int
    BY SeqFacts
  <1>2. IsFiniteSet(P)
    BY <1>1, CountType
  <1>3. n \notin P
    BY <1>1 DEF Places
  <1>4. Places(Append(s, m), a, t) = IF b THEN P \union {n} ELSE P
    <2>1. /\ Len(Append(s, m)) = n
          /\ \A k \in a .. Len(s) : Append(s, m)[k] = s[k]
          /\ Append(s, m)[n] = m
      BY <1>1, SeqFacts
    <2>2. a .. n = (a .. Len(s)) \union {n} /\ n \notin a .. Len(s)
      BY <1>1
    <2> HIDE DEF n
    <2>3. QED
      BY <2>1, <2>2 DEF Places
  <1>5. b \in BOOLEAN
    OBVIOUS
  <1> HIDE DEF P, b, n
  <1>6. Cardinality(Places(Append(s, m), a, t))
          = Cardinality(P) + (IF b THEN 1 ELSE 0)
    BY <1>2, <1>3, <1>4, <1>5, OneMore
  <1>7. QED
    BY <1>6 DEF Count, One, P, b

\* Taking the first message off.
LEMMA CountTail ==
  ASSUME NEW s, IsSeq(s), s # << >>, NEW t
  PROVE  Count(s, 1, t) = Count(Tail(s), 1, t) + One(Head(s), t)
  <1> DEFINE P == Places(s, 2, t)
             Q == Places(Tail(s), 1, t)
             f == [k \in P |-> k - 1]
  <1>1. /\ Len(s) \in Nat /\ Len(s) >= 1 /\ Head(s) = s[1]
        /\ Len(Tail(s)) = Len(s) - 1 /\ IsSeq(Tail(s))
        /\ \A k \in 1 .. Len(s) - 1 : Tail(s)[k] = s[k + 1]
    BY SeqFacts
  <1>2. Count(s, 1, t) = Count(s, 2, t) + One(Head(s), t)
    <2>1. 1 \in 1 .. Len(s) /\ 1 + 1 = 2
      BY <1>1
    <2>2. Count(s, 1, t) = Count(s, 1 + 1, t) + One(s[1], t)
      BY <2>1, CountFirst
    <2>3. QED
      BY <2>1, <2>2, <1>1
  <1>3. f \in Bijection(P, Q)
    <2>1. \A k \in P : k - 1 \in Q
      BY <1>1 DEF Places
    <2>2. \A k \in Q : k + 1 \in P /\ f[k + 1] = k
      BY <1>1 DEF Places
    <2>3. P \subseteq Int /\ Q \subseteq Int
      BY <1>1 DEF Places
    <2>4. f \in [P -> Q]
      BY <2>1
    <2> HIDE DEF P, Q
    <2>5. \A j, k \in P : f[j] = f[k] => j = k
      BY <2>3
    <2>6. \A k \in Q : \E j \in P : f[j] = k
      BY <2>2
    <2> HIDE DEF f
    <2>7. f \in Injection(P, Q)
      BY <2>4, <2>5 DEF Injection, IsInjective
    <2>8. f \in Surjection(P, Q)
      BY <2>4, <2>6 DEF Surjection
    <2>9. QED
      BY <2>7, <2>8 DEF Bijection
  <1>4. IsFiniteSet(P)
    BY CountType
  <1>5. ExistsBijection(P, Q)
    BY <1>3 DEF ExistsBijection
  <1> HIDE DEF P, Q, f
  <1>6. Cardinality(P) = Cardinality(Q)
    BY <1>4, <1>5, FS_Bijection, Zenon
  <1>7. QED
    BY <1>2, <1>6 DEF Count, P, Q

\* Replacing a message.
LEMMA CountReplace ==
  ASSUME NEW s, IsSeq(s), NEW i \in 1 .. Len(s), NEW m, NEW t
  PROVE  /\ IsSeq([s EXCEPT ![i] = m])
         /\ Count([s EXCEPT ![i] = m], 1, t) + One(s[i], t)
              = Count(s, 1, t) + One(m, t)
  <1> DEFINE r == [s EXCEPT ![i] = m]
             P == Places(s, 1, t) \ {i}
             b == s[i].t = t
             c == m.t = t
  <1>1. Len(s) \in Nat /\ DOMAIN s = 1 .. Len(s)
    BY SeqFacts
  <1>2. IsSeq(r) /\ Len(r) = Len(s)
    <2>1. PICK S : s \in Seq(S)
      BY DEF IsSeq
    <2>2. s \in Seq(S \union {m})
      BY <2>1
    <2>3. r \in Seq(S \union {m}) /\ Len(r) = Len(s)
      BY <2>2
    <2>4. QED
      BY <2>3 DEF IsSeq
  <1>3. r[i] = m /\ \A k \in 1 .. Len(s) : k # i => r[k] = s[k]
    BY <1>1
  <1>4. IsFiniteSet(Places(s, 1, t))
    BY CountType
  <1>5. IsFiniteSet(P)
    <2>1. P \in SUBSET Places(s, 1, t)
      OBVIOUS
    <2>2. QED
      BY <1>4, <2>1, FS_Subset, Zenon
  <1>6. i \notin P
    OBVIOUS
  <1> HIDE DEF r
  <1>7. /\ Places(s, 1, t) = IF b THEN P \union {i} ELSE P
        /\ Places(r, 1, t) = IF c THEN P \union {i} ELSE P
    BY <1>1, <1>2, <1>3 DEF Places
  <1>8. b \in BOOLEAN /\ c \in BOOLEAN
    OBVIOUS
  <1> HIDE DEF P, b, c
  <1>9. /\ Cardinality(Places(s, 1, t)) = Cardinality(P) + (IF b THEN 1 ELSE 0)
        /\ Cardinality(Places(r, 1, t)) = Cardinality(P) + (IF c THEN 1 ELSE 0)
    BY <1>5, <1>6, <1>7, <1>8, OneMore
  <1>10. Cardinality(P) \in Nat
    BY <1>5, FS_CardinalityType, Zenon
  <1>11. QED
    BY <1>2, <1>9, <1>10 DEF Count, One, b, c, r

\* The same for all of a sequence.
LEMMA AllType == ASSUME NEW s, IsSeq(s), NEW t PROVE All(s, t) \in Nat
  BY CountType DEF All

LEMMA AllAppend ==
  ASSUME NEW s, IsSeq(s), NEW m, NEW t
  PROVE  All(Append(s, m), t) = All(s, t) + One(m, t)
  <1>1. 1 \in 1 .. Len(s) + 1
    BY SeqFacts
  <1>2. QED
    BY <1>1, CountAppend DEF All

LEMMA AllTail ==
  ASSUME NEW s, IsSeq(s), s # << >>, NEW t
  PROVE  All(s, t) = All(Tail(s), t) + One(Head(s), t)
  BY CountTail DEF All

LEMMA AllReplace ==
  ASSUME NEW s, IsSeq(s), NEW i \in 1 .. Len(s), NEW m, NEW t
  PROVE  /\ IsSeq([s EXCEPT ![i] = m])
         /\ All([s EXCEPT ![i] = m], t) + One(s[i], t) = All(s, t) + One(m, t)
  BY CountReplace DEF All

-----------------------------------------------------------------------------
(* What is sent, and in which order                                        *)

\* Concatenation with the short sequences that the scanner sends.
LEMMA Concatenation ==
  /\ \A a, b : <<a>> \o <<b>> = <<a, b>>
  /\ \A a, b, c : <<a>> \o <<b, c>> = <<a, b, c>>
  /\ \A a : << >> \o <<a>> = <<a>>
  /\ \A a, b : << >> \o <<a, b>> = <<a, b>>
  /\ << >> \o << >> = << >>
  /\ \A a : <<a>> \o << >> = <<a>>
  <1>1. ASSUME NEW a, NEW b PROVE <<a>> \o <<b>> = <<a, b>>
    <2> DEFINE s == <<a>> \o <<b>>
               u == <<a, b>>
    <2>1. s \in Seq({a, b}) /\ u \in Seq({a, b})
      OBVIOUS
    <2>2. Len(s) = 2 /\ s[1] = a /\ s[2] = b
      OBVIOUS
    <2>3. Len(u) = 2 /\ u[1] = a /\ u[2] = b
      OBVIOUS
    <2> HIDE DEF s, u
    <2>4. Len(s) = Len(u) /\ \A i \in 1 .. Len(s) : s[i] = u[i]
      BY <2>2, <2>3
    <2>5. s = u
      BY <2>1, <2>4, SeqEqual, Zenon
    <2>6. QED
      BY <2>5 DEF s, u
  <1>2. ASSUME NEW a, NEW b, NEW c PROVE <<a>> \o <<b, c>> = <<a, b, c>>
    <2> DEFINE s == <<a>> \o <<b, c>>
               u == <<a, b, c>>
    <2>1. s \in Seq({a, b, c}) /\ u \in Seq({a, b, c})
      OBVIOUS
    <2>2. Len(s) = 3 /\ s[1] = a /\ s[2] = b /\ s[3] = c
      OBVIOUS
    <2>3. Len(u) = 3 /\ u[1] = a /\ u[2] = b /\ u[3] = c
      OBVIOUS
    <2> HIDE DEF s, u
    <2>4. Len(s) = Len(u) /\ \A i \in 1 .. Len(s) : s[i] = u[i]
      BY <2>2, <2>3
    <2>5. s = u
      BY <2>1, <2>4, SeqEqual, Zenon
    <2>6. QED
      BY <2>5 DEF s, u
  <1>3. ASSUME NEW a PROVE << >> \o <<a>> = <<a>> /\ <<a>> \o << >> = <<a>>
    OBVIOUS
  <1>4. ASSUME NEW a, NEW b PROVE << >> \o <<a, b>> = <<a, b>>
    OBVIOUS
  <1>5. << >> \o << >> = << >>
    OBVIOUS
  <1>6. QED
    BY <1>1, <1>2, <1>3, <1>4, <1>5, Zenon

LEMMA Appending ==
  ASSUME NEW s, IsSeq(s)
  PROVE  /\ \A a : s \o <<a>> = Append(s, a)
         /\ \A a, b : s \o <<a, b>> = Append(Append(s, a), b)
         /\ \A a, b, c : s \o <<a, b, c>> = Append(Append(Append(s, a), b), c)
  <1>1. PICK S : s \in Seq(S)
    BY DEF IsSeq
  <1>2. ASSUME NEW a PROVE s \o <<a>> = Append(s, a)
    <2>1. s \in Seq(S \union {a})
      BY <1>1
    <2>2. QED
      BY <2>1
  <1>3. ASSUME NEW a, NEW b PROVE s \o <<a, b>> = Append(Append(s, a), b)
    <2>1. s \in Seq(S \union {a, b})
      BY <1>1
    <2>2. QED
      BY <2>1
  <1>4. ASSUME NEW a, NEW b, NEW c
        PROVE  s \o <<a, b, c>> = Append(Append(Append(s, a), b), c)
    <2>1. s \in Seq(S \union {a, b, c})
      BY <1>1
    <2>2. QED
      BY <2>1
  <1>5. QED
    BY <1>2, <1>3, <1>4

\* What was sent, after handle_error.
WithError == IF errlen > 0 THEN Append(out, Nak) ELSE out

\* A write that leaves s sent, or ends the process.
Sends(s) == \/ /\ out' = s /\ proc' = proc
               /\ wr = "open" \/ s = out
            \/ out' = out /\ proc' = "killed"

\* Send in terms of Append, for what the gdb thread writes.
LEMMA Sending ==
  ASSUME IsSeq(out)
  PROVE  /\ IsSeq(WithError)
         /\ Send(<< >>) => Sends(out)
         /\ Send(handle_error) => Sends(WithError)
         /\ Send(handle_error \o << >>) => Sends(WithError)
         /\ \A m : Send(<<m>>) => Sends(Append(out, m)) /\ (wr # "open" => proc' = "killed")
         /\ \A m : Send(handle_error \o <<m>>) =>
              Sends(Append(WithError, m)) /\ (wr # "open" => proc' = "killed")
         /\ \A m, n : Send(handle_error \o <<m, n>>) =>
              Sends(Append(Append(WithError, m), n))
              /\ (wr # "open" => proc' = "killed")
  <1>1. IsSeq(WithError)
    BY SeqFacts DEF WithError
  <1>2. \A m, n, o : <<m>> # << >> /\ <<m, n>> # << >> /\ <<m, n, o>> # << >>
    OBVIOUS
  <1>3. Send(<< >>) => Sends(out)
    BY DEF Send, Sends
  <1>4. \A m : Send(<<m>>) => Sends(Append(out, m)) /\ (wr # "open" => proc' = "killed")
    BY <1>2, Appending DEF Send, Sends
  <1>5. CASE errlen > 0
    <2>1. handle_error = <<Nak>> /\ WithError = Append(out, Nak)
      BY <1>5 DEF handle_error, WithError
    <2>2. \A m, n : /\ handle_error \o << >> = <<Nak>>
                    /\ handle_error \o <<m>> = <<Nak, m>>
                    /\ handle_error \o <<m, n>> = <<Nak, m, n>>
      BY <2>1, Concatenation
    <2> HIDE DEF Nak
    <2>3. QED
      BY <1>1, <1>2, <1>3, <1>4, <2>1, <2>2, Appending DEF Send, Sends
  <1>6. CASE ~(errlen > 0)
    <2>1. handle_error = << >> /\ WithError = out
      BY <1>6 DEF handle_error, WithError
    <2>2. \A m, n : /\ handle_error \o << >> = << >>
                    /\ handle_error \o <<m>> = <<m>>
                    /\ handle_error \o <<m, n>> = <<m, n>>
      BY <2>1, Concatenation
    <2>3. QED
      BY <1>1, <1>2, <1>3, <1>4, <2>1, <2>2, Appending DEF Send, Sends
  <1>7. QED
    BY <1>5, <1>6

-----------------------------------------------------------------------------
(* Order                                                                   *)

\* The last reply in s is r.
LastReply(s, r) == \E j \in 1 .. Len(s) :
                     /\ s[j] = Reply(r)
                     /\ \A l \in j + 1 .. Len(s) : s[l].t # "reply"

\* RetransmitsLastReply, of any sequence.
Ordered(s) == \A k \in 1 .. Len(s) : s[k].t = "again" =>
                \E j \in 1 .. k - 1 : /\ s[j] = Reply(s[k].r)
                                      /\ \A l \in j + 1 .. k - 1 : s[l].t # "reply"

LEMMA OrderedIs == ASSUME IsSeq(out) PROVE Ordered(out) <=> RetransmitsLastReply
  BY SeqFacts DEF Ordered, RetransmitsLastReply

\* A message that is not a retransmission keeps the order, ...
LEMMA OrderedAppend ==
  ASSUME NEW s, IsSeq(s), Ordered(s), NEW m, m.t # "again"
  PROVE  Ordered(Append(s, m))
  <1> DEFINE u == Append(s, m)
  <1>1. /\ Len(s) \in Nat /\ Len(u) = Len(s) + 1
        /\ \A k \in 1 .. Len(s) : u[k] = s[k]
        /\ u[Len(s) + 1] = m
    BY SeqFacts
  <1> HIDE DEF u
  <1>2. SUFFICES ASSUME NEW k \in 1 .. Len(u), u[k].t = "again"
                 PROVE  \E j \in 1 .. k - 1 :
                          /\ u[j] = Reply(u[k].r)
                          /\ \A l \in j + 1 .. k - 1 : u[l].t # "reply"
    BY DEF Ordered, u
  <1>3. k \in 1 .. Len(s) /\ u[k] = s[k]
    BY <1>1, <1>2
  <1>4. PICK j \in 1 .. k - 1 : /\ s[j] = Reply(s[k].r)
                                /\ \A l \in j + 1 .. k - 1 : s[l].t # "reply"
    BY <1>2, <1>3 DEF Ordered
  <1>5. u[j] = s[j] /\ \A l \in j + 1 .. k - 1 : u[l] = s[l]
    BY <1>1, <1>3
  <1>6. QED
    BY <1>3, <1>4, <1>5

\* ... and so does the last reply again.
LEMMA OrderedAgain ==
  ASSUME NEW s, IsSeq(s), Ordered(s), NEW r, LastReply(s, r)
  PROVE  Ordered(Append(s, Again(r)))
  <1> DEFINE u == Append(s, Again(r))
  <1>1. /\ Len(s) \in Nat /\ Len(u) = Len(s) + 1
        /\ \A k \in 1 .. Len(s) : u[k] = s[k]
        /\ u[Len(s) + 1] = Again(r)
    BY SeqFacts
  <1> HIDE DEF u
  <1>2. SUFFICES ASSUME NEW k \in 1 .. Len(u), u[k].t = "again"
                 PROVE  \E j \in 1 .. k - 1 :
                          /\ u[j] = Reply(u[k].r)
                          /\ \A l \in j + 1 .. k - 1 : u[l].t # "reply"
    BY DEF Ordered, u
  <1>3. CASE k \in 1 .. Len(s)
    <2>1. PICK j \in 1 .. k - 1 : /\ s[j] = Reply(s[k].r)
                                  /\ \A l \in j + 1 .. k - 1 : s[l].t # "reply"
      BY <1>1, <1>2, <1>3 DEF Ordered
    <2>2. QED
      BY <1>1, <1>3, <2>1
  <1>4. CASE k = Len(s) + 1
    <2>1. PICK j \in 1 .. Len(s) : /\ s[j] = Reply(r)
                                   /\ \A l \in j + 1 .. Len(s) : s[l].t # "reply"
      BY DEF LastReply
    <2>2. u[k].r = r
      BY <1>1, <1>4 DEF Again
    <2>3. QED
      BY <1>1, <1>4, <2>1, <2>2
  <1>5. QED
    BY <1>1, <1>3, <1>4

LEMMA LastReplyKept ==
  ASSUME NEW s, IsSeq(s), NEW m, m.t # "reply", NEW r, LastReply(s, r)
  PROVE  LastReply(Append(s, m), r)
  <1>1. PICK j \in 1 .. Len(s) : /\ s[j] = Reply(r)
                                 /\ \A l \in j + 1 .. Len(s) : s[l].t # "reply"
    BY DEF LastReply
  <1>2. QED
    BY <1>1, SeqFacts DEF LastReply

LEMMA LastReplyNew ==
  ASSUME NEW s, IsSeq(s), NEW r
  PROVE  LastReply(Append(s, Reply(r)), r)
  BY SeqFacts DEF LastReply

\* The same for handle_error.
LEMMA ErrorKeeps ==
  ASSUME IsSeq(out), Ordered(out)
  PROVE  /\ Ordered(WithError)
         /\ \A r : LastReply(out, r) => LastReply(WithError, r)
  <1>1. Nak.t # "again" /\ Nak.t # "reply"
    BY DEF Nak
  <1>2. QED
    BY <1>1, OrderedAppend, LastReplyKept DEF WithError

-----------------------------------------------------------------------------
(* Numbers                                                                 *)

LEMMA SentIsAll == ASSUME IsSeq(out), NEW t PROVE Sent(t) = All(out, t)
  <1>1. DOMAIN out = 1 .. Len(out)
    BY SeqFacts
  <1>2. QED
    BY <1>1 DEF Sent, All, Count, Places

LEMMA ErrorCount ==
  ASSUME IsSeq(out), NEW a \in 1 .. Len(out) + 1
  PROVE  /\ Count(WithError, a, "nak")
              = Count(out, a, "nak") + (IF errlen > 0 THEN 1 ELSE 0)
         /\ \A t : t # "nak" => Count(WithError, a, t) = Count(out, a, t)
         /\ Len(WithError) \in Nat /\ Len(WithError) >= Len(out)
  <1>1. Len(out) \in Nat /\ Len(Append(out, Nak)) = Len(out) + 1
    BY SeqFacts
  <1>2. \A t : Count(out, a, t) \in Nat
    BY <1>1, CountType
  <1>3. \A t : One(Nak, t) = IF t = "nak" THEN 1 ELSE 0
    BY DEF One, Nak
  <1>4. QED
    BY <1>1, <1>2, <1>3, CountAppend DEF WithError

-----------------------------------------------------------------------------
(* The invariant                                                           *)

Busy == IF gdb \in {"lock", "handle", "cont"} THEN 1 ELSE 0
Killed == IF wr = "shut" THEN 1 ELSE 0

\* While the process runs, gdb->packet is the last reply sent; nothing was
\* sent before the connection; a handler finds it open for its reply.  The
\* replies never outnumber the acks, also after the end of the process.
OrderInv ==
  /\ IsSeq(out)
  /\ Ordered(out)
  /\ wr \in {"open", "shut"}
  /\ All(out, "reply") <= All(out, "ack")
  /\ proc = "running" =>
       /\ packet # NoReply => LastReply(out, packet)
       /\ gdb \in {"none", "accept"} => out = << >> /\ wr = "open"
       /\ gdb \in {"lock", "handle", "cont"} => wr = "open"
       /\ gdb \notin {"none", "accept", "exited"} =>
            All(out, "ack") = All(out, "reply") + Busy + Killed

LEMMA InitOrderInv == Init => OrderInv
  <1> SUFFICES ASSUME Init PROVE OrderInv
    OBVIOUS
  <1>1. out = << >> /\ packet = NoReply /\ gdb = "none" /\ wr = "open"
    BY DEF Init
  <1>2. IsSeq(out)
    <2>1. out \in Seq({})
      BY <1>1
    <2>2. QED
      BY <2>1 DEF IsSeq
  <1>3. Ordered(out)
    BY <1>1 DEF Ordered
  <1>4. \A t : All(out, t) = 0
    BY <1>1, CountEmpty DEF All
  <1>5. QED
    BY <1>1, <1>2, <1>3, <1>4 DEF OrderInv

\* A step that sends nothing and writes no packet, and enters and leaves no
\* handler.
LEMMA SilentStep ==
  ASSUME OrderInv, out' = out, wr' \in {"open", "shut"},
         proc' = "running" =>
           /\ proc = "running" /\ packet' = packet
           /\ gdb' \in {"none", "accept"} => gdb \in {"none", "accept"}
           /\ gdb' \in {"lock", "handle", "cont"} <=>
                gdb \in {"lock", "handle", "cont"}
           /\ gdb = "exited" => gdb' = "exited"
           /\ gdb' # "exited" => wr' = wr
  PROVE  OrderInv'
  <1>1. CASE proc' # "running"
    BY <1>1 DEF OrderInv
  <1>2. CASE proc' = "running" /\ gdb \in {"none", "accept"}
    <2>1. out = << >>
      BY <1>2 DEF OrderInv
    <2>2. \A t : All(out, t) = 0
      BY <2>1, CountEmpty DEF All
    <2>3. QED
      BY <1>2, <2>1, <2>2 DEF OrderInv, Busy, Killed
  <1>3. CASE proc' = "running" /\ gdb \notin {"none", "accept"}
    BY <1>3 DEF OrderInv, Busy, Killed
  <1>4. QED
    BY <1>1, <1>2, <1>3

\* The scanner sends s, in which there are as many replies and acks more.
LEMMA ScanStep ==
  ASSUME OrderInv, proc = "running", gdb = "scan", wr' = wr,
         NEW s, IsSeq(s), Ordered(s), Sends(s),
         packet' # NoReply => LastReply(s, packet'),
         NEW a \in Nat, NEW r \in Nat, a > 0 /\ proc' = "running" => wr = "open",
         All(s, "ack") = All(out, "ack") + a,
         All(s, "reply") = All(out, "reply") + r,
         \/ gdb' \in {"scan", "closing"} /\ a = r
         \/ gdb' = "lock" /\ a = r + 1
  PROVE  OrderInv'
  <1>1. All(out, "ack") \in Nat /\ All(out, "reply") \in Nat
    BY AllType DEF OrderInv
  <1>2. CASE proc' # "running"
    BY <1>2 DEF OrderInv, Sends
  <1>3. CASE proc' = "running"
    <2>1. out' = s
      BY <1>3 DEF Sends
    <2>2. QED
      BY <1>1, <1>3, <2>1 DEF OrderInv, Busy, Killed
  <1>4. QED
    BY <1>2, <1>3

\* A handler, or cont, has its reply.
LEMMA FinishStep ==
  ASSUME OrderInv, proc = "running", gdb \in {"handle", "cont"},
         NEW r, Finish(r), wr' = wr
  PROVE  OrderInv'
  <1> DEFINE s == Append(out, Reply(r))
  <1>1. IsSeq(out) /\ Ordered(out) /\ wr = "open"
    BY DEF OrderInv
  <1>2. Sends(s) /\ packet' = r /\ gdb' = "unlock"
    BY <1>1, Sending DEF Finish
  <1>3. Reply(r).t = "reply"
    BY DEF Reply
  <1>4. IsSeq(s) /\ Ordered(s) /\ LastReply(s, r)
    BY <1>1, <1>3, SeqFacts, OrderedAppend, LastReplyNew
  <1>5. All(s, "ack") = All(out, "ack") /\ All(s, "reply") = All(out, "reply") + 1
    BY <1>1, <1>3, AllAppend, AllType DEF One
  <1>6. All(out, "ack") \in Nat /\ All(out, "reply") \in Nat
    BY <1>1, AllType
  <1> HIDE DEF s
  <1>7. CASE proc' # "running"
    BY <1>1, <1>2, <1>7 DEF OrderInv, Sends
  <1>8. CASE proc' = "running"
    <2>1. out' = s
      BY <1>2, <1>8 DEF Sends
    <2>2. QED
      BY <1>1, <1>2, <1>4, <1>5, <1>6, <1>8, <2>1 DEF OrderInv, Busy, Killed
  <1>9. QED
    BY <1>7, <1>8

LEMMA NextOrderInv == LifeInv /\ OrderInv /\ [Next]_vars => OrderInv'
  <1> SUFFICES ASSUME LifeInv, OrderInv, [Next]_vars
               PROVE  OrderInv'
    OBVIOUS
  <1> USE DEF coreVars, gdbVars, netVars, irqVars
  <1>1. IsSeq(out) /\ Ordered(out) /\ wr \in {"open", "shut"}
    BY DEF OrderInv
  <1>2. /\ IsSeq(WithError) /\ Ordered(WithError)
        /\ All(WithError, "ack") = All(out, "ack")
        /\ All(WithError, "reply") = All(out, "reply")
    <2>1. 1 \in 1 .. Len(out) + 1
      BY <1>1, SeqFacts
    <2>2. QED
      BY <1>1, <2>1, Sending, ErrorKeeps, ErrorCount DEF All
  <1>3. All(out, "ack") \in Nat /\ All(out, "reply") \in Nat
    BY <1>1, AllType
  <1>4. CASE proc = "running" /\ gdb = "scan" /\ Sends(WithError)
               /\ gdb' \in {"scan", "closing"} /\ packet' = packet /\ wr' = wr
    <2>1. packet' # NoReply => LastReply(WithError, packet')
      BY <1>1, <1>4, ErrorKeeps DEF OrderInv
    <2>2. QED
      BY <1>2, <1>3, <1>4, <2>1, ScanStep
  <1>5. CASE proc = "running" /\ ScanPlus
    BY <1>1, <1>4, <1>5, Sending DEF ScanPlus, Scan
  <1>6. CASE proc = "running" /\ ScanEof
    BY <1>1, <1>4, <1>6, Sending DEF ScanEof
  <1>7. CASE proc = "running" /\ ScanMinus
    <2>1. /\ gdb = "scan" /\ gdb' = gdb /\ packet' = packet /\ wr' = wr
          /\ Send(handle_error \o
                    IF packet = NoReply THEN << >> ELSE <<Again(packet)>>)
      BY <1>7 DEF ScanMinus, Scan
    <2>2. CASE packet = NoReply
      BY <1>1, <1>4, <1>7, <2>1, <2>2, Sending
    <2>3. CASE packet # NoReply
      <3> DEFINE s == Append(WithError, Again(packet))
      <3>1. Sends(s)
        BY <1>1, <2>1, <2>3, Sending
      <3>2. LastReply(WithError, packet)
        BY <1>1, <1>7, <2>3, ErrorKeeps DEF OrderInv
      <3>3. Again(packet).t = "again"
        BY DEF Again
      <3>4. IsSeq(s) /\ Ordered(s) /\ LastReply(s, packet)
        BY <1>2, <3>2, <3>3, SeqFacts, OrderedAgain, LastReplyKept
      <3>5. All(s, "ack") = All(out, "ack") /\ All(s, "reply") = All(out, "reply")
        BY <1>2, <1>3, <3>3, AllAppend DEF One
      <3> HIDE DEF s
      <3>6. QED
        BY <1>3, <1>7, <2>1, <3>1, <3>4, <3>5, ScanStep
    <2>4. QED
      BY <2>2, <2>3
  <1>8. CASE proc = "running" /\ ScanOther
    <2>1. /\ gdb = "scan" /\ gdb' = gdb /\ packet' = packet /\ wr' = wr
          /\ Send(handle_error) \/ Send(<< >>)
      BY <1>8 DEF ScanOther, Scan
    <2>2. CASE Send(handle_error)
      BY <1>1, <1>4, <1>8, <2>1, <2>2, Sending
    <2>3. CASE Send(<< >>)
      <3>1. Sends(out)
        BY <1>1, <2>3, Sending
      <3>2. QED
        BY <1>1, <1>8, <2>1, <3>1, SilentStep DEF Sends, OrderInv
    <2>4. QED
      BY <2>1, <2>2, <2>3
  <1>9. CASE proc = "running" /\ ScanBadPacket
    <2> DEFINE s == Append(WithError, Nak)
    <2>1. /\ gdb = "scan" /\ gdb' = gdb /\ packet' = packet /\ wr' = wr
          /\ Sends(s)
      BY <1>1, <1>9, Sending DEF ScanBadPacket, Scan
    <2>2. Nak.t = "nak"
      BY DEF Nak
    <2>3. IsSeq(s) /\ Ordered(s) /\ \A r : LastReply(out, r) => LastReply(s, r)
      BY <1>1, <1>2, <2>2, SeqFacts, OrderedAppend, LastReplyKept, ErrorKeeps
    <2>4. All(s, "ack") = All(out, "ack") /\ All(s, "reply") = All(out, "reply")
      BY <1>2, <1>3, <2>2, AllAppend DEF One
    <2> HIDE DEF s
    <2>5. packet' # NoReply => LastReply(s, packet')
      BY <1>9, <2>1, <2>3 DEF OrderInv
    <2>6. QED
      BY <1>3, <1>9, <2>1, <2>3, <2>4, <2>5, ScanStep
  <1>10. CASE proc = "running" /\ ScanPacket
    <2> DEFINE s == Append(WithError, Ack)
    <2>1. /\ gdb = "scan" /\ gdb' = "lock" /\ packet' = packet /\ wr' = wr
          /\ Sends(s) /\ (wr # "open" => proc' = "killed")
      BY <1>1, <1>10, Sending DEF ScanPacket, Scan
    <2>2. Ack.t = "ack"
      BY DEF Ack
    <2>3. IsSeq(s) /\ Ordered(s) /\ \A r : LastReply(out, r) => LastReply(s, r)
      BY <1>1, <1>2, <2>2, SeqFacts, OrderedAppend, LastReplyKept, ErrorKeeps
    <2>4. /\ All(s, "ack") = All(out, "ack") + 1
          /\ All(s, "reply") = All(out, "reply") + 0
      BY <1>2, <1>3, <2>2, AllAppend DEF One
    <2> HIDE DEF s
    <2>5. packet' # NoReply => LastReply(s, packet')
      BY <1>10, <2>1, <2>3 DEF OrderInv
    <2>6. proc' = "running" => wr = "open"
      BY <2>1
    <2>7. QED
      BY <1>10, <2>1, <2>3, <2>4, <2>5, <2>6, ScanStep
  <1>11. CASE proc = "running" /\ ScanUnsupported
    <2> DEFINE s1 == Append(WithError, Ack)
               s == Append(s1, Reply(EmptyText))
    <2>1. /\ gdb = "scan" /\ gdb' = gdb /\ packet' = EmptyText /\ wr' = wr
          /\ Sends(s) /\ (wr # "open" => proc' = "killed")
      BY <1>1, <1>11, Sending DEF ScanUnsupported, Scan
    <2>2. Ack.t = "ack" /\ Reply(EmptyText).t = "reply"
      BY DEF Ack, Reply
    <2>3. IsSeq(s1) /\ Ordered(s1)
      BY <1>2, <2>2, SeqFacts, OrderedAppend
    <2>4. /\ All(s1, "ack") = All(out, "ack") + 1
          /\ All(s1, "reply") = All(out, "reply")
      BY <1>2, <1>3, <2>2, AllAppend DEF One
    <2> HIDE DEF s1
    <2>5. IsSeq(s) /\ Ordered(s) /\ LastReply(s, EmptyText)
      BY <2>2, <2>3, SeqFacts, OrderedAppend, LastReplyNew
    <2>6. /\ All(s, "ack") = All(out, "ack") + 1
          /\ All(s, "reply") = All(out, "reply") + 1
      BY <1>3, <2>2, <2>3, <2>4, AllAppend DEF One
    <2> HIDE DEF s
    <2>7. proc' = "running" => wr = "open"
      BY <2>1
    <2>8. QED
      BY <1>11, <2>1, <2>5, <2>6, <2>7, ScanStep
  <1>12. CASE proc = "running" /\ GdbHandle
    <2>1. PICK o \in Handle(arm, exc, pkt) :
            \/ Finish(o.reply) /\ wr' = wr
            \/ wr' = "shut" /\ gdb' = "unlock" /\ out' = out /\ proc' = proc
                 /\ packet' = packet
            \/ proc' # "running" /\ out' = out /\ wr' = wr
      BY <1>12 DEF GdbHandle
    <2>2. gdb = "handle"
      BY <1>12 DEF GdbHandle
    <2>3. CASE Finish(o.reply) /\ wr' = wr
      BY <1>12, <2>2, <2>3, FinishStep
    <2>4. CASE wr' = "shut" /\ gdb' = "unlock" /\ out' = out /\ proc' = proc
                 /\ packet' = packet
      BY <1>3, <1>12, <2>2, <2>4 DEF OrderInv, Busy, Killed
    <2>5. CASE proc' # "running" /\ out' = out /\ wr' = wr
      BY <2>5 DEF OrderInv
    <2>6. QED
      BY <2>1, <2>3, <2>4, <2>5
  <1>13. CASE proc = "running" /\ ContStop
    BY <1>13, FinishStep DEF ContStop
  <1>14. CASE proc = "running" /\
              (GdbLock \/ ContStep \/ GdbUnlock \/ GdbClose)
    BY <1>1, <1>14, SilentStep DEF GdbLock, ContStep, GdbUnlock, GdbClose
  <1>15. CASE proc = "running" /\
              (MainNext \/ CreateServerFails \/ GdbAccept \/ ClientCloses
                 \/ ScanReadError)
    BY <1>1, <1>15, SilentStep
    DEF MainNext, MainCreateGdb, MainCreateIrq, MainJoin, MainDestroyArm,
        MainDestroyMemory, MainReturn, CreateServerFails, GdbAccept,
        ClientCloses, ScanReadError, LifeInv
  <1>16. CASE proc = "running" /\
              (IrqAccept \/ IrqRead \/ IrqEof \/ IrqReadError \/ IrqWork)
    BY <1>1, <1>16, SilentStep
    DEF IrqAccept, IrqRead, IrqEof, IrqReadError, IrqWork, IrqLock,
        IrqException, IrqUnlock
  <1>17. CASE UNCHANGED vars
    BY <1>17 DEF vars, OrderInv, Busy, Killed
  <1>18. QED
    BY <1>5, <1>6, <1>7, <1>8, <1>9, <1>10, <1>11, <1>12, <1>13, <1>14, <1>15,
       <1>16, <1>17 DEF Next, ScanNext, GdbWork

LEMMA OrderInvHolds == Spec => []OrderInv
  <1>1. IInv => LifeInv
    BY DEF IInv
  <1>2. QED
    BY <1>1, InitIInv, NextIInv, InitOrderInv, NextOrderInv, PTL DEF Spec

\* Whatever the client sends: every packet the scanner acknowledges gets
\* exactly one reply before the next is acknowledged, and a kill none.
THEOREM RepliesOnce == Spec => []OneReplyPerPacket
  <1>1. OrderInv => OneReplyPerPacket
    <2> SUFFICES ASSUME OrderInv PROVE OneReplyPerPacket
      OBVIOUS
    <2>1. Sent("ack") = All(out, "ack") /\ Sent("reply") = All(out, "reply")
      BY SentIsAll DEF OrderInv
    <2>2. QED
      BY <2>1 DEF OrderInv, OneReplyPerPacket, Busy, Killed
  <1>2. QED
    BY <1>1, OrderInvHolds, PTL

\* gdb_transmit_packet sends what was last sent as a reply, or nothing.
THEOREM RetransmissionsAreLast == Spec => []RetransmitsLastReply
  <1>1. OrderInv => RetransmitsLastReply
    BY OrderedIs DEF OrderInv
  <1>2. QED
    BY <1>1, OrderInvHolds, PTL
=============================================================================

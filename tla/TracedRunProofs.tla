-------------------------- MODULE TracedRunProofs ---------------------------
(***************************************************************************)
(* The tracer in the process: no interleaving of the threads and no        *)
(* combination of options leaves the trace off or a location on its stack, *)
(* prints before there is a file, or asks the debug table too early; the   *)
(* trace is what the processor did, marked as it accessed the memory.      *)
(***************************************************************************)
EXTENDS TracedRun, TLAPS

\* A sequence of anything.
IsSeq(s) == \E S : s \in Seq(S)

LEMMA SeqFacts ==
  ASSUME NEW s, IsSeq(s)
  PROVE  /\ Len(s) \in Nat /\ DOMAIN s = 1 .. Len(s)
         /\ s # << >> => /\ IsSeq(Tail(s)) /\ Len(s) >= 1 /\ Head(s) = s[1]
                         /\ Len(Tail(s)) = Len(s) - 1
                         /\ \A k \in 1 .. Len(s) - 1 : Tail(s)[k] = s[k + 1]
  <1>1. PICK S : s \in Seq(S)
    BY DEF IsSeq
  <1>2. Len(s) \in Nat /\ DOMAIN s = 1 .. Len(s)
    BY <1>1
  <1>3. ASSUME s # << >>
        PROVE  /\ IsSeq(Tail(s)) /\ Len(s) >= 1 /\ Head(s) = s[1]
               /\ Len(Tail(s)) = Len(s) - 1
               /\ \A k \in 1 .. Len(s) - 1 : Tail(s)[k] = s[k + 1]
    <2>1. Tail(s) \in Seq(S) /\ Len(s) >= 1
      BY <1>1, <1>3
    <2>2. QED
      BY <1>1, <1>3, <2>1 DEF IsSeq
  <1>4. QED
    BY <1>2, <1>3

LEMMA ConcatFacts ==
  ASSUME NEW s, NEW t, IsSeq(s), IsSeq(t)
  PROVE  /\ IsSeq(s \o t) /\ Len(s \o t) = Len(s) + Len(t)
         /\ \A k \in 1 .. Len(s) : (s \o t)[k] = s[k]
         /\ \A k \in 1 .. Len(t) : (s \o t)[Len(s) + k] = t[k]
  <1>1. PICK S : s \in Seq(S)
    BY DEF IsSeq
  <1>2. PICK T : t \in Seq(T)
    BY DEF IsSeq
  <1>3. s \in Seq(S \union T) /\ t \in Seq(S \union T)
    BY <1>1, <1>2
  <1>4. s \o t \in Seq(S \union T)
    BY <1>3
  <1>5. QED
    BY <1>3, <1>4 DEF IsSeq

\* A function over the first numbers is a sequence.
LEMMA MadeSeq ==
  ASSUME NEW n \in Nat, NEW s, s = [k \in 1 .. n |-> s[k]]
  PROVE  IsSeq(s) /\ Len(s) = n
  <1>1. s \in Seq({s[k] : k \in 1 .. n})
    OBVIOUS
  <1>2. Len(s) = n
    <2>1. DOMAIN s = 1 .. Len(s) /\ Len(s) \in Nat
      BY <1>1
    <2>2. DOMAIN s = 1 .. n
      OBVIOUS
    <2>3. QED
      BY <2>1, <2>2
  <1>3. QED
    BY <1>1, <1>2, Zenon DEF IsSeq

-----------------------------------------------------------------------------
(* Joining sequences                                                       *)

LEMMA EmptySeqFacts == IsSeq(<< >>) /\ Len(<< >>) = 0
  <1>1. << >> \in Seq({})
    OBVIOUS
  <1>2. QED
    BY <1>1 DEF IsSeq

\* A sequence is its length and its elements.
LEMMA SameSeq ==
  ASSUME NEW s, NEW t, IsSeq(s), IsSeq(t), Len(s) = Len(t),
         \A k \in 1 .. Len(s) : s[k] = t[k]
  PROVE  s = t
  <1>1. PICK S : s \in Seq(S)
    BY DEF IsSeq
  <1>2. PICK T : t \in Seq(T)
    BY DEF IsSeq
  <1>3. /\ DOMAIN s = 1 .. Len(s) /\ DOMAIN t = 1 .. Len(s)
        /\ s = [k \in DOMAIN s |-> s[k]] /\ t = [k \in DOMAIN t |-> t[k]]
    BY <1>1, <1>2
  <1>4. QED
    BY <1>3

LEMMA ConcatEmpty ==
  ASSUME NEW s, IsSeq(s)
  PROVE  << >> \o s = s /\ s \o << >> = s
  <1>1. PICK S : s \in Seq(S)
    BY DEF IsSeq
  <1>2. QED
    BY <1>1

LEMMA ConcatAssoc ==
  ASSUME NEW s, NEW t, NEW u, IsSeq(s), IsSeq(t), IsSeq(u)
  PROVE  (s \o t) \o u = s \o (t \o u)
  <1> DEFINE st == s \o t
             tu == t \o u
             left == st \o u
             right == s \o tu
             a == Len(s)
             b == Len(t)
             c == Len(u)
  <1>1. a \in Nat /\ b \in Nat /\ c \in Nat
    BY SeqFacts
  <1>2. /\ IsSeq(st) /\ Len(st) = a + b
        /\ \A k \in 1 .. a : st[k] = s[k]
        /\ \A k \in 1 .. b : st[a + k] = t[k]
    BY ConcatFacts
  <1>3. /\ IsSeq(tu) /\ Len(tu) = b + c
        /\ \A k \in 1 .. b : tu[k] = t[k]
        /\ \A k \in 1 .. c : tu[b + k] = u[k]
    BY ConcatFacts
  <1> HIDE DEF st, tu
  <1>4. /\ IsSeq(left) /\ Len(left) = Len(st) + c
        /\ \A k \in 1 .. Len(st) : left[k] = st[k]
        /\ \A k \in 1 .. c : left[Len(st) + k] = u[k]
    <2>1. IsSeq(st) /\ IsSeq(u)
      BY <1>2
    <2>2. QED
      BY <2>1, ConcatFacts
  <1>5. /\ IsSeq(right) /\ Len(right) = a + Len(tu)
        /\ \A k \in 1 .. a : right[k] = s[k]
        /\ \A k \in 1 .. Len(tu) : right[a + k] = tu[k]
    BY <1>3, ConcatFacts
  <1> HIDE DEF left, right, a, b, c
  <1>6. ASSUME NEW k \in 1 .. a + b + c
        PROVE  left[k] = right[k]
    <2>1. CASE k <= a
      BY <1>1, <1>2, <1>4, <1>5, <2>1
    <2>2. CASE a < k /\ k <= a + b
      <3>1. PICK j \in 1 .. b : k = a + j
        <4>1. k - a \in 1 .. b /\ k = a + (k - a)
          BY <1>1, <2>2
        <4>2. QED
          BY <4>1
      <3>2. left[k] = t[j]
        BY <1>1, <1>2, <1>4, <3>1
      <3>3. j \in 1 .. Len(tu)
        BY <1>1, <1>3, <3>1
      <3>4. right[k] = t[j]
        BY <1>3, <1>5, <3>1, <3>3
      <3>5. QED
        BY <3>2, <3>4
    <2>3. CASE k > a + b
      <3>1. PICK j \in 1 .. c : k = a + b + j
        <4>1. k - (a + b) \in 1 .. c /\ k = a + b + (k - (a + b))
          BY <1>1, <2>3
        <4>2. QED
          BY <4>1
      <3>2. left[k] = u[j]
        BY <1>1, <1>2, <1>4, <3>1
      <3>3. b + j \in 1 .. Len(tu) /\ k = a + (b + j)
        BY <1>1, <1>3, <3>1
      <3>4. right[k] = u[j]
        BY <1>3, <1>5, <3>1, <3>3
      <3>5. QED
        BY <3>2, <3>4
    <2>4. QED
      BY <1>1, <2>1, <2>2, <2>3
  <1>7. Len(left) = a + b + c /\ Len(right) = a + b + c
    BY <1>1, <1>2, <1>3, <1>4, <1>5
  <1>8. left = right
    BY <1>4, <1>5, <1>6, <1>7, SameSeq
  <1>9. QED
    BY <1>8 DEF left, right, st, tu

-----------------------------------------------------------------------------
(* The places a piece of work goes through, and what it traces             *)

\* Where the tracer is: off, at the bottom of its location stack, or with
\* the stack's top at a level of at least -1 and the trace on.  No location
\* is open deeper than two; a place names those that are.
Off == -2
Level == Off .. 1
Ground == [level |-> -1, outer |-> NoSite, inner |-> NoSite]
At(t, x) == /\ x.level \in Level
            /\ x.level = Off => ~t.enabled /\ t.top = -1
            /\ x.level # Off => t.enabled /\ t.top = x.level
            /\ x.level >= 0 => t.sites[0] = x.outer
            /\ x.level = 1 => t.sites[1] = x.inner

\* The steps a thread may take at a place, and the place they lead to.
Move(x, c, y) ==
  \/ /\ c.op = "start" /\ y.level = (IF x.level = Off THEN Off ELSE x.level + 1)
     /\ x.level = -1 => y.outer = c.site
     /\ x.level = 0 => y.outer = x.outer /\ y.inner = c.site
  \/ /\ c.op = "end" /\ x.level # -1
     /\ y.level = (IF x.level = Off THEN Off ELSE x.level - 1)
     /\ x.level = 1 => y.outer = x.outer
  \/ c.op = "disable" /\ x.level \in {Off, -1} /\ y.level = Off
  \/ c.op = "enable" /\ x.level \in {Off, -1} /\ y.level = -1
  \/ c.op = "access" /\ c.access.what \in {"memory", "register"} /\ y = x
  \/ c.op = "state" /\ x.level \in {Off, -1} /\ y = x

\* The line of an access, and the lines of a state dump, under some flags.
LineOf(flags, site, a) ==
  IF \/ a.what = "memory" /\ MEMORY \in flags
     \/ a.what = "register" /\ REGISTERS \in flags
  THEN <<[access |-> a, site |-> IF POSITION \in flags THEN site ELSE NoSite]>>
  ELSE << >>
DumpLines(flags) ==
  IF {CORE_STATE, REGISTERS} \subseteq flags
  THEN [k \in DOMAIN arm_print_state |->
          [access |-> arm_print_state[k].access, site |-> NoSite]]
  ELSE << >>

\* What a step traces at a place.
Spot(x) == IF x.level = 0 THEN x.outer ELSE IF x.level = 1 THEN x.inner ELSE NoSite
Emits(flags, x, c) ==
  IF x.level = Off THEN << >>
  ELSE IF c.op = "access" THEN LineOf(flags, Spot(x), c.access)
  ELSE IF c.op = "state" THEN DumpLines(flags)
  ELSE << >>

\* Some work leads from place x to place y and traces r: f gives the place
\* before each of its steps and after the last one, g what is still to come.
Leads(flags, f, g, s, x, y, r) ==
  /\ f[1] = x /\ f[Len(s) + 1] = y
  /\ g[1] = r /\ g[Len(s) + 1] = << >>
  /\ \A k \in 1 .. Len(s) + 1 : f[k].level \in Level /\ IsSeq(g[k])
  /\ \A k \in 1 .. Len(s) : /\ Move(f[k], s[k], f[k + 1])
                            /\ g[k] = Emits(flags, f[k], s[k]) \o g[k + 1]
Plan(flags, s, x, y, r) ==
  IsSeq(s) /\ IsSeq(r) /\ \E f, g : Leads(flags, f, g, s, x, y, r)

LEMMA OneSeq ==
  ASSUME NEW x
  PROVE  IsSeq(<<x>>) /\ Len(<<x>>) = 1 /\ <<x>>[1] = x
  <1>1. <<x>> \in Seq({x})
    OBVIOUS
  <1>2. QED
    BY <1>1 DEF IsSeq

\* A state dump reads registers, one step each.
DumpSize == Registers * NamedModes + 1

LEMMA DumpFacts ==
  /\ DumpSize \in Nat /\ IsSeq(arm_print_state) /\ Len(arm_print_state) = DumpSize
  /\ \A k \in 1 .. DumpSize : /\ arm_print_state[k].op = "access"
                             /\ arm_print_state[k].access.what = "register"
  <1> DEFINE s == [k \in 1 .. DumpSize |->
                     CASE k <= Registers     -> Read(k - 1)
                       [] k = Registers + 1  -> Read(CPSR)
                       [] OTHER              -> Read((k - 2) % Registers)]
             t == Accesses(s)
  <1>1. DumpSize \in Nat
    BY RunAssumption DEF DumpSize
  <1>2. \A k \in 1 .. DumpSize : s[k].what = "register"
    BY <1>1, RunAssumption DEF Read
  <1>3. s = [k \in 1 .. DumpSize |-> s[k]]
    OBVIOUS
  <1>4. arm_print_state = t
    BY Zenon DEF arm_print_state, DumpSize
  <1> HIDE DEF s
  <1>5. Len(s) = DumpSize
    BY <1>1, <1>3, MadeSeq
  <1>6. /\ t = [k \in 1 .. DumpSize |-> t[k]]
        /\ \A k \in 1 .. DumpSize : t[k] = Access(s[k])
    BY <1>5 DEF Accesses
  <1> HIDE DEF t
  <1>7. IsSeq(t) /\ Len(t) = DumpSize
    BY <1>1, <1>6, MadeSeq
  <1>8. QED
    BY <1>1, <1>2, <1>4, <1>6, <1>7 DEF Access

LEMMA LineSeq ==
  ASSUME NEW flags, NEW site, NEW a
  PROVE  IsSeq(LineOf(flags, site, a))
  BY OneSeq, EmptySeqFacts DEF LineOf

LEMMA DumpLinesSeq ==
  ASSUME NEW flags
  PROVE  IsSeq(DumpLines(flags))
  <1> DEFINE d == [k \in DOMAIN arm_print_state |->
                     [access |-> arm_print_state[k].access, site |-> NoSite]]
  <1>1. DOMAIN arm_print_state = 1 .. DumpSize
    BY DumpFacts, SeqFacts
  <1>2. d = [k \in 1 .. DumpSize |-> d[k]]
    BY <1>1
  <1>3. IsSeq(d)
    <2> HIDE DEF d
    <2>1. QED
      BY <1>2, DumpFacts, MadeSeq
  <1>4. QED
    BY <1>3, EmptySeqFacts DEF DumpLines

LEMMA EmitsSeq ==
  ASSUME NEW flags, NEW x, NEW c
  PROVE  IsSeq(Emits(flags, x, c))
  BY LineSeq, DumpLinesSeq, EmptySeqFacts DEF Emits

LEMMA PlanConcat ==
  ASSUME NEW flags, NEW s, NEW t, NEW x, NEW y, NEW z, NEW r, NEW q,
         Plan(flags, s, x, y, r), Plan(flags, t, y, z, q)
  PROVE  Plan(flags, s \o t, x, z, r \o q)
  <1>1. PICK f, g : Leads(flags, f, g, s, x, y, r)
    BY DEF Plan
  <1>2. PICK d, e : Leads(flags, d, e, t, y, z, q)
    BY DEF Plan
  <1> DEFINE a == Len(s)
             b == Len(t)
             u == s \o t
             h == [k \in 1 .. a + b + 1 |-> IF k <= a + 1 THEN f[k] ELSE d[k - a]]
             i == [k \in 1 .. a + b + 1 |-> IF k <= a + 1 THEN g[k] \o q ELSE e[k - a]]
  <1>3. /\ IsSeq(u) /\ Len(u) = a + b /\ a \in Nat /\ b \in Nat
        /\ \A k \in 1 .. a : u[k] = s[k]
        /\ \A k \in 1 .. b : u[a + k] = t[k]
    BY ConcatFacts, SeqFacts DEF Plan
  <1>4. /\ f[1] = x /\ f[a + 1] = y /\ d[1] = y /\ d[b + 1] = z
        /\ g[1] = r /\ g[a + 1] = << >> /\ e[1] = q /\ e[b + 1] = << >>
    BY <1>1, <1>2 DEF Leads
  <1>5. /\ \A k \in 1 .. a + 1 : f[k].level \in Level /\ IsSeq(g[k])
        /\ \A k \in 1 .. b + 1 : d[k].level \in Level /\ IsSeq(e[k])
        /\ \A k \in 1 .. a : /\ Move(f[k], s[k], f[k + 1])
                             /\ g[k] = Emits(flags, f[k], s[k]) \o g[k + 1]
        /\ \A k \in 1 .. b : /\ Move(d[k], t[k], d[k + 1])
                             /\ e[k] = Emits(flags, d[k], t[k]) \o e[k + 1]
    BY <1>1, <1>2 DEF Leads
  <1>6. /\ IsSeq(r) /\ IsSeq(q) /\ IsSeq(r \o q) /\ << >> \o q = q
        /\ q = << >> => q \o << >> = << >>
    BY ConcatFacts, ConcatEmpty DEF Plan
  <1> HIDE DEF a, b, u
  \* Seen from the second piece of work: place and lines after its step j.
  <1>7. ASSUME NEW j \in 1 .. b + 1
        PROVE  h[a + j] = d[j] /\ i[a + j] = e[j]
    <2>1. a + j \in 1 .. a + b + 1
      BY <1>3
    <2>2. CASE j = 1
      <3>1. a + j = a + 1 /\ a + 1 <= a + 1
        BY <1>3, <2>2
      <3>2. h[a + j] = f[a + 1] /\ i[a + j] = g[a + 1] \o q
        BY <2>1, <3>1
      <3> HIDE DEF h, i
      <3>3. QED
        BY <1>4, <1>6, <2>2, <3>2, Zenon
    <2>3. CASE j # 1
      <3>1. ~(a + j <= a + 1) /\ (a + j) - a = j
        BY <1>3, <2>3
      <3>2. QED
        BY <2>1, <3>1
    <2>4. QED
      BY <2>2, <2>3
  <1>8. ASSUME NEW k \in 1 .. a + 1
        PROVE  h[k] = f[k] /\ i[k] = g[k] \o q
    BY <1>3
  <1> HIDE DEF h, i
  <1>9. h[1] = x /\ h[a + b + 1] = z /\ i[1] = r \o q /\ i[a + b + 1] = << >>
    <2>1. 1 \in 1 .. a + 1 /\ b + 1 \in 1 .. b + 1 /\ a + (b + 1) = a + b + 1
      BY <1>3
    <2>2. h[1] = f[1] /\ i[1] = g[1] \o q
      BY <1>8, <2>1
    <2>3. h[a + b + 1] = d[b + 1] /\ i[a + b + 1] = e[b + 1]
      BY <1>7, <2>1
    <2>4. QED
      BY <1>4, <2>2, <2>3, Zenon
  <1>10. ASSUME NEW k \in 1 .. a + b + 1
         PROVE  h[k].level \in Level /\ IsSeq(i[k])
    <2>1. CASE k <= a + 1
      <3>1. k \in 1 .. a + 1
        BY <1>3, <2>1
      <3>2. h[k] = f[k] /\ i[k] = g[k] \o q /\ f[k].level \in Level /\ IsSeq(g[k])
        BY <1>5, <1>8, <3>1
      <3>3. IsSeq(g[k] \o q)
        BY <1>6, <3>2, ConcatFacts
      <3>4. QED
        BY <3>2, <3>3
    <2>2. CASE k > a + 1
      <3>1. k - a \in 1 .. b + 1 /\ k = a + (k - a)
        BY <1>3, <2>2
      <3>2. PICK j \in 1 .. b + 1 : k = a + j
        BY <3>1
      <3>3. QED
        BY <1>5, <1>7, <3>2
    <2>3. QED
      BY <1>3, <2>1, <2>2
  <1>11. ASSUME NEW k \in 1 .. a + b
         PROVE  /\ Move(h[k], u[k], h[k + 1])
                /\ i[k] = Emits(flags, h[k], u[k]) \o i[k + 1]
    <2>1. CASE k <= a
      <3>1. k \in 1 .. a /\ k \in 1 .. a + 1 /\ k + 1 \in 1 .. a + 1
        BY <1>3, <2>1
      <3>2. /\ h[k] = f[k] /\ h[k + 1] = f[k + 1] /\ u[k] = s[k]
            /\ i[k] = g[k] \o q /\ i[k + 1] = g[k + 1] \o q
        BY <1>3, <1>8, <3>1
      <3>3. /\ Move(f[k], s[k], f[k + 1])
            /\ g[k] = Emits(flags, f[k], s[k]) \o g[k + 1] /\ IsSeq(g[k + 1])
        BY <1>5, <3>1
      <3>4. IsSeq(Emits(flags, f[k], s[k]))
        BY EmitsSeq
      <3>5. (Emits(flags, f[k], s[k]) \o g[k + 1]) \o q
              = Emits(flags, f[k], s[k]) \o (g[k + 1] \o q)
        <4> DEFINE v == Emits(flags, f[k], s[k])
                   w == g[k + 1]
        <4>1. IsSeq(v) /\ IsSeq(w) /\ IsSeq(q)
          BY <1>6, <3>3, <3>4
        <4> HIDE DEF v, w
        <4>2. (v \o w) \o q = v \o (w \o q)
          BY <4>1, ConcatAssoc
        <4>3. QED
          BY <4>2 DEF v, w
      <3>6. QED
        BY <3>2, <3>3, <3>5
    <2>2. CASE k > a
      <3>1. k - a \in 1 .. b /\ k = a + (k - a)
        BY <1>3, <2>2
      <3>2. PICK j \in 1 .. b : k = a + j
        BY <3>1
      <3>3. j \in 1 .. b + 1 /\ j + 1 \in 1 .. b + 1 /\ k + 1 = a + (j + 1)
        BY <1>3, <3>2
      <3>4. /\ h[k] = d[j] /\ h[k + 1] = d[j + 1] /\ u[k] = t[j]
            /\ i[k] = e[j] /\ i[k + 1] = e[j + 1]
        BY <1>3, <1>7, <3>2, <3>3
      <3>5. QED
        BY <1>5, <3>4
    <2>3. k <= a \/ k > a
      BY <1>3
    <2>4. QED
      BY <2>1, <2>2, <2>3, Zenon
  <1>12. Leads(flags, h, i, u, x, z, r \o q)
    BY <1>3, <1>9, <1>10, <1>11 DEF Leads
  <1>13. QED
    BY <1>3, <1>6, <1>12 DEF Plan, u

\* The first step of a plan, and what is left.
LEMMA PlanTail ==
  ASSUME NEW flags, NEW s, NEW x, NEW z, NEW r, Plan(flags, s, x, z, r), s # << >>
  PROVE  \E y, q : /\ y.level \in Level /\ Move(x, Head(s), y) /\ IsSeq(q)
                   /\ r = Emits(flags, x, Head(s)) \o q
                   /\ Plan(flags, Tail(s), y, z, q)
  <1>1. PICK f, g : Leads(flags, f, g, s, x, z, r)
    BY DEF Plan
  <1> DEFINE a == Len(s)
             t == Tail(s)
             h == [k \in 1 .. a |-> f[k + 1]]
             i == [k \in 1 .. a |-> g[k + 1]]
  <1>2. /\ a \in Nat /\ a >= 1 /\ Head(s) = s[1] /\ IsSeq(t) /\ Len(t) = a - 1
        /\ \A k \in 1 .. a - 1 : t[k] = s[k + 1]
    BY SeqFacts DEF Plan
  <1>3. /\ f[1] = x /\ f[a + 1] = z /\ g[1] = r /\ g[a + 1] = << >>
        /\ \A k \in 1 .. a + 1 : f[k].level \in Level /\ IsSeq(g[k])
        /\ \A k \in 1 .. a : /\ Move(f[k], s[k], f[k + 1])
                             /\ g[k] = Emits(flags, f[k], s[k]) \o g[k + 1]
    BY <1>1 DEF Leads
  <1> HIDE DEF a, t
  <1>4. 2 \in 1 .. a + 1 /\ 1 \in 1 .. a /\ 1 + 1 = 2
    BY <1>2
  <1>5. /\ f[2].level \in Level /\ IsSeq(g[2]) /\ Move(x, Head(s), f[2])
        /\ r = Emits(flags, x, Head(s)) \o g[2]
    BY <1>2, <1>3, <1>4
  <1>6. \A k \in 1 .. a : h[k] = f[k + 1] /\ i[k] = g[k + 1]
    OBVIOUS
  <1> HIDE DEF h, i
  <1>7. Leads(flags, h, i, t, f[2], z, g[2])
    <2>1. h[1] = f[2] /\ h[a] = z /\ i[1] = g[2] /\ i[a] = << >>
      BY <1>2, <1>3, <1>4, <1>6
    <2>2. \A k \in 1 .. a : h[k].level \in Level /\ IsSeq(i[k])
      BY <1>2, <1>3, <1>6
    <2>3. ASSUME NEW k \in 1 .. a - 1
          PROVE  Move(h[k], t[k], h[k + 1]) /\ i[k] = Emits(flags, h[k], t[k]) \o i[k + 1]
      <3>1. k \in 1 .. a /\ k + 1 \in 1 .. a
        BY <1>2
      <3>2. /\ h[k] = f[k + 1] /\ h[k + 1] = f[(k + 1) + 1] /\ t[k] = s[k + 1]
            /\ i[k] = g[k + 1] /\ i[k + 1] = g[(k + 1) + 1]
        BY <1>2, <1>6, <3>1
      <3>3. QED
        BY <1>3, <3>1, <3>2
    <2>4. (a - 1) + 1 = a
      BY <1>2
    <2>5. QED
      BY <1>2, <2>1, <2>2, <2>3, <2>4 DEF Leads
  <1>8. Plan(flags, t, f[2], z, g[2])
    BY <1>2, <1>5, <1>7 DEF Plan
  <1>9. QED
    BY <1>5, <1>8 DEF t

LEMMA PlanOne ==
  ASSUME NEW flags, NEW c, NEW x, NEW y, x.level \in Level, y.level \in Level,
         Move(x, c, y)
  PROVE  Plan(flags, <<c>>, x, y, Emits(flags, x, c))
  <1> DEFINE r == Emits(flags, x, c)
             f == [k \in 1 .. 2 |-> IF k = 1 THEN x ELSE y]
             g == [k \in 1 .. 2 |-> IF k = 1 THEN r ELSE << >>]
  <1>1. f[1] = x /\ f[2] = y /\ g[1] = r /\ g[2] = << >>
    OBVIOUS
  <1>2. IsSeq(r) /\ r \o << >> = r
    BY EmitsSeq, ConcatEmpty
  <1> HIDE DEF f, g
  <1>3. 1 + 1 = 2 /\ 1 .. 1 = {1} /\ 1 .. 2 = {1, 2}
    OBVIOUS
  <1>4. Leads(flags, f, g, <<c>>, x, y, r)
    <2>1. \A k \in 1 .. 2 : f[k].level \in Level /\ IsSeq(g[k])
      BY <1>1, <1>2, <1>3, EmptySeqFacts
    <2>2. \A k \in 1 .. 1 : /\ Move(f[k], <<c>>[k], f[k + 1])
                            /\ g[k] = Emits(flags, f[k], <<c>>[k]) \o g[k + 1]
      BY <1>1, <1>2, <1>3, OneSeq DEF r
    <2> HIDE DEF r
    <2>3. QED
      BY <1>1, <1>3, <2>1, <2>2, OneSeq DEF Leads
  <1>5. QED
    BY <1>2, <1>4, OneSeq DEF Plan

LEMMA PlanNothing ==
  ASSUME NEW flags, NEW x, x.level \in Level
  PROVE  Plan(flags, << >>, x, x, << >>)
  <1> DEFINE f == [k \in 1 .. 1 |-> x]
             g == [k \in 1 .. 1 |-> << >>]
  <1>1. f[1] = x /\ g[1] = << >>
    OBVIOUS
  <1> HIDE DEF f, g
  <1>2. Leads(flags, f, g, << >>, x, x, << >>)
    BY <1>1, EmptySeqFacts DEF Leads
  <1>3. QED
    BY <1>2, EmptySeqFacts DEF Plan

LEMMA PlanDone ==
  ASSUME NEW flags, NEW x, NEW y, NEW r, Plan(flags, << >>, x, y, r)
  PROVE  x = y /\ r = << >>
  <1>1. PICK f, g : Leads(flags, f, g, << >>, x, y, r)
    BY DEF Plan
  <1>2. 0 + 1 = 1
    OBVIOUS
  <1>3. QED
    BY <1>1, <1>2, EmptySeqFacts DEF Leads

\* Work that traces nothing, before or after other work.
LEMMA PlanQuiet ==
  ASSUME NEW flags, NEW s, NEW t, NEW x, NEW y, NEW z, NEW r
  PROVE  /\ Plan(flags, s, x, y, << >>) /\ Plan(flags, t, y, z, r)
              => Plan(flags, s \o t, x, z, r)
         /\ Plan(flags, s, x, y, r) /\ Plan(flags, t, y, z, << >>)
              => Plan(flags, s \o t, x, z, r)
  <1>1. ASSUME Plan(flags, s, x, y, << >>), Plan(flags, t, y, z, r)
        PROVE  Plan(flags, s \o t, x, z, r)
    <2>1. Plan(flags, s \o t, x, z, << >> \o r) /\ IsSeq(r)
      BY <1>1, PlanConcat DEF Plan
    <2>2. QED
      BY <2>1, ConcatEmpty
  <1>2. ASSUME Plan(flags, s, x, y, r), Plan(flags, t, y, z, << >>)
        PROVE  Plan(flags, s \o t, x, z, r)
    <2>1. Plan(flags, s \o t, x, z, r \o << >>) /\ IsSeq(r)
      BY <1>2, PlanConcat DEF Plan
    <2>2. QED
      BY <2>1, ConcatEmpty
  <1>3. QED
    BY <1>1, <1>2

-----------------------------------------------------------------------------
(* The work of the threads, from the bottom of the stack back to it        *)

IsAccess(a) == a.what \in {"memory", "register"}

LEMMA AreAccesses ==
  \A n : IsAccess(Read(n)) /\ IsAccess(Write(n)) /\ IsAccess(Load(n)) /\ IsAccess(Store(n))
  BY DEF IsAccess, Read, Write, Load, Store

\* The place inside a macro of trace_location.h.
Inside(x, site) ==
  IF x.level = Off THEN x
  ELSE IF x.level = -1 THEN [level |-> 0, outer |-> site, inner |-> x.inner]
  ELSE [level |-> 1, outer |-> x.outer, inner |-> site]

\* A macro pops what it pushed, unless the trace is off: then it does neither.
LEMMA PlanLocated ==
  ASSUME NEW flags, NEW site, NEW arguments, NEW accesses, NEW x, NEW r, NEW q,
         x.level \in {Off, -1, 0},
         Plan(flags, arguments, Inside(x, site), Inside(x, site), r),
         Plan(flags, Accesses(accesses), Inside(x, site), Inside(x, site), q)
  PROVE  Plan(flags, Located(site, arguments, accesses), x, x, r \o q)
  <1> DEFINE y == Inside(x, site)
  <1>1. /\ x.level \in Level /\ y.level \in Level
        /\ Move(x, Start(site), y) /\ Move(y, Finish, x)
    BY DEF Inside, Level, Off, Move, Start, Finish
  <1>2. Emits(flags, x, Start(site)) = << >> /\ Emits(flags, y, Finish) = << >>
    BY DEF Emits, Start, Finish
  <1> HIDE DEF y
  <1>3. Plan(flags, <<Start(site)>>, x, y, << >>) /\ Plan(flags, <<Finish>>, y, x, << >>)
    BY <1>1, <1>2, PlanOne
  <1>4. Plan(flags, <<Start(site)>> \o arguments, x, y, r)
    BY <1>3, PlanQuiet DEF y
  <1>5. Plan(flags, <<Start(site)>> \o arguments \o Accesses(accesses), x, y, r \o q)
    BY <1>4, PlanConcat DEF y
  <1>6. Plan(flags, <<Start(site)>> \o arguments \o Accesses(accesses) \o <<Finish>>,
             x, x, r \o q)
    BY <1>3, <1>5, PlanQuiet
  <1>7. QED
    BY <1>6 DEF Located

\* An access inside a macro is traced with the macro's site, or not at all.
Seen(flags, x, site, a) == IF x.level = Off THEN << >> ELSE LineOf(flags, site, a)

LEMMA PlanAccess ==
  ASSUME NEW flags, NEW x, NEW site, NEW a, IsAccess(a), x.level \in {Off, -1, 0}
  PROVE  Plan(flags, <<Access(a)>>, Inside(x, site), Inside(x, site),
              Seen(flags, x, site, a))
  <1> DEFINE y == Inside(x, site)
             c == Access(a)
  <1>1. y.level \in Level /\ Move(y, c, y)
    BY DEF Inside, Level, Off, Move, Access, IsAccess
  <1>2. Emits(flags, y, c) = Seen(flags, x, site, a)
    <2>1. c.op = "access" /\ c.access = a
      BY DEF Access
    <2>2. IF x.level = Off THEN y.level = Off ELSE y.level # Off /\ Spot(y) = site
      BY DEF Inside, Spot, Off
    <2> HIDE DEF y, c
    <2>3. QED
      BY <2>1, <2>2 DEF Emits, Seen
  <1> HIDE DEF y, c
  <1>3. Plan(flags, <<c>>, y, y, Emits(flags, y, c))
    BY <1>1, PlanOne
  <1>4. QED
    BY <1>2, <1>3 DEF y, c

Triple(s, a, b, c) == s = <<a, b, c>>
Single(s, a) == s = <<a>>
SingleAccess(s, a) == s = <<Access(a)>>

LEMMA AccessesOf ==
  ASSUME NEW a, NEW b, NEW c, NEW s, NEW x, NEW y, NEW z,
         SingleAccess(x, a), SingleAccess(y, b), SingleAccess(z, c)
  PROVE  /\ Triple(s, a, b, c) => Accesses(s) = x \o y \o z
         /\ Single(s, a) => Accesses(s) = x
  <1>1. Len(<<a>>) = 1 /\ Len(<<a, b, c>>) = 3
    OBVIOUS
  <1>2. Accesses(<<a>>) = [k \in 1 .. 1 |-> Access(<<a>>[k])]
    BY <1>1 DEF Accesses
  <1>3. Accesses(<<a, b, c>>) = [k \in 1 .. 3 |-> Access(<<a, b, c>>[k])]
    BY <1>1 DEF Accesses
  <1>4. Accesses(<<a>>) = <<Access(a)>>
    BY <1>2
  <1>5. Accesses(<<a, b, c>>) = <<Access(a), Access(b), Access(c)>>
    BY <1>3
  <1>6. ASSUME NEW p, NEW q, NEW r
        PROVE  <<p>> \o <<q>> \o <<r>> = <<p, q, r>>
    <2> DEFINE u == <<p>> \o <<q>>
               l == <<r>>
               v == u \o l
               w == <<p, q, r>>
    <2>1. /\ IsSeq(u) /\ Len(u) = 1 + 1
          /\ \A k \in 1 .. 1 : u[k] = <<p>>[k]
          /\ \A k \in 1 .. 1 : u[1 + k] = <<q>>[k]
      BY OneSeq, ConcatFacts
    <2> HIDE DEF u
    <2>2. Len(u) = 2 /\ u[1] = p /\ u[2] = q
      BY <2>1
    <2>3. /\ IsSeq(v) /\ Len(v) = 2 + 1
          /\ \A k \in 1 .. 2 : v[k] = u[k]
          /\ \A k \in 1 .. 1 : v[2 + k] = l[k]
          /\ l[1] = r
      <3>0. IsSeq(l) /\ IsSeq(u)
        BY <2>1, OneSeq
      <3>1. Len(l) = 1 /\ l[1] = r
        BY OneSeq
      <3> HIDE DEF l
      <3>2. /\ IsSeq(v) /\ Len(v) = Len(u) + Len(l)
            /\ \A k \in 1 .. Len(u) : v[k] = u[k]
            /\ \A k \in 1 .. Len(l) : v[Len(u) + k] = l[k]
        BY <3>0, ConcatFacts
      <3> HIDE DEF v
      <3>3. QED
        BY <2>2, <3>1, <3>2
    <2> HIDE DEF l, v
    <2>4. Len(v) = 3 /\ v[1] = p /\ v[2] = q /\ v[3] = r
      BY <2>2, <2>3
    <2>5. Len(w) = 3 /\ w[1] = p /\ w[2] = q /\ w[3] = r /\ w \in Seq({p, q, r})
      OBVIOUS
    <2> HIDE DEF w
    <2>6. \A k \in 1 .. 3 : v[k] = w[k]
      BY <2>4, <2>5
    <2>7. v = w
      BY <2>3, <2>4, <2>5, <2>6, SameSeq DEF IsSeq
    <2>8. QED
      BY <2>7 DEF u, v, w, l
  <1>7. <<Access(a)>> \o <<Access(b)>> \o <<Access(c)>> = <<Access(a), Access(b), Access(c)>>
    BY <1>6
  <1>8. QED
    BY <1>4, <1>5, <1>7, Zenon DEF SingleAccess, Single, Triple

LEMMA AccessesOfOne ==
  ASSUME NEW a
  PROVE  Accesses(<<a>>) = <<Access(a)>>
  <1> DEFINE s == <<a>>
             x == <<Access(a)>>
  <1>1. Single(s, a) /\ SingleAccess(x, a)
    BY DEF Single, SingleAccess
  <1> HIDE DEF s, x
  <1>2. Accesses(s) = x
    BY <1>1, AccessesOf
  <1>3. QED
    BY <1>2, Zenon DEF s, x

\* A macro around one accessor.
LEMMA PlanCall ==
  ASSUME NEW flags, NEW site, NEW a, IsAccess(a), NEW x, x.level \in {Off, -1, 0}
  PROVE  Plan(flags, Located(site, << >>, <<a>>), x, x, Seen(flags, x, site, a))
  <1> DEFINE y == Inside(x, site)
             r == Seen(flags, x, site, a)
  <1>1. y.level \in Level
    BY DEF Inside, Level, Off
  <1>2. Plan(flags, Accesses(<<a>>), y, y, r)
    BY PlanAccess, AccessesOfOne
  <1> HIDE DEF r
  <1>3. Plan(flags, << >>, y, y, << >>)
    BY <1>1, PlanNothing
  <1> DEFINE e == << >>
             s == <<a>>
  <1>4. Plan(flags, e, y, y, e) /\ Plan(flags, Accesses(s), y, y, r)
    BY <1>2, <1>3
  <1> HIDE DEF e, s
  <1>5. Plan(flags, Located(site, e, s), x, x, e \o r)
    BY <1>4, PlanLocated
  <1>6. IsSeq(r)
    BY <1>2 DEF Plan
  <1>7. e \o r = r
    BY <1>6, ConcatEmpty DEF e
  <1>8. QED
    BY <1>5, <1>7 DEF r, e, s

Shadow == [level |-> Off, outer |-> NoSite, inner |-> NoSite]

LEMMA PlanLit ==
  ASSUME NEW flags, NEW site, NEW a, IsAccess(a), NEW x, x.level \in {-1, 0}
  PROVE  Plan(flags, Located(site, << >>, <<a>>), x, x, LineOf(flags, site, a))
  BY PlanCall DEF Seen, Off

LEMMA PlanDark ==
  ASSUME NEW flags, NEW site, NEW a, IsAccess(a)
  PROVE  Plan(flags, Located(site, << >>, <<a>>), Shadow, Shadow, << >>)
  <1>1. Shadow.level = Off
    BY DEF Shadow
  <1>2. Plan(flags, Located(site, << >>, <<a>>), Shadow, Shadow,
             Seen(flags, Shadow, site, a))
    BY <1>1, PlanCall
  <1>3. QED
    BY <1>1, <1>2 DEF Seen

\* A handler that hides its accesses turns the trace off and on again.
LEMMA PlanHidden ==
  ASSUME NEW flags, NEW steps, Plan(flags, steps, Shadow, Shadow, << >>)
  PROVE  Plan(flags, Hidden(steps), Ground, Ground, << >>)
  <1>1. Ground.level = -1 /\ Shadow.level = Off /\ -1 \in Level /\ Off \in Level
    BY DEF Ground, Shadow, Level, Off
  <1>2. Move(Ground, Disable, Shadow) /\ Emits(flags, Ground, Disable) = << >>
    BY <1>1 DEF Move, Emits, Disable
  <1>3. Move(Shadow, Enable, Ground) /\ Emits(flags, Shadow, Enable) = << >>
    BY <1>1 DEF Move, Emits, Enable
  <1>4. Plan(flags, <<Disable>>, Ground, Shadow, << >>)
    BY <1>1, <1>2, PlanOne
  <1>5. Plan(flags, <<Enable>>, Shadow, Ground, << >>)
    BY <1>1, <1>3, PlanOne
  <1>6. Plan(flags, <<Disable>> \o steps, Ground, Shadow, << >>)
    BY <1>4, PlanQuiet
  <1>7. Plan(flags, <<Disable>> \o steps \o <<Enable>>, Ground, Ground, << >>)
    BY <1>5, <1>6, PlanQuiet
  <1>8. QED
    BY <1>7 DEF Hidden

\* Locations and accesses do nothing while the trace is off.
LEMMA PlanUnseen ==
  ASSUME NEW flags, NEW s, NEW n \in Nat, IsSeq(s), Len(s) = n,
         \A k \in 1 .. n : \/ s[k].op \in {"start", "end"}
                           \/ s[k].op = "access" /\ IsAccess(s[k].access)
  PROVE  Plan(flags, s, Shadow, Shadow, << >>)
  <1> DEFINE f == [k \in 1 .. n + 1 |-> Shadow]
             g == [k \in 1 .. n + 1 |-> << >>]
  <1>1. \A k \in 1 .. n + 1 : f[k] = Shadow /\ g[k] = << >>
    OBVIOUS
  <1> HIDE DEF f, g
  <1>2. Shadow.level = Off /\ Off \in Level /\ Off # -1
    BY DEF Shadow, Level, Off
  <1>3. \A k \in 1 .. n : Move(Shadow, s[k], Shadow) /\ Emits(flags, Shadow, s[k]) = << >>
    <2> SUFFICES ASSUME NEW k \in 1 .. n
                 PROVE  /\ Move(Shadow, s[k], Shadow)
                        /\ Emits(flags, Shadow, s[k]) = << >>
      OBVIOUS
    <2>1. Emits(flags, Shadow, s[k]) = << >>
      BY <1>2 DEF Emits
    <2>2. Shadow.level # -1 /\ Shadow.level # 0 /\ Shadow.level # 1
      BY <1>2 DEF Off
    <2>3. Move(Shadow, s[k], Shadow)
      BY <1>2, <2>2, Zenon DEF Move, IsAccess
    <2>4. QED
      BY <2>1, <2>3
  <1>4. << >> \o << >> = << >>
    BY EmptySeqFacts, ConcatEmpty
  <1>5. /\ 1 \in 1 .. n + 1 /\ n + 1 \in 1 .. n + 1
        /\ \A k \in 1 .. n : k \in 1 .. n + 1 /\ k + 1 \in 1 .. n + 1
    OBVIOUS
  <1>6. ASSUME NEW k \in 1 .. n
        PROVE  /\ Move(f[k], s[k], f[k + 1])
               /\ g[k] = Emits(flags, f[k], s[k]) \o g[k + 1]
    <2>1. f[k] = Shadow /\ f[k + 1] = Shadow /\ g[k] = << >> /\ g[k + 1] = << >>
      BY <1>1, <1>5
    <2>2. QED
      BY <1>3, <1>4, <2>1, Zenon
  <1>7. \A k \in 1 .. n + 1 : f[k].level \in Level /\ IsSeq(g[k])
    BY <1>1, <1>2, EmptySeqFacts
  <1>8. Leads(flags, f, g, s, Shadow, Shadow, << >>)
    BY <1>1, <1>5, <1>6, <1>7 DEF Leads
  <1>9. QED
    BY <1>8, EmptySeqFacts DEF Plan

\* A loop of calls while the trace is off.
LEMMA PlanEach ==
  ASSUME NEW flags, NEW site, NEW s, NEW n \in Nat, s = [k \in 1 .. n |-> s[k]],
         \A k \in 1 .. n : IsAccess(s[k])
  PROVE  Plan(flags, LocatedEach(site, s), Shadow, Shadow, << >>)
  <1> DEFINE t == LocatedEach(site, s)
             m == 3 * n
  <1>1. Len(s) = n
    BY MadeSeq
  <1>2. /\ t = [k \in 1 .. m |-> t[k]]
        /\ \A k \in 1 .. m :
             /\ k % 3 = 1 => t[k] = Start(site)
             /\ k % 3 = 2 => t[k] = Access(s[(k + 1) \div 3])
             /\ ~(k % 3 = 1) /\ ~(k % 3 = 2) => t[k] = Finish
    <2> HIDE DEF m
    <2>1. t = [k \in 1 .. m |-> CASE k % 3 = 1 -> Start(site)
                                 [] k % 3 = 2 -> Access(s[(k + 1) \div 3])
                                 [] OTHER     -> Finish]
      BY <1>1 DEF LocatedEach, m
    <2>2. ASSUME NEW k \in 1 .. m
          PROVE  /\ k % 3 = 1 => t[k] = Start(site)
                 /\ k % 3 = 2 => t[k] = Access(s[(k + 1) \div 3])
                 /\ ~(k % 3 = 1) /\ ~(k % 3 = 2) => t[k] = Finish
      <3>1. ~(1 = 2)
        OBVIOUS
      <3> HIDE DEF t
      <3>2. QED
        BY <2>1, <3>1, Zenon
    <2> HIDE DEF t
    <2>3. QED
      BY <2>1, <2>2, Zenon
  <1>3. m \in Nat
    OBVIOUS
  <1>4. \A k \in 1 .. m : \/ t[k].op \in {"start", "end"}
                          \/ t[k].op = "access" /\ IsAccess(t[k].access)
    <2> SUFFICES ASSUME NEW k \in 1 .. m
                 PROVE  \/ t[k].op \in {"start", "end"}
                        \/ t[k].op = "access" /\ IsAccess(t[k].access)
      OBVIOUS
    <2> HIDE DEF t
    <2>1. /\ Start(site).op = "start" /\ Finish.op = "end"
          /\ \A a : Access(a).op = "access" /\ Access(a).access = a
      BY DEF Start, Finish, Access
    <2>2. CASE k % 3 = 1
      BY <1>2, <2>1, <2>2
    <2>3. CASE k % 3 = 2
      <3>1. (k + 1) \div 3 \in 1 .. n
        BY <2>3
      <3>2. t[k] = Access(s[(k + 1) \div 3])
        BY <1>2, <2>3
      <3>3. QED
        BY <2>1, <3>1, <3>2, Zenon
    <2>4. CASE ~(k % 3 = 1) /\ ~(k % 3 = 2)
      BY <1>2, <2>1, <2>4
    <2>5. QED
      BY <2>2, <2>3, <2>4, Zenon
  <1> HIDE DEF t, m
  <1>5. IsSeq(t) /\ Len(t) = m
    BY <1>2, <1>3, MadeSeq
  <1>6. Plan(flags, t, Shadow, Shadow, << >>)
    BY <1>3, <1>4, <1>5, PlanUnseen
  <1>7. QED
    BY <1>6 DEF t

LEMMA PlanReads ==
  ASSUME NEW flags
  PROVE  /\ \A r : /\ Plan(flags, read_register(r), Ground, Ground, << >>)
                   /\ Plan(flags, write_register(r), Ground, Ground, << >>)
         /\ \A a : Plan(flags, Ahead(a), Ground, Ground, << >>)
         /\ Plan(flags, read_general_registers, Ground, Ground, << >>)
         /\ Plan(flags, write_general_registers, Ground, Ground, << >>)
  <1>1. ASSUME NEW r
        PROVE  /\ Plan(flags, read_register(r), Ground, Ground, << >>)
               /\ Plan(flags, write_register(r), Ground, Ground, << >>)
    BY AreAccesses, PlanDark, PlanHidden DEF read_register, write_register
  <1>2. ASSUME NEW a
        PROVE  Plan(flags, Ahead(a), Ground, Ground, << >>)
    BY AreAccesses, PlanDark, PlanQuiet, PlanHidden DEF Ahead
  <1>3. /\ RegisterReads = [r \in 1 .. Registers |-> RegisterReads[r]]
        /\ RegisterWrites = [r \in 1 .. Registers |-> RegisterWrites[r]]
        /\ \A r \in 1 .. Registers : /\ RegisterReads[r] = Read(r - 1)
                                     /\ RegisterWrites[r] = Write(r - 1)
    BY DEF RegisterReads, RegisterWrites
  <1>4. \A r \in 1 .. Registers : IsAccess(RegisterReads[r]) /\ IsAccess(RegisterWrites[r])
    BY <1>3, AreAccesses, Zenon
  <1>5. \A site : /\ Plan(flags, LocatedEach(site, RegisterReads), Shadow, Shadow, << >>)
                  /\ Plan(flags, LocatedEach(site, RegisterWrites), Shadow, Shadow, << >>)
    BY <1>3, <1>4, PlanEach, RunAssumption
  <1>6. Plan(flags, read_general_registers, Ground, Ground, << >>)
    BY <1>5, AreAccesses, PlanDark, PlanQuiet, PlanHidden DEF read_general_registers
  <1>7. Plan(flags, write_general_registers, Ground, Ground, << >>)
    BY <1>5, AreAccesses, PlanDark, PlanQuiet, PlanHidden DEF write_general_registers
  <1>8. QED
    BY <1>1, <1>2, <1>6, <1>7

\* What the model expects of the processor's work is what its steps trace.
LEMMA LinesOf ==
  /\ \A site, a : Line(site, a) = LineOf(tracer.flags, site, a)
  /\ StateLines = DumpLines(tracer.flags)
  BY DEF Line, LineOf, StateLines, DumpLines

LEMMA PlanLine ==
  ASSUME NEW site, NEW a, IsAccess(a)
  PROVE  Plan(tracer.flags, Located(site, << >>, <<a>>), Ground, Ground, Line(site, a))
  <1>1. Ground.level = -1
    BY DEF Ground
  <1>2. QED
    BY <1>1, PlanLit, LinesOf

LEMMA PlanException ==
  Plan(tracer.flags, arm_exception, Ground, Ground, ExceptionLines)
  BY PlanLine, AreAccesses, PlanConcat DEF arm_exception, ExceptionLines

\* A branch, whose inner macro is an argument of the outer one, goes two
\* locations deep.
LEMMA PlanBranch ==
  Plan(tracer.flags, Branch, Ground, Ground,
       Line("branch", Read(15)) \o Line("branch", Write(15)))
  <1> DEFINE inner == Located("branch", << >>, <<Read(15)>>)
             x == Inside(Ground, "branch")
             s == <<Write(15)>>
  <1>1. x.level = 0 /\ Ground.level = -1
    BY DEF Inside, Ground, Off
  <1>2. Plan(tracer.flags, inner, x, x, Line("branch", Read(15)))
    BY <1>1, PlanLit, LinesOf, AreAccesses
  <1>3. Plan(tracer.flags, Accesses(s), x, x, Line("branch", Write(15)))
    <2>1. Accesses(s) = <<Access(Write(15))>>
      BY AccessesOfOne
    <2>2. Seen(tracer.flags, Ground, "branch", Write(15)) = Line("branch", Write(15))
      BY <1>1, LinesOf DEF Seen, Off
    <2>3. QED
      BY <1>1, <2>1, <2>2, PlanAccess, AreAccesses
  <1> HIDE DEF inner, s
  <1>4. Plan(tracer.flags, Located("branch", inner, s), Ground, Ground,
             Line("branch", Read(15)) \o Line("branch", Write(15)))
    BY <1>1, <1>2, <1>3, PlanLocated
  <1>5. QED
    BY <1>4 DEF Branch, inner, s

LEMMA PlanDecoding ==
  ASSUME NEW a
  PROVE  Plan(tracer.flags, Decoding(a), Ground, Ground, DecodingLines(a))
  <1> DEFINE x == Inside(Ground, "fetch")
             s == Fetch(a)
             e == << >>
             p == Line("fetch", Read(15))
             q == Line("fetch", Load(a))
             r == Line("fetch", Write(15))
  <1>1. x.level = 0 /\ Ground.level = -1 /\ 0 \in Level
    BY DEF Inside, Ground, Off, Level
  <1>2. ASSUME NEW b, IsAccess(b)
        PROVE  Plan(tracer.flags, <<Access(b)>>, x, x, Line("fetch", b))
    <2>1. Seen(tracer.flags, Ground, "fetch", b) = Line("fetch", b)
      BY <1>1, LinesOf DEF Seen, Off
    <2>2. Plan(tracer.flags, <<Access(b)>>, x, x, Seen(tracer.flags, Ground, "fetch", b))
      BY <1>1, <1>2, PlanAccess
    <2>3. QED
      BY <2>1, <2>2
  <1>3. Accesses(s) = <<Access(Read(15))>> \o <<Access(Load(a))>> \o <<Access(Write(15))>>
    <2> DEFINE b == Read(15)
               c == Load(a)
               d == Write(15)
    <2>1. Triple(s, b, c, d)
      BY DEF Fetch, Triple
    <2> HIDE DEF b, c, d, s
    <2> DEFINE u == <<Access(b)>>
               v == <<Access(c)>>
               w == <<Access(d)>>
    <2>2. SingleAccess(u, b) /\ SingleAccess(v, c) /\ SingleAccess(w, d)
      BY DEF SingleAccess
    <2> HIDE DEF u, v, w
    <2>3. Accesses(s) = u \o v \o w
      BY <2>1, <2>2, AccessesOf
    <2>4. QED
      BY <2>3, Zenon DEF b, c, d, u, v, w
  <1>4. /\ Plan(tracer.flags, <<Access(Read(15))>>, x, x, p)
        /\ Plan(tracer.flags, <<Access(Load(a))>>, x, x, q)
        /\ Plan(tracer.flags, <<Access(Write(15))>>, x, x, r)
    BY <1>2, AreAccesses
  <1> HIDE DEF p, q, r, s
  <1> HIDE DEF x
  <1>5. Plan(tracer.flags, Accesses(s), x, x, p \o q \o r)
    <2>1. Plan(tracer.flags, <<Access(Read(15))>> \o <<Access(Load(a))>>, x, x, p \o q)
      BY <1>4, PlanConcat
    <2>2. Plan(tracer.flags,
               (<<Access(Read(15))>> \o <<Access(Load(a))>>) \o <<Access(Write(15))>>,
               x, x, (p \o q) \o r)
      BY <1>4, <2>1, PlanConcat
    <2>3. QED
      BY <1>3, <2>2
  <1>6. Plan(tracer.flags, e, x, x, e) /\ IsSeq(p \o q \o r)
    BY <1>1, <1>5, PlanNothing DEF Plan
  <1>7. e \o (p \o q \o r) = p \o q \o r
    BY <1>6, ConcatEmpty
  <1> HIDE DEF e
  <1>8. Plan(tracer.flags, Located("fetch", e, s), Ground, Ground, e \o (p \o q \o r))
    BY <1>1, <1>5, <1>6, PlanLocated DEF x
  <1>9. Plan(tracer.flags, Located("fetch", << >>, Fetch(a)), Ground, Ground, p \o q \o r)
    BY <1>7, <1>8 DEF e, s
  <1>10. Plan(tracer.flags, Decoding(a), Ground, Ground,
              p \o q \o r \o Line("operand1", Read(0)) \o Line("condition", Read(CPSR)))
    BY <1>9, PlanLine, AreAccesses, PlanConcat DEF Decoding
  <1>11. QED
    BY <1>10 DEF DecodingLines, p, q, r

LEMMA PlanInstruction ==
  ASSUME NEW kind \in Kinds, NEW v
  PROVE  Plan(tracer.flags, step(kind, v), Ground, Ground,
              InstructionLines(kind, FetchAddress(v)) \o StateLines)
  <1> DEFINE a == FetchAddress(v)
  <1> HIDE DEF a
  <1>1. Plan(tracer.flags, Instruction(kind, a), Ground, Ground, InstructionLines(kind, a))
    <2>1. CASE kind = "mov"
      <3>1. /\ Instruction(kind, a) = Decoding(a) \o Located("result", << >>, <<Write(0)>>)
            /\ InstructionLines(kind, a) = DecodingLines(a) \o Line("result", Write(0))
        BY <2>1 DEF Instruction, InstructionLines
      <3>2. QED
        BY <3>1, PlanDecoding, PlanLine, AreAccesses, PlanConcat
    <2>2. CASE kind = "str"
      <3>1. /\ Instruction(kind, a) =
                 Decoding(a) \o (Located("rd", << >>, <<Read(0)>>) \o StoreWord)
            /\ InstructionLines(kind, a) =
                 DecodingLines(a)
                   \o (Line("rd", Read(0))
                         \o (Line("store", Store(0)) \o Line("just wrote", Load(0))))
        BY <2>2 DEF Instruction, InstructionLines
      <3>2. Plan(tracer.flags, StoreWord, Ground, Ground,
                 Line("store", Store(0)) \o Line("just wrote", Load(0)))
        BY PlanLine, AreAccesses, PlanConcat DEF StoreWord
      <3>3. Plan(tracer.flags, Located("rd", << >>, <<Read(0)>>) \o StoreWord,
                 Ground, Ground,
                 Line("rd", Read(0)) \o (Line("store", Store(0))
                                           \o Line("just wrote", Load(0))))
        BY <3>2, PlanLine, AreAccesses, PlanConcat
      <3>4. QED
        BY <3>1, <3>3, PlanDecoding, PlanConcat
    <2>3. CASE kind = "b"
      <3>1. /\ Instruction(kind, a) = Decoding(a) \o Branch
            /\ InstructionLines(kind, a) =
                 DecodingLines(a) \o (Line("branch", Read(15)) \o Line("branch", Write(15)))
        BY <2>3 DEF Instruction, InstructionLines
      <3>2. QED
        BY <3>1, PlanDecoding, PlanBranch, PlanConcat
    <2>4. QED
      BY <2>1, <2>2, <2>3 DEF Kinds
  <1>2. Plan(tracer.flags, <<State>>, Ground, Ground, StateLines)
    <2>1. Ground.level = -1 /\ -1 \in Level /\ -1 # Off
      BY DEF Ground, Level, Off
    <2>2. Move(Ground, State, Ground) /\ Emits(tracer.flags, Ground, State) = StateLines
      BY <2>1, LinesOf DEF Move, Emits, State
    <2>3. QED
      BY <2>1, <2>2, PlanOne
  <1>3. QED
    BY <1>1, <1>2, PlanConcat DEF step, a

\* The lines from the k-th on.
From(s, k) == [i \in 1 .. Len(s) + 1 - k |-> s[k + i - 1]]

LEMMA FromFacts ==
  ASSUME NEW s, IsSeq(s)
  PROVE  /\ From(s, 1) = s /\ From(s, Len(s) + 1) = << >>
         /\ \A k \in 1 .. Len(s) + 1 : IsSeq(From(s, k))
         /\ \A k \in 1 .. Len(s) : From(s, k) = <<s[k]>> \o From(s, k + 1)
  <1> DEFINE n == Len(s)
  <1>1. n \in Nat
    BY SeqFacts
  <1> HIDE DEF n
  <1>2. ASSUME NEW k \in 1 .. n + 1
        PROVE  /\ IsSeq(From(s, k)) /\ Len(From(s, k)) = n + 1 - k
               /\ \A i \in 1 .. n + 1 - k : From(s, k)[i] = s[k + i - 1]
    <2> DEFINE u == From(s, k)
    <2>1. /\ u = [i \in 1 .. n + 1 - k |-> u[i]]
          /\ \A i \in 1 .. n + 1 - k : u[i] = s[k + i - 1]
      BY DEF From, n
    <2>2. n + 1 - k \in Nat
      BY <1>1
    <2> HIDE DEF u
    <2>3. IsSeq(u) /\ Len(u) = n + 1 - k
      BY <2>1, <2>2, MadeSeq
    <2>4. QED
      BY <2>1, <2>3 DEF u
  <1>3. From(s, 1) = s
    <2>1. 1 \in 1 .. n + 1 /\ n + 1 - 1 = n /\ \A i \in 1 .. n : 1 + i - 1 = i
      BY <1>1
    <2>2. /\ IsSeq(From(s, 1)) /\ Len(From(s, 1)) = n
          /\ \A i \in 1 .. n : From(s, 1)[i] = s[i]
      BY <1>2, <2>1
    <2>3. QED
      BY <2>2, SameSeq DEF n
  <1>4. From(s, n + 1) = << >>
    <2>1. IsSeq(From(s, n + 1)) /\ Len(From(s, n + 1)) = 0
      BY <1>1, <1>2
    <2>2. QED
      BY <2>1, EmptySeqFacts, SameSeq
  <1>5. ASSUME NEW k \in 1 .. n
        PROVE  From(s, k) = <<s[k]>> \o From(s, k + 1)
    <2> DEFINE u == From(s, k)
               v == From(s, k + 1)
               w == <<s[k]>>
               z == w \o v
    <2>1. /\ IsSeq(u) /\ Len(u) = n + 1 - k
          /\ \A i \in 1 .. n + 1 - k : u[i] = s[k + i - 1]
      BY <1>1, <1>2
    <2>2. /\ IsSeq(v) /\ Len(v) = n - k
          /\ \A i \in 1 .. n - k : v[i] = s[k + i]
      <3>1. k + 1 \in 1 .. n + 1 /\ n + 1 - (k + 1) = n - k
        BY <1>1
      <3>2. \A i \in 1 .. n - k : (k + 1) + i - 1 = k + i
        BY <1>1
      <3>3. QED
        BY <1>2, <3>1, <3>2
    <2>3. IsSeq(w) /\ Len(w) = 1 /\ w[1] = s[k]
      BY OneSeq
    <2> HIDE DEF u, v, w
    <2>4. IsSeq(w) /\ IsSeq(v)
      BY <2>2, <2>3
    <2>5. /\ IsSeq(z) /\ Len(z) = Len(w) + Len(v)
          /\ \A i \in 1 .. Len(w) : z[i] = w[i]
          /\ \A i \in 1 .. Len(v) : z[Len(w) + i] = v[i]
      BY <2>4, ConcatFacts
    <2> HIDE DEF z
    <2>6. Len(z) = n + 1 - k /\ z[1] = s[k]
      BY <1>1, <2>2, <2>3, <2>5
    <2>7. ASSUME NEW i \in 1 .. n + 1 - k
          PROVE  z[i] = u[i]
      <3>1. CASE i = 1
        <4>1. k + 1 - 1 = k
          BY <1>1
        <4>2. QED
          BY <2>1, <2>6, <3>1, <4>1
      <3>2. CASE i # 1
        <4>1. i - 1 \in 1 .. n - k /\ i = 1 + (i - 1) /\ k + (i - 1) = k + i - 1
          BY <1>1, <3>2
        <4>2. PICK j \in 1 .. n - k : i = 1 + j /\ k + j = k + i - 1
          BY <4>1
        <4>3. z[i] = v[j] /\ v[j] = s[k + j]
          BY <2>2, <2>3, <2>5, <4>2
        <4>4. QED
          BY <2>1, <4>2, <4>3
      <3>3. QED
        BY <3>1, <3>2
    <2>8. u = z
      BY <2>1, <2>5, <2>6, <2>7, SameSeq
    <2>9. QED
      BY <2>8 DEF u, v, w, z
  <1>6. QED
    BY <1>2, <1>3, <1>4, <1>5 DEF n

\* What trace_arm_state adds to the work reads registers outside any call.
LEMMA PlanDump ==
  ASSUME NEW x, x.level = -1
  PROVE  Plan(tracer.flags, StateDump, x, x, StateLines)
  <1> DEFINE n == DumpSize
             flags == tracer.flags
             s == arm_print_state
             r == StateLines
             f == [k \in 1 .. n + 1 |-> x]
  <1>1. -1 \in Level /\ -1 # Off /\ Spot(x) = NoSite
    BY DEF Level, Off, Spot
  <1>2. CASE CORE_STATE \notin flags
    <2>1. StateDump = << >> /\ StateLines = << >>
      BY <1>2 DEF StateDump, StateLines
    <2>2. QED
      BY <1>1, <2>1, PlanNothing
  <1>3. CASE CORE_STATE \in flags
    <2>1. StateDump = s
      BY <1>3 DEF StateDump
    <2>2. /\ n \in Nat /\ IsSeq(s) /\ Len(s) = n /\ DOMAIN s = 1 .. n
          /\ \A k \in 1 .. n : s[k].op = "access" /\ s[k].access.what = "register"
      BY DumpFacts, SeqFacts
    <2>3. \A k \in 1 .. n + 1 : f[k] = x
      OBVIOUS
    <2> HIDE DEF n, s, f
    <2>4. ASSUME NEW k \in 1 .. n
          PROVE  Move(x, s[k], x) /\ Emits(flags, x, s[k]) = LineOf(flags, NoSite, s[k].access)
      BY <1>1, <2>2 DEF Move, Emits
    <2>5. CASE REGISTERS \notin flags
      <3> DEFINE g == [k \in 1 .. n + 1 |-> << >>]
      <3>1. \A k \in 1 .. n + 1 : g[k] = << >>
        OBVIOUS
      <3>2. r = << >>
        BY <2>5 DEF StateLines
      <3> HIDE DEF g, r
      <3>3. \A k \in 1 .. n : Emits(flags, x, s[k]) = << >>
        BY <2>2, <2>4, <2>5 DEF LineOf
      <3>4. << >> \o << >> = << >>
        BY EmptySeqFacts, ConcatEmpty
      <3>5. \A k \in 1 .. n : /\ k \in 1 .. n + 1 /\ k + 1 \in 1 .. n + 1
        BY <2>2
      <3>6. 1 \in 1 .. n + 1 /\ n + 1 \in 1 .. n + 1
        BY <2>2
      <3>7. ASSUME NEW k \in 1 .. n
            PROVE  /\ Move(f[k], s[k], f[k + 1])
                   /\ g[k] = Emits(flags, f[k], s[k]) \o g[k + 1]
        <4>1. f[k] = x /\ f[k + 1] = x /\ g[k] = << >> /\ g[k + 1] = << >>
          BY <2>3, <3>1, <3>5
        <4>2. QED
          BY <2>4, <3>3, <3>4, <4>1, Zenon
      <3>8. \A k \in 1 .. n + 1 : f[k].level \in Level /\ IsSeq(g[k])
        BY <1>1, <2>3, <3>1, EmptySeqFacts
      <3>9. Leads(flags, f, g, s, x, x, r)
        BY <2>2, <2>3, <3>1, <3>2, <3>6, <3>7, <3>8 DEF Leads
      <3>10. QED
        BY <2>1, <2>2, <3>2, <3>9, EmptySeqFacts DEF Plan, r
    <2>6. CASE REGISTERS \in flags
      <3>1. r = [k \in 1 .. n |-> [access |-> s[k].access, site |-> NoSite]]
        BY <1>3, <2>2, <2>6 DEF StateLines, s
      <3>2. \A k \in 1 .. n : Emits(flags, x, s[k]) = <<r[k]>>
        BY <2>2, <2>4, <2>6, <3>1 DEF LineOf
      <3> HIDE DEF r
      <3>3. r = [k \in 1 .. n |-> r[k]]
        BY <3>1
      <3>4. IsSeq(r) /\ Len(r) = n
        BY <2>2, <3>3, MadeSeq
      <3> DEFINE g == [k \in 1 .. n + 1 |-> From(r, k)]
      <3>5. \A k \in 1 .. n + 1 : g[k] = From(r, k)
        OBVIOUS
      <3> HIDE DEF g
      <3>6. /\ From(r, 1) = r /\ From(r, n + 1) = << >>
            /\ \A k \in 1 .. n + 1 : IsSeq(From(r, k))
            /\ \A k \in 1 .. n : From(r, k) = <<r[k]>> \o From(r, k + 1)
        BY <3>4, FromFacts
      <3>7. \A k \in 1 .. n : /\ k \in 1 .. n + 1 /\ k + 1 \in 1 .. n + 1
        BY <2>2
      <3>8. 1 \in 1 .. n + 1 /\ n + 1 \in 1 .. n + 1
        BY <2>2
      <3>9. ASSUME NEW k \in 1 .. n
            PROVE  /\ Move(f[k], s[k], f[k + 1])
                   /\ g[k] = Emits(flags, f[k], s[k]) \o g[k + 1]
        <4>1. /\ f[k] = x /\ f[k + 1] = x
              /\ g[k] = From(r, k) /\ g[k + 1] = From(r, k + 1)
          BY <2>3, <3>5, <3>7
        <4>2. From(r, k) = <<r[k]>> \o From(r, k + 1) /\ Emits(flags, x, s[k]) = <<r[k]>>
          BY <3>2, <3>6
        <4>3. QED
          BY <2>4, <4>1, <4>2, Zenon
      <3>10. \A k \in 1 .. n + 1 : f[k].level \in Level /\ IsSeq(g[k])
        BY <1>1, <2>3, <3>5, <3>6
      <3>11. Leads(flags, f, g, s, x, x, r)
        BY <2>2, <2>3, <3>5, <3>6, <3>8, <3>9, <3>10 DEF Leads
      <3>12. QED
        BY <2>1, <2>2, <3>4, <3>11 DEF Plan, r
    <2>7. QED
      BY <2>5, <2>6
  <1>4. QED
    BY <1>2, <1>3

-----------------------------------------------------------------------------
(* One step on the tracer                                                  *)

Lit == TRUE
Dark == FALSE

Tracer(e, p, s, f, a, o, g) ==
  [enabled |-> e, top |-> p, sites |-> s, flags |-> f, last_address |-> a,
   output |-> o, log |-> g]

\* A tracer that prints to o.
Tracing(t, o) == \E e, p, s, f, a, g : /\ e \in {Lit, Dark}
                                        /\ DOMAIN s = 0 .. StackSize - 1 /\ IsSeq(g)
                                        /\ t = Tracer(e, p, s, f, a, o, g)

LEMMA TracerFields ==
  ASSUME NEW e, NEW p, NEW s, NEW f, NEW a, NEW o, NEW g
  PROVE  /\ Tracer(e, p, s, f, a, o, g).enabled = e
         /\ Tracer(e, p, s, f, a, o, g).top = p
         /\ Tracer(e, p, s, f, a, o, g).output = o
         /\ Tracer(e, p, s, f, a, o, g).sites = s
         /\ Tracer(e, p, s, f, a, o, g).flags = f
         /\ Tracer(e, p, s, f, a, o, g).last_address = a
         /\ Tracer(e, p, s, f, a, o, g).log = g
  BY DEF Tracer

LEMMA TracingOf ==
  ASSUME NEW e \in {Lit, Dark}, NEW p, NEW s, NEW f, NEW a, NEW o, NEW g,
         DOMAIN s = 0 .. StackSize - 1, IsSeq(g)
  PROVE  Tracing(Tracer(e, p, s, f, a, o, g), o)
  <1> SUFFICES \E e1, p1, s1, f1, a1, g1 :
                 /\ e1 \in {Lit, Dark}
                 /\ DOMAIN s1 = 0 .. StackSize - 1 /\ IsSeq(g1)
                 /\ Tracer(e, p, s, f, a, o, g) = Tracer(e1, p1, s1, f1, a1, o, g1)
    BY DEF Tracing
  <1> WITNESS e, p, s, f, a, g
  <1> QED
    OBVIOUS

SetTop(t, q) == [t EXCEPT !.top = q]
SetSite(t, i, v) == [t EXCEPT !.sites[i] = v]
SetAddress(t, b) == [t EXCEPT !.last_address = b]
SetLog(t, h) == [t EXCEPT !.log = h]

LEMMA LitStart ==
  ASSUME NEW p, NEW s, NEW f, NEW a, NEW o, NEW g, NEW site
  PROVE  trace_start_location(Tracer(Lit, p, s, f, a, o, g), site) =
           Tracer(Lit, p + 1, [s EXCEPT ![p + 1] = site], f, a, o, g)
  <1> DEFINE t == Tracer(Lit, p, s, f, a, o, g)
  <1>1. t.enabled = Lit /\ t.top = p
    BY TracerFields
  <1>2. \A q : SetTop(t, q) = Tracer(Lit, q, s, f, a, o, g)
    BY DEF Tracer, SetTop
  <1>3. \A q, i, v : SetSite(Tracer(Lit, q, s, f, a, o, g), i, v)
                       = Tracer(Lit, q, [s EXCEPT ![i] = v], f, a, o, g)
    BY DEF Tracer, SetSite
  <1> HIDE DEF t
  <1>4. t.enabled
    BY <1>1, Zenon DEF Lit
  <1>5. trace_start_location(t, site) = SetSite(SetTop(t, t.top + 1), t.top + 1, site)
    BY <1>4, Zenon DEF trace_start_location, SetSite, SetTop
  <1>6. QED
    BY <1>1, <1>2, <1>3, <1>5 DEF t

LEMMA LitEnd ==
  ASSUME NEW p, NEW s, NEW f, NEW a, NEW o, NEW g
  PROVE  trace_end_location(Tracer(Lit, p, s, f, a, o, g)) =
           Tracer(Lit, p - 1, s, f, a, o, g)
  <1> DEFINE t == Tracer(Lit, p, s, f, a, o, g)
  <1>1. t.enabled = Lit /\ t.top = p
    BY TracerFields
  <1>2. \A q : SetTop(t, q) = Tracer(Lit, q, s, f, a, o, g)
    BY DEF Tracer, SetTop
  <1> HIDE DEF t
  <1>3. t.enabled
    BY <1>1, Zenon DEF Lit
  <1>4. trace_end_location(t) = SetTop(t, t.top - 1)
    BY <1>3, Zenon DEF trace_end_location, SetTop
  <1>5. QED
    BY <1>1, <1>2, <1>4 DEF t

LEMMA DarkLocations ==
  ASSUME NEW p, NEW s, NEW f, NEW a, NEW o, NEW g, NEW site
  PROVE  /\ trace_start_location(Tracer(Dark, p, s, f, a, o, g), site) =
              Tracer(Dark, p, s, f, a, o, g)
         /\ trace_end_location(Tracer(Dark, p, s, f, a, o, g)) =
              Tracer(Dark, p, s, f, a, o, g)
  <1> DEFINE t == Tracer(Dark, p, s, f, a, o, g)
  <1>1. t.enabled = Dark
    BY TracerFields
  <1> HIDE DEF t
  <1>2. ~t.enabled
    BY <1>1, Zenon DEF Dark
  <1>3. trace_start_location(t, site) = t /\ trace_end_location(t) = t
    BY <1>2, Zenon DEF trace_start_location, trace_end_location
  <1>4. QED
    BY <1>3 DEF t

LEMMA Switches ==
  ASSUME NEW e, NEW p, NEW s, NEW f, NEW a, NEW o, NEW g
  PROVE  /\ trace_enable(Tracer(e, p, s, f, a, o, g)) = Tracer(Lit, p, s, f, a, o, g)
         /\ trace_disable(Tracer(e, p, s, f, a, o, g)) = Tracer(Dark, p, s, f, a, o, g)
  <1> DEFINE t == Tracer(e, p, s, f, a, o, g)
  <1>1. \A v : [t EXCEPT !.enabled = v] = Tracer(v, p, s, f, a, o, g)
    BY DEF Tracer
  <1> HIDE DEF t
  <1>2. /\ trace_enable(t) = Tracer(Lit, p, s, f, a, o, g)
        /\ trace_disable(t) = Tracer(Dark, p, s, f, a, o, g)
    BY <1>1, Zenon DEF trace_enable, trace_disable, Lit, Dark
  <1>3. QED
    BY <1>2, Zenon DEF t

LEMMA FileSet ==
  ASSUME NEW e, NEW p, NEW s, NEW f, NEW a, NEW o, NEW g, NEW x
  PROVE  set_trace_file(Tracer(e, p, s, f, a, o, g), x) = Tracer(e, p, s, f, a, x, g)
  BY DEF Tracer, set_trace_file

LEMMA FlagAdded ==
  ASSUME NEW e, NEW p, NEW s, NEW f, NEW a, NEW o, NEW g, NEW x
  PROVE  trace_add(Tracer(e, p, s, f, a, o, g), x) = Tracer(e, p, s, f \union {x}, a, o, g)
  BY DEF Tracer, trace_add

\* What trace_print_location prints in front of a line.
Printed(p, s, f) == IF POSITION \in f /\ p >= 0 THEN s[p] ELSE NoSite

\* The line of a memory access, with its mark, and that of a register.
MemoryLine(p, s, f, a, x) ==
  [access |-> x, site |-> Printed(p, s, f), seq |-> x.n = (a + 4) % AddressMod]
RegisterLine(p, s, f, x) == [access |-> x, site |-> Printed(p, s, f)]

LEMMA MemoryTraced ==
  ASSUME NEW e \in {Lit, Dark}, NEW p, NEW s, NEW f, NEW a, NEW o, NEW g, NEW x
  PROVE  trace_memory(Tracer(e, p, s, f, a, o, g), x) =
           IF e = Lit /\ MEMORY \in f
           THEN Tracer(e, p, s, f, x.n, o, Append(g, MemoryLine(p, s, f, a, x)))
           ELSE Tracer(e, p, s, f, a, o, g)
  <1> DEFINE t == Tracer(e, p, s, f, a, o, g)
  <1>1. /\ t.enabled = e /\ t.top = p /\ t.sites = s /\ t.flags = f
        /\ t.last_address = a /\ t.log = g
    BY TracerFields
  <1>2. \A b : SetAddress(t, b) = Tracer(e, p, s, f, b, o, g)
    BY DEF Tracer, SetAddress
  <1>3. \A b, h : SetLog(Tracer(e, p, s, f, b, o, g), h) = Tracer(e, p, s, f, b, o, h)
    BY DEF Tracer, SetLog
  <1>4. \A b : Tracer(e, p, s, f, b, o, g).log = g
    BY TracerFields
  <1> HIDE DEF t
  <1>5. trace_print_location(t) = Printed(p, s, f)
    BY <1>1, Zenon DEF trace_print_location, Printed
  <1>6. t.enabled <=> e = Lit
    BY <1>1, Zenon DEF Lit, Dark
  <1>7. CASE e = Lit /\ MEMORY \in f
    <2>1. trace_memory(t, x) =
            SetLog(SetAddress(t, x.n), Append(SetAddress(t, x.n).log, MemoryLine(p, s, f, a, x)))
      BY <1>1, <1>5, <1>6, <1>7, Zenon
      DEF trace_memory, SetLog, SetAddress, MemoryLine
    <2>2. trace_memory(t, x) =
            Tracer(e, p, s, f, x.n, o, Append(g, MemoryLine(p, s, f, a, x)))
      BY <1>2, <1>3, <1>4, <2>1, Zenon
    <2>3. QED
      BY <1>7, <2>2 DEF t
  <1>8. CASE ~(e = Lit /\ MEMORY \in f)
    <2>1. trace_memory(t, x) = t
      BY <1>1, <1>6, <1>8, Zenon DEF trace_memory
    <2>2. QED
      BY <1>8, <2>1 DEF t
  <1>9. QED
    BY <1>7, <1>8

LEMMA RegisterTraced ==
  ASSUME NEW e \in {Lit, Dark}, NEW p, NEW s, NEW f, NEW a, NEW o, NEW g, NEW x
  PROVE  trace_register(Tracer(e, p, s, f, a, o, g), x) =
           IF e = Lit /\ REGISTERS \in f
           THEN Tracer(e, p, s, f, a, o, Append(g, RegisterLine(p, s, f, x)))
           ELSE Tracer(e, p, s, f, a, o, g)
  <1> DEFINE t == Tracer(e, p, s, f, a, o, g)
  <1>1. t.enabled = e /\ t.top = p /\ t.sites = s /\ t.flags = f /\ t.log = g
    BY TracerFields
  <1>2. \A h : SetLog(t, h) = Tracer(e, p, s, f, a, o, h)
    BY DEF Tracer, SetLog
  <1> HIDE DEF t
  <1>3. trace_print_location(t) = Printed(p, s, f)
    BY <1>1, Zenon DEF trace_print_location, Printed
  <1>4. t.enabled <=> e = Lit
    BY <1>1, Zenon DEF Lit, Dark
  <1>5. CASE e = Lit /\ REGISTERS \in f
    <2>1. trace_register(t, x) = SetLog(t, Append(t.log, RegisterLine(p, s, f, x)))
      BY <1>1, <1>3, <1>4, <1>5, Zenon DEF trace_register, SetLog, RegisterLine
    <2>2. trace_register(t, x) = Tracer(e, p, s, f, a, o, Append(g, RegisterLine(p, s, f, x)))
      BY <1>1, <1>2, <2>1, Zenon
    <2>3. QED
      BY <1>5, <2>2 DEF t
  <1>6. CASE ~(e = Lit /\ REGISTERS \in f)
    <2>1. trace_register(t, x) = t
      BY <1>1, <1>4, <1>6, Zenon DEF trace_register
    <2>2. QED
      BY <1>6, <2>1 DEF t
  <1>7. QED
    BY <1>5, <1>6

\* A tracer at a place, by its switch and its location stack.
LEMMA AtLit ==
  ASSUME NEW p, NEW s, NEW f, NEW a, NEW o, NEW g, NEW x
  PROVE  At(Tracer(Lit, p, s, f, a, o, g), x) <=>
           /\ x.level \in Level /\ x.level # Off /\ p = x.level
           /\ x.level >= 0 => s[0] = x.outer
           /\ x.level = 1 => s[1] = x.inner
  <1> DEFINE t == Tracer(Lit, p, s, f, a, o, g)
  <1>1. t.enabled = Lit /\ t.top = p /\ t.sites = s
    BY TracerFields
  <1> HIDE DEF t
  <1>2. At(t, x) <=> /\ x.level \in Level /\ x.level # Off /\ p = x.level
                     /\ x.level >= 0 => s[0] = x.outer
                     /\ x.level = 1 => s[1] = x.inner
    BY <1>1, Zenon DEF At, Lit
  <1>3. QED
    BY <1>2 DEF t

LEMMA AtDark ==
  ASSUME NEW p, NEW s, NEW f, NEW a, NEW o, NEW g, NEW x
  PROVE  At(Tracer(Dark, p, s, f, a, o, g), x) <=> x.level = Off /\ p = -1
  <1> DEFINE t == Tracer(Dark, p, s, f, a, o, g)
  <1>1. t.enabled = Dark /\ t.top = p
    BY TracerFields
  <1> HIDE DEF t
  <1>2. /\ Off \in Level /\ ~(Off >= 0) /\ Off # 1
    BY DEF Level, Off
  <1>3. At(t, x) <=> x.level = Off /\ p = -1
    BY <1>1, <1>2, Zenon DEF At, Dark
  <1>4. QED
    BY <1>3 DEF t

-----------------------------------------------------------------------------
(* What has been traced                                                    *)

Short(l) == [access |-> l.access, site |-> l.site]
Shown(log) == [k \in DOMAIN log |-> Short(log[k])]

LEMMA ShownFacts ==
  ASSUME NEW log, IsSeq(log)
  PROVE  /\ IsSeq(Shown(log)) /\ Len(Shown(log)) = Len(log)
         /\ \A k \in 1 .. Len(log) : Shown(log)[k] = Short(log[k])
  <1> DEFINE n == Len(log)
             s == Shown(log)
  <1>1. n \in Nat /\ DOMAIN log = 1 .. n
    BY SeqFacts
  <1>2. s = [k \in 1 .. n |-> s[k]] /\ \A k \in 1 .. n : s[k] = Short(log[k])
    BY <1>1 DEF Shown
  <1> HIDE DEF n, s
  <1>3. IsSeq(s) /\ Len(s) = n
    BY <1>1, <1>2, MadeSeq
  <1>4. QED
    BY <1>2, <1>3 DEF s, n

LEMMA AppendFacts ==
  ASSUME NEW log, NEW l, IsSeq(log)
  PROVE  /\ IsSeq(Append(log, l)) /\ Len(Append(log, l)) = Len(log) + 1
         /\ \A k \in 1 .. Len(log) : Append(log, l)[k] = log[k]
         /\ Append(log, l)[Len(log) + 1] = l
  <1>1. PICK S : log \in Seq(S)
    BY DEF IsSeq
  <1>2. log \in Seq(S \union {l})
    BY <1>1
  <1>3. Append(log, l) \in Seq(S \union {l})
    BY <1>2
  <1>4. QED
    BY <1>2, <1>3 DEF IsSeq

LEMMA ShownAppend ==
  ASSUME NEW log, NEW l, IsSeq(log)
  PROVE  Shown(Append(log, l)) = Shown(log) \o <<Short(l)>>
  <1> DEFINE n == Len(log)
             u == Append(log, l)
             s == Shown(u)
             v == Shown(log)
             w == <<Short(l)>>
             z == v \o w
  <1>1. n \in Nat
    BY SeqFacts
  <1>2. /\ IsSeq(u) /\ Len(u) = n + 1 /\ u[n + 1] = l
        /\ \A k \in 1 .. n : u[k] = log[k]
    BY AppendFacts
  <1>3. IsSeq(v) /\ Len(v) = n /\ \A k \in 1 .. n : v[k] = Short(log[k])
    BY ShownFacts
  <1>4. Len(w) = 1 /\ w[1] = Short(l)
    BY OneSeq
  <1>5. IsSeq(v) /\ IsSeq(w)
    BY <1>3, OneSeq
  <1> HIDE DEF u, v, w, n
  <1>6. IsSeq(s) /\ Len(s) = n + 1 /\ \A k \in 1 .. n + 1 : s[k] = Short(u[k])
    <2>1. IsSeq(u)
      BY <1>2
    <2>2. IsSeq(s) /\ Len(s) = Len(u) /\ \A k \in 1 .. Len(u) : s[k] = Short(u[k])
      BY <2>1, ShownFacts
    <2>3. QED
      BY <1>2, <2>2
  <1>7. /\ IsSeq(z) /\ Len(z) = Len(v) + Len(w)
        /\ \A k \in 1 .. Len(v) : z[k] = v[k]
        /\ \A k \in 1 .. Len(w) : z[Len(v) + k] = w[k]
    BY <1>5, ConcatFacts
  <1> HIDE DEF s, z
  <1>8. Len(z) = n + 1 /\ \A k \in 1 .. n + 1 : s[k] = z[k]
    <2>1. Len(z) = n + 1
      BY <1>1, <1>3, <1>4, <1>7
    <2>2. ASSUME NEW k \in 1 .. n + 1
          PROVE  s[k] = z[k]
      <3>1. CASE k <= n
        <4>1. k \in 1 .. n
          BY <1>1, <3>1
        <4>2. s[k] = Short(u[k]) /\ u[k] = log[k] /\ z[k] = v[k] /\ v[k] = Short(log[k])
          BY <1>2, <1>3, <1>6, <1>7, <4>1
        <4>3. QED
          BY <4>2
      <3>2. CASE k = n + 1
        BY <1>1, <1>2, <1>3, <1>4, <1>6, <1>7, <3>2
      <3>3. QED
        BY <1>1, <3>1, <3>2
    <2>3. QED
      BY <2>1, <2>2
  <1>9. s = z
    BY <1>6, <1>7, <1>8, SameSeq
  <1>10. QED
    BY <1>9 DEF s, z, u, v, w

\* A step that a place allows takes the tracer to the place it leads to, and
\* traces what it should there; output and flags stay.  A state step only
\* makes work.
Traced(flags, x, c) == IF c.op = "state" THEN << >> ELSE Emits(flags, x, c)

LEMMA PerformMoves ==
  ASSUME NEW t, NEW o, Tracing(t, o), NEW x, At(t, x), NEW c, NEW y, y.level \in Level,
         Move(x, c, y)
  PROVE  /\ Tracing(Perform(t, c), o) /\ At(Perform(t, c), y)
         /\ Perform(t, c).flags = t.flags
         /\ Shown(Perform(t, c).log) = Shown(t.log) \o Traced(t.flags, x, c)
  <1>1. PICK e, p, s, f, a, g : /\ e \in {Lit, Dark} /\ DOMAIN s = 0 .. StackSize - 1
                                /\ IsSeq(g) /\ t = Tracer(e, p, s, f, a, o, g)
    BY Zenon DEF Tracing
  <1>2. \/ /\ e = Lit /\ x.level \in Level /\ x.level # Off /\ p = x.level
           /\ x.level >= 0 => s[0] = x.outer
           /\ x.level = 1 => s[1] = x.inner
        \/ e = Dark /\ x.level = Off /\ p = -1
    BY <1>1, AtLit, AtDark
  <1>3. t.flags = f /\ t.log = g
    BY <1>1, TracerFields
  <1>4. IsSeq(Shown(g)) /\ Shown(g) \o << >> = Shown(g)
    BY <1>1, ShownFacts, ConcatEmpty
  <1>5. 0 \in DOMAIN s /\ 1 \in DOMAIN s
    BY <1>1, StackAssumption
  \* A step that only moves the tracer.
  <1>6. ASSUME NEW d \in {Lit, Dark}, NEW q, NEW r, DOMAIN r = 0 .. StackSize - 1,
               Perform(t, c) = Tracer(d, q, r, f, a, o, g),
               At(Tracer(d, q, r, f, a, o, g), y), Traced(f, x, c) = << >>
        PROVE  /\ Tracing(Perform(t, c), o) /\ At(Perform(t, c), y)
               /\ Perform(t, c).flags = t.flags
               /\ Shown(Perform(t, c).log) = Shown(t.log) \o Traced(t.flags, x, c)
    <2>1. Perform(t, c).flags = f /\ Perform(t, c).log = g
      BY <1>6, TracerFields
    <2>2. Tracing(Perform(t, c), o)
      BY <1>1, <1>6, TracingOf
    <2>3. QED
      BY <1>3, <1>4, <1>6, <2>1, <2>2, Zenon
  <1>7. CASE c.op = "start"
    <2>1. Perform(t, c) = trace_start_location(t, c.site) /\ Traced(f, x, c) = << >>
      BY <1>7 DEF Perform, Traced, Emits
    <2>2. CASE e = Dark /\ x.level = Off /\ p = -1
      <3>1. y.level = Off
        BY <1>7, <2>2 DEF Move
      <3>2. Perform(t, c) = Tracer(Dark, p, s, f, a, o, g)
        BY <1>1, <2>1, <2>2, DarkLocations
      <3>3. At(Tracer(Dark, p, s, f, a, o, g), y)
        BY <2>2, <3>1, AtDark
      <3>4. QED
        BY <1>1, <1>6, <2>1, <3>2, <3>3
    <2>3. CASE /\ e = Lit /\ x.level \in Level /\ x.level # Off /\ p = x.level
               /\ x.level >= 0 => s[0] = x.outer
      <3> DEFINE r == [s EXCEPT ![p + 1] = c.site]
      <3>1. Perform(t, c) = Tracer(Lit, p + 1, r, f, a, o, g)
        <4>1. t = Tracer(Lit, p, s, f, a, o, g)
          BY <1>1, <2>3
        <4>2. trace_start_location(t, c.site) =
                Tracer(Lit, p + 1, [s EXCEPT ![p + 1] = c.site], f, a, o, g)
          BY <4>1, LitStart
        <4>3. QED
          BY <2>1, <4>2, Zenon
      <3>2. /\ y.level = p + 1 /\ y.level # Off
            /\ x.level = -1 => y.outer = c.site
            /\ x.level = 0 => y.outer = x.outer /\ y.inner = c.site
            /\ p = -1 \/ p = 0
        BY <1>7, <2>3 DEF Move, Level, Off
      <3>3. DOMAIN r = 0 .. StackSize - 1
        BY <1>1, Zenon
      <3>4. (y.level >= 0 => r[0] = y.outer) /\ (y.level = 1 => r[1] = y.inner)
        <4>1. CASE p = -1
          BY <1>5, <2>3, <3>2, <4>1
        <4>2. CASE p = 0
          BY <1>5, <2>3, <3>2, <4>2
        <4>3. QED
          BY <3>2, <4>1, <4>2
      <3> HIDE DEF r
      <3>5. At(Tracer(Lit, p + 1, r, f, a, o, g), y)
        <4> DEFINE q == p + 1
        <4>1. q = y.level
          BY <3>2
        <4> HIDE DEF q
        <4>2. At(Tracer(Lit, q, r, f, a, o, g), y)
          BY <3>2, <3>4, <4>1, AtLit
        <4>3. QED
          BY <4>2 DEF q
      <3>6. QED
        BY <1>6, <2>1, <3>1, <3>3, <3>5
    <2>4. QED
      BY <1>2, <2>2, <2>3
  <1>8. CASE c.op = "end"
    <2>1. Perform(t, c) = trace_end_location(t) /\ Traced(f, x, c) = << >>
      BY <1>8 DEF Perform, Traced, Emits
    <2>2. CASE e = Dark /\ x.level = Off /\ p = -1
      <3>1. y.level = Off
        BY <1>8, <2>2 DEF Move
      <3>2. Perform(t, c) = Tracer(Dark, p, s, f, a, o, g)
        BY <1>1, <2>1, <2>2, DarkLocations
      <3>3. At(Tracer(Dark, p, s, f, a, o, g), y)
        BY <2>2, <3>1, AtDark
      <3>4. QED
        BY <1>1, <1>6, <2>1, <3>2, <3>3
    <2>3. CASE /\ e = Lit /\ x.level \in Level /\ x.level # Off /\ p = x.level
               /\ x.level >= 0 => s[0] = x.outer
      <3>1. Perform(t, c) = Tracer(Lit, p - 1, s, f, a, o, g)
        BY <1>1, <2>1, <2>3, LitEnd
      <3>2. /\ y.level = p - 1 /\ y.level # Off /\ y.level # 1
            /\ y.level >= 0 => s[0] = y.outer
        BY <1>8, <2>3 DEF Move, Level, Off
      <3>3. At(Tracer(Lit, p - 1, s, f, a, o, g), y)
        BY <3>2, AtLit
      <3>4. QED
        BY <1>1, <1>6, <2>1, <3>1, <3>3
    <2>4. QED
      BY <1>2, <2>2, <2>3
  <1>9. CASE c.op = "disable"
    <2>1. Perform(t, c) = trace_disable(t) /\ Traced(f, x, c) = << >>
      BY <1>9 DEF Perform, Traced, Emits
    <2>2. Perform(t, c) = Tracer(Dark, p, s, f, a, o, g)
      BY <1>1, <2>1, Switches
    <2>3. y.level = Off /\ p = -1
      BY <1>2, <1>9 DEF Move
    <2>4. At(Tracer(Dark, p, s, f, a, o, g), y)
      BY <2>3, AtDark
    <2>5. QED
      BY <1>1, <1>6, <2>1, <2>2, <2>4
  <1>10. CASE c.op = "enable"
    <2>1. Perform(t, c) = trace_enable(t) /\ Traced(f, x, c) = << >>
      BY <1>10 DEF Perform, Traced, Emits
    <2>2. Perform(t, c) = Tracer(Lit, p, s, f, a, o, g)
      BY <1>1, <2>1, Switches
    <2>3. y.level = -1 /\ p = -1 /\ -1 # Off
      BY <1>2, <1>10 DEF Move, Off
    <2>4. At(Tracer(Lit, p, s, f, a, o, g), y)
      BY <2>3, AtLit
    <2>5. QED
      BY <1>1, <1>6, <2>1, <2>2, <2>4
  <1>11. CASE c.op = "state"
    <2>1. Perform(t, c) = t /\ Traced(f, x, c) = << >> /\ y = x
      BY <1>11 DEF Perform, Traced, Move
    <2>2. QED
      BY <1>1, <1>6, <2>1
  <1>12. CASE c.op = "access"
    <2> DEFINE u == Perform(t, c)
               b == c.access
               l == Traced(f, x, c)
    <2>1. /\ y = x /\ b.what \in {"memory", "register"}
          /\ l = (IF x.level = Off THEN << >> ELSE LineOf(f, Spot(x), b))
          /\ u = (IF b.what = "memory" THEN trace_memory(t, b) ELSE trace_register(t, b))
      BY <1>12 DEF Move, Traced, Emits, Perform
    <2>2. e = Lit => (IF POSITION \in f THEN Spot(x) ELSE NoSite) = Printed(p, s, f)
      BY <1>2 DEF Printed, Spot, Level, Off, Lit, Dark
    <2>3. e = Lit <=> x.level # Off
      BY <1>2, Zenon DEF Lit, Dark
    <2> HIDE DEF b, l, u
    <2>4. \/ u = t /\ l = << >>
          \/ \E z, d : /\ u = Tracer(e, p, s, f, d, o, Append(g, z))
                       /\ l = <<Short(z)>>
      <3>1. CASE b.what = "memory"
        <4>1. u = IF e = Lit /\ MEMORY \in f
                  THEN Tracer(e, p, s, f, b.n, o, Append(g, MemoryLine(p, s, f, a, b)))
                  ELSE t
          BY <1>1, <2>1, <3>1, MemoryTraced
        <4>2. CASE e = Lit /\ MEMORY \in f
          <5>1. Short(MemoryLine(p, s, f, a, b)) = [access |-> b, site |-> Printed(p, s, f)]
            BY DEF Short, MemoryLine
          <5>2. l = <<[access |-> b, site |-> Printed(p, s, f)]>>
            BY <2>1, <2>2, <2>3, <3>1, <4>2 DEF LineOf
          <5>3. u = Tracer(e, p, s, f, b.n, o, Append(g, MemoryLine(p, s, f, a, b)))
            BY <4>1, <4>2
          <5>4. QED
            BY <5>1, <5>2, <5>3, Zenon
        <4>3. CASE ~(e = Lit /\ MEMORY \in f)
          <5>1. l = << >>
            BY <2>1, <2>3, <3>1, <4>3 DEF LineOf
          <5>2. QED
            BY <4>1, <4>3, <5>1
        <4>4. QED
          BY <4>2, <4>3
      <3>2. CASE b.what = "register"
        <4>1. u = IF e = Lit /\ REGISTERS \in f
                  THEN Tracer(e, p, s, f, a, o, Append(g, RegisterLine(p, s, f, b)))
                  ELSE t
          BY <1>1, <2>1, <3>2, RegisterTraced
        <4>2. CASE e = Lit /\ REGISTERS \in f
          <5>1. Short(RegisterLine(p, s, f, b)) = [access |-> b, site |-> Printed(p, s, f)]
            BY DEF Short, RegisterLine
          <5>2. l = <<[access |-> b, site |-> Printed(p, s, f)]>>
            BY <2>1, <2>2, <2>3, <3>2, <4>2 DEF LineOf
          <5>3. u = Tracer(e, p, s, f, a, o, Append(g, RegisterLine(p, s, f, b)))
            BY <4>1, <4>2
          <5>4. QED
            BY <5>1, <5>2, <5>3, Zenon
        <4>3. CASE ~(e = Lit /\ REGISTERS \in f)
          <5>1. l = << >>
            BY <2>1, <2>3, <3>2, <4>3 DEF LineOf
          <5>2. QED
            BY <4>1, <4>3, <5>1
        <4>4. QED
          BY <4>2, <4>3
      <3>3. QED
        BY <2>1, <3>1, <3>2
    <2>5. CASE u = t /\ l = << >>
      BY <1>1, <1>6, <2>1, <2>5 DEF u, l
    <2>6. ASSUME NEW z, NEW d, u = Tracer(e, p, s, f, d, o, Append(g, z)), l = <<Short(z)>>
          PROVE  /\ Tracing(u, o) /\ At(u, y) /\ u.flags = t.flags
                 /\ Shown(u.log) = Shown(t.log) \o l
      <3>1. IsSeq(Append(g, z)) /\ Shown(Append(g, z)) = Shown(g) \o <<Short(z)>>
        BY <1>1, AppendFacts, ShownAppend
      <3>2. u.flags = f /\ u.log = Append(g, z)
        <4> DEFINE h == Append(g, z)
        <4> HIDE DEF h
        <4>1. u = Tracer(e, p, s, f, d, o, h)
          BY <2>6 DEF h
        <4>2. u.flags = f /\ u.log = h
          BY <4>1, TracerFields
        <4>3. QED
          BY <4>2 DEF h
      <3>3. Tracing(u, o)
        BY <1>1, <2>6, <3>1, TracingOf
      <3>4. At(u, y)
        <4> DEFINE h == Append(g, z)
        <4> HIDE DEF h
        <4>1. u = Tracer(e, p, s, f, d, o, h)
          BY <2>6 DEF h
        <4>2. QED
          BY <1>2, <2>1, <4>1, AtLit, AtDark
      <3>5. QED
        BY <1>3, <2>6, <3>1, <3>2, <3>3, <3>4, Zenon
    <2>7. QED
      BY <1>3, <2>4, <2>5, <2>6 DEF u, l
  <1>13. QED
    BY <1>7, <1>8, <1>9, <1>10, <1>11, <1>12 DEF Move

-----------------------------------------------------------------------------
(* The memory accesses among some lines                                    *)

Memories(log) == {k \in DOMAIN log : log[k].access.what = "memory"}

-----------------------------------------------------------------------------
(* The marks of the memory accesses                                        *)

\* The access of line k is 4 bytes after the memory access traced before it,
\* or after FirstAddress if there is none.
After(log, k) == \E j \in Memories(log) :
                   /\ j < k /\ \A i \in Memories(log) : i <= j \/ k <= i
                   /\ log[k].access.n = (log[j].access.n + 4) % AddressMod
First(log, k) == /\ \A i \in Memories(log) : k <= i
                 /\ log[k].access.n = (FirstAddress + 4) % AddressMod
Sequential(log, k) == After(log, k) \/ First(log, k)
Marks(log) == \A k \in Memories(log) : log[k].seq <=> Sequential(log, k)

\* last_address is the address of the last memory access among the lines.
Latest(log, a) ==
  IF Memories(log) = {} THEN a = FirstAddress
  ELSE \E j \in Memories(log) : /\ \A i \in Memories(log) : i <= j
                                /\ a = log[j].access.n

LEMMA MemoriesAppend ==
  ASSUME NEW log, NEW l, IsSeq(log)
  PROVE  /\ Memories(Append(log, l)) =
              Memories(log) \union (IF l.access.what = "memory" THEN {Len(log) + 1} ELSE {})
         /\ Len(log) \in Nat /\ Memories(log) \subseteq 1 .. Len(log)
         /\ \A k \in Memories(log) : Append(log, l)[k] = log[k]
         /\ Append(log, l)[Len(log) + 1] = l
  <1> DEFINE u == Append(log, l)
             n == Len(log)
  <1>1. n \in Nat /\ DOMAIN log = 1 .. n
    BY SeqFacts
  <1>2. /\ IsSeq(u) /\ Len(u) = n + 1 /\ u[n + 1] = l
        /\ \A k \in 1 .. n : u[k] = log[k]
    BY AppendFacts
  <1> HIDE DEF u, n
  <1>3. DOMAIN u = 1 .. n + 1
    BY <1>2, SeqFacts
  <1>4. Memories(log) \subseteq 1 .. n
    BY <1>1 DEF Memories
  <1>5. ASSUME NEW k
        PROVE  k \in Memories(u) <=>
                 k \in Memories(log) \/ (l.access.what = "memory" /\ k = n + 1)
    BY <1>1, <1>2, <1>3 DEF Memories
  <1>6. Memories(u) = Memories(log) \union (IF l.access.what = "memory" THEN {n + 1} ELSE {})
    BY <1>5
  <1>7. \A k \in Memories(log) : u[k] = log[k]
    BY <1>2, <1>4
  <1>8. QED
    BY <1>1, <1>2, <1>4, <1>6, <1>7 DEF u, n

\* A longer log that keeps the lines of the shorter one keeps their marks.
LEMMA MarksStay ==
  ASSUME NEW log, NEW u, NEW n \in Nat, NEW M, Memories(log) \subseteq 1 .. n,
         Memories(u) = Memories(log) \union M, M \subseteq {n + 1},
         \A k \in Memories(log) : u[k] = log[k], Marks(log)
  PROVE  \A k \in Memories(log) : u[k].seq <=> Sequential(u, k)
  <1> SUFFICES ASSUME NEW k \in Memories(log)
               PROVE  u[k].seq <=> Sequential(u, k)
    OBVIOUS
  <1>0. /\ k \in 1 .. n /\ k <= n + 1 /\ u[k] = log[k]
        /\ \A i \in Memories(u) : i \in Memories(log) \/ i = n + 1
        /\ \A i \in Memories(log) : i \in Memories(u)
    <2>1. k \in 1 .. n
      OBVIOUS
    <2>2. k <= n + 1
      BY <2>1
    <2>3. u[k] = log[k]
      OBVIOUS
    <2>4. /\ \A i \in Memories(u) : i \in Memories(log) \/ i = n + 1
          /\ \A i \in Memories(log) : i \in Memories(u)
      BY Zenon
    <2>5. QED
      BY <2>1, <2>2, <2>3, <2>4, Zenon
  <1>1. Sequential(u, k) <=> Sequential(log, k)
    <2>1. ASSUME After(u, k)
          PROVE  After(log, k)
      <3>1. PICK j \in Memories(u) : /\ j < k /\ \A i \in Memories(u) : i <= j \/ k <= i
                                     /\ u[k].access.n = (u[j].access.n + 4) % AddressMod
        BY <2>1 DEF After
      <3>2. j \in Memories(log)
        <4>1. j # n + 1
          BY <1>0, <3>1
        <4>2. QED
          BY <1>0, <3>1, <4>1
      <3>3. u[j] = log[j]
        BY <3>2
      <3>4. QED
        BY <1>0, <3>1, <3>2, <3>3, Zenon DEF After
    <2>2. ASSUME After(log, k)
          PROVE  After(u, k)
      <3>1. PICK j \in Memories(log) : /\ j < k /\ \A i \in Memories(log) : i <= j \/ k <= i
                                       /\ log[k].access.n = (log[j].access.n + 4) % AddressMod
        BY <2>2 DEF After
      <3>2. u[j] = log[j]
        BY <3>1
      <3>3. QED
        BY <1>0, <3>1, <3>2, Zenon DEF After
    <2>3. First(u, k) <=> First(log, k)
      BY <1>0, Zenon DEF First
    <2>4. QED
      BY <2>1, <2>2, <2>3 DEF Sequential
  <1>2. u[k].seq <=> log[k].seq
    BY Zenon
  <1>3. log[k].seq <=> Sequential(log, k)
    BY Zenon DEF Marks
  <1>4. QED
    BY <1>1, <1>2, <1>3, Zenon

LEMMA RegisterMarks ==
  ASSUME NEW log, NEW l, NEW a, IsSeq(log), l.access.what # "memory",
         Marks(log), Latest(log, a)
  PROVE  Marks(Append(log, l)) /\ Latest(Append(log, l), a)
  <1> DEFINE u == Append(log, l)
             n == Len(log)
  <1>1. /\ Memories(u) = Memories(log) /\ n \in Nat /\ Memories(log) \subseteq 1 .. n
        /\ \A k \in Memories(log) : u[k] = log[k]
    <2>1. /\ Memories(u) = Memories(log) \union (IF l.access.what = "memory" THEN {n + 1} ELSE {})
          /\ n \in Nat /\ Memories(log) \subseteq 1 .. n
          /\ \A k \in Memories(log) : u[k] = log[k]
      BY MemoriesAppend
    <2> HIDE DEF u, n
    <2>2. QED
      BY <2>1
  <1> HIDE DEF u, n
  <1>2. \A k \in Memories(log) : u[k].seq <=> Sequential(u, k)
    <2>1. Memories(u) = Memories(log) \union {} /\ {} \subseteq {n + 1}
      BY <1>1
    <2>2. QED
      BY <1>1, <2>1, MarksStay, Zenon
  <1>3. Marks(u)
    BY <1>1, <1>2, Zenon DEF Marks
  <1>4. Latest(u, a)
    <2>1. CASE Memories(log) = {}
      BY <1>1, <2>1, Zenon DEF Latest
    <2>2. CASE Memories(log) # {}
      <3>1. PICK j \in Memories(log) : (\A i \in Memories(log) : i <= j) /\ a = log[j].access.n
        BY <2>2, Zenon DEF Latest
      <3>2. u[j] = log[j]
        BY <1>1
      <3>3. QED
        BY <1>1, <2>2, <3>1, <3>2, Zenon DEF Latest
    <2>3. QED
      BY <2>1, <2>2
  <1>5. QED
    BY <1>3, <1>4 DEF u

LEMMA MemoryMarks ==
  ASSUME NEW log, NEW l, NEW a, IsSeq(log), l.access.what = "memory",
         l.seq <=> l.access.n = (a + 4) % AddressMod, Marks(log), Latest(log, a)
  PROVE  Marks(Append(log, l)) /\ Latest(Append(log, l), l.access.n)
  <1> DEFINE u == Append(log, l)
             n == Len(log)
             m == n + 1
  <1>1. /\ Memories(u) = Memories(log) \union {m} /\ u[m] = l
        /\ n \in Nat /\ Memories(log) \subseteq 1 .. n
        /\ \A k \in Memories(log) : u[k] = log[k]
    <2>1. /\ Memories(u) = Memories(log) \union (IF l.access.what = "memory" THEN {n + 1} ELSE {})
          /\ n \in Nat /\ Memories(log) \subseteq 1 .. n
          /\ \A k \in Memories(log) : u[k] = log[k]
          /\ u[n + 1] = l
      BY MemoriesAppend
    <2> HIDE DEF u, n
    <2>2. QED
      BY <2>1
  <1> HIDE DEF u, n
  <1>3. \A k \in Memories(log) : u[k].seq <=> Sequential(u, k)
    <2>1. {m} \subseteq {n + 1}
      OBVIOUS
    <2>2. QED
      BY <1>1, <2>1, MarksStay, Zenon
  <1>4. m \in Memories(u) /\ \A k \in Memories(log) : k < m /\ k \in Memories(u)
    BY <1>1
  <1>5. l.access.n = (a + 4) % AddressMod <=> Sequential(u, m)
    <2>1. CASE Memories(log) = {}
      <3>1. a = FirstAddress
        BY <2>1 DEF Latest
      <3>2. Memories(u) = {m} /\ ~(m < m) /\ m <= m
        BY <1>1, <2>1
      <3> HIDE DEF m
      <3>3. ~After(u, m)
        BY <3>2, Zenon DEF After
      <3>4. First(u, m) <=> l.access.n = (FirstAddress + 4) % AddressMod
        BY <1>1, <3>2, Zenon DEF First
      <3>5. QED
        BY <3>1, <3>3, <3>4, Zenon DEF Sequential
    <2>2. CASE Memories(log) # {}
      <3>1. PICK j \in Memories(log) : (\A i \in Memories(log) : i <= j) /\ a = log[j].access.n
        BY <2>2, Zenon DEF Latest
      <3>2. j < m /\ j \in Memories(u) /\ \A i \in Memories(u) : i <= j \/ m <= i
        BY <1>1, <1>4, <3>1
      <3>3. u[j] = log[j] /\ u[m] = l
        BY <1>1
      <3>4. ASSUME l.access.n = (a + 4) % AddressMod
            PROVE  After(u, m)
        BY <3>1, <3>2, <3>3, <3>4, Zenon DEF After
      <3>5. ASSUME After(u, m)
            PROVE  l.access.n = (a + 4) % AddressMod
        <4>1. PICK i \in Memories(u) : /\ i < m /\ \A x \in Memories(u) : x <= i \/ m <= x
                                       /\ u[m].access.n = (u[i].access.n + 4) % AddressMod
          BY <3>5, Zenon DEF After
        <4>2. i \in Memories(log) /\ i <= j /\ j <= i
          BY <1>1, <3>1, <3>2, <4>1
        <4>3. i = j
          BY <1>1, <4>2
        <4>4. QED
          BY <3>1, <3>3, <4>1, <4>3
      <3>6. ~First(u, m)
        <4>1. ~(m <= j)
          BY <1>1, <3>2
        <4>2. QED
          BY <3>2, <4>1, Zenon DEF First
      <3>7. QED
        BY <3>4, <3>5, <3>6, Zenon DEF Sequential
    <2>3. QED
      BY <2>1, <2>2
  <1>6. u[m].seq <=> Sequential(u, m)
    BY <1>1, <1>5, Zenon
  <1>7. Marks(u)
    <2>1. \A k \in Memories(u) : k \in Memories(log) \/ k = m
      BY <1>1
    <2> HIDE DEF m
    <2>2. QED
      BY <1>3, <1>6, <2>1, Zenon DEF Marks
  <1>8. Latest(u, l.access.n)
    <2>1. Memories(u) # {} /\ \A i \in Memories(u) : i <= m
      BY <1>1
    <2> HIDE DEF m
    <2>2. QED
      BY <1>1, <1>4, <2>1, Zenon DEF Latest
  <1>9. QED
    BY <1>7, <1>8 DEF u

\* A step on the tracer leaves the marks right.
LEMMA PerformMarks ==
  ASSUME NEW t, NEW o, Tracing(t, o), NEW x, NEW c, NEW y, Move(x, c, y),
         Marks(t.log), Latest(t.log, t.last_address)
  PROVE  Marks(Perform(t, c).log) /\ Latest(Perform(t, c).log, Perform(t, c).last_address)
  <1>1. PICK e, p, s, f, a, g : /\ e \in {Lit, Dark} /\ DOMAIN s = 0 .. StackSize - 1
                                /\ IsSeq(g) /\ t = Tracer(e, p, s, f, a, o, g)
    BY Zenon DEF Tracing
  <1>2. t.log = g /\ t.last_address = a
    BY <1>1, TracerFields
  <1> DEFINE u == Perform(t, c)
             b == c.access
  \* Nothing is traced.
  <1>3. ASSUME NEW d, NEW q, NEW r, u = Tracer(d, q, r, f, a, o, g)
        PROVE  Marks(u.log) /\ Latest(u.log, u.last_address)
    <2>1. u.log = g /\ u.last_address = a
      BY <1>3, TracerFields
    <2>2. QED
      BY <1>2, <2>1, Zenon
  <1>4. CASE c.op \in {"start", "end", "disable", "enable", "state"}
    <2>1. \E d, q, r : u = Tracer(d, q, r, f, a, o, g)
      <3>1. \/ \E z : u = trace_start_location(t, z)
            \/ u = trace_end_location(t)
            \/ u = trace_disable(t)
            \/ u = trace_enable(t)
            \/ u = t
        BY <1>4 DEF Perform
      <3> HIDE DEF u
      <3>2. ASSUME NEW z
            PROVE  \E d, q, r : trace_start_location(t, z) = Tracer(d, q, r, f, a, o, g)
        <4>1. CASE e = Lit
          <5>1. t = Tracer(Lit, p, s, f, a, o, g)
            BY <1>1, <4>1
          <5>2. trace_start_location(t, z) =
                  Tracer(Lit, p + 1, [s EXCEPT ![p + 1] = z], f, a, o, g)
            BY <5>1, LitStart
          <5>3. QED
            BY <5>2, Zenon
        <4>2. CASE e = Dark
          BY <1>1, <4>2, DarkLocations
        <4>3. QED
          BY <1>1, <4>1, <4>2
      <3>3. \E d, q, r : trace_end_location(t) = Tracer(d, q, r, f, a, o, g)
        <4>1. CASE e = Lit
          <5>1. trace_end_location(t) = Tracer(Lit, p - 1, s, f, a, o, g)
            BY <1>1, <4>1, LitEnd
          <5>2. QED
            BY <5>1, Zenon
        <4>2. CASE e = Dark
          BY <1>1, <4>2, DarkLocations
        <4>3. QED
          BY <1>1, <4>1, <4>2
      <3>4. /\ trace_disable(t) = Tracer(Dark, p, s, f, a, o, g)
            /\ trace_enable(t) = Tracer(Lit, p, s, f, a, o, g)
        BY <1>1, Switches
      <3>5. QED
        BY <1>1, <3>1, <3>2, <3>3, <3>4, Zenon
    <2>2. QED
      BY <1>3, <2>1, Zenon
  <1>5. CASE c.op = "access" /\ b.what = "memory"
    <2>1. u = IF e = Lit /\ MEMORY \in f
              THEN Tracer(e, p, s, f, b.n, o, Append(g, MemoryLine(p, s, f, a, b)))
              ELSE t
      <3>1. u = trace_memory(t, b)
        BY <1>5 DEF Perform
      <3> HIDE DEF u, b
      <3>2. QED
        BY <1>1, <3>1, MemoryTraced
    <2>2. CASE e = Lit /\ MEMORY \in f
      <3> DEFINE l == MemoryLine(p, s, f, a, b)
                 h == Append(g, l)
      <3>1. u = Tracer(e, p, s, f, b.n, o, h)
        BY <2>1, <2>2, Zenon
      <3>2. /\ l.access = b
        BY DEF MemoryLine
      <3>3. l.seq <=> b.n = (a + 4) % AddressMod
        BY Zenon DEF MemoryLine
      <3> HIDE DEF l, h, u, b
      <3>5. u.log = h /\ u.last_address = b.n
        BY <3>1, TracerFields
      <3>6. Marks(h) /\ Latest(h, l.access.n)
        <4>2. l.access.what = "memory" /\ (l.seq <=> l.access.n = (a + 4) % AddressMod)
          BY <1>5, <3>2, <3>3, Zenon
        <4>3. Marks(g) /\ Latest(g, a)
          BY <1>2
        <4>4. Marks(Append(g, l)) /\ Latest(Append(g, l), l.access.n)
          BY <1>1, <4>2, <4>3, MemoryMarks, Zenon
        <4>5. QED
          BY <4>4, Zenon DEF h
      <3>7. QED
        BY <3>2, <3>5, <3>6, Zenon DEF u
    <2>3. CASE ~(e = Lit /\ MEMORY \in f)
      BY <1>1, <1>3, <2>1, <2>3
    <2>4. QED
      BY <2>2, <2>3
  <1>6. CASE c.op = "access" /\ b.what = "register"
    <2>1. u = IF e = Lit /\ REGISTERS \in f
              THEN Tracer(e, p, s, f, a, o, Append(g, RegisterLine(p, s, f, b)))
              ELSE t
      <3>1. u = trace_register(t, b)
        BY <1>6 DEF Perform
      <3> HIDE DEF u, b
      <3>2. QED
        BY <1>1, <3>1, RegisterTraced
    <2>2. CASE e = Lit /\ REGISTERS \in f
      <3> DEFINE l == RegisterLine(p, s, f, b)
                 h == Append(g, l)
      <3>1. u = Tracer(e, p, s, f, a, o, h)
        BY <2>1, <2>2, Zenon
      <3>2. l.access = b
        BY DEF RegisterLine
      <3> HIDE DEF l, h, u, b
      <3>3. u.log = h /\ u.last_address = a
        BY <3>1, TracerFields
      <3>4. Marks(Append(g, l)) /\ Latest(Append(g, l), a)
        <4>1. l.access.what # "memory" /\ Marks(g) /\ Latest(g, a)
          BY <1>2, <1>6, <3>2
        <4>2. QED
          BY <1>1, <4>1, RegisterMarks
      <3>5. QED
        BY <3>3, <3>4, Zenon DEF u, h
    <2>3. CASE ~(e = Lit /\ REGISTERS \in f)
      BY <1>1, <1>3, <2>1, <2>3
    <2>4. QED
      BY <2>2, <2>3
  <1>7. QED
    BY <1>4, <1>5, <1>6 DEF Move

-----------------------------------------------------------------------------
(* The inductive invariant                                                 *)

\* Only the thread with the lock has work left.  That work leads from where
\* the tracer is back to the trace on and the stack empty, and traces what is
\* missing of what is due.
WorkLeads == /\ todo = [w \in Threads |-> todo[w]]
             /\ \A w \in Threads : w # lock => todo[w] = << >>
             /\ IsSeq(due)
             /\ \E x, r : /\ At(tracer, x) /\ Shown(tracer.log) \o r = due
                          /\ lock = "free" => x = Ground /\ r = << >>
                          /\ lock # "free" =>
                               Plan(tracer.flags, todo[lock], x, Ground, r)

\* The tracer remembers the last memory access it traced.
MarksRight == Marks(tracer.log) /\ Latest(tracer.log, tracer.last_address)

\* Types; that the stack stays inside its arrays follows from WorkLeads.
RunTypes == /\ stage \in {"options", "trace_file", "create", "run", "exited",
                          "undefined", "crashed"}
            /\ trace_file \in {"stdout", "file"}
            /\ options \in 0 .. MaxOptions /\ jobs \in 0 .. MaxJobs
            /\ tracer.enabled \in BOOLEAN /\ pc \in 0 .. AddressMod - 1
            /\ lock \in Threads \union {"free"}

\* main prints nothing before its threads exist, and they find a file.
Started == /\ stage \in {"options", "trace_file", "create"} => lock = "free"
           /\ stage \in {"create", "run"} => tracer.output = trace_file

\* The table is not asked while it is still being filled.
AskedLate == stage = "options" => cached = {}

RunInv == /\ RunTypes /\ Tracing(tracer, tracer.output)
          /\ WorkLeads /\ MarksRight
          /\ Started /\ AskedLate /\ CacheIsTrue /\ TracedToAFile

LEMMA TracingOutput ==
  ASSUME NEW t, NEW o, Tracing(t, o)
  PROVE  t.output = o /\ t.enabled \in BOOLEAN /\ IsSeq(t.log)
  <1>1. PICK e, p, s, f, a, g : /\ e \in {Lit, Dark} /\ IsSeq(g)
                                /\ t = Tracer(e, p, s, f, a, o, g)
    BY Zenon DEF Tracing
  <1>2. t.output = o /\ t.enabled = e /\ t.log = g
    BY <1>1, TracerFields
  <1>3. e \in BOOLEAN
    BY <1>1, Zenon DEF Lit, Dark
  <1>4. QED
    BY <1>1, <1>2, <1>3, Zenon

LEMMA InitRunInv == Init => RunInv
  <1> SUFFICES ASSUME Init
               PROVE  RunInv
    OBVIOUS
  <1> DEFINE sites == [i \in 0 .. StackSize - 1 |-> NoSite]
  <1>1. tracer = Tracer(Lit, -1, sites, {}, FirstAddress, NoFile, << >>)
    BY Zenon DEF Init, InitialTracer, Tracer, Lit
  <1>2. DOMAIN sites = 0 .. StackSize - 1
    OBVIOUS
  <1> HIDE DEF sites
  <1>3. Tracing(tracer, NoFile)
    BY <1>1, <1>2, EmptySeqFacts, TracingOf
  <1>4. tracer.output = NoFile /\ tracer.enabled \in BOOLEAN
    BY <1>3, TracingOutput, Zenon
  <1>5. At(tracer, Ground)
    <2>1. Ground.level = -1 /\ -1 \in Level /\ -1 # Off /\ ~(-1 >= 0) /\ -1 # 1
      BY DEF Ground, Level, Off
    <2>2. QED
      BY <1>1, <2>1, AtLit
  <1>6. RunTypes
    BY <1>4, RunAssumption DEF Init, RunTypes
  <1>7. tracer.log = << >> /\ tracer.last_address = FirstAddress
    BY <1>1, TracerFields
  <1>8. Shown(<< >>) \o << >> = << >>
    <2>1. Shown(<< >>) = << >>
      BY EmptySeqFacts, ShownFacts, SameSeq
    <2>2. QED
      BY <2>1, EmptySeqFacts, ConcatEmpty
  <1>9. WorkLeads
    BY <1>5, <1>7, <1>8, EmptySeqFacts, Zenon DEF Init, WorkLeads
  <1>10. Memories(<< >>) = {}
    BY DEF Memories
  <1>11. MarksRight
    BY <1>7, <1>10, Zenon DEF MarksRight, Marks, Latest
  <1>13. QED
    BY <1>3, <1>4, <1>6, <1>9, <1>11, Zenon
    DEF Init, RunInv, Started, AskedLate, CacheIsTrue, TracedToAFile

\* An option changes flags at most, before there is any work.
LEMMA OptionsKeep ==
  ASSUME RunInv, \/ OptionTrace \/ OptionDebug \/ OptionFile \/ OptionExit
  PROVE  RunInv'
  <1>1. /\ stage = "options" /\ cached = {} /\ cached' = {} /\ lock = "free"
        /\ stage' \in {"options", "undefined", "exited"}
        /\ trace_file' \in {"stdout", "file"}
        /\ options' \in 0 .. MaxOptions /\ jobs' = jobs /\ lock' = lock /\ todo' = todo
        /\ pc' = pc /\ due' = due
    BY RunAssumption DEF RunInv, RunTypes, Started, AskedLate, OptionTrace, OptionDebug,
      OptionFile, OptionExit, Option, workVars
  <1>2. tracer' = tracer \/ \E f : tracer' = trace_add(tracer, f)
    BY DEF OptionTrace, OptionDebug, OptionFile, OptionExit
  <1>3. /\ Tracing(tracer', tracer.output)
        /\ At(tracer, Ground) => At(tracer', Ground)
        /\ tracer'.log = tracer.log /\ tracer'.last_address = tracer.last_address
    <2> DEFINE o == tracer.output
    <2>0. Tracing(tracer, o)
      BY DEF RunInv
    <2> HIDE DEF o
    <2>1. PICK e, p, s, f, a, g : /\ e \in {Lit, Dark} /\ DOMAIN s = 0 .. StackSize - 1
                                  /\ IsSeq(g) /\ tracer = Tracer(e, p, s, f, a, o, g)
      BY <2>0, Zenon DEF Tracing
    <2>2. \E h : tracer' = Tracer(e, p, s, h, a, o, g)
      <3>1. CASE tracer' = tracer
        BY <2>1, <3>1, Zenon
      <3>2. ASSUME NEW x, tracer' = trace_add(tracer, x)
            PROVE  tracer' = Tracer(e, p, s, f \union {x}, a, o, g)
        BY <2>1, <3>2, FlagAdded
      <3>3. QED
        BY <1>2, <3>1, <3>2, Zenon
    <2>3. PICK h : tracer' = Tracer(e, p, s, h, a, o, g)
      BY <2>2
    <2>4. Tracing(tracer', o)
      BY <2>1, <2>3, TracingOf
    <2>5. At(tracer, Ground) => At(tracer', Ground)
      BY <2>1, <2>3, AtLit, AtDark
    <2>6. tracer'.log = g /\ tracer'.last_address = a /\ tracer.log = g /\ tracer.last_address = a
      BY <2>1, <2>3, TracerFields
    <2>7. QED
      BY <2>4, <2>5, <2>6 DEF o
  <1>4. tracer'.output = tracer.output /\ tracer'.enabled \in BOOLEAN
    BY <1>3, TracingOutput, Zenon
  <1>5. RunTypes'
    BY <1>1, <1>4 DEF RunInv, RunTypes
  <1>6. WorkLeads'
    BY <1>1, <1>3, Zenon DEF RunInv, WorkLeads
  <1>7. MarksRight'
    BY <1>3, Zenon DEF RunInv, MarksRight
  <1>9. QED
    BY <1>1, <1>3, <1>4, <1>5, <1>6, <1>7
    DEF RunInv, Started, AskedLate, CacheIsTrue, TracedToAFile

\* gdb_init asks the table, which no option will change any more.
LEMMA GdbInitKeeps ==
  ASSUME RunInv, GdbInit
  PROVE  RunInv'
  <1>1. /\ stage = "options" /\ stage' = "trace_file" /\ tracer' = tracer
        /\ cached' = {is_debugged(table', GdbFile)} /\ UNCHANGED <<trace_file, options>>
        /\ UNCHANGED <<lock, todo, jobs, pc, due>>
    BY DEF GdbInit, workVars
  <1>2. RunTypes'
    BY <1>1 DEF RunInv, RunTypes
  <1>3. WorkLeads' /\ MarksRight'
    BY <1>1 DEF RunInv, WorkLeads, MarksRight
  <1>4. QED
    BY <1>1, <1>2, <1>3
    DEF RunInv, Started, AskedLate, CacheIsTrue, TracedToAFile

LEMMA SetTraceFileKeeps ==
  ASSUME RunInv, SetTraceFile
  PROVE  RunInv'
  <1>1. /\ stage = "trace_file" /\ stage' = "create"
        /\ tracer' = set_trace_file(tracer, trace_file)
        /\ UNCHANGED <<trace_file, options, table, cached, lock, todo, jobs, pc, due>>
    BY DEF SetTraceFile, workVars
  <1>2. /\ Tracing(tracer', trace_file)
        /\ At(tracer, Ground) => At(tracer', Ground)
        /\ tracer'.log = tracer.log /\ tracer'.last_address = tracer.last_address
    <2> DEFINE o == tracer.output
    <2>0. Tracing(tracer, o)
      BY DEF RunInv
    <2> HIDE DEF o
    <2>1. PICK e, p, s, f, a, g : /\ e \in {Lit, Dark} /\ DOMAIN s = 0 .. StackSize - 1
                                  /\ IsSeq(g) /\ tracer = Tracer(e, p, s, f, a, o, g)
      BY <2>0, Zenon DEF Tracing
    <2>2. tracer' = Tracer(e, p, s, f, a, trace_file, g)
      BY <1>1, <2>1, FileSet
    <2>3. Tracing(tracer', trace_file)
      BY <2>1, <2>2, TracingOf
    <2>4. At(tracer, Ground) => At(tracer', Ground)
      BY <2>1, <2>2, AtLit, AtDark
    <2>5. tracer'.log = g /\ tracer'.last_address = a /\ tracer.log = g /\ tracer.last_address = a
      BY <2>1, <2>2, TracerFields
    <2>6. QED
      BY <2>3, <2>4, <2>5
  <1>3. tracer'.output = trace_file /\ tracer'.enabled \in BOOLEAN
    BY <1>2, TracingOutput, Zenon
  <1>4. RunTypes'
    BY <1>1, <1>3 DEF RunInv, RunTypes
  <1>5. WorkLeads'
    <2>1. lock = "free"
      BY <1>1 DEF RunInv, Started
    <2>2. QED
      BY <1>1, <1>2, <2>1, Zenon DEF RunInv, WorkLeads
  <1>6. MarksRight'
    BY <1>2, Zenon DEF RunInv, MarksRight
  <1>8. QED
    BY <1>1, <1>2, <1>3, <1>4, <1>5, <1>6
    DEF RunInv, Started, AskedLate, CacheIsTrue, TracedToAFile

\* Some work that leads back to where it starts, begun with the lock free.
LEMMA BeginKeeps ==
  ASSUME RunInv, NEW who \in Threads, NEW work, NEW lines, Begin(who, work, lines),
         Plan(tracer.flags, work, Ground, Ground, lines)
  PROVE  WorkLeads' /\ IsSeq(due) /\ IsSeq(lines)
  <1>1. /\ lock = "free" /\ lock' = who /\ tracer' = tracer /\ due' = due \o lines
        /\ todo' = [todo EXCEPT ![who] = work]
    BY DEF Begin
  <1>2. At(tracer, Ground) /\ Shown(tracer.log) \o << >> = due /\ IsSeq(due)
    BY <1>1, Zenon DEF RunInv, WorkLeads
  <1>3. Shown(tracer.log) = due
    <2>1. IsSeq(tracer.log)
      BY TracingOutput DEF RunInv
    <2>2. IsSeq(Shown(tracer.log))
      BY <2>1, ShownFacts
    <2>3. QED
      BY <1>2, <2>2, ConcatEmpty
  <1>4. /\ todo'[who] = work
        /\ \A w \in Threads : w # who => todo'[w] = << >>
        /\ todo' = [w \in Threads |-> todo'[w]]
    <2>1. DOMAIN todo = Threads /\ \A w \in Threads : todo[w] = << >>
      BY <1>1 DEF RunInv, WorkLeads, Threads
    <2>2. QED
      BY <1>1, <2>1 DEF RunInv, WorkLeads
  <1>5. who # "free"
    BY DEF Threads
  <1>6. IsSeq(lines)
    BY DEF Plan
  <1>7. IsSeq(due \o lines)
    BY <1>2, <1>6, ConcatFacts
  <1>8. WorkLeads'
    <2>1. Shown(tracer'.log) \o lines = due'
      BY <1>1, <1>3, Zenon
    <2>2. Plan(tracer'.flags, todo'[lock'], Ground, Ground, lines)
      BY <1>1, <1>4, Zenon
    <2>3. At(tracer', Ground) /\ IsSeq(due') /\ lock' # "free"
      BY <1>1, <1>2, <1>5, <1>7, Zenon
    <2>4. \A w \in Threads : w # lock' => todo'[w] = << >>
      BY <1>1, <1>4, Zenon
    <2>5. QED
      BY <1>4, <2>1, <2>2, <2>3, <2>4, Zenon DEF WorkLeads
  <1>9. QED
    BY <1>2, <1>6, <1>8

\* One call of the thread with the lock.
LEMMA WorkKeeps ==
  ASSUME RunInv, stage \notin {"exited", "undefined", "crashed"},
         NEW who \in Threads, Work(who)
  PROVE  RunInv'
  <1> DEFINE c == Head(todo[who])
             dump == IF c.op = "state" /\ tracer.enabled THEN StateDump ELSE << >>
  <1>1. /\ todo[who] # << >>
        /\ tracer' = Perform(tracer, c)
        /\ todo' = [todo EXCEPT ![who] = dump \o Tail(todo[who])]
        /\ stage' = IF tracer'.log # tracer.log /\ tracer.output = NoFile
                    THEN "crashed" ELSE stage
        /\ UNCHANGED <<trace_file, options, given, table, cached, lock, pc, jobs, due>>
    BY Zenon DEF Work
  <1>2. lock = who /\ who # "free"
    BY <1>1 DEF RunInv, WorkLeads, Threads
  <1>3. PICK x, r : /\ At(tracer, x) /\ Shown(tracer.log) \o r = due
                    /\ Plan(tracer.flags, todo[who], x, Ground, r)
    BY <1>2, Zenon DEF RunInv, WorkLeads
  <1>4. PICK y, q : /\ y.level \in Level /\ Move(x, c, y) /\ IsSeq(q)
                    /\ r = Emits(tracer.flags, x, c) \o q
                    /\ Plan(tracer.flags, Tail(todo[who]), y, Ground, q)
    BY <1>1, <1>3, PlanTail
  <1> DEFINE now == Traced(tracer.flags, x, c)
  \* What the step does not trace itself is left to the work it makes.
  <1>5. PICK later : /\ Plan(tracer.flags, dump \o Tail(todo[who]), y, Ground, later)
                     /\ r = now \o later /\ IsSeq(later) /\ IsSeq(now)
    <2>1. CASE c.op # "state"
      <3>1. now = Emits(tracer.flags, x, c) /\ dump = << >>
        BY <2>1 DEF Traced
      <3>2. Plan(tracer.flags, << >> \o Tail(todo[who]), y, Ground, q)
        <4>1. IsSeq(Tail(todo[who]))
          BY <1>4 DEF Plan
        <4>2. << >> \o Tail(todo[who]) = Tail(todo[who])
          BY <4>1, ConcatEmpty
        <4>3. QED
          BY <1>4, <4>2, Zenon
      <3>3. IsSeq(now)
        BY <3>1, EmitsSeq
      <3>4. QED
        BY <1>4, <3>1, <3>2, <3>3, Zenon
    <2>2. CASE c.op = "state"
      <3>1. now = << >> /\ y = x /\ x.level \in {Off, -1}
        BY <1>4, <2>2 DEF Traced, Move
      <3>2. IsSeq(Emits(tracer.flags, x, c)) /\ IsSeq(r)
        BY <1>3, EmitsSeq DEF Plan
      <3>3. << >> \o r = r
        BY <3>2, ConcatEmpty
      <3>4. Plan(tracer.flags, dump, x, x, Emits(tracer.flags, x, c))
        <4>1. CASE x.level = -1
          <5>0. x.level # Off
            BY <4>1, SMT DEF Off
          <5>1. tracer.enabled
            BY <1>3, <5>0, Zenon DEF At
          <5>2. dump = StateDump
            BY <2>2, <5>1, Zenon
          <5>3. Emits(tracer.flags, x, c) = StateLines
            BY <2>2, <4>1, LinesOf DEF Emits, Off
          <5>4. QED
            BY <4>1, <5>2, <5>3, PlanDump
        <4>2. CASE x.level = Off
          <5>1. ~tracer.enabled
            BY <1>3, <4>2, Zenon DEF At
          <5>2. dump = << >>
            BY <5>1, Zenon
          <5>3. Emits(tracer.flags, x, c) = << >> /\ x.level \in Level
            BY <4>2 DEF Emits, Level, Off
          <5>4. QED
            BY <5>2, <5>3, PlanNothing
        <4>3. QED
          BY <3>1, <4>1, <4>2
      <3> HIDE DEF dump
      <3>5. Plan(tracer.flags, dump \o Tail(todo[who]), x, Ground,
                 Emits(tracer.flags, x, c) \o q)
        BY <1>4, <3>1, <3>4, PlanConcat
      <3>6. Plan(tracer.flags, dump \o Tail(todo[who]), y, Ground, r)
        BY <1>4, <3>1, <3>5
      <3>7. QED
        BY <3>1, <3>2, <3>3, <3>6, EmptySeqFacts, Zenon
    <2>3. QED
      BY <2>1, <2>2
  <1> HIDE DEF c, dump
  <1>6. /\ Tracing(tracer', tracer.output) /\ At(tracer', y)
        /\ tracer'.flags = tracer.flags
        /\ Shown(tracer'.log) = Shown(tracer.log) \o now
    BY <1>1, <1>3, <1>4, PerformMoves DEF RunInv
  <1> HIDE DEF now
  <1>7. /\ tracer'.output = tracer.output /\ tracer'.enabled \in BOOLEAN
        /\ IsSeq(tracer.log) /\ IsSeq(tracer'.log)
    BY <1>6, TracingOutput, Zenon DEF RunInv
  <1>8. Shown(tracer'.log) \o later = due
    <2> DEFINE v == Shown(tracer.log)
    <2>1. IsSeq(v) /\ IsSeq(now) /\ IsSeq(later)
      BY <1>5, <1>7, ShownFacts
    <2> HIDE DEF v
    <2>2. (v \o now) \o later = v \o (now \o later)
      BY <2>1, ConcatAssoc
    <2>3. QED
      BY <1>3, <1>5, <1>6, <2>2, Zenon DEF v
  <1>9. MarksRight'
    BY <1>1, <1>4, PerformMarks DEF RunInv, MarksRight
  <1>10. stage = "run" /\ stage' = stage
    <2>1. stage = "run"
      BY <1>2 DEF RunInv, RunTypes, Started
    <2>2. tracer.output # NoFile
      BY <2>1, RunAssumption DEF RunInv, RunTypes, Started
    <2>3. QED
      BY <1>1, <2>1, <2>2
  <1>11. WorkLeads'
    <2>1. DOMAIN todo = Threads
      BY DEF RunInv, WorkLeads
    <2>2. /\ todo'[who] = dump \o Tail(todo[who])
          /\ \A w \in Threads : w # who => todo'[w] = todo[w]
          /\ todo' = [w \in Threads |-> todo'[w]]
      BY <1>1, <2>1
    <2>3. \A w \in Threads : w # lock' => todo'[w] = << >>
      BY <1>1, <1>2, <2>2 DEF RunInv, WorkLeads
    <2>4. Plan(tracer'.flags, todo'[lock'], y, Ground, later)
      BY <1>1, <1>2, <1>5, <1>6, <2>2
    <2>5. IsSeq(due') /\ Shown(tracer'.log) \o later = due'
      BY <1>1, <1>8, Zenon DEF RunInv, WorkLeads
    <2>6. lock' # "free"
      BY <1>1, <1>2
    <2>7. QED
      BY <1>6, <2>2, <2>3, <2>4, <2>5, <2>6, Zenon DEF WorkLeads
  <1>12. RunTypes'
    BY <1>1, <1>7, <1>10 DEF RunInv, RunTypes
  <1>14. QED
    BY <1>1, <1>2, <1>6, <1>7, <1>10, <1>11, <1>12, <1>9
    DEF RunInv, Started, AskedLate, CacheIsTrue, TracedToAFile

LEMMA ReleaseKeeps ==
  ASSUME RunInv, stage \notin {"exited", "undefined", "crashed"},
         NEW who \in Threads, Release(who)
  PROVE  RunInv'
  <1>1. /\ lock = who /\ todo[who] = << >> /\ lock' = "free"
        /\ UNCHANGED <<stage, trace_file, options, table, cached, tracer, todo, jobs>>
        /\ UNCHANGED <<pc, due>>
    BY DEF Release, startVars
  <1>2. who # "free"
    BY DEF Threads
  <1>3. PICK x, r : /\ At(tracer, x) /\ Shown(tracer.log) \o r = due
                    /\ Plan(tracer.flags, << >>, x, Ground, r)
    BY <1>1, <1>2, Zenon DEF RunInv, WorkLeads
  <1>4. At(tracer', Ground) /\ Shown(tracer'.log) \o << >> = due' /\ IsSeq(due')
    <2>1. x = Ground /\ r = << >>
      BY <1>3, PlanDone
    <2>2. QED
      BY <1>1, <1>3, <2>1, Zenon DEF RunInv, WorkLeads
  <1>5. \A w \in Threads : todo'[w] = << >>
    BY <1>1 DEF RunInv, WorkLeads
  <1>6. WorkLeads'
    <2>1. todo' = [w \in Threads |-> todo'[w]]
      BY <1>1 DEF RunInv, WorkLeads
    <2>2. QED
      BY <1>1, <1>4, <1>5, <2>1, Zenon DEF WorkLeads
  <1>7. RunTypes' /\ MarksRight'
    BY <1>1 DEF RunInv, RunTypes, MarksRight
  <1>8. QED
    BY <1>1, <1>6, <1>7
    DEF RunInv, Started, AskedLate, CacheIsTrue, TracedToAFile

\* A piece of work begun in a running process, or by arm_create.
LEMMA BegunKeeps ==
  ASSUME RunInv, NEW who \in Threads, lock' = who, tracer' = tracer,
         WorkLeads', pc' \in 0 .. AddressMod - 1, stage \in {"create", "run"}, stage' = "run",
         jobs' \in 0 .. MaxJobs, UNCHANGED <<trace_file, options, table, cached>>
  PROVE  RunInv'
  <1>1. RunTypes'
    BY DEF RunInv, RunTypes
  <1>2. MarksRight'
    BY DEF RunInv, MarksRight
  <1>3. QED
    BY <1>1, <1>2 DEF RunInv, Started, AskedLate, CacheIsTrue, TracedToAFile

\* An instruction leaves a word in r15.
LEMMA TargetsAreWords ==
  ASSUME NEW v \in 0 .. AddressMod - 1, NEW k
  PROVE  Targets(k, v) \subseteq 0 .. AddressMod - 1
  <1>1. FetchAddress(v) \in Int
    <2> DEFINE w == (v + 4) % AddressMod
               b == w - 2 * ((w \div 2) % 2) + AddressMod - 4
    <2>1. AddressMod \in Nat /\ AddressMod > 0
      BY StackAssumption
    <2>2. w \in Int
      BY <2>1
    <2> HIDE DEF w
    <2>3. b \in Int
      BY <2>1, <2>2
    <2> HIDE DEF b
    <2>4. b % AddressMod \in Int
      BY <2>1, <2>3
    <2>5. FetchAddress(v) = b % AddressMod
      BY DEF FetchAddress, b, w
    <2>6. QED
      BY <2>4, <2>5
  <1>2. (FetchAddress(v) + 4) % AddressMod \in 0 .. AddressMod - 1
    BY <1>1, StackAssumption
  <1>3. QED
    BY <1>2, RunAssumption DEF Targets

LEMMA NextRunInv == RunInv /\ [Next]_vars => RunInv'
  <1> SUFFICES ASSUME RunInv, [Next]_vars
               PROVE  RunInv'
    OBVIOUS
  <1>1. CASE Next /\ (OptionTrace \/ OptionDebug \/ OptionFile \/ OptionExit)
    BY <1>1, OptionsKeep
  <1>2. CASE GdbInit
    BY <1>2, GdbInitKeeps
  <1>3. CASE SetTraceFile
    BY <1>3, SetTraceFileKeeps
  \* What a piece of work leaves to show once its plan is known.
  <1>4. ASSUME NEW who \in Threads, NEW work, NEW lines, Begin(who, work, lines),
               Plan(tracer.flags, work, Ground, Ground, lines)
        PROVE  WorkLeads' /\ lock' = who /\ tracer' = tracer
    <2>1. WorkLeads'
      BY <1>4, BeginKeeps
    <2>2. QED
      BY <1>4, <2>1 DEF Begin
  <1>5. ASSUME Job
        PROVE  /\ stage \in {"create", "run"} /\ stage' = "run"
               /\ jobs' \in 0 .. MaxJobs /\ UNCHANGED <<trace_file, options, table, cached>>
    BY <1>5, RunAssumption DEF Job, RunInv, RunTypes, startVars
  <1>6. pc \in 0 .. AddressMod - 1
    BY DEF RunInv, RunTypes
  <1>7. CASE ArmCreate
    <2>1. Begin("main", arm_exception, ExceptionLines) /\ stage = "create" /\ stage' = "run"
      BY <1>7 DEF ArmCreate
    <2>2. WorkLeads' /\ lock' = "main" /\ tracer' = tracer
      BY <1>4, <2>1, PlanException DEF Threads
    <2>3. /\ jobs' \in 0 .. MaxJobs /\ pc' = pc
          /\ UNCHANGED <<trace_file, options, table, cached>>
      BY <1>7 DEF ArmCreate, RunInv, RunTypes
    <2>4. QED
      BY <1>6, <2>1, <2>2, <2>3, BegunKeeps DEF Threads
  <1>8. CASE GdbHidden \/ GdbSetsPc
    <2>1. /\ Job
          /\ \E work \in {read_register(0), read_register(PC), write_register(0),
                           write_register(PC), read_general_registers,
                           write_general_registers, Ahead(pc)} :
               Begin("gdb", work, << >>)
      BY <1>8, Zenon DEF GdbHidden, GdbSetsPc
    <2>2. PICK work : /\ Begin("gdb", work, << >>)
                      /\ Plan(tracer.flags, work, Ground, Ground, << >>)
      BY <2>1, PlanReads, Zenon
    <2>3. pc' \in 0 .. AddressMod - 1
      BY <1>6, <1>8, RunAssumption DEF GdbHidden, GdbSetsPc
    <2>4. WorkLeads' /\ lock' = "gdb" /\ tracer' = tracer
      BY <1>4, <2>2 DEF Threads
    <2>5. QED
      BY <1>5, <2>1, <2>3, <2>4, BegunKeeps DEF Threads
  <1>9. CASE GdbStep
    <2>1. PICK k \in Kinds : /\ Begin("gdb", step(k, pc),
                                     InstructionLines(k, FetchAddress(pc)) \o StateLines)
                             /\ pc' \in Targets(k, pc)
      BY <1>9 DEF GdbStep
    <2>2. Job
      BY <1>9 DEF GdbStep
    <2>3. WorkLeads' /\ lock' = "gdb" /\ tracer' = tracer
      BY <1>4, <2>1, PlanInstruction DEF Threads
    <2>4. pc' \in 0 .. AddressMod - 1
      BY <1>6, <2>1, TargetsAreWords
    <2>5. QED
      BY <1>5, <2>2, <2>3, <2>4, BegunKeeps DEF Threads
  <1>10. CASE GdbCont
    <2>1. PICK k \in Kinds : \E next \in Targets(k, pc) :
            /\ Begin("gdb", Ahead(pc) \o step(k, pc) \o Ahead(next),
                     InstructionLines(k, FetchAddress(pc)) \o StateLines)
            /\ pc' = next
      BY <1>10 DEF GdbCont
    <2>2. PICK next \in Targets(k, pc) :
            /\ Begin("gdb", Ahead(pc) \o step(k, pc) \o Ahead(next),
                     InstructionLines(k, FetchAddress(pc)) \o StateLines)
            /\ pc' = next
      BY <2>1
    <2>3. Plan(tracer.flags, Ahead(pc) \o step(k, pc) \o Ahead(next),
               Ground, Ground, InstructionLines(k, FetchAddress(pc)) \o StateLines)
      <3>1. Plan(tracer.flags, Ahead(pc) \o step(k, pc), Ground, Ground,
                 InstructionLines(k, FetchAddress(pc)) \o StateLines)
        BY PlanInstruction, PlanReads, PlanQuiet
      <3>2. QED
        BY <3>1, PlanReads, PlanQuiet
    <2>4. WorkLeads' /\ lock' = "gdb" /\ tracer' = tracer
      BY <1>4, <2>2, <2>3 DEF Threads
    <2>5. Job
      BY <1>10 DEF GdbCont
    <2>6. pc' \in 0 .. AddressMod - 1
      BY <1>6, <2>2, TargetsAreWords
    <2>7. QED
      BY <1>5, <2>4, <2>5, <2>6, BegunKeeps DEF Threads
  <1>11. CASE IrqReset
    <2>1. Begin("irq", arm_exception, ExceptionLines) /\ Job /\ pc' = pc
      BY <1>11 DEF IrqReset
    <2>2. WorkLeads' /\ lock' = "irq" /\ tracer' = tracer
      BY <1>4, <2>1, PlanException DEF Threads
    <2>3. QED
      BY <1>5, <1>6, <2>1, <2>2, BegunKeeps DEF Threads
  <1>12. CASE Next /\ \E who \in Threads : Work(who) \/ Release(who)
    BY <1>12, WorkKeeps, ReleaseKeeps DEF Next
  <1>13. CASE UNCHANGED vars
    <2>1. /\ UNCHANGED <<stage, trace_file, options, table, cached, tracer, lock, todo, jobs>>
          /\ UNCHANGED <<pc, due>>
      BY <1>13 DEF vars, startVars, workVars
    <2>2. WorkLeads' /\ MarksRight'
      BY <2>1 DEF RunInv, WorkLeads, MarksRight
    <2>3. QED
      BY <2>1, <2>2
      DEF RunInv, RunTypes, Started, AskedLate, CacheIsTrue, TracedToAFile
  <1>14. QED
    BY <1>1, <1>2, <1>3, <1>7, <1>8, <1>9, <1>10, <1>11, <1>12, <1>13 DEF Next

LEMMA RunInvariant == Spec => []RunInv
  BY InitRunInv, NextRunInv, PTL DEF Spec

-----------------------------------------------------------------------------
\* The types of the process: for every stack of at least two entries the
\* index of the location stack stays inside the arrays of trace.c, the macros
\* nested in the arguments of others included.
THEOREM RunTypeCorrect == Spec => []TypeOK
  <1>1. ASSUME RunInv
        PROVE  TypeOK
    <2>1. PICK x : At(tracer, x)
      BY <1>1, Zenon DEF RunInv, WorkLeads
    <2>2. x.level \in Level /\ tracer.top = IF x.level = Off THEN -1 ELSE x.level
      BY <2>1, Zenon DEF At
    <2>3. tracer.top \in -1 .. StackSize - 1
      BY <2>2, StackAssumption DEF Level, Off
    <2>4. QED
      BY <1>1, <2>3, Zenon DEF RunInv, RunTypes, TypeOK
  <1>2. QED
    BY <1>1, RunInvariant, PTL

\* For every set of options and every interleaving: when no thread is at work
\* the trace is on and its location stack empty.
THEOREM TraceIsRestored == Spec => []TraceRestored
  <1>1. ASSUME RunInv
        PROVE  TraceRestored
    <2>1. PICK x : At(tracer, x) /\ (lock = "free" => x = Ground)
      BY <1>1, Zenon DEF RunInv, WorkLeads
    <2>2. -1 # Off /\ Ground.level = -1
      BY DEF Off, Ground
    <2>3. QED
      BY <2>1, <2>2, Zenon DEF TraceRestored, Idle, At
  <1>2. QED
    BY <1>1, RunInvariant, PTL

\* Nothing is printed before set_trace_file: the reset of arm_create, the
\* first traced accesses, finds the file main has chosen.
THEOREM TraceHasAFile == Spec => []TracedToAFile
  <1>1. RunInv => TracedToAFile
    BY DEF RunInv
  <1>2. QED
    BY <1>1, RunInvariant, PTL

\* The answer a file keeps in is_debugged_result is the table's answer as
\* long as the process runs, whatever the search computes.
THEOREM CacheStaysTrue == Spec => []CacheIsTrue
  <1>1. RunInv => CacheIsTrue
    BY DEF RunInv
  <1>2. QED
    BY <1>1, RunInvariant, PTL

\* Whatever the options, the interleaving of the threads and the number of
\* registers and modes: when no thread is at work, the trace is the list of
\* the wanted accesses of the processor, in its order and each with the call
\* it belongs to, and of nothing gdb has looked at.
THEOREM TraceIsTheExecution == Spec => []TraceIsExecution
  <1>1. ASSUME RunInv, Idle
        PROVE  Shown(tracer.log) = due
    <2>1. Shown(tracer.log) \o << >> = due
      BY <1>1, Zenon DEF RunInv, WorkLeads, Idle
    <2>2. IsSeq(tracer.log)
      BY <1>1, TracingOutput DEF RunInv
    <2>3. IsSeq(Shown(tracer.log))
      BY <2>2, ShownFacts
    <2>4. QED
      BY <2>1, <2>3, ConcatEmpty
  <1>2. RunInv => TraceIsExecution
    BY <1>1, Zenon DEF TraceIsExecution, Shown, Short
  <1>3. QED
    BY <1>2, RunInvariant, PTL

\* Wherever the pc starts and gdb sets it: an access is marked sequential
\* exactly when it is 4 bytes after the one traced before it, modulo the
\* number of addresses and whatever gdb reads in between; the first one when
\* it is 4 bytes after the address last_address starts with.
THEOREM MarksAreSequential == Spec => []SequentialMarks
  <1>1. RunInv => Marks(tracer.log)
    BY DEF RunInv, MarksRight
  <1>2. Marks(tracer.log) => SequentialMarks
    BY Zenon DEF Marks, Sequential, After, First, Memories, SequentialMarks
  <1>3. QED
    BY <1>1, <1>2, RunInvariant, PTL
=============================================================================

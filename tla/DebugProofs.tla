---------------------------- MODULE DebugProofs -----------------------------
(***************************************************************************)
(* The debug table: whatever names it is given, in whatever order, it      *)
(* stays sorted, and in a sorted table of any length the binary search of  *)
(* __is_debugged finds a name exactly when it is there.                    *)
(*                                                                         *)
(* The proofs go by induction on the length of the range searched, in the  *)
(* form of the least counterexample.                                       *)
(***************************************************************************)
EXTENDS TracedRun, FiniteSetTheorems, SequenceTheorems, WellFoundedInduction,
        TLAPS

\* A set of natural numbers that is not empty has a least element.
LEMMA LeastOf ==
  ASSUME NEW T, T \subseteq Nat, T # {}
  PROVE  \E x \in T : \A y \in T : x <= y
  <1> DEFINE R == OpToRel(<, Nat)
  <1>1. IsWellFoundedOn(R, Nat)
    BY NatLessThanWellFounded
  <1>2. \A x, y \in Nat : x < y => <<x, y>> \in R
    BY DEF OpToRel
  <1> HIDE DEF R
  <1>3. PICK x \in T : \A y \in T : ~(<<y, x>> \in R)
    BY <1>1, WFMin
  <1>4. ASSUME NEW y \in T
        PROVE  x <= y
    <2>1. x \in Nat /\ y \in Nat /\ ~(y < x)
      BY <1>2, <1>3
    <2>2. QED
      BY <2>1
  <1>5. QED
    BY <1>4

Sorted(t) == \A i, j \in 1 .. Len(t) : i <= j => t[i] <= t[j]
Names(t) == {t[i] : i \in 1 .. Len(t)}

-----------------------------------------------------------------------------
(* The search                                                              *)

Ranges(t) == (0 .. Len(t)) \X (-1 .. Len(t) - 1)

\* One round of the loop of __is_debugged, the rounds after it answered by g.
Round(t, name, g, r) ==
  LET from == r[1]
      to == r[2]
      middle == (from + to) \div 2
      found == t[middle + 1]
  IN  IF from < to
      THEN CASE found < name -> g[<<middle + 1, to>>]
             [] found > name -> g[<<from, middle - 1>>]
             [] OTHER        -> TRUE
      ELSE from = to /\ t[from + 1] = name

\* g answers as the code does.
Answers(t, name, g) == g = [r \in Ranges(t) |-> Round(t, name, g, r)]

\* The name is among the entries from .. to.
Among(t, name, from, to) == \E k \in from .. to : t[k + 1] = name

LEMMA SearchIsChosen ==
  ASSUME NEW t, NEW name
  PROVE  is_debugged(t, name) =
           (CHOOSE g : Answers(t, name, g))[<<0, Len(t) - 1>>]
  BY Zenon DEF is_debugged, Answers, Round, Ranges

\* Dropping the half without the name keeps what there is to find.
LEMMA HalfIsEnough ==
  ASSUME NEW t \in Seq(Int), Sorted(t), NEW name \in Int,
         NEW from \in 0 .. Len(t), NEW to \in -1 .. Len(t) - 1, from < to,
         NEW m, m = (from + to) \div 2
  PROVE  /\ m \in from .. to - 1
         /\ t[m + 1] \in Int
         /\ t[m + 1] < name => (Among(t, name, from, to) <=> Among(t, name, m + 1, to))
         /\ t[m + 1] > name => (Among(t, name, from, to) <=> Among(t, name, from, m - 1))
         /\ t[m + 1] = name => Among(t, name, from, to)
  <1>1. m \in from .. to - 1 /\ m + 1 \in 1 .. Len(t)
    OBVIOUS
  <1>2. t[m + 1] \in Int /\ \A k \in 1 .. Len(t) : t[k] \in Int
    BY <1>1
  <1>3. ASSUME NEW k \in from .. to
        PROVE  /\ k <= m => t[k + 1] <= t[m + 1]
               /\ m <= k => t[m + 1] <= t[k + 1]
               /\ t[k + 1] \in Int
    <2>1. k + 1 \in 1 .. Len(t)
      OBVIOUS
    <2>2. (k <= m => k + 1 <= m + 1) /\ (m <= k => m + 1 <= k + 1)
      BY <1>1
    <2>3. QED
      BY <1>1, <1>2, <2>1, <2>2 DEF Sorted
  <1>4. ASSUME t[m + 1] < name
        PROVE  Among(t, name, from, to) <=> Among(t, name, m + 1, to)
    <2>1. ASSUME NEW k \in from .. to, t[k + 1] = name
          PROVE  k \in m + 1 .. to
      <3>1. ~(k <= m)
        BY <1>2, <1>3, <1>4, <2>1
      <3>2. QED
        BY <1>1, <3>1
    <2>2. m + 1 .. to \subseteq from .. to
      BY <1>1
    <2>3. QED
      BY <2>1, <2>2 DEF Among
  <1>5. ASSUME t[m + 1] > name
        PROVE  Among(t, name, from, to) <=> Among(t, name, from, m - 1)
    <2>1. ASSUME NEW k \in from .. to, t[k + 1] = name
          PROVE  k \in from .. m - 1
      <3>1. ~(m <= k)
        BY <1>2, <1>3, <1>5, <2>1
      <3>2. QED
        BY <1>1, <3>1
    <2>2. from .. m - 1 \subseteq from .. to
      BY <1>1
    <2>3. QED
      BY <2>1, <2>2 DEF Among
  <1>6. ASSUME t[m + 1] = name
        PROVE  Among(t, name, from, to)
    <2>1. m \in from .. to
      BY <1>1
    <2>2. QED
      BY <1>6, <2>1 DEF Among
  <1>7. QED
    BY <1>1, <1>2, <1>4, <1>5, <1>6

\* What is left when the loop ends.
LEMMA RestIsEnough ==
  ASSUME NEW t \in Seq(Int), NEW name,
         NEW from \in 0 .. Len(t), NEW to \in -1 .. Len(t) - 1, ~(from < to)
  PROVE  Among(t, name, from, to) <=> from = to /\ t[from + 1] = name
  <1>1. CASE from = to
    <2>1. \A k : k \in from .. to <=> k = from
      BY <1>1
    <2>2. QED
      BY <1>1, <2>1, Zenon DEF Among
  <1>2. CASE from # to
    <2>1. \A k : k \notin from .. to
      BY <1>2
    <2>2. QED
      BY <1>2, <2>1, Zenon DEF Among
  <1>3. QED
    BY <1>1, <1>2

\* One round, when the shorter ranges are answered by what is among them.
LEMMA RoundIsAmong ==
  ASSUME NEW t \in Seq(Int), Sorted(t), NEW name \in Int, NEW g,
         NEW from \in 0 .. Len(t), NEW to \in -1 .. Len(t) - 1,
         \A a \in 0 .. Len(t), b \in -1 .. Len(t) - 1 :
           b - a < to - from => g[<<a, b>>] = Among(t, name, a, b)
  PROVE  Round(t, name, g, <<from, to>>) = Among(t, name, from, to)
  <1>0. Len(t) \in Nat
    OBVIOUS
  <1>1. CASE ~(from < to)
    <2>1. Round(t, name, g, <<from, to>>) = (from = to /\ t[from + 1] = name)
      BY <1>1, Zenon DEF Round
    <2>2. Among(t, name, from, to) <=> from = to /\ t[from + 1] = name
      BY <1>1, RestIsEnough
    <2>3. QED
      BY <2>1, <2>2, Zenon DEF Among
  <1>2. CASE from < to
    <2>0. PICK m : m = (from + to) \div 2
      OBVIOUS
    <2>1. /\ m \in from .. to - 1
          /\ t[m + 1] \in Int
          /\ t[m + 1] < name => (Among(t, name, from, to) <=> Among(t, name, m + 1, to))
          /\ t[m + 1] > name => (Among(t, name, from, to) <=> Among(t, name, from, m - 1))
          /\ t[m + 1] = name => Among(t, name, from, to)
      BY <1>2, <2>0, HalfIsEnough
    <2>2. m + 1 \in 0 .. Len(t) /\ m - 1 \in -1 .. Len(t) - 1
      <3>1. m \in from .. to - 1
        BY <2>1
      <3>2. QED
        BY <1>0, <3>1
    <2>3. /\ g[<<m + 1, to>>] = Among(t, name, m + 1, to)
          /\ g[<<from, m - 1>>] = Among(t, name, from, m - 1)
      BY <1>0, <2>1, <2>2
    <2>4. LET v == Round(t, name, g, <<from, to>>)
          IN  /\ t[m + 1] < name => v = g[<<m + 1, to>>]
              /\ t[m + 1] > name => v = g[<<from, m - 1>>]
              /\ t[m + 1] = name => v = TRUE
      <3>1. <<from, to>>[1] = from /\ <<from, to>>[2] = to
        OBVIOUS
      <3>2. /\ t[m + 1] < name => ~(t[m + 1] > name)
            /\ t[m + 1] > name => ~(t[m + 1] < name)
            /\ t[m + 1] = name => ~(t[m + 1] > name) /\ ~(t[m + 1] < name)
        BY <2>1
      <3>3. QED
        BY <1>2, <2>0, <3>1, <3>2, Zenon DEF Round
    <2>5. t[m + 1] < name \/ t[m + 1] > name \/ t[m + 1] = name
      BY <2>1
    <2>6. CASE t[m + 1] < name
      <3>1. Among(t, name, from, to) = Among(t, name, m + 1, to)
        BY <2>1, <2>6, Zenon DEF Among
      <3>2. QED
        BY <2>3, <2>4, <2>6, <3>1, Zenon
    <2>7. CASE t[m + 1] > name
      <3>1. Among(t, name, from, to) = Among(t, name, from, m - 1)
        BY <2>1, <2>7, Zenon DEF Among
      <3>2. QED
        BY <2>3, <2>4, <2>7, <3>1, Zenon
    <2>8. CASE t[m + 1] = name
      <3>1. Among(t, name, from, to) = TRUE
        BY <2>1, <2>8, Zenon DEF Among
      <3>2. QED
        BY <2>4, <2>8, <3>1, Zenon
    <2>9. QED
      BY <2>5, <2>6, <2>7, <2>8
  <1>3. QED
    BY <1>1, <1>2

\* In a sorted table only one function answers as the code does.
LEMMA AnswersAreAmong ==
  ASSUME NEW t \in Seq(Int), Sorted(t), NEW name \in Int,
         NEW g, Answers(t, name, g)
  PROVE  \A from \in 0 .. Len(t), to \in -1 .. Len(t) - 1 :
           g[<<from, to>>] = Among(t, name, from, to)
  <1> DEFINE F == 0 .. Len(t)
             U == -1 .. Len(t) - 1
             Ok(from, to) == g[<<from, to>>] = Among(t, name, from, to)
             Bad == {n \in Nat : \E from \in F, to \in U :
                                  Len(t) + 1 + to - from = n /\ ~Ok(from, to)}
  <1>0. Len(t) \in Nat
    OBVIOUS
  <1>1. ASSUME NEW from \in F, NEW to \in U
        PROVE  g[<<from, to>>] = Round(t, name, g, <<from, to>>)
    BY <1>1, Zenon DEF Answers, Ranges
  <1>2. ASSUME NEW from \in F, NEW to \in U,
               \A a \in F, b \in U : b - a < to - from => Ok(a, b)
        PROVE  Ok(from, to)
    <2>1. Round(t, name, g, <<from, to>>) = Among(t, name, from, to)
      BY <1>2, RoundIsAmong
    <2>2. QED
      BY <1>1, <2>1, Zenon
  <1> HIDE DEF Ok
  <1>3. ASSUME NEW from \in F, NEW to \in U, ~Ok(from, to)
        PROVE  FALSE
    <2>1. Len(t) + 1 + to - from \in Bad
      BY <1>0, <1>3
    <2>2. PICK n \in Bad : \A y \in Bad : n <= y
      BY <2>1, LeastOf
    <2>3. PICK a \in F, b \in U : Len(t) + 1 + b - a = n /\ ~Ok(a, b)
      OBVIOUS
    <2>4. ASSUME NEW c \in F, NEW d \in U, d - c < b - a, ~Ok(c, d)
          PROVE  FALSE
      <3>1. Len(t) + 1 + d - c \in Bad
        BY <1>0, <2>4
      <3>2. n <= Len(t) + 1 + d - c
        BY <2>2, <3>1
      <3>3. Len(t) + 1 + b - a <= Len(t) + 1 + d - c
        BY <2>3, <3>2, Zenon
      <3>4. QED
        BY <1>0, <2>4, <3>3
    <2>5. Ok(a, b)
      BY <1>2, <2>4
    <2>6. QED
      BY <2>3, <2>5
  <1>4. QED
    BY <1>3 DEF Ok

\* And there is one.
LEMMA AnswersExist ==
  ASSUME NEW t \in Seq(Int), Sorted(t), NEW name \in Int
  PROVE  \E g : Answers(t, name, g)
  <1> DEFINE g == [r \in Ranges(t) |-> Among(t, name, r[1], r[2])]
  <1>0. Len(t) \in Nat
    OBVIOUS
  <1>1. ASSUME NEW from \in 0 .. Len(t), NEW to \in -1 .. Len(t) - 1
        PROVE  /\ <<from, to>> \in Ranges(t)
               /\ g[<<from, to>>] = Among(t, name, from, to)
    <2>1. <<from, to>> \in Ranges(t) /\ <<from, to>>[1] = from /\ <<from, to>>[2] = to
      BY DEF Ranges
    <2>2. QED
      BY <2>1, Zenon
  <1> HIDE DEF g
  <1>2. ASSUME NEW from \in 0 .. Len(t), NEW to \in -1 .. Len(t) - 1
        PROVE  Round(t, name, g, <<from, to>>) = Among(t, name, from, to)
    BY <1>1, RoundIsAmong
  <1>3. ASSUME NEW r \in Ranges(t)
        PROVE  Among(t, name, r[1], r[2]) = Round(t, name, g, r)
    <2>1. /\ r[1] \in 0 .. Len(t) /\ r[2] \in -1 .. Len(t) - 1
          /\ r = <<r[1], r[2]>>
      BY <1>3 DEF Ranges
    <2>2. Among(t, name, r[1], r[2]) = Round(t, name, g, <<r[1], r[2]>>)
      BY <1>2, <2>1
    <2>3. QED
      BY <2>1, <2>2, Zenon
  <1>4. Answers(t, name, g)
    <2>1. g = [r \in Ranges(t) |-> Among(t, name, r[1], r[2])]
      BY Zenon DEF g
    <2>2. QED
      BY <1>3, <2>1, Zenon DEF Answers
  <1>5. QED
    BY <1>4

\* In a sorted table __is_debugged finds the names that are there, and no
\* other.
LEMMA SearchFinds ==
  ASSUME NEW t \in Seq(Int), Sorted(t), NEW name \in Int
  PROVE  is_debugged(t, name) <=> name \in Names(t)
  <1> DEFINE g == CHOOSE g : Answers(t, name, g)
  <1>1. Answers(t, name, g)
    BY AnswersExist, Zenon
  <1>2. is_debugged(t, name) = g[<<0, Len(t) - 1>>]
    BY SearchIsChosen, Zenon
  <1> HIDE DEF g
  <1>3. 0 \in 0 .. Len(t) /\ Len(t) - 1 \in -1 .. Len(t) - 1
    OBVIOUS
  <1>4. g[<<0, Len(t) - 1>>] = Among(t, name, 0, Len(t) - 1)
    BY <1>1, <1>3, AnswersAreAmong
  <1>5. Among(t, name, 0, Len(t) - 1) <=> name \in Names(t)
    <2>1. ASSUME NEW k \in 0 .. Len(t) - 1
          PROVE  k + 1 \in 1 .. Len(t)
      OBVIOUS
    <2>2. ASSUME NEW i \in 1 .. Len(t)
          PROVE  i - 1 \in 0 .. Len(t) - 1 /\ (i - 1) + 1 = i
      OBVIOUS
    <2>3. QED
      BY <2>1, <2>2, Zenon DEF Among, Names
  <1>6. QED
    BY <1>2, <1>4, <1>5, Zenon

-----------------------------------------------------------------------------
(* The insertion                                                           *)

\* add_debug_to stops after the names below the new one, or at the limit.
LEMMA PlaceIsPrefix ==
  ASSUME NEW t \in Seq(Int), Sorted(t), NEW name \in Int,
         NEW p, p = Place(t, name)
  PROVE  /\ p \in 0 .. Len(t)
         /\ \A j \in 1 .. p : t[j] < name
         /\ p < MAX_FILES_NUMBER => \A j \in p + 1 .. Len(t) : name <= t[j]
  <1> DEFINE S == {i \in 1 .. Len(t) : /\ i <= MAX_FILES_NUMBER
                                       /\ \A j \in 1 .. i : t[j] < name}
             T == {n \in Nat : n + 1 \notin S}
  <1>1. Len(t) \in T
    OBVIOUS
  <1>2. PICK q \in T : \A y \in T : q <= y
    BY <1>1, LeastOf
  <1>3. q \in Nat /\ q <= Len(t) /\ q + 1 \notin S
    BY <1>1, <1>2
  <1>4. ASSUME NEW i \in 1 .. q
        PROVE  i \in S
    <2>1. i - 1 \in Nat /\ ~(q <= i - 1) /\ (i - 1) + 1 = i
      BY <1>3
    <2>2. i - 1 \notin T
      BY <1>2, <2>1
    <2>3. QED
      BY <2>1, <2>2
  <1>5. ASSUME NEW i \in S
        PROVE  i \in 1 .. q
    <2>1. i \in 1 .. Len(t) /\ i <= MAX_FILES_NUMBER /\ \A j \in 1 .. i : t[j] < name
      OBVIOUS
    <2>2. ASSUME ~(i <= q)
          PROVE  FALSE
      <3>1. q + 1 \in 1 .. Len(t) /\ q + 1 <= MAX_FILES_NUMBER
        BY <1>3, <2>1, <2>2, FilesAssumption
      <3>2. \A j \in 1 .. q + 1 : t[j] < name
        BY <1>3, <2>1, <2>2
      <3>3. QED
        BY <1>3, <3>1, <3>2
    <2>3. QED
      BY <1>3, <2>1, <2>2
  <1>6. S = 1 .. q
    BY <1>4, <1>5
  <1>7. p = q
    <2>1. p = Cardinality(1 .. q)
      BY <1>6 DEF Place
    <2>2. Cardinality(1 .. q) = IF 1 > q THEN 0 ELSE q - 1 + 1
      BY <1>3, FS_Interval
    <2>3. QED
      BY <1>3, <2>1, <2>2
  <1>8. ASSUME NEW j \in 1 .. q
        PROVE  t[j] < name
    <2>1. j \in S /\ j \in 1 .. j
      BY <1>4
    <2>2. QED
      BY <2>1
  <1>9. ASSUME q < MAX_FILES_NUMBER, NEW j \in q + 1 .. Len(t)
        PROVE  name <= t[j]
    <2>1. q + 1 \in 1 .. Len(t) /\ q + 1 <= MAX_FILES_NUMBER
      BY <1>3, <1>9, FilesAssumption
    <2>2. PICK i \in 1 .. q + 1 : ~(t[i] < name)
      BY <1>3, <2>1
    <2>3. i \in 1 .. Len(t) /\ j \in 1 .. Len(t) /\ i <= j
      BY <1>3, <2>1
    <2>4. t[i] <= t[j]
      BY <2>3 DEF Sorted
    <2>5. t[i] \in Int /\ t[j] \in Int
      BY <2>3
    <2>6. QED
      BY <2>2, <2>4, <2>5
  <1>10. QED
    BY <1>3, <1>7, <1>8, <1>9

LEMMA Joined ==
  ASSUME NEW c \in Seq(Int), NEW b \in Seq(Int)
  PROVE  /\ c \o b \in Seq(Int) /\ Len(c \o b) = Len(c) + Len(b)
         /\ \A k \in 1 .. Len(c) : (c \o b)[k] = c[k]
         /\ \A k \in 1 .. Len(b) : (c \o b)[Len(c) + k] = b[k]
  <1>0. PICK m \in Nat, n \in Nat : m = Len(c) /\ n = Len(b)
    OBVIOUS
  <1> DEFINE s == c \o b
  <1>1. /\ s \in Seq(Int) /\ Len(s) = m + n
        /\ \A i \in 1 .. m + n : s[i] = IF i <= m THEN c[i] ELSE b[i - m]
    BY <1>0, ConcatProperties, Zenon
  <1> HIDE DEF s
  <1>2. \A k \in 1 .. m : k \in 1 .. m + n /\ k <= m
    OBVIOUS
  <1>3. \A k \in 1 .. n : m + k \in 1 .. m + n /\ ~(m + k <= m) /\ m + k - m = k
    OBVIOUS
  <1>4. ASSUME NEW k \in 1 .. m
        PROVE  s[k] = c[k]
    BY <1>1, <1>2
  <1>5. ASSUME NEW k \in 1 .. n
        PROVE  s[m + k] = b[k]
    <2>1. s[m + k] = b[m + k - m]
      BY <1>1, <1>3
    <2>2. QED
      BY <1>3, <2>1, Zenon
  <1>6. QED
    BY <1>0, <1>1, <1>4, <1>5, Zenon DEF s

\* A name put between the smaller and the larger ones.
Insert(t, p, name) == SubSeq(t, 1, p) \o <<name>> \o SubSeq(t, p + 1, Len(t))

LEMMA Inserted ==
  ASSUME NEW t \in Seq(Int), NEW name \in Int, NEW p \in 0 .. Len(t)
  PROVE  LET u == Insert(t, p, name)
         IN  /\ u \in Seq(Int) /\ Len(u) = Len(t) + 1
             /\ \A k \in 1 .. p : u[k] = t[k]
             /\ u[p + 1] = name
             /\ \A k \in p + 1 .. Len(t) : u[k + 1] = t[k]
  <1> DEFINE u == Insert(t, p, name)
  <1> DEFINE a == SubSeq(t, 1, p)
             b == SubSeq(t, p + 1, Len(t))
  <1>1. /\ a \in Seq(Int) /\ Len(a) = p
        /\ \A k \in 1 .. p : a[k] = t[k]
    OBVIOUS
  <1>2. /\ b \in Seq(Int) /\ Len(b) = Len(t) - p
        /\ \A k \in 1 .. Len(t) - p : b[k] = t[p + k]
    <2>1. p + 1 \in Int /\ Len(t) \in Int /\ \A i \in p + 1 .. Len(t) : t[i] \in Int
      OBVIOUS
    <2>2. /\ b \in Seq(Int)
          /\ Len(b) = IF p + 1 <= Len(t) THEN Len(t) - (p + 1) + 1 ELSE 0
          /\ \A i \in 1 .. Len(t) - (p + 1) + 1 : b[i] = t[(p + 1) + i - 1]
      BY <2>1, SubSeqProperties
    <2> HIDE DEF b
    <2>3. \A k \in 1 .. Len(t) - p : (p + 1) + k - 1 = p + k /\ k \in 1 .. Len(t) - (p + 1) + 1
      OBVIOUS
    <2>4. Len(b) = Len(t) - p
      BY <2>2
    <2>5. QED
      BY <2>2, <2>3, <2>4
  <1> HIDE DEF a, b
  <1> DEFINE c == a \o <<name>>
  <1>3. /\ c \in Seq(Int) /\ Len(c) = p + 1
        /\ \A k \in 1 .. p : c[k] = t[k]
        /\ c[p + 1] = name
    BY <1>1
  <1>4. u = c \o b
    BY Zenon DEF a, b, Insert
  <1> HIDE DEF c, u
  <1>5. /\ u \in Seq(Int) /\ Len(u) = (p + 1) + (Len(t) - p)
        /\ \A k \in 1 .. p + 1 : u[k] = c[k]
        /\ \A k \in 1 .. Len(t) - p : u[(p + 1) + k] = b[k]
    <2>1. /\ c \o b \in Seq(Int) /\ Len(c \o b) = Len(c) + Len(b)
          /\ \A k \in 1 .. Len(c) : (c \o b)[k] = c[k]
          /\ \A k \in 1 .. Len(b) : (c \o b)[Len(c) + k] = b[k]
      BY <1>2, <1>3, Joined, Zenon
    <2>2. QED
      BY <1>2, <1>3, <1>4, <2>1, Zenon
  <1>6. ASSUME NEW k \in p + 1 .. Len(t)
        PROVE  u[k + 1] = t[k]
    <2>1. /\ k - p \in 1 .. Len(t) - p /\ (p + 1) + (k - p) = k + 1
          /\ p + (k - p) = k
      OBVIOUS
    <2>2. u[(p + 1) + (k - p)] = b[k - p] /\ b[k - p] = t[p + (k - p)]
      BY <1>2, <1>5, <2>1
    <2>3. QED
      BY <2>1, <2>2
  <1>7. /\ \A k \in 1 .. p : u[k] = t[k]
        /\ u[p + 1] = name
    <2>1. p + 1 \in 1 .. p + 1 /\ 1 .. p \subseteq 1 .. p + 1
      OBVIOUS
    <2>2. QED
      BY <1>3, <1>5, <2>1
  <1>8. Len(u) = Len(t) + 1
    <2>1. (p + 1) + (Len(t) - p) = Len(t) + 1
      OBVIOUS
    <2>2. QED
      BY <1>5, <2>1, Zenon
  <1>9. QED
    BY <1>5, <1>6, <1>7, <1>8, Zenon DEF u

\* add_debug_to keeps the table in order.  With a place left it adds the name
\* and loses none.
LEMMA AddKeeps ==
  ASSUME NEW t \in Seq(Int), Sorted(t), NEW name \in Int,
         NEW u, u = add_debug_to(t, name)
  PROVE  /\ u \in Seq(Int) /\ Sorted(u) /\ Len(u) <= Len(t) + 1
         /\ Len(t) < MAX_FILES_NUMBER => Names(u) = Names(t) \union {name}
  <1>1. PICK p : p = Place(t, name)
    OBVIOUS
  <1>2. /\ p \in 0 .. Len(t)
        /\ \A j \in 1 .. p : t[j] < name
        /\ p < MAX_FILES_NUMBER => \A j \in p + 1 .. Len(t) : name <= t[j]
    BY <1>1, PlaceIsPrefix
  <1>3. CASE p >= MAX_FILES_NUMBER
    <2>1. u = t
      BY <1>1, <1>3, Zenon DEF add_debug_to
    <2>2. ~(Len(t) < MAX_FILES_NUMBER) /\ Len(t) <= Len(t) + 1
      BY <1>2, <1>3, FilesAssumption
    <2>3. QED
      BY <2>1, <2>2
  <1>4. CASE ~(p >= MAX_FILES_NUMBER)
    <2>1. u = Insert(t, p, name)
      BY <1>1, <1>4, Zenon DEF add_debug_to, Insert
    <2>2. /\ u \in Seq(Int) /\ Len(u) = Len(t) + 1
          /\ \A k \in 1 .. p : u[k] = t[k]
          /\ u[p + 1] = name
          /\ \A k \in p + 1 .. Len(t) : u[k + 1] = t[k]
      <3>1. p \in 0 .. Len(t)
        BY <1>2
      <3> DEFINE v == Insert(t, p, name)
      <3>2. /\ v \in Seq(Int) /\ Len(v) = Len(t) + 1
            /\ \A k \in 1 .. p : v[k] = t[k]
            /\ v[p + 1] = name
            /\ \A k \in p + 1 .. Len(t) : v[k + 1] = t[k]
        BY <3>1, Inserted
      <3> HIDE DEF v
      <3>3. u = v
        BY <2>1 DEF v
      <3>4. QED
        BY <3>2, <3>3
    <2>3. \A j \in p + 1 .. Len(t) : name <= t[j]
      BY <1>2, <1>4, FilesAssumption
    <2>4. ASSUME NEW k \in 1 .. Len(t) + 1
          PROVE  \/ k \in 1 .. p /\ u[k] = t[k] /\ k \in 1 .. Len(t)
                 \/ k = p + 1 /\ u[k] = name
                 \/ k - 1 \in p + 1 .. Len(t) /\ u[k] = t[k - 1] /\ k - 1 \in 1 .. Len(t)
      <3>1. \/ k \in 1 .. p /\ k \in 1 .. Len(t)
            \/ k = p + 1
            \/ k - 1 \in p + 1 .. Len(t) /\ k - 1 \in 1 .. Len(t) /\ (k - 1) + 1 = k
        BY <1>2
      <3>2. QED
        BY <2>2, <3>1, Zenon
    <2>5. ASSUME NEW i \in 1 .. Len(t) + 1, NEW j \in 1 .. Len(t) + 1, i <= j
          PROVE  u[i] <= u[j]
      <3>1. \A k \in 1 .. Len(t) : t[k] \in Int
        OBVIOUS
      <3>2. CASE i \in 1 .. p /\ u[i] = t[i] /\ i \in 1 .. Len(t)
        <4>1. CASE j \in 1 .. p /\ u[j] = t[j] /\ j \in 1 .. Len(t)
          BY <2>5, <3>2, <4>1 DEF Sorted
        <4>2. CASE j = p + 1 /\ u[j] = name
          BY <1>2, <3>1, <3>2, <4>2
        <4>3. CASE j - 1 \in p + 1 .. Len(t) /\ u[j] = t[j - 1] /\ j - 1 \in 1 .. Len(t)
          <5>1. i <= j - 1
            BY <1>2, <3>2, <4>3
          <5>2. QED
            BY <3>2, <4>3, <5>1 DEF Sorted
        <4>4. QED
          BY <2>4, <4>1, <4>2, <4>3
      <3>3. CASE i = p + 1 /\ u[i] = name
        <4>1. CASE j = p + 1 /\ u[j] = name
          BY <3>3, <4>1
        <4>2. CASE j - 1 \in p + 1 .. Len(t) /\ u[j] = t[j - 1]
          BY <2>3, <3>3, <4>2
        <4>3. ~(j \in 1 .. p)
          BY <1>2, <2>5, <3>3
        <4>4. QED
          BY <2>4, <4>1, <4>2, <4>3
      <3>4. CASE i - 1 \in p + 1 .. Len(t) /\ u[i] = t[i - 1] /\ i - 1 \in 1 .. Len(t)
        <4>1. /\ ~(j \in 1 .. p) /\ ~(j = p + 1)
              /\ i - 1 <= j - 1
          BY <1>2, <2>5, <3>4
        <4>2. u[j] = t[j - 1] /\ j - 1 \in 1 .. Len(t)
          BY <2>4, <4>1
        <4>3. QED
          BY <3>4, <4>1, <4>2 DEF Sorted
      <3>5. QED
        BY <2>4, <3>2, <3>3, <3>4
    <2>6. Sorted(u)
      BY <2>2, <2>5, Zenon DEF Sorted
    <2>7. ASSUME NEW x
          PROVE  x \in Names(u) <=> x \in Names(t) \union {name}
      <3>1. ASSUME NEW k \in 1 .. Len(t) + 1
            PROVE  u[k] \in Names(t) \union {name}
        BY <2>4, Zenon DEF Names
      <3>2. name \in Names(u)
        <4>1. p + 1 \in 1 .. Len(u)
          BY <1>2, <2>2
        <4>2. QED
          BY <2>2, <4>1, Zenon DEF Names
      <3>3. ASSUME NEW k \in 1 .. Len(t)
            PROVE  t[k] \in Names(u)
        <4>1. CASE k \in 1 .. p
          <5>1. k \in 1 .. Len(u) /\ u[k] = t[k]
            BY <2>2, <4>1
          <5>2. QED
            BY <5>1, Zenon DEF Names
        <4>2. CASE k \in p + 1 .. Len(t)
          <5>1. k + 1 \in 1 .. Len(u) /\ u[k + 1] = t[k]
            BY <2>2, <4>2
          <5>2. QED
            BY <5>1, Zenon DEF Names
        <4>3. QED
          BY <1>2, <4>1, <4>2
      <3>4. QED
        BY <2>2, <3>1, <3>2, <3>3, Zenon DEF Names
    <2>8. Len(u) <= Len(t) + 1
      BY <2>2
    <2>9. QED
      BY <2>2, <2>6, <2>7, <2>8, Zenon
  <1>5. QED
    BY <1>3, <1>4

-----------------------------------------------------------------------------
(* The table of the process                                                *)

\* The table is sorted, never longer than the list of names given, and until
\* that list is longer than the table may be they hold the same names.
TableInv == /\ table \in Seq(Int) /\ Sorted(table) /\ given \in Seq(Int)
            /\ Len(table) <= Len(given)
            /\ Len(given) <= MAX_FILES_NUMBER => Names(table) = Names(given)
            /\ stage = "undefined" => Len(given) > MAX_FILES_NUMBER

LEMMA TableInvariant == Spec => []TableInv
  <1>1. Init => TableInv
    <2>1. ASSUME Init
          PROVE  TableInv
      <3>1. table = << >> /\ given = << >> /\ stage # "undefined"
        BY <2>1 DEF Init
      <3>2. << >> \in Seq(Int) /\ Len(<< >>) = 0
        OBVIOUS
      <3>3. Sorted(<< >>)
        BY <3>2 DEF Sorted
      <3>4. QED
        BY <3>1, <3>2, <3>3 DEF TableInv
    <2>2. QED
      BY <2>1
  <1>2. ASSUME TableInv, UNCHANGED <<given, table>>, stage' = "undefined" => stage = "undefined"
        PROVE  TableInv'
    BY <1>2 DEF TableInv
  <1>3. ASSUME TableInv, OptionDebug
        PROVE  TableInv'
    <2>1. PICK n \in Files : /\ given' = Append(given, n)
                             /\ table' = add_debug_to(table, n)
      BY <1>3 DEF OptionDebug
    <2>2. n \in Int /\ table \in Seq(Int) /\ given \in Seq(Int) /\ Sorted(table)
      BY <1>3, <2>1, RunAssumption DEF TableInv
    <2>3. /\ table' \in Seq(Int) /\ Sorted(table') /\ Len(table') <= Len(table) + 1
          /\ Len(table) < MAX_FILES_NUMBER => Names(table') = Names(table) \union {n}
      BY <2>1, <2>2, AddKeeps
    <2>4. /\ given' \in Seq(Int) /\ Len(given') = Len(given) + 1
          /\ Names(given') = Names(given) \union {n}
      <3>1. /\ given' \in Seq(Int) /\ Len(given') = Len(given) + 1
            /\ \A k \in 1 .. Len(given) : given'[k] = given[k]
            /\ given'[Len(given) + 1] = n
        BY <2>1, <2>2
      <3>2. \A k : k \in 1 .. Len(given) + 1 <=> k \in 1 .. Len(given) \/ k = Len(given) + 1
        BY <2>2
      <3>3. QED
        BY <3>1, <3>2, Zenon DEF Names
    <2>5. Len(table) \in Nat /\ Len(given) \in Nat /\ Len(table') \in Nat
      BY <2>2, <2>3
    <2>6. Len(table') <= Len(given')
      BY <1>3, <2>3, <2>4, <2>5 DEF TableInv
    <2>7. Len(given') <= MAX_FILES_NUMBER => Names(table') = Names(given')
      BY <1>3, <2>3, <2>4, <2>5, FilesAssumption DEF TableInv
    <2>8. stage' = "undefined" => Len(given') > MAX_FILES_NUMBER
      <3>1. stage' = "undefined" => Len(table') > MAX_FILES_NUMBER
        BY <1>3 DEF OptionDebug, Option
      <3>2. QED
        BY <2>4, <2>5, <2>6, <3>1, FilesAssumption
    <2>9. QED
      BY <2>3, <2>4, <2>6, <2>7, <2>8 DEF TableInv
  <1>4. ASSUME Next
        PROVE  \/ OptionDebug
               \/ /\ UNCHANGED <<given, table>>
                  /\ stage' = "undefined" => stage = "undefined"
    BY <1>4 DEF Next, OptionTrace, OptionFile, OptionExit, Option, GdbInit, SetTraceFile,
      ArmCreate, GdbHidden, GdbSetsPc, GdbStep, GdbCont, IrqReset, Job, Work, Release, startVars
  <1>5. TableInv /\ [Next]_vars => TableInv'
    <2>1. CASE Next
      BY <1>2, <1>3, <1>4, <2>1
    <2>2. CASE UNCHANGED vars
      BY <1>2, <2>2 DEF vars, startVars
    <2>3. QED
      BY <2>1, <2>2
  <1>6. QED
    BY <1>1, <1>5, PTL DEF Spec

\* The binary search of __is_debugged finds a name if and only if add_debug_to
\* put it in the table, and, as long as no more names were given than there
\* are places, if and only if it was given: whatever the names, their order
\* and MAX_FILES_NUMBER.
THEOREM SearchIsRight == Spec => []SearchIsMembership
  <1>1. ASSUME TableInv
        PROVE  SearchIsMembership
    <2>1. \A n \in Files : is_debugged(table, n) <=> n \in Names(table)
      BY <1>1, RunAssumption, SearchFinds DEF TableInv
    <2>2. /\ DOMAIN table = 1 .. Len(table) /\ DOMAIN given = 1 .. Len(given)
          /\ Len(given) <= MAX_FILES_NUMBER => Names(table) = Names(given)
          /\ stage = "undefined" => Len(given) > MAX_FILES_NUMBER
      BY <1>1 DEF TableInv
    <2>3. QED
      BY <2>1, <2>2, Zenon DEF SearchIsMembership, Names
  <1>2. QED
    BY <1>1, TableInvariant, PTL
=============================================================================

------------------------------- MODULE Debug --------------------------------
(***************************************************************************)
(* debug.c and debug.h: the sorted table of the files whose debug messages *)
(* are shown.  A file name is a number, its place in the order of strcmp.  *)
(* The table is a sequence; debugged_files[i] is its element i + 1, and a  *)
(* table longer than MAX_FILES_NUMBER has been written past its end.       *)
(***************************************************************************)
EXTENDS Integers, Sequences, FiniteSets

CONSTANT MAX_FILES_NUMBER

ASSUME FilesAssumption == MAX_FILES_NUMBER \in Nat \ {0}

\* Where add_debug_to stops looking: the number of names before the new one.
Place(table, name) ==
  Cardinality({i \in 1 .. Len(table) : /\ i <= MAX_FILES_NUMBER
                                       /\ \A j \in 1 .. i : table[j] < name})

\* Mutated form of add_debug_to: the names are not kept in order.
add_debug_to_end(table, name) ==
  IF Len(table) >= MAX_FILES_NUMBER THEN table ELSE Append(table, name)

\* A full table refuses a name that would come last, and no other.
add_debug_to(table, name) ==
  LET i == Place(table, name)
  IN  IF i >= MAX_FILES_NUMBER THEN table
      ELSE SubSeq(table, 1, i) \o <<name>> \o SubSeq(table, i + 1, Len(table))

\* __is_debugged: a binary search between from and to, both counted from 0.
is_debugged(table, name) ==
  LET Search[r \in (0 .. Len(table)) \X (-1 .. Len(table) - 1)] ==
        LET from == r[1]
            to == r[2]
            middle == (from + to) \div 2
            found == table[middle + 1]
        IN  IF from < to
            THEN CASE found < name -> Search[<<middle + 1, to>>]
                   [] found > name -> Search[<<from, middle - 1>>]
                   [] OTHER        -> TRUE
            ELSE from = to /\ table[from + 1] = name
  IN  Search[<<0, Len(table) - 1>>]
=============================================================================

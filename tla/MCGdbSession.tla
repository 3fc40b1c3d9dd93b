---------------------------- MODULE MCGdbSession ----------------------------
(***************************************************************************)
(* An instance of GdbSession for TLC.  One word of memory, and a pc that   *)
(* starts outside it, so that a cont may stop at once, at the garbage in   *)
(* its variable, or run on.  A step executed twice shows in the pc, and a  *)
(* reset in the cpsr once G has left the supervisor mode.                  *)
(***************************************************************************)
EXTENDS GdbSession

MCInstructions == [w \in {0} |-> Fields(0, 0, 0, 0, 0, 0)]

MCPackets == {[cmd |-> "c"], [cmd |-> "s"], [cmd |-> "k"], [cmd |-> "D"],
              [cmd |-> "G", values |-> [r \in 0 .. CPSR |-> BytesOf(USR)]]}
MCGarbage == {[r \in Reg |-> IF r = PC THEN 100 ELSE 0]}
=============================================================================

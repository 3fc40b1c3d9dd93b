------------------------------ MODULE MCMemory ------------------------------
(***************************************************************************)
(* Instance of Memory for TLC: one-bit bytes, a block of two bytes and   *)
(* exactly the four mapped bytes after it that AcceptedReadsAreMapped asks *)
(* for.                                                                    *)
(***************************************************************************)
EXTENDS Memory
=============================================================================

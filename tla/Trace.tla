------------------------------- MODULE Trace --------------------------------
(***************************************************************************)
(* trace.c, trace_location.h and the calls to the trace in arm_core.c.     *)
(*                                                                         *)
(* A tracer is a record: the static variables of trace.c and, in log, what *)
(* was written to the output.  An access is a record: what is accessed     *)
(* (register or memory), whether it is a read or a write, and the register *)
(* or the address.  A site is the file and line of the source a macro of   *)
(* trace_location.h stands for.                                            *)
(***************************************************************************)
EXTENDS Integers, Sequences, FiniteSets

CONSTANTS StackSize,     \* entries of the location stacks, 128 in trace.c
          AddressMod,    \* number of addresses, 2^32
          FirstAddress,  \* last_address before any access, 0x12345678
          NoSite,        \* no location is printed
          NoFile         \* output before set_trace_file

ASSUME StackAssumption == /\ StackSize \in Nat \ {0, 1}
                          /\ AddressMod \in Nat \ {0}
                          /\ FirstAddress \in 0 .. AddressMod - 1

MEMORY == "memory"
REGISTERS == "registers"
CORE_STATE == "state"
POSITION == "position"

InitialTracer ==
  [enabled |-> TRUE, top |-> -1, sites |-> [i \in 0 .. StackSize - 1 |-> NoSite],
   flags |-> {}, last_address |-> FirstAddress, output |-> NoFile,
   log |-> << >>]

set_trace_file(t, f) == [t EXCEPT !.output = f]
trace_add(t, flag) == [t EXCEPT !.flags = @ \union {flag}]
trace_disable(t) == [t EXCEPT !.enabled = FALSE]
trace_enable(t) == [t EXCEPT !.enabled = TRUE]

trace_start_location(t, site) ==
  IF t.enabled THEN [t EXCEPT !.top = @ + 1, !.sites[t.top + 1] = site] ELSE t

\* Mutated form of trace_end_location: the location stays on the stack.
trace_end_location_kept(t) == t

trace_end_location(t) == IF t.enabled THEN [t EXCEPT !.top = @ - 1] ELSE t

trace_print_location(t) ==
  IF POSITION \in t.flags /\ t.top >= 0 THEN t.sites[t.top] ELSE NoSite

\* Mutated form of trace_memory: the address is remembered while the trace is
\* disabled, too.
trace_memory_always(t, a) ==
  IF t.enabled /\ MEMORY \in t.flags
  THEN [t EXCEPT !.last_address = a.n,
                 !.log = Append(@, [access |-> a,
                                    site |-> trace_print_location(t),
                                    seq |-> a.n = (t.last_address + 4) % AddressMod])]
  ELSE [t EXCEPT !.last_address = a.n]

trace_memory(t, a) ==
  IF t.enabled /\ MEMORY \in t.flags
  THEN [t EXCEPT !.last_address = a.n,
                 !.log = Append(@, [access |-> a,
                                    site |-> trace_print_location(t),
                                    seq |-> a.n = (t.last_address + 4) % AddressMod])]
  ELSE t

trace_register(t, a) ==
  IF t.enabled /\ REGISTERS \in t.flags
  THEN [t EXCEPT !.log = Append(@, [access |-> a,
                                    site |-> trace_print_location(t)])]
  ELSE t

-----------------------------------------------------------------------------
(* The accessors of arm_core.c, by the accesses they report.               *)

Read(r) == [what |-> "register", rw |-> "read", n |-> r]
Write(r) == [what |-> "register", rw |-> "write", n |-> r]
Load(a) == [what |-> "memory", rw |-> "read", n |-> a]
Store(a) == [what |-> "memory", rw |-> "write", n |-> a]

\* arm_fetch reads the pc, the memory, and writes the pc.
Fetch(a) == <<Read(15), Load(a), Write(15)>>

(* What a thread does to the tracer, one step at a time.                   *)
Start(site) == [op |-> "start", site |-> site]
Finish == [op |-> "end"]
Access(a) == [op |-> "access", access |-> a]
Disable == [op |-> "disable"]
Enable == [op |-> "enable"]
State == [op |-> "state"]

Accesses(s) == [k \in 1 .. Len(s) |-> Access(s[k])]

\* A loop of calls at one place of the source.
LocatedEach(site, s) ==
  [k \in 1 .. 3 * Len(s) |-> CASE k % 3 = 1 -> Start(site)
                              [] k % 3 = 2 -> Access(s[(k + 1) \div 3])
                              [] OTHER     -> Finish]

\* A macro of trace_location.h around an accessor, whose arguments are
\* evaluated after LOCATION and before the call.
Located(site, arguments, accesses) ==
  <<Start(site)>> \o arguments \o Accesses(accesses) \o <<Finish>>

\* The effect of one step; what trace_arm_state prints is made of steps.
Perform(t, step) ==
  CASE step.op = "start"   -> trace_start_location(t, step.site)
    [] step.op = "end"     -> trace_end_location(t)
    [] step.op = "access"  -> IF step.access.what = "memory"
                              THEN trace_memory(t, step.access)
                              ELSE trace_register(t, step.access)
    [] step.op = "disable" -> trace_disable(t)
    [] step.op = "enable"  -> trace_enable(t)
    [] step.op = "state"   -> t
=============================================================================

----------------------------- MODULE TracedRun ------------------------------
(***************************************************************************)
(* The tracer and the debug table in the process: main fills them from its *)
(* options, and then main, the gdb thread and the irq thread go through    *)
(* accessors that report to the tracer.  Its variables are global and have *)
(* no lock of their own; the threads hold shared.lock around a whole       *)
(* handler or exception, whose calls are here one step each.               *)
(*                                                                         *)
(* An instruction is given by the accesses its code makes, for one form of *)
(* each shape: a register result, a store (and the read that shows what    *)
(* was stored), and a branch, where one macro is an argument of another.   *)
(***************************************************************************)
EXTENDS Trace, Debug

CONSTANTS Files,         \* names of source files
          GdbFile,       \* the one of gdb_protocol.c
          Registers,     \* number of registers, 16 in the code
          NamedModes,    \* modes with a name, 7 in arm_constants.c
          Pcs,           \* words malloc, gdb or a branch may leave in r15
          MaxOptions,    \* bound: options of the command line
          MaxJobs        \* bound: handlers and exceptions

ASSUME RunAssumption == /\ Files \subseteq Int /\ GdbFile \in Files
                        /\ Registers \in Nat /\ NamedModes \in Nat \ {0}
                        /\ Pcs \subseteq 0 .. AddressMod - 1
                        /\ MaxOptions \in Nat /\ MaxJobs \in Nat
                        /\ NoFile \notin {"stdout", "file"}

VARIABLES stage,       \* where main is; run once the threads exist
          trace_file,  \* main's choice
          options,     \* options parsed
          given,       \* names given with --debug, in order
          table,       \* debugged_files
          cached,      \* is_debugged_result of gdb_protocol.c, none at first
          tracer,
          lock,        \* who holds shared.lock; main works before there is one
          todo,        \* what each thread still has to do
          pc,          \* r15
          jobs,
          due          \* what the processor has done, as it should be traced

startVars == <<stage, trace_file, options, given, table, cached>>
workVars == <<lock, todo, pc, jobs, due>>
vars == <<startVars, tracer, workVars>>

PC == 15
CPSR == 16
Kinds == {"mov", "str", "b"}
Threads == {"main", "gdb", "irq"}

-----------------------------------------------------------------------------
(* What the code asks of the accessors                                     *)

arm_exception == Located("reset cpsr", << >>, <<Write(CPSR)>>)
                   \o Located("reset pc", << >>, <<Write(15)>>)

\* What every instruction does first ...
Decoding(a) == Located("fetch", << >>, Fetch(a))
                 \o Located("operand1", << >>, <<Read(0)>>)
                 \o Located("condition", << >>, <<Read(CPSR)>>)

\* ... and what then depends on it.
StoreWord == Located("store", << >>, <<Store(0)>>)
               \o Located("just wrote", << >>, <<Load(0)>>)
Branch == Located("branch", Located("branch", << >>, <<Read(15)>>),
                  <<Write(15)>>)
Instruction(kind, a) ==
  Decoding(a) \o
    CASE kind = "mov" -> Located("result", << >>, <<Write(0)>>)
      [] kind = "str" -> Located("rd", << >>, <<Read(0)>>) \o StoreWord
      [] kind = "b"   -> Branch

\* For every mode every register, and the cpsr after those of the first one.
\* arm_core.c is compiled without the macros.
arm_print_state ==
  Accesses([k \in 1 .. Registers * NamedModes + 1 |->
              CASE k <= Registers     -> Read(k - 1)
                [] k = Registers + 1  -> Read(CPSR)
                [] OTHER              -> Read((k - 2) % Registers)])

\* Mutated form of Hidden: the trace stays off.
HiddenForGood(steps) == <<Disable>> \o steps

\* The handlers of gdb hide their own accesses.
Hidden(steps) == <<Disable>> \o steps \o <<Enable>>
RegisterReads == [r \in 1 .. Registers |-> Read(r - 1)]
RegisterWrites == [r \in 1 .. Registers |-> Write(r - 1)]
read_register(r) == Hidden(Located("p", << >>, <<Read(r)>>))
write_register(r) == Hidden(Located("P", << >>, <<Write(r)>>))
read_general_registers ==
  Hidden(LocatedEach("g", RegisterReads)
           \o Located("g cpsr", << >>, <<Read(CPSR)>>))
write_general_registers ==
  Hidden(LocatedEach("G", RegisterWrites)
           \o Located("G cpsr", << >>, <<Write(CPSR)>>))

\* The address of the next fetch: r15 is read 4 further, with its bit 1
\* cleared, and 4 subtracted.
FetchAddress(v) == LET w == (v + 4) % AddressMod
                   IN  (w - 2 * ((w \div 2) % 2) + AddressMod - 4) % AddressMod

Ahead(v) == Hidden(Located("cont", << >>, <<Read(15)>>)
                     \o Located("ahead", << >>, <<Load(FetchAddress(v))>>))
step(kind, v) == Instruction(kind, FetchAddress(v)) \o <<State>>

\* What an instruction may leave in r15.
Targets(kind, v) == IF kind = "b" THEN Pcs
                    ELSE {(FetchAddress(v) + 4) % AddressMod}

-----------------------------------------------------------------------------
(* What should come out of it                                              *)

\* The line of one access of the processor, if the options ask for it, with
\* the call it belongs to.
Line(site, a) ==
  IF \/ a.what = "memory" /\ MEMORY \in tracer.flags
     \/ a.what = "register" /\ REGISTERS \in tracer.flags
  THEN <<[access |-> a,
          site |-> IF POSITION \in tracer.flags THEN site ELSE NoSite]>>
  ELSE << >>

ExceptionLines == Line("reset cpsr", Write(CPSR)) \o Line("reset pc", Write(15))

DecodingLines(a) ==
  Line("fetch", Read(15)) \o Line("fetch", Load(a)) \o Line("fetch", Write(15))
    \o Line("operand1", Read(0)) \o Line("condition", Read(CPSR))
InstructionLines(kind, a) ==
  DecodingLines(a) \o
    CASE kind = "mov" -> Line("result", Write(0))
      [] kind = "str" -> Line("rd", Read(0))
                           \o (Line("store", Store(0)) \o Line("just wrote", Load(0)))
      [] kind = "b"   -> Line("branch", Read(15)) \o Line("branch", Write(15))

\* The registers a state dump reads, which belong to no call.
StateLines ==
  IF {CORE_STATE, REGISTERS} \subseteq tracer.flags
  THEN [k \in DOMAIN arm_print_state |->
          [access |-> arm_print_state[k].access, site |-> NoSite]]
  ELSE << >>

StateDump == IF CORE_STATE \in tracer.flags THEN arm_print_state ELSE << >>

-----------------------------------------------------------------------------
(* main                                                                    *)

Init == /\ stage = "options" /\ trace_file = "stdout" /\ options = 0
        /\ given = << >> /\ table = << >> /\ cached = {}
        /\ tracer = InitialTracer
        /\ lock = "free" /\ todo = [w \in Threads |-> << >>] /\ jobs = 0
        /\ pc \in Pcs      \* malloc's: the reset does not move it
        /\ due = << >>

\* getopt_long returned an option.
Option == /\ stage = "options" /\ options < MaxOptions
          /\ options' = options + 1
          /\ UNCHANGED <<cached, workVars>>
OptionTrace == /\ Option
               /\ \E f \in {MEMORY, REGISTERS, CORE_STATE, POSITION} :
                    tracer' = trace_add(tracer, f)
               /\ UNCHANGED <<stage, trace_file, given, table>>
\* A name that does not fit is written past the end of the table.
OptionDebug == /\ Option
               /\ \E n \in Files : /\ given' = Append(given, n)
                                   /\ table' = add_debug_to(table, n)
               /\ stage' = IF Len(table') > MAX_FILES_NUMBER
                           THEN "undefined" ELSE stage
               /\ UNCHANGED <<trace_file, tracer>>
OptionFile == /\ Option
              /\ trace_file' = "file"
              /\ UNCHANGED <<stage, given, table, tracer>>
\* --help, an unknown option, or a trace file that cannot be opened.
OptionExit == /\ Option
              /\ stage' = "exited"
              /\ UNCHANGED <<trace_file, given, table, tracer>>

\* Mutated form of GdbInit: the handlers are set before the options.
GdbInitEarly == /\ stage = "options" /\ cached = {}
                /\ cached' = {is_debugged(table, GdbFile)}
                /\ stage' \in {"options", "trace_file"}
                /\ UNCHANGED <<trace_file, options, given, table, tracer,
                               workVars>>

\* gdb_init, with the first debug message of gdb_protocol.c.
GdbInit == /\ stage = "options"
           /\ cached' = {is_debugged(table, GdbFile)}
           /\ stage' = "trace_file"
           /\ UNCHANGED <<trace_file, options, given, table, tracer, workVars>>

\* Mutated form of SetTraceFile: not before the threads run.
SetTraceFileLate == /\ stage = "trace_file"
                    /\ stage' = "create"
                    /\ UNCHANGED <<trace_file, options, given, table, cached,
                                   tracer, workVars>>

SetTraceFile == /\ stage = "trace_file"
                /\ tracer' = set_trace_file(tracer, trace_file)
                /\ stage' = "create"
                /\ UNCHANGED <<trace_file, options, given, table, cached,
                               workVars>>

\* A thread takes the lock and sets out on some work.
Begin(who, work, lines) == /\ lock = "free"
                             /\ lock' = who
                             /\ todo' = [todo EXCEPT ![who] = work]
                             /\ due' = due \o lines
                             /\ UNCHANGED tracer

\* arm_create resets the core.
ArmCreate == /\ stage = "create"
             /\ Begin("main", arm_exception, ExceptionLines)
             /\ stage' = "run"
             /\ UNCHANGED <<trace_file, options, given, table, cached, pc, jobs>>

-----------------------------------------------------------------------------
(* The threads                                                             *)

Job == /\ stage = "run" /\ jobs < MaxJobs
       /\ jobs' = jobs + 1
       /\ UNCHANGED startVars

\* A cont that stops at once only looks ahead.
GdbHidden == /\ Job
             /\ \E work \in {read_register(0), read_register(PC),
                             write_register(0), read_general_registers,
                             Ahead(pc)} :
                  Begin("gdb", work, << >>)
             /\ UNCHANGED pc
\* P of the pc, and G, which has it among its registers.
GdbSetsPc == /\ Job
             /\ \E work \in {write_register(PC), write_general_registers} :
                  Begin("gdb", work, << >>)
             /\ pc' \in Pcs
GdbStep == /\ Job
           /\ \E k \in Kinds :
                /\ Begin("gdb", step(k, pc),
                         InstructionLines(k, FetchAddress(pc)) \o StateLines)
                /\ pc' \in Targets(k, pc)
\* A cont that executes one instruction and stops before the next.
GdbCont == /\ Job
           /\ \E k \in Kinds : \E next \in Targets(k, pc) :
                /\ Begin("gdb", Ahead(pc) \o step(k, pc) \o Ahead(next),
                         InstructionLines(k, FetchAddress(pc)) \o StateLines)
                /\ pc' = next

\* Mutated form of IrqReset: the lock is not taken.
IrqResetNoLock == /\ Job
                  /\ todo["irq"] = << >>
                  /\ todo' = [todo EXCEPT !["irq"] = arm_exception]
                  /\ due' = due \o ExceptionLines
                  /\ UNCHANGED <<tracer, lock, pc>>

IrqReset == /\ Job
            /\ Begin("irq", arm_exception, ExceptionLines)
            /\ UNCHANGED pc

\* One call.  Printing without an output ends the process.
Work(who) ==
  /\ todo[who] # << >>
  /\ \E s \in {Head(todo[who])} :
       /\ tracer' = Perform(tracer, s)
       /\ todo' = [todo EXCEPT ![who] =
                     (IF s.op = "state" /\ tracer.enabled THEN StateDump
                      ELSE << >>) \o Tail(@)]
  /\ stage' = IF tracer'.log # tracer.log /\ tracer.output = NoFile
              THEN "crashed" ELSE stage
  /\ UNCHANGED <<trace_file, options, given, table, cached, lock, pc, jobs,
                 due>>

\* The work is done and the lock released.
Release(who) == /\ lock = who /\ todo[who] = << >>
                /\ lock' = "free"
                /\ UNCHANGED <<startVars, tracer, todo, pc, jobs, due>>

Next == /\ stage \notin {"exited", "undefined", "crashed"}
        /\ \/ OptionTrace \/ OptionDebug \/ OptionFile \/ OptionExit
           \/ GdbInit \/ SetTraceFile \/ ArmCreate
           \/ GdbHidden \/ GdbSetsPc \/ GdbStep \/ GdbCont \/ IrqReset
           \/ \E who \in Threads : Work(who) \/ Release(who)

Spec == Init /\ [][Next]_vars

-----------------------------------------------------------------------------
(* Properties                                                              *)

\* Types; the index of the location stack stays inside its arrays.
TypeOK == /\ stage \in {"options", "trace_file", "create", "run", "exited",
                        "undefined", "crashed"}
          /\ trace_file \in {"stdout", "file"}
          /\ options \in 0 .. MaxOptions /\ jobs \in 0 .. MaxJobs
          /\ tracer.enabled \in BOOLEAN /\ tracer.top \in -1 .. StackSize - 1
          /\ pc \in 0 .. AddressMod - 1
          /\ lock \in Threads \union {"free"}

\* No piece of work is under way.
Idle == lock = "free" /\ \A w \in Threads : todo[w] = << >>

\* Between two pieces of work the location stack is empty and the trace
\* enabled: no handler leaves the trace off, and no location is pushed while
\* the trace is on and popped while it is off.
TraceRestored == Idle => tracer.enabled /\ tracer.top = -1

\* The trace is what the processor did, in its order and complete: every
\* wanted access of an instruction, an exception or a state dump, with the
\* location of the call it belongs to, and nothing of what gdb looked at,
\* the word that cont reads in advance included.
TraceIsExecution ==
  Idle =>
    [k \in DOMAIN tracer.log |-> [access |-> tracer.log[k].access,
                                  site |-> tracer.log[k].site]] = due

\* An access is marked sequential when it is 4 bytes after the access traced
\* before it, where the addresses wrap around, whatever gdb has read in
\* between; the first one when it is 4 bytes after the address last_address
\* starts with, which trace.c takes for impossible.
SequentialMarks ==
  LET log == tracer.log
      memory == {k \in DOMAIN log : log[k].access.what = "memory"}
  IN  \A k \in memory :
        log[k].seq <=>
          \/ \E j \in memory :
               /\ j < k /\ \A i \in memory : i <= j \/ k <= i
               /\ log[k].access.n = (log[j].access.n + 4) % AddressMod
          \/ /\ \A i \in memory : k <= i
             /\ log[k].access.n = (FirstAddress + 4) % AddressMod

\* Nothing is traced before set_trace_file: arm_create, which resets the
\* core through traced accessors, comes after it.
TracedToAFile == stage # "crashed"

\* The binary search finds what was given, and all of it, up to the limit of
\* the table, which is written past its end only when more names are given
\* than it has places.
SearchIsMembership ==
  IF stage = "undefined" THEN Len(given) > MAX_FILES_NUMBER
  ELSE \A n \in Files :
         /\ is_debugged(table, n) <=> n \in {table[i] : i \in DOMAIN table}
         /\ Len(given) <= MAX_FILES_NUMBER =>
              (is_debugged(table, n) <=> n \in {given[i] : i \in DOMAIN given})

\* With CACHE_DEBUG_FLAG a file asks the table once, at its first message:
\* that is after the options, so that the answer stays true.
CacheIsTrue == cached \subseteq {is_debugged(table, GdbFile)}
=============================================================================

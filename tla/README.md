# arm_simulator 1.4 in TLA+

A TLA+ development of the ARMv5 simulator in `src/arm_simulator-1.4`: a process
that simulates a processor and its memory, is driven by a gdb client over one
TCP connection, and receives interrupts over another port. The modules follow
the code as it is; where the code does something else than its comments, its
header files or its own other parts say, a run shows the difference and
`PROJECT.json` lists it under `findings`.

## 1. The system

| component | state | operations | meets the others through |
|---|---|---|---|
| memory (`memory.c`) | byte array, size, endianness | create, read and write of byte, half, word | called by the core and by gdb's `m` and `X` |
| util | none | bit fields, `asr`, `ror` | macros and functions |
| registers, arm_core | 18 words: r0..r15, cpsr, spsr | accessors, fetch, create | called by instructions and handlers |
| arm_exception | none | `arm_exception`: RESET sets the cpsr, and would set the pc | called by the irq thread and by `arm_step` |
| arm_instruction, arm_load_store, arm_branch_other | none | `arm_step`: fetch, condition, execute | called by gdb's `s` and `c` |
| gdb_protocol | last packet and its length, target exception, handler table | twelve handlers; ack, nak, transmit | called by the scanner, under the lock |
| scanner (`scanner.l`) | error buffer | one rule per token | the gdb connection |
| arm_simulator | threads, mutex, sockets | main, `gdb_listener`, `irq_listener` | shared core under `shared.lock` |
| send_irq | none | sends one byte | the irq connection |
| trace (`trace.c`, `trace_location.h`) | enabled, flags, stack of locations, last address, output | start and end of a location, trace of an access, disable, enable | every accessor of the core reports to it; handlers of gdb switch it off |
| debug | sorted table of file names | add, search | filled by main's options, asked by debug messages |
| arm_constants | none | names and numbers | output |
| gdb (external) | the command in hand | command, `+`, `-`, 0x03 | the gdb connection |
| csapp | none | system calls; an error ends the process | called from the threads |

What is hard here:

* two threads share the core under one mutex, which a handler holds from its
  dispatch to its reply; `cont` is such a handler and may never end;
* main waits for one of its two threads and frees what the other one uses;
* clients close at any moment; a write then ends the process, and so does a
  read error or an `Accept` without a descriptor;
* the scanner resynchronises on stray bytes, bad checksums and requests for
  retransmission, while gdb does the same at its end;
* the tracer is global, without a lock, and its switch and its stack only work
  when every user brackets its accesses properly;
* registers travel in the target's byte order through a union in the host's;
  the pc is one instruction in advance when it is read and not when written;
* the decoder reads uninitialised variables and one function may end without a
  return: an instruction can have several outcomes.

What makes each part correct: the memory reads back what was written, in the
layout of its endianness, and stays inside its mapping; a step of the processor
moves the pc as it should, touches only what it names and computes what the
opcode's comment says; handlers and exceptions exclude each other and work on a
live core; each acknowledged packet is answered once, a retransmission repeats
the last answer, a breakpoint is not executed, gdb can save and restore the
registers; a command is executed once and its answer is the one gdb takes; no
reply but that of a long read runs over its buffer; the lock is released and the process ends when its client
leaves; the trace is what the processor did.

## 2. Modules

```
Words <- MemoryOps <- Memory                 <- MCMemory, MemoryProofs
                   <- ArmCore <- ArmInstruction
ArmInstruction <- CoreProofs
               <- ArmMachine                 <- MCArmMachine, ArmMachineProofs
               <- GdbProtocol <- ArmSimulator <- MCArmSimulator, ArmSimulatorProofs,
                                                 SimulatorReplyProofs
ArmSimulator   <- GdbSession                 <- MCGdbSession, GdbSessionProofs
Trace, Debug   <- TracedRun                  <- TracedRunProofs, DebugProofs
```

`GdbServer` stands alone: the handlers are its parameters. `GdbSession` gives
them those of `GdbProtocol` in an `INSTANCE` of it, which it implements.

| module | models | how |
|---|---|---|
| `Words` | `util.h`, `util.c`, uint32_t arithmetic | words of four bytes of `ByteBits` bits, everything modulo `WordMod` |
| `MemoryOps` | `memory.c` | a memory is a record (`big`, `size`, `cells`); `cells` goes on for `SlackBytes` after the block, because malloc serves 0x20000 bytes with a mapping of whole pages; an access outside the cells is a fault |
| `Memory` | the memory under any sequence of accesses | ghost `live`: the writes that no later one has overlapped |
| `ArmCore` | `registers.c`, `arm_core.c`, `arm_exception.c` | a core is a record (`reg`, `mem`, `fault`) |
| `ArmInstruction` | `arm_instruction.c`, `arm_load_store.c`, `arm_branch_other.c` | `arm_step` maps a core to the SET of cores it may become, with several members only where the code has undefined behaviour; `Decode` gives the fields of an instruction word, from the table `Instructions` (a constant) |
| `ArmMachine` | the processor running | `Step`, and `Exception` between two instructions; ghosts `last` and `stored` |
| `GdbProtocol` | the handlers of `gdb_protocol.c` | a handler maps the core and a packet to its outcomes (core, reply, assertion failed) |
| `ArmSimulator` | `arm_simulator.c`, `scanner.l`, dispatch of `gdb_protocol.c` | a program counter per thread, one action per step between two synchronisation points |
| `GdbServer` | what the simulator promises to gdb | an abstract specification: `Ask`, `Serve` (or `Decline`, or `Start`, `Run`, `Stop`), `Deliver`, with whole exceptions in between, over any handlers; nothing of connection, scanner, acknowledgements, threads or lock |
| `GdbSession` | gdb and the simulator at the two ends of the connection | the actions of `ArmSimulator`, whose scanner now meets what gdb sent (`line`); gdb is external |
| `Trace` | `trace.c`, `trace_location.h`, what the accessors of `arm_core.c` report | a tracer is a record; work is a sequence of calls to it (`Located` is one macro) |
| `Debug` | `debug.c`, `debug.h` | the table is a sequence of numbers, the places of the names in the order of `strcmp`; the search is a recursive function |
| `TracedRun` | main's options, and the threads over the tracer | each call to the tracer is one step; a ghost `due` has what should be traced |
| `MC*` | instances for TLC | programs, packets and constants |
| `*Proofs` | proofs | see section 5 |

The threads of `ArmSimulator` are at these places: main `create_gdb`,
`create_irq`, `join`, `destroy_arm`, `destroy_memory`, `return`; the gdb thread
`accept`, `scan` (in `yylex`), `lock` (at `pthread_mutex_lock`), `handle` or
`cont` (inside), `unlock`, `closing`, `exited`; the irq thread `accept`, `read`,
`lock`, `exception`, `unlock`. A handler other than `cont` is one step, since
nothing it touches is shared without the lock; `cont` is one step per round of
its loop, and its rounds far outside the memory, where only the pc moves, are
taken at once up to the point where the pc wraps around (`SkipUnmapped`). The
gdb client is any client: the scanner may meet any token next. A write to a
closed connection may still succeed, or end the process. A reply that is too long
for `gdb->packet` runs into the fields after it (`Overruns`): what follows is
undefined, and the process is in the state `overrun`, where the model ends.

In `GdbSession` gdb issues a command, waits for `+` (and sends the command again
on `-`), waits for the reply and answers `+`, or `-` when its checksum is wrong;
it skips what it does not expect, as gdb does. While a program runs it may send
0x03. The connection keeps order and loses nothing (TCP), but a packet or a
reply may arrive damaged (`Damage`, `ReadBadReply`): the case both sides ask
for retransmissions for. gdb's timeouts are left out: with nothing lost they do
not help. `SessionIsSimulator` shows that only the inputs are restricted.

The refinement mapping of `ServesOnce`: gdb waiting for nothing is `idle`; once
it has issued a command the phase is `asked` until there are as many replies as
commands, then `answered`; a `cont` inside the lock is `running`; the answer due
is `gdb->packet`. The promise is `off` when the client or the process is gone,
after a kill, and after a 0x03.

In `TracedRun` an instruction is the accesses its code makes, for a register
result, a store and a branch; a handler is its accesses between `trace_disable`
and `trace_enable`; `cont` looks ahead, executes, and looks ahead again. The pc
starts with what malloc left in r15, any word of `Pcs`, since the reset does not
move it; a branch and gdb, with `P` or `G` (`GdbSetsPc`), may set it to any of them.
Addresses, and the comparison with the last one traced, are modulo `AddressMod`.

Operators named as mutated forms of a definition (`WalkSwapped`,
`MainJoinNone`, ...) are used by no specification: each is a plausible mistake
in the code, and `PROJECT.json` pairs it with the property that detects it.

## 3. Runs

| run | configuration | shows |
|---|---|---|
| `memory` | `MCMemory.cfg` | `EndianLayout`, `ReadYourWrites`, `EndianMirror`, `AcceptedReadsAreMapped` for every sequence of accesses |
| `machine` | `MCArmMachine.cfg` | control flow (`NextFetch`), frame (`StepFrame`), `LoadsWhatWasStored`, `AluAsCommented`, and that undefined behaviour shows in two places only (`OneOutcome`) |
| `simulator` | `MCArmSimulator.cfg` | threads, lock, life of the core, scanner, replies (`OneReplyPerPacket`), byte order and breakpoints, with every command, big endian; `X` against `m` (`MemoryRoundTrip`) |
| `reply_buffer` | `MCArmBuffer.cfg` | room in `gdb->packet`: of all answers only that to an `m` of more than 509 bytes runs over it (`OnlyLongReadsOverrun`) |
| `session` | `MCArmSession.cfg` | three tokens, little endian: `RetransmitsLastReply`, `RegisterTextIsMemoryText`; with fairness `HandlersAnswer` (a handler comes back to the scanner with its answer sent), `ProcessEnds` |
| `gdb_session` | `MCGdbSession.cfg` | the refinement (`ServesOnce`), that commands are answered (`CommandsAnswered`), and the price of a 0x03 byte (`ExtraExecutions`, `ReplyLag`) |
| `traced_run` | `TracedRun.cfg` | `TraceIsExecution`, `TraceRestored`, `SequentialMarks`, `TracedToAFile`; `SearchIsMembership`, `CacheIsTrue` |
| `memory_status`, `reset_fetch`, `register_numbers`, `packet_size`, `irq_starved` | `MCMemoryStatus.cfg`, `MCArmReset.cfg`, `MCArmNumbers.cfg`, `MCArmPacket.cfg`, `MCArmIrq.cfg` | each a statement of the repository that the code does not meet (section 4) |

Bounds, and why they are enough:

* `memory`: bytes of one bit, a block of two bytes and four mapped bytes after
  it. Widths 1, 2 and 4 then overlap in every way, at the end of the block and
  at the end of the mapping. The theorems hold for any size.
* `machine`: words of 28 bits, the widest TLC's integers allow; branch offsets
  have 24 bits and are shifted by 2, so the sign extension shows. Programs have
  three instructions out of a table with all sixteen opcodes on two immediates,
  all eight shifts, loads and stores of both widths with every form of offset,
  and branches that pass, fail and link; both endiannesses, two values of r0 (one
  negative), three cpsr (after a reset, with Z and C, user mode with N). `PcBound` stops
  following a pc that has left the memory.
* `simulator`: words of 16 bits, three words of memory and two mapped after
  them, so that an `X` may cross the end of the block or of the mapping; two
  tokens (a packet and what follows it); an error buffer of two characters, so
  that its limit is met; one irq descriptor, so that the second connection
  exhausts them.
* `reply_buffer`, `packet_size`: the 1024 characters of the code, a memory of 516
  bytes, and reads of 509 bytes (the last that fit), 510, 512 (the last announced)
  and 513, among commands with short answers and `g`, the longest of the others.
  The other runs have the same buffer and only short reads.
* `session`: three tokens, enough to load a program, run it and ask for a
  retransmission, over fewer packets and with the one interrupt that has an
  effect.
* `gdb_session`: two commands out of `c`, `s`, `k`, `G` and one without a
  handler, one damaged packet or reply, one 0x03 byte, and twelve tokens, which
  no behaviour uses up. A damaged packet with its retransmission, a command and the next one's
  replies can then all be on their way at once. The pc starts outside the one
  word of memory, so that a `cont` may stop at once or run for ever; a step shows
  in the pc, a reset in the cpsr. Two damages or two 0x03 bytes add repetitions of
  the same situations; `ExtraExecutions` and `ReplyLag` are stated for any number
  and are tight here: with one byte a command does run twice.
* `traced_run`: three options over the four trace flags, three file names and
  the trace file, so that the table of two overflows; two pieces of work of
  two threads; sixteen registers, and two modes in the state dump, whose sequence
  has the same shape with seven; a stack of three locations, of which the nested
  macros of a branch use two; 64 addresses, an initial `last_address` of 56 and a
  pc of 0 or 60, so that accesses wrap around and the first one may be marked
  sequential.

All runs switch the deadlock check off: the process may end, and an idle
simulator waits for its clients.

Fairness (`FairSpec`): weak fairness for the steps of main, for the gdb thread
once it has a packet, for the irq thread once it has a byte, and for the
scanner's end of file after the client has closed. That is what the scheduler
and TCP give. `FairSession` adds that the scanner goes on with bytes that have
arrived and that gdb reads what has arrived for it; gdb need not issue commands,
and damage never has to happen. Nothing is assumed of other clients, and no fairness is assumed of
the mutex: the liveness properties are stated for when interrupts cease
(`QuietIrq`), because a steady stream of them may win the lock for ever.

## 4. What the code does not do

* The reads of `memory.c` return the value, not a status (`memory_status`).
* A reset leaves the pc alone: the write goes through the user-register
  accessor, which the supervisor mode just entered disables (`reset_fetch`).
* `p` reads the hexadecimal number of a register with `atoi`, so that `p f` shows
  r0; `P` reads it with `%x` (`register_numbers`).
* `query` announces packets of 0x400 characters, which lets gdb ask `m` for 512
  bytes, of which `gdb->packet` holds 509 with their frame and the final `'\0'`
  (`packet_size`). With 510 only that `'\0'` falls outside, into `len`, which is
  set afterwards; with 511 and 512 `len` is written over the end of the text that
  is sent; a still longer read reaches the pointer `buffer`.
* An interrupt during `cont` waits for a breakpoint (`irq_starved`).

The model has these too, without a run of their own: a 0x03 sent by gdb during
`cont` is not an interrupt but an error of the scanner, reported only at the next
token, so that the next command may be executed twice and the replies after it
come one late; `BL` links to the instruction after the next one
(`arm_branch_other.c:52`), where `trace_example1:18` has the next one; no
instruction changes the flags (`arm_instruction.c:334`), where `trace_example1:28`
has SUBS write the cpsr; loads and stores use the number of the base register
(`arm_load_store.c:34`), where `trace_example2:63` has its value used; the
65th `--debug` is written past the table unless its name comes last, when it is
dropped; the state dump reads registers through traced accessors, so that with
`--trace-registers` the dump itself is in the trace; `MVN` and `BIC` negate
with `!` where their comments say NOT; `swi 0x123456`, which a comment calls the
end of the simulation, is a step without effect; a `p` or `P` for a register over
15 (gdb numbers the cpsr 25) fails `assert(reg < 16)` and ends the simulator.

## 5. Proofs

Every theorem holds for all values of the constants that meet the assumptions
below, and for behaviours of any length.

`MemoryProofs` (any block size, slack and byte width, any number of accesses):
`MemoryTypeCorrect`, `LaidOutByEndianness`, `ReadsBackWrites`,
`AcceptedReadsSafe`, `OrdersMirror`. `EndianLayout` is not inductive alone: a live
write that lay outside the mapping could be lost without an overlap, and the
reads' results need the type of the cells. The inductive invariant is
`MemInv == TypeOK /\ LiveMapped /\ EndianLayout`. The argument: each
`memory_write_*` leaves a memory that `Stores` the value at its address and
nothing else (`WriteByteStores`, `WriteHalfStores`, `WriteWordStores`); whatever
`Stores` keeps every live write it does not overlap (`StoresKeeps`); a value laid
out in the memory's order reads back as itself (`LayoutReadsBack`).

`CoreProofs` has the lemmas about words and cores that the next modules share.
The provers know powers of two for given exponents only, so `PowerTable` and
`Complement` go through the exponents of a word of at most 32 bits; the sum of
bits behind the bitwise operators is a recursive function, of which `SumsExist`
and `SumsHaveBits` are proved by looking at a least counterexample (`LeastOf`),
an induction that needs no operator as a parameter. `Shape(p, b, n)` says that p
is a core over a memory of n bytes with the byte order b, with words in its
registers and bytes in its cells; `StepKeeps` and `ExceptionKeeps` say that no
instruction and no exception changes that.

`ArmMachineProofs` (any table of instructions, any memory and program, bytes of
four to eight bits): `MachineTypeCorrect`, `InstructionsFrame`,
`OutcomesAreUnique`, `ControlFlows`, `LoadsAreStores`, `OpcodesCompute`. The
invariant of the first is `TypeInv` (the core has a `Shape`); an instruction is
then the fetch and one of three things (`StepCases`), and each theorem has a
lemma per kind of instruction. `ControlFlows` shows that what `Extend_30` makes of
the offset with the `set_bits` macro, shifted by two, is four times the signed
offset modulo the word (`BranchOffsetIs`), and that the bit which reading the pc
clears is not set after a fetch (`FetchedPc`). `LoadsAreStores` needs the
invariant `StoredInv`: what a STR wrote and no store has overlapped since is
mapped and lies in the order of the memory. `OpcodesCompute` is modular
arithmetic and the bits of `BitSum`.

`ArmSimulatorProofs` (any packets, irq bytes, memory, program, buffer size,
number of tokens and connections): `TypeCorrect`, `MutuallyExclusive`,
`HandlersSafe`, `UseAfterFreeConfined`, `ErrorBufferSafe`,
`ContStopsAtBreakpoints`, `RepliesOnce`, `RetransmissionsAreLast`. The inductive
invariant of the first six is
`IInv == TypeOK /\ LockInv /\ LifeInv /\ ErrorBufferBound`: `LockInv` says the
lock is held exactly by the thread that is inside, which mutual exclusion alone
does not; `LifeInv` ties the stages of main to the threads (past its join the
gdb thread has exited, and only then is anything freed). The handlers are
opaque in these proofs. `ContStopsAtBreakpoints` is an action property: under
`IInv` no exception can come between the look-ahead of `cont` and its step. The
last two need `OrderInv`: acknowledgements and replies alternate in what was
sent, the packet being handled is the one acknowledgement ahead, and
`gdb->packet` is the last reply as long as the process runs.

`SimulatorReplyProofs` (any memory, any buffer that holds the answer to `g`, any
packets, with `m` requests of any size): `OverrunsAreLongReads`, `OneByteOrder`,
`WrittenMemoryIsShown`, `RegistersRoundTrip`. Here the handlers are not opaque:
`HandleFits` goes through every command, `RegistersFit` and `MemoryFits` count
the characters of `g` and `m` with the cardinality theorems of the library.
`OnlyLongReadsOverrun` alone is not inductive: the invariant `ReplyInv` adds that
the packet in hand is one that was received, has a handler, and is not `c` outside
of `cont`. With the 1024 characters of the code the theorem says that exactly the
reads of 510 bytes and more are to be feared, three sizes of which are announced.
The others follow from `CoreInv`, the `Shape` of the core over the memory main
has made, whatever handlers, instructions and exceptions did to it.

`GdbSessionProofs` (any number of commands, damaged messages and stray bytes):
`SessionIsSimulator`, `ExecutionsBounded`, `LagBounded`, `SessionServesOnce`.
Every step of a session is a step of the simulator or one of gdb alone
(`SessionStep`), so that mutual exclusion, the life of the core, what is proved of
the buffers, the breakpoints, and one reply per packet hold in sessions, too.
`ExtraExecutions` is not inductive: `ExecInv` counts everything that may still
lead to an execution (acknowledged packets, packets on the line, `-` that gdb has
not read, bytes that will cause one, characters in the error buffer) against the
commands issued and the stray bytes; `LagInv` does the same with replies read
and requests for retransmission.

`SessionServesOnce` is the refinement of `GdbServer`: initial states map to
initial states, and each step maps to a step or to a stutter. The counts of
`ExecInv` and `LagInv` say more than their bounds as long as there is no stray
byte: of packets not scanned, packet in hand, `-` not read, and replies not read
at most one is under way (`OneUnderWay`), so that an execution always happens in
the phase `asked` and gdb reads an answer always in the phase `answered`. What
they do not say is what is under way: `RefInv` adds `OnTheWay` (the packets on the
line and the one in hand are the command gdb waits for, and the replies it has
not read are `gdb->packet`) and `Dispatched` (the packet in hand has a handler,
and `cont` is for `c`). There is then a lemma per group of actions: issuing is
`Ask`, taking a good reply is `Deliver`, the end of a handler is `Serve`, an empty
answer is `Decline`, taking the lock for `c` is `Start`, a round of `cont` is `Run`
or `Stop`, an exception is `Interrupt`; a damaged packet or reply, a
retransmission and an acknowledgement are stutters.

`TracedRunProofs` (any options, files, registers, modes, jobs, number of addresses,
initial `last_address` and pc, and a stack of at least two locations): `RunTypeCorrect`,
`TraceIsRestored`, `TraceHasAFile`, `CacheStaysTrue`, `TraceIsTheExecution`,
`MarksAreSequential`. Whether the trace is restored, and what it will hold,
depends on the calls still to be made. So `RunInv` says of the work left of the
thread with the lock that it is a `Plan`: two functions give the place of the
tracer before each call (trace on or off, the locations on the stack) and the
lines still to come; each call is a `Move` from one place to the next and
`Emits` its lines. Such functions are given for every piece of work
(`PlanConcat` joins two) and stand for a recursion over it. `WorkLeads` then has
the tracer at the place its work starts from, and what it has traced followed by
what is to come is what is due; with no work left that is `TraceIsExecution`. The
places also bound the stack (`RunTypeCorrect`). The loops of `g` and `G` have a plan
for any number of registers (`PlanEach`), and what happens while the trace is off
has one without lines (`PlanUnseen`). A
state dump is due before it is expanded into its reads: `PlanDump` is the plan of
the expansion.

`SequentialMarks` relates a mark to the access traced before it: `MarksRight` adds
that `last_address` is the address of the last one traced, and the initial one as
long as there is none. A first access 4 bytes after the initial `last_address` is
marked sequential. trace.c calls that no problem because the first fetch is from
0; section 4 says why it need not be, and the property makes no use of it.

`DebugProofs` (any table size, names and order): `SearchIsRight`. The binary
search is a recursive function over the intervals of the table; that it finds
exactly the members of a sorted table is again proved with a least
counterexample, in the length of the interval. `TableInv` keeps the table sorted
and equal to the names given as long as it fits.

Assumptions on the constants, all evaluated by TLC in the runs: `ByteAssumption`,
`SlackAssumption`, `SizeAssumption`, `EndianAssumption`; `CpsrAssumption` (a byte
has four to eight bits, so that the reset cpsr fits a word clear of the flags);
`DecodeAssumption` (fields have the values their widths allow);
`CoresAssumption` (the initial cores hold words and bytes); `SimulatorAssumption`
(an error buffer of at least two characters, a memory of at least one word,
malloc leaves words in the registers, `PcBound` of at least one instruction);
`PacketAssumption` (`gdb->packet` holds the answer to `g`, and the values of `X`,
`P` and `G` are bytes; nothing is assumed of the size of a read);
`SessionAssumption`; `StackAssumption` (two locations, which nested macros use,
and an initial `last_address` that is an address), `FilesAssumption` and
`RunAssumption` (`Pcs` are addresses).

Model-checked only:

* liveness (`HandlersAnswer`, `ProcessEnds`, `CommandsAnswered`): fairness is out
  of reach of the prover.

Every invariant and every action property the passing runs check, and the
refinement, are theorems.

## 6. Not modelled

* The text of the traces, of debug messages and of packets; the escape
  character of `X`.
* `csapp.c`: third-party wrappers; only that an error ends the process and that
  `rio_writen` sends everything or fails.
* The ports among main's options; `arm_data_processing.c` (stubs without a
  caller); the accessors nobody calls (half words of the core, spsr), except as
  traced accesses.
* The option parsing of `send_irq.c`; its byte is one of `Irqs`.
* malloc failing for anything but the memory block, which only `Memory` has.
* Another evaluation order of `call + END_LOCATION` in `trace_location.h`: C
  leaves it open, the model has the call first.

## 7. Order of the work, and what is left

The memory came first, then the processor over it, the threads and the protocol,
the sessions with gdb and their abstract specification, and the trace with the
debug table; each was model-checked before anything was proved of it, and the
proofs followed in the same order. What is left is outside of the prover's reach
(liveness) or of the model (section 6).

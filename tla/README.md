# A verification development for iskemu

iskemu is a single-threaded RISC-V (RV32) emulator with memory-mapped devices
(a keyboard and a screen through SDL, a serial port, a timer), run either in
batch mode or under a small interactive debugger. This directory models it in
TLA+, model-checks the models with TLC and proves the properties that matter
most with TLAPS. Paths below are relative to the repository.

## 1. The system

| component | state it keeps | operations | interacts through |
|---|---|---|---|
| execution engine: `src/cpu/cpu-exec.c`, `src/host.c`, `src/main.c` | `nemu_state` (state, halt_pc, halt_ret), `g_nr_guest_inst` | `cpu_exec`, `execute`, `exec_once`, `set_nemu_state`, `invalid_inst`, `is_exit_status_bad` | called by the debugger; calls the instruction set, `check_wp` (CONFIG_DEBUG), `device_update`; everybody reads or writes `nemu_state` |
| interactive debugger: `src/monitor/idb/idb.c` | `is_batch_mode`, the line being read | `idb_mainloop`, the nine `cmd_*` | clears SDL's queue before each command; calls `cpu_exec`, `expr`, the watchpoints |
| device update: `src/device/device.c` | `last`, the time of the previous update; SDL's event queue | `device_update`, `sdl_clear_event_queue` | polls SDL, calls `send_key`, `vga_update_screen`, sets QUIT |
| keyboard: `src/device/keyboard.c` | `key_queue`, `key_f`, `key_r`, the port | `send_key`, `key_enqueue`, `key_dequeue`, the port's handler | written by `device_update`, read by the guest and by debugger expressions |
| watchpoints: `src/monitor/idb/watchpoint.c` | `wp_pool`, `head`, `free_` | `new_wp`, `free_wp`, add, erase by position or number, display, `check_wp` | evaluate expressions; stop the engine through `nemu_state` |
| expressions: `src/monitor/idb/expr.c` | `tokens`, `nr_token` | `make_token`, `parse_exp`, `get_leftblock`, `expr` | read registers and (through the bus) memory and devices |
| instruction trace: `iringbuf_*` in `src/cpu/cpu-exec.c` | `iringbuf`, `irb_begin`, `irb_end` | init, write, display | written after each instruction (CONFIG_DEBUG), shown by `info i` and failed Asserts |
| VGA: `src/device/vga.c` | size and sync registers, frame buffer | `vga_update_screen` | the guest writes the registers, `device_update` takes frames |
| serial port, timer: `src/device/serial.c`, `timer.c` | control and status, RTC, interrupt number | the handlers | guest loads and stores |
| bus and memory: `src/device/mmio.c`, `src/memory/memory.c` | `maps`, `nr_map`, `io_space`, `pmem` | `add_mmio_map`, `map_read`, `map_write`, `paddr_*` | between the instruction set or the debugger and the devices |
| instruction set: `src/cpu/inst.c`, `reg.c` | `cpu.gpr`, `cpu.pc` | one execution body per opcode | bus, `set_nemu_state` |
| MMU, interrupts: `src/cpu/mmu.c`, `intr.c` | CSRs, `cpu.intr` | translation, `isa_raise_intr`, `isa_query_intr` | unreachable in this build: the CSR instructions, `ecall` and `mret` are commented out (`inst.c:119-125`) and nothing sets `cpu.intr` |
| start-up: `src/monitor/monitor.c`, `src/init.c` | log file, image | argument parsing, loading | runs once |

What is hard here is not parallelism inside the program (there is one thread)
but the order in which one thread meets things that happen around it:

* the host queues key and close events at any moment, while the thread looks at
  them only inside `device_update`, at most every 1/60 s, behind the state test
  of `execute`, or throws them away at the prompt;
* five places write `nemu_state.state` (`cpu_exec`, `q`, the close event, traps
  and invalid opcodes, `check_wp`), each without looking at what was there;
* reads have effects: a load from the keyboard's port takes a key away, whether
  the guest or a debugger expression performs it;
* rings and linked lists are used up, wrap around and are taken apart in any
  order by long sequences of legal commands;
* asserts end the process in the middle of an operation.

What makes each component correct: a halted program never resumes, the exit
status tells how the session ended, `si N` executes N instructions, a closed
window ends a run promptly (engine); keys arrive once, in order, fresh
(keyboard, device update); no watchpoint is lost and every change from the
recorded value is reported once (watchpoints); an expression is worth what its
grammar says and reads memory exactly where it says so (expressions); the trace
shows the latest instructions (trace); a requested frame is taken (VGA); an access reaches the
one device that claims the address (bus).

## 2. Modules

| module | role |
|---|---|
| `KeyFifo`, `Keyboard` | abstract bounded FIFO; the ring of `keyboard.c`, which implements it |
| `Session`, `Engine` | what a user is promised of a session; the debugger, the loop, `device_update`, the VGA sync flag and the keyboard (by INSTANCE), which implement it |
| `WatchList`, `Watchpoints` | abstract list of watched expressions; the pool with its two linked lists |
| `TraceRing` | the trace's ring, with its contents compared to a history of all lines |
| `ExprGrammar`, `Expr` | what an expression is worth, by splitting it at its loosest operator; the code's precedence climbing |
| `Bits` | integers as sets of bits: what `&`, `\|` and `^` do to a word |
| `HostMem`, `Bus` | bytes and words in host memory; physical memory, the spaces and maps of devices |
| `Peripherals`, `Devices` | the registers and memories a guest sees; the handlers, spaces, callbacks and accesses, which implement them |
| `Isa`, `Hart` | the instructions on signed integers, by their mnemonics; decoding and executing an instruction word, which implements them |
| `MCKeyboard`, `MCEngine`, `MCExpr`, `MCDevices`, `MCHart` | constants for TLC |
| `KeyboardProofs`, `EngineProofs`, `TraceRingProofs`, `WatchpointsProofs`, `HostMemProofs`, `DevicesProofs`, `PeripheralsProofs`, `HartProofs` | theorems, each about the module it is named after; `EngineProofs` is also about the keyboard inside `Engine`, `PeripheralsProofs` about `Devices` implementing `Peripherals` |

### Engine

`phase` is where the thread is. It is cut at the points between which the host
can queue an event or a fault can end the process:

| phase | code |
|---|---|
| `prompt` | `readline` in `rl_gets`, or the start of a batch run |
| `eval` | inside `expr`, for `p`, `x`, `w` or `info w` |
| `exec` | the head of the loop of `execute` |
| `check` | inside `check_wp`, called from `trace_and_difftest` |
| `test` | `nemu_state.state != NEMU_RUNNING` in `execute` |
| `update`, `poll` | entry of `device_update`; its `SDL_PollEvent` loop |
| `exited`, `crashed` | `main` has returned; a failed assertion or a null pointer |

`Session` lets the process crash at any point, so the refinement says nothing of
which crashes there are: the null pointer of `info` followed by blanks
(`CmdInfoBlank`) and the failed fetch behind an invalid instruction
(`ExecFault`) are in Engine but break no property.

One action per handler: `CmdExec` (`c`, `si`), `CmdEval` (`p`, `x`, `info w`),
`CmdWatch`, `CmdDelete`, `CmdQuit`, `CmdOther` (commands and refused arguments
that change nothing but the event queue), `CmdInfoBlank` and `CmdWatchFull`
(the two that dereference a null pointer), `EndOfInput`, `BatchStart`;
`ExecOnce` with one disjunct per kind of effect an instruction has on the rest
of the emulator; `TestState`, `UpdateSkip`, `UpdateDue`, `PollEvent`,
`PollNone`; `EvalDeref`, `EvalEnd`, `EvalDone`; the faults; and `Arrive`, the
host's only action. `n` is execute's count, `Forever` standing for the
2^64 - 1 of `c`. `asked`, `ran`, `extra`, `hit` and `trapped` are history
variables.

`watched` is the list of watchpoints, newest first, each with its expression,
the value recorded `last`, and, as history, the value `seen` when `execute`
last tested the state (or when the watchpoint was set). `value` is what the
expressions are worth now, of all that a user may watch (`Exprs`) but the
`Volatile` ones, which read the key, the clock or the serial input and so may
answer differently each time. Nothing but instructions and `vga_update_screen`
(which zeroes the sync register) changes `value`. `check_wp` evaluates one
watchpoint after the other (`EvalEnd`, `CheckOne`), compares with `last` and
records: so `last` may be out of date when the next instruction is executed,
since `device_update` comes between `check_wp` and that instruction. How the
nodes are kept is module Watchpoints' business.

`WatchStops` compares with `seen`, not with `last`, and so asks whether
comparing with the recorded value finds what the user would call a change:
a value that is not what it was behind the previous instruction. It does not
promise more than that, because the code does not: with `w *0x60000004` the
guest stores 1 (stop; `last` is 1), after `c` the screen update zeroes the
byte, and the guest stores 1 again. That instruction changed the watched value,
which now equals `last`, and the machine runs on; neither the update's change
nor the instruction's is reported.

Abstractions: instruction contents, registers and memory are not in Engine;
halt_ret is 0 or not 0; an instruction is fetched from memory, never from a
device; an expression may read the data port any number of times (more than
any real one does, so the safety results cover every expression); the byte
reads with which `x` scans a device fail the handler's asserts (`EvalCrash`);
an empty command line does nothing (it does not even clear the queue) and is a
stuttering step; the device registers, which `init_map` takes from `malloc`,
are taken as zero at first; `d N` with N beyond `int` is not modelled; a CONFIG_DEBUG build is taken to survive
its own trace line: `exec_once` (`cpu-exec.c:60-63`) writes 24 bytes into
`logbuf[16]` (`include/cpu.h:33`), 8 past the end of a local variable in every
instruction. What they hit is up to the compiler; what the models and theorems
say of that build holds where it is nothing that matters.

### Keyboard

`key_enqueue` writes and moves before it asserts; `died` is that Assert.
`SendKey` includes the narrowing to `uint8_t` and the test of the state.
`sent` and `got` are histories.

### Watchpoints

A node is its index in `wp_pool`. `ListFrom(p)` is the walk along `next` from p
to NULL, the loop of every operation; should it not end, a list longer than the
pool stands for it, so that a cycle shows as a walk that is too long. `Execute`
stands for all that changes what expressions are worth. `Watched`, the contents
of the list in use, is what `WatchList` calls the list.

### TraceRing

A line is a model value; `Slice` is one loop of `iringbuf_display`.

### Expr

A line is a sequence of lexemes. The model keeps what `make_token` leaves in
`tokens` (never cleared) and evaluates `expr` in each state, so that the next
line is parsed over the stale tokens of the previous ones. A value carries the
sequence of addresses read so far; `Memory` answers the k-th read of an address
on its own, as a device does. Regular expressions and numerals are abstracted;
long lines (256 tokens) are not modelled. `ExprGrammar` never refers to how
the code parses.

### Bus, Devices

`Bus` has `new_space`, `add_mmio_map` and the lookup; `Devices` adds one action
per step of the start (`InitDevice` for each range in `init_device`'s order,
`LoadImage` for `init_isa` and `load_img`) and, once `loaded`, `Access` (one
load, store, fetch or read of the debugger), `VgaUpdate`, `SendKey` and `Tick`.
`Access` is the call chain `vaddr_*`, `paddr_*`, `mmio_*`, `map_*`, handler,
with one operator per function; translation is direct, as SATP is never
written. The bytes of `io_space` are the state, so a register can be stale, an
access can run over the end of its range, and what a handler leaves behind is
what a read returns. The offset is taken before the range's end is looked at,
as in the code. `fate` is "died" behind a failed Assert (or a null stream) and
"wild" where C leaves the outcome undefined: an access that begins in `pmem`
and leaves it, an image larger than `pmem`. Abstractions: the key ring is the
FIFO that `Keyboard` shows it to be; stderr is the sequence of bytes sent;
an image is its size; an unreadable image file (an Assert before anything else
happens to it) is not distinguished from no start at all.

`Peripherals` knows none of this: it has registers, memories, and the answer to
an access. An access no register can serve ends the machine.

### Hart

A word is unsigned, an instruction word a record of the fields f7, rs2, rs1,
f3, rd and op, of which `Patterns` is the table of `decode_exec`, in its order.
`Isa` has registers without number 0, signed integers instead of words, bits
instead of masks, one action per group of instructions, and knows an
instruction by its mnemonic; `Encode` is the only link between the two.
Memory is `MSIZE` bytes at address 0. `paddr_read` and `paddr_write` look at
the first byte only (`memory.c:28`, `33`): an access that begins beyond the
memory dies, as no device is modelled here, and one that begins inside and
leaves it is "wild", as in `Devices`. An instruction that is none aborts, as `invalid_inst`
does (its further effects are in Engine).

`Asm` is what may be found at pc, `Junk` the words that are no instruction.
`WellFormed` says what an instruction is (`Holds`: which immediates its format
has room for), `Fits` that a word has the opcode and function codes of a
mnemonic. `HartAssumption` asks that `Asm` is well-formed, that no word of `Junk`
fits any mnemonic, that the machine starts with words in its registers, 0 in
register 0 and bytes in memory, that the registers are some of 0..31, and that a
word has 32 bits, as `word_t`, or 16, as in the run (powers of two, so that the
function code above a shift amount falls out of `% WIDTH`), in four bytes. Nothing restricts
`Asm` further: it may be every instruction there is.

## 3. What is checked

| run | question | bounds and result |
|---|---|---|
| `engine` | do the debugger, loop, device update and keyboard keep the session's promises, whatever the host queues and whenever? | 2 events, `si` up to 2, one watchpoint, ring of 2 slots; about 37 000 states |
| `engine_debug` | in a CONFIG_DEBUG build, does the machine go on only if every watched value is what it was behind the previous instruction? | 1 event, two watchpoints, a steady and a volatile expression, 2 values; about 715 000 states |
| `trap_overwritten` | `TrapIsFinal` in a CONFIG_DEBUG build: violated | finding 1 |
| `watch_ignored` | `WatchStops` in the build as configured: violated | finding 2 |
| `keyboard` | is the ring a FIFO, across wraps, overflow, narrowed and unmapped scancodes? | ring of 4, 5 accepted codes; about 152 000 states |
| `watchpoints` | do the linked lists behave as one list and lose no node? | 3 nodes, 2 expressions, 2 values; about 15 000 states |
| `wp_full` | `FullPoolIsRefused`: violated | finding 3 |
| `trace_ring` | does the display show the latest lines? | 3 slots, 9 lines: begin wraps twice, end three times |
| `expr` | value, acceptance and reads against the grammar | all lines of up to 3 of 19 lexemes, grammatical ones of up to 7; about 106 000 states |
| `devices` | does a guest see the registers of `Peripherals`, and nothing of one range through another, whatever the layout and the image? | 7 machines, 2 accesses, one key, one clock step; about 84 000 states |
| `vga_sync` | `SyncZeroed`: violated | finding 4 |
| `hart` | does each instruction word do what its mnemonic says? | 15 kinds of operands, 2 instructions, 3 machine states; about 43 000 states |

`devices` has bytes of 4 values (a word of 256) and pages of 32 bytes, with
lengths and offsets of the registers as in the code: every range but one ends
short of its page, none fills it; `pmem` has 20 bytes, as many as the longest
range (`RoomAssumption`). Two accesses suffice for a write that a later
read answers, a read that takes what another one wanted, and a stale copy;
`Probes` has every register, an offset that no handler serves, each range's
last byte, and addresses of nobody. The clock step is larger than a word, so
that UPTIME wraps. `hart` has words of 16 bits: the 12-bit immediates and the
shifts keep their widths, U and J immediates are cut at 16 bits.

Two events are enough for the cases Engine distinguishes: a key before a close,
a close before a key, the overflow of a ring of two slots, and one event queued
at the prompt followed by one during the run. Bounds: `MaxEvents` (events ever
queued), `MaxStep` (largest `si N`), `MaxKeys`, `MaxLines`, `MaxTyped`,
`MaxExpanded`. Seven lexemes hold three binary operators with a prefix one, or
a parenthesised operation between two operators.

Deadlock is not checked where the program really stops (a process that has
ended) or where the bound on a line stops the user.

### Findings

1. `trap_overwritten`: `check_wp` writes NEMU_STOP over END or ABORT
   (`src/monitor/idb/watchpoint.c:155`), after which `c` runs on behind the trap
   that "has ended" the program (`src/cpu/cpu-exec.c:104`). CONFIG_DEBUG only.
2. `watch_ignored`: in the build as configured nothing calls `check_wp`, yet `w`
   is documented and accepted (`idb.c:187`).
3. `wp_full`: `watchpoint_add` uses the null pointer behind the warning "There
   is no free watchpoint!" (`watchpoint.c:24`, `100`).
4. `vga_sync`: the update tests and zeroes one byte of the four of the sync
   register (`vga.c:57`), which the comment above it (`vga.c:55-56`) does not say.

Three more surprises are modelled as the code has them and refute no document:
a watched value that the screen update changed and the next instruction changes
back goes unnoticed (Engine, above);
the end of the serial input reads as 255, since `serial.c:60` compares a
`uint8_t` with EOF; and a word written to the RTC is lost (`timer.c:20`).

### Fairness

`WF(Thread)`: the process is scheduled; every step of the thread that needs no
user is one the operating system will let it make. `SF(UpdateDue)`: the test in
`device_update` compares real time, so a loop that comes back to it for ever
finds 1/60 s gone by again and again, although at each visit it may be too
early; weak fairness would not do because between two visits the action is not
enabled. The user and the host are not fair: nobody has to type a command or
close the window, so nothing is claimed of what they must do first. Without
time passing `QuitStops` and `FrameTaken` would not hold; `StepTerminates`
needs only the thread.

Liveness: `QuitStops` (a close during a run ends it), `StepTerminates` (`si N`
comes back), `FrameTaken` (a requested frame is taken, unless the run stops or
the guest takes the request back).

## 4. What is proved

All for every value of the constants that their assumptions allow (any ring
size above 1, any key map into 8 bits, any number of events, watchpoints,
steps, lines).

* `KeyboardProofs`: `RingHoldsPending` is the inductive invariant, with
  `TypeOK`: `key_r` is `Pending` slots behind `key_f`, and the slots between
  hold the codes of `sent` behind those of `got`. From it, `Fifo!Spec` step by
  step: an enqueue is `Put`, and the Assert fails exactly when `Put` says so,
  since `key_r' = key_f` iff all but one slot was taken.
* `EngineProofs`: `QuitLatency`, `SteppedExactly` and `TrapIsFinal` are not
  inductive, as they say nothing of the inner points of the loop.
  `LoopInv` adds which states are possible at each phase, `LatencyInv` how many
  instructions may have followed the notice of a close there (`device_update`
  looks at most every 1/60 s; that it does look is `QuitStops`), `StepInv` that the instructions
  executed and those left add up to those asked for. `ReleaseInv` holds only
  without CONFIG_DEBUG (a trap stays in `nemu_state`), which is the hypothesis
  of `ReleaseTrapIsFinal` and `ReleaseImplementsSession`; finding 1 shows that
  it is needed. `InputIsFresh` needs only that events queued outside the loop
  are cleared before it is entered. `WatchInv` relates three values of each steady watchpoint:
  outside `check_wp`, `last` is `seen`; from a watchpoint's own check to the
  test of the state, `last` is its present value; and as long as no difference
  was found, the two agree. So the test finds RUNNING only where the present
  value is `seen`, whatever `device_update` did to it in between. The invariant
  needs `check_wp` to run, hence the hypothesis CONFIG_DEBUG of
  `DebugWatchStops`; finding 2 shows the build without.
  Its second part: Engine implements Keyboard (`KbdInv`: a keyboard that
  has died has taken the process with it; accepted codes and queued events
  together never exceed the arrivals), and composes this with
  `RingImplementsFifo` by INSTANCE: in the whole emulator keys are a FIFO.
* `TraceRingProofs`: the cursors are `Kept` slots apart and the slots between
  them hold the last `Kept` lines; hence `DisplayShowsLatest`. Assumes that
  there is some line (`Lines # {}`).
* `DevicesProofs`: `MapInv` is inductive: ranges are registered with their
  lengths (`Registered`), their pages lie one behind the other in `io_space`
  (`Stacked`), and no two overlap (`Apart`, which is `MapsDisjoint` without its
  symmetry). From it `RangesDisjoint`, for any layout. `AccessesIsolated` needs
  that the handlers, too, write inside their own range or the 3 bytes behind it
  (`HandlersWithin`), and that those are in its pages: `SlackAssumption`, which
  holds for the lengths and the page size of the code, is what keeps an access
  that begins at a range's last byte away from the next device. Without it the
  theorem is false, and no test of the code replaces it. `TypesCorrect` follows
  from `TypeInv`, which adds that each range lies where its init function put it
  (`Placed`): one lemma per handler, for reads and writes of any length, says
  which bytes of the space it sets and that they are bytes.
* `HostMemProofs`: the bytes of a word are its digits in base `BYTE` (`Digits`),
  so a word written is the word read (`ReadWritten`), and a write of 1 or 2
  bytes into a word keeps its other digits (`WrittenMerges`, the abstract
  `Merge`). Products of `BYTE` take the place of powers, which the provers do
  not know (`Weight`).
* `PeripheralsProofs`: `PeripheralsImplemented`, the refinement of `Devices`,
  under the inductive invariant `Inv`, in two parts. Of the start (`StartInv`):
  `new_space` has given away what the registered ranges need and no more
  (`Sums`), no range meets `pmem` (`PmemApart`), and all bytes but the screen's
  size are zero until the image is loaded (`BootInv`); so registration fails
  only for overlapping ranges, never for want of room, and `InitDevice` is a
  stutter, `LoadImage` is `PowerOn`. Of the running machine (`RegInv`): the
  spaces hold the whole of `ctrl` and of `intr_nr` (`CtrlInv`, `IntrInv`),
  without which a store of one byte would merge with stale ones, and the three
  bytes behind a received one are zero (`PadInv`), without which a load of a
  word from RX would answer with more than that byte. Ranges share no address
  and spaces no byte, the 3 behind each range included (`SlotsApart`), so the
  register an address belongs to is unique (`Located`). Then each access is a
  `ReadRegister`, `WriteRegister`, `ReadMemory`, `WriteMemory` or `Fault` of the
  address, with one lemma per handler and direction (`SerialRead`, `RtcWrite`,
  ...), and the bytes of the other ranges do not change (`RamFrame`).

* `WatchpointsProofs`: `PoolPartitioned` says nothing of the links themselves, so
  `PoolInv` adds their `Shape`: two sequences h and f that `head` and `free_`
  start (`Chain`), and that have every node once between them (`Parted`).
  `new_wp` drops the first of f and pushes it on h (`NewShape`), `free_wp` drops
  any of h and pushes it on f (`FreeShape`: only the predecessor's link changes,
  and there is one predecessor because no node is met twice). A walk is
  determined by its links and its start (`ChainUnique`, by the least place where
  two would differ), so `ListFrom` is h, and each operation is the one of
  `WatchList` (`ListIsImplemented`).

* `HartProofs`: `IsaImplemented`, the refinement of `Hart`, for words of 32 bits.
  The invariant is `TypeOK`, and it is inductive: register 0 is 0 between
  instructions because every body that writes a register ends with `R(0) = 0`,
  and without that the mapping, which leaves register 0 out, would not be a
  refinement. The rest is what one instruction does, in four parts.
  Arithmetic first: `Pow2` and the sum in `FromBits` are recursive functions,
  so their existence is shown for themselves (a least argument where two
  partial ones would differ), from it the powers up to 2^32, that a number is
  the sum of its bits (`FromBits(Bits(v)) = v % M`), and that unsigned results
  that agree modulo 2^WIDTH are one signed number (`Int2`); so bitwise
  operations, shifts by division and multiplication and the comparisons of
  `alu` and `branch` are those of `Value` and `Taken`.
  Decoding next: `Rows` lists which fields each pattern demands, `OneShape` that
  no word meets two of them; hence `PatternsAreDisjoint` (of the rules before `inv`), and for each mnemonic
  the pattern that its word is decoded as, and for junk only the last rule, the
  catch-all `inv`, which `Patterns` leaves out and `Decode` falls back to. Then the immediates:
  one lemma per format says where `Encode` lays each bit (`LayoutI`, ...) and
  that the macro of `inst.c` puts it back (`ImmediatesSurvive`; for the shifts,
  whose immediate includes the function code, only its low five bits matter).
  Last, one lemma per group of instructions (`StepR`, `StepI`, `StepH`, `StepU`,
  `StepJ`, `StepJalr`, `StepB`, `StepL`, `StepS`, `StepTrap`) shows that the
  pattern's body is the action of `Isa`, and keeps `TypeOK`.
  `EveryWordIsKnown` is the converse of encoding: a word with a mnemonic's
  codes is the encoding of some well-formed instruction, so a word that could
  not be in `Junk` could be in `Asm`, and the refinement leaves no word out.

Assumptions are those of the modules (`KeyboardAssumption`, `EngineAssumption`,
`KeymapAssumption`, `WatchpointsAssumption`, `TraceRingAssumption`, `HostMemAssumption`, `BusAssumption`,
`DevicesAssumption`, `SlackAssumption`, `RoomAssumption`, `HartAssumption`), which TLC evaluates
in each run. Those of `Devices` hold for the code: `io_space` has room for all
ranges (`mmio.c:22` asserts it), and no range is longer than `pmem`; a longer one
could have both ends outside `pmem` and still cover it, which `add_mmio_map`,
comparing the two ends only, would not notice.

Every safety property of a passing run is proved but those of `Expr`, whose
parser is recursive over data (`TypeOK`, `ExprValue`, `ExprReads`): what a
recursive definition computes for every input needs an induction the provers
cannot instantiate. Also only model-checked are the liveness properties
`QuitStops`, `StepTerminates` and `FrameTaken` (outside the prover's reach).
`TrapIsFinal` and `ImplementsSession` are
theorems only without CONFIG_DEBUG (finding 1), `WatchStops` only with it
(finding 2).

## 5. Not modelled, and the plan

`PROJECT.json` lists each component with its status.

* MMU and interrupts are compiled but dead in this build: the CSR instructions,
  `ecall` and `mret` are commented out (`inst.c:119-125`), so SATP and MIE keep
  their initial 0, and nothing sets `cpu.intr`. A model of the page walk would
  start in a state that no program reaches.
* Start-up: argument parsing, the log file and the welcome message are
  straight-line I/O; the order of initialisation and the loading of the image
  are in `Devices`.
* Display of registers, wording, logging and SDL's rendering.
* Lines of more than 256 tokens, and the text of lexemes.

Done: `Keyboard`, `Engine`, `Watchpoints`, `TraceRing`, `Expr`, `Bus`,
`Devices`, `Hart` with their abstract specifications, and their proofs but
that of `Expr`. Left, in this order:

1. `Machine`: `Engine`, `Devices` and `Hart` composed, replacing the effects of
   `ExecOnce` by accesses; shown to implement `Engine`.
2. `Mmu`, as a pure function, should CSR instructions be enabled.

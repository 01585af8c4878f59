# A TLA+ model of the CyptOS kernel

CyptOS is a bare-metal RV64 microkernel that runs on one hart. It boots, spawns an idle
task and a few user tasks, and from then on runs only in traps: a timer tick
switches tasks, a system call serves one, an access fault kills one. This
directory holds TLA+ modules of that kernel, the TLC configurations that check
them on small instances, and proofs checked by TLAPS.

`PROJECT.json` lists the components, runs, theorems and hazards, and gives for
every definition the lines of `src/` it stands for.

## The system

| Part | State | Operations | Interacts with |
|---|---|---|---|
| Boot (`main.rs`) | `.bss`, the position of `kmain`, the tasks still to spawn | `_start`, `clear_bss`, init of each part in order, spawns, `start_scheduler`, panic | everything |
| Scheduler (`sched/scheduler.rs`, `sched/policy.rs`) | `current`, the task table | `init`, `create_task`, `create_task_mmode`, `schedule`, `kill_current` | traps, PMP |
| Tasks (`sched/task.rs`, `sched/task/spec.rs`) | context, state, PMP regions and stack of a task | constructors, PMP builder, `TaskSpec::spawn` | heap, scheduler |
| Traps (`trap.rs`) | the trap frame, `mepc`, `mcause`, `mstatus` | entry, one handler per cause, return | scheduler, timer, UART |
| PMP driver (`pmp.rs`) | `pmpcfg0`, `pmpcfg2`, `pmpaddr0..15` | `init`, `load_task_config` | scheduler |
| Heap (`allocator.rs`) | `next`, `heap_end` | `init`, `alloc`, `dealloc` | spawn |
| Timer (`timer.rs`) | `mtimecmp`, `mie.MTIE`, tick count | `init`, `schedule_next_tick` | traps |
| Synchronisation (`sync/`) | `mstatus.MIE` | `IrqCell::with_lock`, `AtomicCounter::increment` | scheduler, timer |
| User tasks (`user_task.rs`) | registers | compute, `ecall`, fault | traps |
| Serial console (`serial/`) | registers and FIFOs of the UART | `init`, `putc`, `puts`, `try_getc` | traps, user tasks |

What makes it hard: the timer interrupts everything that does not mask it;
`mepc`, `mstatus` and the trap frame exist once and are rewritten between entry
and `mret`; PMP entries are replaced one CSR at a time while the kernel
executes under them, and locked ones ignore writes; `schedule` silently does
nothing when it finds no task; nothing but the order of calls in `kmain` makes
slot 0 the idle task.

## Modules

| Module | Models |
|---|---|
| `SchedPolicy` | `select_next_ready`, a pure function of table size, current slot and ready set |
| `Hart` | `mstatus`, what a trap and `mret` do to it, `IrqCell::with_lock` |
| `HeapOps` | the `usize` arithmetic of `alloc` |
| `Task` | initial contexts, the PMP builder and its assertions |
| `Kernel` | boot, traps, scheduler, user code and timer, composed |
| `RunQueue` | abstract: a FIFO queue with an idle fallback |
| `VirtualCpus` | abstract: every task has a CPU of its own |
| `KernelRefinement` | the two refinement mappings from `Kernel` |
| `BumpAllocator` | the heap, one step per access to the shared pointer |
| `Pmp` | the PMP driver, one step per `csrw`, with the matching rules of the hardware |
| `UserPrograms` | `Kernel` composed with both programs of `user_task.rs` and with the entries and matching rules of `Pmp` |
| `Timer` | `mtime`, `mtimecmp` and the tick count through boot, ticks, calls and kills |
| `IrqCell` | `with_lock`, one step per instruction, with interrupts that use the same cell |
| `Console` | the UART, `init`, `putc`, `puts`, the lines of `kmain` and of task switches, the two system calls and the echo loop |
| `Registers` | the layout of `TrapFrame` and `TaskContext`, the few instructions the assembly uses |
| `TrapVector` | `trap_vector` instruction by instruction, with all 31 registers and memory |
| `Boot` | `_start` and `clear_bss` on several harts |
| `MCKernel`, `MCUserPrograms`, `MCBumpAllocator`, `MCPmp` | instances for TLC |
| `KernelProofs` | the inductive invariant of `Kernel` and its theorems, with the lemmas about `SchedPolicy`, `HeapOps` and `Task` |
| `KernelRefinementProofs` | that `Kernel` implements `VirtualCpus` and `RunQueue` |
| `UserProgramsProofs`, `EchoProofs` | theorems about `UserPrograms` |
| `PmpProofs` | theorems about `Pmp` |
| `TrapVectorProofs` | theorems about `TrapVector` |
| `ConsoleProofs` | theorems about `Console`, with the lemmas about concatenation |
| `RuntimeProofs` | theorems about `BumpAllocator`, `Boot`, `Timer` and `IrqCell` |

**Kernel.** `at` says which code the hart executes: `kmain`, a `task`, a
`handler`, the `return` path of `trap_vector`, or the `panic` loop. A trap is
three steps: `TrapEntry` (hardware and the push of the registers), one action
per handler, `TrapReturn` (the pop and `mret`). A handler is one step, and
`HandlersNotInterrupted` is what justifies that: nothing in the model forbids
`TimerTrap` in a handler, only `mstatus` does. `schedule(st, m)` takes the task
table and `mstatus` as parameters because `kill_current` changes both before it
calls `schedule`.

Abstractions. Of the 31 registers the model keeps `a0`, `a7` and `sp`; the code
copies all of them together, and `a0` stands for the rest. User code may set
`a0`, `a7` and `pc` at will; `sp` names the stack it uses and user code leaves
it alone, so nothing here says what happens when a task moves `sp` elsewhere.
User code may raise any of the exceptions 1 to 8 at any time; `UserPrograms`
derives faults from the PMP entries. Of time only "the interrupt is pending"
remains; `Timer` gives the deadline a value. Entry and return are one step each;
`TrapVector` is why they may be. Alignment and size of a task stack are one
constant, as both are 8192 in `config.rs`.

**UserPrograms.** Replaces the arbitrary user code of `Kernel` by `Execute`, one
instruction of a program with addresses and lengths. A fetch or load asks
`Pmp!Permits` about the registers as the driver leaves them: entries 0..3 from
`kernel_entry_regions`, the others from the regions `load_task_config` has
loaded (that the driver's many writes really leave them so is what
`KernelEntriesInForce` and `LoadedIsTaskConfig` say of `Pmp`). The programs are
the source's inline assembly with the branches a compiler puts around it.
`ImplementsKernel` carries the safety properties of `Kernel` over to it. Three
assumptions say what the programs and their place in memory are:
`ProgramAssumption` (control stays in the programs, also four bytes after an
`ebreak` of either length), `EchoAssumption` (the first user task is the echo
program) and `LayoutAssumption` (user text lies between `_stext` and
`_user_text_end`; what `kmain` spawns fits the table, the heap and the assertions
of the PMP builder).

**RunQueue and VirtualCpus.** The queue is the set of waiting tasks and, for each,
the tasks behind it; `KernelRefinement` computes both from the table, a task
being behind another when the scan from `current` reaches it later. A virtual CPU
is the registers of a task wherever they are: in the hart, in the frame and
`mepc` of its trap, or in its slot.

**Pmp.** `RegionsAssumption` states what `PmpConfigBuilder` asserts of every region
and where the linker script puts them: code inside user text, stacks and
windows outside it. The hardware tries the kernel entries first, so what a task
can do with its regions is not what the builder wrote there; `Usable` says what
is left, and `RegionAccess` that it is exactly that.

**BumpAllocator.** Several contexts are inside `alloc` at once, which is what its
compare-exchange loop is written for. Today all allocation happens in `kmain`
before interrupts are enabled, so they never meet.

**Timer.** `at` walks through `timer::init` and the rest of `kmain`, then
alternates between running tasks, the steps of the tick handler, the handlers of
system calls and breakpoints, and the kill path. Reading `mtime` and writing
`mtimecmp` are two steps, and `Advance` may come between any two. Code from that
read to `mret` takes at most `HANDLER_TIME`, an assumption: on the real machine it
is one log line of about 30 characters in an interval of 10 ms. Log lines before
the read take any time, and so do system calls and breakpoints, which run masked
and may spin on the UART past the deadline. A slice is therefore not bounded by
the interval. `SliceBounded` says what is: a task begins nothing that late, so it
keeps the hart longer only inside the one call it was in. `since` and `taken` are
history.

**IrqCell.** `pc[l]`, `mstatus[l]` and `local[l]` are the locals of `with_lock`
at trap level `l`; the closure is a read and a write of the cell, or it panics
(`create_task` does when the table is full). Interrupts may come between any two
instructions at which `MIE` is set, and their handlers use the cell too.

**Console.** The hardware side has DLAB, the divisor, IER, both FIFOs and an
overrunning receiver; the other end sends what it likes. `at` is the code that
executes, and a tick comes wherever `MIE` is set: traps clear it, `mret` sets it.
The boot messages and the switch lines are printed with `MIE` clear. The last line
of `kmain` comes after `enable_interrupts`, and the first tick abandons the rest
of it. The echo task makes system calls; other tasks run in between. Bytes are `a`
(any ordinary one), `cr`, `lf`, `ff` and `msg` (the text of a log line), tagged
with who sent them.

**TrapVector.** The assembly is a sequence of instructions over
registers, CSRs and memory, with fields at the offsets of the Rust structs. The
Rust code it calls leaves junk in every caller-saved register. `owned[t]` is what
task `t` must find when it runs again.

**Boot.** All harts start in `_start` and run at any speed; memory outside the
loaded image holds anything.

**Mutants.** Operators such as `LoadKeepsUnused` or `SelectLowest`, each placed
before the definition it varies, describe plausible mistakes. They are not part
of any specification; put in the place of the original, each one makes the
property `PROJECT.json` names for it fail.

## Runs

| Run | Instance | Checks | Distinct states |
|---|---|---|---|
| `kernel` | the task list of `kmain`; 2 values, 2 call numbers | own registers, stack, privilege, PMP entries; masking; refinement of `VirtualCpus` | 123,315 |
| `kernel_full` | a full table; too many tasks; too many PMP windows; a misaligned window; fair | idle, stacks, boot order; refinement of `RunQueue`; no ready task starves | 45,344 |
| `allocator` | 2 contexts, 4 layouts, 15 bytes of heap, `usize` of 64 values | disjoint and in bounds; `alloc` returns | 16,886 |
| `pmp` | 11 entries, 4 tasks, one of which reaches into `pmpcfg2` | kernel entries, lock-out, mixing, decoding, what a task can do with its regions | 274 |
| `user_programs` | the task list of `kmain`, and with a task that loops over an `ebreak` of each length; 2 input bytes; fair | the violation task dies, the echo task lives and passes on each byte; programs execute in order; refinement of `Kernel` | 21,402 |
| `timer` | 3 tasks, interval 3, handler time 2, 27 units of time | slices not empty, nothing begun after their end, ticks apart | 576,295 |
| `irq_cell` | 3 trap levels, 4 updates | exclusion, lost updates, masking | 342 |
| `console` | 3 kinds of bytes, FIFOs of 2, 3 bytes sent, 2 switches; fair | echo in order and complete, whole log lines, UART set up | 212,847 |
| `trap_vector` | 2 tasks, 31 registers, 2 depths of `sp` | registers and stack survive any trap | 55,373 |
| `boot` | 3 harts, 6 bytes of memory, 3 of them `.bss` | statics, image | 3,584 |

Bounds. Four slots are the real `MAX_TASKS`. Three task entries (`PMP_COUNT` 7)
hold the code, stack and one window of the echo task and make a second window
overflow. The heap holds the test allocation, its padding and four stacks. The
PMP instance has entries on both sides of the `pmpcfg0`/`pmpcfg2` boundary; its
runs are unbounded in the number of switches. `USIZE` and `ISIZE_MAX` are scaled
so that the largest layout comes close to wrapping.

In `timer` the interval is long enough for a handler of length 2 to be late, and
27 units hold several intervals, prints, calls and kills; the theorems remove the
bound. FIFOs of 2 overrun on the third byte. Two words of stack depth separate
a frame that fits from one that reaches into live data. The memory map of
`user_programs` is scaled; its order is that of the linker script.

Fairness. `kernel_full` assumes that kernel code continues, that `mtime`
reaches `mtimecmp`, and that an interrupt which is enabled again and again is
taken. The last is strong fairness: a task that traps in a loop masks the
interrupt during each trap, but the hardware looks for pending interrupts after
every `mret`, before the next instruction can trap again. Nothing is assumed of
user code. In the allocator, a context inside `alloc` is resumed. That handlers
end also assumes the UART accepts log output.

`user_programs` adds strong fairness of `Execute` for each slot: a task that is
dispatched again and again executes an instruction at some time, because a slice
is longer than that (`SliceNotEmpty`). `console` assumes that the
transmitter drains, that kernel and echo code execute, that the first tick comes,
and that the scheduler comes back to the echo task (`NoStarvation`); nothing of the
other end. With `MAX_SWITCHES` preemptions, `EchoComplete` is shown for that many
only; `EchoInOrder` is proved for any number.

### Disagreements with comments and documents

Two runs show the code doing something other than what a text says of it.

- `user_fault`: an illegal instruction or a misaligned access of a user task
  panics the kernel; `README.md` promises that faulting tasks are killed.
- `pmp_task_entry`: locked entry 2 gives RW on kernel data, and matches before
  the task entries in U-mode too; a comment in `pmp.rs` says U-mode needs an
  entry of its own.

Smaller ones need no run, as a property or a definition of the modules states
what the code does instead.

- The first tick dispatches slot 1 (`IdleOnlyAsFallback`); a comment in
  `main.rs:148` says it switches to the idle task.
- The trap frame is on the interrupted stack (`trap_vector`, `LiveStackKept`); a
  comment in `scheduler.rs:50` says it is on the kernel stack.
- Entry 0 has no lock bit and keeps its value all the same
  (`KernelEntriesInForce`); a comment in `pmp.rs:311` says 0-3 are locked.
- A breakpoint always skips four bytes; after a compressed `ebreak` that is two
  more than the instruction has, which `InstructionsInOrder` states as its one
  exception. A comment in `trap.rs:315` says pc is advanced past the `ebreak`.
- A task can fetch its code but not load from it (`RegionAccess`), because locked
  entry 1 is execute-only and matches first; `docs/architecture.md:72` and the
  builder (`task.rs:235`) give it read and execute.
- `pmp::init` leaves locked entries and no permissive one (`KernelEntriesInForce`);
  `docs/architecture.md:205` says it sets a "permissive default".
- The line "Scheduler started" is printed after interrupts are enabled; the first
  tick may cut it, and the rest never appears (`LogLinesWhole`).
- A received 0xFF reads as "no byte" and is dropped, and a carriage return is
  echoed with a line feed after it (`Echoed` in `Console`);
  `docs/architecture.md:345` says received bytes are echoed and `\r` is mapped.

## Proofs

The theorems hold for every value of the constants that satisfies the named
assumptions: any number of slots, up to 16 PMP entries in the driver and any
number in the kernel, any task list, any layout.

**Kernel** (`KernelProofs`). None of the properties is inductive
alone. That a killed task never resumes needs idle to be Ready; that needs slot
0 to be the idle task, which needs the spawn order; and that idle is never
killed needs `MPP` to be M whenever idle is interrupted, which needs the saved
`mstatus` of every slot. `KernelInv` collects this:

- `TableInv`: exactly `current` is Running, idle is never Dead, and it runs only
  when every other task is absent or Dead;
- `SlotInv`: a saved context is on its own stack with the `mstatus` of its mode,
  and the stack is in the PMP regions of its task;
- `BootInv`: what each stage of `kmain` has established, idle in slot 0 first;
- `HartInv`: privilege, masks, frame and registers, by where the hart is;
- `PmpInv`: the entries in force are those of `current`;
- `StackInv`: stacks lie between the heap start and the heap pointer, apart.

There is one lemma per action; the lemma for `schedule` serves both the tick and
the kill. About the operators: `SelectIsWorkConserving` (a ready task is found),
`SelectIsNearest` (it is the nearest one after `current`, so the scan with its
wrap-around misses none), `NoWrap` and `AlignUpBounds` (stacks do not overlap).
That a panic is final (`PanicFinal`) is proved only; no run repeats it.

**Refinements** (`KernelRefinementProofs`). Every step of `Kernel`, from a state
with `KernelInv`, is a step of the abstract specification or leaves its variables
alone; there is one lemma per action again.

- `OwnCpus`: a trap moves the registers of a task from the hart to the frame,
  `schedule` from the frame to the slot and from another slot to the frame, and
  `mret` back, and none of it changes them (`ScheduleKeepsCpus`). `HartInv` is
  needed where `mret` takes `sp` and the mode from the frame and `mstatus`.
- `FifoOrder`: a switch from `current` to the nearest ready slot rotates the
  circular order. The order of all other waiting slots is kept, and the slot just
  left becomes the farthest (`OrderKept`, from `DistanceValue`), which is the tail
  of the queue. `SelectIsNearest` makes the next task its head.

**User programs** (`UserProgramsProofs`, `EchoProofs`). `CodeInv` says that
wherever the registers of a user task are, `a0` and `a7` hold values its programs
compute and it continues at one of their instructions, and that a trap being
served is that of the instruction at `mepc`. With `KernelInv` it makes each step
of a program one of `UserStep`'s or a trap that `Kernel` allows
(`ExecuteIsUserCode`), hence `ProgramsImplementKernel`. For `ProgramOrder` each
action either leaves the position of every task alone, wherever its registers move
(`TrapKeepsPosition`, `SwitchKeepsPosition`), or is an instruction of the
executing task or the handler of its call (`StepInOrder`, `HandlerInOrder`). For
`EchoSafe` there are two more parts.

- `BootFits`: what `kmain` has still to spawn has slots, heap, with the alignment
  gap before each stack, and PMP entries left, and the echo task gets slot 1.
- `EchoInv`: the echo task continues in its own code, its exceptions are system
  calls, and the kernel has not panicked. Its fetches are granted because entry 1
  covers user text, execute only, and entry 0 matches nothing (`FetchAllowed`).

`KernelNeverPanics` comes from the same invariant: the illegal instruction of
the run `user_fault` is one these programs do not contain.

**Heap** (`RuntimeProofs`). A compare-exchange that succeeds proves that the
pointer is what was read, so the new block starts at or after the end of all
earlier ones. `HeapAssumption` (Layout's bound, a heap in the lower half of the
address space) rules out the wrap.

**Boot** (`RuntimeProofs`). `BootInv`: only hart 0 leaves the parking path; below
its pointer `.bss` is zero; nothing is stored in a static before `kmain`.

**PMP** (`PmpProofs`). `PmpInv` relates, at each step of the driver, which
entries are written, which are locked and which are off. From it follow
`KernelEntriesInForce`, `NoMixedEntry` and `KernelNeverLockedOut`. For the last,
the first entry that matches an address is a locked one or there is none
(`LeastEntry`, by well-foundedness of the naturals); entries that are locked
already have their final value, and each final value permits what the kernel
does there (`LockedEntries`, `LockedPermits`).

`LoadedIsTaskConfig` is about what the hardware decodes: that counting the
trailing ones of `napot_addr(base, size)` gives back `size`, and clearing them
`base`, for every power of two and every base aligned to it (`NapotRoundTrip`).
The prover knows nothing of `2^k` beyond its symbol. That
`2^(k+1)` is `2 * 2^k` is therefore proved by counting: an interval of `k` numbers
has `2^k` subsets, and one more number doubles them (`PowerDoubles`, from the
library's theorem on the cardinality of `SUBSET S`). Facts for all `k` follow by
looking at the least exception (`NoLeastException`). `RegionAccess` adds
which entry decides: code lies in user text, where entry 1 matches first and
grants execution only; stacks and windows lie outside it, where every entry that
can match first grants reading and writing only (`DecidingEntry`).

**Timer** (`RuntimeProofs`). `TimerInv` ties the deadline to what was read: from
the write on, `mtimecmp` is `now + Interval`, and `now` is not before the last
tick nor more than `HANDLER_TIME` before the dispatch. Calls and kills leave all
of it alone, so in a task and its calls `mtimecmp` is at most an interval after
the dispatch; once `mtime` has reached it, the tick is the only step from `run`.
`TimerAssumption` keeps `mtime + Interval` below 2^64, which a clock of 10 MHz
reaches after more than fifty thousand years.

**Interrupt cell** (`RuntimeProofs`). The one dangerous place is the gap between
`csrr` and `csrc`: level 0 may be interrupted with its `mstatus` already read.
`SectionInv` says this is the only place inside `with_lock` where a level is
ever suspended, and that the handler returns with `MIE` as it was, so the value
read is still right.

**Trap vector** (`TrapVectorProofs`). The two properties say what holds while a task
executes; `VectorInv` says what holds before each instruction from its trap to
its next instruction, for any number of tasks, any stack size and any depth of
`sp` that leaves room for a frame.

- `RegisterInv`: before instruction `pc` the registers not yet stored, and the
  words of the frame already stored, hold the values of the interrupted task; on
  the way out the registers already loaded do. The old `sp` is in `mscratch`, then
  in `t0`, then in the frame.
- `FrameInv`: the frame lies clear of every `TaskContext` and of every live word.
  It is about to be made as much as made, so the push cannot hit either.
- `ContextInv`: the `TaskContext` of every task but the current one holds what
  that task owns. `schedule` copies the frame to one context and another context to
  the frame; `ScheduleSaves` shows that the first copy does not disturb the second,
  as contexts do not overlap.
- `StackInv`, `CsrInv`, `Shape`: where `sp` lies, what the trap CSRs hold, and the
  domains.

The stores and the loads are each one lemma for the `k`-th of them (`SaveRegister`,
`RestoreRegister`), not thirty; the rest of `trap_vector` has a lemma per instruction.

**Console** (`ConsoleProofs`). `EchoInOrder` compares two concatenations, `SentBy`
and `Echoed`, both computed by `Flatten`, a function recursive in the length of
its argument. What such a function computes is proved by induction over the
prefixes of the argument, in the form "a set of naturals that holds 0 and with
`n - 1` also `n` holds all" (`PrefixInduction`, from well-foundedness of the
naturals): the recursive equation has a solution (`FlattenExists`), its solutions
agree (`FlattenAgree`), so `Flatten` is that solution (`FlattenIs`), and one more
sequence adds its elements at the end (`FlattenSnoc`). `EchoedHead` adds that
taking a byte off the front of a queue takes its echo off the front.

- `EchoInv`: what the echo task has written, then what it still holds, then the
  echo of what is queued, is the echo of what was received. Receiving, `SYS_GETC`
  and `SYS_PUTC` each move bytes across one of these boundaries.
- `EchoTaskInv`: the task holds a byte it has read when it writes one.
- `LogInv`: `MIE` is clear while a handler prints, and the last byte on the wire and
  what `puts` has left make up a line, unless that byte is `kmain`'s and the line of
  the first switch is about to begin.
  `putc` waits for an empty transmitter, so no size of the FIFO loses a byte
  (`WirePuts`).
- `UartInv`: how far `serial::init` has come, with DLAB, the divisor and IER as its
  writes so far leave them.

Only model-checked: liveness (`NoStarvation`, `AllocReturns`, `EchoComplete`,
`ViolationTaskKilled`, `EchoReachesPutc`), which is out of the prover's reach.
`ConsoleInv` and `VectorInv`, the two largest invariants, also passed TLC on the
instances of `console` and `trap_vector`.

## Not modelled

- Formatting (`print.rs`, `write_fmt`): stateless forwarding to `puts`.
- Dead code: `context_switch` and its assembly, `save_current_config`,
  `dump_config`, the blocking `getc`, `disable_timer_interrupt`.
- `put_dec` and `put_hex`: sequential digit loops whose output goes through
  `putc`. In `Console` the number is part of `msg`.
- The test framework, a sequential loop over the tests that ends in an exit
  status, and its attribute macro, which runs in the compiler.
- The STM32 back end, which is an empty stub.
- Interrupts other than the timer's: `mie` never enables them, and their
  handlers only log (`TrapVector!HandlerLogs` is such a handler).
- How deep the handlers go on the stack below the frame, which the compiler
  decides.
- A UART that never drains, and a kernel that stores outside its own data.
- The capability system and IPC, of which no code exists.

------------------------------- MODULE Kernel -------------------------------
(***************************************************************************)
(* The running kernel: boot (main.rs), trap entry, dispatch and return     *)
(* (trap.rs) and the round-robin scheduler (sched/scheduler.rs) on one     *)
(* hart, interleaved with the user tasks and the timer.                    *)
(*                                                                         *)
(* A trap is three steps: the hardware enters M-mode and trap_vector       *)
(* pushes the registers (TrapEntry), trap_handler runs (one action per     *)
(* handler), and trap_vector pops the registers and executes mret          *)
(* (TrapReturn).  What keeps a handler from being interrupted is not the   *)
(* shape of the model but mstatus, as on the hardware.                     *)
(*                                                                         *)
(* Not in this module: the value of the tick counter and of mtimecmp (here *)
(* only whether the timer interrupt is pending), the UART, log output, and *)
(* the locked PMP entries 0..3.                                            *)
(***************************************************************************)
EXTENDS SchedPolicy, Task, HeapOps

CONSTANTS
  MAX_TASKS,         \* slots of the task table (4)
  UserSpecLists,     \* sequences of user TaskSpecs kmain spawns after idle
  IdleEntry,         \* address of idle_task_entry
  KERNEL_STACK_TOP,  \* _stack_top: the stack kmain runs on
  HEAP_START,        \* _sheap
  HEAP_END,          \* _eheap
  Code,              \* addresses a task executes at
  UserValues,        \* values a task computes in its registers
  SyscallNumbers,    \* values a task puts in a7
  RxBytes            \* bytes the UART may have received

SYS_GETC == 0
NO_BYTE == 255

Slot == 0..(MAX_TASKS - 1)

\* TaskSpec::user
UserSpec ==
  [mode : {"U"}, entry : Code, code_base : Nat, code_size : Nat,
   mmio : Seq([base : Nat, size : Nat])]

ASSUME KernelAssumption ==
  /\ MAX_TASKS \in Nat \ {0}
  /\ UserSpecLists \subseteq Seq(UserSpec)
  /\ Code \subseteq Nat
  /\ IdleEntry \in Nat
  /\ KERNEL_STACK_TOP \in Nat
  /\ HEAP_START \in Nat /\ HEAP_END \in Nat /\ KERNEL_STACK_TOP <= HEAP_START
  /\ HEAP_START + 3 + 2 * TASK_STACK_SIZE < USIZE
  /\ HEAP_END + 2 * TASK_STACK_SIZE < USIZE
  /\ UserValues \subseteq Nat /\ SyscallNumbers \subseteq Nat
  /\ RxBytes \subseteq Nat

VARIABLES
  (* SchedulerState *)
  current,      \* Option<usize>
  state,        \* tasks[i].state, "None" for an empty slot
  context,      \* tasks[i].context
  pmp_config,   \* tasks[i].pmp_config.regions, entries 4 and up
  stack_top,    \* tasks[i].stack_top
  (* the hart *)
  at,           \* the code it executes
  mode, pc, gpr,
  mepc, mcause, mstatus,
  pmp,          \* PMP entries 4 and up, decoded
  frame,        \* the TrapFrame on the interrupted stack
  (* the CLINT and mie.MTIE *)
  mtip, mtie,
  (* kmain *)
  stage, boot, heap_next

sched == <<current, state, context, pmp_config, stack_top>>
hart == <<at, mode, pc, gpr, mepc, mcause, mstatus, pmp, frame>>
vars == <<sched, hart, mtip, mtie, stage, boot, heap_next>>

\* TaskSpec::machine(idle_task_entry)
IdleSpec ==
  [mode |-> "M", entry |-> IdleEntry, code_base |-> 0, code_size |-> 0,
   mmio |-> <<>>]

\* The order in which kmain spawns: spawn_idle_task first.
SpawnOrder(users) == <<IdleSpec>> \o users

\* A slot no task was created in.
NoContext == new_umode(0, 0)

KmainGpr == Gpr(0, 0, KERNEL_STACK_TOP)

\* The registers while the handler executes: its own values.
HandlerGpr == Gpr(NO_BYTE, NO_BYTE, 0)

Interrupt(code) == [is_interrupt |-> TRUE, code |-> code]
Exception(code) == [is_interrupt |-> FALSE, code |-> code]

Init ==
  /\ current = NoSlot
  /\ state = [i \in Slot |-> "None"]
  /\ context = [i \in Slot |-> NoContext]
  /\ pmp_config = [i \in Slot |-> EmptyPmpConfig]
  /\ stack_top = [i \in Slot |-> 0]
  /\ at = "kmain" /\ mode = "M" /\ pc = 0 /\ gpr = KmainGpr
  /\ mepc = 0 /\ mcause = Exception(0)
  /\ mstatus = [MIE |-> FALSE, MPIE |-> FALSE, MPP |-> "M"]
  /\ pmp = EmptyPmpConfig
  /\ frame = HandlerGpr
  /\ mtip \in BOOLEAN /\ mtie = FALSE
  /\ stage = "init"
  /\ \E users \in UserSpecLists : boot = SpawnOrder(users)
  /\ heap_next = 0
-----------------------------------------------------------------------------
(* kmain *)

\* A panic at any point leaves the hart in the handler's wfi loop.
Panic == at' = "panic"

\* The heap pointer after init_heap: a test allocation of three bytes.
HeapAfterTest == new_next(HEAP_START, 3, 1)

\* set_timer_us: mtimecmp moves into the future, which clears the interrupt.
set_timer_us == mtip' = FALSE

\* timer::init
TimerInit == set_timer_us /\ mtie' = TRUE

\* kmain up to the first spawn: print_banner, init_heap, trap::init, pmp::init
\* (entries 4 and up left disabled) and timer::init.
KmainInit ==
  /\ at = "kmain" /\ stage = "init"
  /\ IF HeapAfterTest > HEAP_END
     THEN /\ Panic
          /\ UNCHANGED <<stage, heap_next, pmp, mtip, mtie>>
     ELSE /\ heap_next' = HeapAfterTest
          /\ pmp' = EmptyPmpConfig
          /\ TimerInit
          /\ stage' = "spawn"
          /\ UNCHANGED at
  /\ UNCHANGED <<sched, mode, pc, gpr, mepc, mcause, mstatus, frame, boot>>

\* alloc_task_stack: the bottom of the next task stack, the heap pointer
\* after it, and whether it fits.
StackBottom == align_up(heap_next, TASK_STACK_SIZE)

\* A pointer that is not advanced.
HeapNotAdvanced == heap_next

HeapAfterStack == new_next(heap_next, TASK_STACK_SIZE, TASK_STACK_SIZE)

StackFits == HeapAfterStack <= HEAP_END

FreeSlots == {i \in Slot : state[i] = "None"}

\* PmpConfigBuilder's assertions hold for the task to spawn.
PmpFits(spec) ==
  spec.mode = "U" => BuilderAccepts(SpecRegions(spec, StackBottom))

\* TaskSpec::spawn with create_task / create_task_mmode: the first free slot
\* receives a Created task whose context is built for its mode.
Spawn ==
  /\ at = "kmain" /\ stage = "spawn" /\ boot # <<>>
  /\ StackFits /\ PmpFits(Head(boot)) /\ FreeSlots # {}
  /\ LET spec == Head(boot)
         top == StackBottom + TASK_STACK_SIZE
         idx == FirstHit(FreeSlots)
     IN  /\ state' = [state EXCEPT ![idx] = "Created"]
         /\ context' = [context EXCEPT ![idx] =
                          IF spec.mode = "M" THEN new_mmode(spec.entry, top)
                          ELSE new_umode(spec.entry, top)]
         /\ pmp_config' = [pmp_config EXCEPT ![idx] =
                             IF spec.mode = "M" THEN EmptyPmpConfig
                             ELSE build(SpecRegions(spec, StackBottom))]
         /\ stack_top' = [stack_top EXCEPT ![idx] = top]
         /\ heap_next' = HeapAfterStack
  /\ mstatus' = with_lock(mstatus)
  /\ boot' = Tail(boot)
  /\ UNCHANGED <<current, at, mode, pc, gpr, mepc, mcause, pmp, frame,
                 mtip, mtie, stage>>

\* The panics of TaskSpec::spawn: "allocating stack", the assertions of the
\* PMP builder, "task table full".
SpawnPanics ==
  /\ at = "kmain" /\ stage = "spawn" /\ boot # <<>>
  /\ ~(StackFits /\ PmpFits(Head(boot)) /\ FreeSlots # {})
  /\ Panic
  /\ heap_next' = IF StackFits THEN HeapAfterStack ELSE heap_next
  /\ UNCHANGED <<sched, mode, pc, gpr, mepc, mcause, mstatus, pmp, frame,
                 mtip, mtie, stage, boot>>

\* A kmain that starts the scheduler before the last spawn.
SchedInitEarly ==
  /\ at = "kmain" /\ stage = "spawn" /\ Len(boot) <= 1
  /\ state' = [i \in Slot |-> IF state[i] = "Created" THEN "Ready" ELSE state[i]]
  /\ mstatus' = with_lock(mstatus)
  /\ stage' = "enable"
  /\ UNCHANGED <<current, context, pmp_config, stack_top, at, mode, pc, gpr,
                 mepc, mcause, pmp, frame, mtip, mtie, boot, heap_next>>

\* sched::init
SchedInit ==
  /\ at = "kmain" /\ stage = "spawn" /\ boot = <<>>
  /\ state' = [i \in Slot |-> IF state[i] = "Created" THEN "Ready" ELSE state[i]]
  /\ mstatus' = with_lock(mstatus)
  /\ stage' = "enable"
  /\ UNCHANGED <<current, context, pmp_config, stack_top, at, mode, pc, gpr,
                 mepc, mcause, pmp, frame, mtip, mtie, boot, heap_next>>

\* timer::enable_interrupts; from here on kmain only prints and executes wfi.
EnableInterrupts ==
  /\ at = "kmain" /\ stage = "enable"
  /\ mstatus' = [mstatus EXCEPT !.MIE = TRUE]
  /\ stage' = "wfi"
  /\ UNCHANGED <<sched, at, mode, pc, gpr, mepc, mcause, pmp, frame,
                 mtip, mtie, boot, heap_next>>

-----------------------------------------------------------------------------
(* Traps *)

\* The hardware takes a trap to mtvec and trap_vector pushes the registers
\* on the stack it finds in sp.
TrapEntry(cause) ==
  /\ mepc' = pc
  /\ mcause' = cause
  /\ mstatus' = TrapMstatus(mstatus, mode)
  /\ mode' = "M"
  /\ frame' = gpr
  /\ gpr' = HandlerGpr
  /\ pc' = 0
  /\ at' = "handler"
  /\ UNCHANGED <<sched, pmp, mtip, mtie, stage, boot, heap_next>>

\* The timer interrupt is taken wherever the hart does not mask it: in kmain,
\* in a task, in a handler or a panic that has lost its mask.
TimerTrap ==
  /\ mtip /\ mtie /\ InterruptsOn(mode, mstatus)
  /\ TrapEntry(Interrupt(7))

\* trap_vector pops the registers and executes mret.
TrapReturn ==
  /\ at = "return"
  /\ gpr' = frame
  /\ frame' = HandlerGpr
  /\ pc' = mepc
  /\ mode' = mstatus.MPP
  /\ mstatus' = MretMstatus(mstatus)
  /\ at' = IF current = NoSlot THEN "kmain" ELSE "task"
  /\ UNCHANGED <<sched, mepc, mcause, pmp, mtip, mtie, stage, boot, heap_next>>

-----------------------------------------------------------------------------
(* The scheduler *)

\* is_ready of the task table st.
ReadySet(st) == {i \in Slot : st[i] = "Ready"}

\* The interrupted context, as schedule saves it: frame, mepc and mstatus.
Interrupted(m) == [gpr |-> frame, mepc |-> mepc, mstatus |-> m]

\* A save that takes the bootstrap context for idle's.
SavedBootstrap(st, m) ==
  [context EXCEPT ![IF current = NoSlot THEN IDLE_TASK_INDEX ELSE current] =
     Interrupted(m)]

\* Step 1 of schedule: the interrupted task, if any, gets its context saved,
\* and is Ready again unless it is Dead.
Saved(st, m) ==
  IF current # NoSlot /\ st[current] # "None"
  THEN [context EXCEPT ![current] = Interrupted(m)] ELSE context

\* A switch that leaves the interrupted task Running.
YieldedNothing(st) == st

Yielded(st) ==
  IF current # NoSlot /\ st[current] = "Running"
  THEN [st EXCEPT ![current] = "Ready"] ELSE st

\* A load that leaves the entries the new task does not use as they are.
LoadKeepsUnused(regions) ==
  [i \in TaskEntry |-> IF regions[i].size = 0 THEN pmp[i] ELSE regions[i]]

\* pmp::load_task_config: entries 4 and up are those of the task, and the
\* ones it does not use are off.
load_task_config(regions) ==
  [i \in TaskEntry |-> IF regions[i].size = 0 THEN NoRegion ELSE regions[i]]

\* A switch that does not restore mstatus.
SwitchKeepsMstatus(next, st, ctx, m) ==
  IF next = NoSlot
  THEN /\ state' = st
       /\ mstatus' = with_lock(m)
       /\ UNCHANGED <<current, pmp, frame, mepc>>
  ELSE /\ state' = [st EXCEPT ![next] = "Running"]
       /\ current' = next
       /\ pmp' = load_task_config(pmp_config[next])
       /\ frame' = ctx[next].gpr
       /\ mepc' = ctx[next].mepc
       /\ mstatus' = with_lock(m)

\* Steps 2 to 6 of schedule, from task table st and mstatus m: no task is
\* ready and nothing is switched, or the next one is marked Running, its PMP
\* entries are loaded and its context replaces the trap frame.
SwitchTo(next, st, ctx, m) ==
  IF next = NoSlot
  THEN /\ state' = st
       /\ mstatus' = with_lock(m)
       /\ UNCHANGED <<current, pmp, frame, mepc>>
  ELSE /\ state' = [st EXCEPT ![next] = "Running"]
       /\ current' = next
       /\ pmp' = load_task_config(pmp_config[next])
       /\ frame' = ctx[next].gpr
       /\ mepc' = ctx[next].mepc
       /\ mstatus' = ctx[next].mstatus

\* A schedule that restores what the slot held before the save.
ScheduleStaleContext(st, m) ==
  /\ context' = Saved(st, m)
  /\ SwitchTo(select_next_ready(MAX_TASKS, current, ReadySet(Yielded(st))),
              Yielded(st), context, m)
  /\ UNCHANGED <<pmp_config, stack_top>>

schedule(st, m) ==
  /\ context' = Saved(st, m)
  /\ SwitchTo(select_next_ready(MAX_TASKS, current, ReadySet(Yielded(st))),
              Yielded(st), Saved(st, m), m)
  /\ UNCHANGED <<pmp_config, stack_top>>

\* kill_current: the current task is Dead before schedule looks at it.
Killed ==
  IF current # NoSlot /\ state[current] # "None"
  THEN [state EXCEPT ![current] = "Dead"] ELSE state

kill_current == schedule(Killed, with_lock(mstatus))

-----------------------------------------------------------------------------
(* trap_handler: one action per handler *)

Handling(cause) == at = "handler" /\ mcause = cause

\* handle_interrupt, cause 7, the only interrupt mie enables: increment_tick,
\* schedule_next_tick moves mtimecmp into the future, schedule.
HandleTimer ==
  /\ Handling(Interrupt(7))
  /\ set_timer_us
  /\ schedule(state, mstatus)
  /\ at' = "return"
  /\ UNCHANGED <<mode, pc, gpr, mcause, mtie, stage, boot, heap_next>>

AccessFaults == {1, 5, 7}

\* handle_access_fault: a fault of U-mode code kills the task, one of M-mode
\* code is a panic.
HandleAccessFault ==
  /\ \E code \in AccessFaults : Handling(Exception(code))
  /\ IF mstatus.MPP = "U"
     THEN kill_current /\ at' = "return"
     ELSE Panic /\ UNCHANGED <<sched, pmp, frame, mepc, mstatus>>
  /\ UNCHANGED <<mode, pc, gpr, mcause, mtip, mtie, stage, boot, heap_next>>

\* A result of -1, as wide as a register, for no byte.
GetcMinusOne == RxBytes \cup {USIZE - 1}

\* The result of try_getc().unwrap_or(0xFF).
GetcResults == RxBytes \cup {NO_BYTE}

\* A system call that resumes at its ecall when there is no byte yet.
HandleSyscallRetries ==
  /\ Handling(Exception(8))
  /\ IF frame.a7 = SYS_GETC
     THEN \E byte \in GetcResults : frame' = [frame EXCEPT !.a0 = byte]
     ELSE UNCHANGED frame
  /\ mepc' = IF frame.a7 = SYS_GETC /\ frame'.a0 = NO_BYTE THEN mepc ELSE mepc + 4
  /\ at' = "return"
  /\ UNCHANGED <<sched, mode, pc, gpr, mcause, mstatus, pmp, mtip, mtie, stage,
                 boot, heap_next>>

\* Cause 8, handle_syscall: SYS_GETC returns in a0, the other numbers leave
\* the frame alone, and the task resumes after its ecall.
HandleSyscall ==
  /\ Handling(Exception(8))
  /\ IF frame.a7 = SYS_GETC
     THEN \E byte \in GetcResults : frame' = [frame EXCEPT !.a0 = byte]
     ELSE UNCHANGED frame
  /\ mepc' = mepc + 4
  /\ at' = "return"
  /\ UNCHANGED <<sched, mode, pc, gpr, mcause, mstatus, pmp, mtip, mtie, stage,
                 boot, heap_next>>

\* Causes 3 (breakpoint), 9 and 11 (ecall from S- and M-mode): logged, and
\* the instruction is skipped.
HandleSkip ==
  /\ \E code \in {3, 9, 11} : Handling(Exception(code))
  /\ mepc' = mepc + 4
  /\ at' = "return"
  /\ UNCHANGED <<sched, mode, pc, gpr, mcause, mstatus, pmp, frame, mtip, mtie,
                 stage, boot, heap_next>>

\* The causes handle_exception does not panic on.
SurvivedCauses == AccessFaults \cup {3, 8, 9, 11}

\* Every other cause: panic_exception, whatever mode it came from.
HandleFatal ==
  /\ at = "handler" /\ ~mcause.is_interrupt /\ mcause.code \notin SurvivedCauses
  /\ Panic
  /\ UNCHANGED <<sched, mode, pc, gpr, mepc, mcause, mstatus, pmp, frame,
                 mtip, mtie, stage, boot, heap_next>>

-----------------------------------------------------------------------------
(* The environment: user code and the timer *)

UserRuns == at = "task" /\ current # IDLE_TASK_INDEX

\* An instruction of user code that does not trap; it works on registers
\* and jumps within the code.
UserStep ==
  /\ UserRuns
  /\ \E a0 \in UserValues, a7 \in SyscallNumbers, target \in Code :
        /\ gpr' = [gpr EXCEPT !.a0 = a0, !.a7 = a7]
        /\ pc' = target
  /\ UNCHANGED <<sched, at, mode, mepc, mcause, mstatus, pmp, frame, mtip, mtie,
                 stage, boot, heap_next>>

\* The exceptions an instruction of user code can raise: access faults,
\* illegal instruction, misaligned load or store, ebreak and ecall.
UserExceptions == {1, 2, 3, 4, 5, 6, 7, 8}

UserTrap ==
  /\ UserRuns
  /\ \E code \in UserExceptions :
        /\ code \in {3, 8} => pc + 4 \in Code
        /\ TrapEntry(Exception(code))

\* mtime reaches mtimecmp.
TimerExpires ==
  /\ mtie /\ ~mtip
  /\ mtip' = TRUE
  /\ UNCHANGED <<sched, hart, mtie, stage, boot, heap_next>>

\* The wfi loops of kmain, of the idle task and of the panic handler.
Wfi ==
  /\ \/ at = "kmain" /\ stage = "wfi"
     \/ at = "task" /\ current = IDLE_TASK_INDEX
     \/ at = "panic"
  /\ UNCHANGED vars

-----------------------------------------------------------------------------
Kmain == KmainInit \/ Spawn \/ SpawnPanics \/ SchedInit \/ EnableInterrupts

Handler ==
  \/ HandleTimer \/ HandleAccessFault \/ HandleSyscall
  \/ HandleSkip \/ HandleFatal

Next ==
  \/ Kmain
  \/ TimerTrap \/ Handler \/ TrapReturn
  \/ UserStep \/ UserTrap \/ TimerExpires \/ Wfi

\* The hart executes kernel code without pause, mtime advances, and a
\* pending interrupt that is enabled again and again is taken: the hardware
\* evaluates it at once after every mret.  Nothing is assumed of user code.
Fairness ==
  /\ WF_vars(Kmain) /\ WF_vars(Handler) /\ WF_vars(TrapReturn)
  /\ WF_vars(TimerExpires) /\ SF_vars(TimerTrap)

Spec == Init /\ [][Next]_vars

FairSpec == Spec /\ Fairness

-----------------------------------------------------------------------------
(* Properties *)

GprType == [a0 : Nat, a7 : Nat, sp : Nat]
ContextType == [gpr : GprType, mepc : Nat, mstatus : Mstatus]
RegionType == [base : Nat, size : Nat, flags : {"none", "RX", "RW"}]
PmpType == [TaskEntry -> RegionType]
SpecType == UserSpec \cup {IdleSpec}

\* The state is well typed: the task table, the registers, the CSRs and the
\* trap frame hold what their Rust types allow (SchedulerState, TrapFrame).
TypeOK ==
  /\ current \in Slot \cup {NoSlot}
  /\ state \in [Slot -> TaskState]
  /\ context \in [Slot -> ContextType]
  /\ pmp_config \in [Slot -> PmpType]
  /\ stack_top \in [Slot -> Nat]
  /\ at \in {"kmain", "task", "handler", "return", "panic"}
  /\ mode \in Privilege
  /\ pc \in Nat /\ mepc \in Nat
  /\ gpr \in GprType /\ frame \in GprType
  /\ mcause \in [is_interrupt : BOOLEAN, code : Nat]
  /\ mstatus \in Mstatus
  /\ pmp \in PmpType
  /\ mtip \in BOOLEAN /\ mtie \in BOOLEAN
  /\ stage \in {"init", "spawn", "enable", "wfi"}
  /\ boot \in Seq(SpecType)
  /\ heap_next \in Nat

\* Whatever task the hart executes is the one marked Running, and it is the
\* only one: a killed task never executes again, although schedule returns
\* into the interrupted context when it finds no ready task.
OnlyRunningTaskExecutes ==
  at = "task" => \A i \in Slot : state[i] = "Running" <=> i = current

\* The idle task, and only the idle task, executes in M-mode: the privilege
\* mret restores is that of the task schedule has chosen.
PrivilegeOfTask == IF current = IDLE_TASK_INDEX THEN "M" ELSE "U"
PrivilegeMatchesTask == at = "task" => mode = PrivilegeOfTask

\* While a user task executes, PMP entries 4 and up are those of that task
\* and of no other, and one of them is the stack its sp points into.
PmpMatchesTask ==
  UserRuns =>
    /\ \A i \in TaskEntry :
         pmp[i] = IF pmp_config[current][i].size = 0 THEN NoRegion
                  ELSE pmp_config[current][i]
    /\ \E i \in TaskEntry : /\ pmp[i].size = TASK_STACK_SIZE
                            /\ pmp[i].base + pmp[i].size = gpr.sp

\* Whatever waits for the timer can be interrupted by it: every task, idle
\* in its wfi loop included, and kmain once it has enabled interrupts.
PreemptionPossible ==
  at = "task" \/ (at = "kmain" /\ stage = "wfi") => InterruptsOn(mode, mstatus)

\* From trap entry to mret, and after a panic, the timer cannot interrupt:
\* there is one trap frame, one mepc, and schedule holds no lock for them.
HandlersNotInterrupted ==
  at \in {"handler", "return", "panic"} => ~InterruptsOn(mode, mstatus)

\* Idle is selected only when no other task can run (policy.rs: "idle is
\* considered only when no normal task is ready").
IdleOnlyAsFallback ==
  current = IDLE_TASK_INDEX =>
    \A i \in Slot \ {IDLE_TASK_INDEX} : state[i] \in {"None", "Dead"}

\* A handler that would lose the current task finds another one to run: the
\* branch of schedule that finds none and resumes the interrupted context is
\* never taken.
SomeTaskAlwaysReady ==
  at = "handler" =>
    select_next_ready(MAX_TASKS, current,
      ReadySet(IF mstatus.MPP = "U" THEN Killed ELSE Yielded(state))) # NoSlot

\* The context saved for a task, and the one it executes with, are on its own
\* stack: neither kmain's registers nor another task's are ever saved in its
\* slot (SchedulerState: the bootstrap context "must never be saved").
RegistersOnOwnStack ==
  /\ \A i \in Slot : state[i] # "None" => context[i].gpr.sp = stack_top[i]
  /\ at = "task" => gpr.sp = stack_top[current]

StackOf(i) == (stack_top[i] - TASK_STACK_SIZE)..(stack_top[i] - 1)

\* Task stacks lie in the heap and no two share an address, nor does any
\* share one with the kernel stack, although nothing but the arithmetic of
\* the bump allocator keeps them apart.
StacksDisjoint ==
  \A i \in Slot : state[i] # "None" =>
    /\ stack_top[i] <= HEAP_END
    /\ stack_top[i] - TASK_STACK_SIZE >= HEAP_START
    /\ \A j \in Slot \ {i} : state[j] # "None" => StackOf(i) \cap StackOf(j) = {}

\* No task is dispatched before kmain has spawned all of them and sched::init
\* has made them Ready, even when the timer expires during boot.
NoDispatchBeforeInit ==
  current # NoSlot => boot = <<>> /\ \A i \in Slot : state[i] # "Created"

\* A panic is final: neither the timer nor a handler resumes any code.
PanicIsFinal == [][at = "panic" => at' = "panic"]_vars

\* A task that is Ready is dispatched eventually, whatever the others do,
\* unless the kernel panics: round-robin starves no normal task.
NoStarvation ==
  \A i \in Slot \ {IDLE_TASK_INDEX} :
    state[i] = "Ready" ~> (state[i] = "Running" \/ at = "panic")

-----------------------------------------------------------------------------
(* What comments and documents say, and the code does otherwise *)

\* README.md: "Graceful U-mode fault handling: kill faulting task and
\* reschedule".  No exception of a user task stops the kernel.
UserFaultNeverPanics == at = "panic" => mstatus.MPP # "U"

=============================================================================

-------------------------------- MODULE Timer --------------------------------
(***************************************************************************)
(* The CLINT timer driver (timer.rs) in time: mtime advances while the     *)
(* driver works, mtimecmp is written from a value of mtime that was read   *)
(* before, and the slices the scheduler hands out are what is left between *)
(* a dispatch and the next deadline.                                       *)
(*                                                                         *)
(* Kernel.tla knows only whether the timer interrupt is pending; here its  *)
(* deadline has a value, and boot, the tick handler and the kill path are  *)
(* the steps that read or move it.  Handlers run with interrupts masked    *)
(* (Kernel!HandlersNotInterrupted), so those of system calls and           *)
(* breakpoints, which leave the timer alone, may still be busy when the    *)
(* deadline passes.  Tasks are reduced to who is alive.                    *)
(***************************************************************************)
EXTENDS SchedPolicy

CONSTANTS
  MAX_TASKS,
  U64,               \* 2^64: the modulus of u64 arithmetic
  TIMER_FREQ_HZ, US_PER_SECOND, TICK_INTERVAL_US,
  PRINT_EVERY,       \* ticks between two log lines of the tick handler (100)
  HANDLER_TIME,      \* longest time from the read of mtime to mret
  MAX_MTIME          \* bound: the clock stops here

us_to_ticks(us) == ((us * TIMER_FREQ_HZ) % U64) \div US_PER_SECOND

Interval == us_to_ticks(TICK_INTERVAL_US)

U64_MAX == U64 - 1

ASSUME TimerAssumption ==
  /\ MAX_TASKS \in Nat \ {0} /\ PRINT_EVERY \in Nat \ {0}
  /\ U64 \in Nat /\ MAX_MTIME \in Nat \ {0} /\ HANDLER_TIME \in Nat
  /\ Interval \in Nat /\ HANDLER_TIME < Interval
  /\ MAX_MTIME + Interval < U64

VARIABLES
  mtime, mtimecmp,   \* the CLINT registers
  mtie,              \* mie.MTIE
  at,                \* the step the hart is about to take
  now,               \* `current` in set_timer_us
  TICK_COUNT,
  alive, running,    \* tasks that are not Dead, SchedulerState.current
  taken,             \* history: mtime when the timer was first armed, then
                     \* whenever a tick was taken
  since, cause       \* history: when and by what `running` was dispatched

tasks == <<alive, running, since, cause>>
vars == <<mtime, mtimecmp, mtie, at, now, TICK_COUNT, tasks, taken>>

Slot == 0..(MAX_TASKS - 1)

Boot == {"clear", "enable", "init_read", "init_write"}

Init ==
  /\ mtime \in {0, 1} /\ mtimecmp \in {0, U64_MAX}  \* whatever reset left
  /\ mtie = FALSE /\ at = "clear" /\ now = 0 /\ TICK_COUNT = 0
  /\ alive = Slot /\ running = NoSlot /\ since = 0 /\ cause = "none"
  /\ taken = 0

Goto(from, to) == at = from /\ at' = to
-----------------------------------------------------------------------------
(* timer::init and the rest of kmain, with mstatus.MIE clear *)

ClearTimer ==
  /\ Goto("clear", "enable")
  /\ mtimecmp' = U64_MAX
  /\ UNCHANGED <<mtime, mtie, now, TICK_COUNT, tasks, taken>>

EnableTimerInterrupt ==
  /\ Goto("enable", "init_read")
  /\ mtie' = TRUE
  /\ UNCHANGED <<mtime, mtimecmp, now, TICK_COUNT, tasks, taken>>

\* set_timer_us: mtime is read ...
ReadMtime ==
  /\ \/ Goto("init_read", "init_write") /\ taken' = mtime
     \/ Goto("read", "write") /\ UNCHANGED taken
  /\ now' = mtime
  /\ UNCHANGED <<mtime, mtimecmp, mtie, TICK_COUNT, tasks>>

\* A set_timer_us that counts from the deadline that has passed.
DeadlineFromLast == (mtimecmp + Interval) % U64

\* ... and the deadline is computed from what was read.
Deadline == (now + Interval) % U64

WriteMtimecmp ==
  /\ Goto("init_write", "kmain") \/ Goto("write", "schedule")
  /\ mtimecmp' = Deadline
  /\ UNCHANGED <<mtime, mtie, now, TICK_COUNT, tasks, taken>>

\* kmain spawns its tasks, which takes any time, and sets mstatus.MIE.
EnableInterrupts ==
  /\ Goto("kmain", "run")
  /\ UNCHANGED <<mtime, mtimecmp, mtie, now, TICK_COUNT, tasks, taken>>
-----------------------------------------------------------------------------
(* Ticks and faults *)

MTIP == mtime >= mtimecmp

TakeInterrupt ==
  /\ MTIP /\ mtie
  /\ Goto("run", "tick")
  /\ taken' = mtime
  /\ UNCHANGED <<mtime, mtimecmp, mtie, now, TICK_COUNT, tasks>>

\* AtomicCounter::increment, and whether the handler prints.
IncrementTick ==
  /\ at = "tick"
  /\ TICK_COUNT' = (TICK_COUNT + 1) % U64
  /\ at' = IF TICK_COUNT' % PRINT_EVERY = 0 THEN "print" ELSE "read"
  /\ UNCHANGED <<mtime, mtimecmp, mtie, now, tasks, taken>>

\* A handler that has read mtime before it prints.
PrintAfterRead ==
  /\ Goto("print", "write")
  /\ now' = taken
  /\ UNCHANGED <<mtime, mtimecmp, mtie, TICK_COUNT, tasks, taken>>

\* The log line of every PRINT_EVERY-th tick; putc waits for the UART, so it
\* takes any time.
PrintTick ==
  /\ Goto("print", "read")
  /\ UNCHANGED <<mtime, mtimecmp, mtie, now, TICK_COUNT, tasks, taken>>

\* schedule, from the tick handler or from kill_current, and mret.
Dispatch(by) ==
  /\ running' = select_next_ready(MAX_TASKS, running, alive)
  /\ since' = mtime /\ cause' = by

Schedule ==
  /\ Goto("schedule", "run")
  /\ Dispatch("tick")
  /\ UNCHANGED <<mtime, mtimecmp, mtie, now, TICK_COUNT, alive, taken>>

\* An instruction of the running user task traps: none executes while a tick
\* is pending, which the hardware takes first.
UserTraps(to) ==
  /\ running \notin {NoSlot, IDLE_TASK_INDEX} /\ ~MTIP
  /\ Goto("run", to)

\* An ecall or ebreak; its handler runs masked and may wait for the UART, so it
\* takes any time, over the deadline too.
UserCalls ==
  /\ UserTraps("call")
  /\ UNCHANGED <<mtime, mtimecmp, mtie, now, TICK_COUNT, tasks, taken>>

\* mret to the caller: a tick that came due during the call is taken next.
CallReturns ==
  /\ Goto("call", "run")
  /\ UNCHANGED <<mtime, mtimecmp, mtie, now, TICK_COUNT, tasks, taken>>

\* An access fault of the running user task, which kill_current marks Dead.
Fault ==
  /\ UserTraps("kill")
  /\ alive' = alive \ {running}
  /\ UNCHANGED <<mtime, mtimecmp, mtie, now, TICK_COUNT, running, since, cause,
                 taken>>

\* A kill path that also clears the timer of the killed task.
KillClearsTimer ==
  /\ Goto("kill", "run")
  /\ Dispatch("kill")
  /\ mtimecmp' = U64_MAX
  /\ UNCHANGED <<mtime, mtie, now, TICK_COUNT, alive, taken>>

\* kill_current leaves the deadline of the killed task in force.
KillCurrent ==
  /\ Goto("kill", "run")
  /\ Dispatch("kill")
  /\ UNCHANGED <<mtime, mtimecmp, mtie, now, TICK_COUNT, alive, taken>>

\* Time passes.  Code that can be interrupted does not run on while a tick is
\* pending, and the code from the read of mtime to mret is of bounded length.
Advance ==
  /\ mtime < MAX_MTIME
  /\ at = "run" => ~MTIP
  /\ at \in {"init_write", "write", "schedule"} => mtime < now + HANDLER_TIME
  /\ mtime' = mtime + 1
  /\ UNCHANGED <<mtimecmp, mtie, at, now, TICK_COUNT, tasks, taken>>

\* The bound is reached: nothing more is said of the clock.
Horizon == mtime = MAX_MTIME /\ UNCHANGED vars

Next ==
  \/ ClearTimer \/ EnableTimerInterrupt \/ ReadMtime \/ WriteMtimecmp
  \/ EnableInterrupts \/ TakeInterrupt \/ IncrementTick \/ PrintTick
  \/ Schedule \/ UserCalls \/ CallReturns \/ Fault \/ KillCurrent \/ Advance \/ Horizon

Spec == Init /\ [][Next]_vars
-----------------------------------------------------------------------------
(* Properties *)

\* Every variable holds what its Rust or hardware type allows; mtimecmp stays
\* within u64 although set_timer_us adds without a check.
TypeOK ==
  /\ mtime \in 0..MAX_MTIME /\ mtimecmp \in 0..U64_MAX
  /\ mtie \in BOOLEAN
  /\ at \in Boot \cup {"kmain", "run", "tick", "print", "read", "write",
                       "schedule", "call", "kill"}
  /\ now \in 0..MAX_MTIME /\ taken \in 0..MAX_MTIME /\ since \in 0..MAX_MTIME
  /\ TICK_COUNT \in Nat
  /\ alive \subseteq Slot /\ running \in Slot \cup {NoSlot}
  /\ cause \in {"none", "tick", "kill"}

\* Two ticks are at least one interval apart, and the first is one interval
\* after timer::init, however late the handler served the tick before or
\* however long boot took: ticks never come in bursts.
TicksApart ==
  [][at = "run" /\ at' = "tick" => mtime - taken >= Interval]_vars

\* A task begins nothing, neither an instruction nor a system call, one
\* interval or more after its dispatch: the only step left to it is the tick.
\* So a task keeps the hart longer only inside the one call it was in when its
\* slice ended.  This holds also of a task dispatched by a kill, which does not
\* touch the timer (handle_access_fault, kill_current), and of one that comes
\* back from a long call (handle_syscall, putc).
SliceBounded ==
  [][at = "run" /\ at' # "tick" /\ running # NoSlot => mtime - since < Interval]_vars

\* A task dispatched by a tick can execute before the next one: the deadline
\* is still ahead when mret returns to it, although mtime has moved on since
\* it was read and schedule has waited for the UART (schedule_next_tick is
\* called after the handler's own log line).
SliceNotEmpty ==
  at = "run" /\ cause = "tick" => since + (Interval - HANDLER_TIME) <= mtimecmp
=============================================================================

-------------------------- MODULE KernelRefinement --------------------------
(***************************************************************************)
(* The kernel implements the FIFO run queue and gives every task a CPU of  *)
(* its own.                                                                *)
(***************************************************************************)
EXTENDS Kernel

NormalSlots == Slot \ {IDLE_TASK_INDEX}

\* How long the scan takes from `current` to slot i.
Distance(i) == (i - current - 1) % MAX_TASKS

\* The Ready normal tasks, and which of them the scan reaches after i.
WaitingTasks == {i \in NormalSlots : state[i] = "Ready"}
ScannedAfter ==
  [i \in WaitingTasks |-> {j \in WaitingTasks : Distance(i) < Distance(j)}]

\* The traps that end in schedule.
SchedulingEvent ==
  IF at = "handler" /\ mcause.is_interrupt THEN "tick"
  ELSE IF at = "handler" /\ mcause.code \in AccessFaults THEN "fault"
  ELSE "none"

Fifo == INSTANCE RunQueue WITH
  Normal <- NormalSlots, Idle <- IDLE_TASK_INDEX, Nobody <- NoSlot,
  waiting <- WaitingTasks, behind <- ScannedAfter, running <- current,
  event <- SchedulingEvent

\* The registers of task i, wherever they are: in the hart, in the trap frame
\* and mepc while its trap is served or being returned from, or in its slot.
CpuOf(i) ==
  LET g == IF i # current THEN context[i].gpr
           ELSE IF at = "task" THEN gpr ELSE frame
      p == IF i # current THEN context[i].mepc
           ELSE IF at = "task" THEN pc ELSE mepc
  IN  [a0 |-> g.a0, a7 |-> g.a7, sp |-> g.sp, pc |-> p]

LifeOf(i) ==
  CASE state[i] = "None" -> "absent"
    [] state[i] = "Dead" -> "dead"
    [] OTHER -> "alive"

ServedKind ==
  IF mcause.is_interrupt THEN "timer"
  ELSE IF mcause.code \in AccessFaults THEN "fault"
  ELSE IF mcause.code = 8 THEN "syscall"
  ELSE IF mcause.code \in {3, 9, 11} THEN "skip" ELSE "fatal"

TrapKind ==
  CASE at \in {"kmain", "task"} -> "none"
    [] at = "handler" -> ServedKind
    [] at = "return" -> "served"
    [] at = "panic" -> "panic"

OwnCpu == INSTANCE VirtualCpus WITH
  Task <- Slot, Nobody <- NoSlot, GetcNumber <- SYS_GETC,
  GetcResult <- GetcResults,
  cpu <- [i \in Slot |-> CpuOf(i)], life <- [i \in Slot |-> LifeOf(i)],
  running <- current, trap <- TrapKind

\* The scan over the task table, with slots that are skipped and a fallback
\* to idle, dispatches the normal tasks in FIFO order: every tick moves on to
\* the task that has waited longest (select_next_ready, schedule).
ImplementsFifo == Fifo!Spec

\* Saving to the slot, restoring through the trap frame, mepc and mstatus, and
\* killing tasks change no register of any task: each sees a CPU of its own,
\* and a system call resumes its caller exactly once with its result.
ImplementsOwnCpu == OwnCpu!Spec
=============================================================================

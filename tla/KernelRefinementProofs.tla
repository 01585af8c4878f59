----------------------- MODULE KernelRefinementProofs -----------------------
(***************************************************************************)
(* The kernel gives every task a CPU of its own and dispatches the normal  *)
(* tasks in FIFO order, for every task table and every list of user tasks: *)
(* each step of Kernel is a step of VirtualCpus, and one of RunQueue, or   *)
(* changes nothing there.                                                  *)
(***************************************************************************)
EXTENDS KernelRefinement, KernelProofs

-----------------------------------------------------------------------------
(* A CPU for every task *)

\* A step that leaves the registers, the life and the trap of every task alone
\* is a stutter.
LEMMA CpuStutter ==
  ASSUME \A i \in Slot : CpuOf(i)' = CpuOf(i),
         \A i \in Slot : LifeOf(i)' = LifeOf(i),
         UNCHANGED <<current, TrapKind>>
  PROVE  UNCHANGED OwnCpu!vars
  BY DEF OwnCpu!vars

\* kmain starts with no task.
LEMMA OwnCpuInit == Init => OwnCpu!Init
  BY DEF Init, OwnCpu!Init, LifeOf, TrapKind

\* kmain's steps before and after the spawns, and the steps in which nothing
\* but the timer's pending bit changes.
LEMMA OwnCpuQuiet ==
  ASSUME KernelInv,
         KmainInit \/ SpawnPanics \/ SchedInit \/ EnableInterrupts
           \/ TimerExpires \/ Wfi \/ UNCHANGED vars
  PROVE  OwnCpu!Panic \/ UNCHANGED OwnCpu!vars
<1>1. /\ UNCHANGED <<current, context, gpr, frame, pc, mepc, mcause>>
      /\ \/ UNCHANGED at
         \/ at = "kmain" /\ at' = "panic" /\ current = NoSlot
  BY DEF KmainInit, SpawnPanics, SchedInit, EnableInterrupts, TimerExpires, Wfi,
         vars, sched, hart, Panic, KernelInv, HartInv
<1>2. \A i \in Slot : CpuOf(i)' = CpuOf(i)
  BY <1>1, SlotFacts DEF CpuOf
<1>3. \A i \in Slot : LifeOf(i)' = LifeOf(i)
  <2>1. CASE UNCHANGED state
    BY <2>1 DEF LifeOf
  <2>2. CASE SchedInit
    BY <2>2 DEF LifeOf, SchedInit, KernelInv, TypeOK
  <2>3. QED
    BY <2>1, <2>2 DEF KmainInit, SpawnPanics, EnableInterrupts, TimerExpires, Wfi,
                      vars, sched
<1>4. CASE UNCHANGED at
  <2>1. UNCHANGED TrapKind
    BY <1>1, <1>4 DEF TrapKind, ServedKind
  <2>2. QED
    BY <1>1, <1>2, <1>3, <2>1, CpuStutter
<1>5. CASE at = "kmain" /\ at' = "panic" /\ current = NoSlot
  <2>1. TrapKind' = "panic"
    BY <1>5 DEF TrapKind
  <2>2. QED
    BY <1>1, <1>2, <1>3, <1>5, <2>1 DEF OwnCpu!Panic
<1>6. QED
  BY <1>1, <1>4, <1>5

\* TaskSpec::spawn creates the task of a free slot.
LEMMA OwnCpuSpawn == KernelInv /\ Spawn => \E t \in Slot : OwnCpu!Create(t)
<1> SUFFICES ASSUME KernelInv, Spawn PROVE \E t \in Slot : OwnCpu!Create(t)
  OBVIOUS
<1> DEFINE idx == FirstHit(FreeSlots)
<1>1. idx \in Slot /\ state[idx] = "None"
  BY SlotFacts, FirstHitIsLeast, Zenon DEF FreeSlots, Spawn
<1>2. /\ current = NoSlot /\ at = "kmain" /\ UNCHANGED <<current, at>>
      /\ state' = [state EXCEPT ![idx] = "Created"]
      /\ \A i \in Slot \ {idx} : context'[i] = context[i]
  BY DEF Spawn, KernelInv, HartInv, TypeOK
<1> HIDE DEF idx
<1>3. \A i \in Slot \ {idx} : CpuOf(i)' = CpuOf(i)
  BY <1>2, SlotFacts DEF CpuOf
<1>4. \A i \in Slot : LifeOf(i)' = IF i = idx THEN "alive" ELSE LifeOf(i)
  BY <1>1, <1>2 DEF LifeOf, KernelInv, TypeOK
<1>5. LifeOf(idx) = "absent" /\ TrapKind = "none" /\ TrapKind' = "none"
  BY <1>1, <1>2 DEF LifeOf, TrapKind
<1>6. OwnCpu!Create(idx)
  BY <1>1, <1>2, <1>3, <1>4, <1>5, Zenon DEF OwnCpu!Create, OwnCpu!OnlyCpu
<1>7. QED
  BY <1>1, <1>6

\* An instruction changes the registers of the task that executes it, not sp.
LEMMA OwnCpuStep == KernelInv /\ UserStep => \E t \in Slot : OwnCpu!Execute(t)
<1> SUFFICES ASSUME KernelInv, UserStep PROVE OwnCpu!Execute(current) /\ current \in Slot
  OBVIOUS
<1>1. /\ current \in Slot /\ at = "task" /\ gpr'.sp = gpr.sp
      /\ UNCHANGED <<sched, at, mcause>>
  BY SlotFacts DEF UserStep, UserRuns, KernelInv, HartInv, TypeOK, GprType
<1>2. \A i \in Slot \ {current} : CpuOf(i)' = CpuOf(i)
  BY <1>1 DEF CpuOf, sched
<1>3. CpuOf(current)'.sp = CpuOf(current).sp
  BY <1>1 DEF CpuOf, sched
<1>4. \A i \in Slot : LifeOf(i)' = LifeOf(i)
  BY <1>1 DEF LifeOf, sched
<1>5. TrapKind = "none" /\ TrapKind' = "none"
  BY <1>1 DEF TrapKind
<1>6. QED
  BY <1>1, <1>2, <1>3, <1>4, <1>5 DEF OwnCpu!Execute, OwnCpu!OnlyCpu, sched

\* Trap entry moves the registers of the interrupted task to the trap frame
\* and mepc and changes none.
LEMMA OwnCpuTrap ==
  ASSUME KernelInv, TimerTrap \/ UserTrap
  PROVE  \E kind \in OwnCpu!Kinds : OwnCpu!Trap(kind)
<1>1. PICK cause \in [is_interrupt : BOOLEAN, code : Nat] :
        /\ TrapEntry(cause)
        /\ at = "task" \/ (at = "kmain" /\ current = NoSlot)
        /\ current = NoSlot => cause = Interrupt(7)
  BY TrapCause, SlotFacts
<1>2. /\ mepc' = pc /\ frame' = gpr /\ mcause' = cause /\ at' = "handler"
      /\ UNCHANGED sched
  BY <1>1 DEF TrapEntry
<1>3. \A i \in Slot : CpuOf(i)' = CpuOf(i)
  BY <1>1, <1>2, SlotFacts DEF CpuOf, sched
<1>4. \A i \in Slot : LifeOf(i)' = LifeOf(i)
  BY <1>2 DEF LifeOf, sched
<1>5. TrapKind = "none" /\ TrapKind' \in OwnCpu!Kinds
  BY <1>1, <1>2 DEF TrapKind, ServedKind, OwnCpu!Kinds
<1>6. current = NoSlot => TrapKind' = "timer"
  BY <1>1, <1>2 DEF TrapKind, ServedKind, Interrupt
<1>7. OwnCpu!Trap(TrapKind')
  BY <1>2, <1>3, <1>4, <1>5, <1>6 DEF OwnCpu!Trap, sched
<1>8. QED
  BY <1>5, <1>7

\* mret moves them back.
LEMMA OwnCpuReturn == KernelInv /\ TrapReturn => OwnCpu!Resume
<1> SUFFICES ASSUME KernelInv, TrapReturn PROVE OwnCpu!Resume
  OBVIOUS
<1>1. /\ at = "return" /\ at' = "task" /\ pc' = mepc /\ gpr' = frame
      /\ UNCHANGED sched
  BY DEF TrapReturn, KernelInv, HartInv
<1>2. \A i \in Slot : CpuOf(i)' = CpuOf(i)
  BY <1>1 DEF CpuOf, sched
<1>3. \A i \in Slot : LifeOf(i)' = LifeOf(i)
  BY <1>1 DEF LifeOf, sched
<1>4. TrapKind = "served" /\ TrapKind' = "none"
  BY <1>1 DEF TrapKind
<1>5. QED
  BY <1>1, <1>2, <1>3, <1>4 DEF OwnCpu!Resume, sched

\* schedule saves the registers of the interrupted task in its slot, restores
\* those of the next one from its slot, and changes none of them.
LEMMA ScheduleKeepsCpus ==
  ASSUME KernelInv, at = "handler", NEW st,
         \/ st = state
         \/ st = Killed /\ current \in Slot \ {IDLE_TASK_INDEX},
         schedule(st, mstatus), at' = "return"
  PROVE  /\ \A i \in Slot : CpuOf(i)' = CpuOf(i)
         /\ current' \in Slot /\ \A i \in Slot : i = current' => LifeOf(i)' = "alive"
         /\ \A i \in Slot : LifeOf(i)' =
              IF i = current /\ st # state THEN "dead" ELSE LifeOf(i)
<1> USE SlotFacts
<1> DEFINE yielded == Yielded(st)
           saved == Saved(st, mstatus)
           next == Selected(st)
<1> HIDE DEF yielded, saved, next
<1>1. /\ state \in [Slot -> TaskState] /\ current \in Slot \cup {NoSlot}
      /\ current # NoSlot => state[current] = "Running"
  BY DEF KernelInv, TypeOK, TableInv
<1>2. /\ yielded \in [Slot -> TaskState]
      /\ \A i \in Slot : i # current => yielded[i] = state[i]
      /\ current # NoSlot =>
           yielded[current] = IF st = state THEN "Ready" ELSE "Dead"
  BY ScheduleEffect DEF yielded
<1>3. /\ \A i \in Slot : i # current => saved[i] = context[i]
      /\ current # NoSlot => saved[current].gpr = frame /\ saved[current].mepc = mepc
  BY ScheduleEffect DEF saved, Interrupted
<1>4. /\ next \in Slot /\ yielded[next] = "Ready"
      /\ context' = saved /\ state' = [yielded EXCEPT ![next] = "Running"]
      /\ current' = next /\ frame' = saved[next].gpr /\ mepc' = saved[next].mepc
  BY ScheduleEffect DEF yielded, saved, next
<1>5. \A i \in Slot : CpuOf(i)' = CpuOf(i)
  BY <1>1, <1>3, <1>4, Zenon DEF CpuOf
<1>6. \A i \in Slot : LifeOf(i)' =
        IF i = current /\ st # state THEN "dead" ELSE LifeOf(i)
  BY <1>1, <1>2, <1>4 DEF LifeOf, TaskState
<1>7. \A i \in Slot : i = current' => LifeOf(i)' = "alive"
  BY <1>2, <1>4 DEF LifeOf
<1>8. QED
  BY <1>4, <1>5, <1>6, <1>7

\* A tick preempts the running task; an access fault kills it.
LEMMA OwnCpuSwitch ==
  ASSUME KernelInv, HandleTimer \/ HandleAccessFault
  PROVE  OwnCpu!Preempt \/ OwnCpu!Kill
<1>1. CASE HandleTimer
  <2>1. /\ at = "handler" /\ mcause = Interrupt(7) /\ schedule(state, mstatus)
        /\ at' = "return"
    BY <1>1 DEF HandleTimer, Handling
  <2>2. /\ \A i \in Slot : CpuOf(i)' = CpuOf(i)
        /\ current' \in Slot /\ \A i \in Slot : i = current' => LifeOf(i)' = "alive"
        /\ \A i \in Slot : LifeOf(i)' = LifeOf(i)
    BY <2>1, ScheduleKeepsCpus
  <2>3. TrapKind = "timer" /\ TrapKind' = "served"
    BY <2>1 DEF TrapKind, ServedKind, Interrupt
  <2>4. OwnCpu!Preempt
    BY <2>2, <2>3 DEF OwnCpu!Preempt, OwnCpu!Switch
  <2>5. QED
    BY <2>4
<1>2. CASE HandleAccessFault
  <2>1. /\ at = "handler" /\ ~mcause.is_interrupt /\ mcause.code \in AccessFaults
    BY <1>2 DEF HandleAccessFault, Handling, Exception
  <2>2. current \in Slot \ {IDLE_TASK_INDEX} /\ state[current] = "Running"
    BY <1>2, FaultKills
  <2>3. schedule(Killed, mstatus) /\ at' = "return"
    BY <1>2, FaultKills
  <2>4. Killed # state
    BY <2>2, SlotFacts DEF Killed, KernelInv, TypeOK
  <2>5. /\ \A i \in Slot : CpuOf(i)' = CpuOf(i)
        /\ current' \in Slot /\ \A i \in Slot : i = current' => LifeOf(i)' = "alive"
        /\ \A i \in Slot : LifeOf(i)' = IF i = current THEN "dead" ELSE LifeOf(i)
    BY <2>1, <2>2, <2>3, <2>4, ScheduleKeepsCpus
  <2>6. TrapKind = "fault" /\ TrapKind' = "served"
    BY <2>1, <2>3 DEF TrapKind, ServedKind
  <2>7. OwnCpu!Kill
    BY <2>2, <2>5, <2>6, Zenon DEF OwnCpu!Kill, OwnCpu!Switch
  <2>8. QED
    BY <2>7
<1>3. QED
  BY <1>1, <1>2

\* A system call returns its result to its caller, a skipped instruction
\* nothing; both resume four bytes on, and no other task notices.
LEMMA OwnCpuServe ==
  ASSUME KernelInv, HandleSyscall \/ HandleSkip
  PROVE  OwnCpu!Syscall \/ OwnCpu!Skip
<1> USE SlotFacts
<1>1. /\ at = "handler" /\ ~mcause.is_interrupt /\ at' = "return"
      /\ mepc' = mepc + 4 /\ UNCHANGED sched
  BY DEF HandleSyscall, HandleSkip, Handling, Exception
<1>2. current \in Slot
  BY <1>1, ExceptionIsUsers
<1>3. \A i \in Slot : LifeOf(i)' = LifeOf(i)
  BY <1>1 DEF LifeOf, sched
<1>4. \A i \in Slot \ {current} : CpuOf(i)' = CpuOf(i)
  BY <1>1 DEF CpuOf, sched
<1>5. /\ CpuOf(current) =
           [a0 |-> frame.a0, a7 |-> frame.a7, sp |-> frame.sp, pc |-> mepc]
      /\ \A i \in Slot : i = current => CpuOf(i)' =
           [a0 |-> frame'.a0, a7 |-> frame'.a7, sp |-> frame'.sp, pc |-> mepc + 4]
  BY <1>1 DEF CpuOf, sched
<1>6. CASE HandleSyscall
  <2>1. PICK a0 \in IF frame.a7 = SYS_GETC THEN GetcResults ELSE {frame.a0} :
          frame' = [frame EXCEPT !.a0 = a0]
    BY <1>6 DEF HandleSyscall, KernelInv, TypeOK, GprType
  <2>2. TrapKind = "syscall" /\ TrapKind' = "served"
    BY <1>1, <1>6 DEF TrapKind, ServedKind, HandleSyscall, Handling, Exception, AccessFaults
  <2>3. [i \in Slot |-> CpuOf(i)]' =
          [[i \in Slot |-> CpuOf(i)] EXCEPT ![current] =
             OwnCpu!Resumed(CpuOf(current), a0)]
    <3>1. \A i \in Slot : i = current => CpuOf(i)' = OwnCpu!Resumed(CpuOf(current), a0)
      BY <1>5, <2>1 DEF OwnCpu!Resumed, KernelInv, TypeOK, GprType
    <3>2. QED
      BY <1>2, <1>4, <3>1, Zenon
  <2>4. a0 \in IF CpuOf(current).a7 = SYS_GETC THEN GetcResults ELSE {CpuOf(current).a0}
    BY <1>5, <2>1
  <2>5. QED
    BY <1>1, <1>2, <1>3, <2>2, <2>3, <2>4, Zenon DEF OwnCpu!Syscall, sched
<1>7. CASE HandleSkip
  <2>1. frame' = frame
    BY <1>7 DEF HandleSkip
  <2>2. TrapKind = "skip" /\ TrapKind' = "served"
    BY <1>1, <1>7 DEF TrapKind, ServedKind, HandleSkip, Handling, Exception, AccessFaults
  <2>3. [i \in Slot |-> CpuOf(i)]' =
          [[i \in Slot |-> CpuOf(i)] EXCEPT ![current] =
             OwnCpu!Resumed(CpuOf(current), CpuOf(current).a0)]
    <3>1. \A i \in Slot : i = current =>
            CpuOf(i)' = OwnCpu!Resumed(CpuOf(current), CpuOf(current).a0)
      BY <1>5, <2>1 DEF OwnCpu!Resumed
    <3>2. QED
      BY <1>2, <1>4, <3>1, Zenon
  <2>4. QED
    BY <1>1, <1>2, <1>3, <2>2, <2>3 DEF OwnCpu!Skip, sched
<1>8. QED
  BY <1>6, <1>7

\* An exception the kernel does not handle ends in a panic.
LEMMA OwnCpuFatal == KernelInv /\ HandleFatal => OwnCpu!Panic
<1> SUFFICES ASSUME KernelInv, HandleFatal PROVE OwnCpu!Panic
  OBVIOUS
<1>1. /\ at = "handler" /\ ~mcause.is_interrupt /\ mcause.code \notin SurvivedCauses
      /\ at' = "panic" /\ UNCHANGED <<sched, frame, mepc>>
  BY DEF HandleFatal, Panic
<1>2. \A i \in Slot : CpuOf(i)' = CpuOf(i) /\ LifeOf(i)' = LifeOf(i)
  BY <1>1 DEF CpuOf, LifeOf, sched
<1>3. TrapKind = "fatal" /\ TrapKind' = "panic"
  BY <1>1 DEF TrapKind, ServedKind, SurvivedCauses
<1>4. QED
  BY <1>1, <1>2, <1>3 DEF OwnCpu!Panic, sched

\* The kernel implements VirtualCpus: saving to the slot, restoring through the
\* trap frame, mepc and mstatus, and killing tasks change no register of any
\* task, and a system call resumes its caller exactly once with its result.
THEOREM OwnCpus == Spec => ImplementsOwnCpu
<1>1. Init => OwnCpu!Init
  BY OwnCpuInit
<1>2. KernelInv /\ [Next]_vars => [OwnCpu!Next]_(OwnCpu!vars)
  <2> SUFFICES ASSUME KernelInv, [Next]_vars PROVE [OwnCpu!Next]_(OwnCpu!vars)
    OBVIOUS
  <2>1. CASE Spawn
    BY <2>1, OwnCpuSpawn DEF OwnCpu!Next
  <2>2. CASE KmainInit \/ SpawnPanics \/ SchedInit \/ EnableInterrupts
               \/ TimerExpires \/ Wfi \/ UNCHANGED vars
    BY <2>2, OwnCpuQuiet DEF OwnCpu!Next
  <2>3. CASE TimerTrap \/ UserTrap
    BY <2>3, OwnCpuTrap DEF OwnCpu!Next
  <2>4. CASE TrapReturn
    BY <2>4, OwnCpuReturn DEF OwnCpu!Next
  <2>5. CASE UserStep
    BY <2>5, OwnCpuStep DEF OwnCpu!Next
  <2>6. CASE Handler
    BY <2>6, OwnCpuSwitch, OwnCpuServe, OwnCpuFatal DEF Handler, OwnCpu!Next
  <2>7. QED
    BY <2>1, <2>2, <2>3, <2>4, <2>5, <2>6 DEF Next, Kmain
<1>3. QED
  BY <1>1, <1>2, KernelInvariant, PTL DEF Spec, ImplementsOwnCpu, OwnCpu!Spec

-----------------------------------------------------------------------------
(* The FIFO run queue *)

\* How far each slot is from `current`, and that no two are equally far.
LEMMA DistanceFacts ==
  ASSUME KernelInv
  PROVE  /\ \A i \in Slot : Distance(i) =
              IF i > current THEN i - current - 1 ELSE i - current - 1 + MAX_TASKS
         /\ \A i \in Slot : Distance(i) \in 0..(MAX_TASKS - 1)
         /\ \A i, j \in Slot : Distance(i) = Distance(j) => i = j
<1>1. MAX_TASKS \in Nat \ {0} /\ current \in 0..(MAX_TASKS - 1) \cup {NoSlot}
  BY KernelAssumption DEF KernelInv, TypeOK, Slot
<1>2. \A i \in Slot : Distance(i) =
        IF i > current THEN i - current - 1 ELSE i - current - 1 + MAX_TASKS
  BY <1>1, DistanceValue, Zenon DEF Distance, Slot
<1>3. QED
  BY <1>1, <1>2 DEF Slot, NoSlot

\* The tasks that are in the queue when the next one is taken from it: the
\* Ready ones, and the preempted one.
Queued(st) == {i \in NormalSlots : Yielded(st)[i] = "Ready"}

ScanOrder(st) ==
  [t \in Queued(st) |-> {u \in Queued(st) : Distance(t) < Distance(u)}]

\* After a switch to task n, the tasks scanned after n are as far from each
\* other as before.
LEMMA OrderKept ==
  ASSUME KernelInv, NEW i \in Slot, NEW j \in Slot, current' \in Slot,
         Distance(current') < Distance(i), Distance(current') < Distance(j)
  PROVE  Distance(i)' < Distance(j)' <=> Distance(i) < Distance(j)
<1> DEFINE n == current'
<1>1. /\ current \in Slot \cup {NoSlot} /\ MAX_TASKS \in Nat \ {0}
      /\ Slot = 0..(MAX_TASKS - 1)
  BY KernelAssumption DEF KernelInv, TypeOK, Slot
<1>2. /\ Distance(i) = IF i > current THEN i - current - 1
                       ELSE i - current - 1 + MAX_TASKS
      /\ Distance(j) = IF j > current THEN j - current - 1
                       ELSE j - current - 1 + MAX_TASKS
      /\ Distance(n) = IF n > current THEN n - current - 1
                       ELSE n - current - 1 + MAX_TASKS
  BY DistanceFacts
<1>3. /\ Distance(i)' = IF i > n THEN i - n - 1 ELSE i - n - 1 + MAX_TASKS
      /\ Distance(j)' = IF j > n THEN j - n - 1 ELSE j - n - 1 + MAX_TASKS
  <2>1. ASSUME NEW k \in Slot
        PROVE  Distance(k)' = IF k > n THEN k - n - 1 ELSE k - n - 1 + MAX_TASKS
    <3>1. (k - n - 1) % MAX_TASKS = IF k > n THEN k - n - 1 ELSE k - n - 1 + MAX_TASKS
      BY <1>1, DistanceValue, Zenon
    <3>2. QED
      BY <3>1 DEF Distance
  <2>2. QED
    BY <2>1
<1> HIDE DEF n
<1>4. n \in Slot /\ Distance(n) < Distance(i) /\ Distance(n) < Distance(j)
  BY DEF n
<1>5. QED
  BY <1>1, <1>2, <1>3, <1>4 DEF NoSlot

\* schedule takes the head of the queue.
LEMMA ScheduleDispatches ==
  ASSUME KernelInv, at = "handler", NEW st,
         \/ st = state
         \/ st = Killed /\ current \in Slot \ {IDLE_TASK_INDEX},
         schedule(st, mstatus), at' = "return"
  PROVE  Fifo!Dispatch(Queued(st), ScanOrder(st))
<1> USE SlotFacts
<1> DEFINE yielded == Yielded(st)
           tasks == Queued(st)
<1>1. /\ yielded \in [Slot -> TaskState] /\ current' \in Slot
      /\ yielded[current'] = "Ready"
      /\ state' = [yielded EXCEPT ![current'] = "Running"]
      /\ current' = Selected(st)
      /\ current' = IDLE_TASK_INDEX =>
           \A i \in Slot \ {IDLE_TASK_INDEX} : yielded[i] # "Ready"
  BY ScheduleEffect
<1> HIDE DEF yielded
<1>2. tasks = {i \in NormalSlots : yielded[i] = "Ready"}
  BY DEF Queued, yielded
<1>3. \A j \in tasks : Distance(current') <= Distance(j)
  <2> TAKE j \in tasks
  <2>1. ReadySet(yielded) \in SUBSET (0..(MAX_TASKS - 1))
        /\ j \in ReadySet(yielded) \ {IDLE_TASK_INDEX}
    BY <1>2 DEF ReadySet, NormalSlots, Slot
  <2>2. current \in 0..(MAX_TASKS - 1) \cup {NoSlot} /\ MAX_TASKS \in Nat \ {0}
    BY KernelAssumption DEF KernelInv, TypeOK, Slot
  <2>3. current' = select_next_ready(MAX_TASKS, current, ReadySet(yielded))
    BY <1>1 DEF Selected, yielded
  <2>4. QED
    BY <2>1, <2>2, <2>3, SelectIsNearest DEF Distance
<1>4. IF tasks = {} THEN current' = IDLE_TASK_INDEX
      ELSE current' \in tasks
  BY <1>1, <1>2, Zenon DEF NormalSlots
<1>5. \A j \in tasks \ {current'} : Distance(current') < Distance(j)
  <2> TAKE j \in tasks \ {current'}
  <2>1. j \in Slot /\ current' \in Slot /\ j # current'
    BY <1>1, <1>2 DEF NormalSlots
  <2>2. Distance(j) \in Int /\ Distance(current') \in Int
        /\ Distance(j) # Distance(current')
    BY <2>1, DistanceFacts
  <2>3. QED
    BY <1>3, <2>2
<1>6. WaitingTasks' = tasks \ {current'}
  BY <1>1, <1>2 DEF WaitingTasks, NormalSlots
<1>7. ScannedAfter' = [t \in WaitingTasks' |-> ScanOrder(st)[t] \cap WaitingTasks']
  <2>1. ASSUME NEW t \in WaitingTasks'
        PROVE  {j \in WaitingTasks' : Distance(t)' < Distance(j)'} =
                 ScanOrder(st)[t] \cap WaitingTasks'
    <3>1. t \in tasks /\ t \in Slot /\ Distance(current') < Distance(t)
      BY <1>2, <1>5, <1>6, <2>1 DEF NormalSlots
    <3>2. ScanOrder(st)[t] = {u \in tasks : Distance(t) < Distance(u)}
      BY <3>1 DEF ScanOrder
    <3>3. ASSUME NEW j \in WaitingTasks'
          PROVE  Distance(t)' < Distance(j)' <=> j \in ScanOrder(st)[t]
      <4>1. j \in tasks /\ j \in Slot /\ Distance(current') < Distance(j)
        BY <1>2, <1>5, <1>6, <3>3 DEF NormalSlots
      <4>2. Distance(t)' < Distance(j)' <=> Distance(t) < Distance(j)
        BY <1>1, <3>1, <4>1, OrderKept
      <4>3. QED
        BY <3>2, <4>1, <4>2
    <3>4. QED
      BY <3>3
  <2>2. QED
    BY <2>1 DEF ScannedAfter
<1>8. tasks # {} => tasks \ {current'} \subseteq ScanOrder(st)[current']
  BY <1>4, <1>5 DEF ScanOrder
<1>9. SchedulingEvent' = "none"
  BY DEF SchedulingEvent
<1>10. QED
  BY <1>4, <1>6, <1>7, <1>8, <1>9 DEF Fifo!Dispatch

\* The timer handler: the preempted task, the farthest from itself, goes to
\* the tail of the queue.
LEMMA FifoTick == KernelInv /\ HandleTimer => Fifo!Tick
<1> SUFFICES ASSUME KernelInv, HandleTimer PROVE Fifo!Tick
  OBVIOUS
<1> USE SlotFacts
<1>1. /\ at = "handler" /\ mcause = Interrupt(7) /\ schedule(state, mstatus)
      /\ at' = "return"
  BY DEF HandleTimer, Handling
<1>2. Fifo!Dispatch(Queued(state), ScanOrder(state))
  BY <1>1, ScheduleDispatches
<1>3. SchedulingEvent = "tick"
  BY <1>1 DEF SchedulingEvent, Interrupt
<1>4. /\ state \in [Slot -> TaskState] /\ current \in Slot \cup {NoSlot}
      /\ current # NoSlot => state[current] = "Running"
  BY DEF KernelInv, TypeOK, TableInv
<1>5. CASE current \in NormalSlots
  <2>1. Queued(state) = WaitingTasks \cup {current} /\ current \notin WaitingTasks
    BY <1>4, <1>5 DEF Queued, Yielded, WaitingTasks, NormalSlots
  <2>2. \A i \in WaitingTasks : Distance(i) < Distance(current)
    <3>1. current \in Slot /\ MAX_TASKS \in Nat \ {0} /\ Slot = 0..(MAX_TASKS - 1)
      BY <1>5, KernelAssumption DEF NormalSlots, Slot
    <3>2. \A i \in Slot : Distance(i) =
            IF i > current THEN i - current - 1 ELSE i - current - 1 + MAX_TASKS
      BY DistanceFacts
    <3>3. \A i \in Slot : i # current => Distance(i) < Distance(current)
      BY <3>1, <3>2
    <3>4. QED
      BY <2>1, <3>3 DEF WaitingTasks, NormalSlots
  <2>3. \A i \in WaitingTasks : Distance(i) \in Int /\ Distance(current) \in Int
    BY <1>5, DistanceFacts DEF WaitingTasks, NormalSlots
  <2>4. ScanOrder(state) =
          [t \in WaitingTasks \cup {current} |->
             IF t = current THEN {} ELSE ScannedAfter[t] \cup {current}]
    <3>1. ASSUME NEW t \in WaitingTasks \cup {current}
          PROVE  {u \in WaitingTasks \cup {current} : Distance(t) < Distance(u)} =
                   IF t = current THEN {} ELSE ScannedAfter[t] \cup {current}
      <4>1. CASE t = current
        <5>1. Distance(current) \in Int
          BY <1>5, DistanceFacts DEF NormalSlots
        <5>2. QED
          BY <2>2, <2>3, <4>1, <5>1
      <4>2. CASE t # current
        <5>1. t \in WaitingTasks
          BY <4>2
        <5>2. ScannedAfter[t] = {u \in WaitingTasks : Distance(t) < Distance(u)}
          BY <5>1 DEF ScannedAfter
        <5>3. QED
          BY <2>2, <4>2, <5>1, <5>2
      <4>3. QED
        BY <4>1, <4>2
    <3>2. QED
      BY <2>1, <3>1 DEF ScanOrder
  <2>5. QED
    BY <1>2, <1>3, <1>5, <2>1, <2>4 DEF Fifo!Tick
<1>6. CASE current \notin NormalSlots
  <2>1. Queued(state) = WaitingTasks
    BY <1>4, <1>6 DEF Queued, Yielded, WaitingTasks, NormalSlots
  <2>2. ScanOrder(state) = ScannedAfter
    BY <2>1 DEF ScanOrder, ScannedAfter
  <2>3. QED
    BY <1>2, <1>3, <1>6, <2>1, <2>2 DEF Fifo!Tick
<1>7. QED
  BY <1>5, <1>6

\* An access fault: the killed task is not in the queue again.
LEMMA FifoKill == KernelInv /\ HandleAccessFault => Fifo!Kill
<1> SUFFICES ASSUME KernelInv, HandleAccessFault PROVE Fifo!Kill
  OBVIOUS
<1> USE SlotFacts
<1>1. /\ at = "handler" /\ ~mcause.is_interrupt /\ mcause.code \in AccessFaults
  BY DEF HandleAccessFault, Handling, Exception
<1>2. /\ current \in Slot \ {IDLE_TASK_INDEX} /\ state[current] = "Running"
      /\ schedule(Killed, mstatus) /\ at' = "return"
  BY <1>1, FaultKills
<1>3. Fifo!Dispatch(Queued(Killed), ScanOrder(Killed))
  BY <1>1, <1>2, ScheduleDispatches
<1>4. Queued(Killed) = WaitingTasks
  <2>1. state \in [Slot -> TaskState]
    BY DEF KernelInv, TypeOK
  <2>2. Killed = [state EXCEPT ![current] = "Dead"]
    BY <1>2 DEF Killed
  <2>3. Yielded(Killed) = Killed
    BY <1>2, <2>1, <2>2 DEF Yielded
  <2>4. \A i \in NormalSlots : Killed[i] = "Ready" <=> state[i] = "Ready"
    BY <1>2, <2>1, <2>2 DEF NormalSlots
  <2>5. QED
    BY <2>3, <2>4 DEF Queued, WaitingTasks
<1>5. ScanOrder(Killed) = ScannedAfter
  BY <1>4 DEF ScanOrder, ScannedAfter
<1>6. SchedulingEvent = "fault"
  BY <1>1 DEF SchedulingEvent
<1>7. QED
  BY <1>3, <1>4, <1>5, <1>6 DEF Fifo!Kill

\* sched::init admits the tasks kmain has created, in slot order.
LEMMA FifoAdmit == KernelInv /\ SchedInit => Fifo!Admit
<1> SUFFICES ASSUME KernelInv, SchedInit PROVE Fifo!Admit
  OBVIOUS
<1>1. /\ at = "kmain" /\ UNCHANGED <<at, current, mcause>> /\ current = NoSlot
      /\ \A i \in Slot : state[i] \in {"None", "Created"}
  BY DEF SchedInit, KernelInv, BootInv
<1>2. WaitingTasks = {} /\ WaitingTasks' \in SUBSET NormalSlots
  BY <1>1 DEF WaitingTasks, NormalSlots
<1>3. \A i \in Slot : Distance(i)' = i
  <2>1. MAX_TASKS \in Nat \ {0} /\ Slot = 0..(MAX_TASKS - 1)
    BY KernelAssumption DEF Slot
  <2>2. \A i \in Slot : (i - NoSlot - 1) % MAX_TASKS = i
    BY <2>1 DEF NoSlot
  <2>3. QED
    BY <1>1, <2>2 DEF Distance
<1>4. ScannedAfter' = [t \in WaitingTasks' |-> {u \in WaitingTasks' : t < u}]
  <2>1. \A t, u \in WaitingTasks' : Distance(t)' < Distance(u)' <=> t < u
    BY <1>2, <1>3 DEF NormalSlots
  <2>2. QED
    BY <2>1 DEF ScannedAfter
<1>5. SchedulingEvent = "none" /\ SchedulingEvent' = "none"
  BY <1>1 DEF SchedulingEvent
<1>6. QED
  BY <1>1, <1>2, <1>4, <1>5 DEF Fifo!Admit

\* A step that makes no task Ready and dispatches none leaves the queue alone.
LEMMA QueueKept ==
  ASSUME UNCHANGED current,
         \A i \in NormalSlots : state'[i] = "Ready" <=> state[i] = "Ready"
  PROVE  UNCHANGED <<WaitingTasks, ScannedAfter>>
<1>1. WaitingTasks' = WaitingTasks
  BY DEF WaitingTasks, NormalSlots
<1>2. \A i \in Slot : Distance(i)' = Distance(i)
  BY DEF Distance
<1>3. ScannedAfter' = ScannedAfter
  BY <1>1, <1>2 DEF ScannedAfter, WaitingTasks, NormalSlots
<1>4. QED
  BY <1>1, <1>3

\* A trap that ends in schedule arrives; the queue waits.
LEMMA FifoTrap ==
  ASSUME KernelInv, TimerTrap \/ UserTrap
  PROVE  Fifo!Arrive \/ UNCHANGED Fifo!vars
<1>1. PICK cause \in [is_interrupt : BOOLEAN, code : Nat] :
        /\ TrapEntry(cause) /\ at \in {"task", "kmain"}
        /\ current \notin NormalSlots => cause = Interrupt(7)
  BY TrapCause DEF NormalSlots
<1>2. UNCHANGED <<current, state>> /\ mcause' = cause /\ at' = "handler"
  BY <1>1 DEF TrapEntry, sched
<1>3. UNCHANGED <<WaitingTasks, ScannedAfter>>
  BY <1>2, QueueKept
<1>4. SchedulingEvent = "none"
  BY <1>1 DEF SchedulingEvent
<1>5. \/ SchedulingEvent' \in {"tick", "none"}
      \/ SchedulingEvent' = "fault" /\ current \in NormalSlots
  BY <1>1, <1>2 DEF SchedulingEvent, Interrupt
<1>6. QED
  BY <1>2, <1>3, <1>4, <1>5 DEF Fifo!Arrive, Fifo!vars

\* Nothing else touches the queue.
LEMMA FifoQuiet ==
  ASSUME KernelInv,
         \/ KmainInit \/ Spawn \/ SpawnPanics \/ EnableInterrupts \/ TrapReturn
         \/ UserStep \/ HandleSyscall \/ HandleSkip \/ HandleFatal
         \/ TimerExpires \/ Wfi \/ UNCHANGED vars
  PROVE  UNCHANGED Fifo!vars
<1>1. CASE Spawn
  <2>1. FirstHit(FreeSlots) \in Slot /\ state[FirstHit(FreeSlots)] = "None"
    BY <1>1, SlotFacts, FirstHitIsLeast, Zenon DEF FreeSlots, Spawn
  <2>2. /\ UNCHANGED <<current, at, mcause>>
        /\ \A i \in NormalSlots : state'[i] = "Ready" <=> state[i] = "Ready"
    BY <1>1, <2>1, Zenon DEF Spawn, KernelInv, TypeOK, NormalSlots
  <2>3. UNCHANGED SchedulingEvent
    BY <2>2 DEF SchedulingEvent
  <2>4. QED
    BY <2>2, <2>3, QueueKept DEF Fifo!vars
<1>2. CASE ~Spawn
  <2>1. UNCHANGED <<current, state>>
    BY <1>2, Zenon DEF KmainInit, SpawnPanics, EnableInterrupts, TrapReturn, UserStep,
                HandleSyscall, HandleSkip, HandleFatal, TimerExpires, Wfi, vars, sched
  <2>2. \/ UNCHANGED <<at, mcause>>
        \/ at # "handler" /\ at' # "handler"
        \/ /\ at = "handler" /\ at' # "handler"
           /\ ~mcause.is_interrupt /\ mcause.code \notin AccessFaults
    <3>1. CASE KmainInit \/ SpawnPanics \/ EnableInterrupts \/ TrapReturn \/ UserStep
                 \/ TimerExpires \/ Wfi \/ UNCHANGED vars
      BY <3>1, Zenon DEF KmainInit, SpawnPanics, EnableInterrupts, TrapReturn, UserStep,
                  TimerExpires, Wfi, vars, hart, Panic
    <3>2. CASE HandleSyscall \/ HandleSkip \/ HandleFatal
      BY <3>2 DEF HandleSyscall, HandleSkip, HandleFatal, Handling, Exception, Panic,
                  SurvivedCauses, AccessFaults
    <3>3. QED
      BY <1>2, <3>1, <3>2
  <2>3. UNCHANGED SchedulingEvent
    BY <2>2 DEF SchedulingEvent
  <2>4. QED
    BY <2>1, <2>3, QueueKept DEF Fifo!vars
<1>3. QED
  BY <1>1, <1>2

\* The kernel implements RunQueue: the scan over the task table, with slots
\* that are skipped and a fallback to idle, dispatches the normal tasks in FIFO
\* order.
THEOREM FifoOrder == Spec => ImplementsFifo
<1>1. Init => Fifo!Init
  BY SlotFacts DEF Init, Fifo!Init, WaitingTasks, ScannedAfter, NormalSlots,
                   SchedulingEvent
<1>2. KernelInv /\ [Next]_vars => [Fifo!Next]_(Fifo!vars)
  <2> SUFFICES ASSUME KernelInv, [Next]_vars PROVE [Fifo!Next]_(Fifo!vars)
    OBVIOUS
  <2>1. CASE SchedInit
    BY <2>1, FifoAdmit DEF Fifo!Next
  <2>2. CASE TimerTrap \/ UserTrap
    BY <2>2, FifoTrap DEF Fifo!Next
  <2>3. CASE HandleTimer \/ HandleAccessFault
    BY <2>3, FifoTick, FifoKill DEF Fifo!Next
  <2>4. CASE \/ KmainInit \/ Spawn \/ SpawnPanics \/ EnableInterrupts \/ TrapReturn
             \/ UserStep \/ HandleSyscall \/ HandleSkip \/ HandleFatal
             \/ TimerExpires \/ Wfi \/ UNCHANGED vars
    BY <2>4, FifoQuiet
  <2>5. QED
    BY <2>1, <2>2, <2>3, <2>4 DEF Next, Kmain, Handler
<1>3. QED
  BY <1>1, <1>2, KernelInvariant, PTL DEF Spec, ImplementsFifo, Fifo!Spec
=============================================================================

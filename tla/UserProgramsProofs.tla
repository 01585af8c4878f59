------------------------- MODULE UserProgramsProofs -------------------------
(***************************************************************************)
(* The real programs under the real PMP entries do only what the user code *)
(* of Kernel may do, each task executes its program in order, and kmain has*)
(* room for each task of a list that fits.                                 *)
(***************************************************************************)
EXTENDS UserPrograms, KernelProofs

UserSlot == Slot \ {IDLE_TASK_INDEX}

ValuesOK(g) == g.a0 \in UserValues /\ g.a7 \in SyscallNumbers

\* The instruction at a is the one whose trap, with cause `code`, is served.
Served(code, a) ==
  (code = 8 /\ Program[a].op = "ecall") \/ (code = 3 /\ Program[a].op = "ebreak")

\* Wherever the registers of a user task are, they hold values its programs
\* compute, and it continues at one of their instructions; a system call is
\* served at an ecall, a breakpoint at an ebreak.
CodeInv ==
  /\ \A i \in UserSlot : state[i] # "None" =>
       ValuesOK(context[i].gpr) /\ context[i].mepc \in Code
  /\ UserRuns => ValuesOK(gpr) /\ pc \in Code
  /\ at \in {"handler", "return"} /\ current \in UserSlot =>
       ValuesOK(frame) /\ mepc \in Code
  /\ at = "handler" /\ ~mcause.is_interrupt =>
       mcause.code \in {1, 5} \/ Served(mcause.code, mepc)

\* What kmain has still to spawn has slots, heap and PMP entries left, and the
\* echo task gets slot 1.
BootFits ==
  stage \in {"init", "spawn"} =>
    /\ \E n \in 0..MAX_TASKS : /\ \A i \in Slot : state[i] = "None" <=> n <= i
                               /\ n + Len(boot) <= MAX_TASKS
    /\ state[IDLE_TASK_INDEX] = "None" => Len(boot) >= 2 /\ boot[2].entry = EchoEntry
    /\ state[IDLE_TASK_INDEX] # "None" /\ state[EchoSlot] = "None" /\ boot # <<>> =>
         Head(boot).entry = EchoEntry
    /\ \A k \in 1..Len(boot) :
         boot[k].mode = "U" => BuilderAccepts(SpecRegions(boot[k], 0))
    /\ (IF stage = "init" THEN HEAP_START + 3 ELSE heap_next)
         + 2 * TASK_STACK_SIZE * Len(boot) <= HEAP_END

-----------------------------------------------------------------------------
(* The composition implements Kernel *)

\* A new task has zeros in its registers, and the results of SYS_GETC are
\* among the values of the programs.
LEMMA ValueFacts ==
  /\ \A top : ValuesOK(Gpr(0, 0, top))
  /\ GetcResults \subseteq UserValues
  BY ProgramAssumption DEF ValuesOK, Gpr, GetcResults

\* What handle_exception steps over is the instruction it serves, but for a
\* compressed ebreak, and there is an instruction behind it.
LEMMA ServedInstruction ==
  ASSUME NEW a \in Code, NEW code, Served(code, a)
  PROVE  /\ code \in {3, 8} /\ a + 4 \in Code
         /\ a + 4 \in Successors(a) \/ CompressedEbreak(a)
<1>1. CASE Program[a].op = "ecall"
  BY <1>1, ProgramAssumption DEF Served, Successors
<1>2. CASE Program[a].op = "ebreak"
  BY <1>2, ProgramAssumption DEF Served, Successors, CompressedEbreak
<1>3. QED
  BY <1>1, <1>2 DEF Served

\* One instruction is a step that Kernel allows user code: at an instruction of
\* a program there is no illegal one, and control stays in the programs.
LEMMA ExecuteIsUserCode ==
  ASSUME KernelInv, CodeInv, Execute
  PROVE  \/ UserStep /\ pc' \in Successors(pc)
         \/ \E code \in {1, 3, 5, 8} :
              /\ code \in {3, 8} => Served(code, pc)
              /\ TrapEntry(Exception(code))
<1> USE ProgramAssumption
<1>1. UserRuns /\ ValuesOK(gpr) /\ pc \in Code /\ pc \in DOMAIN Program
  BY DEF Execute, CodeInv
<1>2. CASE ~May("X", pc)
  BY <1>2 DEF Execute
<1>3. CASE May("X", pc) /\ (Ecall \/ Ebreak)
  BY <1>1, <1>3 DEF Ecall, Ebreak, Ins, Served
<1>4. CASE \E a0 \in UserValues, a7 \in SyscallNumbers,
               target \in Code \cap Successors(pc) : Retire(a0, a7, target)
  BY <1>1, <1>4, Zenon DEF Retire, UserStep
<1>5. CASE Compute
  <2>1. Ins.op # "jump" => Following \in Code \cap Successors(pc)
    BY <1>1 DEF Ins, Following, Successors
  <2>2. Ins.op \in {"jump", "bne"} => Ins.target \in Code \cap Successors(pc)
    BY <1>1 DEF Ins, Successors
  <2>3. /\ Ins.op = "li_a0" => Ins.arg \in UserValues
        /\ Ins.op = "li_a7" => Ins.arg \in SyscallNumbers
    BY <1>1 DEF Ins
  <2>4. gpr.a0 \in UserValues /\ gpr.a7 \in SyscallNumbers
    BY <1>1 DEF ValuesOK
  <2>5. \E a0 \in UserValues, a7 \in SyscallNumbers,
           target \in Code \cap Successors(pc) : Retire(a0, a7, target)
    BY <1>5, <2>1, <2>2, <2>3, <2>4 DEF Compute
  <2>6. QED
    BY <1>4, <2>5
<1>6. CASE Load
  <2>1. CASE May("R", Ins.arg)
    <3>1. /\ Following \in Code \cap Successors(pc)
          /\ gpr.a0 \in UserValues /\ gpr.a7 \in SyscallNumbers
      BY <1>1, <1>6 DEF Load, Ins, Following, Successors, ValuesOK
    <3>2. QED
      BY <1>4, <1>6, <2>1, <3>1 DEF Load
  <2>2. CASE ~May("R", Ins.arg)
    BY <1>6, <2>2 DEF Load
  <2>3. QED
    BY <2>1, <2>2
<1>7. QED
  BY <1>1, <1>2, <1>3, <1>5, <1>6 DEF Execute

\* So every step of the composition is one of Kernel.
LEMMA ProgramStep ==
  KernelInv /\ CodeInv /\ [ProgramNext]_vars => [Next]_vars
<1> SUFFICES ASSUME KernelInv, CodeInv, Execute PROVE UserStep \/ UserTrap
  BY DEF ProgramNext, Next
<1>1. UserRuns /\ pc \in Code
  BY DEF Execute, CodeInv
<1>2. QED
  BY <1>1, ExecuteIsUserCode, ServedInstruction DEF UserTrap, UserExceptions

\* Boot: a spawned task starts at its entry, with zeros in its registers.
LEMMA KmainCode == KernelInv /\ CodeInv /\ Kmain => CodeInv'
<1> SUFFICES ASSUME KernelInv, CodeInv, Kmain PROVE CodeInv'
  OBVIOUS
<1> USE SlotFacts
<1>1. at = "kmain" /\ at' \in {"kmain", "panic"} /\ current' = NoSlot
  BY DEF Kmain, KmainInit, Spawn, SpawnPanics, SchedInit, EnableInterrupts, Panic,
         KernelInv, HartInv, sched
<1>2. CASE Spawn
  <2>1. /\ context' = [context EXCEPT ![NewSlot] = NewContext]
        /\ state' = [state EXCEPT ![NewSlot] = "Created"] /\ NewSlot \in Slot
        /\ NewSlot # IDLE_TASK_INDEX => Head(boot) \in UserSpec
    BY <1>2, SpawnEffect
  <2>2. NewSlot # IDLE_TASK_INDEX =>
          ValuesOK(NewContext.gpr) /\ NewContext.mepc \in Code
    BY <2>1, ValueFacts DEF NewContext, new_umode, UserSpec
  <2>3. context \in [Slot -> ContextType] /\ state \in [Slot -> TaskState]
    BY DEF KernelInv, TypeOK
  <2>4. \A i \in UserSlot : state'[i] # "None" =>
          ValuesOK(context'[i].gpr) /\ context'[i].mepc \in Code
    BY <2>1, <2>2, <2>3 DEF CodeInv, UserSlot
  <2>5. QED
    BY <1>1, <2>4 DEF CodeInv, UserRuns
<1>3. CASE ~Spawn
  <2>1. /\ UNCHANGED context
        /\ \A i \in Slot : state'[i] # "None" => state[i] # "None"
    BY <1>3 DEF Kmain, KmainInit, SpawnPanics, SchedInit, EnableInterrupts, sched
  <2>2. QED
    BY <1>1, <2>1 DEF CodeInv, UserRuns, UserSlot
<1>4. QED
  BY <1>2, <1>3

\* Trap entry moves the registers to the trap frame.
LEMMA TrapCode ==
  ASSUME KernelInv, CodeInv, at \in {"task", "kmain"}, NEW cause, TrapEntry(cause),
         current \in UserSlot => at = "task",
         \/ cause = Interrupt(7)
         \/ \E code \in {1, 3, 5, 8} :
              cause = Exception(code) /\ (code \in {3, 8} => Served(code, pc))
  PROVE  CodeInv'
<1>1. /\ at' = "handler" /\ mepc' = pc /\ frame' = gpr /\ mcause' = cause
      /\ UNCHANGED <<current, state, context>>
  BY DEF TrapEntry, sched
<1>2. current \in UserSlot => ValuesOK(gpr) /\ pc \in Code
  BY DEF CodeInv, UserRuns, UserSlot
<1>3. ~mcause'.is_interrupt => mcause'.code \in {1, 5} \/ Served(mcause'.code, mepc')
  BY <1>1 DEF Interrupt, Exception
<1>4. QED
  BY <1>1, <1>2, <1>3 DEF CodeInv, UserRuns, ValuesOK, Served

\* An instruction.
LEMMA ExecuteCode == KernelInv /\ CodeInv /\ Execute => CodeInv'
<1> SUFFICES ASSUME KernelInv, CodeInv, Execute PROVE CodeInv'
  OBVIOUS
<1>1. at = "task" /\ UserRuns
  BY DEF Execute, UserRuns
<1>2. CASE UserStep
  <2>1. /\ ValuesOK(gpr') /\ pc' \in Code
        /\ UNCHANGED <<at, current, state, context>>
    BY <1>2 DEF UserStep, ValuesOK, KernelInv, TypeOK, GprType, sched
  <2>2. QED
    BY <1>1, <2>1 DEF CodeInv, UserRuns, ValuesOK
<1>3. CASE ~UserStep
  BY <1>1, <1>3, ExecuteIsUserCode, TrapCode
<1>4. QED
  BY <1>2, <1>3

\* The timer interrupt and the return from a trap.
LEMMA InterruptCode == KernelInv /\ CodeInv /\ (TimerTrap \/ TrapReturn) => CodeInv'
<1> SUFFICES ASSUME KernelInv, CodeInv, TimerTrap \/ TrapReturn PROVE CodeInv'
  OBVIOUS
<1>1. CASE TimerTrap
  <2>1. at = "task" \/ (at = "kmain" /\ current = NoSlot)
    BY <1>1, TrapCause
  <2>2. TrapEntry(Interrupt(7))
    BY <1>1 DEF TimerTrap
  <2>3. QED
    BY <2>1, <2>2, TrapCode, SlotFacts DEF UserSlot
<1>2. CASE TrapReturn
  <2>1. /\ at = "return" /\ at' = "task" /\ pc' = mepc /\ gpr' = frame
        /\ UNCHANGED <<current, state, context>>
    BY <1>2 DEF TrapReturn, KernelInv, HartInv, sched
  <2>2. current # IDLE_TASK_INDEX => current \in UserSlot
    BY <2>1 DEF KernelInv, HartInv, TypeOK, UserSlot
  <2>3. QED
    BY <2>1, <2>2 DEF CodeInv, UserRuns, ValuesOK
<1>3. QED
  BY <1>1, <1>2

\* schedule saves the registers of the interrupted task in its slot and takes
\* the next ones from another.
LEMMA SwitchCode ==
  ASSUME KernelInv, CodeInv, at = "handler", NEW st,
         \/ st = state
         \/ st = Killed /\ current \in Slot \ {IDLE_TASK_INDEX},
         schedule(st, mstatus), at' = "return"
  PROVE  CodeInv'
<1> USE SlotFacts
<1> DEFINE saved == Saved(st, mstatus)
<1> HIDE DEF saved
<1>1. /\ \A i \in Slot : i # current => saved[i] = context[i]
      /\ current # NoSlot => saved[current].gpr = frame /\ saved[current].mepc = mepc
  BY ScheduleEffect DEF saved, Interrupted
<1>2. /\ current' \in Slot /\ context' = saved /\ frame' = saved[current'].gpr
      /\ mepc' = saved[current'].mepc
      /\ state' = [Yielded(st) EXCEPT ![current'] = "Running"]
      /\ Yielded(st)[current'] = "Ready" /\ Yielded(st) \in [Slot -> TaskState]
      /\ \A i \in Slot : Yielded(st)[i] = "None" <=> state[i] = "None"
  BY ScheduleEffect DEF saved
<1>3. /\ \A i \in Slot : state'[i] # "None" => state[i] # "None"
      /\ state[current'] # "None"
  BY <1>2
<1>4. \A i \in UserSlot : state[i] # "None" =>
        ValuesOK(saved[i].gpr) /\ saved[i].mepc \in Code
  BY <1>1 DEF CodeInv, UserSlot
<1>5. QED
  BY <1>2, <1>3, <1>4 DEF CodeInv, UserSlot, UserRuns, ValuesOK

\* The handlers.
LEMMA HandlerCode == KernelInv /\ CodeInv /\ Handler => CodeInv'
<1> SUFFICES ASSUME KernelInv, CodeInv, Handler PROVE CodeInv'
  OBVIOUS
<1>1. CASE HandleTimer
  BY <1>1, SwitchCode DEF HandleTimer, Handling
<1>2. CASE HandleAccessFault
  <2>1. at = "handler"
    BY <1>2 DEF HandleAccessFault, Handling
  <2>2. QED
    BY <1>2, <2>1, FaultKills, SwitchCode
<1>3. CASE HandleSyscall \/ HandleSkip
  <2>1. /\ at = "handler" /\ ~mcause.is_interrupt /\ mcause.code \in {3, 8, 9, 11}
        /\ at' = "return" /\ mepc' = mepc + 4
        /\ UNCHANGED <<current, state, context>>
    BY <1>3 DEF HandleSyscall, HandleSkip, Handling, Exception, sched
  <2>2. current \in UserSlot
    BY <2>1, ExceptionIsUsers DEF UserSlot
  <2>3. mepc' \in Code /\ ValuesOK(frame)
    <3>1. mepc \in Code /\ Served(mcause.code, mepc) /\ ValuesOK(frame)
      BY <2>1, <2>2 DEF CodeInv
    <3>2. QED
      BY <2>1, <3>1, ServedInstruction
  <2>4. ValuesOK(frame')
    <3>1. CASE UNCHANGED frame
      BY <2>3, <3>1 DEF ValuesOK
    <3>2. CASE \E byte \in GetcResults : frame' = [frame EXCEPT !.a0 = byte]
      BY <2>3, <3>2, ValueFacts DEF ValuesOK, KernelInv, TypeOK, GprType
    <3>3. QED
      BY <1>3, <3>1, <3>2 DEF HandleSyscall, HandleSkip
  <2>5. QED
    BY <2>1, <2>2, <2>3, <2>4 DEF CodeInv, UserRuns, ValuesOK
<1>4. CASE HandleFatal
  BY <1>4 DEF HandleFatal, SurvivedCauses, AccessFaults, CodeInv, Served
<1>5. QED
  BY <1>1, <1>2, <1>3, <1>4 DEF Handler

\* Every step of the composition keeps the tasks in their programs.
LEMMA CodeNext == KernelInv /\ CodeInv /\ [ProgramNext]_vars => CodeInv'
<1>1. KernelInv /\ CodeInv /\ (TimerExpires \/ Wfi \/ UNCHANGED vars) => CodeInv'
  <2> SUFFICES ASSUME CodeInv, TimerExpires \/ Wfi \/ UNCHANGED vars PROVE CodeInv'
    OBVIOUS
  <2>1. UNCHANGED <<sched, hart>>
    BY DEF TimerExpires, Wfi, vars
  <2>2. QED
    BY <2>1 DEF CodeInv, UserRuns, ValuesOK, Served, sched, hart
<1>2. QED
  BY <1>1, KmainCode, HandlerCode, InterruptCode, ExecuteCode DEF ProgramNext

\* Before boot there is no task.
LEMMA CodeInit == Init => CodeInv
  BY DEF Init, CodeInv, UserRuns, UserSlot

\* The inductive invariant of the composition.
THEOREM ProgramInvariant == ProgramSpec => [](KernelInv /\ CodeInv)
<1>1. Init => KernelInv /\ CodeInv
  BY InitInv, CodeInit
<1>2. KernelInv /\ CodeInv /\ [ProgramNext]_vars => (KernelInv /\ CodeInv)'
  BY ProgramStep, NextInv, CodeNext
<1>3. QED
  BY <1>1, <1>2, PTL DEF ProgramSpec

\* The composition implements Kernel: what is proved of the kernel under user
\* code that does anything holds of the programs of user_task.rs.
THEOREM ProgramsImplementKernel == ProgramSpec => ImplementsKernel
  BY ProgramInvariant, ProgramStep, PTL DEF ProgramSpec, ImplementsKernel, Spec

\* The body of InstructionsInOrder for one task.
InOrder(i) ==
  \/ Position(i)' = Position(i) /\ (Serves(i) => at' = at)
  \/ /\ current = i /\ (at = "task" \/ Serves(i))
     /\ Position(i)' \in Successors(Position(i))
  \/ /\ Serves(i) /\ CompressedEbreak(Position(i))
     /\ Position(i)' = Position(i) + 4

\* A trap and the return from it move a position between pc and mepc.
LEMMA TrapKeepsPosition ==
  ASSUME KernelInv, NEW i \in UserSlot,
         \/ at = "return" /\ at' = "task" /\ pc' = mepc
         \/ at' = "handler" /\ mepc' = pc /\ (current = i => at = "task"),
         UNCHANGED <<current, context>>
  PROVE  Position(i)' = Position(i) /\ (Serves(i) => at' = at)
<1>1. CASE current = i
  BY <1>1 DEF Position, Serves
<1>2. CASE current # i
  BY <1>2 DEF Position, Serves
<1>3. QED
  BY <1>1, <1>2

\* schedule moves it between mepc and the slot of the task.
LEMMA SwitchKeepsPosition ==
  ASSUME KernelInv, at = "handler", NEW st,
         \/ st = state
         \/ st = Killed /\ current \in Slot \ {IDLE_TASK_INDEX},
         schedule(st, mstatus), at' = "return", NEW i \in UserSlot
  PROVE  Position(i)' = Position(i)
<1> USE SlotFacts
<1> DEFINE saved == Saved(st, mstatus)
<1>1. /\ \A j \in Slot : j # current => saved[j] = context[j]
      /\ current # NoSlot => saved[current].mepc = mepc
      /\ current' \in Slot /\ context' = saved /\ mepc' = saved[current'].mepc
  BY ScheduleEffect DEF Interrupted
<1> HIDE DEF saved
<1>2. i \in Slot /\ i # NoSlot
  BY DEF UserSlot
<1>3. saved[i].mepc = Position(i)
  BY <1>1, <1>2, Zenon DEF Position
<1>4. QED
  BY <1>1, <1>3 DEF Position

\* Handlers: the timer and a kill move nobody on, and a served system call or
\* breakpoint moves on the task that made it.
LEMMA HandlerInOrder ==
  ASSUME KernelInv, CodeInv, Handler, NEW i \in UserSlot
  PROVE  InOrder(i)
<1>1. CASE HandleTimer
  <2>1. Position(i)' = Position(i) /\ mcause = Interrupt(7)
    BY <1>1, SwitchKeepsPosition DEF HandleTimer, Handling
  <2>2. QED
    BY <2>1 DEF InOrder, Serves, Interrupt, Exception
<1>2. CASE HandleAccessFault
  <2>1. at = "handler" /\ ~mcause.is_interrupt /\ mcause.code \in {1, 5, 7}
    BY <1>2 DEF HandleAccessFault, Handling, Exception, AccessFaults
  <2>2. Position(i)' = Position(i)
    BY <1>2, <2>1, FaultKills, SwitchKeepsPosition
  <2>3. ~Serves(i)
    BY <2>1 DEF Serves, Exception
  <2>4. QED
    BY <2>2, <2>3 DEF InOrder
<1>3. CASE HandleSyscall \/ HandleSkip
  <2>1. /\ at = "handler" /\ ~mcause.is_interrupt /\ mcause.code \in {3, 8, 9, 11}
        /\ mcause = Exception(mcause.code)
        /\ at' = "return" /\ mepc' = mepc + 4 /\ UNCHANGED <<current, context>>
    BY <1>3 DEF HandleSyscall, HandleSkip, Handling, Exception, sched
  <2>2. CASE current = i
    <3>1. mepc \in Code /\ Served(mcause.code, mepc)
      BY <2>1, <2>2 DEF CodeInv
    <3>2. Serves(i) /\ Position(i) = mepc /\ Position(i)' = mepc + 4
      BY <2>1, <2>2, <3>1, ServedInstruction DEF Serves, Position
    <3>3. QED
      BY <2>2, <3>1, <3>2, ServedInstruction DEF InOrder
  <2>3. CASE current # i
    BY <2>1, <2>3 DEF InOrder, Serves, Position
  <2>4. QED
    BY <2>2, <2>3
<1>4. CASE HandleFatal
  BY <1>4 DEF HandleFatal, SurvivedCauses, AccessFaults, CodeInv, Served
<1>5. QED
  BY <1>1, <1>2, <1>3, <1>4 DEF Handler

\* Every step of the composition keeps every user task in order.
LEMMA StepInOrder ==
  ASSUME KernelInv, CodeInv, [ProgramNext]_vars, NEW i \in UserSlot, state[i] # "None"
  PROVE  InOrder(i)
<1> USE SlotFacts
<1>1. i \in Slot /\ i # NoSlot /\ i # IDLE_TASK_INDEX
  BY DEF UserSlot
<1>2. CASE Kmain
  <2>1. current = NoSlot /\ current' = NoSlot /\ at = "kmain"
    BY <1>2 DEF Kmain, KmainInit, Spawn, SpawnPanics, SchedInit, EnableInterrupts,
                KernelInv, HartInv, sched
  <2>2. context'[i] = context[i]
    <3>1. CASE Spawn
      BY <1>1, <3>1, SpawnEffect DEF KernelInv, TypeOK
    <3>2. CASE ~Spawn
      BY <1>2, <3>2 DEF Kmain, KmainInit, SpawnPanics, SchedInit, EnableInterrupts, sched
    <3>3. QED
      BY <3>1, <3>2
  <2>3. QED
    BY <1>1, <2>1, <2>2, SMTT(20) DEF InOrder, Position, Serves
<1>3. CASE TimerTrap
  <2>1. at = "task" \/ (at = "kmain" /\ current = NoSlot)
    BY <1>3, TrapCause
  <2>2. at' = "handler" /\ mepc' = pc /\ UNCHANGED <<current, context>>
    BY <1>3 DEF TimerTrap, TrapEntry, sched
  <2>3. QED
    BY <1>1, <2>1, <2>2, TrapKeepsPosition DEF InOrder
<1>4. CASE TrapReturn
  <2>1. at = "return" /\ at' = "task" /\ pc' = mepc /\ UNCHANGED <<current, context>>
    BY <1>4, Zenon DEF TrapReturn, KernelInv, HartInv, sched
  <2>2. QED
    BY <2>1, TrapKeepsPosition DEF InOrder
<1>5. CASE Execute
  <2>1. at = "task"
    BY <1>5 DEF Execute, UserRuns
  <2>2. CASE UserStep /\ pc' \in Successors(pc)
    <3>1. UNCHANGED <<at, current, context>>
      BY <2>2 DEF UserStep, sched
    <3>2. CASE current = i
      BY <2>1, <2>2, <3>1, <3>2 DEF InOrder, Position
    <3>3. CASE current # i
      BY <2>1, <3>1, <3>3 DEF InOrder, Position, Serves
    <3>4. QED
      BY <3>2, <3>3
  <2>3. CASE \E code \in {1, 3, 5, 8} : TrapEntry(Exception(code))
    <3>1. at' = "handler" /\ mepc' = pc /\ UNCHANGED <<current, context>>
      BY <2>3 DEF TrapEntry, sched
    <3>2. QED
      BY <2>1, <3>1, TrapKeepsPosition DEF InOrder
  <2>4. QED
    BY <1>5, <2>2, <2>3, ExecuteIsUserCode
<1>6. CASE TimerExpires \/ Wfi \/ UNCHANGED vars
  <2>1. UNCHANGED <<sched, hart>>
    BY <1>6 DEF TimerExpires, Wfi, vars
  <2>2. QED
    BY <2>1 DEF InOrder, Position, sched, hart
<1>7. QED
  BY <1>2, <1>3, <1>4, <1>5, <1>6, HandlerInOrder DEF ProgramNext

\* Every user task executes its program in order, whatever preempts it and
\* whoever is killed; the step behind a compressed ebreak is the only one lost
\* (trap_handler, schedule, handle_exception).
THEOREM ProgramOrder == ProgramSpec => InstructionsInOrder
<1>1. KernelInv /\ CodeInv /\ [ProgramNext]_vars =>
        [\A i \in Slot \ {IDLE_TASK_INDEX} : state[i] # "None" =>
           \/ Position(i)' = Position(i) /\ (Serves(i) => at' = at)
           \/ /\ current = i /\ (at = "task" \/ Serves(i))
              /\ Position(i)' \in Successors(Position(i))
           \/ /\ Serves(i) /\ CompressedEbreak(Position(i))
              /\ Position(i)' = Position(i) + 4]_vars
  BY StepInOrder DEF InOrder, UserSlot
<1>2. QED
  BY <1>1, ProgramInvariant, PTL DEF ProgramSpec, InstructionsInOrder
-----------------------------------------------------------------------------
(* kmain spawns every task of a list that fits, the echo task in slot 1 *)

\* The assertions of the PMP builder do not depend on where the stack is, as
\* long as it is aligned to its size.
LEMMA BuilderAcceptsAligned ==
  ASSUME NEW spec \in UserSpec, NEW bottom \in Nat, bottom % TASK_STACK_SIZE = 0,
         BuilderAccepts(SpecRegions(spec, 0))
  PROVE  BuilderAccepts(SpecRegions(spec, bottom))
<1> DEFINE windows == [k \in 1..Len(spec.mmio) |->
                         Region(spec.mmio[k].base, spec.mmio[k].size, "RW")]
           two(b) == <<Region(spec.code_base, spec.code_size, "RX"),
                       Region(b, TASK_STACK_SIZE, "RW")>>
<1>1. spec.mmio \in Seq([base : Nat, size : Nat])
  BY DEF UserSpec
<1>2. Len(spec.mmio) \in Nat
  BY <1>1
<1>3. windows \in Seq({windows[k] : k \in 1..Len(spec.mmio)})
  <2>1. windows \in [1..Len(spec.mmio) -> {windows[k] : k \in 1..Len(spec.mmio)}]
    OBVIOUS
  <2>2. QED
    BY <1>2, <2>1
<1> HIDE DEF windows
<1>4. ASSUME NEW b \in Nat
      PROVE  /\ Len(SpecRegions(spec, b)) = 2 + Len(windows) /\ Len(windows) \in Nat
             /\ \A k \in 1..(2 + Len(windows)) :
                  SpecRegions(spec, b)[k] =
                    IF k = 1 THEN Region(spec.code_base, spec.code_size, "RX")
                    ELSE IF k = 2 THEN Region(b, TASK_STACK_SIZE, "RW")
                    ELSE windows[k - 2]
  <2> DEFINE all == {windows[k] : k \in 1..Len(spec.mmio)}
                      \cup {two(b)[1], two(b)[2]}
  <2>1. two(b) \in Seq(all) /\ windows \in Seq(all)
    BY <1>3
  <2>2. Len(two(b)) = 2
    OBVIOUS
  <2>3. SpecRegions(spec, b) = two(b) \o windows
    BY DEF SpecRegions, windows
  <2>4. Len(windows) \in Nat
    BY <1>3
  <2>5. /\ Len(two(b) \o windows) = Len(two(b)) + Len(windows)
        /\ \A k \in 1..Len(two(b)) + Len(windows) :
             (two(b) \o windows)[k] = IF k <= Len(two(b)) THEN two(b)[k]
                                      ELSE windows[k - Len(two(b))]
    <3> HIDE DEF two, all
    <3>1. QED
      BY <2>1
  <2>6. two(b)[1] = Region(spec.code_base, spec.code_size, "RX")
        /\ two(b)[2] = Region(b, TASK_STACK_SIZE, "RW")
    OBVIOUS
  <2> HIDE DEF two
  <2>7. QED
    BY <2>2, <2>3, <2>4, <2>5, <2>6
<1>5. 2 \in 1..(2 + Len(windows)) /\ Len(windows) \in Nat
  BY <1>4
<1>6. \A k \in 1..(2 + Len(windows)) :
        k # 2 => SpecRegions(spec, bottom)[k] = SpecRegions(spec, 0)[k]
  BY <1>4
<1>7. /\ SpecRegions(spec, bottom)[2] = Region(bottom, TASK_STACK_SIZE, "RW")
      /\ SpecRegions(spec, 0)[2] = Region(0, TASK_STACK_SIZE, "RW")
  BY <1>4, <1>5
<1>8. /\ Len(SpecRegions(spec, bottom)) = 2 + Len(windows)
      /\ Len(SpecRegions(spec, 0)) = 2 + Len(windows)
  BY <1>4
<1>9. TASK_STACK_SIZE >= 8 /\ IsPowerOfTwo(TASK_STACK_SIZE)
  BY <1>5, <1>7, <1>8 DEF BuilderAccepts, Region
<1>10. QED
  BY <1>5, <1>6, <1>7, <1>8, <1>9 DEF BuilderAccepts, Region

\* The test allocation of init_heap takes three bytes.
LEMMA HeapAfterTestValue == HeapAfterTest = HEAP_START + 3
<1> USE KernelAssumption, TaskAssumption, UsizeAssumption
<1>1. align_up(HEAP_START, 1) = HEAP_START
  BY AlignUpBounds
<1>2. (HEAP_START + 3) % USIZE = HEAP_START + 3
  BY NoWrap
<1>3. QED
  BY <1>1, <1>2 DEF HeapAfterTest, new_next

\* kmain starts with an empty table and a list that fits.
LEMMA BootFitsInit == Init => BootFits
<1> SUFFICES ASSUME Init PROVE BootFits
  OBVIOUS
<1>1. PICK users \in UserSpecLists : boot = <<IdleSpec>> \o users
  BY DEF Init, SpawnOrder
<1>2. /\ users \in Seq(UserSpec) /\ users # <<>> /\ users[1].entry = EchoEntry
      /\ Len(users) < MAX_TASKS
      /\ HEAP_START + 3 + 2 * TASK_STACK_SIZE * (Len(users) + 1) <= HEAP_END
      /\ \A k \in 1..Len(users) : BuilderAccepts(SpecRegions(users[k], 0))
  BY KernelAssumption, EchoAssumption, LayoutAssumption
<1>3. /\ Len(users) \in Nat \ {0} /\ Len(boot) = Len(users) + 1
      /\ boot[1] = IdleSpec /\ \A k \in 2..Len(boot) : boot[k] = users[k - 1]
  BY <1>1, <1>2
<1>4. MAX_TASKS \in Nat /\ EchoSlot \in UserSlot
  BY <1>2, <1>3, KernelAssumption DEF EchoSlot, UserSlot, Slot, IDLE_TASK_INDEX
<1>5. stage = "init" /\ at = "kmain" /\ current = NoSlot /\ \A i \in Slot : state[i] = "None"
  BY DEF Init
<1>6. \E n \in 0..MAX_TASKS : /\ \A i \in Slot : state[i] = "None" <=> n <= i
                              /\ n + Len(boot) <= MAX_TASKS
  <2>1. 0 \in 0..MAX_TASKS /\ 0 + Len(boot) <= MAX_TASKS
    BY <1>2, <1>3, <1>4
  <2>2. \A i \in Slot : state[i] = "None" <=> 0 <= i
    BY <1>5 DEF Slot
  <2>3. QED
    BY <2>1, <2>2
<1>7. \A k \in 1..Len(boot) :
        boot[k].mode = "U" => BuilderAccepts(SpecRegions(boot[k], 0))
  <2> SUFFICES ASSUME NEW k \in 1..Len(boot), boot[k].mode = "U"
               PROVE  BuilderAccepts(SpecRegions(boot[k], 0))
    OBVIOUS
  <2>1. k # 1
    BY <1>3 DEF IdleSpec
  <2>2. k - 1 \in 1..Len(users) /\ boot[k] = users[k - 1]
    BY <1>3, <2>1
  <2>3. QED
    BY <1>2, <2>2
<1>8. Len(boot) >= 2 /\ boot[2].entry = EchoEntry
  BY <1>2, <1>3
<1>9. HEAP_START + 3 + 2 * TASK_STACK_SIZE * Len(boot) <= HEAP_END
  BY <1>2, <1>3
<1>10. QED
  BY <1>5, <1>6, <1>7, <1>8, <1>9, SlotFacts DEF BootFits

\* While tasks are left to spawn there is room for the next one: a slot, a
\* stack with its alignment gap, and PMP entries.
LEMMA NextTaskFits ==
  ASSUME KernelInv, BootFits, stage = "spawn", boot # <<>>
  PROVE  /\ StackFits /\ PmpFits(Head(boot)) /\ FreeSlots # {}
         /\ StackBottom + TASK_STACK_SIZE <= heap_next + 2 * TASK_STACK_SIZE
<1> USE KernelAssumption, TaskAssumption, UsizeAssumption
<1>1. /\ heap_next \in Nat /\ heap_next <= HEAP_END /\ boot \in Seq(SpecType)
  BY DEF KernelInv, TypeOK, StackInv
<1>2. Len(boot) \in Nat /\ Len(boot) >= 1 /\ Head(boot) = boot[1]
  BY <1>1
<1>3. heap_next + 2 * TASK_STACK_SIZE <= HEAP_END
  <2>1. heap_next + 2 * TASK_STACK_SIZE * Len(boot) <= HEAP_END
    BY DEF BootFits
  <2>2. 2 * TASK_STACK_SIZE * Len(boot) >= 2 * TASK_STACK_SIZE
    BY <1>2
  <2>3. 2 * TASK_STACK_SIZE * Len(boot) \in Nat
    BY <1>2
  <2>4. QED
    BY <1>1, <2>1, <2>2, <2>3
<1>4. heap_next + TASK_STACK_SIZE - 1 < USIZE
  BY <1>1
<1>5. /\ StackBottom \in Nat /\ StackBottom <= heap_next + TASK_STACK_SIZE - 1
      /\ StackBottom % TASK_STACK_SIZE = 0
  BY <1>1, <1>4, AlignUpBounds, AlignUpAligned DEF StackBottom
<1>6. HeapAfterStack = StackBottom + TASK_STACK_SIZE
  BY <1>1, StackPlacement DEF KernelInv
<1>7. StackFits /\ StackBottom + TASK_STACK_SIZE <= heap_next + 2 * TASK_STACK_SIZE
  BY <1>1, <1>3, <1>5, <1>6 DEF StackFits
<1>8. PmpFits(Head(boot))
  <2> SUFFICES ASSUME Head(boot).mode = "U"
               PROVE  BuilderAccepts(SpecRegions(Head(boot), StackBottom))
    BY DEF PmpFits
  <2>1. Head(boot) \in UserSpec
    BY <1>1, <1>2 DEF SpecType, IdleSpec
  <2>2. BuilderAccepts(SpecRegions(Head(boot), 0))
    BY <1>2 DEF BootFits
  <2>3. QED
    BY <1>5, <2>1, <2>2, BuilderAcceptsAligned
<1>9. FreeSlots # {}
  <2>1. PICK n \in 0..MAX_TASKS : /\ \A i \in Slot : state[i] = "None" <=> n <= i
                                  /\ n + Len(boot) <= MAX_TASKS
    BY DEF BootFits
  <2>2. n \in Slot
    BY <1>2, <2>1 DEF Slot
  <2>3. state[n] = "None"
    BY <2>1, <2>2
  <2>4. QED
    BY <2>2, <2>3 DEF FreeSlots
<1>10. QED
  BY <1>7, <1>8, <1>9

\* After TaskSpec::spawn the rest still fits.
LEMMA SpawnFits == KernelInv /\ BootFits /\ Spawn => BootFits'
<1> SUFFICES ASSUME KernelInv, BootFits, Spawn PROVE BootFits'
  OBVIOUS
<1> USE SlotFacts
<1>1. /\ state' = [state EXCEPT ![NewSlot] = "Created"]
      /\ boot' = Tail(boot) /\ boot # <<>> /\ stage = "spawn" /\ stage' = "spawn"
      /\ heap_next' = NewTop /\ heap_next \in Nat /\ NewTop \in Nat
      /\ NewSlot \in Slot /\ state[NewSlot] = "None"
      /\ \A j \in Slot : state[j] = "None" => NewSlot <= j
      /\ NewSlot = IDLE_TASK_INDEX \/ state[IDLE_TASK_INDEX] # "None"
  BY SpawnEffect
<1>2. state \in [Slot -> TaskState] /\ boot \in Seq(SpecType)
  BY DEF KernelInv, TypeOK
<1>3. /\ Len(boot) \in Nat /\ Len(boot) >= 1 /\ Len(boot') = Len(boot) - 1
      /\ \A k \in 1..Len(boot') : boot'[k] = boot[k + 1]
  BY <1>1, <1>2
<1>4. PICK n \in 0..MAX_TASKS : /\ \A i \in Slot : state[i] = "None" <=> n <= i
                                /\ n + Len(boot) <= MAX_TASKS
  BY <1>1 DEF BootFits
<1>5. n \in Slot /\ NewSlot = n /\ MAX_TASKS \in Nat
  <2>1. n \in Slot /\ MAX_TASKS \in Nat
    BY <1>3, <1>4, KernelAssumption DEF Slot
  <2>2. state[n] = "None"
    BY <1>4, <2>1
  <2>3. NewSlot <= n /\ n <= NewSlot /\ NewSlot \in Nat
    BY <1>1, <1>4, <2>1, <2>2
  <2>4. QED
    BY <2>1, <2>3
<1>6. \E m \in 0..MAX_TASKS : /\ \A i \in Slot : state'[i] = "None" <=> m <= i
                              /\ m + Len(boot') <= MAX_TASKS
  <2>1. n + 1 \in 0..MAX_TASKS /\ n + 1 + Len(boot') <= MAX_TASKS
    BY <1>3, <1>4, <1>5 DEF Slot
  <2>2. \A i \in Slot : state'[i] = "None" <=> n + 1 <= i
    <3>1. \A i \in Slot : i # n => (n <= i <=> n + 1 <= i)
      BY <1>5
    <3>2. ~(n + 1 <= n)
      BY <1>5
    <3>3. QED
      BY <1>1, <1>2, <1>4, <1>5, <3>1, <3>2
  <2>3. QED
    BY <2>1, <2>2
<1>7. state'[IDLE_TASK_INDEX] # "None"
  BY <1>1, <1>2
<1>8. state'[EchoSlot] = "None" /\ boot' # <<>> => Head(boot').entry = EchoEntry
  <2> SUFFICES ASSUME state'[EchoSlot] = "None", boot' # <<>>
               PROVE  Head(boot').entry = EchoEntry
    OBVIOUS
  <2>1. CASE NewSlot = IDLE_TASK_INDEX
    <3>1. boot[2].entry = EchoEntry /\ Len(boot) >= 2
      BY <1>1, <2>1 DEF BootFits
    <3>2. Head(boot') = boot[2]
      BY <1>1, <1>2, <3>1
    <3>3. QED
      BY <3>1, <3>2
  <2>2. CASE NewSlot # IDLE_TASK_INDEX
    <3>1. EchoSlot \in Slot /\ n >= 1
      BY <1>5, <2>2, KernelAssumption DEF EchoSlot, Slot, IDLE_TASK_INDEX
    <3>2. EchoSlot # n
      BY <1>1, <1>2, <1>5, <3>1
    <3>3. state[EchoSlot] = "None"
      BY <1>1, <1>2, <1>5, <3>1, <3>2
    <3>4. n <= EchoSlot
      BY <1>4, <3>1, <3>3
    <3>5. QED
      BY <1>5, <3>1, <3>2, <3>4 DEF EchoSlot
  <2>3. QED
    BY <2>1, <2>2
<1>9. \A k \in 1..Len(boot') :
        boot'[k].mode = "U" => BuilderAccepts(SpecRegions(boot'[k], 0))
  <2>1. \A k \in 1..Len(boot') : k + 1 \in 1..Len(boot)
    BY <1>3
  <2>2. QED
    BY <1>1, <1>3, <2>1 DEF BootFits
<1>10. heap_next' + 2 * TASK_STACK_SIZE * Len(boot') <= HEAP_END
  <2>1. heap_next' <= heap_next + 2 * TASK_STACK_SIZE
    BY <1>1, NextTaskFits DEF NewTop
  <2>2. heap_next + 2 * TASK_STACK_SIZE * Len(boot) <= HEAP_END
    BY <1>1 DEF BootFits
  <2>3. TASK_STACK_SIZE \in Nat /\ HEAP_END \in Nat
    BY KernelAssumption, TaskAssumption
  <2>4. 2 * TASK_STACK_SIZE * Len(boot) =
          2 * TASK_STACK_SIZE * Len(boot') + 2 * TASK_STACK_SIZE
    BY <1>3, <2>3
  <2>5. 2 * TASK_STACK_SIZE * Len(boot') \in Nat
    <3>1. Len(boot') \in Nat
      BY <1>3
    <3>2. QED
      BY <2>3, <3>1
  <2>6. QED
    BY <1>1, <2>1, <2>2, <2>3, <2>4, <2>5
<1>11. QED
  BY <1>1, <1>6, <1>7, <1>8, <1>9, <1>10, SMTT(20) DEF BootFits

\* Nothing but kmain changes what is left to spawn.
LEMMA BootFitsNext ==
  KernelInv /\ BootFits /\ [ProgramNext]_vars => BootFits'
<1> SUFFICES ASSUME KernelInv, BootFits, [ProgramNext]_vars PROVE BootFits'
  OBVIOUS
<1>1. CASE KmainInit
  <2>1. stage = "init" /\ UNCHANGED <<state, boot>>
    BY <1>1 DEF KmainInit, sched
  <2>2. \/ stage' = "init" /\ UNCHANGED heap_next
        \/ stage' = "spawn" /\ heap_next' = HEAP_START + 3
    BY <1>1, <2>1, HeapAfterTestValue DEF KmainInit
  <2>3. QED
    BY <2>1, <2>2 DEF BootFits
<1>2. CASE Spawn
  BY <1>2, SpawnFits
<1>3. CASE SpawnPanics
  BY <1>3, NextTaskFits DEF SpawnPanics
<1>4. CASE SchedInit \/ EnableInterrupts
  BY <1>4 DEF SchedInit, EnableInterrupts, BootFits
<1>5. CASE UNCHANGED vars \/ TimerExpires \/ Wfi
  <2>1. UNCHANGED <<state, stage, boot, heap_next>>
    BY <1>5 DEF vars, TimerExpires, Wfi, sched
  <2>2. QED
    BY <2>1 DEF BootFits
<1>6. CASE Handler \/ TrapReturn \/ Execute
  <2>1. stage = "wfi" /\ UNCHANGED stage
    <3>1. at \in {"handler", "return", "task"}
      BY <1>6 DEF Handler, HandleTimer, HandleAccessFault, HandleSyscall, HandleSkip,
                  HandleFatal, Handling, TrapReturn, Execute, UserRuns
    <3>2. stage = "wfi"
      BY <3>1 DEF KernelInv, HartInv
    <3>3. UNCHANGED stage
      BY <1>6, Zenon DEF Handler, HandleTimer, HandleAccessFault, HandleSyscall, HandleSkip,
                  HandleFatal, TrapReturn, Execute, TrapEntry, Retire, Compute, Load,
                  Ecall, Ebreak
    <3>4. QED
      BY <3>2, <3>3
  <2>2. QED
    BY <2>1 DEF BootFits
<1>7. CASE TimerTrap
  <2>1. UNCHANGED <<state, stage, boot, heap_next>>
    BY <1>7 DEF TimerTrap, TrapEntry, sched
  <2>2. QED
    BY <2>1 DEF BootFits
<1>8. QED
  BY <1>1, <1>2, <1>3, <1>4, <1>5, <1>6, <1>7 DEF ProgramNext, Kmain
=============================================================================

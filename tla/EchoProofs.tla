----------------------------- MODULE EchoProofs -----------------------------
(***************************************************************************)
(* user_echo_task makes system calls and nothing else that traps, and may  *)
(* fetch every one of its instructions: it never faults, and neither it    *)
(* nor kmain lets the kernel panic.                                        *)
(***************************************************************************)
EXTENDS UserProgramsProofs

EchoCode == DOMAIN user_echo_task(EchoEntry)

\* The echo task continues at an instruction of its own code, and whenever it
\* traps on its own account it has made a system call.
EchoInv ==
  /\ at # "panic"
  /\ EchoSlot \in UserSlot
  /\ state[EchoSlot] # "None" =>
       state[EchoSlot] # "Dead" /\ context[EchoSlot].mepc \in EchoCode
  /\ current = EchoSlot =>
       /\ at = "task" => pc \in EchoCode
       /\ at \in {"handler", "return"} => mepc \in EchoCode
       /\ at = "handler" /\ ~mcause.is_interrupt =>
            mcause.code = 8 /\ mepc + 4 \in EchoCode

\* Control stays in user_echo_task, whose only traps are its system calls.
LEMMA EchoInstructions ==
  ASSUME NEW a \in EchoCode
  PROVE  LET ins == Program[a]
         IN  /\ a \in Code /\ ins.len = 4
             /\ ins.op \in {"li_a7", "li_a0", "nop", "jump", "bne", "ecall"}
             /\ ins.op # "jump" => a + 4 \in EchoCode
             /\ ins.op \in {"jump", "bne"} => ins.target \in EchoCode
<1> DEFINE E == EchoEntry
           code == <<<<"li_a7", SYS_GETC, 0>>, <<"ecall", 0, 0>>,
                     <<"bne", NO_BYTE, E + 20>>, <<"nop", 0, 0>>, <<"jump", 0, E>>,
                     <<"li_a7", SYS_PUTC, 0>>, <<"ecall", 0, 0>>, <<"bne", CR, E>>,
                     <<"li_a7", SYS_PUTC, 0>>, <<"li_a0", LF, 0>>, <<"ecall", 0, 0>>,
                     <<"jump", 0, E>>>>
<1>1. E \in Nat /\ a \in Code /\ Program[a] = user_echo_task(E)[a]
  BY EchoAssumption DEF EchoCode
<1>2. user_echo_task(E) = Placed(E, code)
  BY DEF user_echo_task
<1>3. DOMAIN code = 1..12
  OBVIOUS
<1> HIDE DEF E
<1>4. EchoCode = {E + 4 * (k - 1) : k \in 1..12}
  BY <1>2, <1>3 DEF EchoCode, Placed, E
<1>5. PICK k \in 1..12 : a = E + 4 * (k - 1)
  BY <1>4
<1>6. (a - E) \div 4 + 1 = k
  BY <1>1, <1>5
<1>7. Program[a] = Instr(code[k][1], 4, code[k][2], code[k][3])
  <2> HIDE DEF code
  <2>1. QED
    BY <1>1, <1>2, <1>3, <1>5, <1>6 DEF Placed
<1>8. Program[a].len = 4 /\ Program[a].op = code[k][1] /\ Program[a].target = code[k][3]
  <2> HIDE DEF code
  <2>1. QED
    BY <1>7 DEF Instr
<1>9. /\ code[k][1] \in {"li_a7", "li_a0", "nop", "jump", "bne", "ecall"}
      /\ code[k][1] # "jump" => k < 12
      /\ code[k][1] \in {"jump", "bne"} => code[k][3] \in {E, E + 20}
  BY <1>1
<1> HIDE DEF code
<1>10. E \in EchoCode /\ E + 20 \in EchoCode
  <2>1. E = E + 4 * (1 - 1) /\ E + 20 = E + 4 * (6 - 1)
    BY <1>1
  <2>2. QED
    BY <1>4, <2>1
<1>11. k < 12 => a + 4 \in EchoCode
  <2>1. k < 12 => k + 1 \in 1..12 /\ a + 4 = E + 4 * ((k + 1) - 1)
    BY <1>1, <1>5
  <2>2. QED
    BY <1>4, <2>1
<1>12. QED
  BY <1>1, <1>8, <1>9, <1>10, <1>11

\* The lowest entry that matches an address of user text is the execute-only
\* one of the kernel, whatever the entries of the task.
LEMMA FetchAllowed == ASSUME NEW a \in Code PROVE May("X", a)
<1> DEFINE hits == {i \in PMP!Entry : PMP!Covers(PmpCfg, PmpAddr, i, a)}
<1>1. /\ a \in Nat /\ STEXT <= a /\ a < USER_TEXT_END /\ STEXT \in Nat
      /\ USER_TEXT_END \in Nat /\ STEXT % 4 = 0 /\ USER_TEXT_END % 4 = 0
  BY LayoutAssumption, KernelAssumption
<1>2. PMP!Entry \subseteq Nat /\ {0, 1} \subseteq PMP!Entry
  BY TaskAssumption DEF PMP!Entry
<1>3. /\ PmpCfg[0] = PMP!CfgByte({}, "OFF", FALSE)
      /\ PmpCfg[1] = PMP!CfgByte({"X"}, "TOR", TRUE)
  <2>1. /\ PMP!kernel_entry_regions[1].cfg = PMP!CfgByte({}, "OFF", FALSE)
        /\ PMP!kernel_entry_regions[2].cfg = PMP!CfgByte({"X"}, "TOR", TRUE)
    BY Zenon DEF PMP!kernel_entry_regions, PMP!KernelRegion
  <2>2. /\ PmpCfg[0] = PMP!kernel_entry_regions[1].cfg
        /\ PmpCfg[1] = PMP!kernel_entry_regions[2].cfg
    BY TaskAssumption DEF PmpCfg
  <2>3. QED
    BY <2>1, <2>2
<1>4. PmpAddr[0] = STEXT \div 4 /\ PmpAddr[1] = USER_TEXT_END \div 4
  BY TaskAssumption DEF PmpAddr, PMP!kernel_entry_regions, PMP!KernelRegion
<1>5. 4 * (STEXT \div 4) = STEXT /\ 4 * (USER_TEXT_END \div 4) = USER_TEXT_END
  BY <1>1
<1>6. ~PMP!Covers(PmpCfg, PmpAddr, 0, a)
  BY <1>3 DEF PMP!Covers, PMP!CfgByte
<1>7. PMP!Covers(PmpCfg, PmpAddr, 1, a)
  BY <1>1, <1>3, <1>4, <1>5 DEF PMP!Covers, PMP!CfgByte
<1>8. 1 \in hits /\ \A k \in hits : k \in Nat /\ 1 <= k
  BY <1>2, <1>6, <1>7
<1> HIDE DEF hits
<1>9. (CHOOSE j \in hits : \A k \in hits : j <= k) = 1
  BY <1>8
<1>10. "X" \in PmpCfg[1].perm
  BY <1>3 DEF PMP!CfgByte
<1>11. QED
  BY <1>8, <1>9, <1>10 DEF May, PMP!Permits, hits

\* At reset no task exists, and slot 1 is one of a user task.
LEMMA EchoInit == Init => EchoInv
<1> SUFFICES ASSUME Init PROVE EchoInv
  OBVIOUS
<1>1. PICK users \in UserSpecLists : boot = <<IdleSpec>> \o users
  BY DEF Init, SpawnOrder
<1>2. users \in Seq(UserSpec) /\ users # <<>> /\ Len(users) < MAX_TASKS
  BY KernelAssumption, EchoAssumption, LayoutAssumption
<1>3. EchoSlot \in UserSlot
  BY <1>2, KernelAssumption DEF EchoSlot, UserSlot, Slot, IDLE_TASK_INDEX
<1>4. at = "kmain" /\ current = NoSlot /\ \A i \in Slot : state[i] = "None"
  BY DEF Init
<1>5. QED
  BY <1>3, <1>4, SlotFacts DEF EchoInv, UserSlot

\* kmain does not panic, and the task it puts in slot 1 is the echo task.
LEMMA KmainEcho == KernelInv /\ BootFits /\ EchoInv /\ Kmain => EchoInv'
<1> SUFFICES ASSUME KernelInv, BootFits, EchoInv, Kmain PROVE EchoInv'
  OBVIOUS
<1> USE SlotFacts
<1>1. EchoSlot \in UserSlot /\ EchoSlot \in Slot /\ EchoSlot # NoSlot
  BY DEF EchoInv, UserSlot
<1>2. current' = NoSlot
  BY DEF Kmain, KmainInit, Spawn, SpawnPanics, SchedInit, EnableInterrupts,
         KernelInv, HartInv, sched
<1>3. at' = "kmain"
  <2>1. CASE KmainInit
    <3>1. HEAP_START + 3 <= HEAP_END
      <4>1. HEAP_START + 3 + 2 * TASK_STACK_SIZE * Len(boot) <= HEAP_END
        BY <2>1 DEF KmainInit, BootFits
      <4>2. Len(boot) \in Nat
        BY DEF KernelInv, TypeOK
      <4>3. 2 * TASK_STACK_SIZE * Len(boot) \in Nat
        BY <4>2, TaskAssumption
      <4>4. QED
        BY <4>1, <4>3, KernelAssumption
    <3>2. QED
      BY <2>1, <3>1, HeapAfterTestValue, KernelAssumption DEF KmainInit
  <2>2. ~SpawnPanics
    BY NextTaskFits DEF SpawnPanics
  <2>3. QED
    BY <2>1, <2>2 DEF Kmain, Spawn, SchedInit, EnableInterrupts
<1>4. state'[EchoSlot] # "None" =>
        state'[EchoSlot] # "Dead" /\ context'[EchoSlot].mepc \in EchoCode
  <2>1. state \in [Slot -> TaskState] /\ context \in [Slot -> ContextType]
    BY DEF KernelInv, TypeOK
  <2>2. CASE Spawn
    <3>1. /\ state' = [state EXCEPT ![NewSlot] = "Created"]
          /\ context' = [context EXCEPT ![NewSlot] = NewContext]
          /\ state[NewSlot] = "None" /\ NewSlot \in Slot
          /\ NewSlot # IDLE_TASK_INDEX =>
               state[IDLE_TASK_INDEX] # "None" /\ Head(boot) \in UserSpec
          /\ stage = "spawn" /\ boot # <<>>
      BY <2>2, SpawnEffect
    <3>2. CASE NewSlot = EchoSlot
      <4>1. Head(boot).entry = EchoEntry /\ Head(boot).mode = "U"
        BY <1>1, <3>1, <3>2 DEF BootFits, UserSpec, UserSlot
      <4>2. NewContext.mepc = EchoEntry
        BY <4>1 DEF NewContext, new_umode
      <4>3. EchoEntry \in EchoCode
        <5>1. EchoEntry = EchoEntry + 4 * (1 - 1)
          BY EchoAssumption
        <5>2. QED
          BY <5>1 DEF EchoCode, user_echo_task, Placed
      <4>4. QED
        BY <2>1, <3>1, <3>2, <4>2, <4>3
    <3>3. CASE NewSlot # EchoSlot
      BY <1>1, <2>1, <3>1, <3>3 DEF EchoInv
    <3>4. QED
      BY <3>2, <3>3
  <2>3. CASE ~Spawn
    <3>1. /\ UNCHANGED context
          /\ \A i \in Slot : /\ state'[i] # "None" => state[i] # "None"
                             /\ state'[i] = "Dead" => state[i] = "Dead"
      BY <2>3 DEF Kmain, KmainInit, SpawnPanics, SchedInit, EnableInterrupts, sched
    <3>2. QED
      BY <1>1, <3>1 DEF EchoInv
  <2>4. QED
    BY <2>2, <2>3
<1>5. QED
  BY <1>1, <1>2, <1>3, <1>4 DEF EchoInv

\* An instruction of the echo task is fetched, and stays in its code or is a
\* system call.
LEMMA ExecuteEcho == KernelInv /\ CodeInv /\ EchoInv /\ Execute => EchoInv'
<1> SUFFICES ASSUME KernelInv, CodeInv, EchoInv, Execute PROVE EchoInv'
  OBVIOUS
<1>1. at = "task" /\ UserRuns
  BY DEF Execute, UserRuns
<1>2. UNCHANGED sched /\ at' # "panic"
  BY <1>1 DEF Execute, TrapEntry, Compute, Load, Ecall, Ebreak, Retire
<1>3. CASE current # EchoSlot
  BY <1>2, <1>3 DEF EchoInv, sched
<1>4. CASE current = EchoSlot
  <2>1. pc \in EchoCode
    BY <1>1, <1>4 DEF EchoInv
  <2>2. /\ pc \in Code /\ Ins.len = 4 /\ pc \in DOMAIN Program
        /\ Ins.op \in {"li_a7", "li_a0", "nop", "jump", "bne", "ecall"}
        /\ Ins.op # "jump" => Following \in EchoCode /\ pc + 4 \in EchoCode
        /\ Ins.op \in {"jump", "bne"} => Ins.target \in EchoCode
    BY <2>1, EchoInstructions, ProgramAssumption DEF Ins, Following
  <2>3. May("X", pc)
    BY <2>2, FetchAllowed
  <2>4. Compute \/ (Ins.op = "ecall" /\ TrapEntry(Exception(8)))
    BY <2>2, <2>3 DEF Execute, Load, Ecall, Ebreak
  <2>5. CASE Compute
    <3>1. pc' \in EchoCode /\ at' = "task"
      BY <1>1, <2>2, <2>5 DEF Compute, Retire
    <3>2. QED
      BY <1>2, <3>1 DEF EchoInv, sched
  <2>6. CASE Ins.op = "ecall" /\ TrapEntry(Exception(8))
    <3>1. at' = "handler" /\ mepc' = pc /\ mcause' = Exception(8)
      BY <2>6 DEF TrapEntry
    <3>2. QED
      BY <1>2, <2>1, <2>2, <2>6, <3>1 DEF EchoInv, Exception, sched
  <2>7. QED
    BY <2>4, <2>5, <2>6
<1>5. QED
  BY <1>3, <1>4

\* schedule, called for the timer or by a handler that kills another task.
LEMMA SwitchEcho ==
  ASSUME KernelInv, EchoInv, at = "handler", NEW st,
         \/ st = state
         \/ st = Killed /\ current \in Slot \ {IDLE_TASK_INDEX} /\ current # EchoSlot,
         schedule(st, mstatus), at' = "return"
  PROVE  EchoInv'
<1> USE SlotFacts
<1> DEFINE saved == Saved(st, mstatus)
<1>1. EchoSlot \in UserSlot /\ EchoSlot \in Slot /\ EchoSlot # NoSlot
  BY DEF EchoInv, UserSlot
<1>2. /\ \A i \in Slot : i # current => saved[i] = context[i]
      /\ current # NoSlot => saved[current] = Interrupted(mstatus)
      /\ \A i \in Slot : i # current => Yielded(st)[i] = state[i]
      /\ current # NoSlot => Yielded(st)[current] = IF st = state THEN "Ready" ELSE "Dead"
      /\ Yielded(st) \in [Slot -> TaskState]
      /\ current' \in Slot /\ Yielded(st)[current'] = "Ready"
      /\ context' = saved /\ mepc' = saved[current'].mepc
      /\ state' = [Yielded(st) EXCEPT ![current'] = "Running"]
  BY ScheduleEffect
<1> HIDE DEF saved
<1>3. CASE current = EchoSlot
  <2>1. st = state /\ saved[EchoSlot].mepc = mepc /\ mepc \in EchoCode
    BY <1>1, <1>2, <1>3 DEF EchoInv, Interrupted
  <2>2. state'[EchoSlot] # "Dead"
    BY <1>1, <1>2, <1>3, <2>1
  <2>3. QED
    BY <1>1, <1>2, <2>1, <2>2, Zenon DEF EchoInv
<1>4. CASE current # EchoSlot
  <2>1. saved[EchoSlot] = context[EchoSlot] /\ Yielded(st)[EchoSlot] = state[EchoSlot]
    BY <1>1, <1>2, <1>4, Zenon
  <2>2. /\ state'[EchoSlot] # "None" => state[EchoSlot] # "None"
        /\ state'[EchoSlot] = "Dead" => state[EchoSlot] = "Dead"
        /\ current' = EchoSlot => state[EchoSlot] # "None"
    BY <1>1, <1>2, <2>1
  <2>3. QED
    BY <1>1, <1>2, <2>1, <2>2 DEF EchoInv
<1>5. QED
  BY <1>3, <1>4

\* The handlers: no fault is the echo task's, and none is fatal.
LEMMA HandlerEcho == KernelInv /\ CodeInv /\ EchoInv /\ Handler => EchoInv'
<1> SUFFICES ASSUME KernelInv, CodeInv, EchoInv, Handler PROVE EchoInv'
  OBVIOUS
<1>1. CASE HandleTimer
  BY <1>1, SwitchEcho DEF HandleTimer, Handling
<1>2. CASE HandleAccessFault
  <2>1. at = "handler" /\ ~mcause.is_interrupt /\ mcause.code \in AccessFaults
    BY <1>2 DEF HandleAccessFault, Handling, Exception
  <2>2. current # EchoSlot
    BY <2>1 DEF EchoInv, AccessFaults
  <2>3. QED
    BY <1>2, <2>1, <2>2, FaultKills, SwitchEcho
<1>3. CASE HandleSyscall \/ HandleSkip
  <2>1. /\ at = "handler" /\ ~mcause.is_interrupt /\ at' = "return" /\ mepc' = mepc + 4
        /\ UNCHANGED <<current, state, context>>
    BY <1>3 DEF HandleSyscall, HandleSkip, Handling, Exception, sched
  <2>2. QED
    BY <2>1 DEF EchoInv
<1>4. CASE HandleFatal
  BY <1>4 DEF HandleFatal, SurvivedCauses, AccessFaults, CodeInv, Served
<1>5. QED
  BY <1>1, <1>2, <1>3, <1>4 DEF Handler

\* Every step of the composition keeps the echo task in its code.
LEMMA EchoNext ==
  KernelInv /\ CodeInv /\ BootFits /\ EchoInv /\ [ProgramNext]_vars => EchoInv'
<1> SUFFICES ASSUME KernelInv, CodeInv, BootFits, EchoInv, [ProgramNext]_vars
             PROVE  EchoInv'
  OBVIOUS
<1>1. CASE TimerTrap
  <2>1. /\ at = "task" \/ (at = "kmain" /\ current = NoSlot)
        /\ at' = "handler" /\ mepc' = pc /\ mcause' = Interrupt(7)
        /\ UNCHANGED <<current, state, context>>
    BY <1>1, TrapCause DEF TimerTrap, TrapEntry, sched
  <2>2. EchoSlot # NoSlot
    BY SlotFacts DEF EchoInv, UserSlot
  <2>3. QED
    BY <2>1, <2>2 DEF EchoInv, Interrupt
<1>2. CASE TrapReturn
  <2>1. /\ at = "return" /\ at' = "task" /\ pc' = mepc
        /\ UNCHANGED <<current, state, context>>
    BY <1>2, Zenon DEF TrapReturn, KernelInv, HartInv, sched
  <2>2. QED
    BY <2>1, Zenon DEF EchoInv
<1>3. CASE UNCHANGED vars \/ TimerExpires \/ Wfi
  <2>1. UNCHANGED <<sched, hart>>
    BY <1>3 DEF vars, TimerExpires, Wfi
  <2>2. QED
    BY <2>1, Zenon DEF EchoInv, sched, hart
<1>4. QED
  BY <1>1, <1>2, <1>3, KmainEcho, HandlerEcho, ExecuteEcho DEF ProgramNext

\* The invariant holds of the composition, from reset on.
LEMMA EchoInvariant == ProgramSpec => []EchoInv
<1>1. Init => KernelInv /\ CodeInv /\ BootFits /\ EchoInv
  BY InitInv, CodeInit, BootFitsInit, EchoInit
<1>2. KernelInv /\ CodeInv /\ BootFits /\ EchoInv /\ [ProgramNext]_vars
        => (KernelInv /\ CodeInv /\ BootFits /\ EchoInv)'
  BY ProgramStep, NextInv, CodeNext, BootFitsNext, EchoNext
<1>3. QED
  BY <1>1, <1>2, PTL DEF ProgramSpec

\* The echo task is never killed: its fetches go through the kernel's entry 1
\* and it executes nothing that could fault.
THEOREM EchoSafe == ProgramSpec => []EchoNeverFaults
<1>1. EchoInv => EchoNeverFaults
  BY DEF EchoInv, EchoNeverFaults
<1>2. QED
  BY <1>1, EchoInvariant, PTL

\* The kernel never panics: kmain finds a slot, a stack and PMP entries for
\* every task it spawns, and no program raises an exception that handle_exception
\* does not know.
THEOREM KernelNeverPanics == ProgramSpec => [](at # "panic")
<1>1. EchoInv => at # "panic"
  BY DEF EchoInv
<1>2. QED
  BY <1>1, EchoInvariant, PTL
=============================================================================

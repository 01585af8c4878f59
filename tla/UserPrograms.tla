---------------------------- MODULE UserPrograms ----------------------------
(***************************************************************************)
(* The kernel with the user tasks it really runs: Kernel composed with the *)
(* programs of user_task.rs and with the memory protection of Pmp.         *)
(*                                                                         *)
(* In Kernel user code does anything; here it executes instructions with   *)
(* addresses and lengths, and whether a fetch or a load faults is what the *)
(* PMP matching rules say of the registers the driver writes: the locked   *)
(* entries 0..3 and the entries load_task_config has loaded.               *)
(***************************************************************************)
EXTENDS Kernel

CONSTANTS
  STEXT, USER_TEXT_END, EHEAP, UART_BASE, UART_SIZE,  \* as in Pmp
  Program,      \* instructions of .user_text, by address
  EchoEntry     \* address of user_echo_task

CR == 13
LF == 10
SYS_PUTC == 1

\* An instruction: its kind, length in bytes, operand and branch target.
Instr(op, len, arg, target) ==
  [op |-> op, len |-> len, arg |-> arg, target |-> target]

\* Instructions <<op, arg, target>> of four bytes each, from address base on.
Placed(base, code) ==
  [a \in {base + 4 * (k - 1) : k \in DOMAIN code} |->
     LET c == code[(a - base) \div 4 + 1] IN Instr(c[1], 4, c[2], c[3])]

\* user_echo_task: poll SYS_GETC, retry on 0xFF; else echo the byte, and a line
\* feed after a carriage return.
user_echo_task(base) ==
  Placed(base,
    <<<<"li_a7", SYS_GETC, 0>>, <<"ecall", 0, 0>>, <<"bne", NO_BYTE, base + 20>>,
      <<"nop", 0, 0>>, <<"jump", 0, base>>,
      <<"li_a7", SYS_PUTC, 0>>, <<"ecall", 0, 0>>, <<"bne", CR, base>>,
      <<"li_a7", SYS_PUTC, 0>>, <<"li_a0", LF, 0>>, <<"ecall", 0, 0>>,
      <<"jump", 0, base>>>>)

\* user_violation_task: load from the start of kernel text, then spin.
user_violation_task(base) ==
  Placed(base, <<<<"load", STEXT, 0>>, <<"jump", 0, base + 4>>>>)

\* Control never leaves the programs, also where handle_exception steps over the
\* four bytes of an ecall or those from an ebreak on, compressed or not.
ASSUME ProgramAssumption ==
  /\ Code = DOMAIN Program
  /\ \A a \in Code :
       LET ins == Program[a]
       IN  /\ ins.op # "jump" => a + ins.len \in Code
           /\ ins.op \in {"jump", "bne"} => ins.target \in Code
           /\ ins.op = "ecall" => ins.len = 4
           /\ ins.op = "ebreak" => ins.len \in {2, 4} /\ a + 4 \in Code
           /\ ins.op = "li_a0" => ins.arg \in UserValues
           /\ ins.op = "li_a7" => ins.arg \in SyscallNumbers
  /\ {0, NO_BYTE} \cup RxBytes \subseteq UserValues
  /\ 0 \in SyscallNumbers

\* The first user task is the echo task.
ASSUME EchoAssumption ==
  /\ EchoEntry \in Nat
  /\ \A users \in UserSpecLists : users # <<>> /\ users[1].entry = EchoEntry
  /\ \A a \in DOMAIN user_echo_task(EchoEntry) :
       a \in Code /\ Program[a] = user_echo_task(EchoEntry)[a]

\* The linker puts .user_text between _stext and _user_text_end, and what kmain
\* spawns fits: the task table, the heap (16 MiB on the target) and the
\* assertions of the PMP builder, for a stack at an aligned address.
ASSUME LayoutAssumption ==
  /\ STEXT \in Nat /\ USER_TEXT_END \in Nat /\ STEXT % 4 = 0 /\ USER_TEXT_END % 4 = 0
  /\ \A a \in Code : STEXT <= a /\ a < USER_TEXT_END
  /\ \A users \in UserSpecLists :
       /\ Len(users) < MAX_TASKS
       /\ HEAP_START + 3 + 2 * TASK_STACK_SIZE * (Len(users) + 1) <= HEAP_END
       /\ \A k \in 1..Len(users) : BuilderAccepts(SpecRegions(users[k], 0))
-----------------------------------------------------------------------------
(* What the hardware decides *)

\* The encodings and matching rules of Pmp, none of which reads its variables.
PMP == INSTANCE Pmp WITH
  CLINT <- {}, MEM_TOP <- EHEAP, Tasks <- {}, Regions <- <<>>, ResetAddrs <- {0},
  cfg <- <<>>, addr <- <<>>, at <- "run", idx <- 0, task <- "none",
  prev <- "none", low <- <<>>, high <- <<>>

Permissions(flags) ==
  CASE flags = "RX" -> {"R", "X"} [] flags = "RW" -> {"R", "W"} [] OTHER -> {}

\* The registers as the driver leaves them (Pmp's KernelEntriesInForce and
\* LoadedIsTaskConfig): entries 0..3 from pmp::init, the others from
\* load_task_config.
PmpCfg ==
  [i \in 0..(PMP_COUNT - 1) |->
     IF i < 3 THEN PMP!kernel_entry_regions[i + 1].cfg
     ELSE IF i = 3 THEN PMP!NapotByte(PMP!kernel_entry_regions[4].cfg)
     ELSE IF pmp[i].size = 0 THEN PMP!Off
     ELSE PMP!CfgByte(Permissions(pmp[i].flags), "NAPOT", FALSE)]

PmpAddr ==
  [i \in 0..(PMP_COUNT - 1) |->
     IF i < 3 THEN PMP!kernel_entry_regions[i + 1].base \div 4
     ELSE IF i = 3 THEN PMP!napot_addr(PMP!kernel_entry_regions[4])
     ELSE IF pmp[i].size = 0 THEN 0 ELSE PMP!napot_addr(pmp[i])]

May(access, a) == PMP!Permits(PmpCfg, PmpAddr, "U", access, a)
-----------------------------------------------------------------------------
(* Execution of user code *)

Ins == Program[pc]
Following == pc + Ins.len

\* An instruction that does not trap: the new a0, a7 and pc.
Retire(a0, a7, target) ==
  /\ gpr' = [gpr EXCEPT !.a0 = a0, !.a7 = a7] /\ pc' = target
  /\ UNCHANGED <<sched, at, mode, mepc, mcause, mstatus, pmp, frame, mtip, mtie,
                 stage, boot, heap_next>>

Compute ==
  \/ Ins.op = "nop"   /\ Retire(gpr.a0, gpr.a7, Following)
  \/ Ins.op = "li_a0" /\ Retire(Ins.arg, gpr.a7, Following)
  \/ Ins.op = "li_a7" /\ Retire(gpr.a0, Ins.arg, Following)
  \/ Ins.op = "jump"  /\ Retire(gpr.a0, gpr.a7, Ins.target)
  \/ /\ Ins.op = "bne"
     /\ Retire(gpr.a0, gpr.a7, IF gpr.a0 # Ins.arg THEN Ins.target ELSE Following)

\* A load, which PMP allows or turns into a load access fault.
Load ==
  /\ Ins.op = "load"
  /\ IF May("R", Ins.arg) THEN Retire(gpr.a0, gpr.a7, Following)
     ELSE TrapEntry(Exception(5))

Ecall == Ins.op = "ecall" /\ TrapEntry(Exception(8))

Ebreak == Ins.op = "ebreak" /\ TrapEntry(Exception(3))

\* One instruction: a fetch PMP denies is a fault, one that lands where no
\* instruction starts is an illegal instruction.
Execute ==
  /\ UserRuns
  /\ IF ~May("X", pc) THEN TrapEntry(Exception(1))
     ELSE IF pc \notin DOMAIN Program THEN TrapEntry(Exception(2))
     ELSE Compute \/ Load \/ Ecall \/ Ebreak

-----------------------------------------------------------------------------
ProgramNext ==
  Kmain \/ TimerTrap \/ Handler \/ TrapReturn \/ Execute \/ TimerExpires \/ Wfi

\* A task that is dispatched again and again gets to execute: a time slice is
\* longer than an instruction.
ProgramSpec ==
  /\ Init /\ [][ProgramNext]_vars
  /\ Fairness
  /\ \A i \in Slot : SF_vars(current = i /\ Execute)

-----------------------------------------------------------------------------
(* Properties *)

\* kmain spawns idle, then the echo task, then the violation task.
EchoSlot == 1
ViolationSlot == 2

\* The composition implements Kernel: real programs under the real PMP entries
\* do only what the arbitrary user code of Kernel may do, so what is proved of
\* Kernel holds of them.
ImplementsKernel == Spec

\* user_violation_task: "the trap handler ... calls scheduler::kill_current to
\* terminate this task".  Its load finds the execute-only entry 1 first and is
\* denied, although its own entry covers other addresses; it stays dead.
ViolationTaskKilled == <>[](state[ViolationSlot] = "Dead")

\* The echo task is never killed: it can fetch every instruction of its code
\* through the kernel's entry and never needs more than that.
EchoNeverFaults == state[EchoSlot] # "Dead" /\ at # "panic"

\* Where task i is in its program, wherever that is kept: in its slot, in the
\* hart or in the trap being served.
Position(i) ==
  IF current # i THEN context[i].mepc ELSE IF at = "task" THEN pc ELSE mepc

\* Where the program goes on after the instruction at a.
Successors(a) ==
  (IF Program[a].op = "jump" THEN {} ELSE {a + Program[a].len})
    \cup (IF Program[a].op \in {"jump", "bne"} THEN {Program[a].target} ELSE {})

\* A system call or breakpoint of task i is being handled.
Serves(i) ==
  at = "handler" /\ current = i /\ mcause \in {Exception(3), Exception(8)}

CompressedEbreak(a) == Program[a].op = "ebreak" /\ Program[a].len = 2

\* A task executes its program in order, through every preemption, trap and
\* kill of another task: its position moves only when it executes or its own
\* call or breakpoint is served, to the instruction that follows there, and a
\* served call is not repeated.  The one exception is what handle_exception
\* does with a compressed ebreak: mepc + 4 passes over two bytes more.
InstructionsInOrder ==
  [][\A i \in Slot \ {IDLE_TASK_INDEX} : state[i] # "None" =>
       \/ Position(i)' = Position(i) /\ (Serves(i) => at' = at)
       \/ /\ current = i /\ (at = "task" \/ Serves(i))
          /\ Position(i)' \in Successors(Position(i))
       \/ /\ Serves(i) /\ CompressedEbreak(Position(i))
          /\ Position(i)' = Position(i) + 4]_vars

\* Whatever happens in between, preemption in any place included, a byte that
\* SYS_GETC returned to the echo task comes back as the argument of SYS_PUTC.
Calls(at_, number, byte) ==
  /\ at = at_ /\ current = EchoSlot /\ mcause = Exception(8)
  /\ frame.a7 = number /\ frame.a0 = byte
EchoReachesPutc ==
  \A byte \in RxBytes :
    Calls("return", SYS_GETC, byte) ~> Calls("handler", SYS_PUTC, byte)
=============================================================================

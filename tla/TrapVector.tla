----------------------------- MODULE TrapVector -----------------------------
(***************************************************************************)
(* trap_vector (trap.rs), instruction by instruction, with all the 31      *)
(* registers, around a trap_handler that leaves the frame alone, answers a *)
(* system call in it, or lets schedule exchange it for the context of      *)
(* another task.  Kernel takes entry and return as one step each; this     *)
(* module is why it may.                                                   *)
(***************************************************************************)
EXTENDS Registers

CONSTANTS
  N,           \* number of tasks
  STACK_SIZE,  \* bytes of a task stack
  Depths,      \* how far below the top of its stack sp may be at a trap
  Versions,    \* number of register contents a task can trap with
  Results      \* what SYS_GETC may return

ASSUME TrapVectorAssumption ==
  /\ N \in Nat \ {0} /\ Versions \in Nat \ {0} /\ Results \subseteq Int
  /\ STACK_SIZE \in Nat /\ STACK_SIZE % 8 = 0
  /\ \A d \in Depths : d \in Nat /\ d % 8 = 0 /\ d + 256 <= STACK_SIZE

VARIABLES
  reg, csr, mem,  \* the machine
  pc,             \* instruction of trap_vector, 0 while a task executes
  current,        \* the task that executes or was interrupted
  owned           \* what each task has in its registers, mepc and mstatus

vars == <<reg, csr, mem, pc, current, owned>>

Task == 0..(N - 1)

\* Addresses: the stacks, then the TaskContexts.
StackTop(t) == (t + 1) * STACK_SIZE
Context(t) == N * STACK_SIZE + t * 264
Words == {8 * k : k \in 0..((N * (STACK_SIZE + 264)) \div 8 - 1)}

\* TaskContext::new_mmode for task 0, new_umode for the others.
Created(t) ==
  [f \in GPR \cup {"mepc", "mstatus"} |->
     CASE f = "sp" -> StackTop(t)
       [] f = "mepc" -> 1000 * t
       [] f = "mstatus" -> IF t = 0 THEN 3 * 2^11 + 2^7 ELSE 2^7
       [] OTHER -> 0]

Live(t) == -1 - t   \* what task t keeps in its own stack
Junk == -100        \* what the handler leaves in caller-saved registers

\* A vector that saves the sp it has already moved.
SavesMovedSp ==
  <<<<"addi", "sp", -256, "sp">>>>
  \o Stores(SubSeq(GprFields, 1, 30), "sp")
  \o <<<<"sd", "sp", 240, "sp">>, <<"addi", "a0", 0, "sp">>, <<"call">>>>
  \o Loads(SubSeq(GprFields, 1, 30), "sp")
  \o <<<<"ld", "sp", 240, "sp">>, <<"mret">>>>

\* A vector whose frame is one register too small.
FrameTooSmall ==
  <<<<"csrw", "sp", "mscratch">>, <<"addi", "sp", -240, "sp">>>>
  \o Stores(SubSeq(GprFields, 1, 30), "sp")
  \o <<<<"csrr", "t0", "mscratch">>, <<"sd", "t0", 240, "sp">>,
       <<"addi", "a0", 0, "sp">>, <<"call">>>>
  \o Loads(SubSeq(GprFields, 1, 30), "sp")
  \o <<<<"ld", "sp", 240, "sp">>, <<"mret">>>>

trap_vector ==
  <<<<"csrw", "sp", "mscratch">>, <<"addi", "sp", -256, "sp">>>>
  \o Stores(SubSeq(GprFields, 1, 30), "sp")
  \o <<<<"csrr", "t0", "mscratch">>, <<"sd", "t0", 240, "sp">>,
       <<"addi", "a0", 0, "sp">>, <<"call">>>>
  \o Loads(SubSeq(GprFields, 1, 30), "sp")
  \o <<<<"ld", "sp", 240, "sp">>, <<"mret">>>>

Init ==
  /\ pc = 0 /\ current = 0
  /\ owned = [t \in Task |-> Created(t)]
  /\ reg = [r \in GPR |-> Created(0)[r]]
  /\ csr = [mepc |-> 0, mstatus |-> Created(0).mstatus, mscratch |-> 0]
  /\ mem = [w \in Words |->
       IF w < Context(0) THEN 0
       ELSE LET t == (w - Context(0)) \div 264
            IN  Created(t)[ContextFields[(w - Context(t)) \div 8 + 1]]]

-----------------------------------------------------------------------------
\* The current task executes, its stack is in use from sp up, and traps.
Trap ==
  /\ pc = 0
  /\ \E v \in 1..Versions, d \in Depths :
       LET has == [f \in DOMAIN Created(current) |->
                     CASE f = "sp" -> StackTop(current) - d
                       [] f = "mstatus" -> Created(current).mstatus
                       [] OTHER -> 1000 * current + 100 * v + Offset(f)]
       IN  /\ owned' = [owned EXCEPT ![current] = has]
           /\ reg' = [r \in GPR |-> has[r]]
           /\ csr' = [csr EXCEPT !.mepc = has.mepc, !.mstatus = has.mstatus]
           /\ mem' = [w \in Words |->
                IF has.sp <= w /\ w < StackTop(current) THEN Live(current) ELSE mem[w]]
  /\ pc' = 1
  /\ UNCHANGED current

\* An instruction of trap_vector but call and mret.
Instruction ==
  /\ pc # 0 /\ trap_vector[pc][1] \notin {"call", "mret"}
  /\ LET m == Exec(trap_vector[pc], [reg |-> reg, csr |-> csr, mem |-> mem])
     IN  reg' = m.reg /\ csr' = m.csr /\ mem' = m.mem
  /\ pc' = pc + 1
  /\ UNCHANGED <<current, owned>>

\* trap_handler(frame) returns by the C calling convention.
Return ==
  /\ reg' = [r \in GPR |-> IF r \in CallerSaved THEN Junk ELSE reg[r]]
  /\ pc' = pc + 1

Calling == pc # 0 /\ trap_vector[pc][1] = "call"
Frame == reg.a0

\* Of a trap that is only logged.
HandlerLogs == Calling /\ Return /\ UNCHANGED <<csr, mem, current, owned>>

\* handle_syscall with SYS_GETC: frame.a0, and mepc + 4.
HandlerAnswers ==
  /\ Calling /\ Return
  /\ \E byte \in Results :
       /\ mem' = Put([a0 |-> byte], mem, Frame)
       /\ owned' = [owned EXCEPT ![current].a0 = byte, ![current].mepc = @ + 4]
  /\ csr' = [csr EXCEPT !.mepc = @ + 4]
  /\ UNCHANGED current

\* copy_gpr_fields!, both ways.
CopyGprFields(from, to, m) == Put(Struct(GprFields, m, from), m, to)

\* schedule: the frame and both CSRs are saved in the context of the current
\* task and replaced by those of the next.
HandlerSchedules ==
  /\ Calling /\ Return
  /\ \E next \in Task :
       LET saved == Put([mepc |-> csr.mepc, mstatus |-> csr.mstatus],
                        CopyGprFields(Frame, Context(current), mem), Context(current))
           target == Struct(ContextFields, saved, Context(next))
       IN  /\ mem' = CopyGprFields(Context(next), Frame, saved)
           /\ csr' = [csr EXCEPT !.mepc = target.mepc, !.mstatus = target.mstatus]
           /\ current' = next
  /\ UNCHANGED owned

Mret ==
  /\ pc # 0 /\ trap_vector[pc][1] = "mret"
  /\ pc' = 0
  /\ UNCHANGED <<reg, csr, mem, current, owned>>

Next ==
  Trap \/ Instruction \/ HandlerLogs \/ HandlerAnswers \/ HandlerSchedules \/ Mret

Spec == Init /\ [][Next]_vars
-----------------------------------------------------------------------------
(* Properties *)

\* A task finds all its 31 registers, its pc and its mstatus as it left them,
\* but for the answer to its system call, however often it was interrupted and
\* whatever ran in between: no instruction of trap_vector uses a register it
\* has not saved or has already restored (trap_vector, schedule).
TaskKeepsRegisters ==
  pc = 0 => /\ \A r \in GPR : reg[r] = owned[current][r]
            /\ \A c \in {"mepc", "mstatus"} : csr[c] = owned[current][c]

\* The trap frame lies below what the task has on its stack: no trap, of this
\* task or another, changes a word from its sp upward.
LiveStackKept ==
  \A t \in Task : \A w \in Words :
    owned[t].sp <= w /\ w < StackTop(t) => mem[w] = Live(t)
=============================================================================

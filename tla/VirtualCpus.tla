---------------------------- MODULE VirtualCpus ----------------------------
(***************************************************************************)
(* What the kernel promises a task: a CPU of its own.  The registers of a  *)
(* task change only when the task executes an instruction or a system call *)
(* returns its result to it; preemption, and the kill of another task, are *)
(* invisible to it.  Nothing is said of frames, contexts, CSRs or PMP.     *)
(***************************************************************************)
EXTENDS Integers

CONSTANTS Task, Nobody, GetcNumber, GetcResult

VARIABLES
  cpu,      \* the registers of every task
  life,     \* "absent", "alive" or "dead"
  running,  \* the task that executes, or Nobody
  trap      \* "none", the kind the kernel is to serve, "served", or "panic"

vars == <<cpu, life, running, trap>>

Kinds == {"timer", "fault", "syscall", "skip", "fatal"}

Init ==
  /\ life = [t \in Task |-> "absent"]
  /\ running = Nobody /\ trap = "none"

\* Only the registers of task t may differ afterwards.
OnlyCpu(t) == \A u \in Task \ {t} : cpu'[u] = cpu[u]

Create(t) ==
  /\ running = Nobody /\ trap = "none" /\ life[t] = "absent"
  /\ life' = [life EXCEPT ![t] = "alive"]
  /\ OnlyCpu(t)
  /\ UNCHANGED <<running, trap>>

Execute(t) ==
  /\ running = t /\ trap = "none"
  /\ OnlyCpu(t) /\ cpu'[t].sp = cpu[t].sp
  /\ UNCHANGED <<life, running, trap>>

Trap(kind) ==
  /\ trap = "none" /\ (running = Nobody => kind = "timer")
  /\ trap' = kind
  /\ UNCHANGED <<cpu, life, running>>

\* The next task may be any that is alive.
Switch == running' \in {t \in Task : life'[t] = "alive"} /\ trap' = "served"

Preempt == trap = "timer" /\ Switch /\ UNCHANGED <<cpu, life>>

Kill ==
  /\ trap = "fault"
  /\ life' = [life EXCEPT ![running] = "dead"]
  /\ Switch
  /\ UNCHANGED cpu

\* Registers c after the instruction that trapped, with its result in a0.
Resumed(c, a0) == [a0 |-> a0, a7 |-> c.a7, sp |-> c.sp, pc |-> c.pc + 4]

\* The task resumes once after its ecall, with the result of SYS_GETC in a0.
Syscall ==
  /\ trap = "syscall"
  /\ \E a0 \in IF cpu[running].a7 = GetcNumber THEN GetcResult
               ELSE {cpu[running].a0} :
        cpu' = [cpu EXCEPT ![running] = Resumed(cpu[running], a0)]
  /\ trap' = "served"
  /\ UNCHANGED <<life, running>>

Skip ==
  /\ trap = "skip"
  /\ cpu' = [cpu EXCEPT ![running] = Resumed(cpu[running], cpu[running].a0)]
  /\ trap' = "served"
  /\ UNCHANGED <<life, running>>

\* The trap returns to the registers as they were served.
Resume ==
  /\ trap = "served" /\ trap' = "none"
  /\ UNCHANGED <<cpu, life, running>>

Panic ==
  /\ trap = "fatal" \/ running = Nobody
  /\ trap' = "panic"
  /\ UNCHANGED <<cpu, life, running>>

Next ==
  \/ \E t \in Task : Create(t) \/ Execute(t)
  \/ \E kind \in Kinds : Trap(kind)
  \/ Preempt \/ Kill \/ Syscall \/ Skip \/ Resume \/ Panic

Spec == Init /\ [][Next]_vars
=============================================================================

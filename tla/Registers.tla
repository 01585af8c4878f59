----------------------------- MODULE Registers -----------------------------
(***************************************************************************)
(* The general-purpose registers, the structs they are saved in (TrapFrame *)
(* in trap.rs, TaskContext in sched/task.rs) and the instructions the      *)
(* assembly of trap_vector in trap.rs is written with.  A machine is a     *)
(* record of registers, CSRs and memory; memory is a function of the       *)
(* addresses of eight-byte words, and a register holds an integer.         *)
(***************************************************************************)
EXTENDS Integers, Sequences

\* The 31 registers of TrapFrame in the order of its fields.
GprFields ==
  <<"ra", "t0", "t1", "t2", "t3", "t4", "t5", "t6",
    "a0", "a1", "a2", "a3", "a4", "a5", "a6", "a7",
    "s0", "s1", "s2", "s3", "s4", "s5", "s6", "s7", "s8", "s9", "s10", "s11",
    "gp", "tp", "sp">>

GPR == {GprFields[k] : k \in DOMAIN GprFields}

\* TaskContext: the fields of TrapFrame, then mepc and mstatus.
ContextFields == GprFields \o <<"mepc", "mstatus">>

\* repr(C): the offset of a field.
Offset(f) == 8 * ((CHOOSE k \in DOMAIN ContextFields : ContextFields[k] = f) - 1)

\* Registers a called function may leave changed.
CallerSaved ==
  {"ra", "t0", "t1", "t2", "t3", "t4", "t5", "t6",
   "a0", "a1", "a2", "a3", "a4", "a5", "a6", "a7"}
-----------------------------------------------------------------------------
(* Instructions: <<op, register, offset or CSR, base register>> *)

\* "sd r, off(base)" and "ld r, off(base)" for the registers of regs in order,
\* each at the offset of its field.
Stores(regs, base) == [k \in DOMAIN regs |-> <<"sd", regs[k], Offset(regs[k]), base>>]
Loads(regs, base) == [k \in DOMAIN regs |-> <<"ld", regs[k], Offset(regs[k]), base>>]

\* The machine after instruction i.
Exec(i, m) ==
  LET addr == m.reg[i[4]] + i[3]
  IN  CASE i[1] = "sd"   -> [m EXCEPT !.mem[addr] = m.reg[i[2]]]
        [] i[1] = "ld"   -> [m EXCEPT !.reg[i[2]] = m.mem[addr]]
        [] i[1] = "addi" -> [m EXCEPT !.reg[i[2]] = addr]
        [] i[1] = "csrw" -> [m EXCEPT !.csr[i[3]] = m.reg[i[2]]]
        [] i[1] = "csrr" -> [m EXCEPT !.reg[i[2]] = m.csr[i[3]]]

\* What a struct at address a holds.
Struct(fields, mem, a) ==
  [f \in {fields[k] : k \in DOMAIN fields} |-> mem[a + Offset(f)]]

\* Memory with the fields of a struct at address a set.
Put(values, mem, a) ==
  [w \in DOMAIN mem |->
     IF \E f \in DOMAIN values : w = a + Offset(f)
     THEN values[CHOOSE f \in DOMAIN values : w = a + Offset(f)] ELSE mem[w]]
=============================================================================

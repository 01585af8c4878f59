--------------------------- MODULE MCUserPrograms ---------------------------
(***************************************************************************)
(* A scaled memory map: UART 0..7, kernel text 32..63, user text 64..143,  *)
(* kernel stack below 152, heap 152..223 with four task stacks of 8 bytes. *)
(***************************************************************************)
EXTENDS UserPrograms, TLC

User(entry, base, size, mmio) ==
  [mode |-> "U", entry |-> entry, code_base |-> base, code_size |-> size, mmio |-> mmio]

Echo == User(EchoEntry, 64, 64, <<[base |-> UART_BASE, size |-> UART_SIZE]>>)
Violation == User(112, 64, 64, <<>>)
Debugged == User(128, 128, 16, <<>>)

\* kmain's tasks, and with them a task that executes breakpoints in a loop.
MCTasks == {<<Echo, Violation>>, <<Echo, Violation, Debugged>>}

\* Its ebreak has four bytes, its c.ebreak two: handle_exception passes over the
\* compressed nop behind the latter.
Breakpoints ==
  [a \in {128, 132, 134, 136} |->
     CASE a = 128 -> Instr("ebreak", 4, 0, 0)
       [] a = 132 -> Instr("ebreak", 2, 0, 0)
       [] a = 134 -> Instr("nop", 2, 0, 0)
       [] a = 136 -> Instr("jump", 4, 0, 128)]

MCProgram ==
  Breakpoints @@ user_echo_task(EchoEntry) @@ user_violation_task(112)

MCCode == DOMAIN MCProgram
=============================================================================

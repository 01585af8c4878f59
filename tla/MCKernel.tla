------------------------------ MODULE MCKernel ------------------------------
(***************************************************************************)
(* Small instances of Kernel.  Addresses are scaled: a task stack is 8     *)
(* bytes, the heap holds the test allocation and four stacks.              *)
(***************************************************************************)
EXTENDS KernelRefinement

Uart == [base |-> 64, size |-> 8]

User(entry, mmio) ==
  [mode |-> "U", entry |-> entry, code_base |-> 0, code_size |-> 8, mmio |-> mmio]

\* kmain's list: the echo task with the UART window, the violation task.
Echo == User(0, <<Uart>>)
Violation == User(4, <<>>)

MCKmain == {<<Echo, Violation>>}

\* A full table, and spawns that panic: one task too many, one PMP window too
\* many, a window that is not naturally aligned.
MCFull ==
  {<<Echo, Violation, Violation>>,
   <<Echo, Echo, Echo, Violation>>,
   <<User(0, <<Uart, Uart>>)>>,
   <<User(0, <<[base |-> 4, size |-> 8]>>)>>}

MCCode == {0, 4}
=============================================================================

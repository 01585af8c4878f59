-------------------------------- MODULE Hart --------------------------------
(***************************************************************************)
(* The parts of a RISC-V hart the kernel relies on: privilege modes and    *)
(* the interrupt-enable stack of mstatus, what the hardware does to it on  *)
(* a trap and on mret, and the critical section IrqCell builds from it.    *)
(***************************************************************************)
Privilege == {"M", "U"}

\* MIE, MPIE and MPP are the fields of mstatus the kernel reads or writes.
Mstatus == [MIE : BOOLEAN, MPIE : BOOLEAN, MPP : Privilege]

\* Hardware, trap taken in privilege `mode`: interrupts are masked, and the
\* old enable bit and the old privilege are stacked.
TrapMstatus(m, mode) == [MIE |-> FALSE, MPIE |-> m.MIE, MPP |-> mode]

\* Hardware, mret: the stacked enable bit is restored and MPP is reset to
\* the least privileged mode.
MretMstatus(m) == [MIE |-> m.MPIE, MPIE |-> TRUE, MPP |-> "U"]

\* A machine interrupt is taken in U-mode whatever MIE is, in M-mode only
\* when MIE is set.
InterruptsOn(mode, m) == mode = "U" \/ m.MIE

\* A with_lock that re-enables interrupts whatever they were before.
WithLockEnables(m) == [m EXCEPT !.MIE = TRUE]

\* IrqCell::with_lock: mstatus after the closure has run under cleared MIE.
with_lock(m) ==
  LET locked == [m EXCEPT !.MIE = FALSE]
  IN  IF m.MIE THEN [locked EXCEPT !.MIE = TRUE] ELSE locked
=============================================================================

------------------------------- MODULE IrqCell -------------------------------
(***************************************************************************)
(* IrqCell::with_lock (sync/irq_cell.rs), one step per instruction that    *)
(* touches mstatus or the protected value, with a timer interrupt possible *)
(* between any two of them.                                                *)
(*                                                                         *)
(* Level 0 is M-mode code outside traps, level n the handler that          *)
(* interrupted level n - 1; every level may call with_lock again and       *)
(* again.  mstatus.MPIE is one bit, which a nested trap would overwrite.   *)
(* The closure reads the value and writes it back: what create_task,       *)
(* schedule and kill_current do to the task table.                         *)
(***************************************************************************)
EXTENDS Integers

CONSTANTS
  MAX_DEPTH,     \* levels: the kernel is to need two
  MAX_UPDATES    \* bound: calls of with_lock

ASSUME IrqCellAssumption == MAX_DEPTH \in Nat \ {0} /\ MAX_UPDATES \in Nat

Level == 0..(MAX_DEPTH - 1)

VARIABLES
  MIE, MPIE,     \* bits of mstatus
  depth,         \* the level that executes
  pc,            \* pc[l]: the next step of level l
  mstatus,       \* mstatus[l]: the bit with_lock read, a local variable
  local,         \* local[l]: what the closure read
  inner,         \* the protected value
  updates,       \* history: closures that have written
  wanted         \* history: MIE as the code outside traps last set it

locals == <<pc, mstatus, local>>
cell == <<MIE, MPIE, depth, locals, inner, updates, wanted>>

CellInit ==
  /\ MIE = 0 /\ MPIE = 0 /\ depth = 0
  /\ pc = [l \in Level |-> "out"]
  /\ mstatus = [l \in Level |-> 0] /\ local = [l \in Level |-> 0]
  /\ inner = 0 /\ updates = 0 /\ wanted = 0

Proceed(from, to) ==
  /\ pc[depth] = from
  /\ pc' = [pc EXCEPT ![depth] = to]
-----------------------------------------------------------------------------
(* with_lock, by the level that executes *)

\* csrr {}, mstatus
ReadMstatus ==
  /\ updates < MAX_UPDATES
  /\ Proceed("out", "clear")
  /\ mstatus' = [mstatus EXCEPT ![depth] = MIE]
  /\ UNCHANGED <<MIE, MPIE, depth, local, inner, updates, wanted>>

\* A csrc that is missing.
ClearNothing ==
  /\ Proceed("clear", "load")
  /\ UNCHANGED <<MIE, MPIE, depth, mstatus, local, inner, updates, wanted>>

\* A csrc with the bit of MPIE.
ClearMpie ==
  /\ Proceed("clear", "load")
  /\ MPIE' = 0
  /\ UNCHANGED <<MIE, depth, mstatus, local, inner, updates, wanted>>

\* csrc mstatus, 1 << 3
ClearMie ==
  /\ Proceed("clear", "load")
  /\ MIE' = 0
  /\ UNCHANGED <<MPIE, depth, mstatus, local, inner, updates, wanted>>

ClosureReads ==
  /\ Proceed("load", "store")
  /\ local' = [local EXCEPT ![depth] = inner]
  /\ UNCHANGED <<MIE, MPIE, depth, mstatus, inner, updates, wanted>>

ClosureWrites ==
  /\ Proceed("store", "restore")
  /\ inner' = local[depth] + 1
  /\ updates' = updates + 1
  /\ UNCHANGED <<MIE, MPIE, depth, mstatus, local, wanted>>

\* "task table full": a closure that does not return.
ClosurePanics ==
  /\ Proceed("store", "panic")
  /\ UNCHANGED <<MIE, MPIE, depth, mstatus, local, inner, updates, wanted>>

\* A restore that enables interrupts whatever they were before.
RestoreAlways ==
  /\ Proceed("restore", "out")
  /\ MIE' = 1
  /\ UNCHANGED <<MPIE, depth, mstatus, local, inner, updates, wanted>>

\* csrs mstatus, 1 << 3, if the saved bit was set.
Restore ==
  /\ Proceed("restore", "out")
  /\ MIE' = IF mstatus[depth] # 0 THEN 1 ELSE MIE
  /\ UNCHANGED <<MPIE, depth, mstatus, local, inner, updates, wanted>>

WithLock ==
  \/ ReadMstatus \/ ClearMie \/ ClosureReads \/ ClosureWrites \/ ClosurePanics
  \/ Restore
-----------------------------------------------------------------------------
(* Code outside traps, and traps *)

\* timer::enable_interrupts, timer::disable_interrupts
SetInterrupts ==
  /\ depth = 0 /\ pc[0] = "out"
  /\ MIE' \in {0, 1} /\ wanted' = MIE'
  /\ UNCHANGED <<MPIE, depth, locals, inner, updates>>

\* The hardware takes the timer interrupt.
NestedTrap ==
  /\ MIE = 1 /\ depth + 1 \in Level
  /\ MPIE' = MIE /\ MIE' = 0
  /\ depth' = depth + 1
  /\ UNCHANGED <<locals, inner, updates, wanted>>

\* mret, by a handler that is not inside with_lock.
Mret ==
  /\ depth > 0 /\ pc[depth] = "out"
  /\ MIE' = MPIE /\ MPIE' = 1
  /\ depth' = depth - 1
  /\ UNCHANGED <<locals, inner, updates, wanted>>

\* The wfi loop of the panic handler.
Wfi == pc[depth] = "panic" /\ UNCHANGED cell

CellNext == WithLock \/ SetInterrupts \/ NestedTrap \/ Mret \/ Wfi

CellSpec == CellInit /\ [][CellNext]_cell
-----------------------------------------------------------------------------
(* Properties *)

\* The state is well typed: bits of mstatus, one set of locals per level.
CellTypeOK ==
  /\ MIE \in {0, 1} /\ MPIE \in {0, 1} /\ wanted \in {0, 1}
  /\ depth \in Level
  /\ pc \in [Level -> {"out", "clear", "load", "store", "restore", "panic"}]
  /\ mstatus \in [Level -> {0, 1}] /\ local \in [Level -> Nat]
  /\ inner \in Nat /\ updates \in Nat

InSection(l) == pc[l] \in {"load", "store", "panic"}

\* Between the csrc of with_lock and its return no other level is inside,
\* also when the closure panicked half-way: IrqCell "prevents re-entrant
\* access from interrupt handlers".
Exclusive ==
  \A l, m \in Level : InSection(l) /\ InSection(m) => l = m

\* No update of the protected value is lost to an interrupt, wherever in
\* with_lock it comes, the gap between csrr and csrc included.
NoLostUpdate == inner = updates

\* Once with_lock has returned, and every interrupt that came during it, its
\* caller finds MIE as it was: as it last set it outside traps, and clear in a
\* handler, which could be interrupted before mret if the restore set it.
MaskRestored == pc[depth] = "out" => MIE = IF depth = 0 THEN wanted ELSE 0
=============================================================================

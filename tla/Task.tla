-------------------------------- MODULE Task --------------------------------
(***************************************************************************)
(* Task control blocks (sched/task.rs) and task specifications             *)
(* (sched/task/spec.rs).                                                   *)
(*                                                                         *)
(* Of the 31 general-purpose registers three are told apart: a7 and a0,    *)
(* through which a system call passes its number, argument and result, and *)
(* sp.  The other 28 are only ever copied together with them, and a0       *)
(* stands for them.                                                        *)
(***************************************************************************)
EXTENDS Integers, Sequences, Hart

CONSTANTS
  PMP_COUNT,        \* PMP entries of the hart (16)
  TASK_STACK_SIZE   \* size and alignment of a task stack (8192)

ASSUME TaskAssumption ==
  /\ PMP_COUNT \in Nat /\ PMP_COUNT > 4
  /\ TASK_STACK_SIZE \in Nat \ {0}

TaskState == {"None", "Created", "Ready", "Running", "Dead"}

Gpr(a0, a7, sp) == [a0 |-> a0, a7 |-> a7, sp |-> sp]

\* A new_mmode context whose mret leaves interrupts masked.
NewMmodeMasked(entry, stack_top) ==
  [gpr     |-> Gpr(0, 0, stack_top),
   mepc    |-> entry,
   mstatus |-> [MIE |-> FALSE, MPIE |-> FALSE, MPP |-> "M"]]

new_mmode(entry, stack_top) ==
  [gpr     |-> Gpr(0, 0, stack_top),
   mepc    |-> entry,
   mstatus |-> [MIE |-> FALSE, MPIE |-> TRUE, MPP |-> "M"]]

new_umode(entry, stack_top) ==
  [gpr     |-> Gpr(0, 0, stack_top),
   mepc    |-> entry,
   mstatus |-> [MIE |-> FALSE, MPIE |-> TRUE, MPP |-> "U"]]

-----------------------------------------------------------------------------
\* PmpRegion::new
Region(base, size, flags) == [base |-> base, size |-> size, flags |-> flags]

NoRegion == Region(0, 0, "none")

\* The entries a task may own: 0..3 are the locked kernel entries.
TaskEntry == 4..(PMP_COUNT - 1)

\* PmpConfig::empty, entries 4 and up.
EmptyPmpConfig == [i \in TaskEntry |-> NoRegion]

Log2(n) == CHOOSE k \in 0..n : 2^k <= n /\ n < 2^(k + 1)
IsPowerOfTwo(n) == n > 0 /\ n = 2^Log2(n)

\* The regions TaskSpec::spawn hands to the builder, in order: code, stack,
\* then one per MMIO window.
SpecRegions(spec, stack_bottom) ==
  <<Region(spec.code_base, spec.code_size, "RX"),
    Region(stack_bottom, TASK_STACK_SIZE, "RW")>>
  \o [k \in 1..Len(spec.mmio) |->
        Region(spec.mmio[k].base, spec.mmio[k].size, "RW")]

\* The assertions of PmpConfigBuilder::region, for every region added.
BuilderAccepts(regions) ==
  /\ 4 + Len(regions) <= PMP_COUNT
  /\ \A k \in 1..Len(regions) :
        /\ regions[k].size >= 8
        /\ IsPowerOfTwo(regions[k].size)
        /\ regions[k].base % regions[k].size = 0

\* The configuration PmpConfigBuilder::build returns: next_idx starts at 4.
build(regions) ==
  [i \in TaskEntry |-> IF i - 3 <= Len(regions) THEN regions[i - 3] ELSE NoRegion]
=============================================================================

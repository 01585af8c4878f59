---------------------------- MODULE SchedPolicy ----------------------------
(***************************************************************************)
(* The pure task-selection policy of the scheduler (sched/policy.rs).      *)
(*                                                                         *)
(* The const generic N of the Rust function is the parameter N, an         *)
(* Option<usize> is a slot or NoSlot, and the closure is_ready is the set  *)
(* of the indices it answers true for.                                     *)
(***************************************************************************)
EXTENDS Integers

IDLE_TASK_INDEX == 0

\* Option::None for a task index.
NoSlot == -1

\* The first index the scan looks at: the one after `current`, or the one
\* after idle while the bootstrap context is executing.
ScanStart(N, current) ==
  IF current = NoSlot THEN (IDLE_TASK_INDEX + 1) % N ELSE (current + 1) % N

ScanIndex(N, current, offset) == (ScanStart(N, current) + offset) % N

\* The offsets at which the scan meets a ready task that is not idle.
Hits(N, current, ready) ==
  {offset \in 0..(N - 1) : /\ ScanIndex(N, current, offset) # IDLE_TASK_INDEX
                           /\ ScanIndex(N, current, offset) \in ready}

FirstHit(hits) == CHOOSE o \in hits : \A p \in hits : o <= p

\* The selection that always scans from slot 1: a fixed-priority scheduler.
SelectLowest(N, current, ready) ==
  LET hits == Hits(N, NoSlot, ready)
  IN  IF hits # {} THEN ScanIndex(N, NoSlot, FirstHit(hits))
      ELSE IF IDLE_TASK_INDEX \in ready THEN IDLE_TASK_INDEX ELSE NoSlot

\* The scan that does not skip idle.
SelectWithIdle(N, current, ready) ==
  LET hits == {o \in 0..(N - 1) : ScanIndex(N, current, o) \in ready}
  IN  IF hits # {} THEN ScanIndex(N, current, FirstHit(hits)) ELSE NoSlot

select_next_ready(N, current, ready) ==
  LET hits == Hits(N, current, ready)
  IN  IF N = 0 THEN NoSlot
      ELSE IF hits # {} THEN ScanIndex(N, current, FirstHit(hits))
      ELSE IF IDLE_TASK_INDEX \in ready THEN IDLE_TASK_INDEX
      ELSE NoSlot
=============================================================================

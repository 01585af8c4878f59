---------------------------- MODULE KernelProofs ----------------------------
(***************************************************************************)
(* The inductive invariant of Kernel, the lemmas about the operators its   *)
(* actions are built from, why kmain establishes the invariant, why traps, *)
(* handlers and schedule keep it, and what follows from it: for every      *)
(* number of slots, every list of user tasks and every memory layout that  *)
(* satisfies the assumptions.                                              *)
(***************************************************************************)
EXTENDS Kernel, TLAPS, WellFoundedInduction

(***************************************************************************)
(* The inductive invariant, in named parts.                                *)
(***************************************************************************)

ModeOf(i) == IF i = IDLE_TASK_INDEX THEN "M" ELSE "U"

\* The mstatus every suspended task has: interrupts masked until its mret,
\* which unmasks them and enters the mode of the task.
SuspendedMstatus(i) == [MIE |-> FALSE, MPIE |-> TRUE, MPP |-> ModeOf(i)]

\* Exactly the current task is Running, and idle is never Dead.
TableInv ==
  /\ \A i \in Slot : state[i] = "Running" <=> i = current
  /\ current = NoSlot => \A i \in Slot : state[i] # "Dead"
  /\ state[IDLE_TASK_INDEX] # "Dead"
  /\ current = IDLE_TASK_INDEX =>
       \A i \in Slot \ {IDLE_TASK_INDEX} : state[i] \in {"None", "Dead"}

\* Every slot that holds a task holds a context on its own stack, with the
\* mstatus of its mode, and its stack region in PMP entry 5.
SlotInv ==
  \A i \in Slot : state[i] # "None" =>
    /\ context[i].gpr.sp = stack_top[i]
    /\ context[i].mstatus = SuspendedMstatus(i)
    /\ i # IDLE_TASK_INDEX =>
         /\ 5 \in TaskEntry
         /\ pmp_config[i][5] =
              Region(stack_top[i] - TASK_STACK_SIZE, TASK_STACK_SIZE, "RW")

\* Idle is spawned first, so it gets slot 0; the user tasks follow.
BootInv ==
  /\ state[IDLE_TASK_INDEX] = "None" =>
       /\ \A i \in Slot : state[i] = "None"
       /\ boot # <<>> /\ Head(boot) = IdleSpec /\ Tail(boot) \in Seq(UserSpec)
  /\ state[IDLE_TASK_INDEX] # "None" => boot \in Seq(UserSpec)
  /\ stage = "init" => \A i \in Slot : state[i] = "None"
  /\ stage \in {"init", "spawn"} =>
       /\ current = NoSlot /\ at \in {"kmain", "panic"}
       /\ \A i \in Slot : state[i] \in {"None", "Created"}
  /\ stage \in {"enable", "wfi"} =>
       /\ state[IDLE_TASK_INDEX] \in {"Ready", "Running"}
       /\ boot = <<>>
       /\ \A i \in Slot : state[i] # "Created"

\* What the hart executes determines its privilege, its interrupt mask and
\* whose registers it, or the trap frame, holds.
HartInv ==
  /\ at = "kmain" => /\ current = NoSlot /\ mode = "M"
                     /\ mstatus.MIE <=> stage = "wfi"
  /\ at = "task" => /\ current # NoSlot /\ stage = "wfi"
                    /\ mode = ModeOf(current) /\ mstatus.MIE
                    /\ gpr.sp = stack_top[current]
  /\ at \in {"handler", "return"} =>
       /\ mode = "M" /\ stage = "wfi"
       /\ IF current = NoSlot
          THEN mstatus = [MIE |-> FALSE, MPIE |-> TRUE, MPP |-> "M"]
          ELSE mstatus = SuspendedMstatus(current) /\ frame.sp = stack_top[current]
  /\ at = "handler" /\ current \in {NoSlot, IDLE_TASK_INDEX} => mcause = Interrupt(7)
  /\ at = "return" => current # NoSlot
  /\ at = "panic" => mode = "M" /\ ~mstatus.MIE

\* The PMP entries in force are those of the current task.
PmpInv == current # NoSlot => pmp = load_task_config(pmp_config[current])

\* Stacks lie below the heap pointer, one after the other.
StackInv ==
  /\ stage # "init" => HEAP_START <= heap_next /\ heap_next <= HEAP_END
  /\ \A i \in Slot : state[i] # "None" =>
       /\ HEAP_START <= stack_top[i] - TASK_STACK_SIZE
       /\ stack_top[i] <= heap_next
       /\ \A j \in Slot : state[j] # "None" /\ i # j =>
            \/ stack_top[i] <= stack_top[j] - TASK_STACK_SIZE
            \/ stack_top[j] <= stack_top[i] - TASK_STACK_SIZE

KernelInv ==
  TypeOK /\ TableInv /\ SlotInv /\ BootInv /\ HartInv /\ PmpInv /\ StackInv

-----------------------------------------------------------------------------
(* The address arithmetic of the allocator (HeapOps) *)

\* An address that fits usize is not changed by its width.
LEMMA NoWrap == ASSUME NEW x \in Nat, x < USIZE PROVE x % USIZE = x
  BY UsizeAssumption

\* What the alignment mask does to an address that leaves room for it: the
\* result is not below the address, and less than align above it.
LEMMA AlignUpBounds ==
  ASSUME NEW cur \in Nat, NEW align \in Nat \ {0},
         cur + align - 1 < USIZE
  PROVE  /\ align_up(cur, align) \in Nat
         /\ cur <= align_up(cur, align)
         /\ align_up(cur, align) <= cur + align - 1
<1> DEFINE x == cur + align - 1
<1>1. x \in Nat /\ x % USIZE = x
  BY NoWrap
<1>2. x % align \in 0..(align - 1)
  BY <1>1
<1>3. align_up(cur, align) = x - (x % align)
  BY <1>1 DEF align_up
<1>4. QED
  BY <1>1, <1>2, <1>3

\* The mask leaves a multiple of the alignment.
LEMMA AlignUpAligned ==
  ASSUME NEW cur \in Nat, NEW align \in Nat \ {0},
         cur + align - 1 < USIZE
  PROVE  align_up(cur, align) % align = 0
<1> DEFINE x == cur + align - 1
<1>1. x \in Nat /\ x % USIZE = x
  BY NoWrap
<1>2. align_up(cur, align) = x - (x % align)
  BY <1>1 DEF align_up
<1> HIDE DEF x
<1>3. x = align * (x \div align) + (x % align) /\ x \div align \in Nat
  BY <1>1
<1>4. \A q \in Nat : (align * q) % align = 0
  OBVIOUS
<1>5. x - (x % align) = align * (x \div align)
  BY <1>1, <1>3
<1>6. QED
  BY <1>2, <1>3, <1>4, <1>5

-----------------------------------------------------------------------------
(* The choice of the next task (SchedPolicy) *)

\* The first index of a scan exists: FirstHit is the least offset.
LEMMA FirstHitIsLeast ==
  ASSUME NEW hits \in SUBSET Nat, hits # {}
  PROVE  FirstHit(hits) \in hits /\ \A p \in hits : FirstHit(hits) <= p
<1>1. PICK o \in hits : \A p \in hits : <<p, o>> \notin OpToRel(<, Nat)
  BY NatLessThanWellFounded, WFMin
<1>2. ASSUME NEW p \in hits PROVE o <= p
  <2>1. o \in Nat /\ p \in Nat
    OBVIOUS
  <2>2. p < o => <<p, o>> \in OpToRel(<, Nat)
    BY <2>1 DEF OpToRel
  <2>3. ~(p < o)
    BY <1>1, <2>2
  <2>4. QED
    BY <2>1, <2>3
<1>3. QED
  BY <1>1, <1>2 DEF FirstHit

\* The remainder of an index that has passed the end of the table once.
LEMMA ModOnce ==
  ASSUME NEW N \in Nat \ {0}, NEW x \in 0..(2 * N - 1)
  PROVE  x % N = IF x < N THEN x ELSE x - N
<1>1. CASE x < N
  BY <1>1
<1>2. CASE ~(x < N)
  BY <1>2
<1>3. QED
  BY <1>1, <1>2

\* Wherever it starts, the scan stays in the table and meets every slot.
LEMMA ScanCovers ==
  ASSUME NEW N \in Nat \ {0}, NEW cur \in 0..(N - 1) \cup {NoSlot}
  PROVE  /\ \A o \in 0..(N - 1) : ScanIndex(N, cur, o) \in 0..(N - 1)
         /\ \A j \in 0..(N - 1) :
              \E o \in 0..(N - 1) : ScanIndex(N, cur, o) = j
<1> DEFINE start == ScanStart(N, cur)
<1>1. start \in 0..(N - 1)
  BY DEF ScanStart, NoSlot, IDLE_TASK_INDEX
<1> HIDE DEF start
<1>2. \A o \in 0..(N - 1) :
        ScanIndex(N, cur, o) = IF start + o < N THEN start + o ELSE start + o - N
  <2> TAKE o \in 0..(N - 1)
  <2> DEFINE x == start + o
  <2>1. x \in 0..(2 * N - 1)
    BY <1>1
  <2> HIDE DEF x
  <2>2. x % N = IF x < N THEN x ELSE x - N
    BY <2>1, ModOnce, Zenon
  <2>3. ScanIndex(N, cur, o) = x % N
    BY DEF ScanIndex, x, start
  <2>4. ScanIndex(N, cur, o) = IF x < N THEN x ELSE x - N
    BY <2>2, <2>3
  <2>5. QED
    BY <1>1, <2>1, <2>4 DEF x
<1>3. \A o \in 0..(N - 1) : ScanIndex(N, cur, o) \in 0..(N - 1)
  BY <1>1, <1>2
<1>4. ASSUME NEW j \in 0..(N - 1)
      PROVE  \E o \in 0..(N - 1) : ScanIndex(N, cur, o) = j
  <2>1. CASE j >= start
    <3>1. j - start \in 0..(N - 1)
      BY <1>1, <2>1
    <3>2. ScanIndex(N, cur, j - start) = j
      BY <1>1, <1>2, <3>1
    <3>3. QED
      BY <3>1, <3>2
  <2>2. CASE j < start
    <3>1. j - start + N \in 0..(N - 1)
      BY <1>1, <2>2
    <3>2. ScanIndex(N, cur, j - start + N) = j
      BY <1>1, <1>2, <2>2, <3>1
    <3>3. QED
      BY <3>1, <3>2
  <2>3. QED
    BY <1>1, <2>1, <2>2
<1>5. QED
  BY <1>3, <1>4

\* select_next_ready selects a ready task whenever there is one, and idle only
\* when no other task is ready.
THEOREM SelectIsWorkConserving ==
  ASSUME NEW N \in Nat \ {0}, NEW cur \in 0..(N - 1) \cup {NoSlot},
         NEW ready \in SUBSET (0..(N - 1))
  PROVE  LET next == select_next_ready(N, cur, ready)
         IN  /\ IF ready = {} THEN next = NoSlot ELSE next \in ready
             /\ next = IDLE_TASK_INDEX => ready = {IDLE_TASK_INDEX}
<1> DEFINE hits == Hits(N, cur, ready)
           next == select_next_ready(N, cur, ready)
<1>1. CASE hits # {}
  <2>1. FirstHit(hits) \in hits
    <3>1. hits \in SUBSET Nat
      BY DEF Hits
    <3>2. QED
      BY <1>1, <3>1, FirstHitIsLeast
  <2>2. next = ScanIndex(N, cur, FirstHit(hits))
    BY <1>1 DEF select_next_ready
  <2>3. next \in ready /\ next # IDLE_TASK_INDEX
    BY <2>1, <2>2 DEF Hits
  <2>4. QED
    BY <2>3, Zenon
<1>2. CASE hits = {}
  <2>1. ready \subseteq {IDLE_TASK_INDEX}
    <3>1. SUFFICES ASSUME NEW j \in ready PROVE j = IDLE_TASK_INDEX
      OBVIOUS
    <3>2. PICK o \in 0..(N - 1) : ScanIndex(N, cur, o) = j
      BY ScanCovers, Zenon
    <3>3. o \notin Hits(N, cur, ready)
      BY <1>2
    <3>4. QED
      BY <3>2, <3>3 DEF Hits
  <2>2. next = IF IDLE_TASK_INDEX \in ready THEN IDLE_TASK_INDEX ELSE NoSlot
    BY <1>2 DEF select_next_ready
  <2>3. IDLE_TASK_INDEX # NoSlot
    BY DEF IDLE_TASK_INDEX, NoSlot
  <2> HIDE DEF next
  <2>4. /\ IF ready = {} THEN next = NoSlot ELSE next \in ready
        /\ next = IDLE_TASK_INDEX => ready = {IDLE_TASK_INDEX}
    BY <2>1, <2>2, <2>3, Zenon
  <2>5. QED
    BY <2>4 DEF next
<1>3. QED
  BY <1>1, <1>2

\* How many slots after `current` the scan finds slot i, without remainders;
\* before the first dispatch, slot 0 counts as the next one.
LEMMA DistanceValue ==
  ASSUME NEW N \in Nat \ {0}, NEW cur \in 0..(N - 1) \cup {NoSlot},
         NEW i \in 0..(N - 1)
  PROVE  (i - cur - 1) % N =
           IF i > cur THEN i - cur - 1 ELSE i - cur - 1 + N
<1> DEFINE x == i - cur - 1
<1>1. x \in Int /\ x < N /\ x >= -N /\ (i > cur <=> x >= 0)
  BY DEF NoSlot
<1> HIDE DEF x
<1>2. x % N = IF x >= 0 THEN x ELSE x + N
  <2>1. CASE x >= 0
    BY <1>1, <2>1
  <2>2. CASE ~(x >= 0)
    BY <1>1, <2>2
  <2>3. QED
    BY <2>1, <2>2
<1>3. QED
  BY <1>1, <1>2 DEF x

\* The offset at which the scan meets a slot other than idle's.  Before the
\* first dispatch the scan starts one slot later than the distance counts.
LEMMA OffsetOfSlot ==
  ASSUME NEW N \in Nat \ {0}, NEW cur \in 0..(N - 1) \cup {NoSlot},
         NEW o \in 0..(N - 1), ScanIndex(N, cur, o) # IDLE_TASK_INDEX
  PROVE  LET i == ScanIndex(N, cur, o)
         IN  o = ((i - cur - 1) % N) - IF cur = NoSlot THEN 1 ELSE 0
<1> DEFINE i == ScanIndex(N, cur, o)
           start == ScanStart(N, cur)
           x == start + o
<1>1. start = IF cur + 1 < N
              THEN IF cur = NoSlot THEN 1 % N ELSE cur + 1
              ELSE 0
  BY DEF ScanStart, NoSlot, IDLE_TASK_INDEX
<1>2. start \in 0..(N - 1)
  BY <1>1 DEF NoSlot
<1>3. i \in 0..(N - 1)
  BY ScanCovers, Zenon
<1> HIDE DEF start
<1>4. x \in 0..(2 * N - 1) /\ i = x % N
  BY <1>2 DEF ScanIndex, start
<1> HIDE DEF x, i
<1>5. i = IF x < N THEN x ELSE x - N
  BY <1>4, ModOnce, Zenon
<1>6. (i - cur - 1) % N =
        IF i > cur THEN i - cur - 1 ELSE i - cur - 1 + N
  BY <1>3, DistanceValue
<1>7. i # 0
  BY DEF i, IDLE_TASK_INDEX
<1>8. CASE cur = NoSlot
  <2>1. N # 1 /\ start = 1
    BY <1>1, <1>3, <1>7, <1>8 DEF NoSlot
  <2>2. i = 1 + o /\ (i - cur - 1) % N = i
    BY <1>3, <1>4, <1>5, <1>6, <1>7, <1>8, <2>1 DEF NoSlot, x
  <2>3. QED
    BY <1>8, <2>2 DEF i
<1>9. CASE cur # NoSlot
  <2>1. cur \in 0..(N - 1) /\ start = IF cur + 1 < N THEN cur + 1 ELSE 0
    BY <1>1, <1>9
  <2>2. o = (i - cur - 1) % N
    BY <1>2, <1>3, <1>4, <1>5, <1>6, <2>1 DEF x
  <2>3. QED
    BY <1>3, <1>9, <2>2 DEF i
<1>10. QED
  BY <1>8, <1>9

\* select_next_ready selects the ready task the fewest slots after `current`.
THEOREM SelectIsNearest ==
  ASSUME NEW N \in Nat \ {0}, NEW cur \in 0..(N - 1) \cup {NoSlot},
         NEW ready \in SUBSET (0..(N - 1)), NEW j \in ready \ {IDLE_TASK_INDEX}
  PROVE  LET next == select_next_ready(N, cur, ready)
         IN  (next - cur - 1) % N <= (j - cur - 1) % N
<1> DEFINE hits == Hits(N, cur, ready)
           first == FirstHit(hits)
<1>1. PICK p \in 0..(N - 1) : ScanIndex(N, cur, p) = j
  BY ScanCovers, Zenon
<1>2. p \in hits /\ hits \in SUBSET Nat
  BY <1>1 DEF Hits
<1>3. first \in hits /\ first <= p
  BY <1>2, FirstHitIsLeast
<1>4. select_next_ready(N, cur, ready) = ScanIndex(N, cur, first)
  BY <1>2 DEF select_next_ready
<1> HIDE DEF first
<1>5. first \in 0..(N - 1) /\ ScanIndex(N, cur, first) # IDLE_TASK_INDEX
  BY <1>3 DEF Hits
<1> DEFINE d(i) == (i - cur - 1) % N
<1>6. /\ d(ScanIndex(N, cur, first)) \in Int /\ d(j) \in Int
      /\ first = d(ScanIndex(N, cur, first)) - IF cur = NoSlot THEN 1 ELSE 0
      /\ p = d(j) - IF cur = NoSlot THEN 1 ELSE 0
  <2>1. ScanIndex(N, cur, first) \in 0..(N - 1) /\ j \in 0..(N - 1)
    BY <1>5, ScanCovers, Zenon
  <2>2. d(ScanIndex(N, cur, first)) \in Int /\ d(j) \in Int
    BY <2>1 DEF NoSlot
  <2>3. QED
    BY <1>1, <1>5, <2>2, OffsetOfSlot
<1> HIDE DEF d
<1>7. d(ScanIndex(N, cur, first)) <= d(j)
  BY <1>3, <1>5, <1>6
<1>8. QED
  BY <1>4, <1>7 DEF d

-----------------------------------------------------------------------------
(* Facts about the operators the actions are built from *)

\* Slot 0 exists, and None is no slot.
LEMMA SlotFacts == IDLE_TASK_INDEX \in Slot /\ NoSlot \notin Slot /\ Slot \subseteq Nat
  BY KernelAssumption DEF IDLE_TASK_INDEX, NoSlot, Slot

\* IrqCell::with_lock leaves mstatus as it found it.
LEMMA WithLockRestores == ASSUME NEW m \in Mstatus PROVE with_lock(m) = m
  BY Zenon DEF with_lock, Mstatus

\* Trap entry and mret produce well-formed values of mstatus.
LEMMA MstatusTypes ==
  ASSUME NEW m \in Mstatus, NEW md \in Privilege
  PROVE  TrapMstatus(m, md) \in Mstatus /\ MretMstatus(m) \in Mstatus
  BY DEF TrapMstatus, MretMstatus, Mstatus, Privilege

\* The context of a new task is well formed.
LEMMA NewContextType ==
  ASSUME NEW entry \in Nat, NEW top \in Nat
  PROVE  new_mmode(entry, top) \in ContextType /\ new_umode(entry, top) \in ContextType
  BY DEF new_mmode, new_umode, ContextType, Gpr, GprType, Mstatus, Privilege

\* The empty PMP configuration and the loaded one are well formed.
LEMMA PmpTypes ==
  /\ EmptyPmpConfig \in PmpType
  /\ \A regions \in PmpType : load_task_config(regions) \in PmpType
  BY DEF EmptyPmpConfig, load_task_config, PmpType, RegionType, NoRegion, Region

\* The hart starts in kmain with an empty table.
LEMMA InitInv == Init => KernelInv
<1> SUFFICES ASSUME Init PROVE KernelInv
  OBVIOUS
<1> USE SlotFacts
<1>1. PICK users \in UserSpecLists : boot = SpawnOrder(users)
  BY DEF Init
<1>2. users \in Seq(UserSpec)
  BY KernelAssumption
<1>3. boot \in Seq(SpecType) /\ boot # <<>> /\ Head(boot) = IdleSpec /\ Tail(boot) = users
  BY <1>1, <1>2 DEF SpawnOrder, SpecType
<1>4. TypeOK
  <2>1. /\ NoContext \in ContextType /\ KmainGpr \in GprType /\ HandlerGpr \in GprType
    BY NewContextType, KernelAssumption
       DEF NoContext, KmainGpr, HandlerGpr, Gpr, GprType, NO_BYTE
  <2>2. mstatus \in Mstatus
    BY DEF Init, Mstatus, Privilege
  <2>3. QED
    BY <1>3, <2>1, <2>2, PmpTypes, Zenon
       DEF Init, TypeOK, TaskState, Privilege, Exception
<1>5. TableInv
  BY DEF Init, TableInv
<1>6. SlotInv /\ PmpInv /\ StackInv
  BY DEF Init, SlotInv, PmpInv, StackInv
<1>7. BootInv
  BY <1>2, <1>3, Zenon DEF Init, BootInv
<1>8. HartInv
  BY DEF Init, HartInv
<1>9. QED
  BY <1>4, <1>5, <1>6, <1>7, <1>8 DEF KernelInv

-----------------------------------------------------------------------------
(* kmain *)

\* The heap pointer after a task stack: no wrap-around, and the stack lies
\* between the old pointer and the new one.
LEMMA StackPlacement ==
  ASSUME TypeOK, heap_next <= HEAP_END
  PROVE  /\ StackBottom \in Nat /\ heap_next <= StackBottom
         /\ HeapAfterStack = StackBottom + TASK_STACK_SIZE
<1> USE KernelAssumption, TaskAssumption, UsizeAssumption
<1>1. heap_next \in Nat
  BY DEF TypeOK
<1>2. heap_next + TASK_STACK_SIZE - 1 < USIZE
  BY <1>1
<1>3. /\ StackBottom \in Nat /\ heap_next <= StackBottom
      /\ StackBottom <= heap_next + TASK_STACK_SIZE - 1
  BY <1>1, <1>2, AlignUpBounds DEF StackBottom
<1>4. StackBottom + TASK_STACK_SIZE \in Nat /\ StackBottom + TASK_STACK_SIZE < USIZE
  BY <1>1, <1>3
<1>5. HeapAfterStack = StackBottom + TASK_STACK_SIZE
  BY <1>4, NoWrap DEF HeapAfterStack, new_next, StackBottom
<1>6. QED
  BY <1>3, <1>5

\* Heap, trap vector, PMP and timer set up, or a panic for want of heap.
LEMMA KmainInitInv == KernelInv /\ KmainInit => KernelInv'
<1> SUFFICES ASSUME KernelInv, KmainInit PROVE KernelInv'
  OBVIOUS
<1> USE SlotFacts DEF KernelInv
<1>1. new_next(HEAP_START, 3, 1) \in Nat /\ HEAP_START <= new_next(HEAP_START, 3, 1)
  <2> USE KernelAssumption, TaskAssumption, UsizeAssumption
  <2>1. align_up(HEAP_START, 1) = HEAP_START
    BY AlignUpBounds
  <2>2. (HEAP_START + 3) % USIZE = HEAP_START + 3
    BY NoWrap
  <2>3. QED
    BY <2>1, <2>2 DEF new_next
<1>2. TypeOK'
  BY <1>1, PmpTypes, Zenon DEF KmainInit, HeapAfterTest, TimerInit, set_timer_us,
                               TypeOK, sched, Panic
<1>3. \A i \in Slot : state[i] = "None" /\ state'[i] = "None"
  BY DEF KmainInit, BootInv, sched
<1>4. TableInv' /\ SlotInv' /\ PmpInv'
  BY <1>3 DEF KmainInit, TableInv, SlotInv, BootInv, PmpInv, sched
<1>5. StackInv'
  BY <1>1, <1>3, KernelAssumption DEF KmainInit, HeapAfterTest, StackInv, Panic, sched
<1>6. BootInv'
  BY <1>3 DEF KmainInit, BootInv, Panic, sched
<1>7. HartInv'
  BY DEF KmainInit, HartInv, Panic, sched
<1>8. QED
  BY <1>2, <1>4, <1>5, <1>6, <1>7

\* A panic in TaskSpec::spawn.
LEMMA SpawnPanicsInv == KernelInv /\ SpawnPanics => KernelInv'
<1> SUFFICES ASSUME KernelInv, SpawnPanics PROVE KernelInv'
  OBVIOUS
<1> USE SlotFacts DEF KernelInv
<1>1. /\ heap_next' \in Nat /\ heap_next <= heap_next' /\ heap_next' <= HEAP_END
      /\ heap_next \in Nat /\ HEAP_START <= heap_next
  <2>1. /\ heap_next \in Nat /\ heap_next <= HEAP_END /\ HEAP_START <= heap_next
    BY DEF SpawnPanics, StackInv, TypeOK
  <2>2. CASE StackFits
    BY <2>1, <2>2, StackPlacement, TaskAssumption DEF SpawnPanics, StackFits
  <2>3. CASE ~StackFits
    BY <2>1, <2>3 DEF SpawnPanics
  <2>4. QED
    BY <2>1, <2>2, <2>3
<1>2. TypeOK'
  BY <1>1 DEF SpawnPanics, TypeOK, sched, Panic
<1>3. TableInv' /\ SlotInv' /\ PmpInv' /\ BootInv'
  BY DEF SpawnPanics, TableInv, SlotInv, BootInv, PmpInv, Panic, sched,
         load_task_config
<1>4. StackInv'
  <2>1. stack_top \in [Slot -> Nat]
    BY DEF TypeOK
  <2>2. QED
    BY <1>1, <2>1, KernelAssumption, TaskAssumption DEF SpawnPanics, StackInv, sched
<1>5. HartInv'
  BY DEF SpawnPanics, HartInv, Panic, sched
<1>6. QED
  BY <1>2, <1>3, <1>4, <1>5

\* sched::init makes the Created tasks Ready.
LEMMA SchedInitInv == KernelInv /\ SchedInit => KernelInv'
<1> SUFFICES ASSUME KernelInv, SchedInit PROVE KernelInv'
  OBVIOUS
<1> USE SlotFacts DEF KernelInv
<1>1. mstatus' = mstatus
  BY WithLockRestores DEF SchedInit, TypeOK
<1>2. /\ state \in [Slot -> TaskState] /\ current = NoSlot
      /\ \A i \in Slot : state[i] \in {"None", "Created", "Ready"}
      /\ state[IDLE_TASK_INDEX] # "None"
  BY DEF SchedInit, TypeOK, TableInv, BootInv, TaskState
<1>3. /\ state' \in [Slot -> TaskState]
      /\ \A i \in Slot : /\ state'[i] \in {"None", "Ready"}
                         /\ state'[i] = "None" <=> state[i] = "None"
  BY <1>2 DEF SchedInit, TaskState
<1>4. TypeOK'
  BY <1>1, <1>3 DEF SchedInit, TypeOK
<1>5. TableInv' /\ PmpInv' /\ BootInv'
  BY <1>2, <1>3 DEF SchedInit, TableInv, PmpInv, BootInv
<1>6. SlotInv' /\ StackInv'
  BY <1>3 DEF SchedInit, SlotInv, StackInv
<1>7. HartInv'
  BY <1>1 DEF SchedInit, HartInv
<1>8. QED
  BY <1>4, <1>5, <1>6, <1>7

\* timer::enable_interrupts sets MIE.
LEMMA EnableInterruptsInv == KernelInv /\ EnableInterrupts => KernelInv'
<1> SUFFICES ASSUME KernelInv, EnableInterrupts PROVE KernelInv'
  OBVIOUS
<1> USE SlotFacts DEF KernelInv
<1>1. mstatus' \in Mstatus /\ mstatus'.MIE
  BY Zenon DEF EnableInterrupts, TypeOK, Mstatus
<1>2. TypeOK'
  BY <1>1 DEF EnableInterrupts, TypeOK, sched
<1>3. TableInv' /\ SlotInv' /\ PmpInv' /\ BootInv' /\ StackInv'
  BY DEF EnableInterrupts, TableInv, SlotInv, PmpInv, BootInv, StackInv, sched,
         load_task_config
<1>4. HartInv'
  BY <1>1 DEF EnableInterrupts, HartInv, sched
<1>5. QED
  BY <1>2, <1>3, <1>4

\* The elements of a sequence over a set are members of it.
LEMMA SeqElement ==
  ASSUME NEW S, NEW s \in Seq(S), NEW k \in 1..Len(s)
  PROVE  s[k] \in S
  OBVIOUS

\* The regions of a user task are well formed, and the second one is its
\* stack.
LEMMA SpecRegionsFacts ==
  ASSUME NEW spec \in UserSpec, NEW bottom \in Nat
  PROVE  /\ SpecRegions(spec, bottom) \in Seq(RegionType)
         /\ Len(SpecRegions(spec, bottom)) >= 2
         /\ SpecRegions(spec, bottom)[2] = Region(bottom, TASK_STACK_SIZE, "RW")
<1> USE TaskAssumption
<1> DEFINE fixed == <<Region(spec.code_base, spec.code_size, "RX"),
                      Region(bottom, TASK_STACK_SIZE, "RW")>>
           windows == [k \in 1..Len(spec.mmio) |->
                         Region(spec.mmio[k].base, spec.mmio[k].size, "RW")]
<1>1. spec.mmio \in Seq([base : Nat, size : Nat]) /\ spec.code_base \in Nat
      /\ spec.code_size \in Nat
  BY DEF UserSpec
<1>2. fixed \in Seq(RegionType)
  BY <1>1 DEF RegionType, Region
<1>3. Len(spec.mmio) \in Nat
  BY <1>1
<1>4. ASSUME NEW k \in 1..Len(spec.mmio) PROVE windows[k] \in RegionType
  <2>1. spec.mmio[k] \in [base : Nat, size : Nat]
    BY <1>1, SeqElement, Zenon
  <2>2. QED
    BY <2>1 DEF RegionType, Region
<1>5. windows \in Seq(RegionType)
  <2>1. windows \in [1..Len(spec.mmio) -> RegionType]
    BY <1>4, Zenon
  <2>2. QED
    BY <1>3, <2>1
<1>6. SpecRegions(spec, bottom) = fixed \o windows
  BY DEF SpecRegions
<1>7. Len(fixed) = 2 /\ fixed[2] = Region(bottom, TASK_STACK_SIZE, "RW")
  OBVIOUS
<1> HIDE DEF fixed, windows
<1>8. /\ fixed \o windows \in Seq(RegionType)
      /\ Len(fixed \o windows) = Len(fixed) + Len(windows)
      /\ \A i \in 1..Len(fixed) + Len(windows) :
           (fixed \o windows)[i] = IF i <= Len(fixed) THEN fixed[i]
                                   ELSE windows[i - Len(fixed)]
  BY <1>2, <1>5
<1>9. Len(windows) \in Nat
  BY <1>5
<1>10. QED
  BY <1>6, <1>7, <1>8, <1>9

\* The configuration built from them is well formed and has the stack in
\* entry 5.
LEMMA BuildFacts ==
  ASSUME NEW spec \in UserSpec, NEW bottom \in Nat,
         BuilderAccepts(SpecRegions(spec, bottom))
  PROVE  /\ build(SpecRegions(spec, bottom)) \in PmpType
         /\ 5 \in TaskEntry
         /\ build(SpecRegions(spec, bottom))[5] =
              Region(bottom, TASK_STACK_SIZE, "RW")
<1> DEFINE regions == SpecRegions(spec, bottom)
<1>1. /\ regions \in Seq(RegionType) /\ Len(regions) >= 2
      /\ regions[2] = Region(bottom, TASK_STACK_SIZE, "RW")
  BY SpecRegionsFacts
<1>2. 4 + Len(regions) <= PMP_COUNT
  BY DEF BuilderAccepts
<1> HIDE DEF regions
<1>3. 5 \in TaskEntry
  BY <1>1, <1>2, TaskAssumption DEF TaskEntry
<1>4. build(regions) \in PmpType
  <2>1. NoRegion \in RegionType
    BY DEF NoRegion, Region, RegionType
  <2>2. Len(regions) \in Nat /\ \A k \in 1..Len(regions) : regions[k] \in RegionType
    BY <1>1
  <2>3. \A i \in TaskEntry : i \in Int /\ i - 3 >= 1
    BY TaskAssumption DEF TaskEntry
  <2>4. \A i \in TaskEntry : build(regions)[i] \in RegionType
    BY <2>1, <2>2, <2>3 DEF build
  <2>5. QED
    BY <2>4 DEF build, PmpType
<1>5. build(regions)[5] = regions[2]
  BY <1>1, <1>3 DEF build
<1>6. QED
  BY <1>1, <1>3, <1>4, <1>5 DEF regions

\* What TaskSpec::spawn creates: its slot, stack, context and PMP entries.
NewSlot == FirstHit(FreeSlots)
NewTop == StackBottom + TASK_STACK_SIZE
NewContext ==
  IF Head(boot).mode = "M" THEN new_mmode(Head(boot).entry, NewTop)
  ELSE new_umode(Head(boot).entry, NewTop)
NewPmp ==
  IF Head(boot).mode = "M" THEN EmptyPmpConfig
  ELSE build(SpecRegions(Head(boot), StackBottom))

\* TaskSpec::spawn: idle goes to slot 0, every later task to a higher slot.
LEMMA SpawnEffect ==
  ASSUME KernelInv, Spawn
  PROVE  /\ state' = [state EXCEPT ![NewSlot] = "Created"]
         /\ context' = [context EXCEPT ![NewSlot] = NewContext]
         /\ pmp_config' = [pmp_config EXCEPT ![NewSlot] = NewPmp]
         /\ stack_top' = [stack_top EXCEPT ![NewSlot] = NewTop]
         /\ boot' = Tail(boot) /\ boot # <<>>
         /\ at = "kmain" /\ stage = "spawn" /\ current = NoSlot
         /\ UNCHANGED <<current, at, mode, pc, gpr, mepc, mcause, mstatus, pmp,
                        frame, mtip, mtie, stage>>
         /\ HEAP_START <= heap_next /\ heap_next <= HEAP_END /\ heap_next \in Nat
         /\ StackBottom \in Nat /\ heap_next <= StackBottom /\ NewTop \in Nat
         /\ heap_next' = NewTop /\ NewTop <= HEAP_END
         /\ NewSlot \in Slot /\ state[NewSlot] = "None"
         /\ \A j \in Slot : state[j] = "None" => NewSlot <= j
         /\ \/ /\ NewSlot = IDLE_TASK_INDEX /\ Head(boot) = IdleSpec
               /\ Tail(boot) \in Seq(UserSpec)
            \/ /\ NewSlot # IDLE_TASK_INDEX /\ Head(boot) \in UserSpec
               /\ Tail(boot) \in Seq(UserSpec) /\ state[IDLE_TASK_INDEX] # "None"
         /\ NewContext \in ContextType /\ NewContext.gpr.sp = NewTop
         /\ NewContext.mstatus = SuspendedMstatus(NewSlot)
         /\ NewPmp \in PmpType
         /\ NewSlot # IDLE_TASK_INDEX =>
              /\ 5 \in TaskEntry
              /\ NewPmp[5] = Region(StackBottom, TASK_STACK_SIZE, "RW")
<1> USE SlotFacts DEF KernelInv
<1>1. /\ state' = [state EXCEPT ![NewSlot] = "Created"]
      /\ context' = [context EXCEPT ![NewSlot] = NewContext]
      /\ pmp_config' = [pmp_config EXCEPT ![NewSlot] = NewPmp]
      /\ stack_top' = [stack_top EXCEPT ![NewSlot] = NewTop]
      /\ heap_next' = HeapAfterStack
      /\ boot' = Tail(boot) /\ boot # <<>>
      /\ at = "kmain" /\ stage = "spawn" /\ current = NoSlot
      /\ UNCHANGED <<current, at, mode, pc, gpr, mepc, mcause, pmp, frame,
                     mtip, mtie, stage>>
  BY DEF Spawn, BootInv, NewSlot, NewTop, NewContext, NewPmp
<1>2. mstatus' = mstatus
  BY WithLockRestores DEF Spawn, TypeOK
<1>3. /\ HEAP_START <= heap_next /\ heap_next <= HEAP_END /\ heap_next \in Nat
      /\ HEAP_START \in Nat /\ HEAP_END \in Nat /\ TASK_STACK_SIZE \in Nat \ {0}
  BY <1>1, KernelAssumption, TaskAssumption DEF StackInv, TypeOK
<1>4. /\ StackBottom \in Nat /\ heap_next <= StackBottom /\ NewTop \in Nat
      /\ heap_next' = NewTop /\ NewTop <= HEAP_END
  BY <1>1, <1>3, StackPlacement DEF Spawn, StackFits, NewTop
<1>5. /\ NewSlot \in Slot /\ state[NewSlot] = "None"
      /\ \A j \in Slot : state[j] = "None" => NewSlot <= j
  <2>1. FreeSlots \in SUBSET Nat /\ FreeSlots # {}
    BY Zenon DEF FreeSlots, Spawn
  <2>2. QED
    BY <2>1, FirstHitIsLeast DEF FreeSlots, NewSlot
<1>6. \/ NewSlot = IDLE_TASK_INDEX /\ Head(boot) = IdleSpec /\ Tail(boot) \in Seq(UserSpec)
      \/ NewSlot # IDLE_TASK_INDEX /\ Head(boot) \in UserSpec /\ Tail(boot) \in Seq(UserSpec)
         /\ state[IDLE_TASK_INDEX] # "None"
  <2>1. CASE state[IDLE_TASK_INDEX] = "None"
    <3>1. NewSlot = IDLE_TASK_INDEX
      <4>1. NewSlot \in Nat /\ NewSlot <= IDLE_TASK_INDEX
        BY <1>5, <2>1, Zenon
      <4>2. QED
        BY <4>1 DEF IDLE_TASK_INDEX
    <3>2. QED
      BY <2>1, <3>1 DEF BootInv
  <2>2. CASE state[IDLE_TASK_INDEX] # "None"
    BY <1>1, <1>5, <2>2 DEF BootInv
  <2>3. QED
    BY <2>1, <2>2
<1>7. /\ NewContext \in ContextType /\ NewContext.gpr.sp = NewTop
      /\ NewContext.mstatus = SuspendedMstatus(NewSlot)
      /\ NewPmp \in PmpType
      /\ NewSlot # IDLE_TASK_INDEX =>
           /\ 5 \in TaskEntry
           /\ NewPmp[5] = Region(StackBottom, TASK_STACK_SIZE, "RW")
  <2>1. CASE Head(boot) = IdleSpec /\ NewSlot = IDLE_TASK_INDEX
    <3>1. Head(boot).mode = "M" /\ Head(boot).entry \in Nat
      BY <2>1, KernelAssumption DEF IdleSpec
    <3>2. NewContext = new_mmode(Head(boot).entry, NewTop) /\ NewPmp = EmptyPmpConfig
      BY <3>1, Zenon DEF NewContext, NewPmp
    <3>3. NewContext \in ContextType /\ NewPmp \in PmpType
      BY <1>4, <3>1, <3>2, NewContextType, PmpTypes
    <3>4. NewContext.gpr.sp = NewTop /\ NewContext.mstatus = SuspendedMstatus(NewSlot)
      BY <2>1, <3>2 DEF new_mmode, Gpr, SuspendedMstatus, ModeOf
    <3>5. QED
      BY <2>1, <3>3, <3>4
  <2>2. CASE Head(boot) \in UserSpec /\ NewSlot # IDLE_TASK_INDEX
    <3>1. Head(boot).mode = "U" /\ Head(boot).entry \in Nat
      BY <2>2, KernelAssumption, Zenon DEF UserSpec
    <3>2. NewContext = new_umode(Head(boot).entry, NewTop)
          /\ NewPmp = build(SpecRegions(Head(boot), StackBottom))
      BY <3>1, Zenon DEF NewContext, NewPmp
    <3>3. BuilderAccepts(SpecRegions(Head(boot), StackBottom))
      BY <3>1 DEF Spawn, PmpFits
    <3>4. NewContext \in ContextType
      BY <1>4, <3>1, <3>2, NewContextType
    <3>5. NewContext.gpr.sp = NewTop /\ NewContext.mstatus = SuspendedMstatus(NewSlot)
      BY <2>2, <3>2 DEF new_umode, Gpr, SuspendedMstatus, ModeOf
    <3>6. QED
      BY <1>4, <2>2, <3>2, <3>3, <3>4, <3>5, BuildFacts
  <2>3. QED
    BY <1>6, <2>1, <2>2
<1>8. QED
  BY <1>1, <1>2, <1>3, <1>4, <1>5, <1>6, <1>7

\* The new task is a well-formed one on a stack of its own.
LEMMA SpawnInv == KernelInv /\ Spawn => KernelInv'
<1> SUFFICES ASSUME KernelInv, Spawn PROVE KernelInv'
  OBVIOUS
<1> USE SlotFacts DEF KernelInv
<1>1. /\ state' = [state EXCEPT ![NewSlot] = "Created"]
      /\ context' = [context EXCEPT ![NewSlot] = NewContext]
      /\ pmp_config' = [pmp_config EXCEPT ![NewSlot] = NewPmp]
      /\ stack_top' = [stack_top EXCEPT ![NewSlot] = NewTop]
      /\ boot' = Tail(boot) /\ boot # <<>>
      /\ at = "kmain" /\ stage = "spawn" /\ current = NoSlot
      /\ UNCHANGED <<current, at, mode, pc, gpr, mepc, mcause, pmp, frame,
                     mtip, mtie, stage>>
  BY SpawnEffect
<1>2. mstatus' = mstatus
  BY SpawnEffect
<1>3. /\ HEAP_START <= heap_next /\ heap_next <= HEAP_END /\ heap_next \in Nat
      /\ HEAP_START \in Nat /\ HEAP_END \in Nat /\ TASK_STACK_SIZE \in Nat \ {0}
  BY SpawnEffect, KernelAssumption, TaskAssumption
<1>4. /\ StackBottom \in Nat /\ heap_next <= StackBottom /\ NewTop \in Nat
      /\ heap_next' = NewTop /\ NewTop <= HEAP_END
  BY SpawnEffect
<1>5. /\ NewSlot \in Slot /\ state[NewSlot] = "None"
      /\ \A j \in Slot : state[j] = "None" => NewSlot <= j
  BY SpawnEffect
<1>6. \/ NewSlot = IDLE_TASK_INDEX /\ Head(boot) = IdleSpec /\ Tail(boot) \in Seq(UserSpec)
      \/ NewSlot # IDLE_TASK_INDEX /\ Head(boot) \in UserSpec /\ Tail(boot) \in Seq(UserSpec)
         /\ state[IDLE_TASK_INDEX] # "None"
  BY SpawnEffect
<1>7. /\ NewContext \in ContextType /\ NewContext.gpr.sp = NewTop
      /\ NewContext.mstatus = SuspendedMstatus(NewSlot)
      /\ NewPmp \in PmpType
      /\ NewSlot # IDLE_TASK_INDEX =>
           /\ 5 \in TaskEntry
           /\ NewPmp[5] = Region(StackBottom, TASK_STACK_SIZE, "RW")
  BY SpawnEffect
<1>8. TypeOK'
  <2>1. /\ state \in [Slot -> TaskState] /\ context \in [Slot -> ContextType]
        /\ pmp_config \in [Slot -> PmpType] /\ stack_top \in [Slot -> Nat]
        /\ boot \in Seq(SpecType)
    BY DEF TypeOK
  <2>2. /\ state' \in [Slot -> TaskState] /\ context' \in [Slot -> ContextType]
        /\ pmp_config' \in [Slot -> PmpType] /\ stack_top' \in [Slot -> Nat]
        /\ boot' \in Seq(SpecType)
    BY <1>1, <1>4, <1>5, <1>7, <2>1 DEF TaskState
  <2>3. QED
    BY <1>1, <1>2, <1>4, <2>2 DEF TypeOK
<1>9. /\ \A i \in Slot \ {NewSlot} : /\ state'[i] = state[i] /\ context'[i] = context[i]
                                 /\ pmp_config'[i] = pmp_config[i]
                                 /\ stack_top'[i] = stack_top[i]
      /\ state'[NewSlot] = "Created" /\ context'[NewSlot] = NewContext
      /\ pmp_config'[NewSlot] = NewPmp /\ stack_top'[NewSlot] = NewTop
  BY <1>1, <1>5 DEF TypeOK
<1>10. TableInv'
  BY <1>1, <1>5, <1>9 DEF TableInv
<1>11. SlotInv'
  <2> SUFFICES ASSUME NEW i \in Slot, state'[i] # "None"
               PROVE  /\ context'[i].gpr.sp = stack_top'[i]
                      /\ context'[i].mstatus = SuspendedMstatus(i)
                      /\ i # IDLE_TASK_INDEX =>
                           /\ 5 \in TaskEntry
                           /\ pmp_config'[i][5] =
                                Region(stack_top'[i] - TASK_STACK_SIZE,
                                       TASK_STACK_SIZE, "RW")
    BY DEF SlotInv
  <2>1. CASE i = NewSlot
    <3>1. NewTop - TASK_STACK_SIZE = StackBottom
      BY <1>3, <1>4 DEF NewTop
    <3>2. QED
      BY <1>7, <1>9, <2>1, <3>1
  <2>2. CASE i # NewSlot
    BY <1>9, <2>2 DEF SlotInv
  <2>3. QED
    BY <2>1, <2>2
<1>12. BootInv'
  BY <1>1, <1>5, <1>6, <1>9 DEF BootInv
<1>13. HartInv'
  BY <1>1, <1>2 DEF HartInv
<1>14. PmpInv'
  BY <1>1 DEF PmpInv
<1>15. StackInv'
  <2>1. stack_top \in [Slot -> Nat]
    BY DEF TypeOK
  <2>2. NewTop - TASK_STACK_SIZE = StackBottom /\ heap_next <= NewTop
    BY <1>3, <1>4 DEF NewTop
  <2>3. \A i \in Slot : state'[i] # "None" =>
          HEAP_START <= stack_top'[i] - TASK_STACK_SIZE /\ stack_top'[i] <= heap_next'
    BY <1>3, <1>4, <1>5, <1>9, <2>1, <2>2 DEF StackInv
  <2>4. ASSUME NEW i \in Slot, NEW j \in Slot,
               state'[i] # "None", state'[j] # "None", i # j
        PROVE  \/ stack_top'[i] <= stack_top'[j] - TASK_STACK_SIZE
               \/ stack_top'[j] <= stack_top'[i] - TASK_STACK_SIZE
    <3>1. CASE i = NewSlot
      BY <1>3, <1>4, <1>9, <2>1, <2>2, <2>4, <3>1 DEF StackInv
    <3>2. CASE j = NewSlot
      BY <1>3, <1>4, <1>9, <2>1, <2>2, <2>4, <3>2 DEF StackInv
    <3>3. CASE i # NewSlot /\ j # NewSlot
      BY <1>9, <2>4, <3>3 DEF StackInv
    <3>4. QED
      BY <3>1, <3>2, <3>3
  <2>5. QED
    BY <1>3, <1>4, <2>2, <2>3, <2>4 DEF StackInv
<1>16. QED
  BY <1>8, <1>10, <1>11, <1>12, <1>13, <1>14, <1>15
-----------------------------------------------------------------------------
(* Traps *)

\* Once the kernel is up, a step that leaves the task table, the PMP entries
\* and the heap alone keeps what is known of them.
LEMMA TableKept ==
  ASSUME TableInv, SlotInv, BootInv, PmpInv, StackInv,
         stage = "wfi" \/ UNCHANGED at,
         UNCHANGED <<sched, pmp, stage, boot, heap_next>>
  PROVE  TableInv' /\ SlotInv' /\ PmpInv' /\ BootInv' /\ StackInv'
<1>1. /\ UNCHANGED current /\ UNCHANGED state /\ UNCHANGED context
      /\ UNCHANGED pmp_config /\ UNCHANGED stack_top
      /\ UNCHANGED pmp /\ UNCHANGED stage /\ UNCHANGED boot /\ UNCHANGED heap_next
  BY DEF sched
<1>2. TableInv'
  BY <1>1 DEF TableInv
<1>3. SlotInv'
  BY <1>1 DEF SlotInv
<1>4. PmpInv'
  BY <1>1 DEF PmpInv, load_task_config
<1>5. BootInv'
  BY <1>1 DEF BootInv
<1>6. StackInv'
  BY <1>1 DEF StackInv
<1>7. QED
  BY <1>2, <1>3, <1>4, <1>5, <1>6

\* The same for the types, when the registers keep theirs.
LEMMA TypeKept ==
  ASSUME TypeOK, UNCHANGED <<sched, pmp, stage, boot, heap_next>>,
         at' \in {"kmain", "task", "handler", "return", "panic"},
         mode' \in Privilege, pc' \in Nat, mepc' \in Nat,
         gpr' \in GprType, frame' \in GprType,
         mcause' \in [is_interrupt : BOOLEAN, code : Nat], mstatus' \in Mstatus,
         mtip' \in BOOLEAN, mtie' \in BOOLEAN
  PROVE  TypeOK'
<1>1. /\ UNCHANGED current /\ UNCHANGED state /\ UNCHANGED context
      /\ UNCHANGED pmp_config /\ UNCHANGED stack_top
      /\ UNCHANGED pmp /\ UNCHANGED stage /\ UNCHANGED boot /\ UNCHANGED heap_next
  BY DEF sched
<1>2. QED
  BY <1>1, Zenon DEF TypeOK

\* The values the handlers leave in the registers.
LEMMA HandlerGprType == HandlerGpr \in GprType
  BY DEF HandlerGpr, Gpr, GprType, NO_BYTE

\* Outside the handlers a trap stacks the mstatus of the interrupted task.
LEMMA TrapEntryInv ==
  ASSUME KernelInv, at = "task" \/ (at = "kmain" /\ stage = "wfi"),
         NEW cause \in [is_interrupt : BOOLEAN, code : Nat],
         current \in {NoSlot, IDLE_TASK_INDEX} => cause = Interrupt(7),
         TrapEntry(cause)
  PROVE  KernelInv'
<1> USE SlotFacts DEF KernelInv
<1>1. /\ mstatus \in Mstatus /\ mode \in Privilege /\ mstatus.MIE = TRUE
  BY DEF TypeOK, HartInv, Mstatus
<1>2. mstatus' = [MIE |-> FALSE, MPIE |-> TRUE, MPP |-> mode]
  BY <1>1, Zenon DEF TrapEntry, TrapMstatus
<1>3. TypeOK'
  <2>1. mstatus' \in Mstatus
    BY <1>1, MstatusTypes DEF TrapEntry
  <2>2. /\ TypeOK /\ mode' \in Privilege /\ pc' \in Nat /\ mepc' \in Nat
        /\ gpr' \in GprType /\ frame' \in GprType /\ at' = "handler"
        /\ mcause' \in [is_interrupt : BOOLEAN, code : Nat]
        /\ mtip' \in BOOLEAN /\ mtie' \in BOOLEAN
        /\ UNCHANGED <<sched, pmp, stage, boot, heap_next>>
    BY HandlerGprType DEF TrapEntry, TypeOK, Privilege
  <2>3. QED
    BY <2>1, <2>2, TypeKept
<1>4. TableInv' /\ SlotInv' /\ PmpInv' /\ BootInv' /\ StackInv'
  <2>1. stage = "wfi" /\ UNCHANGED <<sched, pmp, stage, boot, heap_next>>
    BY DEF TrapEntry, HartInv
  <2>2. QED
    BY <2>1, TableKept
<1>5. HartInv'
  <2>1. CASE at = "task"
    BY <1>2, <2>1 DEF TrapEntry, HartInv, SuspendedMstatus, sched
  <2>2. CASE at = "kmain" /\ stage = "wfi"
    BY <1>2, <2>2 DEF TrapEntry, HartInv, SuspendedMstatus, sched
  <2>3. QED
    BY <2>1, <2>2
<1>6. QED
  BY <1>3, <1>4, <1>5

\* The timer interrupts kmain's wfi loop or a task, nothing else.
LEMMA TimerTrapInv == KernelInv /\ TimerTrap => KernelInv'
<1> SUFFICES ASSUME KernelInv, TimerTrap PROVE KernelInv'
  OBVIOUS
<1>1. at = "task" \/ (at = "kmain" /\ stage = "wfi")
  <2>1. at \in {"kmain", "task", "handler", "return", "panic"}
    BY DEF KernelInv, TypeOK
  <2>2. mode = "U" \/ mstatus.MIE
    BY DEF TimerTrap, InterruptsOn
  <2>3. at \notin {"handler", "return", "panic"}
    BY <2>2 DEF KernelInv, HartInv, SuspendedMstatus
  <2>4. at = "kmain" => stage = "wfi"
    BY <2>2 DEF KernelInv, HartInv
  <2>5. QED
    BY <2>1, <2>3, <2>4
<1>2. Interrupt(7) \in [is_interrupt : BOOLEAN, code : Nat]
  BY DEF Interrupt
<1>3. QED
  BY <1>1, <1>2, TrapEntryInv DEF TimerTrap

\* An exception of user code.
LEMMA UserTrapInv == KernelInv /\ UserTrap => KernelInv'
<1> SUFFICES ASSUME KernelInv, UserTrap PROVE KernelInv'
  OBVIOUS
<1>1. PICK code \in UserExceptions : TrapEntry(Exception(code))
  BY DEF UserTrap
<1>2. Exception(code) \in [is_interrupt : BOOLEAN, code : Nat]
  BY DEF Exception, UserExceptions
<1>3. at = "task" /\ current \notin {NoSlot, IDLE_TASK_INDEX}
  BY DEF UserTrap, UserRuns, KernelInv, HartInv
<1>4. QED
  BY <1>1, <1>2, <1>3, TrapEntryInv

\* The timer interrupts a task or kmain's wfi loop; an exception is that of a
\* user task.
LEMMA TrapCause ==
  ASSUME KernelInv, TimerTrap \/ UserTrap
  PROVE  \E cause \in [is_interrupt : BOOLEAN, code : Nat] :
           /\ TrapEntry(cause)
           /\ at = "task" \/ (at = "kmain" /\ current = NoSlot)
           /\ current \notin Slot \ {IDLE_TASK_INDEX} => cause = Interrupt(7)
<1>1. CASE TimerTrap
  <2>1. at \in {"task", "kmain"}
    BY <1>1, SMTT(30) DEF TimerTrap, InterruptsOn, KernelInv, HartInv, TypeOK, SuspendedMstatus
  <2>2. at = "kmain" => current = NoSlot
    BY Zenon DEF KernelInv, HartInv
  <2>3. QED
    BY <1>1, <2>1, <2>2, Zenon DEF TimerTrap, Interrupt
<1>2. CASE UserTrap
  <2>1. PICK code \in UserExceptions : TrapEntry(Exception(code))
    BY <1>2 DEF UserTrap
  <2>2. Exception(code) \in [is_interrupt : BOOLEAN, code : Nat]
    BY DEF Exception, UserExceptions
  <2>3. at = "task" /\ current \in Slot \ {IDLE_TASK_INDEX}
    BY <1>2, SMTT(20) DEF UserTrap, UserRuns, KernelInv, HartInv, TypeOK
  <2>4. QED
    BY <2>1, <2>2, <2>3
<1>3. QED
  BY <1>1, <1>2

\* mret enters the current task in its mode, with interrupts on.
LEMMA TrapReturnInv == KernelInv /\ TrapReturn => KernelInv'
<1> SUFFICES ASSUME KernelInv, TrapReturn PROVE KernelInv'
  OBVIOUS
<1> USE SlotFacts DEF KernelInv
<1>1. /\ at = "return" /\ current # NoSlot /\ stage = "wfi"
      /\ mstatus = SuspendedMstatus(current) /\ frame.sp = stack_top[current]
  BY Zenon DEF TrapReturn, HartInv
<1>2. mode' = ModeOf(current) /\ mstatus'.MIE = TRUE
  BY <1>1 DEF TrapReturn, MretMstatus, SuspendedMstatus
<1>3. TypeOK'
  <2>1. mstatus' \in Mstatus
    BY MstatusTypes DEF TrapReturn, TypeOK
  <2>2. mode' \in Privilege
    BY <1>2 DEF ModeOf, Privilege
  <2>3. /\ TypeOK /\ pc' \in Nat /\ mepc' \in Nat
        /\ gpr' \in GprType /\ frame' \in GprType /\ at' \in {"kmain", "task"}
        /\ mcause' \in [is_interrupt : BOOLEAN, code : Nat]
        /\ mtip' \in BOOLEAN /\ mtie' \in BOOLEAN
        /\ UNCHANGED <<sched, pmp, stage, boot, heap_next>>
    BY HandlerGprType DEF TrapReturn, TypeOK
  <2>4. QED
    BY <2>1, <2>2, <2>3, TypeKept
<1>4. TableInv' /\ SlotInv' /\ PmpInv' /\ BootInv' /\ StackInv'
  <2>1. UNCHANGED <<sched, pmp, stage, boot, heap_next>>
    BY DEF TrapReturn
  <2>2. QED
    BY <1>1, <2>1, TableKept
<1>5. HartInv'
  BY <1>1, <1>2 DEF TrapReturn, HartInv, sched
<1>6. QED
  BY <1>3, <1>4, <1>5

\* An instruction of user code changes only registers, and never sp.
LEMMA UserStepInv == KernelInv /\ UserStep => KernelInv'
<1> SUFFICES ASSUME KernelInv, UserStep PROVE KernelInv'
  OBVIOUS
<1> USE SlotFacts DEF KernelInv
<1>1. gpr' \in GprType /\ gpr'.sp = gpr.sp /\ pc' \in Nat
  BY KernelAssumption, Zenon DEF UserStep, TypeOK, GprType
<1>2. TypeOK'
  <2>1. /\ TypeOK /\ at' \in {"kmain", "task", "handler", "return", "panic"}
        /\ mode' \in Privilege /\ mepc' \in Nat /\ frame' \in GprType
        /\ mcause' \in [is_interrupt : BOOLEAN, code : Nat] /\ mstatus' \in Mstatus
        /\ mtip' \in BOOLEAN /\ mtie' \in BOOLEAN
        /\ UNCHANGED <<sched, pmp, stage, boot, heap_next>>
    <3>1. UNCHANGED <<sched, at, mode, mepc, mcause, mstatus, pmp, frame, mtip, mtie,
                      stage, boot, heap_next>>
      BY DEF UserStep
    <3>2. QED
      BY <3>1 DEF TypeOK
  <2>2. QED
    BY <1>1, <2>1, TypeKept
<1>3. TableInv' /\ SlotInv' /\ PmpInv' /\ BootInv' /\ StackInv'
  <2>1. UNCHANGED <<sched, pmp, stage, boot, heap_next>> /\ UNCHANGED at
    BY DEF UserStep
  <2>2. QED
    BY <2>1, TableKept
<1>4. HartInv'
  BY <1>1 DEF UserStep, HartInv, sched
<1>5. QED
  BY <1>2, <1>3, <1>4

\* The timer's pending bit, and the wfi loops.
LEMMA IdleStepsInv == KernelInv /\ (TimerExpires \/ Wfi \/ UNCHANGED vars) => KernelInv'
<1> SUFFICES ASSUME KernelInv, TimerExpires \/ Wfi \/ UNCHANGED vars PROVE KernelInv'
  OBVIOUS
<1>1. UNCHANGED <<sched, hart, mtie, stage, boot, heap_next>> /\ mtip' \in BOOLEAN
  BY Zenon DEF TimerExpires, Wfi, vars, KernelInv, TypeOK
<1>2. TypeOK'
  BY <1>1 DEF KernelInv, TypeOK, sched, hart
<1>3. TableInv' /\ SlotInv' /\ PmpInv' /\ BootInv' /\ StackInv'
  <2>1. UNCHANGED <<sched, pmp, stage, boot, heap_next>> /\ UNCHANGED at
    BY <1>1, SMTT(20) DEF hart
  <2>2. QED
    BY <2>1, TableKept DEF KernelInv
<1>4. HartInv'
  BY <1>1, Zenon DEF KernelInv, HartInv, sched, hart
<1>5. QED
  BY <1>2, <1>3, <1>4 DEF KernelInv

-----------------------------------------------------------------------------
(* The scheduler and the handlers *)

\* The task schedule selects on task table st.
Selected(st) == select_next_ready(MAX_TASKS, current, ReadySet(Yielded(st)))

\* schedule, called by a handler on task table st: either the table as it is,
\* or with the current user task killed.  It saves the interrupted context in
\* the slot of the current task alone, and always finds a task to run, since
\* idle is Ready whenever it is not the one interrupted.
LEMMA ScheduleEffect ==
  ASSUME KernelInv, at = "handler", NEW st,
         \/ st = state
         \/ st = Killed /\ current \in Slot \ {IDLE_TASK_INDEX},
         schedule(st, mstatus)
  PROVE  LET yielded == Yielded(st)
             saved == Saved(st, mstatus)
             next == Selected(st)
         IN  /\ yielded \in [Slot -> TaskState]
             /\ \A i \in Slot : i # current => yielded[i] = state[i]
             /\ \A i \in Slot : yielded[i] # "Running"
             /\ current # NoSlot =>
                  yielded[current] = IF st = state THEN "Ready" ELSE "Dead"
             /\ yielded[IDLE_TASK_INDEX] = "Ready"
             /\ \A i \in Slot : yielded[i] = "None" <=> state[i] = "None"
             /\ saved \in [Slot -> ContextType]
             /\ \A i \in Slot : i # current => saved[i] = context[i]
             /\ current # NoSlot => saved[current] = Interrupted(mstatus)
             /\ next \in Slot /\ yielded[next] = "Ready"
             /\ next = IDLE_TASK_INDEX =>
                  \A i \in Slot \ {IDLE_TASK_INDEX} : yielded[i] # "Ready"
             /\ context' = saved /\ UNCHANGED <<pmp_config, stack_top>>
             /\ state' = [yielded EXCEPT ![next] = "Running"]
             /\ current' = next
             /\ pmp' = load_task_config(pmp_config[next])
             /\ frame' = saved[next].gpr
             /\ mepc' = saved[next].mepc
             /\ mstatus' = saved[next].mstatus
<1> USE SlotFacts DEF KernelInv
<1> DEFINE yielded == Yielded(st)
           saved == Saved(st, mstatus)
           next == Selected(st)
<1>1. /\ state \in [Slot -> TaskState] /\ context \in [Slot -> ContextType]
      /\ current \in Slot \cup {NoSlot} /\ mstatus \in Mstatus
      /\ frame \in GprType /\ mepc \in Nat
      /\ stage = "wfi"
  BY DEF TypeOK, HartInv
\* After the save nobody is Running, and only current has changed.
<1>2. /\ yielded \in [Slot -> TaskState]
      /\ \A i \in Slot : i # current => yielded[i] = state[i]
      /\ \A i \in Slot : yielded[i] # "Running"
      /\ current # NoSlot =>
           yielded[current] = IF st = state THEN "Ready" ELSE "Dead"
      /\ yielded[IDLE_TASK_INDEX] = "Ready"
  <2>1. state[IDLE_TASK_INDEX] \in {"Ready", "Running"}
    BY <1>1 DEF BootInv
  <2>2. CASE st = state
    BY <1>1, <2>1, <2>2 DEF Yielded, TableInv, TaskState
  <2>3. CASE st = Killed /\ current \in Slot \ {IDLE_TASK_INDEX}
    <3>1. state[current] = "Running"
      BY <2>3 DEF TableInv
    <3>2. st = [state EXCEPT ![current] = "Dead"]
      BY <2>3, <3>1 DEF Killed
    <3>3. yielded = st /\ st # state
      BY <1>1, <2>3, <3>1, <3>2 DEF Yielded
    <3>4. QED
      BY <1>1, <2>1, <2>3, <3>2, <3>3, ZenonT(30) DEF TableInv, TaskState
  <2>4. QED
    BY <2>2, <2>3
<1>3. \A i \in Slot : yielded[i] = "None" <=> state[i] = "None"
  BY <1>1, <1>2 DEF TableInv
<1>4. /\ saved \in [Slot -> ContextType]
      /\ \A i \in Slot : i # current => saved[i] = context[i]
      /\ current # NoSlot => saved[current] = Interrupted(mstatus)
  <2>1. CASE current = NoSlot
    BY <1>1, <2>1 DEF Saved
  <2>2. CASE current # NoSlot
    <3>1. current \in Slot /\ st[current] # "None"
      BY <1>1, <2>2 DEF TableInv, Killed
    <3>2. saved = [context EXCEPT ![current] = Interrupted(mstatus)]
      BY <2>2, <3>1 DEF Saved
    <3>3. Interrupted(mstatus) \in ContextType
      BY <1>1 DEF Interrupted, ContextType
    <3>4. QED
      BY <1>1, <3>1, <3>2, <3>3
  <2>3. QED
    BY <2>1, <2>2
<1> HIDE DEF yielded, saved
<1>5. /\ next \in Slot /\ yielded[next] = "Ready"
      /\ next = IDLE_TASK_INDEX =>
           \A i \in Slot \ {IDLE_TASK_INDEX} : yielded[i] # "Ready"
  <2>1. /\ ReadySet(yielded) \in SUBSET (0..(MAX_TASKS - 1))
        /\ IDLE_TASK_INDEX \in ReadySet(yielded)
    BY <1>2 DEF ReadySet, Slot
  <2>2. current \in 0..(MAX_TASKS - 1) \cup {NoSlot} /\ MAX_TASKS \in Nat \ {0}
    BY <1>1, KernelAssumption DEF Slot
  <2>3. /\ next \in ReadySet(yielded)
        /\ next = IDLE_TASK_INDEX => ReadySet(yielded) = {IDLE_TASK_INDEX}
    BY <2>1, <2>2, SelectIsWorkConserving DEF Selected, yielded
  <2>4. QED
    BY <2>3 DEF ReadySet
<1>6. /\ context' = saved /\ UNCHANGED <<pmp_config, stack_top>>
      /\ state' = [yielded EXCEPT ![next] = "Running"]
      /\ current' = next
      /\ pmp' = load_task_config(pmp_config[next])
      /\ frame' = saved[next].gpr
      /\ mepc' = saved[next].mepc
      /\ mstatus' = saved[next].mstatus
  BY <1>5 DEF schedule, SwitchTo, yielded, saved, Selected
<1> HIDE DEF next
<1>7. QED
  BY <1>2, <1>3, <1>4, <1>5, <1>6 DEF yielded, saved, next

\* The switch preserves the invariant.
LEMMA ScheduleInv ==
  ASSUME KernelInv, at = "handler", NEW st,
         \/ st = state
         \/ st = Killed /\ current \in Slot \ {IDLE_TASK_INDEX},
         schedule(st, mstatus), at' = "return", mtip' \in BOOLEAN,
         UNCHANGED <<mode, pc, gpr, mcause, mtie, stage, boot, heap_next>>
  PROVE  KernelInv'
<1> USE SlotFacts DEF KernelInv
<1> DEFINE yielded == Yielded(st)
           saved == Saved(st, mstatus)
           next == Selected(st)
<1>1. /\ state \in [Slot -> TaskState] /\ context \in [Slot -> ContextType]
      /\ pmp_config \in [Slot -> PmpType] /\ stack_top \in [Slot -> Nat]
      /\ current \in Slot \cup {NoSlot} /\ mstatus \in Mstatus
      /\ frame \in GprType /\ mepc \in Nat
      /\ stage = "wfi" /\ mode = "M"
  BY DEF TypeOK, HartInv
<1> HIDE DEF yielded, saved, next
<1>2. /\ yielded \in [Slot -> TaskState]
      /\ \A i \in Slot : i # current => yielded[i] = state[i]
      /\ \A i \in Slot : yielded[i] # "Running"
      /\ current # NoSlot => yielded[current] \in {"Ready", "Dead"}
      /\ yielded[IDLE_TASK_INDEX] = "Ready"
  BY ScheduleEffect DEF yielded
<1>3. \A i \in Slot : yielded[i] = "None" <=> state[i] = "None"
  BY ScheduleEffect DEF yielded
<1>4. /\ saved \in [Slot -> ContextType]
      /\ \A i \in Slot : i # current => saved[i] = context[i]
      /\ current # NoSlot => saved[current].gpr = frame /\ saved[current].mstatus = mstatus
  BY ScheduleEffect DEF saved, Interrupted
<1>5. /\ next \in Slot /\ yielded[next] = "Ready"
      /\ next = IDLE_TASK_INDEX =>
           \A i \in Slot \ {IDLE_TASK_INDEX} : yielded[i] # "Ready"
  BY ScheduleEffect DEF yielded, next
<1>6. /\ context' = saved /\ UNCHANGED <<pmp_config, stack_top>>
      /\ state' = [yielded EXCEPT ![next] = "Running"]
      /\ current' = next
      /\ pmp' = load_task_config(pmp_config[next])
      /\ frame' = saved[next].gpr
      /\ mepc' = saved[next].mepc
      /\ mstatus' = saved[next].mstatus
  BY ScheduleEffect, SMTT(20) DEF yielded, saved, next
<1>7. SlotInv'
  <2> SUFFICES ASSUME NEW i \in Slot, state'[i] # "None"
               PROVE  /\ saved[i].gpr.sp = stack_top[i]
                      /\ saved[i].mstatus = SuspendedMstatus(i)
                      /\ i # IDLE_TASK_INDEX =>
                           /\ 5 \in TaskEntry
                           /\ pmp_config[i][5] =
                                Region(stack_top[i] - TASK_STACK_SIZE,
                                       TASK_STACK_SIZE, "RW")
    BY <1>6 DEF SlotInv
  <2>1. state[i] # "None"
    BY <1>2, <1>3, <1>5, <1>6
  <2>2. CASE i = current
    BY <1>4, <2>1, <2>2, Zenon DEF HartInv, SlotInv
  <2>3. CASE i # current
    BY <1>4, <2>1, <2>3 DEF SlotInv
  <2>4. QED
    BY <2>2, <2>3, Zenon
<1>8. TypeOK'
  <2>1. /\ state' \in [Slot -> TaskState] /\ context' \in [Slot -> ContextType]
        /\ current' \in Slot
    BY <1>2, <1>4, <1>5, <1>6 DEF TaskState
  <2>2. pmp' \in PmpType
    BY <1>1, <1>5, <1>6, PmpTypes, SMTT(20)
  <2>3. frame' \in GprType /\ mepc' \in Nat /\ mstatus' \in Mstatus
    BY <1>4, <1>5, <1>6, Zenon DEF ContextType
  <2>4. /\ pmp_config' \in [Slot -> PmpType] /\ stack_top' \in [Slot -> Nat]
        /\ mode' \in Privilege /\ pc' \in Nat /\ gpr' \in GprType
        /\ mcause' \in [is_interrupt : BOOLEAN, code : Nat]
        /\ mtie' \in BOOLEAN /\ stage' \in {"init", "spawn", "enable", "wfi"}
        /\ boot' \in Seq(SpecType) /\ heap_next' \in Nat
    BY <1>6 DEF TypeOK
  <2>5. QED
    BY <2>1, <2>2, <2>3, <2>4, Zenon DEF TypeOK
<1>9. TableInv'
  BY <1>1, <1>2, <1>5, <1>6, SMTT(30) DEF TableInv, BootInv, TaskState
<1>10. BootInv'
  BY <1>1, <1>2, <1>3, <1>5, <1>6, SMTT(20) DEF BootInv
<1>11. HartInv'
  <2>1. state'[next] # "None"
    BY <1>2, <1>5, <1>6, SMTT(20)
  <2>2. mstatus' = SuspendedMstatus(next) /\ frame'.sp = stack_top'[next]
    BY <1>5, <1>6, <1>7, <2>1, Zenon DEF SlotInv
  <2>3. QED
    BY <1>1, <1>5, <1>6, <2>2, Zenon DEF HartInv
<1>12. PmpInv'
  BY <1>6, Zenon DEF PmpInv, load_task_config
<1>13. StackInv'
  BY <1>2, <1>3, <1>5, <1>6 DEF StackInv
<1>14. QED
  BY <1>7, <1>8, <1>9, <1>10, <1>11, <1>12, <1>13

\* The timer handler: mtimecmp moved, then schedule.
LEMMA HandleTimerInv == KernelInv /\ HandleTimer => KernelInv'
  BY ScheduleInv, Zenon DEF HandleTimer, set_timer_us, Handling

\* An exception is always that of a user task.
LEMMA ExceptionIsUsers ==
  ASSUME KernelInv, at = "handler", ~mcause.is_interrupt
  PROVE  /\ current \in Slot \ {IDLE_TASK_INDEX} /\ stage = "wfi" /\ mode = "M"
         /\ mstatus = SuspendedMstatus(current) /\ frame.sp = stack_top[current]
  BY SMTT(30) DEF KernelInv, HartInv, TypeOK, Interrupt

\* An access fault kills the task that raised it.
LEMMA HandleAccessFaultInv == KernelInv /\ HandleAccessFault => KernelInv'
<1> SUFFICES ASSUME KernelInv, HandleAccessFault PROVE KernelInv'
  OBVIOUS
<1>1. at = "handler" /\ ~mcause.is_interrupt
  BY DEF HandleAccessFault, Handling, Exception
<1>2. /\ current \in Slot \ {IDLE_TASK_INDEX}
      /\ mstatus = SuspendedMstatus(current)
  BY <1>1, ExceptionIsUsers
<1>3. mstatus.MPP = "U"
  BY <1>2 DEF SuspendedMstatus, ModeOf
<1>4. kill_current /\ at' = "return"
      /\ UNCHANGED <<mode, pc, gpr, mcause, mtip, mtie, stage, boot, heap_next>>
  BY <1>3 DEF HandleAccessFault
<1>5. schedule(Killed, mstatus)
  <2>1. with_lock(mstatus) = mstatus
    BY WithLockRestores DEF KernelInv, TypeOK
  <2>2. QED
    BY <1>4, <2>1 DEF kill_current
<1>6. mtip' \in BOOLEAN
  BY <1>4 DEF KernelInv, TypeOK
<1>7. QED
  BY <1>1, <1>2, <1>4, <1>5, <1>6, ScheduleInv

\* An access fault is that of a user task, and its handler calls schedule with
\* that task Dead.
LEMMA FaultKills ==
  ASSUME KernelInv, HandleAccessFault
  PROVE  /\ current \in Slot \ {IDLE_TASK_INDEX} /\ state[current] = "Running"
         /\ schedule(Killed, mstatus) /\ at' = "return"
<1>1. at = "handler" /\ ~mcause.is_interrupt
  BY DEF HandleAccessFault, Handling, Exception
<1>2. /\ current \in Slot \ {IDLE_TASK_INDEX} /\ mstatus = SuspendedMstatus(current)
  BY <1>1, ExceptionIsUsers
<1>3. mstatus.MPP = "U" /\ state[current] = "Running"
  BY <1>2 DEF SuspendedMstatus, ModeOf, KernelInv, TableInv
<1>4. with_lock(mstatus) = mstatus
  BY WithLockRestores DEF KernelInv, TypeOK
<1>5. QED
  BY <1>2, <1>3, <1>4 DEF HandleAccessFault, kill_current

\* A system call and a skipped instruction return to the task that trapped.
LEMMA HandleSyscallInv == KernelInv /\ (HandleSyscall \/ HandleSkip) => KernelInv'
<1> SUFFICES ASSUME KernelInv, HandleSyscall \/ HandleSkip PROVE KernelInv'
  OBVIOUS
<1> USE SlotFacts DEF KernelInv
<1>1. /\ at = "handler" /\ ~mcause.is_interrupt
      /\ mepc' = mepc + 4 /\ at' = "return"
      /\ UNCHANGED <<sched, mode, pc, gpr, mcause, mstatus, pmp, mtip, mtie, stage,
                     boot, heap_next>>
  BY DEF HandleSyscall, HandleSkip, Handling, Exception
<1>2. /\ current \in Slot \ {IDLE_TASK_INDEX} /\ stage = "wfi" /\ mode = "M"
      /\ mstatus = SuspendedMstatus(current) /\ frame.sp = stack_top[current]
  BY <1>1, ExceptionIsUsers
<1>3. frame' \in GprType /\ frame'.sp = frame.sp
  <2>1. frame \in GprType
    BY DEF TypeOK
  <2>2. CASE UNCHANGED frame
    BY <2>1, <2>2
  <2>3. CASE \E byte \in GetcResults : frame' = [frame EXCEPT !.a0 = byte]
    <3>1. \A byte \in GetcResults : byte \in Nat
      BY KernelAssumption DEF GetcResults, NO_BYTE
    <3>2. PICK byte \in GetcResults : frame' = [frame EXCEPT !.a0 = byte]
      BY <2>3
    <3>3. QED
      BY <2>1, <3>1, <3>2, Zenon DEF GprType
  <2>4. QED
    BY <2>2, <2>3 DEF HandleSyscall, HandleSkip
<1>4. TypeOK'
  <2>1. mepc \in Nat
    BY DEF TypeOK
  <2>2. /\ mode' \in Privilege /\ pc' \in Nat /\ gpr' \in GprType
        /\ mcause' \in [is_interrupt : BOOLEAN, code : Nat] /\ mstatus' \in Mstatus
        /\ mtip' \in BOOLEAN /\ mtie' \in BOOLEAN
    BY <1>1, Zenon DEF TypeOK
  <2>3. QED
    BY <1>1, <1>3, <2>1, <2>2, TypeKept
<1>5. TableInv' /\ SlotInv' /\ PmpInv' /\ BootInv' /\ StackInv'
  BY <1>1, <1>2, TableKept, Zenon
<1>6. HartInv'
  BY <1>1, <1>2, <1>3, Zenon DEF HartInv, sched
<1>7. QED
  BY <1>4, <1>5, <1>6

\* An exception the kernel does not handle is a panic with interrupts masked.
LEMMA HandleFatalInv == KernelInv /\ HandleFatal => KernelInv'
<1> SUFFICES ASSUME KernelInv, HandleFatal PROVE KernelInv'
  OBVIOUS
<1> USE SlotFacts DEF KernelInv
<1>1. /\ mode = "M" /\ stage = "wfi" /\ mstatus = SuspendedMstatus(current)
  BY ExceptionIsUsers, Zenon DEF HandleFatal
<1>2. TypeOK'
  BY DEF HandleFatal, Panic, TypeOK, sched
<1>3. TableInv' /\ SlotInv' /\ PmpInv' /\ BootInv' /\ StackInv'
  <2>1. UNCHANGED <<sched, pmp, stage, boot, heap_next>>
    BY DEF HandleFatal
  <2>2. QED
    BY <1>1, <2>1, TableKept
<1>4. HartInv'
  BY <1>1, Zenon DEF HandleFatal, Panic, HartInv, SuspendedMstatus, sched
<1>5. QED
  BY <1>2, <1>3, <1>4

\* Every step preserves the invariant.
LEMMA NextInv == KernelInv /\ [Next]_vars => KernelInv'
<1> SUFFICES ASSUME KernelInv, [Next]_vars PROVE KernelInv'
  OBVIOUS
<1>1. CASE Kmain
  BY <1>1, KmainInitInv, SpawnInv, SpawnPanicsInv, SchedInitInv, EnableInterruptsInv
     DEF Kmain
<1>2. CASE Handler
  BY <1>2, HandleTimerInv, HandleAccessFaultInv, HandleSyscallInv, HandleFatalInv
     DEF Handler
<1>3. CASE TimerTrap \/ UserTrap \/ TrapReturn
  BY <1>3, TimerTrapInv, UserTrapInv, TrapReturnInv
<1>4. CASE UserStep \/ TimerExpires \/ Wfi \/ UNCHANGED vars
  BY <1>4, UserStepInv, IdleStepsInv
<1>5. QED
  BY <1>1, <1>2, <1>3, <1>4 DEF Next

\* The invariant holds in every reachable state.
THEOREM KernelInvariant == Spec => []KernelInv
<1>1. Init => KernelInv
  BY InitInv
<1>2. KernelInv /\ [Next]_vars => KernelInv'
  BY NextInv
<1>3. QED
  BY <1>1, <1>2, PTL DEF Spec

-----------------------------------------------------------------------------
(* The properties of Kernel *)

\* The task table, the registers and the trap frame are well typed.
THEOREM KernelTypeOK == Spec => []TypeOK
<1>1. KernelInv => TypeOK
  BY DEF KernelInv
<1>2. QED
  BY <1>1, KernelInvariant, PTL

\* Whatever task executes is the only Running one: a killed task never
\* executes again.
THEOREM OnlyRunning == Spec => []OnlyRunningTaskExecutes
<1>1. KernelInv => OnlyRunningTaskExecutes
  BY DEF KernelInv, TableInv, OnlyRunningTaskExecutes
<1>2. QED
  BY <1>1, KernelInvariant, PTL

\* User tasks execute in U-mode and idle in M-mode.
THEOREM Privileges == Spec => []PrivilegeMatchesTask
<1>1. KernelInv => PrivilegeMatchesTask
  BY Zenon DEF KernelInv, HartInv, PrivilegeMatchesTask, PrivilegeOfTask, ModeOf
<1>2. QED
  BY <1>1, KernelInvariant, PTL

\* While a user task executes, the PMP entries schedule has loaded are its own,
\* its stack included.
THEOREM PmpOfTask == Spec => []PmpMatchesTask
<1>1. ASSUME KernelInv, UserRuns
      PROVE  /\ pmp = load_task_config(pmp_config[current])
             /\ \E i \in TaskEntry : /\ pmp[i].size = TASK_STACK_SIZE
                                     /\ pmp[i].base + pmp[i].size = gpr.sp
  <2>1. /\ current \in Slot \ {IDLE_TASK_INDEX} /\ gpr.sp = stack_top[current]
        /\ state[current] = "Running"
    BY <1>1 DEF UserRuns, KernelInv, TypeOK, HartInv, TableInv
  <2>2. pmp = load_task_config(pmp_config[current])
    BY <1>1, <2>1, SlotFacts DEF KernelInv, PmpInv
  <2>3. /\ 5 \in TaskEntry
        /\ pmp_config[current][5] =
             Region(stack_top[current] - TASK_STACK_SIZE, TASK_STACK_SIZE, "RW")
    BY <1>1, <2>1 DEF KernelInv, SlotInv
  <2>4. pmp[5] = Region(stack_top[current] - TASK_STACK_SIZE, TASK_STACK_SIZE, "RW")
    BY <2>2, <2>3, TaskAssumption, SMTT(30) DEF load_task_config, Region
  <2>5. stack_top[current] \in Nat
    BY <1>1, <2>1 DEF KernelInv, TypeOK
  <2>6. pmp[5].base = stack_top[current] - TASK_STACK_SIZE
    BY <2>4, SMTT(30) DEF Region
  <2>7. pmp[5].size = TASK_STACK_SIZE
    BY <2>4, SMTT(30) DEF Region
  <2>8. pmp[5].base + pmp[5].size = gpr.sp
    BY <2>1, <2>5, <2>6, <2>7, TaskAssumption, SMTT(30)
  <2>9. QED
    BY <2>2, <2>3, <2>7, <2>8, Zenon
<1>2. KernelInv => PmpMatchesTask
  BY <1>1 DEF PmpMatchesTask, load_task_config
<1>3. QED
  BY <1>2, KernelInvariant, PTL

\* Tasks and kmain's wfi loop can be interrupted by the timer.
THEOREM TasksPreemptible == Spec => []PreemptionPossible
<1>1. KernelInv => PreemptionPossible
  BY DEF KernelInv, HartInv, PreemptionPossible, InterruptsOn
<1>2. QED
  BY <1>1, KernelInvariant, PTL

\* Handlers and the panic loop cannot be interrupted.
THEOREM HandlersMaskTimer == Spec => []HandlersNotInterrupted
<1>1. KernelInv => HandlersNotInterrupted
  BY SMTT(30) DEF KernelInv, HartInv, HandlersNotInterrupted, InterruptsOn, SuspendedMstatus
<1>2. QED
  BY <1>1, KernelInvariant, PTL

\* Idle runs only when every other task is dead.
THEOREM IdleIsFallback == Spec => []IdleOnlyAsFallback
<1>1. KernelInv => IdleOnlyAsFallback
  BY SMTT(20) DEF KernelInv, TableInv, IdleOnlyAsFallback
<1>2. QED
  BY <1>1, KernelInvariant, PTL

\* No task's saved registers are another's or kmain's.
THEOREM OwnStack == Spec => []RegistersOnOwnStack
<1>1. KernelInv => RegistersOnOwnStack
  BY Zenon DEF KernelInv, SlotInv, HartInv, RegistersOnOwnStack
<1>2. QED
  BY <1>1, KernelInvariant, PTL

\* No dispatch before sched::init.
THEOREM DispatchAfterInit == Spec => []NoDispatchBeforeInit
<1>1. KernelInv => NoDispatchBeforeInit
  BY DEF KernelInv, BootInv, TypeOK, NoDispatchBeforeInit
<1>2. QED
  BY <1>1, KernelInvariant, PTL

\* Task stacks lie in the heap and are pairwise disjoint.
THEOREM Stacks == Spec => []StacksDisjoint
<1>1. ASSUME KernelInv, NEW i \in Slot, state[i] # "None"
      PROVE  /\ stack_top[i] <= HEAP_END
             /\ stack_top[i] - TASK_STACK_SIZE >= HEAP_START
             /\ \A j \in Slot \ {i} :
                  state[j] # "None" => StackOf(i) \cap StackOf(j) = {}
  <2>1. /\ stack_top \in [Slot -> Nat] /\ heap_next \in Nat /\ HEAP_END \in Nat
        /\ HEAP_START \in Nat /\ TASK_STACK_SIZE \in Nat \ {0}
    BY <1>1, KernelAssumption, TaskAssumption DEF KernelInv, TypeOK
  <2>2. heap_next <= HEAP_END
    BY <1>1 DEF KernelInv, BootInv, StackInv
  <2>3. stack_top[i] <= HEAP_END /\ stack_top[i] - TASK_STACK_SIZE >= HEAP_START
    BY <1>1, <2>1, <2>2 DEF KernelInv, StackInv
  <2>4. ASSUME NEW j \in Slot \ {i}, state[j] # "None"
        PROVE  StackOf(i) \cap StackOf(j) = {}
    <3>1. \/ stack_top[i] <= stack_top[j] - TASK_STACK_SIZE
          \/ stack_top[j] <= stack_top[i] - TASK_STACK_SIZE
      BY <1>1, <2>4 DEF KernelInv, StackInv
    <3>2. stack_top[i] \in Nat /\ stack_top[j] \in Nat
      BY <2>1
    <3>3. QED
      BY <2>1, <3>1, <3>2 DEF StackOf
  <2>5. QED
    BY <2>3, <2>4
<1>2. KernelInv => StacksDisjoint
  BY <1>1 DEF StacksDisjoint
<1>3. QED
  BY <1>2, KernelInvariant, PTL

\* schedule never finds the table without a ready task.
THEOREM AlwaysReady == Spec => []SomeTaskAlwaysReady
<1>1. ASSUME KernelInv, at = "handler"
      PROVE  select_next_ready(MAX_TASKS, current,
               ReadySet(IF mstatus.MPP = "U" THEN Killed ELSE Yielded(state))) # NoSlot
  <2> DEFINE st == IF mstatus.MPP = "U" THEN Killed ELSE Yielded(state)
  <2> USE SlotFacts
  <2>1. /\ state \in [Slot -> TaskState] /\ current \in Slot \cup {NoSlot}
        /\ state[IDLE_TASK_INDEX] \in {"Ready", "Running"}
    BY <1>1 DEF KernelInv, TypeOK, HartInv, BootInv
  <2>2. st[IDLE_TASK_INDEX] = "Ready"
    <3>1. CASE mstatus.MPP = "U"
      <4>1. current \in Slot \ {IDLE_TASK_INDEX}
        <5>1. IF current = NoSlot THEN mstatus = [MIE |-> FALSE, MPIE |-> TRUE, MPP |-> "M"]
              ELSE mstatus = SuspendedMstatus(current)
          BY <1>1 DEF KernelInv, HartInv
        <5>2. current # NoSlot /\ ModeOf(current) = "U"
          BY <3>1, <5>1 DEF SuspendedMstatus
        <5>3. QED
          BY <2>1, <5>2 DEF ModeOf
      <4>2. state[IDLE_TASK_INDEX] = "Ready"
        BY <1>1, <2>1, <4>1 DEF KernelInv, TableInv
      <4>3. Killed[IDLE_TASK_INDEX] = "Ready"
        BY <2>1, <4>1, <4>2 DEF Killed
      <4>4. QED
        BY <3>1, <4>3
    <3>2. CASE mstatus.MPP # "U"
      <4>1. Yielded(state)[IDLE_TASK_INDEX] = "Ready"
        BY <1>1, <2>1 DEF KernelInv, TableInv, Yielded
      <4>2. QED
        BY <3>2, <4>1
    <3>3. QED
      BY <3>1, <3>2
  <2> HIDE DEF st
  <2>3. /\ ReadySet(st) \in SUBSET (0..(MAX_TASKS - 1)) /\ ReadySet(st) # {}
        /\ current \in 0..(MAX_TASKS - 1) \cup {NoSlot} /\ MAX_TASKS \in Nat \ {0}
    BY <2>1, <2>2, KernelAssumption DEF ReadySet, Slot
  <2>4. select_next_ready(MAX_TASKS, current, ReadySet(st)) \in ReadySet(st)
    BY <2>3, SelectIsWorkConserving
  <2>5. select_next_ready(MAX_TASKS, current, ReadySet(st)) # NoSlot
    BY <2>4 DEF ReadySet
  <2>6. QED
    BY <2>5 DEF st
<1>2. KernelInv => SomeTaskAlwaysReady
  BY <1>1 DEF SomeTaskAlwaysReady
<1>3. QED
  BY <1>2, KernelInvariant, PTL

\* A panic is final.
THEOREM PanicFinal == Spec => PanicIsFinal
<1>1. ASSUME KernelInv, [Next]_vars, at = "panic" PROVE at' = "panic"
  <2>1. mode = "M" /\ ~mstatus.MIE
    BY <1>1 DEF KernelInv, HartInv
  <2>2. ~TimerTrap
    BY <2>1 DEF TimerTrap, InterruptsOn
  <2>3. ~Kmain /\ ~Handler
    BY <1>1 DEF Kmain, KmainInit, Spawn, SpawnPanics, SchedInit, EnableInterrupts,
                Handler, HandleTimer, HandleAccessFault, HandleSyscall, HandleSkip,
                HandleFatal, Handling
  <2>4. ~TrapReturn /\ ~UserStep /\ ~UserTrap
    BY <1>1 DEF TrapReturn, UserStep, UserTrap, UserRuns
  <2>5. CASE TimerExpires \/ Wfi \/ UNCHANGED vars
    BY <1>1, <2>5 DEF TimerExpires, Wfi, vars, hart
  <2>6. QED
    BY <1>1, <2>2, <2>3, <2>4, <2>5 DEF Next
<1>2. KernelInv /\ [Next]_vars => [at = "panic" => at' = "panic"]_vars
  BY <1>1
<1>3. QED
  BY <1>2, KernelInvariant, PTL DEF Spec, PanicIsFinal
=============================================================================

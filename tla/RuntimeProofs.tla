--------------------------- MODULE RuntimeProofs ---------------------------
(***************************************************************************)
(* Proofs about the parts of the kernel below the scheduler.               *)
(* BumpAllocator: for every heap, every set of layouts within the bound of *)
(* core::alloc::Layout and any number of contexts.  Boot: for any number   *)
(* of harts and any layout of .bss.  Timer: for every interval, clock and  *)
(* task count.  IrqCell: for any number of trap levels and of calls.       *)
(***************************************************************************)
EXTENDS BumpAllocator, Boot, Timer, IrqCell, TLAPS, WellFoundedInduction

(***************************************************************************)
(* Blocks of the heap lie in it and never overlap.                         *)
(***************************************************************************)

\* An address that fits usize is not changed by its width.
LEMMA NoWrap == ASSUME NEW x \in Nat, x < USIZE PROVE x % USIZE = x
  BY UsizeAssumption

\* The end of a block computed from an address in the heap is the end of the
\* block, not its remainder modulo the width of usize.
LEMMA NewNextExact ==
  ASSUME NEW current \in Nat, current <= HEAP_END, NEW l \in Layouts
  PROVE  /\ align_up(current, l.align) \in Nat
         /\ current <= align_up(current, l.align)
         /\ new_next(current, l.size, l.align) = align_up(current, l.align) + l.size
<1>1. /\ l.size \in Nat \ {0} /\ l.align \in Nat \ {0}
      /\ l.size + l.align - 1 <= ISIZE_MAX
  BY HeapAssumption
<1>2. current + l.align - 1 < USIZE
  BY <1>1, HeapAssumption, UsizeAssumption
<1>3. /\ align_up(current, l.align) \in Nat
      /\ current <= align_up(current, l.align)
      /\ align_up(current, l.align) <= current + l.align - 1
  <2> DEFINE x == current + l.align - 1
  <2>1. x \in Nat /\ x % USIZE = x
    BY <1>1, <1>2, NoWrap
  <2>2. x % l.align \in 0..(l.align - 1)
    BY <1>1, <2>1
  <2>3. align_up(current, l.align) = x - (x % l.align)
    BY <2>1 DEF align_up
  <2>4. QED
    BY <1>1, <2>1, <2>2, <2>3
<1>4. align_up(current, l.align) + l.size < USIZE
  BY <1>1, <1>3, HeapAssumption, UsizeAssumption
<1>5. (align_up(current, l.align) + l.size) % USIZE = align_up(current, l.align) + l.size
  BY <1>1, <1>3, <1>4, NoWrap
<1>6. QED
  BY <1>3, <1>5 DEF new_next

-----------------------------------------------------------------------------
\* Once the heap is initialised `next` is in it, every block handed out ends
\* at or below `next`, and a context about to exchange has read a value that
\* `next` had, from which its block fits.
HeapInv ==
  /\ heap_end # 0 => HEAP_START <= next /\ next <= HEAP_END
  /\ heap_end = 0 => blocks = {} /\ \A c \in Contexts : alloc_pc[c] = "idle"
  /\ \A b \in blocks : HEAP_START <= b.addr /\ b.addr + b.size <= next
  /\ \A c \in Contexts : alloc_pc[c] # "idle" => layout[c] \in Layouts
  /\ \A c \in Contexts : alloc_pc[c] = "cas" =>
       /\ HEAP_START <= loaded[c] /\ loaded[c] <= next
       /\ NewNext(c, loaded[c]) <= HEAP_END

AllocInv == HeapTypeOK /\ HeapInv /\ BlocksDisjoint

\* The invariant holds of a new allocator (BumpAllocator::new).
LEMMA AllocInvInit == AllocInit => AllocInv
  BY HeapAssumption DEF AllocInit, AllocInv, HeapTypeOK, HeapInv, BlocksDisjoint

\* BumpAllocator::init preserves the invariant.
LEMMA HeapInitInv == AllocInv /\ HeapInit => AllocInv'
  BY HeapAssumption
  DEF AllocInv, HeapTypeOK, HeapInv, BlocksDisjoint, HeapInit, BlockType, NewNext

\* Entering alloc preserves the invariant.
LEMMA CallInv ==
  ASSUME NEW c \in Contexts, NEW l \in Layouts, AllocInv, Call(c, l) PROVE AllocInv'
  BY HeapAssumption
  DEF AllocInv, HeapTypeOK, HeapInv, BlocksDisjoint, Call, BlockType, NewNext

\* The head of alloc's loop preserves the invariant: the bounds check is exact.
LEMMA LoadInv == ASSUME NEW c \in Contexts, AllocInv, Load(c) PROVE AllocInv'
<1> USE DEF AllocInv, HeapTypeOK
<1>1. heap_end = HEAP_END /\ heap_end # 0 /\ layout[c] \in Layouts
  BY DEF HeapInv, Load
<1>2. HeapTypeOK'
  BY <1>1, HeapAssumption DEF Load, Forget, NoLayout
<1>3. HeapInv'
  <2>1. UNCHANGED <<next, heap_end, blocks>>
    BY DEF Load
  <2>2. \A d \in Contexts : alloc_pc'[d] # "idle" =>
          layout'[d] \in Layouts /\ layout'[d] = layout[d]
    BY <1>1 DEF HeapInv, Load, Forget
  <2>3. \A d \in Contexts : alloc_pc'[d] = "cas" =>
          /\ HEAP_START <= loaded'[d] /\ loaded'[d] <= next
          /\ new_next(loaded'[d], layout'[d].size, layout'[d].align) <= HEAP_END
    <3> SUFFICES ASSUME NEW d \in Contexts, alloc_pc'[d] = "cas"
                 PROVE  /\ HEAP_START <= loaded'[d] /\ loaded'[d] <= next
                        /\ new_next(loaded'[d], layout'[d].size, layout'[d].align)
                             <= HEAP_END
      OBVIOUS
    <3>1. layout'[d] = layout[d]
      BY <2>2
    <3>2. CASE d = c
      <4>1. ~(NewNext(c, next) > heap_end) /\ loaded'[c] = next
        BY <3>2 DEF Load, Forget
      <4>2. NewNext(c, next) \in Int
        BY <1>1, NewNextExact, HeapAssumption DEF HeapInv, NewNext
      <4>3. QED
        BY <1>1, <3>1, <3>2, <4>1, <4>2, HeapAssumption DEF HeapInv, NewNext
    <3>3. CASE d # c
      BY <3>1, <3>3 DEF HeapInv, Load, Forget, NewNext
    <3>4. QED
      BY <3>2, <3>3
  <2>4. QED
    BY <1>1, <2>1, <2>2, <2>3 DEF HeapInv, NewNext
<1>4. BlocksDisjoint'
  BY DEF Load, BlocksDisjoint
<1>5. QED
  BY <1>2, <1>3, <1>4

\* The compare-exchange preserves the invariant: when it succeeds, `next` is
\* what the context read, so its block starts above all others.
LEMMA CompareExchangeInv ==
  ASSUME NEW c \in Contexts, AllocInv, CompareExchange(c) PROVE AllocInv'
<1> USE DEF AllocInv, HeapTypeOK
<1>1. CASE next # loaded[c]
  BY <1>1 DEF CompareExchange, HeapInv, BlocksDisjoint, NewNext
<1>2. CASE next = loaded[c]
  <2> DEFINE l == layout[c]
             a == align_up(next, l.align)
             new == [addr |-> a, size |-> l.size, by |-> c]
  <2>1. /\ heap_end = HEAP_END /\ heap_end # 0 /\ l \in Layouts
        /\ l.size \in Nat \ {0}
        /\ HEAP_START <= next /\ next <= HEAP_END
        /\ new_next(next, l.size, l.align) <= HEAP_END
    BY <1>2, HeapAssumption DEF HeapInv, CompareExchange, NewNext
  <2>2. /\ a \in Nat /\ next <= a
        /\ new_next(next, l.size, l.align) = a + l.size
    BY <2>1, NewNextExact
  <2> HIDE DEF a, l
  <2>3. /\ next' = a + l.size /\ blocks' = blocks \cup {new}
        /\ alloc_pc' = [alloc_pc EXCEPT ![c] = "idle"]
        /\ layout' = [layout EXCEPT ![c] = NoLayout]
        /\ loaded' = [loaded EXCEPT ![c] = 0]
        /\ heap_end' = heap_end
    BY <1>2, <2>2 DEF CompareExchange, Forget, Granted, NewNext, a, l
  <2>4. HeapTypeOK'
    BY <2>1, <2>2, <2>3, HeapAssumption DEF BlockType, NoLayout
  <2>5. HeapInv'
    BY <2>1, <2>2, <2>3, HeapAssumption DEF HeapInv, BlockType, NewNext
  <2>6. BlocksDisjoint'
    BY <2>1, <2>2, <2>3 DEF HeapInv, BlocksDisjoint, BlockType
  <2>7. QED
    BY <2>4, <2>5, <2>6
<1>3. QED
  BY <1>1, <1>2

\* Every step of the allocator preserves the invariant.
LEMMA AllocInvNext == AllocInv /\ [AllocNext]_heap => AllocInv'
<1> SUFFICES ASSUME AllocInv, [AllocNext]_heap PROVE AllocInv'
  OBVIOUS
<1>1. CASE HeapInit
  BY <1>1, HeapInitInv
<1>2. ASSUME NEW c \in Contexts, NEW l \in Layouts, Call(c, l) PROVE AllocInv'
  BY <1>2, CallInv
<1>3. ASSUME NEW c \in Contexts, Load(c) PROVE AllocInv'
  BY <1>3, LoadInv
<1>4. ASSUME NEW c \in Contexts, CompareExchange(c) PROVE AllocInv'
  BY <1>4, CompareExchangeInv
<1>5. CASE Dealloc \/ UNCHANGED heap
  BY <1>5 DEF Dealloc, heap, AllocInv, HeapTypeOK, HeapInv, BlocksDisjoint, NewNext
<1>6. QED
  BY <1>1, <1>2, <1>3, <1>4, <1>5 DEF AllocNext

-----------------------------------------------------------------------------
\* The atomics, locals and history of the allocator keep their types.
THEOREM AllocatorTypeOK == AllocSpec => []HeapTypeOK
<1>1. AllocInv => HeapTypeOK
  BY DEF AllocInv
<1>2. QED
  BY <1>1, AllocInvInit, AllocInvNext, PTL DEF AllocSpec

\* Blocks returned by alloc never overlap, whatever contexts interleave.
THEOREM AllocatorDisjoint == AllocSpec => []BlocksDisjoint
<1>1. AllocInv => BlocksDisjoint
  BY DEF AllocInv
<1>2. QED
  BY <1>1, AllocInvInit, AllocInvNext, PTL DEF AllocSpec

\* Blocks returned by alloc lie in the heap: no sum wraps around usize.
THEOREM AllocatorInHeap == AllocSpec => []BlocksInHeap
<1>1. AllocInv => BlocksInHeap
  BY HeapAssumption DEF AllocInv, HeapTypeOK, HeapInv, BlocksInHeap, BlockType
<1>2. QED
  BY <1>1, AllocInvInit, AllocInvNext, PTL DEF AllocSpec

-----------------------------------------------------------------------------
(***************************************************************************)
(* _start clears .bss once, before kmain, and nothing else.                *)
(***************************************************************************)

\* Only hart 0 leaves the parking path; while it clears, the bytes below its
\* pointer are zero, and nothing has been stored in a static before kmain.
BootInv ==
  /\ hart_pc \in [Hart -> {"start", "park", "call_clear", "clear", "kmain"}]
  /\ ptr \in [Hart -> Nat]
  /\ mem \in [Memory -> Value] /\ image \in [Memory -> Value]
  /\ statics \in [Bss -> Value]
  /\ \A h \in Hart : h # 0 => hart_pc[h] \in {"start", "park"}
  /\ hart_pc[0] # "kmain" => \A a \in Bss : statics[a] = 0
  /\ hart_pc[0] = "clear" =>
       /\ SBSS <= ptr[0] /\ ptr[0] <= EBSS
       /\ \A a \in Bss : a < ptr[0] => mem[a] = 0
  /\ hart_pc[0] = "kmain" => \A a \in Bss : mem[a] = statics[a]
  /\ ImageKept

\* At reset all harts are at the first instruction of _start.
LEMMA BootInvInit ==
  BootInit => BootInv
<1> SUFFICES ASSUME BootInit PROVE BootInv
  OBVIOUS
<1>1. \A h \in Hart : hart_pc[h] = "start"
  BY DEF BootInit
<1>2. 0 \in Hart
  BY BootAssumption DEF Hart
<1>3. ImageKept /\ \A a \in Bss : statics[a] = 0
  BY DEF BootInit, ImageKept
<1>4. QED
  BY <1>1, <1>2, <1>3, BootAssumption DEF BootInit, BootInv

\* Every step of every hart keeps the invariant; only those of hart 0 touch
\* memory (clear_bss, kmain).
LEMMA BootInvNext ==
  BootInv /\ [BootNext]_boot => BootInv'
<1> SUFFICES ASSUME BootInv, [BootNext]_boot PROVE BootInv'
  OBVIOUS
<1> USE BootAssumption DEF BootInv, ImageKept, Hart, Bss, Memory
<1>1. CASE UNCHANGED boot
  BY <1>1 DEF boot
<1>2. ASSUME NEW h \in Hart, Branch(h) PROVE BootInv'
  BY <1>2 DEF Branch
<1>3. ASSUME NEW h \in Hart, CallClear(h) PROVE BootInv'
  BY <1>3 DEF CallClear
<1>4. ASSUME NEW h \in Hart, ClearByte(h) PROVE BootInv'
  <2>1. h = 0 /\ hart_pc' = hart_pc /\ image' = image /\ statics' = statics
    BY <1>4, Zenon DEF ClearByte
  <2>2. ptr[0] \in Bss /\ ptr[0] \in Memory
    BY <1>4, <2>1 DEF ClearByte
  <2>3. mem' = [mem EXCEPT ![ptr[0]] = 0] /\ ptr' = [ptr EXCEPT ![0] = ptr[0] + 1]
    BY <1>4, <2>1 DEF ClearByte
  <2>4. mem' \in [Memory -> Value] /\ ptr' \in [Hart -> Nat]
    BY <2>2, <2>3
  <2>5. ptr'[0] = ptr[0] + 1 /\ SBSS <= ptr'[0] /\ ptr'[0] <= EBSS
    BY <1>4, <2>1, <2>2, <2>3
  <2>6. \A a \in Bss : a < ptr'[0] => mem'[a] = 0
    BY <1>4, <2>1, <2>2, <2>3, <2>5 DEF ClearByte
  <2>7. ImageKept'
    BY <2>1, <2>2, <2>3
  <2> QED
    BY <1>4, <2>1, <2>4, <2>5, <2>6, <2>7 DEF ClearByte
<1>5. ASSUME NEW h \in Hart, CallKmain(h) PROVE BootInv'
  BY <1>5 DEF CallKmain
<1>6. ASSUME NEW h \in Hart, KmainWrites(h) PROVE BootInv'
  <2>1. h = 0 /\ hart_pc' = hart_pc /\ ptr' = ptr /\ image' = image /\ hart_pc[0] = "kmain"
    BY <1>6, Zenon DEF KmainWrites
  <2>2. PICK a \in Bss, v \in Value :
          /\ mem' = [mem EXCEPT ![a] = v]
          /\ statics' = [statics EXCEPT ![a] = v]
    BY <1>6, Zenon DEF KmainWrites
  <2>3. a \in Memory
    BY <2>2
  <2>4. mem' \in [Memory -> Value] /\ statics' \in [Bss -> Value]
    BY <2>2, <2>3
  <2>5. \A b \in Bss : mem'[b] = statics'[b]
    BY <2>1, <2>2, <2>3
  <2>6. ImageKept'
    BY <2>1, <2>2, <2>3
  <2> QED
    BY <2>1, <2>4, <2>5, <2>6
<1>7. ASSUME NEW h \in Hart, Park(h) PROVE BootInv'
  BY <1>1, <1>7 DEF Park
<1> QED
  BY <1>1, <1>2, <1>3, <1>4, <1>5, <1>6, <1>7 DEF BootNext, Steps

\* The invariant holds at every step of the boot of any number of harts.
THEOREM BootSafe ==
  BootSpec => []BootInv
  BY BootInvInit, BootInvNext, PTL DEF BootSpec

\* kmain finds its statics zero or as it last wrote them, for any number of
\* harts and any contents of memory at reset (_start, clear_bss).
THEOREM StaticsAlwaysHold ==
  BootSpec => []StaticsHold
<1>1. BootInv => StaticsHold
  BY DEF BootInv, StaticsHold
<1> QED
  BY <1>1, BootSafe, PTL

\* clear_bss never writes outside .bss.
THEOREM ImageAlwaysKept ==
  BootSpec => []ImageKept
<1>1. BootInv => ImageKept
  BY DEF BootInv
<1> QED
  BY <1>1, BootSafe, PTL

-----------------------------------------------------------------------------
(***************************************************************************)
(* The timer.                                                              *)
(***************************************************************************)

\* Where the deadline lies, relative to the clock, to the last tick and to
\* the dispatch it will end.
DeadlineInv ==
  /\ now <= mtime /\ taken <= mtime /\ since <= mtime
  /\ at \in {"init_write", "write", "schedule"} => mtime <= now + HANDLER_TIME
  /\ at \in {"init_write", "write"} => taken <= now
  /\ at = "schedule" => mtimecmp = now + Interval
  /\ at \in {"kmain", "schedule", "run", "call", "kill"} => taken + Interval <= mtimecmp
  /\ at \notin Boot => mtimecmp <= mtime + Interval
  /\ at \in Boot \cup {"kmain"} => running = NoSlot /\ cause = "none"
  /\ at \in {"run", "call"} /\ running # NoSlot => mtimecmp <= since + Interval
  /\ at \in {"run", "call"} /\ cause = "tick" =>
       since + (Interval - HANDLER_TIME) <= mtimecmp

TimerInv == TypeOK /\ DeadlineInv

\* Whoever select_next_ready picks is a slot or nobody.
LEMMA SelectsSlot ==
  ASSUME NEW from \in Int, NEW ready \in SUBSET Slot
  PROVE  select_next_ready(MAX_TASKS, from, ready) \in Slot \cup {NoSlot}
<1> DEFINE hits == Hits(MAX_TASKS, from, ready)
<1>1. hits \subseteq Nat /\ \A o \in hits : ScanIndex(MAX_TASKS, from, o) \in ready
  BY TimerAssumption DEF Hits
<1>2. CASE hits # {}
  <2> HIDE DEF hits
  <2>1. PICK o \in hits : \A p \in hits : <<p, o>> \notin OpToRel(<, Nat)
    BY <1>1, <1>2, NatLessThanWellFounded, WFMin
  <2>2. \A p \in hits : ~(p < o)
    BY <1>1, <2>1, Zenon DEF OpToRel
  <2>3. \A p \in hits : o <= p
    BY <1>1, <2>2
  <2>4. FirstHit(hits) \in hits
    BY <2>3 DEF FirstHit
  <2>5. QED
    BY <1>1, <1>2, <2>4, TimerAssumption DEF select_next_ready, hits
<1>3. CASE hits = {}
  BY <1>3, TimerAssumption DEF select_next_ready
<1>4. QED
  BY <1>2, <1>3

\* So a dispatch keeps SchedulerState.current in its range.
LEMMA DispatchType ==
  ASSUME TypeOK, NEW by \in {"tick", "kill"}, Dispatch(by)
  PROVE  /\ running' \in Slot \cup {NoSlot}
         /\ since' = mtime /\ cause' = by
<1>1. alive \in SUBSET Slot /\ running \in Int
  BY TimerAssumption DEF TypeOK, Slot, NoSlot
<1>2. QED
  BY <1>1, SelectsSlot DEF Dispatch

\* Below the bound of the clock, set_timer_us does not wrap.
LEMMA DeadlineNoWrap ==
  ASSUME TypeOK
  PROVE  Deadline = now + Interval /\ Deadline \in 0..U64_MAX
<1> DEFINE I == Interval
<1>1. I \in Nat /\ U64 \in Nat /\ MAX_MTIME \in Nat /\ now \in 0..MAX_MTIME /\ MAX_MTIME + I < U64
  BY TimerAssumption DEF TypeOK
<1> HIDE DEF I
<1>2. now + I \in 0..(U64 - 1)
  BY <1>1
<1>3. (now + I) % U64 = now + I
  BY <1>1, <1>2
<1>4. QED
  BY <1>2, <1>3 DEF Deadline, U64_MAX, I

\* The reset state satisfies the invariant.
LEMMA TimerInvInit == Init => TimerInv
<1> SUFFICES ASSUME Init PROVE TimerInv
  OBVIOUS
<1> DEFINE I == Interval
<1>1. /\ I \in Nat /\ U64 \in Nat /\ HANDLER_TIME \in Nat /\ MAX_MTIME \in Nat \ {0}
      /\ MAX_MTIME + I < U64
  BY TimerAssumption
<1> HIDE DEF I
<1>2. TypeOK
  <2>1. /\ mtime \in 0..MAX_MTIME /\ mtimecmp \in 0..U64_MAX
        /\ now \in 0..MAX_MTIME /\ taken \in 0..MAX_MTIME /\ since \in 0..MAX_MTIME
    BY <1>1 DEF Init, U64_MAX
  <2>2. /\ mtie \in BOOLEAN /\ TICK_COUNT \in Nat /\ alive \subseteq Slot
        /\ running \in Slot \cup {NoSlot} /\ cause \in {"none", "tick", "kill"}
    BY Zenon DEF Init
  <2>3. QED
    BY <2>1, <2>2 DEF Init, TypeOK, Boot
<1>3. DeadlineInv
  BY <1>1 DEF Init, DeadlineInv, Boot
<1>4. QED
  BY <1>2, <1>3 DEF TimerInv

\* Every step keeps the deadline where DeadlineInv says: boot and the tick
\* handler move it, the clock moves towards it, a kill leaves it alone.
LEMMA TimerInvNext == TimerInv /\ [Next]_vars => TimerInv'
<1> SUFFICES ASSUME TimerInv, [Next]_vars PROVE TimerInv'
  OBVIOUS
<1> DEFINE I == Interval
<1>0. /\ I \in Nat /\ U64 \in Nat /\ HANDLER_TIME \in Nat /\ MAX_MTIME \in Nat
      /\ MAX_MTIME + I < U64 /\ HANDLER_TIME < I /\ PRINT_EVERY \in Nat \ {0}
  BY TimerAssumption
<1>t. TypeOK /\ DeadlineInv
  BY DEF TimerInv
<1>w. Deadline = now + Interval /\ Deadline \in 0..U64_MAX
  BY <1>t, DeadlineNoWrap
<1> USE <1>0, <1>t DEF TypeOK, DeadlineInv, Boot, Goto, tasks
<1>1. CASE ClearTimer
  BY <1>1 DEF ClearTimer, U64_MAX, TimerInv
<1>2. CASE EnableTimerInterrupt
  BY <1>2 DEF EnableTimerInterrupt, TimerInv
<1>3. CASE ReadMtime
  BY <1>3 DEF ReadMtime, TimerInv
<1>4. CASE WriteMtimecmp
  BY <1>4, <1>w DEF WriteMtimecmp, TimerInv
<1>5. CASE EnableInterrupts
  BY <1>5 DEF EnableInterrupts, TimerInv
<1>6. CASE TakeInterrupt
  BY <1>6 DEF TakeInterrupt, TimerInv
<1>7. CASE IncrementTick
  <2>1. TICK_COUNT' \in Nat
    BY <1>7 DEF IncrementTick
  <2>2. QED
    BY <1>7, <2>1 DEF IncrementTick, TimerInv
<1>8. CASE PrintTick
  BY <1>8 DEF PrintTick, TimerInv
<1>9. CASE Schedule
  <2>1. running' \in Slot \cup {NoSlot} /\ since' = mtime /\ cause' = "tick"
    BY <1>9, DispatchType DEF Schedule
  <2>2. QED
    BY <1>9, <2>1 DEF Schedule, TimerInv
<1>10. CASE Fault
  BY <1>10 DEF Fault, UserTraps, TimerInv
<1>11. CASE KillCurrent
  <2>1. running' \in Slot \cup {NoSlot} /\ since' = mtime /\ cause' = "kill"
    BY <1>11, DispatchType DEF KillCurrent
  <2>2. QED
    BY <1>11, <2>1 DEF KillCurrent, TimerInv
<1>12. CASE Advance
  BY <1>12 DEF Advance, MTIP, TimerInv
<1>13. CASE Horizon \/ UNCHANGED vars
  BY <1>13 DEF Horizon, vars, TimerInv
<1>14. CASE UserCalls \/ CallReturns
  BY <1>14 DEF UserCalls, CallReturns, UserTraps, TimerInv
<1>15. QED
  BY <1>1, <1>2, <1>3, <1>4, <1>5, <1>6, <1>7, <1>8, <1>9, <1>10, <1>11,
     <1>12, <1>13, <1>14 DEF Next

\* The deadline invariant holds in every reachable state of the driver.
THEOREM TimerSafe == Spec => []TimerInv
<1>1. QED
  BY TimerInvInit, TimerInvNext, PTL DEF Spec

\* A dispatched task begins nothing more once its interval is over, after a
\* kill as after a tick and after a call that outlasted the deadline: while no
\* tick is pending the deadline, at most one interval from the dispatch, is
\* ahead (set_timer_us, kill_current, handle_syscall).
THEOREM SlicesBounded == Spec => SliceBounded
<1>1. TimerInv /\ [Next]_vars =>
        [at = "run" /\ at' # "tick" /\ running # NoSlot => mtime - since < Interval]_vars
  <2> SUFFICES ASSUME TimerInv, Next, vars' # vars, at = "run", at' # "tick",
                      running # NoSlot
               PROVE  mtime - since < Interval
    BY DEF vars
  <2>1. ~MTIP
    BY DEF Next, ClearTimer, EnableTimerInterrupt, ReadMtime, WriteMtimecmp,
           EnableInterrupts, TakeInterrupt, IncrementTick, PrintTick, Schedule, UserCalls,
           CallReturns, Fault, UserTraps, KillCurrent, Advance, Horizon, Goto
  <2>2. QED
    BY <2>1, TimerAssumption DEF MTIP, TimerInv, TypeOK, DeadlineInv, U64_MAX
<1>2. QED
  BY <1>1, TimerSafe, PTL DEF Spec, SliceBounded

\* A task that a tick dispatches finds the next deadline ahead of it
\* (schedule_next_tick, schedule).
THEOREM SlicesNotEmpty == Spec => []SliceNotEmpty
<1>1. TimerInv => SliceNotEmpty
  BY DEF TimerInv, DeadlineInv, SliceNotEmpty
<1>2. QED
  BY <1>1, TimerSafe, PTL

\* Ticks are at least one interval apart (handle_interrupt, set_timer_us).
THEOREM TicksAreApart == Spec => TicksApart
<1>1. TimerInv /\ [Next]_vars => [at = "run" /\ at' = "tick" => mtime - taken >= Interval]_vars
  <2> SUFFICES ASSUME TimerInv, [Next]_vars, at = "run", at' = "tick"
               PROVE  mtime - taken >= Interval
    OBVIOUS
  <2>1. TakeInterrupt
    BY DEF Next, vars, ClearTimer, EnableTimerInterrupt, ReadMtime, WriteMtimecmp,
           EnableInterrupts, IncrementTick, PrintTick, Schedule, UserCalls, CallReturns,
           Fault, UserTraps, KillCurrent, Advance, Horizon, Goto
  <2>2. QED
    BY <2>1, TimerAssumption
       DEF TakeInterrupt, MTIP, TimerInv, TypeOK, DeadlineInv, U64_MAX
<1>2. QED
  BY <1>1, TimerSafe, PTL DEF Spec, TicksApart

-----------------------------------------------------------------------------
(***************************************************************************)
(* IrqCell::with_lock is a critical section: the mask keeps the depth at   *)
(* one, and each level restores what it found.                             *)
(***************************************************************************)

Locked == {"load", "store", "restore", "panic"}

\* Only the executing level is inside with_lock, but for a level 0 that was
\* interrupted in the gap between csrr and csrc.
SectionInv ==
  /\ depth \in {0, 1}
  /\ \A l \in Level \ {0} : l # depth => pc[l] = "out"
  /\ depth = 1 => /\ MIE = 0 /\ MPIE = 1 /\ wanted = 1
                  /\ pc[0] \in {"out", "clear"}
                  /\ pc[1] # "out" => mstatus[1] = 0
  /\ pc[0] # "out" => mstatus[0] = wanted
  /\ depth = 0 => MIE = IF pc[0] \in Locked THEN 0 ELSE wanted
  /\ pc[depth] = "store" => local[depth] = inner
  /\ inner = updates

CellInv == CellTypeOK /\ SectionInv

\* At reset nobody is inside with_lock and interrupts are off.
LEMMA CellInvInit ==
  ASSUME CellInit
  PROVE  CellInv
<1>1. CellTypeOK
  BY IrqCellAssumption DEF CellInit, CellTypeOK, Level
<1>2. SectionInv
  BY IrqCellAssumption DEF CellInit, SectionInv, Level, Locked
<1>3. QED
  BY <1>1, <1>2 DEF CellInv

\* Every instruction of with_lock, every interrupt and every mret keeps the
\* section closed.
LEMMA CellInvNext ==
  ASSUME CellInv, [CellNext]_cell
  PROVE  CellInv'
<1> USE IrqCellAssumption DEF CellInv, CellTypeOK, SectionInv, Level,
            Locked, Proceed, locals
<1>1. CASE ReadMstatus
  BY <1>1 DEF ReadMstatus
<1>2. CASE ClearMie
  BY <1>2 DEF ClearMie
<1>3. CASE ClosureReads
  BY <1>3 DEF ClosureReads
<1>4. CASE ClosureWrites
  BY <1>4 DEF ClosureWrites
<1>5. CASE ClosurePanics
  BY <1>5 DEF ClosurePanics
<1>6. CASE Restore
  BY <1>6 DEF Restore
<1>7. CASE SetInterrupts
  BY <1>7 DEF SetInterrupts
<1>8. CASE NestedTrap
  BY <1>8 DEF NestedTrap
<1>9. CASE Mret
  BY <1>9 DEF Mret
<1>10. CASE Wfi \/ UNCHANGED cell
  BY <1>10 DEF Wfi, cell
<1>11. QED
  BY <1>1, <1>2, <1>3, <1>4, <1>5, <1>6, <1>7, <1>8, <1>9, <1>10, Zenon
     DEF CellNext, WithLock

\* The section invariant holds in every reachable state.
THEOREM CellSafe ==
  CellSpec => []CellInv
<1>1. CellInit => CellInv
  BY CellInvInit
<1>2. CellInv /\ [CellNext]_cell => CellInv'
  BY CellInvNext
<1>3. QED
  BY <1>1, <1>2, PTL DEF CellSpec

\* No two levels are between csrc and the end of the closure (with_lock).
THEOREM SectionExclusive ==
  CellSpec => []Exclusive
<1>1. CellInv => Exclusive
  BY IrqCellAssumption DEF CellInv, CellTypeOK, SectionInv, Exclusive,
         InSection, Level, Locked
<1>2. CellSpec => []CellInv
  BY CellSafe
<1>3. QED
  BY <1>1, <1>2, PTL

\* No closure's update is lost (with_lock).
THEOREM UpdatesKept ==
  CellSpec => []NoLostUpdate
<1>1. CellInv => NoLostUpdate
  BY DEF CellInv, SectionInv, NoLostUpdate
<1>2. CellSpec => []CellInv
  BY CellSafe
<1>3. QED
  BY <1>1, <1>2, PTL

\* with_lock leaves MIE as its caller had it, in a handler and outside.
THEOREM MaskIsRestored ==
  CellSpec => []MaskRestored
<1>1. CellInv => MaskRestored
  BY DEF CellInv, SectionInv, MaskRestored, Locked
<1>2. CellSpec => []CellInv
  BY CellSafe
<1>3. QED
  BY <1>1, <1>2, PTL
=============================================================================

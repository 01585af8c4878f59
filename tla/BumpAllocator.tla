--------------------------- MODULE BumpAllocator ---------------------------
(***************************************************************************)
(* The kernel heap (allocator.rs): a pointer advanced by compare-exchange. *)
(*                                                                         *)
(* Contexts are the execution contexts of the hart that may be inside      *)
(* alloc at once: kernel code and the interrupt handlers that preempt it   *)
(* between any two of its memory accesses.                                 *)
(***************************************************************************)
EXTENDS HeapOps

CONSTANTS
  Contexts,
  Layouts,      \* the core::alloc::Layout values requested
  ISIZE_MAX,    \* isize::MAX, the bound Layout puts on size and alignment
  HEAP_START, HEAP_END

\* Layout: size rounded up to align does not exceed isize::MAX, and a size of
\* zero never reaches a GlobalAlloc.  The heap lies in the lower half of the
\* address space, and not at address 0.
ASSUME HeapAssumption ==
  /\ ISIZE_MAX \in Nat
  /\ HEAP_START \in Nat \ {0} /\ HEAP_END \in Nat /\ HEAP_START <= HEAP_END
  /\ HEAP_END + ISIZE_MAX < USIZE
  /\ Layouts \subseteq [size : Nat \ {0}, align : Nat \ {0}]
  /\ \A l \in Layouts : l.size + l.align - 1 <= ISIZE_MAX

VARIABLES
  next, heap_end,  \* the allocator's atomics; heap_start is never read
  alloc_pc,        \* where each context is in alloc
  layout, loaded,  \* its argument and the local `current`
  blocks           \* history: the blocks handed out, and to whom

heap == <<next, heap_end, alloc_pc, layout, loaded, blocks>>

NoLayout == [size |-> 0, align |-> 1]

\* BumpAllocator::new
AllocInit ==
  /\ next = 0 /\ heap_end = 0
  /\ alloc_pc = [c \in Contexts |-> "idle"]
  /\ layout = [c \in Contexts |-> NoLayout]
  /\ loaded = [c \in Contexts |-> 0]
  /\ blocks = {}

\* BumpAllocator::init, called once by kmain with interrupts masked.
HeapInit ==
  /\ heap_end = 0
  /\ heap_end' = HEAP_END
  /\ next' = HEAP_START
  /\ UNCHANGED <<alloc_pc, layout, loaded, blocks>>

\* alloc is called.
Call(c, l) ==
  /\ heap_end # 0 /\ alloc_pc[c] = "idle"
  /\ alloc_pc' = [alloc_pc EXCEPT ![c] = "load"]
  /\ layout' = [layout EXCEPT ![c] = l]
  /\ UNCHANGED <<next, heap_end, loaded, blocks>>

\* The end of the block context c would take, were `next` still what it read.
NewNext(c, current) == new_next(current, layout[c].size, layout[c].align)

\* The locals of a context that has returned are gone.
Forget(c, returned) ==
  /\ layout' = IF returned THEN [layout EXCEPT ![c] = NoLayout] ELSE layout
  /\ loaded' = IF returned THEN [loaded EXCEPT ![c] = 0]
               ELSE [loaded EXCEPT ![c] = next]

\* A bounds check on the aligned address alone.
LoadChecksStart(c) ==
  /\ alloc_pc[c] = "load"
  /\ LET full == align_up(next, layout[c].align) > heap_end
     IN  /\ alloc_pc' = [alloc_pc EXCEPT ![c] = IF full THEN "idle" ELSE "cas"]
         /\ Forget(c, full)
  /\ UNCHANGED <<next, heap_end, blocks>>

\* The head of the loop: `next` is read; if the block does not fit, alloc
\* returns null.
Load(c) ==
  /\ alloc_pc[c] = "load"
  /\ LET full == NewNext(c, next) > heap_end
     IN  /\ alloc_pc' = [alloc_pc EXCEPT ![c] = IF full THEN "idle" ELSE "cas"]
         /\ Forget(c, full)
  /\ UNCHANGED <<next, heap_end, blocks>>

Granted(c) ==
  [addr |-> align_up(loaded[c], layout[c].align), size |-> layout[c].size,
   by |-> c]

\* A plain store in place of the compare-exchange.
StoreNext(c) ==
  /\ alloc_pc[c] = "cas"
  /\ next' = NewNext(c, loaded[c])
  /\ blocks' = blocks \cup {Granted(c)}
  /\ alloc_pc' = [alloc_pc EXCEPT ![c] = "idle"]
  /\ Forget(c, TRUE)
  /\ UNCHANGED heap_end

\* An exchange that is retried with the value read before.
RetryStale(c) ==
  /\ alloc_pc[c] = "cas"
  /\ IF next = loaded[c]
     THEN /\ next' = NewNext(c, loaded[c])
          /\ blocks' = blocks \cup {Granted(c)}
          /\ alloc_pc' = [alloc_pc EXCEPT ![c] = "idle"]
          /\ Forget(c, TRUE)
     ELSE UNCHANGED <<next, blocks, alloc_pc, layout, loaded>>
  /\ UNCHANGED heap_end

\* compare_exchange: the block is granted, or the loop starts again.
CompareExchange(c) ==
  /\ alloc_pc[c] = "cas"
  /\ IF next = loaded[c]
     THEN /\ next' = NewNext(c, loaded[c])
          /\ blocks' = blocks \cup {Granted(c)}
          /\ alloc_pc' = [alloc_pc EXCEPT ![c] = "idle"]
          /\ Forget(c, TRUE)
     ELSE /\ alloc_pc' = [alloc_pc EXCEPT ![c] = "load"]
          /\ UNCHANGED <<next, blocks, layout, loaded>>
  /\ UNCHANGED heap_end

\* dealloc does nothing.
Dealloc == blocks # {} /\ UNCHANGED heap

AllocNext ==
  \/ HeapInit
  \/ \E c \in Contexts :
       (\E l \in Layouts : Call(c, l)) \/ Load(c) \/ CompareExchange(c)
  \/ Dealloc

AllocSpec == AllocInit /\ [][AllocNext]_heap

\* A context that is inside alloc is eventually resumed.
FairAllocSpec ==
  AllocSpec /\ \A c \in Contexts : WF_heap(Load(c) \/ CompareExchange(c))

-----------------------------------------------------------------------------
BlockType == [addr : Nat, size : Nat, by : Contexts]

\* The atomics, the locals of each context and the blocks are well typed.
HeapTypeOK ==
  /\ next \in Nat /\ heap_end \in {0, HEAP_END}
  /\ alloc_pc \in [Contexts -> {"idle", "load", "cas"}]
  /\ layout \in [Contexts -> Layouts \cup {NoLayout}]
  /\ loaded \in [Contexts -> Nat]
  /\ blocks \subseteq BlockType

\* Two blocks alloc has returned never share a byte, although contexts
\* interleave between the read of `next` and the compare-exchange.
BlocksDisjoint ==
  \A a, b \in blocks : a # b => \/ a.addr + a.size <= b.addr
                                \/ b.addr + b.size <= a.addr

\* Every block lies between the bounds of the heap and none is null: the
\* wrap-around of usize never makes a block that does not fit look as if it
\* did.
BlocksInHeap ==
  \A b \in blocks : HEAP_START <= b.addr /\ b.addr + b.size <= HEAP_END

\* A call of alloc returns: an exchange fails only because another context
\* has taken part of a finite heap.
AllocReturns == \A c \in Contexts : alloc_pc[c] = "load" ~> alloc_pc[c] = "idle"
=============================================================================

------------------------------ MODULE HeapOps ------------------------------
(***************************************************************************)
(* The address arithmetic of BumpAllocator::alloc (allocator.rs) on a      *)
(* usize of USIZE values (2^64 on the target).                             *)
(***************************************************************************)
EXTENDS Integers

CONSTANT USIZE

ASSUME UsizeAssumption == USIZE \in Nat \ {0}

\* (current + align - 1) & !(align - 1); align is a power of two, so the
\* mask clears the remainder modulo align.
align_up(current, align) ==
  LET x == (current + align - 1) % USIZE IN x - (x % align)

\* aligned + layout.size()
new_next(current, size, align) == (align_up(current, align) + size) % USIZE
=============================================================================

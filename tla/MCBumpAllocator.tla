-------------------------- MODULE MCBumpAllocator --------------------------
(***************************************************************************)
(* A heap of 15 bytes at address 9 in a usize of 64 values: requests with  *)
(* and without padding, and one at the bound Layout sets, the largest the  *)
(* arithmetic must survive.                                                *)
(***************************************************************************)
EXTENDS BumpAllocator

MCLayouts ==
  {[size |-> 3, align |-> 1], [size |-> 4, align |-> 4],
   [size |-> 31, align |-> 1], [size |-> 16, align |-> 16]}
=============================================================================

-------------------------------- MODULE Boot --------------------------------
(***************************************************************************)
(* _start and clear_bss (main.rs): every hart enters _start at reset; hart *)
(* 0 zeroes .bss byte by byte and enters kmain, the others are parked.     *)
(* The harts run at any relative speed and share memory, so a hart may     *)
(* reach the branch on mhartid when kmain has long been running.           *)
(***************************************************************************)
EXTENDS Integers

CONSTANTS
  N,            \* harts
  SBSS, EBSS,   \* _sbss, _ebss
  MEM_TOP,      \* end of memory
  Value         \* what a byte may hold; 0 is one of them

ASSUME BootAssumption ==
  /\ N \in Nat \ {0}
  /\ SBSS \in Nat /\ EBSS \in Nat /\ MEM_TOP \in Nat
  /\ SBSS <= EBSS /\ EBSS <= MEM_TOP
  /\ 0 \in Value

Hart == 0..(N - 1)
Memory == 0..(MEM_TOP - 1)
Bss == SBSS..(EBSS - 1)

VARIABLES
  hart_pc,  \* hart_pc[h]: where hart h is in _start
  ptr,      \* ptr[h]: clear_bss's pointer
  mem,
  image,    \* what memory held at reset
  statics   \* what kmain has last stored in its statics

boot == <<hart_pc, ptr, mem, image, statics>>

\* At reset the loader has filled the image; .bss holds anything.
BootInit ==
  /\ hart_pc = [h \in Hart |-> "start"]
  /\ ptr = [h \in Hart |-> 0]
  /\ image \in [Memory -> Value]
  /\ mem = image
  /\ statics = [a \in Bss |-> 0]

\* All harts set up the stack.
BranchDropped(h) ==
  /\ hart_pc[h] = "start"
  /\ hart_pc' = [hart_pc EXCEPT ![h] = "call_clear"]
  /\ UNCHANGED <<ptr, mem, image, statics>>

\* csrr t0, mhartid; bnez t0, 2f; la sp
Branch(h) ==
  /\ hart_pc[h] = "start"
  /\ hart_pc' = [hart_pc EXCEPT ![h] = IF h # 0 THEN "park" ELSE "call_clear"]
  /\ UNCHANGED <<ptr, mem, image, statics>>

CallClear(h) ==
  /\ hart_pc[h] = "call_clear"
  /\ hart_pc' = [hart_pc EXCEPT ![h] = "clear"]
  /\ ptr' = [ptr EXCEPT ![h] = SBSS]
  /\ UNCHANGED <<mem, image, statics>>

\* A loop that clears one byte more.
ClearInclusive(h) ==
  /\ hart_pc[h] = "clear" /\ ptr[h] <= EBSS
  /\ mem' = [mem EXCEPT ![ptr[h]] = 0]
  /\ ptr' = [ptr EXCEPT ![h] = @ + 1]
  /\ UNCHANGED <<hart_pc, image, statics>>

\* while ptr < end: one byte.
ClearByte(h) ==
  /\ hart_pc[h] = "clear" /\ ptr[h] < EBSS
  /\ mem' = [mem EXCEPT ![ptr[h]] = 0]
  /\ ptr' = [ptr EXCEPT ![h] = @ + 1]
  /\ UNCHANGED <<hart_pc, image, statics>>

\* The loop ends, and kmain is called.
CallKmain(h) ==
  /\ hart_pc[h] = "clear" /\ ptr[h] >= EBSS
  /\ hart_pc' = [hart_pc EXCEPT ![h] = "kmain"]
  /\ UNCHANGED <<ptr, mem, image, statics>>

\* kmain stores to a static that is zero in the source.
KmainWrites(h) ==
  /\ hart_pc[h] = "kmain"
  /\ \E a \in Bss, v \in Value :
       /\ mem' = [mem EXCEPT ![a] = v]
       /\ statics' = [statics EXCEPT ![a] = v]
  /\ UNCHANGED <<hart_pc, ptr, image>>

\* 2: wfi; j 2b
Park(h) == hart_pc[h] = "park" /\ UNCHANGED boot

Steps(h) == Branch(h) \/ CallClear(h) \/ ClearByte(h) \/ CallKmain(h)

BootNext == \E h \in Hart : Steps(h) \/ KmainWrites(h) \/ Park(h)

BootSpec == BootInit /\ [][BootNext]_boot
-----------------------------------------------------------------------------
(* Properties *)

\* Rust's promise for statics in .bss: from its first instruction on, kmain
\* finds them zero or as it last wrote them.  Whatever memory held at reset,
\* clear_bss has reached every byte, and no late hart clears a byte again.
StaticsHold ==
  \A h \in Hart : hart_pc[h] = "kmain" => \A a \in Bss : mem[a] = statics[a]

\* Code, data and whatever lies behind .bss keep what the loader put there.
ImageKept == \A a \in Memory \ Bss : mem[a] = image[a]

=============================================================================

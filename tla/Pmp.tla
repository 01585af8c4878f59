-------------------------------- MODULE Pmp --------------------------------
(***************************************************************************)
(* The PMP driver (pmp.rs) at the level of CSR writes: init installs the   *)
(* locked kernel entries 0..3, load_task_config replaces entries 4 and up  *)
(* at every context switch.  Each csrw is a step, because the kernel's own *)
(* fetches and loads go through the entries between two of them, and       *)
(* because a locked register silently ignores a write that comes too late. *)
(*                                                                         *)
(* Addresses are bytes; pmpaddr holds them shifted right by 2.             *)
(***************************************************************************)
EXTENDS Integers, FiniteSets

CONSTANTS
  PMP_COUNT,                     \* PMP entries of the hart (16)
  STEXT, USER_TEXT_END, EHEAP,   \* _stext, _user_text_end, _eheap
  UART_BASE, UART_SIZE,          \* the UART window of entry 3
  CLINT,                         \* addresses of the CLINT registers
  MEM_TOP,                       \* end of the address space
  Tasks,                         \* tasks the scheduler may switch to
  Regions,                       \* Regions[t][i]: their PmpConfig
  ResetAddrs                     \* what pmpaddr may hold after reset

Entry == 0..(PMP_COUNT - 1)
KernelEntry == 0..3
TaskEntry == 4..(PMP_COUNT - 1)

\* The entries packed in pmpcfg0 and in pmpcfg2.
Cfg0 == {i \in Entry : i < 8}
Cfg2 == {i \in Entry : i >= 8}

\* One byte of pmpcfg: [L][0][0][A][X][W][R].
CfgByte(perm, A, L) == [perm |-> perm, A |-> A, L |-> L]
Off == CfgByte({}, "OFF", FALSE)

\* flags | A_NAPOT
NapotByte(c) == CfgByte(c.perm, "NAPOT", c.L)

NoRegion == [base |-> 0, size |-> 0, perm |-> {}]
RegionType == [base : Nat, size : Nat, perm : SUBSET {"R", "W", "X"}]
CfgType == [perm : SUBSET {"R", "W", "X"}, A : {"OFF", "TOR", "NAPOT"}, L : BOOLEAN]

IsPowerOfTwo(n) == \E k \in 0..n : n = 2^k

\* What configure_region and PmpConfigBuilder::region insist on.
Configurable(region) ==
  /\ IsPowerOfTwo(region.size) /\ region.size >= 8
  /\ region.base % region.size = 0

ASSUME PmpAssumption ==
  /\ PMP_COUNT \in Nat /\ PMP_COUNT > 4 /\ PMP_COUNT <= 16
  /\ STEXT \in Nat /\ USER_TEXT_END \in Nat /\ EHEAP \in Nat /\ MEM_TOP \in Nat
  /\ 0 < STEXT /\ STEXT < USER_TEXT_END /\ USER_TEXT_END < EHEAP /\ EHEAP <= MEM_TOP
  /\ STEXT % 4 = 0 /\ USER_TEXT_END % 4 = 0 /\ EHEAP % 4 = 0
  /\ UART_BASE \in Nat /\ UART_SIZE \in Nat /\ UART_SIZE >= 8
  /\ IsPowerOfTwo(UART_SIZE) /\ UART_BASE % UART_SIZE = 0
  /\ CLINT \subseteq Nat
  /\ "none" \notin Tasks
  /\ Regions \in [Tasks -> [TaskEntry -> RegionType]]
  /\ ResetAddrs \subseteq Nat

\* The CLINT and the UART lie below RAM, and so below the kernel's text.
ASSUME DevicesBelowRam ==
  /\ UART_BASE + UART_SIZE <= STEXT
  /\ \A a \in CLINT : a < STEXT

\* What PmpConfigBuilder produces for a task of kmain: regions it asserts to be
\* configurable, code that is read and executed inside the linked text (which
\* linker.ld pads to whole pages), stack and windows that are read and written
\* and lie outside it.
ASSUME RegionsAssumption ==
  \A t \in Tasks, i \in TaskEntry :
    LET r == Regions[t][i]
    IN  r.size # 0 =>
          /\ Configurable(r)
          /\ \/ /\ r.perm = {"R", "X"}
                /\ STEXT <= r.base /\ r.base + r.size <= USER_TEXT_END
             \/ /\ r.perm = {"R", "W"}
                /\ r.base + r.size <= STEXT \/ USER_TEXT_END <= r.base

VARIABLES
  cfg, addr,   \* pmpcfg0/pmpcfg2 by entry, pmpaddr0..
  at,          \* the next csrw, or "run" outside the driver
  idx,         \* loop index
  task,        \* the task whose entries are in force or being loaded, or "none"
  prev,        \* the task before it
  low, high    \* kernel_cfg0_bits; task_cfg0_high and cfg2, by entry

vars == <<cfg, addr, at, idx, task, prev, low, high>>

-----------------------------------------------------------------------------
(* The hardware *)

\* csrw pmpcfg0 / pmpcfg2: the bytes of locked entries keep their value.
WriteCfg(entries, byte) ==
  cfg' = [i \in Entry |-> IF i \in entries /\ ~cfg[i].L THEN byte[i] ELSE cfg[i]]

\* csrw pmpaddr<i>: ignored when the entry is locked, or when it is the lower
\* bound of a locked TOR entry.
AddrLocked(i) ==
  cfg[i].L \/ (i + 1 \in Entry /\ cfg[i + 1].L /\ cfg[i + 1].A = "TOR")
WriteAddr(i, v) == addr' = IF AddrLocked(i) THEN addr ELSE [addr EXCEPT ![i] = v]

\* The number of trailing ones of a NAPOT address, and the range it encodes.
TrailingOnes(y) == CHOOSE k \in 0..y : y % 2^(k + 1) = 2^k - 1
NapotSize(y) == 2^(TrailingOnes(y) + 3)
NapotBase(y) == 4 * (y - (y % 2^(TrailingOnes(y) + 1)))

\* Entry i of registers c and r covers address a.
Covers(c, r, i, a) ==
  \/ /\ c[i].A = "TOR"
     /\ (IF i = 0 THEN 0 ELSE 4 * r[i - 1]) <= a /\ a < 4 * r[i]
  \/ /\ c[i].A = "NAPOT"
     /\ NapotBase(r[i]) <= a /\ a < NapotBase(r[i]) + NapotSize(r[i])

\* The lowest-numbered entry that matches decides; it binds M-mode only when
\* locked.  Without a match M-mode is allowed and U-mode is not.
Permits(c, r, mode, access, a) ==
  LET hits == {i \in Entry : Covers(c, r, i, a)}
  IN  IF hits = {} THEN mode = "M"
      ELSE LET i == CHOOSE j \in hits : \A k \in hits : j <= k
           IN  (mode = "M" /\ ~c[i].L) \/ access \in c[i].perm

Matches(i, a) == Covers(cfg, addr, i, a)
Allowed(mode, access, a) == Permits(cfg, addr, mode, access, a)

-----------------------------------------------------------------------------
(* The encoding *)

\* The size not halved.
NapotUnhalved(region) == (region.base + region.size - 1) \div 4

\* PmpRegion::napot_addr
napot_addr(region) == (region.base + (region.size \div 2 - 1)) \div 4

KernelRegion(base, size, perm, A, L) ==
  [base |-> base, size |-> size, cfg |-> CfgByte(perm, A, L)]

\* Entry 1 with the wrong linker symbol for its top.
TextUpToHeapEnd ==
  <<KernelRegion(STEXT, 0, {}, "OFF", FALSE),
    KernelRegion(EHEAP, 0, {"X"}, "TOR", TRUE),
    KernelRegion(EHEAP, 0, {"R", "W"}, "TOR", TRUE),
    KernelRegion(UART_BASE, UART_SIZE, {"R", "W"}, "OFF", TRUE)>>

\* Entry 1 readable, as "RX+L" would have it, and entry 1 not executable.
TextReadable ==
  <<KernelRegion(STEXT, 0, {}, "OFF", FALSE),
    KernelRegion(USER_TEXT_END, 0, {"R", "X"}, "TOR", TRUE),
    KernelRegion(EHEAP, 0, {"R", "W"}, "TOR", TRUE),
    KernelRegion(UART_BASE, UART_SIZE, {"R", "W"}, "OFF", TRUE)>>

TextNotExecutable ==
  <<KernelRegion(STEXT, 0, {}, "OFF", FALSE),
    KernelRegion(USER_TEXT_END, 0, {"R"}, "TOR", TRUE),
    KernelRegion(EHEAP, 0, {"R", "W"}, "TOR", TRUE),
    KernelRegion(UART_BASE, UART_SIZE, {"R", "W"}, "OFF", TRUE)>>

\* The regions of entries 0..3, in order.
kernel_entry_regions ==
  <<KernelRegion(STEXT, 0, {}, "OFF", FALSE),
    KernelRegion(USER_TEXT_END, 0, {"X"}, "TOR", TRUE),
    KernelRegion(EHEAP, 0, {"R", "W"}, "TOR", TRUE),
    KernelRegion(UART_BASE, UART_SIZE, {"R", "W"}, "OFF", TRUE)>>

-----------------------------------------------------------------------------
(* pmp::init *)

Init ==
  /\ cfg = [i \in Entry |-> Off]
  /\ \E v \in ResetAddrs : addr = [i \in Entry |-> v]
  /\ at = "clear_cfg0" /\ idx = 0
  /\ task = "none" /\ prev = "none"
  /\ low = [i \in Cfg0 |-> Off] /\ high = [i \in TaskEntry |-> Off]

\* clear_all: both configuration registers, then the addresses one by one.
ClearCfg0 ==
  /\ at = "clear_cfg0"
  /\ WriteCfg(Cfg0, [i \in Entry |-> Off])
  /\ at' = "clear_cfg2"
  /\ UNCHANGED <<addr, idx, task, prev, low, high>>

ClearCfg2 ==
  /\ at = "clear_cfg2"
  /\ WriteCfg(Cfg2, [i \in Entry |-> Off])
  /\ at' = "clear_addr" /\ idx' = 0
  /\ UNCHANGED <<addr, task, prev, low, high>>

ClearAddr ==
  /\ at = "clear_addr"
  /\ WriteAddr(idx, 0)
  /\ IF idx + 1 \in Entry THEN idx' = idx + 1 /\ UNCHANGED at
     ELSE idx' = 0 /\ at' = "entry_addr"
  /\ UNCHANGED <<cfg, task, prev, low, high>>

\* What init does with region idx: the address it writes, and whether it goes
\* on to write a configuration byte.
Region == kernel_entry_regions[idx + 1]
IsTor == Region.cfg.A = "TOR"
IsNapot == ~IsTor /\ Region.size > 0 /\ Configurable(Region)
IsAnchor == ~IsTor /\ Region.size = 0 /\ Region.cfg.A = "OFF" /\ Region.base > 0

EndEntry ==
  IF idx = 3 THEN at' = "run" /\ idx' = 0
  ELSE at' = "entry_addr" /\ idx' = idx + 1

\* An init without the case of the anchor.
InitEntryAddrNoAnchor ==
  /\ at = "entry_addr"
  /\ IF IsTor \/ IsNapot
     THEN /\ WriteAddr(idx, IF IsTor THEN Region.base \div 4
                            ELSE napot_addr(Region))
          /\ at' = "entry_cfg" /\ UNCHANGED idx
     ELSE UNCHANGED addr /\ EndEntry
  /\ UNCHANGED <<cfg, task, prev, low, high>>

\* The address of a kernel entry: always written before its lock bit.
InitEntryAddr ==
  /\ at = "entry_addr"
  /\ IF IsTor \/ IsNapot \/ IsAnchor
     THEN WriteAddr(idx, IF IsNapot THEN napot_addr(Region) ELSE Region.base \div 4)
     ELSE UNCHANGED addr
  /\ IF IsTor \/ IsNapot THEN at' = "entry_cfg" /\ UNCHANGED idx ELSE EndEntry
  /\ UNCHANGED <<cfg, task, prev, low, high>>

\* set_pmpcfg: a read-modify-write of pmpcfg0.
InitEntryCfg ==
  /\ at = "entry_cfg"
  /\ WriteCfg(Cfg0, [cfg EXCEPT ![idx] =
       IF IsTor THEN Region.cfg ELSE NapotByte(Region.cfg)])
  /\ EndEntry
  /\ UNCHANGED <<addr, task, prev, low, high>>

-----------------------------------------------------------------------------
(* load_task_config *)

\* schedule calls it for the next task, under the trap's interrupt mask.
Switch ==
  /\ at = "run"
  /\ \E t \in Tasks : task' = t
  /\ prev' = task
  /\ at' = "load_off0"
  /\ UNCHANGED <<cfg, addr, idx, low, high>>

\* A load that does not disable the old entries first.
LoadKeepsOld0 ==
  /\ at = "load_off0"
  /\ low' = [i \in Cfg0 |-> IF i \in KernelEntry THEN cfg[i] ELSE Off]
  /\ at' = "load_off2"
  /\ UNCHANGED <<cfg, addr, idx, task, prev, high>>

\* Step 1: entries 4..7 are disabled with the bytes of 0..3 kept, then 8..15.
LoadOff0 ==
  /\ at = "load_off0"
  /\ low' = [i \in Cfg0 |-> IF i \in KernelEntry THEN cfg[i] ELSE Off]
  /\ WriteCfg(Cfg0, low')
  /\ at' = "load_off2"
  /\ UNCHANGED <<addr, idx, task, prev, high>>

LoadOff2 ==
  /\ at = "load_off2"
  /\ WriteCfg(Cfg2, [i \in Entry |-> Off])
  /\ high' = [i \in TaskEntry |-> Off]
  /\ at' = "load_addr" /\ idx' = 4
  /\ UNCHANGED <<addr, task, prev, low>>

\* Step 2: one pmpaddr, and the configuration byte for later.
LoadAddr ==
  /\ at = "load_addr"
  /\ LET region == Regions[task][idx]
     IN  IF region.size = 0
         THEN WriteAddr(idx, 0) /\ UNCHANGED high
         ELSE /\ WriteAddr(idx, napot_addr(region))
              /\ high' = [high EXCEPT ![idx] = CfgByte(region.perm, "NAPOT", FALSE)]
  /\ IF idx + 1 \in Entry THEN idx' = idx + 1 /\ UNCHANGED at
     ELSE idx' = 0 /\ at' = "load_cfg0"
  /\ UNCHANGED <<cfg, task, prev, low>>

\* Step 3: the bytes of the task, those of 0..3 kept.
LoadCfg0 ==
  /\ at = "load_cfg0"
  /\ WriteCfg(Cfg0, [i \in Cfg0 |-> IF i \in KernelEntry THEN low[i] ELSE high[i]])
  /\ at' = "load_cfg2"
  /\ UNCHANGED <<addr, idx, task, prev, low, high>>

\* A load that only writes pmpcfg0.
LoadCfg0Only ==
  /\ at = "load_cfg2"
  /\ at' = "run"
  /\ UNCHANGED <<cfg, addr, idx, task, prev, low, high>>

LoadCfg2 ==
  /\ at = "load_cfg2"
  /\ WriteCfg(Cfg2, [i \in Cfg2 |-> high[i]])
  /\ at' = "run"
  /\ UNCHANGED <<addr, idx, task, prev, low, high>>

-----------------------------------------------------------------------------
Next ==
  \/ ClearCfg0 \/ ClearCfg2 \/ ClearAddr \/ InitEntryAddr \/ InitEntryCfg
  \/ Switch \/ LoadOff0 \/ LoadOff2 \/ LoadAddr \/ LoadCfg0 \/ LoadCfg2

Spec == Init /\ [][Next]_vars

-----------------------------------------------------------------------------
(* Properties *)

Initialising == {"clear_cfg0", "clear_cfg2", "clear_addr", "entry_addr", "entry_cfg"}
Loading == {"load_off0", "load_off2", "load_addr", "load_cfg0", "load_cfg2"}

\* The registers hold what they have room for: pmpaddr an address of the
\* address space shifted by 2 (pmp.rs, write_pmpaddr).
TypeOK ==
  /\ cfg \in [Entry -> CfgType]
  /\ addr \in [Entry -> 0..(MEM_TOP \div 4)]
  /\ at \in Initialising \cup Loading \cup {"run"}
  /\ idx \in Entry
  /\ task \in Tasks \cup {"none"} /\ prev \in Tasks \cup {"none"}
  /\ low \in [Cfg0 -> CfgType] /\ high \in [TaskEntry -> CfgType]

\* From the end of init on, entries 0..3 are the ones the layout asks for,
\* whatever is loaded: every write of init took effect before its register
\* was locked, and no context switch disturbs them, although entry 0 itself
\* is not locked.
KernelEntriesInForce ==
  at \notin Initialising =>
    /\ addr[0] = STEXT \div 4 /\ addr[1] = USER_TEXT_END \div 4
    /\ addr[2] = EHEAP \div 4 /\ addr[3] = napot_addr(kernel_entry_regions[4])
    /\ cfg[0] = Off
    /\ cfg[1] = CfgByte({"X"}, "TOR", TRUE)
    /\ cfg[2] = CfgByte({"R", "W"}, "TOR", TRUE)
    /\ cfg[3] = CfgByte({"R", "W"}, "NAPOT", TRUE)

\* Between any two CSR writes the kernel can fetch its code and reach its
\* data, its stacks, the UART and the CLINT: a half-written set of entries
\* never locks M-mode out (init and load_task_config run in M-mode).
KernelNeverLockedOut ==
  \A a \in {b \in 0..(MEM_TOP - 1) : b % 4 = 0} :
    /\ STEXT <= a /\ a < USER_TEXT_END => Allowed("M", "X", a)
    /\ \/ USER_TEXT_END <= a /\ a < EHEAP
       \/ UART_BASE <= a /\ a < UART_BASE + UART_SIZE
       \/ a \in CLINT
       => Allowed("M", "R", a) /\ Allowed("M", "W", a)

\* The regions a task entry may stand for: none, or those of one task.
Encodes(i, t) ==
  /\ t # "none" /\ Regions[t][i].size # 0
  /\ cfg[i] = CfgByte(Regions[t][i].perm, "NAPOT", FALSE)
  /\ addr[i] = napot_addr(Regions[t][i])

\* No entry is ever enabled with the permissions of one task and the address
\* of another: load_task_config disables them all before it writes an address.
NoMixedEntry ==
  \A i \in TaskEntry : cfg[i].A # "OFF" => Encodes(i, task) \/ Encodes(i, prev)

Decoded(i) ==
  IF cfg[i].A = "OFF" THEN NoRegion
  ELSE [base |-> NapotBase(addr[i]), size |-> NapotSize(addr[i]), perm |-> cfg[i].perm]

\* When the driver returns, the hardware decodes entries 4 and up to exactly
\* the regions of the task, with the unused ones off: the NAPOT encoding loses
\* nothing and no entry of the task before is left (Kernel's load_task_config).
LoadedIsTaskConfig ==
  at = "run" /\ task # "none" =>
    \A i \in TaskEntry :
      Decoded(i) = IF Regions[task][i].size = 0 THEN NoRegion ELSE Regions[task][i]

\* What can be done with a region: its code is built as read and execute
\* (code_region), but locked entry 1 is execute-only and matches first.
Usable(r) == IF "X" \in r.perm THEN {"X"} ELSE {"R", "W"}

\* A running task can fetch from its code region and do nothing else there, not
\* even load; in its stack and windows it can load and store and not fetch.  The
\* kernel entries, which match first, neither take more than that from what
\* load_task_config has loaded nor add to it.
RegionAccess ==
  at = "run" /\ task # "none" =>
    \A i \in TaskEntry :
      LET r == Regions[task][i]
      IN  \A a \in {b \in r.base..(r.base + r.size - 1) : b % 4 = 0} :
            \A access \in {"R", "W", "X"} :
              Allowed("U", access, a) <=> access \in Usable(r)

-----------------------------------------------------------------------------
(* What comments say, and the code does otherwise *)

\* kernel_entry_regions: "ensuring U-mode cannot access kernel memory without
\* an explicit per-task PMP entry".
TaskEntryNeeded ==
  at = "run" /\ task # "none" /\ (\E i \in TaskEntry : Regions[task][i].size > 0) =>
    \A a \in {b \in USER_TEXT_END..(EHEAP - 1) : b % 4 = 0} :
      Allowed("U", "R", a) => \E i \in TaskEntry : Matches(i, a)

=============================================================================

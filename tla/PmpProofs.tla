----------------------------- MODULE PmpProofs -----------------------------
(***************************************************************************)
(* Proofs about Pmp, for every memory map, every number of PMP entries up  *)
(* to 16 and every set of tasks.  The NAPOT encoding is inverted by its    *)
(* decoding for every aligned base and every power of two.                 *)
(***************************************************************************)
EXTENDS Pmp, FiniteSetTheorems, WellFoundedInduction, TLAPS

(***************************************************************************)
(* The inductive invariant: what every register holds at every csrw.       *)
(***************************************************************************)

KernelCfg(i) ==
  IF i = 0 THEN Off
  ELSE IF i = 1 THEN CfgByte({"X"}, "TOR", TRUE)
  ELSE IF i = 2 THEN CfgByte({"R", "W"}, "TOR", TRUE)
  ELSE CfgByte({"R", "W"}, "NAPOT", TRUE)

KernelAddr(i) ==
  IF i = 0 THEN STEXT \div 4
  ELSE IF i = 1 THEN USER_TEXT_END \div 4
  ELSE IF i = 2 THEN EHEAP \div 4
  ELSE napot_addr(kernel_entry_regions[4])

\* The byte task t has in entry i, and the address that goes with it.
TaskCfg(t, i) ==
  IF t = "none" \/ Regions[t][i].size = 0 THEN Off
  ELSE CfgByte(Regions[t][i].perm, "NAPOT", FALSE)

AddrFor(byte, t, i) == byte # Off => addr[i] = napot_addr(Regions[t][i])

InForce(t, i) == cfg[i] = TaskCfg(t, i) /\ AddrFor(cfg[i], t, i)

Prepared(i) == high[i] = TaskCfg(task, i) /\ AddrFor(high[i], task, i)

RegistersOK ==
  /\ cfg \in [Entry -> CfgType]
  /\ addr = [i \in Entry |-> addr[i]]
  /\ at \in Initialising \cup Loading \cup {"run"}
  /\ idx \in Entry
  /\ task \in Tasks \cup {"none"} /\ prev \in Tasks \cup {"none"}
  /\ low \in [Cfg0 -> CfgType] /\ high \in [TaskEntry -> CfgType]

\* Up to entry idx the kernel entries are installed, the rest is off.
InitInv ==
  /\ at \in Initialising =>
       /\ task = "none" /\ prev = "none"
       /\ \A i \in TaskEntry : cfg[i] = Off
  /\ at \in {"clear_cfg0", "clear_cfg2", "clear_addr"} =>
       \A i \in KernelEntry : cfg[i] = Off
  /\ at \in {"entry_addr", "entry_cfg"} =>
       /\ idx \in KernelEntry
       /\ \A i \in KernelEntry :
            IF i < idx THEN cfg[i] = KernelCfg(i) /\ addr[i] = KernelAddr(i)
            ELSE cfg[i] = Off
  /\ at = "entry_cfg" => idx # 0 /\ addr[idx] = KernelAddr(idx)

KernelPart ==
  /\ at \notin Initialising =>
       \A i \in KernelEntry : cfg[i] = KernelCfg(i) /\ addr[i] = KernelAddr(i)
  /\ at \in Loading \ {"load_off0"} => \A i \in KernelEntry : low[i] = cfg[i]

TaskPart ==
  /\ at \in Loading => task \in Tasks
  /\ at = "run" => \A i \in TaskEntry : InForce(task, i)
  /\ at = "load_off0" => \A i \in TaskEntry : InForce(prev, i)
  /\ at = "load_off2" =>
       \A i \in TaskEntry : IF i < 8 THEN cfg[i] = Off ELSE InForce(prev, i)
  /\ at = "load_addr" =>
       /\ idx \in TaskEntry
       /\ \A i \in TaskEntry : /\ cfg[i] = Off
                               /\ IF i < idx THEN Prepared(i) ELSE high[i] = Off
  /\ at = "load_cfg0" => \A i \in TaskEntry : cfg[i] = Off /\ Prepared(i)
  /\ at = "load_cfg2" =>
       \A i \in TaskEntry : /\ Prepared(i)
                            /\ IF i < 8 THEN InForce(task, i) ELSE cfg[i] = Off

PmpInv == RegistersOK /\ InitInv /\ KernelPart /\ TaskPart

-----------------------------------------------------------------------------
(* Facts about entries and writes *)

\* Entries 0..3 are the kernel's and in pmpcfg0, the others are the tasks'.
LEMMA EntryFacts ==
  /\ KernelEntry \subseteq Cfg0 /\ Cfg0 \subseteq Entry /\ TaskEntry \subseteq Entry
  /\ \A i \in Entry : i \in KernelEntry \/ i \in TaskEntry
  /\ \A i \in Entry : i \in Cfg2 <=> i >= 8
  /\ \A i \in Entry : i \in Cfg0 <=> i < 8
  /\ \A i \in KernelEntry : i \notin TaskEntry
  /\ Entry \subseteq Nat
  BY PmpAssumption DEF KernelEntry, TaskEntry, Entry, Cfg0, Cfg2

\* A disabled entry and the entries of a task are well formed and not locked.
LEMMA CfgFacts ==
  /\ Off \in CfgType /\ Off.L = FALSE /\ Off.A = "OFF"
  /\ \A t \in Tasks \cup {"none"}, i \in TaskEntry :
       TaskCfg(t, i) \in CfgType /\ TaskCfg(t, i).L = FALSE
<1>1. Off \in CfgType /\ Off.L = FALSE /\ Off.A = "OFF"
  BY DEF Off, CfgByte, CfgType
<1>2. ASSUME NEW t \in Tasks, NEW i \in TaskEntry
      PROVE  /\ CfgByte(Regions[t][i].perm, "NAPOT", FALSE) \in CfgType
             /\ CfgByte(Regions[t][i].perm, "NAPOT", FALSE).L = FALSE
  <2>1. Regions[t][i] \in RegionType
    BY PmpAssumption
  <2>2. QED
    BY <2>1 DEF CfgByte, CfgType, RegionType
<1>3. QED
  BY <1>1, <1>2, Zenon DEF TaskCfg

\* No configuration byte of a task entry is ever locked.
LEMMA TaskEntriesUnlocked ==
  ASSUME PmpInv PROVE \A i \in TaskEntry : cfg[i].L = FALSE
<1> SUFFICES ASSUME NEW i \in TaskEntry PROVE cfg[i].L = FALSE
  BY Zenon
<1>1. \/ cfg[i] = Off
      \/ \E t \in Tasks \cup {"none"} : cfg[i] = TaskCfg(t, i)
  <2>1. at \in Initialising \cup Loading \cup {"run"}
        /\ task \in Tasks \cup {"none"} /\ prev \in Tasks \cup {"none"}
    BY DEF PmpInv, RegistersOK
  <2>2. CASE at \in Initialising
    BY <2>2 DEF PmpInv, InitInv
  <2>3. CASE at = "run"
    BY <2>1, <2>3 DEF PmpInv, TaskPart, InForce
  <2>4. CASE at \in {"load_off0", "load_off2"}
    BY <2>1, <2>4 DEF PmpInv, TaskPart, InForce
  <2>5. CASE at \in {"load_addr", "load_cfg0", "load_cfg2"}
    BY <2>1, <2>5 DEF PmpInv, TaskPart, InForce
  <2>6. QED
    BY <2>1, <2>2, <2>3, <2>4, <2>5 DEF Loading
<1>2. QED
  BY <1>1, CfgFacts

\* A write to an address register that is not locked takes effect.
LEMMA WriteAddrFacts ==
  ASSUME RegistersOK, NEW i \in Entry, NEW v, ~AddrLocked(i), WriteAddr(i, v)
  PROVE  /\ addr' = [j \in Entry |-> addr'[j]]
         /\ addr'[i] = v
         /\ \A j \in Entry : j # i => addr'[j] = addr[j]
  BY DEF RegistersOK, WriteAddr

\* The address registers of task entries are never locked.
LEMMA TaskAddrUnlocked ==
  ASSUME PmpInv, NEW i \in TaskEntry PROVE ~AddrLocked(i)
<1>1. i + 1 \in Entry => i + 1 \in TaskEntry
  BY PmpAssumption DEF TaskEntry, Entry
<1>2. QED
  BY <1>1, TaskEntriesUnlocked, Zenon DEF AddrLocked

-----------------------------------------------------------------------------
(* pmp::init *)

\* Reset leaves every entry off.
LEMMA ResetInv == Init => PmpInv
<1> SUFFICES ASSUME Init PROVE PmpInv
  OBVIOUS
<1> USE EntryFacts, CfgFacts
<1>1. 0 \in Entry
  BY PmpAssumption DEF Entry
<1>2. RegistersOK
  BY <1>1 DEF Init, RegistersOK, Initialising
<1>3. InitInv /\ KernelPart /\ TaskPart
  BY Zenon DEF Init, InitInv, KernelPart, TaskPart, Initialising, Loading
<1>4. QED
  BY <1>2, <1>3 DEF PmpInv

\* clear_all keeps the entries off.
LEMMA ClearInv == PmpInv /\ (ClearCfg0 \/ ClearCfg2 \/ ClearAddr) => PmpInv'
<1> SUFFICES ASSUME PmpInv, ClearCfg0 \/ ClearCfg2 \/ ClearAddr PROVE PmpInv'
  OBVIOUS
<1> USE EntryFacts, CfgFacts DEF PmpInv
<1>0. 0 \in Entry /\ 0 \in KernelEntry
  BY PmpAssumption DEF Entry, KernelEntry
<1>1. /\ at \in {"clear_cfg0", "clear_cfg2", "clear_addr"}
      /\ at' \in {"clear_cfg2", "clear_addr", "entry_addr"}
      /\ at' = "entry_addr" => idx' = 0
      /\ idx' \in Entry
      /\ UNCHANGED <<task, prev, low, high>>
  BY <1>0 DEF ClearCfg0, ClearCfg2, ClearAddr, RegistersOK
<1>2. \A i \in Entry : cfg[i] = Off
  BY <1>1, Zenon DEF InitInv, Initialising
<1>3. cfg' = cfg
  BY <1>2 DEF ClearCfg0, ClearCfg2, ClearAddr, WriteCfg, RegistersOK
<1>4. addr' = [i \in Entry |-> addr'[i]]
  BY DEF ClearCfg0, ClearCfg2, ClearAddr, WriteAddr, RegistersOK
<1>5. RegistersOK'
  BY <1>1, <1>3, <1>4 DEF RegistersOK, Initialising
<1>6. InitInv'
  BY <1>0, <1>1, <1>2, <1>3 DEF InitInv, Initialising, KernelEntry
<1>7. KernelPart' /\ TaskPart'
  BY <1>1 DEF KernelPart, TaskPart, Initialising, Loading
<1>8. QED
  BY <1>5, <1>6, <1>7

\* What init does with each of the four regions.
LEMMA KernelRegionFacts ==
  /\ idx = 0 => /\ IsAnchor /\ ~IsTor /\ ~IsNapot
                /\ Region.base \div 4 = KernelAddr(0)
  /\ idx = 1 => IsTor /\ ~IsNapot /\ Region.base \div 4 = KernelAddr(1)
                /\ Region.cfg = KernelCfg(1)
  /\ idx = 2 => IsTor /\ ~IsNapot /\ Region.base \div 4 = KernelAddr(2)
                /\ Region.cfg = KernelCfg(2)
  /\ idx = 3 => IsNapot /\ ~IsTor /\ napot_addr(Region) = KernelAddr(3)
                /\ NapotByte(Region.cfg) = KernelCfg(3)
<1>1. ASSUME idx = 0
      PROVE  IsAnchor /\ ~IsTor /\ ~IsNapot /\ Region.base \div 4 = KernelAddr(0)
  <2>1. Region = KernelRegion(STEXT, 0, {}, "OFF", FALSE)
    BY <1>1 DEF Region, kernel_entry_regions
  <2>2. QED
    BY <2>1, PmpAssumption
       DEF IsTor, IsNapot, IsAnchor, KernelRegion, CfgByte, KernelAddr
<1>2. ASSUME idx = 1
      PROVE  /\ IsTor /\ ~IsNapot /\ Region.base \div 4 = KernelAddr(1)
             /\ Region.cfg = KernelCfg(1)
  <2>1. Region = KernelRegion(USER_TEXT_END, 0, {"X"}, "TOR", TRUE)
    BY <1>2 DEF Region, kernel_entry_regions
  <2>2. IsTor /\ ~IsNapot /\ Region.base \div 4 = KernelAddr(1)
    BY <2>1 DEF IsTor, IsNapot, KernelRegion, CfgByte, KernelAddr
  <2>3. Region.cfg = KernelCfg(1)
    BY <2>1 DEF KernelRegion, KernelCfg
  <2>4. QED
    BY <2>2, <2>3
<1>3. ASSUME idx = 2
      PROVE  /\ IsTor /\ ~IsNapot /\ Region.base \div 4 = KernelAddr(2)
             /\ Region.cfg = KernelCfg(2)
  <2>1. Region = KernelRegion(EHEAP, 0, {"R", "W"}, "TOR", TRUE)
    BY <1>3 DEF Region, kernel_entry_regions
  <2>2. IsTor /\ ~IsNapot /\ Region.base \div 4 = KernelAddr(2)
    BY <2>1 DEF IsTor, IsNapot, KernelRegion, CfgByte, KernelAddr
  <2>3. Region.cfg = KernelCfg(2)
    BY <2>1 DEF KernelRegion, KernelCfg
  <2>4. QED
    BY <2>2, <2>3
<1>4. ASSUME idx = 3
      PROVE  /\ IsNapot /\ ~IsTor /\ napot_addr(Region) = KernelAddr(3)
             /\ NapotByte(Region.cfg) = KernelCfg(3)
  <2>1. /\ Region = KernelRegion(UART_BASE, UART_SIZE, {"R", "W"}, "OFF", TRUE)
        /\ Region = kernel_entry_regions[4]
    BY <1>4 DEF Region, kernel_entry_regions
  <2>2. /\ Region.cfg.A = "OFF" /\ Region.size = UART_SIZE /\ Region.base = UART_BASE
        /\ Region.cfg = CfgByte({"R", "W"}, "OFF", TRUE)
    BY <2>1 DEF KernelRegion, CfgByte
  <2>3. IsNapot /\ ~IsTor
    BY <2>2, PmpAssumption DEF IsNapot, IsTor, Configurable
  <2>4. napot_addr(Region) = KernelAddr(3)
    <3>1. KernelAddr(3) = napot_addr(kernel_entry_regions[4])
      BY DEF KernelAddr
    <3>2. QED
      BY <2>1, <3>1, Zenon
  <2>5. NapotByte(Region.cfg) = KernelCfg(3)
    <3>1. KernelCfg(3) = CfgByte({"R", "W"}, "NAPOT", TRUE)
      BY DEF KernelCfg
    <3>2. Region.cfg.perm = {"R", "W"} /\ Region.cfg.L = TRUE
      BY <2>2 DEF CfgByte
    <3>3. QED
      BY <3>1, <3>2, Zenon DEF NapotByte
  <2>6. QED
    BY <2>3, <2>4, <2>5
<1>5. QED
  BY <1>1, <1>2, <1>3, <1>4

\* The address of a kernel entry is written while neither it nor the entry
\* above it is locked.
LEMMA InitEntryAddrInv == PmpInv /\ InitEntryAddr => PmpInv'
<1> SUFFICES ASSUME PmpInv, InitEntryAddr PROVE PmpInv'
  OBVIOUS
<1> USE EntryFacts, CfgFacts DEF PmpInv
<1>1. /\ at = "entry_addr" /\ idx \in KernelEntry /\ idx \in Entry
      /\ task = "none" /\ prev = "none"
      /\ UNCHANGED <<cfg, task, prev, low, high>>
  BY Zenon DEF InitEntryAddr, InitInv, Initialising
<1>2. idx \in {0, 1, 2, 3}
  BY <1>1 DEF KernelEntry
<1>3. ~AddrLocked(idx)
  <2>1. cfg[idx] = Off
    BY <1>1 DEF InitInv
  <2>2. idx + 1 \in Entry => cfg[idx + 1] = Off
    BY <1>1, <1>2 DEF InitInv, KernelEntry, Initialising
  <2>3. QED
    BY <2>1, <2>2 DEF AddrLocked
<1>4. WriteAddr(idx, KernelAddr(idx))
  BY <1>2, KernelRegionFacts DEF InitEntryAddr
<1>5. /\ idx = 0 => at' = "entry_addr" /\ idx' = 1
      /\ idx # 0 => at' = "entry_cfg" /\ idx' = idx
  BY <1>2, KernelRegionFacts DEF InitEntryAddr, EndEntry
<1>6. /\ addr' = [j \in Entry |-> addr'[j]] /\ addr'[idx] = KernelAddr(idx)
      /\ \A j \in Entry : j # idx => addr'[j] = addr[j]
  BY <1>1, <1>3, <1>4, WriteAddrFacts
<1>7. 1 \in Entry /\ 1 \in KernelEntry
  BY PmpAssumption DEF Entry, KernelEntry
<1>8. RegistersOK'
  BY <1>1, <1>5, <1>6, <1>7 DEF RegistersOK, Initialising
<1>9. InitInv'
  <2>1. CASE idx = 0
    <3>1. \A i \in KernelEntry : cfg'[i] = Off
      BY <1>1, <2>1 DEF InitInv, KernelEntry
    <3>2. \A i \in KernelEntry : i < 1 => i = 0
      BY DEF KernelEntry
    <3>3. KernelCfg(0) = Off
      BY DEF KernelCfg
    <3>4. QED
      BY <1>1, <1>5, <1>6, <1>7, <2>1, <3>1, <3>2, <3>3 DEF InitInv, Initialising
  <2>2. CASE idx # 0
    <3>1. \A i \in KernelEntry : i < idx => i # idx
      BY <1>2 DEF KernelEntry
    <3>2. QED
      BY <1>1, <1>5, <1>6, <2>2, <3>1 DEF InitInv, Initialising
  <2>3. QED
    BY <2>1, <2>2
<1>10. KernelPart' /\ TaskPart'
  BY <1>5 DEF KernelPart, TaskPart, Initialising, Loading
<1>11. QED
  BY <1>8, <1>9, <1>10

\* The configuration byte of a kernel entry, which locks it.
LEMMA InitEntryCfgInv == PmpInv /\ InitEntryCfg => PmpInv'
<1> SUFFICES ASSUME PmpInv, InitEntryCfg PROVE PmpInv'
  OBVIOUS
<1> USE EntryFacts, CfgFacts DEF PmpInv
<1>1. /\ at = "entry_cfg" /\ idx \in KernelEntry /\ idx # 0
      /\ task = "none" /\ prev = "none"
      /\ addr[idx] = KernelAddr(idx) /\ cfg[idx] = Off
      /\ cfg \in [Entry -> CfgType]
      /\ UNCHANGED <<addr, task, prev, low, high>>
  BY DEF InitEntryCfg, InitInv, Initialising, RegistersOK
<1>2. idx \in {1, 2, 3}
  BY <1>1 DEF KernelEntry
<1>3. WriteCfg(Cfg0, [cfg EXCEPT ![idx] = KernelCfg(idx)])
  BY <1>2, KernelRegionFacts, Zenon DEF InitEntryCfg
<1>4. /\ cfg' = [i \in Entry |-> cfg'[i]]
      /\ cfg'[idx] = KernelCfg(idx)
      /\ \A i \in Entry : i # idx => cfg'[i] = cfg[i]
  BY <1>1, <1>3 DEF WriteCfg
<1>5. KernelCfg(idx) \in CfgType
  BY <1>2 DEF KernelCfg, CfgByte, CfgType
<1>6. cfg' \in [Entry -> CfgType]
  BY <1>1, <1>4, <1>5
<1>7. IF idx = 3 THEN at' = "run" /\ idx' = 0 ELSE at' = "entry_addr" /\ idx' = idx + 1
  BY DEF InitEntryCfg, EndEntry
<1>8. idx' \in Entry
  BY <1>2, <1>7, PmpAssumption DEF Entry
<1>9. RegistersOK'
  BY <1>1, <1>6, <1>7, <1>8 DEF RegistersOK, Initialising
<1>10. \A i \in KernelEntry :
         i <= idx => cfg'[i] = KernelCfg(i) /\ addr'[i] = KernelAddr(i)
  <2>1. \A i \in KernelEntry : i <= idx => i < idx \/ i = idx
    BY <1>2 DEF KernelEntry
  <2>2. QED
    BY <1>1, <1>2, <1>4, <2>1 DEF InitInv
<1>11. \A i \in TaskEntry : cfg'[i] = Off
  BY <1>1, <1>4 DEF InitInv, Initialising
<1>12. CASE idx = 3
  <2>1. \A i \in KernelEntry : i <= idx
    BY <1>12 DEF KernelEntry
  <2>2. InitInv'
    BY <1>7, <1>12 DEF InitInv, Initialising
  <2>3. KernelPart' /\ TaskPart'
    BY <1>1, <1>7, <1>10, <1>11, <1>12, <2>1
       DEF KernelPart, TaskPart, Loading, InForce, AddrFor, TaskCfg
  <2>4. QED
    BY <1>9, <2>2, <2>3
<1>13. CASE idx # 3
  <2>1. /\ \A i \in KernelEntry : i < idx + 1 => i <= idx
        /\ \A i \in KernelEntry : ~(i < idx + 1) => ~(i < idx) /\ i # idx
        /\ idx + 1 \in KernelEntry
    BY <1>2, <1>13 DEF KernelEntry
  <2>2. InitInv'
    BY <1>1, <1>4, <1>7, <1>10, <1>11, <1>13, <2>1 DEF InitInv, Initialising
  <2>3. KernelPart' /\ TaskPart'
    BY <1>7, <1>13 DEF KernelPart, TaskPart, Initialising, Loading
  <2>4. QED
    BY <1>9, <2>2, <2>3
<1>14. QED
  BY <1>12, <1>13

-----------------------------------------------------------------------------
(* load_task_config *)

\* A context switch starts from the entries of the task before.
LEMMA SwitchInv == PmpInv /\ Switch => PmpInv'
<1> SUFFICES ASSUME PmpInv, Switch PROVE PmpInv'
  OBVIOUS
<1> USE EntryFacts DEF PmpInv
<1>1. /\ at = "run" /\ at' = "load_off0" /\ task' \in Tasks /\ prev' = task
      /\ UNCHANGED <<cfg, addr, idx, low, high>>
  BY DEF Switch
<1>2. RegistersOK'
  BY <1>1 DEF RegistersOK, Loading
<1>3. InitInv' /\ KernelPart'
  BY <1>1 DEF InitInv, KernelPart, Initialising, Loading
<1>4. TaskPart'
  BY <1>1 DEF TaskPart, Initialising, Loading, InForce, AddrFor
<1>5. QED
  BY <1>2, <1>3, <1>4

\* A write of pmpcfg0 that repeats the kernel's bytes changes only entries
\* 4..7.
LEMMA WriteCfg0Facts ==
  ASSUME PmpInv, NEW byte \in [Cfg0 -> CfgType],
         \A i \in KernelEntry : byte[i] = cfg[i],
         WriteCfg(Cfg0, byte)
  PROVE  /\ cfg' \in [Entry -> CfgType]
         /\ \A i \in KernelEntry : cfg'[i] = cfg[i]
         /\ \A i \in TaskEntry : cfg'[i] = IF i < 8 THEN byte[i] ELSE cfg[i]
<1>1. cfg \in [Entry -> CfgType]
  BY DEF PmpInv, RegistersOK
<1>2. \A i \in TaskEntry : cfg[i].L = FALSE
  BY TaskEntriesUnlocked, Zenon
<1>3. cfg' \in [Entry -> CfgType]
  BY <1>1, EntryFacts DEF WriteCfg
<1>4. \A i \in KernelEntry : cfg'[i] = cfg[i]
  BY EntryFacts DEF WriteCfg
<1>5. \A i \in TaskEntry : cfg'[i] = IF i < 8 THEN byte[i] ELSE cfg[i]
  BY <1>2, EntryFacts DEF WriteCfg
<1>6. QED
  BY <1>3, <1>4, <1>5

\* A write of pmpcfg2 changes only entries 8 and up.
LEMMA WriteCfg2Facts ==
  ASSUME PmpInv, NEW byte, \A i \in Cfg2 : byte[i] \in CfgType,
         WriteCfg(Cfg2, byte)
  PROVE  /\ cfg' \in [Entry -> CfgType]
         /\ \A i \in KernelEntry : cfg'[i] = cfg[i]
         /\ \A i \in TaskEntry : cfg'[i] = IF i < 8 THEN cfg[i] ELSE byte[i]
<1>1. cfg \in [Entry -> CfgType]
  BY DEF PmpInv, RegistersOK
<1>2. \A i \in TaskEntry : cfg[i].L = FALSE
  BY TaskEntriesUnlocked, Zenon
<1>3. cfg' \in [Entry -> CfgType]
  BY <1>1, EntryFacts DEF WriteCfg
<1>4. \A i \in KernelEntry : i \notin Cfg2
  BY DEF KernelEntry, Cfg2
<1>5. \A i \in KernelEntry : cfg'[i] = cfg[i]
  BY <1>4, EntryFacts DEF WriteCfg
<1>6. \A i \in TaskEntry : i \in Cfg2 <=> ~(i < 8)
  BY PmpAssumption DEF Cfg2, TaskEntry, Entry
<1>7. \A i \in TaskEntry : cfg'[i] = IF i < 8 THEN cfg[i] ELSE byte[i]
  BY <1>2, <1>6, EntryFacts DEF WriteCfg
<1>8. QED
  BY <1>3, <1>5, <1>7

\* Step 1, pmpcfg0.
LEMMA LoadOff0Inv == PmpInv /\ LoadOff0 => PmpInv'
<1> SUFFICES ASSUME PmpInv, LoadOff0 PROVE PmpInv'
  OBVIOUS
<1> USE EntryFacts, CfgFacts DEF PmpInv
<1>1. /\ at = "load_off0" /\ at' = "load_off2" /\ WriteCfg(Cfg0, low')
      /\ low' = [i \in Cfg0 |-> IF i \in KernelEntry THEN cfg[i] ELSE Off]
      /\ UNCHANGED <<addr, idx, task, prev, high>>
  BY DEF LoadOff0
<1>2. /\ low' \in [Cfg0 -> CfgType]
      /\ \A i \in KernelEntry : low'[i] = cfg[i]
      /\ \A i \in TaskEntry : i < 8 => low'[i] = Off
  BY <1>1 DEF RegistersOK
<1>3. /\ cfg' \in [Entry -> CfgType]
      /\ \A i \in KernelEntry : cfg'[i] = cfg[i]
      /\ \A i \in TaskEntry : cfg'[i] = IF i < 8 THEN low'[i] ELSE cfg[i]
  BY <1>1, <1>2, WriteCfg0Facts
<1>4. RegistersOK'
  BY <1>1, <1>2, <1>3 DEF RegistersOK, Loading
<1>5. InitInv' /\ KernelPart'
  BY <1>1, <1>2, <1>3 DEF InitInv, KernelPart, Initialising, Loading
<1>6. TaskPart'
  BY <1>1, <1>2, <1>3 DEF TaskPart, Loading, InForce, AddrFor
<1>7. QED
  BY <1>4, <1>5, <1>6

\* Step 1, pmpcfg2.
LEMMA LoadOff2Inv == PmpInv /\ LoadOff2 => PmpInv'
<1> SUFFICES ASSUME PmpInv, LoadOff2 PROVE PmpInv'
  OBVIOUS
<1> USE EntryFacts, CfgFacts DEF PmpInv
<1>1. /\ at = "load_off2" /\ at' = "load_addr" /\ idx' = 4
      /\ WriteCfg(Cfg2, [i \in Entry |-> Off])
      /\ high' = [i \in TaskEntry |-> Off]
      /\ UNCHANGED <<addr, task, prev, low>>
  BY DEF LoadOff2
<1> DEFINE byte == [j \in Entry |-> Off]
<1>2. \A i \in Cfg2 \cup TaskEntry : byte[i] = Off
  BY DEF Cfg2
<1> HIDE DEF byte
<1>3. /\ cfg' \in [Entry -> CfgType]
      /\ \A i \in KernelEntry : cfg'[i] = cfg[i]
      /\ \A i \in TaskEntry : cfg'[i] = IF i < 8 THEN cfg[i] ELSE byte[i]
  <2>1. WriteCfg(Cfg2, byte)
    BY <1>1 DEF byte
  <2>2. QED
    BY <1>2, <2>1, WriteCfg2Facts
<1>4. \A i \in TaskEntry : cfg'[i] = Off /\ high'[i] = Off
  BY <1>1, <1>2, <1>3 DEF TaskPart
<1>5. 4 \in TaskEntry /\ \A i \in TaskEntry : ~(i < 4)
  BY PmpAssumption DEF TaskEntry
<1>6. RegistersOK'
  BY <1>1, <1>3, <1>5 DEF RegistersOK, Loading
<1>7. InitInv' /\ KernelPart'
  BY <1>1, <1>3, Zenon DEF InitInv, KernelPart, Initialising, Loading
<1>8. TaskPart'
  BY <1>1, <1>4, <1>5, Zenon DEF TaskPart, Loading
<1>9. QED
  BY <1>6, <1>7, <1>8

\* Step 2: one address register, while every task entry is off.
LEMMA LoadAddrInv == PmpInv /\ LoadAddr => PmpInv'
<1> SUFFICES ASSUME PmpInv, LoadAddr PROVE PmpInv'
  OBVIOUS
<1> USE EntryFacts, CfgFacts DEF PmpInv
<1>1. /\ at = "load_addr" /\ task \in Tasks /\ idx \in TaskEntry
      /\ high \in [TaskEntry -> CfgType]
      /\ UNCHANGED <<cfg, task, prev, low>>
  BY DEF LoadAddr, TaskPart, Loading, RegistersOK
<1>2. ~AddrLocked(idx)
  BY <1>1, TaskAddrUnlocked
<1>3. PICK v : WriteAddr(idx, v) /\ (Regions[task][idx].size # 0 =>
                                       v = napot_addr(Regions[task][idx]))
  BY Zenon DEF LoadAddr
<1>4. /\ addr' = [j \in Entry |-> addr'[j]] /\ addr'[idx] = v
      /\ \A j \in Entry : j # idx => addr'[j] = addr[j]
  BY <1>1, <1>2, <1>3, WriteAddrFacts
<1>5. task # "none"
  BY <1>1, PmpAssumption
<1>6. high' = [high EXCEPT ![idx] = TaskCfg(task, idx)]
  <2>1. CASE Regions[task][idx].size = 0
    <3>1. high[idx] = Off
      <4>1. idx \in Nat /\ ~(idx < idx)
        BY <1>1
      <4>2. QED
        BY <1>1, <4>1 DEF TaskPart
    <3>2. QED
      BY <1>1, <2>1, <3>1 DEF LoadAddr, TaskCfg
  <2>2. CASE Regions[task][idx].size # 0
    BY <1>5, <2>2, Zenon DEF LoadAddr, TaskCfg
  <2>3. QED
    BY <2>1, <2>2
<1>7. /\ high' \in [TaskEntry -> CfgType]
      /\ high'[idx] = TaskCfg(task, idx)
      /\ \A i \in TaskEntry : i # idx => high'[i] = high[i]
  BY <1>1, <1>6
<1>8. \A i \in TaskEntry : cfg'[i] = Off /\ (i <= idx => Prepared(i)')
  <2>1. \A i \in TaskEntry : i <= idx => i < idx \/ i = idx
    BY <1>1 DEF TaskEntry
  <2>2. ASSUME NEW i \in TaskEntry, i = idx PROVE Prepared(i)'
    <3>1. /\ high'[i] = TaskCfg(task, i) /\ task' = task
          /\ Regions[task][i].size # 0 => addr'[i] = napot_addr(Regions[task][i])
      BY <1>1, <1>3, <1>4, <1>7, <2>2
    <3>2. QED
      BY <3>1, <1>5, Zenon DEF Prepared, AddrFor, TaskCfg
  <2>3. ASSUME NEW i \in TaskEntry, i < idx PROVE Prepared(i)'
    <3>1. i # idx
      BY <1>1, <2>3 DEF TaskEntry
    <3>2. Prepared(i)
      BY <1>1, <2>3 DEF TaskPart
    <3>3. QED
      BY <1>1, <1>4, <1>7, <3>1, <3>2 DEF Prepared, AddrFor
  <2>4. \A i \in TaskEntry : cfg'[i] = Off
    BY <1>1 DEF TaskPart
  <2>5. QED
    BY <2>1, <2>2, <2>3, <2>4
<1>9. IF idx + 1 \in Entry THEN idx' = idx + 1 /\ at' = "load_addr"
      ELSE idx' = 0 /\ at' = "load_cfg0"
  BY <1>1 DEF LoadAddr
<1>10. RegistersOK'
  <2>1. idx' \in Entry
    BY <1>9, PmpAssumption DEF Entry
  <2>2. QED
    BY <1>1, <1>4, <1>7, <1>9, <2>1 DEF RegistersOK, Loading
<1>11. InitInv' /\ KernelPart'
  <2>1. \A i \in KernelEntry : addr'[i] = addr[i]
    BY <1>1, <1>4
  <2>2. QED
    BY <1>1, <1>9, <2>1 DEF InitInv, KernelPart, Initialising, Loading
<1>12. TaskPart'
  <2>1. CASE idx + 1 \in Entry
    <3>1. /\ idx + 1 \in TaskEntry
          /\ \A i \in TaskEntry : i < idx + 1 => i <= idx
          /\ \A i \in TaskEntry : ~(i < idx + 1) => i # idx /\ ~(i < idx)
      BY <1>1, <2>1 DEF TaskEntry, Entry
    <3>2. \A i \in TaskEntry : ~(i < idx + 1) => high'[i] = Off
      BY <1>1, <1>7, <3>1 DEF TaskPart
    <3>3. QED
      BY <1>1, <1>8, <1>9, <2>1, <3>1, <3>2 DEF TaskPart, Loading
  <2>2. CASE idx + 1 \notin Entry
    <3>1. \A i \in TaskEntry : i <= idx
      BY <1>1, <2>2, PmpAssumption DEF TaskEntry, Entry
    <3>2. QED
      BY <1>1, <1>8, <1>9, <2>2, <3>1 DEF TaskPart, Loading
  <2>3. QED
    BY <2>1, <2>2
<1>13. QED
  BY <1>10, <1>11, <1>12

\* Step 3, pmpcfg0.
LEMMA LoadCfg0Inv == PmpInv /\ LoadCfg0 => PmpInv'
<1> SUFFICES ASSUME PmpInv, LoadCfg0 PROVE PmpInv'
  OBVIOUS
<1> USE EntryFacts, CfgFacts DEF PmpInv
<1> DEFINE byte == [i \in Cfg0 |-> IF i \in KernelEntry THEN low[i] ELSE high[i]]
<1>1. /\ at = "load_cfg0" /\ at' = "load_cfg2" /\ WriteCfg(Cfg0, byte)
      /\ UNCHANGED <<addr, idx, task, prev, low, high>>
  BY DEF LoadCfg0
<1>2. /\ byte \in [Cfg0 -> CfgType]
      /\ \A i \in KernelEntry : byte[i] = cfg[i]
      /\ \A i \in TaskEntry : i < 8 => byte[i] = high[i]
  BY <1>1 DEF RegistersOK, KernelPart, Loading
<1> HIDE DEF byte
<1>3. /\ cfg' \in [Entry -> CfgType]
      /\ \A i \in KernelEntry : cfg'[i] = cfg[i]
      /\ \A i \in TaskEntry : cfg'[i] = IF i < 8 THEN byte[i] ELSE cfg[i]
  BY <1>1, <1>2, WriteCfg0Facts
<1>4. RegistersOK'
  BY <1>1, <1>3 DEF RegistersOK, Loading
<1>5. InitInv' /\ KernelPart'
  BY <1>1, <1>3 DEF InitInv, KernelPart, Initialising, Loading
<1>6. TaskPart'
  BY <1>1, <1>2, <1>3 DEF TaskPart, Loading, InForce, AddrFor, Prepared
<1>7. QED
  BY <1>4, <1>5, <1>6

\* Step 3, pmpcfg2.
LEMMA LoadCfg2Inv == PmpInv /\ LoadCfg2 => PmpInv'
<1> SUFFICES ASSUME PmpInv, LoadCfg2 PROVE PmpInv'
  OBVIOUS
<1> USE EntryFacts, CfgFacts DEF PmpInv
<1> DEFINE byte == [i \in Cfg2 |-> high[i]]
<1>1. /\ at = "load_cfg2" /\ at' = "run" /\ WriteCfg(Cfg2, byte)
      /\ UNCHANGED <<addr, idx, task, prev, low, high>>
  BY DEF LoadCfg2
<1>2. /\ \A i \in Cfg2 : byte[i] = high[i] /\ i \in TaskEntry
      /\ \A i \in TaskEntry : ~(i < 8) => i \in Cfg2
  BY PmpAssumption DEF Cfg2, TaskEntry, Entry
<1> HIDE DEF byte
<1>3. \A i \in Cfg2 : byte[i] \in CfgType
  BY <1>2 DEF RegistersOK
<1>4. /\ cfg' \in [Entry -> CfgType]
      /\ \A i \in KernelEntry : cfg'[i] = cfg[i]
      /\ \A i \in TaskEntry : cfg'[i] = IF i < 8 THEN cfg[i] ELSE byte[i]
  BY <1>1, <1>3, WriteCfg2Facts
<1>5. RegistersOK'
  BY <1>1, <1>4 DEF RegistersOK
<1>6. InitInv' /\ KernelPart'
  BY <1>1, <1>4 DEF InitInv, KernelPart, Initialising, Loading
<1>7. TaskPart'
  BY <1>1, <1>2, <1>4, Zenon DEF TaskPart, Loading, InForce, AddrFor, Prepared
<1>8. QED
  BY <1>5, <1>6, <1>7

-----------------------------------------------------------------------------
(* The theorems *)

\* The invariant holds between any two CSR writes.
THEOREM PmpInvariant == Spec => []PmpInv
<1>1. Init => PmpInv
  BY ResetInv
<1>2. PmpInv /\ [Next]_vars => PmpInv'
  <2>1. PmpInv /\ UNCHANGED vars => PmpInv'
    <3> SUFFICES ASSUME PmpInv, UNCHANGED vars PROVE PmpInv'
      OBVIOUS
    <3> USE DEF vars, PmpInv
    <3>1. RegistersOK' /\ InitInv'
      BY DEF RegistersOK, InitInv
    <3>2. KernelPart'
      BY DEF KernelPart
    <3>3. TaskPart'
      BY DEF TaskPart, InForce, Prepared, AddrFor
    <3>4. QED
      BY <3>1, <3>2, <3>3
  <2>2. QED
    BY <2>1, ClearInv, InitEntryAddrInv, InitEntryCfgInv, SwitchInv, LoadOff0Inv,
       LoadOff2Inv, LoadAddrInv, LoadCfg0Inv, LoadCfg2Inv DEF Next
<1>3. QED
  BY <1>1, <1>2, PTL DEF Spec

\* After init the kernel entries are in force for ever.
THEOREM KernelEntriesStay == Spec => []KernelEntriesInForce
<1>1. PmpInv => KernelEntriesInForce
  <2>1. 0 \in KernelEntry /\ 1 \in KernelEntry /\ 2 \in KernelEntry /\ 3 \in KernelEntry
    BY DEF KernelEntry
  <2>2. /\ KernelCfg(0) = Off /\ KernelAddr(0) = STEXT \div 4
        /\ KernelCfg(1) = CfgByte({"X"}, "TOR", TRUE)
        /\ KernelAddr(1) = USER_TEXT_END \div 4
        /\ KernelCfg(2) = CfgByte({"R", "W"}, "TOR", TRUE)
        /\ KernelAddr(2) = EHEAP \div 4
    BY DEF KernelCfg, KernelAddr
  <2>3. /\ KernelCfg(3) = CfgByte({"R", "W"}, "NAPOT", TRUE)
        /\ KernelAddr(3) = napot_addr(kernel_entry_regions[4])
    BY DEF KernelCfg, KernelAddr
  <2>4. QED
    BY <2>1, <2>2, <2>3, Zenon DEF PmpInv, KernelPart, KernelEntriesInForce
<1>2. QED
  BY <1>1, PmpInvariant, PTL

\* No entry mixes the permissions of one task with the address of another.
THEOREM NeverMixed == Spec => []NoMixedEntry
<1>1. ASSUME PmpInv, NEW i \in TaskEntry, cfg[i].A # "OFF"
      PROVE  Encodes(i, task) \/ Encodes(i, prev)
  <2>1. cfg[i] # Off
    BY <1>1, CfgFacts
  <2>2. \/ InForce(task, i)
        \/ InForce(prev, i)
    <3>1. at \in Initialising \cup Loading \cup {"run"}
      BY <1>1 DEF PmpInv, RegistersOK
    <3>2. at \notin Initialising
      BY <1>1, <2>1 DEF PmpInv, InitInv
    <3>3. QED
      BY <1>1, <2>1, <3>1, <3>2 DEF PmpInv, TaskPart, Loading
  <2>3. \A t : InForce(t, i) => Encodes(i, t)
    BY <2>1, Zenon DEF InForce, AddrFor, TaskCfg, Encodes
  <2>4. QED
    BY <2>2, <2>3
<1>2. PmpInv => NoMixedEntry
  BY <1>1 DEF NoMixedEntry
<1>3. QED
  BY <1>2, PmpInvariant, PTL

-----------------------------------------------------------------------------
(* M-mode is never locked out *)

\* The entry that decides an access exists: the lowest of those that match.
LEMMA LeastEntry ==
  ASSUME NEW hits \in SUBSET Entry, hits # {}
  PROVE  \E i \in hits : \A k \in hits : i <= k
<1>1. hits \subseteq Nat
  BY EntryFacts
<1>2. PICK i \in hits : \A k \in hits : ~(<<k, i>> \in OpToRel(<, Nat))
  BY <1>1, WFMin, NatLessThanWellFounded
<1>3. ASSUME NEW k \in hits PROVE i <= k
  <2>1. i \in Nat /\ k \in Nat
    BY <1>1
  <2>2. k < i => <<k, i>> \in OpToRel(<, Nat)
    BY <2>1 DEF OpToRel
  <2>3. ~(k < i)
    BY <1>2, <2>2
  <2>4. QED
    BY <2>1, <2>3
<1>4. QED
  BY <1>3

\* A locked entry is entry 1, 2 or 3, and the kernel entries up to it are
\* installed: init locks them in order.
LEMMA LockedEntries ==
  ASSUME PmpInv, NEW i \in Entry, cfg[i].L
  PROVE  /\ i \in {1, 2, 3} /\ cfg[i] = KernelCfg(i)
         /\ \A j \in KernelEntry : j <= i => addr[j] = KernelAddr(j)
                                             /\ cfg[j] = KernelCfg(j)
<1>1. i \in KernelEntry
  BY TaskEntriesUnlocked, EntryFacts, Zenon
<1>2. cfg[i] # Off
  BY CfgFacts
<1>3. \A j \in KernelEntry : j <= i => addr[j] = KernelAddr(j) /\ cfg[j] = KernelCfg(j)
  <2>1. at \in Initialising \cup Loading \cup {"run"}
    BY DEF PmpInv, RegistersOK
  <2>2. CASE at \in {"entry_addr", "entry_cfg"}
    <3>1. i < idx /\ idx \in KernelEntry
      BY <1>1, <1>2, <2>2 DEF PmpInv, InitInv
    <3>2. \A j \in KernelEntry : j <= i => j < idx
      BY <1>1, <3>1 DEF KernelEntry
    <3>3. QED
      BY <2>2, <3>2 DEF PmpInv, InitInv
  <2>3. CASE at \in {"clear_cfg0", "clear_cfg2", "clear_addr"}
    BY <1>1, <1>2, <2>3 DEF PmpInv, InitInv
  <2>4. CASE at \notin Initialising
    BY <2>4 DEF PmpInv, KernelPart
  <2>5. QED
    BY <2>1, <2>2, <2>3, <2>4 DEF Initialising
<1>4. cfg[i] = KernelCfg(i)
  BY <1>1, <1>3 DEF KernelEntry
<1>5. i # 0
  BY <1>2, <1>4, Zenon DEF KernelCfg
<1>6. i \in {1, 2, 3}
  BY <1>1, <1>5 DEF KernelEntry
<1>7. QED
  BY <1>3, <1>4, <1>6

\* What a locked entry decides: text is executable, everything else it covers
\* can be read and written.
LEMMA LockedPermits ==
  ASSUME PmpInv, NEW a \in Nat, NEW i \in Entry, cfg[i].L, Covers(cfg, addr, i, a),
         \A k \in Entry : Covers(cfg, addr, k, a) => i <= k
  PROVE  IF STEXT <= a /\ a < USER_TEXT_END THEN cfg[i].perm = {"X"}
         ELSE cfg[i].perm = {"R", "W"}
<1> DEFINE InText == STEXT <= a /\ a < USER_TEXT_END
<1>1. i \in {1, 2, 3} /\ 0 \in KernelEntry /\ 1 \in KernelEntry /\ 2 \in KernelEntry
  BY LockedEntries DEF KernelEntry
<1>2. addr[0] = STEXT \div 4 /\ addr[1] = USER_TEXT_END \div 4
      /\ cfg[1] = CfgByte({"X"}, "TOR", TRUE)
  <2>1. 0 <= i /\ 1 <= i
    BY <1>1
  <2>2. addr[0] = KernelAddr(0) /\ addr[1] = KernelAddr(1) /\ cfg[1] = KernelCfg(1)
    BY <1>1, <2>1, LockedEntries
  <2>3. QED
    BY <2>2 DEF KernelAddr, KernelCfg
<1>3. 4 * (STEXT \div 4) = STEXT /\ 4 * (USER_TEXT_END \div 4) = USER_TEXT_END
  BY PmpAssumption
<1>4. Covers(cfg, addr, 1, a) <=> InText
  BY <1>2, <1>3 DEF Covers, CfgByte
<1>5. 1 \in Entry
  BY PmpAssumption DEF Entry
<1>6. CASE i = 1
  BY <1>2, <1>4, <1>6 DEF CfgByte
<1>7. CASE i # 1
  <2>1. ~InText
    BY <1>1, <1>4, <1>5, <1>7
  <2>2. cfg[i].perm = {"R", "W"}
    BY <1>1, <1>7, LockedEntries DEF KernelCfg, CfgByte
  <2>3. QED
    BY <2>1, <2>2
<1>8. QED
  BY <1>6, <1>7

\* The kernel can fetch from its text and the user text, and read and write
\* everything else, between any two CSR writes of init and load_task_config.
THEOREM KernelNotLockedOut == Spec => []KernelNeverLockedOut
<1>1. ASSUME PmpInv, NEW a \in Nat, NEW access,
             IF STEXT <= a /\ a < USER_TEXT_END THEN access = "X"
             ELSE access \in {"R", "W"}
      PROVE  Allowed("M", access, a)
  <2> DEFINE hits == {i \in Entry : Covers(cfg, addr, i, a)}
  <2>1. CASE hits = {}
    BY <2>1 DEF Allowed, Permits
  <2>2. CASE hits # {}
    <3> DEFINE i == CHOOSE j \in hits : \A k \in hits : j <= k
    <3>1. hits \in SUBSET Entry
      OBVIOUS
    <3>2. i \in hits /\ \A k \in hits : i <= k
      <4> HIDE DEF hits
      <4> QED
        BY <2>2, <3>1, LeastEntry
    <3>3. ~cfg[i].L \/ access \in cfg[i].perm
      <4> HIDE DEF i
      <4> QED
        BY <1>1, <3>2, LockedPermits
    <3>4. Allowed("M", access, a) = (~cfg[i].L \/ access \in cfg[i].perm)
      BY <2>2 DEF Allowed, Permits
    <3>5. QED
      BY <3>3, <3>4, Zenon
  <2>3. QED
    BY <2>1, <2>2
<1>2. ASSUME PmpInv PROVE KernelNeverLockedOut
  <2> SUFFICES ASSUME NEW a \in {b \in 0..(MEM_TOP - 1) : b % 4 = 0}
               PROVE  /\ STEXT <= a /\ a < USER_TEXT_END => Allowed("M", "X", a)
                      /\ \/ USER_TEXT_END <= a /\ a < EHEAP
                         \/ UART_BASE <= a /\ a < UART_BASE + UART_SIZE
                         \/ a \in CLINT
                         => Allowed("M", "R", a) /\ Allowed("M", "W", a)
    BY DEF KernelNeverLockedOut
  <2>1. a \in Nat
    BY PmpAssumption
  <2>2. \/ USER_TEXT_END <= a /\ a < EHEAP
        \/ UART_BASE <= a /\ a < UART_BASE + UART_SIZE
        \/ a \in CLINT
        => ~(STEXT <= a /\ a < USER_TEXT_END)
    BY <2>1, PmpAssumption, DevicesBelowRam
  <2>3. QED
    BY <1>1, <1>2, <2>1, <2>2
<1>3. QED
  BY <1>2, PmpInvariant, PTL

-----------------------------------------------------------------------------
(* The NAPOT encoding *)

\* Division with remainder.
LEMMA Euclid ==
  ASSUME NEW y \in Nat, NEW p \in Nat \ {0}
  PROVE  y \div p \in Nat /\ y % p \in 0..(p - 1) /\ y = p * (y \div p) + (y % p)
  OBVIOUS

\* A positive factor cancels.
LEMMA Cancel ==
  ASSUME NEW p \in Nat \ {0}, NEW u \in Int, NEW v \in Int, p * u = p * v
  PROVE  u = v
  OBVIOUS

\* The remainder is the one below the divisor.
LEMMA EuclidUnique ==
  ASSUME NEW p \in Nat \ {0}, NEW c \in Nat, NEW r \in 0..(p - 1)
  PROVE  (p * c + r) % p = r
<1> DEFINE y == p * c + r
           d == y \div p
           s == y % p
<1>0. y \in Nat
  OBVIOUS
<1>1. d \in Nat /\ s \in 0..(p - 1) /\ y = p * d + s
  BY <1>0, Euclid, Zenon
<1>2. p * c + r = p * d + s
  BY <1>1
<1> HIDE DEF d, s, y
<1>3. c = d
  <2>1. p * (c - d) = s - r
    BY <1>1, <1>2
  <2>2. c - d >= 1 => p * (c - d) >= p
    BY <1>1
  <2>3. d - c >= 1 => p * (d - c) >= p
    BY <1>1
  <2>4. p * (d - c) = r - s
    BY <1>1, <1>2
  <2>5. QED
    BY <1>1, <2>1, <2>2, <2>3, <2>4
<1>4. r = s
  BY <1>1, <1>2, <1>3
<1>5. QED
  BY <1>4 DEF s, y

\* Powers of two, by counting subsets: one more element doubles their number.
LEMMA PowerDoubles ==
  ASSUME NEW n \in Nat
  PROVE  2^n \in Nat /\ 2^(n + 1) = 2 * 2^n
<1> DEFINE S == 1..n
           A == SUBSET S
           B == {s \cup {n + 1} : s \in A}
<1>1. /\ IsFiniteSet(S) /\ Cardinality(S) = n
      /\ IsFiniteSet(1..(n + 1)) /\ Cardinality(1..(n + 1)) = n + 1
  BY FS_Interval
<1>2. /\ IsFiniteSet(A) /\ Cardinality(A) = 2^n
      /\ Cardinality(SUBSET (1..(n + 1))) = 2^(n + 1)
  BY <1>1, FS_SUBSET, Zenon
<1>3. n + 1 \notin S /\ 1..(n + 1) = S \cup {n + 1}
  OBVIOUS
<1> HIDE DEF S
<1>4. SUBSET (1..(n + 1)) = A \cup B
  <2>1. ASSUME NEW s \in SUBSET (S \cup {n + 1}), s \notin A PROVE s \in B
    <3>1. s \ {n + 1} \in A /\ s = (s \ {n + 1}) \cup {n + 1}
      BY <2>1
    <3>2. QED
      BY <3>1, Zenon
  <2>2. QED
    BY <1>3, <2>1
<1>5. A \cap B = {}
  BY <1>3
<1>6. ExistsBijection(A, B)
  <2> DEFINE f == [s \in A |-> s \cup {n + 1}]
  <2>1. \A s, t \in A : f[s] = f[t] => s = t
    <3> SUFFICES ASSUME NEW s \in A, NEW t \in A, s \cup {n + 1} = t \cup {n + 1}
                 PROVE  s = t
      OBVIOUS
    <3>1. n + 1 \notin s /\ n + 1 \notin t
      BY <1>3
    <3>2. QED
      BY <3>1
  <2>2. f \in [A -> B] /\ \A b \in B : \E s \in A : f[s] = b
    BY Zenon
  <2> HIDE DEF f, A, B
  <2>3. f \in Bijection(A, B)
    BY <2>1, <2>2 DEF Bijection, Injection, Surjection, IsInjective
  <2>4. QED
    BY <2>3 DEF ExistsBijection
<1>7. IsFiniteSet(B) /\ Cardinality(B) = 2^n /\ Cardinality(A) \in Nat
  BY <1>2, <1>6, FS_Bijection, FS_CardinalityType
<1>8. Cardinality(A \cup B) = Cardinality(A) + Cardinality(B) - Cardinality(A \cap B)
  BY <1>2, <1>7, FS_Union, Zenon
<1>9. Cardinality(A \cap B) = 0
  BY <1>5, FS_EmptySet, Zenon
<1> HIDE DEF A, B
<1>10. Cardinality(A \cup B) = 2 * Cardinality(A)
  <2>1. Cardinality(B) = Cardinality(A)
    BY <1>2, <1>7
  <2>2. QED
    BY <1>7, <1>8, <1>9, <2>1
<1>11. QED
  BY <1>2, <1>4, <1>7, <1>10, Zenon

\* A property of the natural numbers that holds at 0 and is passed on holds
\* everywhere: the set of exceptions has no least element.
LEMMA NoLeastException ==
  ASSUME NEW X \in SUBSET Nat, 0 \notin X,
         \A n \in Nat : n + 1 \in X => n \in X
  PROVE  X = {}
<1> SUFFICES ASSUME X # {} PROVE FALSE
  OBVIOUS
<1>1. PICK m \in X : \A k \in X : ~(<<k, m>> \in OpToRel(<, Nat))
  BY WFMin, NatLessThanWellFounded
<1>2. m \in Nat /\ m # 0
  OBVIOUS
<1>3. m - 1 \in Nat /\ (m - 1) + 1 = m /\ m - 1 < m
  BY <1>2
<1>4. m - 1 \in X
  BY <1>3
<1>5. <<m - 1, m>> \in OpToRel(<, Nat)
  BY <1>2, <1>3 DEF OpToRel
<1>6. QED
  BY <1>1, <1>4, <1>5

\* Every power of two is a natural number larger than its exponent.
LEMMA PowerPositive == \A n \in Nat : 2^n \in Nat /\ 2^n > n
<1> DEFINE X == {n \in Nat : ~(2^n \in Nat /\ 2^n > n)}
<1>1. 0 \notin X
  OBVIOUS
<1>2. ASSUME NEW n \in Nat, n \notin X PROVE n + 1 \notin X
  <2>1. 2^n \in Nat /\ 2^n > n
    BY <1>2
  <2>2. 2^(n + 1) = 2 * 2^n
    BY PowerDoubles
  <2>3. 2 * 2^n \in Nat /\ 2 * 2^n > n + 1
    BY <2>1
  <2>4. QED
    BY <2>2, <2>3
<1>3. X = {}
  <2>1. X \in SUBSET Nat
    OBVIOUS
  <2> HIDE DEF X
  <2>2. QED
    BY <1>1, <1>2, <2>1, NoLeastException
<1>4. QED
  BY <1>3

\* Exponents add.
LEMMA PowerOfSum ==
  ASSUME NEW j \in Nat
  PROVE  \A n \in Nat : 2^(j + n) = 2^j * 2^n
<1> DEFINE X == {n \in Nat : 2^(j + n) # 2^j * 2^n}
<1>0. 2^j \in Nat
  BY PowerPositive
<1>1. 0 \notin X
  <2>1. j + 0 = j /\ 2^0 = 1
    OBVIOUS
  <2>2. 2^j * 2^0 = 2^j
    BY <1>0, <2>1
  <2>3. QED
    BY <2>1, <2>2
<1>2. ASSUME NEW n \in Nat, n \notin X PROVE n + 1 \notin X
  <2>1. 2^(j + n) = 2^j * 2^n
    BY <1>2
  <2>2. j + n \in Nat /\ j + (n + 1) = (j + n) + 1
    OBVIOUS
  <2>3. 2^((j + n) + 1) = 2 * 2^(j + n) /\ 2^(n + 1) = 2 * 2^n
    BY <2>2, PowerDoubles
  <2>4. 2^n \in Nat
    BY PowerPositive
  <2>5. 2 * (2^j * 2^n) = 2^j * (2 * 2^n)
    BY <1>0, <2>4
  <2>6. 2^(j + (n + 1)) = 2^j * 2^(n + 1)
    BY <2>1, <2>2, <2>3, <2>5
  <2>7. QED
    BY <2>6
<1>3. X = {}
  <2>1. X \in SUBSET Nat
    OBVIOUS
  <2> HIDE DEF X
  <2>2. QED
    BY <1>1, <1>2, <2>1, NoLeastException
<1>4. QED
  BY <1>3, Zenon

\* An odd multiple of a power of two determines the power.
LEMMA OddPart ==
  ASSUME NEW k \in Nat, NEW n \in Nat, NEW c \in Nat, NEW d \in Nat,
         2^k * (2 * c + 1) = 2^n * (2 * d + 1)
  PROVE  ~(k < n)
<1> SUFFICES ASSUME k < n PROVE FALSE
  OBVIOUS
<1> DEFINE j == n - (k + 1)
           p == 2^k
           q == 2^j
<1>1. j \in Nat /\ n = (k + 1) + j
  OBVIOUS
<1>2. p \in Nat \ {0} /\ q \in Nat
  BY <1>1, PowerPositive
<1>3. 2^n = 2^(k + 1) * q /\ 2^(k + 1) = 2 * p
  BY <1>1, PowerOfSum, PowerDoubles
<1>4. p * (2 * c + 1) = ((2 * p) * q) * (2 * d + 1)
  BY <1>3, Zenon
<1> HIDE DEF j, p, q
<1>5. ((2 * p) * q) * (2 * d + 1) = p * (2 * (q * (2 * d + 1)))
  BY <1>2
<1> DEFINE e == q * (2 * d + 1)
<1>6. e \in Nat
  BY <1>2
<1>7. p * (2 * c + 1) = p * (2 * e)
  BY <1>4, <1>5
<1> HIDE DEF e
<1>8. 2 * c + 1 = 2 * e
  BY <1>2, <1>6, <1>7, Cancel
<1>9. QED
  BY <1>6, <1>8

\* A number whose binary form ends in a zero and n ones.
LEMMA TrailingOnesOf ==
  ASSUME NEW n \in Nat, NEW c \in Nat, NEW y \in Nat,
         y = (2 * 2^n) * c + (2^n - 1)
  PROVE  TrailingOnes(y) = n /\ y % 2^(n + 1) = 2^n - 1
<1>1. 2^n \in Nat /\ 2^n > n /\ 2^(n + 1) = 2 * 2^n
  BY PowerPositive, PowerDoubles
<1>2. n \in 0..y
  <2> DEFINE p == 2^n
  <2>1. (2 * p) * c \in Nat
    BY <1>1
  <2> DEFINE z == (2 * p) * c
  <2>2. y = z + (p - 1) /\ z \in Nat /\ p \in Nat /\ p > n
    BY <1>1, <2>1
  <2> HIDE DEF p, z
  <2>3. QED
    BY <2>2
<1>3. y % 2^(n + 1) = 2^n - 1
  <2>1. 2 * 2^n \in Nat \ {0} /\ 2^n - 1 \in 0..((2 * 2^n) - 1)
    BY <1>1
  <2>2. QED
    BY <1>1, <2>1, EuclidUnique, Zenon
<1>4. ASSUME NEW k \in 0..y, y % 2^(k + 1) = 2^k - 1
      PROVE  k = n
  <2> DEFINE d == y \div 2^(k + 1)
  <2>1. k \in Nat /\ 2^k \in Nat /\ 2^k > 0 /\ 2^(k + 1) = 2 * 2^k
    BY PowerPositive, PowerDoubles
  <2>2. d \in Nat /\ y = 2^(k + 1) * d + (2^k - 1)
    <3>1. 2^(k + 1) \in Nat \ {0}
      BY <2>1
    <3>2. QED
      BY <1>4, <3>1, Euclid, Zenon
  <2> HIDE DEF d
  <2>3. y + 1 = 2^k * (2 * d + 1)
    BY <2>1, <2>2
  <2>4. y + 1 = 2^n * (2 * c + 1)
    BY <1>1
  <2>5. ~(k < n) /\ ~(n < k)
    BY <2>1, <2>2, <2>3, <2>4, OddPart, Zenon
  <2>6. QED
    BY <2>1, <2>5
<1>5. QED
  BY <1>2, <1>3, <1>4 DEF TrailingOnes

\* The NAPOT encoding loses nothing: the hardware decodes the address that
\* PmpRegion::napot_addr computes to the region it was computed from.
LEMMA NapotRoundTrip ==
  ASSUME NEW region, region.base \in Nat, region.size \in Nat, Configurable(region)
  PROVE  /\ NapotBase(napot_addr(region)) = region.base
         /\ NapotSize(napot_addr(region)) = region.size
<1> DEFINE size == region.size
           base == region.base
           y == napot_addr(region)
<1>1. /\ size \in Nat \ {0} /\ size >= 8 /\ IsPowerOfTwo(size)
      /\ base \in Nat /\ base % size = 0
      /\ y = (base + (size \div 2 - 1)) \div 4
  BY DEF Configurable, napot_addr
<1> HIDE DEF size, base, y
<1>2. PICK n \in Nat : size = 2^(n + 3)
  <2>1. PICK m \in Nat : size = 2^m
    BY <1>1 DEF IsPowerOfTwo
  <2>2. m >= 3
    <3>1. m = 0 => size = 1
      BY <2>1
    <3>2. m = 1 => size = 2
      BY <2>1
    <3>3. m = 2 => size = 4
      BY <2>1
    <3>4. QED
      BY <1>1, <3>1, <3>2, <3>3
  <2>3. m - 3 \in Nat /\ m = (m - 3) + 3
    BY <2>2
  <2>4. QED
    BY <2>1, <2>3
<1> DEFINE q == 2^n
           c == base \div size
<1>3. q \in Nat \ {0} /\ 2^(n + 1) = 2 * q
  BY PowerPositive, PowerDoubles
<1>4. 2^(n + 3) = 8 * q
  <2>1. /\ 2^((n + 1) + 1) = 2 * 2^(n + 1)
        /\ 2^((n + 1 + 1) + 1) = 2 * 2^(n + 1 + 1)
    BY PowerDoubles
  <2>2. n + 1 + 1 + 1 = n + 3
    OBVIOUS
  <2>3. QED
    BY <1>3, <2>1, <2>2
<1>5. size = 8 * q
  BY <1>2, <1>4
<1>6. c \in Nat /\ base = size * c
  <2>1. c \in Nat /\ base = size * c + (base % size)
    BY <1>1, Euclid, Zenon
  <2> HIDE DEF c
  <2>2. size * c \in Nat
    BY <1>1, <2>1
  <2>3. QED
    BY <1>1, <2>1, <2>2
<1> HIDE DEF q, c
<1> DEFINE z == q * c
<1>7. z \in Nat /\ base = 8 * z
  BY <1>3, <1>5, <1>6
<1>8. y = 2 * z + (q - 1)
  <2> HIDE DEF z
  <2>1. size \div 2 = 4 * q
    BY <1>3, <1>5
  <2>2. QED
    BY <1>1, <1>3, <1>7, <2>1
<1>9. y \in Nat /\ y = (2 * q) * c + (q - 1)
  BY <1>3, <1>6, <1>7, <1>8
<1>10. TrailingOnes(y) = n /\ y % 2^(n + 1) = q - 1
  BY <1>3, <1>6, <1>9, TrailingOnesOf, Zenon DEF q
<1>11. NapotSize(y) = size
  BY <1>2, <1>10 DEF NapotSize
<1>12. NapotBase(y) = 4 * (y - (q - 1))
  BY <1>10 DEF NapotBase
<1>13. NapotBase(y) = base
  BY <1>3, <1>7, <1>8, <1>12
<1>14. QED
  BY <1>11, <1>13 DEF size, base, y

-----------------------------------------------------------------------------
(* What the hardware makes of a loaded task *)

\* The regions of a task are well formed, and those it uses can be encoded.
LEMMA RegionFacts ==
  ASSUME NEW t \in Tasks, NEW i \in TaskEntry
  PROVE  /\ Regions[t][i] \in RegionType
         /\ Regions[t][i].size # 0 =>
              /\ NapotBase(napot_addr(Regions[t][i])) = Regions[t][i].base
              /\ NapotSize(napot_addr(Regions[t][i])) = Regions[t][i].size
<1>1. Regions[t][i] \in RegionType
  BY PmpAssumption
<1>2. Regions[t][i].base \in Nat /\ Regions[t][i].size \in Nat
  BY <1>1 DEF RegionType
<1>3. Regions[t][i].size # 0 => Configurable(Regions[t][i])
  BY RegionsAssumption
<1>4. QED
  BY <1>1, <1>2, <1>3, NapotRoundTrip

\* After a load, entry i of the task is off when the task has no region there,
\* and otherwise has its permissions and the address that encodes it.
LEMMA RunningEntry ==
  ASSUME PmpInv, at = "run", task \in Tasks, NEW i \in TaskEntry
  PROVE  IF Regions[task][i].size = 0 THEN cfg[i] = Off
         ELSE /\ cfg[i] = CfgByte(Regions[task][i].perm, "NAPOT", FALSE)
              /\ addr[i] = napot_addr(Regions[task][i])
<1>1. cfg[i] = TaskCfg(task, i) /\ AddrFor(cfg[i], task, i)
  BY DEF PmpInv, TaskPart, InForce
<1>2. task # "none"
  BY PmpAssumption
<1>3. CASE Regions[task][i].size = 0
  BY <1>1, <1>3 DEF TaskCfg
<1>4. CASE Regions[task][i].size # 0
  <2>1. cfg[i] = CfgByte(Regions[task][i].perm, "NAPOT", FALSE)
    BY <1>1, <1>2, <1>4, Zenon DEF TaskCfg
  <2>2. cfg[i] # Off
    BY <2>1 DEF Off, CfgByte
  <2>3. QED
    BY <1>1, <1>4, <2>1, <2>2 DEF AddrFor
<1>5. QED
  BY <1>3, <1>4, Zenon

\* When load_task_config returns, the hardware decodes entries 4 and up to
\* the regions of the task: encoding and decoding are inverse to each other
\* for every power of two and every aligned base, and nothing of the task
\* before is left.
THEOREM TaskConfigLoaded == Spec => []LoadedIsTaskConfig
<1>1. ASSUME PmpInv, at = "run", task # "none", NEW i \in TaskEntry
      PROVE  Decoded(i) = IF Regions[task][i].size = 0 THEN NoRegion
                          ELSE Regions[task][i]
  <2>1. task \in Tasks
    BY <1>1 DEF PmpInv, RegistersOK
  <2>2. CASE Regions[task][i].size = 0
    <3>1. cfg[i] = Off
      BY <1>1, <2>1, <2>2, RunningEntry, Zenon
    <3>2. cfg[i].A = "OFF"
      BY <3>1, CfgFacts
    <3>3. QED
      BY <2>2, <3>2 DEF Decoded
  <2>3. CASE Regions[task][i].size # 0
    <3> DEFINE r == Regions[task][i]
    <3>1. /\ cfg[i] = CfgByte(r.perm, "NAPOT", FALSE) /\ addr[i] = napot_addr(r)
      BY <1>1, <2>1, <2>3, RunningEntry, Zenon
    <3>2. /\ r \in RegionType
          /\ NapotBase(addr[i]) = r.base /\ NapotSize(addr[i]) = r.size
      BY <2>1, <2>3, <3>1, RegionFacts
    <3> HIDE DEF r
    <3>3. cfg[i].A = "NAPOT" /\ cfg[i].perm = r.perm
      BY <3>1 DEF CfgByte
    <3>4. Decoded(i) = [base |-> r.base, size |-> r.size, perm |-> r.perm]
      BY <3>2, <3>3 DEF Decoded
    <3>5. Decoded(i) = r
      BY <3>2, <3>4 DEF RegionType
    <3>6. QED
      BY <2>3, <3>5 DEF r
  <2>4. QED
    BY <2>2, <2>3
<1>2. PmpInv => LoadedIsTaskConfig
  BY <1>1 DEF LoadedIsTaskConfig
<1>3. QED
  BY <1>2, PmpInvariant, PTL

\* The addresses entry i covers while the task runs are those of its region.
LEMMA TaskEntryCovers ==
  ASSUME PmpInv, at = "run", task \in Tasks, NEW i \in TaskEntry, NEW a \in Nat
  PROVE  LET r == Regions[task][i]
         IN  /\ Covers(cfg, addr, i, a) <=>
                  r.size # 0 /\ r.base <= a /\ a < r.base + r.size
             /\ r.size # 0 => cfg[i].perm = r.perm
<1> DEFINE r == Regions[task][i]
<1>1. CASE r.size = 0
  <2>1. cfg[i].A = "OFF"
    <3>1. cfg[i] = Off
      BY <1>1, RunningEntry, Zenon
    <3>2. QED
      BY <3>1, CfgFacts
  <2>2. QED
    BY <1>1, <2>1 DEF Covers
<1>2. CASE r.size # 0
  <2>1. cfg[i] = CfgByte(r.perm, "NAPOT", FALSE) /\ addr[i] = napot_addr(r)
    BY <1>2, RunningEntry, Zenon
  <2>2. NapotBase(addr[i]) = r.base /\ NapotSize(addr[i]) = r.size
    BY <1>2, <2>1, RegionFacts
  <2>3. cfg[i].A = "NAPOT" /\ cfg[i].perm = r.perm
    BY <2>1 DEF CfgByte
  <2> HIDE DEF r
  <2>4. Covers(cfg, addr, i, a) <=> r.base <= a /\ a < r.base + r.size
    BY <2>2, <2>3 DEF Covers
  <2>5. QED
    BY <1>2, <2>3, <2>4 DEF r
<1>3. QED
  BY <1>1, <1>2

\* The kernel entries while a task runs: entry 0 never matches, entry 1
\* matches exactly the text and executes it, 2 and 3 read and write.
LEMMA KernelEntriesDecide ==
  ASSUME PmpInv, at = "run", NEW a \in Nat
  PROVE  /\ ~Covers(cfg, addr, 0, a)
         /\ Covers(cfg, addr, 1, a) <=> STEXT <= a /\ a < USER_TEXT_END
         /\ cfg[1].perm = {"X"}
         /\ cfg[2].perm = {"R", "W"} /\ cfg[3].perm = {"R", "W"}
<1>1. \A i \in {0, 1, 2, 3} : cfg[i] = KernelCfg(i) /\ addr[i] = KernelAddr(i)
  BY DEF PmpInv, KernelPart, Initialising, KernelEntry
<1>2. /\ cfg[0].A = "OFF"
      /\ cfg[1].A = "TOR" /\ cfg[1].perm = {"X"}
      /\ cfg[2].perm = {"R", "W"} /\ cfg[3].perm = {"R", "W"}
  BY <1>1 DEF KernelCfg, Off, CfgByte
<1>3. addr[0] = STEXT \div 4 /\ addr[1] = USER_TEXT_END \div 4
  BY <1>1 DEF KernelAddr
<1>4. 4 * (STEXT \div 4) = STEXT /\ 4 * (USER_TEXT_END \div 4) = USER_TEXT_END
  BY PmpAssumption
<1>5. ~Covers(cfg, addr, 0, a)
  BY <1>2 DEF Covers
<1>6. Covers(cfg, addr, 1, a) <=> STEXT <= a /\ a < USER_TEXT_END
  BY <1>2, <1>3, <1>4 DEF Covers
<1>7. QED
  BY <1>2, <1>5, <1>6

\* The entry that decides an access to a region of the running task grants
\* what the region is for: entry 1 for its code, and for its stack and windows
\* entry 2 or 3 or an entry of the task that reads and writes as well.
LEMMA DecidingEntry ==
  ASSUME PmpInv, at = "run", task \in Tasks, NEW i \in TaskEntry, NEW a \in Nat,
         Regions[task][i].size # 0, Regions[task][i].base <= a,
         a < Regions[task][i].base + Regions[task][i].size,
         NEW h \in Entry, Covers(cfg, addr, h, a),
         \A k \in Entry : Covers(cfg, addr, k, a) => h <= k
  PROVE  cfg[h].perm = IF "X" \in Regions[task][i].perm THEN {"X"} ELSE {"R", "W"}
<1> DEFINE InText == STEXT <= a /\ a < USER_TEXT_END
<1>1. ASSUME NEW j \in TaskEntry, Regions[task][j].size # 0,
             Regions[task][j].base <= a,
             a < Regions[task][j].base + Regions[task][j].size
      PROVE  Regions[task][j].perm = IF InText THEN {"R", "X"} ELSE {"R", "W"}
  <2> DEFINE r == Regions[task][j]
  <2>1. \/ r.perm = {"R", "X"} /\ STEXT <= r.base /\ r.base + r.size <= USER_TEXT_END
        \/ r.perm = {"R", "W"} /\ (r.base + r.size <= STEXT \/ USER_TEXT_END <= r.base)
    BY <1>1, RegionsAssumption, Zenon
  <2>2. r.base \in Nat /\ r.size \in Nat
    BY RegionFacts DEF RegionType
  <2>3. r.base <= a /\ a < r.base + r.size
    BY <1>1
  <2> HIDE DEF r
  <2>4. r.perm = IF InText THEN {"R", "X"} ELSE {"R", "W"}
    <3>1. STEXT \in Nat /\ USER_TEXT_END \in Nat
      BY PmpAssumption
    <3>2. CASE r.perm = {"R", "X"} /\ STEXT <= r.base /\ r.base + r.size <= USER_TEXT_END
      <4>1. InText
        BY <2>2, <2>3, <3>1, <3>2
      <4>2. QED
        BY <3>2, <4>1
    <3>3. CASE /\ r.perm = {"R", "W"}
               /\ r.base + r.size <= STEXT \/ USER_TEXT_END <= r.base
      <4>1. ~InText
        BY <2>2, <2>3, <3>1, <3>3
      <4>2. QED
        BY <3>3, <4>1
    <3>4. QED
      BY <2>1, <3>2, <3>3
  <2>5. QED
    BY <2>4 DEF r
<1>2. "X" \in Regions[task][i].perm <=> InText
  BY <1>1
<1>3. h # 0 /\ (h = 1 => InText)
  BY KernelEntriesDecide
<1>4. 1 \in Entry /\ h \in Nat
  BY PmpAssumption DEF Entry
<1>5. CASE InText
  <2>1. h <= 1
    BY <1>4, <1>5, KernelEntriesDecide
  <2>2. h = 1
    BY <1>3, <1>4, <2>1
  <2>3. QED
    BY <1>2, <1>5, <2>2, KernelEntriesDecide, Zenon
<1>6. CASE ~InText
  <2>1. CASE h \in TaskEntry
    <3>1. /\ Regions[task][h].size # 0 /\ Regions[task][h].base <= a
          /\ a < Regions[task][h].base + Regions[task][h].size
          /\ cfg[h].perm = Regions[task][h].perm
      BY <2>1, TaskEntryCovers
    <3>2. cfg[h].perm = {"R", "W"}
      BY <1>1, <1>6, <2>1, <3>1
    <3>3. QED
      BY <1>2, <1>6, <3>2
  <2>2. CASE h \in {2, 3}
    BY <1>2, <1>6, <2>2, KernelEntriesDecide, Zenon
  <2>3. h \in TaskEntry \/ h \in {2, 3}
    BY <1>3, <1>6 DEF Entry, TaskEntry
  <2>4. QED
    BY <2>1, <2>2, <2>3
<1>7. QED
  BY <1>5, <1>6

\* For every layout the builder accepts, a running task may fetch from its
\* code and not load from it, although code_region asks for both, and may load
\* from and store to its stack and windows and not execute them.
THEOREM TaskAccess == Spec => []RegionAccess
<1>1. ASSUME PmpInv, at = "run", task # "none", NEW i \in TaskEntry,
             NEW a \in Regions[task][i].base
                         ..(Regions[task][i].base + Regions[task][i].size - 1),
             NEW access
      PROVE  Allowed("U", access, a) <=> access \in Usable(Regions[task][i])
  <2> DEFINE r == Regions[task][i]
             hits == {j \in Entry : Covers(cfg, addr, j, a)}
             h == CHOOSE j \in hits : \A k \in hits : j <= k
  <2>1. task \in Tasks
    BY <1>1 DEF PmpInv, RegistersOK
  <2>2. r.base \in Nat /\ r.size \in Nat
    BY <2>1, RegionFacts DEF RegionType
  <2>3. a \in Nat /\ r.base <= a /\ a < r.base + r.size /\ r.size # 0
    BY <2>2
  <2>4. i \in hits
    BY <1>1, <2>1, <2>3, TaskEntryCovers, EntryFacts
  <2>5. hits \in SUBSET Entry
    OBVIOUS
  <2>6. h \in hits /\ \A k \in hits : h <= k
    <3> HIDE DEF hits
    <3> QED
      BY <2>4, <2>5, LeastEntry
  <2>7. Allowed("U", access, a) = (access \in cfg[h].perm)
    BY <2>4 DEF Allowed, Permits
  <2>8. cfg[h].perm = Usable(r)
    <3> HIDE DEF h
    <3> QED
      BY <1>1, <2>1, <2>3, <2>6, DecidingEntry DEF Usable
  <2> HIDE DEF r, h
  <2>9. QED
    BY <2>7, <2>8, Zenon DEF r
<1>2. ASSUME PmpInv PROVE RegionAccess
  BY <1>1, <1>2 DEF RegionAccess
<1>3. QED
  BY <1>2, PmpInvariant, PTL
=============================================================================

CONSTANTS
  PMP_COUNT = 11
  STEXT = 16
  USER_TEXT_END = 32
  EHEAP = 64
  UART_BASE = 8
  UART_SIZE = 8
  CLINT <- MCClint
  MEM_TOP = 80
  Tasks = {"idle", "echo", "violation", "wide"}
  Regions <- MCRegions
  ResetAddrs = {0, 7}
SPECIFICATION Spec
INVARIANTS
  KernelEntriesInForce
  KernelNeverLockedOut
  NoMixedEntry
  LoadedIsTaskConfig
  RegionAccess

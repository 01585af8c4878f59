CONSTANTS
  MAX_TASKS = 4
  PMP_COUNT = 7
  TASK_STACK_SIZE = 8
  USIZE = 1024
  UserSpecLists <- MCFull
  IdleEntry = 100
  KERNEL_STACK_TOP = 16
  HEAP_START = 16
  HEAP_END = 56
  Code <- MCCode
  UserValues = {1}
  SyscallNumbers = {1}
  RxBytes = {}
SPECIFICATION FairSpec
INVARIANTS
  IdleOnlyAsFallback
  SomeTaskAlwaysReady
  StacksDisjoint
  NoDispatchBeforeInit
PROPERTIES
  ImplementsFifo
  NoStarvation

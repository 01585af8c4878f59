CONSTANTS
  USIZE = 64
  ISIZE_MAX = 31
  HEAP_START = 9
  HEAP_END = 24
  Contexts = {thread, isr}
  Layouts <- MCLayouts
  thread = thread
  isr = isr
SPECIFICATION FairAllocSpec
INVARIANTS BlocksDisjoint BlocksInHeap
PROPERTY AllocReturns

CONSTANTS
  MAX_TASKS = 3
  U64 = 64
  TIMER_FREQ_HZ = 6
  US_PER_SECOND = 4
  TICK_INTERVAL_US = 2
  PRINT_EVERY = 2
  HANDLER_TIME = 2
  MAX_MTIME = 27
SPECIFICATION Spec
INVARIANT SliceNotEmpty
PROPERTIES
  SliceBounded
  TicksApart

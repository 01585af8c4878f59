CONSTANTS
  N = 3
  SBSS = 1
  EBSS = 4
  MEM_TOP = 6
  Value = {0, 1}
SPECIFICATION BootSpec
INVARIANTS
  StaticsHold
  ImageKept

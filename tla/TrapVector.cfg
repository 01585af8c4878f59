CONSTANTS
  N = 2
  STACK_SIZE = 272
  Depths = {0, 16}
  Versions = 1
  Results = {65}
SPECIFICATION Spec
INVARIANTS
  TaskKeepsRegisters
  LiveStackKept

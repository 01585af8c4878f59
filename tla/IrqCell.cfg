CONSTANTS
  MAX_DEPTH = 3
  MAX_UPDATES = 4
SPECIFICATION CellSpec
INVARIANTS
  Exclusive
  NoLostUpdate
  MaskRestored

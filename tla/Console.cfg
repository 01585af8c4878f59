CONSTANTS
  Input = {"a", "cr", "ff"}
  FIFO_SIZE = 2
  MAX_SENT = 3
  MAX_SWITCHES = 2
SPECIFICATION FairSpec
INVARIANTS
  EchoInOrder
  LogLinesWhole
  UartConfigured
PROPERTY EchoComplete

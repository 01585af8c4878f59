CONSTANTS
  MAX_TASKS = 4
  PMP_COUNT = 7
  TASK_STACK_SIZE = 8
  USIZE = 1024
  UserSpecLists <- MCTasks
  IdleEntry = 32
  KERNEL_STACK_TOP = 152
  HEAP_START = 152
  HEAP_END = 224
  STEXT = 32
  USER_TEXT_END = 144
  EHEAP = 224
  UART_BASE = 0
  UART_SIZE = 8
  Program <- MCProgram
  EchoEntry = 64
  Code <- MCCode
  UserValues = {0, 10, 13, 65, 255}
  SyscallNumbers = {0, 1}
  RxBytes = {13, 65}
SPECIFICATION ProgramSpec
INVARIANT EchoNeverFaults
PROPERTIES
  InstructionsInOrder
  ImplementsKernel
  ViolationTaskKilled
  EchoReachesPutc

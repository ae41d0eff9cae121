SPECIFICATION Spec
CONSTANTS
  Programs <- MCPrograms
  Regs <- MCRegs
  Origins <- MCOrigins
  MaxTurns = 2
  MaxSteps = 36
INVARIANTS Terminates
PROPERTIES CopyRightApart CommonRightApart MemoryRightApart DeadRightApart
CHECK_DEADLOCK FALSE

SPECIFICATION Spec
CONSTANTS
  Programs <- MCPrograms
  GpRegs <- MCGpRegs
  FpRegs <- MCFpRegs
  RegCounts <- MCRegCounts
  MaxTurns = 2
  MaxLoc = 7
INVARIANTS SlotsOpenApart WithinRegistersUnmoved ReadsAgreeApart LifetimesCoverLive
CHECK_DEADLOCK FALSE

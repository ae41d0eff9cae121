SPECIFICATION Spec
CONSTANTS
  main = main
  lib = lib
  base = base
  inst = inst
  Scripts <- Two
  Templates <- NoTemplate
  Origin <- NoOrigin
  ImportGraphs <- PlainGraphs
  Absent <- OnlyLib
  Qualities <- AllQualities
  MaxClock = 4
  MaxSessions = 2
  MaxDepth = 3
PROPERTY LoadsEnd
CHECK_DEADLOCK FALSE

SPECIFICATION Spec
CONSTANTS
  main = main
  lib = lib
  base = base
  inst = inst
  Scripts <- Three
  Templates <- NoTemplate
  Origin <- NoOrigin
  ImportGraphs <- LongChain
  Absent <- NoTemplate
  Qualities <- Sound
  MaxClock = 4
  MaxSessions = 2
  MaxDepth = 4
INVARIANT LinkedAsCompiled
CHECK_DEADLOCK FALSE

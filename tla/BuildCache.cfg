SPECIFICATION Spec
CONSTANTS
  main = main
  lib = lib
  base = base
  inst = inst
  Scripts <- Two
  Templates <- OneTemplate
  Origin <- LibOrigin
  ImportGraphs <- SmallGraphs
  Absent <- OnlyLib
  Qualities <- AllQualities
  MaxClock = 4
  MaxSessions = 2
  MaxDepth = 3
INVARIANTS LinkedAsCompiledApart IndicesFind InitBeforeUseApart
PROPERTY FaultsNamed
CHECK_DEADLOCK FALSE

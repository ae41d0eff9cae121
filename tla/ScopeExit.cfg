SPECIFICATION Spec
CONSTANTS
  Statements = {"expression", "declare", "declare_empty", "use", "conditional", "if", "block", "loop", "continue", "break", "return"}
  MaxStatements = 4
  MaxObjects = 3
  MaxTurns = 1
INVARIANTS FreesHeldApart LiveHeldApart UsesValuedApart NothingLeakedApart
CHECK_DEADLOCK FALSE

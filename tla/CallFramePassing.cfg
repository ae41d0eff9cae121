SPECIFICATION Spec
CONSTANTS
  Programs <- MCSwapped
  ArgCount <- MCArgCount
  Temps = 2
  MaxStack = 40
  MaxTurns = 2
PROPERTY PassingEnds
CHECK_DEADLOCK FALSE

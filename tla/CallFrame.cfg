SPECIFICATION Spec
CONSTANTS
  Programs <- MCPrograms
  ArgCount <- MCArgCount
  Temps = 2
  MaxStack = 40
  MaxTurns = 2
INVARIANTS OperandsAgreeApart ParametersArrive CallsReturnApart
PROPERTY PassingEndsApart
CHECK_DEADLOCK FALSE

SPECIFICATION Spec
CONSTANTS
  Wide = 12
  Single = 8
  Narrow = 4
  OneD = 12
  OneS = 2
  Leftover = 7
  StackPadding <- MCStackPadding
  Programs <- MCPrograms
INVARIANTS
  VectorsRightApart
  ScalarsRightApart
PROPERTY
  OperandsKept
\* A program ends.
CHECK_DEADLOCK FALSE

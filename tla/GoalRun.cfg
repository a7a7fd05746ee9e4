SPECIFICATION Spec
CONSTANTS
  MaxIterations = 2
  MaxTurns = 2
  MaxTasks = 2
  MaxStops = 1
  MaxFlips = 1
INVARIANTS
  ToldOnce
PROPERTIES
  
  OwnToolVerdict
  TaskEnds
CHECK_DEADLOCK FALSE

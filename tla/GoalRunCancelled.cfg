SPECIFICATION Spec
CONSTANTS
  MaxIterations = 1
  MaxTurns = 2
  MaxTasks = 1
  MaxStops = 1
  MaxFlips = 0
INVARIANT CancelWins
CHECK_DEADLOCK FALSE

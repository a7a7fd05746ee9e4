SPECIFICATION Spec
CONSTANTS
  p = p
  b = b
  s = s
  None = None
  Agents <- MCAgents
  Local <- MCPlanner
  Parallel <- MCWorkers
  Seat <- MCSeats
  Fallback = p
  Supervisor = None
  PlanOwner = b
  MaxHops = 2
  Modes <- MCOpen
  MaxInputs = 2
  MaxClicks = 0
  MaxStops = 1
  MaxFlips = 0
  MaxCards = 1
CHECK_DEADLOCK FALSE
INVARIANTS
  ChainBounded
PROPERTIES
  WorkKept
  StopSticks
  TurnEnds

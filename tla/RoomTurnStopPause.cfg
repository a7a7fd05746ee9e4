SPECIFICATION Spec
CONSTANTS
  p = p
  b = b
  s = s
  None = None
  Agents <- MCAgents
  Local <- MCPlanner
  Parallel <- MCWorkers
  Seat <- MCSeats
  Fallback = p
  Supervisor = None
  PlanOwner = None
  MaxHops = 1
  Modes <- MCAuto
  MaxInputs = 1
  MaxClicks = 0
  MaxStops = 1
  MaxFlips = 0
  MaxCards = 1
CHECK_DEADLOCK FALSE
INVARIANT NoPauseAfterStop

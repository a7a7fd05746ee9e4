SPECIFICATION Spec
CONSTANTS
  p = p
  b = b
  s = s
  None = None
  Agents <- MCTwo
  Local <- MCPlanner
  Parallel <- MCNobody
  Seat <- MCTwoSeats
  Fallback = p
  Supervisor = p
  PlanOwner = None
  MaxHops = 2
  Modes <- MCReviewed
  MaxInputs = 1
  MaxClicks = 2
  MaxStops = 1
  MaxFlips = 1
  MaxCards = 2
INVARIANTS
  JudgeAtWork
  RefusedRests
PROPERTIES
  VerdictFitsCard
  CardSettled
CHECK_DEADLOCK FALSE

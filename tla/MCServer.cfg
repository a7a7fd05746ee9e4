SPECIFICATION MCSpec
CONSTANTS
  MaxFlows = 2
  MaxPrompts = 3
  MaxKeys = 1
  MaxToggles = 2
  c1 = c1
  c2 = c2
  c3 = c3
  Convs <- MCConvs
  Overlaps = FALSE
  MaxEdits = 3
  MaxOps = 2
  MaxFailures = 1
  MaxRestarts = 1
  MaxChain = 2
  a1 = a1
  a2 = a2
  Seats <- MCSeats
  Overtakes = FALSE
  MaxRuns = 2
  MaxToolCalls = 2
INVARIANTS
  
  QuestionReached
  
PROPERTIES
  NoOlder
  WhatBeginsEnds
CHECK_DEADLOCK FALSE

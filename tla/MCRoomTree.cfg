SPECIFICATION TreeSpec
CONSTANTS
  r0 = r0
  r1 = r1
  r2 = r2
  w1 = w1
  w2 = w2
  Rooms <- MCRooms
  Default = r0
  Workers <- OneWorker
  maxRooms = 3
  Zombies = FALSE
  MaxSends = 1
  MaxProvisions = 2
  MaxRestarts = 1
INVARIANTS
  TreeKept
PROPERTIES
  ParentTold
CHECK_DEADLOCK FALSE

SPECIFICATION MCSpec
CONSTANTS
  scout = scout
  builder = builder
  tester = tester
  pair = pair
  m1 = m1
  m2 = m2
  Agents <- MCAgents
  Shared <- MCShared
  Models <- MCModels
  LivedFuse = FALSE
  Overlaps = FALSE
  MaxLog = 1
  MaxReloads = 1
  MaxLoads = 1
  srcs = srcs
  docs = docs
  Members <- MCAgents
  Paths <- MCPaths
  Gates <- MCGates
  MaxBatch = 2
  MaxSteps = 4
  MaxChanges = 2
  seed = seed
  team = team
  solo = solo
  Lineups <- MCLineups
  Seed = seed
  Downgraded <- Unchanged
  DriftOverlaps = FALSE
  Authored = TRUE
  MaxDriftEdits = 4
  MaxReboots = 2
  Words = {"x"}
  Chips <- MCTools
  Tints <- MCTints
  SavedPresets <- MCPresets
  KnownModels <- MCKnown
  RosterSize = 3
  ChipLines = 2
  Heights = {13}
  Hurried = FALSE
  Elsewhere = FALSE
  Drops = FALSE
  MaxForms = 1
  MaxEdits = 3
  MaxRequests = 2
INVARIANTS
  
  Sees
  DriftTold
  NeverTrapped
  FormTells

  
CHECK_DEADLOCK FALSE

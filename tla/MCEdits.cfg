SPECIFICATION MCSpec
CONSTANTS
  scout = scout
  builder = builder
  tester = tester
  read = read
  write = write
  low = low
  high = high
  max = max
  Hats <- MCHats
  Levels <- MCLevels
  Refused <- MCRefused
  Tools <- MCTools
  Default = high
  NoLevel = none
  Primitives <- MCPrimitives
  RebuildsInTurns = FALSE
  MaxBuilds = 3
  Ids <- MCIds
  Nobody = nobody
  EditsOverlap = FALSE
  MaxEdits = 2
  MaxLives = 4
  MaxFlags = 1
  planner = planner
  agent = agent
  Roles <- MCRoles
  Customs <- MCCustoms
  ShippedSkills <- MCShippedSkills
  NoDoc = NoDoc
  Promptless = FALSE
  Emptied = FALSE
  UpgradesLive = FALSE
  MaxMembers = 3
  MaxChanges = 2
  d1 = d1
  d2 = d2
  p1 = p1
  p2 = p2
  Discussions <- MCDiscussions
  Plans <- MCPlans
  NoPlan = none
  Statuses <- MCStatuses
  Blanks = FALSE
  FreshStarts = FALSE
  MaxTasks = 2
  MaxCalls = 2
  MaxSwitches = 3
  Letters <- MCLetters
  Handles <- MCHandles
  All <- MCAll
  Palette <- MCPalette
  Content <- MCContent
  Options = 2
  Bursts = FALSE
  Hidden = FALSE
  MaxLine = 2
  MaxSent = 1
  MaxNews = 1
INVARIANTS
  HatFits
  
  BoardTrue
  PresetTrue
  LineTells
CHECK_DEADLOCK FALSE

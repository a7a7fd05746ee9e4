SPECIFICATION MCSpec
CONSTANTS
  h1 = h1
  h2 = h2
  h3 = h3
  s1 = s1
  s2 = s2
  Hats <- MCHats
  Seats <- MCSeats
  SeatOf <- MCSeatOf
  Mentions <- MCMentions
  Parallel = {h1, h3}
  Overlaps = FALSE
  MaxAsks = 2
  MaxOthers = 2
  MaxEvents = 3
  MaxTurns = 2
  MaxBreaks = 1
  MaxWire = 1
  Orders = {TRUE, FALSE}
  MaxPosts = 2
  MaxBegun = 2
  MaxFailures = 1
  MaxLost = 1
  MaxLoads = 2
  MaxReplies = 1
  MaxEventsSent = 2
  r1 = r1
  r2 = r2
  Tabs = {r1, r2, r3}
  FirstRoom = r1
  MaxLayers = 4
  MaxWaits = 2
  MaxJumps = 3
  Patient = TRUE
  StaysPut = TRUE
  Letters <- MCLetters
  Handles <- MCHandles
  All <- MCAll
  Palette <- MCPalette
  Content <- MCContent
  Options = 2
  Strip <- MCStrip
  HomeRoom = r1
  Veiled = FALSE
  Undisturbed = TRUE
  MaxText = 3
  MaxSubmits = 2
  MaxHappens = 2
INVARIANTS
  ReadsTheRoom
  ClientMatches
  
  
PROPERTIES
  LiveIsPersisted
CHECK_DEADLOCK FALSE

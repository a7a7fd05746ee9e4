SPECIFICATION Spec
CONSTANTS
  h1 = h1
  h2 = h2
  h3 = h3
  s1 = s1
  s2 = s2
  Hats <- MCHats
  Seats <- MCSeats
  SeatOf <- MCSeatOf
  Local = {h3}
  MaxContinues = 2
  MaxWaves = 2
  MaxStops = 2
INVARIANTS
  OneVoice
PROPERTIES
  StopHonoured
  TurnOver
CHECK_DEADLOCK FALSE

SPECIFICATION Spec
CONSTANTS
  H = 2
  Shares <- MCTwo
  Covered = {}
  Null = Null
  Floor = 1
  FirstHour = 2
  LastHour = 6
  Step = 2
  MaxFaults = 1
  MayCrash = TRUE
INVARIANTS DailyAfterHourly 
PROPERTY CursorMonotone

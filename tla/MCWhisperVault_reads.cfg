SPECIFICATION FairSpec
CONSTANTS
  Whispers = {w1}
  Readers = {r1, r2}
  ReadLimits = {1, 2}
  Duration = 5
  Usable = 3
  Tolerance = 1
  Slack = 1
  MaxTime = 6
  Immediately = Immediately
  NoWhisper = NoWhisper
  NoReader = NoReader
INVARIANTS
  AllowanceIsExact
  ReadsWithinWindow
  LeavesAnHour
PROPERTIES
  DueIsErased

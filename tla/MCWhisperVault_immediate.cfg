SPECIFICATION Spec
CONSTANTS
  Whispers = {w1}
  Readers = {r1}
  ReadLimits = {1}
  Duration = 5
  Usable = 3
  Tolerance = 1
  Slack = 1
  MaxTime = 6
  Immediately = Immediately
  NoWhisper = NoWhisper
  NoReader = NoReader
INVARIANT ImmediateIsDispensable

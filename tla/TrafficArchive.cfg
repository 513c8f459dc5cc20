CONSTANTS
  Detectors <- MCDetectors
  Rows <- MCRows
  MaxRows = 3
  Zones <- MCZones
  Intervals <- MCIntervals
  d1 = d1
  d2 = d2
  Missing = Missing
  Text = Text
  Infinite = Infinite
SPECIFICATION Spec
INVARIANTS
  FirstSoundRowIsKept
  TimestampsReadBack
  MarksAreOfNeighbours
CHECK_DEADLOCK FALSE

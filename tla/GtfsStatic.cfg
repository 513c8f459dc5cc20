CONSTANTS
  Stops = {s1, s2}
  Routes = {r1, r2}
  Services = {w1, w2}
  Trips = {t1, t2}
  Archives <- MCArchives
  NoTable = NoTable
  s1 = s1
  s2 = s2
  r1 = r1
  r2 = r2
  w1 = w1
  w2 = w2
  t1 = t1
  t2 = t2
SPECIFICATION Spec
INVARIANTS
  ClosedUnderReference
  StrictKnowsServices
  ReturnsIfReadable
  SoundRowsAreHeld
CHECK_DEADLOCK FALSE

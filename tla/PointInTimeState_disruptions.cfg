CONSTANTS
  Keys <- MCKeys
  Cancellations <- MCCancellations
  Feeds <- NoFeeds
  Archives <- NoArchives
  DisruptionLists <- MCStoredLists
  Zones <- MCZones
  k1 = k1
  k2 = k2
  MaxTime = 8
  TicksPerSecond = 2
  FutureTolerance = 1
  StaleAfter = 1
SPECIFICATION Spec
INVARIANT NoDisruptionFromTheFuture

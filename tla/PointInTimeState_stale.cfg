CONSTANTS
  Keys <- MCKeys
  Cancellations <- MCCancellations
  Feeds <- MCFeeds
  Archives <- NoArchives
  DisruptionLists <- NoDisruptions
  Zones <- MCZones
  k1 = k1
  k2 = k2
  MaxTime = 8
  TicksPerSecond = 2
  FutureTolerance = 1
  StaleAfter = 1
SPECIFICATION Spec
INVARIANT StaleIsVisible

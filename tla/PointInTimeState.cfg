CONSTANTS
  Keys <- MCKeys
  Cancellations <- MCCancellations
  Feeds <- MCFeeds
  Archives <- MCArchives
  DisruptionLists <- MCDisruptionLists
  Zones <- MCZones
  k1 = k1
  k2 = k2
  MaxTime = 7
  TicksPerSecond = 2
  FutureTolerance = 1
  StaleAfter = 1
SPECIFICATION Spec
INVARIANTS
  HiddenFeedIsUnknown
  StatusIsOfTheFeedHeld
  LaterMomentsKnowMore
  HeldBoundsAreRead
  OrderedIntervalsSurvive
  ExportedFreshnessIsTheStatus
  QuietSummaryIsEarned

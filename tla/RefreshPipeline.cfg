CONSTANTS
  Payloads = {p1, p2}
  NoData = NoData
  CallsMade <- MCAllCalls
SPECIFICATION FairSpec
INVARIANTS
  StatusMatchesData
  ReportMatchesState
  QuietReturnMeansLoaded
  OkIsEarned
  SnapshotAlwaysWarns
PROPERTIES
  ErrorClearedByItsOwnData
  OnlyProviderDataIsShown
  LedgerSpec
  EveryCallReturns
  OutageIsForgotten

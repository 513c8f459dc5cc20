CONSTANTS
  Payloads = {p1}
  NoData = NoData
  CallsMade <- MCLiveCalls
SPECIFICATION Spec
INVARIANTS
  RecordsNameALoadedSource

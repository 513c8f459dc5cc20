CONSTANTS
  Payloads = {p1}
  NoData = NoData
  NoFile = NoFile
  CallsMade <- MCCalls
SPECIFICATION CommandSpec
INVARIANTS
  ExitZeroIsWhole
  FreshOrFailing
  NeverComplete
  LossIsReported

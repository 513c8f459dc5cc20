CONSTANTS
  Writers = {w1, w2}
  Readers = {r1}
  MaxWrites = 3
SPECIFICATION FairSpec
INVARIANTS
  ReadersSeeWholeSnapshots
  PublishedIsFinal
PROPERTIES
  StepsAreBounded
  OnlyOverlapGoesBack
  FileSpec
  EveryWriteEnds
  EveryReadEnds

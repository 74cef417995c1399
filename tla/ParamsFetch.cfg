SPECIFICATION FairSpec
CONSTANTS
  Files <- FourFiles
  SectorSizes = {2048}
INVARIANTS
  TypeOK
  DoneIsComplete
PROPERTIES
  GoodIsKept
  FetchEnds

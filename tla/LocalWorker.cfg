SPECIFICATION FairSpec
CONSTANTS
  j1 = j1
  j2 = j2
  j3 = j3
  j4 = j4
  NoJob = NoJob
  Jobs <- FourJobs
  MaxTask = 2
  RetrySum = 2
  MaxUsize = 4
INVARIANTS
  TypeOK
  CountIsLoad
  CapacityBound
  HeldOnce
PROPERTIES
  ImplementsSlots
  EveryJobLeaves
  KeepsAsking

SPECIFICATION FairSpec
CONSTANTS
  m1 = m1
  r1 = r1
  r2 = r2
  w1 = w1
  w2 = w2
  q1 = q1
  q2 = q2
  NoWorker = NoWorker
  NoTask = NoTask
  Requests = {q1}
  Slots = {1}
  Faults = TRUE
  Exclusive = FALSE
  Backend = "fs"
  Miners <- OneMiner
  Resources = {r1}
  TaskIds <- OneTask
  Workers = {w1}
  Stamps <- OneStamp
  Conns <- ClusterConns
INVARIANTS
  TypeOK
  ProofIsStored
  ErrorIsFresh
PROPERTIES
  ImplementsService
  AnsweredAfterRecovery

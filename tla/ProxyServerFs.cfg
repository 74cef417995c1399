SPECIFICATION Spec
CONSTANTS
  m1 = m1
  m2 = m2
  r1 = r1
  r2 = r2
  c1 = c1
  c2 = c2
  c3 = c3
  w1 = w1
  w2 = w2
  NoWorker = NoWorker
  NoTask = NoTask
  Miners <- OneMiner
  Resources = {r1}
  TaskIds <- OneTask
  Workers = {w1, w2}
  Stamps <- OneStamp
  Conns = {c1, c2, c3}
  Backend = "fs"
  ClientStates <- OperatorStates
SYMMETRY ConnsAndWorkers
INVARIANTS
  HandedOutOnce
  UnprovenTaskHasResource
  AcknowledgedIsStored

SPECIFICATION Spec
CONSTANTS
  m1 = m1
  m2 = m2
  r1 = r1
  r2 = r2
  c1 = c1
  c2 = c2
  c3 = c3
  w1 = w1
  w2 = w2
  NoWorker = NoWorker
  NoTask = NoTask
  Miners <- OneMiner
  Resources = {r1, r2}
  TaskIds <- OwnTasks
  Workers = {w1}
  Stamps <- TwoStamps
  Conns = {c1, c2}
  Backend = "db"
  ClientStates <- PluginStates
SYMMETRY ConnsAndWorkers
INVARIANTS
  TypeOK
  HandedOutOnce
  UnprovenTaskHasResource
  UnprovenTaskHasParameters
  AcknowledgedIsStored

SPECIFICATION Spec
CONSTANTS
  m1 = m1
  r1 = r1
  r2 = r2
  w1 = w1
  w2 = w2
  q1 = q1
  q2 = q2
  NoWorker = NoWorker
  NoTask = NoTask
  Requests = {q1, q2}
  Slots = {1}
  Faults = FALSE
  Exclusive = FALSE
  Backend = "db"
  Miners <- OneMiner
  Resources = {r1}
  TaskIds <- OneTask
  Workers = {w1}
  Stamps <- OneStamp
  Conns <- ClusterConns
PROPERTIES
  OnlyErrorsAreReset

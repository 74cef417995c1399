SPECIFICATION Spec
CONSTANTS
  w1 = w1
  w2 = w2
  i1 = i1
  i2 = i2
  i3 = i3
  i4 = i4
  c1 = c1
  c2 = c2
  NoWorker = NoWorker
  NoRow = NoRow
  Workers = {w1, w2}
  RowIds = {i1, i2, i3, i4}
  Conns = {c1, c2}
  MaxClock = 2
  MaxReports = 2
SYMMETRY Interchangeable
INVARIANTS
  TypeOK
  RowsWithinReports
  HeardIsListed
  OfflineIsSilent
  DeletedIsGone

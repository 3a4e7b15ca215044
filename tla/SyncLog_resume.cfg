SPECIFICATION Spec
CONSTANTS
  e1 = e1  a1 = a1  d1 = d1  d2 = d2  k1 = k1
  i1 = i1  i2 = i2  i3 = i3
  w1 = w1  w2 = w2  c1 = c1
  NoWork = NoWork  NoOwner = NoOwner  NoReply = NoReply  KosyncId = KosyncId
  Devices = {d1, d2}
  OpIds = {i1, i2, i3}
  Editions = {e1}
  Works = {w1, w2}
  Aliases = {}
  KosyncDevices = {}
  Batches <- MCBatches
  KosyncPuts = {}
  Clients = {c1}
  Deletable = {w1, w2}
  PageLimit = 2
  DayLength = 2
  MaxSeq = 4
  MaxTick = 1
INVARIANTS SnapshotResumes
CHECK_DEADLOCK FALSE

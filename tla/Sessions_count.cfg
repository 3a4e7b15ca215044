SPECIFICATION FairSpec
CONSTANTS
  w1 = w1  w2 = w2  w3 = w3  e1 = e1  a1 = a1  k1 = k1  v1 = v1
  n1 = n1  n2 = n2  h1 = h1  h2 = h2  phone = phone  utc = utc  east = east
  NoWork = NoWork  NoOwner = NoOwner  NoSession = NoSession
  Works = {w1, w2}
  Editions = {e1}
  Aliases = {a1}
  Devices = {k1}
  Batches <- MCBatches
  Events <- MCEvents
  Deletable = {w2}
  Zones = {utc, east}
  Offset <- MCOffset
  DayLength = 2
  Gap = 1
  Late = 1
  Retention = 1
  BatchSize = 1
  Skew = 1
  MaxOps = 1
  MaxZoneChanges = 1
  MaxTick = 3
INVARIANTS CountedOnce PositionsDrawnOnce EvidenceFollowsIdentity EventsAnsweredOnce
CHECK_DEADLOCK FALSE
PROPERTY BacklogClears

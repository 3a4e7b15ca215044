SPECIFICATION MCSpec
CONSTANTS
  u1 = u1  positions = positions  annotations = annotations
  tablet = tablet  browser = browser  h1 = h1  h2 = h2  NoStream = NoStream
  Accounts = {u1}
  Topics = {positions, annotations}
  Streams = {tablet, browser}
  Writers = {h1, h2}
  AccountOf <- MCAccountOf
  Allowed <- MCAllowed
  MaxPerUser = 1
INVARIANTS NoLostInvalidation OneLateFrame
PROPERTIES EveryChangeIsRead ShutdownEndsStreams
CHECK_DEADLOCK FALSE

SPECIFICATION MCSpec
CONSTANTS
  bo = bo  kr = kr  ks = ks  kt = kt  c1 = c1  c2 = c2  None = None  StartOfBook = StartOfBook
  Peers = {bo, kr, ks, kt}  CfiPeers = {bo}  Restamping = {kr}  HerePlaces <- MCHere  TherePlaces <- MCThere
  Late = 1  MayTimeOut = TRUE  MayStop = TRUE
  MaxReads = 3  MaxTick = 3  MaxResets = 1  MaxMoves = 1  MaxUnsure = 1
INVARIANTS ReturnsAreBounded NothingWithheld
PROPERTIES NewestPeerWins
CHECK_DEADLOCK FALSE

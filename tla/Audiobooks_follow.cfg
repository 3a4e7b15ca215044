SPECIFICATION FairSpec
CONSTANTS
  w1 = w1  w2 = w2  w3 = w3  item = item  book = book
  None = None  Nowhere = Nowhere  NoImport = NoImport
  Recordings <- MCRecordings  MaxReads = 3  MaxBeats = 1  MaxFaults = 2
  Items = {item}  Books = {book}  Works = {w1, w2, w3}
  MatchOf <- MCMatchOf  MaxVersion = 2  Aligned <- MCAligned  MaxMoves = 4  MaxActs = 2
  Ids = {1, 2, 3}  PerPage = 2  Overlap = 2  Skew = 1  Clocks <- MCClocks
  Start = 5  MaxClock = 7  MaxListens = 3  MaxDeletes = 1  MaxChanges = 1  MaxLapses = 1
INVARIANTS NothingPassedOver NothingUnconfirmed NothingMissed
PROPERTIES ComeToAgree LinksSettle
CHECK_DEADLOCK FALSE

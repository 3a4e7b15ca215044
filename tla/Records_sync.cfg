SPECIFICATION MCSpec
CONSTANTS
  i1 = i1  i2 = i2  phone = phone  desk = desk  w1 = w1  w2 = w2
  Ids = {i1, i2}  Devices = {phone, desk}  Works = {w1, w2}  W1 = w1  Eds = {TRUE, FALSE}
  Cap = 2  Limit = 1  MaxWrites = 3  MaxTries = 2  MaxSeq = 6  Moves = 2  None = None
  b1 = b1  b2 = b2  reader = reader
  CachedWorks = {b1, b2}  Keys = {1, 2}  Texts = {1, 2}  Pushers = {phone, desk}
  Pullers = {reader}  CachePage = 1  Budget = 3  Clock = {1, 3}  MaxPushes = 3  Seeded = TRUE
  Absent = Absent
  e1 = e1  korow = korow  sitting = sitting  x1 = x1  x2 = x2  x3 = x3
  Books = {e1}  KoRows = {korow}  Sittings = {sitting}  BookOf <- MCBookOf
  SourceWorks = {x1, x2, x3}  MaxVersion = 2  Nowhere = Nowhere
SYMMETRY Alike
INVARIANTS AppliedOnce PulledIsCurrent NothingBehindTheCursor LatestReportCounts
CHECK_DEADLOCK FALSE

SPECIFICATION MCSpec
CONSTANTS
  k1 = k1  k2 = k2  d1 = d1  d2 = d2  w1 = w1  w2 = w2  Absent = Absent
  IsCalibre = TRUE  Keys = {k1, k2}  Paths = {k1, k2}  Digests = {d1, d2}  Works = {w1, w2}
  Passes = {"watch", "ingest"}  Deletes = {}  MaxFileChanges = 2  MaxReadFailures = 0
  n1 = n1  n2 = n2  n3 = n3
  Folders = {"plain", "calibre"}  Calibre = {"calibre"}
  Books = {"p1", "p2", "c1"}  FolderOf <- MCFolderOf
  Names = {n1, n2, n3}  Layers = {"reader", "everyone"}  Shared = "everyone"
  Everywhere = Everywhere
  MaxEdits = 1  MaxMoves = 2  MaxClaims = 1
SYMMETRY BytesAndWorks
INVARIANT ShelvesHold
PROPERTIES UntouchedBookStays ReadingSurvives NewBytesAreNamed ClaimsFollow

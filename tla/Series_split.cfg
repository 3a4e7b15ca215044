SPECIFICATION Spec
CONSTANTS
  f = f  g = g  f1 = f1  f2 = f2  g1 = g1  n1 = n1  n2 = n2  n3 = n3
  everyone = everyone  reader = reader  Everywhere = Everywhere
  Folders = {f, g}
  Calibre = {g}
  Books = {f1, f2, g1}
  FolderOf <- MCFolderOf
  Names = {n1, n2, n3}
  Layers = {everyone, reader}
  Shared = everyone
  MaxEdits = 1
  MaxMoves = 2
  MaxClaims = 0
SYMMETRY MCNames
INVARIANT NextPassAgrees
CHECK_DEADLOCK FALSE

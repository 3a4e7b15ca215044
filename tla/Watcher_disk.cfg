SPECIFICATION MCSpec
CONSTANTS
  f1 = f1  f2 = f2  f3 = f3  f4 = f4  f5 = f5
  root = root  series = series  shared = shared  left = left  inner = inner  right = right  None = None
  FolderIds = {f1, f2, f3, f4, f5}  Dirs = {root, series, shared, left, inner, right}
  Root <- MCRoot  Parent <- MCParent
  Handlers = {"h1"}
  Cap = 1  MaxChanges = 4  MaxFailures = 1  MaxRestarts = 1
INVARIANTS NoLostChange RemovedStaysEmpty
PROPERTIES CatalogFollowsDisk

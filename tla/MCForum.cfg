SPECIFICATION Spec
CONSTANTS
  m = m
  i = i
  n1 = n1
  n2 = n2
  n3 = n3
  Players = {m, i}
  Immortals = {i}
  Writers <- Reach
  Readers <- Reach
  NoUnsub = {1}
  max_forum = 1
  Notes = {n1, n2}
  Addressees = {{i}}
  OnDisk <- OnDiskDef
  Leftovers = {0}
  MaxTime = 3
  MaxPosts = 2
  None = None
INVARIANTS ListedOnce RemovedIsGone
PROPERTIES CorruptOnlyAfterPosting NewestLast

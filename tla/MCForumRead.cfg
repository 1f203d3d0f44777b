SPECIFICATION Spec
CONSTANTS
  m = m
  i = i
  n1 = n1
  n2 = n2
  n3 = n3
  Players = {m, i}
  Immortals = {i}
  Writers <- Reach
  Readers <- Reach
  NoUnsub = {1}
  max_forum = 2
  Notes = {n1, n2}
  Addressees = {{i}}
  OnDisk <- OnDiskDef
  Leftovers = {0, 3}
  MaxTime = 3
  MaxPosts = 1
  None = None
INVARIANTS CurrentForumIsReadable
PROPERTIES CatchupReadsAll

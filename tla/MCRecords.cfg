SPECIFICATION RecordsSpec
CONSTANTS
  c1 = c1
  c2 = c2
  r1 = r1
  r2 = r2
  s1 = s1
  s2 = s2
  p1 = p1
  p2 = p2
  a1 = a1
  a2 = a2
  Npc = Npc
  None = None
  Clients = {c1, c2}
  Rooms = {r1, r2}
  Built = {r1}
  MaxDir = 1
  MaxRows = 2
  MaxCreated = 1
  Sessions = {s1, s2}
  Players = {p1, p2}
  MaxObj = 3
  MaxRow = 3
  Accounts = {a1, a2}
  MaxId = 4
SYMMETRY Symmetry
INVARIANTS SavedComesBack RowsInStep PlaysOwn
PROPERTIES FreedByAnother SavesOwnRows SaveKeepsAll

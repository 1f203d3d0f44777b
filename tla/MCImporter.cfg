SPECIFICATION Spec
CONSTANTS
  None = None
  Vnums = {1, 2}
  ItemVnums = {1}
  Dirs = {1}
  MaxLines = 7
  MaxRooms = 3
INVARIANTS   SubsGoWithTheirs

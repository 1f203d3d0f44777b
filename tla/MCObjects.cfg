SPECIFICATION Spec
CONSTANTS
  p1 = p1
  n1 = n1
  r1 = r1
  w1 = w1
  w2 = w2
  w3 = w3
  h1 = h1
  head = head
  left = left
  right = right
  None = None
  WEAR_NONE = WEAR_NONE
  Players = {p1}
  Npcs = {n1}
  Rooms = {r1}
  Objs = {w1, w2, w3, h1}
  Slots = {head, left, right}
  SlotsOf <- SlotsOfDef
SYMMETRY Symmetry
INVARIANTS OnePlace
PROPERTIES DoubledOnlyByGet PlacesSpec

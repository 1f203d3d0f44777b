SPECIFICATION LibrarySpec
CONSTANTS
  v1 = v1
  v2 = v2
  Ids = {0, 1, 8, 36}
  Words <- OneLetter
  Values = {v1, v2}
  Null = Null
  StartSize = 0
  WordBits = 24
  MaxRoom = 4
  ID_HASH = 4
  Word = 2
  Arguments <- Typed
  Things <- SomeThings
  MaxThings = 3
  Texts <- FewTexts
  Lines <- SomeLines
  MaxText = 12
  Rooms = {1, 2, 3}
  Unseen = {3}
  MAXDEPTH = 3
  MAPX = 7
  MAPY = 6
  MaxExits = 4
  NoFlags = NoFlags
  NoArgument = NoArgument
  Nowhere = Nowhere
INVARIANTS GetsWhatWasGiven FindsTheNamed RoomsAreWhereExitsLead
PROPERTIES  EditsThatLine

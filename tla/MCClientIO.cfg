CONSTANTS
  Pieces <- MCPieces
  Texts <- MCTexts
  MaxSent = 7
  Room = 6
  Limit = 2
  Heights = {3, 4}
  OutMax = 2
  Nothing = Nothing
SPECIFICATION ClientSpec
 
PROPERTIES InOrder NothingSkipped

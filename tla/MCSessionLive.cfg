SPECIFICATION FairSpec
CONSTANTS
  c1 = c1
  c2 = c2
  a1 = a1
  Clients = {c1, c2}
  Chars = {a1}
  None = None
PROPERTIES LeavingEnds EveryoneIsServed

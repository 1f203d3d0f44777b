SPECIFICATION Spec
CONSTANTS
  p1 = p1
  n1 = n1
  None = None
  Players = {p1}
  Npcs = {n1}
  Level = 1
  Con = 13
  MaxHit = 2
  MinHit <- MCMinHit
  PULSE_TICK = 2
  Duration = 2
  Floor <- MCFloor
  MaxResists = 1
INVARIANTS ShieldComesOff
PROPERTIES ShieldWearsOff

SPECIFICATION Spec
CONSTANTS
  a1 = a1
  a2 = a2
  a3 = a3
  r1 = r1
  r2 = r2
  Chars = {a1, a2, a3}
  Rooms = {r1, r2}
  None = None
  MAX_PLAYABLE_LEVEL = 3
  ToLevel <- ToLevelDef
  Levels = {1, 4}
  Gains = {0}
SYMMETRY Symmetry
INVARIANTS WorldIsListed OneDeathAtATime
PROPERTIES CorruptOnlyByOrphans EveryoneHadATurn

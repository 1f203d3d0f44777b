SPECIFICATION Spec
CONSTANTS
  c1 = c1
  c2 = c2
  a1 = a1
  a2 = a2
  Clients = {c1, c2}
  Chars = {a1, a2}
  None = None
SYMMETRY Symmetry
INVARIANTS PlayersAreOwned Authenticated
PROPERTIES LinkedOnce StaleOnlyByDeletion LostOnlyForCause PresenceSpec

SPECIFICATION Spec
CHECK_DEADLOCK FALSE
CONSTANTS
  Users = {u1, u2}
  SSRCs = {s1}
  None = None
  MaxGen = 3
  MaxLines = 2
  MaxInputs = 5
SYMMETRY MCSymmetry
INVARIANTS
  EdgesReachSink
  CallbacksFenced
  HighlightConsistent
  MappingIsOurs

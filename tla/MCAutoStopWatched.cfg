SPECIFICATION Spec
CONSTANTS
  s1 = s1
  s2 = s2
  Streams <- MCStreams
  NoStream = NoStream
  RetryDelays = 1
  ReconcileRounds = 2
  MaxInputs = 6
SYMMETRY MCSymmetry
INVARIANT
  EmptyIsWatched
CHECK_DEADLOCK FALSE

SPECIFICATION FairSpec
CONSTANTS
  s1 = s1
  s2 = s2
  Streams <- MCStreams
  NoStream = NoStream
  RetryDelays = 1
  ReconcileRounds = 2
  MaxInputs = 5
INVARIANTS
  OneCountdown
  LiveRequestIsForEmpty
  InFlightIsOutstanding
PROPERTIES
  ReconciliationEnds
CHECK_DEADLOCK FALSE

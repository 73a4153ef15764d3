SPECIFICATION FairSpec
CONSTANTS
  c1 = c1
  c2 = c2
  c3 = c3
  e1 = e1
  e2 = e2
  e3 = e3
  t1 = t1
  t2 = t2
  Callers <- MCCallers
  Events <- MCEvents
  Channels <- MCChannels
  NoCaller = NoCaller
  NoChannel = NoChannel
  MaxReceipts = 2
  MaxJobs = 1
INVARIANTS
  InFlightKept
  RepostNeedsForgetting
  AlreadySentIsTrue
PROPERTY
  CallsReturn
CHECK_DEADLOCK FALSE

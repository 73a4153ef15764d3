SPECIFICATION FairSpec
CONSTANTS
  s1 = s1
  s2 = s2
  SSRCs <- MCSSRCs
  Feed <- MCFeed
  BatchMax <- MCBatchMax
  QueueMax = 1
  MaxUnresolved = 1
  MaxAttempts <- MCMaxAttempts
  MaxPackets <- MCMaxPackets
  MaxMappings = 2
INVARIANTS
  NoSilentLoss
  IdentityKept
PROPERTIES
  EncoderInOrder
  CaptionInOrder
  EncoderKeepsUp
  LoopEnds
CHECK_DEADLOCK FALSE

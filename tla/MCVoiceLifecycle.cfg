SPECIFICATION FairSpec
CONSTANTS
  j1 = j1
  k1 = k1
  s1 = s1
  s2 = s2
  NoJob = NoJob
  Jobs <- MCJobs
  Streams <- MCStreams
  StreamOf <- MCStreamOf
  Forwarding <- MCForwarding
  RejoinEnabled = TRUE
  t1 = t1
  t2 = t2
  Stoppers <- MCStoppers
  MaxAttempts = 2
  MaxInputs = 6
INVARIANTS
  LiveJobServed
  NoQueueLeak
  NothingOutlivesJob
  GenerationFence
  RevokedIsOut
  ConnectedIsForwarded
  NoDoubleClose
PROPERTIES
  StopSettles
  RejoinSettles
  StaleLoopHarmless
CHECK_DEADLOCK FALSE

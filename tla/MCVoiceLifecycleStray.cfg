SPECIFICATION Spec
CONSTANTS
  j1 = j1
  k1 = k1
  s1 = s1
  s2 = s2
  NoJob = NoJob
  Jobs <- MCJobs
  Streams <- MCStreams
  StreamOf <- MCStreamOf
  Forwarding <- MCForwarding
  RejoinEnabled = TRUE
  t1 = t1
  t2 = t2
  Stoppers = {t1}
  MaxAttempts = 2
  MaxInputs = 5
INVARIANT
  LiveQueueRuns
CHECK_DEADLOCK FALSE

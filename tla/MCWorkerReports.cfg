SPECIFICATION FairSpec
CONSTANTS
  c1 = c1
  c2 = c2
  m1 = m1
  m2 = m2
  Callbacks <- MCCallbacks
  Chats <- MCChats
  Participants = Participants
  Speaker = Speaker
  NoKey = NoKey
  MaxPending = 2
  MaxAttempts = 2
  MaxQueues = 2
  MaxInputs = 3
INVARIANTS
  NotForgotten
  BooksBounded
PROPERTIES
  NeverGoesBack
  QueueDrains
  
CHECK_DEADLOCK FALSE

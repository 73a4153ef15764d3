SPECIFICATION Spec
CONSTANTS
  s1 = s1
  s2 = s2
  r1 = r1
  r2 = r2
  c1 = c1
  Streams <- MCStreams
  NoStream = NoStream
  Callbacks = {c1}
  Reservations <- MCReservations
  NoReservation = NoReservation
  Sync = Sync
  Loop = Loop
  Http = Http
  NoOne = NoOne
  NoMark = NoMark
  MaxEpoch = 2
  RetryDelays = 1
  MonitorFilters = TRUE
  MaxInputs = 3
SYMMETRY MCSymmetry
INVARIANTS
  ReservationLive
  HeldIsCurrent
  NoSelfWait
PROPERTY
  RestartNeedsJoin
CHECK_DEADLOCK FALSE

SPECIFICATION Spec
CONSTANTS
  SEQNUM_MAX = 16
  ba_max_rx_wsize = 4
  Wsizes = {3}
  Start = 13
  Offsets = {0, 1, 2, 4, 9}
  DeadLim = 2
  HeadDrop = TRUE
  MaxFrames = 3
  MaxDrops = 1
  MaxBars = 1
  MaxSessions = 1
INVARIANTS NothingStranded
CHECK_DEADLOCK FALSE

SPECIFICATION BusySpec
CONSTANTS
  N = 2
  SeqMod = 4
  ReadyRings = TRUE
  StartAfterRemote = TRUE
  KickRetries = FALSE
PROPERTY KickIsHeard
CHECK_DEADLOCK FALSE

SPECIFICATION MCSpec
CONSTANTS
  N = 2
  SeqMod = 4
  ReadyRings = TRUE
  StartAfterRemote = TRUE
  KickRetries = TRUE
INVARIANTS LinkSafe PacedCommandCurrent
PROPERTY PacedProgress

SPECIFICATION Spec
CONSTANTS
  MaxEnabled = 2
  BusKeepsUp = TRUE
  Requests <- MCRequests
  Slots = 2
  MaxMotors = 3
  Half = 4
  Degrees = 3
  Moves <- MCMoves
  MaxTurn = 3
  Clear = Clear
  Old = Old
  Stale = Stale
  Sent = {0, 1, 2, 3, 4, 5, 6, 7, 8, 12, 64}
  Configs <- MCConfigs
  Measures <- MCMeasures
  Refs <- MCRefs
  Intervals = {0, 1, 2}
  Inf = 1000
  MaxCount = 2
INVARIANTS MotorsTypeOK AcceptedKept RoundsTracked BytesKept PidSafe
PROPERTIES EverySetPointSent EachItsOwn NumberAgain

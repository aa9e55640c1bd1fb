SPECIFICATION TxSpec
CONSTANTS
  MaxEnabled = 2
  BusKeepsUp = FALSE
INVARIANT AcceptedKept

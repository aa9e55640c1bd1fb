SPECIFICATION Spec
CONSTANTS
  Parts = {"word"}
  Outs = 2
  PerOut = 3
  Can <- MCCan
  Mbox = 4
  Left = {0, 1, 2}
  MaxRaises = 2
  Half = 16
  PerUs = 3
  PerMs = 2
  Directions = {TRUE, FALSE}
  Starts <- MCStarts
  Delays <- MCDelays
  Timeouts = {1}
  Pace = 1
  StartBy = 31
  LastTick = 56
  Groups <- MCGroups
  HwIrq <- MCHwIrq
  EdgePins = {1, 2, 4}
  MaxEvents = 3
  Fifo = 2
  Lens = {0, 1, 4, 5}
  Types = {"poll", "it"}
  BothOnNak = {"it"}
  Cores = {c1, c2}
  Free = Free
  Builds <- PrintingA7s
  MaxIrqs = 2
  OwnerIDs = {0, 1, 3}
  Uses <- MCUses
  HwMaxIrqs = 2
INVARIANT MutualExclusion

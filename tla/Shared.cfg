SPECIFICATION SharedSpec
CONSTANTS
  N = 2
  IdxMod = 8
  StockUsed = TRUE
  TakeCtx = {"isr"}
  GiveCtx = {"isr"}
  Ids = {id1, id2}
  Ext = ext
  AnyId = any
  FifoDepth = 2
  DrainLimit = 2
  Slots = 2
  BootMasks <- RxOrAll
  RunMasks <- RxOrAll
  Nodes = {n1, n2, n3}
  Epts = {e1, e2, e3}
  MaxAddr = 3
  NsAddr = 3
  Binders = {b1, b2}
  AddrAny = AddrAny
  Null = Null
  Junk = Junk
  Lost = Lost
  NoHandle = NoHandle
  QuietFirst = TRUE
INVARIANTS TypeOK Conservation NoSlotRace ReceiveSafe MemorySafe
PROPERTIES ImplementsExchange HandlerReturns ImplementsRegistry

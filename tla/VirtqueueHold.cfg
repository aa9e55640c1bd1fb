SPECIFICATION Spec
CONSTANTS
  N = 2
  IdxMod = 8
  StockUsed = TRUE
  TakeCtx = {"isr"}
  GiveCtx = {"isr", "thread"}
INVARIANT Conservation

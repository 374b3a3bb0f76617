SPECIFICATION Spec
CONSTANTS
  p1 = p1
  p2 = p2
  p3 = p3
  Accesses <- Chain
  Proc = {p1, p2, p3}
  Addr = {1, 2}
  Val = {0}
  TxVal = {0}
  OutsideVal = {}
  None = None
  Loaded = Loaded
  InitVal = 0
  Configs <- ChainConfigs
  cycleSolveStrategy = "abort"
  max_consumed_blocks = 1
  nValFwd = 0
  MaxUid = 1
  NonTxProc = {}
INVARIANTS
  PrioOrder
  ChainShape
CHECK_DEADLOCK FALSE

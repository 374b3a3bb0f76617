SPECIFICATION FairSpec
CONSTANTS
  p1 = p1
  p2 = p2
  p3 = p3
  Accesses <- Cycle
  Proc = {p1, p2}
  Addr = {1, 2}
  Val = {0, 1}
  TxVal = {1}
  OutsideVal = {}
  None = None
  Loaded = Loaded
  InitVal = 0
  Configs <- CycleConfigs
  cycleSolveStrategy = "abort"
  max_consumed_blocks = 2
  nValFwd = 1
  MaxUid = 1
  NonTxProc = {}
INVARIANTS
  PrioOrder
  ValidationUnderWay
PROPERTIES
  AtomicTransactions
  CommitResolves
CHECK_DEADLOCK FALSE

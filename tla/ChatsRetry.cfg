SPECIFICATION Spec
CONSTANTS
  p1 = p1
  p2 = p2
  p3 = p3
  Accesses <- AllAccesses
  Proc = {p1, p2}
  Addr = {1}
  Val = {0, 1, 2}
  TxVal = {1}
  OutsideVal = {2}
  None = None
  Loaded = Loaded
  InitVal = 0
  Configs <- RetryConfigs
  cycleSolveStrategy = "abort"
  max_consumed_blocks = 2
  nValFwd = 0
  MaxUid = 2
  NonTxProc = {p1, p2}
SYMMETRY Symmetry
INVARIANTS
  TypeOK
  ReadsCurrent
  ForwardedIsolation
  PowerWins
PROPERTIES
  AtomicTransactions
CHECK_DEADLOCK FALSE

SPECIFICATION DataSpec
CONSTANTS
  Proc = {1, 2}
  x = x
  y = y
  Addr = {x, y}
  None = None
  Kinds = {"GETS", "GETX"}
  policy = "requester_stalls_cda_base"
  LazyVM = {FALSE}
  l0_downgrade_on_l1_gets = FALSE
  allow_read_set_l1_cache_evictions = FALSE
  Interfering = {2}
  MaxTime = 1
  MaxAttempts = 2
  Val = {0, 1, 2, 3}
  InitVal = 0
  LOG_PAGE_SIZE = 2
  LOG_CACHE_BLOCK_SIZE = 1
  LOG_ENTRIES_PER_PAGE = 1
  MAX_LOG_SIZE_PAGES = 2
  MaxOutstanding <- MCMaxOutstanding
  Loads <- MCLoads
  Stores <- MCStores
  OutsideStores <- MCOutsideStores
INVARIANTS
  WriteIsolation
  LogExact
  LogRequestsIssue
PROPERTIES
  AssertionFailures
  AtomicTransactions
CHECK_DEADLOCK FALSE

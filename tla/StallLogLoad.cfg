SPECIFICATION Spec
CONSTANTS
  Proc = {1, 2}
  Addr = {"x"}
  None = None
  Kinds = {"GETX"}
  policy = "requester_stalls_cda_base"
  LazyVM = {FALSE}
  l0_downgrade_on_l1_gets = FALSE
  allow_read_set_l1_cache_evictions = FALSE
  Interfering = {1, 2}
  MaxTime = 2
  MaxAttempts = 1
INVARIANTS
  AssertionsHold
CHECK_DEADLOCK FALSE

SPECIFICATION Spec
CONSTANTS
  Proc = {1, 2}
  Addr = {"x"}
  None = None
  Kinds = {"GETS", "GETX"}
  policy = "requester_stalls_cda_hybrid"
  LazyVM = {TRUE}
  l0_downgrade_on_l1_gets = TRUE
  allow_read_set_l1_cache_evictions = FALSE
  Interfering = {}
  MaxTime = 2
  MaxAttempts = 1
INVARIANTS
  AssertionsHold
CHECK_DEADLOCK FALSE

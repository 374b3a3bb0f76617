SPECIFICATION FairSpec
CONSTANTS
  Proc = {1, 2}
  Addr = {"x", "y"}
  None = None
  Kinds = {"GETX"}
  policy = "requester_stalls_cda_base"
  LazyVM = {TRUE, FALSE}
  l0_downgrade_on_l1_gets = FALSE
  allow_read_set_l1_cache_evictions = FALSE
  Interfering = {1}
  MaxTime = 2
  MaxAttempts = 2
INVARIANTS
  TypeOK
  WriteIsolation
  UnrollState
PROPERTIES
  AttemptResolves
CHECK_DEADLOCK FALSE

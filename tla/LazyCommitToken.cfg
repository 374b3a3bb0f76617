SPECIFICATION FairSpec
CONSTANTS
  Proc = {p1, p2}
  Addr = {1, 2}
  Arbitration = "token"
  lazyCommitWidth = 1
  CanRefuse = FALSE
  l0_downgrade_on_l1_gets = TRUE
INVARIANTS
  TokenQueue
  ValidatedAbortCause
PROPERTIES
  CommitResolves

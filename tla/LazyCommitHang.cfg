SPECIFICATION FairSpec
CONSTANTS
  Proc = {p1, p2}
  Addr = {1}
  Arbitration = "token"
  lazyCommitWidth = 1
  CanRefuse = TRUE
  l0_downgrade_on_l1_gets = FALSE
PROPERTIES
  CommitResolves

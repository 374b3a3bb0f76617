SPECIFICATION DataSpec
CONSTANTS
  p1 = p1
  p2 = p2
  Proc = {p1, p2}
  Addr = {1, 2}
  Arbitration = "magic"
  lazyCommitWidth = 1
  CanRefuse = TRUE
  l0_downgrade_on_l1_gets = FALSE
  Loc = {"a", "b", "c"}
  BlockOf <- MCBlockOf
  Val = {0, 1, 2}
  None = None
  InitVal = 0
  Loads <- MCLoads
  Stores <- MCStores
  OutsideStores <- MCOutsideStores
INVARIANTS
  TypeOK
  ValidatedDisjoint
  CommitterNotKilledByCommitter
  
  Isolation
  NoStaleRead
  CommitComplete
  AbortDrained
PROPERTIES
  AtomicTransactions

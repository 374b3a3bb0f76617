CONSTANTS
  Thread = {1, 2}
  Handlers <- AllHandlers
  htm_max_retries = 1
  Sections <- MCSections
  MaxCancel = 1
  Modulus = 4
  None = None
SPECIFICATION FairSpec
INVARIANTS TypeOK SectionsAtomic CommitMode LockExclusive PowerExclusive
PROPERTIES AssertFailures SectionCompletes

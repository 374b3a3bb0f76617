CONSTANTS
  Thread = {1, 2}
  Handlers = {"powertm"}
  htm_max_retries = 1
  Sections <- MCSections
  MaxCancel = 0
  Modulus = 4
  None = None
SPECIFICATION Spec
INVARIANT AssertsHold

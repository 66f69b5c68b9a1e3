SPECIFICATION Spec
CONSTANTS
  N = 3
  Jobs = {}
  Backfill = "b"
  Reader = "r"
  PullLimit = 1
  PageSize = 1
  MaxMishaps = 0
INVARIANTS WalkSeesHistory
CHECK_DEADLOCK FALSE

SPECIFICATION Spec
CONSTANTS
  N = 2
  Jobs = {"j1"}
  Backfill = "b"
  Reader = "r"
  PullLimit = 1
  PageSize = 1
  MaxMishaps = 1
INVARIANTS TypeOK NoForeignKeyRefused ActivityCovers QuietIsFresh WalkCoversStore
CHECK_DEADLOCK FALSE

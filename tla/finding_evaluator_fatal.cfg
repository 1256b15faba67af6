SPECIFICATION Spec
CONSTANTS
  Handlers = {"h1"}
  Rules = {1}
  ForSeconds <- Dwell
  MaxRows = 1
  MaxTime = 2
  DbMayFail = TRUE
  MayClose = FALSE
  MayRestart = FALSE
INVARIANTS NeverFatal

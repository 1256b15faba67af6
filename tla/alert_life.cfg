SPECIFICATION AllSpec
CONSTANTS
  Handlers = {"h1", "h2"}
  Rules = {1}
  ForSeconds <- Dwell
  MaxRows = 1
  MaxTime = 3
  DbMayFail = TRUE
  MayClose = TRUE
  MayRestart = TRUE
  FlushMayFail = TRUE
  RecorderMayDie = TRUE
  None = None
  q1 = q1
  q2 = q2
  MaxLen = 2
  MaxMade = 6
  Retries = {q1, q2}
INVARIANTS
  MutexHeld
  AuditTypeOK OnceInOrder DroppedSound
PROPERTIES DwellUninterrupted BreachRaises Persisted MemoryIncidentCloses

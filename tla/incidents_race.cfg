SPECIFICATION Spec
CONSTANTS
  h1 = h1
  h2 = h2
  None = None
  Nodes = {"n1"}
  Containers = {}
  OtherTitles = {}
  OtherCritical = {}
  Handlers = {h1, h2}
  Heartbeats <- MemoryHeartbeats
  QuietChoices = {}
  MaxIncidents = 2
  MaxTime = 2
  Snoozes = {}
  Buttons = {"ack", "resolve"}
  MayRestart = FALSE
  DbMayFail = TRUE
  SilentTTL = 0
  AbandonTTL = 0
  Retention = 0
  JanitorInterval = 1
  CriticalCooldown = 1
  WarningCooldown = 2
SYMMETRY HandlerSymmetry
INVARIANTS UniqueOpen ResolvedNoticeOnce
PROPERTIES LedgerSpec

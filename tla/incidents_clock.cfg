SPECIFICATION Spec
CONSTANTS
  h1 = h1
  h2 = h2
  None = None
  Nodes = {"n1"}
  Containers = {"web"}
  OtherTitles = {}
  OtherCritical = {}
  Handlers = {h1}
  Heartbeats <- ClockHeartbeats
  QuietChoices <- AllOrNothing
  MaxIncidents = 1
  MaxTime = 4
  Snoozes = {2}
  Buttons = {"resolve", "snooze"}
  MayRestart = TRUE
  DbMayFail = FALSE
  SilentTTL = 1
  AbandonTTL = 1
  Retention = 0
  JanitorInterval = 1
  CriticalCooldown = 1
  WarningCooldown = 2
INVARIANTS AbandonedWasOld RestoredByHeartbeat
PROPERTIES ClosedStaysClosed PagesSpaced

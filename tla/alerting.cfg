SPECIFICATION Spec
CONSTANTS
  MaxTime = 5
  Operators = {"root", "u1"}
  Admin = "root"
  Hosts = {"h1"}
  Names = {"h1", "h1 "}
  TrimSpace <- Trimmed
  NoHost = NoHost
  OwnerOf <- OneOwned
  Windows = {w1, w2}
  w1 = w1
  w2 = w2
  LastWindow = 3
  NoWindow = NoWindow
  PageGap = 2
  SnoozeChoices = {2}
  MaxListed = 1
  Ahead = 1
  NoTarget = NoTarget
  web = web
  db = db
  Targets = {web, db}
  Cooldown <- TwoForWeb
  BurstLimit <- TwoForDb
  BurstWindow <- Four
  OpenFor <- Three
  MayRestart = TRUE
  Ids <- TwoIncidents
  Confs <- Settings
  Owner = 2
  NoSecret = NoSecret
  Secrets = {NoSecret, s1}
  s1 = s1
  maxRetries = 1
  MaxLate = 1
  MaxPages = 2
  MaxRestarts = 1
INVARIANTS
  SilenceVisible NoPageInWindow QuietOnlyAsAsked
  EveryChannelTried RecoveryLast RateBounded
PROPERTIES PressDoesWhatItSays OpensOnFailures

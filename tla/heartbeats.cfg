SPECIFICATION AllSpec
SYMMETRY Interchangeable
CONSTANTS
  root = root
  u1 = u1
  n1 = n1
  n2 = n2
  a = a
  b = b
  h1 = h1
  h2 = h2
  NoUser = NoUser
  Admin = root
  Users = {root, u1}
  Nodes = {n1, n2}
  Urls = {a, b}
  Handlers = {h1, h2}
  FreeNodeLimit = 1
  FreeProbeLimit = 1
  Movable = TRUE
  MayUpgrade = TRUE
  MaxMisreads = 1
  Authors = {1, 2}
  Chief = 1
  Boxes = {"n1"}
  NoBox = "none"
  prod = a
  eu = b
  Labels = {a, b}
  NoSelector = NoSelector
  Requests <- Bodies
  b1 = h1
  b2 = h2
  Beats = {h1, h2}
  Nobody = Nobody
  MaxRules = 2
INVARIANTS NodeOvershoot ListedRulesApply EvaluatedAsWritten
PROPERTIES ProbeBudget

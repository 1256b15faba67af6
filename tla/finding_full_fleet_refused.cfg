SPECIFICATION Spec
CONSTANTS
  root = root
  u1 = u1
  n1 = n1
  n2 = n2
  a = a
  b = b
  h1 = h1
  h2 = h2
  NoUser = NoUser
  Admin = root
  Users = {u1}
  Nodes = {n1, n2}
  Urls = {}
  Handlers = {h1}
  FreeNodeLimit = 2
  FreeProbeLimit = 1
  Movable = FALSE
  MayUpgrade = TRUE
  MaxMisreads = 0
SYMMETRY Symmetry
INVARIANTS WithinLimitAccepted

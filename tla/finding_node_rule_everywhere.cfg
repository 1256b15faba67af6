SPECIFICATION RulesSpec
SYMMETRY Interchangeable
CONSTANTS
  Authors = {1, 2}
  Chief = 1
  Boxes = {"n1", "n2"}
  NoBox = "none"
  prod = prod
  eu = eu
  Labels = {prod, eu}
  NoSelector = NoSelector
  Requests <- Pinned
  b1 = b1
  b2 = b2
  Beats = {b1, b2}
  Nobody = Nobody
  MaxRules = 2
INVARIANTS NodeRuleOnItsNode

SPECIFICATION MCSpec
CONSTANTS
  Tokens = {t1, t2, t3}
  Grants = {g1, g2, g3}
  Handlers = {h1, h2}
  None = None
  MaxSaves = 2
SYMMETRY MCSymmetry
INVARIANTS
  OneTokenPerDevice
  GrantSpentOnce
  LinksAreBounded
  OnlyTheOvertakenSurvive
PROPERTIES
  KeepsDevices
CHECK_DEADLOCK FALSE

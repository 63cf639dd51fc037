CONSTANTS
  s1 = s1
  s2 = s2
  s3 = s3
  Signals = {s1, s2, s3}
  Providers = {"slack", "pager", "gone"}
  Known = {"slack", "pager"}
  ByKey = {"pager"}
  Routed = {"slack", "pager"}
  OnRoutes = {"slack", "pager"}
SPECIFICATION Spec
INVARIANTS NothingOutOfTheBlue BookIsRight
PROPERTY GoesToHolders
SYMMETRY Symmetry
CHECK_DEADLOCK FALSE

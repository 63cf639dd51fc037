CONSTANTS
  service = service
  Procs = {service}
  N = 2
  Layouts <- MCLayouts
  Secret = {2}
  Texts = {"a", "b"}
  Fits <- MCFits
  NoCopy = NoCopy
  NoClient = NoClient
  Default = Default
SPECIFICATION Spec
INVARIANT UndisturbedCacheFits
PROPERTIES CacheBeforeDefault CatchesUp
CHECK_DEADLOCK FALSE

CONSTANTS
  s1 = s1
  s2 = s2
  s3 = s3
  s4 = s4
  k1 = k1
  k2 = k2
  k3 = k3
  Sends <- MCSends
  Keys <- MCKeys
  KeyOf <- MCKeyOf
  HasDedup = TRUE
  DedupWindow = 3
  HasRate = TRUE
  RateMax = 2
  RatePer = 2
  MaxLag = 1
  MaxTime = 5
SPECIFICATION Spec
INVARIANTS DedupGap RateCap
PROPERTY SuppressionHasCause
SYMMETRY Symmetry
CHECK_DEADLOCK FALSE

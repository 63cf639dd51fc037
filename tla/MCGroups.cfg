CONSTANTS
  k1 = k1
  Members = {m1, m2, m3}
  Directs = {d1}
  Flushers = {f1}
  Keys = {k1}
  GroupOf <- MCGroupOf
  MaxGroupSize = 3
SPECIFICATION Spec
INVARIANTS MemberInOnePlace NoMissedWakeup FlushKeepsItsWord
PROPERTIES GroupWaitHonoured FlushReturns KeepsPromise
CHECK_DEADLOCK FALSE

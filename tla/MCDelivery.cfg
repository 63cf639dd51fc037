CONSTANTS
  slack = slack
  email = email
  gone = gone
  pager = pager
  Chains <- TwoTargets
  Providers = {slack, email, gone, pager}
  Known = {slack, email, pager}
  MaxAttempts = 2
SPECIFICATION Spec
INVARIANTS FallbackIsLast NobodyUnrecorded RecordsAreTrue
PROPERTIES BlockingReturns KeepsPromise
CHECK_DEADLOCK FALSE

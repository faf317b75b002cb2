\* A login, then callers dropped at any await, answers lost, tokens rotated; every
\* caller returns.
CONSTANTS
  None = None
  Callers = {a, b}
  Secrets = {None, secret}
  REFRESH_MARGIN = 2
  TIMEOUT = 1
  LIFETIME = 3
  Expiries = {"expires_in", "exp", "neither"}
  Rotates = {TRUE, FALSE}
  Failures <- MCFailures
  Cancels = TRUE
  MaxIssued = 3
  MaxTime = 4
SPECIFICATION FairSpec
INVARIANTS
  TypeOK
  HeldTokenAccepted
PROPERTIES
  ReturnedTokenValid
  StoredInOrder
  DroppedOnlyIfRevoked
  EveryCallerReturns
CHECK_DEADLOCK FALSE

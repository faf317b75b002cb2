\* Two responses may be recorded in the other order than ESI gave them.
CONSTANTS
  None = None
  MAX_REQUEST_COST = 5
  MAX_POLL = 1
  DEFAULT_RETRY_AFTER = 1
  assets = assets
  charA = charA
  MaxTokens = 10
  Declares = 10
  Granted <- MCGranted
  Window = 2
  Operations = {assets}
  Groups = {charA}
  Requests = {r1, r2, r3}
  OperationOf <- MCOperationOf
  SpecLimit <- MCSpecLimit
  Headers = {}
  TIMEOUT = 2
  CallBy = 4
  MaxTime = 4
  Costs = {2, 5}
  OtherCosts = {}
  Ordered = FALSE
  MaxLatency = 0
  Lossy = FALSE
SYMMETRY MCSymmetry
SPECIFICATION EsiSpec
INVARIANTS
  NeverRateLimited
CHECK_DEADLOCK FALSE

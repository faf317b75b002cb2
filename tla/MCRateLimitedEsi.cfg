\* Responses recorded in order and without delay, none lost.
CONSTANTS
  None = None
  MAX_REQUEST_COST = 5
  MAX_POLL = 1
  DEFAULT_RETRY_AFTER = 1
  assets = assets
  charA = charA
  MaxTokens = 11
  Declares = 11
  Granted <- MCGranted
  Window = 2
  Operations = {assets}
  Groups = {charA}
  Requests = {r1, r2, r3, r4}
  OperationOf <- MCOperationOf
  SpecLimit <- MCSpecLimit
  Headers = {}
  TIMEOUT = 2
  CallBy = 5
  MaxTime = 5
  Costs = {0, 1, 2, 5}
  OtherCosts = {}
  Ordered = TRUE
  MaxLatency = 0
  Lossy = FALSE
SYMMETRY MCSymmetry
SPECIFICATION EsiSpec
INVARIANTS
  NeverRateLimited
  BeliefCovered
PROPERTIES
  StaysInBudget
CHECK_DEADLOCK FALSE

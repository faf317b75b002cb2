\* A bucket below the worst-case cost and below what the spec declares, shared with
\* another process, on a network that reorders, delays and loses.
CONSTANTS
  None = None
  MAX_REQUEST_COST = 5
  MAX_POLL = 1
  DEFAULT_RETRY_AFTER = 1
  assets = assets
  charA = charA
  MaxTokens = 4
  Declares = 6
  Granted <- MCGranted
  Window = 3
  Operations = {assets}
  Groups = {charA}
  Requests = {r1, r2, r3}
  OperationOf <- MCOperationOf
  SpecLimit <- MCSpecLimit
  Headers = {}
  TIMEOUT = 2
  CallBy = 1
  MaxTime = 12
  Costs = {2}
  OtherCosts = {2}
  Ordered = FALSE
  MaxLatency = 1
  Lossy = TRUE
SPECIFICATION EsiTimelySpec
PROPERTIES
  EveryCallEnds
CHECK_DEADLOCK FALSE

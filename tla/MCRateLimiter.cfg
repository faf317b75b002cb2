\* Every interleaving of three calls on any server, late wake-ups included.
CONSTANTS
  None = None
  MAX_REQUEST_COST = 5
  MAX_POLL = 1
  DEFAULT_RETRY_AFTER = 1
  r1 = r1
  r2 = r2
  r3 = r3
  assets = assets
  status = status
  charA = charA
  charB = charB
  Operations = {assets, status}
  Groups = {charA, charB}
  Requests = {r1, r2, r3}
  OperationOf <- MCOperationOf
  SpecLimit <- MCSpecLimit
  Headers <- MCHeaders
  TIMEOUT = 2
  CallBy = 5
  MaxTime = 5
SYMMETRY MCSymmetry
SPECIFICATION Spec
INVARIANTS
  TypeOK
  InFlightConserved
  HoldKept
  SettleCoalesces
  ReadyNeverLate
PROPERTIES
  HoldRespected
CHECK_DEADLOCK FALSE

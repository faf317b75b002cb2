\* Three calls with one key, while ESI's content changes.
CONSTANTS
  None = None
  c1 = c1
  c2 = c2
  c3 = c3
  c4 = c4
  assets = assets
  alice = alice
  bob = bob
  jwt = jwt
  opaque = opaque
  en = en
  Calls = {c1, c2, c3}
  RequestOf <- MCOnePrincipal
  Subject <- MCSubject
  Owner <- MCOwner
  Headers <- MCHeaders
  Skew = 2
  MAX_ENTRIES = 1
  MAX_FRESHNESS = 3
  TIMEOUT = 1
  MaxVersion = 1
  MaxTime = 4
SYMMETRY MCSymmetry
SPECIFICATION Spec
INVARIANTS
  HitIsRecent
  RevalidatedIsCurrent
  BudgetIsOwn
CHECK_DEADLOCK FALSE

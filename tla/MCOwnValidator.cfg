\* A call that brings its own If-None-Match.
CONSTANTS
  None = None
  c1 = c1
  c2 = c2
  c3 = c3
  c4 = c4
  assets = assets
  alice = alice
  bob = bob
  jwt = jwt
  opaque = opaque
  en = en
  Calls = {c1, c2, c3}
  RequestOf <- MCOwnValidator
  Subject <- MCSubject
  Owner <- MCOwner
  Headers <- MCHeaders
  Skew = 1
  MAX_ENTRIES = 1
  MAX_FRESHNESS = 2
  TIMEOUT = 1
  MaxVersion = 1
  MaxTime = 4
SPECIFICATION Spec
INVARIANTS
  RevalidatedIsCurrent
CHECK_DEADLOCK FALSE

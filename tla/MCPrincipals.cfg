\* Calls of two characters and of nobody, on a cache of one entry.
CONSTANTS
  None = None
  c1 = c1
  c2 = c2
  c3 = c3
  c4 = c4
  assets = assets
  alice = alice
  bob = bob
  jwt = jwt
  opaque = opaque
  en = en
  Calls = {c1, c2, c3, c4}
  RequestOf <- MCManyPrincipals
  Subject <- MCSubject
  Owner <- MCOwner
  Headers <- MCUndated
  Skew = 1
  MAX_ENTRIES = 1
  MAX_FRESHNESS = 2
  TIMEOUT = 1
  MaxVersion = 0
  MaxTime = 2
SPECIFICATION Spec
INVARIANTS
  TypeOK
  AnswersOwnRequest
PROPERTIES
  FreshKept
CHECK_DEADLOCK FALSE

\* Fetches fail, callers are dropped, keys come and go, and every call returns.
CONSTANTS
  None = None
  old = old
  new = new
  ec = ec
  torn = torn
  client = client
  other = other
  eve = eve
  sso = sso
  alice = alice
  Callers = {a, b}
  Kids = {old, new, ec, torn}
  Issuers = {sso, other}
  Audiences = {client, other, eve}
  Characters = {alice}
  ISSUERS = {sso}
  EVE_AUDIENCE = eve
  ClientId = client
  Tokens <- MCTokens
  Kind <- MCKind
  First = {old, ec}
  LEEWAY = 1
  REFETCH_INTERVAL = 2
  TIMEOUT = 1
  Failures = TRUE
  MaxEditions = 3
  MaxTime = 4
SPECIFICATION FairSpec
INVARIANTS
  TypeOK
PROPERTIES
  RotationPickedUp
  KeysFollowCCP
  AcceptedGenuine
  EveryVerifyReturns
CHECK_DEADLOCK FALSE

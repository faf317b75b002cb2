\* Any two of four clients' calls through every stage, dropped at any await.
CONSTANTS
  None = None
  Private = Private
  Fresh = Fresh
  c1 = c1
  c2 = c2
  c3 = c3
  c4 = c4
  assets = assets
  charA = charA
  alice = alice
  jwt = jwt
  renewed = renewed
  Callers = {c1, c2, c3, c4}
  LimiterOf <- MCLimiterOf
  Threshold = 1
  Padding = 1
  Reports <- MCReports
  MaxTime = 3
  Options <- MCOptions
  As <- MCAs
  CacheLess = {c4}
  Urls <- MCUrls
  RateLimitOf <- MCRateLimitOf
  Answers <- MCAnswers
  CacheHeaders <- MCCacheHeaders
  Bodies <- MCBodies
  Subject <- MCSubject
  Owner <- MCOwner
  MAX_REQUEST_COST = 5
  MAX_POLL = 1
  DEFAULT_RETRY_AFTER = 2
  MAX_ENTRIES = 2
  MAX_FRESHNESS = 2
  Skew = 1
  TIMEOUT = 1
  CallBy = 3
  MaxCalls = 2
  MaxVersion = 1
SPECIFICATION PipelineSpec
INVARIANTS
  ReservedOnlyWhileOut
PROPERTIES
  BackoffShared
  ErrorLimitShared
  ErrorsReported
CHECK_DEADLOCK FALSE

\* Specs come and go around midnight, checks, merges and runs overlap, runs fail,
\* are cancelled and skipped.
CONSTANTS
  None = None
  SnakeCase <- MCSnakeCase
  MaxU32 = 10
  MaxU64 = 10800
  Docs = {"base", "renamed", "reviewed"}
  Document <- MCDocument
  FirstDoc = "base"
  Markers = {"minor", "skip"}
  Prepared <- MCPrepared
  Dispatches = {"patch"}
  Failures = TRUE
  Checkers = {c1}
  FirstHour = 34
  MaxHour = 35
  MaxPublished = 2
  MaxCommits = 4
  MaxReleases = 2
SPECIFICATION FairSpec
INVARIANTS
  TypeOK
  FetchCurrent
  BreaksReported
  CompatibleReleases
  
  UnionsDiscriminated
PROPERTIES
  VersionsIncrease
  EveryMergeRuns
CHECK_DEADLOCK FALSE

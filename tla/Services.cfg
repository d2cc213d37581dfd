\* Crawls of a news source, accounts and sessions, controllers and agent jobs: each
\* behaviour follows one of the three.  A part may run out of inputs: no deadlock check.
SPECIFICATION ServicesSpec
CONSTANTS
  Crawlers = {timer, admin}
  Contents <- Said
  PageSize = 1
  MaxPages = 3
  MaxRuns = 3
  MaxFaults = 1
  MaxCancels = 1
  Names = {n1}
  Demos = {d1}
  Codes = {c1, c2}
  Tokens = {1, 2}
  Workers = {w1, w2}
  MaxNow = 1
  SessionTtl = 1
  DemoLimit = 1
  MaxRestarts = 1
  Controllers = {news, market}
  Stoppable = {market}
  MaxJobs = 3
  Retained = 2
  MaxReboots = 1
SYMMETRY Alike
CONSTRAINTS OneTrouble OneKindOfCode
INVARIANTS
  ServicesTypeOK
  
  BoundaryMissesNothing
  PendingKeepsUnfetched
  HealthFollowsRuns
  OutMeansOut
  RegistryTellsOutcome
CHECK_DEADLOCK FALSE

\* Packages: two stocks, the first with no date of listing and the second with a file from
\* before the move, two trading days,
\* and any two of: daily run, repair, full synchronisation, outage, crash.
\* Minutes: the attempts of a prefetch, one of which may be given up, and a request;
\* three fetches, one trouble; a source that keeps less than both days, and pages that
\* end with a day or within it.
SPECIFICATION PackagesSpec
SYMMETRY Alike
CONSTANTS
  Stocks = {1, 2}
  Days = {1, 2}
  Legacy = {2}
  Undated = {1}
  Percent = 95
  MaxEvents = 2
  Prefetches = {p1, p2}
  Requests = {r1}
  Default = "history"
  Offered = {"history", "auto"}
  Dates = {1, 2}
  PerDay = 2
  SourceKeeps = 3
  PageRows = 2
  PageLimits = {1, 3}
  ChunkDays = 1
  HotDates = 1
  MaxFetches = 3
  MaxTroubles = 1
INVARIANTS
  PackagesTypeOK
  RowsFollowPackage
  UpdateKeepsQuality
  CleanHistoryIsWhole
  GivenUpStopsSoon
PROPERTIES
  RunMissesNoStock
  RepairBringsDays
  OnlyOldestIsCut
\* The bounds on events, fetches and troubles end every behaviour.
CHECK_DEADLOCK FALSE

\* No failure, no other source, no partial export: fetching, the cleanup that
\* follows it, and the command that exports the year.
SPECIFICATION MCSpec
CONSTANTS
  Days = {1, 2}
  MonthOf <- TwoDays
  HotDays = 1
  Readers = {}
  MaxFetches = 2
  MaxExports = 2
  MaxIncidents = 0
INVARIANTS
  IndexedIsRetrievable
CHECK_DEADLOCK FALSE

\* Fetching, archiving, exporting and cleaning up three days in two months, all
\* at once and with one thing going wrong; and, of two days, with a reader.
SPECIFICATION MCSpec
CONSTANTS
  Days = {1, 2, 3}
  MonthOf <- ThreeDays
  HotDays = 2
  Readers = {r1}
  MaxFetches = 3
  MaxExports = 2
  MaxIncidents = 1
INVARIANTS
  ColdTypeOK
  
  
PROPERTIES
  CleanupKeepsNewest
\* The bounds on fetches and exports end every behaviour.
CHECK_DEADLOCK FALSE

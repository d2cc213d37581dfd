\* The queue left to itself and the watchdog, with one restart.
SPECIFICATION FairSpec
CONSTANTS
  Tasks = {t1}
  Admins = {}
  Guarded = {}
  Yielding = {}
  Swallowing = {t1}
  MaxStuckRetries = 1
  MaxCancelled = 20
  MaxAttempts = 3
  MaxYields = 0
  MaxRestarts = 1
  NoTask = NoTask
INVARIANTS
  ReportedUntilRestart
PROPERTIES
  EveryTaskSettles
  SchedulerReturns
\* Submissions are finite; once all are settled nobody has to do anything.
CHECK_DEADLOCK FALSE

\* One task that may give way, against the watchdog, an administrator and a restart.
SPECIFICATION Spec
CONSTANTS
  Tasks = {t1}
  Admins = {p1}
  Guarded = {t1}
  Yielding = {t1}
  Swallowing = {}
  MaxStuckRetries = 1
  MaxCancelled = 20
  MaxAttempts = 2
  MaxYields = 1
  MaxRestarts = 1
  NoTask = NoTask
INVARIANTS
  TypeOK
  SchedulerOwnsRunning
  ZombiesAreRemembered
  SuccessIsLatestReturn
PROPERTIES
  ImplementsJobSlot
\* Submissions are finite; once all are settled nobody has to do anything.
CHECK_DEADLOCK FALSE

\* An administrator cancels a task that is just starting.
SPECIFICATION Spec
CONSTANTS
  Tasks = {t1}
  Admins = {p1}
  Guarded = {t1}
  Yielding = {}
  Swallowing = {}
  MaxStuckRetries = 1
  MaxCancelled = 20
  MaxAttempts = 2
  MaxYields = 0
  MaxRestarts = 0
  NoTask = NoTask
INVARIANTS
  SettledIsReported
\* Submissions are finite; once all are settled nobody has to do anything.
CHECK_DEADLOCK FALSE

\* Two tasks, a crash at any point, and another one while the queue loads.
SPECIFICATION LoadSpec
CONSTANTS
  Tasks = {t1, t2}
  Admins = {}
  Guarded = {}
  Yielding = {}
  Swallowing = {}
  MaxStuckRetries = 0
  MaxCancelled = 20
  MaxAttempts = 1
  MaxYields = 0
  MaxRestarts = 1
  MaxLoadCrashes = 1
  MaxQuarantines = 1
  NoTask = NoTask
SYMMETRY TaskSymmetry
PROPERTIES
  RestartIsOneStep
  LostBesideAbandoned
  ShownRunningIsResolved
\* Submissions are finite; once all are settled nobody has to do anything.
CHECK_DEADLOCK FALSE

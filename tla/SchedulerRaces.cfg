\* Three schedulers of the five, an administrator, two days and a crash.
SPECIFICATION Spec
CONSTANTS
  Kinds = {"health", "daily", "kaipanla"}
  Dated = {"daily", "kaipanla"}
  Backfilling = {"daily"}
  Spaced = {"health"}
  Guarded = {"daily", "kaipanla"}
  Ids = {i1, i2}
  NoId = NoId
  Callers = {admin}
  MaxDay = 2
  MaxCrashes = 1
  MaxGiveUps = 0
SYMMETRY AnyId
CONSTRAINT OneKindInUse
INVARIANTS
  TypeOK
  
  

  
\* Nobody has to do anything on the last day.
CHECK_DEADLOCK FALSE

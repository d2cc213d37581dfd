\* Batches, a late thread, crashes and a repair, over three trading days.
SPECIFICATION Spec
CONSTANTS
  Days = {1, 2, 3}
  Occupied = {1}
  Selections <- Lists
  MaxClock = 1
  MaxStarts = 2
  MaxRepairs = 1
  RepairDays = {1, 2}
INVARIANTS
  TypeOK
  PacketIsShown
  DoneDayIsRecorded
  ArchivedIsReplaced
PROPERTIES
  RepairKeepsFigures
CHECK_DEADLOCK FALSE

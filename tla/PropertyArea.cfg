\* The protocol of the property area, with getters and waiters beside it.
CONSTANTS
  sys = sys  ro = ro  a = a  b = b  r1 = r1  r2 = r2
  Names = {sys, ro}
  ReadOnly = {ro}
  Chars = {a, b}
  NUL = NUL
  Values <- MCValues
  MaxLen = 2
  PA_COUNT_MAX = 1
  SerialMod = 8
  MaxWrites = 3
  Readers = {r1, r2}
  Calls <- MCCalls
  Area = Area
  Absent = Absent
SPECIFICATION FairSpec
INVARIANTS TypeOK NoLostWakeup
PROPERTIES AtomicReads SleepersWake

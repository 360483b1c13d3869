CONSTANTS
  Off = Off
  Headers <- MCHeaders
  MaxHeaders = 2
  MaxEntries = 5
  Names = {n1, n2, n3}
  Absent = none
  Hashes = {0, 1, 2, 7}
  elfclass_bits = 4
  BucketCounts = {1, 2}
  BloomSizes = {1, 2}
  BloomShifts = {1}
  Width = 5
  Bits = 2
  MaxBytes = 4
  WordMod = 32
  MaxGroups = 2
  MaxMembers = 2
  Pages = 4
  PAGE_SIZE = 3
  WordSize = 2
  Prots <- MCProts
  Gap = {gap}
  NULL = NULL
  Threads = {t1, t2}
  Keys = {1, 2, 3, 4, 5, 6, 7, 8}
  NoSweep = NoSweep
  Elems = {e1, e2, e3}
  TheHead = TheHead
  Capacity = 4
  Lens = {1, 2}
  NoLog = NoLog
  MaxStarts = 3
  MaxCalls = 2
  NoCall = NoCall
SPECIFICATION Spec
INVARIANT RelaKnown
CHECK_DEADLOCK FALSE

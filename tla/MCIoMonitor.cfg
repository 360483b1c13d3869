CONSTANTS
  Threads = {t1, t2}
  Fds = {fd1, fd2}
  Files = {f1, f2}
  Closed = Closed
  Absent = Absent
  NoFd = NoFd
SPECIFICATION Spec
SYMMETRY Symmetry
INVARIANTS EntriesAccounted FaultOnlyByOverlap MistakeOnlyByOverlap TrackedUnlessReused
CHECK_DEADLOCK FALSE

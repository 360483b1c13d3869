CONSTANTS
  Libs = {liba, libb, libc}
  Needed = {liba, libb}
  LastAddr = 3
  NoRegion = NoRegion
  NoBase = NoBase
SPECIFICATION Spec
SYMMETRY LibrarySymmetry
INVARIANTS TreesDisjoint QuietExact TrackedHooked StrangerOnlyByOverlay

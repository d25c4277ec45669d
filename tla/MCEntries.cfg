\* Two clients, one rune created twice, one memory.
CONSTANTS
  Client = {c1, c2}
  RuneKey = {k1}
  MemoryKey = {m1}
  Body = {b1, b2}
  NoRow = NoRow
  MaxRevision = 2
  MaxLives = 2
SPECIFICATION Spec
INVARIANTS RevisionIdentifies RuneTrailCurrent MemoryTrailCurrent
PROPERTIES ProtectedKept EventsNumbered
SYMMETRY EntriesSymmetry

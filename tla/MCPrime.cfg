\* prime beside one process, two runes, one memory.
CONSTANTS
  Client = {c}
  RuneKey = {r1, r2}
  MemoryKey = {m1}
  Body = {"short", "long"}
  NoRow = NoRow
  MaxRevision = 2
  MaxLives = 1
  Budget = 4
  Designation <- MCDesignation
  Size <- MCSize
  PrimeArgs <- MCPrimeArgs
SYMMETRY Symmetry
VIEW WithoutTrail
SPECIFICATION PrimeSpec
INVARIANTS StandingInstructionsPrinted

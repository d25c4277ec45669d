\* Exports of one source, imported three times, among changes of other users.
CONSTANTS
  SafeId = {"a", "b", "g", "o", "r", "s"}
  CardId = {"a", "b", "n"}
  Status = {"open", "in_progress", "closed", "review", "odd"}
  CustomTypes = {}
  Configured <- MCConfigured
  Legacy <- MCLegacy
  None = None
  Exports <- MCExports
  RuneKey = {"k1", "k2"}
  MemoryKey = {"m"}
  Begins <- MCBegins
  Label = {"human", "other"}
  HumanLabel = "human"
  UserStatus = {"review"}
  Native = "native"
  NoWorktree = "none"
  Absent = Absent
  MaxImports = 3
  MaxNative = 3
  MaxNotes = 3
  InitMeanwhile = FALSE
VIEW WithoutOutcome
SPECIFICATION Spec
CHECK_DEADLOCK FALSE
INVARIANTS ImportedOnce GraphStaysAcyclic
PROPERTIES NativeKept RerunWritesNothing AppearsComplete RefusalHasCause

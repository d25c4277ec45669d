\* Two builds, three processes, two files in turn.
CONSTANTS
  old = old
  new1 = new1
  new2 = new2
  Proc = {old, new1, new2}
  Build <- MCBuild
  MaxVersion = 2
  MaxFile = 2
  None = None
SPECIFICATION Spec
INVARIANTS ReadyMeansMigrated
PROPERTIES MigrationsInOrder InitSparesOlder
SYMMETRY NewSymmetry

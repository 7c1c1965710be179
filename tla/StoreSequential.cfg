SPECIFICATION Spec
CONSTANTS
  Procs = {p}
  Commands <- AutoCommands
  Stems = {"a"}
  DirStem = "dir"
  MaxCounter = 2
  MaxClock = 1
  MaxCommands = 3
  UserEdits = {"link", "dir", "entry"}
  CrashAt <- NotMidWrite
INVARIANTS TypeOK OwnDirectory NoShadowedEntry
PROPERTY ImplementsNameTable
CHECK_DEADLOCK FALSE

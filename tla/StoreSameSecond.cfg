SPECIFICATION Spec
CONSTANTS
  Procs = {p, q}
  Commands <- AutoCommands
  Stems = {"a"}
  DirStem = "dir"
  MaxCounter = 2
  MaxClock = 1
  MaxCommands = 2
  UserEdits = {}
  CrashAt = {}
INVARIANT OwnDirectory
CHECK_DEADLOCK FALSE

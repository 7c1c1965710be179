SPECIFICATION Spec
CONSTANTS
  Procs = {p, q}
  Commands <- AllCommands
  Stems = {"a"}
  DirStem = "dir"
  MaxCounter = 1
  MaxClock = 1
  MaxCommands = 3
  UserEdits = {"entry"}
  CrashAt <- Everywhere
INVARIANTS NoShadowedEntry OneOwnerPerName RegisteredIsComplete
PROPERTY LinksStable
CHECK_DEADLOCK FALSE

SPECIFICATION Spec
CONSTANTS
  VM = {v1}
  Client = {c1}
  NoVM = NoVM
  Faults = {"prepare", "define", "start", "shutdown", "destroy", "undefine", "storage", "database", "crash"}
  v1 = v1
  c1 = c1
SYMMETRY MCSymmetry
INVARIANTS TypeOK StorageHeld LitterExplained InstallWatched
PROPERTIES LivesOnce

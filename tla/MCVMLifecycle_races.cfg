SPECIFICATION Spec
CONSTANTS
  VM = {v1}
  Client = {c1, c2}
  NoVM = NoVM
  Faults = {"define", "start", "shutdown", "destroy", "undefine"}
  v1 = v1
  c1 = c1
  c2 = c2
SYMMETRY MCSymmetry
INVARIANTS OrphanExplained
PROPERTIES StorageOutlivesDomain

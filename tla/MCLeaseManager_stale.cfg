SPECIFICATION FairSpec
CONSTANTS
  VM = {v1}
  Client = {c1}
  NoVM = NoVM
  Faults = {"destroy", "crash"}
  v1 = v1
  v2 = v2
  c1 = c1
  c2 = c2
INVARIANTS TypeOK
PROPERTIES LeaseProtects  

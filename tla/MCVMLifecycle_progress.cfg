SPECIFICATION FairSpec
CONSTANTS
  VM = {v1}
  Client = {c1}
  NoVM = NoVM
  Faults = {"prepare", "define", "start", "shutdown", "destroy", "undefine"}
  v1 = v1
  c1 = c1
PROPERTIES InstallSettles DeleteCompletes

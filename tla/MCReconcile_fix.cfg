SPECIFICATION Spec
CONSTANTS
  Vm = {v1, v2}
  Dashed = {}
  Foreign = {f1}
  Device = {}
  Mine = {v1, v2}
  Client = {c1, c2}
  ImportId = {i1}
  NoName = NoName
  Faults = {"libvirt", "crash"}
  v1 = v1
  v2 = v2
  f1 = f1
  d1 = d1
  i1 = i1
  c1 = c1
  c2 = c2
INVARIANTS TypeOK OnlyGhostsPurged 
SYMMETRY Symmetry

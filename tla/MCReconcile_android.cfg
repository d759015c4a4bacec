SPECIFICATION Spec
CONSTANTS
  Vm = {v1}
  Dashed = {}
  Foreign = {}
  Device = {d1}
  Mine = {v1, d1}
  Client = {c1, c2}
  ImportId = {i1}
  NoName = NoName
  Faults = {}
  v1 = v1
  v2 = v2
  f1 = f1
  d1 = d1
  i1 = i1
  c1 = c1
  c2 = c2
INVARIANTS ConfirmedAbsent

SPECIFICATION Spec
CONSTANTS
  VM = {v1, v2}
  Call = {c1, c2, c3}
  Addr = {a1}
  NoAddr = NoAddr
  NoKey = NoKey
  NoVM = NoVM
  BoxerKey = TRUE
  Faults = {"crash", "keygen", "guest"}
  v1 = v1
  v2 = v2
  c1 = c1
  c2 = c2
  c3 = c3
  a1 = a1
  a2 = a2
INVARIANTS TypeOK KeyAccepted  RightGuest
SYMMETRY Symmetry
CHECK_DEADLOCK FALSE

SPECIFICATION Spec
CONSTANTS
  Device = {a1, a2, a3}
  Client = {c1, c2}
  Port = {54, 56}
  NoDevice = NoDevice
  NoPort = NoPort
  MaxEmulators = 1
  Faults = {"crash"}
  a1 = a1
  a2 = a2
  a3 = a3
  c1 = c1
  c2 = c2
INVARIANTS TypeOK CapBounded NoneLeftBehind
SYMMETRY Symmetry

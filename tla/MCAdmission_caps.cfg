SPECIFICATION FairSpec
CONSTANTS
  Request = {r1, r2, r3}
  Client = {c1}
  Runner = Runner
  NoRequest = NoRequest
  Project = {p1}
  ProjectOf <- OneProject
  Installer = {r1, r2, r3}
  Size <- MCSize
  Guess <- MCGuess
  HostSize = 3
  MaxDisk = 3
  MaxRunning = 1
  MaxInstalls = 1
  Faults = {"boot", "crash"}
  MaxRestarts = 1
  r1 = r1
  r2 = r2
  p1 = p1
  c1 = c1
CHECK_DEADLOCK FALSE
INVARIANTS TypeOK OvershootBounded InstallOvershootBounded NobodyForgotten
PROPERTIES ServedAtMostOnce PromotedWhenFree

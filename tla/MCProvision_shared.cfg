SPECIFICATION Spec
CONSTANTS
  VM = {v1, v2}
  Refresher = {r1}
  Digest = {d1, d2, bad}
  Published = {d1, d2}
  NoDigest = NoDigest
  SignatureRequired = TRUE
  Faults = {"crash", "forged", "subnet", "probe"}
  v1 = v1
  v2 = v2
  r1 = r1
  d1 = d1
  d2 = d2
  bad = bad
INVARIANTS TypeOK OnlyPublished OverlayBacked CurrentCached NetworkKept
SYMMETRY Symmetry
CHECK_DEADLOCK FALSE

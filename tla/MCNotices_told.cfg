SPECIFICATION Spec
CONSTANTS
  Call = {c1, c2}
  Event = {w1, w2, e1}
  Warn = {w1, w2}
  Error = {e1}
  Forced = {w1, w2}
  NoEvent = NoEvent
  NoticeLimit = 1
  PollLimit = 1
  Faults = {"crash", "connection", "notifier"}
  c1 = c1
  c2 = c2
  w1 = w1
  w2 = w2
  e1 = e1
INVARIANTS TypeOK NoticeAccounted TwiceOnlyOverlapping AllShown
PROPERTIES TakenInOrder NoticeDelivered
CHECK_DEADLOCK FALSE

CONSTANTS
  Worker = {w1, w2}
  Pusher = {p1}
  Id = {a, b, c, d}
  NoId = NoId
  LocalCapacity = 4
  GlobalCheckInterval = 2
  SpinLimit = 1
SPECIFICATION Spec
SYMMETRY Symmetry
INVARIANTS Conservation NoLostWakeup

SPECIFICATION Spec
CONSTANTS
  Worker = {w1}
  Spawner = {s1}
  Waker = {}
  Slot = {g1}
  NoSlot = NoSlot
  Route = {"iouring", "other"}
  CqBatch = 1
INVARIANT
  NoneStranded

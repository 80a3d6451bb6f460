SPECIFICATION SleepSpec
CONSTANTS
  Worker = {w1, w2}
  Spawner = {s1}
  Waker = {timer}
  Slot = {g1}
  NoSlot = NoSlot
  Route = {"iouring"}
  CqBatch = 1
  LongSleeps = FALSE
INVARIANT
  SingleRunner

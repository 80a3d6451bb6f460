SPECIFICATION SleepSpec
CONSTANTS
  Worker = {w1}
  Spawner = {s1}
  Waker = {timer}
  Slot = {g1}
  NoSlot = NoSlot
  Route = {"iouring"}
  CqBatch = 3
  LongSleeps = FALSE
INVARIANT
  SleeperKept

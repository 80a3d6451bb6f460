SPECIFICATION SleepFairSpec
CONSTANTS
  Worker = {w1, w2}
  Spawner = {s1}
  Waker = {timer}
  Slot = {g1, g2}
  NoSlot = NoSlot
  Route = {"iouring", "other"}
  CqBatch = 1
  LongSleeps = TRUE
CHECK_DEADLOCK FALSE
INVARIANTS
  OnePlace
  ResumesSaved
  SleeperKept
  EntryCurrent
PROPERTIES
  IoResumes
  ReadyRuns
  SleepEnds

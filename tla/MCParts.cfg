SPECIFICATION PartSpec
CONSTANTS
  \* SlotAllocator: three threads race for three slots
  Thread = {t1, t2, t3}
  MaxSlots = 3
  Modulus = 8
  MaxNone = 0
  \* Locks
  Locker = {t1, t2, t3}
  Rounds = 2
  \* Parking
  Parker = {t1, t2}
  Waker = {t3, t4}
  WakeLimit = 3
  \* Bitmap: two words, the second with one id
  Scanner = {t1, t2}
  LowScanner = {t2}
  MaxId = 3
  BlockSize = 2
  Levels = 2
  \* Cancel
  Token = {t1, t2, t3}
  MetaSlot = {t4}
  Checker = {0}
  NoToken = none
  \* Kmod: as many pages as an instance needs
  Caller = {t1, t2}
  Page = {1, 2, 3, 4, 5}
  RingPages = 2
  \* Channel
  Tx = {t1, t2}
  Rx = {r1, r2}
  Tx0 = t1
  Rx0 = r1
  Capacities = {1, 2}
  MsgLimit = 1
  \* HeapTimers
  TimerGvt = {t1}
  Delays = {0, 1, 3}
  Interval = 1
  MaxPoll = 2
  MinSleep = 1
  MaxTime = 4
  HandleLimit = 2
  \* Preempt
  Worker = {1}
  Gvt = {t1, t2}
  NoGvt = none
  Slice = 2
  \* LoadGen
  Connections = 2
  ExchangeLimit = 2
  \* Reactor
  Acceptor = a
  Conn = {b}
  Fd = {7}
  QueueCap = 1
  Batch = 2
  MaxComp = 1
  SqSize = 1
  RecvBuf = 2
  RespLen = 2
  Supported <- Probes
INVARIANTS
  NoDoubleAllocation Accounting FailsOnlyWhenFull
  NoLostUpdate NoLostSignal ScanExact CheckSeesCancel PagesHeld
  Delivered CalledBack FiresInTime Measured
  RequestAccounted StuckOnlyIfMissed FdOwned
PROPERTIES
  BlockedEnds FlaggedInTime

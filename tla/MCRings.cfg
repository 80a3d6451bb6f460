SPECIFICATION RingSpec
CONSTANTS
  p1 = p1
  p2 = p2
  \* Dispatcher
  Producer = {p1, p2}
  PoolWorker = {w1}
  OpLimit <- TwoAndOne
  SubmitSize = 1
  MaxBatch = 2
  MaxWorker = 2
  Sizings <- OneAndTwo
  None = None
  \* WorkerServer
  Worker = {1, 2}
  Pools = {{1}, {1, 2}}
  Acceptor = p1
  Conn = {p2}
  Fd = {1}
  MaxComp = 1
  SqSize = 1
  RecvBuf = 1
  RespLen = 2
  Supported <- Probes
  \* KsvcServer
  Servers <- servers
  ConnFd = {1, 2}
  FileFd = {11}
  ResponseLen = 2
INVARIANTS
  SubmitBounded Accounted InOneRing SomeoneAwake OneOperation FdHeld
PROPERTIES
  Answered ShutdownEnds Served

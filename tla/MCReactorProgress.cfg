SPECIFICATION ReactorFairSpec
CONSTANTS
  Acceptor = a
  Conn = {b}
  Fd = {1}
  QueueCap = 1
  Batch = 2
  MaxComp = 2
  SqSize = 2
  RecvBuf = 1
  RespLen = 1
  Supported <- AllFound
PROPERTY Progress

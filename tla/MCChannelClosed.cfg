SPECIFICATION ChannelSpec
CONSTANTS
  Tx = {t1}
  Rx = {r1}
  Tx0 = t1
  Rx0 = r1
  Capacities = {1}
  MsgLimit = 1
INVARIANT
  ClosedIsEmpty

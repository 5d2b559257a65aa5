SPECIFICATION FairSpec
CONSTANTS
  Conn = {k1, k2}
  Turn = {t1, t2}
  NoConn = NoConn
  NoTurn = NoTurn
PROPERTIES DeviceFreed StreamReleased
CHECK_DEADLOCK FALSE

SPECIFICATION Spec
CONSTANTS
  Conn = {k1, k2, k3}
  Turn = {t1}
  NoConn = NoConn
  NoTurn = NoTurn
PROPERTY StaleHandlerIsHarmless
CHECK_DEADLOCK FALSE

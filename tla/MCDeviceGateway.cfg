SPECIFICATION Spec
CONSTANTS
  Conn = {k1, k2, k3}
  Turn = {t1, t2, t3}
  NoConn = NoConn
  NoTurn = NoTurn
SYMMETRY Symmetry
PROPERTIES TurnHasKeeper StreamHasHandler StreamStaysIntact
CHECK_DEADLOCK FALSE

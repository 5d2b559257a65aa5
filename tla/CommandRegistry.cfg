SPECIFICATION LiveSpec
CONSTANTS
  Conn = {k1, k2, k3}
  Request = {r1, r2}
  None = None
  Limit = 1
INVARIANTS NoPendingFutureLeft SlotsAreCalls
PROPERTIES ImplementsRemoteCall CallsEnd
CHECK_DEADLOCK FALSE

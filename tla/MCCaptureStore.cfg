SPECIFICATION Spec
CONSTANTS
  Device = {d1}
  Capture = {c1, c2}
  Upload = {u1, u2}
  Content = {b1, b2}
  None = None
  Capacity = 1
SYMMETRY Symmetry
INVARIANTS SuccessIsProven AcksHold AbandonedIsClosed NobodyOversleeps
PROPERTIES ImplementsTransaction DeliveredIsProven
CHECK_DEADLOCK FALSE

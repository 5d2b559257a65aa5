SPECIFICATION LiveSpec
CONSTANTS
  Device = {d1}
  Capture = {c1}
  Upload = {u1, u2}
  Content = {b1, b2}
  None = None
  Capacity = 1
PROPERTIES CameraReleased
CHECK_DEADLOCK FALSE

SPECIFICATION LiveSpec
CONSTANTS
  Captures = 4
  NoticeLimit = 2
  Attempts = 3
INVARIANTS TypeOK WorkerHoldsGate
PROPERTIES ImplementsCameraSlot CameraIsFreed
CHECK_DEADLOCK FALSE

SPECIFICATION LiveSpec
CONSTANTS
  MaxGeneration = 3
  QueueLimit = 2
PROPERTIES LossIsReported ImplementsLink Recovers
CHECK_DEADLOCK FALSE

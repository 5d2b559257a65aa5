SPECIFICATION LiveSpec
CONSTANTS
  Segments = 3
  Interrupts = 2
INVARIANTS HeardInOrder ReturnedIsHeard
PROPERTIES ImplementsAnswer RunEnds
CHECK_DEADLOCK FALSE

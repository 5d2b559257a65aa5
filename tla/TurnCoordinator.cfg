SPECIFICATION FairSpec
CONSTANTS
  Device = {d1, d2}
  Turn = {t1, t2}
  Call = {c1, c2}
  NoTurn = NoTurn
  NoDevice = NoDevice
  TaskCapacity = 1
INVARIANTS NoOverlap ActiveTurnHasOwner
PROPERTIES NoLateTransition HandOver ImplementsSlot CancelReleases SubmittedTurnEnds
CHECK_DEADLOCK FALSE

SPECIFICATION LiveSpec
CONSTANTS
  Streams = 2
  Segments = 1
  Inputs = 1
  WireLimit = 1
  QueueLimit = 2
  Preroll = 2
  DecodeLimit = 1
  PlayLimit = 1
  FailureLimit = 1
  InvalidLimit = 2
  CommandLimit = 1
INVARIANTS StateMatchesStreams PlaysItsStream
PROPERTIES ImplementsConversation LateControlIsHarmless SpeakingEnds
CHECK_DEADLOCK FALSE

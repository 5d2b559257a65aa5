SPECIFICATION Spec
CONSTANTS
  Captures = 2
  NoticeLimit = 2
  Attempts = 1
PROPERTY CompletionFollowsJoin
CHECK_DEADLOCK FALSE

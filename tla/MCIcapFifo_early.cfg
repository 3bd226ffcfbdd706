CONSTANTS
  QueueSize = 3
  Pool = 4
  MaxMsgs = 2
  MaxSessions = 1
  Isr = TRUE
  Quiet = FALSE
SPECIFICATION Spec
INVARIANT Saved
CHECK_DEADLOCK FALSE

CONSTANTS
  QueueSize = 3
  Pool = 4
  MaxMsgs = 6
  MaxSessions = 2
  Isr = FALSE
  Quiet = TRUE
SPECIFICATION FairSpec
INVARIANTS TypeOK HeldExact SlotStable
PROPERTIES Implements GivenBack

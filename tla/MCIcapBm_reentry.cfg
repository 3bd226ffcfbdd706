CONSTANTS
  Implemented = {"START", "ADD_SRC"}
  Cmd <- MCOneCmd
  Note <- MCNote
  Ret <- MCOneRet
  Addr = {dev}
  Unknown = unknown
  QueueSize = 3
  SeqMod = 3
  ClockMod = 2
  MsgTimeout = 1
  MaxLapse = 1
  Reentrant = TRUE
  MaxCalls = 1
  MaxDepth = 2
  MaxNotes = 1
  MaxSessions = 0
  NoCall = noCall
SPECIFICATION Spec
INVARIANT HandledOnce
CHECK_DEADLOCK FALSE

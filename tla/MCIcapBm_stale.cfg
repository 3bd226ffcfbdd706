CONSTANTS
  Implemented = {"START", "ADD_SRC"}
  Cmd <- MCOneCmd
  Note <- MCNote
  Ret <- MCOneRet
  Addr = {dev}
  Unknown = unknown
  QueueSize = 3
  SeqMod = 3
  ClockMod = 2
  MsgTimeout = 1
  MaxLapse = 1
  Reentrant = FALSE
  MaxCalls = 2
  MaxDepth = 1
  MaxNotes = 1
  MaxSessions = 1
  NoCall = noCall
SPECIFICATION Spec
INVARIANT OwnReply
CHECK_DEADLOCK FALSE

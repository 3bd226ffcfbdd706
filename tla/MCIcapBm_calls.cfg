CONSTANTS
  Implemented = {"START", "ADD_SRC"}
  Cmd <- MCOneCmd
  Note <- MCNote
  Ret <- MCRet
  Addr = {dev}
  Unknown = unknown
  QueueSize = 2
  SeqMod = 4
  ClockMod = 3
  MsgTimeout = 2
  MaxLapse = 1
  Reentrant = FALSE
  MaxCalls = 3
  MaxDepth = 1
  MaxNotes = 1
  MaxSessions = 0
  NoCall = noCall
SPECIFICATION FairSpec
INVARIANTS OwnReply
PROPERTIES Implements CallsReturn

CONSTANTS
  Implemented = {"START", "ADD_SRC"}
  Cmd <- MCOneCmd
  Note <- MCNote
  Ret <- MCOneRet
  Addr = {dev, other}
  Unknown = unknown
  QueueSize = 2
  SeqMod = 3
  ClockMod = 2
  MsgTimeout = 1
  MaxLapse = 1
  Reentrant = FALSE
  MaxCalls = 2
  MaxDepth = 1
  MaxNotes = 2
  MaxSessions = 1
  NoCall = noCall
SPECIFICATION Spec
INVARIANTS TypeOK OneToOne HandledOnce ReleasedOnce
PROPERTIES TimeoutExact FreeNumbersSuffice

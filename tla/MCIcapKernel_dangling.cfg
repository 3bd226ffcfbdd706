CONSTANTS
  Implemented = {"START", "ADD_SRC"}
  Thread = {t1}
  Callback = {}
  Cmd <- MCOneCmd
  Ret <- MCOneRet
  MaxCalls = 1
  MaxSessions = 0
  SeqMod = 2
  Quiesced = FALSE
  FreshChannel = TRUE
  Skb = {b1, b2}
  Garbage = {99}
  NoSkb = NoSkb
  NoCall = NoCall
  NoMsg = NoMsg
  Free = Free
SPECIFICATION Spec
INVARIANT NoDangling
CHECK_DEADLOCK FALSE

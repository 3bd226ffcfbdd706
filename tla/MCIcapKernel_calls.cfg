CONSTANTS
  Implemented = {"START", "ADD_SRC"}
  Thread = {t1, t2}
  Callback = {}
  Cmd <- MCOneCmd
  Ret <- MCOneRet
  MaxCalls = 3
  MaxSessions = 1
  SeqMod = 2
  Quiesced = TRUE
  FreshChannel = FALSE
  Skb = {b1, b2}
  Garbage = {99}
  NoSkb = NoSkb
  NoCall = NoCall
  NoMsg = NoMsg
  Free = Free
SPECIFICATION Spec
PROPERTY FreeNumbersSuffice
VIEW Unrecorded

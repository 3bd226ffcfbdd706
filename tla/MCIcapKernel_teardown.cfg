CONSTANTS
  Implemented = {"START", "ADD_SRC"}
  Thread = {t1, t2}
  Callback = {}
  Cmd <- MCOneCmd
  Ret <- MCOneRet
  MaxCalls = 2
  MaxSessions = 1
  SeqMod = 2
  Quiesced = FALSE
  FreshChannel = TRUE
  Skb = {b1, b2}
  Garbage = {99}
  NoSkb = NoSkb
  NoCall = NoCall
  NoMsg = NoMsg
  Free = Free
SPECIFICATION Spec
INVARIANTS TypeOK OwnReply NumberFree FilledOnce NotifyLive QueueOwned
PROPERTIES NoSendAfterClose ReturnsOwn
CHECK_DEADLOCK FALSE

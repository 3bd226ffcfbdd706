CONSTANTS
  Implemented = {"START", "ADD_SRC"}
  Thread = {t1, t2}
  Callback = {t2}
  Cmd <- MCThreeCmd
  Ret <- MCRet
  MaxCalls = 2
  MaxSessions = 0
  SeqMod = 3
  Quiesced = TRUE
  FreshChannel = TRUE
  Skb = {b1, b2}
  Garbage = {99}
  NoSkb = NoSkb
  NoCall = NoCall
  NoMsg = NoMsg
  Free = Free
SPECIFICATION FairSpec
INVARIANTS ReplyFits BufferFound
PROPERTIES Implements CallsReturn

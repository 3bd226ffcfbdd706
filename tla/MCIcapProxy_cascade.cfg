CONSTANTS
  Implemented = {"START", "GET_DEV_FEATURES"}
  Thread = {t1, t2}
  Proxy = proxy
  Cmd <- MCCmd
  Ret <- MCRet
  LocalError <- MCLocalError
  NoCall = noCall
  MaxCalls = 3
SPECIFICATION Spec
INVARIANTS TypeOK
PROPERTIES Implements

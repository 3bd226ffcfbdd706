CONSTANTS
  Implemented = {}
  Pairings <- MCPairings
  Context = {main, isr}
  Isr = isr
  Nested = {"bm"}
  Note <- MCNote
  Arg = {1}
  Ret <- MCRet
  Heeded = {"FRAG_READY"}
  Listening <- MCNote
  SeqMod = 2
  Quiesced = TRUE
  MaxNotes = 2
  MaxSessions = 1
  NoMsg = noMsg
  NoContext = noContext
SPECIFICATION FairSpec
INVARIANTS TypeOK NumbersUnique
PROPERTIES Implements SendsReturn

SPECIFICATION FairSpec
CONSTANTS
  a1 = a1
  a2 = a2
  acc = acc
  io = io
  NoThread = NoThread
  Threads <- OneAppThreads
  Apps <- OneApp
  Acc <- acc
  Io <- io
  Units <- MCUnits
  Msgs <- MCMsgs
  PackSize = 2
  MaxBuffer = 3
  SndBuf = 2
  MaxAccepted = 1
  MaxChunks = 0
  Serving = TRUE
PROPERTIES EveryCloseNotified

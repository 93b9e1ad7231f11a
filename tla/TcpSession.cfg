SPECIFICATION Spec
CONSTANTS
  a1 = a1
  a2 = a2
  acc = acc
  io = io
  NoThread = NoThread
  Threads <- TwoAppsThreads
  Apps <- TwoApps
  Acc <- acc
  Io <- io
  Units <- MCUnits
  Msgs <- MCMsgs
  PackSize = 2
  MaxBuffer = 3
  SndBuf = 2
  MaxAccepted = 3
  MaxChunks = 2
  Serving = FALSE
INVARIANTS
  InterestAgrees OneCloseRequest
  StreamIntact BufferPinned WritingMeansInFlight DrainedBeforeClose
PROPERTIES KeepsReactorProtocol KeepsPromise

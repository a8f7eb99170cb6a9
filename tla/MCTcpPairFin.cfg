SPECIFICATION FairSpec
CONSTANTS
  SeqSpace = 64
  WinSize = 2
  UserTimeout = 1
  TimeWaitTimeout = 1
  RtxTimeout = 0
  Iss <- MCIss
  Mss = 1
  SndBufSize = 1
  Stream <- PassiveSpeaks
  RecvSize = 2
  Readers = {"A", "B"}
  Closers = {"B"}
  TxOk = {TRUE}
  Lossy = FALSE
  InOrder = TRUE
  MaxNet <- Wide
INVARIANTS
  TypeOK
  RecvNoLostWakeup
  SendNoLostWakeup
PROPERTIES
  ImplementsStream
  SendReturns

SPECIFICATION DeliverySpec
CONSTANTS
  SeqSpace = 64
  WinSize = 2
  UserTimeout = 1
  TimeWaitTimeout = 1
  RtxTimeout = 0
  Iss <- MCIss
  Mss = 1
  SndBufSize = 1
  Stream <- ActiveSpeaks
  RecvSize = 2
  Readers = {"B"}
  Closers = {}
  TxOk = {TRUE}
  Lossy = FALSE
  InOrder = TRUE
  MaxNet <- Wide
PROPERTIES
  HeldIsSent

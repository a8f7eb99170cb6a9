SPECIFICATION Spec
CONSTANTS
  SeqSpace = 64
  WinSize = 4
  UserTimeout = 1
  TimeWaitTimeout = 1
  RtxTimeout = 0
  Iss <- MCIss
  Mss = 2
  SndBufSize = 3
  Stream <- PassiveFills
  RecvSize = 3
  Readers = {"A"}
  Closers = {}
  TxOk = {TRUE}
  Lossy = TRUE
  InOrder = FALSE
  MaxNet <- Narrow
INVARIANTS
  UnackedQueued
  AckedDelivered
  WindowAccounts
PROPERTIES
  ImplementsStream

SPECIFICATION FairSpec
CONSTANTS
  SeqSpace = 16
  WinSize = 2
  UserTimeout = 0
  TimeWaitTimeout = 0
  RtxTimeout = 0
  NCb = 2
  t1 = t1
  t2 = t2
  p1 = p1
  p2 = p2
  Threads = {t1, t2}
  Peers = {p1}
  NoPeer = NoPeer
  Ports = {80}
  Ephemeral = {}
  Targets = {}
  NoRoute = {}
  IssSet <- MCIss
  Segments <- CloseSegments
  TxOk = {TRUE}
  Shared = TRUE
  FreshListen = TRUE
  MaxBacklog = 2
  MaxTxq = 2
PROPERTIES
  ClosingEnds

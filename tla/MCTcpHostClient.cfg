SPECIFICATION FairSpec
CONSTANTS
  SeqSpace = 16
  WinSize = 2
  UserTimeout = 0
  TimeWaitTimeout = 0
  RtxTimeout = 0
  NCb = 2
  t1 = t1
  t2 = t2
  p1 = p1
  p2 = p2
  Threads = {t1, t2}
  Peers = {p1}
  NoPeer = NoPeer
  Ports = {}
  Ephemeral = {49152, 49153}
  Targets = {p1}
  NoRoute = {p1}
  IssSet <- MCIss
  Segments <- ServerSegments
  TxOk = {TRUE, FALSE}
  Shared = FALSE
  FreshListen = TRUE
  MaxBacklog = 2
  MaxTxq = 2
INVARIANTS
  ConnectNoLostWakeup
PROPERTIES
  ConnectReturns

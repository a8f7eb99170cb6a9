SPECIFICATION FairSpec
CONSTANTS
  SeqSpace = 16
  WinSize = 2
  UserTimeout = 1
  TimeWaitTimeout = 1
  RtxTimeout = 1
  NCb = 2
  t1 = t1
  t2 = t2
  p1 = p1
  p2 = p2
  Threads = {t1}
  Peers = {p1, p2}
  NoPeer = NoPeer
  Ports = {80}
  Ephemeral = {}
  Targets = {}
  NoRoute = {}
  IssSet <- MCIss
  Segments <- CloseSegments
  TxOk = {TRUE, FALSE}
  Shared = TRUE
  FreshListen = TRUE
  MaxBacklog = 2
  MaxTxq = 2
INVARIANTS
  TypeOK
  SndInv
PROPERTIES
  HalfOpenReclaimed

SPECIFICATION FairSpec
CONSTANTS
  NEntries = 2
  Callers = {app, rxt}
  TcpThreads = {app}
  SendThreads = {app}
  RxThread = rxt
  NoThread = nothread
  MaxPackets = 1
  Hosts = {h1, h2}
  Me = me
  Elsewhere = elsewhere
  HwOf <- MCHwOf
  Any = any
  NoHost = nohost
  NoMsg = nomsg
  ARP_TABLE_TIMEOUT_SEC = 1
  PatrolPeriod = 0
  ResolveTimeout = 1
PROPERTY FramesHandled

SPECIFICATION FairSpec
CONSTANTS
  NEntries = 2
  Callers = {app, timer, rxt}
  TcpThreads = {app, timer}
  SendThreads = {}
  RxThread = rxt
  NoThread = nothread
  MaxPackets = 2
  Hosts = {h1, h2}
  Me = me
  Elsewhere = elsewhere
  HwOf <- MCHwOf
  Any = any
  NoHost = nohost
  NoMsg = nomsg
  ARP_TABLE_TIMEOUT_SEC = 1
  PatrolPeriod = 0
  ResolveTimeout = 1
INVARIANTS
  TypeOK
  NoUseAfterClose
PROPERTIES
  CallReturns
  FramesHandled
  StopReturns

SPECIFICATION ArpFairSpec
CONSTANTS
  NEntries = 3
  Callers = {c1, c2}
  Hosts = {h1, h2}
  Me = me
  Elsewhere = elsewhere
  HwOf <- MCHwOf
  Any = any
  NoHost = nohost
  NoMsg = nomsg
  ARP_TABLE_TIMEOUT_SEC = 0
  PatrolPeriod = 0
  ResolveTimeout = 1
INVARIANTS
  ArpTypeOK
  TableTrue
  AtMostTwice
  ArpNoLostWakeup
PROPERTIES
  ResolveReturns
  PendingEnds

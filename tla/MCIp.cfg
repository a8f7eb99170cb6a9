SPECIFICATION Spec
CONSTANTS
  Calls = {1, 2, 3}
  Datagram <- MCDatagram
  Local = {9, 31}
  Protocols = {6}
  FirstId = 3
  IdSpace = 4
  Unit = 2
  OffsetSpace = 8
  Version = 1
  IhlSpace = 16
  Ttl = 31
  Mtu = 6
  MinPayload = 2
  MaxLen = 15
  IP_FRAGMENT_NUM_MAX = 2
  IP_FRAGMENT_TIMEOUT_SEC = 1
  Failing = TRUE
  WordBits = 4
  MaskWords = 4
  Modulus = 32
INVARIANTS
  TypeOK
  DataAgrees
  NoneWhole
  ListBounded
PROPERTIES
  ImplementsDatagram

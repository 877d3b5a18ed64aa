SPECIFICATION Spec
CONSTANTS
  MAX_CONNECTIONS = 2
  DEFAULT_PACKET_SIZE = 1
  Fds = {1, 2}
  StdFds = {}
  Bufs = {b1, b2}
  Addrs = {a1, a2}
  Sizes = {1}
  MaxInbox = 0
  MaxIds = 0
  Faults = {"SEND_FAILED"}
  NULL = NULL
  MAX_BUFFERED_PACKETS = 2
  UINT16 = 4
  PacketSizes = {1, 5}
  MaxSends = 2
SYMMETRY Symmetry
INVARIANTS
  DatagramKept
  AddressesStable
PROPERTIES
  QueueSpec

SPECIFICATION Spec
CONSTANTS
  MAX_CONNECTIONS = 1
  DEFAULT_PACKET_SIZE = 1
  Fds = {1}
  StdFds = {}
  Bufs = {b1}
  Addrs = {a1}
  Sizes = {1}
  MaxInbox = 0
  MaxIds = 0
  Faults = {"SEND_FAILED"}
  NULL = NULL
  MAX_BUFFERED_PACKETS = 2
  UINT16 = 4
  PacketSizes = {1, 4}
  MaxSends = 2
INVARIANT
  BufferedNotLost

SPECIFICATION ConnsSpec
CONSTANTS
  MAX_CONNECTIONS = 2
  DEFAULT_PACKET_SIZE = 1
  Fds = {0, 1, 2}
  StdFds = {0}
  Bufs = {b1, b2, b3}
  Addrs = {a1}
  Sizes = {1}
  MaxInbox = 0
  MaxIds = 0
  Faults = {"ASYNCIFY_FAILED"}
  NULL = NULL
INVARIANT
  AsyncifyMeansBlocking

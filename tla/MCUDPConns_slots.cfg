SPECIFICATION ConnsFairSpec
CONSTANTS
  MAX_CONNECTIONS = 3
  DEFAULT_PACKET_SIZE = 1
  Fds = {0, 1, 2, 3}
  StdFds = {0}
  Bufs = {b1, b2, b3}
  Addrs = {a1}
  Sizes = {1}
  MaxInbox = 0
  MaxIds = 0
  Faults = {"BIND_FAILED", "CONNECT_FAILED"}
  NULL = NULL
INVARIANTS
  FreeListSound
  BlockOwnership
  OverflowMeansCycle
  DoubleFreeMeansBackLink
  DestructorFrees
  DescriptorsDistinct
PROPERTIES
  CloseReach
  CloseTerminates

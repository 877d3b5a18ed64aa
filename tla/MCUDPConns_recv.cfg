SPECIFICATION ConnsSpec
CONSTANTS
  MAX_CONNECTIONS = 2
  DEFAULT_PACKET_SIZE = 1
  Fds = {0, 1}
  StdFds = {}
  Bufs = {b1, b2}
  Addrs = {a1, a2}
  Sizes = {2}
  MaxInbox = 1
  MaxIds = 2
  Faults = {"RECV_FAILED", "NO_MEMORY", "POLL_FAILED", "INVALID_ADDR", "SOCKET_CREATION_FAILED", "SEND_FAILED", "FAILED_TO_READ_IO_LEN"}
  NULL = NULL
SYMMETRY Symmetry
INVARIANTS
  ConnsTypeOK
  SlotAccounting
  SpanInBuffer
  FromIsSender
  PollAnswersHold

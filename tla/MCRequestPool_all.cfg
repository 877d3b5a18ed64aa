SPECIFICATION FairSpec
CONSTANTS
  MAX_CONCURRENT_REQUESTS = 2
  Codes = {"CURLE_OK", "CURLE_OPERATION_TIMEDOUT"}
  MaxChunks = 3
  MaxStarts = 2
  NULL = NULL
INVARIANTS
  OwnersMatch
  ResponsesAccounted
  LatestIntact
  OutcomeIsOwn
  ActiveCount
  ExhaustedOnly
PROPERTY
  StartedFinishes

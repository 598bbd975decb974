SPECIFICATION FairSpec
CONSTANTS
  MaxRequests = 3
  Type = "SyncTransaction"
  StoreRequests = {2}
  Channel <- SharedChannel
  Cancellable = TRUE
  ForeignErrors = TRUE
  LosesChannels = TRUE
INVARIANT OneAfterTheOther
PROPERTIES
  Decides
CHECK_DEADLOCK FALSE

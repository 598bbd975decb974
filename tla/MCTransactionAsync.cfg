SPECIFICATION Spec
CONSTANTS
  MaxRequests = 3
  Type = "AsyncTransaction"
  StoreRequests = {3}
  Channel <- SharedChannel
  Cancellable = TRUE
  ForeignErrors = TRUE
  LosesChannels = TRUE
INVARIANTS
  TypeOK
  OneOutcome
  CompleteMeansAnswered
PROPERTY KeepsPromise
CHECK_DEADLOCK FALSE

SPECIFICATION FairSpec
CONSTANTS
  p1 = p1
  p2 = p2
  Publishers = {p1, p2}
  Dispatch = {1, 2}
  MaxHandlers = 2
  MaxCalls = 2
  Waiters = {p2}
  Cancellable = {p1}
INVARIANTS
  TypeOK
  RunOnceAtMostOnce
  NestedFireWaitsUpward
PROPERTIES
  FireNilMeansQuiescent
  CallsReturn
  FiredIsDelivered
CHECK_DEADLOCK FALSE

SPECIFICATION Spec
CONSTANTS
  None = None
  Nil = Nil
  service1 = service1
  service2 = service2
  Services = {service1, service2}
  Calls = {call1, call2, call3}
  Requests = {request1, request2}
  Paths <- MCPaths
  Methods <- MCMethods
  BridgesOf <- MCBridgesOf
  OverridesOf <- MCOverridesOf
  ByHandOf <- MCByHandOf
  PayloadCap = 1
SYMMETRY Alike
CONSTRAINT FewAsked
INVARIANTS
  TypeOK
  RoutesFollowServices
  EndpointsAreServed
  OwnAnswer
CHECK_DEADLOCK FALSE

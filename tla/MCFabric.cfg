SPECIFICATION Spec
CONSTANTS
  None = None
  Topic = Topic
  client1 = client1
  client2 = client2
  first = first
  second = second
  fallback1 = fallback1
  fallback2 = fallback2
  response = response
  Clients = {client1, client2}
  Routes = {first, second}
  Fallbacks = {fallback1, fallback2}
  Messages = {response}
  MaxDestroyed = 1
SYMMETRY Alike
INVARIANTS
  TypeOK
  ForwardedOnce
  ChannelIsForwarded
  NothingLeftListening
CHECK_DEADLOCK FALSE
